------------------------------ MODULE DevServe ------------------------------
(***************************************************************************)
(* Publication to browsers: sse.rs, the GET path of http.rs, the accept    *)
(* loop of server.rs and the injected script of dev_client.rs, on top of   *)
(* DevPublication.                                                         *)
(*                                                                         *)
(* Each event stream is served by its own thread: it writes the headers,   *)
(* registers a wake channel of capacity one, and then announces the        *)
(* current generation once and again after every wake.  A tab opens one    *)
(* event stream per loaded page, compares each announced generation with   *)
(* the build injected into the page, and reloads when they differ.         *)
(* Connections may drop at any moment; EventSource reconnects.             *)
(***************************************************************************)
EXTENDS DevPublication, Sequences

CONSTANTS
    Tabs,        \* browser tabs
    PathOf,      \* PathOf[t]: the page tab t is on
    Conns,       \* event-stream connections (one server thread each)
    NoConn,
    MaxFaults    \* bound: lost connections and lost responses

ASSUME ServeAssumption ==
    /\ PathOf \in [Tabs -> Pages]
    /\ NoConn \notin Conns
    /\ MaxFaults \in Nat

VARIABLES
    clients,   \* registered SseClients
    wake,      \* wake[c]: messages in the client's sync_channel(1)
    cpc,       \* cpc[c]: position of the connection's thread
    said,      \* said[c]: generation the thread read last
    up,        \* connections the browser has not closed
    wire,      \* wire[c]: events written and not yet handled by the tab
    tpc,       \* tpc[t]: "closed", "loading", "answered", "shown", "lost"
    answer,    \* answer[t]: build number in the captured response
    page,      \* page[t]: build number of the document last shown
    conn,      \* conn[t]: the EventSource of the shown document
    faults

sseVars == <<clients, wake, cpc, said>>
tabVars == <<up, wire, tpc, answer, page, conn, faults>>
vars == <<publicationVars, sseVars, tabVars>>

CPCs == {"free", "headers", "register", "announce", "write", "wait", "leave"}
TPCs == {"closed", "loading", "answered", "shown", "lost"}

(* Every variable has its type; no client's channel holds two wakes.       *)
TypeOK ==
    /\ PublicationTypeOK
    /\ clients \in SUBSET Conns
    /\ wake \in [Conns -> {0, 1}]
    /\ cpc \in [Conns -> CPCs]
    /\ said \in [Conns -> 0..MaxBuilds]
    /\ up \in SUBSET Conns
    /\ wire \in [Conns -> Seq(0..MaxBuilds)]
    /\ tpc \in [Tabs -> TPCs]
    /\ answer \in [Tabs -> 0..MaxBuilds]
    /\ page \in [Tabs -> 0..MaxBuilds]
    /\ conn \in [Tabs -> Conns \cup {NoConn}]
    /\ faults \in 0..MaxFaults

Init ==
    /\ PublicationInit
    /\ clients = {}
    /\ wake = [c \in Conns |-> 0]
    /\ cpc = [c \in Conns |-> "free"]
    /\ said = [c \in Conns |-> 0]
    /\ up = {}
    /\ wire = [c \in Conns |-> <<>>]
    /\ tpc = [t \in Tabs |-> "closed"]
    /\ answer = [t \in Tabs |-> 0]
    /\ page = [t \in Tabs |-> 0]
    /\ conn = [t \in Tabs |-> NoConn]
    /\ faults = 0

-----------------------------------------------------------------------------
(* The builder.                                                            *)
Cycle == CycleOutcome /\ UNCHANGED <<sseVars, tabVars>>

Publish == PublishOutcome /\ UNCHANGED <<sseVars, tabVars>>

(* Mutants of Broadcast: only waiting streams are woken, or wakes pile up. *)
BroadcastToWaiting ==
    /\ bpc = "broadcast"
    /\ wake' = [c \in Conns |-> IF c \in clients /\ cpc[c] = "wait"
                               THEN 1 ELSE wake[c]]
    /\ bpc' = "idle"
    /\ UNCHANGED <<version, ok, errorVersion, servedVersion, servedPages,
                   outcome, nextVersion, clients, cpc, said, tabVars>>

(* broadcast_generation: one pass under the clients lock.  A full channel  *)
(* already holds a wake.                                                   *)
Broadcast ==
    /\ bpc = "broadcast"
    /\ wake' = [c \in Conns |-> IF c \in clients THEN 1 ELSE wake[c]]
    /\ bpc' = "idle"
    /\ UNCHANGED <<version, ok, errorVersion, servedVersion, servedPages,
                   outcome, nextVersion, clients, cpc, said, tabVars>>

-----------------------------------------------------------------------------
(***************************************************************************)
(* The thread of event stream c.  A write to a connection the browser      *)
(* closed may still succeed, into a buffer nobody reads.                   *)
(***************************************************************************)
WriteOutcomes(c, next) == IF c \in up THEN {next} ELSE {next, "leave"}

(* A failed header write returns before the client was registered.         *)
WriteHeaders(c) ==
    /\ cpc[c] = "headers"
    /\ \E next \in WriteOutcomes(c, "register") :
         cpc' = [cpc EXCEPT ![c] = IF next = "leave" THEN "free" ELSE next]
    /\ UNCHANGED <<publicationVars, clients, wake, said, tabVars>>

(* Mutant of RegisterClient: nothing is announced on connecting.           *)
RegisterClientSilent(c) ==
    /\ cpc[c] = "register"
    /\ clients' = clients \cup {c}
    /\ wake' = [wake EXCEPT ![c] = 0]
    /\ said' = [said EXCEPT ![c] = version]
    /\ cpc' = [cpc EXCEPT ![c] = "wait"]
    /\ UNCHANGED <<publicationVars, tabVars>>

RegisterClient(c) ==
    /\ cpc[c] = "register"
    /\ clients' = clients \cup {c}
    /\ wake' = [wake EXCEPT ![c] = 0]
    /\ cpc' = [cpc EXCEPT ![c] = "announce"]
    /\ UNCHANGED <<publicationVars, said, tabVars>>

ReadGeneration(c) ==
    /\ cpc[c] = "announce"
    /\ said' = [said EXCEPT ![c] = version]
    /\ cpc' = [cpc EXCEPT ![c] = "write"]
    /\ UNCHANGED <<publicationVars, clients, wake, tabVars>>

WriteGeneration(c) ==
    /\ cpc[c] = "write"
    /\ \E next \in WriteOutcomes(c, "wait") :
         cpc' = [cpc EXCEPT ![c] = next]
    /\ wire' = IF c \in up THEN [wire EXCEPT ![c] = Append(@, said[c])]
               ELSE wire
    /\ UNCHANGED <<publicationVars, clients, wake, said, up, tpc, answer,
                   page, conn, faults>>

ReceiveWake(c) ==
    /\ cpc[c] = "wait"
    /\ wake[c] = 1
    /\ wake' = [wake EXCEPT ![c] = 0]
    /\ cpc' = [cpc EXCEPT ![c] = "announce"]
    /\ UNCHANGED <<publicationVars, clients, said, tabVars>>

(* A keep-alive after 5 silent seconds; it matters only when it fails.    *)
KeepAlive(c) ==
    /\ cpc[c] = "wait"
    /\ wake[c] = 0
    /\ c \notin up
    /\ cpc' = [cpc EXCEPT ![c] = "leave"]
    /\ UNCHANGED <<publicationVars, clients, wake, said, tabVars>>

RemoveClient(c) ==
    /\ cpc[c] = "leave"
    /\ clients' = clients \ {c}
    /\ cpc' = [cpc EXCEPT ![c] = "free"]
    /\ UNCHANGED <<publicationVars, wake, said, tabVars>>

-----------------------------------------------------------------------------
(***************************************************************************)
(* The browser.  The listener is bound only after the first build cycle.   *)
(***************************************************************************)
(* A visit.  Retrying by hand after a 404 or a lost response is the visit  *)
(* of another tab.                                                         *)
Navigate(t) ==
    /\ tpc[t] = "closed"
    /\ version > 0
    /\ tpc' = [tpc EXCEPT ![t] = "loading"]
    /\ UNCHANGED <<publicationVars, sseVars, up, wire, answer, page, conn,
                   faults>>

(* The GET handler captures the response under the publication lock and    *)
(* sends it after releasing the lock.                                      *)
CaptureResponse(t) ==
    /\ tpc[t] = "loading"
    /\ answer' = [answer EXCEPT ![t] = PreparedResponse(PathOf[t])]
    /\ tpc' = [tpc EXCEPT ![t] = "answered"]
    /\ UNCHANGED <<publicationVars, sseVars, up, wire, page, conn, faults>>

(* A document with the dev client is shown; a 404 leaves the tab without.  *)
ShowResponse(t) ==
    /\ tpc[t] = "answered"
    /\ \/ /\ answer[t] # NotFound
          /\ page' = [page EXCEPT ![t] = answer[t]]
          /\ tpc' = [tpc EXCEPT ![t] = "shown"]
       \/ /\ answer[t] = NotFound
          /\ tpc' = [tpc EXCEPT ![t] = "lost"]
          /\ UNCHANGED page
    /\ UNCHANGED <<publicationVars, sseVars, up, wire, answer, conn, faults>>

LoseResponse(t) ==
    /\ tpc[t] \in {"loading", "answered"}
    /\ faults < MaxFaults
    /\ faults' = faults + 1
    /\ tpc' = [tpc EXCEPT ![t] = "lost"]
    /\ UNCHANGED <<publicationVars, sseVars, up, wire, answer, page, conn>>

(* EventSource connects, and reconnects whenever its stream is gone.       *)
Connect(t, c) ==
    /\ tpc[t] = "shown"
    /\ conn[t] = NoConn
    /\ cpc[c] = "free"
    /\ cpc' = [cpc EXCEPT ![c] = "headers"]
    /\ up' = up \cup {c}
    /\ wire' = [wire EXCEPT ![c] = <<>>]
    /\ conn' = [conn EXCEPT ![t] = c]
    /\ UNCHANGED <<publicationVars, clients, wake, said, tpc, answer, page,
                   faults>>

(* Mutant of HandleGeneration: every announcement reloads.                 *)
HandleGenerationAlways(t, c) ==
    /\ tpc[t] = "shown"
    /\ conn[t] = c
    /\ wire[c] # <<>>
    /\ tpc' = [tpc EXCEPT ![t] = "loading"]
    /\ conn' = [conn EXCEPT ![t] = NoConn]
    /\ up' = up \ {c}
    /\ wire' = [wire EXCEPT ![c] = <<>>]
    /\ UNCHANGED <<publicationVars, sseVars, answer, page, faults>>

(* The generation listener: reload only on a different generation, which   *)
(* closes the document's stream.                                           *)
HandleGeneration(t, c) ==
    /\ tpc[t] = "shown"
    /\ conn[t] = c
    /\ wire[c] # <<>>
    /\ \/ /\ Head(wire[c]) # page[t]
          /\ tpc' = [tpc EXCEPT ![t] = "loading"]
          /\ conn' = [conn EXCEPT ![t] = NoConn]
          /\ up' = up \ {c}
          /\ wire' = [wire EXCEPT ![c] = <<>>]
       \/ /\ Head(wire[c]) = page[t]
          /\ wire' = [wire EXCEPT ![c] = Tail(@)]
          /\ UNCHANGED <<tpc, conn, up>>
    /\ UNCHANGED <<publicationVars, sseVars, answer, page, faults>>

DropConnection(t, c) ==
    /\ conn[t] = c
    /\ faults < MaxFaults
    /\ faults' = faults + 1
    /\ up' = up \ {c}
    /\ wire' = [wire EXCEPT ![c] = <<>>]
    /\ conn' = [conn EXCEPT ![t] = NoConn]
    /\ UNCHANGED <<publicationVars, sseVars, tpc, answer, page>>

-----------------------------------------------------------------------------
SseThread(c) ==
    \/ WriteHeaders(c) \/ RegisterClient(c) \/ ReadGeneration(c)
    \/ WriteGeneration(c) \/ ReceiveWake(c) \/ KeepAlive(c) \/ RemoveClient(c)

Browser(t) ==
    \/ CaptureResponse(t) \/ ShowResponse(t)
    \/ \E c \in Conns : Connect(t, c) \/ HandleGeneration(t, c)

Environment ==
    \E t \in Tabs :
        \/ Navigate(t) \/ LoseResponse(t)
        \/ \E c \in Conns : DropConnection(t, c)

Next ==
    \/ Cycle \/ Publish \/ Broadcast
    \/ \E c \in Conns : SseThread(c)
    \/ \E t \in Tabs : Browser(t)
    \/ Environment

Spec == Init /\ [][Next]_vars

(* Every thread keeps running and every tab keeps its event loop; a write  *)
(* to a closed stream fails eventually.  Nobody promises a build, a visit  *)
(* or a fault.                                                             *)
Fairness ==
    /\ WF_vars(Publish) /\ WF_vars(Broadcast)
    /\ \A c \in Conns : WF_vars(SseThread(c))
    /\ \A t \in Tabs : WF_vars(Browser(t))

FairSpec == Spec /\ Fairness

-----------------------------------------------------------------------------
(* sse.rs:103-105 "no generation can fall between the snapshot and         *)
(* subscription": a registered stream that is not about to read the        *)
(* generation has read the newest one, or a wake is pending for it, or the *)
(* broadcast of the newest one is still to come.                           *)
NoMissedGeneration ==
    \A c \in clients :
        cpc[c] \in {"write", "wait"} /\ said[c] # version =>
            wake[c] = 1 \/ bpc = "broadcast"

(* dev_client.rs:16-23 and sse.rs:77: whenever a tab with an open stream   *)
(* shows an old build, something that will make it reload is under way on  *)
(* that very stream.                                                       *)
StaleTabWillReload ==
    \A t \in Tabs :
        LET c == conn[t] IN
        tpc[t] = "shown" /\ c # NoConn /\ page[t] # version =>
            \/ bpc = "broadcast"
            \/ cpc[c] \in {"headers", "register", "announce"}
            \/ wake[c] = 1
            \/ cpc[c] = "write" /\ said[c] # page[t]
            \/ \E i \in 1..Len(wire[c]) : wire[c][i] # page[t]

(* DevServe implements the promise of HotReload, its liveness included: a  *)
(* tab never goes back to an older build, although responses are sent      *)
(* after the publication lock is released (http.rs:84-129), and a tab that *)
(* keeps running the dev client reaches the newest build.                  *)
Promise ==
    INSTANCE HotReload WITH
        generation <- version,
        live <- {t \in Tabs : tpc[t] \notin {"closed", "lost"}},
        shown <- page

KeepsPromise == Promise!FairSpec

(* dev_client.rs:17-18 "reconnecting to the same build never reloads": in  *)
(* the end every tab rests on the newest build instead of reloading        *)
(* forever, or is left without a dev client.                               *)
TabsSettle ==
    \A t \in Tabs :
        <>[]( \/ tpc[t] \in {"closed", "lost"}
              \/ tpc[t] = "shown" /\ page[t] = version )
=============================================================================
