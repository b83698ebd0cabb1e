--------------------------- MODULE DevServeProofs ---------------------------
(***************************************************************************)
(* Proofs about publication to browsers, for every number of tabs, event   *)
(* streams, pages and builds: no stream misses a generation, a tab on an   *)
(* old build is about to reload, and every step is one HotReload allows.   *)
(* The last section is about the other reader of the publication state,    *)
(* the ledger of runtime reports (DevReports).                             *)
(***************************************************************************)
EXTENDS DevServe, DevReports, TLAPS

USE PublicationAssumption, ServeAssumption
    DEF PublicationAssumption, ServeAssumption

-----------------------------------------------------------------------------
(* The publication state between the builder's two critical sections: the  *)
(* version read under the first lock is still the next one, and the error  *)
(* page and the artifacts of a good build carry the current version.       *)
PublicationInv ==
    /\ bpc = "render" => nextVersion = version + 1
    /\ errorVersion \in {0, version}
    /\ ok = TRUE => servedVersion = version

(* A stream is registered from register_client to remove_client, and one   *)
(* the browser holds is its own tab's, open, and served by a live thread.  *)
StreamInv ==
    /\ \A c \in Conns :
         c \in clients <=> cpc[c] \in {"announce", "write", "wait", "leave"}
    /\ \A t \in Tabs :
         conn[t] # NoConn =>
           /\ tpc[t] = "shown"
           /\ conn[t] \in up
    /\ \A c \in up : cpc[c] \notin {"free", "leave"}
    /\ \A t, u \in Tabs : conn[t] = conn[u] /\ conn[t] # NoConn => t = u

(* A tab shows, or is about to show, a published build no older than the   *)
(* one it shows.                                                           *)
TabInv ==
    \A t \in Tabs :
        /\ page[t] <= version
        /\ answer[t] <= version
        /\ tpc[t] = "answered" /\ answer[t] # NotFound => page[t] <= answer[t]

IInv ==
    /\ TypeOK /\ PublicationInv /\ StreamInv /\ TabInv
    /\ NoMissedGeneration /\ StaleTabWillReload

-----------------------------------------------------------------------------
(* A GET is answered with the newest build, or not found.                  *)
LEMMA AnswerIsCurrent ==
    ASSUME TypeOK, PublicationInv, NEW p \in Pages
    PROVE  PreparedResponse(p) \in {NotFound, version}
BY DEF PreparedResponse, ErrorPage, NotFound, PublicationInv, TypeOK,
       PublicationTypeOK

LEMMA CycleKeepsInv ==
    ASSUME IInv, Cycle PROVE IInv'
<1> USE DEF IInv
<1>1. /\ UNCHANGED <<version, ok, errorVersion, servedVersion, servedPages,
                     clients, wake, cpc, said, up, wire, tpc, answer, page,
                     conn, faults>>
      /\ bpc = "idle" /\ bpc' = "render" /\ version < MaxBuilds
      /\ nextVersion' = version + 1
  BY DEF Cycle, CycleOutcome, sseVars, tabVars
<1>2. outcome' \in [ok : BOOLEAN, pages : SUBSET Pages]
  <2>1. TRUE \in BOOLEAN /\ FALSE \in BOOLEAN /\ {} \in SUBSET Pages
    OBVIOUS
  <2>2. \/ \E pages \in SUBSET Pages : outcome' = [ok |-> TRUE, pages |-> pages]
        \/ outcome' = [ok |-> FALSE, pages |-> {}]
    BY DEF Cycle, CycleOutcome
  <2>3. ASSUME NEW b \in BOOLEAN, NEW pages \in SUBSET Pages
        PROVE  [ok |-> b, pages |-> pages] \in [ok : BOOLEAN, pages : SUBSET Pages]
    OBVIOUS
  <2> QED BY <2>1, <2>2, <2>3, Zenon
<1>3. nextVersion' \in 0..MaxBuilds
  BY <1>1 DEF TypeOK, PublicationTypeOK
<1>4. TypeOK'
  BY <1>1, <1>2, <1>3 DEF TypeOK, PublicationTypeOK
<1>5. PublicationInv' /\ StreamInv' /\ TabInv'
  BY <1>1 DEF PublicationInv, StreamInv, TabInv
<1>6. NoMissedGeneration' /\ StaleTabWillReload'
  BY <1>1 DEF NoMissedGeneration, StaleTabWillReload
<1> QED BY <1>4, <1>5, <1>6

LEMMA PublishKeepsInv ==
    ASSUME IInv, Publish PROVE IInv' /\ version' = version + 1
<1> USE DEF IInv
<1>1. /\ UNCHANGED <<outcome, nextVersion, clients, wake, cpc, said, up, wire,
                     tpc, answer, page, conn, faults>>
      /\ bpc = "render" /\ bpc' = "broadcast" /\ version' = nextVersion
      /\ ok' = outcome.ok
      /\ \/ /\ outcome.ok
            /\ errorVersion' = 0
            /\ servedVersion' = nextVersion
            /\ servedPages' = outcome.pages
         \/ /\ ~outcome.ok
            /\ errorVersion' = nextVersion
            /\ servedVersion' = servedVersion /\ servedPages' = servedPages
  BY DEF Publish, PublishOutcome, sseVars, tabVars
<1>2. version' = version + 1 /\ nextVersion \in 0..MaxBuilds /\ version \in Nat
  BY <1>1 DEF PublicationInv, TypeOK, PublicationTypeOK
<1>3. outcome \in [ok : BOOLEAN, pages : SUBSET Pages] /\ servedPages \in SUBSET Pages
  BY DEF TypeOK, PublicationTypeOK
<1>4. ok' \in BOOLEAN /\ outcome.pages \in SUBSET Pages
  BY <1>1, <1>3, Zenon
<1>5. servedPages' \in SUBSET Pages
  BY <1>1, <1>3, <1>4, Zenon
<1>6. errorVersion' \in {0, nextVersion} /\ servedVersion' \in {servedVersion, nextVersion}
  BY <1>1, Zenon
<1>7. ok' = TRUE => servedVersion' = nextVersion
  BY <1>1, Zenon
<1>8. TypeOK'
  BY <1>1, <1>2, <1>4, <1>5, <1>6 DEF TypeOK, PublicationTypeOK
<1>9. PublicationInv' /\ StreamInv'
  BY <1>1, <1>6, <1>7 DEF PublicationInv, StreamInv
<1>10. TabInv'
  BY <1>1, <1>2 DEF TabInv, TypeOK
<1>11. NoMissedGeneration' /\ StaleTabWillReload'
  BY <1>1 DEF NoMissedGeneration, StaleTabWillReload
<1> QED BY <1>2, <1>8, <1>9, <1>10, <1>11

(* Every stream that has read an older generation is registered, so the    *)
(* broadcast reaches it.                                                   *)
LEMMA BroadcastKeepsInv ==
    ASSUME IInv, Broadcast PROVE IInv'
<1> USE DEF IInv
<1>1. /\ UNCHANGED <<version, ok, errorVersion, servedVersion, servedPages,
                     outcome, nextVersion, clients, cpc, said, up, wire, tpc,
                     answer, page, conn, faults>>
      /\ bpc' = "idle"
      /\ wake' = [c \in Conns |-> IF c \in clients THEN 1 ELSE wake[c]]
  BY DEF Broadcast, tabVars
<1>2. wake' \in [Conns -> {0, 1}]
  BY <1>1 DEF TypeOK
<1>3. TypeOK'
  BY <1>1, <1>2 DEF TypeOK, PublicationTypeOK
<1>4. PublicationInv' /\ StreamInv' /\ TabInv'
  BY <1>1 DEF PublicationInv, StreamInv, TabInv
<1>5. NoMissedGeneration'
  BY <1>1 DEF NoMissedGeneration, TypeOK
<1>6. StaleTabWillReload'
  <2> SUFFICES ASSUME NEW t \in Tabs, conn[t] # NoConn
               PROVE  \/ cpc[conn[t]] \in {"headers", "register", "announce"}
                      \/ wake'[conn[t]] = 1
    BY <1>1 DEF StaleTabWillReload
  <2>1. conn[t] \in Conns /\ cpc[conn[t]] \in CPCs
    BY DEF TypeOK
  <2>2. cpc[conn[t]] \notin {"free", "leave"}
    BY DEF StreamInv
  <2>3. conn[t] \in clients \/ cpc[conn[t]] \in {"headers", "register"}
    BY <2>1, <2>2 DEF StreamInv, CPCs
  <2> QED BY <1>1, <2>1, <2>3
<1> QED BY <1>3, <1>4, <1>5, <1>6

-----------------------------------------------------------------------------
(* The thread of a stream leaves publication and the tabs alone.           *)
LEMMA StreamFrame ==
    ASSUME NEW c \in Conns, SseThread(c)
    PROVE  /\ UNCHANGED <<version, ok, errorVersion, servedVersion, servedPages,
                          bpc, outcome, nextVersion, up, tpc, answer, page, conn,
                          faults>>
           /\ PublicationInv' = PublicationInv
           /\ PublicationTypeOK' = PublicationTypeOK
           /\ TabInv' = TabInv
<1>1. UNCHANGED <<version, ok, errorVersion, servedVersion, servedPages,
                  bpc, outcome, nextVersion, up, tpc, answer, page, conn, faults>>
  BY DEF SseThread, WriteHeaders, RegisterClient, ReadGeneration,
         WriteGeneration, ReceiveWake, KeepAlive, RemoveClient, publicationVars,
         tabVars
<1> QED BY <1>1 DEF PublicationInv, PublicationTypeOK, TabInv

(* What the step of one stream's thread must do to keep the properties: it *)
(* keeps an open stream alive, and it passes on what it has to announce.   *)
LEMMA StreamStepKeepsInv ==
    ASSUME IInv, NEW c \in Conns, SseThread(c),
           /\ wake' \in [Conns -> {0, 1}] /\ clients' \in SUBSET Conns
           /\ said' \in [Conns -> 0..MaxBuilds]
           /\ wire' \in [Conns -> Seq(0..MaxBuilds)]
           /\ cpc' \in [Conns -> CPCs],
           \A d \in Conns \ {c} :
             /\ cpc'[d] = cpc[d] /\ wake'[d] = wake[d] /\ said'[d] = said[d]
             /\ wire'[d] = wire[d]
             /\ d \in clients' <=> d \in clients,
           c \in clients' <=> cpc'[c] \in {"announce", "write", "wait", "leave"},
           c \in up => cpc'[c] \notin {"free", "leave"},
           cpc'[c] \in {"write", "wait"} /\ said'[c] # version =>
             wake'[c] = 1 \/ bpc = "broadcast",
           \A t \in Tabs : conn[t] = c /\ page[t] # version =>
             \/ bpc = "broadcast"
             \/ cpc'[c] \in {"headers", "register", "announce"}
             \/ wake'[c] = 1
             \/ cpc'[c] = "write" /\ said'[c] # page[t]
             \/ \E i \in 1..Len(wire'[c]) : wire'[c][i] # page[t]
    PROVE  IInv'
<1> USE DEF IInv
<1>1. /\ UNCHANGED <<version, bpc, up, tpc, answer, page, conn, faults>>
      /\ PublicationInv' /\ PublicationTypeOK' /\ TabInv'
  BY StreamFrame DEF TypeOK
<1>2. TypeOK'
  BY <1>1 DEF TypeOK
<1>3. StreamInv'
  <2>1. ASSUME NEW d \in Conns
        PROVE  d \in clients' <=> cpc'[d] \in {"announce", "write", "wait", "leave"}
    <3>1. CASE d = c
      BY <3>1
    <3>2. CASE d # c
      <4>1. cpc'[d] = cpc[d] /\ (d \in clients' <=> d \in clients)
        BY <3>2
      <4> QED BY <4>1 DEF StreamInv
    <3> QED BY <3>1, <3>2
  <2>2. ASSUME NEW t \in Tabs, conn[t] # NoConn
        PROVE  /\ tpc[t] = "shown" /\ conn[t] \in up
    BY <2>2 DEF StreamInv
  <2>3. \A d \in up : cpc'[d] \notin {"free", "leave"}
    BY DEF StreamInv, TypeOK
  <2> QED BY <1>1, <2>1, <2>2, <2>3 DEF StreamInv
<1>4. NoMissedGeneration'
  BY <1>1 DEF NoMissedGeneration, TypeOK
<1> HIDE DEF IInv
<1>5. StaleTabWillReload'
  <2> SUFFICES ASSUME NEW t \in Tabs, tpc'[t] = "shown", conn'[t] # NoConn,
                      page'[t] # version'
               PROVE  LET d == conn'[t] IN
                      \/ bpc' = "broadcast"
                      \/ cpc'[d] \in {"headers", "register", "announce"}
                      \/ wake'[d] = 1
                      \/ cpc'[d] = "write" /\ said'[d] # page'[t]
                      \/ \E i \in 1..Len(wire'[d]) : wire'[d][i] # page'[t]
    BY DEF StaleTabWillReload
  <2>a. /\ tpc[t] = "shown" /\ conn[t] # NoConn /\ page[t] # version
        /\ bpc' = bpc /\ page'[t] = page[t] /\ conn'[t] = conn[t]
    BY <1>1
  <2>1. CASE conn[t] = c
    BY <2>a, <2>1
  <2>2. CASE conn[t] # c
    <3>1. conn[t] \in Conns \ {c}
      BY <2>a, <2>2 DEF IInv, TypeOK
    <3>2. LET d == conn[t] IN
          /\ cpc'[d] = cpc[d] /\ wake'[d] = wake[d] /\ said'[d] = said[d]
          /\ wire'[d] = wire[d]
      BY <3>1
    <3>3. LET d == conn[t] IN
          \/ bpc = "broadcast"
          \/ cpc[d] \in {"headers", "register", "announce"}
          \/ wake[d] = 1
          \/ cpc[d] = "write" /\ said[d] # page[t]
          \/ \E i \in 1..Len(wire[d]) : wire[d][i] # page[t]
      BY <2>a DEF IInv, StaleTabWillReload
    <3> QED BY <2>a, <3>2, <3>3
  <2> QED BY <2>1, <2>2
<1> QED BY <1>1, <1>2, <1>3, <1>4, <1>5 DEF IInv

LEMMA StreamKeepsInv ==
    ASSUME IInv, NEW c \in Conns, SseThread(c) PROVE IInv'
<1> USE DEF IInv
<1>1. /\ cpc \in [Conns -> CPCs] /\ wake \in [Conns -> {0, 1}]
      /\ said \in [Conns -> 0..MaxBuilds] /\ clients \in SUBSET Conns
      /\ wire \in [Conns -> Seq(0..MaxBuilds)] /\ version \in 0..MaxBuilds
  BY DEF TypeOK, PublicationTypeOK
<1>2. c \in clients <=> cpc[c] \in {"announce", "write", "wait", "leave"}
  BY DEF StreamInv
<1>3. c \in clients /\ cpc[c] \in {"write", "wait"} /\ said[c] # version =>
        wake[c] = 1 \/ bpc = "broadcast"
  BY DEF NoMissedGeneration
<1>4. ASSUME NEW t \in Tabs, conn[t] = c
      PROVE  /\ c \in up /\ cpc[c] \notin {"free", "leave"}
             /\ page[t] # version =>
                  \/ bpc = "broadcast"
                  \/ cpc[c] \in {"headers", "register", "announce"}
                  \/ wake[c] = 1
                  \/ cpc[c] = "write" /\ said[c] # page[t]
                  \/ \E i \in 1..Len(wire[c]) : wire[c][i] # page[t]
  BY <1>4 DEF StreamInv, StaleTabWillReload
<1>5. CASE WriteHeaders(c)
  <2>1. /\ UNCHANGED <<clients, wake, said, wire>> /\ cpc[c] = "headers"
        /\ \/ cpc' = [cpc EXCEPT ![c] = "register"]
           \/ cpc' = [cpc EXCEPT ![c] = "free"] /\ c \notin up
    BY <1>5 DEF WriteHeaders, WriteOutcomes, tabVars
  <2>2. cpc' \in [Conns -> CPCs] /\ cpc'[c] \in {"register", "free"}
        /\ \A d \in Conns \ {c} : cpc'[d] = cpc[d]
    BY <1>1, <2>1 DEF CPCs
  <2>3. c \in up => cpc'[c] = "register"
    BY <1>1, <2>1
  <2> QED BY <1>1, <1>2, <1>4, <2>1, <2>2, <2>3, StreamStepKeepsInv
<1>6. CASE RegisterClient(c)
  <2>1. /\ UNCHANGED <<said, wire>> /\ cpc[c] = "register"
        /\ clients' = clients \cup {c} /\ wake' = [wake EXCEPT ![c] = 0]
        /\ cpc' = [cpc EXCEPT ![c] = "announce"]
    BY <1>6 DEF RegisterClient, tabVars
  <2>2. cpc' \in [Conns -> CPCs] /\ cpc'[c] = "announce"
        /\ \A d \in Conns \ {c} : cpc'[d] = cpc[d]
    BY <1>1, <2>1 DEF CPCs
  <2>3. wake' \in [Conns -> {0, 1}] /\ \A d \in Conns \ {c} : wake'[d] = wake[d]
    BY <1>1, <2>1
  <2> QED BY <1>1, <2>1, <2>2, <2>3, StreamStepKeepsInv
<1>7. CASE ReadGeneration(c)
  <2>1. /\ UNCHANGED <<clients, wake, wire>> /\ cpc[c] = "announce"
        /\ said' = [said EXCEPT ![c] = version]
        /\ cpc' = [cpc EXCEPT ![c] = "write"]
    BY <1>7 DEF ReadGeneration, tabVars
  <2>2. cpc' \in [Conns -> CPCs] /\ cpc'[c] = "write"
        /\ \A d \in Conns \ {c} : cpc'[d] = cpc[d]
    BY <1>1, <2>1 DEF CPCs
  <2>3. said' \in [Conns -> 0..MaxBuilds] /\ said'[c] = version
        /\ \A d \in Conns \ {c} : said'[d] = said[d]
    BY <1>1, <2>1
  <2> QED BY <1>1, <1>2, <2>1, <2>2, <2>3, StreamStepKeepsInv
<1>8. CASE WriteGeneration(c)
  <2>1. /\ UNCHANGED <<clients, wake, said>> /\ cpc[c] = "write"
        /\ \/ cpc' = [cpc EXCEPT ![c] = "wait"]
           \/ cpc' = [cpc EXCEPT ![c] = "leave"] /\ c \notin up
        /\ wire' = IF c \in up THEN [wire EXCEPT ![c] = Append(wire[c], said[c])]
                   ELSE wire
    BY <1>8 DEF WriteGeneration, WriteOutcomes
  <2>2. cpc' \in [Conns -> CPCs] /\ cpc'[c] \in {"wait", "leave"}
        /\ \A d \in Conns \ {c} : cpc'[d] = cpc[d]
    BY <1>1, <2>1 DEF CPCs
  <2>3. c \in up => cpc'[c] = "wait"
    BY <1>1, <2>1
  <2>4. wire' \in [Conns -> Seq(0..MaxBuilds)]
        /\ \A d \in Conns \ {c} : wire'[d] = wire[d]
    BY <1>1, <2>1
  <2>5. c \in up => /\ Len(wire'[c]) = Len(wire[c]) + 1
                    /\ wire'[c][Len(wire[c]) + 1] = said[c]
                    /\ \A i \in 1..Len(wire[c]) : wire'[c][i] = wire[c][i]
    <3>1. wire[c] \in Seq(0..MaxBuilds) /\ said[c] \in 0..MaxBuilds
      BY <1>1
    <3>2. c \in up => wire'[c] = Append(wire[c], said[c])
      BY <1>1, <2>1
    <3> QED BY <3>1, <3>2
  <2>6. ASSUME NEW t \in Tabs, conn[t] = c, page[t] # version
        PROVE  \/ bpc = "broadcast" \/ wake'[c] = 1
               \/ \E i \in 1..Len(wire'[c]) : wire'[c][i] # page[t]
    <3>1. c \in up /\ Len(wire[c]) \in Nat
      BY <1>1, <1>4, <2>6
    <3>2. CASE said[c] # page[t]
      BY <2>5, <3>1, <3>2
    <3>3. CASE \E i \in 1..Len(wire[c]) : wire[c][i] # page[t]
      <4>1. PICK i \in 1..Len(wire[c]) : wire[c][i] # page[t]
        BY <3>3
      <4>2. i \in 1..Len(wire'[c]) /\ wire'[c][i] # page[t]
        BY <2>5, <3>1, <4>1
      <4> QED BY <4>2
    <3> QED BY <1>4, <2>1, <2>6, <3>2, <3>3
  <2> QED BY <1>1, <1>2, <1>3, <2>1, <2>2, <2>3, <2>4, <2>6, StreamStepKeepsInv
<1>9. CASE ReceiveWake(c)
  <2>1. /\ UNCHANGED <<clients, said, wire>> /\ cpc[c] = "wait"
        /\ wake' = [wake EXCEPT ![c] = 0]
        /\ cpc' = [cpc EXCEPT ![c] = "announce"]
    BY <1>9 DEF ReceiveWake, tabVars
  <2>2. cpc' \in [Conns -> CPCs] /\ cpc'[c] = "announce"
        /\ \A d \in Conns \ {c} : cpc'[d] = cpc[d]
    BY <1>1, <2>1 DEF CPCs
  <2>3. wake' \in [Conns -> {0, 1}] /\ \A d \in Conns \ {c} : wake'[d] = wake[d]
    BY <1>1, <2>1
  <2> QED BY <1>1, <1>2, <2>1, <2>2, <2>3, StreamStepKeepsInv
<1>10. CASE KeepAlive(c)
  <2>1. /\ UNCHANGED <<clients, wake, said, wire>> /\ cpc[c] = "wait"
        /\ c \notin up /\ cpc' = [cpc EXCEPT ![c] = "leave"]
    BY <1>10 DEF KeepAlive, tabVars
  <2>2. cpc' \in [Conns -> CPCs] /\ cpc'[c] = "leave"
        /\ \A d \in Conns \ {c} : cpc'[d] = cpc[d]
    BY <1>1, <2>1 DEF CPCs
  <2> QED BY <1>1, <1>2, <1>4, <2>1, <2>2, StreamStepKeepsInv
<1>11. CASE RemoveClient(c)
  <2>1. /\ UNCHANGED <<wake, said, wire>> /\ cpc[c] = "leave"
        /\ clients' = clients \ {c} /\ cpc' = [cpc EXCEPT ![c] = "free"]
    BY <1>11 DEF RemoveClient, tabVars
  <2>2. cpc' \in [Conns -> CPCs] /\ cpc'[c] = "free"
        /\ \A d \in Conns \ {c} : cpc'[d] = cpc[d]
    BY <1>1, <2>1 DEF CPCs
  <2>3. c \notin up
    BY <2>1 DEF StreamInv
  <2> QED BY <1>1, <1>4, <2>1, <2>2, <2>3, StreamStepKeepsInv
<1> QED BY <1>5, <1>6, <1>7, <1>8, <1>9, <1>10, <1>11 DEF SseThread

-----------------------------------------------------------------------------
(* What a tab does leaves publication and what the threads read alone.     *)
LEMMA TabFrame ==
    ASSUME IInv,
           UNCHANGED <<version, ok, errorVersion, servedVersion, servedPages, bpc,
                       outcome, nextVersion>>
    PROVE  PublicationInv' /\ PublicationTypeOK'
BY DEF IInv, TypeOK, PublicationInv, PublicationTypeOK

(* Loading a page: the tab has no stream, and moves to the newest build.   *)
LEMMA LoadKeepsInv ==
    ASSUME IInv, NEW t \in Tabs,
           \/ Navigate(t) \/ CaptureResponse(t) \/ ShowResponse(t)
           \/ LoseResponse(t)
    PROVE  IInv'
<1> USE DEF IInv
<1>1. /\ UNCHANGED <<version, ok, errorVersion, servedVersion, servedPages, bpc,
                     outcome, nextVersion, clients, wake, cpc, said, up, wire,
                     conn>>
      /\ tpc[t] # "shown"
  BY DEF Navigate, CaptureResponse, ShowResponse, LoseResponse, publicationVars,
         sseVars
<1>2. PublicationInv' /\ PublicationTypeOK'
  BY <1>1, TabFrame
<1>3. /\ tpc \in [Tabs -> TPCs] /\ answer \in [Tabs -> 0..MaxBuilds]
      /\ page \in [Tabs -> 0..MaxBuilds] /\ faults \in 0..MaxFaults
      /\ version \in 0..MaxBuilds
  BY DEF TypeOK, PublicationTypeOK
<1>4. conn[t] = NoConn
  BY <1>1 DEF StreamInv
<1>5. PreparedResponse(PathOf[t]) \in {NotFound, version}
  BY AnswerIsCurrent
<1>6. /\ tpc' \in [Tabs -> TPCs] /\ answer' \in [Tabs -> 0..MaxBuilds]
      /\ page' \in [Tabs -> 0..MaxBuilds] /\ faults' \in 0..MaxFaults
      /\ \A u \in Tabs \ {t} : /\ tpc'[u] = tpc[u] /\ answer'[u] = answer[u]
                                /\ page'[u] = page[u]
      /\ page'[t] <= version /\ answer'[t] <= version
      /\ tpc'[t] = "answered" /\ answer'[t] # NotFound => page'[t] <= answer'[t]
  <2>1. page[t] <= version /\ answer[t] <= version
        /\ (tpc[t] = "answered" /\ answer[t] # NotFound => page[t] <= answer[t])
    BY DEF TabInv
  <2>2. CASE Navigate(t)
    BY <1>3, <2>1, <2>2 DEF Navigate, TPCs
  <2>3. CASE CaptureResponse(t)
    BY <1>3, <1>5, <2>1, <2>3 DEF CaptureResponse, TPCs, NotFound
  <2>4. CASE ShowResponse(t)
    BY <1>3, <2>1, <2>4 DEF ShowResponse, TPCs
  <2>5. CASE LoseResponse(t)
    BY <1>3, <2>1, <2>5 DEF LoseResponse, TPCs
  <2> QED BY <2>2, <2>3, <2>4, <2>5
<1>7. TypeOK'
  BY <1>1, <1>2, <1>6 DEF TypeOK
<1>8. ASSUME NEW u \in Tabs, conn[u] # NoConn
      PROVE  tpc'[u] = tpc[u] /\ page'[u] = page[u]
  BY <1>4, <1>6, <1>8
<1>9. StreamInv'
  BY <1>1, <1>8 DEF StreamInv
<1>10. TabInv'
  BY <1>1, <1>6 DEF TabInv
<1>11. NoMissedGeneration'
  BY <1>1 DEF NoMissedGeneration
<1>12. StaleTabWillReload'
  BY <1>1, <1>8 DEF StaleTabWillReload
<1> QED BY <1>2, <1>7, <1>9, <1>10, <1>11, <1>12

(* A new stream starts before its announcement.                            *)
LEMMA ConnectKeepsInv ==
    ASSUME IInv, NEW t \in Tabs, NEW c \in Conns, Connect(t, c)
    PROVE  IInv'
<1> USE DEF IInv
<1>1. /\ UNCHANGED <<version, ok, errorVersion, servedVersion, servedPages, bpc,
                     outcome, nextVersion, clients, wake, said, tpc, answer,
                     page, faults>>
      /\ tpc[t] = "shown" /\ cpc[c] = "free"
      /\ cpc' = [cpc EXCEPT ![c] = "headers"] /\ up' = up \cup {c}
      /\ wire' = [wire EXCEPT ![c] = <<>>] /\ conn' = [conn EXCEPT ![t] = c]
  BY DEF Connect, publicationVars
<1>2. PublicationInv' /\ PublicationTypeOK'
  BY <1>1, TabFrame
<1>3. /\ cpc \in [Conns -> CPCs] /\ wire \in [Conns -> Seq(0..MaxBuilds)]
      /\ conn \in [Tabs -> Conns \cup {NoConn}] /\ up \in SUBSET Conns
  BY DEF TypeOK
<1>4. /\ cpc' \in [Conns -> CPCs] /\ cpc'[c] = "headers"
      /\ \A d \in Conns \ {c} : cpc'[d] = cpc[d]
  BY <1>1, <1>3 DEF CPCs
<1>5. /\ wire' \in [Conns -> Seq(0..MaxBuilds)]
      /\ \A d \in Conns \ {c} : wire'[d] = wire[d]
  BY <1>1, <1>3
<1>6. /\ conn' \in [Tabs -> Conns \cup {NoConn}] /\ conn'[t] = c
      /\ \A u \in Tabs \ {t} : conn'[u] = conn[u]
  BY <1>1, <1>3
<1>7. TypeOK'
  BY <1>1, <1>2, <1>3, <1>4, <1>5, <1>6 DEF TypeOK
<1>8. \A u \in Tabs : conn[u] # c
  BY <1>1 DEF StreamInv
<1>9. StreamInv'
  <2>1. \A d \in Conns :
          d \in clients' <=> cpc'[d] \in {"announce", "write", "wait", "leave"}
    BY <1>1, <1>4 DEF StreamInv
  <2>2. \A u \in Tabs : conn'[u] # NoConn => tpc'[u] = "shown" /\ conn'[u] \in up'
    BY <1>1, <1>6 DEF StreamInv
  <2>3. \A d \in up' : cpc'[d] \notin {"free", "leave"}
    BY <1>1, <1>3, <1>4 DEF StreamInv
  <2>4. \A u, v \in Tabs : conn'[u] = conn'[v] /\ conn'[u] # NoConn => u = v
    BY <1>6, <1>8 DEF StreamInv
  <2> QED BY <2>1, <2>2, <2>3, <2>4 DEF StreamInv
<1>10. TabInv'
  BY <1>1 DEF TabInv
<1>11. NoMissedGeneration'
  BY <1>1, <1>4 DEF NoMissedGeneration, TypeOK
<1>12. StaleTabWillReload'
  <2> SUFFICES ASSUME NEW u \in Tabs, tpc[u] = "shown", conn'[u] # NoConn,
                      page[u] # version
               PROVE  LET d == conn'[u] IN
                      \/ bpc = "broadcast"
                      \/ cpc'[d] \in {"headers", "register", "announce"}
                      \/ wake[d] = 1
                      \/ cpc'[d] = "write" /\ said[d] # page[u]
                      \/ \E i \in 1..Len(wire'[d]) : wire'[d][i] # page[u]
    BY <1>1 DEF StaleTabWillReload
  <2>1. CASE u = t
    BY <1>4, <1>6, <2>1
  <2>2. CASE u # t
    <3>1. conn'[u] = conn[u] /\ conn[u] \in Conns \ {c}
      BY <1>3, <1>6, <1>8, <2>2
    <3>2. cpc'[conn[u]] = cpc[conn[u]] /\ wire'[conn[u]] = wire[conn[u]]
      BY <1>4, <1>5, <3>1
    <3> QED BY <3>1, <3>2 DEF StaleTabWillReload
  <2> QED BY <2>1, <2>2
<1> QED BY <1>2, <1>7, <1>9, <1>10, <1>11, <1>12

(* A stream is closed, by a reload or by the network.                      *)
LEMMA CloseKeepsInv ==
    ASSUME IInv, NEW t \in Tabs, NEW c \in Conns, conn[t] = c,
           UNCHANGED <<version, ok, errorVersion, servedVersion, servedPages, bpc,
                       outcome, nextVersion, clients, wake, cpc, said, answer,
                       page>>,
           tpc' \in [Tabs -> TPCs], tpc'[t] # "answered", faults' \in 0..MaxFaults,
           \A u \in Tabs \ {t} : tpc'[u] = tpc[u],
           up' = up \ {c}, wire' = [wire EXCEPT ![c] = <<>>],
           conn' = [conn EXCEPT ![t] = NoConn]
    PROVE  IInv'
<1> USE DEF IInv
<1>1. PublicationInv' /\ PublicationTypeOK'
  BY TabFrame
<1>2. /\ wire \in [Conns -> Seq(0..MaxBuilds)] /\ up \in SUBSET Conns
      /\ conn \in [Tabs -> Conns \cup {NoConn}]
  BY DEF TypeOK
<1>3. /\ wire' \in [Conns -> Seq(0..MaxBuilds)]
      /\ \A d \in Conns \ {c} : wire'[d] = wire[d]
  BY <1>2
<1>4. /\ conn' \in [Tabs -> Conns \cup {NoConn}] /\ conn'[t] = NoConn
      /\ \A u \in Tabs \ {t} : conn'[u] = conn[u]
  BY <1>2
<1>5. TypeOK'
  BY <1>1, <1>2, <1>3, <1>4 DEF TypeOK
<1>6. ASSUME NEW u \in Tabs, conn'[u] # NoConn
      PROVE  u # t /\ conn'[u] = conn[u] /\ conn[u] \in Conns \ {c} /\ tpc'[u] = tpc[u]
  <2>1. u # t
    BY <1>4, <1>6
  <2>2. conn'[u] = conn[u] /\ conn[u] \in Conns
    BY <1>2, <1>4, <1>6, <2>1
  <2>3. conn[u] # c
    BY <1>6, <2>1, <2>2 DEF StreamInv
  <2> QED BY <2>1, <2>2, <2>3
<1>7. StreamInv'
  <2>1. \A u \in Tabs : conn'[u] # NoConn => tpc'[u] = "shown" /\ conn'[u] \in up'
    BY <1>6 DEF StreamInv
  <2>2. \A u, v \in Tabs : conn'[u] = conn'[v] /\ conn'[u] # NoConn => u = v
    BY <1>6 DEF StreamInv
  <2> QED BY <2>1, <2>2 DEF StreamInv
<1>8. TabInv'
  BY DEF TabInv
<1>9. NoMissedGeneration'
  BY DEF NoMissedGeneration
<1>10. StaleTabWillReload'
  <2> SUFFICES ASSUME NEW u \in Tabs, tpc'[u] = "shown", conn'[u] # NoConn,
                      page[u] # version
               PROVE  LET d == conn'[u] IN
                      \/ bpc = "broadcast"
                      \/ cpc[d] \in {"headers", "register", "announce"}
                      \/ wake[d] = 1
                      \/ cpc[d] = "write" /\ said[d] # page[u]
                      \/ \E i \in 1..Len(wire'[d]) : wire'[d][i] # page[u]
    BY DEF StaleTabWillReload
  <2>1. wire'[conn[u]] = wire[conn[u]]
    BY <1>3, <1>6
  <2> QED BY <1>6, <2>1 DEF StaleTabWillReload
<1> QED BY <1>1, <1>5, <1>7, <1>8, <1>9, <1>10

(* The dev client either reloads, which closes its stream, or drops an     *)
(* announcement of the very build it shows.                                *)
LEMMA HandleKeepsInv ==
    ASSUME IInv, NEW t \in Tabs, NEW c \in Conns, HandleGeneration(t, c)
    PROVE  IInv'
<1> USE DEF IInv
<1>1. /\ UNCHANGED <<version, ok, errorVersion, servedVersion, servedPages, bpc,
                     outcome, nextVersion, clients, wake, cpc, said, answer, page,
                     faults>>
      /\ conn[t] = c /\ wire[c] # <<>>
  BY DEF HandleGeneration, publicationVars, sseVars
<1>2. /\ tpc \in [Tabs -> TPCs] /\ faults \in 0..MaxFaults
      /\ wire \in [Conns -> Seq(0..MaxBuilds)]
  BY DEF TypeOK
<1>3. CASE Head(wire[c]) # page[t]
  <2>1. /\ tpc' = [tpc EXCEPT ![t] = "loading"] /\ up' = up \ {c}
        /\ conn' = [conn EXCEPT ![t] = NoConn] /\ wire' = [wire EXCEPT ![c] = <<>>]
    BY <1>3 DEF HandleGeneration
  <2>2. /\ tpc' \in [Tabs -> TPCs] /\ tpc'[t] # "answered"
        /\ \A u \in Tabs \ {t} : tpc'[u] = tpc[u]
    BY <1>2, <2>1 DEF TPCs
  <2> QED BY <1>1, <1>2, <2>1, <2>2, CloseKeepsInv
<1>4. CASE Head(wire[c]) = page[t]
  <2>1. wire' = [wire EXCEPT ![c] = Tail(wire[c])] /\ UNCHANGED <<tpc, conn, up>>
    BY <1>4 DEF HandleGeneration
  <2>2. PublicationInv' /\ PublicationTypeOK'
    BY <1>1, TabFrame
  <2>3. wire[c] \in Seq(0..MaxBuilds)
    BY <1>2
  <2>4. Tail(wire[c]) \in Seq(0..MaxBuilds)
    <3>1. ASSUME NEW s \in Seq(0..MaxBuilds), s # <<>>
          PROVE  Tail(s) \in Seq(0..MaxBuilds)
      BY <3>1
    <3> QED BY <1>1, <2>3, <3>1
  <2>5. /\ wire' \in [Conns -> Seq(0..MaxBuilds)] /\ wire'[c] = Tail(wire[c])
        /\ \A d \in Conns \ {c} : wire'[d] = wire[d]
    BY <1>2, <2>1, <2>4
  <2>6. TypeOK'
    BY <1>1, <2>1, <2>2, <2>5 DEF TypeOK
  <2>7. StreamInv' /\ TabInv' /\ NoMissedGeneration'
    BY <1>1, <2>1 DEF StreamInv, TabInv, NoMissedGeneration
  <2>8. ASSUME NEW i \in 1..Len(wire[c]), wire[c][i] # page[t]
        PROVE  \E j \in 1..Len(wire'[c]) : wire'[c][j] # page[t]
    <3>1. i # 1 /\ Len(wire[c]) \in Nat
      BY <1>1, <1>4, <2>3, <2>8
    <3>2. i - 1 \in 1..Len(wire'[c]) /\ wire'[c][i - 1] = wire[c][i]
      BY <1>1, <2>3, <2>5, <3>1
    <3> QED BY <2>8, <3>2
  <2>9. StaleTabWillReload'
    <3>a. UNCHANGED <<version, bpc, cpc, wake, said, page, tpc, conn>>
      BY <1>1, <2>1
    <3> SUFFICES ASSUME NEW u \in Tabs, tpc[u] = "shown", conn[u] # NoConn,
                        page[u] # version
                 PROVE  LET d == conn[u] IN
                        \/ bpc = "broadcast"
                        \/ cpc[d] \in {"headers", "register", "announce"}
                        \/ wake[d] = 1
                        \/ cpc[d] = "write" /\ said[d] # page[u]
                        \/ \E i \in 1..Len(wire'[d]) : wire'[d][i] # page[u]
      BY <3>a DEF StaleTabWillReload
    <3>1. CASE u = t
      BY <1>1, <2>8, <3>1 DEF StaleTabWillReload
    <3>2. CASE u # t
      <4>1. conn[u] \in Conns \ {c}
        BY <1>1, <3>2 DEF TypeOK, StreamInv
      <4>2. wire'[conn[u]] = wire[conn[u]]
        BY <2>5, <4>1
      <4> QED BY <4>2 DEF StaleTabWillReload
    <3> QED BY <3>1, <3>2
  <2> QED BY <2>2, <2>6, <2>7, <2>9
<1> QED BY <1>3, <1>4

LEMMA DropKeepsInv ==
    ASSUME IInv, NEW t \in Tabs, NEW c \in Conns, DropConnection(t, c)
    PROVE  IInv'
<1> USE DEF IInv
<1>1. /\ UNCHANGED <<version, ok, errorVersion, servedVersion, servedPages, bpc,
                     outcome, nextVersion, clients, wake, cpc, said, tpc, answer,
                     page>>
      /\ conn[t] = c /\ faults' = faults + 1 /\ faults < MaxFaults
      /\ up' = up \ {c} /\ wire' = [wire EXCEPT ![c] = <<>>]
      /\ conn' = [conn EXCEPT ![t] = NoConn]
  BY DEF DropConnection, publicationVars, sseVars
<1>2. faults' \in 0..MaxFaults /\ tpc \in [Tabs -> TPCs]
  BY <1>1 DEF TypeOK
<1>3. tpc[t] = "shown"
  BY <1>1 DEF StreamInv
<1> QED BY <1>1, <1>2, <1>3, CloseKeepsInv

-----------------------------------------------------------------------------
LEMMA StepKeepsInv ==
    ASSUME IInv, Next PROVE IInv'
<1>1. CASE Cycle \/ Publish \/ Broadcast
  BY <1>1, CycleKeepsInv, PublishKeepsInv, BroadcastKeepsInv
<1>2. CASE \E c \in Conns : SseThread(c)
  BY <1>2, StreamKeepsInv
<1>3. CASE \E t \in Tabs : Browser(t)
  BY <1>3, LoadKeepsInv, ConnectKeepsInv, HandleKeepsInv DEF Browser
<1>4. CASE Environment
  BY <1>4, LoadKeepsInv, DropKeepsInv DEF Environment
<1> QED BY <1>1, <1>2, <1>3, <1>4 DEF Next

(* The inductive invariant of publication to browsers, TypeOK included: a  *)
(* wake channel never holds two wakes.                                     *)
THEOREM Invariance == Spec => []IInv
<1>1. Init => IInv
  <2> SUFFICES ASSUME Init PROVE IInv
    OBVIOUS
  <2> USE DEF Init, PublicationInit
  <2>1. outcome \in [ok : BOOLEAN, pages : SUBSET Pages] /\ ok \in BOOLEAN
    <3>1. FALSE \in BOOLEAN /\ {} \in SUBSET Pages
      OBVIOUS
    <3>2. ASSUME NEW b \in BOOLEAN, NEW pages \in SUBSET Pages
          PROVE  [ok |-> b, pages |-> pages] \in [ok : BOOLEAN, pages : SUBSET Pages]
      OBVIOUS
    <3> QED BY <3>1, <3>2, Zenon
  <2>2. ok = TRUE => servedVersion = version
    OBVIOUS
  <2>3. PublicationTypeOK
    BY <2>1 DEF PublicationTypeOK
  <2>4. TypeOK
    BY <2>3 DEF TypeOK, CPCs, TPCs
  <2>5. PublicationInv /\ StreamInv /\ TabInv
    BY <2>2 DEF PublicationInv, StreamInv, TabInv
  <2>6. NoMissedGeneration /\ StaleTabWillReload
    BY DEF NoMissedGeneration, StaleTabWillReload
  <2> QED BY <2>4, <2>5, <2>6 DEF IInv
<1>2. IInv /\ UNCHANGED vars => IInv'
  <2> SUFFICES ASSUME IInv, UNCHANGED vars PROVE IInv'
    OBVIOUS
  <2> USE DEF IInv
  <2>1. UNCHANGED <<version, ok, errorVersion, servedVersion, servedPages, bpc,
                    outcome, nextVersion, clients, wake, cpc, said, up, wire, tpc,
                    answer, page, conn, faults>>
    BY DEF vars, publicationVars, sseVars, tabVars
  <2>2. PublicationInv' /\ PublicationTypeOK'
    BY <2>1, TabFrame
  <2>3. TypeOK' /\ StreamInv' /\ TabInv'
    BY <2>1, <2>2 DEF TypeOK, StreamInv, TabInv
  <2>4. NoMissedGeneration' /\ StaleTabWillReload'
    BY <2>1 DEF NoMissedGeneration, StaleTabWillReload
  <2> QED BY <2>2, <2>3, <2>4
<1>3. IInv /\ [Next]_vars => IInv'
  BY <1>2, StepKeepsInv
<1> QED BY <1>1, <1>3, PTL DEF Spec

(* sse.rs: no generation falls between the snapshot a stream reads and its *)
(* subscription, however threads and broadcasts interleave.                *)
THEOREM GenerationsReachStreams == Spec => []NoMissedGeneration
<1>1. IInv => NoMissedGeneration
  BY DEF IInv
<1> QED BY <1>1, Invariance, PTL

(* dev_client.rs: a tab with an open stream that shows an old build has    *)
(* something under way on that stream that makes it reload.                *)
THEOREM StaleTabsReload == Spec => []StaleTabWillReload
<1>1. IInv => StaleTabWillReload
  BY DEF IInv
<1> QED BY <1>1, Invariance, PTL

-----------------------------------------------------------------------------
Live == {t \in Tabs : tpc[t] \notin {"closed", "lost"}}

(* Every step of the server and the tabs is a step HotReload allows.       *)
LEMMA StepRefines ==
    ASSUME IInv, Next PROVE [Promise!Next]_(Promise!vars)
<1> USE DEF IInv
<1>1. ASSUME UNCHANGED <<version, tpc, page>> PROVE UNCHANGED Promise!vars
  BY <1>1 DEF Promise!vars
<1>2. CASE Cycle \/ Broadcast
  BY <1>1, <1>2 DEF Cycle, CycleOutcome, Broadcast, tabVars
<1>3. CASE Publish
  <2>1. version' = version + 1 /\ UNCHANGED <<tpc, page>>
    BY <1>3, PublishKeepsInv DEF Publish, tabVars
  <2> QED BY <2>1 DEF Promise!Next, Promise!Publish
<1>4. CASE \E c \in Conns : SseThread(c)
  BY <1>1, <1>4, StreamFrame
<1>5. ASSUME NEW t \in Tabs, Navigate(t) PROVE Promise!Open(t)
  <2>1. /\ UNCHANGED <<version, page>> /\ version > 0 /\ tpc[t] = "closed"
        /\ tpc' = [tpc EXCEPT ![t] = "loading"]
    BY <1>5 DEF Navigate, publicationVars
  <2>2. t \notin Live /\ Live' = Live \cup {t}
    BY <2>1 DEF Live, TypeOK
  <2> QED BY <2>1, <2>2 DEF Promise!Open, Live
<1>6. ASSUME NEW t \in Tabs, tpc[t] \in {"loading", "answered"},
             tpc' = [tpc EXCEPT ![t] = "lost"], UNCHANGED <<version, page>>
      PROVE  Promise!Detach(t)
  <2>1. t \in Live /\ Live' = Live \ {t}
    BY <1>6 DEF Live, TypeOK
  <2> QED BY <1>6, <2>1 DEF Promise!Detach, Live
<1>7. ASSUME NEW t \in Tabs, tpc[t] \notin {"closed", "lost"},
             \E s \in TPCs \ {"closed", "lost"} : tpc' = [tpc EXCEPT ![t] = s]
      PROVE  Live' = Live
  BY <1>7 DEF Live, TypeOK
<1>8. ASSUME NEW t \in Tabs, CaptureResponse(t) PROVE UNCHANGED Promise!vars
  <2>1. /\ UNCHANGED <<version, page>> /\ tpc[t] = "loading"
        /\ tpc' = [tpc EXCEPT ![t] = "answered"]
    BY <1>8 DEF CaptureResponse, publicationVars
  <2>2. Live' = Live
    BY <1>7, <2>1 DEF TPCs
  <2> QED BY <2>1, <2>2 DEF Promise!vars, Live
<1>9. ASSUME NEW t \in Tabs, ShowResponse(t)
      PROVE  Promise!Detach(t) \/ Promise!Refresh(t) \/ UNCHANGED Promise!vars
  <2>1. CASE answer[t] = NotFound
    BY <1>6, <1>9, <2>1 DEF ShowResponse, publicationVars
  <2>2. CASE answer[t] # NotFound
    <3>1. /\ UNCHANGED version /\ tpc[t] = "answered"
          /\ tpc' = [tpc EXCEPT ![t] = "shown"]
          /\ page' = [page EXCEPT ![t] = answer[t]]
      BY <1>9, <2>2 DEF ShowResponse, publicationVars
    <3>2. Live' = Live /\ t \in Live
      BY <1>7, <3>1 DEF TPCs, Live
    <3>3. /\ page[t] \in Nat /\ answer[t] \in Nat /\ version \in Nat
          /\ page[t] <= answer[t] /\ answer[t] <= version
          /\ page \in [Tabs -> 0..MaxBuilds]
      BY <2>2, <3>1 DEF TabInv, TypeOK, PublicationTypeOK
    <3>4. CASE page[t] = answer[t]
      <4>1. page' = page
        BY <3>1, <3>3, <3>4
      <4> QED BY <3>1, <3>2, <4>1 DEF Promise!vars, Live
    <3>5. CASE page[t] # answer[t]
      <4>1. page[t] < version /\ answer[t] \in (page[t] + 1)..version
        BY <3>3, <3>5
      <4> QED BY <3>1, <3>2, <4>1 DEF Promise!Refresh, Live
    <3> QED BY <3>4, <3>5
  <2> QED BY <2>1, <2>2
<1>10. ASSUME NEW t \in Tabs, NEW c \in Conns,
              Connect(t, c) \/ HandleGeneration(t, c) \/ DropConnection(t, c)
       PROVE  UNCHANGED Promise!vars
  <2>1. UNCHANGED <<version, page>>
    BY <1>10 DEF Connect, HandleGeneration, DropConnection, publicationVars
  <2>2. \/ tpc' = tpc
        \/ tpc[t] = "shown" /\ tpc' = [tpc EXCEPT ![t] = "loading"]
    BY <1>10 DEF Connect, HandleGeneration, DropConnection
  <2>3. Live' = Live
    BY <1>7, <2>2 DEF TPCs, Live
  <2> QED BY <2>1, <2>3 DEF Promise!vars, Live
<1>11. CASE \E t \in Tabs : Browser(t)
  BY <1>8, <1>9, <1>10, <1>11 DEF Browser, Promise!Next
<1>12. CASE Environment
  <2>1. ASSUME NEW t \in Tabs, LoseResponse(t) PROVE Promise!Detach(t)
    BY <1>6, <2>1 DEF LoseResponse, publicationVars
  <2> QED BY <1>5, <1>10, <1>12, <2>1 DEF Environment, Promise!Next
<1> QED BY <1>2, <1>3, <1>4, <1>11, <1>12 DEF Next

(* The safety of HotReload's promise: builds get consecutive generations,  *)
(* a tab only moves forward, and only to a published one, although a       *)
(* response is sent after the publication lock is released (http.rs).      *)
THEOREM KeepsPromiseSafely == Spec => Promise!Spec
<1>1. Init => Promise!Init
  BY DEF Init, PublicationInit, Promise!Init
<1>2. IInv /\ [Next]_vars => [Promise!Next]_(Promise!vars)
  <2>1. UNCHANGED vars => UNCHANGED Promise!vars
    BY DEF vars, publicationVars, tabVars, Promise!vars
  <2> QED BY <2>1, StepRefines
<1> QED BY <1>1, <1>2, Invariance, PTL DEF Spec, Promise!Spec

-----------------------------------------------------------------------------
(***************************************************************************)
(* The runtime-report ledger, for every set of pages, every set of page    *)
(* loads, every number of builds and every size of the ledger.             *)
(***************************************************************************)
USE ReportAssumption DEF ReportAssumption

(* The outcomes of a build cycle have their type.                          *)
LEMMA OutcomeType ==
    /\ [ok |-> FALSE, pages |-> {}] \in [ok : BOOLEAN, pages : SUBSET Pages]
    /\ \A pages \in SUBSET Pages :
         [ok |-> TRUE, pages |-> pages] \in [ok : BOOLEAN, pages : SUBSET Pages]
<1>1. \A b \in BOOLEAN, pages \in SUBSET Pages :
        [ok |-> b, pages |-> pages] \in [ok : BOOLEAN, pages : SUBSET Pages]
  BY Zenon
<1> QED BY <1>1, Zenon

(* The publication underneath: what a good build serves is on record, and  *)
(* a version that was announced is never announced again.                  *)
LedgerPublicationInv ==
    /\ ok => version > 0
    /\ bpc = "render" => nextVersion = version + 1
    /\ ok => {version} \X servedPages \subseteq everServed

(* The ledger forgets keys, yet only of builds older than its own.         *)
LedgerInv ==
    /\ ledgerBuild <= version
    /\ \A k \in Key : printed[k] > 0 =>
         /\ 0 < k.build /\ k.build <= ledgerBuild
         /\ k.build = ledgerBuild => k \in ledgerKeys

LedgerIInv ==
    /\ LedgerTypeOK /\ LedgerPublicationInv /\ LedgerInv
    /\ PrintedWasServed /\ NeverPrintedTwice

(* A report that passes the checks of handle_runtime_report and is new to  *)
(* the ledger was never printed: http.rs:414-438.                          *)
LEMMA NewKeyIsUnprinted ==
    ASSUME LedgerIInv, NEW report \in Key, Current(report),
           ~Duplicate(report)
    PROVE  printed[report] = 0
<1>1. report.build = version /\ version > 0 /\ version \in Nat
      /\ ledgerBuild \in Nat
  BY DEF LedgerIInv, LedgerTypeOK, PublicationTypeOK, LedgerPublicationInv, Current
<1>t. printed[report] \in Nat
  BY DEF LedgerIInv, LedgerTypeOK
<1>2. CASE StartsOver(report)
  BY <1>1, <1>2, <1>t DEF LedgerIInv, LedgerInv, StartsOver
<1>3. CASE ~StartsOver(report)
  <2>1. ledgerBuild = report.build
    BY <1>1, <1>3 DEF LedgerIInv, LedgerInv, StartsOver
  <2> QED BY <1>3, <1>t, <2>1 DEF LedgerIInv, LedgerInv, KeysFor, Duplicate
<1> QED BY <1>2, <1>3

(* The three steps of a build cycle keep the invariant: state.rs and       *)
(* build_loop.rs publish_build_outcome.                                    *)
LEMMA BuilderKeepsInv ==
    ASSUME LedgerIInv, LedgerCycle \/ LedgerPublish \/ CycleDone
    PROVE  LedgerIInv'
<1> USE DEF LedgerIInv, LedgerTypeOK, PublicationTypeOK, Key
<1>1. CASE LedgerCycle
  <2> USE <1>1 DEF LedgerCycle, CycleOutcome, reportVars
  <2>a. outcome' \in [ok : BOOLEAN, pages : SUBSET Pages]
    BY OutcomeType
  <2>b. nextVersion' \in 0..MaxBuilds
    OBVIOUS
  <2>1. LedgerTypeOK'
    BY <2>a, <2>b
  <2>2. LedgerPublicationInv' /\ LedgerInv'
    BY DEF LedgerPublicationInv, LedgerInv
  <2>3. PrintedWasServed' /\ NeverPrintedTwice'
    BY DEF PrintedWasServed, NeverPrintedTwice
  <2> QED BY <2>1, <2>2, <2>3
<1>2. CASE LedgerPublish
  <2> USE <1>2 DEF LedgerPublish, PublishOutcome
  <2>1. servedPages' \in SUBSET Pages /\ version' \in 0..MaxBuilds
    OBVIOUS
  <2>2. everServed' \in SUBSET ((0..MaxBuilds) \X Pages)
    BY <2>1
  <2>3. LedgerTypeOK'
    BY <2>1, <2>2
  <2>4. LedgerPublicationInv'
    BY DEF LedgerPublicationInv
  <2>5. version' = version + 1
    BY DEF LedgerPublicationInv
  <2>6. LedgerInv' /\ PrintedWasServed' /\ NeverPrintedTwice'
    BY <2>5 DEF LedgerInv, PrintedWasServed, NeverPrintedTwice
  <2> QED BY <2>3, <2>4, <2>6
<1>3. CASE CycleDone
  BY <1>3 DEF CycleDone, reportVars, LedgerPublicationInv, LedgerInv, PrintedWasServed,
              NeverPrintedTwice
<1> QED BY <1>1, <1>2, <1>3

(* A report keeps the invariant: http.rs:401-438.                          *)
LEMMA ReportKeepsInv ==
    ASSUME LedgerIInv, NEW report \in Key, AcceptReport(report)
    PROVE  LedgerIInv'
<1> USE DEF LedgerIInv, LedgerTypeOK, PublicationTypeOK, publicationVars
<1>1. /\ report.build = version /\ report.build \in 0..MaxBuilds /\ version > 0
      /\ KeysFor(report) \subseteq ledgerKeys
  BY DEF AcceptReport, Current, LedgerPublicationInv, KeysFor
<1>p. \/ printed' = printed
      \/ /\ ~Duplicate(report) /\ report \in ledgerKeys'
         /\ printed' = [printed EXCEPT ![report] = @ + 1]
  BY DEF AcceptReport
<1>2. LedgerTypeOK'
  BY <1>1 DEF AcceptReport
<1>3. LedgerPublicationInv'
  BY DEF AcceptReport, LedgerPublicationInv
<1>4. PrintedWasServed'
  <2>1. <<report.build, report.entry>> \in everServed
    BY DEF AcceptReport, Current, LedgerPublicationInv, Key
  <2>2. everServed' = everServed
    BY DEF AcceptReport
  <2> QED BY <1>p, <2>1, <2>2 DEF PrintedWasServed
<1>5. NeverPrintedTwice'
  <2>1. ~Duplicate(report) => printed[report] = 0
    BY NewKeyIsUnprinted DEF AcceptReport
  <2> QED BY <1>p, <2>1 DEF NeverPrintedTwice
<1>6. ledgerBuild' = version /\ ledgerBuild' <= version'
  BY <1>1 DEF AcceptReport, LedgerInv, StartsOver
<1>7. ASSUME NEW k \in Key, printed'[k] > 0
      PROVE  /\ 0 < k.build /\ k.build <= ledgerBuild'
             /\ k.build = ledgerBuild' => k \in ledgerKeys'
  <2>1. CASE printed[k] > 0
    <3>1. k.build \in Nat
      BY DEF Key
    <3>2. 0 < k.build /\ k.build <= ledgerBuild'
      BY <1>6, <2>1, <3>1 DEF LedgerInv
    <3>3. ASSUME k.build = ledgerBuild' PROVE k \in ledgerKeys'
      <4>1. ledgerBuild = k.build
        BY <1>6, <2>1, <3>1, <3>3 DEF LedgerInv
      <4>2. ~StartsOver(report)
        BY <1>1, <1>6, <3>1, <3>2, <3>3, <4>1 DEF StartsOver
      <4>3. k \in KeysFor(report)
        BY <2>1, <4>1, <4>2 DEF LedgerInv, KeysFor
      <4> QED BY <4>3 DEF AcceptReport
    <3> QED BY <3>2, <3>3
  <2>2. CASE ~(printed[k] > 0)
    <3>1. k = report /\ report \in ledgerKeys'
      BY <1>7, <1>p, <2>2
    <3> QED BY <1>1, <1>6, <3>1
  <2> QED BY <2>1, <2>2
<1> QED BY <1>2, <1>3, <1>4, <1>5, <1>6, <1>7 DEF LedgerInv

(* The invariant is inductive.                                             *)
THEOREM LedgerInvariance == LedgerSpec => []LedgerIInv
<1>1. LedgerInit => LedgerIInv
  <2> SUFFICES ASSUME LedgerInit PROVE LedgerIInv
    OBVIOUS
  <2>1. outcome \in [ok : BOOLEAN, pages : SUBSET Pages]
    BY OutcomeType, Zenon DEF LedgerInit, PublicationInit
  <2>2. /\ version = 0 /\ ok = FALSE /\ errorVersion = 0 /\ servedVersion = 0
        /\ servedPages = {} /\ bpc = "idle" /\ nextVersion = 0
        /\ ledgerBuild = 0 /\ ledgerKeys = {} /\ everServed = {}
        /\ printed = [k \in Key |-> 0]
    BY Zenon DEF LedgerInit, PublicationInit
  <2>a. ok \in BOOLEAN
    BY <2>2, Zenon
  <2>b. /\ version \in 0..MaxBuilds /\ errorVersion \in 0..MaxBuilds
        /\ servedVersion \in 0..MaxBuilds /\ nextVersion \in 0..MaxBuilds
        /\ servedPages \in SUBSET Pages /\ bpc \in {"idle", "render", "broadcast"}
        /\ ledgerBuild \in 0..MaxBuilds /\ ledgerKeys \in SUBSET Key
        /\ printed \in [Key -> Nat]
        /\ everServed \in SUBSET ((0..MaxBuilds) \X Pages)
    BY <2>2
  <2>3. LedgerTypeOK
    BY <2>1, <2>a, <2>b DEF LedgerTypeOK, PublicationTypeOK
  <2>4. /\ LedgerPublicationInv /\ LedgerInv /\ PrintedWasServed
        /\ NeverPrintedTwice
    BY <2>2 DEF LedgerPublicationInv, LedgerInv, PrintedWasServed,
                NeverPrintedTwice
  <2> QED BY <2>3, <2>4 DEF LedgerIInv
<1>2. LedgerIInv /\ [LedgerNext]_ledgerVars => LedgerIInv'
  <2> SUFFICES ASSUME LedgerIInv, [LedgerNext]_ledgerVars PROVE LedgerIInv'
    OBVIOUS
  <2>1. CASE UNCHANGED ledgerVars
    BY <2>1 DEF ledgerVars, publicationVars, reportVars, LedgerIInv, LedgerTypeOK,
                PublicationTypeOK, LedgerPublicationInv, LedgerInv, PrintedWasServed,
                NeverPrintedTwice
  <2> QED BY <2>1, BuilderKeepsInv, ReportKeepsInv DEF LedgerNext
<1> QED BY <1>1, <1>2, PTL DEF LedgerSpec

(* A report shown on the terminal names a page of a build that succeeded:  *)
(* http.rs:401-409.                                                        *)
THEOREM OnlyServedPrinted == LedgerSpec => []PrintedWasServed
BY LedgerInvariance, PTL DEF LedgerIInv

(* No page load is shown twice, however often it reports, although the     *)
(* ledger starts over at every newer build and is bounded: http.rs:414-438.*)
THEOREM PrintedOnce == LedgerSpec => []NeverPrintedTwice
BY LedgerInvariance, PTL DEF LedgerIInv
=============================================================================
