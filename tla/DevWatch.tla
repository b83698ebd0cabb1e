------------------------------ MODULE DevWatch ------------------------------
(***************************************************************************)
(* The dev server's change detection and rebuild loop:                     *)
(* projects/dev_server/{watch,build_loop,server}.rs.                       *)
(*                                                                         *)
(* Two threads run.  The watcher (a `notify` callback or the polling       *)
(* worker) turns edits of watched files into revision bumps followed by a  *)
(* wake on a channel of capacity one.  The build loop waits for a revision *)
(* it has not seen, debounces, builds until the revision stands still, and *)
(* restarts the watch session when the build derived another scope.        *)
(*                                                                         *)
(* A file's content is the number of edits made to it.  A build reads each *)
(* file at its own moment; everything else the compiler does is abstracted *)
(* to "the published result reflects the contents that were read".         *)
(***************************************************************************)
EXTENDS Integers

CONSTANTS
    Files,          \* source files a build reads
    Config,         \* the file whose content decides the watch scope
    ScopeOf,        \* ScopeOf[v]: files watched when Config has content v
    DefaultScope,   \* scope used when the first build derives none
    Backends,       \* watch backends a session may end up with
    PollerMayPanic, \* whether the polling worker may die
    MaxEdits,       \* bound: edits per file
    MaxRebuilds     \* MAX_CONSECUTIVE_REBUILDS

ASSUME WatchAssumption ==
    /\ MaxEdits \in Nat
    /\ MaxRebuilds \in Nat \ {0}
    /\ Config \in Files
    /\ ScopeOf \in [0..MaxEdits -> SUBSET Files]
    /\ DefaultScope \in SUBSET Files
    /\ Backends \in SUBSET {"notify", "spawned"}
    /\ PollerMayPanic \in BOOLEAN

VARIABLES
    disk,         \* contents of the source files
    \* the watch session
    session,      \* number of sessions started so far, 0 before the first
    scope,        \* files whose changes the session reports
    backend,      \* see BackendStates
    known,        \* last content the backend accounted for; -1: none
    sig,          \* "bumped" between signal_change's fetch_add and try_send
    revision,     \* AtomicU64
    wake,         \* messages in the sync_channel(1)
    \* the build loop
    pc,
    lastSeen,     \* last_seen_revision
    seen,         \* seen_revision
    builds,       \* build_count
    startRev,     \* build_start_revision
    startSession, \* session in which the latest build started; history
    input,        \* contents the running build has read; -1: not yet
    nextScope,    \* report.watch_scope: {} for None, {s} for Some(s)
    built         \* contents reflected by the latest published build

sessionVars == <<session, scope, backend, known, sig, revision, wake>>
loopVars == <<pc, lastSeen, seen, builds, startRev, startSession, input,
              nextScope, built>>
vars == <<disk, sessionVars, loopVars>>

Content == 0..MaxEdits
Unread == -1

(* A session runs a notify watcher, or a polling worker: spawned, then     *)
(* polling once it has its first fingerprints, dead if it panicked (its    *)
(* sender was the only one, so the channel is closed).                     *)
BackendStates == {"none", "notify", "spawned", "polling", "dead"}

PCs == {"read", "start", "baseline", "wait", "recv", "debounce", "begin",
        "check", "settle", "stopped"}

(* Every variable has its type; the wake channel holds at most one wake.   *)
TypeOK ==
    /\ disk \in [Files -> Content]
    /\ session \in Nat
    /\ scope \in SUBSET Files
    /\ backend \in BackendStates
    /\ known \in [Files -> Content \cup {Unread}]
    /\ sig \in {"idle", "bumped"}
    /\ revision \in Nat
    /\ wake \in {0, 1}
    /\ pc \in PCs
    /\ lastSeen \in Nat
    /\ seen \in Nat
    /\ builds \in Nat
    /\ startRev \in Nat
    /\ startSession \in Nat
    /\ input \in [Files -> Content \cup {Unread}]
    /\ nextScope \in SUBSET SUBSET Files
    /\ built \in [Files -> Content \cup {Unread}]

(* The server runs its first build before it binds, and before any session *)
(* watches the files.                                                      *)
Init ==
    /\ disk = [f \in Files |-> 0]
    /\ session = 0
    /\ scope = DefaultScope
    /\ backend = "none"
    /\ known = [f \in Files |-> Unread]
    /\ sig = "idle"
    /\ revision = 0
    /\ wake = 0
    /\ pc = "read"
    /\ lastSeen = 0
    /\ seen = 0
    /\ builds = 0
    /\ startRev = 0
    /\ startSession = 0
    /\ input = [f \in Files |-> Unread]
    /\ nextScope = {}
    /\ built = [f \in Files |-> Unread]

-----------------------------------------------------------------------------
(* The user, an editor, or the build itself changes a source file.         *)
Edit(f) ==
    /\ disk[f] < MaxEdits
    /\ disk' = [disk EXCEPT ![f] = @ + 1]
    /\ UNCHANGED <<sessionVars, loopVars>>

(***************************************************************************)
(* The watcher.  The fetch_add of signal_change is part of the step that   *)
(* found the change; its try_send is TrySend.                              *)
(***************************************************************************)
(* Mutant of BumpRevision: the wake is never sent.                         *)
BumpRevisionSilent ==
    /\ revision' = revision + 1
    /\ sig' = "idle"

BumpRevision ==
    /\ revision' = revision + 1
    /\ sig' = "bumped"

(* The notify callback runs once per event, on one thread; events of paths *)
(* outside the scope are ignored.                                          *)
NotifyEvent(f) ==
    /\ backend = "notify"
    /\ sig = "idle"
    /\ known[f] < disk[f]
    /\ known' = [known EXCEPT ![f] = @ + 1]
    /\ \/ f \in scope /\ BumpRevision
       \/ f \notin scope /\ UNCHANGED <<revision, sig>>
    /\ UNCHANGED <<disk, session, scope, backend, wake,
                   loopVars>>

Fingerprints == [f \in Files |-> IF f \in scope THEN disk[f] ELSE Unread]

(* The polling worker takes its first fingerprints on its own thread; a    *)
(* failed collection leaves the map empty.                                 *)
PollCollect ==
    /\ backend = "spawned"
    /\ backend' = "polling"
    /\ known' \in {Fingerprints, [f \in Files |-> Unread]}
    /\ UNCHANGED <<disk, session, scope, sig, revision, wake, loopVars>>

(* A scan that detects a change replaces the known fingerprints and        *)
(* signals.  A failed scan and one without changes do nothing.             *)
PollScan ==
    /\ backend = "polling"
    /\ sig = "idle"
    /\ known # Fingerprints
    /\ known' = Fingerprints
    /\ BumpRevision
    /\ UNCHANGED <<disk, session, scope, backend, wake,
                   loopVars>>

TrySend ==
    /\ sig = "bumped"
    /\ sig' = "idle"
    /\ wake' = 1
    /\ UNCHANGED <<disk, session, scope, backend, known,
                   revision, loopVars>>

(* The polling worker dies, possibly between the bump and the send.        *)
PollerPanic ==
    /\ PollerMayPanic
    /\ backend \in {"spawned", "polling"}
    /\ backend' = "dead"
    /\ sig' = "idle"
    /\ UNCHANGED <<disk, session, scope, known, revision, wake, loopVars>>

-----------------------------------------------------------------------------
(***************************************************************************)
(* The build loop.                                                         *)
(***************************************************************************)

(* WatchSession::start: a fresh counter and channel.  A notify watcher     *)
(* reports what changes from here on; a polling worker has yet to look.    *)
(* The previous session, and a wake it was about to send, are dropped.     *)
(* A notify watcher that failed on one of its targets may have signalled   *)
(* changes of the earlier ones before polling takes over its counter.      *)
SessionStart ==
    /\ pc = "start"
    /\ session' = session + 1
    /\ scope' = IF nextScope = {} THEN scope ELSE CHOOSE s \in nextScope : TRUE
    /\ backend' \in Backends
    /\ known' = IF backend' = "notify" THEN disk
                ELSE [f \in Files |-> Unread]
    /\ sig' = "idle"
    /\ revision' \in IF backend' = "notify" THEN {0} ELSE {0, 1}
    /\ wake' = revision'
    /\ pc' = "baseline"
    /\ UNCHANGED <<disk, lastSeen, seen, builds, startRev, startSession,
                   input, nextScope, built>>

(* Mutant of Baseline: the revision of the old session is kept.            *)
BaselineKept ==
    /\ pc = "baseline"
    /\ pc' = "wait"
    /\ UNCHANGED <<disk, sessionVars, lastSeen, seen, builds, startRev,
                   startSession, input, nextScope, built>>

(* last_seen_revision = watch_session.current_revision() after a start.    *)
Baseline ==
    /\ pc = "baseline"
    /\ lastSeen' = revision
    /\ pc' = "wait"
    /\ UNCHANGED <<disk, sessionVars, seen, builds, startRev, startSession,
                   input, nextScope, built>>

(* wait_for_stable_change: the check that precedes the blocking receive.   *)
BeginWait ==
    /\ pc = "wait"
    /\ pc' = IF revision <= lastSeen THEN "recv" ELSE "debounce"
    /\ UNCHANGED <<disk, sessionVars, lastSeen, seen, builds, startRev,
                   startSession, input, nextScope, built>>

(* Mutant of Recv: the wake is taken without looking at the revision.      *)
RecvIgnored ==
    /\ pc = "recv"
    /\ wake = 1
    /\ wake' = 0
    /\ UNCHANGED <<disk, session, scope, backend, known, sig, revision,
                   loopVars>>

(* One recv(); a wake for a revision already seen is swallowed.            *)
Recv ==
    /\ pc = "recv"
    /\ wake = 1
    /\ wake' = 0
    /\ pc' = IF revision > lastSeen THEN "debounce" ELSE "recv"
    /\ UNCHANGED <<disk, session, scope, backend, known,
                   sig, revision, lastSeen, seen, builds, startRev,
                   startSession, input, nextScope, built>>

(* recv() fails once the channel is empty and closed: the loop returns.    *)
RecvClosed ==
    /\ pc = "recv"
    /\ wake = 0
    /\ backend = "dead"
    /\ pc' = "stopped"
    /\ UNCHANGED <<disk, sessionVars, lastSeen, seen, builds, startRev,
                   startSession, input, nextScope, built>>

DebounceMore ==
    /\ pc = "debounce"
    /\ wake = 1
    /\ wake' = 0
    /\ UNCHANGED <<disk, session, scope, backend, known,
                   sig, revision, loopVars>>

(* recv_timeout saw neither a wake nor, for 50 ms, a sender.               *)
DebounceEnd ==
    /\ pc = "debounce"
    /\ wake = 0
    /\ seen' = revision
    /\ builds' = 0
    /\ pc' = "begin"
    /\ UNCHANGED <<disk, sessionVars, lastSeen, startRev, startSession, input,
                   nextScope, built>>

(* Top of the loop of run_builds_until_stable.                             *)
BeginBuild ==
    /\ pc = "begin"
    /\ startRev' = revision
    /\ startSession' = session
    /\ input' = [f \in Files |-> Unread]
    /\ pc' = "read"
    /\ UNCHANGED <<disk, sessionVars, lastSeen, seen, builds, nextScope,
                   built>>

ReadFile(f) ==
    /\ pc = "read"
    /\ input[f] = Unread
    /\ input' = [input EXCEPT ![f] = disk[f]]
    /\ UNCHANGED <<disk, sessionVars, pc, lastSeen, seen, builds, startRev,
                   startSession, nextScope, built>>

(* Mutant of FinishBuild: the start revision is taken after the build.     *)
FinishBuildLate ==
    /\ pc = "read"
    /\ \A f \in Files : input[f] # Unread
    /\ built' = input
    /\ nextScope' \in {{}, {ScopeOf[input[Config]]}}
    /\ builds' = builds + 1
    /\ startRev' = revision
    /\ pc' = IF session = 0 THEN "start" ELSE "check"
    /\ UNCHANGED <<disk, sessionVars, lastSeen, seen, startSession, input>>

(* The cycle publishes its outcome.  A compile, write or panic failure     *)
(* reports no scope; later failures and a success report the derived one.  *)
(* The very first cycle runs on the main thread, outside the loop.         *)
FinishBuild ==
    /\ pc = "read"
    /\ \A f \in Files : input[f] # Unread
    /\ built' = input
    /\ nextScope' \in {{}, {ScopeOf[input[Config]]}}
    /\ builds' = builds + 1
    /\ pc' = IF session = 0 THEN "start" ELSE "check"
    /\ UNCHANGED <<disk, sessionVars, lastSeen, seen, startRev, startSession,
                   input>>

(* Build again while the revision moves, up to the consecutive limit.      *)
CheckStable ==
    /\ pc = "check"
    /\ pc' = IF revision = startRev \/ builds >= MaxRebuilds
             THEN "settle" ELSE "begin"
    /\ UNCHANGED <<disk, sessionVars, lastSeen, seen, builds, startRev,
                   startSession, input, nextScope, built>>

(* last_seen_revision = current_revision().max(seen_revision), then the    *)
(* comparison of the reported scope with the session's.                    *)
Settle ==
    /\ pc = "settle"
    /\ lastSeen' = IF revision >= seen THEN revision ELSE seen
    /\ pc' = IF nextScope \in {{}, {scope}} THEN "wait" ELSE "start"
    /\ UNCHANGED <<disk, sessionVars, seen, builds, startRev, startSession,
                   input, nextScope, built>>

-----------------------------------------------------------------------------
Watcher ==
    \/ \E f \in Files : NotifyEvent(f)
    \/ PollCollect
    \/ PollScan
    \/ TrySend

BuildLoop ==
    \/ SessionStart \/ Baseline
    \/ BeginWait \/ Recv \/ RecvClosed \/ DebounceMore \/ DebounceEnd
    \/ BeginBuild \/ (\E f \in Files : ReadFile(f)) \/ FinishBuild
    \/ CheckStable \/ Settle

Next ==
    \/ \E f \in Files : Edit(f)
    \/ Watcher
    \/ PollerPanic
    \/ BuildLoop

Spec == Init /\ [][Next]_vars

(* The loop's thread keeps running and the operating system delivers file  *)
(* events.  Nobody promises an edit, and nothing promises a panic.         *)
Fairness == WF_vars(Watcher) /\ WF_vars(BuildLoop)
FairSpec == Spec /\ Fairness

-----------------------------------------------------------------------------
(***************************************************************************)
(* Properties.                                                             *)
(***************************************************************************)

(* watch.rs:284 blocks in recv() after comparing revisions.  Whenever it   *)
(* blocks on a revision it has not seen, a wake is buffered or the         *)
(* signaller is about to send one: signal_change bumps before it sends, so *)
(* the capacity-one channel cannot strand the loop.                        *)
NoStrandedWait ==
    pc = "recv" /\ revision > lastSeen /\ backend # "dead" =>
        wake = 1 \/ sig = "bumped"

(* Every change of a watched file has reached the loop.                    *)
Quiet ==
    /\ pc = "recv"
    /\ revision <= lastSeen
    /\ backend \in {"notify", "polling"}
    /\ \A f \in scope : known[f] = disk[f]

(* build_loop.rs:662 and :708: if the revision recorded on leaving the     *)
(* build loop is the one the latest build of this session started from,    *)
(* then a loop with nothing left to hear has published the current content *)
(* of every watched file, however edits, events and reads interleaved.     *)
QuietLoopIsFresh ==
    Quiet /\ startSession = session /\ lastSeen = startRev =>
        \A f \in scope : built[f] = disk[f]

(* build_loop.rs:708: the loop never claims to have seen a revision the    *)
(* session has not reached, so waiting can always end with the next bump.  *)
SeenIsReached == pc \in {"wait", "recv"} => lastSeen <= revision

(* The strengthening from which TLAPS derives the three invariants above.  *)
(* SessionInv ties the session to the loop's position: until its polling   *)
(* worker has its first fingerprints the loop waits at the revision the    *)
(* session started with, so no build of the session has begun.  FreshInv   *)
(* says that as long as the revision has not moved since the build         *)
(* started, what the backend has accounted for is not newer than what the  *)
(* build has read.                                                         *)
SessionInv ==
    /\ startSession <= session
    /\ session = 0 => backend = "none" /\ pc \in {"read", "start"}
    /\ backend = "spawned" => /\ startSession < session
                              /\ pc \in {"baseline", "wait", "recv"}
                              /\ pc # "baseline" => lastSeen = revision
    /\ pc \in {"read", "check", "settle"} => startSession = session

RevisionInv ==
    /\ pc \notin {"start", "baseline"} => lastSeen <= revision
    /\ pc \in {"begin", "read", "check", "settle"} => seen <= revision
    /\ startSession = session => startRev <= revision

FreshInv ==
    /\ \A f \in Files : known[f] <= disk[f] /\ input[f] <= disk[f]
                                             /\ built[f] <= disk[f]
    /\ startSession = session /\ revision = startRev =>
         \A f \in scope :
            /\ input[f] # Unread => known[f] <= input[f]
            /\ pc \notin {"begin", "read"} => known[f] <= built[f]

IndInv == TypeOK /\ SessionInv /\ RevisionInv /\ NoStrandedWait /\ FreshInv

(* watch.rs:284-304 and build_loop.rs:693-706: a watched change that is    *)
(* still unreported, or reported and unseen, while the loop waits is in a  *)
(* published build eventually, whichever backend runs, unless the polling  *)
(* worker dies first.                                                      *)
ChangeWhileWaitingIsBuilt ==
    \A f \in Files : \A v \in Content :
        ( /\ pc = "recv" /\ f \in scope /\ disk[f] = v
          /\ backend \in {"notify", "polling"}
          /\ known[f] # disk[f] \/ revision > lastSeen )
        ~> built[f] >= v \/ backend = "dead"

(* README.md:87 promises a reload when files change.  A watched file that  *)
(* is edited after a build of the session published an older content is    *)
(* built again eventually.                                                 *)
EditAfterBuildIsBuilt ==
    \A f \in Files : \A v \in Content :
        ( /\ pc \in {"check", "settle"} /\ startSession = session
          /\ f \in scope /\ disk[f] = v )
        ~> built[f] >= v

=============================================================================
