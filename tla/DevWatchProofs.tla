--------------------------- MODULE DevWatchProofs ---------------------------
(***************************************************************************)
(* For every set of files, every scope function and every bound: the type  *)
(* invariant of the watch loop, that it is never stranded on an unseen     *)
(* revision, that it never runs ahead of the session's revision, and that  *)
(* a quiet loop which absorbed nothing has built what is on disk.          *)
(***************************************************************************)
EXTENDS DevWatch, TLAPS

(* watch.rs, build_loop.rs: the initial state satisfies the inductive      *)
(* invariant.                                                              *)
LEMMA InitIndInv == Init => IndInv
<1> SUFFICES ASSUME Init PROVE IndInv OBVIOUS
<1> USE WatchAssumption DEF WatchAssumption, Init, Content, Unread
<1>1. TypeOK
  <2>1. disk \in [Files -> Content] OBVIOUS
  <2>2. [f \in Files |-> Unread] \in [Files -> Content \cup {Unread}] OBVIOUS
  <2>3. nextScope \in SUBSET SUBSET Files OBVIOUS
  <2> QED BY <2>1, <2>2, <2>3 DEF TypeOK, PCs, BackendStates
<1>2. SessionInv BY DEF SessionInv
<1>3. RevisionInv BY DEF RevisionInv
<1>4. NoStrandedWait BY DEF NoStrandedWait
<1>5. FreshInv BY DEF FreshInv
<1> QED BY <1>1, <1>2, <1>3, <1>4, <1>5 DEF IndInv

(* Every action of the watcher and of the loop keeps the types.            *)
LEMMA TypePreserved == TypeOK /\ [Next]_vars => TypeOK'
<1> SUFFICES ASSUME TypeOK, [Next]_vars PROVE TypeOK' OBVIOUS
<1> USE WatchAssumption DEF WatchAssumption, TypeOK, Content, Unread, PCs, BackendStates, sessionVars, loopVars
<1>1. ASSUME NEW f \in Files, Edit(f) PROVE TypeOK'
  BY <1>1 DEF Edit
<1>2. ASSUME NEW f \in Files, NotifyEvent(f) PROVE TypeOK'
  <2>1. known[f] + 1 \in Content
    <3>1. /\ known[f] < disk[f] /\ known[f] \in Content \cup {Unread}
          /\ disk[f] \in Content
      BY <1>2 DEF NotifyEvent
    <3> QED BY <3>1
  <2>2. known' \in [Files -> Content \cup {Unread}]
    <3>1. known' = [known EXCEPT ![f] = known[f] + 1] BY <1>2 DEF NotifyEvent
    <3>2. known \in [Files -> Content \cup {Unread}] OBVIOUS
    <3> HIDE DEF Content, Unread
    <3> QED BY <2>1, <3>1, <3>2
  <2>3. revision' \in Nat /\ sig' \in {"idle", "bumped"}
    BY <1>2 DEF NotifyEvent, BumpRevision
  <2> QED BY <1>2, <2>2, <2>3 DEF NotifyEvent
<1>3. CASE PollCollect
  BY <1>3 DEF PollCollect, Fingerprints
<1>4. CASE PollScan
  BY <1>4 DEF PollScan, Fingerprints, BumpRevision
<1>5. CASE TrySend
  BY <1>5 DEF TrySend
<1>6. CASE PollerPanic
  BY <1>6 DEF PollerPanic
<1>7. CASE SessionStart
  <2>1. scope' \in SUBSET Files
    <3>1. CASE nextScope = {}
      BY <1>7, <3>1 DEF SessionStart
    <3>2. CASE nextScope # {}
      <4>1. PICK s : s \in nextScope BY <3>2
      <4>2. (CHOOSE t \in nextScope : TRUE) \in nextScope BY <4>1
      <4> QED BY <1>7, <3>2, <4>2 DEF SessionStart
    <3> QED BY <3>1, <3>2
  <2>2. known' \in [Files -> Content \cup {Unread}]
    BY <1>7 DEF SessionStart
  <2>3. backend' \in BackendStates
    BY <1>7 DEF SessionStart
  <2> HIDE DEF Content, Unread
  <2> QED BY <1>7, <2>1, <2>2, <2>3 DEF SessionStart
<1>8. CASE Baseline BY <1>8 DEF Baseline
<1>9. CASE BeginWait BY <1>9 DEF BeginWait
<1>10. CASE Recv BY <1>10 DEF Recv
<1>11. CASE RecvClosed BY <1>11 DEF RecvClosed
<1>12. CASE DebounceMore BY <1>12 DEF DebounceMore
<1>13. CASE DebounceEnd BY <1>13 DEF DebounceEnd
<1>14. CASE BeginBuild BY <1>14 DEF BeginBuild
<1>15. ASSUME NEW f \in Files, ReadFile(f) PROVE TypeOK'
  BY <1>15 DEF ReadFile
<1>16. CASE FinishBuild
  <2>1. input[Config] \in 0..MaxEdits BY <1>16 DEF FinishBuild
  <2>2. nextScope' \in SUBSET SUBSET Files
    BY <1>16, <2>1 DEF FinishBuild
  <2> QED BY <1>16, <2>2 DEF FinishBuild
<1>17. CASE CheckStable BY <1>17 DEF CheckStable
<1>18. CASE Settle BY <1>18 DEF Settle
<1>19. CASE UNCHANGED vars BY <1>19 DEF vars
<1> QED
  BY <1>1, <1>2, <1>3, <1>4, <1>5, <1>6, <1>7, <1>8, <1>9, <1>10, <1>11,
     <1>12, <1>13, <1>14, <1>15, <1>16, <1>17, <1>18, <1>19
     DEF Next, Watcher, BuildLoop

(* The session bookkeeping: no build of a session precedes the first       *)
(* fingerprints of its polling worker.                                     *)
LEMMA SessionPreserved ==
    TypeOK /\ SessionInv /\ [Next]_vars => SessionInv'
<1> SUFFICES ASSUME TypeOK, SessionInv, [Next]_vars PROVE SessionInv' OBVIOUS
<1> USE DEF TypeOK, SessionInv, sessionVars, loopVars
<1>1. ASSUME NEW f \in Files, Edit(f) PROVE SessionInv'
  BY <1>1 DEF Edit
<1>2. ASSUME NEW f \in Files, NotifyEvent(f) PROVE SessionInv'
  BY <1>2 DEF NotifyEvent, BumpRevision
<1>3. CASE PollCollect BY <1>3 DEF PollCollect
<1>4. CASE PollScan BY <1>4 DEF PollScan, BumpRevision
<1>5. CASE TrySend BY <1>5 DEF TrySend
<1>6. CASE PollerPanic BY <1>6 DEF PollerPanic
<1>7. CASE SessionStart BY <1>7 DEF SessionStart
<1>8. CASE Baseline BY <1>8 DEF Baseline
<1>9. CASE BeginWait
  BY <1>9 DEF BeginWait
<1>10. CASE Recv BY <1>10 DEF Recv
<1>11. CASE RecvClosed BY <1>11 DEF RecvClosed
<1>12. CASE DebounceMore BY <1>12 DEF DebounceMore
<1>13. CASE DebounceEnd BY <1>13 DEF DebounceEnd
<1>14. CASE BeginBuild BY <1>14 DEF BeginBuild
<1>15. ASSUME NEW f \in Files, ReadFile(f) PROVE SessionInv'
  BY <1>15 DEF ReadFile
<1>16. CASE FinishBuild BY <1>16 DEF FinishBuild
<1>17. CASE CheckStable BY <1>17 DEF CheckStable
<1>18. CASE Settle BY <1>18 DEF Settle
<1>19. CASE UNCHANGED vars BY <1>19 DEF vars
<1> QED
  BY <1>1, <1>2, <1>3, <1>4, <1>5, <1>6, <1>7, <1>8, <1>9, <1>10, <1>11,
     <1>12, <1>13, <1>14, <1>15, <1>16, <1>17, <1>18, <1>19
     DEF Next, Watcher, BuildLoop

(* The loop's recorded revisions never exceed the session's counter.       *)
LEMMA RevisionPreserved ==
    TypeOK /\ SessionInv /\ RevisionInv /\ [Next]_vars
        => RevisionInv'
<1> SUFFICES ASSUME TypeOK, SessionInv, RevisionInv, [Next]_vars
             PROVE  RevisionInv'
  OBVIOUS
<1> USE DEF TypeOK, SessionInv, RevisionInv, sessionVars, loopVars
<1>1. ASSUME NEW f \in Files, Edit(f) PROVE RevisionInv'
  BY <1>1 DEF Edit
<1>2. ASSUME NEW f \in Files, NotifyEvent(f) PROVE RevisionInv'
  BY <1>2 DEF NotifyEvent, BumpRevision
<1>3. CASE PollCollect BY <1>3 DEF PollCollect
<1>4. CASE PollScan BY <1>4 DEF PollScan, BumpRevision
<1>5. CASE TrySend BY <1>5 DEF TrySend
<1>6. CASE PollerPanic BY <1>6 DEF PollerPanic
<1>7. CASE SessionStart BY <1>7 DEF SessionStart
<1>8. CASE Baseline BY <1>8 DEF Baseline
<1>9. CASE BeginWait BY <1>9 DEF BeginWait
<1>10. CASE Recv BY <1>10 DEF Recv
<1>11. CASE RecvClosed BY <1>11 DEF RecvClosed
<1>12. CASE DebounceMore BY <1>12 DEF DebounceMore
<1>13. CASE DebounceEnd BY <1>13 DEF DebounceEnd
<1>14. CASE BeginBuild BY <1>14 DEF BeginBuild
<1>15. ASSUME NEW f \in Files, ReadFile(f) PROVE RevisionInv'
  BY <1>15 DEF ReadFile
<1>16. CASE FinishBuild BY <1>16 DEF FinishBuild
<1>17. CASE CheckStable BY <1>17 DEF CheckStable
<1>18. CASE Settle BY <1>18 DEF Settle
<1>19. CASE UNCHANGED vars BY <1>19 DEF vars
<1> QED
  BY <1>1, <1>2, <1>3, <1>4, <1>5, <1>6, <1>7, <1>8, <1>9, <1>10, <1>11,
     <1>12, <1>13, <1>14, <1>15, <1>16, <1>17, <1>18, <1>19
     DEF Next, Watcher, BuildLoop

(* A bump always has its wake buffered or on the way.                      *)
LEMMA StrandedPreserved ==
    TypeOK /\ NoStrandedWait /\ [Next]_vars
        => NoStrandedWait'
<1> SUFFICES ASSUME TypeOK, NoStrandedWait, [Next]_vars
             PROVE  NoStrandedWait'
  OBVIOUS
<1> USE DEF TypeOK, NoStrandedWait, sessionVars, loopVars
<1>1. ASSUME NEW f \in Files, Edit(f) PROVE NoStrandedWait'
  BY <1>1 DEF Edit
<1>2. ASSUME NEW f \in Files, NotifyEvent(f) PROVE NoStrandedWait'
  BY <1>2 DEF NotifyEvent, BumpRevision
<1>3. CASE PollCollect BY <1>3 DEF PollCollect
<1>4. CASE PollScan BY <1>4 DEF PollScan, BumpRevision
<1>5. CASE TrySend BY <1>5 DEF TrySend
<1>6. CASE PollerPanic BY <1>6 DEF PollerPanic
<1>7. CASE SessionStart BY <1>7 DEF SessionStart
<1>8. CASE Baseline BY <1>8 DEF Baseline
<1>9. CASE BeginWait BY <1>9 DEF BeginWait
<1>10. CASE Recv BY <1>10 DEF Recv
<1>11. CASE RecvClosed BY <1>11 DEF RecvClosed
<1>12. CASE DebounceMore BY <1>12 DEF DebounceMore
<1>13. CASE DebounceEnd BY <1>13 DEF DebounceEnd
<1>14. CASE BeginBuild BY <1>14 DEF BeginBuild
<1>15. ASSUME NEW f \in Files, ReadFile(f) PROVE NoStrandedWait'
  BY <1>15 DEF ReadFile
<1>16. CASE FinishBuild BY <1>16 DEF FinishBuild
<1>17. CASE CheckStable BY <1>17 DEF CheckStable
<1>18. CASE Settle BY <1>18 DEF Settle
<1>19. CASE UNCHANGED vars BY <1>19 DEF vars
<1> QED
  BY <1>1, <1>2, <1>3, <1>4, <1>5, <1>6, <1>7, <1>8, <1>9, <1>10, <1>11,
     <1>12, <1>13, <1>14, <1>15, <1>16, <1>17, <1>18, <1>19
     DEF Next, Watcher, BuildLoop

(* What the backend accounted for is not newer than what the build read,   *)
(* as long as the revision stands where the build started.                 *)
LEMMA FreshPreserved ==
    TypeOK /\ SessionInv /\ RevisionInv /\ FreshInv /\ [Next]_vars
        => FreshInv'
<1> SUFFICES ASSUME TypeOK, SessionInv, RevisionInv, FreshInv, [Next]_vars
             PROVE  FreshInv'
  OBVIOUS
<1> USE DEF TypeOK, SessionInv, RevisionInv, FreshInv, Content, Unread, sessionVars,
        loopVars
<1>1. ASSUME NEW f \in Files, Edit(f) PROVE FreshInv'
  BY <1>1 DEF Edit
<1>2. ASSUME NEW f \in Files, NotifyEvent(f) PROVE FreshInv'
  BY <1>2 DEF NotifyEvent, BumpRevision
<1>3. CASE PollCollect
  <2>1. startSession # session BY <1>3 DEF PollCollect
  <2>2. \A f \in Files : known'[f] <= disk[f]
    BY <1>3 DEF PollCollect, Fingerprints
  <2> QED BY <1>3, <2>1, <2>2 DEF PollCollect
<1>4. CASE PollScan
  <2>1. startSession = session => revision' # startRev
    BY <1>4 DEF PollScan, BumpRevision
  <2>2. \A f \in Files : known'[f] <= disk[f]
    BY <1>4 DEF PollScan, Fingerprints
  <2> QED BY <1>4, <2>1, <2>2 DEF PollScan
<1>5. CASE TrySend BY <1>5 DEF TrySend
<1>6. CASE PollerPanic BY <1>6 DEF PollerPanic
<1>7. CASE SessionStart BY <1>7 DEF SessionStart
<1>8. CASE Baseline BY <1>8 DEF Baseline
<1>9. CASE BeginWait BY <1>9 DEF BeginWait
<1>10. CASE Recv BY <1>10 DEF Recv
<1>11. CASE RecvClosed BY <1>11 DEF RecvClosed
<1>12. CASE DebounceMore BY <1>12 DEF DebounceMore
<1>13. CASE DebounceEnd BY <1>13 DEF DebounceEnd
<1>14. CASE BeginBuild BY <1>14 DEF BeginBuild
<1>15. ASSUME NEW f \in Files, ReadFile(f) PROVE FreshInv'
  BY <1>15 DEF ReadFile
<1>16. CASE FinishBuild BY <1>16 DEF FinishBuild
<1>17. CASE CheckStable BY <1>17 DEF CheckStable
<1>18. CASE Settle BY <1>18 DEF Settle
<1>19. CASE UNCHANGED vars BY <1>19 DEF vars
<1> QED
  BY <1>1, <1>2, <1>3, <1>4, <1>5, <1>6, <1>7, <1>8, <1>9, <1>10, <1>11,
     <1>12, <1>13, <1>14, <1>15, <1>16, <1>17, <1>18, <1>19
     DEF Next, Watcher, BuildLoop

-----------------------------------------------------------------------------
(* Every reachable state of the watch loop satisfies the strengthening.    *)
LEMMA IndInvAlways == Spec => []IndInv
<1>1. IndInv /\ [Next]_vars => IndInv'
  BY TypePreserved, SessionPreserved, RevisionPreserved, StrandedPreserved,
     FreshPreserved DEF IndInv
<1> QED BY InitIndInv, <1>1, PTL DEF Spec

(* watch.rs and build_loop.rs: the variables of the session and of the     *)
(* loop keep their types for every set of files and every bound.           *)
THEOREM TypeCorrect == Spec => []TypeOK
<1>1. IndInv => TypeOK BY DEF IndInv
<1> QED BY IndInvAlways, <1>1, PTL

(* watch.rs:284: the loop never blocks on a revision it has not seen       *)
(* without a wake buffered or about to be sent.                            *)
THEOREM WaitNeverStranded == Spec => []NoStrandedWait
<1>1. IndInv => NoStrandedWait BY DEF IndInv
<1> QED BY IndInvAlways, <1>1, PTL

(* build_loop.rs:708 and :714: the loop never waits for less than the      *)
(* session's next bump.                                                    *)
THEOREM SeenNeverAhead == Spec => []SeenIsReached
<1>1. IndInv => SeenIsReached BY DEF IndInv, RevisionInv, SeenIsReached
<1> QED BY IndInvAlways, <1>1, PTL

(* build_loop.rs:662: a quiet loop whose recorded revision is the one its  *)
(* latest build started from has published what is on disk.                *)
THEOREM QuietLoopFresh == Spec => []QuietLoopIsFresh
<1>1. IndInv => QuietLoopIsFresh
  <2> SUFFICES ASSUME IndInv, Quiet, startSession = session,
                      lastSeen = startRev, NEW f \in scope
               PROVE  built[f] = disk[f]
    BY DEF QuietLoopIsFresh
  <2>1. revision = startRev
    BY DEF IndInv, TypeOK, RevisionInv, Quiet
  <2>2. known[f] <= built[f] /\ built[f] <= disk[f]
    BY <2>1 DEF IndInv, TypeOK, FreshInv, Quiet
  <2>3. known[f] = disk[f] BY DEF Quiet
  <2>4. built[f] \in Int /\ disk[f] \in Int
    BY WatchAssumption DEF WatchAssumption, IndInv, TypeOK, Content, Unread
  <2> QED BY <2>2, <2>3, <2>4
<1> QED BY IndInvAlways, <1>1, PTL
=============================================================================
