------------------------ MODULE OutputManifestProofs ------------------------
(***************************************************************************)
(* Proofs about OutputManifest, for any number of overlapping invocations, *)
(* owners, policies and paths.                                             *)
(***************************************************************************)
EXTENDS OutputManifest, TLAPS

USE DEF Kinds, BuildManifest, NonOwners, rootVars, planVars, workVars, histVars

(* What a prefix of a manifest can say about paths, when no path is        *)
(* spelled as a prefix of another: write_build_manifest.                   *)
LEMMA PrefixShape ==
    ASSUME NEW m \in BuildManifest, NEW n \in ManifestPrefixes(m),
           OutputAssumption
    PROVE  /\ n \in BuildManifest
           /\ n.kind = "full" /\ (\A p \in Paths : CutOf[p] = {}) =>
                n.owner = m.owner /\ n.paths \subseteq m.paths
<1>1. CASE n \in [kind : {"ownerless", "builder", "garbled", "owner"},
                  owner : {m.owner}, policy : {m.policy}, paths : {{}}]
  BY <1>1
<1>2. CASE n \in [kind : {"full"}, owner : {m.owner}, policy : {m.policy},
                  paths : (SUBSET m.paths) \cup CutPaths(m.paths)]
  <2>1. ASSUME NEW c \in CutPaths(m.paths) PROVE c \in SUBSET Paths
    BY OutputAssumption DEF OutputAssumption, CutPaths
  <2>2. (\A p \in Paths : CutOf[p] = {}) => CutPaths(m.paths) = {}
    BY DEF CutPaths
  <2>3. /\ n.kind = "full" /\ n.owner = m.owner /\ n.policy = m.policy
        /\ n.paths \in (SUBSET m.paths) \cup CutPaths(m.paths)
        /\ n = [kind |-> n.kind, owner |-> n.owner, policy |-> n.policy,
                paths |-> n.paths]
    BY <1>2
  <2>4. n.paths \in SUBSET Paths /\ m.owner \in Owners /\ m.policy \in Policies
    BY <2>1, <2>3
  <2>5. n \in BuildManifest
    BY <2>3, <2>4
  <2> QED BY <2>2, <2>3, <2>5
<1> QED BY <1>1, <1>2 DEF ManifestPrefixes

(* Every state reached has the declared shape; manifest.rs and writer.rs.  *)
THEOREM TypeCorrect == Spec => []TypeOK
<1>1. Init => TypeOK
  BY OutputAssumption DEF OutputAssumption, Init, TypeOK
<1>2. TypeOK /\ [Next]_vars => TypeOK'
  <2> SUFFICES ASSUME TypeOK, [Next]_vars PROVE TypeOK'
    OBVIOUS
  <2> USE DEF TypeOK
  <2>d. \A x \in Paths \cup Dirs : Above[x] \in SUBSET Dirs
    BY OutputAssumption DEF OutputAssumption
  <2>1. ASSUME NEW w \in Writers, NEW o \in Owners, NEW y \in Policies,
               NEW files \in SUBSET Paths, NEW folders \in SUBSET Dirs,
               NEW raw \in SUBSET files, Begin(w, o, y, files, raw, folders)
        PROVE  TypeOK'
    <3>1. TrackedPaths(y) \in SUBSET Paths
      BY DEF TrackedPaths
    <3>2. Managed[y] \in SUBSET Paths
      BY OutputAssumption DEF OutputAssumption
    <3> QED BY <2>1, <3>1, <3>2 DEF Begin, StalePaths, ManagedOutputs
  <2>2. ASSUME NEW w \in Writers, NEW p \in Paths, EmitFile(w, p)
        PROVE  TypeOK'
    BY <2>2, <2>d DEF EmitFile, PutFile
  <2>3. ASSUME NEW w \in Writers, NEW p \in Paths, EmitFails(w, p)
        PROVE  TypeOK'
    <3>1. /\ disk' \in [Paths -> Owners \cup NonOwners] /\ dirs' \in SUBSET Dirs
          /\ wrote' \in [Paths -> SUBSET Owners] /\ managed' \in SUBSET Paths
      <4>1. CASE PutFile(w, p)
        BY <2>d, <4>1 DEF PutFile
      <4>2. CASE UNCHANGED <<disk, dirs, histVars>>
        BY <4>2
      <4> QED BY <2>3, <4>1, <4>2 DEF EmitFails
    <3> QED BY <2>3, <3>1 DEF EmitFails, End
  <2>4. ASSUME NEW w \in Writers, EmissionDone(w)
        PROVE  TypeOK'
    BY <2>4 DEF EmissionDone
  <2>5. ASSUME NEW w \in Writers, NEW p \in Paths, RemoveStale(w, p)
        PROVE  TypeOK'
    BY <2>5 DEF RemoveStale, Visit
  <2>6. ASSUME NEW w \in Writers, NEW p \in Paths, RetainStale(w, p)
        PROVE  TypeOK'
    BY <2>6 DEF RetainStale, Visit
  <2>7. ASSUME NEW w \in Writers, NEW p \in Paths,
               SkipMissing(w, p) \/ IgnoreStale(w, p)
        PROVE  TypeOK'
    BY <2>7 DEF SkipMissing, IgnoreStale, Visit
  <2>8. ASSUME NEW w \in Writers, WriteManifest(w)
        PROVE  TypeOK'
    BY <2>8 DEF WriteManifest, ManifestOf, Finish, End
  <2>9. ASSUME NEW w \in Writers, TearManifest(w)
        PROVE  TypeOK'
    <3>1. ManifestOf(w) \in BuildManifest
      BY DEF ManifestOf
    <3>2. manifest' \in BuildManifest
      BY <2>9, <3>1, PrefixShape, OutputAssumption DEF TearManifest
    <3> QED BY <2>9, <3>2 DEF TearManifest, Finish, End
  <2>10. ASSUME NEW w \in Writers, Crash(w)
         PROVE  TypeOK'
    BY <2>10 DEF Crash, End
  <2>11. ASSUME NEW p \in Paths, NEW what \in NonOwners, UserPuts(p, what)
         PROVE  TypeOK'
    BY <2>11, <2>d DEF UserPuts
  <2>12. CASE UserRemovesManifest
    BY <2>12 DEF UserRemovesManifest
  <2>13. ASSUME NEW w \in Writers, NEW d \in Dirs, MakeDirectory(w, d)
         PROVE  TypeOK'
    BY <2>13, <2>d DEF MakeDirectory
  <2>14. CASE UNCHANGED vars
    BY <2>14 DEF vars
  <2> QED BY <2>1, <2>2, <2>3, <2>4, <2>5, <2>6, <2>7, <2>8, <2>9, <2>10,
             <2>11, <2>12, <2>13, <2>14 DEF Next, Invocation, User
<1> QED BY <1>1, <1>2, PTL DEF Spec

NoCuts == \A p \in Paths : CutOf[p] = {}

OwnInv == TypeOK /\ TracksOnlyWritten /\ JobsOwnPaths

(* A manifest write that is interrupted adds no path and no other owner.   *)
LEMMA TornTracksLess ==
    ASSUME NoCuts, TypeOK, NEW w \in Writers, TearManifest(w)
    PROVE  manifest'.kind = "full" =>
             manifest'.owner = owner[w] /\ manifest'.paths \subseteq keep[w]
<1>1. ManifestOf(w) \in BuildManifest
  BY DEF ManifestOf, TypeOK
<1> QED BY <1>1, PrefixShape, OutputAssumption
        DEF TearManifest, NoCuts, ManifestOf

(* One step keeps what the manifest and the running invocations will touch *)
(* within what their owners wrote, if no path is a prefix of another.      *)
LEMMA OwnInvPreserved ==
    ASSUME NoCuts, OwnInv, TypeOK', [Next]_vars
    PROVE  TracksOnlyWritten' /\ JobsOwnPaths'
<1> USE DEF OwnInv, TypeOK, TracksOnlyWritten, JobsOwnPaths
<1>1. ASSUME NEW w \in Writers, NEW o \in Owners, NEW y \in Policies,
             NEW files \in SUBSET Paths, NEW folders \in SUBSET Dirs,
             NEW raw \in SUBSET files, Begin(w, o, y, files, raw, folders)
      PROVE  TracksOnlyWritten' /\ JobsOwnPaths'
  <2>1. \A p \in TrackedPaths(y) : o \in wrote[p]
    BY <1>1 DEF Begin, SameOwner, TrackedPaths
  <2>2. stale'[w] \subseteq TrackedPaths(y) /\ keep'[w] \ pending'[w] = {}
    BY <1>1 DEF Begin, StalePaths, ManagedOutputs
  <2> QED BY <1>1, <2>1, <2>2 DEF Begin
<1>2. ASSUME NEW w \in Writers, NEW p \in Paths, EmitFile(w, p)
      PROVE  TracksOnlyWritten' /\ JobsOwnPaths'
  BY <1>2 DEF EmitFile, PutFile
<1>3. ASSUME NEW w \in Writers, NEW p \in Paths, EmitFails(w, p)
      PROVE  TracksOnlyWritten' /\ JobsOwnPaths'
  <2>1. \A q \in Paths : wrote[q] \subseteq wrote'[q]
    BY <1>3 DEF EmitFails, PutFile
  <2> QED BY <1>3, <2>1 DEF EmitFails, End
<1>4. ASSUME NEW w \in Writers, EmissionDone(w)
      PROVE  TracksOnlyWritten' /\ JobsOwnPaths'
  BY <1>4 DEF EmissionDone
<1>5. ASSUME NEW w \in Writers, NEW p \in Paths, RemoveStale(w, p)
      PROVE  TracksOnlyWritten' /\ JobsOwnPaths'
  BY <1>5 DEF RemoveStale, Visit
<1>6. ASSUME NEW w \in Writers, NEW p \in Paths, RetainStale(w, p)
      PROVE  TracksOnlyWritten' /\ JobsOwnPaths'
  BY <1>6 DEF RetainStale, Visit
<1>7. ASSUME NEW w \in Writers, NEW p \in Paths,
             SkipMissing(w, p) \/ IgnoreStale(w, p)
      PROVE  TracksOnlyWritten' /\ JobsOwnPaths'
  BY <1>7 DEF SkipMissing, IgnoreStale, Visit
<1>8. ASSUME NEW w \in Writers, WriteManifest(w)
      PROVE  TracksOnlyWritten' /\ JobsOwnPaths'
  BY <1>8 DEF WriteManifest, ManifestOf, Finish, End
<1>9. ASSUME NEW w \in Writers, TearManifest(w)
      PROVE  TracksOnlyWritten' /\ JobsOwnPaths'
  <2>2. manifest'.kind = "full" =>
          manifest'.owner = owner[w] /\ manifest'.paths \subseteq keep[w]
    BY <1>9, TornTracksLess
  <2>3. \A p \in keep[w] : owner[w] \in wrote[p]
    BY <1>9 DEF TearManifest, Finish, End
  <2> QED BY <1>9, <2>2, <2>3 DEF TearManifest, Finish, End
<1>10. ASSUME NEW w \in Writers, Crash(w)
       PROVE  TracksOnlyWritten' /\ JobsOwnPaths'
  BY <1>10 DEF Crash, End
<1>11. ASSUME NEW p \in Paths, NEW what \in NonOwners, UserPuts(p, what)
       PROVE  TracksOnlyWritten' /\ JobsOwnPaths'
  BY <1>11 DEF UserPuts
<1>12. CASE UserRemovesManifest
  BY <1>12 DEF UserRemovesManifest
<1>13. ASSUME NEW w \in Writers, NEW d \in Dirs, MakeDirectory(w, d)
       PROVE  TracksOnlyWritten' /\ JobsOwnPaths'
  BY <1>13 DEF MakeDirectory
<1>14. CASE UNCHANGED vars
  BY <1>14 DEF vars
<1> HIDE DEF OwnInv, TypeOK, TracksOnlyWritten, JobsOwnPaths
<1> QED BY <1>1, <1>2, <1>3, <1>4, <1>5, <1>6, <1>7, <1>8, <1>9, <1>10,
           <1>11, <1>12, <1>13, <1>14 DEF Next, Invocation, User

(* A step of an invocation that empties a path removes a stale file.       *)
LEMMA RemovalIsOfStale ==
    ASSUME TypeOK, [Next]_vars, NEW w \in Writers, NEW p \in Paths, Steps(w),
           disk[p] # "absent", disk'[p] = "absent"
    PROVE  pc[w] = "clean" /\ p \in stale[w]
<1> USE DEF TypeOK
<1>1. ASSUME NEW v \in Writers, NEW q \in Paths, RemoveStale(v, q)
      PROVE  pc[w] = "clean" /\ p \in stale[w]
  BY <1>1 DEF RemoveStale, Visit, Steps
<1>2. ASSUME NEW v \in Writers, NEW q \in Paths,
             EmitFile(v, q) \/ EmitFails(v, q)
      PROVE  FALSE
  BY <1>2, OutputAssumption DEF OutputAssumption, EmitFile, EmitFails, PutFile
<1>3. ASSUME NEW q \in Paths, NEW what \in NonOwners, UserPuts(q, what)
      PROVE  FALSE
  BY <1>3 DEF UserPuts, Steps
<1>4. disk' # disk
  OBVIOUS
<1> QED BY <1>1, <1>2, <1>3, <1>4
        DEF Next, Invocation, User, Begin, MakeDirectory, EmissionDone,
            RetainStale, IgnoreStale, SkipMissing, WriteManifest, TearManifest,
            Finish, Crash, UserRemovesManifest, vars

(* However many invocations overlap, crash or leave torn manifests, each   *)
(* removes only files at paths its own owner wrote: manifest.rs:570-673.   *)
THEOREM OnlyOwnPathsRemoved ==
    ASSUME NoCuts PROVE Spec => RemovesOnlyOwnPaths
<1>1. Init => TracksOnlyWritten /\ JobsOwnPaths
  BY DEF Init, TracksOnlyWritten, JobsOwnPaths
<1>2. OwnInv /\ TypeOK' /\ [Next]_vars => TracksOnlyWritten' /\ JobsOwnPaths'
  BY OwnInvPreserved
<1>3. ASSUME OwnInv, [Next]_vars
      PROVE  [\A w \in Writers, p \in Paths :
                Steps(w) /\ disk[p] # "absent" /\ disk'[p] = "absent" =>
                    owner[w] \in wrote[p]]_vars
  BY <1>3, RemovalIsOfStale DEF OwnInv, JobsOwnPaths
<1> QED BY <1>1, <1>2, <1>3, TypeCorrect, PTL
        DEF Spec, OwnInv, RemovesOnlyOwnPaths

(* Nothing locks the output root; this is what it would take.              *)
OneWriter == \A v, w \in Writers : v = w

-----------------------------------------------------------------------------
(* When invocations do not overlap, what the manifest tracks and what the  *)
(* invocation at work may remove or record holds no other owner's file.    *)
OwnOrNobodys(p, o) == disk[p] \in NonOwners \cup {o}

NoForeignTracked ==
    /\ manifest.kind = "full" =>
         \A p \in manifest.paths : OwnOrNobodys(p, manifest.owner)
    /\ \A w \in Writers : pc[w] # "idle" =>
         /\ manifest.kind = "full" => manifest.owner = owner[w]
         /\ \A p \in stale[w] \cup (keep[w] \ pending[w]) :
              OwnOrNobodys(p, owner[w])
    /\ \A w \in Writers : pc[w] = "clean" => pending[w] = {}

LEMMA NoForeignPreserved ==
    ASSUME OneWriter, NoCuts, TypeOK, NoForeignTracked, [Next]_vars
    PROVE  NoForeignTracked'
<1> USE DEF TypeOK, NoForeignTracked, OwnOrNobodys
<1>w. ASSUME NEW w \in Writers PROVE \A v \in Writers : v = w
  BY DEF OneWriter
<1>1. ASSUME NEW w \in Writers, NEW o \in Owners, NEW y \in Policies,
             NEW files \in SUBSET Paths, NEW folders \in SUBSET Dirs,
             NEW raw \in SUBSET files, Begin(w, o, y, files, raw, folders)
      PROVE  NoForeignTracked'
  <2>1. manifest.kind = "full" => manifest.owner = o
    BY <1>1 DEF Begin, SameOwner
  <2>2. \A p \in TrackedPaths(y) : OwnOrNobodys(p, o)
    BY <2>1 DEF TrackedPaths
  <2>3. stale'[w] \subseteq TrackedPaths(y) /\ keep'[w] \ pending'[w] = {}
    BY <1>1 DEF Begin, StalePaths, ManagedOutputs
  <2>4. UNCHANGED <<disk, manifest>> /\ owner'[w] = o /\ pc'[w] = "emit"
    BY <1>1 DEF Begin
  <2>5. \A v \in Writers : v = w
    BY <1>w
  <2> QED BY <2>1, <2>2, <2>3, <2>4, <2>5
<1>2. ASSUME NEW w \in Writers, NEW p \in Paths, EmitFile(w, p)
      PROVE  NoForeignTracked'
  <2>1. \A v \in Writers : v = w
    BY <1>w
  <2>2. /\ UNCHANGED <<manifest, owner, pc, stale, keep>> /\ pc[w] = "emit"
        /\ disk' = [disk EXCEPT ![p] = owner[w]]
        /\ pending' = [pending EXCEPT ![w] = @ \ {p}]
    BY <1>2 DEF EmitFile, PutFile
  <2> QED BY <2>1, <2>2
<1>3. ASSUME NEW w \in Writers, NEW p \in Paths, EmitFails(w, p)
      PROVE  NoForeignTracked'
  <2>1. \A v \in Writers : v = w
    BY <1>w
  <2>2. /\ manifest' = manifest /\ pc[w] = "emit" /\ pc'[w] = "idle"
        /\ disk' = disk \/ disk' = [disk EXCEPT ![p] = owner[w]]
    BY <1>3 DEF EmitFails, PutFile, End
  <2> QED BY <2>1, <2>2
<1>4. ASSUME NEW w \in Writers, NEW p \in Paths,
             \/ RemoveStale(w, p) \/ RetainStale(w, p)
             \/ IgnoreStale(w, p) \/ SkipMissing(w, p)
      PROVE  NoForeignTracked'
  <2>1. \A v \in Writers : v = w
    BY <1>w
  <2>2. /\ UNCHANGED <<manifest, owner, pc, pending>> /\ p \in stale[w]
        /\ pc[w] = "clean"
        /\ stale'[w] \subseteq stale[w] /\ keep'[w] \subseteq keep[w] \cup {p}
        /\ disk' = disk \/ disk' = [disk EXCEPT ![p] = "absent"]
    BY <1>4 DEF RemoveStale, RetainStale, IgnoreStale, SkipMissing, Visit
  <2> QED BY <2>1, <2>2
<1>5. ASSUME NEW w \in Writers, WriteManifest(w) \/ TearManifest(w)
      PROVE  NoForeignTracked'
  <2>1. \A v \in Writers : v = w
    BY <1>w
  <2>3. manifest'.kind = "full" =>
          manifest'.owner = owner[w] /\ manifest'.paths \subseteq keep[w]
    <3>1. CASE WriteManifest(w)
      BY <3>1 DEF WriteManifest, ManifestOf
    <3>2. CASE TearManifest(w)
      BY <3>2, TornTracksLess
    <3> QED BY <1>5, <3>1, <3>2
  <2>4. /\ pc[w] = "clean" /\ pc'[w] = "idle" /\ disk' = disk
    BY <1>5 DEF WriteManifest, TearManifest, Finish, End
  <2> QED BY <2>1, <2>3, <2>4
<1>6. ASSUME NEW w \in Writers, EmissionDone(w)
      PROVE  NoForeignTracked'
  BY <1>6 DEF EmissionDone
<1>7. ASSUME NEW w \in Writers, Crash(w)
      PROVE  NoForeignTracked'
  BY <1>7 DEF Crash, End
<1>8. ASSUME NEW p \in Paths, NEW what \in NonOwners, UserPuts(p, what)
      PROVE  NoForeignTracked'
  BY <1>8 DEF UserPuts
<1>9. CASE UserRemovesManifest
  BY <1>9 DEF UserRemovesManifest
<1>10. ASSUME NEW w \in Writers, NEW d \in Dirs, MakeDirectory(w, d)
       PROVE  NoForeignTracked'
  BY <1>10 DEF MakeDirectory
<1>11. CASE UNCHANGED vars
  BY <1>11 DEF vars
<1> HIDE DEF TypeOK, NoForeignTracked, OwnOrNobodys
<1> QED BY <1>1, <1>2, <1>3, <1>4, <1>5, <1>6, <1>7, <1>8, <1>9, <1>10, <1>11
        DEF Next, Invocation, User

(* When invocations do not overlap, none removes a file another owner      *)
(* wrote, whatever crashed before it and whatever the manifest was reduced *)
(* to: manifest.rs:151-213 and 570-673.                                    *)
THEOREM ForeignFilesSpared ==
    ASSUME OneWriter, NoCuts PROVE Spec => OthersFilesSurvive
<1>1. Init => NoForeignTracked
  BY DEF Init, NoForeignTracked
<1>2. TypeOK /\ NoForeignTracked /\ [Next]_vars => NoForeignTracked'
  BY NoForeignPreserved
<1>3. ASSUME TypeOK, NoForeignTracked, [Next]_vars
      PROVE  [\A w \in Writers, p \in Paths :
                Steps(w) /\ disk[p] \in Owners \ {owner[w]} =>
                   disk'[p] # "absent"]_vars
  <2>1. ASSUME NEW w \in Writers, NEW p \in Paths, Steps(w),
               disk[p] \in Owners \ {owner[w]}, disk'[p] = "absent"
        PROVE  FALSE
    <3>1. disk[p] \notin NonOwners
      BY <2>1, OutputAssumption DEF OutputAssumption
    <3>2. pc[w] = "clean" /\ p \in stale[w]
      BY <1>3, <2>1, <3>1, RemovalIsOfStale
    <3> QED BY <1>3, <2>1, <3>1, <3>2 DEF NoForeignTracked, OwnOrNobodys
  <2> QED BY <2>1
<1> QED BY <1>1, <1>2, <1>3, TypeCorrect, PTL DEF Spec, OthersFilesSurvive

-----------------------------------------------------------------------------
(* No path is both due for removal and recorded for the next manifest.     *)
StaleOrKept == \A w \in Writers : stale[w] \cap keep[w] = {}

LEMMA StaleOrKeptPreserved ==
    ASSUME TypeOK, StaleOrKept, [Next]_vars
    PROVE  StaleOrKept'
<1> USE DEF TypeOK, StaleOrKept
<1>1. ASSUME NEW w \in Writers, NEW o \in Owners, NEW y \in Policies,
             NEW files \in SUBSET Paths, NEW folders \in SUBSET Dirs,
             NEW raw \in SUBSET files, Begin(w, o, y, files, raw, folders)
      PROVE  StaleOrKept'
  <2>1. stale'[w] \cap keep'[w] = {}
    BY <1>1 DEF Begin, StalePaths
  <2> QED BY <1>1, <2>1 DEF Begin
<1>2. ASSUME NEW w \in Writers, NEW p \in Paths,
             \/ RemoveStale(w, p) \/ RetainStale(w, p)
             \/ IgnoreStale(w, p) \/ SkipMissing(w, p)
      PROVE  StaleOrKept'
  BY <1>2 DEF RemoveStale, RetainStale, IgnoreStale, SkipMissing, Visit
<1>3. ASSUME NEW w \in Writers, End(w)
      PROVE  StaleOrKept'
  BY <1>3 DEF End
<1>4. CASE UNCHANGED <<stale, keep>>
  BY <1>4
<1> HIDE DEF TypeOK, StaleOrKept
<1> QED BY <1>1, <1>2, <1>3, <1>4
        DEF Next, Invocation, User, EmitFile, EmitFails, MakeDirectory,
            EmissionDone, WriteManifest, TearManifest, Finish, Crash, UserPuts,
            UserRemovesManifest, vars

(* A step of an invocation never empties a path it has just written as a   *)
(* managed output, however many invocations overlap, and whatever a cut    *)
(* manifest says: orchestrator.rs:106-119.                                 *)
THEOREM OutputsSurviveCleanup == Spec => CleanupKeepsOutputs
<1>1. Init => StaleOrKept
  BY DEF Init, StaleOrKept
<1>2. TypeOK /\ StaleOrKept /\ [Next]_vars => StaleOrKept'
  BY StaleOrKeptPreserved
<1>3. ASSUME TypeOK, StaleOrKept, [Next]_vars
      PROVE  [\A w \in Writers, p \in Paths :
                Steps(w) /\ p \in outputs[w] \cap keep[w]
                  /\ disk[p] # "absent" => disk'[p] # "absent"]_vars
  BY <1>3, RemovalIsOfStale DEF StaleOrKept
<1> QED BY <1>1, <1>2, <1>3, TypeCorrect, PTL DEF Spec, CleanupKeepsOutputs

-----------------------------------------------------------------------------
(* When invocations do not overlap, the explicit directories of a build    *)
(* are there until it finishes, whatever cleanup empties: remove_empty_    *)
(* parent_dirs passes over them (manifest.rs:979-984).                     *)
THEOREM ExplicitDirectoriesKept ==
    ASSUME OneWriter PROVE Spec => []ExplicitDirectoriesStay
<1>1. Init => ExplicitDirectoriesStay
  BY DEF Init, ExplicitDirectoriesStay
<1>2. TypeOK /\ ExplicitDirectoriesStay /\ [Next]_vars => ExplicitDirectoriesStay'
  <2> SUFFICES ASSUME TypeOK, ExplicitDirectoriesStay, [Next]_vars
               PROVE  ExplicitDirectoriesStay'
    OBVIOUS
  <2> USE DEF TypeOK, ExplicitDirectoriesStay
  <2>1. ASSUME NEW w \in Writers, NEW o \in Owners, NEW y \in Policies,
               NEW files \in SUBSET Paths, NEW folders \in SUBSET Dirs,
               NEW raw \in SUBSET files, Begin(w, o, y, files, raw, folders)
        PROVE  ExplicitDirectoriesStay'
    BY <2>1 DEF Begin
  <2>2. ASSUME NEW w \in Writers, NEW p \in Paths, EmitFile(w, p) \/ EmitFails(w, p)
        PROVE  ExplicitDirectoriesStay'
    BY <2>2 DEF EmitFile, EmitFails, PutFile, End
  <2>3. ASSUME NEW w \in Writers, NEW p \in Paths, RemoveStale(w, p)
        PROVE  ExplicitDirectoriesStay'
    <3>1. explicit[w] \cap Emptied(w, p) = {}
      BY DEF Emptied
    <3>2. \A v \in Writers : v = w
      BY DEF OneWriter
    <3> QED BY <2>3, <3>1, <3>2 DEF RemoveStale, Visit
  <2>4. ASSUME NEW w \in Writers, NEW p \in Paths,
               RetainStale(w, p) \/ IgnoreStale(w, p) \/ SkipMissing(w, p)
        PROVE  ExplicitDirectoriesStay'
    BY <2>4 DEF RetainStale, IgnoreStale, SkipMissing, Visit
  <2>5. ASSUME NEW w \in Writers, Finish(w) \/ Crash(w)
        PROVE  ExplicitDirectoriesStay'
    BY <2>5 DEF Finish, Crash, End
  <2>6. ASSUME NEW w \in Writers, EmissionDone(w)
        PROVE  ExplicitDirectoriesStay'
    BY <2>6 DEF EmissionDone
  <2>7. ASSUME NEW p \in Paths, NEW what \in NonOwners, UserPuts(p, what)
        PROVE  ExplicitDirectoriesStay'
    BY <2>7 DEF UserPuts
  <2>8. CASE UserRemovesManifest
    BY <2>8 DEF UserRemovesManifest
  <2>9. ASSUME NEW w \in Writers, NEW d \in Dirs, MakeDirectory(w, d)
        PROVE  ExplicitDirectoriesStay'
    BY <2>9 DEF MakeDirectory
  <2>10. CASE UNCHANGED vars
    BY <2>10 DEF vars
  <2> QED BY <2>1, <2>2, <2>3, <2>4, <2>5, <2>6, <2>7, <2>8, <2>9, <2>10
          DEF Next, Invocation, User, WriteManifest, TearManifest
<1> QED BY <1>1, <1>2, TypeCorrect, PTL DEF Spec

-----------------------------------------------------------------------------
(* As long as every build came to its end: a managed file that a build     *)
(* wrote is recorded in the manifest or, while a build is at work, by that *)
(* build.                                                                  *)
NotLost ==
    intact = "yes" =>
        /\ manifest.kind \in {"none", "full"}
        /\ (\A w \in Writers : pc[w] = "idle") =>
             \A p \in managed : disk[p] \in Owners =>
               manifest.kind = "full" /\ p \in manifest.paths
        /\ \A w \in Writers : pc[w] # "idle" =>
             \A p \in managed :
                disk[p] \in Owners => p \in keep[w] \cup stale[w]

LEMMA NotLostPreserved ==
    ASSUME OneWriter, TypeOK, NotLost, [Next]_vars
    PROVE  NotLost'
<1> USE DEF TypeOK, NotLost
<1>o. \A o \in Owners : o \notin NonOwners
  BY OutputAssumption DEF OutputAssumption
<1>w. ASSUME NEW w \in Writers PROVE \A v \in Writers : v = w
  BY DEF OneWriter
<1>1. ASSUME NEW w \in Writers, NEW o \in Owners, NEW y \in Policies,
             NEW files \in SUBSET Paths, NEW folders \in SUBSET Dirs,
             NEW raw \in SUBSET files, Begin(w, o, y, files, raw, folders)
      PROVE  NotLost'
  <2> SUFFICES ASSUME intact' = "yes" PROVE NotLost'
    OBVIOUS
  <2>1. /\ intact = "yes" /\ (manifest.kind = "full" => manifest.policy = y)
        /\ pc[w] = "idle" /\ manifest' = manifest /\ disk' = disk
    BY <1>1 DEF Begin
  <2>2. \A v \in Writers : v = w
    BY <1>w
  <2>3. \A v \in Writers : pc[v] = "idle"
    BY <2>1, <2>2
  <2>4. ASSUME NEW p \in managed, disk[p] \in Owners PROVE p \in TrackedPaths(y)
    BY <1>o, <2>1, <2>3, <2>4 DEF TrackedPaths
  <2>5. /\ pc'[w] = "emit" /\ managed' = managed
        /\ TrackedPaths(y) \subseteq keep'[w] \cup stale'[w]
    BY <1>1 DEF Begin, StalePaths
  <2> QED BY <2>1, <2>2, <2>4, <2>5
<1>2. ASSUME NEW w \in Writers, NEW p \in Paths, EmitFile(w, p)
      PROVE  NotLost'
  <2>1. \A v \in Writers : v = w
    BY <1>w
  <2>2. /\ pc[w] = "emit" /\ UNCHANGED <<pc, manifest, stale, keep, intact>>
        /\ managed' = IF p \in keep[w] THEN managed \cup {p} ELSE managed \ {p}
        /\ \A q \in Paths \ {p} : disk'[q] = disk[q]
    BY <1>2 DEF EmitFile, PutFile
  <2> QED BY <1>o, <2>1, <2>2
<1>3. ASSUME NEW w \in Writers, NEW p \in Paths, EmitFails(w, p)
      PROVE  NotLost'
  BY <1>3 DEF EmitFails
<1>4. ASSUME NEW w \in Writers, NEW p \in Paths,
             \/ RemoveStale(w, p) \/ RetainStale(w, p)
             \/ IgnoreStale(w, p) \/ SkipMissing(w, p)
      PROVE  NotLost'
  <2>1. \A v \in Writers : v = w
    BY <1>w
  <2>2. /\ pc[w] = "clean" /\ UNCHANGED <<pc, manifest, intact>>
        /\ stale'[w] = stale[w] \ {p} /\ keep[w] \subseteq keep'[w]
        /\ managed' \subseteq managed
        /\ p \in keep'[w] \/ disk'[p] = "absent" \/ p \notin managed'
        /\ \A q \in Paths \ {p} : disk'[q] = disk[q]
    BY <1>4 DEF RemoveStale, RetainStale, IgnoreStale, SkipMissing, Visit
  <2> QED BY <1>o, <2>1, <2>2
<1>5. ASSUME NEW w \in Writers, WriteManifest(w)
      PROVE  NotLost'
  <2>1. \A v \in Writers : v = w
    BY <1>w
  <2>2. /\ pc[w] = "clean" /\ stale[w] = {} /\ pc'[w] = "idle"
        /\ UNCHANGED <<disk, managed, intact>>
        /\ manifest'.kind = "full" /\ manifest'.paths = keep[w]
    BY <1>5 DEF WriteManifest, ManifestOf, Finish, End
  <2> QED BY <1>o, <2>1, <2>2
<1>6. ASSUME NEW w \in Writers, TearManifest(w) \/ Crash(w)
      PROVE  NotLost'
  BY <1>6 DEF TearManifest, Crash
<1>7. ASSUME NEW w \in Writers, EmissionDone(w)
      PROVE  NotLost'
  <2>1. \A v \in Writers : v = w
    BY <1>w
  <2>2. /\ pc[w] = "emit" /\ pc'[w] = "clean"
        /\ UNCHANGED <<disk, manifest, stale, keep, managed, intact>>
    BY <1>7 DEF EmissionDone
  <2> QED BY <1>o, <2>1, <2>2
<1>8. ASSUME NEW p \in Paths, NEW what \in NonOwners, UserPuts(p, what)
      PROVE  NotLost'
  <2>1. /\ UNCHANGED <<pc, manifest, stale, keep, managed, intact>>
        /\ \A q \in Paths : disk'[q] \in Owners => disk'[q] = disk[q]
    BY <1>8, <1>o DEF UserPuts
  <2> QED BY <1>o, <2>1
<1>9. CASE UserRemovesManifest
  BY <1>9 DEF UserRemovesManifest
<1>10. ASSUME NEW w \in Writers, NEW d \in Dirs, MakeDirectory(w, d)
       PROVE  NotLost'
  BY <1>10 DEF MakeDirectory
<1>11. CASE UNCHANGED vars
  BY <1>11 DEF vars
<1> QED BY <1>1, <1>2, <1>3, <1>4, <1>5, <1>6, <1>7, <1>8, <1>9, <1>10, <1>11
        DEF Next, Invocation, User

(* When invocations do not overlap and each came to its end, no managed    *)
(* file of the root's owner is untracked, also when a removal failed, but  *)
(* for stale files that could not be inspected: manifest.rs:220-264.       *)
THEOREM FilesStayTracked ==
    ASSUME OneWriter PROVE Spec => []NothingForgotten
<1>1. Init => NotLost
  BY OutputAssumption DEF OutputAssumption, Init, NotLost
<1>2. TypeOK /\ NotLost /\ [Next]_vars => NotLost'
  BY NotLostPreserved
<1>3. TypeOK /\ NotLost => NothingForgotten
  <2> SUFFICES ASSUME TypeOK, NotLost, intact = "yes" PROVE Forgotten = {}
    BY DEF NothingForgotten
  <2>1. manifest.policy \in Policies /\ manifest.owner \in Owners
    BY DEF TypeOK
  <2> QED BY <2>1 DEF Forgotten, NotLost
<1> QED BY <1>1, <1>2, <1>3, TypeCorrect, PTL DEF Spec
=============================================================================
