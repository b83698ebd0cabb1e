--------------------------- MODULE OutputManifest ---------------------------
(***************************************************************************)
(* Writing a build's outputs and cleaning up what earlier builds left:     *)
(* build_system/output/{orchestrator,writer,manifest}.rs.                  *)
(*                                                                         *)
(* An invocation validates the whole batch, reads the manifest of the      *)
(* output root, refuses a root that belongs to another owner, writes its   *)
(* files one by one, removes the files only the previous manifest tracks,  *)
(* and rewrites the manifest in place.  Nothing locks the root: other      *)
(* invocations, the user and crashes come between any two of these steps.  *)
(*                                                                         *)
(* A file is abstracted to who wrote it last, so a write skipped because   *)
(* the bytes are unchanged is the same step as a write.                    *)
(***************************************************************************)
EXTENDS FiniteSets

CONSTANTS
    Paths,      \* output paths, relative to the output root
    Dirs,       \* directories below the root
    Above,      \* Above[x]: the directories below the root x lies in
    Owners,     \* OutputOwner: a builder and a build profile
    Builders,
    BuilderOf,  \* BuilderOf[o]: the builder of owner o
    Policies,   \* CleanupPolicy: managed extension sets
    Managed,    \* Managed[y]: paths with an extension policy y manages
    CutOf,      \* CutOf[p]: paths spelled as a proper prefix of p
    MayTear,    \* whether a manifest write may stop half way
    Writers     \* invocations that may overlap

NonOwners == {"absent", "user", "nonfile"}

ASSUME OutputAssumption ==
    /\ Paths \cap Dirs = {}
    /\ Above \in [Paths \cup Dirs -> SUBSET Dirs]
    /\ \A x \in Paths \cup Dirs : \A d \in Above[x] :
         x # d /\ Above[d] \subseteq Above[x]
    /\ BuilderOf \in [Owners -> Builders]
    /\ Managed \in [Policies -> SUBSET Paths]
    /\ CutOf \in [Paths -> SUBSET Paths]
    /\ Owners \cap NonOwners = {}
    /\ MayTear \in BOOLEAN

VARIABLES
    disk,      \* disk[p]: owner that wrote the file, or one of NonOwners
    dirs,      \* directories that exist
    manifest,  \* the manifest file
    \* local state of each invocation
    pc,        \* "idle", "emit", "clean"
    owner,     \* OutputPlan::owner
    policy,    \* Project::cleanup_policy
    outputs,   \* prepared destinations of files
    explicit,  \* explicit directory outputs
    pending,   \* outputs not emitted yet
    stale,     \* tracked before, not current, not visited yet
    keep,      \* manifest_paths_to_write
    \* history
    wrote,     \* wrote[p]: owners that ever wrote p
    managed,   \* last written as a managed output, not given up since
    intact     \* whether no step so far made a build lose track

rootVars == <<disk, dirs, manifest>>
planVars == <<owner, policy, outputs, explicit>>
workVars == <<pc, pending, stale, keep>>
histVars == <<wrote, managed>>
vars == <<rootVars, planVars, workVars, histVars, intact>>

(***************************************************************************)
(* What a manifest file says.  "full": all metadata lines and a path list. *)
(* "owner": builder and profile but no usable extensions or paths.         *)
(* "builder": no profile line, and every v3 manifest.  "garbled": a        *)
(* builder or profile name that was cut short.  "ownerless": less than     *)
(* that, or another format.                                                *)
(***************************************************************************)
Kinds == {"none", "ownerless", "builder", "garbled", "owner", "full"}

BuildManifest ==
    [kind : Kinds, owner : Owners, policy : Policies, paths : SUBSET Paths]

(* The root, every invocation and the history have their type.             *)
TypeOK ==
    /\ disk \in [Paths -> Owners \cup NonOwners]
    /\ dirs \in SUBSET Dirs
    /\ manifest \in BuildManifest
    /\ pc \in [Writers -> {"idle", "emit", "clean"}]
    /\ owner \in [Writers -> Owners]
    /\ policy \in [Writers -> Policies]
    /\ outputs \in [Writers -> SUBSET Paths]
    /\ explicit \in [Writers -> SUBSET Dirs]
    /\ pending \in [Writers -> SUBSET Paths]
    /\ stale \in [Writers -> SUBSET Paths]
    /\ keep \in [Writers -> SUBSET Paths]
    /\ wrote \in [Paths -> SUBSET Owners]
    /\ managed \in SUBSET Paths
    /\ intact \in {"yes", "no"}

(* A fresh root, or one in which the user already has files.               *)
Init ==
    /\ disk \in [Paths -> {"absent", "user"}]
    /\ dirs = UNION {Above[p] : p \in {q \in Paths : disk[q] = "user"}}
    /\ manifest \in {m \in BuildManifest : m.kind = "none" /\ m.paths = {}}
    /\ pc = [w \in Writers |-> "idle"]
    /\ owner \in [Writers -> Owners]
    /\ policy \in [Writers -> Policies]
    /\ outputs = [w \in Writers |-> {}]
    /\ explicit = [w \in Writers |-> {}]
    /\ pending = [w \in Writers |-> {}]
    /\ stale = [w \in Writers |-> {}]
    /\ keep = [w \in Writers |-> {}]
    /\ wrote = [p \in Paths |-> {}]
    /\ managed = {}
    /\ intact = "yes"

-----------------------------------------------------------------------------
(***************************************************************************)
(* read_build_manifest, and the ownership check of prepare_output_cleanup. *)
(***************************************************************************)
(* Mutant of SameOwner: profiles are not compared.                         *)
SameOwnerAnyProfile(o) ==
    \/ manifest.kind \in {"none", "ownerless"}
    \/ /\ manifest.kind \in {"builder", "owner", "full"}
       /\ BuilderOf[manifest.owner] = BuilderOf[o]

SameOwner(o) ==
    \/ manifest.kind \in {"none", "ownerless"}
    \/ manifest.kind = "builder" /\ BuilderOf[manifest.owner] = BuilderOf[o]
    \/ manifest.kind \in {"owner", "full"} /\ manifest.owner = o

(* Mutant of TrackedPaths: ownership is inferred from extensions.          *)
TrackedPathsByExtension(y) == Managed[y]

(* Only a complete manifest with the active extensions drives deletion.    *)
TrackedPaths(y) ==
    IF manifest.kind = "full" /\ manifest.policy = y
    THEN manifest.paths ELSE {}

(* An output is tracked for its extension or, whatever its extension, as   *)
(* raw bytes or as a deferred resource.                                    *)
ManagedOutputs(y, files, raw) == files \cap (Managed[y] \cup raw)

(* Mutant of StalePaths: the current outputs are not left out.             *)
StalePathsAll(y, current) == TrackedPaths(y)

StalePaths(y, current) == TrackedPaths(y) \ current

(* Preflight: no file destination exists as something else.                *)
Preflight(files) == \A p \in files : disk[p] # "nonfile"

Begin(w, o, y, files, raw, folders) ==
    /\ pc[w] = "idle"
    /\ Preflight(files)
    /\ SameOwner(o)
    /\ pc' = [pc EXCEPT ![w] = "emit"]
    /\ owner' = [owner EXCEPT ![w] = o]
    /\ policy' = [policy EXCEPT ![w] = y]
    /\ outputs' = [outputs EXCEPT ![w] = files]
    /\ explicit' = [explicit EXCEPT ![w] = folders]
    /\ pending' = [pending EXCEPT ![w] = files]
    /\ LET current == ManagedOutputs(y, files, raw)
       IN  /\ keep' = [keep EXCEPT ![w] = current]
           /\ stale' = [stale EXCEPT ![w] = StalePaths(y, current)]
    /\ intact' = IF manifest.kind \in {"owner", "full"} /\ manifest.policy # y
                 THEN "no" ELSE intact
    /\ UNCHANGED <<rootVars, histVars>>

(* write_bytes_output creates the parents and writes the file.             *)
PutFile(w, p) ==
    /\ disk[p] # "nonfile"
    /\ disk' = [disk EXCEPT ![p] = owner[w]]
    /\ dirs' = dirs \cup Above[p]
    /\ wrote' = [wrote EXCEPT ![p] = @ \cup {owner[w]}]
    /\ managed' = IF p \in keep[w] THEN managed \cup {p} ELSE managed \ {p}

EmitFile(w, p) ==
    /\ pc[w] = "emit"
    /\ p \in pending[w]
    /\ PutFile(w, p)
    /\ pending' = [pending EXCEPT ![w] = @ \ {p}]
    /\ UNCHANGED <<manifest, planVars, pc, stale, keep, intact>>

(* The invocation returns, or dies, and its local state with it.           *)
End(w) ==
    /\ pc' = [pc EXCEPT ![w] = "idle"]
    /\ outputs' = [outputs EXCEPT ![w] = {}]
    /\ explicit' = [explicit EXCEPT ![w] = {}]
    /\ pending' = [pending EXCEPT ![w] = {}]
    /\ stale' = [stale EXCEPT ![w] = {}]
    /\ keep' = [keep EXCEPT ![w] = {}]
    /\ UNCHANGED <<owner, policy>>

(* A failed write ends the invocation.  The file may be partly written.    *)
EmitFails(w, p) ==
    /\ pc[w] = "emit"
    /\ p \in pending[w]
    /\ PutFile(w, p) \/ UNCHANGED <<disk, dirs, histVars>>
    /\ End(w)
    /\ intact' = "no"
    /\ UNCHANGED manifest

(* An explicit directory output is created among the files.                *)
MakeDirectory(w, d) ==
    /\ pc[w] = "emit"
    /\ d \in explicit[w] \ dirs
    /\ dirs' = dirs \cup {d} \cup Above[d]
    /\ UNCHANGED <<disk, manifest, planVars, workVars, histVars, intact>>

(* The last destination is done; explicit directories exist by now.        *)
EmissionDone(w) ==
    /\ pc[w] = "emit"
    /\ pending[w] = {}
    /\ explicit[w] \subseteq dirs
    /\ pc' = [pc EXCEPT ![w] = "clean"]
    /\ UNCHANGED <<rootVars, planVars, pending, stale, keep, histVars, intact>>

(***************************************************************************)
(* remove_manifest_tracked_stale_artifacts, one path at a time.            *)
(***************************************************************************)
Visit(w, p) ==
    /\ pc[w] = "clean"
    /\ p \in stale[w]
    /\ stale' = [stale EXCEPT ![w] = @ \ {p}]
    /\ UNCHANGED <<manifest, planVars, pc, pending, wrote, intact>>

(* Directory d has an entry besides those on the way down to p.            *)
Occupied(p, d) ==
    \/ \E q \in Paths \ {p} : d \in Above[q] /\ disk[q] # "absent"
    \/ \E e \in dirs \ Above[p] : d \in Above[e]

(* Mutant of Emptied: explicit directories are removed as well.            *)
EmptiedExplicit(w, p) == {d \in Above[p] : ~Occupied(p, d)}

(* remove_empty_parent_dirs after p was removed: the walk up from p stops  *)
(* at the first directory that is explicit or not empty.                   *)
Emptied(w, p) ==
    {d \in Above[p] :
        \A e \in Above[p] : e = d \/ d \in Above[e] =>
            e \notin explicit[w] /\ ~Occupied(p, e)}

(* A directory that cannot be removed also ends the walk.                  *)
RemoveStale(w, p) ==
    /\ Visit(w, p)
    /\ disk[p] \notin {"absent", "nonfile"}
    /\ disk' = [disk EXCEPT ![p] = "absent"]
    /\ \E gone \in SUBSET Emptied(w, p) :
         /\ \A d \in gone, e \in Emptied(w, p) : d \in Above[e] => e \in gone
         /\ dirs' = dirs \ gone
    /\ UNCHANGED <<keep, managed>>

(* Mutant of RetainStale: what could not be removed is forgotten.          *)
RetainStaleForgotten(w, p) ==
    /\ Visit(w, p)
    /\ disk[p] # "absent"
    /\ UNCHANGED <<disk, dirs, keep, managed>>

(* What is not a file any more, or cannot be removed, stays tracked.       *)
RetainStale(w, p) ==
    /\ Visit(w, p)
    /\ disk[p] # "absent"
    /\ keep' = [keep EXCEPT ![w] = @ \cup {p}]
    /\ UNCHANGED <<disk, dirs, managed>>

(* A path that cannot be resolved or inspected, or goes through a symbolic *)
(* link, is passed over: neither removed nor tracked any longer.           *)
IgnoreStale(w, p) ==
    /\ Visit(w, p)
    /\ disk[p] # "absent"
    /\ managed' = managed \ {p}
    /\ UNCHANGED <<disk, dirs, keep>>

SkipMissing(w, p) ==
    /\ Visit(w, p)
    /\ disk[p] = "absent"
    /\ UNCHANGED <<disk, dirs, keep, managed>>

-----------------------------------------------------------------------------
(***************************************************************************)
(* write_build_manifest replaces the file in place, without a temporary    *)
(* file, so a full disk or a crash leaves a prefix of it.                  *)
(***************************************************************************)
ManifestOf(w) == [kind |-> "full", owner |-> owner[w],
                  policy |-> policy[w], paths |-> keep[w]]

Finish(w) ==
    /\ pc[w] = "clean"
    /\ stale[w] = {}
    /\ End(w)
    /\ UNCHANGED <<disk, dirs, histVars>>

WriteManifest(w) ==
    /\ Finish(w)
    /\ manifest' = ManifestOf(w)
    /\ UNCHANGED intact

(* The last path record of the prefix may itself be cut.                   *)
CutPaths(paths) ==
    UNION {{(paths \ {p}) \cup {q} : q \in CutOf[p]} : p \in paths}

ManifestPrefixes(m) ==
    [kind : {"ownerless", "builder", "garbled", "owner"},
     owner : {m.owner}, policy : {m.policy}, paths : {{}}]
    \cup [kind : {"full"}, owner : {m.owner}, policy : {m.policy},
          paths : (SUBSET m.paths) \cup CutPaths(m.paths)]

TearManifest(w) ==
    /\ MayTear
    /\ Finish(w)
    /\ manifest' \in ManifestPrefixes(ManifestOf(w))
    /\ intact' = "no"

(* The process dies between two steps, or cannot open the manifest.        *)
Crash(w) ==
    /\ pc[w] # "idle"
    /\ End(w)
    /\ intact' = "no"
    /\ UNCHANGED <<rootVars, histVars>>

-----------------------------------------------------------------------------
(* The user, or another tool, in the output root.                          *)
UserPuts(p, what) ==
    /\ disk' = [disk EXCEPT ![p] = what]
    /\ dirs' = IF what = "absent" THEN dirs
               ELSE dirs \cup Above[p]
    /\ UNCHANGED <<manifest, planVars, workVars, histVars, intact>>

UserRemovesManifest ==
    /\ manifest' = [manifest EXCEPT !.kind = "none", !.paths = {}]
    /\ intact' = "no"
    /\ UNCHANGED <<disk, dirs, planVars, workVars, histVars>>

-----------------------------------------------------------------------------
Invocation(w) ==
    \/ \E o \in Owners, y \in Policies, files \in SUBSET Paths,
          folders \in SUBSET Dirs : \E raw \in SUBSET files :
            Begin(w, o, y, files, raw, folders)
    \/ \E d \in Dirs : MakeDirectory(w, d)
    \/ EmissionDone(w) \/ WriteManifest(w) \/ TearManifest(w) \/ Crash(w)
    \/ \E p \in Paths :
         \/ EmitFile(w, p) \/ EmitFails(w, p)
         \/ RemoveStale(w, p) \/ RetainStale(w, p)
         \/ IgnoreStale(w, p) \/ SkipMissing(w, p)

User ==
    \/ \E p \in Paths, what \in NonOwners : UserPuts(p, what)
    \/ UserRemovesManifest

Next == (\E w \in Writers : Invocation(w)) \/ User

Spec == Init /\ [][Next]_vars

-----------------------------------------------------------------------------
(***************************************************************************)
(* Properties.                                                             *)
(***************************************************************************)
Steps(w) == pc'[w] # pc[w] \/ pending'[w] # pending[w] \/ stale'[w] # stale[w]

(* manifest.rs:570-673: an invocation only ever removes a file at a path   *)
(* its own owner wrote before, across crashes, torn manifests, retained    *)
(* paths and overlapping invocations.                                      *)
RemovesOnlyOwnPaths ==
    [][\A w \in Writers, p \in Paths :
         Steps(w) /\ disk[p] # "absent" /\ disk'[p] = "absent" =>
            owner[w] \in wrote[p]]_vars

(* orchestrator.rs:106-119: the managed files a build has just emitted     *)
(* survive the cleanup that build runs, whatever the previous manifest     *)
(* tracked and whatever was managed then.                                  *)
CleanupKeepsOutputs ==
    [][\A w \in Writers, p \in Paths :
         Steps(w) /\ p \in outputs[w] \cap keep[w] /\ disk[p] # "absent" =>
            disk'[p] # "absent"]_vars

(* manifest.rs:979-984: directories a build created explicitly are there   *)
(* when it finishes, although cleanup removes the directories it empties,  *)
(* level by level.                                                         *)
ExplicitDirectoriesStay ==
    \A w \in Writers : pc[w] = "clean" => explicit[w] \subseteq dirs

(* docs/build-system-design.md:813 "One builder never deletes another      *)
(* manifest's files": no invocation empties a path whose file was written  *)
(* by another owner, although profiles, crashes and lost manifests let a   *)
(* second owner into a root, and onto a path, the first has written to.    *)
OthersFilesSurvive ==
    [][\A w \in Writers, p \in Paths :
         Steps(w) /\ disk[p] \in Owners \ {owner[w]} =>
            disk'[p] # "absent"]_vars

(* The managed files of the root's owner that its manifest does not track, *)
(* with no invocation at work.                                             *)
Forgotten ==
    IF manifest.kind = "full" /\ \A w \in Writers : pc[w] = "idle"
    THEN {p \in managed :
            disk[p] = manifest.owner /\ p \notin manifest.paths}
    ELSE {}

(* manifest.rs:220-264: as long as every build came to its end under one   *)
(* policy and nobody touched the manifest, every managed file a build ever *)
(* wrote is gone or tracked, also when its removal failed along the way.   *)
(* The exception is a stale path that could not be inspected: the code     *)
(* gives it up (manifest.rs:615-647), and so does `managed'.               *)
NothingForgotten == intact = "yes" => Forgotten = {}

(* The strengthening behind RemovesOnlyOwnPaths: the manifest tracks, and  *)
(* every running invocation will remove or record, only what its owner     *)
(* wrote, apart from the outputs the invocation has yet to emit.           *)
TracksOnlyWritten ==
    manifest.kind = "full" =>
        \A p \in manifest.paths : manifest.owner \in wrote[p]

JobsOwnPaths ==
    \A w \in Writers :
        /\ pc[w] # "idle" =>
             \A p \in stale[w] \cup (keep[w] \ pending[w]) :
                owner[w] \in wrote[p]
        /\ pc[w] = "clean" => pending[w] = {}
=============================================================================
