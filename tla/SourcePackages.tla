-------------------------- MODULE SourcePackages ----------------------------
(***************************************************************************)
(* Ordering the source packages of a project and publishing them:          *)
(* create_project_modules/compilation.rs (order_packages_by_dependency,    *)
(* compile_source_package_inventories), compiled_boundary.rs               *)
(* (CompletedSourcePackageRegistry) and the warning store of               *)
(* diagnostics/boundary_accumulator.rs.                                    *)
(*                                                                         *)
(* A package is its position in the inventory, which the namespace index   *)
(* keeps in prefix order, so a package's number is also its heap key.  A   *)
(* sweep over the dependency edges orders the packages or leaves a cycle;  *)
(* the ordered packages are compiled and published one by one, and only    *)
(* then are the check-only units of each compiled and its source database  *)
(* attached.  What compiling does inside a package is WaveCompile's; here  *)
(* it stages warnings, or fails, or is not admitted any more.  Rows of     *)
(* generated declarations, which carry their package, are left out.        *)
(***************************************************************************)
EXTENDS Integers, FiniteSets, Sequences

CONSTANT NumPackages

Packages == 1..NumPackages

ASSUME PackagesAssumption == NumPackages \in Nat

VARIABLES
    deps,       \* deps[p]: canonical_source_package_dependencies of p
    phase,      \* see Phases
    consumers,  \* consumer_lists
    indegree,   \* providers each package still waits for
    ready,      \* the heap
    ordered,    \* packages in dependency order
    visited,    \* packages the cycle walk has passed
    current,    \* package the cycle walk is at; 0 before it starts
    packages,   \* registry: packages, in publication order
    providerIds, \* registry: provider_packages
    consumerIds, \* registry: consumer_packages
    databases,  \* registry: source_databases; 0 for none
    warnings,   \* staged warning batches of the sink
    deferred,   \* check_only_inventories
    outcome     \* see Outcomes

sweepVars == <<consumers, indegree, ready>>
walkVars == <<visited, current>>
registryVars == <<packages, providerIds, consumerIds>>
vars == <<deps, phase, consumers, indegree, ready, ordered, visited, current,
          packages, providerIds, consumerIds, databases, warnings, deferred,
          outcome>>

Phases == {"build", "sweep", "walk", "publish", "checkOnly", "done"}
Outcomes == {"none", "published", "cycle", "failed", "internalError", "bug"}

(* A batch staged by package "from" under boundary index "boundary"; source *)
(* is the database it is rendered against once committed, 0 before.        *)
Batches == [from : Packages, boundary : Packages, source : 0..NumPackages]

(* The state has its type; no indegree underflows.                         *)
TypeOK ==
    /\ deps \in [Packages -> SUBSET Packages]
    /\ phase \in Phases
    /\ consumers \in [Packages -> SUBSET Packages]
    /\ indegree \in [Packages -> 0..NumPackages]
    /\ ready \in SUBSET Packages
    /\ ordered \in Seq(Packages)
    /\ visited \in SUBSET Packages
    /\ current \in 0..NumPackages
    /\ packages \in Seq(Packages)
    /\ providerIds \in Seq(SUBSET Packages)
    /\ consumerIds \in Seq(SUBSET Packages)
    /\ databases \in Seq(0..NumPackages)
    /\ warnings \in SUBSET Batches
    /\ deferred \in Seq(Packages)
    /\ outcome \in Outcomes

(* Any dependency relation can be discovered, a package's import of its    *)
(* own prefix included.                                                    *)
Init ==
    /\ deps \in [Packages -> SUBSET Packages]
    /\ phase = "build"
    /\ consumers = [p \in Packages |-> {}]
    /\ indegree = [p \in Packages |-> 0]
    /\ ready = {}
    /\ ordered = <<>>
    /\ visited = {}
    /\ current = 0
    /\ packages = <<>>
    /\ providerIds = <<>>
    /\ consumerIds = <<>>
    /\ databases = <<>>
    /\ warnings = {}
    /\ deferred = <<>>
    /\ outcome = "none"

Least(S) == CHOOSE p \in S : \A q \in S : p <= q

Finish(how) == phase' = "done" /\ outcome' = how

-----------------------------------------------------------------------------
(***************************************************************************)
(* order_packages_by_dependency                                            *)
(***************************************************************************)
(* The dense graph, and the heap of the packages without providers.        *)
BuildGraph ==
    /\ phase = "build"
    /\ phase' = "sweep"
    /\ consumers' = [p \in Packages |-> {c \in Packages : p \in deps[c]}]
    /\ indegree' = [c \in Packages |-> Cardinality(deps[c])]
    /\ ready' = {c \in Packages : deps[c] = {}}
    /\ UNCHANGED <<deps, ordered, walkVars, registryVars, databases, warnings,
                   deferred, outcome>>

(* Fault: a consumer is ready when the first of its providers has left.    *)
PopReadyEager ==
    /\ phase = "sweep"
    /\ ready # {}
    /\ LET p == Least(ready)
       IN /\ ordered' = Append(ordered, p)
          /\ indegree' = [c \in Packages |->
                            IF c \in consumers[p] THEN 0 ELSE indegree[c]]
          /\ ready' = (ready \ {p}) \cup
                        {c \in consumers[p] : indegree[c] > 0}
    /\ UNCHANGED <<deps, phase, consumers, walkVars, registryVars, databases,
                   warnings, deferred, outcome>>

(* Fault: the last package pushed leaves first.                            *)
PopReadyGreatest ==
    /\ phase = "sweep"
    /\ ready # {}
    /\ LET p == CHOOSE q \in ready : \A r \in ready : r <= q
       IN /\ ordered' = Append(ordered, p)
          /\ indegree' = [c \in Packages |->
                            indegree[c] - IF c \in consumers[p] THEN 1 ELSE 0]
          /\ ready' = (ready \ {p}) \cup
                        {c \in consumers[p] : indegree'[c] = 0}
    /\ UNCHANGED <<deps, phase, consumers, walkVars, registryVars, databases,
                   warnings, deferred, outcome>>

(* The least ready package leaves; a consumer it was the last provider of  *)
(* becomes ready.                                                          *)
PopReady ==
    /\ phase = "sweep"
    /\ ready # {}
    /\ LET p == Least(ready)
       IN /\ ordered' = Append(ordered, p)
          /\ indegree' = [c \in Packages |->
                            indegree[c] - IF c \in consumers[p] THEN 1 ELSE 0]
          /\ ready' = (ready \ {p}) \cup
                        {c \in consumers[p] : indegree'[c] = 0}
    /\ UNCHANGED <<deps, phase, consumers, walkVars, registryVars, databases,
                   warnings, deferred, outcome>>

Blocked == {p \in Packages : indegree[p] > 0}

(* Fault: the first blocked package is taken to be on the cycle.           *)
EndSweepFirstBlocked ==
    /\ phase = "sweep"
    /\ ready = {}
    /\ \/ Len(ordered) = NumPackages /\ phase' = "publish"
          /\ UNCHANGED <<walkVars, outcome>>
       \/ /\ Len(ordered) # NumPackages
          /\ current' = Least(Blocked)
          /\ Finish("cycle")
          /\ UNCHANGED visited
    /\ UNCHANGED <<deps, sweepVars, ordered, registryVars, databases, warnings,
                   deferred>>

EndSweep ==
    /\ phase = "sweep"
    /\ ready = {}
    /\ \/ Len(ordered) = NumPackages /\ phase' = "publish"
          /\ UNCHANGED current
       \/ /\ Len(ordered) # NumPackages
          /\ phase' = "walk"
          /\ current' = Least(Blocked)
    /\ UNCHANGED <<deps, sweepVars, ordered, visited, registryVars, databases,
                   warnings, deferred, outcome>>

(* package_on_dependency_cycle: the blocked packages that provide for p    *)
BlockedProviders(p) == {q \in Blocked : p \in consumers[q]}

(* Fault: the walk does not remember where it was.                         *)
WalkBackForgetful ==
    /\ phase = "walk"
    /\ current \notin visited
    /\ current' = Least(BlockedProviders(current))
    /\ UNCHANGED <<deps, phase, sweepVars, ordered, visited, registryVars,
                   databases, warnings, deferred, outcome>>

WalkBack ==
    /\ phase = "walk"
    /\ current \notin visited
    /\ visited' = visited \cup {current}
    /\ current' = Least(BlockedProviders(current))
    /\ UNCHANGED <<deps, phase, sweepVars, ordered, registryVars, databases,
                   warnings, deferred, outcome>>

ReportCycle ==
    /\ phase = "walk"
    /\ current \in visited
    /\ Finish("cycle")
    /\ UNCHANGED <<deps, sweepVars, ordered, walkVars, registryVars, databases,
                   warnings, deferred>>

-----------------------------------------------------------------------------
(***************************************************************************)
(* compile_source_package_inventories                                      *)
(***************************************************************************)
IdOf(p) == CHOOSE i \in 1..Len(packages) : packages[i] = p

Indexed(p) == \E i \in 1..Len(packages) : packages[i] = p

(* CompletedSourcePackageRegistry::preflight *)
Publishable(p) == ~Indexed(p) /\ \A q \in deps[p] : Indexed(q)

(* CompletedSourcePackageRegistry::commit *)
Commit(p) ==
    LET id == Len(packages) + 1
        ids == {IdOf(q) : q \in deps[p]}
    IN /\ packages' = Append(packages, p)
       /\ providerIds' = Append(providerIds, ids)
       /\ consumerIds' = [i \in 1..id |->
                            IF i = id THEN {}
                            ELSE IF i \in ids THEN consumerIds[i] \cup {id}
                            ELSE consumerIds[i]]
       /\ databases' = Append(databases, 0)

(* The package's boundary index in the loop: enumerate() over the order.   *)
LoopIndex == Len(deferred) + 1

(* One admitted package compiles, with or without warnings, and publishes; *)
(* its check-only work is kept for later.                                  *)
PublishPackage ==
    /\ phase = "publish"
    /\ LoopIndex <= Len(ordered)
    /\ LET p == ordered[LoopIndex]
       IN /\ \E warned \in BOOLEAN :
               warnings' = warnings \cup
                 IF warned
                 THEN {[from |-> p, boundary |-> LoopIndex, source |-> 0]}
                 ELSE {}
          /\ IF Publishable(p)
             THEN /\ Commit(p)
                  /\ deferred' = Append(deferred, p)
                  /\ UNCHANGED <<phase, outcome>>
             ELSE /\ Finish("internalError")
                  /\ UNCHANGED <<registryVars, databases, deferred>>
    /\ UNCHANGED <<deps, sweepVars, ordered, walkVars>>

(* Compiling the package, or its build configuration, fails: the call      *)
(* returns and the registry is dropped with it.                            *)
PackageFails ==
    /\ phase = "publish"
    /\ LoopIndex <= Len(ordered)
    /\ Finish("failed")
    /\ UNCHANGED <<deps, sweepVars, ordered, walkVars, registryVars, databases,
                   warnings, deferred>>

(* validate_dependency_edges *)
EdgesFollowPublication ==
    \A i \in 1..Len(packages) :
      /\ \A q \in providerIds[i] : q < i
      /\ \A c \in consumerIds[i] : c > i

(* The loop ends with its last package, or at the first one the exhausted  *)
(* diagnostic budget does not admit.                                       *)
EndPublish ==
    /\ phase = "publish"
    /\ IF EdgesFollowPublication
       THEN phase' = "checkOnly" /\ UNCHANGED outcome
       ELSE Finish("bug")
    /\ UNCHANGED <<deps, sweepVars, ordered, walkVars, registryVars, databases,
                   warnings, deferred>>

(* Fault: the boundary committed is the package's place in the inventory.  *)
CommitWarningsByPrefix(id, p) ==
    warnings' = {IF w.boundary = p THEN [w EXCEPT !.source = p] ELSE w :
                   w \in warnings}

(* SuccessfulWarningStore::commit_boundary *)
CommitWarnings(id, p) ==
    warnings' = {IF w.boundary = id THEN [w EXCEPT !.source = p] ELSE w :
                   w \in warnings}

(* The deferred lane: the package's check-only units compile against the   *)
(* complete registry, its warnings are committed and its database is       *)
(* attached, once.                                                         *)
CheckOnly ==
    /\ phase = "checkOnly"
    /\ deferred # <<>>
    /\ deferred' = Tail(deferred)
    /\ LET p == Head(deferred)
       IN IF Indexed(p) /\ databases[IdOf(p)] = 0
          THEN /\ CommitWarnings(IdOf(p), p)
               /\ databases' = [databases EXCEPT ![IdOf(p)] = p]
               /\ UNCHANGED <<phase, outcome>>
          ELSE Finish("internalError") /\ UNCHANGED <<warnings, databases>>
    /\ UNCHANGED <<deps, sweepVars, ordered, walkVars, registryVars>>

CheckOnlyFails ==
    /\ phase = "checkOnly"
    /\ deferred # <<>>
    /\ Finish("failed")
    /\ UNCHANGED <<deps, sweepVars, ordered, walkVars, registryVars, databases,
                   warnings, deferred>>

ReturnRegistry ==
    /\ phase = "checkOnly"
    /\ deferred = <<>>
    /\ Finish("published")
    /\ UNCHANGED <<deps, sweepVars, ordered, walkVars, registryVars, databases,
                   warnings, deferred>>

Returned == phase = "done" /\ UNCHANGED vars

Ordering == BuildGraph \/ PopReady \/ EndSweep \/ WalkBack \/ ReportCycle

Publishing ==
    \/ PublishPackage \/ PackageFails \/ EndPublish
    \/ CheckOnly \/ CheckOnlyFails \/ ReturnRegistry

Next == Ordering \/ Publishing \/ Returned

Spec == Init /\ [][Next]_vars

(* Both functions run to their return.                                     *)
FairSpec == Spec /\ WF_vars(Ordering \/ Publishing)

-----------------------------------------------------------------------------
(***************************************************************************)
(* Properties.                                                             *)
(***************************************************************************)
Position(s, p) == CHOOSE i \in 1..Len(s) : s[i] = p

(* Orders of all packages in which every provider comes first.             *)
DependencyOrders ==
    {s \in [Packages -> Packages] :
       /\ \A p \in Packages : \E i \in Packages : s[i] = p
       /\ \A c \in Packages : \A p \in deps[c] : Position(s, p) < Position(s, c)}

Before(s, t) ==
    \E i \in Packages : s[i] < t[i] /\ \A j \in 1..(i - 1) : s[j] = t[j]

(* The order returned is the first, in prefix order, of all the orders in  *)
(* which providers come before their consumers; packages are refused as    *)
(* cyclic only if there is no such order.                                  *)
OrderIsCanonical ==
    /\ phase \in {"publish", "checkOnly"} =>
         /\ ordered \in DependencyOrders
         /\ \A s \in DependencyOrders : ~Before(s, ordered)
    /\ outcome = "cycle" => DependencyOrders = {}

(* The packages p depends on, directly or through others: those in every   *)
(* set that holds the providers of p and the providers of its own members. *)
DependsOn(p) ==
    {d \in Packages :
        \A S \in SUBSET Packages :
            deps[p] \subseteq S /\ (\A q \in S : deps[q] \subseteq S) => d \in S}

(* The package named in the circular-dependency diagnostic depends on      *)
(* itself; a bystander that only depends on a cycle is never named.  Until *)
(* then there is a blocked provider to go to: neither "expect" of          *)
(* package_on_dependency_cycle can panic.                                  *)
WitnessOnCycle ==
    /\ outcome = "cycle" => current \in DependsOn(current)
    /\ phase = "walk" => current \in Blocked /\ BlockedProviders(current) # {}

(* No publication is refused by the registry's own checks, whatever was    *)
(* cut off before: a package compiles only after every provider it names   *)
(* has been published, and the recorded edges follow publication order.    *)
RegistryAccepts == outcome \notin {"internalError", "bug"}

(* Once the registry is returned every package published has its own       *)
(* source database, and every staged warning is rendered against the       *)
(* database of the package that gave it: the loop's index, under which it  *)
(* was staged, is the registry id it is committed by.                      *)
WarningsFindTheirSource ==
    outcome = "published" =>
      /\ databases = packages
      /\ \A w \in warnings : w.source = w.from

(* Ordering and publication always come to an end.                         *)
PackagesAnswered == <>(phase = "done")
=============================================================================
