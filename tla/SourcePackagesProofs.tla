------------------------ MODULE SourcePackagesProofs ------------------------
(***************************************************************************)
(* Proofs about ordering and publishing source packages, for every number  *)
(* of packages and every dependency relation between them.                 *)
(***************************************************************************)
EXTENDS SourcePackages, FiniteSetTheorems, FunctionTheorems,
        WellFoundedInduction, TLAPS

USE PackagesAssumption DEF PackagesAssumption

-----------------------------------------------------------------------------
(* A non-empty set of packages has a least one: the heap's pop and the     *)
(* searches in prefix order find a package.                                *)
LEMMA LeastIsIn ==
    ASSUME NEW S \in SUBSET Packages, S # {}
    PROVE  Least(S) \in S /\ \A n \in S : Least(S) <= n
<1> DEFINE F == {1..m : m \in S}
           R == StrictSubsetOrdering(Packages)
<1>1. IsFiniteSet(Packages)
  BY FS_Interval DEF Packages
<1>2. IsWellFoundedOn(R, SUBSET Packages)
  BY <1>1, FS_StrictSubsetOrderingWellFounded, FS_FiniteSubsetsOfFinite
<1>3. F \subseteq SUBSET Packages /\ F # {}
  <2>1. ASSUME NEW m \in S PROVE 1..m \in SUBSET Packages
    BY DEF Packages
  <2> QED BY <2>1
<1>4. \E x \in F : \A y \in F : ~(<<y, x>> \in R)
  <2> HIDE DEF F, R
  <2> QED BY <1>2, <1>3, WFMin
<1>5. PICK m \in S : \A n \in S : ~(<<1..n, 1..m>> \in R)
  BY <1>4
<1>6. ASSUME NEW n \in S PROVE m <= n
  <2>1. m \in Nat /\ n \in Nat /\ m >= 1 /\ n >= 1
    BY DEF Packages
  <2>2. ASSUME n < m PROVE FALSE
    <3>1. 1..n \subseteq 1..m /\ m \notin 1..n /\ m \in 1..m
      BY <2>1, <2>2
    <3>2. 1..n \in SUBSET Packages /\ 1..m \in SUBSET Packages /\ 1..n # 1..m
      BY <2>1, <3>1 DEF Packages
    <3> QED BY <1>5, <3>1, <3>2 DEF StrictSubsetOrdering
  <2> QED BY <2>1, <2>2
<1> QED BY <1>6 DEF Least

LEMMA FinitePackages ==
    /\ IsFiniteSet(Packages)
    /\ Cardinality(Packages) = NumPackages
BY FS_Interval DEF Packages

(* Every set of packages is finite, and counting it is a natural number.   *)
LEMMA FinitePart ==
    ASSUME NEW S \in SUBSET Packages
    PROVE  /\ IsFiniteSet(S)
           /\ Cardinality(S) \in 0..NumPackages
           /\ Cardinality(S) = 0 <=> S = {}
           /\ Cardinality(S) = NumPackages <=> S = Packages
<1>1. IsFiniteSet(S) /\ Cardinality(S) <= NumPackages
      /\ (NumPackages = Cardinality(S) => Packages = S)
  BY FinitePackages, FS_Subset
<1>2. Cardinality(S) \in Nat
  BY <1>1, FS_CardinalityType
<1>3. Cardinality(S) = 0 <=> S = {}
  BY <1>1, FS_EmptySet
<1> QED BY <1>1, <1>2, <1>3, FinitePackages

-----------------------------------------------------------------------------
(* The first n packages of the order.                                      *)
First(n) == {ordered[j] : j \in 1..n}

Taken == First(Len(ordered))

(* Before the graph is built nothing is ordered, and nothing is published  *)
(* before all packages are.                                                *)
PhaseInv ==
    /\ phase = "build" => ordered = <<>>
    /\ phase = "done" <=> outcome # "none"
    /\ phase # "build" => consumers = [p \in Packages |->
                                         {c \in Packages : p \in deps[c]}]
    /\ phase \in {"publish", "checkOnly"} => Len(ordered) = NumPackages
    /\ phase \in {"build", "sweep", "walk"} =>
         /\ packages = <<>> /\ providerIds = <<>> /\ consumerIds = <<>>
         /\ databases = <<>> /\ warnings = {} /\ deferred = <<>>
    /\ outcome = "cycle" => ready = {}
    /\ phase = "walk" => ready = {}

(* The sweep: an indegree counts the providers not ordered yet, and the    *)
(* heap holds the packages that wait for none.                             *)
SweepInv ==
    phase # "build" =>
        /\ \A c \in Packages : indegree[c] = Cardinality(deps[c] \ Taken)
        /\ ready = {c \in Packages \ Taken : deps[c] \subseteq Taken}

(* The order so far: no package twice, providers first, and at each place  *)
(* the least package that could stand there.                               *)
OrderInv ==
    /\ Len(ordered) = Cardinality(Taken)
    /\ \A i, j \in 1..Len(ordered) : ordered[i] = ordered[j] => i = j
    /\ \A i \in 1..Len(ordered) : deps[ordered[i]] \subseteq First(i - 1)
    /\ \A i \in 1..Len(ordered), q \in Packages :
         q \notin First(i - 1) /\ deps[q] \subseteq First(i - 1) =>
            ordered[i] <= q

(* The walk moves along provider edges between blocked packages.           *)
WalkInv ==
    /\ phase \notin {"walk", "done"} => visited = {}
    /\ phase = "walk" \/ outcome = "cycle" =>
         /\ current \in Blocked
         /\ \A v \in visited : current \in DependsOn(v)
    /\ outcome = "cycle" => current \in visited

(* How many packages the deferred lane has been through.                   *)
Attached == Len(packages) - Len(deferred)

(* The registry: packages are published in the order, and ids, boundary    *)
(* indices and deferred work stay aligned.                                 *)
RegistryInv ==
    phase \in {"publish", "checkOnly"} =>
        /\ Len(packages) <= Len(ordered)
        /\ \A i \in 1..Len(packages) : packages[i] = ordered[i]
        /\ Len(deferred) <= Len(packages)
        /\ phase = "publish" => Attached = 0
        /\ \A i \in 1..Len(deferred) : deferred[i] = packages[Attached + i]
        /\ Len(databases) = Len(packages)
        /\ \A i \in 1..Len(packages) :
             databases[i] = IF i <= Attached THEN packages[i] ELSE 0

EdgeInv ==
    phase \in {"publish", "checkOnly"} =>
        /\ Len(providerIds) = Len(packages) /\ Len(consumerIds) = Len(packages)
        /\ EdgesFollowPublication

WarningInv ==
    phase \in {"publish", "checkOnly"} =>
        \A w \in warnings :
            /\ w.boundary <= Len(packages)
            /\ w.from = packages[w.boundary]
            /\ w.boundary <= Attached => w.source = w.from

IInv ==
    /\ TypeOK /\ PhaseInv /\ SweepInv /\ OrderInv /\ WalkInv
    /\ RegistryInv /\ EdgeInv /\ WarningInv
    /\ RegistryAccepts /\ WarningsFindTheirSource

-----------------------------------------------------------------------------
(* The order and the walk read only these variables.                       *)
LEMMA SweepFrame ==
    ASSUME UNCHANGED <<deps, indegree, ready, ordered>>
    PROVE  /\ \A n : First(n)' = First(n)
           /\ Taken' = Taken
           /\ Blocked' = Blocked
           /\ \A p : DependsOn(p)' = DependsOn(p)
           /\ OrderInv' = OrderInv
<1>1. /\ \A n : First(n)' = First(n)
      /\ Taken' = Taken
      /\ Blocked' = Blocked
  BY DEF First, Taken, Blocked
<1>2. \A p : DependsOn(p)' = DependsOn(p)
  BY DEF DependsOn
<1>3. OrderInv' = OrderInv
  BY <1>1 DEF OrderInv
<1> QED BY <1>1, <1>2, <1>3

LEMMA TakenTyped ==
    ASSUME TypeOK
    PROVE  /\ Taken \in SUBSET Packages /\ IsFiniteSet(Taken)
           /\ Len(ordered) \in Nat
           /\ \A i \in 1..Len(ordered) : ordered[i] \in Packages
<1>1. Len(ordered) \in Nat /\ \A i \in 1..Len(ordered) : ordered[i] \in Packages
  BY DEF TypeOK
<1>2. Taken \in SUBSET Packages
  BY <1>1 DEF Taken, First
<1> QED BY <1>1, <1>2, FinitePart

(* A blocked package is one that is not ordered once nothing is ready, and *)
(* it has a provider that is blocked too: package_on_dependency_cycle has  *)
(* somewhere to go.                                                        *)
LEMMA BlockedHasBlockedProvider ==
    ASSUME IInv, phase # "build", ready = {}
    PROVE  /\ Blocked = Packages \ Taken
           /\ \A p \in Blocked : /\ BlockedProviders(p) # {}
                                 /\ BlockedProviders(p) = Blocked \cap deps[p]
<1> USE DEF IInv
<1>1. ASSUME NEW p \in Packages
      PROVE  p \in Blocked <=> deps[p] \ Taken # {}
  <2>1. deps[p] \ Taken \in SUBSET Packages
    BY DEF TypeOK
  <2>2. indegree[p] = Cardinality(deps[p] \ Taken)
    BY DEF SweepInv
  <2>3. /\ Cardinality(deps[p] \ Taken) \in Nat
        /\ Cardinality(deps[p] \ Taken) = 0 <=> deps[p] \ Taken = {}
    BY <2>1, FinitePart
  <2> QED BY <2>2, <2>3 DEF Blocked
<1>2. ASSUME NEW p \in Taken PROVE deps[p] \subseteq Taken
  <2>1. PICK i \in 1..Len(ordered) : p = ordered[i]
    BY DEF Taken, First
  <2>2. First(i - 1) \subseteq Taken
    BY TakenTyped DEF Taken, First
  <2> QED BY <2>1, <2>2 DEF OrderInv
<1>3. ASSUME NEW p \in Packages
      PROVE  deps[p] \ Taken # {} <=> p \notin Taken
  BY <1>2 DEF SweepInv
<1>4. Blocked = Packages \ Taken
  BY <1>1, <1>3 DEF Blocked
<1>5. ASSUME NEW p \in Blocked
      PROVE  BlockedProviders(p) # {} /\ BlockedProviders(p) = Blocked \cap deps[p]
  <2>1. p \in Packages /\ deps[p] \ Taken # {} /\ deps[p] \subseteq Packages
    BY <1>1 DEF Blocked, TypeOK
  <2>2. BlockedProviders(p) = Blocked \cap deps[p]
    BY <2>1 DEF BlockedProviders, Blocked, PhaseInv
  <2> QED BY <1>4, <2>1, <2>2
<1> QED BY <1>4, <1>5

-----------------------------------------------------------------------------
LEMMA BuildKeepsInv ==
    ASSUME IInv, BuildGraph PROVE IInv'
<1> USE DEF IInv, BuildGraph, walkVars, registryVars
<1>1. ordered = <<>> /\ ordered' = <<>>
  BY DEF PhaseInv
<1>2. Taken = {} /\ Taken' = {}
  BY <1>1 DEF Taken, First
<1>3. \A c \in Packages : Cardinality(deps[c]) \in 0..NumPackages
  BY FinitePart DEF TypeOK
<1>4. TypeOK'
  <2>1. consumers' \in [Packages -> SUBSET Packages] /\ ready' \in SUBSET Packages
    OBVIOUS
  <2>2. indegree' \in [Packages -> 0..NumPackages]
    BY <1>3
  <2> QED BY <2>1, <2>2 DEF TypeOK, Phases
<1>5. PhaseInv'
  BY <1>1 DEF PhaseInv
<1>6. \A c \in Packages : deps[c] \ {} = deps[c]
  OBVIOUS
<1>7. SweepInv'
  BY <1>2, <1>6 DEF SweepInv
<1>8. OrderInv'
  BY <1>1, <1>2 DEF OrderInv
<1>9. WalkInv'
  BY DEF WalkInv, PhaseInv
<1>10. RegistryInv' /\ EdgeInv' /\ WarningInv' /\ RegistryAccepts'
       /\ WarningsFindTheirSource'
  BY DEF RegistryInv, EdgeInv, WarningInv, RegistryAccepts,
         WarningsFindTheirSource
<1> QED BY <1>4, <1>5, <1>7, <1>8, <1>9, <1>10

(* The package that leaves the heap becomes the last of the order.         *)
LEMMA PopExtends ==
    ASSUME IInv, PopReady
    PROVE  LET p == Least(ready)
           IN  /\ p \in ready /\ p \in Packages /\ p \notin Taken
               /\ deps[p] \subseteq Taken
               /\ \A q \in ready : p <= q
               /\ Len(ordered') = Len(ordered) + 1
               /\ ordered' \in Seq(Packages)
               /\ \A i \in 1..Len(ordered) : ordered'[i] = ordered[i]
               /\ ordered'[Len(ordered) + 1] = p
               /\ \A n \in 0..Len(ordered) : First(n)' = First(n)
               /\ Taken' = Taken \cup {p}
<1> USE DEF IInv
<1> DEFINE p == Least(ready)
<1>1. p \in ready /\ \A q \in ready : p <= q
  BY LeastIsIn DEF PopReady, TypeOK
<1>2. p \in Packages /\ p \notin Taken /\ deps[p] \subseteq Taken
  BY <1>1 DEF SweepInv, PopReady, TypeOK
<1>3. ordered' = Append(ordered, p)
  BY DEF PopReady
<1> HIDE DEF p
<1>4. /\ Len(ordered) \in Nat /\ Len(ordered') = Len(ordered) + 1
      /\ ordered' \in Seq(Packages)
      /\ \A i \in 1..Len(ordered) : ordered'[i] = ordered[i]
      /\ ordered'[Len(ordered) + 1] = p
  BY <1>2, <1>3 DEF TypeOK
<1>5. ASSUME NEW n \in 0..Len(ordered) PROVE First(n)' = First(n)
  BY <1>4 DEF First
<1>6. Taken' = Taken \cup {p}
  <2>1. /\ Taken' = {ordered'[j] : j \in 1..Len(ordered')}
        /\ Taken = {ordered[j] : j \in 1..Len(ordered)}
    BY DEF Taken, First
  <2>2. ASSUME NEW q \in Taken' PROVE q \in Taken \cup {p}
    <3>1. PICK j \in 1..Len(ordered') : q = ordered'[j]
      BY <2>1, <2>2
    <3>2. j \in 1..Len(ordered) \/ j = Len(ordered) + 1
      BY <1>4
    <3> QED BY <1>4, <2>1, <3>1, <3>2
  <2>3. ASSUME NEW q \in Taken \cup {p} PROVE q \in Taken'
    <3>1. CASE q = p
      BY <1>4, <2>1, <3>1
    <3>2. CASE q \in Taken
      <4>1. PICK j \in 1..Len(ordered) : q = ordered[j]
        BY <2>1, <3>2
      <4> QED BY <1>4, <2>1, <4>1
    <3> QED BY <2>3, <3>1, <3>2
  <2> QED BY <2>2, <2>3
<1> QED BY <1>1, <1>2, <1>4, <1>5, <1>6 DEF p

(* One round of the sweep: the counters follow, and the heap holds what    *)
(* waits for nothing any more.                                             *)
LEMMA PopKeepsSweep ==
    ASSUME IInv, PopReady
    PROVE  SweepInv' /\ indegree' \in [Packages -> 0..NumPackages]
           /\ ready' \in SUBSET Packages
<1> USE DEF IInv
<1> DEFINE p == Least(ready)
<1>1. /\ p \in ready /\ p \in Packages /\ p \notin Taken
      /\ deps[p] \subseteq Taken
      /\ Taken' = Taken \cup {p}
  BY PopExtends
<1>2. /\ indegree' = [c \in Packages |->
                        indegree[c] - IF c \in consumers[p] THEN 1 ELSE 0]
      /\ ready' = (ready \ {p}) \cup {c \in consumers[p] : indegree'[c] = 0}
      /\ phase' = phase /\ phase # "build" /\ deps' = deps
  BY DEF PopReady
<1> HIDE DEF p
<1>3. \A c \in Packages : c \in consumers[p] <=> p \in deps[c]
  BY <1>1, <1>2 DEF PhaseInv
<1>4. consumers[p] \subseteq Packages
  BY <1>1 DEF TypeOK
<1>5. ASSUME NEW c \in Packages
      PROVE  /\ indegree'[c] = Cardinality(deps[c] \ Taken')
             /\ indegree'[c] \in 0..NumPackages
             /\ indegree'[c] = 0 <=> deps[c] \subseteq Taken'
  <2> DEFINE U == deps[c] \ Taken
  <2>1. U \in SUBSET Packages /\ U \ {p} \in SUBSET Packages
        /\ U \ {p} = deps[c] \ Taken' /\ (p \in U <=> p \in deps[c])
    BY <1>1 DEF TypeOK
  <2>2. indegree[c] = Cardinality(U)
    BY <1>2 DEF SweepInv
  <2> HIDE DEF U
  <2>3. /\ IsFiniteSet(U) /\ Cardinality(U) \in Nat
        /\ Cardinality(U \ {p}) \in 0..NumPackages
        /\ Cardinality(U \ {p}) = 0 <=> U \ {p} = {}
    BY <2>1, FinitePart
  <2>4. Cardinality(U \ {p}) =
          IF p \in U THEN Cardinality(U) - 1 ELSE Cardinality(U)
    BY <2>3, FS_RemoveElement
  <2>5. indegree'[c] = Cardinality(U \ {p})
    BY <1>2, <1>3, <2>1, <2>2, <2>3, <2>4
  <2>6. U \ {p} = {} <=> deps[c] \subseteq Taken'
    BY <2>1
  <2> QED BY <2>1, <2>3, <2>5, <2>6
<1>6. indegree' \in [Packages -> 0..NumPackages]
  BY <1>2, <1>5
<1>7. ready' \in SUBSET Packages
  BY <1>2, <1>4 DEF TypeOK
<1>8. ASSUME NEW c \in Taken PROVE deps[c] \subseteq Taken
  <2>1. PICK i \in 1..Len(ordered) : c = ordered[i]
    BY DEF Taken, First
  <2>2. First(i - 1) \subseteq Taken
    BY TakenTyped DEF Taken, First
  <2> QED BY <2>1, <2>2 DEF OrderInv
<1>9. ready' = {c \in Packages \ Taken' : deps[c] \subseteq Taken'}
  <2>1. ASSUME NEW c \in Packages, c \in ready'
        PROVE  c \notin Taken' /\ deps[c] \subseteq Taken'
    <3>1. CASE c \in ready \ {p}
      BY <1>1, <1>2, <3>1 DEF SweepInv
    <3>2. CASE c \in consumers[p] /\ indegree'[c] = 0
      BY <1>1, <1>3, <1>5, <1>8, <3>2
    <3> QED BY <1>2, <2>1, <3>1, <3>2
  <2>2. ASSUME NEW c \in Packages, c \notin Taken', deps[c] \subseteq Taken'
        PROVE  c \in ready'
    <3>1. CASE p \in deps[c]
      BY <1>2, <1>3, <1>5, <2>2, <3>1
    <3>2. CASE p \notin deps[c]
      BY <1>1, <1>2, <2>2, <3>2 DEF SweepInv
    <3> QED BY <3>1, <3>2
  <2> QED BY <1>7, <2>1, <2>2
<1> QED BY <1>2, <1>5, <1>6, <1>7, <1>9 DEF SweepInv

LEMMA PopKeepsOrder ==
    ASSUME IInv, PopReady PROVE OrderInv'
<1> USE DEF IInv
<1> DEFINE p == Least(ready)
           n == Len(ordered)
<1>1. /\ p \in ready /\ p \in Packages /\ p \notin Taken
      /\ deps[p] \subseteq Taken
      /\ \A q \in ready : p <= q
      /\ Len(ordered') = n + 1
      /\ \A i \in 1..n : ordered'[i] = ordered[i]
      /\ ordered'[n + 1] = p
      /\ \A k \in 0..n : First(k)' = First(k)
      /\ Taken' = Taken \cup {p} /\ Taken = First(n)
  BY PopExtends DEF Taken
<1>2. /\ n \in Nat /\ IsFiniteSet(Taken) /\ deps' = deps
      /\ \A i \in 1..n : ordered[i] \in Taken
  BY TakenTyped DEF PopReady, Taken, First
<1>e. ready = {c \in Packages \ Taken : deps[c] \subseteq Taken}
  BY DEF SweepInv, PopReady
<1>f. n = Cardinality(Taken)
  BY DEF OrderInv
<1> HIDE DEF p, n
<1>3. Len(ordered') = Cardinality(Taken')
  <2>1. Cardinality(Taken \cup {p}) = Cardinality(Taken) + 1
    BY <1>1, <1>2, FS_AddElement
  <2> QED BY <1>1, <1>f, <2>1
<1>4. \A i \in 1..Len(ordered') : i \in 1..n \/ i = n + 1
  BY <1>1, <1>2
<1>5. ASSUME NEW i \in 1..Len(ordered'), NEW j \in 1..Len(ordered'),
             ordered'[i] = ordered'[j]
      PROVE  i = j
  BY <1>1, <1>2, <1>4, <1>5 DEF OrderInv, n
<1>6. ASSUME NEW i \in 1..Len(ordered') PROVE First(i - 1)' = First(i - 1)
  BY <1>1, <1>2
<1>7. ASSUME NEW i \in 1..Len(ordered')
      PROVE  deps[ordered'[i]] \subseteq First(i - 1)'
  <2>1. CASE i \in 1..n
    BY <1>1, <1>6, <2>1 DEF OrderInv, n
  <2>2. CASE i = n + 1
    BY <1>1, <1>2, <1>6, <2>2
  <2> QED BY <1>4, <2>1, <2>2
<1>8. ASSUME NEW i \in 1..Len(ordered'), NEW q \in Packages,
             q \notin First(i - 1)', deps[q] \subseteq First(i - 1)'
      PROVE  ordered'[i] <= q
  <2>1. CASE i \in 1..n
    BY <1>1, <1>6, <1>8, <2>1 DEF OrderInv, n
  <2>2. CASE i = n + 1
    <3>1. First(i - 1)' = Taken
      BY <1>1, <1>2, <2>2
    <3> QED BY <1>1, <1>8, <1>e, <2>2, <3>1
  <2> QED BY <1>4, <2>1, <2>2
<1> QED BY <1>2, <1>3, <1>5, <1>7, <1>8 DEF OrderInv

LEMMA PopKeepsInv ==
    ASSUME IInv, PopReady PROVE IInv'
<1> USE DEF IInv
<1>1. /\ phase' = phase /\ phase = "sweep"
      /\ UNCHANGED <<deps, consumers, visited, current, packages, providerIds,
                     consumerIds, databases, warnings, deferred, outcome>>
  BY DEF PopReady, walkVars, registryVars
<1>2. TypeOK'
  BY <1>1, PopKeepsSweep, PopExtends DEF TypeOK
<1>3. PhaseInv'
  BY <1>1 DEF PhaseInv
<1>4. WalkInv' /\ RegistryInv' /\ EdgeInv' /\ WarningInv' /\ RegistryAccepts'
      /\ WarningsFindTheirSource'
  BY <1>1 DEF WalkInv, PhaseInv, RegistryInv, EdgeInv, WarningInv,
         RegistryAccepts, WarningsFindTheirSource
<1> QED BY <1>2, <1>3, <1>4, PopKeepsSweep, PopKeepsOrder

-----------------------------------------------------------------------------
LEMMA EndSweepKeepsInv ==
    ASSUME IInv, EndSweep PROVE IInv'
<1> USE DEF IInv
<1>1. /\ UNCHANGED <<deps, consumers, indegree, ready, ordered, visited,
                     packages, providerIds, consumerIds, databases, warnings,
                     deferred, outcome>>
      /\ phase = "sweep" /\ ready = {}
  BY DEF EndSweep, sweepVars, registryVars
<1>2. /\ \A n : First(n)' = First(n)
      /\ Taken' = Taken /\ Blocked' = Blocked /\ OrderInv'
  BY <1>1, SweepFrame
<1>3. Len(ordered) # NumPackages => Least(Blocked) \in Blocked
  <2> SUFFICES ASSUME Len(ordered) # NumPackages PROVE Least(Blocked) \in Blocked
    OBVIOUS
  <2>1. Taken # Packages
    BY FinitePackages DEF OrderInv
  <2>2. Blocked # {} /\ Blocked \in SUBSET Packages
    BY <1>1, <2>1, BlockedHasBlockedProvider, TakenTyped DEF Blocked
  <2> QED BY <2>2, LeastIsIn
<1>4. /\ phase' \in {"publish", "walk"}
      /\ phase' = "publish" => Len(ordered) = NumPackages /\ current' = current
      /\ phase' = "walk" => current' \in Blocked
  BY <1>3 DEF EndSweep
<1>5. TypeOK'
  <2>1. current' \in 0..NumPackages
    BY <1>4 DEF TypeOK, Blocked, Packages
  <2>2. phase' \in Phases
    BY <1>4 DEF Phases
  <2> QED BY <1>1, <2>1, <2>2 DEF TypeOK
<1>6. PhaseInv' /\ SweepInv'
  BY <1>1, <1>2, <1>4 DEF PhaseInv, SweepInv
<1>7. WalkInv'
  BY <1>1, <1>2, <1>4 DEF WalkInv, PhaseInv
<1>8. /\ packages' = <<>> /\ deferred' = <<>> /\ databases' = <<>>
      /\ providerIds' = <<>> /\ consumerIds' = <<>> /\ warnings' = {}
  BY <1>1 DEF PhaseInv
<1>9. RegistryInv' /\ EdgeInv' /\ WarningInv'
  <2>1. Len(ordered') \in Nat
    BY <1>1, TakenTyped
  <2> QED BY <1>4, <1>8, <2>1
        DEF RegistryInv, EdgeInv, WarningInv, Attached, EdgesFollowPublication
<1>10. RegistryAccepts' /\ WarningsFindTheirSource'
  BY <1>1, <1>4 DEF PhaseInv, RegistryAccepts, WarningsFindTheirSource
<1> QED BY <1>2, <1>5, <1>6, <1>7, <1>9, <1>10

LEMMA WalkKeepsInv ==
    ASSUME IInv, WalkBack \/ ReportCycle PROVE IInv'
<1> USE DEF IInv
<1>1. /\ UNCHANGED <<deps, consumers, indegree, ready, ordered, packages,
                     providerIds, consumerIds, databases, warnings, deferred>>
      /\ phase = "walk" /\ ready = {} /\ outcome = "none"
  BY DEF WalkBack, ReportCycle, sweepVars, registryVars, PhaseInv
<1>2. /\ \A n : First(n)' = First(n)
      /\ Taken' = Taken /\ Blocked' = Blocked /\ OrderInv'
      /\ \A v : DependsOn(v)' = DependsOn(v)
  BY <1>1, SweepFrame
<1>3. CASE WalkBack
  <2>1. /\ phase' = phase /\ outcome' = outcome
        /\ visited' = visited \cup {current}
        /\ current' = Least(BlockedProviders(current))
    BY <1>3 DEF WalkBack
  <2>2. current \in Blocked /\ current \in Packages
    BY <1>1 DEF WalkInv, Blocked
  <2>3. current' \in Blocked /\ current' \in deps[current] /\ current' \in Packages
    <3>1. BlockedProviders(current) # {}
          /\ BlockedProviders(current) = Blocked \cap deps[current]
      BY <1>1, <2>2, BlockedHasBlockedProvider
    <3>2. BlockedProviders(current) \in SUBSET Packages
      BY DEF BlockedProviders, Blocked
    <3>3. current' \in BlockedProviders(current)
      BY <2>1, <3>1, <3>2, LeastIsIn
    <3> QED BY <3>1, <3>2, <3>3
  <2>4. TypeOK'
    BY <1>1, <2>1, <2>2, <2>3 DEF TypeOK, Packages
  <2>5. ASSUME NEW v \in visited' PROVE current' \in DependsOn(v)'
    <3> SUFFICES ASSUME NEW S \in SUBSET Packages, deps[v] \subseteq S,
                        \A q \in S : deps[q] \subseteq S
                 PROVE  current' \in S
      BY <1>2, <2>3 DEF DependsOn
    <3>1. CASE v = current
      BY <2>3, <3>1
    <3>2. CASE v \in visited
      <4>1. current \in S
        BY <1>1, <3>2 DEF WalkInv, DependsOn
      <4> QED BY <2>3, <4>1
    <3> QED BY <2>1, <2>5, <3>1, <3>2
  <2>6. PhaseInv' /\ SweepInv' /\ WalkInv'
    BY <1>1, <1>2, <2>1, <2>3, <2>5 DEF PhaseInv, SweepInv, WalkInv
  <2>7. RegistryInv' /\ EdgeInv' /\ WarningInv' /\ RegistryAccepts'
        /\ WarningsFindTheirSource'
    BY <1>1, <2>1 DEF RegistryInv, EdgeInv, WarningInv, RegistryAccepts,
           WarningsFindTheirSource
  <2> QED BY <1>2, <2>4, <2>6, <2>7
<1>4. CASE ReportCycle
  <2>1. /\ phase' = "done" /\ outcome' = "cycle" /\ current \in visited
        /\ UNCHANGED <<visited, current>>
    BY <1>4 DEF ReportCycle, Finish, walkVars
  <2>2. TypeOK'
    BY <1>1, <2>1 DEF TypeOK, Phases, Outcomes
  <2>3. PhaseInv' /\ SweepInv' /\ WalkInv'
    BY <1>1, <1>2, <2>1 DEF PhaseInv, SweepInv, WalkInv
  <2>4. RegistryInv' /\ EdgeInv' /\ WarningInv' /\ RegistryAccepts'
        /\ WarningsFindTheirSource'
    BY <2>1 DEF RegistryInv, EdgeInv, WarningInv, RegistryAccepts,
           WarningsFindTheirSource
  <2> QED BY <1>2, <2>2, <2>3, <2>4
<1> QED BY <1>3, <1>4

-----------------------------------------------------------------------------
(* Publication leaves the order, the sweep and the walk alone.             *)
LEMMA PublishFrame ==
    ASSUME IInv, phase \in {"publish", "checkOnly"},
           UNCHANGED <<deps, consumers, indegree, ready, ordered, visited,
                       current>>,
           phase' \in {"publish", "checkOnly", "done"},
           outcome' \in Outcomes \ {"cycle"},
           phase' = "done" <=> outcome' # "none"
    PROVE  PhaseInv' /\ SweepInv' /\ OrderInv' /\ WalkInv'
<1> USE DEF IInv
<1>1. /\ \A n : First(n)' = First(n)
      /\ Taken' = Taken /\ OrderInv'
  BY SweepFrame
<1>2. PhaseInv'
  BY DEF PhaseInv
<1>3. SweepInv'
  BY <1>1 DEF SweepInv
<1>4. WalkInv'
  BY DEF WalkInv
<1> QED BY <1>1, <1>2, <1>3, <1>4

(* What is published is the beginning of the order, so a package can be    *)
(* looked up by name: its id is its place in the order.                    *)
LEMMA IdIsPlace ==
    ASSUME IInv, phase \in {"publish", "checkOnly"}
    PROVE  /\ Len(packages) \in Nat /\ Len(ordered) \in Nat
           /\ Len(packages) <= Len(ordered)
           /\ \A i \in 1..Len(packages) :
                 /\ packages[i] = ordered[i] /\ packages[i] \in Packages
                 /\ Indexed(packages[i]) /\ IdOf(packages[i]) = i
<1> USE DEF IInv
<1>1. /\ Len(packages) \in Nat /\ Len(ordered) \in Nat
      /\ Len(packages) <= Len(ordered)
      /\ \A i \in 1..Len(packages) : packages[i] = ordered[i]
  BY TakenTyped DEF RegistryInv, TypeOK
<1>2. \A i, j \in 1..Len(packages) : packages[i] = packages[j] => i = j
  BY <1>1 DEF OrderInv
<1>3. \A i \in 1..Len(packages) : packages[i] \in Packages
  BY <1>1, TakenTyped
<1>4. ASSUME NEW i \in 1..Len(packages)
      PROVE  Indexed(packages[i]) /\ IdOf(packages[i]) = i
  BY <1>2 DEF Indexed, IdOf
<1> QED BY <1>1, <1>3, <1>4

(* The next package of the loop passes the registry's preflight.           *)
LEMMA NextIsPublishable ==
    ASSUME IInv, phase = "publish", LoopIndex <= Len(ordered)
    PROVE  /\ LoopIndex = Len(packages) + 1 /\ Len(deferred) = Len(packages)
           /\ ordered[LoopIndex] \in Packages
           /\ LoopIndex \in Packages
           /\ Publishable(ordered[LoopIndex])
           /\ \A q \in deps[ordered[LoopIndex]] : IdOf(q) \in 1..Len(packages)
<1> USE DEF IInv
<1> DEFINE k == LoopIndex
           p == ordered[k]
<1>1. k = Len(packages) + 1 /\ Len(deferred) = Len(packages)
      /\ k \in 1..Len(ordered) /\ Len(ordered) = NumPackages
  <2>1. Len(deferred) \in Nat /\ Len(packages) \in Nat
    BY DEF TypeOK
  <2>2. Len(packages) - Len(deferred) = 0
    BY DEF RegistryInv, Attached
  <2>3. Len(ordered) = NumPackages
    BY DEF PhaseInv
  <2> QED BY <2>1, <2>2, <2>3, TakenTyped DEF LoopIndex
<1>2. p \in Packages
  BY <1>1, TakenTyped
<1>3. ~Indexed(p)
  <2> SUFFICES ASSUME NEW i \in 1..Len(packages), packages[i] = p PROVE FALSE
    BY DEF Indexed
  <2>1. ordered[i] = ordered[k] /\ i \in 1..Len(ordered) /\ i # k
    BY <1>1, IdIsPlace
  <2> QED BY <1>1, <2>1 DEF OrderInv
<1>4. ASSUME NEW q \in deps[p]
      PROVE  Indexed(q) /\ IdOf(q) \in 1..Len(packages)
  <2>1. q \in First(k - 1)
    BY <1>1 DEF OrderInv
  <2>2. PICK j \in 1..(k - 1) : q = ordered[j]
    BY <2>1 DEF First
  <2>3. j \in 1..Len(packages)
    BY <1>1, <2>2, IdIsPlace
  <2> QED BY <2>2, <2>3, IdIsPlace
<1>5. k \in Packages
  BY <1>1 DEF Packages
<1> QED BY <1>1, <1>2, <1>3, <1>4, <1>5 DEF Publishable

(* Publishing keeps ids, deferred work, edges and boundary indices in step. *)
LEMMA PublishKeepsInv ==
    ASSUME IInv, PublishPackage PROVE IInv'
<1> USE DEF IInv
<1> DEFINE k == Len(packages) + 1
           p == ordered[k]
           ids == {IdOf(q) : q \in deps[p]}
<1>1. /\ UNCHANGED <<deps, consumers, indegree, ready, ordered, visited,
                     current>>
      /\ phase = "publish" /\ LoopIndex <= Len(ordered)
  BY DEF PublishPackage, sweepVars, walkVars
<1>2. /\ LoopIndex = k /\ Len(deferred) = Len(packages)
      /\ p \in Packages /\ k \in Packages /\ Publishable(p)
      /\ \A q \in deps[p] : IdOf(q) \in 1..Len(packages)
  BY <1>1, NextIsPublishable
<1>3. /\ Commit(p) /\ deferred' = Append(deferred, p)
      /\ phase' = phase /\ outcome' = outcome
      /\ \/ warnings' = warnings \cup {[from |-> p, boundary |-> k, source |-> 0]}
         \/ warnings' = warnings \cup {}
  BY <1>2 DEF PublishPackage
<1>4. /\ packages' = Append(packages, p)
      /\ providerIds' = Append(providerIds, ids)
      /\ consumerIds' = [i \in 1..k |->
                           IF i = k THEN {}
                           ELSE IF i \in ids THEN consumerIds[i] \cup {k}
                           ELSE consumerIds[i]]
      /\ databases' = Append(databases, 0)
  BY <1>3 DEF Commit
<1>5. ids \subseteq 1..Len(packages)
  BY <1>2
<1>6. /\ packages \in Seq(Packages) /\ providerIds \in Seq(SUBSET Packages)
      /\ consumerIds \in Seq(SUBSET Packages) /\ databases \in Seq(0..NumPackages)
      /\ deferred \in Seq(Packages) /\ warnings \in SUBSET Batches
      /\ Len(packages) \in Nat /\ Len(packages) < NumPackages
  <2>1. /\ packages \in Seq(Packages) /\ providerIds \in Seq(SUBSET Packages)
        /\ consumerIds \in Seq(SUBSET Packages) /\ databases \in Seq(0..NumPackages)
        /\ deferred \in Seq(Packages) /\ warnings \in SUBSET Batches
    BY DEF TypeOK
  <2>2. Len(packages) \in Nat
    BY <2>1
  <2>3. Len(packages) < NumPackages
    BY <1>2, <2>2 DEF Packages
  <2> QED BY <2>1, <2>2, <2>3
<1>7. /\ Len(providerIds) = Len(packages) /\ Len(consumerIds) = Len(packages)
      /\ Len(databases) = Len(packages) /\ EdgesFollowPublication
      /\ \A i \in 1..Len(deferred) : deferred[i] = packages[Attached + i]
      /\ \A i \in 1..Len(packages) : databases[i] = 0
      /\ Attached = 0
      /\ \A i \in 1..Len(packages) : packages[i] = ordered[i]
  BY <1>1, <1>6 DEF EdgeInv, RegistryInv
<1>8. /\ outcome = "none" /\ outcome' = "none" /\ phase' = "publish"
  BY <1>1, <1>3 DEF PhaseInv
<1> HIDE DEF p, k, ids
<1>9. k = Len(packages) + 1
  BY DEF k
<1>10. PhaseInv' /\ SweepInv' /\ OrderInv' /\ WalkInv'
  BY <1>1, <1>8, PublishFrame DEF Outcomes
<1>11. /\ packages' \in Seq(Packages) /\ Len(packages') = k
       /\ packages'[k] = p
       /\ \A i \in 1..Len(packages) : packages'[i] = packages[i]
  BY <1>2, <1>4, <1>6, <1>9
<1>12. /\ deferred' \in Seq(Packages) /\ Len(deferred') = k
       /\ deferred'[k] = p
       /\ \A i \in 1..Len(packages) : deferred'[i] = deferred[i]
  BY <1>2, <1>3, <1>6, <1>9
<1>13. /\ databases' \in Seq(0..NumPackages) /\ Len(databases') = k
       /\ \A i \in 1..k : databases'[i] = 0
  BY <1>4, <1>6, <1>7, <1>9
<1>14. ids \in SUBSET Packages
  BY <1>5, <1>6 DEF Packages
<1>15. /\ providerIds' \in Seq(SUBSET Packages) /\ Len(providerIds') = k
       /\ providerIds'[k] = ids
       /\ \A i \in 1..Len(packages) : providerIds'[i] = providerIds[i]
  BY <1>4, <1>6, <1>7, <1>9, <1>14
<1>16. /\ consumerIds' \in Seq(SUBSET Packages) /\ Len(consumerIds') = k
       /\ consumerIds'[k] = {}
       /\ \A i \in 1..Len(packages) :
            \A c \in consumerIds'[i] : c \in consumerIds[i] \/ c = k
  <2>1. \A i \in 1..Len(packages) : consumerIds[i] \in SUBSET Packages
    BY <1>6, <1>7
  <2>2. \A i \in 1..k : i = k \/ i \in 1..Len(packages)
    BY <1>6, <1>9
  <2>3. \A i \in 1..k : consumerIds'[i] \in SUBSET Packages
    BY <1>2, <1>4, <2>1, <2>2
  <2>4. k \in Nat /\ k \in 1..k /\ \A i \in 1..Len(packages) : i \in 1..k /\ i # k
    BY <1>6, <1>9
  <2> QED BY <1>4, <2>3, <2>4
<1>17. warnings' \in SUBSET Batches
       /\ \A w \in warnings' : w \in warnings \/ (w.boundary = k /\ w.from = p)
  BY <1>2, <1>3, <1>6 DEF Batches
<1>18. TypeOK'
  BY <1>1, <1>8, <1>11, <1>12, <1>13, <1>15, <1>16, <1>17 DEF TypeOK, Phases, Outcomes
<1>19. Attached' = 0
  BY <1>2, <1>6, <1>9, <1>11, <1>12 DEF Attached
<1>20. RegistryInv'
  <2>1. \A i \in 1..k : i = k \/ i \in 1..Len(packages)
    BY <1>6, <1>9
  <2>2. \A i \in 1..k : packages'[i] = ordered'[i]
    BY <1>1, <1>7, <1>11, <2>1 DEF p
  <2>3. \A i \in 1..k : deferred'[i] = packages'[i]
    <3>1. ASSUME NEW i \in 1..Len(packages) PROVE deferred[i] = packages[i]
      <4>1. Attached + i = i
        BY <1>7
      <4> QED BY <1>2, <1>7, <4>1
    <3> QED BY <1>2, <1>11, <1>12, <2>1, <3>1
  <2>4. k <= Len(ordered') /\ k \in Nat
    BY <1>1, <1>2, <1>6, <1>9
  <2> QED BY <1>8, <1>11, <1>12, <1>13, <1>19, <2>2, <2>3, <2>4 DEF RegistryInv
<1>21. EdgeInv'
  <2>1. ASSUME NEW i \in 1..k, NEW q \in providerIds'[i] PROVE q < i
    <3>1. CASE i = k
      <4>1. q \in ids
        BY <1>15, <3>1
      <4>2. q \in 1..Len(packages)
        BY <1>5, <4>1
      <4> QED BY <1>6, <1>9, <3>1, <4>2
    <3>2. CASE i \in 1..Len(packages)
      BY <1>7, <1>15, <2>1, <3>2 DEF EdgesFollowPublication
    <3> QED BY <1>6, <1>9, <3>1, <3>2
  <2>2. ASSUME NEW i \in 1..k, NEW c \in consumerIds'[i] PROVE c > i
    <3>1. CASE i = k
      BY <1>16, <2>2, <3>1
    <3>2. CASE i \in 1..Len(packages)
      BY <1>6, <1>7, <1>9, <1>16, <2>2, <3>2 DEF EdgesFollowPublication
    <3> QED BY <1>6, <1>9, <3>1, <3>2
  <2> QED BY <1>11, <1>15, <1>16, <2>1, <2>2 DEF EdgeInv, EdgesFollowPublication
<1>22. WarningInv'
  <2> SUFFICES ASSUME NEW w \in warnings'
               PROVE  /\ w.boundary <= k /\ w.from = packages'[w.boundary]
                      /\ ~(w.boundary <= 0)
    BY <1>11, <1>19 DEF WarningInv
  <2>1. CASE w \in warnings
    <3>1. w.boundary \in 1..Len(packages) /\ w.from = packages[w.boundary]
      BY <1>1, <1>6, <2>1 DEF WarningInv, Batches, Packages
    <3> QED BY <1>6, <1>9, <1>11, <3>1
  <2>2. CASE w.boundary = k /\ w.from = p
    BY <1>6, <1>9, <1>11, <2>2
  <2> QED BY <1>17, <2>1, <2>2
<1>23. RegistryAccepts' /\ WarningsFindTheirSource'
  BY <1>8 DEF RegistryAccepts, WarningsFindTheirSource
<1> QED BY <1>10, <1>18, <1>20, <1>21, <1>22, <1>23

(* Returning from the loops: the registry stays as it is.                  *)
LEMMA EndingKeepsInv ==
    ASSUME IInv, PackageFails \/ EndPublish \/ CheckOnlyFails \/ ReturnRegistry
    PROVE  IInv'
<1> USE DEF IInv
<1>1. /\ UNCHANGED <<deps, consumers, indegree, ready, ordered, visited,
                     current, packages, providerIds, consumerIds, databases,
                     warnings, deferred>>
      /\ phase \in {"publish", "checkOnly"} /\ outcome = "none"
  BY DEF PackageFails, EndPublish, CheckOnlyFails, ReturnRegistry, sweepVars,
         walkVars, registryVars, PhaseInv
<1>2. \/ phase = "publish" /\ phase' = "checkOnly" /\ outcome' = "none"
      \/ phase' = "done" /\ outcome' = "failed"
      \/ phase' = "done" /\ outcome' = "published" /\ deferred = <<>>
  BY <1>1 DEF PackageFails, EndPublish, CheckOnlyFails, ReturnRegistry, Finish,
              EdgeInv
<1>3. TypeOK'
  <2>1. phase' \in Phases /\ outcome' \in Outcomes
    BY <1>2 DEF Phases, Outcomes
  <2> QED BY <1>1, <2>1 DEF TypeOK
<1>4. PhaseInv' /\ SweepInv' /\ OrderInv' /\ WalkInv'
  BY <1>1, <1>2, PublishFrame DEF Outcomes
<1>5. Attached' = Attached /\ EdgesFollowPublication' = EdgesFollowPublication
  BY <1>1 DEF Attached, EdgesFollowPublication
<1>6. RegistryInv' /\ EdgeInv' /\ WarningInv'
  BY <1>1, <1>2, <1>5 DEF RegistryInv, EdgeInv, WarningInv
<1>7. RegistryAccepts'
  BY <1>2 DEF RegistryAccepts
<1>8. WarningsFindTheirSource'
  <2> SUFFICES ASSUME outcome' = "published"
               PROVE  databases = packages /\ \A w \in warnings : w.source = w.from
    BY <1>1 DEF WarningsFindTheirSource
  <2>1. Len(packages) \in Nat /\ Attached = Len(packages)
    BY <1>2 DEF Attached, TypeOK
  <2>2. /\ Len(databases) = Len(packages)
        /\ \A i \in 1..Len(packages) : databases[i] = packages[i]
    BY <1>1, <2>1 DEF RegistryInv
  <2>3. databases = packages
    <3>1. databases \in Seq(0..NumPackages) /\ packages \in Seq(Packages)
      BY DEF TypeOK
    <3>2. /\ databases = [i \in 1..Len(databases) |-> databases[i]]
          /\ packages = [i \in 1..Len(packages) |-> packages[i]]
      BY <3>1
    <3> QED BY <2>2, <3>2
  <2> QED BY <1>1, <2>1, <2>3 DEF WarningInv
<1> QED BY <1>3, <1>4, <1>6, <1>7, <1>8

(* The deferred lane takes the packages in publication order, so the one   *)
(* it is at is the first that has no database.                             *)
LEMMA CheckOnlyKeepsInv ==
    ASSUME IInv, CheckOnly PROVE IInv'
<1> USE DEF IInv
<1> DEFINE n == Len(packages)
           a == Attached
           p == Head(deferred)
<1>1. /\ UNCHANGED <<deps, consumers, indegree, ready, ordered, visited,
                     current, packages, providerIds, consumerIds>>
      /\ phase = "checkOnly" /\ outcome = "none" /\ deferred # <<>>
      /\ deferred' = Tail(deferred)
  BY DEF CheckOnly, sweepVars, walkVars, registryVars, PhaseInv
<1>2. deferred \in Seq(Packages) /\ databases \in Seq(0..NumPackages)
      /\ n \in Nat /\ warnings \in SUBSET Batches /\ packages \in Seq(Packages)
  BY DEF TypeOK
<1>3. /\ Len(deferred) \in Nat /\ Len(deferred) >= 1
      /\ Len(deferred') = Len(deferred) - 1 /\ deferred' \in Seq(Packages)
      /\ p = deferred[1] /\ p \in Packages
      /\ \A i \in 1..Len(deferred') : deferred'[i] = deferred[i + 1]
  BY <1>1, <1>2
<1>4. /\ a = n - Len(deferred) /\ a \in Nat /\ a + 1 \in 1..n
      /\ \A i \in 1..Len(deferred) : deferred[i] = packages[a + i]
      /\ Len(databases) = n
      /\ \A i \in 1..n : databases[i] = IF i <= a THEN packages[i] ELSE 0
  BY <1>1, <1>2, <1>3 DEF RegistryInv, Attached
<1>5. p = packages[a + 1] /\ IdOf(p) = a + 1 /\ Indexed(p)
      /\ databases[a + 1] = 0
  <2>1. p = packages[a + 1]
    BY <1>3, <1>4
  <2>2. databases[a + 1] = 0
    BY <1>4
  <2> QED BY <1>1, <1>4, <2>1, <2>2, IdIsPlace
<1>6. /\ warnings' = {IF w.boundary = a + 1 THEN [w EXCEPT !.source = p] ELSE w :
                       w \in warnings}
      /\ databases' = [databases EXCEPT ![a + 1] = p]
      /\ phase' = phase /\ outcome' = outcome
  BY <1>5 DEF CheckOnly, CommitWarnings
<1>7. Attached' = a + 1
  BY <1>1, <1>2, <1>3, <1>4 DEF Attached
<1> HIDE DEF n, a, p
<1>8. /\ databases' \in Seq(0..NumPackages) /\ Len(databases') = n
      /\ \A i \in 1..n : databases'[i] = IF i = a + 1 THEN p ELSE databases[i]
  BY <1>2, <1>3, <1>4, <1>6 DEF Packages
<1>9. ASSUME NEW v \in warnings'
      PROVE  \E w \in warnings : /\ v.boundary = w.boundary /\ v.from = w.from
                                 /\ v.source = IF w.boundary = a + 1 THEN p
                                               ELSE w.source
                                 /\ v \in Batches
  <2>1. PICK w \in warnings :
          v = IF w.boundary = a + 1 THEN [w EXCEPT !.source = p] ELSE w
    BY <1>6, <1>9
  <2>2. w \in Batches
    BY <1>2
  <2>3. [w EXCEPT !.source = p] \in Batches
        /\ [w EXCEPT !.source = p].boundary = w.boundary
        /\ [w EXCEPT !.source = p].from = w.from
        /\ [w EXCEPT !.source = p].source = p
    <3>1. p \in 0..NumPackages
      BY <1>3 DEF Packages
    <3> QED BY <2>2, <3>1 DEF Batches
  <2> QED BY <2>1, <2>2, <2>3
<1>10. TypeOK'
  <2>1. warnings' \in SUBSET Batches
    BY <1>9
  <2> QED BY <1>1, <1>3, <1>6, <1>8, <2>1 DEF TypeOK
<1>11. PhaseInv' /\ SweepInv' /\ OrderInv' /\ WalkInv'
  BY <1>1, <1>6, PublishFrame DEF Outcomes
<1>12. RegistryInv'
  <2>1. \A i \in 1..Len(deferred') : deferred'[i] = packages'[a + 1 + i]
    <3> SUFFICES ASSUME NEW i \in 1..Len(deferred')
                 PROVE  deferred'[i] = packages[a + 1 + i]
      BY <1>1
    <3>1. i + 1 \in 1..Len(deferred) /\ a + (i + 1) = a + 1 + i
      BY <1>3, <1>4
    <3>2. deferred'[i] = deferred[i + 1]
      BY <1>3
    <3>3. deferred[i + 1] = packages[a + (i + 1)]
      BY <1>4, <3>1
    <3> QED BY <3>1, <3>2, <3>3
  <2>2. ASSUME NEW i \in 1..n
        PROVE  databases'[i] = IF i <= a + 1 THEN packages'[i] ELSE 0
    <3>1. CASE i = a + 1
      BY <1>1, <1>4, <1>5, <1>8, <3>1
    <3>2. CASE i # a + 1
      <4>1. databases'[i] = IF i <= a THEN packages[i] ELSE 0
        BY <1>4, <1>8, <3>2
      <4>2. i <= a + 1 <=> i <= a
        <5>1. i \in Nat /\ a \in Nat
          BY <1>2, <1>4
        <5> QED BY <3>2, <5>1
      <4> QED BY <1>1, <4>1, <4>2
    <3> QED BY <3>1, <3>2
  <2>3. n = Len(packages') /\ Len(deferred') <= n
    BY <1>1, <1>2, <1>3, <1>4 DEF n
  <2>4. Len(packages) <= Len(ordered) /\ \A i \in 1..Len(packages) : packages[i] = ordered[i]
    BY <1>1 DEF RegistryInv
  <2> QED BY <1>1, <1>6, <1>7, <1>8, <2>1, <2>2, <2>3, <2>4 DEF RegistryInv
<1>13. EdgeInv'
  BY <1>1, <1>6 DEF EdgeInv, EdgesFollowPublication
<1>14. WarningInv'
  <2> SUFFICES ASSUME NEW v \in warnings'
               PROVE  /\ v.boundary <= n /\ v.from = packages[v.boundary]
                      /\ v.boundary <= a + 1 => v.source = v.from
    BY <1>1, <1>7 DEF WarningInv, n
  <2>1. PICK w \in warnings : /\ v.boundary = w.boundary /\ v.from = w.from
                              /\ v.source = IF w.boundary = a + 1 THEN p
                                            ELSE w.source
    BY <1>9
  <2>2. /\ w.boundary <= n /\ w.from = packages[w.boundary]
        /\ w.boundary <= a => w.source = w.from
    BY <1>1 DEF WarningInv, n, a
  <2>3. w.boundary \in Nat
    BY <1>2 DEF Batches, Packages
  <2>4. CASE w.boundary = a + 1
    BY <1>5, <2>1, <2>2, <2>4
  <2>5. CASE w.boundary # a + 1
    <3>1. w.boundary <= a + 1 => w.boundary <= a
      BY <1>4, <2>3, <2>5
    <3> QED BY <2>1, <2>2, <2>5, <3>1
  <2> QED BY <2>4, <2>5
<1>15. RegistryAccepts' /\ WarningsFindTheirSource'
  BY <1>1, <1>6 DEF RegistryAccepts, WarningsFindTheirSource
<1> QED BY <1>10, <1>11, <1>12, <1>13, <1>14, <1>15

-----------------------------------------------------------------------------
(* Ordering and publication keep the inductive invariant.                  *)
THEOREM Invariance == Spec => []IInv
<1>1. Init => IInv
  <2> SUFFICES ASSUME Init PROVE IInv
    OBVIOUS
  <2> USE DEF Init
  <2>1. TypeOK
    BY DEF TypeOK, Phases, Outcomes
  <2>2. Taken = {}
    BY DEF Taken, First
  <2>3. OrderInv
    BY <2>2, FS_EmptySet DEF OrderInv
  <2>4. PhaseInv /\ SweepInv /\ WalkInv
    BY DEF PhaseInv, SweepInv, WalkInv
  <2>5. RegistryInv /\ EdgeInv /\ WarningInv /\ RegistryAccepts
        /\ WarningsFindTheirSource
    BY DEF RegistryInv, EdgeInv, WarningInv, RegistryAccepts,
           WarningsFindTheirSource
  <2> QED BY <2>1, <2>3, <2>4, <2>5 DEF IInv
<1>2. IInv /\ [Next]_vars => IInv'
  <2> SUFFICES ASSUME IInv, [Next]_vars PROVE IInv'
    OBVIOUS
  <2>1. CASE Ordering
    BY <2>1, BuildKeepsInv, PopKeepsInv, EndSweepKeepsInv, WalkKeepsInv
       DEF Ordering
  <2>2. CASE Publishing
    BY <2>2, PublishKeepsInv, EndingKeepsInv, CheckOnlyKeepsInv DEF Publishing
  <2>3. CASE UNCHANGED vars
    <3>1. UNCHANGED <<deps, phase, consumers, indegree, ready, ordered, visited,
                      current, packages, providerIds, consumerIds, databases,
                      warnings, deferred, outcome>>
      BY <2>3 DEF vars
    <3>2. /\ \A n : First(n)' = First(n)
          /\ Taken' = Taken /\ Blocked' = Blocked
          /\ \A q : DependsOn(q)' = DependsOn(q)
          /\ OrderInv' = OrderInv
      BY <3>1, SweepFrame
    <3>3. TypeOK' /\ PhaseInv' /\ SweepInv' /\ OrderInv' /\ WalkInv'
      BY <3>1, <3>2 DEF IInv, TypeOK, PhaseInv, SweepInv, WalkInv
    <3>4. Attached' = Attached /\ EdgesFollowPublication' = EdgesFollowPublication
      BY <3>1 DEF Attached, EdgesFollowPublication
    <3>5. RegistryInv' /\ EdgeInv' /\ WarningInv'
      BY <3>1, <3>4 DEF IInv, RegistryInv, EdgeInv, WarningInv
    <3> QED BY <3>1, <3>3, <3>5 DEF IInv, RegistryAccepts, WarningsFindTheirSource
  <2> QED BY <2>1, <2>2, <2>3 DEF Next, Returned
<1> QED BY <1>1, <1>2, PTL DEF Spec

(* No publication is refused by the registry's own checks: neither         *)
(* preflight, nor the attachment of a database, nor                        *)
(* validate_dependency_edges ever finds something wrong.                   *)
THEOREM NothingIsRefused == Spec => []RegistryAccepts
<1>1. IInv => RegistryAccepts
  BY DEF IInv
<1> QED BY <1>1, Invariance, PTL

(* The loop's index, under which warnings are staged, is the registry id   *)
(* they are committed by: each is rendered against its package's database. *)
THEOREM WarningsRendered == Spec => []WarningsFindTheirSource
<1>1. IInv => WarningsFindTheirSource
  BY DEF IInv
<1> QED BY <1>1, Invariance, PTL

(* The package reported as circular depends on itself, and the walk that   *)
(* finds it always has a blocked provider to go to.                        *)
THEOREM WitnessIsOnCycle == Spec => []WitnessOnCycle
<1>1. IInv => WitnessOnCycle
  <2> SUFFICES ASSUME IInv PROVE WitnessOnCycle
    OBVIOUS
  <2>1. outcome = "cycle" => current \in DependsOn(current)
    BY DEF IInv, WalkInv
  <2>2. phase = "walk" => current \in Blocked /\ BlockedProviders(current) # {}
    BY BlockedHasBlockedProvider DEF IInv, WalkInv, PhaseInv
  <2> QED BY <2>1, <2>2 DEF WitnessOnCycle
<1> QED BY <1>1, Invariance, PTL

-----------------------------------------------------------------------------
(* An order of all packages holds each once, so places are well defined.   *)
LEMMA PlacesInOrder ==
    ASSUME NEW s \in DependencyOrders
    PROVE  /\ s \in [Packages -> Packages]
           /\ \A i, j \in Packages : s[i] = s[j] => i = j
           /\ \A i \in Packages : Position(s, s[i]) = i
           /\ \A p \in Packages : Position(s, p) \in Packages
                                 /\ s[Position(s, p)] = p
<1>1. /\ s \in [Packages -> Packages]
      /\ \A p \in Packages : \E i \in Packages : s[i] = p
  BY DEF DependencyOrders
<1>2. s \in Surjection(Packages, Packages)
  BY <1>1, Fun_IsSurj
<1>3. s \in Injection(Packages, Packages)
  BY <1>2, FinitePackages, FS_SurjSameCardinalityImpliesInj
<1>4. \A i, j \in Packages : s[i] = s[j] => i = j
  BY <1>3 DEF Injection, IsInjective
<1>5. Len(s) = NumPackages
  BY <1>1 DEF Packages
<1>6. 1..Len(s) = Packages
  BY <1>5 DEF Packages
<1>7. ASSUME NEW p \in Packages
      PROVE  Position(s, p) \in Packages /\ s[Position(s, p)] = p
  BY <1>1, <1>6 DEF Position
<1>8. ASSUME NEW i \in Packages PROVE Position(s, s[i]) = i
  BY <1>1, <1>4, <1>7
<1> QED BY <1>1, <1>4, <1>7, <1>8

(* A complete sweep has put every package after its providers.             *)
LEMMA OrderIsDependencyOrder ==
    ASSUME IInv, Len(ordered) = NumPackages
    PROVE  ordered \in DependencyOrders
<1> USE DEF IInv
<1>1. /\ 1..Len(ordered) = Packages
      /\ \A i, j \in Packages : ordered[i] = ordered[j] => i = j
      /\ \A i \in Packages : deps[ordered[i]] \subseteq First(i - 1)
  BY DEF OrderInv, Packages
<1>2. ordered \in [Packages -> Packages]
  BY <1>1 DEF TypeOK
<1>3. Taken = Packages
  BY TakenTyped, FinitePart DEF OrderInv
<1>4. \A p \in Packages : \E i \in Packages : ordered[i] = p
  BY <1>1, <1>3 DEF Taken, First
<1>5. \A i \in Packages : Position(ordered, ordered[i]) = i
  BY <1>1 DEF Position
<1>6. ASSUME NEW c \in Packages, NEW p \in deps[c]
      PROVE  Position(ordered, p) < Position(ordered, c)
  <2>1. PICK i \in Packages : ordered[i] = c
    BY <1>4
  <2>2. PICK j \in 1..(i - 1) : p = ordered[j]
    BY <1>1, <2>1 DEF First
  <2>3. j \in Packages /\ j < i
    BY DEF Packages
  <2> QED BY <1>5, <2>1, <2>2, <2>3
<1> QED BY <1>2, <1>4, <1>6 DEF DependencyOrders

(* The sweep takes the least package that can come next, so no dependency  *)
(* order is smaller than its own.                                          *)
LEMMA OrderIsLeast ==
    ASSUME IInv, Len(ordered) = NumPackages, NEW s \in DependencyOrders
    PROVE  ~Before(s, ordered)
<1> USE DEF IInv
<1> SUFFICES ASSUME NEW i \in Packages, s[i] < ordered[i],
                    \A j \in 1..(i - 1) : s[j] = ordered[j]
             PROVE  FALSE
  BY DEF Before
<1>1. i \in 1..Len(ordered) /\ i \in Nat
  BY DEF Packages
<1>2. \A j \in 1..(i - 1) : j \in Packages /\ j # i
  BY DEF Packages
<1>3. s[i] \in Packages
  BY PlacesInOrder
<1>4. s[i] \notin First(i - 1)
  <2> SUFFICES ASSUME NEW j \in 1..(i - 1), s[i] = ordered[j] PROVE FALSE
    BY DEF First
  <2> QED BY <1>2, PlacesInOrder
<1>5. ASSUME NEW p \in deps[s[i]] PROVE p \in First(i - 1)
  <2>1. p \in Packages
    BY <1>3 DEF TypeOK
  <2>2. Position(s, p) < Position(s, s[i])
    BY <1>3 DEF DependencyOrders
  <2>3. /\ Position(s, s[i]) = i /\ Position(s, p) \in Packages
        /\ s[Position(s, p)] = p
    BY <2>1, PlacesInOrder
  <2>4. Position(s, p) \in 1..(i - 1)
    BY <1>1, <2>2, <2>3 DEF Packages
  <2> QED BY <2>3, <2>4 DEF First
<1>6. ordered[i] <= s[i]
  BY <1>1, <1>3, <1>4, <1>5 DEF OrderInv
<1>7. ordered[i] \in Packages
  BY <1>1, TakenTyped
<1> QED BY <1>3, <1>6, <1>7 DEF Packages

(* When packages stay blocked no dependency order exists: the first        *)
(* blocked package of one would come before its blocked provider.          *)
LEMMA CycleHasNoOrder ==
    ASSUME IInv, outcome = "cycle" PROVE DependencyOrders = {}
<1> USE DEF IInv
<1> SUFFICES ASSUME NEW s \in DependencyOrders PROVE FALSE
  OBVIOUS
<1> DEFINE P == {i \in Packages : s[i] \in Blocked}
           m == Least(P)
<1>1. phase # "build" /\ ready = {} /\ current \in Blocked
  BY DEF PhaseInv, WalkInv
<1>2. P # {} /\ P \in SUBSET Packages
  <2>1. current \in Packages
    BY <1>1 DEF Blocked
  <2>2. Position(s, current) \in Packages /\ s[Position(s, current)] = current
    BY <2>1, PlacesInOrder
  <2>3. Position(s, current) \in P
    BY <1>1, <2>2
  <2> QED BY <2>3
<1>3. m \in P /\ \A n \in P : m <= n
  <2> HIDE DEF P
  <2> QED BY <1>2, LeastIsIn
<1> HIDE DEF m
<1>4. PICK q : q \in Blocked /\ q \in deps[s[m]]
  BY <1>1, <1>3, BlockedHasBlockedProvider
<1>5. q \in Packages /\ m \in Packages /\ s[m] \in Packages
  BY <1>3, <1>4, PlacesInOrder DEF Blocked
<1>6. /\ Position(s, q) \in Packages /\ s[Position(s, q)] = q
      /\ Position(s, s[m]) = m
  BY <1>5, PlacesInOrder
<1>7. Position(s, q) < m
  BY <1>4, <1>5, <1>6 DEF DependencyOrders
<1>8. m <= Position(s, q)
  BY <1>3, <1>4, <1>6
<1> QED BY <1>5, <1>6, <1>7, <1>8 DEF Packages

(* order_packages_by_dependency returns the first of all orders in which   *)
(* providers come before their consumers, and refuses packages as cyclic   *)
(* only if there is none.                                                  *)
THEOREM CanonicalOrder == Spec => []OrderIsCanonical
<1>1. IInv => OrderIsCanonical
  <2> SUFFICES ASSUME IInv PROVE OrderIsCanonical
    OBVIOUS
  <2>1. phase \in {"publish", "checkOnly"} => Len(ordered) = NumPackages
    BY DEF IInv, PhaseInv
  <2> QED BY <2>1, OrderIsDependencyOrder, OrderIsLeast, CycleHasNoOrder
          DEF OrderIsCanonical
<1> QED BY <1>1, Invariance, PTL
=============================================================================
