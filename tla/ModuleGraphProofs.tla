-------------------------- MODULE ModuleGraphProofs -------------------------
(***************************************************************************)
(* Proofs about compile_waves and the search for a module on a cycle, for  *)
(* every number of modules and every dependency graph.                     *)
(***************************************************************************)
EXTENDS ModuleGraph, FiniteSetTheorems, WellFoundedInduction, TLAPS

USE GraphAssumption DEF GraphAssumption, Phases

-----------------------------------------------------------------------------
(* A non-empty set of modules has a least one: the CHOOSE of Least, which  *)
(* stands for iteration in ModuleId order, has a value.                    *)
LEMMA LeastIsIn ==
    ASSUME NEW S \in SUBSET Modules, S # {}
    PROVE  Least(S) \in S /\ \A n \in S : Least(S) <= n
<1> DEFINE F == {1..m : m \in S}
           R == StrictSubsetOrdering(Modules)
<1>1. IsFiniteSet(Modules)
  BY FS_Interval DEF Modules
<1>2. IsWellFoundedOn(R, SUBSET Modules)
  BY <1>1, FS_StrictSubsetOrderingWellFounded, FS_FiniteSubsetsOfFinite
<1>3. F \subseteq SUBSET Modules /\ F # {}
  <2>1. ASSUME NEW m \in S PROVE 1..m \in SUBSET Modules
    BY DEF Modules
  <2> QED BY <2>1
<1>4. \E x \in F : \A y \in F : ~(<<y, x>> \in R)
  <2> HIDE DEF F, R
  <2> QED BY <1>2, <1>3, WFMin
<1>5. PICK m \in S : \A n \in S : ~(<<1..n, 1..m>> \in R)
  BY <1>4
<1>6. ASSUME NEW n \in S PROVE m <= n
  <2>1. m \in Nat /\ n \in Nat /\ m >= 1 /\ n >= 1
    BY DEF Modules
  <2>2. ASSUME n < m PROVE FALSE
    <3>1. 1..n \subseteq 1..m /\ m \notin 1..n /\ m \in 1..m
      BY <2>1, <2>2
    <3>2. 1..n \in SUBSET Modules /\ 1..m \in SUBSET Modules /\ 1..n # 1..m
      BY <2>1, <3>1 DEF Modules
    <3> QED BY <1>5, <3>1, <3>2 DEF StrictSubsetOrdering
  <2> QED BY <2>1, <2>2
<1> QED BY <1>6 DEF Least

LEMMA FiniteModules ==
    /\ IsFiniteSet(Modules)
    /\ Cardinality(Modules) = NumModules
BY FS_Interval DEF Modules

(* Every set of modules is finite, and counting it is a natural number.    *)
LEMMA FinitePart ==
    ASSUME NEW S \in SUBSET Modules
    PROVE  /\ IsFiniteSet(S)
           /\ Cardinality(S) \in 0..NumModules
           /\ Cardinality(S) = 0 <=> S = {}
           /\ Cardinality(S) = NumModules <=> S = Modules
<1>1. IsFiniteSet(S) /\ Cardinality(S) <= NumModules
      /\ (NumModules = Cardinality(S) => Modules = S)
  BY FiniteModules, FS_Subset
<1>2. Cardinality(S) \in Nat
  BY <1>1, FS_CardinalityType
<1>3. Cardinality(S) = 0 <=> S = {}
  BY <1>1, FS_EmptySet
<1> QED BY <1>1, <1>2, <1>3, FiniteModules

-----------------------------------------------------------------------------
(* The modules of the waves pushed so far.                                 *)
Placed == UNION {waves[i] : i \in 1..Len(waves)}

(* Both directions of the adjacency agree, and no module provides itself.  *)
AdjacencyInv ==
    \A p, c \in Modules :
        /\ c \in consumers[p] <=> p \in providers[c]
        /\ p \notin providers[p]

(* Before compile_waves its locals are empty.                              *)
UnsweptInv ==
    phase \in {"construction", "frozen"} => waves = <<>> /\ processed = 0

(* The sweep: a counter holds the providers that are in no wave yet, the   *)
(* ready modules are those that wait for none, and a module in a wave has  *)
(* all its providers in waves.                                             *)
SweepInv ==
    phase \notin {"construction", "frozen"} =>
        /\ \A m \in Modules : remaining[m] = Cardinality(providers[m] \ Placed)
        /\ ready = {m \in Modules \ Placed : providers[m] \subseteq Placed}

PlacedInv ==
    /\ processed = Cardinality(Placed)
    /\ \A m \in Placed : providers[m] \subseteq Placed
    /\ \A i, j \in 1..Len(waves) : i # j => waves[i] \cap waves[j] = {}
    /\ phase \in {"walk", "cycle", "ordered"} => ready = {}
    /\ phase = "ordered" => processed = NumModules

(* The walk moves along provider edges between blocked modules: from every *)
(* module it has passed, the module it is at can be reached.               *)
WalkInv ==
    /\ phase \notin {"walk", "cycle"} => visited = {}
    /\ phase \in {"walk", "cycle"} =>
         /\ current \in BlockedModules
         /\ \A v \in visited : current \in DependsOn(v)
    /\ phase = "cycle" => current \in visited

IInv ==
    /\ TypeOK /\ AdjacencyInv /\ UnsweptInv /\ SweepInv /\ PlacedInv
    /\ WavesRespectProviders /\ WalkInv

-----------------------------------------------------------------------------
(* A blocked module is one with a provider in no wave; when nothing is     *)
(* ready, all modules in no wave are blocked, and each has such a provider *)
(* to go to: project_module_graph.rs:818-842 cannot panic.                 *)
LEMMA BlockedHasBlockedProvider ==
    ASSUME IInv, phase \in {"sweep", "walk", "cycle"}, ready = {}
    PROVE  /\ BlockedModules = Modules \ Placed
           /\ \A m \in BlockedModules : providers[m] \cap BlockedModules # {}
<1> USE DEF IInv, TypeOK
<1>1. ASSUME NEW m \in Modules
      PROVE  m \in BlockedModules <=> providers[m] \ Placed # {}
  <2>1. providers[m] \ Placed \in SUBSET Modules
    OBVIOUS
  <2>2. remaining[m] = Cardinality(providers[m] \ Placed)
    BY DEF SweepInv
  <2>3. /\ Cardinality(providers[m] \ Placed) \in Nat
        /\ Cardinality(providers[m] \ Placed) = 0 <=> providers[m] \ Placed = {}
    <3> DEFINE S == providers[m] \ Placed
    <3> HIDE DEF S
    <3>1. Cardinality(S) \in Nat /\ (Cardinality(S) = 0 <=> S = {})
      BY <2>1, FinitePart DEF S
    <3> QED BY <3>1 DEF S
  <2> QED BY <2>2, <2>3 DEF BlockedModules
<1>2. ASSUME NEW m \in Modules
      PROVE  providers[m] \ Placed # {} <=> m \notin Placed
  BY DEF SweepInv, PlacedInv
<1>3. BlockedModules = Modules \ Placed
  BY <1>1, <1>2 DEF BlockedModules
<1>4. ASSUME NEW m \in BlockedModules
      PROVE  providers[m] \cap BlockedModules # {}
  <2>1. m \in Modules /\ providers[m] \ Placed # {}
    BY <1>1 DEF BlockedModules
  <2> QED BY <1>3, <2>1
<1> QED BY <1>3, <1>4

LEMMA SweepLocalsTyped ==
    ASSUME IInv PROVE Placed \in SUBSET Modules /\ IsFiniteSet(Placed)
<1>1. Placed \in SUBSET Modules
  BY DEF IInv, TypeOK, Placed
<1> QED BY <1>1, FinitePart

(* An edge, and completion of the graph: project_module_graph.rs           *)
(* add_dependency_edge.                                                    *)
LEMMA ConstructionKeepsInv ==
    ASSUME IInv,
           (\E p, c \in Modules : AddDependencyEdge(p, c)) \/ Complete
    PROVE  IInv'
<1> USE DEF IInv
<1>1. ASSUME NEW p \in Modules, NEW c \in Modules, AddDependencyEdge(p, c)
      PROVE  IInv'
  <2> USE <1>1 DEF AddDependencyEdge
  <2>1. TypeOK'
    BY DEF TypeOK
  <2>2. AdjacencyInv'
    BY DEF AdjacencyInv, TypeOK
  <2>3. waves = <<>> /\ Placed = {} /\ Placed' = {}
    BY DEF UnsweptInv, Placed
  <2>4. UnsweptInv' /\ SweepInv' /\ PlacedInv'
    BY <2>3 DEF UnsweptInv, SweepInv, PlacedInv
  <2>5. WavesRespectProviders'
    BY <2>3 DEF WavesRespectProviders
  <2>6. WalkInv'
    BY DEF WalkInv
  <2> QED BY <2>1, <2>2, <2>4, <2>5, <2>6
<1>2. CASE Complete
  <2> USE <1>2 DEF Complete
  <2>1. TypeOK' /\ AdjacencyInv' /\ UnsweptInv' /\ WavesRespectProviders'
    BY DEF TypeOK, AdjacencyInv, UnsweptInv, WavesRespectProviders, Earlier
  <2>2. Placed' = Placed
    BY DEF Placed
  <2>3. SweepInv' /\ PlacedInv' /\ WalkInv'
    BY <2>2 DEF SweepInv, PlacedInv, WalkInv
  <2> QED BY <2>1, <2>3
<1> QED BY <1>1, <1>2

(* The set-up of compile_waves.                                            *)
LEMMA StartKeepsInv ==
    ASSUME IInv, StartWaves PROVE IInv'
<1> USE DEF IInv, StartWaves
<1>1. waves = <<>> /\ Placed = {} /\ Placed' = {}
  BY DEF UnsweptInv, Placed
<1>2. \A m \in Modules : Cardinality(providers[m]) \in 0..NumModules
  BY FinitePart DEF TypeOK
<1>3. TypeOK'
  BY <1>2 DEF TypeOK
<1>4. AdjacencyInv' /\ UnsweptInv' /\ WavesRespectProviders' /\ WalkInv'
  BY <1>1 DEF AdjacencyInv, UnsweptInv, WavesRespectProviders, WalkInv
<1>5. \A m \in Modules : providers[m] \ {} = providers[m]
  OBVIOUS
<1>6. SweepInv'
  BY <1>1, <1>5 DEF SweepInv, TypeOK
<1>7. PlacedInv'
  BY <1>1 DEF PlacedInv
<1> QED BY <1>3, <1>4, <1>6, <1>7

-----------------------------------------------------------------------------
(* What pushing a wave does to the modules placed.                         *)
LEMMA PushPlaces ==
    ASSUME IInv, PushWave
    PROVE  /\ Placed' = Placed \cup ready
           /\ Placed \cap ready = {}
           /\ waves' \in Seq(SUBSET Modules)
           /\ Len(waves') = Len(waves) + 1
           /\ \A i \in 1..Len(waves) : waves'[i] = waves[i]
           /\ waves'[Len(waves) + 1] = ready
<1> USE DEF IInv
<1>1. /\ waves' \in Seq(SUBSET Modules)
      /\ Len(waves') = Len(waves) + 1 /\ Len(waves) \in Nat
      /\ \A i \in 1..Len(waves) : waves'[i] = waves[i]
      /\ waves'[Len(waves) + 1] = ready
  BY DEF PushWave, TypeOK
<1>2. Placed' = Placed \cup ready
  <2>1. ASSUME NEW m \in Placed' PROVE m \in Placed \cup ready
    <3>1. PICK i \in 1..Len(waves') : m \in waves'[i]
      BY <2>1 DEF Placed
    <3>2. CASE i = Len(waves) + 1
      BY <1>1, <3>1, <3>2
    <3>3. CASE i \in 1..Len(waves)
      BY <1>1, <3>1, <3>3 DEF Placed
    <3> QED BY <1>1, <3>2, <3>3
  <2>2. ASSUME NEW m \in Placed PROVE m \in Placed'
    <3>1. PICK i \in 1..Len(waves) : m \in waves[i]
      BY <2>2 DEF Placed
    <3>2. i \in 1..Len(waves') /\ m \in waves'[i]
      BY <1>1, <3>1
    <3> QED BY <3>2 DEF Placed
  <2>3. ASSUME NEW m \in ready PROVE m \in Placed'
    <3>1. Len(waves) + 1 \in 1..Len(waves')
      BY <1>1
    <3> QED BY <1>1, <3>1 DEF Placed
  <2> QED BY <2>1, <2>2, <2>3
<1>3. Placed \cap ready = {}
  BY DEF SweepInv, PushWave
<1> QED BY <1>1, <1>2, <1>3

(* The counters after a wave: what is taken off is what the wave provides, *)
(* so no counter underflows, and it reaches zero exactly when the last     *)
(* provider was placed: project_module_graph.rs:670-700.                   *)
LEMMA CountersFollow ==
    ASSUME IInv, PushWave, NEW c \in Modules
    PROVE  LET fewer == Cardinality({p \in ready : c \in consumers[p]})
           IN  /\ fewer \in Nat /\ fewer <= remaining[c]
               /\ remaining[c] - fewer = Cardinality(providers[c] \ Placed')
               /\ fewer > 0 <=> providers[c] \cap ready # {}
               /\ remaining[c] = fewer <=> providers[c] \subseteq Placed'
<1> USE DEF IInv
<1> DEFINE W == {p \in ready : c \in consumers[p]}
           U == providers[c] \ Placed
<1>1. W = U \cap ready /\ W = providers[c] \cap ready
  <2>1. W = providers[c] \cap ready
    BY DEF AdjacencyInv, TypeOK
  <2> QED BY <2>1, PushPlaces
<1>2. U \in SUBSET Modules /\ W \in SUBSET Modules /\ U \ ready \in SUBSET Modules
  BY <1>1 DEF TypeOK
<1>3. /\ IsFiniteSet(U) /\ Cardinality(W) \in Nat /\ Cardinality(U) \in Nat
      /\ Cardinality(W) = 0 <=> W = {}
      /\ Cardinality(U \ ready) \in Nat
      /\ Cardinality(U \ ready) = 0 <=> U \ ready = {}
  BY <1>2, FinitePart
<1>4. Cardinality(U \ ready) = Cardinality(U) - Cardinality(U \cap ready)
  BY <1>3, FS_Difference
<1>5. U \ ready = providers[c] \ Placed'
  BY PushPlaces
<1>6. remaining[c] = Cardinality(U)
  BY DEF SweepInv, PushWave
<1>7. U \ ready = {} <=> providers[c] \subseteq Placed'
  BY <1>5
<1>8. /\ Cardinality(W) <= remaining[c]
      /\ remaining[c] - Cardinality(W) = Cardinality(providers[c] \ Placed')
      /\ remaining[c] = Cardinality(W) <=> U \ ready = {}
  <2>1. Cardinality(U \ ready) = remaining[c] - Cardinality(W)
    BY <1>1, <1>4, <1>6
  <2>2. remaining[c] \in Nat
    BY <1>3, <1>6
  <2>3. \A a, b, d \in Nat : d = b - a => a <= b /\ (b = a <=> d = 0)
    OBVIOUS
  <2>4. Cardinality(W) <= remaining[c]
        /\ (remaining[c] = Cardinality(W) <=> Cardinality(U \ ready) = 0)
    <3> HIDE DEF U, W
    <3> QED BY <1>3, <2>1, <2>2, <2>3
  <2> QED BY <1>3, <1>5, <2>1, <2>4
<1>9. Cardinality(W) > 0 <=> providers[c] \cap ready # {}
  <2> HIDE DEF U, W
  <2> QED BY <1>1, <1>3
<1> QED BY <1>3, <1>7, <1>8, <1>9

(* One round of the sweep keeps the invariant.                             *)
LEMMA PushKeepsInv ==
    ASSUME IInv, PushWave PROVE IInv'
<1> USE DEF IInv
<1> DEFINE fewer(c) == Cardinality({p \in ready : c \in consumers[p]})
<1>1. /\ \A c \in Modules : remaining'[c] = remaining[c] - fewer(c)
      /\ remaining' = [c \in Modules |-> remaining[c] - fewer(c)]
      /\ ready' = {c \in Modules : fewer(c) > 0 /\ remaining[c] = fewer(c)}
      /\ UNCHANGED <<phase, providers, consumers, visited, current>>
      /\ phase = "sweep"
  BY DEF PushWave
<1>2. \A c \in Modules :
        /\ fewer(c) \in Nat /\ fewer(c) <= remaining[c]
        /\ remaining[c] - fewer(c) = Cardinality(providers[c] \ Placed')
        /\ fewer(c) > 0 <=> providers[c] \cap ready # {}
        /\ remaining[c] = fewer(c) <=> providers[c] \subseteq Placed'
  BY CountersFollow
<1> HIDE DEF fewer
<1>3. ready' = {m \in Modules \ Placed' : providers[m] \subseteq Placed'}
  <2>1. ASSUME NEW m \in Modules, providers[m] \cap ready # {}
        PROVE  m \notin Placed'
    BY <2>1, PushPlaces DEF SweepInv, PlacedInv, PushWave
  <2>2. ASSUME NEW m \in Modules \ Placed', providers[m] \subseteq Placed'
        PROVE  providers[m] \cap ready # {}
    BY <2>2, PushPlaces DEF SweepInv, PushWave
  <2> QED BY <1>1, <1>2, <2>1, <2>2
<1>4. SweepInv'
  BY <1>1, <1>2, <1>3 DEF SweepInv
<1>5. /\ Placed' \in SUBSET Modules /\ IsFiniteSet(Placed)
      /\ IsFiniteSet(ready) /\ Placed \cap ready = {}
  BY PushPlaces, SweepLocalsTyped, FinitePart DEF TypeOK
<1>6. processed' = Cardinality(Placed') /\ processed' \in 0..NumModules
  <2>1. Cardinality(Placed') = Cardinality(Placed) + Cardinality(ready)
    <3>1. Cardinality(Placed \cup ready) =
            Cardinality(Placed) + Cardinality(ready)
              - Cardinality(Placed \cap ready)
      BY <1>5, FS_Union
    <3>3. Cardinality(Placed \cap ready) = 0
      BY <1>5, FS_EmptySet
    <3>2. Cardinality(Placed) \in Nat /\ Cardinality(ready) \in Nat
      BY <1>5, FS_CardinalityType
    <3>4. Placed' = Placed \cup ready
      BY PushPlaces
    <3> QED BY <3>1, <3>2, <3>3, <3>4
  <2> QED BY <1>5, <2>1, FinitePart DEF PushWave, PlacedInv
<1>7. TypeOK'
  <2>1. remaining' \in [Modules -> 0..NumModules]
    <3>1. \A c \in Modules : remaining[c] \in 0..NumModules
      BY DEF TypeOK
    <3>2. \A c \in Modules : remaining[c] - fewer(c) \in 0..NumModules
      <4>1. \A a, b \in Nat : a <= b /\ b <= NumModules => b - a \in 0..NumModules
        OBVIOUS
      <4>2. \A c \in Modules : remaining[c] \in Nat /\ remaining[c] <= NumModules
        BY <3>1
      <4>3. \A c \in Modules : fewer(c) \in Nat /\ fewer(c) <= remaining[c]
        BY <1>2
      <4> QED BY <4>1, <4>2, <4>3
    <3> QED BY <1>1, <3>2
  <2>2. ready' \in SUBSET Modules
    BY <1>3
  <2> QED BY <1>1, <1>6, <2>1, <2>2, PushPlaces DEF TypeOK
<1>8. AdjacencyInv' /\ UnsweptInv' /\ WalkInv'
  BY <1>1 DEF AdjacencyInv, UnsweptInv, WalkInv
<1>9. \A m \in Placed' : providers'[m] \subseteq Placed'
  BY <1>1, PushPlaces DEF SweepInv, PlacedInv, PushWave
<1>10. \A i, j \in 1..Len(waves') : i # j => waves'[i] \cap waves'[j] = {}
  <2>1. \A i \in 1..Len(waves) : waves[i] \cap ready = {}
    BY PushPlaces DEF Placed
  <2>2. Len(waves) \in Nat
    BY DEF TypeOK
  <2>3. \A i \in 1..Len(waves') : i \in 1..Len(waves) \/ i = Len(waves) + 1
    BY <2>2, PushPlaces
  <2> QED BY <2>1, <2>3, PushPlaces DEF PlacedInv
<1>11. PlacedInv'
  BY <1>1, <1>6, <1>9, <1>10 DEF PlacedInv
<1>12. WavesRespectProviders'
  <2> SUFFICES ASSUME NEW i \in 1..Len(waves'), NEW c \in waves'[i],
                      NEW p \in providers[c]
               PROVE  Earlier(p, c)'
    BY <1>1 DEF WavesRespectProviders
  <2>1. Len(waves) \in Nat
    BY DEF TypeOK
  <2>2. CASE i \in 1..Len(waves)
    <3>1. Earlier(p, c)
      BY <2>2, PushPlaces DEF WavesRespectProviders
    <3>2. PICK k, l \in 1..Len(waves) :
            k < l /\ p \in waves[k] /\ c \in waves[l]
      BY <3>1 DEF Earlier
    <3>3. k \in 1..Len(waves') /\ l \in 1..Len(waves')
          /\ waves'[k] = waves[k] /\ waves'[l] = waves[l]
      BY <2>1, PushPlaces
    <3> QED BY <3>2, <3>3 DEF Earlier
  <2>3. CASE i = Len(waves) + 1
    <3>1. c \in ready /\ p \in Placed
      BY <2>3, PushPlaces DEF SweepInv, PushWave
    <3>2. PICK k \in 1..Len(waves) : p \in waves[k]
      BY <3>1 DEF Placed
    <3>3. k \in 1..Len(waves') /\ k < i /\ p \in waves'[k] /\ c \in waves'[i]
      BY <2>1, <2>3, <3>2, PushPlaces
    <3> QED BY <3>3 DEF Earlier
  <2> QED BY <2>1, <2>2, <2>3, PushPlaces
<1> QED BY <1>4, <1>7, <1>8, <1>11, <1>12

-----------------------------------------------------------------------------
(* The end of the sweep, and the cycle walk.                               *)
LEMMA EndKeepsInv ==
    ASSUME IInv, EndWaves PROVE IInv'
<1> USE DEF IInv
<1>1. Placed' = Placed
  BY DEF EndWaves, Placed
<1>2. processed < NumModules => Least(BlockedModules) \in BlockedModules
  <2> SUFFICES ASSUME processed < NumModules
               PROVE  Least(BlockedModules) \in BlockedModules
    OBVIOUS
  <2>1. Placed # Modules
    BY FiniteModules DEF PlacedInv, TypeOK
  <2>2. BlockedModules # {} /\ BlockedModules \in SUBSET Modules
    BY <2>1, BlockedHasBlockedProvider, SweepLocalsTyped DEF EndWaves, BlockedModules
  <2> QED BY <2>2, LeastIsIn
<1>3. TypeOK' /\ BlockedModules' = BlockedModules
  BY <1>2 DEF EndWaves, TypeOK, BlockedModules, Modules
<1>4. AdjacencyInv' /\ UnsweptInv' /\ WavesRespectProviders'
  BY DEF EndWaves, AdjacencyInv, UnsweptInv, WavesRespectProviders, Earlier
<1>5. SweepInv' /\ PlacedInv'
  BY <1>1 DEF EndWaves, SweepInv, PlacedInv
<1>6. WalkInv'
  BY <1>2, <1>3 DEF EndWaves, WalkInv
<1> QED BY <1>3, <1>4, <1>5, <1>6

LEMMA WalkKeepsInv ==
    ASSUME IInv, WalkOn PROVE IInv'
<1> USE DEF IInv
<1>1. Placed' = Placed /\ ready = {}
  BY DEF WalkOn, Placed, PlacedInv
<1>2. current \in Modules /\ current \in BlockedModules
  BY DEF WalkOn, WalkInv, BlockedModules
<1>3. providers[current] \cap BlockedModules # {}
  BY <1>1, <1>2, BlockedHasBlockedProvider DEF WalkOn
<1>4. current' \in providers[current] \cap BlockedModules
  <2>1. providers[current] \cap BlockedModules \in SUBSET Modules
    BY DEF BlockedModules
  <2> QED BY <1>3, <2>1, LeastIsIn DEF WalkOn
<1>5. TypeOK' /\ BlockedModules' = BlockedModules
  BY <1>2, <1>4 DEF WalkOn, TypeOK, BlockedModules, Modules
<1>6. AdjacencyInv' /\ UnsweptInv' /\ WavesRespectProviders'
  BY DEF WalkOn, AdjacencyInv, UnsweptInv, WavesRespectProviders, Earlier
<1>7. SweepInv' /\ PlacedInv'
  BY <1>1 DEF WalkOn, SweepInv, PlacedInv
<1>8. ASSUME NEW v \in visited' PROVE current' \in DependsOn(v)'
  <2> SUFFICES ASSUME NEW S \in SUBSET Modules, providers[v] \subseteq S,
                      \A q \in S : providers[q] \subseteq S
               PROVE  current' \in S
    BY <1>4 DEF DependsOn, WalkOn, BlockedModules
  <2>1. CASE v = current
    BY <1>4, <2>1
  <2>2. CASE v \in visited
    <3>1. current \in S
      BY <2>2 DEF WalkInv, WalkOn, DependsOn
    <3> QED BY <1>4, <3>1
  <2> QED BY <1>8, <2>1, <2>2 DEF WalkOn
<1>9. WalkInv'
  BY <1>4, <1>5, <1>8 DEF WalkOn, WalkInv
<1> QED BY <1>5, <1>6, <1>7, <1>9

LEMMA WalkEndKeepsInv ==
    ASSUME IInv, WalkEnds PROVE IInv'
<1> USE DEF IInv, WalkEnds
<1>1. Placed' = Placed /\ \A v : DependsOn(v)' = DependsOn(v)
  BY DEF Placed, DependsOn
<1>2. TypeOK' /\ AdjacencyInv' /\ UnsweptInv' /\ WavesRespectProviders'
  BY DEF TypeOK, AdjacencyInv, UnsweptInv, WavesRespectProviders, Earlier
<1>3. SweepInv' /\ PlacedInv'
  BY <1>1 DEF SweepInv, PlacedInv
<1>4. WalkInv'
  BY <1>1 DEF WalkInv, BlockedModules
<1> QED BY <1>2, <1>3, <1>4

-----------------------------------------------------------------------------
(* The invariant is inductive.                                             *)
THEOREM Invariance == Spec => []IInv
<1>1. Init => IInv
  <2> SUFFICES ASSUME Init PROVE IInv
    OBVIOUS
  <2>1. Placed = {}
    BY DEF Init, Placed
  <2>2. TypeOK
    BY DEF Init, TypeOK
  <2>3. PlacedInv
    BY <2>1, FS_EmptySet DEF Init, PlacedInv
  <2> QED BY <2>2, <2>3 DEF Init, IInv, AdjacencyInv, UnsweptInv, SweepInv,
             WavesRespectProviders, WalkInv
<1>2. IInv /\ [Next]_vars => IInv'
  <2> SUFFICES ASSUME IInv, [Next]_vars PROVE IInv'
    OBVIOUS
  <2>1. CASE UNCHANGED vars
    <3>1. Placed' = Placed /\ (\A v : DependsOn(v)' = DependsOn(v))
          /\ BlockedModules' = BlockedModules
      BY <2>1 DEF vars, Placed, DependsOn, BlockedModules
    <3>2. TypeOK' /\ AdjacencyInv' /\ UnsweptInv' /\ WavesRespectProviders'
      BY <2>1 DEF vars, IInv, TypeOK, AdjacencyInv, UnsweptInv,
                  WavesRespectProviders, Earlier
    <3>3. SweepInv' /\ PlacedInv' /\ WalkInv'
      BY <2>1, <3>1 DEF vars, IInv, SweepInv, PlacedInv, WalkInv
    <3> QED BY <3>2, <3>3 DEF IInv
  <2> QED BY <2>1, ConstructionKeepsInv, StartKeepsInv, PushKeepsInv,
             EndKeepsInv, WalkKeepsInv, WalkEndKeepsInv DEF Next, Returned
<1> QED BY <1>1, <1>2, PTL DEF Spec

(* In every graph a module is placed only after its providers were placed  *)
(* in earlier waves: project_module_graph.rs compile_waves.                *)
THEOREM ProvidersInEarlierWaves == Spec => []WavesRespectProviders
BY Invariance, PTL DEF IInv

(* Waves that are returned hold each module exactly once.                  *)
THEOREM WavesHoldEachModuleOnce == Spec => []WavesPartition
<1>1. IInv => WavesPartition
  <2> SUFFICES ASSUME IInv, phase = "ordered", NEW m \in Modules
               PROVE  Cardinality({i \in 1..Len(waves) : m \in waves[i]}) = 1
    BY DEF WavesPartition
  <2>1. m \in Placed
    BY SweepLocalsTyped, FinitePart DEF IInv, PlacedInv
  <2>2. PICK i \in 1..Len(waves) : m \in waves[i]
    BY <2>1 DEF Placed
  <2>3. {j \in 1..Len(waves) : m \in waves[j]} = {i}
    BY <2>2 DEF IInv, PlacedInv
  <2> QED BY <2>3, FS_Singleton
<1> QED BY <1>1, Invariance, PTL

(* The module named in the diagnostic depends on itself, and on the way to *)
(* it the walk never lacks a blocked provider: module_on_dependency_cycle. *)
THEOREM WitnessIsOnCycle == Spec => []WitnessOnCycle
<1>1. IInv => WitnessOnCycle
  <2> SUFFICES ASSUME IInv PROVE WitnessOnCycle
    OBVIOUS
  <2>1. phase = "walk" => ready = {}
    BY DEF IInv, PlacedInv
  <2> QED BY <2>1, BlockedHasBlockedProvider DEF IInv, WalkInv, WitnessOnCycle
<1> QED BY <1>1, Invariance, PTL

-----------------------------------------------------------------------------
(* The wave a module is in, once the waves are returned.                   *)
WaveOf == [m \in Modules |-> CHOOSE i \in 1..Len(waves) : m \in waves[i]]

(* What the scheduler assumes about the waves of one boundary              *)
(* (WaveCompile!WaveAssumption): each module has one wave number, the      *)
(* waves are exactly the modules with their number, and a provider's       *)
(* number is less than its consumer's.                                     *)
WavesAreNumbered ==
    phase = "ordered" =>
      /\ WaveOf \in [Modules -> 1..Len(waves)]
      /\ \A i \in 1..Len(waves) : waves[i] = {m \in Modules : WaveOf[m] = i}
      /\ \A m \in Modules : \A p \in providers[m] : WaveOf[p] < WaveOf[m]

(* Every graph that compile_waves accepts meets what the wave loop of      *)
(* compilation.rs takes for granted about its waves.                       *)
THEOREM WavesServeScheduler == Spec => []WavesAreNumbered
<1>1. IInv => WavesAreNumbered
  <2> SUFFICES ASSUME IInv, phase = "ordered"
               PROVE  /\ WaveOf \in [Modules -> 1..Len(waves)]
                      /\ \A i \in 1..Len(waves) :
                           waves[i] = {m \in Modules : WaveOf[m] = i}
                      /\ \A m \in Modules : \A p \in providers[m] :
                           WaveOf[p] < WaveOf[m]
    BY DEF WavesAreNumbered
  <2>1. /\ waves \in Seq(SUBSET Modules)
        /\ providers \in [Modules -> SUBSET Modules]
    BY DEF IInv, TypeOK
  <2>2. ASSUME NEW m \in Modules
        PROVE  WaveOf[m] \in 1..Len(waves) /\ m \in waves[WaveOf[m]]
    <3>1. m \in Placed
      BY SweepLocalsTyped, FinitePart DEF IInv, PlacedInv
    <3>2. \E i \in 1..Len(waves) : m \in waves[i]
      BY <3>1 DEF Placed
    <3> QED BY <3>2 DEF WaveOf
  <2>3. ASSUME NEW i \in 1..Len(waves), NEW m \in waves[i]
        PROVE  m \in Modules /\ WaveOf[m] = i
    <3>1. m \in Modules
      BY <2>1
    <3> QED BY <2>2, <3>1 DEF IInv, PlacedInv
  <2>4. WaveOf \in [Modules -> 1..Len(waves)]
    BY <2>2 DEF WaveOf
  <2>5. ASSUME NEW i \in 1..Len(waves)
        PROVE  waves[i] = {m \in Modules : WaveOf[m] = i}
    BY <2>2, <2>3
  <2>6. ASSUME NEW m \in Modules, NEW p \in providers[m]
        PROVE  WaveOf[p] < WaveOf[m]
    <3>1. PICK i, j \in 1..Len(waves) : i < j /\ p \in waves[i] /\ m \in waves[j]
      BY <2>2 DEF IInv, WavesRespectProviders, Earlier
    <3>2. WaveOf[p] = i /\ WaveOf[m] = j
      BY <2>3, <3>1
    <3> QED BY <3>1, <3>2
  <2> QED BY <2>4, <2>5, <2>6
<1> QED BY <1>1, Invariance, PTL
=============================================================================
