-------------------------- MODULE WaveCompileProofs --------------------------
(***************************************************************************)
(* Proofs about the wave scheduler, for every module graph, every set of   *)
(* source packages and check-only units, every threshold and allowance.    *)
(*                                                                         *)
(* The inductive invariant says where modules with and without an outcome  *)
(* can be: those of published packages have one unless that package was    *)
(* cut off; those of the boundary at hand have one exactly up to the wave  *)
(* at hand; later boundaries have none.  With the fact that a cutoff       *)
(* implies an exhausted budget, and that the budget stays exhausted, this  *)
(* rules out each of the scheduler's internal errors.                      *)
(***************************************************************************)
EXTENDS WaveCompile, TLAPS

(* What a recorded stop, and an error count, imply.                        *)
BudgetInv ==
    /\ CutoffFlag \in stopped => Exhausted
    /\ AllowanceFlag \in stopped => charged > 0
    /\ \A m \in Modules : retained[m] <= charged
    /\ dropped # {} => Exhausted
    /\ cutoff # {} => Exhausted
    /\ pc \in {"classify", "admit"} => cutoff = {}
    /\ charged = 0 \/ erring # {} \/ \E m \in Modules : slot[m] = "diagnosed"

(* Which packages are published.                                           *)
OrderInv ==
    /\ published \subseteq 1..(boundary - 1)
    /\ (pc \in {"classify", "admit"} \/ boundary # Project \/ ~Exhausted)
         => published = 1..(boundary - 1)
    /\ pc = "packageUnits" /\ ~Exhausted => boundary = Project
    /\ pc = "units" => boundary = Project

(* Where the modules with an outcome are.                                  *)
Visited(m) == slot[m] # "unavailable"

VisitInv ==
    /\ \A m \in Modules : Visited(m) =>
         \/ BoundaryOf[m] \in published
         \/ BoundaryOf[m] = boundary /\ pc \notin {"open", "packageUnits"}
    /\ \A m \in Modules : BoundaryOf[m] \in published =>
         Visited(m) \/ BoundaryOf[m] \in cutoff
    /\ pc = "classify" => \A m \in Modules : BoundaryOf[m] = boundary =>
         (Visited(m) <=> WaveOf[m] < wave)
    /\ pc = "admit" => \A m \in Modules : BoundaryOf[m] = boundary =>
         (Visited(m) <=> WaveOf[m] <= wave /\ m \notin ready)
    /\ pc = "admit" => ready \subseteq Wave
    /\ pc \in {"units", "finish"} =>
         \/ boundary \in cutoff
         \/ \A m \in Modules : BoundaryOf[m] = boundary => Visited(m)

(* The package lane visits units of published packages only.               *)
LaneInv ==
    pc = "packageUnits" => \A u \in units : BoundaryOf[OwnerOf[u]] \in published

ProvidersCompiled(m) ==
    /\ \A p \in Providers[m] : slot[p] = "successful"
    /\ \A b \in Packages[m] : slot[RootOf[b]] = "successful"

ProviderInv ==
    /\ SuccessNeedsProviders
    /\ pc = "admit" => \A m \in ready : ProvidersCompiled(m)

OutcomeInv ==
    /\ pc # "done" => outcome = "none"
    /\ NoInternalError
    /\ SuccessIsComplete

IInv ==
    /\ TypeOK
    /\ BudgetInv
    /\ OrderInv
    /\ VisitInv
    /\ LaneInv
    /\ BlockedIsExplained
    /\ ProviderInv
    /\ OutcomeInv

-----------------------------------------------------------------------------
(* Reading the sets of slots element by element.                           *)
LEMMA SlotsSeenIff ==
    ASSUME NEW mods, NEW bs, NEW x
    PROVE  x \in SlotsSeen(mods, bs) <=>
             \/ \E p \in mods : slot[p] = x
             \/ \E b \in bs : slot[RootOf[b]] = x
  BY DEF SlotsSeen

LEMMA UnreadyIff ==
    ASSUME NEW m
    PROVE  Unready(m) <=>
             \/ \E p \in Providers[m] : ~Visited(p)
             \/ \E b \in Packages[m] : ~Visited(RootOf[b])
  BY SlotsSeenIff DEF Unready, Visited

LEMMA BlockedIff ==
    ASSUME NEW m
    PROVE  Blocked(m) <=>
             \/ \E p \in Providers[m] : slot[p] \in Failed
             \/ \E b \in Packages[m] : slot[RootOf[b]] \in Failed
  BY SlotsSeenIff DEF Blocked

LEMMA Sizes ==
    /\ Boundaries \in Nat /\ Boundaries >= 1 /\ Project = Boundaries
    /\ LastWave \in Nat /\ LastWave >= 1
    /\ MaxErrors \in Nat
    /\ BoundaryOf \in [Modules -> 1..Boundaries]
    /\ WaveOf \in [Modules -> 1..LastWave]
    /\ OwnerOf \in [Units -> Modules]
  BY WaveAssumption DEF WaveAssumption, Project

LEMMA FlagsDiffer == CutoffFlag # AllowanceFlag
  BY DEF CutoffFlag, AllowanceFlag

LEMMA ProviderShape ==
    ASSUME NEW m \in Modules
    PROVE  /\ \A p \in Providers[m] :
                p \in Modules /\ BoundaryOf[p] = BoundaryOf[m]
                /\ WaveOf[p] < WaveOf[m]
           /\ \A b \in Packages[m] :
                /\ b \in 1..Boundaries /\ b < BoundaryOf[m]
                /\ RootOf[b] \in Modules /\ BoundaryOf[RootOf[b]] = b
  BY WaveAssumption DEF WaveAssumption

LEMMA UnitsOfType ==
    ASSUME TypeOK, NEW bs
    PROVE  UnitsOf(bs) \in SUBSET Units
  BY DEF TypeOK, UnitsOf

-----------------------------------------------------------------------------
(* None of the internal errors is reachable.                               *)

(* Every provider of a module of the wave has its outcome.                 *)
LEMMA WaveIsReady ==
    ASSUME IInv, pc = "classify", NEW m \in Wave
    PROVE  ~Unready(m)
  <1>1. m \in Modules /\ BoundaryOf[m] = boundary /\ WaveOf[m] = wave
    BY DEF Wave
  <1>2. \A p \in Providers[m] : Visited(p)
    BY <1>1, ProviderShape DEF IInv, VisitInv
  <1>3. \A b \in Packages[m] : Visited(RootOf[b])
    <2> SUFFICES ASSUME NEW b \in Packages[m] PROVE Visited(RootOf[b])
      OBVIOUS
    <2>1. b \in published
      BY <1>1, ProviderShape, Sizes DEF IInv, OrderInv, TypeOK
    <2>2. cutoff = {}
      BY DEF IInv, BudgetInv
    <2> QED
      BY <1>1, <2>1, <2>2, ProviderShape DEF IInv, VisitInv
  <1> QED
    BY <1>2, <1>3, UnreadyIff

(* With the budget open every package is published and every module a      *)
(* check-only unit can see has its outcome.                                *)
LEMMA OnlyExhaustedRefuses ==
    ASSUME IInv, NEW u \in Units, InUnitLane, u \in units, ~Exhausted
    PROVE  ~UnitUnready(u)
  <1>1. boundary = Project /\ published = 1..(Boundaries - 1) /\ cutoff = {}
    BY Sizes DEF IInv, OrderInv, BudgetInv, InUnitLane
  <1>2. \A m \in Modules : BoundaryOf[m] \in published => Visited(m)
    BY <1>1 DEF IInv, VisitInv
  <1>3. \A p \in UnitProviders[u] :
          p \in Modules /\ BoundaryOf[p] = BoundaryOf[OwnerOf[u]]
    BY WaveAssumption DEF WaveAssumption
  <1>4. \A b \in UnitPackages[u] :
          b \in published /\ RootOf[b] \in Modules /\ BoundaryOf[RootOf[b]] = b
    BY <1>1, WaveAssumption DEF WaveAssumption
  <1>5. \A p \in UnitProviders[u] : Visited(p)
    <2>1. CASE pc = "packageUnits"
      BY <2>1, <1>2, <1>3 DEF IInv, LaneInv
    <2>2. CASE pc = "units"
      <3>1. \A m \in Modules : BoundaryOf[m] = Project => Visited(m)
        BY <2>2, <1>1 DEF IInv, VisitInv
      <3> QED
        BY <3>1, <1>1, <1>2, <1>3, Sizes
    <2> QED
      BY <2>1, <2>2 DEF InUnitLane
  <1> QED
    BY <1>2, <1>4, <1>5, SlotsSeenIff DEF UnitUnready, Visited

LEMMA SlotsOfIff ==
    ASSUME NEW bs, NEW x
    PROVE  x \in SlotsOf(bs) <=>
             \E m \in Modules : BoundaryOf[m] \in bs /\ slot[m] = x
  BY DEF SlotsOf, ModulesOf

(* A boundary that comes to its end is complete.                           *)
LEMMA FinishedIsComplete ==
    ASSUME IInv, pc = "finish"
    PROVE  BoundaryComplete
  <1>1. ASSUME "blocked" \in SlotsOf({boundary})
        PROVE  "diagnosed" \in SlotsOf(published \cup {boundary})
    <2>1. PICK m \in Modules : BoundaryOf[m] = boundary /\ slot[m] = "blocked"
      BY <1>1, SlotsOfIff
    <2>2. PICK d \in Modules : slot[d] = "diagnosed"
      BY <2>1 DEF IInv, BlockedIsExplained
    <2>3. BoundaryOf[d] \in published \cup {boundary}
      BY <2>2 DEF IInv, VisitInv, Visited
    <2> QED
      BY <2>2, <2>3, SlotsOfIff
  <1>2. ASSUME "unavailable" \in SlotsOf({boundary})
        PROVE  boundary \in cutoff
    BY <1>2, SlotsOfIff DEF IInv, VisitInv, Visited
  <1>3. boundary \in cutoff => charged > 0
    BY WaveAssumption DEF WaveAssumption, IInv, BudgetInv, Exhausted, TypeOK
  <1> QED
    BY <1>1, <1>2, <1>3 DEF BoundaryComplete

(* What passes the gate is complete.                                       *)
LEMMA GateIsSound ==
    ASSUME IInv, pc = "finish", boundary = Project, ~HasDiagnosedOrBlocked
    PROVE  /\ AllSuccessful
           /\ charged = 0 /\ dropped = {} /\ stopped = {}
           /\ published = 1..(Boundaries - 1)
           /\ \A m \in Modules : slot[m] = "successful"
  <1>1. erring = {} /\ cutoff \cap (published \cup {Project}) = {}
    BY DEF HasDiagnosedOrBlocked
  <1>2. \A m \in Modules : BoundaryOf[m] \in published \cup {Project} =>
          slot[m] \notin Failed
    BY SlotsOfIff DEF HasDiagnosedOrBlocked
  <1>3. \A m \in Modules : slot[m] # "diagnosed"
    BY <1>2 DEF IInv, VisitInv, Visited, Failed
  <1>4. charged = 0
    BY <1>1, <1>3 DEF IInv, BudgetInv
  <1>5. ~Exhausted
    BY <1>4, WaveAssumption DEF WaveAssumption, Exhausted, IInv, TypeOK
  <1>6. dropped = {} /\ stopped = {} /\ cutoff = {}
    BY <1>4, <1>5 DEF IInv, BudgetInv, TypeOK
  <1>7. published = 1..(Boundaries - 1)
    BY <1>5, Sizes DEF IInv, OrderInv
  <1>8. \A m \in Modules : BoundaryOf[m] \in published \cup {Project}
    BY <1>7, Sizes
  <1>9. \A m \in Modules : Visited(m)
    BY <1>6, <1>8 DEF IInv, VisitInv
  <1>10. \A m \in Modules : slot[m] = "successful"
    BY <1>2, <1>8, <1>9 DEF IInv, TypeOK, Slots, Failed, Visited
  <1>11. AllSuccessful
    BY <1>1, <1>10, SlotsOfIff DEF AllSuccessful
  <1> QED
    BY <1>4, <1>6, <1>7, <1>10, <1>11

-----------------------------------------------------------------------------
(* One lemma per action: the invariant is kept.                            *)

LEMMA OpenBoundaryKeeps ==
    ASSUME IInv, OpenBoundary
    PROVE  IInv'
  <1>1. TypeOK'
    <2>1. pc' \in PCs /\ wave' \in 1..LastWave
      BY Sizes DEF OpenBoundary, PCs
    <2>2. units' \in SUBSET Units
      BY UnitsOfType DEF IInv, TypeOK, OpenBoundary
    <2>3. cutoff' \in SUBSET (1..Boundaries)
      <3>1. cutoff' = cutoff \/ cutoff' = cutoff \cup {Boundaries}
        BY Sizes DEF OpenBoundary
      <3>2. Boundaries \in 1..Boundaries
        BY Sizes
      <3> QED
        BY <3>1, <3>2 DEF IInv, TypeOK
    <2>4. stopped' \in SUBSET {CutoffFlag, AllowanceFlag}
      BY DEF IInv, TypeOK, OpenBoundary, Refuse
    <2> QED
      BY <2>1, <2>2, <2>3, <2>4 DEF IInv, TypeOK, config, OpenBoundary
  <1>2. BudgetInv'
    BY FlagsDiffer DEF IInv, config, BudgetInv, Exhausted, OpenBoundary, Refuse
  <1>3. OrderInv'
    BY Sizes DEF IInv, TypeOK, config, OrderInv, Exhausted, OpenBoundary,
       Refuse, PCs, Outcomes
  <1>4. VisitInv'
    <2>1. \A m \in Modules : BoundaryOf[m] = boundary => ~Visited(m)
      BY Sizes DEF IInv, TypeOK, OrderInv, VisitInv, OpenBoundary
    <2>2. \A m \in Modules : ~(WaveOf[m] < 1)
      BY Sizes
    <2> QED
      BY <2>1, <2>2 DEF IInv, VisitInv, Visited, Wave, OpenBoundary
  <1>5. LaneInv'
    BY Sizes DEF IInv, TypeOK, config, LaneInv, UnitsOf, OpenBoundary,
       Refuse, PCs, Outcomes
  <1>6. BlockedIsExplained'
    BY Sizes DEF IInv, TypeOK, config, BlockedIsExplained, OpenBoundary,
       Refuse, PCs, Outcomes
  <1>7. ProviderInv'
    BY Sizes, ProviderShape DEF IInv, TypeOK, config, ProviderInv,
       SuccessNeedsProviders, ProvidersCompiled, OpenBoundary, Refuse,
       PCs, Outcomes
  <1>8. OutcomeInv'
    BY Sizes DEF IInv, TypeOK, config, OutcomeInv, NoInternalError,
       SuccessIsComplete, OpenBoundary, Refuse, PCs, Outcomes
  <1> QED
    BY <1>1, <1>2, <1>3, <1>4, <1>5, <1>6, <1>7, <1>8 DEF IInv

LEMMA RefuseJobKeeps ==
    ASSUME IInv, RefuseJob
    PROVE  IInv'
  <1>1. TypeOK'
    BY Sizes, UnitsOfType DEF IInv, TypeOK, config, RefuseJob, Refuse,
       AfterWaves, PCs
  <1>2. BudgetInv'
    BY FlagsDiffer DEF IInv, config, BudgetInv, Exhausted, RefuseJob, Refuse,
       AfterWaves
  <1>3. OrderInv'
    BY Sizes DEF IInv, TypeOK, config, OrderInv, Exhausted, RefuseJob,
       Refuse, AfterWaves, PCs
  <1>4. VisitInv'
    BY Sizes DEF IInv, TypeOK, config, VisitInv, Visited, Wave, RefuseJob,
       Refuse, AfterWaves, PCs
  <1>5. LaneInv'
    BY Sizes DEF IInv, TypeOK, config, LaneInv, UnitsOf, RefuseJob,
       Refuse, AfterWaves, PCs
  <1>6. BlockedIsExplained'
    BY Sizes DEF IInv, TypeOK, config, BlockedIsExplained, RefuseJob,
       Refuse, AfterWaves, PCs
  <1>7. ProviderInv'
    BY Sizes, ProviderShape DEF IInv, TypeOK, config, ProviderInv,
       SuccessNeedsProviders, ProvidersCompiled, RefuseJob, Refuse,
       AfterWaves, PCs
  <1>8. OutcomeInv'
    BY Sizes DEF IInv, TypeOK, config, OutcomeInv, NoInternalError,
       SuccessIsComplete, RefuseJob, Refuse, AfterWaves, PCs
  <1> QED
    BY <1>1, <1>2, <1>3, <1>4, <1>5, <1>6, <1>7, <1>8 DEF IInv

LEMMA CompileSucceedsKeeps ==
    ASSUME NEW m \in Modules, IInv, CompileSucceeds(m)
    PROVE  IInv'
  <1>0. slot[m] = "unavailable"
    BY Sizes DEF IInv, TypeOK, VisitInv, Visited, Wave, CompileSucceeds, Admit
  <1>1. TypeOK'
    BY <1>0, Sizes, UnitsOfType DEF IInv, TypeOK, config, CompileSucceeds,
       Admit, Slots
  <1>2. BudgetInv'
    BY <1>0 DEF IInv, TypeOK, config, BudgetInv, Exhausted, CompileSucceeds,
           Admit
  <1>3. OrderInv'
    BY <1>0, Sizes DEF IInv, TypeOK, config, OrderInv, Exhausted,
       CompileSucceeds, Admit, Slots
  <1>4. VisitInv'
    BY <1>0, Sizes DEF IInv, TypeOK, config, VisitInv, Visited, Wave,
       CompileSucceeds, Admit, Slots
  <1>5. LaneInv'
    BY <1>0, Sizes DEF IInv, TypeOK, config, LaneInv, UnitsOf,
       CompileSucceeds, Admit, Slots
  <1>6. BlockedIsExplained'
    BY <1>0 DEF IInv, TypeOK, BlockedIsExplained, CompileSucceeds
  <1>7. ProviderInv'
    BY <1>0, Sizes, ProviderShape DEF IInv, TypeOK, config, ProviderInv,
       SuccessNeedsProviders, ProvidersCompiled, CompileSucceeds, Admit,
       Slots
  <1>8. OutcomeInv'
    BY <1>0, Sizes DEF IInv, TypeOK, config, OutcomeInv, NoInternalError,
       SuccessIsComplete, CompileSucceeds, Admit, Slots
  <1> QED
    BY <1>1, <1>2, <1>3, <1>4, <1>5, <1>6, <1>7, <1>8 DEF IInv

LEMMA CompileDiagnosesKeeps ==
    ASSUME NEW m \in Modules, NEW errors \in 1..MaxErrors, IInv, CompileDiagnoses(m, errors)
    PROVE  IInv'
  <1>0. slot[m] = "unavailable"
    BY Sizes DEF IInv, TypeOK, VisitInv, Visited, Wave, CompileDiagnoses, Admit
  <1>1. TypeOK'
    BY <1>0, Sizes, UnitsOfType DEF IInv, TypeOK, config,
       CompileDiagnoses, Admit, Slots
  <1>2. BudgetInv'
    BY <1>0, Sizes DEF IInv, TypeOK, config, BudgetInv, Exhausted,
       CompileDiagnoses, Admit, Slots
  <1>3. OrderInv'
    BY <1>0, Sizes DEF IInv, TypeOK, config, OrderInv, Exhausted,
       CompileDiagnoses, Admit, Slots
  <1>4. VisitInv'
    BY <1>0, Sizes DEF IInv, TypeOK, config, VisitInv, Visited, Wave,
       CompileDiagnoses, Admit, Slots
  <1>5. LaneInv'
    BY <1>0, Sizes DEF IInv, TypeOK, config, LaneInv, UnitsOf,
       CompileDiagnoses, Admit, Slots
  <1>6. BlockedIsExplained'
    BY <1>0, Sizes DEF IInv, TypeOK, config, BlockedIsExplained,
       CompileDiagnoses, Admit, Slots
  <1>7. ProviderInv'
    <2>1. /\ slot' = [slot EXCEPT ![m] = "diagnosed"] /\ slot \in [Modules -> Slots]
          /\ pc' = pc /\ ready' = ready \ {m} /\ ready \in SUBSET Modules
      BY DEF IInv, TypeOK, CompileDiagnoses, Admit
    <2>2. \A n \in Modules : slot[n] = "successful" <=> slot'[n] = "successful"
      BY <1>0, <2>1
    <2>3. \A n \in Modules : ProvidersCompiled(n) => ProvidersCompiled(n)'
      BY <2>2, ProviderShape DEF ProvidersCompiled
    <2>4. /\ \A n \in Modules : slot[n] = "successful" => ProvidersCompiled(n)
          /\ pc = "admit" => \A n \in ready : ProvidersCompiled(n)
      BY DEF IInv, ProviderInv, SuccessNeedsProviders, ProvidersCompiled
    <2> QED BY <2>1, <2>2, <2>3, <2>4
            DEF ProviderInv, SuccessNeedsProviders, ProvidersCompiled
  <1>8. OutcomeInv'
    BY <1>0, Sizes DEF IInv, TypeOK, config, OutcomeInv, NoInternalError,
       SuccessIsComplete, CompileDiagnoses, Admit, Slots
  <1> QED
    BY <1>1, <1>2, <1>3, <1>4, <1>5, <1>6, <1>7, <1>8 DEF IInv

LEMMA CompileBreaksKeeps ==
    ASSUME NEW m \in Modules, IInv, CompileBreaks(m)
    PROVE  IInv'
  <1>1. TypeOK'
    BY Sizes, UnitsOfType DEF IInv, TypeOK, config, CompileBreaks, Admit,
       Stop, PCs, Outcomes
  <1>2. BudgetInv'
    BY Sizes DEF IInv, TypeOK, config, BudgetInv, Exhausted,
       CompileBreaks, Admit, Stop, PCs, Outcomes
  <1>3. OrderInv'
    BY Sizes DEF IInv, TypeOK, config, OrderInv, Exhausted, CompileBreaks,
       Admit, Stop, PCs, Outcomes
  <1>4. VisitInv'
    BY Sizes DEF IInv, TypeOK, config, VisitInv, Visited, Wave,
       CompileBreaks, Admit, Stop, PCs, Outcomes
  <1>5. LaneInv'
    BY Sizes DEF IInv, TypeOK, config, LaneInv, UnitsOf, CompileBreaks,
       Admit, Stop, PCs, Outcomes
  <1>6. BlockedIsExplained'
    BY Sizes DEF IInv, TypeOK, config, BlockedIsExplained, CompileBreaks,
       Admit, Stop, PCs, Outcomes
  <1>7. ProviderInv'
    BY Sizes, ProviderShape DEF IInv, TypeOK, config, ProviderInv,
       SuccessNeedsProviders, ProvidersCompiled, CompileBreaks, Admit,
       Stop, PCs, Outcomes
  <1>8. OutcomeInv'
    BY Sizes DEF IInv, TypeOK, config, OutcomeInv, NoInternalError,
       SuccessIsComplete, CompileBreaks, Admit, Stop, PCs, Outcomes
  <1> QED
    BY <1>1, <1>2, <1>3, <1>4, <1>5, <1>6, <1>7, <1>8 DEF IInv

LEMMA NextWaveKeeps ==
    ASSUME IInv, NextWave
    PROVE  IInv'
  <1>1. TypeOK'
    BY Sizes, UnitsOfType DEF IInv, TypeOK, config, NextWave, AfterWaves,
       PCs
  <1>2. BudgetInv'
    BY Sizes DEF IInv, TypeOK, config, BudgetInv, Exhausted, NextWave,
       AfterWaves, PCs
  <1>3. OrderInv'
    BY Sizes DEF IInv, TypeOK, config, OrderInv, Exhausted, NextWave,
       AfterWaves, PCs
  <1>4. VisitInv'
    BY Sizes DEF IInv, TypeOK, config, VisitInv, Visited, Wave, NextWave,
       AfterWaves, PCs
  <1>5. LaneInv'
    BY Sizes DEF IInv, TypeOK, config, LaneInv, UnitsOf, NextWave,
       AfterWaves, PCs
  <1>6. BlockedIsExplained'
    BY Sizes DEF IInv, TypeOK, config, BlockedIsExplained, NextWave,
       AfterWaves, PCs
  <1>7. ProviderInv'
    BY Sizes, ProviderShape DEF IInv, TypeOK, config, ProviderInv,
       SuccessNeedsProviders, ProvidersCompiled, NextWave, AfterWaves, PCs
  <1>8. OutcomeInv'
    BY Sizes DEF IInv, TypeOK, config, OutcomeInv, NoInternalError,
       SuccessIsComplete, NextWave, AfterWaves, PCs
  <1> QED
    BY <1>1, <1>2, <1>3, <1>4, <1>5, <1>6, <1>7, <1>8 DEF IInv

LEMMA SkipUnitKeeps ==
    ASSUME NEW u \in Units, IInv, SkipUnit(u)
    PROVE  IInv'
  <1>1. TypeOK'
    BY Sizes, UnitsOfType DEF IInv, TypeOK, config, SkipUnit, VisitUnit,
       InUnitLane
  <1>2. BudgetInv'
    <2>1. OwnerOf[u] \in Modules
      BY Sizes
    <2>2. AllowanceSpent(OwnerOf[u]) => charged > 0
      BY <2>1, WaveAssumption DEF WaveAssumption, IInv, TypeOK, BudgetInv,
         AllowanceSpent
    <2> QED
      BY <2>2, FlagsDiffer DEF IInv, BudgetInv, config, Exhausted, SkipUnit,
         VisitUnit, InUnitLane
  <1>3. OrderInv'
    BY Sizes DEF IInv, TypeOK, config, OrderInv, Exhausted, SkipUnit,
       VisitUnit, InUnitLane
  <1>4. VisitInv'
    BY Sizes DEF IInv, TypeOK, config, VisitInv, Visited, Wave, SkipUnit,
       VisitUnit, InUnitLane
  <1>5. LaneInv'
    BY Sizes DEF IInv, TypeOK, config, LaneInv, UnitsOf, SkipUnit,
       VisitUnit, InUnitLane
  <1>6. BlockedIsExplained'
    BY Sizes DEF IInv, TypeOK, config, BlockedIsExplained, SkipUnit,
       VisitUnit, InUnitLane
  <1>7. ProviderInv'
    BY Sizes, ProviderShape DEF IInv, TypeOK, config, ProviderInv,
       SuccessNeedsProviders, ProvidersCompiled, SkipUnit, VisitUnit,
       InUnitLane
  <1>8. OutcomeInv'
    BY Sizes DEF IInv, TypeOK, config, OutcomeInv, NoInternalError,
       SuccessIsComplete, SkipUnit, VisitUnit, InUnitLane
  <1> QED
    BY <1>1, <1>2, <1>3, <1>4, <1>5, <1>6, <1>7, <1>8 DEF IInv

LEMMA CompileUnitKeeps ==
    ASSUME NEW u \in Units, NEW errors \in 0..MaxErrors, IInv, CompileUnit(u, errors)
    PROVE  IInv'
  <1>1. TypeOK'
    BY Sizes, UnitsOfType DEF IInv, TypeOK, config, CompileUnit,
       AdmitUnit, VisitUnit, InUnitLane
  <1>2. BudgetInv'
    BY Sizes DEF IInv, TypeOK, config, BudgetInv, Exhausted, CompileUnit,
       AdmitUnit, VisitUnit, InUnitLane
  <1>3. OrderInv'
    BY Sizes DEF IInv, TypeOK, config, OrderInv, Exhausted, CompileUnit,
       AdmitUnit, VisitUnit, InUnitLane
  <1>4. VisitInv'
    BY Sizes DEF IInv, TypeOK, config, VisitInv, Visited, Wave,
       CompileUnit, AdmitUnit, VisitUnit, InUnitLane
  <1>5. LaneInv'
    BY Sizes DEF IInv, TypeOK, config, LaneInv, UnitsOf, CompileUnit,
       AdmitUnit, VisitUnit, InUnitLane
  <1>6. BlockedIsExplained'
    BY Sizes DEF IInv, TypeOK, config, BlockedIsExplained, CompileUnit,
       AdmitUnit, VisitUnit, InUnitLane
  <1>7. ProviderInv'
    BY Sizes, ProviderShape DEF IInv, TypeOK, config, ProviderInv,
       SuccessNeedsProviders, ProvidersCompiled, CompileUnit, AdmitUnit,
       VisitUnit, InUnitLane
  <1>8. OutcomeInv'
    BY Sizes DEF IInv, TypeOK, config, OutcomeInv, NoInternalError,
       SuccessIsComplete, CompileUnit, AdmitUnit, VisitUnit, InUnitLane
  <1> QED
    BY <1>1, <1>2, <1>3, <1>4, <1>5, <1>6, <1>7, <1>8 DEF IInv

LEMMA UnitBreaksKeeps ==
    ASSUME NEW u \in Units, IInv, UnitBreaks(u)
    PROVE  IInv'
  <1>1. TypeOK'
    BY Sizes, UnitsOfType DEF IInv, TypeOK, config, UnitBreaks, AdmitUnit,
       VisitUnit, InUnitLane, Stop, PCs, Outcomes
  <1>2. BudgetInv'
    BY Sizes DEF IInv, TypeOK, config, BudgetInv, Exhausted, UnitBreaks,
       AdmitUnit, VisitUnit, InUnitLane, Stop, PCs, Outcomes
  <1>3. OrderInv'
    BY Sizes DEF IInv, TypeOK, config, OrderInv, Exhausted, UnitBreaks,
       AdmitUnit, VisitUnit, InUnitLane, Stop, PCs, Outcomes
  <1>4. VisitInv'
    BY Sizes DEF IInv, TypeOK, config, VisitInv, Visited, Wave,
       UnitBreaks, AdmitUnit, VisitUnit, InUnitLane, Stop, PCs, Outcomes
  <1>5. LaneInv'
    BY Sizes DEF IInv, TypeOK, config, LaneInv, UnitsOf, UnitBreaks,
       AdmitUnit, VisitUnit, InUnitLane, Stop, PCs, Outcomes
  <1>6. BlockedIsExplained'
    BY Sizes DEF IInv, TypeOK, config, BlockedIsExplained, UnitBreaks,
       AdmitUnit, VisitUnit, InUnitLane, Stop, PCs, Outcomes
  <1>7. ProviderInv'
    BY Sizes, ProviderShape DEF IInv, TypeOK, config, ProviderInv,
       SuccessNeedsProviders, ProvidersCompiled, UnitBreaks, AdmitUnit,
       VisitUnit, InUnitLane, Stop, PCs, Outcomes
  <1>8. OutcomeInv'
    BY Sizes DEF IInv, TypeOK, config, OutcomeInv, NoInternalError,
       SuccessIsComplete, UnitBreaks, AdmitUnit, VisitUnit, InUnitLane,
       Stop, PCs, Outcomes
  <1> QED
    BY <1>1, <1>2, <1>3, <1>4, <1>5, <1>6, <1>7, <1>8 DEF IInv

LEMMA UnitsDoneKeeps ==
    ASSUME IInv, UnitsDone
    PROVE  IInv'
  <1>1. TypeOK'
    BY Sizes, UnitsOfType DEF IInv, TypeOK, config, UnitsDone, InUnitLane,
       PCs
  <1>2. BudgetInv'
    BY Sizes DEF IInv, TypeOK, config, BudgetInv, Exhausted, UnitsDone,
       InUnitLane, PCs
  <1>3. OrderInv'
    BY Sizes DEF IInv, TypeOK, config, OrderInv, Exhausted, UnitsDone,
       InUnitLane, PCs
  <1>4. VisitInv'
    BY Sizes DEF IInv, TypeOK, config, VisitInv, Visited, Wave, UnitsDone,
       InUnitLane, PCs
  <1>5. LaneInv'
    BY Sizes DEF IInv, TypeOK, config, LaneInv, UnitsOf, UnitsDone,
       InUnitLane, PCs
  <1>6. BlockedIsExplained'
    BY Sizes DEF IInv, TypeOK, config, BlockedIsExplained, UnitsDone,
       InUnitLane, PCs
  <1>7. ProviderInv'
    BY Sizes, ProviderShape DEF IInv, TypeOK, config, ProviderInv,
       SuccessNeedsProviders, ProvidersCompiled, UnitsDone, InUnitLane,
       PCs
  <1>8. OutcomeInv'
    BY Sizes DEF IInv, TypeOK, config, OutcomeInv, NoInternalError,
       SuccessIsComplete, UnitsDone, InUnitLane, PCs
  <1> QED
    BY <1>1, <1>2, <1>3, <1>4, <1>5, <1>6, <1>7, <1>8 DEF IInv

LEMMA RefuseUnitKeeps ==
    ASSUME NEW u \in Units, IInv, RefuseUnit(u)
    PROVE  IInv'
  <1>0. Exhausted
    BY OnlyExhaustedRefuses DEF RefuseUnit, VisitUnit
  <1>1. TypeOK'
    <2>1. cutoff' \in SUBSET (1..Boundaries)
      <3>1. cutoff' = cutoff \/ cutoff' = cutoff \cup {Boundaries}
        BY <1>0, Sizes DEF RefuseUnit
      <3>2. Boundaries \in 1..Boundaries
        BY Sizes
      <3> QED
        BY <3>1, <3>2 DEF IInv, TypeOK
    <2>2. stopped' \in SUBSET {CutoffFlag, AllowanceFlag}
      BY <1>0 DEF IInv, TypeOK, RefuseUnit, Refuse
    <2>3. units' \in SUBSET Units /\ dropped' \in SUBSET Units
      BY <1>0 DEF IInv, TypeOK, RefuseUnit
    <2> QED
      BY <1>0, <2>1, <2>2, <2>3
         DEF IInv, TypeOK, config, RefuseUnit, VisitUnit
  <1>2. BudgetInv'
    BY <1>0, FlagsDiffer DEF IInv, config, BudgetInv, Exhausted, RefuseUnit,
       Refuse, VisitUnit, InUnitLane
  <1>3. OrderInv'
    BY <1>0, Sizes DEF IInv, TypeOK, config, OrderInv, Exhausted,
       RefuseUnit, Refuse, VisitUnit, InUnitLane, Stop, PCs, Outcomes
  <1>4. VisitInv'
    BY <1>0, Sizes DEF IInv, TypeOK, config, VisitInv, Visited, Wave,
       RefuseUnit, Refuse, VisitUnit, InUnitLane, Stop, PCs, Outcomes
  <1>5. LaneInv'
    BY <1>0, Sizes DEF IInv, TypeOK, config, LaneInv, UnitsOf, RefuseUnit,
       Refuse, VisitUnit, InUnitLane, Stop, PCs, Outcomes
  <1>6. BlockedIsExplained'
    BY <1>0, Sizes DEF IInv, TypeOK, config, BlockedIsExplained,
       RefuseUnit, Refuse, VisitUnit, InUnitLane, Stop, PCs, Outcomes
  <1>7. ProviderInv'
    BY <1>0, Sizes, ProviderShape DEF IInv, TypeOK, config, ProviderInv,
       SuccessNeedsProviders, ProvidersCompiled, RefuseUnit, Refuse,
       VisitUnit, InUnitLane, Stop, PCs, Outcomes
  <1>8. OutcomeInv'
    BY <1>0 DEF IInv, OutcomeInv, NoInternalError, SuccessIsComplete,
           RefuseUnit, VisitUnit, InUnitLane
  <1> QED
    BY <1>1, <1>2, <1>3, <1>4, <1>5, <1>6, <1>7, <1>8 DEF IInv

LEMMA PublishPackageKeeps ==
    ASSUME IInv, PublishPackage
    PROVE  IInv'
  <1>0. BoundaryComplete
    BY FinishedIsComplete DEF PublishPackage
  <1>1. TypeOK'
    <2>1. boundary + 1 \in 1..Boundaries /\ boundary \in 1..(Boundaries - 1)
      BY Sizes DEF IInv, TypeOK, PublishPackage
    <2> QED
      BY <1>0, <2>1, UnitsOfType DEF IInv, TypeOK, config, PublishPackage, PCs
  <1>2. BudgetInv'
    BY <1>0, Sizes DEF IInv, TypeOK, config, BudgetInv, Exhausted,
       PublishPackage, Stop, PCs, Outcomes
  <1>3. OrderInv'
    <2>1. published = 1..(boundary - 1) /\ boundary \in 1..(Boundaries - 1)
      BY Sizes DEF IInv, TypeOK, OrderInv, PublishPackage
    <2>2. published' = 1..(boundary' - 1)
      <3>1. \A i : i \in 1..(boundary - 1) \/ i = boundary <=> i \in 1..boundary
        BY <2>1, Sizes
      <3>2. boundary' - 1 = boundary
        BY <1>0, <2>1, Sizes DEF PublishPackage
      <3> QED
        BY <1>0, <2>1, <3>1, <3>2 DEF PublishPackage
    <2> QED
      BY <1>0, <2>1, <2>2, Sizes DEF OrderInv, PublishPackage
  <1>4. VisitInv'
    BY <1>0, Sizes DEF IInv, TypeOK, config, VisitInv, Visited, Wave,
       PublishPackage, Stop, PCs, Outcomes
  <1>5. LaneInv'
    BY <1>0, Sizes DEF IInv, TypeOK, config, LaneInv, UnitsOf,
       PublishPackage, Stop, PCs, Outcomes
  <1>6. BlockedIsExplained'
    BY <1>0, Sizes DEF IInv, TypeOK, config, BlockedIsExplained,
       PublishPackage, Stop, PCs, Outcomes
  <1>7. ProviderInv'
    BY <1>0, Sizes, ProviderShape DEF IInv, TypeOK, config, ProviderInv,
       SuccessNeedsProviders, ProvidersCompiled, PublishPackage, Stop,
       PCs, Outcomes
  <1>8. OutcomeInv'
    BY <1>0 DEF IInv, OutcomeInv, NoInternalError, SuccessIsComplete,
           PublishPackage
  <1> QED
    BY <1>1, <1>2, <1>3, <1>4, <1>5, <1>6, <1>7, <1>8 DEF IInv

LEMMA FinishProjectKeeps ==
    ASSUME IInv, FinishProject
    PROVE  IInv'
  <1>0. pc = "finish" /\ boundary = Project /\ BoundaryComplete
    BY FinishedIsComplete DEF FinishProject
  <1>1. TypeOK'
    BY <1>0, Sizes, UnitsOfType DEF IInv, TypeOK, config, FinishProject,
       Stop, PCs, Outcomes
  <1>2. BudgetInv'
    BY <1>0, Sizes DEF IInv, TypeOK, config, BudgetInv, Exhausted,
       FinishProject, Stop, PCs, Outcomes
  <1>3. OrderInv'
    BY <1>0, Sizes DEF IInv, TypeOK, config, OrderInv, Exhausted,
       FinishProject, Stop, PCs, Outcomes
  <1>4. VisitInv'
    BY <1>0, Sizes DEF IInv, TypeOK, config, VisitInv, Visited, Wave,
       FinishProject, Stop, PCs, Outcomes
  <1>5. LaneInv'
    BY <1>0, Sizes DEF IInv, TypeOK, config, LaneInv, UnitsOf,
       FinishProject, Stop, PCs, Outcomes
  <1>6. BlockedIsExplained'
    BY <1>0, Sizes DEF IInv, TypeOK, config, BlockedIsExplained,
       FinishProject, Stop, PCs, Outcomes
  <1>7. ProviderInv'
    BY <1>0, Sizes, ProviderShape DEF IInv, TypeOK, config, ProviderInv,
       SuccessNeedsProviders, ProvidersCompiled, FinishProject, Stop, PCs,
       Outcomes
  <1>8. OutcomeInv'
    BY <1>0, GateIsSound DEF IInv, OutcomeInv, NoInternalError,
           SuccessIsComplete, FinishProject, Stop
  <1> QED
    BY <1>1, <1>2, <1>3, <1>4, <1>5, <1>6, <1>7, <1>8 DEF IInv

LEMMA ClassifyKeeps ==
    ASSUME IInv, Classify
    PROVE  IInv'
  <1>0. pc = "classify" /\ ~\E m \in Wave : Unready(m)
    BY WaveIsReady DEF Classify
  <1>a. \A m \in Modules : \/ slot'[m] = slot[m]
                           \/ slot[m] = "unavailable" /\ slot'[m] = "blocked"
    <2>1. \A m \in Wave : slot[m] = "unavailable"
      BY <1>0, Sizes DEF IInv, TypeOK, VisitInv, Visited, Wave
    <2> QED
      BY <1>0, <2>1 DEF Classify
  <1>1. TypeOK'
    BY <1>0 DEF IInv, TypeOK, config, Classify, Slots, PCs, Wave
  <1>2. BudgetInv'
    BY <1>0, <1>a DEF IInv, TypeOK, config, BudgetInv, Exhausted, Classify
  <1>3. OrderInv'
    BY <1>0, Sizes DEF IInv, TypeOK, config, OrderInv, Exhausted,
       Classify, Stop, Slots, PCs, Outcomes
  <1>4. VisitInv'
    BY <1>0, Sizes DEF IInv, TypeOK, config, VisitInv, Visited, Wave, Classify
  <1>5. LaneInv'
    BY <1>0, Sizes DEF IInv, TypeOK, config, LaneInv, UnitsOf, Classify,
       Stop, Slots, PCs, Outcomes
  <1>6. BlockedIsExplained'
    <2> SUFFICES ASSUME NEW m \in Modules, slot'[m] = "blocked"
                 PROVE  \E d \in Modules : slot'[d] = "diagnosed"
                                           /\ BoundaryOf[d] <= BoundaryOf[m]
      BY DEF BlockedIsExplained
    <2>1. CASE slot[m] = "blocked"
      BY <2>1, <1>a DEF IInv, BlockedIsExplained
    <2>2. CASE m \in Wave /\ Blocked(m)
      <3>1. PICK q \in Modules : slot[q] \in Failed
                                 /\ BoundaryOf[q] <= BoundaryOf[m]
        BY <2>2, BlockedIff, ProviderShape, Sizes
      <3>2. PICK d \in Modules : slot[d] = "diagnosed"
                                 /\ BoundaryOf[d] <= BoundaryOf[q]
        BY <3>1, Sizes DEF Failed, IInv, BlockedIsExplained
      <3> QED
        BY <3>1, <3>2, <1>a, Sizes
    <2> QED
      BY <2>1, <2>2, <1>0 DEF Classify, IInv, TypeOK
  <1>7. ProviderInv'
    <2>1. \A m \in Modules : slot[m] = "successful" <=> slot'[m] = "successful"
      BY <1>0, <1>a DEF Classify, IInv, TypeOK
    <2>2. SuccessNeedsProviders'
      BY <2>1, ProviderShape DEF IInv, ProviderInv, SuccessNeedsProviders
    <2>3. \A m \in ready' : ProvidersCompiled(m)'
      <3> SUFFICES ASSUME NEW m \in Wave, ~Blocked(m)
                   PROVE  ProvidersCompiled(m)'
        BY <1>0 DEF Classify
      <3>0. m \in Modules
        BY DEF Wave
      <3>1. \A p \in Providers[m] : slot[p] = "successful"
        BY <3>0, <1>0, UnreadyIff, BlockedIff, ProviderShape
           DEF Visited, Failed, Slots, IInv, TypeOK
      <3>2. \A b \in Packages[m] : slot[RootOf[b]] = "successful"
        BY <3>0, <1>0, UnreadyIff, BlockedIff, ProviderShape
           DEF Visited, Failed, Slots, IInv, TypeOK
      <3> QED
        BY <3>0, <3>1, <3>2, <2>1, ProviderShape DEF ProvidersCompiled
    <2> QED
      BY <2>2, <2>3 DEF ProviderInv
  <1>8. OutcomeInv'
    BY <1>0 DEF IInv, OutcomeInv, NoInternalError, SuccessIsComplete, Classify
  <1> QED
    BY <1>1, <1>2, <1>3, <1>4, <1>5, <1>6, <1>7, <1>8 DEF IInv

-----------------------------------------------------------------------------
LEMMA InitEstablishes == Init => IInv
  <1> SUFFICES ASSUME Init PROVE IInv
    OBVIOUS
  <1>1. TypeOK
    BY Sizes DEF Init, TypeOK, PCs, Slots, Outcomes
  <1>2. BudgetInv /\ OrderInv /\ LaneInv /\ BlockedIsExplained
    BY Sizes DEF Init, BudgetInv, OrderInv, LaneInv, BlockedIsExplained
  <1>3. VisitInv /\ ProviderInv
    BY Sizes DEF Init, VisitInv, Visited, ProviderInv, SuccessNeedsProviders
  <1>4. OutcomeInv
    BY DEF Init, OutcomeInv, NoInternalError, SuccessIsComplete
  <1> QED
    BY <1>1, <1>2, <1>3, <1>4 DEF IInv

LEMMA StutterKeeps ==
    ASSUME IInv, UNCHANGED vars
    PROVE  IInv'
  BY DEF vars, IInv, TypeOK, BudgetInv, OrderInv, VisitInv, LaneInv,
         BlockedIsExplained, ProviderInv, OutcomeInv, Exhausted, Visited, Wave,
         ProvidersCompiled, SuccessNeedsProviders, NoInternalError,
         SuccessIsComplete

LEMMA NextKeeps == IInv /\ [Next]_vars => IInv'
  <1> SUFFICES ASSUME IInv, [Next]_vars PROVE IInv'
    OBVIOUS
  <1>1. ASSUME NEW m \in Modules,
               \/ CompileSucceeds(m)
               \/ \E errors \in 1..MaxErrors : CompileDiagnoses(m, errors)
               \/ CompileBreaks(m)
        PROVE  IInv'
    BY <1>1, CompileSucceedsKeeps, CompileDiagnosesKeeps, CompileBreaksKeeps
  <1>2. ASSUME NEW u \in Units,
               \/ SkipUnit(u)
               \/ RefuseUnit(u)
               \/ \E errors \in 0..MaxErrors : CompileUnit(u, errors)
               \/ UnitBreaks(u)
        PROVE  IInv'
    BY <1>2, SkipUnitKeeps, RefuseUnitKeeps, CompileUnitKeeps, UnitBreaksKeeps
  <1> QED
    BY <1>1, <1>2, OpenBoundaryKeeps, ClassifyKeeps, RefuseJobKeeps,
       NextWaveKeeps, UnitsDoneKeeps, PublishPackageKeeps, FinishProjectKeeps,
       StutterKeeps
       DEF Next, Terminated

LEMMA Inductive == Spec => []IInv
  BY InitEstablishes, NextKeeps, PTL DEF Spec

-----------------------------------------------------------------------------
(* The state of the scheduler always has its type.                         *)
THEOREM TypeCorrect == Spec => []TypeOK
  BY Inductive, PTL DEF IInv

(* For every graph, whatever fails and whenever the budget runs out, the   *)
(* scheduler of compile_module_waves_in_premerge_lane and                  *)
(* compile_check_only_batches reaches none of its internal errors.         *)
THEOREM InternalErrorsUnreachable == Spec => []NoInternalError
  BY Inductive, PTL DEF IInv, OutcomeInv

(* has_diagnosed_or_blocked lets only whole compilations pass.             *)
THEOREM SuccessIsWhole == Spec => []SuccessIsComplete
  BY Inductive, PTL DEF IInv, OutcomeInv

(* No module is compiled against a provider that was not.                  *)
THEOREM ProvidersFirst == Spec => []SuccessNeedsProviders
  BY Inductive, PTL DEF IInv, ProviderInv

(* Every blocked module goes back to a diagnosed one.                      *)
THEOREM BlockedHasCause == Spec => []BlockedIsExplained
  BY Inductive, PTL DEF IInv

(* The total is settled once an admission has been refused: the comment on *)
(* ProjectDiagnosticBudget::refuse_admission holds.                        *)
THEOREM RefusalsSeeOneTotal == Spec => NoChargeAfterRefusal
  <1>1. ASSUME IInv, [Next]_vars, CutoffFlag \in stopped
        PROVE  charged' = charged
    <2>1. Exhausted
      BY <1>1 DEF IInv, BudgetInv
    <2> QED
      BY <1>1, <2>1 DEF Next, vars, OpenBoundary, Classify, RefuseJob, Admit,
         CompileSucceeds, CompileDiagnoses, CompileBreaks, NextWave, SkipUnit,
         RefuseUnit, AdmitUnit, CompileUnit, UnitBreaks, UnitsDone,
         PublishPackage, FinishProject, Terminated
  <1> QED
    BY <1>1, Inductive, PTL DEF Spec, NoChargeAfterRefusal

-----------------------------------------------------------------------------
(* The stop flag: nothing is visited after it, something is left behind    *)
(* when it is set, and everything left behind goes back to it; a lane      *)
(* holds jobs of the project only.                                         *)
FlagInv ==
    /\ pc \in {"classify", "admit"} => CutoffFlag \notin stopped
    /\ CutoffFlag \in stopped =>
         (\E m \in Modules : slot[m] = "unavailable") \/ dropped # {}
    /\ cutoff # {} \/ dropped # {} => CutoffFlag \in stopped
    /\ published # 1..(boundary - 1) => CutoffFlag \in stopped
    /\ pc = "packageUnits" /\ boundary # Project => CutoffFlag \in stopped
    /\ units \subseteq jobs
    /\ StopFlagTruthful

(* The facade of a boundary that has yet to be opened has no outcome.      *)
LEMMA UnopenedRoot ==
    ASSUME IInv, pc = "open"
    PROVE  RootOf[boundary] \in Modules /\ slot[RootOf[boundary]] = "unavailable"
  <1>1. boundary \in 1..Boundaries /\ boundary \notin published
    BY Sizes DEF IInv, TypeOK, OrderInv
  <1>2. RootOf[boundary] \in Modules /\ BoundaryOf[RootOf[boundary]] = boundary
    BY <1>1, WaveAssumption DEF WaveAssumption
  <1> QED
    BY <1>1, <1>2 DEF IInv, VisitInv, Visited

LEMMA FlagPreserved ==
    ASSUME IInv, FlagInv, [Next]_vars
    PROVE  FlagInv'
  <1>0. units' \subseteq jobs'
    <2>1. units \subseteq jobs /\ \A bs : UnitsOf(bs) \subseteq jobs
      BY DEF FlagInv, UnitsOf
    <2> QED
      BY <2>1 DEF Next, vars, config, OpenBoundary, Classify, RefuseJob, AfterWaves,
         Admit, CompileSucceeds, CompileDiagnoses, CompileBreaks, NextWave, VisitUnit,
         SkipUnit, RefuseUnit, AdmitUnit, CompileUnit, UnitBreaks, UnitsDone,
         PublishPackage, FinishProject, Terminated
  <1>1. CASE OpenBoundary
    <2>1. /\ pc = "open" /\ outcome = "none"
          /\ UNCHANGED <<boundary, slot, published, dropped, outcome>>
      BY <1>1 DEF OpenBoundary, IInv, OutcomeInv
    <2>2. CASE ~Exhausted
      <3>1. pc' = "classify" /\ UNCHANGED <<cutoff, stopped>>
        BY <1>1, <2>2 DEF OpenBoundary
      <3>2. CutoffFlag \notin stopped
        BY <2>2 DEF IInv, BudgetInv
      <3> QED
        BY <1>0, <2>1, <3>1, <3>2 DEF FlagInv, StopFlagTruthful
    <2>3. CASE Exhausted
      <3>1. /\ CutoffFlag \in stopped' /\ pc' \in {"packageUnits", "units"}
        BY <1>1, <2>3 DEF OpenBoundary, Refuse
      <3> QED
        BY <1>0, <2>1, <3>1, UnopenedRoot DEF FlagInv, StopFlagTruthful
    <2> QED
      BY <2>2, <2>3
  <1>2. CASE Classify
    <2>1. CutoffFlag \notin stopped /\ outcome = "none" /\ pc = "classify"
      BY <1>2 DEF Classify, FlagInv, IInv, OutcomeInv
    <2>2. /\ UNCHANGED <<boundary, published, cutoff, stopped, dropped>>
          /\ outcome' \in {"none", "bug"} /\ pc' \in {"admit", "done"}
      BY <1>2, <2>1 DEF Classify, Stop
    <2> QED
      BY <1>0, <2>1, <2>2 DEF FlagInv, StopFlagTruthful
  <1>3. CASE RefuseJob
    <2>1. /\ pc = "admit" /\ ready # {} /\ outcome = "none"
          /\ UNCHANGED <<boundary, slot, published, dropped, outcome>>
          /\ CutoffFlag \in stopped' /\ pc' \in {"units", "finish"}
      BY <1>3 DEF RefuseJob, Refuse, AfterWaves, IInv, OutcomeInv
    <2>2. \E m \in Modules : slot[m] = "unavailable"
      BY <2>1 DEF IInv, TypeOK, VisitInv, Visited, Wave
    <2> QED
      BY <1>0, <2>1, <2>2 DEF FlagInv, StopFlagTruthful
  <1>4. ASSUME NEW m \in Modules,
               \/ CompileSucceeds(m)
               \/ \E errors \in 1..MaxErrors : CompileDiagnoses(m, errors)
               \/ CompileBreaks(m)
        PROVE  FlagInv'
    <2>1. /\ pc = "admit" /\ outcome = "none" /\ CutoffFlag \notin stopped
          /\ UNCHANGED <<boundary, published, cutoff, stopped, dropped>>
      BY <1>4 DEF CompileSucceeds, CompileDiagnoses, CompileBreaks, Admit,
                  FlagInv, IInv, OutcomeInv
    <2>2. outcome' \in {"none", "infrastructure"} /\ pc' \in {"admit", "done"}
      BY <1>4, <2>1 DEF CompileSucceeds, CompileDiagnoses, CompileBreaks, Stop
    <2> QED
      BY <1>0, <2>1, <2>2 DEF FlagInv, StopFlagTruthful
  <1>5. CASE NextWave
    <2>1. /\ pc = "admit" /\ outcome = "none"
          /\ UNCHANGED <<boundary, slot, published, cutoff, stopped, dropped, outcome>>
          /\ pc' \in {"classify", "units", "finish"}
      BY <1>5 DEF NextWave, AfterWaves, IInv, OutcomeInv
    <2> QED
      BY <1>0, <2>1 DEF FlagInv, StopFlagTruthful
  <1>6. ASSUME NEW u \in Units, SkipUnit(u)
        PROVE  FlagInv'
    <2>1. /\ pc \in {"packageUnits", "units"} /\ outcome = "none"
          /\ UNCHANGED <<pc, boundary, slot, published, cutoff, dropped, outcome>>
          /\ stopped' \in {stopped, stopped \cup {AllowanceFlag}}
      BY <1>6 DEF SkipUnit, VisitUnit, InUnitLane, IInv, OutcomeInv
    <2> QED
      BY <1>0, <2>1, FlagsDiffer DEF FlagInv, StopFlagTruthful
  <1>7. ASSUME NEW u \in Units, RefuseUnit(u)
        PROVE  FlagInv'
    <2>1. Exhausted /\ u \in units
      BY <1>7, OnlyExhaustedRefuses DEF RefuseUnit, VisitUnit
    <2>2. /\ pc \in {"packageUnits", "units"} /\ outcome = "none"
          /\ UNCHANGED <<pc, boundary, slot, published, outcome>>
          /\ CutoffFlag \in stopped'
          /\ dropped' = dropped \cup (units \cap UnitsOf({BoundaryOf[OwnerOf[u]]}))
      BY <1>7, <2>1 DEF RefuseUnit, Refuse, VisitUnit, InUnitLane, IInv, OutcomeInv
    <2>3. u \in UnitsOf({BoundaryOf[OwnerOf[u]]})
      BY <2>1, <2>2 DEF UnitsOf, IInv, FlagInv
    <2> QED
      BY <1>0, <2>1, <2>2, <2>3 DEF FlagInv, StopFlagTruthful
  <1>8. ASSUME NEW u \in Units,
               \/ \E errors \in 0..MaxErrors : CompileUnit(u, errors)
               \/ UnitBreaks(u)
        PROVE  FlagInv'
    <2>1. /\ pc \in {"packageUnits", "units"} /\ outcome = "none"
          /\ UNCHANGED <<boundary, slot, published, cutoff, stopped, dropped>>
          /\ outcome' \in {"none", "infrastructure"} /\ pc' \in {pc, "done"}
      BY <1>8 DEF CompileUnit, UnitBreaks, AdmitUnit, VisitUnit, InUnitLane, Stop,
                  IInv, OutcomeInv
    <2> QED
      BY <1>0, <2>1 DEF FlagInv, StopFlagTruthful
  <1>9. CASE UnitsDone
    <2>1. /\ UNCHANGED <<slot, published, cutoff, stopped, dropped, outcome>>
          /\ outcome = "none"
          /\ \/ pc = "packageUnits" /\ boundary' = Project /\ pc' = "open"
             \/ pc = "units" /\ boundary' = boundary /\ pc' = "finish"
      BY <1>9 DEF UnitsDone, InUnitLane, IInv, OutcomeInv
    <2>2. CASE boundary' = boundary
      BY <1>0, <2>1, <2>2 DEF FlagInv, StopFlagTruthful
    <2>3. CASE boundary' # boundary
      <3>1. CutoffFlag \in stopped
        BY <2>1, <2>3 DEF FlagInv
      <3> QED
        BY <1>0, <2>1, <3>1 DEF FlagInv, StopFlagTruthful
    <2> QED
      BY <2>2, <2>3
  <1>10. CASE PublishPackage
    <2>1. BoundaryComplete
      BY <1>10, FinishedIsComplete DEF PublishPackage
    <2>2. /\ UNCHANGED <<slot, cutoff, stopped, dropped, outcome>>
          /\ outcome = "none" /\ pc' \in {"packageUnits", "open"}
          /\ published' = published \cup {boundary} /\ boundary' = boundary + 1
          /\ pc' = "packageUnits" => boundary' = Project
      BY <1>10, <2>1 DEF PublishPackage, IInv, OutcomeInv
    <2>3. published = 1..(boundary - 1) => published' = 1..(boundary' - 1)
      <3>1. boundary \in Nat /\ boundary >= 1
        BY Sizes DEF IInv, TypeOK
      <3>2. boundary' - 1 = boundary
        BY <2>2, <3>1
      <3>3. \A i : i \in 1..(boundary - 1) \/ i = boundary <=> i \in 1..boundary
        BY <3>1
      <3> QED
        BY <2>2, <3>2, <3>3
    <2> QED
      BY <1>0, <2>2, <2>3 DEF FlagInv, StopFlagTruthful
  <1>11. CASE FinishProject
    <2>1. /\ pc = "finish" /\ boundary = Project /\ pc' = "done"
          /\ UNCHANGED <<boundary, slot, published, cutoff, stopped, dropped>>
      BY <1>11 DEF FinishProject, Stop
    <2>2. ASSUME NEW m \in Modules, slot[m] = "unavailable"
          PROVE  CutoffFlag \in stopped
      <3>1. CASE published = 1..(Boundaries - 1)
        <4>1. BoundaryOf[m] \in published \/ BoundaryOf[m] = boundary
          BY <2>1, <3>1, Sizes
        <4>2. cutoff # {}
          BY <2>1, <2>2, <4>1 DEF IInv, VisitInv, Visited
        <4> QED
          BY <4>2 DEF FlagInv
      <3>2. CASE published # 1..(Boundaries - 1)
        BY <2>1, <3>2, Sizes DEF FlagInv
      <3> QED
        BY <3>1, <3>2
    <2> QED
      BY <1>0, <2>1, <2>2 DEF FlagInv, StopFlagTruthful
  <1>12. CASE UNCHANGED vars
    BY <1>12 DEF vars, FlagInv, StopFlagTruthful
  <1> QED
    BY <1>1, <1>2, <1>3, <1>4, <1>5, <1>6, <1>7, <1>8, <1>9, <1>10, <1>11, <1>12
       DEF Next, Terminated

(* The command reports PROJECT_SCHEDULING_CUTOFF exactly when the project  *)
(* threshold left a module or a check-only unit unvisited.                 *)
THEOREM StopFlagIsTrue == Spec => []StopFlagTruthful
  <1>1. Init => FlagInv
    BY Sizes DEF Init, FlagInv, StopFlagTruthful
  <1>2. IInv /\ FlagInv /\ [Next]_vars => FlagInv'
    BY FlagPreserved
  <1>3. FlagInv => StopFlagTruthful
    BY DEF FlagInv
  <1> QED
    BY <1>1, <1>2, <1>3, Inductive, PTL DEF Spec
=============================================================================
