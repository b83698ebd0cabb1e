---------------------------- MODULE WaveCompile -----------------------------
(***************************************************************************)
(* Compiling the modules of a project and of its source packages, wave by  *)
(* wave, under one diagnostic budget:                                      *)
(* create_project_modules/compilation.rs, compilation/canonical.rs,        *)
(* compiled_boundary.rs and module_artifact_store.rs.                      *)
(*                                                                         *)
(* Boundaries are compiled in dependency order, the project last.  A       *)
(* module whose provider failed is blocked, not compiled.  Once the errors *)
(* returned so far meet the project's threshold no further work is         *)
(* admitted.  Check-only units are compiled for their diagnostics after    *)
(* the modules: those of all packages once every package is published,     *)
(* those of the project before its boundary is finished.                   *)
(*                                                                         *)
(* A module is its id; compiling it succeeds, returns a number of errors,  *)
(* or fails outright.  The compile waves are given: a module's providers   *)
(* are in earlier waves, as project_module_graph.rs compile_waves orders   *)
(* them.                                                                   *)
(***************************************************************************)
EXTENDS Integers, FiniteSets

CONSTANTS
    NumModules,     \* modules are 1..NumModules, in ModuleId order
    Boundaries,     \* number of boundaries; the last one is the project
    BoundaryOf,     \* BoundaryOf[m]
    Providers,      \* Providers[m]: dependency_providers, same boundary
    Packages,       \* Packages[m]: boundaries whose facade m imports
    RootOf,         \* RootOf[b]: module that is the facade of boundary b
    WaveOf,         \* WaveOf[m]: compile wave
    LastWave,
    NumUnits,       \* possible check-only units 1..NumUnits, in job order
    OwnerOf,        \* OwnerOf[u]: canonical owner module
    UnitProviders,  \* UnitProviders[u]: modules of the owner's boundary
    UnitPackages,   \* UnitPackages[u]: boundaries whose facade u imports
    Thresholds,     \* settings of max_errors_per_project; 0: no limit
    Allowances,     \* settings of max_errors_per_module; 0: no limit
    MaxErrors       \* bound: errors one batch returns

Modules == 1..NumModules
Units == 1..NumUnits
Project == Boundaries

ASSUME WaveAssumption ==
    /\ NumModules \in Nat /\ NumUnits \in Nat /\ LastWave \in Nat \ {0}
    /\ Boundaries \in Nat \ {0} /\ MaxErrors \in Nat \ {0}
    /\ BoundaryOf \in [Modules -> 1..Boundaries]
    /\ Providers \in [Modules -> SUBSET Modules]
    /\ Packages \in [Modules -> SUBSET (1..Boundaries)]
    /\ RootOf \in [1..Boundaries -> Modules]
    /\ WaveOf \in [Modules -> 1..LastWave]
    /\ \A b \in 1..Boundaries : BoundaryOf[RootOf[b]] = b
    /\ \A m \in Modules :
         /\ \A p \in Providers[m] :
              BoundaryOf[p] = BoundaryOf[m] /\ WaveOf[p] < WaveOf[m]
         /\ \A b \in Packages[m] : b < BoundaryOf[m]
    /\ OwnerOf \in [Units -> Modules]
    /\ UnitProviders \in [Units -> SUBSET Modules]
    /\ UnitPackages \in [Units -> SUBSET (1..Boundaries)]
    /\ \A u \in Units :
         /\ \A p \in UnitProviders[u] : BoundaryOf[p] = BoundaryOf[OwnerOf[u]]
         /\ \A b \in UnitPackages[u] : b < Boundaries
    /\ Thresholds \subseteq Nat /\ Allowances \subseteq Nat

VARIABLES
    threshold,  \* threshold of the ProjectDiagnosticBudget
    allowance,  \* module_error_allowance
    jobs,       \* check-only jobs: the units the project really has
    pc,         \* see PCs
    boundary,   \* the boundary being compiled
    wave,       \* the wave being compiled
    ready,      \* classified modules of the wave not yet admitted
    slot,       \* slot[m]: ProviderSlot
    published,  \* completed source packages
    charged,    \* returned_primary_errors of the budget
    cutoff,     \* boundaries whose scheduling_cutoff is recorded
    stopped,    \* DiagnosticDiscoveryStops of the warning sink
    retained,   \* retained[m]: errors retained for owner m
    units,      \* check-only units of the lane still to visit
    dropped,    \* check-only units a refusal left unvisited
    erring,     \* check-only units whose transient batch has errors
    outcome     \* see Outcomes

config == <<threshold, allowance, jobs>>
vars == <<threshold, allowance, jobs, pc, boundary, wave, ready, slot,
          published, charged, cutoff, stopped, retained, units, dropped, erring,
          outcome>>

PCs == {"open", "classify", "admit", "packageUnits", "units", "finish", "done"}
Slots == {"unavailable", "successful", "diagnosed", "blocked"}
Failed == {"diagnosed", "blocked"}
Outcomes == {"none", "success", "diagnosed", "infrastructure", "bug"}
CutoffFlag == "PROJECT_SCHEDULING_CUTOFF"
AllowanceFlag == "MODULE_ERROR_ALLOWANCE"

(* The state of one compilation has its type.                              *)
TypeOK ==
    /\ threshold \in Thresholds /\ allowance \in Allowances
    /\ jobs \in SUBSET Units
    /\ pc \in PCs
    /\ boundary \in 1..Boundaries
    /\ wave \in 1..LastWave
    /\ ready \in SUBSET Modules
    /\ slot \in [Modules -> Slots]
    /\ published \in SUBSET (1..(Boundaries - 1))
    /\ charged \in Nat
    /\ cutoff \in SUBSET (1..Boundaries)
    /\ stopped \in SUBSET {CutoffFlag, AllowanceFlag}
    /\ retained \in [Modules -> Nat]
    /\ units \in SUBSET Units
    /\ dropped \in SUBSET Units
    /\ erring \in SUBSET Units
    /\ outcome \in Outcomes

(* With no source package the package loops have nothing to do.            *)
Init ==
    /\ threshold \in Thresholds /\ allowance \in Allowances
    /\ jobs \in SUBSET Units
    /\ pc = IF Boundaries > 1 THEN "open" ELSE "packageUnits"
    /\ boundary = 1
    /\ wave = 1
    /\ ready = {}
    /\ slot = [m \in Modules |-> "unavailable"]
    /\ published = {}
    /\ charged = 0
    /\ cutoff = {}
    /\ stopped = {}
    /\ retained = [m \in Modules |-> 0]
    /\ units = {}
    /\ dropped = {}
    /\ erring = {}
    /\ outcome = "none"

-----------------------------------------------------------------------------
(* ProjectDiagnosticBudget::is_exhausted                                   *)
Exhausted == threshold > 0 /\ charged >= threshold

(* refuse_scheduling_admission *)
Refuse == stopped' = stopped \cup {CutoffFlag}

Stop(how) == pc' = "done" /\ outcome' = how

(* The check-only jobs of the given boundaries.                            *)
UnitsOf(bs) == {u \in jobs : BoundaryOf[OwnerOf[u]] \in bs}

(* Fault: the skipped project records no cutoff.                           *)
OpenBoundaryUnrecorded ==
    /\ pc = "open"
    /\ IF ~Exhausted
       THEN pc' = "classify" /\ UNCHANGED <<units, stopped>>
       ELSE /\ Refuse
            /\ pc' = IF boundary = Project THEN "units" ELSE "packageUnits"
            /\ units' = UnitsOf(IF boundary = Project THEN {Project}
                                ELSE published)
    /\ wave' = 1
    /\ UNCHANGED <<config, boundary, ready, slot, published, charged, cutoff,
                   retained, dropped, erring, outcome>>

(* Fault: each boundary starts with a fresh budget.                        *)
OpenBoundaryFreshBudget ==
    /\ pc = "open"
    /\ charged' = 0
    /\ pc' = "classify"
    /\ wave' = 1
    /\ UNCHANGED <<config, boundary, ready, slot, published, cutoff, stopped,
                   retained, units, dropped, erring, outcome>>

(* The next boundary.  An exhausted budget ends the package loop without   *)
(* visiting the remaining packages, and keeps the project from its waves.  *)
OpenBoundary ==
    /\ pc = "open"
    /\ \/ /\ ~Exhausted
          /\ pc' = "classify"
          /\ UNCHANGED <<units, cutoff, stopped>>
       \/ /\ Exhausted
          /\ Refuse
          /\ \/ /\ boundary # Project
                /\ pc' = "packageUnits"
                /\ units' = UnitsOf(published)
                /\ UNCHANGED cutoff
             \/ /\ boundary = Project
                /\ pc' = "units"
                /\ units' = UnitsOf({Project})
                /\ cutoff' = cutoff \cup {Project}
    /\ wave' = 1
    /\ UNCHANGED <<config, boundary, ready, slot, published, charged,
                   retained, dropped, erring, outcome>>

(***************************************************************************)
(* One wave: every job is classified before the first one is admitted.     *)
(***************************************************************************)
Wave == {m \in Modules : BoundaryOf[m] = boundary /\ WaveOf[m] = wave}

SlotsSeen(mods, bs) == {slot[p] : p \in mods \cup {RootOf[b] : b \in bs}}

Unready(m) == "unavailable" \in SlotsSeen(Providers[m], Packages[m])

(* Fault: the packages are not looked at.                                  *)
BlockedByModulesOnly(m) == SlotsSeen(Providers[m], {}) \cap Failed # {}

Blocked(m) == SlotsSeen(Providers[m], Packages[m]) \cap Failed # {}

(* A provider without an outcome is an internal error, also where the code *)
(* would have met a failed provider first.                                 *)
Classify ==
    /\ pc = "classify"
    /\ IF \E m \in Wave : Unready(m)
       THEN Stop("bug") /\ UNCHANGED <<slot, ready>>
       ELSE /\ slot' = [m \in Modules |-> IF m \in Wave /\ Blocked(m)
                                          THEN "blocked" ELSE slot[m]]
            /\ ready' = {m \in Wave : ~Blocked(m)}
            /\ pc' = "admit"
            /\ UNCHANGED outcome
    /\ UNCHANGED <<config, boundary, wave, published, charged, cutoff,
                   stopped, retained, units, dropped, erring>>

(* The package loop compiles no check-only units of its own.               *)
AfterWaves ==
    /\ pc' = IF boundary = Project THEN "units" ELSE "finish"
    /\ units' = IF boundary = Project THEN UnitsOf({Project}) ELSE units

(* Fault: the refusal does not reach the command's warning sink.           *)
RefuseJobSilent ==
    /\ pc = "admit"
    /\ ready # {}
    /\ Exhausted
    /\ cutoff' = cutoff \cup {boundary}
    /\ ready' = {}
    /\ AfterWaves
    /\ UNCHANGED <<config, boundary, wave, slot, published, charged, stopped,
                   retained, dropped, erring, outcome>>

(* The budget refuses the next job: this and all later waves are left.     *)
RefuseJob ==
    /\ pc = "admit"
    /\ ready # {}
    /\ Exhausted
    /\ Refuse
    /\ cutoff' = cutoff \cup {boundary}
    /\ ready' = {}
    /\ AfterWaves
    /\ UNCHANGED <<config, boundary, wave, slot, published, charged, retained,
                   dropped, erring, outcome>>

Admit(m) ==
    /\ pc = "admit"
    /\ m \in ready
    /\ \A n \in ready : m <= n
    /\ ~Exhausted
    /\ ready' = ready \ {m}
    /\ UNCHANGED <<config, boundary, wave, published, cutoff, stopped, units,
                   dropped, erring>>

CompileSucceeds(m) ==
    /\ Admit(m)
    /\ slot' = [slot EXCEPT ![m] = "successful"]
    /\ UNCHANGED <<pc, charged, retained, outcome>>

(* Fault: the failed module takes the blocked slot.                        *)
CompileDiagnosesBlocked(m, errors) ==
    /\ Admit(m)
    /\ charged' = charged + errors
    /\ retained' = [retained EXCEPT ![m] = @ + errors]
    /\ slot' = [slot EXCEPT ![m] = "blocked"]
    /\ UNCHANGED <<pc, outcome>>

CompileDiagnoses(m, errors) ==
    /\ Admit(m)
    /\ charged' = charged + errors
    /\ retained' = [retained EXCEPT ![m] = @ + errors]
    /\ slot' = [slot EXCEPT ![m] = "diagnosed"]
    /\ UNCHANGED <<pc, outcome>>

CompileBreaks(m) ==
    /\ Admit(m)
    /\ Stop("infrastructure")
    /\ UNCHANGED <<slot, charged, retained>>

NextWave ==
    /\ pc = "admit"
    /\ ready = {}
    /\ \/ /\ wave < LastWave
          /\ wave' = wave + 1
          /\ pc' = "classify"
          /\ UNCHANGED units
       \/ /\ wave = LastWave
          /\ AfterWaves
          /\ UNCHANGED wave
    /\ UNCHANGED <<config, boundary, ready, slot, published, charged, cutoff,
                   stopped, retained, dropped, erring, outcome>>

-----------------------------------------------------------------------------
(***************************************************************************)
(* compile_check_only_batches.  A package that was never published counts  *)
(* as unavailable.                                                         *)
(***************************************************************************)
UnitUnready(u) ==
    \/ ~(UnitPackages[u] \subseteq published)
    \/ "unavailable" \in SlotsSeen(UnitProviders[u], UnitPackages[u])

UnitBlocked(u) ==
    /\ ~UnitUnready(u)
    /\ SlotsSeen(UnitProviders[u], UnitPackages[u]) \cap Failed # {}

InUnitLane == pc \in {"packageUnits", "units"}

VisitUnit(u) ==
    /\ InUnitLane
    /\ u \in units
    /\ \A v \in units : u <= v
    /\ UNCHANGED <<config, boundary, wave, ready, slot, published>>

(* check_only_remaining_allowance leaves nothing *)
AllowanceSpent(m) == allowance > 0 /\ retained[m] >= allowance

(* Blocked, or its owner already used up the module allowance, which the   *)
(* command reports.                                                        *)
SkipUnit(u) ==
    /\ VisitUnit(u)
    /\ \/ UnitBlocked(u) /\ UNCHANGED stopped
       \/ /\ ~UnitUnready(u) /\ ~UnitBlocked(u)
          /\ ~Exhausted /\ AllowanceSpent(OwnerOf[u])
          /\ stopped' = stopped \cup {AllowanceFlag}
    /\ units' = units \ {u}
    /\ UNCHANGED <<pc, charged, cutoff, retained, dropped, erring, outcome>>

(* The exhausted budget refuses the unit and the rest of its boundary's.   *)
(* A package was finished before, so only the project keeps the record.    *)
(* A unit without its providers while the budget is open is an internal    *)
(* error.                                                                  *)
RefuseUnit(u) ==
    /\ VisitUnit(u)
    /\ ~UnitBlocked(u)
    /\ UnitUnready(u) \/ Exhausted
    /\ IF Exhausted
       THEN /\ Refuse
            /\ LET rest == units \cap UnitsOf({BoundaryOf[OwnerOf[u]]})
               IN units' = units \ rest /\ dropped' = dropped \cup rest
            /\ cutoff' = IF pc = "units" THEN cutoff \cup {Project} ELSE cutoff
            /\ UNCHANGED <<pc, outcome>>
       ELSE Stop("bug") /\ UNCHANGED <<stopped, units, dropped, cutoff>>
    /\ UNCHANGED <<charged, retained, erring>>

AdmitUnit(u) ==
    /\ VisitUnit(u)
    /\ ~UnitUnready(u) /\ ~UnitBlocked(u)
    /\ ~Exhausted /\ ~AllowanceSpent(OwnerOf[u])
    /\ UNCHANGED <<cutoff, stopped, dropped>>

(* The unit's artefacts are dropped; only its diagnostics are kept.        *)
CompileUnit(u, errors) ==
    /\ AdmitUnit(u)
    /\ charged' = charged + errors
    /\ retained' = [retained EXCEPT ![OwnerOf[u]] = @ + errors]
    /\ erring' = IF errors > 0 THEN erring \cup {u} ELSE erring
    /\ units' = units \ {u}
    /\ UNCHANGED <<pc, outcome>>

UnitBreaks(u) ==
    /\ AdmitUnit(u)
    /\ Stop("infrastructure")
    /\ UNCHANGED <<charged, retained, units, erring>>

(* The packages' units give way to the project, the project's to the       *)
(* completion of its boundary.                                             *)
UnitsDone ==
    /\ InUnitLane
    /\ units = {}
    /\ \/ pc = "packageUnits" /\ boundary' = Project /\ pc' = "open"
       \/ pc = "units" /\ UNCHANGED boundary /\ pc' = "finish"
    /\ UNCHANGED <<config, wave, ready, slot, published, charged, cutoff,
                   stopped, retained, units, dropped, erring, outcome>>

-----------------------------------------------------------------------------
(***************************************************************************)
(* CompiledGraphBoundary::finish, publication and the success gate.        *)
(***************************************************************************)
ModulesOf(bs) == {m \in Modules : BoundaryOf[m] \in bs}

SlotsOf(bs) == {slot[m] : m \in ModulesOf(bs)}

(* validate_invariants, and the check on blocked modules before it         *)
BoundaryComplete ==
    /\ "blocked" \in SlotsOf({boundary})
         => "diagnosed" \in SlotsOf(published \cup {boundary})
    /\ "unavailable" \in SlotsOf({boundary}) => boundary \in cutoff
    /\ boundary \in cutoff => charged > 0

(* Fault: the errors of check-only units are not asked for.                *)
HasDiagnosedNoTransient ==
    \/ SlotsOf(published \cup {Project}) \cap Failed # {}
    \/ cutoff \cap (published \cup {Project}) # {}

(* has_diagnosed_or_blocked *)
HasDiagnosedOrBlocked ==
    \/ SlotsOf(published \cup {Project}) \cap Failed # {}
    \/ cutoff \cap (published \cup {Project}) # {}
    \/ erring # {}

(* require_all_successful, of the project and of every package             *)
AllSuccessful ==
    /\ cutoff \cap (published \cup {Project}) = {}
    /\ SlotsOf(published \cup {Project}) \subseteq {"successful"}

PublishPackage ==
    /\ pc = "finish"
    /\ boundary # Project
    /\ IF BoundaryComplete
       THEN /\ published' = published \cup {boundary}
            /\ boundary' = boundary + 1
            /\ pc' = IF boundary + 1 = Project THEN "packageUnits" ELSE "open"
            /\ units' = IF boundary + 1 = Project
                        THEN UnitsOf(published \cup {boundary}) ELSE units
            /\ UNCHANGED outcome
       ELSE Stop("bug") /\ UNCHANGED <<published, boundary, units>>
    /\ UNCHANGED <<config, wave, ready, slot, charged, cutoff, stopped,
                   retained, dropped, erring>>

(* into_compilation_result and ProjectCompilation::from_frontend           *)
FinishProject ==
    /\ pc = "finish"
    /\ boundary = Project
    /\ Stop(CASE ~BoundaryComplete -> "bug"
              [] BoundaryComplete /\ HasDiagnosedOrBlocked -> "diagnosed"
              [] OTHER -> IF AllSuccessful THEN "success" ELSE "bug")
    /\ UNCHANGED <<config, boundary, wave, ready, slot, published, charged,
                   cutoff, stopped, retained, units, dropped, erring>>

(* The command has its outcome.                                            *)
Terminated == pc = "done" /\ UNCHANGED vars

Next ==
    \/ OpenBoundary
    \/ Classify
    \/ RefuseJob
    \/ \E m \in Modules :
         \/ CompileSucceeds(m)
         \/ \E errors \in 1..MaxErrors : CompileDiagnoses(m, errors)
         \/ CompileBreaks(m)
    \/ NextWave
    \/ \E u \in Units :
         \/ SkipUnit(u)
         \/ RefuseUnit(u)
         \/ \E errors \in 0..MaxErrors : CompileUnit(u, errors)
         \/ UnitBreaks(u)
    \/ UnitsDone
    \/ PublishPackage
    \/ FinishProject
    \/ Terminated

Spec == Init /\ [][Next]_vars

-----------------------------------------------------------------------------
(***************************************************************************)
(* Properties.                                                             *)
(***************************************************************************)
(* None of the internal errors the scheduler guards itself with can occur: *)
(* no module or check-only unit is visited before its providers have an    *)
(* outcome, no boundary is finished with a module that is unvisited        *)
(* without a cutoff or blocked without a diagnosed module to blame, and    *)
(* the gate never lets an incomplete compilation through to assembly.      *)
NoInternalError == outcome # "bug"

(* A successful compilation is a whole one: every module of every package  *)
(* and of the project compiled, every check-only unit visited and free of  *)
(* errors, nothing left out by a cutoff.                                   *)
SuccessIsComplete ==
    outcome = "success" =>
      /\ \A m \in Modules : slot[m] = "successful"
      /\ published = 1..(Boundaries - 1)
      /\ charged = 0
      /\ dropped = {} /\ stopped = {}

(* A module compiled to an artefact only against artefacts: each of its    *)
(* providers and each package facade it imports was compiled as well.      *)
SuccessNeedsProviders ==
    \A m \in Modules : slot[m] = "successful" =>
      /\ \A p \in Providers[m] : slot[p] = "successful"
      /\ \A b \in Packages[m] : slot[RootOf[b]] = "successful"

(* The stop flag the command reports tells the truth: it is set exactly    *)
(* when a finished command left a module or a check-only unit unvisited    *)
(* because of the project threshold.                                       *)
StopFlagTruthful ==
    outcome \in {"success", "diagnosed"} =>
      (CutoffFlag \in stopped <=>
         \/ \E m \in Modules : slot[m] = "unavailable"
         \/ dropped # {})

(* A blocked module is the consequence of a reported error: some module of *)
(* its own or of an earlier boundary is diagnosed.                         *)
BlockedIsExplained ==
    \A m \in Modules : slot[m] = "blocked" =>
      \E d \in Modules : slot[d] = "diagnosed" /\ BoundaryOf[d] <= BoundaryOf[m]

(* refuse_admission relies on it: once an admission was refused, no batch  *)
(* is charged any more, so every cutoff record shows the same total.       *)
NoChargeAfterRefusal ==
    [][(CutoffFlag \in stopped) => charged' = charged]_vars

=============================================================================
