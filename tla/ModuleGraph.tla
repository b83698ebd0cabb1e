---------------------------- MODULE ModuleGraph -----------------------------
(***************************************************************************)
(* The dependency graph of the modules of one boundary:                    *)
(* create_project_modules/project_module_graph.rs.                         *)
(*                                                                         *)
(* Edges are inserted while the graph is under construction; completing it *)
(* freezes the adjacency; compile_waves then sweeps it, counting down the  *)
(* providers each module still waits for.  What the sweep leaves over is   *)
(* on or behind a cycle, and one module of a cycle is named.               *)
(***************************************************************************)
EXTENDS Integers, FiniteSets, Sequences

CONSTANT NumModules     \* modules are 1..NumModules, in ModuleId order

Modules == 1..NumModules

ASSUME GraphAssumption == NumModules \in Nat

VARIABLES
    phase,      \* see Phases
    providers,  \* dependency_providers
    consumers,  \* provider_consumers
    remaining,  \* remaining_providers of the sweep
    ready,      \* the next wave
    waves,      \* waves pushed so far
    processed,  \* number of modules in them
    visited,    \* modules the cycle walk has passed
    current     \* module the cycle walk is at; 0 before it starts

vars == <<phase, providers, consumers, remaining, ready, waves, processed,
          visited, current>>

Phases == {"construction", "frozen", "sweep", "walk", "ordered", "cycle"}

(* The graph has its type; no counter of the sweep underflows.             *)
TypeOK ==
    /\ phase \in Phases
    /\ providers \in [Modules -> SUBSET Modules]
    /\ consumers \in [Modules -> SUBSET Modules]
    /\ remaining \in [Modules -> 0..NumModules]
    /\ ready \in SUBSET Modules
    /\ waves \in Seq(SUBSET Modules)
    /\ processed \in 0..NumModules
    /\ visited \in SUBSET Modules
    /\ current \in 0..NumModules

Init ==
    /\ phase = "construction"
    /\ providers = [m \in Modules |-> {}]
    /\ consumers = [m \in Modules |-> {}]
    /\ remaining = [m \in Modules |-> 0]
    /\ ready = {}
    /\ waves = <<>>
    /\ processed = 0
    /\ visited = {}
    /\ current = 0

-----------------------------------------------------------------------------
(* An edge already present changes nothing; a self-edge, or an edge after  *)
(* completion, is refused with an internal error.                          *)
AddDependencyEdge(p, c) ==
    /\ phase = "construction"
    /\ p # c
    /\ p \notin providers[c]
    /\ providers' = [providers EXCEPT ![c] = @ \cup {p}]
    /\ consumers' = [consumers EXCEPT ![p] = @ \cup {c}]
    /\ UNCHANGED <<phase, remaining, ready, waves, processed, visited, current>>

Complete ==
    /\ phase = "construction"
    /\ phase' = "frozen"
    /\ UNCHANGED <<providers, consumers, remaining, ready, waves, processed,
                   visited, current>>

(* compile_waves up to its loop *)
StartWaves ==
    /\ phase = "frozen"
    /\ phase' = "sweep"
    /\ remaining' = [m \in Modules |-> Cardinality(providers[m])]
    /\ ready' = {m \in Modules : providers[m] = {}}
    /\ UNCHANGED <<providers, consumers, waves, processed, visited, current>>

(* Fault: a module is ready when its first provider is.                    *)
PushWaveEager ==
    /\ phase = "sweep"
    /\ ready # {}
    /\ waves' = Append(waves, ready)
    /\ processed' = processed + Cardinality(ready)
    /\ ready' = {c \in Modules \ UNION {waves'[i] : i \in 1..Len(waves')} :
                   \E p \in ready : c \in consumers[p]}
    /\ UNCHANGED <<phase, providers, consumers, remaining, visited, current>>

(* One round of the loop: the wave is pushed and every consumer of one of  *)
(* its modules counts one provider less; at zero it is ready.              *)
PushWave ==
    /\ phase = "sweep"
    /\ ready # {}
    /\ waves' = Append(waves, ready)
    /\ processed' = processed + Cardinality(ready)
    /\ LET fewer(c) == Cardinality({p \in ready : c \in consumers[p]})
       IN /\ remaining' = [c \in Modules |-> remaining[c] - fewer(c)]
          /\ ready' = {c \in Modules : fewer(c) > 0 /\ remaining[c] = fewer(c)}
    /\ UNCHANGED <<phase, providers, consumers, visited, current>>

BlockedModules == {m \in Modules : remaining[m] > 0}

Least(S) == CHOOSE m \in S : \A n \in S : m <= n

(* Fault: the first module left over is taken for the witness.             *)
EndWavesFirstLeft ==
    /\ phase = "sweep"
    /\ ready = {}
    /\ phase' = IF processed < NumModules THEN "cycle" ELSE "ordered"
    /\ current' = IF processed < NumModules THEN Least(BlockedModules)
                  ELSE current
    /\ UNCHANGED <<providers, consumers, remaining, ready, waves, processed,
                   visited>>

(* Fault: the modules left over are not counted.                           *)
EndWavesUncounted ==
    /\ phase = "sweep"
    /\ ready = {}
    /\ phase' = "ordered"
    /\ UNCHANGED <<providers, consumers, remaining, ready, waves, processed,
                   visited, current>>

EndWaves ==
    /\ phase = "sweep"
    /\ ready = {}
    /\ \/ /\ processed = NumModules
          /\ phase' = "ordered"
          /\ UNCHANGED current
       \/ /\ processed < NumModules
          /\ phase' = "walk"
          /\ current' = Least(BlockedModules)
    /\ UNCHANGED <<providers, consumers, remaining, ready, waves, processed,
                   visited>>

(* Fault: the walk does not remember where it was.                         *)
WalkOnForgetful ==
    /\ phase = "walk"
    /\ current \notin visited
    /\ current' = Least(providers[current] \cap BlockedModules)
    /\ UNCHANGED <<phase, providers, consumers, remaining, ready, waves,
                   processed, visited>>

(* module_on_dependency_cycle: on to the first blocked provider, until a   *)
(* module repeats.                                                         *)
WalkOn ==
    /\ phase = "walk"
    /\ current \notin visited
    /\ visited' = visited \cup {current}
    /\ current' = Least(providers[current] \cap BlockedModules)
    /\ UNCHANGED <<phase, providers, consumers, remaining, ready, waves,
                   processed>>

WalkEnds ==
    /\ phase = "walk"
    /\ current \in visited
    /\ phase' = "cycle"
    /\ UNCHANGED <<providers, consumers, remaining, ready, waves, processed,
                   visited, current>>

(* The waves, or the cycle diagnostic, have been returned.                 *)
Returned == phase \in {"ordered", "cycle"} /\ UNCHANGED vars

Next ==
    \/ \E p, c \in Modules : AddDependencyEdge(p, c)
    \/ Complete
    \/ StartWaves
    \/ PushWave
    \/ EndWaves
    \/ WalkOn
    \/ WalkEnds
    \/ Returned

Spec == Init /\ [][Next]_vars

(* compile_waves is one call: once it has begun its steps are taken.       *)
FairSpec ==
    Spec /\ WF_vars(StartWaves \/ PushWave \/ EndWaves \/ WalkOn \/ WalkEnds)

-----------------------------------------------------------------------------
(***************************************************************************)
(* Properties.                                                             *)
(***************************************************************************)
(* p is in an earlier wave than c.                                         *)
Earlier(p, c) ==
    \E i, j \in 1..Len(waves) : i < j /\ p \in waves[i] /\ c \in waves[j]

(* A module is put in a wave only after every one of its providers was put *)
(* in an earlier one.                                                      *)
WavesRespectProviders ==
    \A i \in 1..Len(waves) : \A c \in waves[i] : \A p \in providers[c] :
      Earlier(p, c)

(* The returned waves hold every module exactly once.                      *)
WavesPartition ==
    phase = "ordered" =>
      \A m \in Modules : Cardinality({i \in 1..Len(waves) : m \in waves[i]}) = 1

(* The modules m depends on, directly or through others: those in every    *)
(* set that holds the providers of m and the providers of its own members. *)
DependsOn(m) ==
    {p \in Modules :
        \A S \in SUBSET Modules :
            providers[m] \subseteq S /\ (\A q \in S : providers[q] \subseteq S)
                => p \in S}

(* The module named in the circular-dependency diagnostic depends on       *)
(* itself: a module that only depends on a cycle is never blamed.  Until   *)
(* then the walk always has a blocked provider to go to, so that neither   *)
(* of its "expect"s can panic.                                             *)
WitnessOnCycle ==
    /\ phase = "cycle" => current \in DependsOn(current)
    /\ phase = "walk" => /\ current \in BlockedModules
                         /\ providers[current] \cap BlockedModules # {}

(* Every completed graph is answered, with waves or with a cycle.          *)
SweepEnds == (phase = "frozen") ~> (phase \in {"ordered", "cycle"})
=============================================================================
