---------------------------- MODULE Convergence ----------------------------
(***************************************************************************)
(* How one module compilation answers its generic requests: depth-first    *)
(* materialisation of every generated function it needs, the worklist that *)
(* propagates call summaries between the base module and its generated     *)
(* sidecars until none changes, the diagnostics that may only be decided   *)
(* then, and publication of the sidecars that are really called.           *)
(*                                                                         *)
(* A body is a base function or a generated function. A summary is two     *)
(* bits per body: the borrow checker's "writes" (standing for every        *)
(* monotone borrow effect: mutation and return alias) and the inferred     *)
(* "fails" (escapes_builtin_failure). A program fixes what each body calls *)
(* and does; the run explores many programs.                               *)
(***************************************************************************)
EXTENDS Naturals, Sequences, FiniteSets

CONSTANTS
    NumGens,     \* generated functions a program may ask for, in identity order
    NumFns,      \* functions of the base module
    Programs     \* the programs explored, a set of well-formed programs

ASSUME SizesAssumption == NumGens \in Nat /\ NumFns \in Nat

Gens == 1 .. NumGens
Fns == (NumGens + 1) .. (NumGens + NumFns)
Bodies == 1 .. (NumGens + NumFns)

\* ConvergenceNodeId: node 0 is the base module, every other one a sidecar.
Nodes == 0 .. NumGens
Base == 0
BodiesOf(n) == IF n = Base THEN Fns ELSE {n}

Facts == {"writes", "fails"}

(***************************************************************************)
(* calls: executable calls nothing handles; caught: executable calls under *)
(* a catch; asserts: calls of an assertion message, checked and never run; *)
(* eligible: bodies whose catch only asks that something in it may fail    *)
(* (any other catch is a custom-error catch, in which nothing may);        *)
(* clash: bodies that fail the borrow check once a callee writes;          *)
(* known: generated functions another module of the boundary published.    *)
(***************************************************************************)
Program ==
    [ calls    : [Bodies -> SUBSET Bodies],
      caught   : [Bodies -> SUBSET Bodies],
      asserts  : [Bodies -> SUBSET Bodies],
      eligible : SUBSET Bodies,
      writes   : SUBSET Bodies,
      numeric  : SUBSET Bodies,
      clash    : SUBSET Bodies,
      boundary : [Bodies -> {"infer", "slot", "none", "promised"}],
      known    : SUBSET Gens ]

Executes(p, b) == p.calls[b] \cup p.caught[b]
Targets(p, b) == Executes(p, b) \cup p.asserts[b]

\* What another module published is closed, calls nothing of this module and
\* no sidecar of it is asked for again.
WellFormed(p) ==
    \A g \in p.known : Targets(p, g) \subseteq p.known

ASSUME ProgramsAssumption ==
    /\ Programs \subseteq Program
    /\ \A p \in Programs : WellFormed(p)

VARIABLES
    prog,        \* the program being compiled; never changes
    phase,       \* where the compilation of the module is
    request,     \* GeneratedFunctionTransaction.records: the state of each request
    stack,       \* the recursion of materialise_generated_request
    report,      \* the current summary of every body
    installed,   \* per node, the summaries its HIR holds of what it calls outside
    queue,       \* convergence_queue
    queued,      \* queued_nodes
    store        \* identities in the boundary's generated store

vars == <<prog, phase, request, stack, report, installed, queue, queued, store>>

-----------------------------------------------------------------------------
(***************************************************************************)
(* Summaries.                                                              *)
(***************************************************************************)

\* HirBuiltinFailureBoundary::InferPrivate; a promise of infallibility is
\* discharged later and does not stop the inference.
Infers(b) == prog.boundary[b] \in {"infer", "promised"}

\* The bodies that have a fact of their own.
Source(f) ==
    IF f = "writes" THEN prog.writes
                    ELSE {b \in prog.numeric : Infers(b)}

\* The callees from which body b inherits a fact.
Flow(f, b) ==
    CASE f = "writes"            -> Executes(prog, b)
      [] f = "fails" /\ Infers(b) -> prog.calls[b]
      [] OTHER                   -> {}

ClosedUnder(f, B, seen, S) ==
    \A b \in B :
        (b \in Source(f) \/ Flow(f, b) \cap (S \cup seen) # {}) => b \in S

\* The least fixed point over the bodies B that check_borrows, or the loop of
\* infer_builtin_failure_summaries, reaches when seen is what holds outside B.
Least(f, B, seen) ==
    {b \in B : \A S \in SUBSET B : ClosedUnder(f, B, seen, S) => b \in S}

\* What the summaries of the whole program really are.
Exact(f) == Least(f, Bodies, {})

\* What the bodies of node n call: executable calls and, through
\* include_deferred_validation_dependencies, asserts.
Callees(n) == UNION {Targets(prog, b) : b \in BodiesOf(n)}

\* The bodies of other nodes whose summaries node n must hold.
External(n) == Callees(n) \ BodiesOf(n)

Clashes(n, seen, own) ==
    \E b \in BodiesOf(n) \cap prog.clash :
        Executes(prog, b) \cap (seen \cup own) # {}

Members == {Base} \cup {g \in Gens : request[g] = "complete"}

\* builtin_failure_diagnostic for body b, where failing is the set of bodies
\* whose retained summary escapes a builtin failure.
Faulty(b, failing) ==
    \/ /\ b \in prog.eligible
       /\ prog.caught[b] # {}
       /\ prog.caught[b] \cap failing = {}
    \/ /\ b \notin prog.eligible
       /\ prog.caught[b] \cap failing # {}
    \/ prog.asserts[b] \cap failing # {}
    \/ /\ prog.boundary[b] \in {"none", "promised"}
       /\ b \in prog.numeric \/ prog.calls[b] \cap failing # {}

\* retained_call_summary: a local callee is read from the node's own report,
\* any other from the summaries installed in its HIR.
Retained(n) == (report["fails"] \cap BodiesOf(n)) \cup installed[n]["fails"]

-----------------------------------------------------------------------------
(***************************************************************************)
(* Materialisation.                                                        *)
(***************************************************************************)

Unset == [f \in Facts |-> {}]

Init ==
    /\ prog \in Programs
    /\ phase = "lower"
    /\ request = [g \in Gens |-> "none"]
    /\ stack = <<>>
    /\ report = [f \in Facts |-> Exact(f) \cap prog.known]
    /\ installed = [n \in Nodes |-> Unset]
    /\ queue = <<>>
    /\ queued = {}
    /\ store = prog.known

\* The fault asks again for what the boundary has already published.
RequestsOfAnyone(n) ==
    {g \in Callees(n) \cap Gens :
        request[g] # "complete"}

\* The requests a node emits that are neither published nor completed here.
RequestsOf(n) ==
    {g \in Callees(n) \cap Gens :
        g \notin prog.known /\ request[g] # "complete"}

Registered(asked) ==
    [g \in Gens |-> IF g \in asked /\ request[g] = "none" THEN "pending"
                                                          ELSE request[g]]

Top == stack[Len(stack)]
Below == SubSeq(stack, 1, Len(stack) - 1)

\* The request the frame on top turns to next: identities ascend.
Turn(g) == g \in Top.todo /\ \A h \in Top.todo : g <= h

Advanced(g) == Append(Below, [Top EXCEPT !.todo = @ \ {g}])

\* Lowering of the base, materialisation of a request's AST or lowering of its
\* HIR diagnoses the body for a reason of its own.
RejectBody ==
    /\ \/ phase = "lower"
       \/ /\ phase = "materialise" /\ stack # <<>>
          /\ \/ \E g \in Gens : Turn(g) /\ request[g] = "pending"
             \/ Top.who # Base /\ Top.todo = {}
    /\ phase' = "rejected"
    /\ UNCHANGED <<prog, request, stack, report, installed, queue, queued, store>>

\* register_requests for the base module, its lowering and its first borrow
\* check, whose report has every failure bit unset.
LowerBase ==
    /\ phase = "lower"
    /\ request' = Registered(RequestsOf(Base))
    /\ LET own == Least("writes", Fns, {})
       IN  IF Clashes(Base, {}, own)
             THEN /\ phase' = "diagnosed"
                  /\ UNCHANGED <<stack, report>>
             ELSE /\ phase' = "materialise"
                  /\ stack' = <<[who |-> Base, todo |-> RequestsOf(Base)]>>
                  /\ report' = [report EXCEPT !["writes"] = @ \cup own]
    /\ UNCHANGED <<prog, installed, queue, queued, store>>

\* The fault takes a request under way for one that is done.
AlreadyEntered(g) == request[g] \in {"materialising", "complete"}

AlreadyComplete(g) == request[g] = "complete"

\* GeneratedRequestEntry::Materialise: the body is materialised and its nested
\* requests are registered before any of them is entered.
EnterRequest ==
    /\ phase = "materialise" /\ stack # <<>>
    /\ \E g \in Gens :
        /\ Turn(g) /\ request[g] = "pending"
        /\ request' = [Registered(RequestsOf(g)) EXCEPT ![g] = "materialising"]
        /\ stack' = Append(Advanced(g), [who |-> g, todo |-> RequestsOf(g)])
    /\ UNCHANGED <<prog, phase, report, installed, queue, queued, store>>

\* GeneratedRequestEntry::Complete: someone below finished it meanwhile.
SkipCompleted ==
    /\ phase = "materialise" /\ stack # <<>>
    /\ \E g \in Gens :
        /\ Turn(g) /\ AlreadyComplete(g)
        /\ stack' = Advanced(g)
    /\ UNCHANGED <<prog, phase, request, report, installed, queue, queued, store>>

\* GeneratedRequestEntry::Recursive: the request is under materialisation
\* further up; the module is diagnosed and its transaction dropped.
ReportRecursion ==
    /\ phase = "materialise" /\ stack # <<>>
    /\ \E g \in Gens : Turn(g) /\ request[g] = "materialising"
    /\ phase' = "recursive"
    /\ UNCHANGED <<prog, request, stack, report, installed, queue, queued, store>>

\* Lowering and borrow check of the body on top, against bootstrap summaries
\* that promise nothing, and transaction.complete.
CompleteRequest ==
    /\ phase = "materialise" /\ stack # <<>>
    /\ Top.who # Base /\ Top.todo = {}
    /\ request' = [request EXCEPT ![Top.who] = "complete"]
    /\ report' = [report EXCEPT !["writes"] =
                     @ \cup Least("writes", {Top.who}, {})]
    /\ stack' = Below
    /\ UNCHANGED <<prog, phase, installed, queue, queued, store>>

-----------------------------------------------------------------------------
(***************************************************************************)
(* The convergence worklist.                                               *)
(***************************************************************************)

\* The one ascending enumeration of a set of nodes.
Ascending(S) ==
    {s \in [1 .. Cardinality(S) -> S] :
        /\ \A i, j \in 1 .. Cardinality(S) : i < j => s[i] < s[j]
        /\ \A n \in S : \E i \in 1 .. Cardinality(S) : s[i] = n}

\* Every root request is complete: all nodes enter the queue in id order.
StartConvergence ==
    /\ phase = "materialise" /\ stack # <<>>
    /\ Top.who = Base /\ Top.todo = {}
    /\ phase' = "converge"
    /\ stack' = <<>>
    /\ \E s \in Ascending(Members) : queue' = s
    /\ queued' = Members
    /\ UNCHANGED <<prog, request, report, installed, store>>

\* direct_convergence_summaries: what the current reports say of the callees.
Direct(n) == [f \in Facts |-> report[f] \cap External(n)]

\* The fault trusts the bootstrap report when nothing was installed.
VisitedNoInference(n) ==
    [f \in Facts |->
        IF Direct(n) = installed[n]
          THEN report[f] \cap BodiesOf(n)
          ELSE Least(f, BodiesOf(n), Direct(n)[f])]

\* The reports of node n after a visit. Borrow analysis is repeated only when
\* an installed summary changed; failure inference always runs.
Visited(n) ==
    [f \in Facts |->
        IF f = "writes" /\ Direct(n) = installed[n]
          THEN report[f] \cap BodiesOf(n)
          ELSE Least(f, BodiesOf(n), Direct(n)[f])]

Widened(n) == UNION {Visited(n)[f] \ report[f] : f \in Facts}

\* validate_public_call_summary_transition refuses a step down.
Narrows(n) ==
    \E f \in Facts : ~ (report[f] \cap BodiesOf(n) \subseteq Visited(n)[f])

\* The fault wakes only the generated callers.
DependentsGenerated(n) ==
    {m \in Members \ {Base} : External(m) \cap Widened(n) # {}}

\* The fault wakes the callers of every visited node.
DependentsAlways(n) ==
    {m \in Members : External(m) \cap BodiesOf(n) # {}}

\* enqueue_base_dependents and enqueue_convergence_callers.
Dependents(n) ==
    LET widened == Widened(n)
    IN  IF n = Base
          THEN {m \in Members \ {Base} : External(m) \cap widened # {}}
          ELSE {m \in Members : widened # {} /\ n \in External(m)}

\* One pass of the loop of run_generated_summary_convergence.
Visit ==
    /\ phase = "converge" /\ queue # <<>>
    /\ LET n == Head(queue)
           new == Dependents(n) \ (queued \ {n})
       IN  /\ installed' = [installed EXCEPT ![n] = Direct(n)]
           /\ CASE /\ Direct(n) # installed[n]
                   /\ Clashes(n, Direct(n)["writes"], Visited(n)["writes"])
                     -> /\ phase' = "diagnosed"
                        /\ queue' = Tail(queue)
                        /\ queued' = queued \ {n}
                        /\ UNCHANGED report
                [] OTHER
                     -> /\ phase' = IF Narrows(n) THEN "broken" ELSE phase
                        /\ report' = [f \in Facts |->
                              (report[f] \ BodiesOf(n)) \cup Visited(n)[f]]
                        /\ \E s \in Ascending(new) : queue' = Tail(queue) \o s
                        /\ queued' = (queued \ {n}) \cup new
    /\ UNCHANGED <<prog, request, stack, store>>

-----------------------------------------------------------------------------
(***************************************************************************)
(* Verdict and publication.                                                *)
(***************************************************************************)

\* The fault decides once the base module has nothing left to learn.
BaseSettled == Base \notin queued

\* The worklist ran dry.
Settled == queue = <<>>

\* validate_builtin_failure_boundaries over the base module and every sidecar.
Validate ==
    /\ phase = "converge" /\ Settled
    /\ phase' = IF \E n \in Members, b \in Bodies :
                      b \in BodiesOf(n) /\ Faulty(b, Retained(n))
                  THEN "diagnosed" ELSE "validated"
    /\ UNCHANGED <<prog, request, stack, report, installed, queue, queued, store>>

\* The fault keeps whatever was materialised.
ReachableAll == {g \in Gens : request[g] = "complete"}

\* reachable_generated_sidecars: a walk from the base functions over
\* executable calls, through the sidecars completed here.
ClosedWalk(S) ==
    /\ \A b \in Fns : Executes(prog, b) \cap Gens \subseteq S
    /\ \A g \in S : request[g] = "complete" => Executes(prog, g) \cap Gens \subseteq S

Reachable ==
    {g \in Gens : request[g] = "complete"
                  /\ \A S \in SUBSET Gens : ClosedWalk(S) => g \in S}

\* retain_reachable_sidecars, finish and publish_module_and_generated. A
\* request still open, or a sidecar the boundary already holds, is a bug.
Publish ==
    /\ phase = "validated"
    /\ IF \/ \E g \in Gens : request[g] \in {"pending", "materialising"}
          \/ Reachable \cap store # {}
         THEN phase' = "broken" /\ UNCHANGED store
         ELSE phase' = "published" /\ store' = store \cup Reachable
    /\ UNCHANGED <<prog, request, stack, report, installed, queue, queued>>

Finished == phase \in {"rejected", "recursive", "diagnosed", "published"}

Done == Finished /\ UNCHANGED vars

Step ==
    \/ LowerBase \/ RejectBody
    \/ EnterRequest \/ SkipCompleted \/ ReportRecursion \/ CompleteRequest
    \/ StartConvergence \/ Visit
    \/ Validate \/ Publish

Next == Step \/ Done

Spec == Init /\ [][Next]_vars

\* One thread runs the compilation of a module to its end.
FairSpec == Spec /\ WF_vars(Step)

-----------------------------------------------------------------------------
(***************************************************************************)
(* Properties.                                                             *)
(***************************************************************************)

\* Type correctness; a node's HIR holds summaries of its own callees only, and
\* the requests being materialised are those of the recursion's frames.
TypeOK ==
    /\ prog \in Program /\ WellFormed(prog)
    /\ phase \in {"lower", "materialise", "converge", "validated", "published",
                  "rejected", "recursive", "diagnosed", "broken"}
    /\ request \in [Gens -> {"none", "pending", "materialising", "complete"}]
    /\ stack \in Seq([who : Nodes, todo : SUBSET Gens])
    /\ phase = "materialise" =>
          \A g \in Gens : request[g] = "materialising"
                          <=> \E i \in 1 .. Len(stack) : stack[i].who = g
    /\ report \in [Facts -> SUBSET Bodies]
    /\ installed \in [Nodes -> [Facts -> SUBSET Bodies]]
    /\ \A n \in Nodes, f \in Facts : installed[n][f] \subseteq External(n)
    /\ queue \in Seq(Nodes)
    /\ queued \subseteq Nodes
    /\ store \subseteq Gens

\* The worklist's invariant: the bitset and the deque hold the same nodes, none
\* twice, and a node whose installed summaries are behind the current report of
\* some callee is waiting in it.
StaleIsQueued ==
    phase = "converge" =>
        /\ \A n \in Nodes :
              n \in queued <=> \E i \in 1 .. Len(queue) : queue[i] = n
        /\ \A i, j \in 1 .. Len(queue) : queue[i] = queue[j] => i = j
        /\ \A n \in Members \ queued : installed[n] = Direct(n)

\* The bodies this compilation answers for.
Compiled == Fns \cup {g \in Gens : request[g] = "complete"}

\* When the worklist runs dry every summary is exact: it is the least fixed
\* point over the whole program, whatever order nodes were visited in.
ExactAtFixpoint ==
    (phase = "converge" /\ queue = <<>>) \/ phase \in {"validated", "published"} =>
        \A f \in Facts, b \in Compiled \cup prog.known :
            b \in report[f] <=> b \in Exact(f)

\* No visit narrows a summary, no request is left open and no sidecar is
\* published twice: the internal errors of the transaction are unreachable.
NeverBroken == phase # "broken"

\* The generated functions the module asks for, directly or through bodies it
\* materialises itself.
Asked ==
    {g \in Gens \ prog.known :
        \A S \in SUBSET (Gens \ prog.known) :
            (\A b \in Fns \cup S :
                (Targets(prog, b) \cap Gens) \ prog.known \subseteq S) => g \in S}

\* Recursion is reported exactly when the generated functions asked for call
\* each other in a circle, be it through an assertion message; a circle closed
\* through a base function is no recursion of requests.
RecursionReported ==
    LET Circle(S) == S # {} /\ \A g \in S : Targets(prog, g) \cap S # {}
    IN  /\ phase = "recursive" => \E S \in SUBSET Asked : Circle(S)
        /\ phase \in {"converge", "validated", "published"} =>
              ~ \E S \in SUBSET Asked : Circle(S)

\* A body that is wrong under the exact summaries.
Wrong(b) ==
    \/ Faulty(b, Exact("fails"))
    \/ b \in prog.clash /\ Executes(prog, b) \cap Exact("writes") # {}

\* The verdict is the one the exact summaries give: a module is diagnosed only
\* for a body that is wrong under them, and accepted only if no body is. A catch
\* that must be able to fail looks wrong until its callee's summary arrives.
VerdictIsFinal ==
    /\ phase = "diagnosed" => \E b \in Fns \cup Asked : Wrong(b)
    /\ phase \in {"validated", "published"} => \A b \in Fns \cup Asked : ~ Wrong(b)

\* What is published links: every generated function that the base module or a
\* stored sidecar executes is in the store, and what only an assertion message
\* needed is not.
PublishedLinks ==
    phase = "published" =>
        /\ \A b \in Fns \cup store : Executes(prog, b) \cap Gens \subseteq store
        /\ \A g \in store \ prog.known :
              \E b \in Fns \cup store : g \in Executes(prog, b)

\* The compilation of a module comes to an end.
CompilationEnds == <>Finished
=============================================================================
