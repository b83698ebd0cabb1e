------------------------- MODULE ConvergenceProofs --------------------------
(***************************************************************************)
(* Proofs about the answering of a module's generic requests, for every    *)
(* well-formed program: any number of base and generated functions, calling *)
(* each other in any way.                                                  *)
(***************************************************************************)
EXTENDS Convergence, FiniteSetTheorems, SequenceTheorems, TLAPS

USE SizesAssumption, ProgramsAssumption
    DEF SizesAssumption, ProgramsAssumption

-----------------------------------------------------------------------------
(* The requests completed by this compilation, and what the bodies of a    *)
(* node ask for.                                                           *)
Complete == {g \in Gens : request[g] = "complete"}

Known == prog.known

NodeTargets(n) == Callees(n) \cap Gens

CircleIn(S) == S # {} /\ \A g \in S : Targets(prog, g) \cap S # {}

Working == {"converge", "validated", "published"}

(* What is requested is asked for; a completed request completed all it    *)
(* asks for before, so completed requests form no circle.                  *)
RequestInv ==
    /\ \A g \in Gens : request[g] # "none" => g \in Asked
    /\ phase = "lower" => \A g \in Gens : request[g] = "none"
    /\ \A g \in Complete : Targets(prog, g) \cap Gens \subseteq Complete \cup Known
    /\ \A S \in SUBSET Complete : ~CircleIn(S)

(* The frames: each was entered from the one below, none twice, and what   *)
(* its node asks for is done, still to do, or the frame above.             *)
StackInv ==
    phase = "materialise" =>
        /\ stack # <<>> /\ stack[1].who = Base
        /\ \A i \in 2..Len(stack) :
             stack[i].who \in NodeTargets(stack[i - 1].who) \ Known
        /\ \A i, j \in 1..Len(stack) : stack[i].who = stack[j].who => i = j
        /\ \A i \in 1..Len(stack) :
             /\ stack[i].todo \subseteq NodeTargets(stack[i].who) \ Known
             /\ \A g \in NodeTargets(stack[i].who) \ Known :
                  \/ g \in Complete
                  \/ g \in stack[i].todo
                  \/ i < Len(stack) /\ g = stack[i + 1].who
        /\ \A g \in Gens : request[g] = "pending" =>
             \E i \in 1..Len(stack) : g \in stack[i].todo

(* Summaries never claim what is not so, and those of published functions  *)
(* are complete.                                                           *)
SoundInv ==
    /\ \A f \in Facts : report[f] \subseteq Exact(f)
    /\ \A f \in Facts : report[f] \cap Known = Exact(f) \cap Known
    /\ \A n \in Nodes, f \in Facts : installed[n][f] \subseteq report[f]

(* Before the worklist starts only bootstrap summaries exist.              *)
BootInv ==
    /\ phase \in {"lower", "materialise"} =>
         /\ report["fails"] \subseteq Known
         /\ installed = [n \in Nodes |-> Unset]
    /\ phase = "lower" => report["writes"] \subseteq Known
    /\ phase = "materialise" => report["writes"] \subseteq Compiled \cup Known

(* A node's writes are those of its last borrow check, its failures no     *)
(* more than an inference would find now, and it passed the borrow check.  *)
LocalInv ==
    phase \in Working \cup {"materialise"} =>
        \A n \in Members :
            /\ report["writes"] \cap BodiesOf(n) =
                 Least("writes", BodiesOf(n), installed[n]["writes"])
            /\ report["fails"] \cap BodiesOf(n) \subseteq
                 Least("fails", BodiesOf(n), installed[n]["fails"])
            /\ ~Clashes(n, installed[n]["writes"], report["writes"] \cap BodiesOf(n))

(* The worklist: everything asked for is there, and a node that does not   *)
(* wait has inferred from the current reports.                             *)
WorkInv ==
    phase \in Working =>
        /\ NodeTargets(Base) \subseteq Complete \cup Known
        /\ \A g \in Gens : request[g] \in {"none", "complete"}
        /\ \A n \in Nodes :
             n \in queued <=> \E i \in 1..Len(queue) : queue[i] = n
        /\ \A i, j \in 1..Len(queue) : queue[i] = queue[j] => i = j
        /\ queued \subseteq Members
        /\ \A n \in Members \ queued :
             /\ installed[n] = Direct(n)
             /\ report["fails"] \cap BodiesOf(n) =
                  Least("fails", BodiesOf(n), installed[n]["fails"])
        /\ phase # "converge" => queue = <<>>

StoreInv == phase # "published" => store = Known

(* Recursion is found where there is a circle.                             *)
CircleFound == phase = "recursive" => \E S \in SUBSET Asked : CircleIn(S)

IInv ==
    /\ TypeOK /\ RequestInv /\ StackInv /\ SoundInv /\ BootInv /\ LocalInv
    /\ WorkInv /\ StoreInv /\ CircleFound
    /\ NeverBroken /\ VerdictIsFinal /\ PublishedLinks

-----------------------------------------------------------------------------
(***************************************************************************)
(* Programs and summaries.                                                 *)
(***************************************************************************)
LEMMA BodiesSplit ==
    /\ Bodies = Gens \cup Fns /\ Gens \cap Fns = {} /\ Base \notin Gens
    /\ Nodes = {Base} \cup Gens
    /\ \A g \in Gens : BodiesOf(g) = {g}
    /\ BodiesOf(Base) = Fns
    /\ \A n \in Nodes : BodiesOf(n) \subseteq Bodies
    /\ \A b \in Bodies : \E n \in Nodes : b \in BodiesOf(n)
<1>1. Bodies = Gens \cup Fns /\ Gens \cap Fns = {}
  BY DEF Bodies, Gens, Fns
<1>2. Base \notin Gens /\ Nodes = {Base} \cup Gens
  BY DEF Base, Gens, Nodes
<1>3. (\A g \in Gens : BodiesOf(g) = {g}) /\ BodiesOf(Base) = Fns
  BY <1>2 DEF BodiesOf
<1> QED BY <1>1, <1>2, <1>3

LEMMA ProgramTyped ==
    ASSUME TypeOK
    PROVE  /\ \A b \in Bodies : /\ prog.calls[b] \subseteq Bodies
                                /\ prog.caught[b] \subseteq Bodies
                                /\ prog.asserts[b] \subseteq Bodies
                                /\ Executes(prog, b) \subseteq Targets(prog, b)
                                /\ prog.calls[b] \subseteq Executes(prog, b)
                                /\ prog.caught[b] \subseteq Executes(prog, b)
                                /\ prog.asserts[b] \subseteq Targets(prog, b)
                                /\ Targets(prog, b) \subseteq Bodies
           /\ Known \subseteq Gens
           /\ \A g \in Known : Targets(prog, g) \subseteq Known
<1>1. prog \in Program /\ WellFormed(prog)
  BY DEF TypeOK
<1>2. /\ prog.calls \in [Bodies -> SUBSET Bodies]
      /\ prog.caught \in [Bodies -> SUBSET Bodies]
      /\ prog.asserts \in [Bodies -> SUBSET Bodies]
      /\ prog.known \in SUBSET Gens
  BY <1>1 DEF Program
<1>3. \A g \in Known : Targets(prog, g) \subseteq Known
  BY <1>1 DEF WellFormed, Known
<1> QED BY <1>2, <1>3 DEF Targets, Executes, Known

(* The program never changes, and neither does what is defined from it.    *)
LEMMA ProgramFrame ==
    ASSUME prog' = prog
    PROVE  /\ \A f, B, seen : Least(f, B, seen)' = Least(f, B, seen)
           /\ \A f : Exact(f)' = Exact(f)
           /\ \A n : External(n)' = External(n)
           /\ \A n : NodeTargets(n)' = NodeTargets(n)
           /\ \A n, seen, own : Clashes(n, seen, own)' = Clashes(n, seen, own)
           /\ \A S : CircleIn(S)' = CircleIn(S)
           /\ \A b, S : Faulty(b, S)' = Faulty(b, S)
           /\ \A b : Wrong(b)' = Wrong(b)
           /\ Asked' = Asked /\ Known' = Known
<1>1. \A f : Source(f)' = Source(f)
  BY DEF Source, Infers
<1>2. \A f, b : Flow(f, b)' = Flow(f, b)
  BY DEF Flow, Infers, Executes
<1>3. \A f, B, seen, S : ClosedUnder(f, B, seen, S)' = ClosedUnder(f, B, seen, S)
  BY <1>1, <1>2 DEF ClosedUnder
<1>4. \A f, B, seen : Least(f, B, seen)' = Least(f, B, seen)
  BY <1>3 DEF Least
<1>5. \A f : Exact(f)' = Exact(f)
  BY <1>4 DEF Exact
<1>6. /\ \A n : External(n)' = External(n)
      /\ \A n : NodeTargets(n)' = NodeTargets(n)
  BY DEF External, NodeTargets, Callees
<1>7. \A n, seen, own : Clashes(n, seen, own)' = Clashes(n, seen, own)
  BY DEF Clashes
<1>8. \A S : CircleIn(S)' = CircleIn(S)
  BY DEF CircleIn
<1>9. \A b, S : Faulty(b, S)' = Faulty(b, S)
  BY DEF Faulty
<1>10. \A b : Wrong(b)' = Wrong(b)
  BY <1>5, <1>9 DEF Wrong
<1>11. Asked' = Asked /\ Known' = Known
  BY DEF Asked, Known
<1> QED BY <1>4, <1>5, <1>6, <1>7, <1>8, <1>9, <1>10, <1>11

(* Least is closed: another round of the analysis finds nothing new.       *)
LEMMA LeastClosed ==
    ASSUME NEW f, NEW B, NEW seen
    PROVE  /\ Least(f, B, seen) \subseteq B
           /\ ClosedUnder(f, B, seen, Least(f, B, seen))
<1>1. Least(f, B, seen) \subseteq B
  BY DEF Least
<1>2. ASSUME NEW b \in B,
             b \in Source(f) \/ Flow(f, b) \cap (Least(f, B, seen) \cup seen) # {}
      PROVE  b \in Least(f, B, seen)
  <2> SUFFICES ASSUME NEW S \in SUBSET B, ClosedUnder(f, B, seen, S)
               PROVE  b \in S
    BY DEF Least
  <2>1. Least(f, B, seen) \subseteq S
    BY DEF Least
  <2> QED BY <1>2, <2>1 DEF ClosedUnder
<1> QED BY <1>1, <1>2 DEF ClosedUnder

(* ... and smallest: no closed set leaves anything of it out.              *)
LEMMA LeastSmallest ==
    ASSUME NEW f, NEW B, NEW seen, NEW S \in SUBSET B, ClosedUnder(f, B, seen, S)
    PROVE  Least(f, B, seen) \subseteq S
BY DEF Least

(* The analysis is monotone in the summaries it is given.                  *)
LEMMA LeastMonotone ==
    ASSUME NEW f, NEW B, NEW seen, NEW more, seen \subseteq more
    PROVE  Least(f, B, seen) \subseteq Least(f, B, more)
<1>1. ClosedUnder(f, B, seen, Least(f, B, more))
  BY LeastClosed DEF ClosedUnder
<1> QED BY <1>1, LeastClosed, LeastSmallest

(* From sound summaries the analysis of a node derives sound ones.         *)
LEMMA LeastSound ==
    ASSUME NEW f, NEW B \in SUBSET Bodies, NEW seen, seen \subseteq Exact(f)
    PROVE  Least(f, B, seen) \subseteq Exact(f)
<1>1. ClosedUnder(f, Bodies, {}, Exact(f))
  BY LeastClosed DEF Exact
<1>2. ClosedUnder(f, B, seen, Exact(f) \cap B)
  BY <1>1 DEF ClosedUnder
<1> QED BY <1>2, LeastSmallest

(* Every callee a fact flows from is a call target.                        *)
LEMMA FlowIsTarget ==
    ASSUME TypeOK, NEW f \in Facts, NEW b \in Bodies
    PROVE  Flow(f, b) \subseteq Targets(prog, b)
<1>1. CASE f = "writes"
  BY <1>1, ProgramTyped DEF Flow
<1>2. CASE f = "fails"
  BY <1>2, ProgramTyped DEF Flow
<1> QED BY <1>1, <1>2 DEF Facts

(* What Asked holds asks only for more of it.                              *)
LEMMA AskedClosed ==
    ASSUME TypeOK
    PROVE  /\ Asked \subseteq Gens \ Known
           /\ \A b \in Fns \cup Asked :
                (Targets(prog, b) \cap Gens) \ Known \subseteq Asked
<1>1. Asked \subseteq Gens \ Known
  BY DEF Asked, Known
<1>2. ASSUME NEW b \in Fns \cup Asked,
             NEW g \in (Targets(prog, b) \cap Gens) \ Known
      PROVE  g \in Asked
  <2> SUFFICES ASSUME NEW S \in SUBSET (Gens \ prog.known),
                      \A c \in Fns \cup S :
                         (Targets(prog, c) \cap Gens) \ prog.known \subseteq S
               PROVE  g \in S
    BY DEF Asked, Known
  <2>1. b \in Fns \cup S
    BY DEF Asked
  <2> QED BY <2>1 DEF Known
<1> QED BY <1>1, <1>2

LEMMA MembersTyped ==
    /\ Members = {Base} \cup Complete /\ Members \subseteq Nodes
    /\ Complete \subseteq Gens /\ Compiled = Fns \cup Complete
    /\ \A b \in Compiled : \E n \in Members : b \in BodiesOf(n)
    /\ \A n \in Members : BodiesOf(n) \subseteq Compiled
<1>1. Members = {Base} \cup Complete /\ Complete \subseteq Gens
      /\ Compiled = Fns \cup Complete
  BY DEF Members, Complete, Compiled
<1> QED BY <1>1, BodiesSplit

(* What a node asks for, seen from one of its bodies.                      *)
LEMMA TargetsOfNode ==
    ASSUME TypeOK, NEW n \in Nodes
    PROVE  /\ NodeTargets(n) \subseteq Gens
           /\ \A b \in BodiesOf(n) :
                /\ Targets(prog, b) \cap Gens \subseteq NodeTargets(n)
                /\ Targets(prog, b) \subseteq External(n) \cup BodiesOf(n)
           /\ \A g \in NodeTargets(n) :
                \E b \in BodiesOf(n) : g \in Targets(prog, b)
           /\ External(n) \cap BodiesOf(n) = {}
           /\ External(n) \subseteq Bodies
           /\ External(n) \cap Gens \subseteq NodeTargets(n)
<1>1. \A b \in BodiesOf(n) : Targets(prog, b) \subseteq Bodies
  BY ProgramTyped, BodiesSplit
<1>a. \A c : c \in Callees(n) <=> \E b \in BodiesOf(n) : c \in Targets(prog, b)
  BY DEF Callees
<1>2. /\ NodeTargets(n) \subseteq Gens
      /\ \A g \in NodeTargets(n) : \E b \in BodiesOf(n) : g \in Targets(prog, b)
      /\ \A b \in BodiesOf(n) : Targets(prog, b) \cap Gens \subseteq NodeTargets(n)
  BY <1>a DEF NodeTargets
<1>3. /\ External(n) \cap BodiesOf(n) = {}
      /\ \A b \in BodiesOf(n) : Targets(prog, b) \subseteq External(n) \cup BodiesOf(n)
      /\ \A c \in External(n) : \E b \in BodiesOf(n) : c \in Targets(prog, b)
  BY <1>a DEF External
<1>4. External(n) \subseteq Bodies
  BY <1>1, <1>3
<1>5. External(n) \cap Gens \subseteq NodeTargets(n)
  BY <1>2, <1>3
<1> QED BY <1>2, <1>3, <1>4, <1>5

(* The requests a node emits: what it asks for and nobody has answered.    *)
LEMMA RequestsAre ==
    /\ \A n : RequestsOf(n) = (NodeTargets(n) \ Known) \ Complete
    /\ \A n : RequestsOf(n) \subseteq Gens
BY DEF RequestsOf, NodeTargets, Known, Complete

LEMMA RequestFrame ==
    ASSUME prog' = prog, request' = request
    PROVE  /\ Complete' = Complete /\ Members' = Members /\ Compiled' = Compiled
           /\ RequestInv /\ (phase = "lower" \/ phase' # "lower") => RequestInv'
<1>1. Complete' = Complete /\ Members' = Members /\ Compiled' = Compiled
  BY DEF Complete, Members, Compiled
<1>2. Asked' = Asked /\ Known' = Known
  BY ProgramFrame
<1>3. ASSUME RequestInv, phase = "lower" \/ phase' # "lower" PROVE RequestInv'
  <2>1. \A g \in Gens : request'[g] # "none" => g \in Asked'
    BY <1>2, <1>3 DEF RequestInv
  <2>2. phase' = "lower" => \A g \in Gens : request'[g] = "none"
    BY <1>3 DEF RequestInv
  <2>3. \A g \in Complete' :
          Targets(prog', g) \cap Gens \subseteq Complete' \cup Known'
    BY <1>1, <1>2, <1>3 DEF RequestInv
  <2>4. \A S \in SUBSET Complete' : ~CircleIn(S)'
    BY <1>1, <1>3, ProgramFrame DEF RequestInv
  <2> QED BY <2>1, <2>2, <2>3, <2>4 DEF RequestInv
<1> QED BY <1>1, <1>3

LEMMA SoundFrame ==
    ASSUME SoundInv, prog' = prog, report' = report, installed' = installed
    PROVE  SoundInv'
BY ProgramFrame DEF SoundInv

-----------------------------------------------------------------------------
(***************************************************************************)
(* Materialisation.                                                        *)
(***************************************************************************)
(* A compilation that ends without a result.                               *)
LEMMA EndKeepsInv ==
    ASSUME IInv, prog' = prog, store' = store, phase # "published",
           phase' \in {"rejected", "recursive", "diagnosed"},
           TypeOK', RequestInv', SoundInv',
           phase' = "recursive" => \E S \in SUBSET Asked : CircleIn(S),
           phase' = "diagnosed" => \E b \in Fns \cup Asked : Wrong(b)
    PROVE  IInv'
<1>1. StackInv' /\ BootInv' /\ LocalInv' /\ WorkInv'
  BY DEF StackInv, BootInv, LocalInv, WorkInv, Working
<1>2. StoreInv'
  BY DEF IInv, StoreInv, Known
<1>3. CircleFound'
  BY ProgramFrame DEF CircleFound
<1>4. VerdictIsFinal'
  BY ProgramFrame DEF VerdictIsFinal
<1>5. NeverBroken' /\ PublishedLinks'
  BY DEF NeverBroken, PublishedLinks
<1> QED BY <1>1, <1>2, <1>3, <1>4, <1>5 DEF IInv

LEMMA RejectKeepsInv ==
    ASSUME IInv, RejectBody PROVE IInv'
<1> USE DEF IInv
<1>1. /\ UNCHANGED <<prog, request, stack, report, installed, queue, queued, store>>
      /\ phase' = "rejected" /\ phase # "published"
  BY DEF RejectBody
<1>2. TypeOK'
  BY <1>1, ProgramFrame DEF TypeOK
<1> QED BY <1>1, <1>2, RequestFrame, SoundFrame, EndKeepsInv

LEMMA StackTyped ==
    ASSUME TypeOK
    PROVE  /\ stack \in Seq([who : Nodes, todo : SUBSET Gens])
           /\ Len(stack) \in Nat
           /\ stack # <<>> => Len(stack) >= 1
           /\ \A j \in 1..Len(stack) : /\ stack[j] \in [who : Nodes, todo : SUBSET Gens]
                                       /\ stack[j].who \in Nodes
                                       /\ stack[j].todo \subseteq Gens
<1>1. stack \in Seq([who : Nodes, todo : SUBSET Gens])
  BY DEF TypeOK
<1> DEFINE F == [who : Nodes, todo : SUBSET Gens]
<1>2. \A r \in F : r.who \in Nodes /\ r.todo \subseteq Gens
  OBVIOUS
<1>3. stack \in Seq(F)
  BY <1>1
<1> HIDE DEF F
<1>4. /\ Len(stack) \in Nat /\ (stack # <<>> => Len(stack) >= 1)
      /\ \A j \in 1..Len(stack) : stack[j] \in F
  BY <1>3
<1>5. \A j \in 1..Len(stack) : stack[j].who \in Nodes /\ stack[j].todo \subseteq Gens
  BY <1>2, <1>4
<1> QED BY <1>1, <1>4, <1>5 DEF F

(* A request that is found under way closes a circle of frames.            *)
LEMMA RecursionKeepsInv ==
    ASSUME IInv, ReportRecursion PROVE IInv'
<1> USE DEF IInv
<1>1. /\ UNCHANGED <<prog, request, stack, report, installed, queue, queued, store>>
      /\ phase' = "recursive" /\ phase = "materialise" /\ stack # <<>>
  BY DEF ReportRecursion
<1>2. PICK g \in Gens : g \in Top.todo /\ request[g] = "materialising"
  BY DEF ReportRecursion, Turn
<1>3. Len(stack) \in Nat /\ Len(stack) >= 1
      /\ \A j \in 1..Len(stack) : stack[j].who \in Nodes
  BY <1>1, StackTyped
<1>4. PICK i \in 1..Len(stack) : stack[i].who = g
  BY <1>1, <1>2 DEF TypeOK
<1>5. i # 1
  BY <1>1, <1>2, <1>4, BodiesSplit DEF StackInv
<1> DEFINE S == {stack[j].who : j \in i..Len(stack)}
<1>6. ASSUME NEW j \in i..Len(stack)
      PROVE  /\ stack[j].who \in Gens /\ stack[j].who \in Asked
  <2>1. j \in 2..Len(stack) /\ j \in 1..Len(stack) /\ 1 \in 1..Len(stack)
    BY <1>3, <1>4, <1>5
  <2>2. stack[j].who # Base
    BY <1>1, <2>1 DEF StackInv
  <2>3. stack[j].who \in Gens
    BY <1>3, <2>1, <2>2, BodiesSplit
  <2>4. request[stack[j].who] = "materialising"
    BY <1>1, <2>1, <2>3 DEF TypeOK
  <2> QED BY <2>3, <2>4 DEF RequestInv
<1>7. ASSUME NEW j \in i..Len(stack)
      PROVE  Targets(prog, stack[j].who) \cap S # {}
  <2>1. j \in 1..Len(stack)
    BY <1>3
  <2>2. \A h \in NodeTargets(stack[j].who) : h \in Targets(prog, stack[j].who)
    BY <1>6, BodiesSplit DEF NodeTargets, Callees
  <2>3. CASE j = Len(stack)
    <3>1. g \in NodeTargets(stack[j].who)
      BY <1>1, <1>2, <2>1, <2>3 DEF StackInv, Top
    <3>2. g \in S
      BY <1>3, <1>4
    <3> QED BY <2>2, <3>1, <3>2
  <2>4. CASE j # Len(stack)
    <3>1. j + 1 \in 2..Len(stack) /\ j + 1 \in i..Len(stack) /\ (j + 1) - 1 = j
      BY <1>3, <2>1, <2>4
    <3>2. stack[j + 1].who \in NodeTargets(stack[j].who)
      BY <1>1, <3>1 DEF StackInv
    <3> QED BY <2>2, <3>1, <3>2
  <2> QED BY <2>3, <2>4
<1>8. S # {} /\ S \subseteq Asked
  BY <1>3, <1>4, <1>6
<1>9. \A h \in S : Targets(prog, h) \cap S # {}
  BY <1>7
<1>10. S \in SUBSET Asked /\ CircleIn(S)
  <2> HIDE DEF S
  <2> QED BY <1>8, <1>9 DEF CircleIn
<1>11. TypeOK'
  BY <1>1, ProgramFrame DEF TypeOK
<1> QED BY <1>1, <1>10, <1>11, RequestFrame, SoundFrame, EndKeepsInv

(* register_requests only turns unknown requests into pending ones.        *)
LEMMA RegisteredIs ==
    ASSUME TypeOK, NEW asked \in SUBSET Gens
    PROVE  /\ Registered(asked) \in
                [Gens -> {"none", "pending", "materialising", "complete"}]
           /\ \A g \in Gens :
                LET r == Registered(asked)[g] IN
                /\ r = "complete" <=> request[g] = "complete"
                /\ r = "materialising" <=> request[g] = "materialising"
                /\ r = "pending" => request[g] = "pending" \/ g \in asked
                /\ r # "none" => request[g] # "none" \/ g \in asked
BY DEF Registered, TypeOK

(* Requests may be registered or entered: nothing completes.               *)
LEMMA RequestStep ==
    ASSUME IInv, prog' = prog, phase' # "lower",
           \A g \in Gens : /\ request'[g] = "complete" <=> request[g] = "complete"
                           /\ request'[g] # "none" => g \in Asked
    PROVE  /\ RequestInv' /\ Complete' = Complete /\ Members' = Members
           /\ Compiled' = Compiled
<1>1. Complete' = Complete
  BY DEF Complete
<1>2. Members' = Members /\ Compiled' = Compiled
  BY <1>1, MembersTyped DEF Members, Compiled, Complete
<1>3. Asked' = Asked /\ Known' = Known /\ \A S : CircleIn(S)' = CircleIn(S)
  BY ProgramFrame
<1>4. RequestInv'
  BY <1>1, <1>3 DEF IInv, RequestInv
<1> QED BY <1>1, <1>2, <1>4

(* Properties that speak of later phases only.                             *)
LEMMA NotWorkingYet ==
    ASSUME phase' \in {"lower", "materialise"}
    PROVE  WorkInv' /\ CircleFound' /\ NeverBroken' /\ VerdictIsFinal'
           /\ PublishedLinks'
BY DEF WorkInv, Working, CircleFound, NeverBroken, VerdictIsFinal, PublishedLinks

LEMMA LowerKeepsInv ==
    ASSUME IInv, LowerBase PROVE IInv'
<1> USE DEF IInv
<1> DEFINE own == Least("writes", Fns, {})
           asked == RequestsOf(Base)
<1>1. /\ UNCHANGED <<prog, installed, queue, queued, store>>
      /\ phase = "lower" /\ request' = Registered(asked)
      /\ \/ /\ Clashes(Base, {}, own) /\ phase' = "diagnosed"
            /\ stack' = stack /\ report' = report
         \/ /\ ~Clashes(Base, {}, own) /\ phase' = "materialise"
            /\ stack' = <<[who |-> Base, todo |-> asked]>>
            /\ report' = [report EXCEPT !["writes"] = @ \cup own]
  BY DEF LowerBase
<1>2. asked \in SUBSET Gens /\ asked = (NodeTargets(Base) \ Known) \ Complete
  BY RequestsAre
<1>3. \A g \in Gens : request[g] = "none"
  BY <1>1 DEF RequestInv
<1>4. Base \in Nodes /\ Fns \subseteq Bodies
  BY BodiesSplit
<1>5. own \subseteq Fns /\ own \subseteq Exact("writes")
  BY <1>4, LeastClosed, LeastSound
<1>6. asked \subseteq Asked
  BY <1>2, <1>4, AskedClosed, TargetsOfNode, BodiesSplit
<1> HIDE DEF own, asked
<1>7. /\ request' \in [Gens -> {"none", "pending", "materialising", "complete"}]
      /\ \A g \in Gens : /\ request'[g] # "complete"
                         /\ request'[g] # "materialising"
                         /\ request'[g] # "none" => g \in asked
  BY <1>1, <1>2, <1>3, RegisteredIs
<1>8. RequestInv' /\ Complete' = Complete /\ Members' = Members /\ Compiled' = Compiled
      /\ Complete = {}
  <2>1. phase' # "lower"
    BY <1>1
  <2>2. ASSUME NEW g \in Gens
        PROVE  /\ request'[g] = "complete" <=> request[g] = "complete"
               /\ request'[g] # "none" => g \in Asked
    <3>1. request[g] = "none"
      BY <1>3
    <3>2. request'[g] # "complete" /\ (request'[g] # "none" => g \in asked)
      BY <1>7
    <3> QED BY <1>6, <3>1, <3>2
  <2>3. Complete = {}
    BY <1>3 DEF Complete
  <2> QED BY <1>1, <2>1, <2>2, <2>3, RequestStep
<1>9. CASE Clashes(Base, {}, own)
  <2>1. phase' = "diagnosed" /\ stack' = stack /\ report' = report
    BY <1>1, <1>9
  <2>2. TypeOK'
    BY <1>1, <1>7, <2>1, ProgramFrame DEF TypeOK
  <2>3. SoundInv'
    BY <1>1, <2>1, SoundFrame
  <2>4. \E b \in Fns \cup Asked : Wrong(b)
    BY <1>5, <1>9, BodiesSplit DEF Clashes, Wrong
  <2> QED BY <1>1, <1>8, <2>1, <2>2, <2>3, <2>4, EndKeepsInv
<1>10. CASE ~Clashes(Base, {}, own)
  <2>1. /\ phase' = "materialise" /\ stack' = <<[who |-> Base, todo |-> asked]>>
        /\ report' = [report EXCEPT !["writes"] = @ \cup own]
    BY <1>1, <1>10
  <2>2. /\ Len(stack') = 1 /\ stack'[1] = [who |-> Base, todo |-> asked]
        /\ stack'[1].who = Base /\ stack'[1].todo = asked
        /\ stack' \in Seq([who : Nodes, todo : SUBSET Gens])
    BY <1>2, <1>4, <2>1
  <2>3. /\ report' \in [Facts -> SUBSET Bodies]
        /\ report'["writes"] = report["writes"] \cup own
        /\ report'["fails"] = report["fails"]
    BY <1>4, <1>5, <2>1 DEF TypeOK, Facts
  <2>4. TypeOK'
    <3>1. ASSUME NEW g \in Gens, NEW i \in 1..Len(stack') PROVE stack'[i].who # g
      BY <2>2, BodiesSplit
    <3>2. ASSUME NEW g \in Gens
          PROVE  request'[g] = "materialising"
                   <=> \E i \in 1..Len(stack') : stack'[i].who = g
      <4>1. request'[g] # "materialising"
        BY <1>7
      <4> QED BY <3>1, <4>1
    <3>3. \A n \in Nodes, f \in Facts : installed'[n][f] \subseteq External(n)'
      BY <1>1, ProgramFrame DEF TypeOK
    <3> QED BY <1>1, <1>7, <2>1, <2>2, <2>3, <3>2, <3>3 DEF TypeOK
  <2>5. \A n : NodeTargets(n)' = NodeTargets(n)
    BY <1>1, ProgramFrame
  <2>6. Known' = Known
    BY <1>1, ProgramFrame
  <2>7. StackInv'
    BY <1>2, <1>7, <1>8, <2>1, <2>2, <2>5, <2>6 DEF StackInv
  <2>8. report["writes"] \subseteq Known /\ report["fails"] \subseteq Known
        /\ installed = [n \in Nodes |-> Unset]
    BY <1>1 DEF BootInv
  <2>9. Known \cap Fns = {}
    BY ProgramTyped, BodiesSplit
  <2>10. SoundInv'
    <3>1. \A f \in Facts : report[f] \subseteq report'[f]
          /\ report'[f] \subseteq Exact(f) /\ report'[f] \cap Known = report[f] \cap Known
      BY <1>5, <2>3, <2>9 DEF SoundInv, Facts
    <3>2. \A f : Exact(f)' = Exact(f)
      BY <1>1, ProgramFrame
    <3> QED BY <1>1, <2>6, <3>1, <3>2 DEF SoundInv
  <2>11. BootInv'
    BY <1>1, <1>5, <1>8, <2>1, <2>3, <2>6, <2>8, MembersTyped DEF BootInv
  <2>12. LocalInv'
    <3>1. Members' = {Base}
      BY <1>8, MembersTyped
    <3>2. installed'[Base] = Unset /\ Unset["writes"] = {} /\ Unset["fails"] = {}
      BY <1>1, <1>4, <2>8 DEF Unset, Facts
    <3>3. report'["writes"] \cap BodiesOf(Base) = own
          /\ report'["fails"] \cap BodiesOf(Base) = {}
      BY <1>5, <2>3, <2>8, <2>9, BodiesSplit
    <3>4. own = Least("writes", BodiesOf(Base), {})
      BY BodiesSplit DEF own
    <3>5. \A f, B, seen : Least(f, B, seen)' = Least(f, B, seen)
      BY <1>1, ProgramFrame
    <3>6. \A n, seen, o : Clashes(n, seen, o)' = Clashes(n, seen, o)
      BY <1>1, ProgramFrame
    <3> QED BY <1>10, <3>1, <3>2, <3>3, <3>4, <3>5, <3>6 DEF LocalInv
  <2>13. StoreInv'
    BY <1>1, <2>6 DEF StoreInv
  <2> QED BY <1>8, <2>1, <2>4, <2>7, <2>10, <2>11, <2>12, <2>13, NotWorkingYet
<1> QED BY <1>9, <1>10

(* While materialisation only moves between frames, summaries stay.        *)
LEMMA MaterialiseFrame ==
    ASSUME IInv, phase = "materialise", phase' = "materialise",
           UNCHANGED <<prog, report, installed, store>>,
           Members' = Members, Compiled' = Compiled
    PROVE  /\ SoundInv' /\ BootInv' /\ LocalInv' /\ WorkInv' /\ StoreInv'
           /\ CircleFound' /\ NeverBroken' /\ VerdictIsFinal' /\ PublishedLinks'
<1> USE DEF IInv
<1>1. Known' = Known /\ (\A f, B, seen : Least(f, B, seen)' = Least(f, B, seen))
      /\ \A n, seen, own : Clashes(n, seen, own)' = Clashes(n, seen, own)
  BY ProgramFrame
<1>2. SoundInv'
  BY SoundFrame
<1>3. BootInv' /\ StoreInv'
  BY <1>1 DEF BootInv, StoreInv
<1>4. LocalInv'
  BY <1>1 DEF LocalInv
<1> QED BY <1>2, <1>3, <1>4, NotWorkingYet

(* Returning from a frame leaves the frames below.                         *)
LEMMA BelowIs ==
    ASSUME TypeOK, stack # <<>>
    PROVE  /\ Below \in Seq([who : Nodes, todo : SUBSET Gens])
           /\ Len(Below) = Len(stack) - 1
           /\ \A i \in 1..(Len(stack) - 1) : Below[i] = stack[i]
<1> DEFINE F == [who : Nodes, todo : SUBSET Gens]
           n == Len(stack) - 1
<1>1. stack \in Seq(F) /\ Len(stack) \in Nat /\ Len(stack) >= 1
      /\ \A i \in 1..Len(stack) : stack[i] \in F
  BY StackTyped
<1>2. n \in Nat /\ \A i \in 1..n : i \in 1..Len(stack)
  BY <1>1
<1>3. Below = SubSeq(stack, 1, n)
  BY DEF Below
<1> HIDE DEF F, n
<1>4. \A i \in 1..n : stack[i] \in F
  BY <1>1, <1>2
<1>5. /\ SubSeq(stack, 1, n) \in Seq(F)
      /\ Len(SubSeq(stack, 1, n)) = IF 1 <= n THEN n - 1 + 1 ELSE 0
      /\ \A i \in 1..(n - 1 + 1) : SubSeq(stack, 1, n)[i] = stack[1 + i - 1]
  <2>1. n \in Int /\ 1 \in Int
    BY <1>2
  <2> QED BY <1>4, <2>1, SubSeqProperties
<1>6. \A i \in 1..n : i \in 1..(n - 1 + 1) /\ 1 + i - 1 = i
  BY <1>2
<1>7. Len(SubSeq(stack, 1, n)) = n
  BY <1>2, <1>5
<1> QED BY <1>3, <1>5, <1>6, <1>7 DEF F, n

(* The frame on top moves past request g; the others stay.                 *)
LEMMA AdvancedIs ==
    ASSUME TypeOK, stack # <<>>, NEW g \in Gens
    PROVE  /\ Advanced(g) \in Seq([who : Nodes, todo : SUBSET Gens])
           /\ Len(Advanced(g)) = Len(stack)
           /\ \A i \in 1..Len(stack) :
                /\ Advanced(g)[i].who = stack[i].who
                /\ Advanced(g)[i].todo =
                     IF i = Len(stack) THEN stack[i].todo \ {g} ELSE stack[i].todo
<1> DEFINE F == [who : Nodes, todo : SUBSET Gens]
           top == [Top EXCEPT !.todo = @ \ {g}]
<1>1. /\ stack \in Seq(F) /\ Len(stack) \in Nat /\ Len(stack) >= 1
      /\ Top = stack[Len(stack)] /\ Top \in F
  BY StackTyped DEF Top
<1>2. top \in F /\ top.who = Top.who /\ top.todo = Top.todo \ {g}
  BY <1>1
<1>3. /\ Below \in Seq(F) /\ Len(Below) = Len(stack) - 1
      /\ \A i \in 1..(Len(stack) - 1) : Below[i] = stack[i]
  BY BelowIs
<1>4. Advanced(g) = Append(Below, top)
  BY DEF Advanced
<1> HIDE DEF F, top
<1>5. /\ Append(Below, top) \in Seq(F) /\ Len(Append(Below, top)) = Len(stack)
      /\ Append(Below, top)[Len(stack)] = top
      /\ \A i \in 1..(Len(stack) - 1) : Append(Below, top)[i] = stack[i]
  BY <1>1, <1>2, <1>3
<1>6. ASSUME NEW i \in 1..Len(stack)
      PROVE  /\ Advanced(g)[i].who = stack[i].who
             /\ Advanced(g)[i].todo =
                  IF i = Len(stack) THEN stack[i].todo \ {g} ELSE stack[i].todo
  <2>1. CASE i = Len(stack)
    BY <1>1, <1>2, <1>4, <1>5, <2>1
  <2>2. CASE i # Len(stack)
    <3>1. i \in 1..(Len(stack) - 1)
      BY <1>1, <2>2
    <3> QED BY <1>4, <1>5, <2>2, <3>1
  <2> QED BY <2>1, <2>2
<1> QED BY <1>4, <1>5, <1>6 DEF F

LEMMA SkipKeepsInv ==
    ASSUME IInv, SkipCompleted PROVE IInv'
<1> USE DEF IInv
<1>1. /\ UNCHANGED <<prog, phase, request, report, installed, queue, queued, store>>
      /\ phase = "materialise" /\ stack # <<>>
  BY DEF SkipCompleted
<1>2. PICK g \in Gens : request[g] = "complete" /\ stack' = Advanced(g)
  BY DEF SkipCompleted, AlreadyComplete
<1>3. /\ stack' \in Seq([who : Nodes, todo : SUBSET Gens])
      /\ Len(stack') = Len(stack) /\ Len(stack) \in Nat /\ Len(stack) >= 1
      /\ \A i \in 1..Len(stack) :
           /\ stack'[i].who = stack[i].who
           /\ stack'[i].todo =
                IF i = Len(stack) THEN stack[i].todo \ {g} ELSE stack[i].todo
  BY <1>1, <1>2, AdvancedIs, StackTyped
<1>4. RequestInv' /\ Complete' = Complete /\ Members' = Members /\ Compiled' = Compiled
  BY <1>1, RequestFrame
<1>5. Known' = Known /\ \A n : NodeTargets(n)' = NodeTargets(n)
  BY <1>1, ProgramFrame
<1>6. TypeOK'
  <2>1. ASSUME NEW h \in Gens
        PROVE  request'[h] = "materialising"
                 <=> \E i \in 1..Len(stack') : stack'[i].who = h
    <3>1. request[h] = "materialising" <=> \E i \in 1..Len(stack) : stack[i].who = h
      BY <1>1 DEF TypeOK
    <3> QED BY <1>1, <1>3, <3>1
  <2>2. \A n \in Nodes, f \in Facts : installed'[n][f] \subseteq External(n)'
    BY <1>1, ProgramFrame DEF TypeOK
  <2> QED BY <1>1, <1>3, <2>1, <2>2 DEF TypeOK
<1>7. StackInv'
  <2>a. /\ stack[1].who = Base /\ 1 \in 1..Len(stack)
        /\ \A i, j \in 1..Len(stack) : stack[i].who = stack[j].who => i = j
    BY <1>1, <1>3 DEF StackInv
  <2>b. stack' # <<>>
    BY <1>3
  <2>1. /\ stack' # <<>> /\ stack'[1].who = Base
        /\ \A i, j \in 1..Len(stack') : stack'[i].who = stack'[j].who => i = j
    BY <1>3, <2>a, <2>b
  <2>2. ASSUME NEW i \in 2..Len(stack')
        PROVE  stack'[i].who \in NodeTargets(stack'[i - 1].who) \ Known
    <3>1. i \in 2..Len(stack) /\ i \in 1..Len(stack) /\ i - 1 \in 1..Len(stack)
      BY <1>3
    <3>2. stack'[i].who = stack[i].who /\ stack'[i - 1].who = stack[i - 1].who
      BY <1>3, <3>1
    <3> QED BY <1>1, <3>1, <3>2 DEF StackInv
  <2>3. ASSUME NEW i \in 1..Len(stack')
        PROVE  /\ stack'[i].todo \subseteq NodeTargets(stack'[i].who) \ Known
               /\ \A h \in NodeTargets(stack'[i].who) \ Known :
                    \/ h \in Complete
                    \/ h \in stack'[i].todo
                    \/ i < Len(stack') /\ h = stack'[i + 1].who
    <3>1. i \in 1..Len(stack) /\ (i < Len(stack) => i + 1 \in 1..Len(stack))
      BY <1>3
    <3>2. stack[i].todo \subseteq NodeTargets(stack[i].who) \ Known
      BY <1>1, <3>1 DEF StackInv
    <3>3. ASSUME NEW h \in NodeTargets(stack[i].who) \ Known
          PROVE  \/ h \in Complete \/ h \in stack[i].todo
                 \/ i < Len(stack) /\ h = stack[i + 1].who
      BY <1>1, <3>1 DEF StackInv
    <3>4. g \in Complete
      BY <1>2 DEF Complete
    <3> QED BY <1>3, <3>1, <3>2, <3>3, <3>4
  <2>4. ASSUME NEW h \in Gens, request'[h] = "pending"
        PROVE  \E i \in 1..Len(stack') : h \in stack'[i].todo
    <3>1. PICK i \in 1..Len(stack) : h \in stack[i].todo
      BY <1>1, <2>4 DEF StackInv
    <3>2. h # g
      BY <1>1, <1>2, <2>4
    <3> QED BY <1>3, <3>1, <3>2
  <2> QED BY <1>4, <1>5, <2>1, <2>2, <2>3, <2>4 DEF StackInv
<1> QED BY <1>1, <1>4, <1>6, <1>7, MaterialiseFrame

LEMMA EnterKeepsInv ==
    ASSUME IInv, EnterRequest PROVE IInv'
<1> USE DEF IInv
<1> DEFINE m == Len(stack)
<1>1. /\ UNCHANGED <<prog, phase, report, installed, queue, queued, store>>
      /\ phase = "materialise" /\ stack # <<>>
  BY DEF EnterRequest
<1>2. PICK g \in Gens :
        /\ g \in Top.todo /\ request[g] = "pending"
        /\ request' = [Registered(RequestsOf(g)) EXCEPT ![g] = "materialising"]
        /\ stack' = Append(Advanced(g), [who |-> g, todo |-> RequestsOf(g)])
  BY DEF EnterRequest, Turn
<1> DEFINE more == RequestsOf(g)
<1>3. more \in SUBSET Gens /\ more = (NodeTargets(g) \ Known) \ Complete
  BY RequestsAre
<1>4. g \in Nodes /\ g # Base /\ BodiesOf(g) = {g}
  BY BodiesSplit
<1>5. g \in Asked /\ more \subseteq Asked
  <2>1. g \in Asked
    BY <1>2 DEF RequestInv
  <2>2. \A h \in NodeTargets(g) : h \in Targets(prog, g) /\ h \in Gens
    BY <1>4, TargetsOfNode
  <2> QED BY <1>3, <2>1, <2>2, AskedClosed
<1> HIDE DEF more
<1>6. /\ Advanced(g) \in Seq([who : Nodes, todo : SUBSET Gens])
      /\ Len(Advanced(g)) = m /\ m \in Nat /\ m >= 1
      /\ \A i \in 1..m :
           /\ Advanced(g)[i].who = stack[i].who
           /\ Advanced(g)[i].todo =
                IF i = m THEN stack[i].todo \ {g} ELSE stack[i].todo
  BY <1>1, AdvancedIs, StackTyped
<1> HIDE DEF m
<1>7. /\ stack' \in Seq([who : Nodes, todo : SUBSET Gens])
      /\ Len(stack') = m + 1
      /\ stack'[m + 1].who = g /\ stack'[m + 1].todo = more
      /\ \A i \in 1..m : stack'[i] = Advanced(g)[i]
  <2> DEFINE F == [who : Nodes, todo : SUBSET Gens]
             top == [who |-> g, todo |-> more]
  <2>1. top \in F /\ top.who = g /\ top.todo = more
    BY <1>3, <1>4
  <2>2. stack' = Append(Advanced(g), top) /\ Advanced(g) \in Seq(F)
    BY <1>2, <1>6 DEF more
  <2> HIDE DEF F, top
  <2>3. /\ stack' \in Seq(F) /\ Len(stack') = m + 1 /\ stack'[m + 1] = top
        /\ \A i \in 1..m : stack'[i] = Advanced(g)[i]
    BY <1>6, <2>1, <2>2
  <2> QED BY <2>1, <2>3 DEF F
<1>8. \A i \in 1..m :
        /\ stack'[i].who = stack[i].who
        /\ stack'[i].todo = IF i = m THEN stack[i].todo \ {g} ELSE stack[i].todo
  BY <1>6, <1>7
<1>9. /\ request' \in [Gens -> {"none", "pending", "materialising", "complete"}]
      /\ request'[g] = "materialising"
      /\ \A h \in Gens \ {g} :
           /\ request'[h] = "complete" <=> request[h] = "complete"
           /\ request'[h] = "materialising" <=> request[h] = "materialising"
           /\ request'[h] = "pending" => request[h] = "pending" \/ h \in more
           /\ request'[h] # "none" => request[h] # "none" \/ h \in more
  <2>1. request' = [Registered(more) EXCEPT ![g] = "materialising"]
    BY <1>2 DEF more
  <2> QED BY <1>3, <2>1, RegisteredIs
<1>10. RequestInv' /\ Complete' = Complete /\ Members' = Members /\ Compiled' = Compiled
  <2>1. ASSUME NEW h \in Gens
        PROVE  /\ request'[h] = "complete" <=> request[h] = "complete"
               /\ request'[h] # "none" => h \in Asked
    <3>1. CASE h = g
      BY <1>2, <1>5, <1>9, <3>1
    <3>2. CASE h # g
      BY <1>5, <1>9, <3>2 DEF RequestInv
    <3> QED BY <3>1, <3>2
  <2> QED BY <1>1, <2>1, RequestStep
<1>11. Known' = Known /\ \A n : NodeTargets(n)' = NodeTargets(n)
  BY <1>1, ProgramFrame
<1>12. ASSUME NEW i \in 1..Len(stack') PROVE i \in 1..m \/ i = m + 1
  BY <1>6, <1>7
<1>13. \A i \in 1..m : stack[i].who # g
  BY <1>1, <1>2 DEF TypeOK, m
<1>14. TypeOK'
  <2>1. ASSUME NEW h \in Gens
        PROVE  request'[h] = "materialising"
                 <=> \E i \in 1..Len(stack') : stack'[i].who = h
    <3>1. CASE h = g
      BY <1>6, <1>7, <1>9, <3>1
    <3>2. CASE h # g
      <4>1. request[h] = "materialising" <=> \E i \in 1..m : stack[i].who = h
        BY <1>1 DEF TypeOK, m
      <4>2. \A i \in 1..m : i \in 1..Len(stack')
        BY <1>6, <1>7
      <4>3. (\E i \in 1..m : stack[i].who = h)
              <=> \E i \in 1..Len(stack') : stack'[i].who = h
        BY <1>7, <1>8, <1>12, <3>2, <4>2
      <4> QED BY <1>9, <3>2, <4>1, <4>3
    <3> QED BY <3>1, <3>2
  <2>2. \A n \in Nodes, f \in Facts : installed'[n][f] \subseteq External(n)'
    BY <1>1, ProgramFrame DEF TypeOK
  <2> QED BY <1>1, <1>7, <1>9, <2>1, <2>2 DEF TypeOK
<1>15. g \in NodeTargets(stack[m].who) \ Known
  <2>1. m \in 1..Len(stack) /\ g \in stack[m].todo
    BY <1>2, <1>6 DEF Top, m
  <2> QED BY <1>1, <2>1 DEF StackInv
<1>16. StackInv'
  <2>1. stack' # <<>> /\ stack'[1].who = Base
    <3>1. stack[1].who = Base /\ 1 \in 1..m
      BY <1>1, <1>6 DEF StackInv
    <3>2. stack' # <<>>
      BY <1>6, <1>7
    <3> QED BY <1>8, <3>1, <3>2
  <2>2. ASSUME NEW i \in 1..Len(stack'), NEW j \in 1..Len(stack'),
               stack'[i].who = stack'[j].who
        PROVE  i = j
    <3>1. \A k \in 1..m : stack'[k].who # g
      BY <1>8, <1>13
    <3>2. CASE i \in 1..m /\ j \in 1..m
      <4>1. stack[i].who = stack[j].who
        BY <1>8, <2>2, <3>2
      <4> QED BY <1>1, <3>2, <4>1 DEF StackInv, m
    <3>3. CASE i = m + 1 \/ j = m + 1
      BY <1>7, <1>12, <2>2, <3>1, <3>3
    <3> QED BY <1>12, <3>2, <3>3
  <2>3. ASSUME NEW i \in 2..Len(stack')
        PROVE  stack'[i].who \in NodeTargets(stack'[i - 1].who) \ Known
    <3>1. CASE i \in 1..m
      <4>1. i \in 2..m /\ i - 1 \in 1..m
        BY <1>6, <3>1
      <4>2. stack'[i].who = stack[i].who /\ stack'[i - 1].who = stack[i - 1].who
        BY <1>8, <3>1, <4>1
      <4> QED BY <1>1, <4>1, <4>2 DEF StackInv, m
    <3>2. CASE i = m + 1
      <4>1. i - 1 = m /\ m \in 1..m
        BY <1>6, <3>2
      <4> QED BY <1>7, <1>8, <1>15, <3>2, <4>1
    <3>3. i \in 1..Len(stack')
      BY <1>6, <1>7
    <3> QED BY <1>12, <3>1, <3>2, <3>3
  <2>4. ASSUME NEW i \in 1..Len(stack')
        PROVE  /\ stack'[i].todo \subseteq NodeTargets(stack'[i].who) \ Known
               /\ \A h \in NodeTargets(stack'[i].who) \ Known :
                    \/ h \in Complete
                    \/ h \in stack'[i].todo
                    \/ i < Len(stack') /\ h = stack'[i + 1].who
    <3>1. CASE i \in 1..m
      <4>1. /\ stack[i].todo \subseteq NodeTargets(stack[i].who) \ Known
            /\ \A h \in NodeTargets(stack[i].who) \ Known :
                 \/ h \in Complete
                 \/ h \in stack[i].todo
                 \/ i < m /\ h = stack[i + 1].who
        BY <1>1, <3>1 DEF StackInv, m
      <4>2. CASE i = m
        <5>1. stack'[i].who = stack[i].who /\ stack'[i].todo = stack[i].todo \ {g}
          BY <1>8, <3>1, <4>2
        <5>2. i < Len(stack') /\ stack'[i + 1].who = g /\ ~(i < m)
          BY <1>6, <1>7, <4>2
        <5> QED BY <4>1, <5>1, <5>2
      <4>3. CASE i # m
        <5>1. i < m /\ i + 1 \in 1..m /\ i < m + 1
          BY <1>6, <3>1, <4>3
        <5>2. stack'[i].who = stack[i].who /\ stack'[i].todo = stack[i].todo
              /\ stack'[i + 1].who = stack[i + 1].who
          BY <1>8, <3>1, <4>3, <5>1
        <5> QED BY <1>7, <4>1, <5>1, <5>2
      <4> QED BY <4>2, <4>3
    <3>2. CASE i = m + 1
      BY <1>3, <1>7, <3>2
    <3> QED BY <1>12, <3>1, <3>2
  <2>5. ASSUME NEW h \in Gens, request'[h] = "pending"
        PROVE  \E i \in 1..Len(stack') : h \in stack'[i].todo
    <3>1. h # g
      BY <1>9, <2>5
    <3>2. CASE h \in more
      BY <1>6, <1>7, <3>2
    <3>3. CASE request[h] = "pending"
      <4>1. PICK i \in 1..m : h \in stack[i].todo
        BY <1>1, <3>3 DEF StackInv, m
      <4>2. i \in 1..Len(stack')
        BY <1>6, <1>7
      <4>3. h \in stack'[i].todo
        BY <1>8, <3>1, <4>1
      <4> QED BY <4>2, <4>3
    <3> QED BY <1>9, <2>5, <3>1, <3>2, <3>3
  <2> QED BY <1>10, <1>11, <2>1, <2>2, <2>3, <2>4, <2>5 DEF StackInv
<1> QED BY <1>1, <1>10, <1>14, <1>16, MaterialiseFrame

(* A request completes after all it asks for: no circle closes.            *)
LEMMA CompleteKeepsInv ==
    ASSUME IInv, CompleteRequest PROVE IInv'
<1> USE DEF IInv
<1> DEFINE m == Len(stack)
           g == Top.who
           own == Least("writes", {g}, {})
<1>1. /\ UNCHANGED <<prog, phase, installed, queue, queued, store>>
      /\ phase = "materialise" /\ stack # <<>> /\ g # Base /\ Top.todo = {}
      /\ request' = [request EXCEPT ![g] = "complete"]
      /\ report' = [report EXCEPT !["writes"] = @ \cup own]
      /\ stack' = Below
  BY DEF CompleteRequest
<1>2. /\ m \in Nat /\ m >= 1 /\ m \in 1..m
      /\ g = stack[m].who /\ g \in Nodes /\ stack[m].todo = {}
  BY <1>1, StackTyped DEF Top
<1>3. g \in Gens /\ BodiesOf(g) = {g}
  BY <1>1, <1>2, BodiesSplit
<1>4. request[g] = "materialising"
  BY <1>1, <1>2, <1>3 DEF TypeOK
<1>5. g \in Asked /\ g \notin Known /\ g \notin Complete
  BY <1>3, <1>4, AskedClosed DEF RequestInv, Complete
<1> HIDE DEF g
<1>6. Targets(prog, g) \cap Gens \subseteq Complete \cup Known
  <2>1. \A h \in NodeTargets(g) \ Known :
          h \in Complete \/ h \in stack[m].todo \/ (m < m /\ h = stack[m + 1].who)
    BY <1>1, <1>2 DEF StackInv
  <2>2. Targets(prog, g) \cap Gens \subseteq NodeTargets(g)
    BY <1>2, <1>3, TargetsOfNode
  <2> QED BY <1>2, <2>1, <2>2
<1>7. /\ stack' \in Seq([who : Nodes, todo : SUBSET Gens]) /\ Len(stack') = m - 1
      /\ \A i \in 1..(m - 1) : stack'[i] = stack[i] /\ i \in 1..m
  BY <1>1, <1>2, BelowIs
<1>8. /\ request' \in [Gens -> {"none", "pending", "materialising", "complete"}]
      /\ request'[g] = "complete"
      /\ \A h \in Gens \ {g} : request'[h] = request[h]
  BY <1>1, <1>3 DEF TypeOK
<1>9. own \subseteq {g} /\ own \subseteq Exact("writes")
  <2>1. {g} \in SUBSET Bodies
    BY <1>3, BodiesSplit
  <2> QED BY <2>1, LeastClosed, LeastSound
<1> HIDE DEF own, m
<1>10. /\ report' \in [Facts -> SUBSET Bodies]
       /\ report'["writes"] = report["writes"] \cup own
       /\ report'["fails"] = report["fails"]
  <2>1. own \in SUBSET Bodies
    BY <1>3, <1>9, BodiesSplit
  <2> QED BY <1>1, <2>1 DEF TypeOK, Facts
<1>11. Complete' = Complete \cup {g}
  BY <1>3, <1>8 DEF Complete
<1>12. /\ Members' = Members \cup {g} /\ Compiled' = Compiled \cup {g}
       /\ g \notin Members
  <2>1. Members' = {Base} \cup Complete' /\ Compiled' = Fns \cup Complete'
    BY DEF Members, Complete, Compiled
  <2> QED BY <1>1, <1>5, <1>11, <2>1, MembersTyped DEF g
<1>13. /\ Known' = Known /\ Asked' = Asked
       /\ \A n : NodeTargets(n)' = NodeTargets(n)
       /\ \A S : CircleIn(S)' = CircleIn(S)
  BY <1>1, ProgramFrame
<1>14. RequestInv'
  <2>1. \A h \in Gens : request'[h] # "none" => h \in Asked
    BY <1>5, <1>8 DEF RequestInv
  <2>2. \A h \in Complete' : Targets(prog', h) \cap Gens \subseteq Complete' \cup Known
    BY <1>1, <1>6, <1>11 DEF RequestInv
  <2>3. ASSUME NEW S \in SUBSET Complete', CircleIn(S) PROVE FALSE
    <3>1. CASE g \notin S
      BY <1>11, <2>3, <3>1 DEF RequestInv
    <3>2. CASE S = {g}
      <4>1. g \in Targets(prog, g)
        BY <2>3, <3>2 DEF CircleIn
      <4> QED BY <1>3, <1>5, <1>6, <4>1
    <3>3. CASE g \in S /\ S # {g}
      <4> DEFINE T == S \ {g}
      <4>1. T # {} /\ T \in SUBSET Complete
        BY <1>11, <3>3
      <4>2. ASSUME NEW h \in T PROVE Targets(prog, h) \cap T # {}
        <5>1. PICK k \in S : k \in Targets(prog, h)
          BY <2>3 DEF CircleIn
        <5>2. k \in Gens
          BY <1>3, <1>11, MembersTyped
        <5>3. k \in Complete \cup Known
          BY <4>1, <5>1, <5>2 DEF RequestInv
        <5> QED BY <1>5, <5>1, <5>3
      <4>3. CircleIn(T)
        <5> HIDE DEF T
        <5> QED BY <4>1, <4>2 DEF CircleIn
      <4> QED BY <4>1, <4>3 DEF RequestInv
    <3> QED BY <3>1, <3>2, <3>3
  <2> QED BY <1>1, <1>13, <2>1, <2>2, <2>3 DEF RequestInv
<1>15. m # 1 /\ \A i \in 1..(m - 1) : stack[i].who # g
  <2>1. stack[1].who = Base /\ \A i, j \in 1..m : stack[i].who = stack[j].who => i = j
    BY <1>1 DEF StackInv, m
  <2>2. m # 1
    BY <1>1, <1>2, <2>1 DEF g, m
  <2>3. g = stack[m].who
    BY <1>2 DEF m
  <2> QED BY <1>2, <1>7, <2>1, <2>2, <2>3 DEF m
<1>16. m \in Nat /\ m >= 2 /\ g = stack[m].who
  BY <1>2, <1>15
<1>17. TypeOK'
  <2>1. ASSUME NEW h \in Gens
        PROVE  request'[h] = "materialising"
                 <=> \E i \in 1..Len(stack') : stack'[i].who = h
    <3>1. CASE h = g
      BY <1>7, <1>8, <1>15, <3>1
    <3>2. CASE h # g
      <4>1. request[h] = "materialising" <=> \E i \in 1..m : stack[i].who = h
        BY <1>1 DEF TypeOK, m
      <4>2. \A i \in 1..m : i \in 1..(m - 1) \/ i = m
        BY <1>16
      <4>3. (\E i \in 1..m : stack[i].who = h)
              <=> \E i \in 1..Len(stack') : stack'[i].who = h
        BY <1>7, <1>16, <3>2, <4>2
      <4> QED BY <1>8, <3>2, <4>1, <4>3
    <3> QED BY <3>1, <3>2
  <2>2. \A n \in Nodes, f \in Facts : installed'[n][f] \subseteq External(n)'
    BY <1>1, ProgramFrame DEF TypeOK
  <2> QED BY <1>1, <1>7, <1>8, <1>10, <2>1, <2>2 DEF TypeOK
<1>18. StackInv'
  <2>1. /\ stack[1].who = Base /\ 1 \in 1..(m - 1)
        /\ \A i, j \in 1..m : stack[i].who = stack[j].who => i = j
        /\ \A i \in 2..m : stack[i].who \in NodeTargets(stack[i - 1].who) \ Known
    BY <1>1, <1>16 DEF StackInv, m
  <2>2. stack' # <<>> /\ stack'[1].who = Base
    BY <1>7, <2>1
  <2>3. \A i, j \in 1..Len(stack') : stack'[i].who = stack'[j].who => i = j
    BY <1>7, <2>1
  <2>4. ASSUME NEW i \in 2..Len(stack')
        PROVE  stack'[i].who \in NodeTargets(stack'[i - 1].who) \ Known
    <3>1. i \in 2..m /\ i \in 1..(m - 1) /\ i - 1 \in 1..(m - 1)
      BY <1>7, <1>16
    <3>2. stack'[i] = stack[i] /\ stack'[i - 1] = stack[i - 1]
      BY <1>7, <3>1
    <3> QED BY <2>1, <3>1, <3>2
  <2>5. ASSUME NEW i \in 1..Len(stack')
        PROVE  /\ stack'[i].todo \subseteq NodeTargets(stack'[i].who) \ Known
               /\ \A h \in NodeTargets(stack'[i].who) \ Known :
                    \/ h \in Complete'
                    \/ h \in stack'[i].todo
                    \/ i < Len(stack') /\ h = stack'[i + 1].who
    <3>1. i \in 1..(m - 1) /\ i \in 1..m /\ stack'[i] = stack[i]
      BY <1>7
    <3>2. /\ stack[i].todo \subseteq NodeTargets(stack[i].who) \ Known
          /\ \A h \in NodeTargets(stack[i].who) \ Known :
               \/ h \in Complete
               \/ h \in stack[i].todo
               \/ i < m /\ h = stack[i + 1].who
      BY <1>1, <3>1 DEF StackInv, m
    <3>3. CASE i = m - 1
      <4>1. i + 1 = m
        BY <1>16, <3>3
      <4> QED BY <1>11, <1>16, <3>1, <3>2, <4>1
    <3>4. CASE i # m - 1
      <4>1. i < m - 1 /\ i + 1 \in 1..(m - 1)
        BY <1>16, <3>1, <3>4
      <4>2. stack'[i + 1] = stack[i + 1]
        BY <1>7, <4>1
      <4> QED BY <1>7, <1>11, <3>1, <3>2, <4>1, <4>2
    <3> QED BY <3>3, <3>4
  <2>6. ASSUME NEW h \in Gens, request'[h] = "pending"
        PROVE  \E i \in 1..Len(stack') : h \in stack'[i].todo
    <3>1. request[h] = "pending"
      BY <1>8, <2>6
    <3>2. PICK i \in 1..m : h \in stack[i].todo
      BY <1>1, <3>1 DEF StackInv, m
    <3>3. i # m
      BY <1>2, <3>2 DEF m
    <3>4. i \in 1..(m - 1)
      BY <1>16, <3>3
    <3> QED BY <1>7, <3>2, <3>4
  <2> QED BY <1>13, <2>2, <2>3, <2>4, <2>5, <2>6 DEF StackInv
<1>19. SoundInv'
  <2>1. ASSUME NEW f \in Facts
        PROVE  /\ report[f] \subseteq report'[f] /\ report'[f] \subseteq Exact(f)
               /\ report'[f] \cap Known = report[f] \cap Known
    BY <1>5, <1>9, <1>10 DEF SoundInv, Facts
  <2>2. \A f : Exact(f)' = Exact(f)
    BY <1>1, ProgramFrame
  <2> QED BY <1>1, <1>13, <2>1, <2>2 DEF SoundInv
<1>20. /\ report["fails"] \subseteq Known /\ installed = [n \in Nodes |-> Unset]
       /\ report["writes"] \subseteq Compiled \cup Known
  BY <1>1 DEF BootInv
<1>21. BootInv'
  BY <1>1, <1>9, <1>10, <1>12, <1>13, <1>20 DEF BootInv
<1>22. LocalInv'
  <2>1. /\ \A f, B, seen : Least(f, B, seen)' = Least(f, B, seen)
        /\ \A n, seen, o : Clashes(n, seen, o)' = Clashes(n, seen, o)
    BY <1>1, ProgramFrame
  <2>2. ASSUME NEW n \in Members'
        PROVE  /\ report'["writes"] \cap BodiesOf(n) =
                    Least("writes", BodiesOf(n), installed[n]["writes"])
               /\ report'["fails"] \cap BodiesOf(n) \subseteq
                    Least("fails", BodiesOf(n), installed[n]["fails"])
               /\ ~Clashes(n, installed[n]["writes"], report'["writes"] \cap BodiesOf(n))
    <3>1. CASE n = g
      <4>1. installed[n]["writes"] = {}
        BY <1>3, <1>20, <3>1, BodiesSplit DEF Unset, Facts
      <4>2. g \notin report["writes"] /\ g \notin report["fails"]
        BY <1>3, <1>5, <1>20, MembersTyped, BodiesSplit
      <4>3. report'["writes"] \cap {g} = own /\ report'["fails"] \cap {g} = {}
        BY <1>9, <1>10, <4>2
      <4>4. g \notin Executes(prog, g)
        <5>1. g \in Bodies
          BY <1>3, BodiesSplit
        <5>2. Executes(prog, g) \subseteq Targets(prog, g)
          BY <5>1, ProgramTyped
        <5> QED BY <1>3, <1>5, <1>6, <5>2
      <4>5. ~Clashes(g, {}, own)
        BY <1>3, <1>9, <4>4 DEF Clashes
      <4> QED BY <1>3, <3>1, <4>1, <4>3, <4>5 DEF own
    <3>2. CASE n # g
      <4>1. n \in Members /\ g \notin BodiesOf(n)
        BY <1>3, <1>5, <1>12, <3>2, MembersTyped, BodiesSplit
      <4>2. report'["writes"] \cap BodiesOf(n) = report["writes"] \cap BodiesOf(n)
        BY <1>9, <1>10, <4>1
      <4> QED BY <1>1, <1>10, <4>1, <4>2 DEF LocalInv
    <3> QED BY <3>1, <3>2
  <2> QED BY <1>1, <2>1, <2>2 DEF LocalInv
<1>23. StoreInv'
  BY <1>1, <1>13 DEF StoreInv
<1> QED BY <1>1, <1>14, <1>17, <1>18, <1>19, <1>21, <1>22, <1>23, NotWorkingYet

-----------------------------------------------------------------------------
(***************************************************************************)
(* The convergence worklist.                                               *)
(***************************************************************************)
(* An enumeration lists every node of the set once.                        *)
LEMMA AscendingIs ==
    ASSUME NEW S \in SUBSET Nodes, NEW s \in Ascending(S)
    PROVE  /\ s \in Seq(Nodes) /\ Len(s) \in Nat
           /\ \A i \in 1..Len(s) : s[i] \in S
           /\ \A n \in S : \E i \in 1..Len(s) : s[i] = n
           /\ \A i, j \in 1..Len(s) : s[i] = s[j] => i = j
<1> DEFINE k == Cardinality(S)
<1>1. k \in Nat
  <2>1. IsFiniteSet(Nodes)
    BY FS_Interval DEF Nodes
  <2>2. IsFiniteSet(S)
    BY <2>1, FS_Subset
  <2> QED BY <2>2, FS_CardinalityType
<1>2. /\ s \in [1..k -> S]
      /\ \A i, j \in 1..k : i < j => s[i] < s[j]
      /\ \A n \in S : \E i \in 1..k : s[i] = n
  BY DEF Ascending
<1> HIDE DEF k
<1>3. Len(s) = k /\ s \in Seq(S)
  BY <1>1, <1>2
<1>4. s \in Seq(Nodes)
  BY <1>1, <1>2
<1>5. \A i \in 1..k : s[i] \in S /\ s[i] \in Nat
  <2>1. Nodes \subseteq Nat
    BY DEF Nodes
  <2> QED BY <1>2, <2>1
<1>6. ASSUME NEW i \in 1..k, NEW j \in 1..k, s[i] = s[j] PROVE i = j
  <2>1. ~(i < j) /\ ~(j < i)
    BY <1>2, <1>5, <1>6
  <2> QED BY <1>1, <2>1
<1> QED BY <1>1, <1>2, <1>3, <1>4, <1>5, <1>6

LEMMA StartKeepsInv ==
    ASSUME IInv, StartConvergence PROVE IInv'
<1> USE DEF IInv
<1> DEFINE m == Len(stack)
<1>1. /\ UNCHANGED <<prog, request, report, installed, store>>
      /\ phase = "materialise" /\ stack # <<>> /\ phase' = "converge"
      /\ Top.who = Base /\ Top.todo = {} /\ stack' = <<>>
      /\ queue' \in Ascending(Members) /\ queued' = Members
  BY DEF StartConvergence
<1>2. /\ m \in Nat /\ m >= 1 /\ m \in 1..m /\ 1 \in 1..m
      /\ stack[m].who = Base /\ stack[m].todo = {}
  BY <1>1, StackTyped DEF Top
<1>3. m = 1
  BY <1>1, <1>2 DEF StackInv
<1>4. RequestInv' /\ Complete' = Complete /\ Members' = Members /\ Compiled' = Compiled
  BY <1>1, RequestFrame
<1>5. /\ Known' = Known /\ (\A n : NodeTargets(n)' = NodeTargets(n))
      /\ \A f, B, seen : Least(f, B, seen)' = Least(f, B, seen)
      /\ \A n, seen, own : Clashes(n, seen, own)' = Clashes(n, seen, own)
  BY <1>1, ProgramFrame
<1>6. /\ queue' \in Seq(Nodes)
      /\ \A i \in 1..Len(queue') : queue'[i] \in Members
      /\ \A n \in Members : \E i \in 1..Len(queue') : queue'[i] = n
      /\ \A i, j \in 1..Len(queue') : queue'[i] = queue'[j] => i = j
  <2>1. Members \in SUBSET Nodes
    BY MembersTyped
  <2>2. \A S \in SUBSET Nodes : \A s \in Ascending(S) :
          /\ s \in Seq(Nodes)
          /\ \A i \in 1..Len(s) : s[i] \in S
          /\ \A n \in S : \E i \in 1..Len(s) : s[i] = n
          /\ \A i, j \in 1..Len(s) : s[i] = s[j] => i = j
    BY AscendingIs
  <2> QED BY <1>1, <2>1, <2>2, Zenon
<1>7. TypeOK'
  <2>1. \A n \in Nodes, f \in Facts : installed'[n][f] \subseteq External(n)'
    BY <1>1, ProgramFrame DEF TypeOK
  <2> QED BY <1>1, <1>6, <2>1, MembersTyped DEF TypeOK
<1>8. SoundInv'
  BY <1>1, SoundFrame
<1>9. LocalInv'
  BY <1>1, <1>4, <1>5 DEF LocalInv, Working
<1>10. WorkInv'
  <2>1. NodeTargets(Base) \subseteq Complete \cup Known
    <3>1. \A g \in NodeTargets(stack[m].who) \ Known :
            g \in Complete \/ g \in stack[m].todo \/ (m < m /\ g = stack[m + 1].who)
      BY <1>1, <1>2 DEF StackInv
    <3> QED BY <1>2, <3>1
  <2>2. ASSUME NEW g \in Gens PROVE request[g] \in {"none", "complete"}
    <3>1. \A i \in 1..m : i = m
      BY <1>3
    <3>2. request[g] # "pending"
      BY <1>1, <1>2, <3>1 DEF StackInv
    <3>3. request[g] # "materialising"
      <4>1. \A i \in 1..m : stack[i].who # g
        BY <1>2, <3>1, BodiesSplit
      <4> QED BY <1>1, <4>1 DEF TypeOK
    <3> QED BY <3>2, <3>3 DEF TypeOK
  <2> QED BY <1>1, <1>4, <1>5, <1>6, <2>1, <2>2 DEF WorkInv
<1>11. StackInv' /\ BootInv' /\ CircleFound' /\ NeverBroken' /\ VerdictIsFinal'
       /\ PublishedLinks'
  BY <1>1 DEF StackInv, BootInv, CircleFound, NeverBroken, VerdictIsFinal,
              PublishedLinks
<1>12. StoreInv'
  BY <1>1, <1>5 DEF StoreInv
<1> QED BY <1>4, <1>7, <1>8, <1>9, <1>10, <1>11, <1>12

(* A visit leaves the least fixed point of the node over the current       *)
(* reports: when the borrow check is not repeated it would find the same.  *)
LEMMA VisitedIs ==
    ASSUME IInv, phase = "converge", NEW n \in Members, NEW f \in Facts
    PROVE  /\ Visited(n)[f] = Least(f, BodiesOf(n), Direct(n)[f])
           /\ Direct(n)[f] = report[f] \cap External(n)
           /\ Visited(n)[f] \subseteq BodiesOf(n)
           /\ report[f] \cap BodiesOf(n) \subseteq Visited(n)[f]
           /\ Visited(n)[f] \subseteq Exact(f)
<1> USE DEF IInv
<1>1. n \in Nodes /\ BodiesOf(n) \subseteq Bodies
  BY MembersTyped, BodiesSplit
<1>2. Direct(n)[f] = report[f] \cap External(n)
  BY DEF Direct
<1>3. Visited(n)[f] = Least(f, BodiesOf(n), Direct(n)[f])
  <2>1. CASE f = "writes" /\ Direct(n) = installed[n]
    <3>1. Visited(n)[f] = report[f] \cap BodiesOf(n)
      BY <2>1 DEF Visited
    <3>2. report["writes"] \cap BodiesOf(n) =
            Least("writes", BodiesOf(n), installed[n]["writes"])
      BY DEF LocalInv, Working
    <3> QED BY <2>1, <3>1, <3>2
  <2>2. CASE ~(f = "writes" /\ Direct(n) = installed[n])
    BY <2>2 DEF Visited
  <2> QED BY <2>1, <2>2
<1>4. Visited(n)[f] \subseteq BodiesOf(n)
  BY <1>3, LeastClosed
<1>5. report[f] \cap BodiesOf(n) \subseteq Least(f, BodiesOf(n), installed[n][f])
  BY DEF LocalInv, Working, Facts
<1>6. installed[n][f] \subseteq Direct(n)[f]
  BY <1>1, <1>2 DEF SoundInv, TypeOK
<1>7. report[f] \cap BodiesOf(n) \subseteq Visited(n)[f]
  BY <1>3, <1>5, <1>6, LeastMonotone
<1>8. Visited(n)[f] \subseteq Exact(f)
  <2>1. Direct(n)[f] \subseteq Exact(f)
    BY <1>2 DEF SoundInv
  <2> QED BY <1>1, <1>3, <2>1, LeastSound
<1> QED BY <1>2, <1>3, <1>4, <1>7, <1>8

(* Taking the first node off the deque and appending the new ones keeps    *)
(* the deque and the bitset in step.                                       *)
LEMMA QueueIs ==
    ASSUME NEW q \in Seq(Nodes), q # <<>>, NEW Q \in SUBSET Nodes,
           \A m \in Nodes : m \in Q <=> \E i \in 1..Len(q) : q[i] = m,
           \A i, j \in 1..Len(q) : q[i] = q[j] => i = j,
           NEW new \in SUBSET Nodes, new \cap (Q \ {Head(q)}) = {},
           NEW s \in Ascending(new)
    PROVE  /\ Tail(q) \o s \in Seq(Nodes)
           /\ \A m \in Nodes : m \in (Q \ {Head(q)}) \cup new
                <=> \E i \in 1..Len(Tail(q) \o s) : (Tail(q) \o s)[i] = m
           /\ \A i, j \in 1..Len(Tail(q) \o s) :
                (Tail(q) \o s)[i] = (Tail(q) \o s)[j] => i = j
<1> DEFINE k == Len(q) - 1
           l == Len(s)
           r == Tail(q) \o s
<1>1. /\ s \in Seq(Nodes) /\ l \in Nat
      /\ \A i \in 1..l : s[i] \in new
      /\ \A m \in new : \E i \in 1..l : s[i] = m
      /\ \A i, j \in 1..l : s[i] = s[j] => i = j
  BY AscendingIs
<1>2. /\ k \in Nat /\ Len(q) = k + 1 /\ Head(q) = q[1] /\ 1 \in 1..(k + 1)
      /\ Tail(q) \in Seq(Nodes) /\ Len(Tail(q)) = k
      /\ \A i \in 1..k : Tail(q)[i] = q[i + 1] /\ i + 1 \in 1..(k + 1)
  BY HeadTailProperties
<1>3. /\ r \in Seq(Nodes) /\ Len(r) = k + l
      /\ \A i \in 1..(k + l) : r[i] = IF i <= k THEN Tail(q)[i] ELSE s[i - k]
  BY <1>1, <1>2, ConcatProperties
<1> HIDE DEF k, l, r
<1>4. \A i \in 1..k : r[i] = q[i + 1] /\ i \in 1..(k + l)
  BY <1>1, <1>2, <1>3
<1>5. \A i \in 1..l : r[k + i] = s[i] /\ k + i \in 1..(k + l)
  BY <1>1, <1>2, <1>3
<1>6. \A i \in 1..(k + l) : i \in 1..k \/ (i - k \in 1..l /\ i = k + (i - k))
  BY <1>1, <1>2
<1>7. \A i \in 1..k : r[i] \in Q \ {Head(q)}
  <2> SUFFICES ASSUME NEW i \in 1..k PROVE r[i] \in Q \ {Head(q)}
    OBVIOUS
  <2>1. i + 1 \in 1..(k + 1) /\ i + 1 # 1 /\ q[i + 1] \in Nodes
    BY <1>2
  <2> QED BY <1>2, <1>4, <2>1
<1>8. \A i \in 1..l : r[k + i] \in new
  BY <1>1, <1>5
<1>9. ASSUME NEW m \in (Q \ {Head(q)}) \cup new
      PROVE  \E i \in 1..(k + l) : r[i] = m
  <2>1. CASE m \in new
    <3>1. PICK i \in 1..l : s[i] = m
      BY <1>1, <2>1
    <3>2. k + i \in 1..(k + l) /\ r[k + i] = m
      BY <1>1, <1>5, <3>1
    <3> QED BY <3>2
  <2>2. CASE m \in Q \ {Head(q)}
    <3>1. PICK i \in 1..(k + 1) : q[i] = m
      BY <1>2, <2>2
    <3>2. i # 1
      BY <1>2, <2>2, <3>1
    <3>3. i - 1 \in 1..k /\ (i - 1) + 1 = i
      BY <1>2, <3>2
    <3>4. r[i - 1] = m /\ i - 1 \in 1..(k + l)
      BY <1>4, <3>1, <3>3
    <3> QED BY <3>4
  <2> QED BY <2>1, <2>2
<1>10. ASSUME NEW i \in 1..(k + l) PROVE r[i] \in (Q \ {Head(q)}) \cup new
  BY <1>6, <1>7, <1>8
<1>11. ASSUME NEW i \in 1..(k + l), NEW j \in 1..(k + l), r[i] = r[j] PROVE i = j
  <2>1. CASE i \in 1..k /\ j \in 1..k
    <3>1. i + 1 \in 1..Len(q) /\ j + 1 \in 1..Len(q) /\ q[i + 1] = q[j + 1]
      BY <1>2, <1>4, <1>11, <2>1
    <3>2. i + 1 = j + 1
      BY <3>1
    <3> QED BY <1>2, <2>1, <3>2
  <2>2. CASE i \notin 1..k /\ j \notin 1..k
    <3>1. i - k \in 1..l /\ j - k \in 1..l /\ s[i - k] = s[j - k]
      BY <1>3, <1>5, <1>6, <1>11, <2>2
    <3>2. i - k = j - k
      BY <1>1, <3>1
    <3> QED BY <1>1, <1>2, <3>2
  <2>3. CASE i \in 1..k /\ j \notin 1..k
    BY <1>6, <1>7, <1>8, <1>11, <2>3
  <2>4. CASE i \notin 1..k /\ j \in 1..k
    BY <1>6, <1>7, <1>8, <1>11, <2>4
  <2> QED BY <2>1, <2>2, <2>3, <2>4
<1>12. Len(r) = k + l /\ r \in Seq(Nodes)
  BY <1>3
<1>13. \A m \in Nodes : m \in (Q \ {Head(q)}) \cup new <=> \E i \in 1..Len(r) : r[i] = m
  BY <1>9, <1>10, <1>12
<1>14. \A i, j \in 1..Len(r) : r[i] = r[j] => i = j
  BY <1>11, <1>12
<1> QED BY <1>12, <1>13, <1>14 DEF r

(* A visited node whose callees' summaries make it clash is wrong.         *)
LEMMA ClashIsWrong ==
    ASSUME TypeOK, RequestInv, NEW n \in Members, NEW seen, NEW own,
           seen \subseteq Exact("writes"), own \subseteq Exact("writes"),
           Clashes(n, seen, own)
    PROVE  \E b \in Fns \cup Asked : Wrong(b)
<1>1. PICK b \in BodiesOf(n) \cap prog.clash : Executes(prog, b) \cap (seen \cup own) # {}
  BY DEF Clashes
<1>2. BodiesOf(n) \subseteq Fns \cup Asked
  BY MembersTyped, BodiesSplit DEF RequestInv, Complete
<1>3. Wrong(b)
  BY <1>1 DEF Wrong
<1> QED BY <1>1, <1>2, <1>3

(* A node that is not woken by a visit reads no summary the visit widened. *)
LEMMA NotWokenReadsSame ==
    ASSUME IInv, phase = "converge", NEW n \in Members, NEW m \in Members,
           m # n, m \notin Dependents(n)
    PROVE  External(m) \cap Widened(n) = {}
<1>1. CASE n = Base
  BY <1>1 DEF Dependents
<1>2. CASE n # Base
  <2>1. BodiesOf(n) = {n}
    BY <1>2, MembersTyped, BodiesSplit
  <2>2. \A f \in Facts : Visited(n)[f] \subseteq BodiesOf(n)
    BY VisitedIs
  <2>3. Widened(n) \subseteq {n}
    BY <2>1, <2>2 DEF Widened
  <2>4. Widened(n) = {} \/ n \notin External(m)
    BY <1>2 DEF Dependents
  <2> QED BY <2>3, <2>4
<1> QED BY <1>1, <1>2

(* What one visit does to the summaries: they only widen, those of every   *)
(* other node and of the published functions stay, and the node now holds  *)
(* what the reports say of its callees.                                    *)
LEMMA VisitWidens ==
    ASSUME IInv, prog' = prog, phase = "converge", NEW n \in Members,
           installed' = [installed EXCEPT ![n] = Direct(n)],
           report' = [f \in Facts |-> (report[f] \ BodiesOf(n)) \cup Visited(n)[f]]
    PROVE  /\ report' \in [Facts -> SUBSET Bodies]
           /\ installed' \in [Nodes -> [Facts -> SUBSET Bodies]]
           /\ installed'[n] = Direct(n)
           /\ \A m \in Nodes \ {n} : installed'[m] = installed[m]
           /\ \A f \in Facts :
                /\ report[f] \subseteq report'[f] /\ report'[f] \subseteq Exact(f)
                /\ report'[f] \cap BodiesOf(n) = Visited(n)[f]
                /\ report'[f] \cap Known = report[f] \cap Known
                /\ report'[f] \cap External(n) = report[f] \cap External(n)
                /\ \A m \in Members \ {n} :
                     report'[f] \cap BodiesOf(m) = report[f] \cap BodiesOf(m)
                /\ \A m \in Members \ {n} : m \notin Dependents(n) =>
                     report'[f] \cap External(m) = report[f] \cap External(m)
<1> USE DEF IInv
<1>1. n \in Nodes /\ BodiesOf(n) \subseteq Bodies
  BY MembersTyped, BodiesSplit
<1>2. Direct(n) \in [Facts -> SUBSET Bodies]
  BY DEF Direct, TypeOK
<1>3. /\ installed' \in [Nodes -> [Facts -> SUBSET Bodies]]
      /\ installed'[n] = Direct(n)
      /\ \A m \in Nodes \ {n} : installed'[m] = installed[m]
  BY <1>1, <1>2 DEF TypeOK
<1>4. ASSUME NEW f \in Facts
      PROVE  /\ report'[f] = (report[f] \ BodiesOf(n)) \cup Visited(n)[f]
             /\ Visited(n)[f] \subseteq BodiesOf(n)
             /\ report[f] \cap BodiesOf(n) \subseteq Visited(n)[f]
             /\ Visited(n)[f] \subseteq Exact(f)
             /\ report[f] \subseteq Exact(f) /\ report[f] \subseteq Bodies
  BY <1>4, VisitedIs DEF SoundInv, TypeOK
<1>5. report' \in [Facts -> SUBSET Bodies]
  BY <1>1, <1>4
<1>6. Known \cap BodiesOf(n) = {}
  <2>1. n \in Complete => n \in Asked /\ n \notin Known
    BY AskedClosed DEF RequestInv, Complete
  <2> QED BY <2>1, MembersTyped, BodiesSplit, ProgramTyped
<1>7. External(n) \cap BodiesOf(n) = {}
  BY <1>1, TargetsOfNode
<1>8. \A m \in Members \ {n} : BodiesOf(m) \cap BodiesOf(n) = {}
  BY MembersTyped, BodiesSplit
<1>9. ASSUME NEW f \in Facts, NEW m \in Members \ {n}, m \notin Dependents(n)
      PROVE  report'[f] \cap External(m) = report[f] \cap External(m)
  <2>1. External(m) \cap Widened(n) = {}
    BY <1>9, NotWokenReadsSame
  <2>2. Visited(n)[f] \ report[f] \subseteq Widened(n)
    BY DEF Widened
  <2> QED BY <1>4, <2>1, <2>2
<1>10. ASSUME NEW f \in Facts
       PROVE  /\ report[f] \subseteq report'[f] /\ report'[f] \subseteq Exact(f)
              /\ report'[f] \cap BodiesOf(n) = Visited(n)[f]
              /\ report'[f] \cap Known = report[f] \cap Known
              /\ report'[f] \cap External(n) = report[f] \cap External(n)
  BY <1>4, <1>6, <1>7
<1>11. ASSUME NEW f \in Facts, NEW m \in Members \ {n}
       PROVE  report'[f] \cap BodiesOf(m) = report[f] \cap BodiesOf(m)
  BY <1>4, <1>8
<1> QED BY <1>3, <1>5, <1>9, <1>10, <1>11

LEMMA VisitKeepsInv ==
    ASSUME IInv, Visit PROVE IInv'
<1> USE DEF IInv
<1> DEFINE n == Head(queue)
           new == Dependents(n) \ (queued \ {n})
           clash == /\ Direct(n) # installed[n]
                    /\ Clashes(n, Direct(n)["writes"], Visited(n)["writes"])
<1>1. /\ UNCHANGED <<prog, request, stack, store>>
      /\ phase = "converge" /\ queue # <<>>
      /\ installed' = [installed EXCEPT ![n] = Direct(n)]
  BY DEF Visit
<1>2. \/ /\ clash /\ phase' = "diagnosed" /\ report' = report
         /\ queue' = Tail(queue) /\ queued' = queued \ {n}
      \/ /\ ~clash /\ phase' = IF Narrows(n) THEN "broken" ELSE phase
         /\ report' = [f \in Facts |-> (report[f] \ BodiesOf(n)) \cup Visited(n)[f]]
         /\ \E s \in Ascending(new) : queue' = Tail(queue) \o s
         /\ queued' = (queued \ {n}) \cup new
  BY DEF Visit
<1>3. /\ queue \in Seq(Nodes) /\ n = queue[1] /\ 1 \in 1..Len(queue)
      /\ queued \in SUBSET Nodes
      /\ \A m \in Nodes : m \in queued <=> \E i \in 1..Len(queue) : queue[i] = m
      /\ \A i, j \in 1..Len(queue) : queue[i] = queue[j] => i = j
  BY <1>1 DEF TypeOK, WorkInv, Working
<1>4. n \in Nodes /\ n \in Members
  BY <1>1, <1>3 DEF WorkInv, Working
<1>5. new \in SUBSET Nodes /\ new \subseteq Members /\ new \cap (queued \ {n}) = {}
  BY MembersTyped DEF Dependents
<1>6. \A f \in Facts : /\ Direct(n)[f] = report[f] \cap External(n)
                       /\ Visited(n)[f] \subseteq Exact(f)
                       /\ report[f] \cap BodiesOf(n) \subseteq Visited(n)[f]
                       /\ Visited(n)[f] = Least(f, BodiesOf(n), Direct(n)[f])
  BY <1>1, <1>4, VisitedIs
<1> HIDE DEF n, new
<1>7. /\ Complete' = Complete /\ Members' = Members /\ Compiled' = Compiled
      /\ (phase' # "lower" => RequestInv')
  BY <1>1, RequestFrame
<1>8. /\ Known' = Known /\ (\A m : External(m)' = External(m))
      /\ (\A m : NodeTargets(m)' = NodeTargets(m))
      /\ (\A f : Exact(f)' = Exact(f))
      /\ \A f, B, seen : Least(f, B, seen)' = Least(f, B, seen)
      /\ \A m, seen, own : Clashes(m, seen, own)' = Clashes(m, seen, own)
  BY <1>1, ProgramFrame
<1>9. CASE clash /\ phase' = "diagnosed" /\ report' = report
           /\ queue' = Tail(queue) /\ queued' = queued \ {n}
  <2>1. Direct(n) \in [Facts -> SUBSET Bodies]
    BY DEF Direct, TypeOK
  <2>2. /\ installed' \in [Nodes -> [Facts -> SUBSET Bodies]]
        /\ installed'[n] = Direct(n)
        /\ \A m \in Nodes \ {n} : installed'[m] = installed[m]
    BY <1>1, <1>4, <2>1 DEF TypeOK
  <2>3. \A m \in Nodes, f \in Facts : /\ installed'[m][f] \subseteq External(m)
                                      /\ installed'[m][f] \subseteq report[f]
    BY <1>6, <2>2 DEF TypeOK, SoundInv
  <2>4. queue' \in Seq(Nodes) /\ queued' \subseteq Nodes
    BY <1>1, <1>3, <1>9
  <2>5. TypeOK'
    BY <1>1, <1>8, <1>9, <2>2, <2>3, <2>4 DEF TypeOK
  <2>6. SoundInv'
    BY <1>8, <1>9, <2>3 DEF SoundInv
  <2>7. \E b \in Fns \cup Asked : Wrong(b)
    <3>1. /\ Direct(n)["writes"] \subseteq Exact("writes")
          /\ Visited(n)["writes"] \subseteq Exact("writes")
      BY <1>6 DEF SoundInv, Facts
    <3> QED BY <1>4, <1>9, <3>1, ClashIsWrong
  <2> QED BY <1>1, <1>7, <1>9, <2>5, <2>6, <2>7, EndKeepsInv
<1>10. CASE /\ ~clash /\ phase' = IF Narrows(n) THEN "broken" ELSE phase
            /\ report' = [f \in Facts |-> (report[f] \ BodiesOf(n)) \cup Visited(n)[f]]
            /\ \E s \in Ascending(new) : queue' = Tail(queue) \o s
            /\ queued' = (queued \ {n}) \cup new
  <2>1. phase' = "converge"
    BY <1>1, <1>6, <1>10 DEF Narrows
  <2>2. /\ report' \in [Facts -> SUBSET Bodies]
        /\ installed' \in [Nodes -> [Facts -> SUBSET Bodies]]
        /\ installed'[n] = Direct(n)
        /\ \A m \in Nodes \ {n} : installed'[m] = installed[m]
        /\ \A f \in Facts :
             /\ report[f] \subseteq report'[f] /\ report'[f] \subseteq Exact(f)
             /\ report'[f] \cap BodiesOf(n) = Visited(n)[f]
             /\ report'[f] \cap Known = report[f] \cap Known
             /\ report'[f] \cap External(n) = report[f] \cap External(n)
             /\ \A m \in Members \ {n} :
                  report'[f] \cap BodiesOf(m) = report[f] \cap BodiesOf(m)
             /\ \A m \in Members \ {n} : m \notin Dependents(n) =>
                  report'[f] \cap External(m) = report[f] \cap External(m)
    BY <1>1, <1>4, <1>10, VisitWidens
  <2>3. /\ queue' \in Seq(Nodes)
        /\ \A m \in Nodes :
             m \in queued' <=> \E i \in 1..Len(queue') : queue'[i] = m
        /\ \A i, j \in 1..Len(queue') : queue'[i] = queue'[j] => i = j
    <3>1. PICK s \in Ascending(new) : queue' = Tail(queue) \o s
      BY <1>10
    <3>2. n = Head(queue)
      BY DEF n
    <3>3. /\ Tail(queue) \o s \in Seq(Nodes)
          /\ \A m \in Nodes : m \in (queued \ {Head(queue)}) \cup new
               <=> \E i \in 1..Len(Tail(queue) \o s) : (Tail(queue) \o s)[i] = m
          /\ \A i, j \in 1..Len(Tail(queue) \o s) :
               (Tail(queue) \o s)[i] = (Tail(queue) \o s)[j] => i = j
      <4>1. queue \in Seq(Nodes) /\ queue # <<>> /\ queued \in SUBSET Nodes
            /\ new \in SUBSET Nodes /\ new \cap (queued \ {Head(queue)}) = {}
        BY <1>1, <1>3, <1>5, <3>2
      <4>2. /\ \A m \in Nodes :
                  m \in queued <=> \E i \in 1..Len(queue) : queue[i] = m
            /\ \A i, j \in 1..Len(queue) : queue[i] = queue[j] => i = j
        BY <1>3
      <4> QED BY <4>1, <4>2, QueueIs, ZenonT(30)
    <3>4. queued' = (queued \ {Head(queue)}) \cup new
      BY <1>10, <3>2
    <3> QED BY <3>1, <3>3, <3>4
  <2>4. queued' \subseteq Members /\ queued' \subseteq Nodes
    BY <1>1, <1>5, <1>10, MembersTyped DEF WorkInv, Working
  <2>5. ASSUME NEW m \in Nodes, NEW f \in Facts
        PROVE  /\ installed'[m][f] \subseteq External(m)
               /\ installed'[m][f] \subseteq report'[f]
    <3>1. CASE m = n
      BY <1>6, <2>2, <3>1
    <3>2. CASE m # n
      BY <2>2, <3>2 DEF TypeOK, SoundInv
    <3> QED BY <3>1, <3>2
  <2>6. TypeOK'
    BY <1>1, <1>8, <2>1, <2>2, <2>3, <2>4, <2>5 DEF TypeOK
  <2>7. SoundInv'
    BY <1>8, <2>2, <2>5 DEF SoundInv
  <2>8. LocalInv'
    <3>1. ASSUME NEW m \in Members
          PROVE  /\ report'["writes"] \cap BodiesOf(m) =
                      Least("writes", BodiesOf(m), installed'[m]["writes"])
                 /\ report'["fails"] \cap BodiesOf(m) \subseteq
                      Least("fails", BodiesOf(m), installed'[m]["fails"])
                 /\ ~Clashes(m, installed'[m]["writes"],
                                report'["writes"] \cap BodiesOf(m))
      <4>1. CASE m = n
        <5>1. /\ report'["writes"] \cap BodiesOf(n) = Visited(n)["writes"]
              /\ report'["fails"] \cap BodiesOf(n) = Visited(n)["fails"]
          BY <2>2 DEF Facts
        <5>2. ~Clashes(n, Direct(n)["writes"], Visited(n)["writes"])
          <6>1. CASE Direct(n) = installed[n]
            <7>1. Visited(n)["writes"] = report["writes"] \cap BodiesOf(n)
              BY <6>1 DEF Visited, Facts
            <7> QED BY <1>1, <1>4, <6>1, <7>1 DEF LocalInv, Working
          <6>2. CASE Direct(n) # installed[n]
            BY <1>10, <6>2
          <6> QED BY <6>1, <6>2
        <5>3. /\ Visited(n)["writes"] = Least("writes", BodiesOf(n), Direct(n)["writes"])
              /\ Visited(n)["fails"] = Least("fails", BodiesOf(n), Direct(n)["fails"])
          BY <1>6 DEF Facts
        <5> QED BY <2>2, <4>1, <5>1, <5>2, <5>3
      <4>2. CASE m # n
        <5>1. /\ report'["writes"] \cap BodiesOf(m) = report["writes"] \cap BodiesOf(m)
              /\ report'["fails"] \cap BodiesOf(m) = report["fails"] \cap BodiesOf(m)
          BY <2>2, <4>2 DEF Facts
        <5>2. installed'[m] = installed[m]
          BY <2>2, <4>2, MembersTyped
        <5> QED BY <1>1, <5>1, <5>2 DEF LocalInv, Working
      <4> QED BY <4>1, <4>2
    <3> QED BY <1>7, <1>8, <3>1 DEF LocalInv
  <2>9. ASSUME NEW m \in Members \ queued'
        PROVE  /\ installed'[m] = Direct(m)'
               /\ report'["fails"] \cap BodiesOf(m) =
                    Least("fails", BodiesOf(m), installed'[m]["fails"])
    <3>1. CASE m = n
      <4>1. Direct(m)' = Direct(n)
        <5>1. \A f \in Facts : report'[f] \cap External(n) = report[f] \cap External(n)
          BY <2>2
        <5>2. Direct(n) = [f \in Facts |-> report[f] \cap External(n)]
          BY DEF Direct
        <5>3. Direct(m)' = [f \in Facts |-> report'[f] \cap External(m)']
          BY DEF Direct
        <5>4. External(m)' = External(n)
          BY <1>8, <3>1
        <5> QED BY <5>1, <5>2, <5>3, <5>4
      <4> QED BY <1>6, <2>2, <3>1, <4>1 DEF Facts
    <3>2. CASE m # n
      <4>1. m \in Members \ queued /\ m \notin Dependents(n) /\ m \in Nodes
        BY <1>10, <3>2, MembersTyped DEF new
      <4>2. \A f \in Facts : report'[f] \cap External(m) = report[f] \cap External(m)
        BY <2>2, <3>2, <4>1
      <4>3. Direct(m)' = Direct(m)
        <5>1. Direct(m)' = [f \in Facts |-> report'[f] \cap External(m)']
          BY DEF Direct
        <5> QED BY <1>8, <4>2, <5>1 DEF Direct
      <4>4. installed'[m] = installed[m]
        BY <2>2, <3>2, <4>1
      <4>5. report'["fails"] \cap BodiesOf(m) = report["fails"] \cap BodiesOf(m)
        BY <2>2, <3>2, <4>1 DEF Facts
      <4> QED BY <1>1, <4>1, <4>3, <4>4, <4>5 DEF WorkInv, Working
    <3> QED BY <3>1, <3>2
  <2>10. WorkInv'
    <3>1. /\ NodeTargets(Base) \subseteq Complete \cup Known
          /\ \A g \in Gens : request[g] \in {"none", "complete"}
      BY <1>1 DEF WorkInv, Working
    <3> QED BY <1>1, <1>7, <1>8, <2>1, <2>3, <2>4, <2>9, <3>1 DEF WorkInv
  <2>11. StackInv' /\ BootInv' /\ CircleFound' /\ NeverBroken' /\ VerdictIsFinal'
         /\ PublishedLinks'
    BY <2>1 DEF StackInv, BootInv, CircleFound, NeverBroken, VerdictIsFinal,
                PublishedLinks
  <2>12. StoreInv'
    BY <1>1, <1>8 DEF StoreInv
  <2> QED BY <1>7, <2>1, <2>6, <2>7, <2>8, <2>10, <2>11, <2>12
<1> QED BY <1>2, <1>9, <1>10

-----------------------------------------------------------------------------
(***************************************************************************)
(* Verdict and publication.                                                *)
(***************************************************************************)
(* Once the worklist runs, every callee of a member is compiled here or    *)
(* published, and everything asked for is complete.                        *)
LEMMA MembersAreClosed ==
    ASSUME TypeOK, RequestInv, WorkInv, phase \in Working
    PROVE  /\ \A n \in Members :
                External(n) \cup BodiesOf(n) \subseteq Compiled \cup Known
           /\ Asked = Complete
<1>1. ASSUME NEW n \in Members
      PROVE  /\ NodeTargets(n) \subseteq Complete \cup Known
             /\ External(n) \cup BodiesOf(n) \subseteq Compiled \cup Known
  <2>1. n \in Nodes /\ BodiesOf(n) \subseteq Compiled
    BY MembersTyped
  <2>2. NodeTargets(n) \subseteq Complete \cup Known
    <3>1. CASE n = Base
      BY <3>1 DEF WorkInv
    <3>2. CASE n # Base
      <4>1. n \in Complete /\ BodiesOf(n) = {n}
        BY <3>2, MembersTyped, BodiesSplit
      <4>2. \A g \in NodeTargets(n) : g \in Targets(prog, n) /\ g \in Gens
        BY <2>1, <4>1, TargetsOfNode
      <4> QED BY <4>1, <4>2 DEF RequestInv
    <3> QED BY <3>1, <3>2
  <2>3. External(n) \subseteq Bodies /\ External(n) \cap Gens \subseteq NodeTargets(n)
    BY <2>1, TargetsOfNode
  <2> QED BY <2>1, <2>2, <2>3, MembersTyped, BodiesSplit
<1>2. Complete \subseteq Asked
  BY DEF RequestInv, Complete
<1>3. Asked \subseteq Complete
  <2>1. Complete \in SUBSET (Gens \ prog.known)
    BY <1>2, AskedClosed DEF Known
  <2>2. ASSUME NEW b \in Fns \cup Complete
        PROVE  (Targets(prog, b) \cap Gens) \ prog.known \subseteq Complete
    <3>1. PICK n \in Members : b \in BodiesOf(n)
      BY MembersTyped
    <3>2. n \in Nodes
      BY MembersTyped
    <3>3. Targets(prog, b) \cap Gens \subseteq NodeTargets(n)
      BY <3>1, <3>2, TargetsOfNode
    <3> QED BY <1>1, <3>3 DEF Known
  <2> QED BY <2>1, <2>2 DEF Asked
<1> QED BY <1>1, <1>2, <1>3

(* When no node waits, the reports of all bodies in sight are closed under *)
(* the rules of the whole program, so nothing is missing from them.        *)
LEMMA FixpointIsExact ==
    ASSUME IInv, phase \in Working, queue = <<>>, NEW f \in Facts
    PROVE  /\ queued = {}
           /\ report[f] \cap (Compiled \cup Known) = Exact(f) \cap (Compiled \cup Known)
<1> USE DEF IInv
<1> DEFINE Seen == Compiled \cup Known
           S == report[f] \cup (Bodies \ Seen)
<1>1. queued = {}
  BY DEF WorkInv, TypeOK
<1>2. \A n \in Members :
        /\ installed[n][f] = report[f] \cap External(n)
        /\ report[f] \cap BodiesOf(n) = Least(f, BodiesOf(n), installed[n][f])
  <2> SUFFICES ASSUME NEW n \in Members
               PROVE  /\ installed[n][f] = report[f] \cap External(n)
                      /\ report[f] \cap BodiesOf(n) =
                           Least(f, BodiesOf(n), installed[n][f])
    OBVIOUS
  <2>1. installed[n] = Direct(n)
    BY <1>1 DEF WorkInv
  <2>2. Direct(n)[f] = report[f] \cap External(n)
    BY DEF Direct
  <2>3. /\ report["writes"] \cap BodiesOf(n) =
             Least("writes", BodiesOf(n), installed[n]["writes"])
        /\ report["fails"] \cap BodiesOf(n) =
             Least("fails", BodiesOf(n), installed[n]["fails"])
    BY <1>1 DEF WorkInv, LocalInv
  <2> QED BY <2>1, <2>2, <2>3 DEF Facts
<1>3. /\ report[f] \subseteq Exact(f)
      /\ report[f] \cap Known = Exact(f) \cap Known
      /\ report[f] \subseteq Bodies
  BY DEF SoundInv, TypeOK
<1>4. ClosedUnder(f, Bodies, {}, Exact(f))
  BY LeastClosed DEF Exact
<1>5. ASSUME NEW b \in Bodies, b \in Source(f) \/ Flow(f, b) \cap S # {}
      PROVE  b \in S
  <2>1. CASE b \notin Seen
    BY <2>1
  <2>2. CASE b \in Known
    <3>1. Flow(f, b) \subseteq Known
      BY <2>2, FlowIsTarget, ProgramTyped
    <3>2. b \in Source(f) \/ Flow(f, b) \cap Exact(f) # {}
      BY <1>3, <1>5, <3>1
    <3>3. b \in Exact(f)
      BY <1>4, <3>2 DEF ClosedUnder
    <3> QED BY <1>3, <2>2, <3>3
  <2>3. CASE b \in Compiled
    <3>1. PICK n \in Members : b \in BodiesOf(n)
      BY <2>3, MembersTyped
    <3>2. n \in Nodes
      BY MembersTyped
    <3>3. Flow(f, b) \subseteq External(n) \cup BodiesOf(n)
      BY <3>1, <3>2, FlowIsTarget, TargetsOfNode
    <3>4. External(n) \cup BodiesOf(n) \subseteq Seen
      BY MembersAreClosed
    <3> DEFINE L == Least(f, BodiesOf(n), installed[n][f])
    <3>5. report[f] \cap BodiesOf(n) = L /\ report[f] \cap External(n) = installed[n][f]
      BY <1>2
    <3>6. ClosedUnder(f, BodiesOf(n), installed[n][f], L)
      BY LeastClosed
    <3> HIDE DEF L
    <3>7. Flow(f, b) \cap S \subseteq L \cup installed[n][f]
      <4>1. Flow(f, b) \cap S \subseteq report[f]
        BY <3>3, <3>4
      <4> QED BY <3>3, <3>5, <4>1
    <3>8. b \in Source(f) \/ Flow(f, b) \cap (L \cup installed[n][f]) # {}
      BY <1>5, <3>7
    <3>9. b \in L
      BY <3>1, <3>6, <3>8 DEF ClosedUnder
    <3> QED BY <3>5, <3>9
  <2> QED BY <2>1, <2>2, <2>3
<1>6. S \in SUBSET Bodies
  BY <1>3
<1> HIDE DEF S
<1>7. ClosedUnder(f, Bodies, {}, S)
  BY <1>5 DEF ClosedUnder
<1>8. Exact(f) \subseteq S
  BY <1>6, <1>7, LeastSmallest DEF Exact
<1> QED BY <1>1, <1>3, <1>8 DEF S

(* A boundary diagnostic depends on the summaries of call targets only.    *)
LEMMA FaultyReads ==
    ASSUME TypeOK, NEW b \in Bodies, NEW S, NEW T,
           S \cap Targets(prog, b) = T \cap Targets(prog, b)
    PROVE  Faulty(b, S) <=> Faulty(b, T)
<1>1. /\ prog.calls[b] \cap S = prog.calls[b] \cap T
      /\ prog.caught[b] \cap S = prog.caught[b] \cap T
      /\ prog.asserts[b] \cap S = prog.asserts[b] \cap T
  BY DEF Targets, Executes
<1> QED BY <1>1 DEF Faulty

(* At the fixpoint a node's own tables decide as the exact summaries do.   *)
LEMMA VerdictOfNode ==
    ASSUME IInv, phase \in Working, queue = <<>>,
           NEW n \in Members, NEW b \in BodiesOf(n)
    PROVE  Wrong(b) <=> Faulty(b, Retained(n))
<1> USE DEF IInv
<1>1. n \in Nodes /\ b \in Bodies
  BY MembersTyped, BodiesSplit
<1>2. queued = {}
  BY FixpointIsExact DEF Facts
<1>3. \A f \in Facts : installed[n][f] = report[f] \cap External(n)
  <2>1. installed[n] = Direct(n)
    BY <1>2 DEF WorkInv
  <2> QED BY <2>1 DEF Direct
<1>4. \A f \in Facts :
        report[f] \cap (Compiled \cup Known) = Exact(f) \cap (Compiled \cup Known)
  BY FixpointIsExact
<1>5. /\ Targets(prog, b) \subseteq External(n) \cup BodiesOf(n)
      /\ External(n) \cup BodiesOf(n) \subseteq Compiled \cup Known
      /\ Executes(prog, b) \subseteq Targets(prog, b)
  BY <1>1, TargetsOfNode, MembersAreClosed, ProgramTyped
<1>6. Retained(n) \cap Targets(prog, b) = Exact("fails") \cap Targets(prog, b)
  <2>1. Retained(n) = report["fails"] \cap (External(n) \cup BodiesOf(n))
    BY <1>3 DEF Retained, Facts
  <2>2. report["fails"] \cap (Compiled \cup Known)
          = Exact("fails") \cap (Compiled \cup Known)
    BY <1>4 DEF Facts
  <2> QED BY <1>5, <2>1, <2>2
<1>7. Faulty(b, Retained(n)) <=> Faulty(b, Exact("fails"))
  BY <1>1, <1>6, FaultyReads
<1>8. ~(b \in prog.clash /\ Executes(prog, b) \cap Exact("writes") # {})
  <2>1. ~Clashes(n, installed[n]["writes"], report["writes"] \cap BodiesOf(n))
    BY DEF LocalInv
  <2>2. b \in prog.clash =>
          Executes(prog, b) \cap (installed[n]["writes"]
                                    \cup (report["writes"] \cap BodiesOf(n))) = {}
    BY <2>1 DEF Clashes
  <2>3. installed[n]["writes"] = report["writes"] \cap External(n)
    BY <1>3 DEF Facts
  <2>4. report["writes"] \cap (Compiled \cup Known)
          = Exact("writes") \cap (Compiled \cup Known)
    BY <1>4 DEF Facts
  <2>5. Executes(prog, b) \cap Exact("writes")
          \subseteq installed[n]["writes"] \cup (report["writes"] \cap BodiesOf(n))
    BY <1>5, <2>3, <2>4
  <2> QED BY <2>2, <2>5
<1> QED BY <1>7, <1>8 DEF Wrong

LEMMA ValidateKeepsInv ==
    ASSUME IInv, Validate PROVE IInv'
<1> USE DEF IInv
<1> DEFINE bad == \E n \in Members, b \in Bodies :
                     b \in BodiesOf(n) /\ Faulty(b, Retained(n))
<1>1. /\ UNCHANGED <<prog, request, stack, report, installed, queue, queued, store>>
      /\ phase = "converge" /\ queue = <<>>
      /\ phase' = IF bad THEN "diagnosed" ELSE "validated"
  BY DEF Validate, Settled
<1>2. /\ RequestInv' /\ Complete' = Complete /\ Members' = Members
      /\ Compiled' = Compiled
  BY <1>1, RequestFrame
<1>3. SoundInv'
  BY <1>1, SoundFrame
<1>4. TypeOK'
  BY <1>1, ProgramFrame DEF TypeOK
<1>5. \A n \in Members : \A b \in BodiesOf(n) : Wrong(b) <=> Faulty(b, Retained(n))
  BY <1>1, VerdictOfNode DEF Working
<1>6. Asked = Complete
  BY <1>1, MembersAreClosed DEF Working
<1>7. CASE bad
  <2>1. PICK n \in Members, b \in Bodies : b \in BodiesOf(n) /\ Faulty(b, Retained(n))
    BY <1>7
  <2>2. b \in Fns \cup Asked /\ Wrong(b)
    BY <1>5, <1>6, <2>1, MembersTyped
  <2> QED BY <1>1, <1>2, <1>3, <1>4, <1>7, <2>2, EndKeepsInv
<1>8. CASE ~bad
  <2>1. phase' = "validated"
    BY <1>1, <1>8
  <2>2. \A b \in Fns \cup Asked : ~Wrong(b)
    <3> SUFFICES ASSUME NEW b \in Fns \cup Asked PROVE ~Wrong(b)
      OBVIOUS
    <3>1. PICK n \in Members : b \in BodiesOf(n)
      BY <1>6, MembersTyped
    <3>2. b \in Bodies
      BY <3>1, MembersTyped, BodiesSplit
    <3> QED BY <1>5, <1>8, <3>1, <3>2
  <2>3. VerdictIsFinal'
    BY <1>1, <2>1, <2>2, ProgramFrame DEF VerdictIsFinal
  <2>4. /\ Known' = Known /\ (\A n : NodeTargets(n)' = NodeTargets(n))
        /\ \A f, B, seen : Least(f, B, seen)' = Least(f, B, seen)
        /\ \A n, seen, own : Clashes(n, seen, own)' = Clashes(n, seen, own)
        /\ \A n : External(n)' = External(n)
    BY <1>1, ProgramFrame
  <2>5. \A n : Direct(n)' = Direct(n)
    BY <1>1, <2>4 DEF Direct
  <2>6. WorkInv'
    BY <1>1, <1>2, <2>1, <2>4, <2>5 DEF WorkInv, Working
  <2>7. LocalInv'
    BY <1>1, <1>2, <2>1, <2>4 DEF LocalInv, Working
  <2>8. StackInv' /\ BootInv' /\ CircleFound' /\ NeverBroken' /\ PublishedLinks'
    BY <2>1 DEF StackInv, BootInv, CircleFound, NeverBroken, PublishedLinks
  <2>9. StoreInv'
    BY <1>1, <2>4 DEF StoreInv
  <2> QED BY <1>2, <1>3, <1>4, <2>3, <2>6, <2>7, <2>8, <2>9
<1> QED BY <1>7, <1>8

LEMMA PublishKeepsInv ==
    ASSUME IInv, Publish PROVE IInv'
<1> USE DEF IInv
<1>1. /\ UNCHANGED <<prog, request, stack, report, installed, queue, queued>>
      /\ phase = "validated" /\ phase' \in {"broken", "published"}
      /\ phase' = "broken" => \/ \E g \in Gens : request[g] \in {"pending", "materialising"}
                              \/ Reachable \cap store # {}
      /\ phase' = "published" => store' = store \cup Reachable
  BY DEF Publish
<1>2. Asked = Complete /\ store = Known /\ queue = <<>>
  BY <1>1, MembersAreClosed DEF Working, StoreInv, WorkInv
<1>3. Reachable \subseteq Complete /\ Complete \cap Known = {} /\ Complete \subseteq Gens
  BY <1>2, AskedClosed DEF Reachable, Complete
<1>4. phase' = "published" /\ store' = Known \cup Reachable
  <2>1. \A g \in Gens : request[g] \notin {"pending", "materialising"}
    BY <1>1 DEF WorkInv, Working
  <2> QED BY <1>1, <1>2, <1>3, <2>1
<1>5. /\ RequestInv' /\ Complete' = Complete /\ Members' = Members
      /\ Compiled' = Compiled
  BY <1>1, <1>4, RequestFrame
<1>6. SoundInv'
  BY <1>1, SoundFrame
<1>7. /\ Known' = Known /\ (\A n : NodeTargets(n)' = NodeTargets(n))
      /\ \A f, B, seen : Least(f, B, seen)' = Least(f, B, seen)
      /\ \A n, seen, own : Clashes(n, seen, own)' = Clashes(n, seen, own)
      /\ \A n : External(n)' = External(n)
  BY <1>1, ProgramFrame
<1>8. TypeOK'
  <2>1. store' \subseteq Gens
    BY <1>3, <1>4, ProgramTyped
  <2> QED BY <1>1, <1>4, <1>7, <2>1 DEF TypeOK
<1>9. WorkInv'
  <2>1. \A n : Direct(n)' = Direct(n)
    BY <1>1, <1>7 DEF Direct
  <2> QED BY <1>1, <1>2, <1>4, <1>5, <1>7, <2>1 DEF WorkInv, Working
<1>10. LocalInv'
  BY <1>1, <1>4, <1>5, <1>7 DEF LocalInv, Working
<1>11. VerdictIsFinal'
  BY <1>1, <1>4, ProgramFrame DEF VerdictIsFinal
<1>12. StackInv' /\ BootInv' /\ CircleFound' /\ NeverBroken' /\ StoreInv'
  BY <1>4 DEF StackInv, BootInv, CircleFound, NeverBroken, StoreInv
<1>13. ASSUME NEW b \in Fns \cup store'
       PROVE  Executes(prog, b) \cap Gens \subseteq store'
  <2>1. CASE b \in Known
    <3>1. b \in Bodies /\ Targets(prog, b) \subseteq Known
      BY <2>1, ProgramTyped, BodiesSplit
    <3>2. Executes(prog, b) \subseteq Targets(prog, b)
      BY <3>1, ProgramTyped
    <3> QED BY <1>4, <3>1, <3>2
  <2>2. CASE b \in Fns \cup Reachable
    <3>1. PICK n \in Members : b \in BodiesOf(n)
      BY <1>3, <2>2, MembersTyped
    <3>2. n \in Nodes /\ b \in Bodies
      BY <3>1, MembersTyped, BodiesSplit
    <3>3. Executes(prog, b) \subseteq Compiled \cup Known
      BY <1>1, <3>1, <3>2, TargetsOfNode, MembersAreClosed, ProgramTyped DEF Working
    <3>4. ASSUME NEW g \in Executes(prog, b) \cap Gens, g \notin Known
          PROVE  g \in Reachable
      <4>1. g \in Complete
        BY <3>3, <3>4, MembersTyped, BodiesSplit
      <4>2. ASSUME NEW S \in SUBSET Gens, ClosedWalk(S) PROVE g \in S
        BY <2>2, <4>2 DEF ClosedWalk, Reachable
      <4> QED BY <4>1, <4>2 DEF Reachable, Complete
    <3> QED BY <1>4, <3>4
  <2> QED BY <1>4, <2>1, <2>2
<1>14. ASSUME NEW g \in store' \ Known
       PROVE  \E b \in Fns \cup store' : g \in Executes(prog, b)
  <2> SUFFICES ASSUME \A b \in Fns \cup store' : g \notin Executes(prog, b)
               PROVE  FALSE
    OBVIOUS
  <2> DEFINE W == {h \in Gens : \A S \in SUBSET Gens : ClosedWalk(S) => h \in S}
  <2>1. g \in Reachable /\ g \in W
    BY <1>4 DEF Reachable
  <2>2. ASSUME NEW b \in Fns PROVE Executes(prog, b) \cap Gens \subseteq W \ {g}
    BY DEF ClosedWalk
  <2>3. ASSUME NEW h \in W \ {g}, request[h] = "complete"
        PROVE  Executes(prog, h) \cap Gens \subseteq W \ {g}
    <3>1. h \in store'
      BY <1>4, <2>3 DEF Reachable
    <3>2. Executes(prog, h) \cap Gens \subseteq W
      BY <2>3 DEF ClosedWalk
    <3> QED BY <3>1, <3>2
  <2>4. W \ {g} \in SUBSET Gens
    OBVIOUS
  <2>5. ClosedWalk(W \ {g})
    <3> HIDE DEF W
    <3> QED BY <2>2, <2>3 DEF ClosedWalk
  <2>6. g \in W \ {g}
    BY <2>1, <2>4, <2>5
  <2> QED BY <2>6
<1>15. PublishedLinks'
  BY <1>1, <1>13, <1>14 DEF PublishedLinks, Known
<1> QED BY <1>5, <1>6, <1>8, <1>9, <1>10, <1>11, <1>12, <1>15

-----------------------------------------------------------------------------
(***************************************************************************)
(* The theorems.                                                           *)
(***************************************************************************)
LEMMA InitEstablishesInv ==
    ASSUME Init PROVE IInv
<1>1. /\ prog \in Program /\ WellFormed(prog) /\ phase = "lower"
      /\ request = [g \in Gens |-> "none"] /\ stack = <<>>
      /\ report = [f \in Facts |-> Exact(f) \cap Known]
      /\ installed = [n \in Nodes |-> Unset]
      /\ queue = <<>> /\ queued = {} /\ store = Known
  BY DEF Init, Known
<1>2. Known \subseteq Gens
  <2>1. prog.known \in SUBSET Gens
    BY <1>1 DEF Program
  <2> QED BY <2>1 DEF Known
<1>3. TypeOK
  <2>1. stack \in Seq([who : Nodes, todo : SUBSET Gens]) /\ queue \in Seq(Nodes)
    BY <1>1
  <2>2. report \in [Facts -> SUBSET Bodies]
    BY <1>1, <1>2, BodiesSplit
  <2>3. installed \in [Nodes -> [Facts -> SUBSET Bodies]]
        /\ \A n \in Nodes, f \in Facts : installed[n][f] = {}
    BY <1>1 DEF Unset
  <2> QED BY <1>1, <1>2, <2>1, <2>2, <2>3 DEF TypeOK
<1>4. RequestInv
  <2>1. Complete = {}
    BY <1>1 DEF Complete
  <2>2. \A S \in SUBSET Complete : ~CircleIn(S)
    BY <2>1 DEF CircleIn
  <2> QED BY <1>1, <2>1, <2>2 DEF RequestInv
<1>5. SoundInv
  BY <1>1 DEF SoundInv, Unset
<1>6. BootInv
  BY <1>1 DEF BootInv, Facts
<1>7. StackInv /\ LocalInv /\ WorkInv /\ StoreInv /\ CircleFound /\ NeverBroken
      /\ VerdictIsFinal /\ PublishedLinks
  BY <1>1 DEF StackInv, LocalInv, WorkInv, StoreInv, CircleFound, NeverBroken,
              VerdictIsFinal, PublishedLinks, Working
<1> QED BY <1>3, <1>4, <1>5, <1>6, <1>7 DEF IInv

LEMMA StutterKeepsInv ==
    ASSUME IInv, UNCHANGED vars PROVE IInv'
<1> USE DEF IInv
<1>1. UNCHANGED <<prog, phase, request, stack, report, installed, queue, queued, store>>
  BY DEF vars
<1>2. /\ RequestInv' /\ Complete' = Complete /\ Members' = Members
      /\ Compiled' = Compiled
  BY <1>1, RequestFrame
<1>3. SoundInv'
  BY <1>1, SoundFrame
<1>4. /\ Known' = Known /\ Asked' = Asked
      /\ (\A n : NodeTargets(n)' = NodeTargets(n))
      /\ (\A f, B, seen : Least(f, B, seen)' = Least(f, B, seen))
      /\ (\A n, seen, own : Clashes(n, seen, own)' = Clashes(n, seen, own))
      /\ (\A n : External(n)' = External(n))
      /\ (\A S : CircleIn(S)' = CircleIn(S))
      /\ (\A b : Wrong(b)' = Wrong(b))
  BY <1>1, ProgramFrame
<1>5. TypeOK'
  BY <1>1, <1>4 DEF TypeOK
<1>6. StackInv'
  BY <1>1, <1>2, <1>4 DEF StackInv
<1>7. BootInv' /\ StoreInv' /\ NeverBroken'
  BY <1>1, <1>2, <1>4 DEF BootInv, StoreInv, NeverBroken
<1>8. LocalInv'
  BY <1>1, <1>2, <1>4 DEF LocalInv
<1>9. WorkInv'
  <2>1. \A n : Direct(n)' = Direct(n)
    BY <1>1, <1>4 DEF Direct
  <2> QED BY <1>1, <1>2, <1>4, <2>1 DEF WorkInv
<1>10. CircleFound' /\ VerdictIsFinal'
  BY <1>1, <1>4 DEF CircleFound, VerdictIsFinal
<1>11. PublishedLinks'
  BY <1>1 DEF PublishedLinks
<1> QED BY <1>2, <1>3, <1>5, <1>6, <1>7, <1>8, <1>9, <1>10, <1>11

(* The inductive invariant holds of every compilation of every well-formed *)
(* program.                                                                *)
THEOREM Invariance == Spec => []IInv
<1>1. Init => IInv
  BY InitEstablishesInv
<1>2. IInv /\ [Next]_vars => IInv'
  <2> SUFFICES ASSUME IInv, [Next]_vars PROVE IInv'
    OBVIOUS
  <2>1. CASE LowerBase
    BY <2>1, LowerKeepsInv
  <2>2. CASE RejectBody
    BY <2>2, RejectKeepsInv
  <2>3. CASE EnterRequest
    BY <2>3, EnterKeepsInv
  <2>4. CASE SkipCompleted
    BY <2>4, SkipKeepsInv
  <2>5. CASE ReportRecursion
    BY <2>5, RecursionKeepsInv
  <2>6. CASE CompleteRequest
    BY <2>6, CompleteKeepsInv
  <2>7. CASE StartConvergence
    BY <2>7, StartKeepsInv
  <2>8. CASE Visit
    BY <2>8, VisitKeepsInv
  <2>9. CASE Validate
    BY <2>9, ValidateKeepsInv
  <2>10. CASE Publish
    BY <2>10, PublishKeepsInv
  <2>11. CASE Done
    BY <2>11, StutterKeepsInv DEF Done
  <2>12. CASE UNCHANGED vars
    BY <2>12, StutterKeepsInv
  <2> QED BY <2>1, <2>2, <2>3, <2>4, <2>5, <2>6, <2>7, <2>8, <2>9, <2>10, <2>11,
             <2>12 DEF Next, Step
<1> QED BY <1>1, <1>2, PTL DEF Spec

(* In run_generated_summary_convergence the deque and the bitset hold the  *)
(* same nodes, none twice, and a node that holds outdated summaries waits. *)
THEOREM StaleNodesWait == Spec => []StaleIsQueued
<1>1. IInv => StaleIsQueued
  <2> SUFFICES ASSUME IInv, phase = "converge" PROVE StaleIsQueued
    BY DEF StaleIsQueued
  <2> QED BY DEF IInv, WorkInv, Working, StaleIsQueued
<1> QED BY <1>1, Invariance, PTL

(* When the worklist has run dry the summaries of the base module and of   *)
(* every sidecar are the least fixed point over the whole program.         *)
THEOREM WorklistComputesExact == Spec => []ExactAtFixpoint
<1>1. IInv => ExactAtFixpoint
  <2> SUFFICES ASSUME IInv,
                      (phase = "converge" /\ queue = <<>>)
                        \/ phase \in {"validated", "published"}
               PROVE  \A f \in Facts, b \in Compiled \cup prog.known :
                        b \in report[f] <=> b \in Exact(f)
    BY DEF ExactAtFixpoint
  <2>1. phase \in Working /\ queue = <<>>
    BY DEF IInv, WorkInv, Working
  <2>2. \A f \in Facts :
          report[f] \cap (Compiled \cup Known) = Exact(f) \cap (Compiled \cup Known)
    BY <2>1, FixpointIsExact
  <2> QED BY <2>2 DEF Known
<1> QED BY <1>1, Invariance, PTL

(* No visit narrows a summary, no request is open at publication and no    *)
(* sidecar is published twice: the internal errors cannot be raised.       *)
THEOREM InternalErrorsUnreachable == Spec => []NeverBroken
<1>1. IInv => NeverBroken
  BY DEF IInv
<1> QED BY <1>1, Invariance, PTL

(* Recursion is reported only for a circle of the generated functions      *)
(* asked for, and a compilation that gets past materialisation has none.   *)
THEOREM RecursionIsReal == Spec => []RecursionReported
<1>1. IInv => RecursionReported
  <2> SUFFICES ASSUME IInv PROVE RecursionReported
    OBVIOUS
  <2> USE DEF IInv
  <2>1. phase = "recursive" => \E S \in SUBSET Asked : CircleIn(S)
    BY DEF CircleFound
  <2>2. phase \in Working => ~ \E S \in SUBSET Asked : CircleIn(S)
    <3> SUFFICES ASSUME phase \in Working, NEW S \in SUBSET Asked, CircleIn(S)
                 PROVE  FALSE
      OBVIOUS
    <3>1. S \in SUBSET Complete
      BY MembersAreClosed
    <3> QED BY <3>1 DEF RequestInv
  <2> QED BY <2>1, <2>2 DEF RecursionReported, CircleIn, Working
<1> QED BY <1>1, Invariance, PTL

(* The module is diagnosed only for a body that is wrong under the exact   *)
(* summaries of the program, and accepted only when no body is.            *)
THEOREM VerdictsAreExact == Spec => []VerdictIsFinal
<1>1. IInv => VerdictIsFinal
  BY DEF IInv
<1> QED BY <1>1, Invariance, PTL

(* What publish_module_and_generated stores links: every generated         *)
(* function executed from the module or from a stored sidecar is stored,   *)
(* and nothing is that no one executes.                                    *)
THEOREM PublicationLinks == Spec => []PublishedLinks
<1>1. IInv => PublishedLinks
  BY DEF IInv
<1> QED BY <1>1, Invariance, PTL
=============================================================================
