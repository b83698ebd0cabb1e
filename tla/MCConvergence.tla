--------------------------- MODULE MCConvergence ---------------------------
(***************************************************************************)
(* Every call graph without self calls over two generated functions (1, 2) *)
(* and two base functions (3, 4), combined with a few ways for the bodies  *)
(* to handle, assert and fail.                                             *)
(***************************************************************************)
EXTENDS Convergence

MCGraphs ==
    {e \in [1 .. 4 -> SUBSET (1 .. 4)] : \A b \in 1 .. 4 : b \notin e[b]}

\* How each body uses its calls, what it does itself and what it may let out.
Profile(use, eligible, writes, numeric, clash, boundary, known) ==
    [use |-> use, eligible |-> eligible, writes |-> writes, numeric |-> numeric,
     clash |-> clash, boundary |-> boundary, known |-> known]

Infer == <<"infer", "infer", "infer", "infer">>

MCProfiles ==
    { Profile(<<"calls", "calls", "calls", "calls">>, {}, {2}, {4}, {},
              Infer, {}),
      Profile(<<"calls", "calls", "calls", "calls">>, {}, {4}, {1}, {3},
              <<"infer", "slot", "infer", "infer">>, {}),
      Profile(<<"calls", "caught", "calls", "calls">>, {2}, {3}, {1}, {},
              <<"infer", "infer", "promised", "infer">>, {}),
      Profile(<<"calls", "calls", "caught", "calls">>, {3}, {}, {2, 4}, {1},
              Infer, {}),
      Profile(<<"caught", "calls", "calls", "calls">>, {}, {1}, {4}, {},
              <<"infer", "infer", "infer", "none">>, {}),
      Profile(<<"calls", "calls", "asserts", "calls">>, {}, {1, 2}, {4}, {4},
              <<"infer", "infer", "none", "slot">>, {}),
      Profile(<<"asserts", "calls", "calls", "calls">>, {}, {2}, {3}, {3},
              Infer, {}),
      Profile(<<"calls", "calls", "calls", "caught">>, {4}, {2}, {2}, {1},
              Infer, {2}) }

Used(e, q, use) == [b \in 1 .. 4 |-> IF q.use[b] = use THEN e[b] ELSE {}]

MCProgram(e, q) ==
    [ calls |-> Used(e, q, "calls"), caught |-> Used(e, q, "caught"),
      asserts |-> Used(e, q, "asserts"), eligible |-> q.eligible,
      writes |-> q.writes, numeric |-> q.numeric, clash |-> q.clash,
      boundary |-> [b \in 1 .. 4 |-> q.boundary[b]], known |-> q.known ]

MCPrograms ==
    {p \in {MCProgram(e, q) : e \in MCGraphs, q \in MCProfiles} : WellFormed(p)}
=============================================================================
