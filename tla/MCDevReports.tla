---------------------------- MODULE MCDevReports ----------------------------
(* Two pages, two page loads and a ledger of two: duplicates, a full       *)
(* ledger, late reports and failed builds all occur.                       *)
EXTENDS DevReports

CONSTANTS home, about, i1, i2

MCPages == {home, about}
MCInvocations == {i1, i2}
=============================================================================
