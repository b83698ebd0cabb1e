----------------------------- MODULE MCDevServe -----------------------------
(***************************************************************************)
(* One tab on a page that builds may drop, and two event streams, so that  *)
(* a reconnected stream overlaps the one it replaces. Tabs share nothing   *)
(* but the broadcast, which treats every stream alike.                     *)
(***************************************************************************)
EXTENDS DevServe

CONSTANTS home, about, t1, c1, c2

MCPages == {home, about}
MCTabs == {t1}
MCPathOf == [t \in Tabs |-> about]
MCConns == {c1, c2}
=============================================================================
