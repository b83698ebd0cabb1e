----------------------------- MODULE HotReload ------------------------------
(***************************************************************************)
(* What the dev server promises a browser: builds get consecutive          *)
(* generations, a live tab only ever moves forward to a published one, and *)
(* it does not stay behind.  DevServe implements this.                     *)
(***************************************************************************)
EXTENDS Naturals

CONSTANT Tabs

VARIABLES
    generation,   \* newest published generation
    live,         \* tabs that run the dev client, or are loading a page
    shown         \* generation each tab shows; 0: nothing yet

vars == <<generation, live, shown>>

Init ==
    /\ generation = 0
    /\ live = {}
    /\ shown = [t \in Tabs |-> 0]

Publish ==
    /\ generation' = generation + 1
    /\ UNCHANGED <<live, shown>>

Open(t) ==
    /\ t \notin live
    /\ generation > 0
    /\ live' = live \cup {t}
    /\ UNCHANGED <<generation, shown>>

(* The tab's page is gone, or the network failed while it loaded.          *)
Detach(t) ==
    /\ t \in live
    /\ live' = live \ {t}
    /\ UNCHANGED <<generation, shown>>

Refresh(t) ==
    /\ t \in live
    /\ shown[t] < generation
    /\ \E g \in (shown[t] + 1)..generation :
          shown' = [shown EXCEPT ![t] = g]
    /\ UNCHANGED <<generation, live>>

Next == Publish \/ \E t \in Tabs : Open(t) \/ Detach(t) \/ Refresh(t)

Spec == Init /\ [][Next]_vars

FairSpec == Spec /\ \A t \in Tabs : WF_vars(Refresh(t))
=============================================================================
