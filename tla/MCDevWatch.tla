----------------------------- MODULE MCDevWatch -----------------------------
(* Two files: the configuration and one page.  The first edit of the       *)
(* configuration narrows the scope to itself, the second one restores it.  *)
EXTENDS DevWatch

CONSTANTS config, page

MCFiles == {config, page}
MCBackends == {"notify", "spawned"}
MCNotifyOnly == {"notify"}
MCFullScope == {config, page}
MCScopeOf == [v \in 0..MaxEdits |->
                IF v = 1 THEN {config} ELSE {config, page}]
MCFixedScopeOf == [v \in 0..MaxEdits |-> {config, page}]
=============================================================================
