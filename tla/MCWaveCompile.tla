--------------------------- MODULE MCWaveCompile ----------------------------
(***************************************************************************)
(* Two source packages and a project.                                      *)
(*                                                                         *)
(*   package 1   facade 2 over module 1                                    *)
(*   package 2   facade 3 importing package 1; module 4 beside it          *)
(*   project     5; 6 over 5, importing package 2; 7 importing package 1   *)
(*                                                                         *)
(* Check-only unit 1 belongs to package 1 and imports the later package 2; *)
(* units 2 and 3 belong to module 5 of the project.                        *)
(***************************************************************************)
EXTENDS WaveCompile

MCBoundaryOf == <<1, 1, 2, 2, 3, 3, 3>>
MCProviders == <<{}, {1}, {}, {}, {}, {5}, {}>>
MCPackages == <<{}, {}, {1}, {}, {}, {2}, {1}>>
MCRootOf == <<2, 3, 5>>
MCWaveOf == <<1, 2, 1, 1, 1, 2, 1>>
MCOwnerOf == <<2, 5, 5>>
MCUnitProviders == <<{2}, {5}, {6}>>
MCUnitPackages == <<{2}, {1}, {}>>
=============================================================================
