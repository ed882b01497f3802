---------------------------- MODULE MCBuildDriver ----------------------------
(***************************************************************************)
(* Two packages' source directories, two stems and two out directories,  *)
(* with up to three programs (MaxObjs in the cfg): two programs with the   *)
(* same stem in different packages, in the same or in different out       *)
(* directories, and a failure of any of three programs, the last after    *)
(* two were built.                                                         *)
(***************************************************************************)
EXTENDS BuildDriver

CONSTANTS d1, d2, s1, s2, o1, o2

MCDirs == {d1, d2}
MCStems == {s1, s2}
MCOuts == {o1, o2}

=============================================================================
