------------------------------- MODULE MCJobSet -------------------------------
(***************************************************************************)
(* JobSet; the bounds are numbers, given in the configurations.            *)
(***************************************************************************)
EXTENDS JobSet
==============================================================================
