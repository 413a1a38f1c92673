-------------------------------- MODULE MCEngine --------------------------------
(***************************************************************************)
(* Engine for TLC.                                                         *)
(***************************************************************************)
EXTENDS Engine, TLC

\* Requests are interchangeable.
RebuilderSymmetry == Permutations(Rebuilder)
=============================================================================
