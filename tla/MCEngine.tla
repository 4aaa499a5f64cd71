------------------------------ MODULE MCEngine ------------------------------
(***************************************************************************)
(* Bounded instances of Engine: an update of the serving configuration and *)
(* a worker build, followed by recovery attempts at them.                  *)
(***************************************************************************)
EXTENDS Engine, TLC

RevisionSymmetry == Permutations(Revs)
=============================================================================
