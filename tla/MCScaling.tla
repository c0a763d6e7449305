------------------------------- MODULE MCScaling -------------------------------
(***************************************************************************)
(* Scaling with two workers that are alike.                                *)
(***************************************************************************)
EXTENDS Scaling, TLC

WorkerSymmetry == Permutations(Workers)
===============================================================================
