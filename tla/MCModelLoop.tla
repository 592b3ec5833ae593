---------------------------- MODULE MCModelLoop ----------------------------
(***************************************************************************)
(* Instances of ModelLoop for TLC.                                         *)
(***************************************************************************)
EXTENDS ModelLoop, TLC

WaiterSymmetry == Permutations(Waiters)
=============================================================================
