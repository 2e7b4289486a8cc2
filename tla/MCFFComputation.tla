-------------------------- MODULE MCFFComputation --------------------------
(***************************************************************************)
(* Numbers for TLC that are passed for an operator; and one function is    *)
(* like another.                                                           *)
(***************************************************************************)
EXTENDS FFComputation, TLC

(* One below the handles, FFPROD, FFOPERATOR_SENTINEL, the first of the     *)
(* custom handles, and one behind the last.                                *)
Numbers == {-1, 1, 5, 6, 8}

FunSymmetry == Permutations(Fun)
=============================================================================
