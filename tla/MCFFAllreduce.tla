--------------------------- MODULE MCFFAllreduce ---------------------------
(* Counts for the allreduce. *)
EXTENDS FFAllreduce

(* As test/allreduce.c has it: one count. *)
SameCount == [k \in 0 .. MaxRounds |-> 1]

(* As in test/allreduce_buffers_user_managed.c: the buffers are larger in  *)
(* the first round than when the schedule was built, and smaller in the    *)
(* second.                                                                 *)
GrowAndShrink == [k \in 0 .. MaxRounds |-> IF k = 1 THEN 3 ELSE 2]
=============================================================================
