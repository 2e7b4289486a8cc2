--------------------------- MODULE FFComputation ---------------------------
(***************************************************************************)
(* A computation (src/ffcomp.c, src/components/gcomp/ffop_gcomp.c) with    *)
(* its operator and its buffers.  It keeps pointers to the buffers and a   *)
(* copy of the operator's descriptor, and is posted any time later, when   *)
(* the buffers have other sizes and the operator may be gone.              *)
(*                                                                         *)
(* The operators, the buffers and the computations are used by one thread. *)
(* The post changes only data: what it would do is Applied and Size.       *)
(***************************************************************************)
EXTENDS FFOperators, FFBuffer

CONSTANTS
  buffer1, buffer3,  \* of the computation; buffer2 is buffer3, as in
                     \* ffallreduce
  Passed             \* numbers that are passed for an operator at random

ASSUME ComputationAssumption == {buffer1, buffer3} \subseteq Buffer
ASSUME PassedAssumption == Passed \subseteq Int

VARIABLE comp   \* operator_type and operator of the computation, what
                \* ffcomp_b returned and the function that is meant by it

computationVars == <<vars, operatorVars, bufferVars, comp>>

NoComp == [operator_type |-> NoIndex, ret |-> "FFERROR", op_fun |-> NULL, meant |-> NULL]

ComputationTypeOK ==
  /\ TypeOK /\ OperatorTypeOK /\ BufferTypeOK
  /\ comp.operator_type \in Int \cup {NoIndex}
  /\ comp.ret \in {"FFSUCCESS", "FFINVALID_ARG", "FFERROR"}
  /\ comp.op_fun \in Fun \cup {"sum", "copy", "other", NULL}
  /\ comp.meant \in Fun \cup {"sum", "copy", NULL}

ComputationInit == OperatorInit /\ BufferInit /\ comp = NoComp

(* ffcomp_b and ffop_gcomp_init.  The operation is handed out even if the  *)
(* result is FFINVALID_ARG.  One computation at a time is looked at.        *)
Build(h, f) ==
  /\ comp = NoComp
  /\ Live(buffer1) /\ Live(buffer3)
  /\ LET got == operator_get(h)
     IN  comp' = [operator_type |-> h, ret |-> got[1], op_fun |-> got[2], meant |-> f]
  /\ UNCHANGED <<vars, operatorVars, bufferVars>>

(* What is meant by FFSUM, FFIDENTITY and the handles that the application *)
(* has and that were not deleted; and nothing in particular by any other   *)
(* number, FFPROD, FFMAX and FFMIN included.                               *)
BuildMeant == \/ Build(FFSUM, "sum") \/ Build(FFIDENTITY, "copy")
              \/ \E f \in Fun \ stolen :
                    handle_of[f] # NoIndex /\ Build(FFCUSTOM + handle_of[f], f)
BuildAny == \E h \in Passed : Build(h, NULL)

(* ffop_free *)
Drop == /\ comp # NoComp
        /\ comp' = NoComp
        /\ UNCHANGED <<vars, operatorVars, bufferVars>>

Operators == OperatorNext /\ UNCHANGED <<bufferVars, comp>>

(* No buffer is deleted while the computation has it. *)
Buffers ==
  /\ \E b \in Buffer :
        \/ \E n \in 1 .. MaxCount :
              \/ \E owner \in Owner : BufferCreate(b, owner, n)
              \/ BufferResize(b, n) \/ BufferMove(b, n)
        \/ comp = NoComp /\ BufferDelete(b)
  /\ UNCHANGED <<vars, operatorVars, comp>>

ComputationNext == BuildMeant \/ BuildAny \/ Drop \/ Operators \/ Buffers
ComputationSpec == ComputationInit /\ [][ComputationNext]_computationVars

-----------------------------------------------------------------------------
(* A post that asks the table again. *)
AppliedNow(c) == operator_get(c.operator_type)[2]

(* What ffop_gcomp_post calls. *)
Applied(c) == c.op_fun

(* A post that goes by the count of its first operand. *)
SizeOfFirst(b1, b3) == buf[b1].count

(* The size it calls it with. *)
Size(b1, b3) == IF buf[b1].count < buf[b3].count THEN buf[b1].count
                                                 ELSE buf[b3].count

(* A computation that is built for the sum, the copy or a function that is *)
(* registered is built without error and does that, even if its operator   *)
(* has been deleted since and another was registered in its place.         *)
ComputesAsBuilt ==
  comp.meant # NULL => comp.ret = "FFSUCCESS" /\ Applied(comp) = comp.meant

(* No operation goes beyond the memory of its buffers, whatever their      *)
(* sizes were when it was built: a send or a receive takes the count of    *)
(* its buffer, a computation the size of ffop_gcomp_post.                  *)
InBounds ==
  /\ \A b \in Buffer : Live(b) => buf[b].count <= buf[b].size
  /\ comp # NoComp =>
        \A b \in {buffer1, buffer3} : Size(buffer1, buffer3) <= buf[b].size
=============================================================================
