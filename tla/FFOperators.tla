---------------------------- MODULE FFOperators ----------------------------
(***************************************************************************)
(* The operators of computations (components/gcomp/ffop_gcomp_operator.c): *)
(* some are built in, the others an application registers.  Those are in a *)
(* table whose indices an index manager lends (custom_idx, FFArman); their *)
(* handles are the indices, counted from FFCUSTOM.  One thread registers   *)
(* and deletes, so that each function is one step.                         *)
(*                                                                         *)
(* A handle may be deleted twice, or by one who has it no more when its    *)
(* number has been given to another; but nobody deletes a handle that was  *)
(* never given to anyone (the entry's type is not FFNONE then, so that an  *)
(* index would be given back that was not lent).                           *)
(***************************************************************************)
EXTENDS FFArman

CONSTANTS Fun,   \* the functions the application has to register
          NULL   \* no function

ASSUME FunAssumption == Fun \cap {NULL, "sum", "copy", "other"} = {}
ASSUME NullAssumption == NULL \notin {"sum", "copy", "other"}

(* The handles of ff.h. *)
FFSUM == 0
FFIDENTITY == 4
FFOPERATOR_SENTINEL == 5
FFCUSTOM == 6

VARIABLES
  custom_operators,  \* type and op_fun of each entry of the table
  handle_of,         \* the index in the handle the application has for each
                     \* function, NoIndex if it has none
  stale,             \* history: the indices of handles it has deleted
  stolen             \* history: the functions it has a handle for whose
                     \* entry was deleted by another of the same number

operatorVars == <<custom_operators, handle_of, stale, stolen>>

OperatorTypeOK ==
  /\ custom_operators \in [Index -> [type : {"unset", "FFCUSTOM", "FFNONE"},
                                     op_fun : Fun \cup {NULL}]]
  /\ handle_of \in [Fun -> Index \cup {NoIndex}]
  /\ stale \subseteq Index /\ stolen \subseteq Fun

(* ffop_gcomp_operator_init.  The tables are static memory: FFPROD, FFMAX  *)
(* and FFMIN have no function.                                             *)
operators == [h \in 0 .. FFOPERATOR_SENTINEL - 1 |->
                IF h = FFSUM THEN "sum" ELSE IF h = FFIDENTITY THEN "copy" ELSE NULL]

OperatorInit ==
  /\ Init
  /\ custom_operators = [i \in Index |-> [type |-> "unset", op_fun |-> NULL]]
  /\ handle_of = [f \in Fun |-> NoIndex]
  /\ stale = {} /\ stolen = {}

-----------------------------------------------------------------------------
(* A create that takes an entry for its own that was not deleted. *)
OperatorCreateKeeping(f) ==
  /\ handle_of[f] = NoIndex
  /\ GetIndex
  /\ custom_operators' = [custom_operators EXCEPT ![res'] =
        IF @.type = "FFNONE" THEN [@ EXCEPT !.type = "FFCUSTOM"]
        ELSE [type |-> "FFCUSTOM", op_fun |-> f]]
  /\ handle_of' = [handle_of EXCEPT ![f] = res']
  /\ UNCHANGED <<stale, stolen>>

(* ffop_gcomp_operator_custom_create, with an index at hand ... *)
OperatorCreate(f) ==
  /\ handle_of[f] = NoIndex
  /\ GetIndex
  /\ custom_operators' = [custom_operators EXCEPT ![res'] =
                            [type |-> "FFCUSTOM", op_fun |-> f]]
  /\ handle_of' = [handle_of EXCEPT ![f] = res']
  /\ UNCHANGED <<stale, stolen>>

(* ... and with none.  idx is unsigned, so that idx < 0 is never true; the *)
(* store is far from the table and the program stops there unless it hits  *)
(* other memory.  The handle it would give is FFCUSTOM - 1.                *)
OperatorCreateFull(f) ==
  /\ handle_of[f] = NoIndex
  /\ GetNothing
  /\ UNCHANGED operatorVars

(* A delete that forgets to mark the entry. *)
custom_delete_unmarked(i) ==
  IF custom_operators[i].type = "FFNONE"
  THEN UNCHANGED <<vars, custom_operators>>
  ELSE Put(i) /\ UNCHANGED custom_operators

(* ffop_gcomp_operator_custom_delete: FFERROR for an entry that is deleted *)
(* already.                                                                *)
custom_delete(i) ==
  IF custom_operators[i].type = "FFNONE"
  THEN UNCHANGED <<vars, custom_operators>>
  ELSE /\ custom_operators' = [custom_operators EXCEPT ![i].type = "FFNONE"]
       /\ Put(i)

Registered(i) == {f \in Fun : handle_of[f] = i}

(* The application deletes a handle it has, or once more one it had. *)
OperatorDelete(f) ==
  /\ handle_of[f] # NoIndex
  /\ custom_delete(handle_of[f])
  /\ handle_of' = [handle_of EXCEPT ![f] = NoIndex]
  /\ stale' = stale \cup {handle_of[f]}
  /\ stolen' = (stolen \cup Registered(handle_of[f])) \ {f}

OperatorDeleteAgain(i) ==
  /\ i \in stale
  /\ custom_delete(i)
  /\ stolen' = stolen \cup Registered(i)
  /\ UNCHANGED <<handle_of, stale>>

(* ffop_gcomp_operator_get: what it returns and the function it copies.    *)
(* The type is not looked at; FFOPERATOR_SENTINEL leads to what is before  *)
(* the table; and on an error nothing is copied.                           *)
operator_get(h) ==
  CASE h \in 0 .. FFOPERATOR_SENTINEL - 1 -> <<"FFSUCCESS", operators[h]>>
    [] h - FFCUSTOM \in Index -> <<"FFSUCCESS", custom_operators[h - FFCUSTOM].op_fun>>
    [] h = FFOPERATOR_SENTINEL -> <<"FFSUCCESS", "other">>
    [] OTHER -> <<"FFINVALID_ARG", "other">>

OperatorNext == \/ \E f \in Fun : \/ OperatorCreate(f) \/ OperatorCreateFull(f)
                                  \/ OperatorDelete(f)
                \/ \E i \in Index : OperatorDeleteAgain(i)

-----------------------------------------------------------------------------
(* Each handle stands for the function it was given for, whatever has been *)
(* registered and deleted since, unless its own number has been deleted.   *)
HandlesLead ==
  \A f \in Fun \ stolen : handle_of[f] # NoIndex =>
     /\ handle_of[f] \in held
     /\ custom_operators[handle_of[f]] = [type |-> "FFCUSTOM", op_fun |-> f]

(* However often a handle is deleted, and by whom, the entries that count  *)
(* as registered are those whose index is lent, and what can be deleted is *)
(* one of them or counts as deleted: the test of the type alone keeps an   *)
(* index from being given back that is not lent (ffarman.c would lend it   *)
(* to two, or stop at its assertion).                                      *)
LentIfCustom ==
  /\ \A i \in Index : custom_operators[i].type = "FFCUSTOM" <=> i \in held
  /\ \A i \in stale \cup ({handle_of[f] : f \in Fun} \ {NoIndex}) :
        custom_operators[i].type # "unset"

(* The registry of operators: both. *)
HandlesExact == HandlesLead /\ LentIfCustom
=============================================================================
