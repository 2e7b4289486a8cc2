-------------------------- MODULE FFScheduleBuild --------------------------
(***************************************************************************)
(* How a schedule is put together: ffschedule_create, then ffop_hb between *)
(* the application's operations and ffschedule_add_op for each of them, in *)
(* any order.  ffschedule_add_op looks only at the dependencies the        *)
(* operation has at that moment to decide whether begin_op comes before it *)
(* and end_op after it.  One thread builds a schedule.                     *)
(***************************************************************************)
EXTENDS Integers, Sequences, FiniteSets, SequencesExt

CONSTANTS
  N,         \* the application's operations are 1..N, in an order that the
             \* dependencies it asks for respect: its graph has no cycle
  MAX_DEPS,  \* the length of the array op->dependent (10)
  Low, High  \* the halves of an operation's address, as two uint32_t

ASSUME NAssumption == N \in Nat \ {0}
ASSUME DepsAssumption == MAX_DEPS \in Nat \ {0}
ASSUME AddressAssumption == Low \in Nat /\ Low > MAX_DEPS /\ High \in Nat

UserOp == 1 .. N
begin_op == 0
end_op == N + 1
Op == 0 .. N + 1

VARIABLES
  dependent,      \* op->dependent: what has been stored in it, in order
  out_dep_count,  \* op->out_dep_count
  in_dep_count,   \* op->in_dep_count
  dep_left,       \* op->instance.dep_left
  given,          \* history: how many dependents each has been given
  oplist          \* the list of sched->oplist, by op->sched_next

vars == <<dependent, out_dep_count, in_dep_count, dep_left, given, oplist>>

(* The operations as ffop_create makes them; ffschedule_create makes the   *)
(* two nops.                                                               *)
Init == /\ dependent = [o \in Op |-> <<>>]
        /\ out_dep_count = [o \in Op |-> 0]
        /\ in_dep_count = [o \in Op |-> 0]
        /\ dep_left = [o \in Op |-> 0]
        /\ given = [o \in Op |-> 0]
        /\ oplist = <<>>

-----------------------------------------------------------------------------
(* The state ffop_hb works on, as a record, because ffschedule_add_op      *)
(* calls it twice in a row.                                                *)
Links == [dep |-> dependent, out |-> out_dep_count,
          in |-> in_dep_count, left |-> dep_left, given |-> given]

(* ffop_hb up to the store of second.  ARGS_CHECK is not defined, so that  *)
(* nothing looks at the index.  The element behind the array is where the  *)
(* two counters of first are; a store further behind is far away (the      *)
(* index is the half of an address by then): the program stops there, or   *)
(* goes on having hit memory of somebody else.                             *)
store(s, first, second) ==
  LET idx == s.out[first]
  IN  [dep   |-> IF idx < MAX_DEPS
                 THEN [s.dep EXCEPT ![first] = Append(@, second)] ELSE s.dep,
       out   |-> [s.out EXCEPT ![first] = IF idx = MAX_DEPS THEN Low ELSE idx + 1],
       in    |-> [s.in EXCEPT ![first] = IF idx = MAX_DEPS THEN High ELSE @],
       left  |-> s.left,
       given |-> [s.given EXCEPT ![first] = @ + 1]]

(* Another ffop_hb: the counter of the second operation is set once. *)
hb_no_refresh(s, first, second) ==
  [store(s, first, second) EXCEPT !.in[second] = @ + 1]

(* ffop_hb: both counters go up and the second operation's dep_left is set *)
(* from the new one.                                                       *)
hb(s, first, second) ==
  LET t == store(s, first, second)
  IN  [t EXCEPT !.in[second] = @ + 1,
                !.left[second] = t.in[second] + 1]

Become(s) == /\ dependent' = s.dep
             /\ out_dep_count' = s.out
             /\ in_dep_count' = s.in
             /\ dep_left' = s.left
             /\ given' = s.given

(* ffop_hb by the application: at most once for each pair, and once for an *)
(* operation whose array is full (bounds).                                 *)
Hb(a, b) ==
  /\ a < b
  /\ ~Contains(dependent[a], b) /\ given[a] <= MAX_DEPS
  /\ Become(hb(Links, a, b))
  /\ UNCHANGED oplist

(* An add that gives begin_op no edge. *)
link_end_only(s, o) ==
  IF s.out[o] = 0 THEN hb(s, o, end_op) ELSE s

(* An add that ties an operation to end_op when it has no predecessor. *)
link_by_in(s, o) ==
  LET b == IF s.in[o] = 0 THEN hb(s, begin_op, o) ELSE s
  IN  IF s.in[o] = 0 THEN hb(b, o, end_op) ELSE b

(* The two edges ffschedule_add_op decides on. *)
link(s, o) ==
  LET b == IF s.in[o] = 0 THEN hb(s, begin_op, o) ELSE s
  IN  IF b.out[o] = 0 THEN hb(b, o, end_op) ELSE b

(* ffschedule_add_op, once for each operation. *)
AddOp(o) ==
  /\ ~Contains(oplist, o)
  /\ oplist' = <<o>> \o oplist
  /\ Become(link(Links, o))

(* The application stops when it has added all it has. *)
Built == /\ \A o \in UserOp : Contains(oplist, o)
         /\ UNCHANGED vars

Next == \/ \E a, b \in UserOp : Hb(a, b)
        \/ \E o \in UserOp : AddOp(o)
        \/ Built

Spec == Init /\ [][Next]_vars

-----------------------------------------------------------------------------
Succ(o) == ToSet(dependent[o])
Uses(o) == \/ out_dep_count[o] > 0
           \/ in_dep_count[o] > 0
Complete == /\ oplist # <<>>
            /\ \A o \in UserOp : Uses(o) => Contains(oplist, o)
Used == {o \in UserOp : Uses(o)} \cup {begin_op, end_op}

Entries == UNION {{p} \X DOMAIN dependent[p] : p \in Op}

(* No operation has been given more dependents than its array holds,      *)
(* begin_op included, which gets one for each operation that is added      *)
(* before anything it depends on is known.                                 *)
Fits == \A o \in Op : given[o] <= MAX_DEPS

(* Then the counters the engine starts from agree with the stored edges:   *)
(* every dependency counted in an operation will be counted down by        *)
(* exactly one entry of one array.                                         *)
CountsAgree ==
  Fits => \A o \in Op :
     /\ out_dep_count[o] = Len(dependent[o])
     /\ in_dep_count[o] = Cardinality({e \in Entries : dependent[e[1]][e[2]] = o})
     /\ dep_left[o] = in_dep_count[o]

(* And whenever every operation in use has been added, the graph is one    *)
(* the engine runs (GraphAssumption of FFSchedule): nothing before         *)
(* begin_op, nothing after end_op, and no set of operations from which     *)
(* end_op cannot be reached -- whatever the order of the calls, an edge to *)
(* or from an operation already added included.                            *)
LeadsToEnd ==
  Fits /\ Complete =>
     /\ \A o \in Used : begin_op \notin Succ(o)
     /\ dependent[end_op] = <<>>
     /\ \A S \in SUBSET Used :
           S # {} /\ (\A o \in S : Succ(o) \subseteq S) => end_op \in S

(* And none waits for an operation that posting begin_op does not reach.   *)
FedByBegin ==
  Fits /\ Complete =>
     \A S \in SUBSET Used :
        S # {} /\ (\A p \in Used : Succ(p) \cap S # {} => p \in S)
           => begin_op \in S
=============================================================================
