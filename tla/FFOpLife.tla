------------------------------ MODULE FFOpLife ------------------------------
(***************************************************************************)
(* The life of an operation: a block taken from op_pool by a constructor   *)
(* (ffsend, ffrecv, ffcomp, ffnop over ffop_create), posted and waited for *)
(* any number of times, given back by ffop_free and taken again for        *)
(* another operation, while the progress thread holds pointers to it in    *)
(* the request table and on the ready list, which is made of the blocks'   *)
(* own instance.next fields.                                               *)
(*                                                                         *)
(* Each operation uses its block as FFStorage describes; the pool is large *)
(* enough.  The application creates, posts and frees operations at any     *)
(* time: ffop_free checks nothing, and rank 0 of test/ping_pong_dep.c      *)
(* frees a ping that it has posted and never waited for.  A history        *)
(* variable, early, says in which ways it has freed too early so far.      *)
(* LifeSpec is an application that asks for no dependencies (FFOp has      *)
(* those, of operations that are never freed), EdgesSpec one that asks for *)
(* them, of one operation to another.                                      *)
(***************************************************************************)
EXTENDS FFStorage, Sequences

CONSTANTS
  MaxOps,     \* bound: how many operations are created
  Immediate,  \* which of them, by their ids, are computations or nops and
              \* end inside their post; MPI reports the others
  UInt8Mod    \* 256: one more than the largest uint8_t

ASSUME MaxOpsAssumption == MaxOps \in Nat
ASSUME ImmediateAssumption == Immediate \subseteq 0 .. MaxOps - 1
ASSUME UInt8Assumption == UInt8Mod \in Nat \ {0, 1}

VARIABLES
  opid,           \* the counter the ids come from
  id,             \* op->id of each block
  instance_next,  \* op->instance.next
  completed,      \* op->instance.completed, a uint8_t
  dependent,      \* op->dependent[0], or NULL when op->out_dep_count is 0
  in_dep_count,   \* op->in_dep_count
  dep_left,       \* op->instance.dep_left
  inflight,       \* the requests MPI has, <<block, id>>: the pointer stored
                  \* in posted_ops and the operation it was posted for
  cur,            \* the variable completed of progress_thread: a pointer
                  \* into the ready list
  dep_op,         \* the variable dep_op of ffop_complete
  ppc,            \* the progress thread: "poll"; "complete" cur; "signal"
                  \* its dependent; "trigger" that; "advance" in the list
  apc,            \* the application's thread: [at, op]
  pending,        \* the operations it has posted, or has had posted by a
                  \* dependency, and not waited for
  early           \* history: "own", an operation has been freed while it was
                  \* pending; "others", while others were

opVars == <<opid, id>>
edgeVars == <<dependent, in_dep_count, dep_left>>
listVars == <<instance_next, cur, dep_op, ppc>>
lifeVars == <<vars, opVars, edgeVars, listVars, completed, inflight, apc, pending, early>>

HeldOps == {b \in Block : <<mem, b>> \in held}
Out == [at |-> "out", op |-> NULL]

LifeTypeOK ==
  /\ TypeOK
  /\ opid \in 0 .. MaxOps
  /\ id \in [Block -> 0 .. MaxOps]
  /\ instance_next \in [Block -> Block \cup {NULL}]
  /\ completed \in [Block -> 0 .. UInt8Mod - 1]
  /\ inflight \subseteq Block \X (0 .. MaxOps)
  /\ dependent \in [Block -> Block \cup {NULL}]
  /\ in_dep_count \in [Block -> {0, 1}]
  /\ dep_left \in [Block -> 0 .. UIntMod - 1]
  /\ {cur, dep_op} \subseteq Block \cup {NULL}
  /\ ppc \in {"poll", "complete", "signal", "trigger", "advance"}
  /\ apc \in [at : {"out", "issue", "clear"}, op : Block \cup {NULL}]
  /\ pending \subseteq Block
  /\ early \subseteq {"own", "others"}

(* ffop_init has made the pool; no operation has been created. *)
LifeInit ==
  /\ Init
  /\ opid = 0
  /\ id = [b \in Block |-> 0]
  /\ instance_next = [b \in Block |-> NULL]
  /\ completed = [b \in Block |-> 0]
  /\ dependent = [b \in Block |-> NULL]
  /\ in_dep_count = [b \in Block |-> 0]
  /\ dep_left = [b \in Block |-> 0]
  /\ inflight = {}
  /\ cur = NULL
  /\ dep_op = NULL
  /\ ppc = "poll"
  /\ apc = Out
  /\ pending = {}
  /\ early = {}

-----------------------------------------------------------------------------
(* The application's thread. *)

(* A block from op_pool, and its fields reset. *)
ffop_create ==
  /\ GetFirst
  /\ opid' = opid + 1
  /\ id' = [id EXCEPT ![res'] = opid]
  /\ instance_next' = [instance_next EXCEPT ![res'] = NULL]
  /\ completed' = [completed EXCEPT ![res'] = 0]
  /\ dependent' = [dependent EXCEPT ![res'] = NULL]
  /\ in_dep_count' = [in_dep_count EXCEPT ![res'] = 0]
  /\ dep_left' = [dep_left EXCEPT ![res'] = 0]

(* A constructor, for an operation of the type that Immediate says. *)
Create ==
  /\ apc = Out
  /\ opid < MaxOps
  /\ ffop_create
  /\ UNCHANGED <<inflight, cur, dep_op, ppc, apc, pending, early>>

(* ffop_hb: second comes after first, and is posted by the engine.  (Each  *)
(* operation has one edge at most; computations have none.)                *)
Hb(first, second) ==
  /\ apc = Out
  /\ {first, second} \subseteq HeldOps \ pending
  /\ first # second
  /\ {id[first], id[second]} \cap Immediate = {}
  /\ \A b \in {first, second} : dependent[b] = NULL /\ in_dep_count[b] = 0
  /\ dependent' = [dependent EXCEPT ![first] = second]
  /\ in_dep_count' = [in_dep_count EXCEPT ![second] = @ + 1]
  /\ dep_left' = [dep_left EXCEPT ![second] = in_dep_count'[second]]
  /\ UNCHANGED <<vars, opVars, listVars, completed, inflight, apc, pending,
                 early>>

(* ffop_post: the flag is reset ... *)
PostResets(b) ==
  /\ apc = Out
  /\ b \in HeldOps \ pending
  /\ in_dep_count[b] = 0
  /\ completed' = [completed EXCEPT ![b] = 0]
  /\ apc' = [at |-> "issue", op |-> b]
  /\ pending' = pending \cup {b} \cup ({dependent[b]} \ {NULL})
  /\ UNCHANGED <<vars, opVars, edgeVars, listVars, inflight, early>>

Flagged(b) == completed' = [completed EXCEPT ![b] = (@ + 1) % UInt8Mod]

(* A post that takes any result for FFCOMPLETED. *)
IssueMpiCompleting ==
  /\ apc.at = "issue" /\ id[apc.op] \notin Immediate
  /\ inflight' = inflight \cup {<<apc.op, id[apc.op]>>}
  /\ Flagged(apc.op)
  /\ apc' = Out
  /\ UNCHANGED <<vars, opVars, edgeVars, listVars, pending, early>>

(* ... and MPI gets the operation, which is stored in the table ... *)
IssueMpi ==
  /\ apc.at = "issue" /\ id[apc.op] \notin Immediate
  /\ inflight' = inflight \cup {<<apc.op, id[apc.op]>>}
  /\ apc' = Out
  /\ UNCHANGED <<vars, opVars, edgeVars, listVars, completed, pending, early>>

(* ... or it ends at once: FFCOMPLETED, and ffop_complete. *)
IssueImmediate ==
  /\ apc.at = "issue" /\ id[apc.op] \in Immediate
  /\ Flagged(apc.op)
  /\ apc' = Out
  /\ UNCHANGED <<vars, opVars, edgeVars, listVars, inflight, pending, early>>

(* A wait that does not look at the flag. *)
WaitSeesNothing(b) ==
  /\ apc = Out
  /\ b \in pending
  /\ apc' = [at |-> "clear", op |-> b]
  /\ UNCHANGED <<vars, opVars, edgeVars, listVars, completed, inflight, pending,
                 early>>

(* ffop_wait, ffop_test: the flag is read ... *)
WaitSees(b) ==
  /\ apc = Out
  /\ b \in pending /\ completed[b] # 0
  /\ apc' = [at |-> "clear", op |-> b]
  /\ UNCHANGED <<vars, opVars, edgeVars, listVars, completed, inflight, pending,
                 early>>

(* ... and reset.  Whoever has waited for an operation has waited for those *)
(* it comes after, as rank 1 of test/ping_pong_dep.c does.                 *)
WaitClears ==
  /\ apc.at = "clear"
  /\ completed' = [completed EXCEPT ![apc.op] = 0]
  /\ pending' = pending \ ({apc.op} \cup {a \in Block : dependent[a] = apc.op})
  /\ apc' = Out
  /\ UNCHANGED <<vars, opVars, edgeVars, listVars, inflight, early>>

(* ffop_free: nothing is looked at but the block. *)
Free(b) ==
  /\ apc = Out
  /\ Put(b)
  /\ pending' = pending \ {b}
  /\ early' = early \cup (IF b \in pending THEN {"own"} ELSE {})
                    \cup (IF pending' # {} THEN {"others"} ELSE {})
  /\ UNCHANGED <<opVars, edgeVars, listVars, completed, inflight, apc>>

-----------------------------------------------------------------------------
(* The progress thread. *)

Orders(S) == {q \in [1 .. Cardinality(S) -> S] :
                \A x \in S : \E k \in DOMAIN q : q[k] = x}
Last(q, b) == CHOOSE k \in DOMAIN q :
                q[k][1] = b /\ \A l \in DOMAIN q : q[l][1] = b => l <= k

(* A poll that keeps only the operation reported last. *)
PollUnlinked(R) ==
  /\ ppc = "poll"
  /\ R # {} /\ R \subseteq inflight
  /\ \E q \in Orders(R) :
        /\ instance_next' = [b \in Block |->
              IF \E k \in DOMAIN q : q[k][1] = b THEN NULL
              ELSE instance_next[b]]
        /\ cur' = q[Len(q)][1]
  /\ inflight' = inflight \ R
  /\ ppc' = "complete"
  /\ UNCHANGED <<vars, opVars, edgeVars, completed, dep_op, apc, pending, early>>

(* MPI reports the requests R in some order; FFOP_ENQUEUE puts one after   *)
(* the other in front of the list.                                         *)
Poll(R) ==
  /\ ppc = "poll"
  /\ R # {} /\ R \subseteq inflight
  /\ \E q \in Orders(R) :
        /\ instance_next' = [b \in Block |->
              IF \A k \in DOMAIN q : q[k][1] # b THEN instance_next[b]
              ELSE IF Last(q, b) = 1 THEN NULL ELSE q[Last(q, b) - 1][1]]
        /\ cur' = q[Len(q)][1]
  /\ inflight' = inflight \ R
  /\ ppc' = "complete"
  /\ UNCHANGED <<vars, opVars, edgeVars, completed, dep_op, apc, pending, early>>

(* ffop_complete: whoever waits for the operation goes on from here ... *)
Complete ==
  /\ ppc = "complete"
  /\ dep_left' = [dep_left EXCEPT ![cur] = in_dep_count[cur]]
  /\ Flagged(cur)
  /\ ppc' = "signal"
  /\ UNCHANGED <<vars, opVars, dependent, in_dep_count, instance_next, cur,
                 dep_op, inflight, apc, pending, early>>

(* ... while only now the operation is asked for its dependent, which has  *)
(* a dependency less ...                                                   *)
Signal ==
  /\ ppc = "signal"
  /\ dep_op' = dependent[cur]
  /\ dep_left' = IF dep_op' = NULL THEN dep_left
                 ELSE [dep_left EXCEPT ![dep_op'] = (@ + UIntMod - 1) % UIntMod]
  /\ ppc' = IF dep_op' # NULL /\ dep_left'[dep_op'] = 0 THEN "trigger" ELSE "advance"
  /\ UNCHANGED <<vars, opVars, dependent, in_dep_count, instance_next, cur,
                 completed, inflight, apc, pending, early>>

(* ... and is posted when that was the last ...                            *)
Trigger ==
  /\ ppc = "trigger"
  /\ completed' = [completed EXCEPT ![dep_op] = 0]
  /\ inflight' = inflight \cup {<<dep_op, id[dep_op]>>}
  /\ ppc' = "advance"
  /\ UNCHANGED <<vars, opVars, edgeVars, instance_next, cur, dep_op, apc, pending,
                 early>>

(* ... and then for the next one of the list. *)
Advance ==
  /\ ppc = "advance"
  /\ cur' = instance_next[cur]
  /\ dep_op' = NULL
  /\ ppc' = IF cur' = NULL THEN "poll" ELSE "complete"
  /\ UNCHANGED <<vars, opVars, edgeVars, instance_next, completed, inflight,
                 apc, pending, early>>

App == \/ Create
       \/ \E b \in Block : PostResets(b) \/ WaitSees(b) \/ Free(b)
       \/ IssueMpi \/ IssueImmediate \/ WaitClears
Prog == Complete \/ Signal \/ Advance

(* The application has created all it wants and freed it. *)
Stopped == /\ opid = MaxOps /\ held = {}
           /\ UNCHANGED lifeVars

LifeNext == App \/ Prog \/ (\E R \in SUBSET inflight : Poll(R)) \/ Stopped

(* Both threads run, a wait that can return does, MPI reports everything. *)
Fairness ==
  /\ WF_lifeVars(Prog)
  /\ WF_lifeVars(IssueMpi \/ IssueImmediate \/ WaitClears)
  /\ \A b \in Block :
        /\ SF_lifeVars(WaitSees(b))
        /\ SF_lifeVars(\E R \in SUBSET inflight :
                          (\E r \in R : r[1] = b) /\ Poll(R))

LifeSpec == LifeInit /\ [][LifeNext]_lifeVars
FairLifeSpec == LifeSpec /\ Fairness

EdgesNext == LifeNext \/ Trigger \/ \E a, b \in Block : Hb(a, b)
EdgesSpec == LifeInit /\ [][EdgesNext]_lifeVars

-----------------------------------------------------------------------------
(* The blocks the progress thread has still to complete: those its pointer *)
(* leads to.                                                               *)
Ready[k \in 0 .. MaxSize] ==
  IF k = 0 THEN IF ppc \in {"poll", "complete"} THEN cur ELSE instance_next[cur]
  ELSE IF Ready[k - 1] = NULL THEN NULL ELSE instance_next[Ready[k - 1]]
Listed(b) == \E k \in 0 .. MaxSize : Ready[k] = b

(* A pointer the progress side holds is to the operation it was stored     *)
(* for, which its owner still waits for: the block has not been freed, let *)
(* alone become another operation.  For this an application must wait for  *)
(* an operation before it frees it; it may free it while others are on     *)
(* their way, on the same list.                                            *)
PointersValid ==
  "own" \notin early =>
    /\ \A r \in inflight : r[1] \in HeldOps /\ id[r[1]] = r[2] /\ r[1] \in pending
    /\ \A b \in Block : Listed(b) => b \in HeldOps /\ b \in pending

(* The places of an operation on its way: in its post, with MPI, on the    *)
(* ready list, completed.                                                  *)
Places(b) ==
  {p \in 1 .. 4 : CASE p = 1 -> apc = [at |-> "issue", op |-> b]
                    [] p = 2 -> <<b, id[b]>> \in inflight
                    [] p = 3 -> Listed(b)
                    [] p = 4 -> completed[b] # 0}

(* An operation that is waited for is nowhere twice, and nothing is        *)
(* dropped though the list runs through blocks that their owners may free  *)
(* and reset (ffprogress.c:47 reads instance.next after the completion):   *)
(* for the former an application must wait for each operation that it      *)
(* frees, for the latter for all that it has posted.                       *)
NothingDropped ==
  \A b \in pending :
    /\ "own" \notin early => Cardinality(Places(b)) <= 1
    /\ early = {} => Cardinality(Places(b)) = 1

(* When ffop_wait returns, MPI has reported the operation it was called    *)
(* for: no flag is left in the block from before, be it of another         *)
(* operation.                                                              *)
ReportedWhenSeen ==
  apc.at = "clear" => <<apc.op, id[apc.op]>> \notin inflight

(* That is so as long as the application waits for what it frees ...       *)
WaitMeansReported == "own" \notin early => ReportedWhenSeen

(* ... but "wait the pong to be received/sent" (test/ping_pong_dep.c:58)   *)
(* takes it for granted of a loop that frees pings that may still be with  *)
(* MPI.                                                                    *)
WaitIsForThePong == ReportedWhenSeen

(* "All dependencies of %lu are satisfied: posting it!" (ffop.c:206): the  *)
(* application has posted the operation that the triggered one comes       *)
(* after, and that one has completed, if all that was freed had been       *)
(* waited for.                                                             *)
DependenciesSatisfied ==
  ppc = "trigger" /\ early = {} =>
    /\ dep_op \in pending
    /\ \A a \in HeldOps : dependent[a] = dep_op => a \notin pending \/ completed[a] # 0

(* Every wait returns, as long as nothing has been freed too early. *)
WaitReturns == \A b \in Block : b \in pending ~> b \notin pending \/ early # {}
=============================================================================
