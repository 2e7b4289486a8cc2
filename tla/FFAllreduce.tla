---------------------------- MODULE FFAllreduce ----------------------------
(***************************************************************************)
(* The collective of src/colls/ffallreduce.c (recursive doubling), run by  *)
(* all its ranks.  Each rank builds its graph of sends, receives and       *)
(* computations and posts it once a round; the messages of all steps and   *)
(* rounds carry one tag, so that nothing but their order tells them apart. *)
(*                                                                         *)
(* The engine is taken at its word (DagSpec of FFSchedule): an operation   *)
(* runs some time after all its predecessors.  A step below is the moment  *)
(* an operation takes effect, for a send the moment MPI reads the buffer;  *)
(* the time it is posted before and reported after is a delay of this or   *)
(* of the next step.                                                       *)
(*                                                                         *)
(* A value is the bag of the contributions that have been summed up in it, *)
(* <<p, k>> for that of rank p to the round k.  It is the value of the     *)
(* last element: a buffer has a count of elements, which the application   *)
(* may change from round to round (FFCOLL_BUFFERS), on all ranks alike.    *)
(***************************************************************************)
EXTENDS Integers, Sequences, FiniteSets, Bags

CONSTANTS
  csize,      \* the number of ranks
  InPlace,    \* the ranks whose sndbuff is FFINPLACE
  Count,      \* Count[0]: the count given to ffallreduce, Count[k]: that of
              \* the buffers in the round k
  MaxRounds   \* bound: how many times each rank posts the schedule

ASSUME SizeAssumption == csize \in Nat \ {0}
ASSUME InPlaceAssumption == InPlace \subseteq 0 .. csize - 1
ASSUME MaxRoundsAssumption == MaxRounds \in Nat
ASSUME CountAssumption == Count \in [0 .. MaxRounds -> Nat \ {0}]

Rank == 0 .. csize - 1

VARIABLES
  round,    \* how many times each rank has posted its schedule
  active,   \* the ranks that have posted it and not seen it complete
  done,     \* the operations of each rank completed in its round
  rcvbuff,  \* the value in each rank's receive buffer
  tmpbuffs, \* those in its temporary buffers, one for a step
  tmpcount, \* the count of its temporary buffers
  count,    \* state->count
  chan      \* the messages from one rank to another, oldest first

sizes == <<tmpcount, count>>
vars == <<round, active, done, rcvbuff, tmpbuffs, sizes, chan>>

-----------------------------------------------------------------------------
(* The loop of ffallreduce: mask is 1, 2, 4 ... below csize; the partner   *)
(* of a step is rank ^ mask, and a rank without a partner skips the step.  *)
mask[k \in 0 .. csize] == IF k = 0 THEN 1 ELSE 2 * mask[k - 1]
Masks == {m \in {mask[k] : k \in 0 .. csize} : m < csize}
flip(p, m) == IF (p \div m) % 2 = 0 THEN p + m ELSE p - m
partners(p) == {m \in Masks : flip(p, m) < csize}

(* r, the number of the step. *)
Steps(p) == 0 .. Cardinality(partners(p)) - 1
dst == [p \in Rank |-> [r \in Steps(p) |->
          flip(p, CHOOSE m \in partners(p) :
                     Cardinality({l \in partners(p) : l < m}) = r)]]

(* The operations, by their kind and step. *)
begin == <<"begin", 0>>
move == <<"move", 0>>
send(r) == <<"send", r>>
recv(r) == <<"recv", r>>
comp(r) == <<"comp", r>>
end == <<"end", 0>>
Ops(p) == {begin, move, end} \cup {<<k, r>> : k \in {"send", "recv", "comp"},
                                              r \in Steps(p)}

(* A graph without the edge from a send to the computation. *)
PredNoSend(p, o) ==
  CASE o = begin     -> {}
    [] o = move      -> {begin}
    [] o[1] = "send" -> {IF o[2] = 0 THEN move ELSE comp(o[2] - 1)}
    [] o[1] = "recv" -> {begin}
    [] o[1] = "comp" -> {recv(o[2])}
    [] o = end       -> IF Steps(p) = {} THEN {move}
                                         ELSE {comp(r) : r \in Steps(p)}

(* A graph that sends without waiting for the step before. *)
PredSendEarly(p, o) ==
  CASE o = begin     -> {}
    [] o = move      -> {begin}
    [] o[1] = "send" -> {move}
    [] o[1] = "recv" -> {begin}
    [] o[1] = "comp" -> {send(o[2]), recv(o[2])}
    [] o = end       -> IF Steps(p) = {} THEN {move}
                                         ELSE {comp(r) : r \in Steps(p)}

(* A graph in which each of two partners waits to receive before it sends. *)
PredSendLast(p, o) ==
  CASE o = begin     -> {}
    [] o = move      -> {begin}
    [] o[1] = "send" -> {recv(o[2])}
    [] o[1] = "recv" -> {begin}
    [] o[1] = "comp" -> {send(o[2])}
    [] o = end       -> IF Steps(p) = {} THEN {move}
                                         ELSE {comp(r) : r \in Steps(p)}

(* The predecessors that ffop_hb and ffschedule_add_op give o.  A          *)
(* computation is added before the next step makes an edge from it, so     *)
(* that end_op comes after each of them.                                   *)
Pred(p, o) ==
  CASE o = begin     -> {}
    [] o = move      -> {begin}
    [] o[1] = "send" -> {IF o[2] = 0 THEN move ELSE comp(o[2] - 1)}
    [] o[1] = "recv" -> {begin}
    [] o[1] = "comp" -> {send(o[2]), recv(o[2])}
    [] o = end       -> IF Steps(p) = {} THEN {move}
                                         ELSE {comp(r) : r \in Steps(p)}

Ready(p, o) == o \notin done[p] /\ Pred(p, o) \subseteq done[p]
Does(p, o) == /\ p \in active
              /\ Ready(p, o)
              /\ done' = [done EXCEPT ![p] = @ \cup {o}]
              /\ UNCHANGED <<round, active>>

-----------------------------------------------------------------------------
Value(p, k) == SetToBag({<<p, k>>})

(* The ranks have built their schedules: buffers, but no value yet. *)
Init == /\ round = [p \in Rank |-> 0]
        /\ active = {}
        /\ done = [p \in Rank |-> {}]
        /\ rcvbuff = [p \in Rank |-> EmptyBag]
        /\ tmpbuffs = [p \in Rank |-> [r \in Steps(p) |-> EmptyBag]]
        /\ tmpcount = [p \in Rank |-> Count[0]]
        /\ count = [p \in Rank |-> Count[0]]
        /\ chan = [p \in Rank |-> [q \in Rank |-> <<>>]]

(* A check that notes the new count and leaves the buffers as they are. *)
check_count_only(p, rb_count) ==
  /\ count' = [count EXCEPT ![p] = IF rb_count > @ THEN rb_count ELSE @]
  /\ UNCHANGED tmpcount

(* ffallreduce_post_check, of buffers that agree in datatype and count:    *)
(* the temporary ones grow with them, and do not shrink.                   *)
ffallreduce_post_check(p, rb_count) ==
  /\ tmpcount' = [tmpcount EXCEPT ![p] = IF rb_count > count[p] THEN rb_count ELSE @]
  /\ count' = [count EXCEPT ![p] = IF rb_count > @ THEN rb_count ELSE @]

(* The application has new values, in buffers of the count of the round;   *)
(* ffschedule_post calls the check and posts begin_op.  In place the       *)
(* values are in the receive buffer, otherwise that buffer is cleared, as  *)
(* the tests do.                                                           *)
Post(p) ==
  /\ p \notin active
  /\ round[p] < MaxRounds
  /\ round' = [round EXCEPT ![p] = @ + 1]
  /\ active' = active \cup {p}
  /\ done' = [done EXCEPT ![p] = {begin}]
  /\ rcvbuff' = [rcvbuff EXCEPT ![p] =
                   IF p \in InPlace THEN Value(p, round'[p]) ELSE EmptyBag]
  /\ ffallreduce_post_check(p, Count[round'[p]])
  /\ UNCHANGED <<tmpbuffs, chan>>

(* move: the identity copies the send buffer, or it is a nop. *)
Move(p) ==
  /\ Does(p, move)
  /\ rcvbuff' = [rcvbuff EXCEPT ![p] = IF p \in InPlace THEN @ ELSE Value(p, round[p])]
  /\ UNCHANGED <<tmpbuffs, sizes, chan>>

(* MPI may take a message before its receiver asks for it. *)
Send(p, r) ==
  /\ Does(p, send(r))
  /\ chan' = [chan EXCEPT ![p][dst[p][r]] = Append(@,
                  [value |-> rcvbuff[p], count |-> Count[round[p]]])]
  /\ UNCHANGED <<rcvbuff, tmpbuffs, sizes>>

(* MPI matches a receive with the oldest message of its sender.  One that  *)
(* is longer than the buffer is an error and completes nothing.            *)
Recv(p, r) ==
  /\ Does(p, recv(r))
  /\ chan[dst[p][r]][p] # <<>>
  /\ Head(chan[dst[p][r]][p]).count <= tmpcount[p]
  /\ tmpbuffs' = [tmpbuffs EXCEPT ![p][r] = Head(chan[dst[p][r]][p]).value]
  /\ chan' = [chan EXCEPT ![dst[p][r]][p] = Tail(@)]
  /\ UNCHANGED <<rcvbuff, sizes>>

(* The operator adds the temporary buffer to the receive buffer, which is  *)
(* locked meanwhile, up to the smaller of their counts.                    *)
Comp(p, r) ==
  /\ Does(p, comp(r))
  /\ rcvbuff' = [rcvbuff EXCEPT ![p] =
                   IF tmpcount[p] < Count[round[p]] THEN @
                   ELSE tmpbuffs[p][r] (+) @]
  /\ UNCHANGED <<tmpbuffs, sizes, chan>>

(* end_op completes and ffschedule_wait returns. *)
Wait(p) ==
  /\ p \in active
  /\ Ready(p, end)
  /\ done' = [done EXCEPT ![p] = @ \cup {end}]
  /\ active' = active \ {p}
  /\ UNCHANGED <<round, rcvbuff, tmpbuffs, sizes, chan>>

Ended == /\ active = {} /\ \A p \in Rank : round[p] = MaxRounds
         /\ UNCHANGED vars

Step(p) == \/ Post(p) \/ Move(p) \/ Wait(p)
           \/ \E r \in Steps(p) : Send(p, r) \/ Recv(p, r) \/ Comp(p, r)

Next == (\E p \in Rank : Step(p)) \/ Ended

Spec == Init /\ [][Next]_vars

(* MPI need not take it before. *)
Accepted(p, q) ==
  /\ q \in active /\ chan[p][q] = <<>>
  /\ \E r \in Steps(q) : dst[q][r] = p /\ Ready(q, recv(r))

(* Every rank posts the schedule as often as the others, its threads go    *)
(* on, and MPI completes a send when a receive waits for it.               *)
Goes(p) == \/ Post(p) \/ Move(p) \/ Wait(p)
           \/ \E r \in Steps(p) : \/ Accepted(p, dst[p][r]) /\ Send(p, r)
                                  \/ Recv(p, r) \/ Comp(p, r)
Fairness == \A p \in Rank : WF_vars(Goes(p))
FairSpec == Spec /\ Fairness

-----------------------------------------------------------------------------
(* A schedule that has completed has no operation left, and every message  *)
(* of the rounds that all ranks have completed has been received.          *)
NothingLeft ==
  /\ \A p \in Rank : p \notin active /\ round[p] > 0 => done[p] = Ops(p)
  /\ \A p, q \in Rank :
        p \notin active /\ q \notin active /\ round[p] = round[q]
           => chan[p][q] = <<>>

(* The ranks whose contributions p has after its first r steps. *)
Group(p, r) == {q \in Rank : \A m \in Masks :
                   (q \div m) % 2 = (p \div m) % 2 \/
                   Cardinality({l \in Masks : l < m}) < r}

(* Every message is the sum of one round and of one group of ranks, though *)
(* the buffer it is read from is written by the steps before and after,    *)
(* and a rank may be a round ahead of the one it sends to: the messages of *)
(* two ranks are one for a round, the oldest round first, and those of the *)
(* receiver's own round end up in the step they were sent in.              *)
MessagesExact ==
  \A p \in Rank : \A r \in Steps(p) :
     LET q == dst[p][r]
         s == chan[p][q]
         sent == IF send(r) \in done[p] THEN round[p] ELSE round[p] - 1
     IN  \A k \in DOMAIN s :
           /\ s[k].value = SetToBag({<<g, sent - Len(s) + k>> : g \in Group(p, r)})
           /\ s[k].count = Count[sent - Len(s) + k]

(* The message a posted receive will be given fits into its buffer and     *)
(* fills what the computation reads of it, though the sender may be a      *)
(* round ahead, with buffers of another count.                             *)
MessagesFit ==
  \A p \in active : \A r \in Steps(p) :
     LET s == chan[dst[p][r]][p]
     IN  Ready(p, recv(r)) /\ s # <<>> =>
           Head(s).count = Count[round[p]] /\ Head(s).count <= tmpcount[p]

(* The ranks together compute the sum, in each round of each rank. *)
Total(k) == SetToBag({<<q, k>> : q \in Rank})
Reduction == INSTANCE FFReduction WITH
               result <- [p \in Rank |->
                            IF p \notin active THEN rcvbuff[p]
                            ELSE IF round[p] = 1 THEN EmptyBag
                            ELSE Total(round[p] - 1)]
ReductionSpec == Reduction!Spec

(* Every rank comes out of every round. *)
AllreduceReturns == \A p \in Rank : p \in active ~> p \notin active

(* test/allreduce.c:47: reduced[j] is the sum over all ranks, for every    *)
(* number of ranks the program is started with.                            *)
Reduced == \A p \in Rank :
             p \notin active /\ round[p] > 0
               => rcvbuff[p] = Total(round[p])
=============================================================================
