-------------------------- MODULE FFMpiProgresser --------------------------
(***************************************************************************)
(* The table of MPI requests (components/mpi/ffop_mpi_progresser.c).  The  *)
(* thread that posts a send or a receive takes a slot and stores the       *)
(* operation and its request there; the progress thread tests the requests *)
(* and gives the slots back.  The index manager has a lock, the two arrays *)
(* have none.                                                              *)
(*                                                                         *)
(* The engine around it is reduced to when it posts: each operation once a *)
(* round, either thread any of them, in any order, and none is forgotten   *)
(* (FFSchedule has the task graphs that decide on this).  The application  *)
(* posts some at the start of a round, the progress thread some each time  *)
(* it has completed one, and the application starts again when it has seen *)
(* all of them complete.                                                   *)
(***************************************************************************)
EXTENDS Integers, Sequences, FiniteSets

CONSTANTS
  Ops,        \* the sends and receives of a schedule
  Slots,      \* FFMPI_MAX_REQ
  None        \* NULL, MPI_REQUEST_NULL and the index (uint32_t) -1

ASSUME SlotsAssumption == Slots \in Nat \ {0}
ASSUME NoneAssumption == None \notin Ops /\ None \notin Nat

VARIABLES
  held,        \* the indices index_manager has lent
  res,         \* its last answer
  posted_ops,  \* the operation of each slot
  requests,    \* the request of each slot, by the name of its operation
  active,      \* the operations that MPI has got and the table has not
               \* reported
  unposted,    \* the operations still to be posted in the present round
  pc,          \* per thread: where it is
  op, idx,     \* per thread, in ..._track: its operation and the slot it got
  outs,        \* the indices MPI_Testsome gave and that are not released
  ready,       \* the ready list, newest first
  finished,    \* the operations completed in the present round
  exposed      \* history: the operations whose last track got a slot that
               \* the progress thread was still releasing, or none

tableVars == <<posted_ops, requests>>
trackVars == <<unposted, op, idx, exposed>>
vars == <<held, res, tableVars, active, trackVars, pc, outs, ready, finished>>

Slot == 0 .. Slots - 1
Thread == {"app", "prog"}

(* FFArman implements it; its lock makes a get or a put one step. *)
index_manager == INSTANCE IndexPool WITH Count <- Slots, NoIndex <- None

TypeOK ==
  /\ held \subseteq Slot
  /\ res \in Slot \cup {None}
  /\ posted_ops \in [Slot -> Ops \cup {None}]
  /\ requests \in [Slot -> Ops \cup {None}]
  /\ active \subseteq Ops
  /\ unposted \subseteq Ops
  /\ pc \in [Thread -> {"idle", "work", "store_op", "store_req",
                        "enqueue", "clear_req", "clear_op"}]
  /\ op \in [Thread -> Ops \cup {None}]
  /\ idx \in [Thread -> Slot \cup {None}]
  /\ outs \in Seq(Slot)
  /\ ready \in Seq(Ops)
  /\ finished \subseteq Ops
  /\ exposed \subseteq Ops

(* ffop_mpi_progresser_init. *)
Init ==
  /\ index_manager!Init
  /\ posted_ops = [i \in Slot |-> None]
  /\ requests = [i \in Slot |-> None]
  /\ active = {}
  /\ unposted = {}
  /\ pc = [t \in Thread |-> "idle"]
  /\ op = [t \in Thread |-> None]
  /\ idx = [t \in Thread |-> None]
  /\ outs = <<>>
  /\ ready = <<>>
  /\ finished = Ops
  /\ exposed = {}

GoTo(t, p) == pc' = [pc EXCEPT ![t] = p]

-----------------------------------------------------------------------------
(* The slot being released, which index_manager may have lent again. *)
Releasing == IF pc["prog"] \in {"clear_req", "clear_op"} THEN {Head(outs)} ELSE {}

(* A track that goes on with the slot behind the one it got. *)
GetSlotBehind(t, o) ==
  /\ pc[t] = "work" /\ o \in unposted
  /\ unposted' = unposted \ {o}
  /\ active' = active \cup {o}
  /\ op' = [op EXCEPT ![t] = o]
  /\ \E i \in Slot : index_manager!Grant(i)
  /\ idx' = [idx EXCEPT ![t] = res' + 1]
  /\ exposed' = exposed \ {o}
  /\ GoTo(t, "store_op")
  /\ UNCHANGED <<tableVars, outs, ready, finished>>

(* A track whose get does not keep off what another thread has got. *)
GetSlotUnlocked(t, o) ==
  /\ pc[t] = "work" /\ o \in unposted
  /\ unposted' = unposted \ {o}
  /\ active' = active \cup {o}
  /\ op' = [op EXCEPT ![t] = o]
  /\ \E i \in Slot : res' = i /\ held' = held \cup {i}
  /\ idx' = [idx EXCEPT ![t] = res']
  /\ exposed' = exposed \ {o}
  /\ GoTo(t, "store_op")
  /\ UNCHANGED <<tableVars, outs, ready, finished>>

(* The post of a send or a receive: MPI_Isend or MPI_Irecv starts it, then *)
(* ..._track asks for a slot.  idx is unsigned, so that the test idx < 0   *)
(* for "Too many in-flight MPI operations" is never true.                  *)
GetSlot(t, o) ==
  /\ pc[t] = "work" /\ o \in unposted
  /\ unposted' = unposted \ {o}
  /\ active' = active \cup {o}
  /\ op' = [op EXCEPT ![t] = o]
  /\ index_manager!Refuse \/ \E i \in Slot : index_manager!Grant(i)
  /\ idx' = [idx EXCEPT ![t] = res']
  /\ exposed' = IF res' \in {None} \cup Releasing THEN exposed \cup {o}
                ELSE exposed \ {o}
  /\ GoTo(t, "store_op")
  /\ UNCHANGED <<tableVars, outs, ready, finished>>

(* A track that leaves the operation out. *)
StoreOpNowhere(t) ==
  /\ pc[t] = "store_op"
  /\ GoTo(t, "store_req")
  /\ UNCHANGED <<held, res, tableVars, active, trackVars, outs, ready, finished>>

(* posted_ops[idx] = op.  With idx = -1 the store is 2^32 - 1 entries away *)
(* and the program stops there, unless it hits memory that is not the      *)
(* table's: without fairness a behaviour may end anywhere, so that Spec    *)
(* has both outcomes.                                                      *)
StoreOp(t) ==
  /\ pc[t] = "store_op"
  /\ posted_ops' = IF idx[t] = None THEN posted_ops
                   ELSE [posted_ops EXCEPT ![idx[t]] = op[t]]
  /\ GoTo(t, "store_req")
  /\ UNCHANGED <<held, res, requests, active, trackVars, outs, ready, finished>>

(* A track that leaves the request out. *)
StoreReqNowhere(t) ==
  /\ pc[t] = "store_req"
  /\ op' = [op EXCEPT ![t] = None]
  /\ GoTo(t, "work")
  /\ UNCHANGED <<held, res, tableVars, active, unposted, idx, exposed, outs, ready,
                 finished>>

(* requests[idx] = req: from now on MPI_Testsome looks at it. *)
StoreReq(t) ==
  /\ pc[t] = "store_req"
  /\ requests' = IF idx[t] = None THEN requests
                 ELSE [requests EXCEPT ![idx[t]] = op[t]]
  /\ op' = [op EXCEPT ![t] = None]
  /\ GoTo(t, "work")
  /\ UNCHANGED <<held, res, posted_ops, active, unposted, idx, exposed, outs, ready,
                 finished>>

-----------------------------------------------------------------------------
(* A thread is done with its posts when the others are left to the other   *)
(* thread, or to a later completion.                                       *)
MayLeave(t) ==
  \/ unposted = {}
  \/ Ops # unposted \cup finished
  \/ \E u \in Thread \ {t} : pc[u] = "work"

(* The application's thread. *)
StartRound ==
  /\ pc["app"] = "idle" /\ finished = Ops
  /\ finished' = {}
  /\ unposted' = Ops
  /\ GoTo("app", "work")
  /\ UNCHANGED <<held, res, tableVars, active, op, idx, exposed, outs, ready>>

AppPosted ==
  /\ pc["app"] = "work" /\ MayLeave("app")
  /\ GoTo("app", "idle")
  /\ UNCHANGED <<held, res, tableVars, active, trackVars, outs, ready, finished>>

-----------------------------------------------------------------------------
(* The progress thread. *)

(* MPI_Testsome reports some completed requests, lists their indices in an *)
(* order of its own and sets them to MPI_REQUEST_NULL.  The operations     *)
(* they are reported for are those in posted_ops.                          *)
Testsome(I) ==
  /\ pc["prog"] = "idle" /\ ready = <<>>
  /\ I # {} /\ \A i \in I : requests[i] # None
  /\ outs' \in {q \in [1 .. Cardinality(I) -> I] :
                  \A i \in I : \E k \in DOMAIN q : q[k] = i}
  /\ requests' = [i \in Slot |-> IF i \in I THEN None ELSE requests[i]]
  /\ active' = active \ {posted_ops[i] : i \in I}
  /\ GoTo("prog", "enqueue")
  /\ UNCHANGED <<held, res, posted_ops, trackVars, ready, finished>>

(* FFOP_ENQUEUE of the slot's operation (the program stops there if it is  *)
(* NULL), and the ffarman_put of ..._release: the slot can be lent again   *)
(* at once ...                                                             *)
Enqueue ==
  /\ pc["prog"] = "enqueue" /\ outs # <<>>
  /\ LET readyop == posted_ops[Head(outs)]
     IN  readyop # None /\ ready' = <<readyop>> \o ready
  /\ index_manager!GiveBack(Head(outs))
  /\ GoTo("prog", "clear_req")
  /\ UNCHANGED <<tableVars, active, trackVars, outs, finished>>

(* ... before ..._release has cleared it. *)
ClearRequest ==
  /\ pc["prog"] = "clear_req"
  /\ requests' = [requests EXCEPT ![Head(outs)] = None]
  /\ GoTo("prog", "clear_op")
  /\ UNCHANGED <<held, res, posted_ops, active, trackVars, outs, ready, finished>>

(* A release that clears the next slot. *)
ClearOther ==
  /\ pc["prog"] = "clear_op"
  /\ posted_ops' = [posted_ops EXCEPT ![(Head(outs) + 1) % Slots] = None]
  /\ outs' = Tail(outs)
  /\ GoTo("prog", "enqueue")
  /\ UNCHANGED <<held, res, requests, active, trackVars, ready, finished>>

(* A release that leaves the operation in its slot. *)
ClearNoOp ==
  /\ pc["prog"] = "clear_op"
  /\ outs' = Tail(outs)
  /\ GoTo("prog", "enqueue")
  /\ UNCHANGED <<held, res, tableVars, active, trackVars, ready, finished>>

(* posted_ops[idx] = NULL: the release ends, on to the next index. *)
ClearOp ==
  /\ pc["prog"] = "clear_op"
  /\ posted_ops' = [posted_ops EXCEPT ![Head(outs)] = None]
  /\ outs' = Tail(outs)
  /\ GoTo("prog", "enqueue")
  /\ UNCHANGED <<held, res, requests, active, trackVars, ready, finished>>

(* ffop_complete of the first operation of the list, which may post others *)
(* (the list may have got its entries; or the posts of the last completion *)
(* are done).                                                              *)
CompleteFirst ==
  /\ \/ pc["prog"] = "enqueue" /\ outs = <<>>
     \/ pc["prog"] = "work"
  /\ ready # <<>>
  /\ finished' = finished \cup {Head(ready)}
  /\ ready' = Tail(ready)
  /\ GoTo("prog", "work")
  /\ UNCHANGED <<held, res, tableVars, active, trackVars, outs>>

ListDone ==
  /\ pc["prog"] = "work" /\ ready = <<>> /\ MayLeave("prog")
  /\ GoTo("prog", "idle")
  /\ UNCHANGED <<held, res, tableVars, active, trackVars, outs, ready, finished>>

Track(t) == (\E o \in Ops : GetSlot(t, o)) \/ StoreOp(t) \/ StoreReq(t)
App == AppPosted \/ Track("app")
Test == \E I \in SUBSET Slot : Testsome(I)
Prog == Enqueue \/ ClearRequest \/ ClearOp \/ CompleteFirst \/ ListDone \/ Track("prog")

Next == StartRound \/ App \/ Test \/ Prog

Spec == Init /\ [][Next]_vars

-----------------------------------------------------------------------------
Seqs(s) == {s[k] : k \in DOMAIN s}
Storing(t, o) == pc[t] \in {"store_op", "store_req"} /\ op[t] = o
InTable(o) == \E i \in held : requests[i] = o /\ posted_ops[i] = o
Tracked(o) == InTable(o) \/ \E t \in Thread : Storing(t, o)

(* An operation MPI has got is in the table, or on its way there, until    *)
(* it is reported: the wait for it can return.  Only an operation whose    *)
(* slot was still being released when it got it, or that found the table   *)
(* full, can be lost, and no operation because of another.                 *)
NoneLost == \A o \in active \ exposed : Tracked(o)

(* "wait the pong to be received/sent" (test/ping_pong_schedule.c:59),     *)
(* after two posts of the same thread, expects it of all.                  *)
AllTracked == \A o \in active : Tracked(o)

(* The progress thread finds in a slot it has been given the operation the *)
(* request belonged to, NULL at worst if that is an exposed one, and never *)
(* another operation; and no slot it releases is in use.                   *)
SlotsInStep ==
  /\ \A t \in Thread : pc[t] \in {"store_op", "store_req"} =>
        idx[t] \in Slot \/ op[t] \in exposed
  /\ \A i \in Slot : requests[i] # None =>
        /\ i \in held
        /\ \/ posted_ops[i] = requests[i]
           \/ posted_ops[i] = None /\ requests[i] \in exposed
  /\ pc["prog"] = "enqueue" =>
        \A k \in DOMAIN outs :
           outs[k] \in held /\ (posted_ops[outs[k]] # None \/ active \cap exposed # {})

(* Between two rounds the table is empty: no slot leaks. *)
AllGivenBack ==
  pc["app"] = "idle" /\ pc["prog"] = "idle" /\ finished = Ops
     => held = {} /\ \A i \in Slot : posted_ops[i] = None

(* The operations in the table, and those on the ready list or still to be *)
(* put there, are the two sets of FFReports: whatever the table loses, it  *)
(* reports nothing twice and nothing that was not handed to it.            *)
Unlisted == IF pc["prog"] = "enqueue" THEN outs
            ELSE IF outs = <<>> THEN <<>> ELSE Tail(outs)
Reports == INSTANCE FFReports WITH
             inflight <- active,
             ready <- Seqs(ready) \cup
                      ({posted_ops[i] : i \in Seqs(Unlisted)} \ {None})
ReportsSpec == Reports!Spec
=============================================================================
