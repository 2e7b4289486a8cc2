-------------------------- MODULE FFProcessProofs --------------------------
(***************************************************************************)
(* What holds of a process from ffinit to fffinalize for every set of      *)
(* operations, every order in which both threads post them, every size of  *)
(* the table and every set of calls that may fail.                         *)
(***************************************************************************)
EXTENDS FFProcess, FFMpiProgresserProofs

-----------------------------------------------------------------------------
(* The steps of the process are those of the table, or none of its state.  *)
LEMMA ProcessStep == [ProcessNext]_allVars => [Next]_vars
<1>1. SUFFICES ASSUME [ProcessNext]_allVars PROVE [Next]_vars
  OBVIOUS
<1>2. CASE (\E level \in BOOLEAN : Begin(level)) \/ CreateFails \/ FinalizeCalled \/ Waiting
  BY <1>2 DEF Begin, CreateFails, FinalizeCalled, Waiting, allVars
<1>3. CASE MainGoes
  BY <1>3 DEF MainGoes, CreateThread, InitReturns, Posts, Join, Finalize, Next
<1>4. CASE Round
  BY <1>4 DEF Round, Next
<1>5. CASE Starts \/ PollFails
  BY <1>5 DEF Starts, MakeTable, MakeTableFails, PollFails
<1>6. CASE Goes
  BY <1>6 DEF Goes, SayReady, LoopHead, PollNone, Completes, FreeTable, Next
<1>7. CASE \E I \in SUBSET Slot : PollSome(I)
  BY <1>7 DEF PollSome, Next, Test
<1>8. CASE UNCHANGED allVars
  BY <1>8 DEF allVars
<1>9. QED
  BY <1>1, <1>2, <1>3, <1>4, <1>5, <1>6, <1>7, <1>8 DEF ProcessNext

(* The table in a process is the table of FFMpiProgresser. *)
THEOREM ProcessHasTable == ProcessSpec => Spec
<1>1. ProcessInit => Init
  BY DEF ProcessInit
<1>2. QED
  BY <1>1, ProcessStep, PTL DEF ProcessSpec, Spec

(* So that nothing is reported or completed in a process that was not      *)
(* posted, nor twice for one post, whatever calls fail.                    *)
THEOREM ProcessReports == ProcessSpec => ReportsSpec
BY ProcessHasTable, Refinement, PTL

(* And no operation of a process but an exposed one is lost, and none is   *)
(* reported for another or left in a slot, through the calls of ff.c and   *)
(* ffprogress.c.                                                           *)
THEOREM ProcessKeepsTable ==
  ProcessSpec => [](NoneLost /\ SlotsInStep /\ AllGivenBack)
BY ProcessHasTable, NothingLost, SlotsAgree, NoSlotLeaks, PTL

-----------------------------------------------------------------------------
(* The order in which the two threads make and take away what they share.  *)

Closing == main \in {"join", "finalize", "down"}

Order ==
  /\ main \in {"off", "create", "error"} => thr = "none"
  /\ main \in {"finalize", "down"} => thr = "ended"
  /\ main = "up" \/ Closing => _progresser_ready
  /\ _progresser_ready => thr \in {"loop", "poll", "finalize", "ended"}
  /\ thr \in {"loop", "poll", "finalize"} => _progresser_ready
  /\ terminate => Closing
  /\ thr = "finalize" \/ table = "freed" => terminate
  /\ thr \in {"ready", "loop", "poll", "finalize"} => table = "ready"
  /\ thr = "ended" => \/ table = "freed"
                      \/ table = "ready" /\ "poll" \in failed
                      \/ ~_progresser_ready
  /\ main \in {"create", "spin", "up", "join", "finalize"} =>
        mpi /\ {"op", "buffer"} \subseteq pools
  /\ main \in {"create", "spin", "up"} => gcomp = "ready" \/ "level" \in failed
  /\ main = "down" => mpi = ~init_by_me

ProcessState ==
  /\ main \in {"off", "create", "spin", "up", "join", "finalize", "down", "error"}
  /\ thr \in {"none", "init", "ready", "loop", "poll", "finalize", "ended"}
  /\ _progresser_ready \in BOOLEAN /\ terminate \in BOOLEAN
  /\ init_by_me \in BOOLEAN /\ mpi \in BOOLEAN
  /\ table \in {"raw", "ready", "freed"} /\ gcomp \in {"raw", "ready"}
  /\ pools \subseteq {"op", "buffer", "schedule"}
  /\ failed \subseteq Faults

LEMMA InitOrder == ProcessInit => ProcessState /\ Order
BY DEF ProcessInit, ProcessState, Order, Closing

LEMMA StepOrder ==
  ASSUME ProcessState, Order, [ProcessNext]_allVars
  PROVE  ProcessState' /\ Order'
<1> USE DEF ProcessState, Order, Closing
<1>1. ASSUME NEW level \in BOOLEAN, Begin(level) PROVE ProcessState' /\ Order'
  BY <1>1 DEF Begin, ffmpi_init
<1>2. CASE CreateThread
  BY <1>2 DEF CreateThread
<1>3. CASE CreateFails
  BY <1>3 DEF CreateFails
<1>4. CASE InitReturns
  BY <1>4 DEF InitReturns
<1>5. CASE \/ Round \/ Posts \/ (\E I \in SUBSET Slot : PollSome(I))
           \/ Waiting \/ UNCHANGED allVars
  <2>1. UNCHANGED procVars
    BY <1>5 DEF Round, Posts, PollSome, Waiting, allVars
  <2>2. QED
    BY <2>1 DEF procVars
<1>6. CASE FinalizeCalled
  BY <1>6 DEF FinalizeCalled
<1>7. CASE Join
  BY <1>7 DEF Join
<1>8. CASE Finalize
  BY <1>8 DEF Finalize, ffmpi_finalize
<1>9. CASE MakeTable
  BY <1>9 DEF MakeTable
<1>10. CASE MakeTableFails
  BY <1>10 DEF MakeTableFails
<1>11. CASE SayReady
  BY <1>11 DEF SayReady
<1>12. CASE LoopHead
  BY <1>12 DEF LoopHead
<1>13. CASE PollNone
  BY <1>13 DEF PollNone
<1>14. CASE PollFails
  BY <1>14 DEF PollFails
<1>15. CASE Completes
  BY <1>15 DEF Completes
<1>16. CASE FreeTable
  BY <1>16 DEF FreeTable
<1> HIDE DEF ProcessState, Order, Closing
<1>17. QED
  BY <1>1, <1>2, <1>3, <1>4, <1>5, <1>6, <1>7, <1>8, <1>9, <1>10, <1>11, <1>12,
     <1>13, <1>14, <1>15, <1>16 DEF ProcessNext, MainGoes, Starts, Goes

LEMMA OrderInvariant == ProcessSpec => [](ProcessState /\ Order)
<1>1. ProcessState /\ Order /\ [ProcessNext]_allVars => (ProcessState /\ Order)'
  BY StepOrder
<1>2. QED
  BY <1>1, InitOrder, PTL DEF ProcessSpec

(* The state of ff.c, ffprogress.c and ffmpi.c, and of the table.          *)
THEOREM ProcessTypeCorrect == ProcessSpec => []ProcessTypeOK
<1>1. ProcessState /\ TypeOK => ProcessTypeOK
  BY DEF ProcessState, ProcessTypeOK
<1>2. QED
  BY <1>1, OrderInvariant, ProcessHasTable, TypeCorrect, PTL

(* A thread finds what it uses: ffinit returns when the table is there and *)
(* fffinalize takes nothing away before the thread has ended.              *)
THEOREM UsedInTime == ProcessSpec => []UsedWhileThere
<1>1. ProcessState /\ Order => UsedWhileThere
  BY DEF ProcessState, Order, Closing, UsedWhileThere
<1>2. QED
  BY <1>1, OrderInvariant, PTL

-----------------------------------------------------------------------------
(* What fffinalize leaves. *)

(* fffinalize is called between two posts of the application's, and the    *)
(* progress thread leaves its loop between two calls of the progresser.    *)
AtRest == /\ Closing => pc["app"] = "idle"
          /\ thr # "poll" => pc["prog"] = "idle"

LEMMA StepAtRest ==
  ASSUME TypeOK, Order, AtRest, [ProcessNext]_allVars
  PROVE  AtRest'
<1> USE DEF AtRest, Closing
<1>1. CASE FinalizeCalled
  BY <1>1 DEF FinalizeCalled, vars
<1>2. CASE Round \/ Posts
  <2>1. /\ main = "up" /\ main' = main /\ thr' = thr
        /\ StartRound \/ AppPosted \/ Track("app")
    BY <1>2 DEF Round, Posts, App, procVars
  <2>2. pc'["prog"] = pc["prog"]
    BY <2>1 DEF TypeOK, Thread, StartRound, AppPosted, Track, GetSlot, StoreOp,
       StoreReq, GoTo
  <2>3. QED
    BY <2>1, <2>2
<1>3. CASE Completes
  <2>1. /\ thr = "poll" /\ thr' = IF pc'["prog"] = "idle" THEN "loop" ELSE "poll"
        /\ main' = main /\ Prog
    BY <1>3 DEF Completes
  <2>2. pc'["app"] = pc["app"]
    BY <2>1 DEF TypeOK, Thread, Prog, Enqueue, ClearRequest, ClearOp,
       CompleteFirst, ListDone, Track, GetSlot, StoreOp, StoreReq, GoTo
  <2>3. QED
    BY <2>1, <2>2
<1>4. CASE \E I \in SUBSET Slot : PollSome(I)
  BY <1>4 DEF PollSome, Testsome, GoTo, procVars, TypeOK, Thread
<1>5. CASE \/ \E level \in BOOLEAN : Begin(level)
           \/ CreateThread \/ CreateFails \/ InitReturns \/ Waiting
           \/ UNCHANGED allVars
  <2>1. CASE \E level \in BOOLEAN : Begin(level)
    BY <2>1 DEF Begin, vars
  <2>2. CASE CreateThread \/ CreateFails \/ InitReturns
    BY <2>2 DEF CreateThread, CreateFails, InitReturns, vars, Order
  <2>3. CASE Waiting \/ UNCHANGED allVars
    BY <2>3 DEF Waiting, vars, allVars, procVars
  <2>4. QED
    BY <1>5, <2>1, <2>2, <2>3
<1>6. CASE Starts \/ SayReady \/ LoopHead \/ PollNone \/ PollFails \/ FreeTable
  BY <1>6 DEF Starts, MakeTable, MakeTableFails, SayReady, LoopHead, PollNone,
     PollFails, FreeTable, vars
<1>7. CASE Join \/ Finalize
  BY <1>7 DEF Join, Finalize, vars
<1> HIDE DEF AtRest, Closing
<1>8. QED
  BY <1>1, <1>2, <1>3, <1>4, <1>5, <1>6, <1>7 DEF ProcessNext, MainGoes, Goes

(* When fffinalize has returned, the thread and the table are gone, an MPI *)
(* that the library initialised is finalised and, if the last round was    *)
(* complete, no request and no slot of it was left.                        *)
THEOREM EndsClean == ProcessSpec => []LeftClean
<1>1. ProcessInit => AtRest
  BY DEF ProcessInit, Init, AtRest, Closing, Thread
<1>2. TypeOK /\ Order /\ AtRest /\ [ProcessNext]_allVars => AtRest'
  BY StepAtRest
<1>3. ASSUME TableInv, AtRest, ProcessState, Order PROVE LeftClean
  <2>1. SUFFICES ASSUME main = "down"
                 PROVE  /\ thr = "ended"
                        /\ table = "freed" \/ "poll" \in failed
                        /\ mpi = ~init_by_me
                        /\ finished = Ops => active = {} /\ held = {}
    BY DEF LeftClean
  <2>2. finished = Ops => active = {} /\ held = {}
    BY <1>3, <2>1, AllQuiet DEF AtRest, Closing, Order
  <2>3. QED
    BY <1>3, <2>1, <2>2 DEF Order, Closing
<1>4. TableInv /\ AtRest /\ ProcessState /\ Order => LeftClean
  BY <1>3
<1>5. QED
  BY <1>1, <1>2, <1>4, TableInvariant, TypeCorrect, ProcessHasTable, OrderInvariant,
     PTL DEF ProcessSpec
=============================================================================
