----------------------------- MODULE FFSchedule -----------------------------
(***************************************************************************)
(* A schedule in use (src/ffschedule.c over the engine of FFOp): the       *)
(* application posts begin_op, waits for end_op and posts again, while the *)
(* progress thread completes what MPI reports.  An application that posts  *)
(* the first operation of a chain and waits for the last one, as the tests *)
(* do without a schedule, is the same with other operations for Begin and  *)
(* End.                                                                    *)
(***************************************************************************)
EXTENDS FFOp

CONSTANTS
  Begin,      \* sched->begin_op
  End,        \* sched->end_op
  MaxRounds   \* bound: how many times the schedule is posted

(* What FFScheduleBuild shows of the graphs the API builds: nothing comes  *)
(* before begin_op, nothing after end_op, and end_op cannot be missed by   *)
(* following successors.                                                   *)
Closed(S) == \A o \in S : \A j \in 1 .. Len(Dependent[o]) : Dependent[o][j] \in S
ASSUME GraphAssumption ==
  /\ Begin \in Ops /\ End \in Ops
  /\ In(Begin) = {}
  /\ Dependent[End] = <<>>
  /\ \A S \in SUBSET Ops : S # {} /\ Closed(S) => End \in S

(* Version numbers and dependency counts fit in 32 bits. *)
ASSUME BoundAssumption ==
  /\ MaxRounds \in Nat /\ MaxRounds < UIntMod
  /\ \A o \in Ops : in_dep_count(o) < UIntMod

VARIABLES
  apc,     \* where the application's thread is: "idle" between two rounds,
           \* "posting" in ffschedule_post, "posted" until it sees end_op
           \* completed, "clearing" when it has
  round    \* how many times the schedule has been posted

vars == <<engine, apc, round>>

ScheduleTypeOK == /\ TypeOK
                  /\ apc \in {"idle", "posting", "posted", "clearing"}
                  /\ round \in 0 .. MaxRounds

Init == /\ InitEngine
        /\ apc = "idle"
        /\ round = 0

-----------------------------------------------------------------------------
(* ffschedule_post: begin_op is posted.  (The callback before it is the    *)
(* business of the collective that set it.)                                *)
SchedulePost ==
  /\ apc = "idle"
  /\ round < MaxRounds
  /\ stack["app"] = <<>>
  /\ apc' = "posting"
  /\ round' = round + 1
  /\ Call("app", Begin, "post")
  /\ UNCHANGED <<version, dep_left, completed, pos, inflight, list, ret>>

(* It returns when the application's thread has run all that could be run. *)
PostReturns ==
  /\ apc = "posting"
  /\ stack["app"] = <<>>
  /\ apc' = "posted"
  /\ UNCHANGED <<engine, round>>

(* A wait that looks at begin_op. *)
WaitSeesBegin ==
  /\ apc = "posted"
  /\ completed[Begin] # 0
  /\ apc' = "clearing"
  /\ UNCHANGED <<engine, round>>

(* ffop_wait and ffop_test on end_op read its flag until it is set ...     *)
WaitSees ==
  /\ apc = "posted"
  /\ completed[End] # 0
  /\ apc' = "clearing"
  /\ UNCHANGED <<engine, round>>

(* A wait that does not reset the flag. *)
WaitReturnsOnly ==
  /\ apc = "clearing"
  /\ apc' = "idle"
  /\ UNCHANGED <<engine, round>>

(* ... and reset it before they return. *)
WaitClears ==
  /\ apc = "clearing"
  /\ completed' = [completed EXCEPT ![End] = 0]
  /\ apc' = "idle"
  /\ UNCHANGED <<version, dep_left, stack, pc, pos, inflight, list, ret, round>>

(* The application has what it wants; the progress thread polls on. *)
Stopped == /\ apc = "idle" /\ round = MaxRounds
           /\ UNCHANGED vars

ThreadStep(t) == \E o \in Ops : CallStep(t, o) /\ UNCHANGED <<apc, round>>
Report(S) == Poll(S) /\ UNCHANGED <<apc, round>>
TakeReady == Take /\ UNCHANGED <<apc, round>>
Application == PostReturns \/ WaitSees \/ WaitClears

Next == \/ SchedulePost \/ Application \/ Stopped
        \/ \E t \in Thread : ThreadStep(t)
        \/ \E S \in SUBSET inflight : Report(S)
        \/ TakeReady

Spec == Init /\ [][Next]_vars

(* Both threads run, MPI completes what it was given, and MPI_Testsome,    *)
(* called again and again, reports each request that has completed.        *)
ReportOf(o) == \E S \in SUBSET inflight : o \in S /\ Report(S)
Fairness == /\ WF_vars(Application)
            /\ \A t \in Thread : WF_vars(ThreadStep(t))
            /\ WF_vars(TakeReady)
            /\ \A o \in Ops : SF_vars(ReportOf(o))
FairSpec == Spec /\ Fairness

-----------------------------------------------------------------------------
(* Where an operation is in the present round. *)
Posting(t, o) == pc[t][o] \in {"post", "issue", "restore"}
Listed(o) == \E k \in DOMAIN list : list[k] = o
Running(o) == \/ \E t \in Thread : Posting(t, o)
              \/ o \in inflight
              \/ Listed(o)
Done(o) == version[o] = round

(* Thread t still has to tell o's successor number j, in this round. *)
Owes(t, o, j) == \/ pc[t][o] = "publish"
                 \/ pc[t][o] = "signal" /\ pos[t][o] <= j
Signalling(t, o) == \/ pc[t][o] = "publish"
                    \/ pc[t][o] = "signal" /\ pos[t][o] <= Len(Dependent[o])
Signalled(e) == Done(e[1]) /\ \A t \in Thread : ~Owes(t, e[1], e[2])
Unsignalled(o) == {e \in In(o) : ~Signalled(e)}

(* Two threads decrement and restore dep_left with no lock around the      *)
(* loops: still, it always counts the dependencies of this round that have *)
(* not been signalled, or all of them once the operation has completed, so *)
(* that the next round starts from the full count.                         *)
DepCountExact ==
  \A o \in Ops :
     dep_left[o] = IF Done(o) THEN in_dep_count(o)
                              ELSE Cardinality(Unsignalled(o))

(* An operation is posted by one thread only, sits in MPI or in the ready  *)
(* list once, and is completed by one thread only: the triggering counter  *)
(* reaches zero for exactly one of the predecessors that race to it.       *)
OnePlace ==
  \A o \in Ops :
     /\ ~(Posting("app", o) /\ Posting("prog", o))
     /\ (\E t \in Thread : Posting(t, o)) => o \notin inflight /\ ~Listed(o)
     /\ o \in inflight => ~Listed(o)
     /\ \A k, l \in DOMAIN list : list[k] = o /\ list[l] = o => k = l
     /\ ~(Signalling("app", o) /\ Signalling("prog", o))

(* No trigger is lost: once all its dependencies are signalled an          *)
(* operation has been posted (ffop.c:199-202), unless it is one that       *)
(* cannot be posted again or whose post can fail.                          *)
NoLostTrigger ==
  \A o \in Ops \ (MayFail \cup NonPersistent) :
     In(o) # {} /\ Unsignalled(o) = {} /\ apc # "idle" => Running(o) \/ Done(o)

(* When the wait returns the schedule is at rest: every operation has      *)
(* completed and no thread has a successor left to signal, although        *)
(* end_op's flag is set while calls further up the stacks are still open.  *)
(* The schedule can be posted again at once.                               *)
AtRest ==
  apc \in {"clearing", "idle"} =>
     \A o \in Ops : /\ Done(o)
                    /\ ~Running(o)
                    /\ \A t \in Thread : ~Signalling(t, o)

(* A non-persistent operation completes once, however often the schedule   *)
(* it is part of is posted (ffop.c:62-65).                                 *)
RunsOnce == \A o \in NonPersistent : version[o] <= 1

(* The engine runs the graph: the operations of a round start only when    *)
(* their predecessors have completed, complete at most once, and the wait  *)
(* returns only when all have.                                             *)
Dag == INSTANCE FFDag WITH
         Pred <- [o \in Ops |-> {e[1] : e \in In(o)}],
         Unreliable <- MayFail \cup NonPersistent,
         active <- apc # "idle",
         running <- {o \in Ops : Running(o)},
         done <- {o \in Ops : Done(o)}
DagSpec == Dag!Spec

(* A schedule that is posted completes, and ffschedule_wait returns. *)
WaitReturns == apc = "posting" ~> apc = "idle"
=============================================================================
