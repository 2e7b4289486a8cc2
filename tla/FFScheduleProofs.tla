-------------------------- MODULE FFScheduleProofs --------------------------
(***************************************************************************)
(* The engine runs every graph that satisfies GraphAssumption, for any     *)
(* number of rounds that a version number can count, whatever operations   *)
(* fail or run once, provided no operation has FFOP_DEP_OR.                *)
(*                                                                         *)
(* The argument.  A round moves every version from round - 1 to round; the *)
(* edge (p, j) counts as signalled once p is done and no thread still owes *)
(* its j-th successor a decrement.  An operation starts only with all its  *)
(* edges signalled, so one that is not done has no successor that is done  *)
(* or running; as end_op cannot be missed by following successors, end_op  *)
(* done means all done.  That dep_left counts the edges not signalled      *)
(* makes exactly one decrement per operation reach zero.                   *)
(***************************************************************************)
EXTENDS FFSchedule, FiniteSetTheorems, SequenceTheorems, TLAPS

(* No operation is more than one execution behind. *)
Versions == \A o \in Ops : version[o] = round \/ version[o] = round - 1

(* What runs is not done, what signals is. *)
RunningNotDone == \A o \in Ops : Running(o) => ~Done(o)
SignallingDone == \A t \in Thread, o \in Ops : Signalling(t, o) => Done(o)

(* Nothing starts before its dependencies. *)
AllSignalled == \A o \in Ops : Running(o) \/ Done(o) => Unsignalled(o) = {}

(* The flag the application waits for is set by end_op's last step. *)
EndFlag == completed[End] # 0 => /\ Done(End)
                                 /\ \A t \in Thread : pc[t][End] # "publish"
                                 /\ apc # "idle"

IInv == /\ ScheduleTypeOK
        /\ Versions
        /\ RunningNotDone
        /\ SignallingDone
        /\ AllSignalled
        /\ DepCountExact
        /\ OnePlace
        /\ EndFlag
        /\ AtRest
-----------------------------------------------------------------------------
(* The edges of the graph. *)
LEMMA InEdges ==
  ASSUME NEW o \in Ops
  PROVE  /\ IsFiniteSet(In(o))
         /\ Cardinality(In(o)) \in Nat
         /\ \A e \in In(o) : /\ e[1] \in Ops
                             /\ e[2] \in 1 .. Len(Dependent[e[1]])
                             /\ Dependent[e[1]][e[2]] = o
                             /\ e = <<e[1], e[2]>>
<1>1. IsFiniteSet(Ops \X (1 .. MaxDeps))
  <2>1. IsFiniteSet(1 .. MaxDeps)
    BY MaxDepsAssumption, FS_Interval
  <2>2. QED
    BY <2>1, OpsAssumption, FS_Product
<1>2. In(o) \subseteq Ops \X (1 .. MaxDeps)
  BY DEF In
<1>3. IsFiniteSet(In(o)) /\ Cardinality(In(o)) \in Nat
  BY <1>1, <1>2, FS_Subset, FS_CardinalityType
<1>4. ASSUME NEW e \in In(o)
      PROVE  /\ e[1] \in Ops
             /\ e[2] \in 1 .. Len(Dependent[e[1]])
             /\ Dependent[e[1]][e[2]] = o
             /\ e = <<e[1], e[2]>>
  <2>1. /\ e \in Ops \X (1 .. MaxDeps)
        /\ e[2] <= Len(Dependent[e[1]])
        /\ Dependent[e[1]][e[2]] = o
    BY DEF In
  <2>2. /\ e[1] \in Ops
        /\ e[2] \in 1 .. MaxDeps
        /\ e = <<e[1], e[2]>>
    BY <2>1
  <2>3. Len(Dependent[e[1]]) \in Nat
    BY <2>2, DependentAssumption, LenProperties
  <2>4. QED
    BY <2>1, <2>2, <2>3, MaxDepsAssumption
<1>5. QED
  BY <1>3, <1>4

LEMMA OutEdges ==
  ASSUME NEW p \in Ops, NEW j \in 1 .. Len(Dependent[p])
  PROVE  /\ Dependent[p][j] \in Ops
         /\ <<p, j>> \in In(Dependent[p][j])
<1>1. /\ Dependent[p] \in Seq(Ops)
      /\ Len(Dependent[p]) \in Nat
      /\ Len(Dependent[p]) <= MaxDeps
  BY DependentAssumption, LenProperties
<1>2. Dependent[p][j] \in Ops
  BY <1>1, ElementOfSeq
<1>3. j \in 1 .. MaxDeps /\ j <= Len(Dependent[p])
  BY <1>1, MaxDepsAssumption
<1>4. QED
  BY <1>2, <1>3 DEF In

LEMMA OutDegree ==
  ASSUME NEW p \in Ops
  PROVE  Len(Dependent[p]) \in Nat
BY DependentAssumption, LenProperties

-----------------------------------------------------------------------------
(* Types. *)
LEMMA TypeInit == Init => ScheduleTypeOK
<1> SUFFICES ASSUME Init PROVE ScheduleTypeOK
  OBVIOUS
<1>1. dep_left \in [Ops -> 0 .. UIntMod - 1]
  BY InEdges, BoundAssumption, UIntAssumption
     DEF Init, InitEngine, in_dep_count
<1>2. /\ stack \in [Thread -> Seq(Ops)]
      /\ list \in Seq(Ops)
  BY EmptySeq DEF Init, InitEngine
<1>3. /\ pc \in [Thread -> [Ops -> PC]]
      /\ pos \in [Thread -> [Ops -> Nat \ {0}]]
      /\ version \in [Ops -> Nat]
      /\ completed \in [Ops -> Nat]
  BY DEF Init, InitEngine, PC
<1>4. inflight \subseteq Ops /\ ret \in Result \cup {NoOp}
  BY DEF Init, InitEngine
<1>5. apc = "idle" /\ round \in 0 .. MaxRounds
  BY BoundAssumption DEF Init
<1>6. QED
  BY <1>1, <1>2, <1>3, <1>4, <1>5 DEF ScheduleTypeOK, TypeOK

(* A call adds a frame, a return removes one. *)
LEMMA TypeGoTo ==
  ASSUME TypeOK, NEW t \in Thread, NEW o \in Ops, NEW p \in PC, GoTo(t, o, p)
  PROVE  /\ pc' \in [Thread -> [Ops -> PC]]
         /\ \A u \in Thread, x \in Ops :
               pc'[u][x] = IF u = t /\ x = o THEN p ELSE pc[u][x]
BY DEF TypeOK, GoTo

LEMMA TypeCall ==
  ASSUME TypeOK, NEW t \in Thread, NEW o \in Ops, NEW p \in PC, Call(t, o, p)
  PROVE  stack' \in [Thread -> Seq(Ops)]
<1>1. <<o>> \o stack[t] \in Seq(Ops)
  BY ConcatProperties, LenProperties DEF TypeOK
<1>2. QED
  BY <1>1 DEF TypeOK, Call

LEMMA TypeReturn ==
  ASSUME TypeOK, NEW t \in Thread, NEW o \in Ops, NEW r \in Result,
         stack[t] # <<>>, Return(t, o, r)
  PROVE  /\ stack' \in [Thread -> Seq(Ops)]
         /\ ret' \in Result \cup {NoOp}
<1>1. Tail(stack[t]) \in Seq(Ops)
  BY HeadTailProperties DEF TypeOK
<1>2. QED
  BY <1>1 DEF TypeOK, Return

LEMMA TypeCallStep ==
  ASSUME TypeOK, NEW t \in Thread, NEW o \in Ops, CallStep(t, o)
  PROVE  TypeOK'
<1> USE DEF PC, Result
<1>1. CASE PostRefused(t, o)
  BY <1>1, TypeGoTo, TypeReturn DEF PostRefused, At, Return, TypeOK
<1>2. CASE PostResets(t, o)
  BY <1>2, TypeGoTo DEF PostResets, TypeOK
<1>3. CASE IssueImmediate(t, o)
  BY <1>3, TypeGoTo DEF IssueImmediate, TypeOK
<1>4. CASE IssueAsync(t, o)
  BY <1>4, TypeGoTo, TypeReturn DEF IssueAsync, At, Return, TypeOK
<1>5. CASE IssueFails(t, o)
  BY <1>5, TypeGoTo, TypeReturn DEF IssueFails, At, Return, TypeOK
<1>6. CASE Restore(t, o)
  <2>1. in_dep_count(o) \in 0 .. UIntMod - 1
    BY InEdges, BoundAssumption, UIntAssumption DEF in_dep_count
  <2>2. QED
    <3>1. /\ version' \in [Ops -> Nat]
          /\ dep_left' \in [Ops -> 0 .. UIntMod - 1]
      BY <1>6, <2>1 DEF Restore, TypeOK
    <3>2. pc' \in [Thread -> [Ops -> PC]]
      BY <1>6, TypeGoTo DEF Restore
    <3>3. QED
      BY <1>6, <3>1, <3>2 DEF Restore, TypeOK
<1>7. CASE Publish(t, o)
  BY <1>7, TypeGoTo DEF Publish, TypeOK
<1>8. CASE Signal(t, o)
  <2> DEFINE d == Dependent[o][pos[t][o]]
  <2> DEFINE deps == Minus1(dep_left[d])
  <2>1. pos[t][o] \in 1 .. Len(Dependent[o])
    BY <1>8, OutDegree DEF Signal, TypeOK
  <2>2. d \in Ops
    BY <2>1, OutEdges
  <2>3. deps \in 0 .. UIntMod - 1
    <3>1. dep_left[d] \in 0 .. UIntMod - 1
      BY <2>2 DEF TypeOK
    <3>2. QED
      BY <3>1, UIntAssumption DEF Minus1
  <2>4. dep_left' \in [Ops -> 0 .. UIntMod - 1]
    BY <1>8, <2>2, <2>3 DEF Signal, TypeOK
  <2>5. pos' \in [Thread -> [Ops -> Nat \ {0}]]
    BY <1>8 DEF Signal, TypeOK
  <2>6. /\ stack' \in [Thread -> Seq(Ops)]
        /\ pc' \in [Thread -> [Ops -> PC]]
    <3>1. CASE Triggers(o, deps)
      <4>1. Call(t, d, "post")
        BY <1>8, <3>1 DEF Signal
      <4>2. QED
        <5>1. stack' \in [Thread -> Seq(Ops)]
          BY <2>2, <4>1, TypeCall
        <5>2. GoTo(t, d, "post")
          BY <4>1 DEF Call
        <5>3. pc' \in [Thread -> [Ops -> PC]]
          BY <2>2, <5>2, TypeGoTo
        <5>4. QED
          BY <5>1, <5>3
    <3>2. CASE ~Triggers(o, deps)
      BY <1>8, <3>2 DEF Signal, TypeOK
    <3>3. QED
      BY <3>1, <3>2
  <2>7. QED
    BY <1>8, <2>4, <2>5, <2>6 DEF Signal, TypeOK
<1>9. CASE CompleteReturns(t, o)
  BY <1>9, TypeGoTo, TypeReturn DEF CompleteReturns, At, Return, TypeOK
<1>10. QED
  BY <1>1, <1>2, <1>3, <1>4, <1>5, <1>6, <1>7, <1>8, <1>9 DEF CallStep

(* MPI_Testsome lists each operation once. *)
LEMMA PollOrder ==
  ASSUME TypeOK, NEW S \in SUBSET inflight, Poll(S)
  PROVE  /\ list' \in Seq(Ops)
         /\ \A k \in DOMAIN list' : list'[k] \in S
         /\ \A o \in S : \E k \in DOMAIN list' : list'[k] = o
         /\ \A k, l \in DOMAIN list' : list'[k] = list'[l] => k = l
<1> DEFINE n == Cardinality(S)
<1>1. IsFiniteSet(S) /\ n \in Nat
  BY OpsAssumption, FS_Subset, FS_CardinalityType DEF TypeOK
<1>2. /\ list' \in [1 .. n -> S]
      /\ \A o \in S : \E k \in DOMAIN list' : list'[k] = o
  BY DEF Poll, Orders
<1>3. list' \in Seq(Ops)
  <2>1. list' \in [1 .. n -> Ops]
    BY <1>2 DEF TypeOK
  <2>2. QED
    BY <1>1, <2>1
<1>4. list' \in Surjection(1 .. n, S)
  BY <1>2 DEF Surjection
<1>5. IsFiniteSet(1 .. n) /\ Cardinality(1 .. n) = n
  BY <1>1, FS_Interval
<1>6. list' \in Injection(1 .. n, S)
  BY <1>1, <1>4, <1>5, FS_SurjSameCardinalityImpliesInj
<1>7. \A k, l \in DOMAIN list' : list'[k] = list'[l] => k = l
  BY <1>2, <1>6 DEF Injection, IsInjective
<1>8. QED
  BY <1>2, <1>3, <1>7

LEMMA TypeNext ==
  ASSUME ScheduleTypeOK, [Next]_vars
  PROVE  ScheduleTypeOK'
<1> USE DEF ScheduleTypeOK
<1>1. CASE SchedulePost
  <2>1. /\ pc' \in [Thread -> [Ops -> PC]]
        /\ stack' \in [Thread -> Seq(Ops)]
    BY <1>1, TypeGoTo, TypeCall, GraphAssumption
       DEF SchedulePost, Call, Thread, PC
  <2>2. round' \in 0 .. MaxRounds
    BY <1>1, BoundAssumption DEF SchedulePost
  <2>3. QED
    BY <1>1, <2>1, <2>2 DEF SchedulePost, TypeOK
<1>2. CASE PostReturns
  BY <1>2 DEF PostReturns, engine, TypeOK
<1>3. CASE WaitSees
  BY <1>3 DEF WaitSees, engine, TypeOK
<1>4. CASE WaitClears
  BY <1>4 DEF WaitClears, TypeOK
<1>5. CASE UNCHANGED vars
  BY <1>5 DEF vars, engine, TypeOK
<1>6. CASE \E t \in Thread : ThreadStep(t)
  BY <1>6, TypeCallStep DEF ThreadStep
<1>7. CASE \E S \in SUBSET inflight : Report(S)
  <2>1. PICK S \in SUBSET inflight : Report(S)
    BY <1>7
  <2>2. list' \in Seq(Ops)
    BY <2>1, PollOrder DEF Report
  <2>3. QED
    BY <2>1, <2>2 DEF Report, Poll, TypeOK
<1>8. CASE TakeReady
  <2>1. Head(list) \in Ops /\ list' \in Seq(Ops)
    BY <1>8, HeadTailProperties DEF TakeReady, Take, TypeOK
  <2>2. /\ pc' \in [Thread -> [Ops -> PC]]
        /\ stack' \in [Thread -> Seq(Ops)]
    BY <1>8, <2>1, TypeGoTo, TypeCall DEF TakeReady, Take, Call, Thread, PC
  <2>3. QED
    BY <1>8, <2>1, <2>2 DEF TakeReady, Take, TypeOK
<1>9. QED
  BY <1>1, <1>2, <1>3, <1>4, <1>5, <1>6, <1>7, <1>8
     DEF Next, Application, Stopped

(* Every field of every operation keeps its type, counters included. *)
THEOREM TypeCorrect == Spec => []ScheduleTypeOK
BY TypeInit, TypeNext, PTL DEF Spec

-----------------------------------------------------------------------------
(* Steps that signal nothing.  With the invariant, the lemma of a step     *)
(* states what the step does to the operations that run and that are done. *)
SameRun == \A x \in Ops : (Running(x)' <=> Running(x)) /\ (Done(x)' <=> Done(x))

(* The edges signalled depend on what is done and on what is owed only. *)
LEMMA SameEdges ==
  ASSUME \A x \in Ops : Done(x)' <=> Done(x),
         \A u \in Thread, x \in Ops : \A j \in 1 .. Len(Dependent[x]) :
            Owes(u, x, j)' <=> Owes(u, x, j)
  PROVE  \A x \in Ops : Unsignalled(x)' = Unsignalled(x)
<1>1. ASSUME NEW x \in Ops, NEW e \in In(x)
      PROVE  Signalled(e)' <=> Signalled(e)
  <2>1. e[1] \in Ops /\ e[2] \in 1 .. Len(Dependent[e[1]])
    BY InEdges
  <2>2. Done(e[1])' <=> Done(e[1])
    BY <2>1
  <2>3. \A u \in Thread : Owes(u, e[1], e[2])' <=> Owes(u, e[1], e[2])
    BY <2>1
  <2>4. QED
    BY <2>2, <2>3 DEF Signalled
<1>2. QED
  BY <1>1 DEF Unsignalled

(* A thread moves a call that owes nothing to where it owes nothing. *)
LEMMA Quiet ==
  ASSUME IInv, NEW t \in Thread, NEW o \in Ops,
         NEW p \in PC \ {"publish", "signal"},
         GoTo(t, o, p), ~Signalling(t, o),
         UNCHANGED <<version, dep_left, pos, round>>
  PROVE  /\ \A u \in Thread, x \in Ops :
               pc'[u][x] = IF u = t /\ x = o THEN p ELSE pc[u][x]
         /\ \A x \in Ops : Done(x)' <=> Done(x)
         /\ \A x \in Ops : Unsignalled(x)' = Unsignalled(x)
         /\ \A u \in Thread, x \in Ops : Signalling(u, x)' <=> Signalling(u, x)
         /\ Versions'
         /\ SignallingDone'
         /\ DepCountExact'
<1>1. \A u \in Thread, x \in Ops :
         pc'[u][x] = IF u = t /\ x = o THEN p ELSE pc[u][x]
  BY TypeGoTo DEF IInv, ScheduleTypeOK
<1>2. \A x \in Ops : Done(x)' <=> Done(x)
  BY DEF Done
<1>3. \A u \in Thread, x \in Ops : Signalling(u, x)' <=> Signalling(u, x)
  BY <1>1 DEF Signalling
<1>4. \A u \in Thread, x \in Ops : \A j \in 1 .. Len(Dependent[x]) :
         Owes(u, x, j)' <=> Owes(u, x, j)
  <2>1. TAKE u \in Thread, x \in Ops
  <2>2. TAKE j \in 1 .. Len(Dependent[x])
  <2>3. CASE u = t /\ x = o
    <3>1. ~Owes(t, o, j)
      <4>1. /\ pos[t][o] \in Nat
            /\ Len(Dependent[o]) \in Nat
        BY OutDegree DEF IInv, ScheduleTypeOK, TypeOK
      <4>2. QED
        BY <2>3, <4>1 DEF Owes, Signalling
    <3>2. ~Owes(t, o, j)'
      BY <1>1 DEF Owes
    <3>3. QED
      BY <2>3, <3>1, <3>2
  <2>4. CASE ~(u = t /\ x = o)
    BY <1>1, <2>4 DEF Owes
  <2>5. QED
    BY <2>3, <2>4
<1>5. \A x \in Ops : Unsignalled(x)' = Unsignalled(x)
  BY <1>2, <1>4, SameEdges
<1>6. Versions' /\ SignallingDone'
  BY <1>2, <1>3 DEF IInv, Versions, SignallingDone
<1>7. DepCountExact'
  BY <1>2, <1>5 DEF IInv, DepCountExact
<1>8. QED
  BY <1>1, <1>2, <1>3, <1>5, <1>6, <1>7

(* Nothing starts, nothing completes. *)
LEMMA Keeps ==
  ASSUME IInv,
         \A x \in Ops : Done(x)' <=> Done(x),
         \A x \in Ops : Unsignalled(x)' = Unsignalled(x),
         \A x \in Ops : Running(x)' => Running(x),
         \A u \in Thread, x \in Ops : Signalling(u, x)' <=> Signalling(u, x),
         \A u \in Thread : pc'[u][End] = "publish" => pc[u][End] = "publish",
         completed'[End] # 0 => completed[End] # 0,
         apc' = apc
  PROVE  RunningNotDone' /\ AllSignalled' /\ EndFlag' /\ AtRest'
<1>1. RunningNotDone'
  BY DEF IInv, RunningNotDone
<1>2. AllSignalled'
  BY DEF IInv, AllSignalled
<1>3. EndFlag'
  BY GraphAssumption DEF IInv, EndFlag
<1>4. AtRest'
  BY DEF IInv, AtRest
<1>5. QED
  BY <1>1, <1>2, <1>3, <1>4

(* A post that is refused or fails leaves its caller. *)
LEMMA DropIInv ==
  ASSUME IInv, [Next]_vars, NEW t \in Thread, NEW o \in Ops,
         PostRefused(t, o) \/ IssueFails(t, o), UNCHANGED <<apc, round>>
  PROVE  /\ IInv'
         /\ \A x \in Ops : Running(x)' <=> Running(x) /\ x # o
         /\ \A x \in Ops : Done(x)' <=> Done(x)
         /\ Running(o)
<1>1. /\ GoTo(t, o, "out")
      /\ Posting(t, o)
      /\ ~Signalling(t, o)
      /\ UNCHANGED <<version, dep_left, completed, pos, inflight, list>>
  BY DEF PostRefused, IssueFails, Return, At, Posting, Signalling
<1>2. /\ \A u \in Thread, x \in Ops :
            pc'[u][x] = IF u = t /\ x = o THEN "out" ELSE pc[u][x]
      /\ \A x \in Ops : Done(x)' <=> Done(x)
      /\ \A x \in Ops : Unsignalled(x)' = Unsignalled(x)
      /\ \A u \in Thread, x \in Ops : Signalling(u, x)' <=> Signalling(u, x)
      /\ Versions' /\ SignallingDone' /\ DepCountExact'
  BY <1>1, Quiet DEF PC
<1>3. \A u \in Thread, x \in Ops : Posting(u, x)' => Posting(u, x)
  BY <1>2 DEF Posting
<1>4. \A x \in Ops : (Listed(x)' <=> Listed(x)) /\ (Running(x)' => Running(x))
  BY <1>1, <1>3 DEF Running, Listed
<1>5. OnePlace'
  BY <1>1, <1>2, <1>3, <1>4 DEF IInv, OnePlace, Thread
<1>6. RunningNotDone' /\ AllSignalled' /\ EndFlag' /\ AtRest'
  BY <1>1, <1>2, <1>4, Keeps, GraphAssumption
<1>7. \A x \in Ops : Running(x)' <=> Running(x) /\ x # o
  <2>1. ~Running(o)'
    BY <1>1, <1>2, <1>3, <1>4 DEF Running, Posting, IInv, OnePlace, Thread
  <2>2. \A u \in Thread, x \in Ops : x # o => (Posting(u, x)' <=> Posting(u, x))
    BY <1>2 DEF Posting
  <2>3. \A x \in Ops : x # o => (Running(x)' <=> Running(x))
    BY <1>1, <1>4, <2>2 DEF Running
  <2>4. QED
    BY <2>1, <2>3
<1>8. IInv'
  BY <1>2, <1>5, <1>6, TypeNext DEF IInv
<1>9. Running(o)
  BY <1>1 DEF Running
<1>10. QED
  BY <1>2, <1>7, <1>8, <1>9

(* A post that goes on: the operation stays with its thread. *)
LEMMA PostIInv ==
  ASSUME IInv, [Next]_vars, NEW t \in Thread, NEW o \in Ops,
         PostResets(t, o) \/ IssueImmediate(t, o), UNCHANGED <<apc, round>>
  PROVE  IInv' /\ SameRun
<1>1. PICK p \in {"issue", "restore"} : GoTo(t, o, p)
  BY DEF PostResets, IssueImmediate
<1>2. /\ Posting(t, o)
      /\ ~Signalling(t, o)
      /\ UNCHANGED <<version, dep_left, pos, inflight, list>>
  BY DEF PostResets, IssueImmediate, At, Posting, Signalling
<1>3. /\ \A u \in Thread, x \in Ops :
            pc'[u][x] = IF u = t /\ x = o THEN p ELSE pc[u][x]
      /\ \A x \in Ops : Done(x)' <=> Done(x)
      /\ \A x \in Ops : Unsignalled(x)' = Unsignalled(x)
      /\ \A u \in Thread, x \in Ops : Signalling(u, x)' <=> Signalling(u, x)
      /\ Versions' /\ SignallingDone' /\ DepCountExact'
  BY <1>1, <1>2, Quiet DEF PC
<1>4. \A u \in Thread, x \in Ops : Posting(u, x)' <=> Posting(u, x)
  BY <1>2, <1>3 DEF Posting
<1>5. \A x \in Ops : (Listed(x)' <=> Listed(x)) /\ (Running(x)' <=> Running(x))
  BY <1>2, <1>4 DEF Running, Listed
<1>6. OnePlace'
  BY <1>2, <1>3, <1>4, <1>5 DEF IInv, OnePlace, Thread
<1>7. completed'[End] # 0 => completed[End] # 0
  BY GraphAssumption
     DEF PostResets, IssueImmediate, IInv, ScheduleTypeOK, TypeOK
<1>8. RunningNotDone' /\ AllSignalled' /\ EndFlag' /\ AtRest'
  BY <1>3, <1>5, <1>7, Keeps, GraphAssumption
<1>9. QED
  BY <1>3, <1>5, <1>6, <1>8, TypeNext DEF IInv, SameRun

(* A send or a receive passes from its thread to MPI. *)
LEMMA AsyncIInv ==
  ASSUME IInv, [Next]_vars, NEW t \in Thread, NEW o \in Ops,
         IssueAsync(t, o), UNCHANGED <<apc, round>>
  PROVE  IInv' /\ SameRun
<1>1. /\ GoTo(t, o, "out")
      /\ Posting(t, o)
      /\ ~Signalling(t, o)
      /\ inflight' = inflight \cup {o}
      /\ UNCHANGED <<version, dep_left, completed, pos, list>>
  BY DEF IssueAsync, Return, At, Posting, Signalling
<1>2. /\ \A u \in Thread, x \in Ops :
            pc'[u][x] = IF u = t /\ x = o THEN "out" ELSE pc[u][x]
      /\ \A x \in Ops : Done(x)' <=> Done(x)
      /\ \A x \in Ops : Unsignalled(x)' = Unsignalled(x)
      /\ \A u \in Thread, x \in Ops : Signalling(u, x)' <=> Signalling(u, x)
      /\ Versions' /\ SignallingDone' /\ DepCountExact'
  BY <1>1, Quiet DEF PC
<1>3. \A u \in Thread, x \in Ops :
         Posting(u, x)' <=> Posting(u, x) /\ ~(u = t /\ x = o)
  BY <1>2 DEF Posting
<1>4. \A x \in Ops : (Listed(x)' <=> Listed(x)) /\ (Running(x)' <=> Running(x))
  BY <1>1, <1>3 DEF Running, Listed
<1>5. OnePlace'
  <2>1. \A x \in Ops : x # o => (x \in inflight' <=> x \in inflight)
    BY <1>1
  <2>2. \A u \in Thread : ~Posting(u, o)'
    BY <1>1, <1>3 DEF IInv, OnePlace, Thread
  <2>3. ~Listed(o)
    BY <1>1 DEF IInv, OnePlace
  <2>4. QED
    BY <1>1, <1>2, <1>3, <1>4, <2>1, <2>2, <2>3 DEF IInv, OnePlace, Thread
<1>6. RunningNotDone' /\ AllSignalled' /\ EndFlag' /\ AtRest'
  BY <1>1, <1>2, <1>4, Keeps, GraphAssumption
<1>7. QED
  BY <1>2, <1>4, <1>5, <1>6, TypeNext DEF IInv, SameRun

(* A call that has told every successor leaves. *)
LEMMA ReturnIInv ==
  ASSUME IInv, [Next]_vars, NEW t \in Thread, NEW o \in Ops,
         CompleteReturns(t, o), UNCHANGED <<apc, round>>
  PROVE  IInv' /\ SameRun
<1>1. /\ GoTo(t, o, "out")
      /\ UNCHANGED <<version, dep_left, completed, pos, inflight, list>>
  BY DEF CompleteReturns, Return
<1>2. ~Signalling(t, o) /\ ~Posting(t, o)
  BY OutDegree
     DEF CompleteReturns, At, Signalling, Posting, IInv, ScheduleTypeOK, TypeOK
<1>3. /\ \A u \in Thread, x \in Ops :
            pc'[u][x] = IF u = t /\ x = o THEN "out" ELSE pc[u][x]
      /\ \A x \in Ops : Done(x)' <=> Done(x)
      /\ \A x \in Ops : Unsignalled(x)' = Unsignalled(x)
      /\ \A u \in Thread, x \in Ops : Signalling(u, x)' <=> Signalling(u, x)
      /\ Versions' /\ SignallingDone' /\ DepCountExact'
  BY <1>1, <1>2, Quiet DEF PC
<1>4. \A u \in Thread, x \in Ops : Posting(u, x)' <=> Posting(u, x)
  BY <1>2, <1>3 DEF Posting
<1>5. \A x \in Ops : (Listed(x)' <=> Listed(x)) /\ (Running(x)' <=> Running(x))
  BY <1>1, <1>4 DEF Running, Listed
<1>6. OnePlace'
  BY <1>1, <1>3, <1>4, <1>5 DEF IInv, OnePlace, Thread
<1>7. RunningNotDone' /\ AllSignalled' /\ EndFlag' /\ AtRest'
  BY <1>1, <1>3, <1>5, Keeps, GraphAssumption
<1>8. QED
  BY <1>3, <1>5, <1>6, <1>7, TypeNext DEF IInv, SameRun

(* The progress thread takes an operation off its list. *)
LEMMA TakeIInv ==
  ASSUME IInv, [Next]_vars, TakeReady
  PROVE  IInv' /\ SameRun
<1> DEFINE o == Head(list)
<1>1. /\ GoTo("prog", o, "restore")
      /\ UNCHANGED <<version, dep_left, completed, pos, inflight, apc, round>>
  BY DEF TakeReady, Take, Call
<1>2. /\ o \in Ops
      /\ Len(list) \in Nat \ {0}
      /\ DOMAIN list = 1 .. Len(list)
      /\ o = list[1]
      /\ DOMAIN list' = 1 .. Len(list) - 1
      /\ \A k \in 1 .. Len(list) - 1 : list'[k] = list[k + 1]
  BY HeadTailProperties, LenProperties, EmptySeq
     DEF TakeReady, Take, IInv, ScheduleTypeOK, TypeOK
<1>3. Listed(o) /\ Running(o)
  BY <1>2 DEF Listed, Running
<1>4. ~Signalling("prog", o)
  BY <1>2, <1>3 DEF IInv, RunningNotDone, SignallingDone, Thread
<1>5. /\ \A u \in Thread, x \in Ops :
            pc'[u][x] = IF u = "prog" /\ x = o THEN "restore" ELSE pc[u][x]
      /\ \A x \in Ops : Done(x)' <=> Done(x)
      /\ \A x \in Ops : Unsignalled(x)' = Unsignalled(x)
      /\ \A u \in Thread, x \in Ops : Signalling(u, x)' <=> Signalling(u, x)
      /\ Versions' /\ SignallingDone' /\ DepCountExact'
  <2>1. "prog" \in Thread /\ "restore" \in PC \ {"publish", "signal"}
    BY DEF Thread, PC
  <2>2. QED
    BY <1>1, <1>2, <1>4, <2>1, Quiet
<1>6. \A u \in Thread, x \in Ops :
         Posting(u, x)' <=> Posting(u, x) \/ (u = "prog" /\ x = o)
  BY <1>5 DEF Posting
<1>7. \A x \in Ops : Listed(x)' <=> Listed(x) /\ x # o
  <2>1. ASSUME NEW x \in Ops, Listed(x)'
        PROVE  Listed(x) /\ x # o
    <3>1. PICK k \in DOMAIN list' : list'[k] = x
      BY <2>1 DEF Listed
    <3>2. k + 1 \in DOMAIN list /\ list[k + 1] = x /\ k + 1 # 1
      BY <1>2, <3>1
    <3>3. x # o
      BY <1>2, <3>2 DEF IInv, OnePlace
    <3>4. QED
      BY <3>2, <3>3 DEF Listed
  <2>2. ASSUME NEW x \in Ops, Listed(x), x # o
        PROVE  Listed(x)'
    <3>1. PICK k \in DOMAIN list : list[k] = x
      BY <2>2 DEF Listed
    <3>2. k - 1 \in DOMAIN list' /\ list'[k - 1] = x
      BY <1>2, <2>2, <3>1
    <3>3. QED
      BY <3>2 DEF Listed
  <2>3. QED
    BY <2>1, <2>2
<1>8. \A x \in Ops : Running(x)' <=> Running(x)
  BY <1>1, <1>3, <1>6, <1>7 DEF Running, Thread
<1>9. OnePlace'
  <2>1. /\ ~Posting("app", o)
        /\ o \notin inflight
    BY <1>2, <1>3 DEF IInv, OnePlace, Thread
  <2>2. ASSUME NEW k \in DOMAIN list', NEW l \in DOMAIN list',
               list'[k] = list'[l]
        PROVE  k = l
    <3>1. /\ k + 1 \in DOMAIN list
          /\ l + 1 \in DOMAIN list
          /\ list[k + 1] = list[l + 1]
          /\ k \in Nat /\ l \in Nat
      BY <1>2, <2>2
    <3>2. list[k + 1] \in Ops
      BY <1>2, <3>1, ElementOfSeq DEF IInv, ScheduleTypeOK, TypeOK
    <3>3. k + 1 = l + 1
      BY <3>1, <3>2 DEF IInv, OnePlace
    <3>4. QED
      BY <3>1, <3>3
  <2>3. QED
    BY <1>1, <1>2, <1>5, <1>6, <1>7, <2>1, <2>2 DEF IInv, OnePlace, Thread
<1>10. RunningNotDone' /\ AllSignalled' /\ EndFlag' /\ AtRest'
  BY <1>1, <1>5, <1>8, Keeps, GraphAssumption
<1>11. QED
  BY <1>5, <1>8, <1>9, <1>10, TypeNext DEF IInv, SameRun

(* Operations pass from MPI to the ready list. *)
LEMMA ReportIInv ==
  ASSUME IInv, [Next]_vars, NEW S \in SUBSET inflight, Report(S)
  PROVE  IInv' /\ SameRun
<1>1. /\ list = <<>>
      /\ inflight' = inflight \ S
      /\ UNCHANGED <<version, dep_left, completed, pc, pos, apc, round>>
  BY DEF Report, Poll
<1>2. /\ \A k \in DOMAIN list' : list'[k] \in S
      /\ \A o \in S : \E k \in DOMAIN list' : list'[k] = o
      /\ \A k, l \in DOMAIN list' : list'[k] = list'[l] => k = l
  BY PollOrder DEF Report, IInv, ScheduleTypeOK
<1>3. \A x \in Ops : Listed(x)' <=> x \in S
  BY <1>2 DEF Listed
<1>4. /\ \A x \in Ops : Done(x)' <=> Done(x)
      /\ \A u \in Thread, x \in Ops : /\ Posting(u, x)' <=> Posting(u, x)
                                      /\ Signalling(u, x)' <=> Signalling(u, x)
  BY <1>1 DEF Done, Posting, Signalling
<1>5. \A x \in Ops : Unsignalled(x)' = Unsignalled(x)
  BY <1>1, <1>4, SameEdges DEF Owes
<1>6. \A x \in Ops : Running(x)' <=> Running(x)
  BY <1>1, <1>3, <1>4 DEF Running, Listed
<1>7. Versions' /\ SignallingDone' /\ DepCountExact'
  BY <1>1, <1>4, <1>5
     DEF IInv, Versions, SignallingDone, DepCountExact
<1>8. OnePlace'
  BY <1>1, <1>2, <1>3, <1>4 DEF IInv, OnePlace, Thread
<1>9. RunningNotDone' /\ AllSignalled' /\ EndFlag' /\ AtRest'
  BY <1>1, <1>4, <1>5, <1>6, Keeps, GraphAssumption
<1>10. QED
  BY <1>4, <1>6, <1>7, <1>8, <1>9, TypeNext DEF IInv, SameRun

-----------------------------------------------------------------------------
(* Steps that complete an operation and tell its successors. *)

(* o is done and owes every successor a decrement. *)
LEMMA RestoreIInv ==
  ASSUME IInv, [Next]_vars, NEW t \in Thread, NEW o \in Ops,
         Restore(t, o), UNCHANGED <<apc, round>>
  PROVE  /\ IInv'
         /\ \A x \in Ops : Running(x)' <=> Running(x) /\ x # o
         /\ \A x \in Ops : Done(x)' <=> Done(x) \/ x = o
         /\ Running(o)
<1>1. /\ GoTo(t, o, "publish")
      /\ pc[t][o] = "restore"
      /\ UNCHANGED <<completed, pos, inflight, list>>
  BY DEF Restore, At
<1>2. /\ \A x \in Ops : version'[x] = IF x = o THEN version[o] + 1 ELSE version[x]
      /\ \A x \in Ops : dep_left'[x] = IF x = o THEN in_dep_count(o) ELSE dep_left[x]
  BY DEF Restore, IInv, ScheduleTypeOK, TypeOK
<1>3. \A u \in Thread, x \in Ops :
         pc'[u][x] = IF u = t /\ x = o THEN "publish" ELSE pc[u][x]
  BY <1>1, TypeGoTo DEF IInv, ScheduleTypeOK, PC
<1>4. Posting(t, o) /\ Running(o) /\ ~Done(o)
  BY <1>1 DEF Posting, Running, IInv, RunningNotDone
<1>5. version[o] = round - 1 /\ round \in Nat /\ version[o] \in Nat
  BY <1>4, BoundAssumption
     DEF Done, IInv, Versions, ScheduleTypeOK, TypeOK
<1>6. \A x \in Ops : Done(x)' <=> Done(x) \/ x = o
  BY <1>2, <1>5 DEF Done
<1>7. \A u \in Thread : ~Signalling(u, o)
  BY <1>4 DEF IInv, SignallingDone
<1>8. \A u \in Thread, x \in Ops :
         Signalling(u, x)' <=> Signalling(u, x) \/ (u = t /\ x = o)
  BY <1>1, <1>3 DEF Signalling
<1>9. \A u \in Thread, x \in Ops :
         Posting(u, x)' <=> Posting(u, x) /\ ~(u = t /\ x = o)
  BY <1>3 DEF Posting
<1>10. \A x \in Ops : Listed(x)' <=> Listed(x)
  BY <1>1 DEF Listed
<1>11. \A x \in Ops : Running(x)' <=> Running(x) /\ x # o
  <2>1. \A x \in Ops : x # o => (Running(x)' <=> Running(x))
    BY <1>1, <1>9, <1>10 DEF Running
  <2>2. ~Running(o)'
    BY <1>1, <1>4, <1>9, <1>10 DEF Running, IInv, OnePlace, Thread
  <2>3. QED
    BY <2>1, <2>2
<1>12. \A x \in Ops : Unsignalled(x)' = Unsignalled(x)
  <2>1. ASSUME NEW x \in Ops, NEW e \in In(x)
        PROVE  Signalled(e)' <=> Signalled(e)
    <3>1. e[1] \in Ops
      BY InEdges
    <3>2. CASE e[1] = o
      <4>1. ~Signalled(e)
        BY <1>4, <3>2 DEF Signalled
      <4>2. ~Signalled(e)'
        BY <1>3, <3>2 DEF Signalled, Owes
      <4>3. QED
        BY <4>1, <4>2
    <3>3. CASE e[1] # o
      <4>1. \A u \in Thread : Owes(u, e[1], e[2])' <=> Owes(u, e[1], e[2])
        BY <1>1, <1>3, <3>1, <3>3 DEF Owes
      <4>2. Done(e[1])' <=> Done(e[1])
        BY <1>6, <3>1, <3>3
      <4>3. QED
        BY <4>1, <4>2 DEF Signalled
    <3>4. QED
      BY <3>2, <3>3
  <2>2. QED
    BY <2>1 DEF Unsignalled
<1>13. Versions' /\ RunningNotDone' /\ SignallingDone' /\ AllSignalled'
  <2>1. Versions'
    BY <1>2, <1>5 DEF IInv, Versions
  <2>2. RunningNotDone' /\ SignallingDone'
    BY <1>6, <1>8, <1>11 DEF IInv, RunningNotDone, SignallingDone
  <2>3. AllSignalled'
    BY <1>4, <1>6, <1>11, <1>12 DEF IInv, AllSignalled
  <2>4. QED
    BY <2>1, <2>2, <2>3
<1>14. DepCountExact'
  BY <1>2, <1>6, <1>12 DEF IInv, DepCountExact, in_dep_count
<1>15. OnePlace'
  <2>1. \A x \in Ops : ~(Signalling("app", x)' /\ Signalling("prog", x)')
    BY <1>7, <1>8 DEF IInv, OnePlace, Thread
  <2>2. QED
    BY <1>1, <1>9, <1>10, <2>1 DEF IInv, OnePlace, Thread
<1>16. EndFlag'
  <2>1. completed[End] # 0 => End # o
    BY <1>4 DEF IInv, EndFlag
  <2>2. QED
    BY <1>1, <1>3, <1>6, <2>1, GraphAssumption DEF IInv, EndFlag
<1>17. AtRest'
  BY <1>4 DEF IInv, AtRest
<1>18. IInv'
  BY <1>13, <1>14, <1>15, <1>16, <1>17, TypeNext DEF IInv
<1>19. QED
  BY <1>4, <1>6, <1>11, <1>18

(* o begins to tell its successors. *)
LEMMA PublishIInv ==
  ASSUME IInv, [Next]_vars, NEW t \in Thread, NEW o \in Ops,
         Publish(t, o), UNCHANGED <<apc, round>>
  PROVE  IInv' /\ SameRun
<1>1. /\ GoTo(t, o, "signal")
      /\ pc[t][o] = "publish"
      /\ UNCHANGED <<version, dep_left, inflight, list>>
  BY DEF Publish, At
<1>2. /\ \A u \in Thread, x \in Ops :
            pos'[u][x] = IF u = t /\ x = o THEN 1 ELSE pos[u][x]
      /\ \A x \in Ops : x # o => completed'[x] = completed[x]
  BY DEF Publish, IInv, ScheduleTypeOK, TypeOK
<1>3. \A u \in Thread, x \in Ops :
         pc'[u][x] = IF u = t /\ x = o THEN "signal" ELSE pc[u][x]
  BY <1>1, TypeGoTo DEF IInv, ScheduleTypeOK, PC
<1>4. Signalling(t, o) /\ Done(o)
  BY <1>1 DEF Signalling, IInv, SignallingDone
<1>5. \A x \in Ops : Done(x)' <=> Done(x)
  BY <1>1 DEF Done
<1>6. \A u \in Thread, x \in Ops : Posting(u, x)' <=> Posting(u, x)
  BY <1>1, <1>3 DEF Posting
<1>7. \A x \in Ops : (Listed(x)' <=> Listed(x)) /\ (Running(x)' <=> Running(x))
  BY <1>1, <1>6 DEF Listed, Running
<1>8. \A u \in Thread, x \in Ops : Signalling(u, x)' => Signalling(u, x)
  BY <1>2, <1>3, <1>4 DEF Signalling
<1>9. \A u \in Thread, x \in Ops : \A j \in 1 .. Len(Dependent[x]) :
         Owes(u, x, j)' <=> Owes(u, x, j)
  BY <1>1, <1>2, <1>3, OutDegree DEF Owes
<1>10. \A x \in Ops : Unsignalled(x)' = Unsignalled(x)
  BY <1>5, <1>9, SameEdges
<1>11. Versions' /\ RunningNotDone' /\ SignallingDone' /\ AllSignalled'
  BY <1>1, <1>5, <1>7, <1>8, <1>10
     DEF IInv, Versions, RunningNotDone, SignallingDone, AllSignalled
<1>12. DepCountExact'
  BY <1>1, <1>5, <1>10 DEF IInv, DepCountExact
<1>13. OnePlace'
  BY <1>1, <1>6, <1>7, <1>8 DEF IInv, OnePlace, Thread
<1>14. AtRest'
  BY <1>5, <1>7, <1>8 DEF IInv, AtRest
<1>15. EndFlag'
  <2>1. CASE o = End
    <3>1. \A u \in Thread : u # t => ~Signalling(u, o)
      BY <1>4 DEF IInv, OnePlace, Thread
    <3>2. \A u \in Thread : pc'[u][End] # "publish"
      BY <1>3, <2>1, <3>1 DEF Signalling
    <3>3. apc # "idle"
      BY <1>4 DEF IInv, AtRest
    <3>4. QED
      BY <1>4, <1>5, <2>1, <3>2, <3>3, GraphAssumption DEF EndFlag
  <2>2. CASE o # End
    BY <1>2, <1>3, <1>5, <2>2, GraphAssumption DEF IInv, EndFlag
  <2>3. QED
    BY <2>1, <2>2
<1>16. QED
  BY <1>5, <1>7, <1>11, <1>12, <1>13, <1>14, <1>15, TypeNext DEF IInv, SameRun

(* One decrement: the edge it stands for becomes signalled, and d starts   *)
(* if it was the last.                                                     *)
LEMMA SignalIInv ==
  ASSUME DepOr = {}, IInv, [Next]_vars, NEW t \in Thread, NEW o \in Ops,
         Signal(t, o), UNCHANGED <<apc, round>>
  PROVE  /\ IInv'
         /\ \/ SameRun
            \/ \E d \in Ops :
                  /\ \A x \in Ops : Running(x)' <=> Running(x) \/ x = d
                  /\ \A x \in Ops : Done(x)' <=> Done(x)
                  /\ ~Running(d) /\ ~Done(d)
                  /\ \A e \in In(d) : Done(e[1])'
         /\ o \notin NonPersistent =>
               \A x \in Ops : Unsignalled(x)' = {} => Unsignalled(x) = {} \/ Running(x)'
<1>1. /\ pc[t][o] = "signal"
      /\ UNCHANGED <<version, completed, inflight, list>>
  BY DEF Signal, At
<1>2. PICK j \in 1 .. Len(Dependent[o]) : j = pos[t][o]
  BY OutDegree DEF Signal, IInv, ScheduleTypeOK, TypeOK
<1> DEFINE f == <<o, j>>
<1>3. PICK d \in Ops : d = Dependent[o][j] /\ f \in In(d)
  BY OutEdges
<1>4. PICK deps \in Int : deps = Minus1(dep_left[d])
  BY UIntAssumption DEF Minus1, IInv, ScheduleTypeOK, TypeOK
<1>5. /\ dep_left' = [dep_left EXCEPT ![d] = deps]
      /\ IF Triggers(o, deps) THEN Call(t, d, "post") ELSE UNCHANGED <<stack, pc>>
      /\ pos' = [pos EXCEPT ![t][o] = j + 1]
  BY <1>2, <1>3, <1>4 DEF Signal
<1>6. Signalling(t, o) /\ Done(o)
  BY <1>1, <1>2, OutDegree DEF Signalling, IInv, SignallingDone
<1>7. f[1] = o /\ f[2] = j
  OBVIOUS
<1>8. Owes(t, o, j) /\ f \in Unsignalled(d)
  <2>1. Owes(t, o, j)
    BY <1>1, <1>2 DEF Owes
  <2>2. QED
    BY <1>3, <1>7, <2>1 DEF Unsignalled, Signalled
<1>9. ~Running(d) /\ ~Done(d) /\ d # o
  BY <1>3, <1>6, <1>8 DEF IInv, AllSignalled
<1>10. \A u \in Thread : ~Signalling(u, d) /\ ~Posting(u, d)
  BY <1>3, <1>9 DEF IInv, SignallingDone, Running
<1>11. \A u \in Thread : u # t => ~Signalling(u, o)
  BY <1>6 DEF IInv, OnePlace, Thread
<1>12. \A u \in Thread, x \in Ops :
          pos'[u][x] = IF u = t /\ x = o THEN j + 1 ELSE pos[u][x]
  BY <1>5 DEF IInv, ScheduleTypeOK, TypeOK
<1>13. \A u \in Thread, x \in Ops :
          pc'[u][x] = pc[u][x] \/ (u = t /\ x = d /\ deps = 0 /\ pc'[u][x] = "post")
  <2>1. CASE Triggers(o, deps)
    <3>1. GoTo(t, d, "post")
      BY <1>5, <2>1 DEF Call
    <3>2. \A u \in Thread, x \in Ops :
             pc'[u][x] = IF u = t /\ x = d THEN "post" ELSE pc[u][x]
      BY <1>3, <3>1, TypeGoTo DEF IInv, ScheduleTypeOK, PC
    <3>3. deps = 0
      BY <2>1 DEF Triggers
    <3>4. QED
      BY <3>2, <3>3
  <2>2. CASE ~Triggers(o, deps)
    BY <1>5, <2>2
  <2>3. QED
    BY <2>1, <2>2
<1>14. \A x \in Ops : Done(x)' <=> Done(x)
  BY <1>1 DEF Done
<1>15. \A u \in Thread, x \in Ops : Signalling(u, x)' => Signalling(u, x)
  BY <1>1, <1>2, <1>6, <1>12, <1>13, OutDegree DEF Signalling
<1>16. \A u \in Thread, x \in Ops :
          Posting(u, x)' => Posting(u, x) \/ (u = t /\ x = d /\ deps = 0)
  BY <1>13 DEF Posting
<1>17. \A x \in Ops : Listed(x)' <=> Listed(x)
  BY <1>1 DEF Listed
<1>18. \A x \in Ops : Running(x)' => Running(x) \/ (x = d /\ deps = 0)
  BY <1>1, <1>16, <1>17 DEF Running
<1>19. \A x \in Ops : Unsignalled(x)' = Unsignalled(x) \ {f}
  <2>1. Signalled(f)'
    <3>1. ~Owes(t, o, j)'
      BY <1>1, <1>2, <1>9, <1>12, <1>13 DEF Owes
    <3>2. \A u \in Thread : u # t => ~Owes(u, o, j)'
      BY <1>2, <1>9, <1>11, <1>12, <1>13, OutDegree,
         <1>1 DEF Owes, Signalling, IInv, ScheduleTypeOK, TypeOK
    <3>3. QED
      BY <1>6, <1>7, <1>14, <3>1, <3>2 DEF Signalled
  <2>2. ASSUME NEW x \in Ops, NEW e \in In(x), e # f
        PROVE  Signalled(e)' <=> Signalled(e)
    <3>1. /\ e[1] \in Ops
          /\ e[2] \in 1 .. Len(Dependent[e[1]])
          /\ ~(e[1] = o /\ e[2] = j)
      BY <2>2, InEdges
    <3>2. Done(e[1])' <=> Done(e[1])
      BY <1>14, <3>1
    <3>3. CASE e[1] = d
      BY <1>9, <3>2, <3>3 DEF Signalled
    <3>4. CASE e[1] # d
      <4>1. ASSUME NEW u \in Thread
            PROVE  Owes(u, e[1], e[2])' <=> Owes(u, e[1], e[2])
        <5>1. pc'[u][e[1]] = pc[u][e[1]]
          BY <1>13, <3>1, <3>4
        <5>2. CASE u = t /\ e[1] = o
          BY <1>1, <1>2, <1>12, <3>1, <5>1, <5>2 DEF Owes
        <5>3. CASE ~(u = t /\ e[1] = o)
          BY <1>12, <3>1, <5>1, <5>3 DEF Owes
        <5>4. QED
          BY <5>2, <5>3
      <4>2. QED
        BY <3>2, <4>1 DEF Signalled
    <3>5. QED
      BY <3>3, <3>4
  <2>3. QED
    BY <2>1, <2>2 DEF Unsignalled
<1>20. \A x \in Ops : x # d => Unsignalled(x)' = Unsignalled(x)
  <2>1. ASSUME NEW x \in Ops, f \in In(x)
        PROVE  x = d
    <3>1. Dependent[f[1]][f[2]] = x
      BY <2>1, InEdges
    <3>2. QED
      BY <1>3, <1>7, <3>1
  <2>2. QED
    BY <1>19, <2>1 DEF Unsignalled
<1>21. /\ IsFiniteSet(Unsignalled(d))
       /\ Cardinality(Unsignalled(d)) \in Nat \ {0}
       /\ Cardinality(Unsignalled(d)') = Cardinality(Unsignalled(d)) - 1
  <2>1. IsFiniteSet(Unsignalled(d))
    BY <1>3, InEdges, FS_Subset DEF Unsignalled
  <2>2. /\ Cardinality(Unsignalled(d)) \in Nat
        /\ Cardinality(Unsignalled(d)) # 0
    BY <1>8, <2>1, FS_CardinalityType, FS_EmptySet
  <2>3. QED
    BY <1>3, <1>8, <1>19, <2>1, <2>2, FS_RemoveElement
<1>22. /\ deps = Cardinality(Unsignalled(d)')
       /\ dep_left'[d] = deps
       /\ \A x \in Ops : x # d => dep_left'[x] = dep_left[x]
  <2>1. dep_left[d] = Cardinality(Unsignalled(d))
    BY <1>3, <1>9 DEF IInv, DepCountExact
  <2>2. deps = Cardinality(Unsignalled(d)')
    BY <1>4, <1>21, <2>1 DEF Minus1
  <2>3. QED
    BY <1>5, <1>3, <2>2 DEF IInv, ScheduleTypeOK, TypeOK
<1>23. DepCountExact'
  <2>1. ASSUME NEW x \in Ops
        PROVE  dep_left'[x] = IF Done(x)' THEN in_dep_count(x)
                                          ELSE Cardinality(Unsignalled(x)')
    <3>1. CASE x = d
      BY <1>3, <1>9, <1>14, <1>22, <3>1
    <3>2. CASE x # d
      BY <1>14, <1>20, <1>22, <3>2 DEF IInv, DepCountExact
    <3>3. QED
      BY <3>1, <3>2
  <2>2. QED
    BY <2>1 DEF DepCountExact, in_dep_count
<1>24. AllSignalled'
  <2>1. ASSUME NEW x \in Ops, Running(x)' \/ Done(x)'
        PROVE  Unsignalled(x)' = {}
    <3>1. CASE Running(x) \/ Done(x)
      BY <1>19, <3>1 DEF IInv, AllSignalled
    <3>2. CASE ~(Running(x) \/ Done(x))
      <4>1. x = d /\ deps = 0
        BY <1>14, <1>18, <2>1, <3>2
      <4>2. IsFiniteSet(Unsignalled(d)')
        <5>1. Unsignalled(d)' = Unsignalled(d) \ {f}
          BY <1>19
        <5>2. IsFiniteSet(Unsignalled(d) \ {f})
          BY <1>21, FS_RemoveElement
        <5>3. QED
          BY <5>1, <5>2
      <4>3. QED
        BY <1>22, <4>1, <4>2, FS_EmptySet
    <3>3. QED
      BY <3>1, <3>2
  <2>2. QED
    BY <2>1 DEF AllSignalled
<1>25. Versions' /\ RunningNotDone' /\ SignallingDone'
  BY <1>1, <1>9, <1>14, <1>15, <1>18
     DEF IInv, Versions, RunningNotDone, SignallingDone
<1>26. OnePlace'
  <2>1. ASSUME NEW x \in Ops, x # d
        PROVE  \A u \in Thread : Posting(u, x)' => Posting(u, x)
    BY <1>16, <2>1
  <2>2. \A u \in Thread : u # t => ~Posting(u, d)'
    BY <1>3, <1>10, <1>16
  <2>3. d \notin inflight /\ ~Listed(d)
    BY <1>9 DEF Running
  <2>4. QED
    BY <1>1, <1>15, <1>17, <2>1, <2>2, <2>3 DEF IInv, OnePlace, Thread
<1>27. EndFlag'
  BY <1>1, <1>13, <1>14, GraphAssumption DEF IInv, EndFlag
<1>28. AtRest'
  BY <1>6 DEF IInv, AtRest
<1>29. IInv'
  BY <1>23, <1>24, <1>25, <1>26, <1>27, <1>28, TypeNext DEF IInv
<1>30. \A x \in Ops : Running(x) => Running(x)'
  <2>1. \A u \in Thread, x \in Ops : Posting(u, x) => Posting(u, x)'
    BY <1>13 DEF Posting
  <2>2. QED
    BY <1>1, <1>17, <2>1 DEF Running
<1>34. ASSUME o \notin NonPersistent, NEW x \in Ops, Unsignalled(x)' = {}
       PROVE  Unsignalled(x) = {} \/ Running(x)'
  <2>1. CASE x # d
    BY <1>20, <1>34, <2>1
  <2>2. CASE x = d
    <3>1. deps = 0
      BY <1>22, <1>34, <2>2, FS_EmptySet
    <3>2. GoTo(t, d, "post")
      BY <1>5, <1>34, <3>1 DEF Triggers, Call
    <3>3. pc'[t][d] = "post"
      BY <1>3, <3>2, TypeGoTo DEF IInv, ScheduleTypeOK, PC
    <3>4. QED
      BY <2>2, <3>3 DEF Running, Posting
  <2>3. QED
    BY <2>1, <2>2
<1>31. CASE Running(d)'
  <2>1. \A x \in Ops : Running(x)' <=> Running(x) \/ x = d
    BY <1>18, <1>30, <1>31
  <2>2. \A e \in In(d) : Done(e[1])'
    BY <1>3, <1>24, <1>31 DEF AllSignalled, Unsignalled, Signalled
  <2>3. QED
    BY <1>9, <1>14, <1>29, <1>34, <2>1, <2>2
<1>32. CASE ~Running(d)'
  <2>1. \A x \in Ops : Running(x)' <=> Running(x)
    BY <1>18, <1>30, <1>32
  <2>2. QED
    BY <1>14, <1>29, <1>34, <2>1 DEF SameRun
<1>33. QED
  BY <1>31, <1>32

-----------------------------------------------------------------------------
(* The application. *)

(* Nobody is left behind when end_op is done: what is not done has no      *)
(* successor that is, and would lead to end_op.                            *)
LEMMA EndIsLast ==
  ASSUME IInv, Done(End)
  PROVE  \A o \in Ops : Done(o)
<1> DEFINE S == {o \in Ops : ~Done(o)}
<1>1. Closed(S)
  <2>1. SUFFICES ASSUME NEW o \in S, NEW j \in 1 .. Len(Dependent[o])
                 PROVE  Dependent[o][j] \in S
    BY DEF Closed
  <2>2. /\ Dependent[o][j] \in Ops
        /\ <<o, j>> \in In(Dependent[o][j])
    BY <2>1, OutEdges
  <2>3. <<o, j>> \in Unsignalled(Dependent[o][j])
    BY <2>1, <2>2 DEF Unsignalled, Signalled
  <2>4. QED
    BY <2>2, <2>3 DEF IInv, AllSignalled
<1>2. End \notin S
  OBVIOUS
<1>3. S = {}
  BY <1>1, <1>2, GraphAssumption
<1>4. QED
  BY <1>3

LEMMA QuietEnd ==
  ASSUME IInv, completed[End] # 0
  PROVE  \A o \in Ops : /\ Done(o)
                        /\ ~Running(o)
                        /\ \A t \in Thread : ~Signalling(t, o)
<1>1. \A o \in Ops : Done(o) /\ ~Running(o)
  BY EndIsLast DEF IInv, EndFlag, RunningNotDone
<1>2. ASSUME NEW o \in Ops, NEW t \in Thread, Signalling(t, o)
      PROVE  FALSE
  <2>1. CASE Len(Dependent[o]) = 0
    <3>1. pc[t][o] = "publish"
      BY <1>2, <2>1 DEF Signalling, IInv, ScheduleTypeOK, TypeOK
    <3>2. Closed({o})
      BY <2>1 DEF Closed
    <3>3. o = End
      BY <3>2, GraphAssumption
    <3>4. QED
      BY <3>1, <3>3 DEF IInv, EndFlag
  <2>2. CASE Len(Dependent[o]) # 0
    <3> DEFINE j == Len(Dependent[o])
    <3>1. j \in 1 .. Len(Dependent[o])
      BY <2>2, OutDegree
    <3>2. /\ Dependent[o][j] \in Ops
          /\ <<o, j>> \in In(Dependent[o][j])
      BY <3>1, OutEdges
    <3>3. Owes(t, o, j)
      BY <1>2 DEF Signalling, Owes
    <3>4. <<o, j>> \in Unsignalled(Dependent[o][j])
      BY <3>2, <3>3 DEF Unsignalled, Signalled
    <3>5. QED
      BY <1>1, <3>2, <3>4 DEF IInv, AllSignalled
  <2>3. QED
    BY <2>1, <2>2
<1>3. QED
  BY <1>1, <1>2

(* A new round: every operation is one execution behind, with its full     *)
(* count of dependencies, and begin_op, which has none, runs.              *)
LEMMA SchedulePostIInv ==
  ASSUME IInv, [Next]_vars, SchedulePost
  PROVE  /\ IInv'
         /\ \A x \in Ops : Running(x)' <=> x = Begin
         /\ \A x \in Ops : ~Done(x)'
<1>1. /\ GoTo("app", Begin, "post")
      /\ round' = round + 1
      /\ apc = "idle" /\ apc' = "posting"
      /\ UNCHANGED <<version, dep_left, completed, pos, inflight, list>>
  BY DEF SchedulePost, Call
<1>2. /\ round \in Nat
      /\ \A o \in Ops : version[o] \in Nat
  BY BoundAssumption DEF IInv, ScheduleTypeOK, TypeOK
<1>3. \A o \in Ops : Done(o) /\ ~Running(o) /\ \A t \in Thread : ~Signalling(t, o)
  BY <1>1 DEF IInv, AtRest
<1>4. \A u \in Thread, x \in Ops :
         pc'[u][x] = IF u = "app" /\ x = Begin THEN "post" ELSE pc[u][x]
  BY <1>1, TypeGoTo, GraphAssumption DEF IInv, ScheduleTypeOK, PC, Thread
<1>5. \A o \in Ops : ~Done(o)' /\ version'[o] = round' - 1
  BY <1>1, <1>2, <1>3 DEF Done
<1>6. \A t \in Thread, o \in Ops : ~Signalling(t, o)'
  BY <1>1, <1>3, <1>4 DEF Signalling
<1>7. \A t \in Thread, o \in Ops : Posting(t, o)' => t = "app" /\ o = Begin
  BY <1>3, <1>4 DEF Posting, Running
<1>8. \A o \in Ops : o \notin inflight' /\ ~Listed(o)'
  BY <1>1, <1>3 DEF Running, Listed
<1>9. \A o \in Ops : Running(o)' <=> o = Begin
  <2>1. Posting("app", Begin)'
    BY <1>4, GraphAssumption DEF Posting, Thread
  <2>2. QED
    BY <1>7, <1>8, <2>1 DEF Running, Thread
<1>10. \A o \in Ops : Unsignalled(o)' = In(o)
  <2>1. ASSUME NEW o \in Ops, NEW e \in In(o)
        PROVE  ~Signalled(e)'
    BY <1>5, InEdges DEF Signalled
  <2>2. QED
    BY <2>1 DEF Unsignalled
<1>11. Versions' /\ RunningNotDone' /\ SignallingDone'
  BY <1>5, <1>6 DEF Versions, RunningNotDone, SignallingDone
<1>12. AllSignalled'
  BY <1>5, <1>9, <1>10, GraphAssumption DEF AllSignalled
<1>13. DepCountExact'
  BY <1>1, <1>3, <1>5, <1>10 DEF IInv, DepCountExact, in_dep_count
<1>14. OnePlace'
  BY <1>1, <1>6, <1>7, <1>8 DEF IInv, OnePlace, Thread
<1>15. EndFlag'
  BY <1>1 DEF IInv, EndFlag
<1>16. AtRest'
  BY <1>1 DEF AtRest
<1>17. QED
  BY <1>5, <1>9, <1>11, <1>12, <1>13, <1>14, <1>15, <1>16, TypeNext DEF IInv

(* What the other steps of the application leave alone. *)
LEMMA SameEngine ==
  ASSUME IInv, UNCHANGED <<version, dep_left, pc, pos, inflight, list, round>>
  PROVE  /\ \A x \in Ops : Done(x)' <=> Done(x)
         /\ \A x \in Ops : Running(x)' <=> Running(x)
         /\ \A u \in Thread, x \in Ops : Signalling(u, x)' <=> Signalling(u, x)
         /\ Versions' /\ RunningNotDone' /\ SignallingDone'
         /\ AllSignalled' /\ DepCountExact' /\ OnePlace'
<1>1. /\ \A x \in Ops : Done(x)' <=> Done(x)
      /\ \A x \in Ops : Listed(x)' <=> Listed(x)
      /\ \A u \in Thread, x \in Ops : /\ Posting(u, x)' <=> Posting(u, x)
                                      /\ Signalling(u, x)' <=> Signalling(u, x)
  BY DEF Done, Listed, Posting, Signalling
<1>2. \A x \in Ops : Running(x)' <=> Running(x)
  BY <1>1 DEF Running
<1>3. \A x \in Ops : Unsignalled(x)' = Unsignalled(x)
  BY <1>1, SameEdges DEF Owes
<1>4. Versions' /\ RunningNotDone' /\ SignallingDone' /\ AllSignalled'
  BY <1>1, <1>2, <1>3
     DEF IInv, Versions, RunningNotDone, SignallingDone, AllSignalled
<1>5. DepCountExact'
  BY <1>1, <1>3 DEF IInv, DepCountExact
<1>6. OnePlace'
  BY <1>1 DEF IInv, OnePlace, Thread
<1>7. QED
  BY <1>1, <1>2, <1>4, <1>5, <1>6

LEMMA ApplicationIInv ==
  ASSUME IInv, [Next]_vars, Application \/ UNCHANGED vars
  PROVE  IInv' /\ SameRun
<1>1. UNCHANGED <<version, dep_left, pc, pos, inflight, list, round>>
  BY DEF Application, PostReturns, WaitSees, WaitClears, vars, engine
<1>2. /\ \A x \in Ops : Done(x)' <=> Done(x)
      /\ \A x \in Ops : Running(x)' <=> Running(x)
      /\ \A u \in Thread, x \in Ops : Signalling(u, x)' <=> Signalling(u, x)
      /\ Versions' /\ RunningNotDone' /\ SignallingDone'
      /\ AllSignalled' /\ DepCountExact' /\ OnePlace'
  BY <1>1, SameEngine
<1>3. AtRest'
  <2>1. CASE WaitSees
    BY <1>2, <2>1, QuietEnd DEF WaitSees, AtRest
  <2>2. CASE PostReturns \/ WaitClears \/ UNCHANGED vars
    BY <1>2, <2>2 DEF PostReturns, WaitClears, vars, IInv, AtRest
  <2>3. QED
    BY <2>1, <2>2 DEF Application
<1>4. EndFlag'
  <2>1. CASE WaitClears
    BY <2>1, GraphAssumption
       DEF WaitClears, IInv, ScheduleTypeOK, TypeOK, EndFlag
  <2>2. CASE PostReturns \/ WaitSees \/ UNCHANGED vars
    BY <1>1, <1>2, <2>2, GraphAssumption
       DEF PostReturns, WaitSees, vars, engine, IInv, EndFlag
  <2>3. QED
    BY <2>1, <2>2 DEF Application
<1>5. QED
  BY <1>2, <1>3, <1>4, TypeNext DEF IInv, SameRun

-----------------------------------------------------------------------------
LEMMA InitIInv == Init => IInv
<1> SUFFICES ASSUME Init PROVE IInv
  OBVIOUS
<1>1. /\ round = 0 /\ apc = "idle"
      /\ \A o \in Ops : /\ version[o] = 0
                        /\ completed[o] = 0
                        /\ dep_left[o] = in_dep_count(o)
      /\ \A t \in Thread, o \in Ops : pc[t][o] = "out"
      /\ inflight = {}
      /\ list = <<>>
  BY DEF Init, InitEngine
<1>2. \A o \in Ops : Done(o) /\ ~Running(o)
  BY <1>1 DEF Done, Running, Posting, Listed
<1>3. \A t \in Thread, o \in Ops : ~Signalling(t, o) /\ ~Posting(t, o)
  BY <1>1 DEF Signalling, Posting
<1>4. \A o \in Ops : Unsignalled(o) = {}
  <2>1. ASSUME NEW o \in Ops, NEW e \in In(o)
        PROVE  Signalled(e)
    BY <1>1, <1>2, InEdges DEF Signalled, Owes
  <2>2. QED
    BY <2>1 DEF Unsignalled
<1>5. Versions /\ RunningNotDone /\ SignallingDone /\ AllSignalled
  BY <1>1, <1>2, <1>3, <1>4
     DEF Versions, RunningNotDone, SignallingDone, AllSignalled
<1>6. DepCountExact /\ OnePlace
  BY <1>1, <1>2, <1>3 DEF DepCountExact, OnePlace, Thread
<1>7. EndFlag /\ AtRest
  BY <1>1, <1>2, <1>3, GraphAssumption DEF EndFlag, AtRest
<1>8. QED
  BY <1>5, <1>6, <1>7, TypeInit DEF IInv

LEMMA NextIInv ==
  ASSUME DepOr = {}, IInv, [Next]_vars
  PROVE  IInv'
<1>1. CASE SchedulePost
  BY <1>1, SchedulePostIInv
<1>2. CASE Application \/ UNCHANGED vars
  BY <1>2, ApplicationIInv
<1>3. CASE \E t \in Thread : ThreadStep(t)
  <2>1. PICK t \in Thread, o \in Ops : CallStep(t, o) /\ UNCHANGED <<apc, round>>
    BY <1>3 DEF ThreadStep
  <2>2. QED
    BY <2>1, DropIInv, PostIInv, AsyncIInv, ReturnIInv, RestoreIInv,
       PublishIInv, SignalIInv DEF CallStep
<1>4. CASE \E S \in SUBSET inflight : Report(S)
  BY <1>4, ReportIInv
<1>5. CASE TakeReady
  BY <1>5, TakeIInv
<1>6. QED
  BY <1>1, <1>2, <1>3, <1>4, <1>5 DEF Next, Stopped

LEMMA Invariance ==
  ASSUME DepOr = {}
  PROVE  Spec => []IInv
BY InitIInv, NextIInv, PTL DEF Spec

-----------------------------------------------------------------------------
(* dep_left always counts the dependencies of the present round that are   *)
(* not signalled, although both threads write it with no lock.             *)
THEOREM DependenciesCounted ==
  ASSUME DepOr = {}
  PROVE  Spec => []DepCountExact
BY Invariance, PTL DEF IInv

(* Every operation is posted once and completed once per round: the        *)
(* threads never work on it together.                                      *)
THEOREM PostedOnce ==
  ASSUME DepOr = {}
  PROVE  Spec => []OnePlace
BY Invariance, PTL DEF IInv

(* ffschedule_wait returns only when the whole graph has run and nothing   *)
(* of the round is left that the next one could meet.                      *)
THEOREM WaitMeansAll ==
  ASSUME DepOr = {}
  PROVE  Spec => []AtRest
BY Invariance, PTL DEF IInv

-----------------------------------------------------------------------------
(* No trigger is lost.  Only a turn of the loop over the dependents makes  *)
(* an edge signalled that was not, ...                                     *)
LEMMA OnlySignals ==
  ASSUME IInv, NEW t \in Thread, NEW o \in Ops, CallStep(t, o), ~Signal(t, o),
         UNCHANGED <<apc, round>>, NEW x \in Ops, Unsignalled(x)' = {}
  PROVE  Unsignalled(x) = {}
<1>1. /\ \E p \in PC : GoTo(t, o, p)
      /\ \A y \in Ops : y # o => version'[y] = version[y]
      /\ \A u \in Thread, y \in Ops : ~(u = t /\ y = o) => pos'[u][y] = pos[u][y]
  <2>1. \E p \in PC : GoTo(t, o, p)
    <3>1. \/ GoTo(t, o, "out") \/ GoTo(t, o, "issue") \/ GoTo(t, o, "restore")
          \/ GoTo(t, o, "publish") \/ GoTo(t, o, "signal")
      BY DEF CallStep, PostRefused, PostResets, IssueImmediate, IssueAsync,
         IssueFails, Restore, Publish, CompleteReturns, Return
    <3>2. QED
      BY <3>1 DEF PC
  <2>2. version' = version \/ version' = [version EXCEPT ![o] = @ + 1]
    BY DEF CallStep, PostRefused, PostResets, IssueImmediate, IssueAsync,
       IssueFails, Restore, Publish, CompleteReturns
  <2>3. pos' = pos \/ pos' = [pos EXCEPT ![t][o] = 1]
    BY DEF CallStep, PostRefused, PostResets, IssueImmediate, IssueAsync,
       IssueFails, Restore, Publish, CompleteReturns
  <2>4. \A y \in Ops : y # o => version'[y] = version[y]
    BY <2>2 DEF IInv, ScheduleTypeOK, TypeOK
  <2>5. \A u \in Thread, y \in Ops : ~(u = t /\ y = o) => pos'[u][y] = pos[u][y]
    BY <2>3 DEF IInv, ScheduleTypeOK, TypeOK
  <2>6. QED
    BY <2>1, <2>4, <2>5
<1>2. \A u \in Thread, y \in Ops : ~(u = t /\ y = o) => pc'[u][y] = pc[u][y]
  BY <1>1, TypeGoTo DEF IInv, ScheduleTypeOK
<1>3. \/ Restore(t, o) /\ GoTo(t, o, "publish")
      \/ version' = version
  BY DEF CallStep, PostRefused, PostResets, IssueImmediate, IssueAsync, IssueFails,
         Restore, Publish, CompleteReturns
<1>4. ASSUME NEW e \in In(x), ~Signalled(e)
      PROVE  ~Signalled(e)'
  <2>1. e[1] \in Ops /\ e[2] \in 1 .. Len(Dependent[e[1]])
    BY InEdges
  <2>2. CASE e[1] # o
    BY <1>1, <1>2, <1>4, <2>1, <2>2 DEF Signalled, Done, Owes
  <2>3. CASE e[1] = o /\ ~Done(o)
    <3>1. CASE version' = version
      BY <2>3, <3>1 DEF Signalled, Done
    <3>2. CASE GoTo(t, o, "publish")
      <4>1. pc'[t][o] = "publish"
        BY <3>2, TypeGoTo DEF IInv, ScheduleTypeOK, PC
      <4>2. QED
        BY <2>3, <4>1 DEF Signalled, Owes
    <3>3. QED
      BY <1>3, <3>1, <3>2
  <2>4. CASE e[1] = o /\ Done(o)
    <3>1. PICK u \in Thread : Owes(u, o, e[2])
      BY <1>4, <2>4 DEF Signalled
    <3>2. CASE u # t
      BY <1>1, <1>2, <2>4, <3>1, <3>2 DEF Signalled, Owes
    <3>3. CASE u = t
      <4>1. CASE pc[t][o] = "publish"
        <5>1. Publish(t, o)
          BY <4>1 DEF CallStep, PostRefused, PostResets, IssueImmediate, IssueAsync,
             IssueFails, Restore, CompleteReturns, At
        <5>2. GoTo(t, o, "signal") /\ pos'[t][o] = 1
          BY <5>1 DEF Publish, IInv, ScheduleTypeOK, TypeOK
        <5>3. pc'[t][o] = "signal"
          BY <5>2, TypeGoTo DEF IInv, ScheduleTypeOK, PC
        <5>4. Owes(t, o, e[2])'
          BY <2>1, <2>4, <5>2, <5>3 DEF Owes
        <5>5. QED
          BY <2>4, <5>4 DEF Signalled
      <4>2. CASE pc[t][o] # "publish"
        <5>1. pc[t][o] = "signal" /\ pos[t][o] <= e[2]
          BY <3>1, <3>3, <4>2 DEF Owes
        <5>2. pos[t][o] > Len(Dependent[o])
          BY <5>1 DEF CallStep, PostRefused, PostResets, IssueImmediate, IssueAsync,
             IssueFails, Restore, Publish, CompleteReturns, At
        <5>3. QED
          BY <2>1, <2>4, <5>1, <5>2, OutDegree DEF IInv, ScheduleTypeOK, TypeOK
      <4>3. QED
        BY <4>1, <4>2
    <3>4. QED
      BY <3>2, <3>3
  <2>5. QED
    BY <2>2, <2>3, <2>4
<1>5. QED
  BY <1>4 DEF Unsignalled

(* ... and the one that makes the last edge so posts the operation.        *)
LEMMA TriggersKept ==
  ASSUME DepOr = {}, NonPersistent = {}, IInv, NoLostTrigger, [Next]_vars
  PROVE  NoLostTrigger'
<1>1. SUFFICES ASSUME NEW x \in Ops \ MayFail, In(x) # {}, Unsignalled(x)' = {},
                      apc' # "idle"
               PROVE  Running(x)' \/ Done(x)'
  BY DEF NoLostTrigger
<1>2. ASSUME Unsignalled(x) = {}, apc # "idle" PROVE Running(x) \/ Done(x)
  BY <1>1, <1>2 DEF NoLostTrigger
<1>3. CASE SchedulePost
  <2>1. PICK e \in In(x) : TRUE
    BY <1>1
  <2>2. e[1] \in Ops /\ ~Done(e[1])'
    BY <1>3, <2>1, InEdges, SchedulePostIInv
  <2>3. QED
    BY <1>1, <2>1, <2>2 DEF Unsignalled, Signalled
<1>4. CASE Application \/ UNCHANGED vars
  <2>1. SameRun /\ apc # "idle"
    BY <1>1, <1>4, ApplicationIInv
       DEF Application, PostReturns, WaitSees, WaitClears, vars
  <2>2. UNCHANGED <<version, pc, pos, round>>
    BY <1>4 DEF Application, PostReturns, WaitSees, WaitClears, vars, engine
  <2>3. Unsignalled(x) = {}
    BY <1>1, <2>2, SameEdges DEF Done, Owes
  <2>4. QED
    BY <1>2, <2>1, <2>3 DEF SameRun
<1>5. CASE \E t \in Thread : ThreadStep(t)
  <2>1. PICK t \in Thread, o \in Ops : CallStep(t, o) /\ UNCHANGED <<apc, round>>
    BY <1>5 DEF ThreadStep
  <2>2. CASE Signal(t, o)
    <3>1. \A y \in Ops : (Running(y) => Running(y)') /\ (Done(y) => Done(y)')
      BY <2>1, <2>2, SignalIInv DEF SameRun
    <3>2. Unsignalled(x) = {} \/ Running(x)'
      BY <1>1, <2>1, <2>2, SignalIInv
    <3>3. QED
      BY <1>1, <1>2, <2>1, <3>1, <3>2
  <2>3. CASE ~Signal(t, o)
    <3>1. Running(x) \/ Done(x)
      BY <1>1, <1>2, <2>1, <2>3, OnlySignals
    <3>2. CASE PostRefused(t, o) \/ IssueFails(t, o)
      <4>1. x # o
        BY <1>1, <3>2 DEF PostRefused, IssueFails
      <4>2. QED
        BY <2>1, <3>1, <3>2, <4>1, DropIInv
    <3>3. CASE Restore(t, o)
      BY <2>1, <3>1, <3>3, RestoreIInv
    <3>4. CASE \/ PostResets(t, o) \/ IssueImmediate(t, o) \/ IssueAsync(t, o)
               \/ Publish(t, o) \/ CompleteReturns(t, o)
      <4>1. SameRun
        BY <2>1, <3>4, PostIInv, AsyncIInv, PublishIInv, ReturnIInv
      <4>2. QED
        BY <3>1, <4>1 DEF SameRun
    <3>5. QED
      BY <2>1, <2>3, <3>2, <3>3, <3>4 DEF CallStep
  <2>4. QED
    BY <2>2, <2>3
<1>6. CASE \E S \in SUBSET inflight : Report(S)
  <2>1. SameRun
    BY <1>6, ReportIInv
  <2>2. UNCHANGED <<version, pc, pos, apc, round>>
    BY <1>6 DEF Report, Poll
  <2>3. Unsignalled(x) = {}
    BY <1>1, <2>2, SameEdges DEF Done, Owes
  <2>4. QED
    BY <1>1, <1>2, <2>1, <2>2, <2>3 DEF SameRun
<1>7. CASE TakeReady
  <2> DEFINE o == Head(list)
  <2>1. SameRun
    BY <1>7, TakeIInv
  <2>2. o \in Ops /\ Running(o) /\ ~Done(o)
    <3>1. /\ o \in Ops /\ 1 \in DOMAIN list /\ list[1] = o
      BY <1>7 DEF TakeReady, Take, IInv, ScheduleTypeOK, TypeOK
    <3>2. QED
      BY <3>1 DEF Running, Listed, IInv, RunningNotDone
  <2>3. /\ GoTo("prog", o, "restore")
        /\ UNCHANGED <<version, pos, apc, round>>
    BY <1>7 DEF TakeReady, Take, Call
  <2>4. \A u \in Thread, y \in Ops : y # o => pc'[u][y] = pc[u][y]
    BY <2>2, <2>3, TypeGoTo DEF IInv, ScheduleTypeOK, PC, Thread
  <2>5. ASSUME NEW e \in In(x), ~Signalled(e) PROVE ~Signalled(e)'
    <3>1. e[1] \in Ops
      BY InEdges
    <3>2. CASE e[1] = o
      BY <2>2, <2>3, <3>2 DEF Signalled, Done
    <3>3. CASE e[1] # o
      BY <2>3, <2>4, <2>5, <3>1, <3>3 DEF Signalled, Done, Owes
    <3>4. QED
      BY <3>2, <3>3
  <2>6. Unsignalled(x) = {}
    BY <1>1, <2>5 DEF Unsignalled
  <2>7. QED
    BY <1>1, <1>2, <2>1, <2>3, <2>6 DEF SameRun
<1>8. QED
  BY <1>3, <1>4, <1>5, <1>6, <1>7 DEF Next, Stopped

(* An operation whose dependencies have all been signalled has been posted *)
(* by one of the two threads, unless its post may fail.  (What comes after *)
(* an operation that runs once is never triggered, ffop.c:203.)            *)
THEOREM EveryTriggerFires ==
  ASSUME DepOr = {}, NonPersistent = {}
  PROVE  Spec => []NoLostTrigger
<1>1. Init => NoLostTrigger
  BY DEF Init, NoLostTrigger
<1>2. IInv /\ NoLostTrigger /\ [Next]_vars => NoLostTrigger'
  BY TriggersKept
<1>3. QED
  BY <1>1, <1>2, Invariance, PTL DEF Spec

-----------------------------------------------------------------------------
(* An operation of FFOP_NON_PERSISTENT that has completed is nowhere on    *)
(* its way to completing again: it can only be refused.                    *)
Ahead(o) == \/ \E t \in Thread : pc[t][o] \in {"issue", "restore"}
            \/ o \in inflight \/ Listed(o)
OnceInv == \A o \in NonPersistent : /\ version[o] \in {0, 1}
                                    /\ Ahead(o) => version[o] = 0

LEMMA OnceCallStep ==
  ASSUME IInv, OnceInv, NEW t \in Thread, NEW o \in Ops, CallStep(t, o)
  PROVE  OnceInv'
<1> SUFFICES ASSUME NEW x \in NonPersistent
             PROVE  version'[x] \in {0, 1} /\ (Ahead(x)' => version'[x] = 0)
  BY DEF OnceInv
<1> USE DEF PC
<1>1. /\ x \in Ops /\ TypeOK /\ version[x] \in {0, 1} /\ (Ahead(x) => version[x] = 0)
      /\ list' = list
  BY OptionsAssumption DEF OnceInv, IInv, ScheduleTypeOK, CallStep, PostRefused, PostResets,
     IssueImmediate, IssueAsync, IssueFails, Restore, Publish, Signal, CompleteReturns
<1>2. Listed(x)' <=> Listed(x)
  BY <1>1 DEF Listed
<1>3. CASE PostResets(t, o)
  <2>1. /\ x = o => version[x] = 0
        /\ UNCHANGED <<version, inflight>>
    BY <1>1, <1>3 DEF PostResets
  <2>2. \A u \in Thread : u # t \/ x # o => pc'[u][x] = pc[u][x]
    BY <1>1, <1>3, TypeGoTo DEF PostResets
  <2>3. QED
    BY <1>1, <1>2, <2>1, <2>2 DEF Ahead
<1>4. CASE Restore(t, o)
  <2>1. /\ At(t, o, "restore") /\ GoTo(t, o, "publish") /\ inflight' = inflight
        /\ version' = [version EXCEPT ![o] = @ + 1]
    BY <1>4 DEF Restore
  <2>2. /\ pc'[t][o] = "publish"
        /\ \A u \in Thread : u # t \/ x # o => pc'[u][x] = pc[u][x]
    BY <1>1, <2>1, TypeGoTo
  <2>3. CASE x = o
    <3>1. pc[t][o] = "restore" /\ version[x] = 0
      BY <1>1, <2>1, <2>3 DEF At, Ahead
    <3>2. o \notin inflight /\ ~Listed(o) /\ \A u \in Thread : u # t => ~Posting(u, o)
      BY <3>1 DEF IInv, OnePlace, Posting, Thread
    <3>3. ~Ahead(x)'
      BY <1>2, <2>1, <2>2, <2>3, <3>2 DEF Ahead, Posting
    <3>4. version'[x] = 1
      BY <1>1, <2>1, <2>3, <3>1 DEF TypeOK
    <3>5. QED
      BY <3>3, <3>4
  <2>4. CASE x # o
    <3>1. version'[x] = version[x]
      BY <1>1, <2>1, <2>4 DEF TypeOK
    <3>2. Ahead(x)' <=> Ahead(x)
      BY <1>2, <2>1, <2>2, <2>4 DEF Ahead
    <3>3. QED
      BY <1>1, <3>1, <3>2
  <2>5. QED
    BY <2>3, <2>4
<1>5. CASE Signal(t, o)
  <2> DEFINE d == Dependent[o][pos[t][o]]
  <2>1. d \in Ops
    <3>1. pos[t][o] \in 1 .. Len(Dependent[o])
      BY <1>1, <1>5, OutDegree DEF Signal, TypeOK
    <3>2. QED
      BY <3>1, OutEdges
  <2>2. UNCHANGED <<version, inflight>> /\ (GoTo(t, d, "post") \/ pc' = pc)
    BY <1>5 DEF Signal, Call
  <2>3. \A u \in Thread : pc'[u][x] \in {pc[u][x], "post"}
    BY <1>1, <2>1, <2>2, TypeGoTo
  <2>4. QED
    BY <1>1, <1>2, <2>2, <2>3 DEF Ahead
<1>6. CASE IssueAsync(t, o)
  <2>1. /\ pc[t][o] = "issue" /\ inflight' = inflight \cup {o} /\ version' = version
        /\ GoTo(t, o, "out")
    BY <1>6 DEF IssueAsync, At, Return
  <2>2. \A u \in Thread : pc'[u][x] \in {pc[u][x], "out"}
    BY <1>1, <2>1, TypeGoTo
  <2>3. Ahead(x)' => Ahead(x)
    BY <1>1, <1>2, <2>1, <2>2 DEF Ahead
  <2>4. QED
    BY <1>1, <2>1, <2>3
<1>7. CASE IssueImmediate(t, o)
  <2>1. /\ pc[t][o] = "issue" /\ UNCHANGED <<version, inflight>>
        /\ GoTo(t, o, "restore")
    BY <1>7 DEF IssueImmediate, At
  <2>2. \A u \in Thread : u # t \/ x # o => pc'[u][x] = pc[u][x]
    BY <1>1, <2>1, TypeGoTo
  <2>3. Ahead(x)' => Ahead(x)
    BY <1>1, <1>2, <2>1, <2>2 DEF Ahead
  <2>4. QED
    BY <1>1, <2>1, <2>3
<1>8. CASE PostRefused(t, o) \/ IssueFails(t, o) \/ Publish(t, o) \/ CompleteReturns(t, o)
  <2>1. /\ UNCHANGED <<version, inflight>>
        /\ GoTo(t, o, "out") \/ GoTo(t, o, "signal")
    BY <1>8 DEF PostRefused, IssueFails, Publish, CompleteReturns, Return
  <2>2. \A u \in Thread : pc'[u][x] \in {pc[u][x], "out", "signal"}
    BY <1>1, <2>1, TypeGoTo
  <2>3. Ahead(x)' => Ahead(x)
    BY <1>2, <2>1, <2>2 DEF Ahead
  <2>4. QED
    BY <1>1, <2>1, <2>3
<1>9. QED
  BY <1>3, <1>4, <1>5, <1>6, <1>7, <1>8 DEF CallStep

LEMMA OnceKept ==
  ASSUME IInv, OnceInv, [Next]_vars
  PROVE  OnceInv'
<1>1. CASE \E t \in Thread : ThreadStep(t)
  BY <1>1, OnceCallStep DEF ThreadStep
<1>2. CASE SchedulePost
  <2>1. UNCHANGED <<version, inflight, list>> /\ GoTo("app", Begin, "post")
    BY <1>2 DEF SchedulePost, Call
  <2>2. \A u \in Thread, x \in Ops : pc'[u][x] \in {pc[u][x], "post"}
    BY <2>1, TypeGoTo, GraphAssumption DEF IInv, ScheduleTypeOK, Thread, PC
  <2>3. \A x \in NonPersistent : Ahead(x)' => Ahead(x)
    BY <2>1, <2>2, OptionsAssumption DEF Ahead, Listed
  <2>4. QED
    BY <2>1, <2>3 DEF OnceInv
<1>3. CASE Application \/ UNCHANGED vars
  <2>1. UNCHANGED <<version, inflight, list, pc>>
    BY <1>3 DEF Application, PostReturns, WaitSees, WaitClears, vars, engine
  <2>2. QED
    BY <2>1 DEF OnceInv, Ahead, Listed
<1>4. ASSUME NEW S \in SUBSET inflight, Report(S) PROVE OnceInv'
  <2>1. UNCHANGED <<version, pc>> /\ inflight' = inflight \ S
    BY <1>4 DEF Report, Poll
  <2>2. \A k \in DOMAIN list' : list'[k] \in S
    BY <1>4, PollOrder DEF Report, IInv, ScheduleTypeOK
  <2>3. \A x \in NonPersistent : Ahead(x)' => Ahead(x)
    BY <2>1, <2>2 DEF Ahead, Listed
  <2>4. QED
    BY <2>1, <2>3 DEF OnceInv
<1>5. CASE TakeReady
  <2>1. /\ UNCHANGED <<version, inflight>> /\ GoTo("prog", Head(list), "restore")
        /\ list # <<>> /\ list' = Tail(list) /\ list \in Seq(Ops)
    BY <1>5 DEF TakeReady, Take, Call, IInv, ScheduleTypeOK, TypeOK
  <2>2. \A k \in DOMAIN list' : k + 1 \in DOMAIN list /\ list'[k] = list[k + 1]
    BY <2>1, HeadTailProperties, LenProperties
  <2>3. 1 \in DOMAIN list /\ Head(list) = list[1] /\ Head(list) \in Ops
    BY <2>1, HeadTailProperties, LenProperties, EmptySeq
  <2>4. \A u \in Thread, x \in Ops : x # Head(list) => pc'[u][x] = pc[u][x]
    BY <2>1, <2>3, TypeGoTo DEF IInv, ScheduleTypeOK, Thread, PC
  <2>5. \A x \in NonPersistent : Ahead(x)' => Ahead(x)
    BY <2>1, <2>2, <2>3, <2>4, OptionsAssumption DEF Ahead, Listed
  <2>6. QED
    BY <2>1, <2>5 DEF OnceInv
<1>6. QED
  BY <1>1, <1>2, <1>3, <1>4, <1>5 DEF Next, Stopped

(* ffop_post refuses an operation of FFOP_NON_PERSISTENT that has run      *)
(* (ffop.c:62-65), and none that was on its way when it was posted again   *)
(* runs a second time.                                                     *)
THEOREM NonPersistentOnce ==
  ASSUME DepOr = {}
  PROVE  Spec => []RunsOnce
<1>1. Init => OnceInv
  BY OptionsAssumption, EmptySeq DEF Init, InitEngine, OnceInv, Ahead, Listed
<1>2. IInv /\ OnceInv /\ [Next]_vars => OnceInv'
  BY OnceKept
<1>3. OnceInv => RunsOnce
  BY DEF OnceInv, RunsOnce
<1>4. QED
  BY <1>1, <1>2, <1>3, Invariance, PTL DEF Spec

-----------------------------------------------------------------------------
(* The engine implements the graph. *)
RunningOps == {o \in Ops : Running(o)}
DoneOps == {o \in Ops : Done(o)}

LEMMA SameRunStutters ==
  ASSUME SameRun, (apc' # "idle") <=> (apc # "idle")
  PROVE  UNCHANGED <<apc # "idle", RunningOps, DoneOps>>
BY DEF SameRun, RunningOps, DoneOps

LEMMA InitRefines == Init => Dag!Init
<1> SUFFICES ASSUME Init PROVE Dag!Init
  OBVIOUS
<1>1. IInv
  BY InitIInv
<1>2. apc = "idle"
  BY DEF Init
<1>3. \A o \in Ops : Done(o) /\ ~Running(o)
  BY <1>1, <1>2 DEF IInv, AtRest
<1>4. QED
  BY <1>2, <1>3 DEF Dag!Init

LEMMA StepRefines ==
  ASSUME DepOr = {}, IInv, [Next]_vars
  PROVE  [Dag!Next]_<<apc # "idle", RunningOps, DoneOps>>
<1>1. CASE SchedulePost
  <2>1. /\ RunningOps' = {Begin}
        /\ DoneOps' = {}
    BY <1>1, SchedulePostIInv, GraphAssumption DEF RunningOps, DoneOps
  <2>2. Dag!Start
    BY <1>1, <2>1 DEF Dag!Start, SchedulePost, RunningOps, DoneOps
  <2>3. QED
    BY <2>2 DEF Dag!Next
<1>2. CASE PostReturns \/ WaitSees \/ UNCHANGED vars
  <2>1. SameRun
    BY <1>2, ApplicationIInv DEF Application
  <2>2. (apc' # "idle") <=> (apc # "idle")
    BY <1>2 DEF PostReturns, WaitSees, vars
  <2>3. QED
    BY <2>1, <2>2, SameRunStutters
<1>3. CASE WaitClears
  <2>1. SameRun
    BY <1>3, ApplicationIInv DEF Application
  <2>2. RunningOps' = RunningOps /\ DoneOps' = DoneOps
    BY <2>1 DEF SameRun, RunningOps, DoneOps
  <2>3. RunningOps = {} /\ DoneOps = Ops
    BY <1>3 DEF WaitClears, IInv, AtRest, RunningOps, DoneOps
  <2>4. Dag!Finish
    BY <1>3, <2>2, <2>3 DEF Dag!Finish, WaitClears, RunningOps, DoneOps
  <2>5. QED
    BY <2>4 DEF Dag!Next
<1>4. CASE \E t \in Thread : ThreadStep(t)
  <2>1. PICK t \in Thread, o \in Ops : CallStep(t, o) /\ UNCHANGED <<apc, round>>
    BY <1>4 DEF ThreadStep
  <2>2. CASE PostRefused(t, o) \/ IssueFails(t, o)
    <3>1. /\ RunningOps' = RunningOps \ {o}
          /\ DoneOps' = DoneOps
          /\ o \in RunningOps
      BY <2>1, <2>2, DropIInv DEF RunningOps, DoneOps
    <3>2. o \in MayFail \cup NonPersistent
      BY <2>2 DEF PostRefused, IssueFails
    <3>3. Dag!Fail(o)
      BY <2>1, <3>1, <3>2 DEF Dag!Fail, RunningOps, DoneOps
    <3>4. QED
      BY <3>3 DEF Dag!Next
  <2>3. CASE Restore(t, o)
    <3>1. /\ RunningOps' = RunningOps \ {o}
          /\ DoneOps' = DoneOps \cup {o}
          /\ o \in RunningOps
      BY <2>1, <2>3, RestoreIInv DEF RunningOps, DoneOps
    <3>2. Dag!Complete(o)
      BY <2>1, <3>1 DEF Dag!Complete, RunningOps, DoneOps
    <3>3. QED
      BY <3>2 DEF Dag!Next
  <2>4. CASE Signal(t, o)
    <3>1. CASE SameRun
      BY <2>1, <3>1, SameRunStutters
    <3>2. CASE ~SameRun
      <4>1. PICK d \in Ops :
               /\ \A x \in Ops : Running(x)' <=> Running(x) \/ x = d
               /\ \A x \in Ops : Done(x)' <=> Done(x)
               /\ ~Running(d) /\ ~Done(d)
               /\ \A e \in In(d) : Done(e[1])'
        BY <2>1, <2>4, <3>2, SignalIInv
      <4>2. /\ RunningOps' = RunningOps \cup {d}
            /\ DoneOps' = DoneOps
            /\ d \notin RunningOps \cup DoneOps
        BY <4>1 DEF RunningOps, DoneOps
      <4>3. {e[1] : e \in In(d)} \subseteq DoneOps
        BY <4>1, InEdges DEF DoneOps
      <4>4. apc # "idle"
        <5>1. IInv'
          BY <2>1, <2>4, SignalIInv
        <5>2. Running(d)'
          BY <4>1
        <5>3. QED
          BY <2>1, <5>1, <5>2 DEF IInv, AtRest
      <4>5. Dag!Launch(d)
        BY <2>1, <4>2, <4>3, <4>4 DEF Dag!Launch, RunningOps, DoneOps
      <4>6. QED
        BY <4>5 DEF Dag!Next
    <3>3. QED
      BY <3>1, <3>2
  <2>5. CASE \/ PostResets(t, o) \/ IssueImmediate(t, o) \/ IssueAsync(t, o)
             \/ Publish(t, o) \/ CompleteReturns(t, o)
    <3>1. SameRun
      BY <2>1, <2>5, PostIInv, AsyncIInv, PublishIInv, ReturnIInv
    <3>2. QED
      BY <2>1, <3>1, SameRunStutters
  <2>6. QED
    BY <2>1, <2>2, <2>3, <2>4, <2>5 DEF CallStep
<1>5. CASE \E S \in SUBSET inflight : Report(S)
  <2>1. SameRun
    BY <1>5, ReportIInv
  <2>2. QED
    BY <1>5, <2>1, SameRunStutters DEF Report
<1>6. CASE TakeReady
  BY <1>6, TakeIInv, SameRunStutters DEF TakeReady
<1>7. QED
  BY <1>1, <1>2, <1>3, <1>4, <1>5, <1>6 DEF Next, Application, Stopped

(* The two threads, with their recursive calls and the counters they share *)
(* without a lock, run the dependency graph of FFDag, round after round.   *)
THEOREM Refinement ==
  ASSUME DepOr = {}
  PROVE  Spec => DagSpec
BY InitRefines, StepRefines, Invariance, PTL
   DEF Spec, DagSpec, Dag!Spec, Dag!dagVars, RunningOps, DoneOps
=============================================================================
