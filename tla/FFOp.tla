-------------------------------- MODULE FFOp --------------------------------
(***************************************************************************)
(* The operation engine: ffop_post and ffop_complete of src/ffop.c, which  *)
(* call each other down the dependency graph, run by the two threads of a  *)
(* process.  The application's thread enters at ffop_post, the progress    *)
(* thread (src/ffprogress.c) at ffop_complete, for each operation that MPI *)
(* reports.  Nothing locks an operation: a step below is one access to a   *)
(* shared field, or several that no other thread can tell apart.           *)
(*                                                                         *)
(* The graph is the one ffop_hb has built; FFScheduleBuild builds it.      *)
(***************************************************************************)
EXTENDS Integers, Sequences, FiniteSets

CONSTANTS
  Ops,            \* the operations of the process
  Dependent,      \* Dependent[o]: op->dependent, the successors of o in order
  Immediate,      \* nops and computations: they end inside their post
  MayFail,        \* operations whose post may return an error
  NonPersistent,  \* operations with the option FFOP_NON_PERSISTENT
  DepOr,          \* operations with the option FFOP_DEP_OR
  MaxDeps,        \* MAX_DEPS, the length of op->dependent
  UIntMod,        \* 2^32: dep_left is a uint32_t
  NoOp            \* for ret: no post has returned yet

ASSUME OpsAssumption == IsFiniteSet(Ops)
ASSUME MaxDepsAssumption == MaxDeps \in Nat
ASSUME DependentAssumption ==
  /\ Dependent \in [Ops -> Seq(Ops)]
  /\ \A o \in Ops : Len(Dependent[o]) <= MaxDeps
ASSUME OptionsAssumption == NonPersistent \subseteq Ops /\ DepOr \subseteq Ops
ASSUME UIntAssumption == UIntMod \in Nat \ {0}

VARIABLES
  version,    \* op->version: how many times it has completed
  dep_left,   \* op->instance.dep_left
  completed,  \* op->instance.completed
  stack,      \* per thread, the operations being posted or completed, the
              \* innermost call first
  pc,         \* per thread, how far each of these calls is
  pos,        \* per thread and operation, the loop variable i of
              \* ffop_complete, from 1
  inflight,   \* operations handed to MPI and not reported yet
  list,       \* the rest of the progress thread's ready list
  ret         \* what the application's call of ffop_post returned

engine == <<version, dep_left, completed, stack, pc, pos, inflight, list, ret>>

Thread == {"app", "prog"}
Result == {"FFSUCCESS", "FFCOMPLETED", "FFINVALID_ARG", "FFERROR"}
PC == {"out", "post", "issue", "restore", "publish", "signal"}

(* The dependencies of o, as places in the arrays of its predecessors. *)
In(o) == {e \in Ops \X (1 .. MaxDeps) :
            e[2] <= Len(Dependent[e[1]]) /\ Dependent[e[1]][e[2]] = o}
in_dep_count(o) == Cardinality(In(o))

TypeOK == /\ version \in [Ops -> Nat]
          /\ dep_left \in [Ops -> 0 .. UIntMod - 1]
          /\ completed \in [Ops -> Nat]
          /\ stack \in [Thread -> Seq(Ops)]
          /\ pc \in [Thread -> [Ops -> PC]]
          /\ pos \in [Thread -> [Ops -> Nat \ {0}]]
          /\ inflight \subseteq Ops
          /\ list \in Seq(Ops)
          /\ ret \in Result \cup {NoOp}

(* ffop_create, then ffop_hb for every dependency. *)
InitEngine == /\ version = [o \in Ops |-> 0]
              /\ dep_left = [o \in Ops |-> in_dep_count(o)]
              /\ completed = [o \in Ops |-> 0]
              /\ stack = [t \in Thread |-> <<>>]
              /\ pc = [t \in Thread |-> [o \in Ops |-> "out"]]
              /\ pos = [t \in Thread |-> [o \in Ops |-> 1]]
              /\ inflight = {}
              /\ list = <<>>
              /\ ret = NoOp

-----------------------------------------------------------------------------
(* Calls.  The graph has no cycle, so an operation is on a thread's stack  *)
(* at most once and its program counter can be kept by operation.          *)
At(t, o, p) == stack[t] # <<>> /\ o = Head(stack[t]) /\ pc[t][o] = p
GoTo(t, o, p) == pc' = [pc EXCEPT ![t][o] = p]
Call(t, o, p) == /\ stack' = [stack EXCEPT ![t] = <<o>> \o @]
                 /\ GoTo(t, o, p)

(* Only the outermost result reaches a caller that looks at it: that of a  *)
(* post made by ffop_complete is dropped (ffop.c:207).                     *)
Return(t, o, result) ==
  /\ stack' = [stack EXCEPT ![t] = Tail(@)]
  /\ GoTo(t, o, "out")
  /\ ret' = IF t = "app" /\ Len(stack[t]) = 1 THEN result ELSE ret

Minus1(n) == IF n = 0 THEN UIntMod - 1 ELSE n - 1

-----------------------------------------------------------------------------
(* ffop_post *)

(* A non-persistent operation is not posted again. *)
PostRefused(t, o) ==
  /\ At(t, o, "post")
  /\ version[o] > 0 /\ o \in NonPersistent
  /\ Return(t, o, "FFINVALID_ARG")
  /\ UNCHANGED <<version, dep_left, completed, pos, inflight, list>>

(* A post that lets a non-persistent operation run again. *)
PostResetsAlways(t, o) ==
  /\ At(t, o, "post")
  /\ completed' = [completed EXCEPT ![o] = 0]
  /\ GoTo(t, o, "issue")
  /\ UNCHANGED <<version, dep_left, stack, pos, inflight, list, ret>>

(* completed is reset for the new execution. *)
PostResets(t, o) ==
  /\ At(t, o, "post")
  /\ ~(version[o] > 0 /\ o \in NonPersistent)
  /\ completed' = [completed EXCEPT ![o] = 0]
  /\ GoTo(t, o, "issue")
  /\ UNCHANGED <<version, dep_left, stack, pos, inflight, list, ret>>

(* The post of a nop or of a computation returns FFCOMPLETED. *)
IssueImmediate(t, o) ==
  /\ At(t, o, "issue")
  /\ o \in Immediate
  /\ GoTo(t, o, "restore")
  /\ UNCHANGED <<version, dep_left, completed, stack, pos, inflight, list, ret>>

(* The post of a send or a receive starts it and returns FFSUCCESS. *)
IssueAsync(t, o) ==
  /\ At(t, o, "issue")
  /\ o \notin Immediate
  /\ inflight' = inflight \cup {o}
  /\ Return(t, o, "FFSUCCESS")
  /\ UNCHANGED <<version, dep_left, completed, pos, list>>

(* MPI or the operator refuses: nothing completes the operation. *)
IssueFails(t, o) ==
  /\ At(t, o, "issue")
  /\ o \in MayFail
  /\ Return(t, o, "FFERROR")
  /\ UNCHANGED <<version, dep_left, completed, pos, inflight, list>>

-----------------------------------------------------------------------------
(* ffop_complete *)

(* A restore that forgets dep_left. *)
RestoreVersionOnly(t, o) ==
  /\ At(t, o, "restore")
  /\ version' = [version EXCEPT ![o] = @ + 1]
  /\ GoTo(t, o, "publish")
  /\ UNCHANGED <<dep_left, completed, stack, pos, inflight, list, ret>>

(* A restore that starts the next execution one dependency ahead. *)
RestoreOneShort(t, o) ==
  /\ At(t, o, "restore")
  /\ version' = [version EXCEPT ![o] = @ + 1]
  /\ dep_left' = [dep_left EXCEPT ![o] = in_dep_count(o) - 1]
  /\ GoTo(t, o, "publish")
  /\ UNCHANGED <<completed, stack, pos, inflight, list, ret>>

(* The version moves on and dep_left is restored for the next execution.   *)
(* Both come before any successor of o is told, and the predecessors of o  *)
(* count dep_left down again only after o has told its own successors.     *)
Restore(t, o) ==
  /\ At(t, o, "restore")
  /\ version' = [version EXCEPT ![o] = @ + 1]
  /\ dep_left' = [dep_left EXCEPT ![o] = in_dep_count(o)]
  /\ GoTo(t, o, "publish")
  /\ UNCHANGED <<completed, stack, pos, inflight, list, ret>>

(* Whoever waits for o may go on from here. *)
Publish(t, o) ==
  /\ At(t, o, "publish")
  /\ completed' = [completed EXCEPT ![o] = @ + 1]
  /\ GoTo(t, o, "signal")
  /\ pos' = [pos EXCEPT ![t][o] = 1]
  /\ UNCHANGED <<version, dep_left, stack, inflight, list, ret>>

(* A trigger that fires on the first dependency. *)
TriggersEarly(o, deps) == version[o] = 0 \/ o \notin NonPersistent

(* A trigger that misses the last dependency. *)
TriggersLate(o, deps) == deps = UIntMod - 1

(* The triggering condition, as the code has it: both options are read     *)
(* from o, the operation that completes, and version is already o's new    *)
(* one (ffop.c:199-203).                                                   *)
Triggers(o, deps) == /\ deps = 0 \/ o \in DepOr
                     /\ version[o] = 0 \/ o \notin NonPersistent

(* One turn of the loop over op->dependent: the successor d has a          *)
(* dependency less and is posted, by a nested call, when it is triggered.  *)
Signal(t, o) ==
  /\ At(t, o, "signal")
  /\ pos[t][o] <= Len(Dependent[o])
  /\ LET d == Dependent[o][pos[t][o]]
         deps == Minus1(dep_left[d])
     IN  /\ dep_left' = [dep_left EXCEPT ![d] = deps]
         /\ IF Triggers(o, deps)
              THEN Call(t, d, "post")
              ELSE UNCHANGED <<stack, pc>>
  /\ pos' = [pos EXCEPT ![t][o] = @ + 1]
  /\ UNCHANGED <<version, completed, inflight, list, ret>>

(* The end of ffop_complete, and of the ffop_post that called it. *)
CompleteReturns(t, o) ==
  /\ At(t, o, "signal")
  /\ pos[t][o] > Len(Dependent[o])
  /\ Return(t, o, "FFCOMPLETED")
  /\ UNCHANGED <<version, dep_left, completed, pos, inflight, list>>

CallStep(t, o) ==
  \/ PostRefused(t, o) \/ PostResets(t, o)
  \/ IssueImmediate(t, o) \/ IssueAsync(t, o) \/ IssueFails(t, o)
  \/ Restore(t, o) \/ Publish(t, o)
  \/ Signal(t, o) \/ CompleteReturns(t, o)

-----------------------------------------------------------------------------
(* progress_thread *)

Orders(S) == {q \in [1 .. Cardinality(S) -> S] :
                \A o \in S : \E k \in DOMAIN q : q[k] = o}

(* A progresser puts on the ready list the operations MPI reports done, in *)
(* whatever order MPI_Testsome lists them.                                 *)
Poll(S) ==
  /\ stack["prog"] = <<>>
  /\ list = <<>>
  /\ S # {} /\ S \subseteq inflight
  /\ list' \in Orders(S)
  /\ inflight' = inflight \ S
  /\ UNCHANGED <<version, dep_left, completed, stack, pc, pos, ret>>

(* The ready list is worked off, one ffop_complete after the other. *)
Take ==
  /\ stack["prog"] = <<>>
  /\ list # <<>>
  /\ Call("prog", Head(list), "restore")
  /\ list' = Tail(list)
  /\ UNCHANGED <<version, dep_left, completed, pos, inflight, ret>>
=============================================================================
