----------------------------- MODULE FFProcess -----------------------------
(***************************************************************************)
(* A process from ffinit to fffinalize (src/ff.c, src/ffprogress.c and     *)
(* src/components/mpi/ffmpi.c): the main thread starts the progress        *)
(* thread, which makes the table of requests of FFMpiProgresser, polls it  *)
(* until it is told to end, and takes the table away.                      *)
(*                                                                         *)
(* Faults are the calls that may report an error.  The process is started  *)
(* once: _progresser_ready and the list of progressers are static and      *)
(* fffinalize resets neither, so that a second ffinit is not the first.    *)
(***************************************************************************)
EXTENDS FFMpiProgresser

CONSTANT Faults

ASSUME FaultsAssumption == Faults \subseteq {"level", "create", "init", "poll"}

VARIABLES
  main,              \* where the main thread is: "off", then in ffinit,
                     \* "up" between the two calls, then in fffinalize
  thr,               \* where the progress thread is
  _progresser_ready,
  terminate,
  table,             \* index_manager and the arrays: "raw", "ready", "freed"
  pools,             \* the storage pools that exist
  init_by_me,        \* ffmpi_init has initialised MPI
  mpi,               \* MPI is initialised and not finalised
  gcomp,             \* the operators: "raw" or "ready"
  failed             \* the calls that have reported an error

procVars == <<main, thr, _progresser_ready, terminate, table, pools,
              init_by_me, mpi, gcomp, failed>>
allVars == <<vars, procVars>>

ProcessTypeOK ==
  /\ TypeOK
  /\ main \in {"off", "create", "spin", "up", "join", "finalize", "down", "error"}
  /\ thr \in {"none", "init", "ready", "loop", "poll", "finalize", "ended"}
  /\ _progresser_ready \in BOOLEAN /\ terminate \in BOOLEAN
  /\ init_by_me \in BOOLEAN /\ mpi \in BOOLEAN
  /\ table \in {"raw", "ready", "freed"} /\ gcomp \in {"raw", "ready"}
  /\ pools \subseteq {"op", "buffer", "schedule"}
  /\ failed \subseteq Faults

(* MPI may have been initialised by the application. *)
ProcessInit ==
  /\ Init
  /\ main = "off" /\ thr = "none"
  /\ _progresser_ready = FALSE /\ terminate = FALSE
  /\ table = "raw" /\ pools = {} /\ gcomp = "raw"
  /\ init_by_me = FALSE
  /\ mpi \in BOOLEAN
  /\ failed = {}

-----------------------------------------------------------------------------
(* The main thread. *)

(* ffmpi_init leaves before ffgcomp_init when MPI has not the level it     *)
(* needs; an MPI that is initialised already is not asked for its level.   *)
ffmpi_init(level) ==
  /\ init_by_me' = ~mpi
  /\ mpi' = TRUE
  /\ ~level => init_by_me' /\ "level" \in Faults
  /\ gcomp' = IF level THEN "ready" ELSE "raw"
  /\ failed' = IF level THEN failed ELSE failed \cup {"level"}

(* ffinit up to pthread_create, whatever ffmpi_init says. *)
Begin(level) ==
  /\ main = "off"
  /\ pools' = {"op", "buffer", "schedule"}
  /\ ffmpi_init(level)
  /\ terminate' = FALSE
  /\ main' = "create"
  /\ UNCHANGED <<vars, thr, _progresser_ready, table>>

CreateThread ==
  /\ main = "create"
  /\ main' = "spin" /\ thr' = "init"
  /\ UNCHANGED <<vars, _progresser_ready, terminate, table, pools, init_by_me,
                 mpi, gcomp, failed>>

(* ffinit returns FFERROR and leaves all it has made. *)
CreateFails ==
  /\ main = "create"
  /\ "create" \in Faults
  /\ main' = "error" /\ failed' = failed \cup {"create"}
  /\ UNCHANGED <<vars, thr, _progresser_ready, terminate, table, pools,
                 init_by_me, mpi, gcomp>>

InitReturns ==
  /\ main = "spin"
  /\ _progresser_ready
  /\ main' = "up"
  /\ UNCHANGED <<vars, thr, _progresser_ready, terminate, table, pools,
                 init_by_me, mpi, gcomp, failed>>

(* Between the calls: rounds, as in FFMpiProgresser. *)
Round == main = "up" /\ StartRound /\ UNCHANGED procVars
Posts == main = "up" /\ App /\ UNCHANGED procVars

(* fffinalize asks for nothing: operations may be on their way still. *)
FinalizeCalled ==
  /\ main = "up" /\ pc["app"] = "idle"
  /\ terminate' = TRUE
  /\ main' = "join"
  /\ UNCHANGED <<vars, thr, _progresser_ready, table, pools, init_by_me, mpi,
                 gcomp, failed>>

Join ==
  /\ main = "join"
  /\ thr = "ended"
  /\ main' = "finalize"
  /\ UNCHANGED <<vars, thr, _progresser_ready, terminate, table, pools,
                 init_by_me, mpi, gcomp, failed>>

(* A finalize that ends an MPI that others have initialised. *)
finalize_always == mpi' = FALSE

(* The operators are left: ffop_gcomp_operator_finalize does nothing. *)
ffmpi_finalize == mpi' = (mpi /\ ~init_by_me)

(* The rest of fffinalize; the pool of the schedules is left behind. *)
Finalize ==
  /\ main = "finalize"
  /\ ffmpi_finalize
  /\ pools' = pools \ {"op", "buffer"}
  /\ main' = "down"
  /\ UNCHANGED <<vars, thr, _progresser_ready, terminate, table, init_by_me,
                 gcomp, failed>>

(* The loops the main thread waits in, its join, and the end. *)
Waiting ==
  /\ \/ main = "spin" /\ ~_progresser_ready
     \/ main = "up" /\ pc["app"] = "idle" /\ finished # Ops
     \/ main = "join" /\ thr # "ended"
     \/ main \in {"down", "error"}
  /\ UNCHANGED allVars

-----------------------------------------------------------------------------
(* The progress thread. *)

(* A thread that says it is ready before it is. *)
ReadyThenTable ==
  /\ thr = "init"
  /\ _progresser_ready' = TRUE
  /\ thr' = "ready"
  /\ UNCHANGED <<vars, main, terminate, table, pools, init_by_me, mpi, gcomp, failed>>

(* ffop_mpi_progresser_init: from now on the table is that of Init. *)
MakeTable ==
  /\ thr = "init"
  /\ table' = "ready"
  /\ thr' = "ready"
  /\ UNCHANGED <<vars, main, _progresser_ready, terminate, pools, init_by_me,
                 mpi, gcomp, failed>>

(* A progresser that does not start ends the thread, and no more. *)
MakeTableFails ==
  /\ thr = "init"
  /\ "init" \in Faults
  /\ thr' = "ended" /\ failed' = failed \cup {"init"}
  /\ UNCHANGED <<vars, main, _progresser_ready, terminate, table, pools,
                 init_by_me, mpi, gcomp>>

(* A thread that goes on without saying so. *)
SaysNothing ==
  /\ thr = "ready"
  /\ thr' = "loop"
  /\ UNCHANGED <<vars, main, _progresser_ready, terminate, table, pools,
                 init_by_me, mpi, gcomp, failed>>

SayReady ==
  /\ thr = "ready"
  /\ _progresser_ready' = TRUE
  /\ thr' = "loop"
  /\ UNCHANGED <<vars, main, terminate, table, pools, init_by_me, mpi, gcomp, failed>>

(* The head of the loop; terminate may be set behind it. *)
LoopHead ==
  /\ thr = "loop"
  /\ thr' = IF terminate THEN "finalize" ELSE "poll"
  /\ UNCHANGED <<vars, main, _progresser_ready, terminate, table, pools,
                 init_by_me, mpi, gcomp, failed>>

(* One call of the progresser and the completions after it. *)
PollSome(I) == thr = "poll" /\ Testsome(I) /\ UNCHANGED procVars

PollNone ==
  /\ thr = "poll" /\ pc["prog"] = "idle"
  /\ thr' = "loop"
  /\ UNCHANGED <<vars, main, _progresser_ready, terminate, table, pools,
                 init_by_me, mpi, gcomp, failed>>

(* MPI_Testsome reports an error: the thread ends where it is. *)
PollFails ==
  /\ thr = "poll" /\ pc["prog"] = "idle"
  /\ "poll" \in Faults
  /\ thr' = "ended" /\ failed' = failed \cup {"poll"}
  /\ UNCHANGED <<vars, main, _progresser_ready, terminate, table, pools,
                 init_by_me, mpi, gcomp>>

Completes ==
  /\ thr = "poll"
  /\ Prog
  /\ thr' = IF pc'["prog"] = "idle" THEN "loop" ELSE "poll"
  /\ UNCHANGED <<main, _progresser_ready, terminate, table, pools, init_by_me,
                 mpi, gcomp, failed>>

(* ffop_mpi_progresser_finalize, and the thread ends. *)
FreeTable ==
  /\ thr = "finalize"
  /\ table' = "freed"
  /\ thr' = "ended"
  /\ UNCHANGED <<vars, main, _progresser_ready, terminate, pools, init_by_me,
                 mpi, gcomp, failed>>

MainGoes == CreateThread \/ InitReturns \/ Posts \/ Join \/ Finalize
Starts == MakeTable \/ MakeTableFails
Goes == SayReady \/ LoopHead \/ PollNone \/ Completes \/ FreeTable

ProcessNext ==
  \/ \E level \in BOOLEAN : Begin(level)
  \/ MainGoes \/ CreateFails \/ Round \/ FinalizeCalled \/ Waiting
  \/ Starts \/ Goes \/ PollFails
  \/ \E I \in SUBSET Slot : PollSome(I)

(* Both threads run, and MPI completes every request sooner or later. *)
Fairness == /\ WF_allVars(MainGoes) /\ WF_allVars(Starts) /\ WF_allVars(Goes)
            /\ \A i \in Slot :
                 SF_allVars(\E I \in SUBSET Slot : i \in I /\ PollSome(I))

ProcessSpec == ProcessInit /\ [][ProcessNext]_allVars /\ Fairness

-----------------------------------------------------------------------------
(* Each thread finds what it uses made by the other, and not yet taken     *)
(* away: the application posts (from ffinit's return to fffinalize) and    *)
(* the thread polls with a table, with MPI and with the pools.  The thread *)
(* makes and frees the table, the main thread the rest, and only the       *)
(* waiting for _progresser_ready and the join keep them in order.          *)
UsedWhileThere ==
  /\ main = "up" \/ thr \in {"loop", "poll"} => table = "ready"
  /\ thr \notin {"none", "ended"} => mpi /\ {"op", "buffer"} \subseteq pools
  /\ main = "up" /\ "level" \notin failed => gcomp = "ready"

(* What fffinalize leaves: no thread, no table (unless the thread ended by *)
(* an error), an MPI only if the application had initialised it; and, if   *)
(* the last round was complete, no request that MPI still knows and no     *)
(* slot lent.  (The pool of the schedules and the operators' index manager *)
(* stay in any case.)                                                      *)
LeftClean ==
  main = "down" =>
    /\ thr = "ended"
    /\ table = "freed" \/ "poll" \in failed
    /\ mpi = ~init_by_me
    /\ finished = Ops => active = {} /\ held = {}

(* Every call returns, unless a call that failed in the thread keeps it:   *)
(* ffinit (ff.c:55 spins on the flag), the round and its wait, and         *)
(* fffinalize, which returns even then.  An exposed operation may keep a   *)
(* round for ever, or end the program, and fffinalize waits for none.      *)
CallsReturn ==
  /\ main = "spin" ~> main = "up" \/ "init" \in failed
  /\ pc["app"] = "work" ~>
       finished = Ops \/ "poll" \in failed \/ exposed # {} \/ terminate
  /\ main = "join" ~> main = "down" \/ exposed # {}
=============================================================================
