------------------------------- MODULE FFDag -------------------------------
(***************************************************************************)
(* What a schedule promises: a round runs the operations of an acyclic     *)
(* graph, each one at most once and only after all its predecessors, and   *)
(* the application gets the schedule back when the round has run them all. *)
(* An operation may also end without completing: its MPI call or its       *)
(* computation reports an error, or it may not be run twice.               *)
(***************************************************************************)
CONSTANTS Ops,           \* the operations
          Begin,         \* the one the application posts
          Pred,          \* Pred[o]: the predecessors of o
          Unreliable     \* the operations that may end without completing

VARIABLES active,   \* a round is in progress
          running,  \* the operations launched and not ended
          done      \* the operations completed in the present round

dagVars == <<active, running, done>>

TypeOK == /\ active \in BOOLEAN
          /\ running \subseteq Ops
          /\ done \subseteq Ops

Init == /\ ~active
        /\ running = {}
        /\ done = Ops

Start == /\ ~active
         /\ active' = TRUE
         /\ running' = {Begin}
         /\ done' = {}

Launch(o) == /\ active
             /\ o \notin running \cup done
             /\ Pred[o] \subseteq done
             /\ running' = running \cup {o}
             /\ UNCHANGED <<active, done>>

Complete(o) == /\ o \in running
               /\ running' = running \ {o}
               /\ done' = done \cup {o}
               /\ UNCHANGED active

Fail(o) == /\ o \in running \cap Unreliable
           /\ running' = running \ {o}
           /\ UNCHANGED <<active, done>>

Finish == /\ active
          /\ running = {}
          /\ done = Ops
          /\ active' = FALSE
          /\ UNCHANGED <<running, done>>

Next == \/ Start
        \/ Finish
        \/ \E o \in Ops : Launch(o) \/ Complete(o) \/ Fail(o)

Spec == Init /\ [][Next]_dagVars
=============================================================================
