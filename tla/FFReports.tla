----------------------------- MODULE FFReports -----------------------------
(***************************************************************************)
(* What the engine takes the MPI progresser to be (inflight and list of    *)
(* FFOp): an operation handed to it stays in flight until it is reported,  *)
(* once, and then waits on the ready list to be completed.                 *)
(***************************************************************************)
CONSTANTS Ops

VARIABLES inflight,  \* handed over, not reported
          ready      \* reported, not completed

Init == inflight = {} /\ ready = {}

Track(o) == /\ o \notin inflight \cup ready
            /\ inflight' = inflight \cup {o}
            /\ UNCHANGED ready

Report(S) == /\ S # {} /\ S \subseteq inflight
             /\ inflight' = inflight \ S
             /\ ready' = ready \cup S

Take(o) == /\ o \in ready
           /\ ready' = ready \ {o}
           /\ UNCHANGED inflight

Next == \/ \E o \in Ops : Track(o) \/ Take(o)
        \/ \E S \in SUBSET Ops : Report(S)

Spec == Init /\ [][Next]_<<inflight, ready>>
=============================================================================
