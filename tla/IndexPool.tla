----------------------------- MODULE IndexPool -----------------------------
(***************************************************************************)
(* What ffarman promises to its three users (the storage pools, the table  *)
(* of MPI requests and the custom operators): indices 0..Count-1 are lent  *)
(* one holder at a time, a request is refused only when every index is     *)
(* lent, and an index given back can be lent again.                        *)
(***************************************************************************)
EXTENDS Integers

CONSTANTS Count,    \* how many indices there are
          NoIndex   \* the answer to a request that cannot be served

VARIABLES held,     \* the indices lent at the moment
          res       \* the answer to the last request

Index == 0 .. Count - 1

TypeOK == /\ held \subseteq Index
          /\ res \in Index \cup {NoIndex}

Init == held = {} /\ res = NoIndex

Grant(i) == /\ i \in Index \ held
            /\ held' = held \cup {i}
            /\ res' = i

Refuse == /\ held = Index
          /\ res' = NoIndex
          /\ UNCHANGED held

GiveBack(i) == /\ i \in held
               /\ held' = held \ {i}
               /\ UNCHANGED res

Next == \/ \E i \in Index : Grant(i) \/ GiveBack(i)
        \/ Refuse

Spec == Init /\ [][Next]_<<held, res>>
=============================================================================
