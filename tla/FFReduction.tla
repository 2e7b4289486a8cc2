---------------------------- MODULE FFReduction ----------------------------
(***************************************************************************)
(* What an allreduce that is posted again and again promises: a rank that  *)
(* comes out of its k-th round has the k-th contribution of every rank,    *)
(* once each; so it does not come out before every rank has gone in.       *)
(***************************************************************************)
EXTENDS Integers, Bags

CONSTANTS Rank

VARIABLES round,   \* the rounds each rank has gone into
          active,  \* the ranks inside a round
          result   \* what each rank came out of its last round with

Total(k) == SetToBag({<<p, k>> : p \in Rank})

Init == /\ round = [p \in Rank |-> 0]
        /\ active = {}
        /\ result = [p \in Rank |-> EmptyBag]

Enter(p) == /\ p \notin active
            /\ round' = [round EXCEPT ![p] = @ + 1]
            /\ active' = active \cup {p}
            /\ UNCHANGED result

Leave(p) == /\ p \in active
            /\ \A q \in Rank : round[q] >= round[p]
            /\ active' = active \ {p}
            /\ result' = [result EXCEPT ![p] = Total(round[p])]
            /\ UNCHANGED round

Next == \E p \in Rank : Enter(p) \/ Leave(p)

Spec == Init /\ [][Next]_<<round, active, result>>
=============================================================================
