------------------------------ MODULE FFArman ------------------------------
(***************************************************************************)
(* The index manager of src/utils/ffarman.c.  An index lives in an entry;  *)
(* the entries are on one of two lists: free_entries holds the indices     *)
(* that can be lent, free_free_entries the entries whose index is lent and *)
(* that ffarman_put fills again, with whatever index comes back first.     *)
(*                                                                         *)
(* Both functions run from end to end under the array's spin lock, so each *)
(* is one action.  A linked list is the sequence of its entries.           *)
(***************************************************************************)
EXTENDS Integers, Sequences, FiniteSets

CONSTANTS Count,    \* the count given to ffarman_create
          NoIndex   \* (uint32_t) -1, what ffarman_get returns on failure

ASSUME CountAssumption == Count \in Nat \ {0}
ASSUME NoIndexAssumption == NoIndex \notin 0 .. Count - 1

VARIABLES free_entries,       \* the list of entries whose index is free
          free_free_entries,  \* the list of entries that carry no index
          idx,                \* the idx field of each entry
          held,               \* the indices the callers hold
          res                 \* what the last ffarman_get returned

vars == <<free_entries, free_free_entries, idx, held, res>>

Entry == 0 .. Count - 1
Index == 0 .. Count - 1

TypeOK == /\ free_entries \in Seq(Entry)
          /\ free_free_entries \in Seq(Entry)
          /\ idx \in [Entry -> Index]
          /\ held \subseteq Index
          /\ res \in Index \cup {NoIndex}

(* A create that counts the indices from one. *)
InitFromOne == /\ free_entries = [i \in 1 .. Count |-> i - 1]
               /\ free_free_entries = <<>>
               /\ idx = [e \in Entry |-> e + 1]
               /\ held = {}
               /\ res = NoIndex

(* ffarman_create: entry i carries index i, all of them are free. *)
Init == /\ free_entries = [i \in 1 .. Count |-> i - 1]
        /\ free_free_entries = <<>>
        /\ idx = [e \in Entry |-> e]
        /\ held = {}
        /\ res = NoIndex

-----------------------------------------------------------------------------
(* A get that forgets to keep the entry for a later put. *)
GetDroppingEntry ==
  /\ free_entries # <<>>
  /\ res' = idx[Head(free_entries)]
  /\ held' = held \cup {res'}
  /\ free_entries' = Tail(free_entries)
  /\ UNCHANGED <<free_free_entries, idx>>

(* ffarman_get with an entry at hand: the entry changes list, its index is *)
(* the answer.                                                             *)
GetIndex ==
  /\ free_entries # <<>>
  /\ res' = idx[Head(free_entries)]
  /\ held' = held \cup {res'}
  /\ free_entries' = Tail(free_entries)
  /\ free_free_entries' = <<Head(free_entries)>> \o free_free_entries
  /\ UNCHANGED idx

(* ffarman_get with no entry left: -1. *)
GetNothing ==
  /\ free_entries = <<>>
  /\ res' = NoIndex
  /\ UNCHANGED <<free_entries, free_free_entries, idx, held>>

(* A put that leaves in the entry the index it was lent with. *)
PutStaleIndex(i) ==
  /\ i \in held
  /\ free_free_entries # <<>>
  /\ free_free_entries' = Tail(free_free_entries)
  /\ free_entries' = <<Head(free_free_entries)>> \o free_entries
  /\ held' = held \ {i}
  /\ UNCHANGED <<idx, res>>

(* ffarman_put of an index its caller holds: any lent entry takes it.  The *)
(* assert at line 61 is PutHasEntry below, not a guard the code waits on.  *)
Put(i) ==
  /\ i \in held
  /\ free_free_entries # <<>>
  /\ idx' = [idx EXCEPT ![Head(free_free_entries)] = i]
  /\ free_free_entries' = Tail(free_free_entries)
  /\ free_entries' = <<Head(free_free_entries)>> \o free_entries
  /\ held' = held \ {i}
  /\ UNCHANGED res

Next == \/ GetIndex
        \/ GetNothing
        \/ \E i \in Index : Put(i)

Spec == Init /\ [][Next]_vars

-----------------------------------------------------------------------------
(* The free list offers every index no caller holds, once each, and none   *)
(* that a caller holds: although ffarman_put stores an index in whichever  *)
(* entry is first on the other list, no index is lent twice and none is    *)
(* lost.                                                                   *)
FreeListExact ==
  /\ \A k, l \in DOMAIN free_entries :
        idx[free_entries[k]] = idx[free_entries[l]] => k = l
  /\ {idx[free_entries[k]] : k \in DOMAIN free_entries} = Index \ held

(* The assert of ffarman_put (ffarman.c:61) never fires for a caller that  *)
(* gives back what it holds: there is an entry to store the index in.      *)
PutHasEntry == held # {} => free_free_entries # <<>>

(* The two lists serve as the pool of indices their users rely on: a get   *)
(* lends an index nobody holds and fails only when every index is lent.    *)
Pool == INSTANCE IndexPool
PoolSpec == Pool!Spec
=============================================================================
