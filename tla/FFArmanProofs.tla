--------------------------- MODULE FFArmanProofs ---------------------------
(***************************************************************************)
(* What the index manager guarantees for every Count.  The lists move one  *)
(* entry at a time, so that their union stays the set of entries, while    *)
(* the index an entry carries is whatever came back first; the invariant   *)
(* that survives each step relates the two lists, the indices and the      *)
(* holders.                                                                *)
(***************************************************************************)
EXTENDS FFArman, FiniteSetTheorems, SequenceTheorems, TLAPS

(* No entry is at two places of the two lists. *)
EntriesApart ==
  /\ \A k, l \in DOMAIN free_entries :
        free_entries[k] = free_entries[l] => k = l
  /\ \A k, l \in DOMAIN free_free_entries :
        free_free_entries[k] = free_free_entries[l] => k = l
  /\ \A k \in DOMAIN free_entries, l \in DOMAIN free_free_entries :
        free_entries[k] # free_free_entries[l]

(* Each lent index left an entry behind: with it PutHasEntry follows. *)
EntryPerHolder == /\ IsFiniteSet(held)
                  /\ Cardinality(held) = Len(free_free_entries)

IInv == TypeOK /\ EntriesApart /\ FreeListExact /\ EntryPerHolder

-----------------------------------------------------------------------------
(* An entry linked in front of a list: the list follows it. *)
LEMMA Push ==
  ASSUME NEW s \in Seq(Entry), NEW e \in Entry
  PROVE  /\ <<e>> \o s \in Seq(Entry)
         /\ Len(<<e>> \o s) = Len(s) + 1
         /\ DOMAIN (<<e>> \o s) = 1 .. Len(s) + 1
         /\ (<<e>> \o s)[1] = e
         /\ \A k \in 2 .. Len(s) + 1 : (<<e>> \o s)[k] = s[k - 1]
<1>1. /\ <<e>> \in Seq(Entry)
      /\ Len(<<e>>) = 1
      /\ <<e>>[1] = e
      /\ Len(s) \in Nat
  BY LenProperties
<1>2. QED
  BY <1>1, ConcatProperties, LenProperties

(* The first entry unlinked from a list: the others move up. *)
LEMMA Pop ==
  ASSUME NEW s \in Seq(Entry), s # <<>>
  PROVE  /\ Len(s) \in Nat \ {0}
         /\ DOMAIN s = 1 .. Len(s)
         /\ Head(s) = s[1]
         /\ Head(s) \in Entry
         /\ Tail(s) \in Seq(Entry)
         /\ Len(Tail(s)) = Len(s) - 1
         /\ DOMAIN Tail(s) = 1 .. Len(s) - 1
         /\ \A k \in 1 .. Len(s) - 1 : Tail(s)[k] = s[k + 1]
BY HeadTailProperties, LenProperties, EmptySeq

-----------------------------------------------------------------------------
(* ffarman_create builds a pool with every index free. *)
LEMMA InitIInv == Init => IInv
<1> SUFFICES ASSUME Init PROVE IInv
  OBVIOUS
<1> USE DEF Init, Entry, Index
<1>1. /\ free_entries \in Seq(Entry)
      /\ Len(free_entries) = Count
      /\ DOMAIN free_entries = 1 .. Count
      /\ \A k \in 1 .. Count : free_entries[k] = k - 1
  BY CountAssumption
<1>2. TypeOK
  BY <1>1, EmptySeq DEF TypeOK
<1>3. EntriesApart
  BY <1>1 DEF EntriesApart
<1>4. FreeListExact
  <2>1. \A k \in 1 .. Count : idx[free_entries[k]] = k - 1
    BY <1>1, CountAssumption
  <2>2. \A i \in Index : i + 1 \in 1 .. Count /\ idx[free_entries[i + 1]] = i
    BY <2>1, CountAssumption
  <2>3. {idx[free_entries[k]] : k \in DOMAIN free_entries} = Index \ held
    <3>1. \A k \in DOMAIN free_entries : idx[free_entries[k]] \in Index
      BY <1>1, <2>1, CountAssumption
    <3>2. \A i \in Index : \E k \in DOMAIN free_entries :
             idx[free_entries[k]] = i
      BY <1>1, <2>2
    <3>3. held = {}
      OBVIOUS
    <3>4. QED
      BY <3>1, <3>2, <3>3
  <2>4. \A k, l \in DOMAIN free_entries :
           idx[free_entries[k]] = idx[free_entries[l]] => k = l
    BY <1>1, <2>1
  <2>5. QED
    BY <2>3, <2>4 DEF FreeListExact
<1>5. EntryPerHolder
  BY FS_EmptySet DEF EntryPerHolder
<1>6. QED
  BY <1>2, <1>3, <1>4, <1>5 DEF IInv

(* ffarman_get moves an entry and its index leaves the free list with it. *)
LEMMA GetIInv == IInv /\ GetIndex => IInv'
<1> SUFFICES ASSUME IInv, GetIndex PROVE IInv'
  OBVIOUS
<1> DEFINE e == Head(free_entries)
<1>1. /\ Len(free_entries) \in Nat \ {0}
      /\ DOMAIN free_entries = 1 .. Len(free_entries)
      /\ e = free_entries[1]
      /\ e \in Entry
      /\ free_entries' \in Seq(Entry)
      /\ DOMAIN free_entries' = 1 .. Len(free_entries) - 1
      /\ \A k \in 1 .. Len(free_entries) - 1 :
            free_entries'[k] = free_entries[k + 1]
  BY Pop DEF IInv, TypeOK, GetIndex
<1>2. /\ free_free_entries' \in Seq(Entry)
      /\ Len(free_free_entries') = Len(free_free_entries) + 1
      /\ DOMAIN free_free_entries' = 1 .. Len(free_free_entries) + 1
      /\ free_free_entries'[1] = e
      /\ \A k \in 2 .. Len(free_free_entries) + 1 :
            free_free_entries'[k] = free_free_entries[k - 1]
  BY <1>1, Push DEF IInv, TypeOK, GetIndex
<1>3. /\ Len(free_free_entries) \in Nat
      /\ DOMAIN free_free_entries = 1 .. Len(free_free_entries)
  BY LenProperties DEF IInv, TypeOK
<1>4. /\ idx' = idx
      /\ res' = idx[e]
      /\ held' = held \cup {idx[e]}
  BY DEF GetIndex
<1>5. idx[e] \in Index \ held
  BY <1>1 DEF IInv, FreeListExact
<1>6. TypeOK'
  BY <1>1, <1>2, <1>4, <1>5 DEF IInv, TypeOK
<1>7. EntriesApart'
  <2>1. \A k \in 1 .. Len(free_free_entries) : free_free_entries[k] # e
    BY <1>1, <1>3 DEF IInv, EntriesApart
  <2>2. \A k \in 1 .. Len(free_entries) - 1 : free_entries'[k] # e
    BY <1>1 DEF IInv, EntriesApart
  <2>3. ASSUME NEW k \in DOMAIN free_entries', NEW l \in DOMAIN free_entries',
               free_entries'[k] = free_entries'[l]
        PROVE  k = l
    <3>1. /\ k + 1 \in DOMAIN free_entries
          /\ l + 1 \in DOMAIN free_entries
          /\ free_entries[k + 1] = free_entries[l + 1]
          /\ k \in Nat /\ l \in Nat
      BY <1>1, <2>3
    <3>2. k + 1 = l + 1
      BY <3>1 DEF IInv, EntriesApart
    <3>3. QED
      BY <3>1, <3>2
  <2>4. ASSUME NEW k \in DOMAIN free_free_entries',
               NEW l \in DOMAIN free_free_entries',
               free_free_entries'[k] = free_free_entries'[l]
        PROVE  k = l
    <3>1. CASE k = 1 \/ l = 1
      BY <1>2, <1>3, <2>1, <2>4, <3>1
    <3>2. CASE k # 1 /\ l # 1
      <4>1. /\ k - 1 \in DOMAIN free_free_entries
            /\ l - 1 \in DOMAIN free_free_entries
            /\ free_free_entries[k - 1] = free_free_entries[l - 1]
            /\ k \in Nat /\ l \in Nat
        BY <1>2, <1>3, <2>4, <3>2
      <4>2. k - 1 = l - 1
        BY <4>1 DEF IInv, EntriesApart
      <4>3. QED
        BY <4>1, <4>2
    <3>3. QED
      BY <3>1, <3>2
  <2>5. ASSUME NEW k \in DOMAIN free_entries',
               NEW l \in DOMAIN free_free_entries'
        PROVE  free_entries'[k] # free_free_entries'[l]
    <3>1. /\ k + 1 \in DOMAIN free_entries
          /\ free_entries'[k] = free_entries[k + 1]
          /\ free_entries'[k] # e
      BY <1>1, <2>2
    <3>2. CASE l = 1
      BY <1>2, <3>1, <3>2
    <3>3. CASE l # 1
      <4>1. /\ l - 1 \in DOMAIN free_free_entries
            /\ free_free_entries'[l] = free_free_entries[l - 1]
        BY <1>2, <1>3, <3>3
      <4>2. QED
        BY <3>1, <4>1 DEF IInv, EntriesApart
    <3>4. QED
      BY <3>2, <3>3
  <2>6. QED
    BY <2>3, <2>4, <2>5 DEF EntriesApart
<1>8. FreeListExact'
  <2>1. ASSUME NEW k \in DOMAIN free_entries', NEW l \in DOMAIN free_entries',
               idx[free_entries'[k]] = idx[free_entries'[l]]
        PROVE  k = l
    <3>1. /\ k + 1 \in DOMAIN free_entries
          /\ l + 1 \in DOMAIN free_entries
          /\ idx[free_entries[k + 1]] = idx[free_entries[l + 1]]
          /\ k \in Nat /\ l \in Nat
      BY <1>1, <2>1
    <3>2. k + 1 = l + 1
      BY <3>1 DEF IInv, FreeListExact
    <3>3. QED
      BY <3>1, <3>2
  <2>2. \A k \in DOMAIN free_entries' :
           idx[free_entries'[k]] \in Index \ (held \cup {idx[e]})
    BY <1>1 DEF IInv, FreeListExact
  <2>3. \A i \in Index \ (held \cup {idx[e]}) :
           \E k \in DOMAIN free_entries' : idx[free_entries'[k]] = i
    <3>1. TAKE i \in Index \ (held \cup {idx[e]})
    <3>2. PICK k \in DOMAIN free_entries : idx[free_entries[k]] = i
      BY DEF IInv, FreeListExact
    <3>3. k - 1 \in 1 .. Len(free_entries) - 1
      BY <1>1, <3>2
    <3>4. idx[free_entries'[k - 1]] = i
      BY <1>1, <3>2, <3>3
    <3>5. QED
      BY <1>1, <3>3, <3>4
  <2>4. QED
    BY <1>4, <2>1, <2>2, <2>3 DEF FreeListExact
<1>9. EntryPerHolder'
  BY <1>2, <1>4, <1>5, FS_AddElement DEF IInv, EntryPerHolder
<1>10. QED
  BY <1>6, <1>7, <1>8, <1>9 DEF IInv

(* ffarman_put fills the first empty entry, whichever it is, with the index *)
(* that comes back: the free list gains that index and no other.            *)
LEMMA PutIInv == \A i \in Index : IInv /\ Put(i) => IInv'
<1> SUFFICES ASSUME NEW i \in Index, IInv, Put(i) PROVE IInv'
  OBVIOUS
<1> DEFINE e == Head(free_free_entries)
<1>1. /\ Len(free_free_entries) \in Nat \ {0}
      /\ DOMAIN free_free_entries = 1 .. Len(free_free_entries)
      /\ e = free_free_entries[1]
      /\ e \in Entry
      /\ free_free_entries' \in Seq(Entry)
      /\ Len(free_free_entries') = Len(free_free_entries) - 1
      /\ DOMAIN free_free_entries' = 1 .. Len(free_free_entries) - 1
      /\ \A k \in 1 .. Len(free_free_entries) - 1 :
            free_free_entries'[k] = free_free_entries[k + 1]
  BY Pop DEF IInv, TypeOK, Put
<1>2. /\ free_entries' \in Seq(Entry)
      /\ DOMAIN free_entries' = 1 .. Len(free_entries) + 1
      /\ free_entries'[1] = e
      /\ \A k \in 2 .. Len(free_entries) + 1 :
            free_entries'[k] = free_entries[k - 1]
  BY <1>1, Push DEF IInv, TypeOK, Put
<1>3. /\ Len(free_entries) \in Nat
      /\ DOMAIN free_entries = 1 .. Len(free_entries)
      /\ \A k \in 1 .. Len(free_entries) : free_entries[k] \in Entry
  BY LenProperties DEF IInv, TypeOK
<1>4. /\ idx' = [idx EXCEPT ![e] = i]
      /\ held' = held \ {i}
      /\ i \in held
      /\ res' = res
  BY DEF Put
<1>5. idx'[e] = i /\ \A x \in Entry \ {e} : idx'[x] = idx[x]
  BY <1>1, <1>4 DEF IInv, TypeOK
<1>6. TypeOK'
  BY <1>1, <1>2, <1>4 DEF IInv, TypeOK
<1>7. \A k \in 1 .. Len(free_entries) : free_entries[k] # e
  BY <1>1, <1>3 DEF IInv, EntriesApart
<1>8. EntriesApart'
  <2>1. \A k \in 1 .. Len(free_free_entries) - 1 : free_free_entries'[k] # e
    BY <1>1 DEF IInv, EntriesApart
  <2>2. ASSUME NEW k \in DOMAIN free_entries', NEW l \in DOMAIN free_entries',
               free_entries'[k] = free_entries'[l]
        PROVE  k = l
    <3>1. CASE k = 1 \/ l = 1
      BY <1>2, <1>3, <1>7, <2>2, <3>1
    <3>2. CASE k # 1 /\ l # 1
      <4>1. /\ k - 1 \in DOMAIN free_entries
            /\ l - 1 \in DOMAIN free_entries
            /\ free_entries[k - 1] = free_entries[l - 1]
            /\ k \in Nat /\ l \in Nat
        BY <1>2, <1>3, <2>2, <3>2
      <4>2. k - 1 = l - 1
        BY <4>1 DEF IInv, EntriesApart
      <4>3. QED
        BY <4>1, <4>2
    <3>3. QED
      BY <3>1, <3>2
  <2>3. ASSUME NEW k \in DOMAIN free_free_entries',
               NEW l \in DOMAIN free_free_entries',
               free_free_entries'[k] = free_free_entries'[l]
        PROVE  k = l
    <3>1. /\ k + 1 \in DOMAIN free_free_entries
          /\ l + 1 \in DOMAIN free_free_entries
          /\ free_free_entries[k + 1] = free_free_entries[l + 1]
          /\ k \in Nat /\ l \in Nat
      BY <1>1, <2>3
    <3>2. k + 1 = l + 1
      BY <3>1 DEF IInv, EntriesApart
    <3>3. QED
      BY <3>1, <3>2
  <2>4. ASSUME NEW k \in DOMAIN free_entries',
               NEW l \in DOMAIN free_free_entries'
        PROVE  free_entries'[k] # free_free_entries'[l]
    <3>1. /\ l + 1 \in DOMAIN free_free_entries
          /\ free_free_entries'[l] = free_free_entries[l + 1]
          /\ free_free_entries'[l] # e
      BY <1>1, <2>1
    <3>2. CASE k = 1
      BY <1>2, <3>1, <3>2
    <3>3. CASE k # 1
      <4>1. /\ k - 1 \in DOMAIN free_entries
            /\ free_entries'[k] = free_entries[k - 1]
        BY <1>2, <1>3, <3>3
      <4>2. QED
        BY <3>1, <4>1 DEF IInv, EntriesApart
    <3>4. QED
      BY <3>2, <3>3
  <2>5. QED
    BY <2>2, <2>3, <2>4 DEF EntriesApart
<1>9. FreeListExact'
  <2>1. \A k \in 2 .. Len(free_entries) + 1 :
           idx'[free_entries'[k]] = idx[free_entries[k - 1]]
    BY <1>2, <1>3, <1>5, <1>7
  <2>2. idx'[free_entries'[1]] = i
    BY <1>2, <1>5
  <2>3. \A k \in 1 .. Len(free_entries) : idx[free_entries[k]] \in Index \ held
    BY <1>3 DEF IInv, FreeListExact
  <2>4. \A k, l \in DOMAIN free_entries' :
           idx'[free_entries'[k]] = idx'[free_entries'[l]] => k = l
    <3>1. SUFFICES ASSUME NEW k \in DOMAIN free_entries',
                          NEW l \in DOMAIN free_entries',
                          idx'[free_entries'[k]] = idx'[free_entries'[l]]
                   PROVE  k = l
      OBVIOUS
    <3>2. CASE k = 1
      BY <1>2, <1>3, <1>4, <2>1, <2>2, <2>3, <3>1, <3>2
    <3>3. CASE l = 1
      BY <1>2, <1>3, <1>4, <2>1, <2>2, <2>3, <3>1, <3>3
    <3>4. CASE k # 1 /\ l # 1
      <4>1. /\ k \in 2 .. Len(free_entries) + 1
            /\ l \in 2 .. Len(free_entries) + 1
        BY <1>2, <1>3, <3>4
      <4>2. idx[free_entries[k - 1]] = idx[free_entries[l - 1]]
        BY <2>1, <3>1, <4>1
      <4>3. k - 1 \in DOMAIN free_entries /\ l - 1 \in DOMAIN free_entries
        BY <1>3, <4>1
      <4>4. k - 1 = l - 1
        BY <4>2, <4>3 DEF IInv, FreeListExact
      <4>5. QED
        BY <4>1, <4>4
    <3>5. QED
      BY <3>2, <3>3, <3>4
  <2>5. \A k \in DOMAIN free_entries' :
           idx'[free_entries'[k]] \in Index \ (held \ {i})
    BY <1>2, <1>3, <2>1, <2>2, <2>3
  <2>6. \A j \in Index \ (held \ {i}) :
           \E k \in DOMAIN free_entries' : idx'[free_entries'[k]] = j
    <3>1. TAKE j \in Index \ (held \ {i})
    <3>2. CASE j = i
      BY <1>2, <1>3, <2>2, <3>2
    <3>3. CASE j # i
      <4>1. PICK k \in DOMAIN free_entries : idx[free_entries[k]] = j
        BY <3>3 DEF IInv, FreeListExact
      <4>2. k + 1 \in 2 .. Len(free_entries) + 1
        BY <1>3, <4>1
      <4>3. idx'[free_entries'[k + 1]] = j
        BY <1>3, <2>1, <4>1, <4>2
      <4>4. QED
        BY <1>2, <1>3, <4>2, <4>3
    <3>4. QED
      BY <3>2, <3>3
  <2>7. QED
    BY <1>4, <2>4, <2>5, <2>6 DEF FreeListExact
<1>10. EntryPerHolder'
  BY <1>1, <1>4, FS_RemoveElement DEF IInv, EntryPerHolder
<1>11. QED
  BY <1>6, <1>8, <1>9, <1>10 DEF IInv

LEMMA NextIInv == IInv /\ [Next]_vars => IInv'
<1> SUFFICES ASSUME IInv, [Next]_vars PROVE IInv'
  OBVIOUS
<1>1. CASE GetIndex
  BY <1>1, GetIInv
<1>2. CASE GetNothing
  BY <1>2 DEF GetNothing, IInv, TypeOK, EntriesApart, FreeListExact,
              EntryPerHolder
<1>3. CASE \E i \in Index : Put(i)
  BY <1>3, PutIInv
<1>4. CASE UNCHANGED vars
  BY <1>4 DEF vars, IInv, TypeOK, EntriesApart, FreeListExact, EntryPerHolder
<1>5. QED
  BY <1>1, <1>2, <1>3, <1>4 DEF Next

LEMMA Invariance == Spec => []IInv
BY InitIInv, NextIInv, PTL DEF Spec

-----------------------------------------------------------------------------
(* The lists stay lists of entries and every answer is an index or -1. *)
THEOREM TypeCorrect == Spec => []TypeOK
BY Invariance, PTL DEF IInv

(* ffarman_get never lends an index somebody holds, and ffarman_put never *)
(* loses one, although entries and indices part company.                  *)
THEOREM IndicesExact == Spec => []FreeListExact
BY Invariance, PTL DEF IInv

LEMMA IInvPutHasEntry == IInv => PutHasEntry
BY FS_EmptySet, LenProperties
   DEF IInv, TypeOK, EntryPerHolder, PutHasEntry

(* The assert in ffarman_put holds whenever the caller returns an index it *)
(* was lent.                                                               *)
THEOREM PutNeverAsserts == Spec => []PutHasEntry
BY Invariance, IInvPutHasEntry, PTL

-----------------------------------------------------------------------------
LEMMA InitRefines == Init => Pool!Init
BY DEF Init, Pool!Init

LEMMA StepRefines == IInv /\ [Next]_vars => [Pool!Next]_<<held, res>>
<1> SUFFICES ASSUME IInv, [Next]_vars PROVE [Pool!Next]_<<held, res>>
  OBVIOUS
<1> USE DEF Pool!Index, Index
<1>1. CASE GetIndex
  <2>1. idx[Head(free_entries)] \in Index \ held
    BY <1>1, Pop DEF GetIndex, IInv, TypeOK, FreeListExact
  <2>2. Pool!Grant(idx[Head(free_entries)])
    BY <1>1, <2>1 DEF GetIndex, Pool!Grant
  <2>3. QED
    BY <2>1, <2>2 DEF Pool!Next
<1>2. CASE GetNothing
  <2>1. DOMAIN free_entries = {}
    BY <1>2 DEF GetNothing
  <2>2. held = Index
    BY <2>1 DEF IInv, TypeOK, FreeListExact
  <2>3. QED
    BY <1>2, <2>2 DEF GetNothing, Pool!Refuse, Pool!Next
<1>3. CASE \E i \in Index : Put(i)
  BY <1>3 DEF Put, Pool!GiveBack, Pool!Next
<1>4. CASE UNCHANGED vars
  BY <1>4 DEF vars
<1>5. QED
  BY <1>1, <1>2, <1>3, <1>4 DEF Next

(* The two lists implement the pool of indices that the storage, the MPI   *)
(* request table and the custom operators rely on.                         *)
THEOREM Refinement == Spec => PoolSpec
BY InitRefines, StepRefines, Invariance, PTL DEF Spec, PoolSpec, Pool!Spec
=============================================================================
