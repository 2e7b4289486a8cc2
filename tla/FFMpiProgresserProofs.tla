----------------------- MODULE FFMpiProgresserProofs -----------------------
(***************************************************************************)
(* What holds of the table of requests for every set of operations, every  *)
(* order in which both threads post them and every size of the table, the  *)
(* overlap of a track with a release and the full table included.          *)
(***************************************************************************)
EXTENDS FFMpiProgresser, SequenceTheorems, FiniteSetTheorems, TLAPS

-----------------------------------------------------------------------------
(* The invariant. *)

Distinct(s) == \A j, k \in 1 .. Len(s) : s[j] = s[k] => j = k

Stores(t) == pc[t] \in {"store_op", "store_req"}
Releases == pc["prog"] \in {"clear_req", "clear_op"}

(* The slots MPI_Testsome gave whose operations are not on the list yet,   *)
(* the operations that it has reported and that are not completed, and     *)
(* those no request of the table belongs to any more.                      *)
Given == Seqs(Unlisted)
Listed == {posted_ops[i] : i \in Given} \ {None}
Reported == Seqs(ready) \cup Listed
Lost == {o \in active : ~Tracked(o)}

(* Where each thread can be with what it has at hand. *)
Places ==
  /\ pc["app"] \in {"idle", "work", "store_op", "store_req"}
  /\ outs # <<>> => pc["prog"] = "enqueue" \/ Releases
  /\ Releases => outs # <<>>
  /\ Distinct(outs) /\ Distinct(ready)

(* The slots MPI tests. *)
Tested ==
  \A i \in Slot : requests[i] # None =>
    /\ i \in held /\ requests[i] \in active
    /\ \/ posted_ops[i] = requests[i]
       \/ posted_ops[i] = None /\ requests[i] \in exposed
    /\ \A j \in Slot : requests[j] = requests[i] => j = i
    /\ i \in Releasing => requests[i] \in exposed

(* The slots the progress thread has been given. *)
Returned ==
  \A i \in Given :
    /\ i \in held /\ requests[i] = None
    /\ posted_ops[i] = None => Lost # {}
    /\ posted_ops[i] # None =>
         /\ posted_ops[i] \notin Seqs(ready)
         /\ \A j \in Given : posted_ops[j] = posted_ops[i] => j = i

(* The slots that are being filled. *)
Filled ==
  \A t \in Thread : Stores(t) =>
    /\ op[t] \in active /\ \A i \in Slot : requests[i] # op[t]
    /\ \A u \in Thread \ {t} : Stores(u) =>
         op[u] # op[t] /\ (idx[u] # idx[t] \/ idx[t] = None)
    /\ idx[t] = None => op[t] \in exposed
    /\ idx[t] # None =>
         /\ idx[t] \in held \ Given /\ requests[idx[t]] = None
         /\ idx[t] \in Releasing => op[t] \in exposed
         /\ pc[t] = "store_req" =>
              \/ posted_ops[idx[t]] = op[t]
              \/ posted_ops[idx[t]] = None /\ op[t] \in exposed

(* Every slot that is lent is one of these, unless an operation is lost    *)
(* (the slot of a lost operation is never given back), and one that is not *)
(* is clear, or being cleared.                                             *)
Lent ==
  /\ \A i \in held : \/ requests[i] # None \/ i \in Given \/ Lost # {}
                     \/ \E t \in Thread : Stores(t) /\ idx[t] = i
  /\ \A i \in Slot \ held : posted_ops[i] # None => i \in Releasing

(* An operation is at one place of its way at a time. *)
OpsApart ==
  /\ active \cap Reported = {} /\ active \cap finished = {}
  /\ Reported \cap finished = {}
  /\ unposted \cap (active \cup Reported \cup finished) = {}

TableInv == /\ TypeOK /\ Places /\ Tested /\ Returned /\ Filled /\ Lent
            /\ OpsApart /\ NoneLost

-----------------------------------------------------------------------------
(* Sequences as sets. *)

LEMMA EmptyFacts == Seqs(<<>>) = {} /\ Distinct(<<>>)
BY DEF Seqs, Distinct

LEMMA SetOfSeq ==
  ASSUME NEW S, NEW s \in Seq(S)
  PROVE  /\ Seqs(s) \subseteq S
         /\ Seqs(s) = {} => s = <<>>
         /\ s # <<>> => Head(s) \in Seqs(s)
<1>1. DOMAIN s = 1 .. Len(s) /\ Len(s) \in Nat
  BY LenProperties
<1>2. \A k \in 1 .. Len(s) : s[k] \in S
  BY ElementOfSeq
<1>3. ASSUME s # <<>> PROVE Head(s) = s[1] /\ 1 \in 1 .. Len(s)
  BY <1>1, <1>3, EmptySeq
<1>4. Seqs(s) \subseteq S
  BY <1>1, <1>2 DEF Seqs
<1>5. QED
  BY <1>1, <1>3, <1>4 DEF Seqs

LEMMA TailFacts ==
  ASSUME NEW S, NEW s \in Seq(S), s # <<>>, Distinct(s)
  PROVE  /\ Tail(s) \in Seq(S) /\ Distinct(Tail(s))
         /\ Seqs(Tail(s)) = Seqs(s) \ {Head(s)}
<1>1. /\ DOMAIN s = 1 .. Len(s) /\ Len(s) \in Nat \ {0}
      /\ Head(s) = s[1]
  BY LenProperties, EmptySeq
<1>2. /\ Tail(s) \in Seq(S) /\ Len(Tail(s)) = Len(s) - 1
      /\ \A i \in 1 .. Len(Tail(s)) : Tail(s)[i] = s[i + 1]
  BY HeadTailProperties
<1>3. DOMAIN Tail(s) = 1 .. Len(s) - 1
  BY <1>2, LenProperties
<1>4. Distinct(Tail(s))
  <2>1. SUFFICES ASSUME NEW j \in 1 .. Len(Tail(s)), NEW k \in 1 .. Len(Tail(s)),
                        Tail(s)[j] = Tail(s)[k]
                 PROVE  j = k
    BY DEF Distinct
  <2>2. j + 1 \in 1 .. Len(s) /\ k + 1 \in 1 .. Len(s) /\ s[j + 1] = s[k + 1]
    BY <1>1, <1>2, <2>1
  <2>3. j + 1 = k + 1
    BY <2>2 DEF Distinct
  <2>4. QED
    BY <1>1, <1>2, <2>3
<1>5. ASSUME NEW x \in Seqs(Tail(s)) PROVE x \in Seqs(s) \ {Head(s)}
  <2>1. PICK k \in 1 .. Len(s) - 1 : x = Tail(s)[k]
    BY <1>3 DEF Seqs
  <2>2. k + 1 \in 1 .. Len(s) /\ x = s[k + 1] /\ k + 1 # 1 /\ 1 \in 1 .. Len(s)
    BY <1>1, <1>2, <2>1
  <2>3. x # s[1]
    BY <2>2 DEF Distinct
  <2>4. QED
    BY <1>1, <2>2, <2>3 DEF Seqs
<1>6. ASSUME NEW x \in Seqs(s) \ {Head(s)} PROVE x \in Seqs(Tail(s))
  <2>1. PICK k \in 1 .. Len(s) : x = s[k]
    BY <1>1 DEF Seqs
  <2>2. k # 1
    BY <1>1, <2>1
  <2>3. k - 1 \in 1 .. Len(s) - 1 /\ Tail(s)[k - 1] = s[k]
    BY <1>1, <1>2, <2>2
  <2>4. QED
    BY <1>3, <2>1, <2>3 DEF Seqs
<1>7. QED
  BY <1>2, <1>4, <1>5, <1>6

LEMMA ConsFacts ==
  ASSUME NEW S, NEW s \in Seq(S), NEW x \in S \ Seqs(s), Distinct(s)
  PROVE  /\ <<x>> \o s \in Seq(S) /\ <<x>> \o s # <<>>
         /\ Distinct(<<x>> \o s)
         /\ Seqs(<<x>> \o s) = Seqs(s) \cup {x}
<1> DEFINE q == <<x>> \o s
<1>1. <<x>> \in Seq(S) /\ Len(<<x>>) = 1 /\ <<x>>[1] = x
  OBVIOUS
<1>2. /\ q \in Seq(S) /\ Len(q) = 1 + Len(s)
      /\ \A i \in 1 .. 1 + Len(s) : q[i] = IF i <= 1 THEN <<x>>[i] ELSE s[i - 1]
  BY <1>1, ConcatProperties
<1>3. Len(s) \in Nat /\ DOMAIN s = 1 .. Len(s) /\ DOMAIN q = 1 .. 1 + Len(s)
  BY <1>2, LenProperties
<1>4. \A i \in 1 .. 1 + Len(s) : /\ i = 1 => q[i] = x
                                /\ i # 1 => i - 1 \in 1 .. Len(s) /\ q[i] = s[i - 1]
  BY <1>1, <1>2, <1>3
<1>5. \A k \in 1 .. Len(s) : s[k] # x /\ k + 1 \in 1 .. 1 + Len(s) /\ q[k + 1] = s[k]
  <2>1. SUFFICES ASSUME NEW k \in 1 .. Len(s)
                 PROVE  s[k] # x /\ k + 1 \in 1 .. 1 + Len(s) /\ q[k + 1] = s[k]
    OBVIOUS
  <2>2. s[k] # x
    BY <1>3 DEF Seqs
  <2>3. k + 1 \in 1 .. 1 + Len(s) /\ k + 1 # 1 /\ (k + 1) - 1 = k
    BY <1>3
  <2>4. QED
    BY <1>4, <2>2, <2>3
<1>6. Distinct(q)
  <2>1. SUFFICES ASSUME NEW j \in 1 .. Len(q), NEW k \in 1 .. Len(q), q[j] = q[k]
                 PROVE  j = k
    BY DEF Distinct
  <2>2. CASE j = 1 \/ k = 1
    BY <1>2, <1>4, <1>5, <2>1, <2>2
  <2>3. CASE j # 1 /\ k # 1
    <3>1. j - 1 \in 1 .. Len(s) /\ k - 1 \in 1 .. Len(s) /\ s[j - 1] = s[k - 1]
      BY <1>2, <1>4, <2>1, <2>3
    <3>2. j - 1 = k - 1
      BY <3>1 DEF Distinct
    <3>3. QED
      BY <1>2, <1>3, <3>2
  <2>4. QED
    BY <2>2, <2>3
<1>7. Seqs(q) = Seqs(s) \cup {x}
  <2>1. ASSUME NEW y \in Seqs(q) PROVE y \in Seqs(s) \cup {x}
    BY <1>3, <1>4, <2>1 DEF Seqs
  <2>2. ASSUME NEW y \in Seqs(s) PROVE y \in Seqs(q)
    BY <1>3, <1>5, <2>2 DEF Seqs
  <2>3. 1 \in 1 .. 1 + Len(s) /\ q[1] = x
    BY <1>3, <1>4
  <2>4. x \in Seqs(q)
    BY <1>3, <2>3 DEF Seqs
  <2>5. QED
    BY <2>1, <2>2, <2>4
<1>8. q # <<>>
  BY <1>2, <1>3, EmptySeq
<1>9. QED
  BY <1>2, <1>6, <1>7, <1>8
-----------------------------------------------------------------------------
(* What is lost stays lost. *)

LEMMA NoneNoSlot == None \notin Slot
BY SlotsAssumption, NoneAssumption DEF Slot

LEMMA LostFacts ==
  ASSUME NEW o \in Lost
  PROVE  /\ o \in active
         /\ \A i \in held : requests[i] = o => posted_ops[i] # o
         /\ \A t \in Thread : Stores(t) => op[t] # o
BY DEF Lost, Tracked, InTable, Storing, Stores

LEMMA IsLost ==
  ASSUME NEW o, o \in active',
         \A i \in held' : requests'[i] = o => posted_ops'[i] # o,
         \A t \in Thread : Stores(t)' => op'[t] # o
  PROVE  Lost' # {}
<1>1. ~Tracked(o)'
  BY DEF Tracked, InTable, Storing, Stores
<1>2. QED
  BY <1>1 DEF Lost

-----------------------------------------------------------------------------
(* The invariant holds at the start, and every step keeps it. *)

LEMMA InitTable == Init => TableInv
<1>1. SUFFICES ASSUME Init PROVE TableInv
  OBVIOUS
<1>2. held = {} /\ res = None
  BY <1>1 DEF Init, index_manager!Init
<1>3. Given = {} /\ Reported = {}
  BY <1>1, EmptyFacts DEF Init, Given, Reported, Listed, Unlisted
<1>4. \A t \in Thread : ~Stores(t)
  BY <1>1 DEF Init, Stores, Thread
<1>5. TypeOK
  BY <1>1, <1>2 DEF Init, TypeOK, Thread
<1>6. Places
  BY <1>1, EmptyFacts DEF Init, Places, Thread, Releases
<1>7. Tested /\ Returned /\ Filled
  BY <1>1, <1>3, <1>4 DEF Init, Tested, Returned, Filled
<1>8. Lent
  BY <1>1, <1>2 DEF Init, Lent
<1>9. OpsApart /\ NoneLost
  BY <1>1, <1>3 DEF Init, OpsApart, NoneLost
<1>10. QED
  BY <1>5, <1>6, <1>7, <1>8, <1>9 DEF TableInv

(* Steps that leave the slots alone. *)
LEMMA SlotsLeftAlone ==
  ASSUME TableInv, UNCHANGED <<held, tableVars, active, op, idx, exposed>>,
         Given' = Given, Releasing' = Releasing,
         \A t \in Thread : /\ Stores(t)' = Stores(t)
                           /\ pc'[t] = "store_req" <=> pc[t] = "store_req",
         Seqs(ready') \subseteq Seqs(ready)
  PROVE  Tested' /\ Returned' /\ Filled' /\ Lent' /\ NoneLost'
<1> USE DEF tableVars
<1>1. \A o \in Ops : Tracked(o)' = Tracked(o)
  BY DEF Tracked, InTable, Storing, Stores
<1>2. Lost' = Lost
  BY <1>1 DEF Lost, TableInv, TypeOK
<1>3. Tested'
  BY DEF TableInv, Tested
<1>4. Returned'
  BY <1>2 DEF TableInv, Returned
<1>5. Filled'
  BY DEF TableInv, Filled
<1>6. Lent'
  BY <1>2 DEF TableInv, Lent
<1>7. NoneLost'
  BY <1>1 DEF TableInv, TypeOK, NoneLost
<1>8. QED
  BY <1>3, <1>4, <1>5, <1>6, <1>7

LEMMA AppPostedKeeps ==
  ASSUME TableInv, AppPosted
  PROVE  TableInv' /\ active' = active /\ Reported' = Reported
<1> USE DEF AppPosted, GoTo, tableVars, trackVars
<1>1. /\ pc'["prog"] = pc["prog"] /\ pc'["app"] = "idle" /\ pc["app"] = "work"
      /\ UNCHANGED <<outs, ready, posted_ops>>
  BY DEF TableInv, TypeOK, Thread
<1>2. Given' = Given /\ Releasing' = Releasing /\ Releases' = Releases
  BY <1>1 DEF Given, Unlisted, Releasing, Releases
<1>3. Reported' = Reported
  BY <1>1, <1>2 DEF Reported, Listed
<1>4. \A t \in Thread : /\ Stores(t)' = Stores(t)
                        /\ pc'[t] = "store_req" <=> pc[t] = "store_req"
  BY <1>1 DEF Stores, Thread
<1>5. TypeOK'
  BY DEF TableInv, TypeOK
<1>6. Places'
  BY <1>1, <1>2 DEF TableInv, Places
<1>7. Tested' /\ Returned' /\ Filled' /\ Lent' /\ NoneLost'
  BY <1>2, <1>4, SlotsLeftAlone
<1>8. OpsApart'
  BY <1>3 DEF TableInv, OpsApart
<1>9. QED
  BY <1>3, <1>5, <1>6, <1>7, <1>8 DEF TableInv

LEMMA ListDoneKeeps ==
  ASSUME TableInv, ListDone
  PROVE  TableInv' /\ active' = active /\ Reported' = Reported
<1> USE DEF ListDone, GoTo, tableVars, trackVars
<1>1. /\ pc'["prog"] = "idle" /\ pc["prog"] = "work" /\ pc'["app"] = pc["app"]
      /\ UNCHANGED <<outs, ready, posted_ops>>
  BY DEF TableInv, TypeOK, Thread
<1>2. outs = <<>> /\ ~Releases /\ ~Releases'
  BY <1>1 DEF TableInv, Places, Releases
<1>3. Given' = Given /\ Releasing' = Releasing
  BY <1>1, <1>2 DEF Given, Unlisted, Releasing
<1>4. Reported' = Reported
  BY <1>1, <1>3 DEF Reported, Listed
<1>5. \A t \in Thread : /\ Stores(t)' = Stores(t)
                        /\ pc'[t] = "store_req" <=> pc[t] = "store_req"
  BY <1>1 DEF Stores, Thread
<1>6. TypeOK'
  BY DEF TableInv, TypeOK
<1>7. Places'
  BY <1>1, <1>2 DEF TableInv, Places
<1>8. Tested' /\ Returned' /\ Filled' /\ Lent' /\ NoneLost'
  BY <1>3, <1>5, SlotsLeftAlone
<1>9. OpsApart'
  BY <1>4 DEF TableInv, OpsApart
<1>10. QED
  BY <1>4, <1>6, <1>7, <1>8, <1>9 DEF TableInv

LEMMA StartRoundKeeps ==
  ASSUME TableInv, StartRound
  PROVE  TableInv' /\ active' = active /\ Reported' = Reported
<1> USE DEF StartRound, GoTo, tableVars
<1>1. /\ pc'["prog"] = pc["prog"] /\ pc'["app"] = "work" /\ pc["app"] = "idle"
      /\ UNCHANGED <<outs, ready, posted_ops>>
  BY DEF TableInv, TypeOK, Thread
<1>2. Given' = Given /\ Releasing' = Releasing /\ Releases' = Releases
  BY <1>1 DEF Given, Unlisted, Releasing, Releases
<1>3. Reported' = Reported
  BY <1>1, <1>2 DEF Reported, Listed
<1>4. \A t \in Thread : /\ Stores(t)' = Stores(t)
                        /\ pc'[t] = "store_req" <=> pc[t] = "store_req"
  BY <1>1 DEF Stores, Thread
<1>5. TypeOK'
  BY DEF TableInv, TypeOK
<1>6. Places'
  BY <1>1, <1>2 DEF TableInv, Places
<1>7. Tested' /\ Returned' /\ Filled' /\ Lent' /\ NoneLost'
  BY <1>2, <1>4, SlotsLeftAlone
<1>8. OpsApart'
  <2>1. Reported \subseteq Ops
    BY SetOfSeq DEF TableInv, TypeOK, Reported, Listed, Returned
  <2>2. active = {} /\ Reported = {}
    BY <2>1 DEF TableInv, TypeOK, OpsApart
  <2>3. QED
    BY <1>3, <2>2 DEF OpsApart
<1>9. QED
  BY <1>3, <1>5, <1>6, <1>7, <1>8 DEF TableInv

(* The list gives its head away. *)
LEMMA CompleteFirstKeeps ==
  ASSUME TableInv, CompleteFirst
  PROVE  /\ TableInv' /\ active' = active
         /\ ready # <<>> /\ Head(ready) \in Reported
         /\ Reported' = Reported \ {Head(ready)}
<1> USE DEF CompleteFirst, GoTo, tableVars, trackVars
<1>1. /\ pc["prog"] \in {"enqueue", "work"} /\ pc'["prog"] = "work"
      /\ pc'["app"] = pc["app"] /\ ready # <<>> /\ ready' = Tail(ready)
      /\ finished' = finished \cup {Head(ready)}
      /\ UNCHANGED <<held, res, posted_ops, requests, active, unposted, op, idx,
                     outs, exposed>>
  BY DEF TableInv, TypeOK, Thread
<1>2. outs = <<>> /\ ~Releases /\ ~Releases'
  BY <1>1 DEF TableInv, Places, Releases
<1>3. Given' = Given /\ Releasing' = Releasing
  BY <1>1, <1>2 DEF Given, Unlisted, Releasing
<1>4. Given = {} /\ Listed = {} /\ Listed' = {}
  <2>1. Given = {}
    BY <1>1, <1>2, EmptyFacts DEF Given, Unlisted
  <2>2. QED
    BY <1>3, <2>1 DEF Listed
<1>5. /\ ready' \in Seq(Ops) /\ Distinct(ready')
      /\ Seqs(ready') = Seqs(ready) \ {Head(ready)}
      /\ Head(ready) \in Seqs(ready) /\ Seqs(ready) \subseteq Ops
  BY <1>1, TailFacts, SetOfSeq DEF TableInv, TypeOK, Places
<1>6. Reported' = Reported \ {Head(ready)} /\ Head(ready) \in Reported
  BY <1>4, <1>5 DEF Reported
<1>7. \A t \in Thread : /\ Stores(t)' = Stores(t)
                        /\ pc'[t] = "store_req" <=> pc[t] = "store_req"
  BY <1>1 DEF Stores, Thread
<1>8. TypeOK'
  <2>1. finished' \subseteq Ops
    BY <1>1, <1>5 DEF TableInv, TypeOK
  <2>2. pc' \in [Thread -> {"idle", "work", "store_op", "store_req",
                            "enqueue", "clear_req", "clear_op"}]
    BY DEF TableInv, TypeOK
  <2>3. QED
    BY <1>1, <1>5, <2>1, <2>2 DEF TableInv, TypeOK
<1>9. Places'
  BY <1>1, <1>2, <1>5 DEF TableInv, Places
<1>10. Tested' /\ Returned' /\ Filled' /\ Lent' /\ NoneLost'
  BY <1>1, <1>3, <1>5, <1>7, SlotsLeftAlone
<1>11. OpsApart'
  BY <1>1, <1>6 DEF TableInv, OpsApart
<1>12. QED
  BY <1>1, <1>6, <1>8, <1>9, <1>10, <1>11 DEF TableInv

LEMMA StoreOpKeeps ==
  ASSUME TableInv, NEW t \in Thread, StoreOp(t)
  PROVE  TableInv' /\ active' = active /\ Reported' = Reported
<1>1. /\ pc[t] = "store_op" /\ pc'[t] = "store_req"
      /\ \A u \in Thread : u # t => pc'[u] = pc[u]
      /\ UNCHANGED <<held, res, requests, active, unposted, op, idx, exposed, outs,
                     ready, finished>>
  BY DEF TableInv, TypeOK, StoreOp, GoTo, trackVars
<1>2. /\ Stores(t) /\ op[t] \in active
      /\ idx[t] = None => op[t] \in exposed
      /\ idx[t] # None => /\ idx[t] \in Slot /\ idx[t] \in held \ Given
                          /\ requests[idx[t]] = None
                          /\ idx[t] \in Releasing => op[t] \in exposed
      /\ \A j \in Slot : j = idx[t] => idx[t] # None
  BY <1>1, NoneNoSlot DEF TableInv, TypeOK, Filled, Stores
<1>3. op[t] \in Ops /\ op[t] # None
  BY <1>2, NoneAssumption DEF TableInv, TypeOK
<1>4. /\ posted_ops' \in [Slot -> Ops \cup {None}]
      /\ \A j \in Slot : j # idx[t] => posted_ops'[j] = posted_ops[j]
      /\ idx[t] # None => posted_ops'[idx[t]] = op[t]
  BY <1>2, <1>3 DEF StoreOp, TableInv, TypeOK
<1>5. \A u \in Thread : Stores(u)' = Stores(u)
  BY <1>1 DEF Stores
<1>6. Given' = Given /\ Releases' = Releases /\ Releasing' = Releasing
  <2>1. Unlisted' = Unlisted /\ Releases' = Releases /\ Releasing' = Releasing
    BY <1>1 DEF Unlisted, Releases, Releasing, Thread
  <2>2. QED
    BY <2>1 DEF Given
<1>7. \A j \in Given : j \in Slot /\ posted_ops'[j] = posted_ops[j]
  BY <1>2, <1>4 DEF TableInv, TypeOK, Returned
<1>8. Listed' = Listed /\ Reported' = Reported
  BY <1>1, <1>6, <1>7 DEF Reported, Listed
<1>9. \A j \in Slot : requests[j] # None => posted_ops'[j] = posted_ops[j]
  BY <1>2, <1>4
<1>10. \A o \in Ops : Tracked(o)' = Tracked(o)
  <2>1. \A o \in Ops : InTable(o)' = InTable(o)
    BY <1>1, <1>9, NoneAssumption DEF InTable, TableInv, TypeOK
  <2>2. \A o, u : u \in Thread => Storing(u, o)' = Storing(u, o)
    BY <1>1 DEF Storing
  <2>3. QED
    BY <2>1, <2>2 DEF Tracked
<1>11. Lost' = Lost
  BY <1>1, <1>10 DEF Lost, TableInv, TypeOK
<1>12. TypeOK'
  <2>1. pc' \in [Thread -> {"idle", "work", "store_op", "store_req",
                            "enqueue", "clear_req", "clear_op"}]
    BY DEF TableInv, TypeOK, StoreOp, GoTo
  <2>2. QED
    BY <1>1, <1>4, <2>1 DEF TableInv, TypeOK
<1>13. Places'
  BY <1>1, <1>6 DEF TableInv, Places, Thread
<1>14. Tested'
  BY <1>1, <1>6, <1>9 DEF TableInv, Tested
<1>15. Returned'
  BY <1>1, <1>6, <1>7, <1>11 DEF TableInv, Returned
<1>16. Filled'
  <2>1. SUFFICES ASSUME NEW u \in Thread, Stores(u)
                 PROVE  /\ op[u] \in active /\ \A i \in Slot : requests[i] # op[u]
                        /\ \A v \in Thread \ {u} : Stores(v) =>
                             op[v] # op[u] /\ (idx[v] # idx[u] \/ idx[u] = None)
                        /\ idx[u] = None => op[u] \in exposed
                        /\ idx[u] # None =>
                             /\ idx[u] \in held \ Given /\ requests[idx[u]] = None
                             /\ idx[u] \in Releasing => op[u] \in exposed
                             /\ pc'[u] = "store_req" =>
                                  \/ posted_ops'[idx[u]] = op[u]
                                  \/ posted_ops'[idx[u]] = None /\ op[u] \in exposed
    BY <1>1, <1>5, <1>6 DEF Filled
  <2>2. CASE u = t
    BY <1>2, <1>4, <2>1, <2>2 DEF TableInv, Filled
  <2>3. CASE u # t
    <3>1. idx[u] # None => idx[u] # idx[t] /\ idx[u] \in Slot
      BY <1>2, <2>1, <2>3 DEF TableInv, TypeOK, Filled
    <3>2. idx[u] # None => posted_ops'[idx[u]] = posted_ops[idx[u]]
      BY <1>4, <3>1
    <3>3. pc'[u] = pc[u]
      BY <1>1, <2>3
    <3>4. QED
      BY <2>1, <3>2, <3>3 DEF TableInv, Filled
  <2>4. QED
    BY <2>2, <2>3
<1>17. Lent'
  BY <1>1, <1>2, <1>4, <1>5, <1>6, <1>11 DEF TableInv, Lent
<1>18. OpsApart'
  BY <1>1, <1>8 DEF TableInv, OpsApart
<1>19. NoneLost'
  BY <1>1, <1>10 DEF TableInv, TypeOK, NoneLost
<1>20. QED
  BY <1>1, <1>8, <1>12, <1>13, <1>14, <1>15, <1>16, <1>17, <1>18, <1>19 DEF TableInv

LEMMA StoreReqKeeps ==
  ASSUME TableInv, NEW t \in Thread, StoreReq(t)
  PROVE  TableInv' /\ active' = active /\ Reported' = Reported
<1>1. /\ pc[t] = "store_req" /\ pc'[t] = "work"
      /\ \A u \in Thread : u # t => pc'[u] = pc[u] /\ op'[u] = op[u]
      /\ UNCHANGED <<held, res, posted_ops, active, unposted, idx, exposed, outs,
                     ready, finished>>
  BY DEF TableInv, TypeOK, StoreReq, GoTo
<1>2. /\ Stores(t) /\ op[t] \in active /\ \A i \in Slot : requests[i] # op[t]
      /\ idx[t] = None => op[t] \in exposed
      /\ idx[t] # None =>
           /\ idx[t] \in Slot /\ idx[t] \in held \ Given
           /\ requests[idx[t]] = None
           /\ idx[t] \in Releasing => op[t] \in exposed
           /\ \/ posted_ops[idx[t]] = op[t]
              \/ posted_ops[idx[t]] = None /\ op[t] \in exposed
      /\ \A j \in Slot : j = idx[t] => idx[t] # None
  BY <1>1, NoneNoSlot DEF TableInv, TypeOK, Filled, Stores
<1>3. op[t] \in Ops /\ op[t] # None
  BY <1>2, NoneAssumption DEF TableInv, TypeOK
<1>4. /\ requests' \in [Slot -> Ops \cup {None}]
      /\ \A j \in Slot : j # idx[t] => requests'[j] = requests[j]
      /\ idx[t] # None => requests'[idx[t]] = op[t]
  BY <1>2, <1>3 DEF StoreReq, TableInv, TypeOK
<1>5. ~Stores(t)' /\ \A u \in Thread : u # t => Stores(u)' = Stores(u)
  BY <1>1 DEF Stores
<1>6. Given' = Given /\ Releases' = Releases /\ Releasing' = Releasing
  <2>1. Unlisted' = Unlisted /\ Releases' = Releases /\ Releasing' = Releasing
    BY <1>1 DEF Unlisted, Releases, Releasing, Thread
  <2>2. QED
    BY <2>1 DEF Given
<1>7. Listed' = Listed /\ Reported' = Reported
  BY <1>1, <1>6 DEF Reported, Listed
<1>8. \A u \in Thread : u # t /\ Stores(u) =>
        op[u] # op[t] /\ (idx[u] # idx[t] \/ idx[u] = None)
  BY <1>2 DEF TableInv, Filled
<1>9. Lost # {} => Lost' # {}
  <2>1. SUFFICES ASSUME NEW o \in Lost PROVE Lost' # {}
    OBVIOUS
  <2>2. o # op[t] /\ o \in active
    BY <1>2, <2>1, LostFacts
  <2>3. \A i \in held : requests'[i] = o => posted_ops[i] # o
    BY <1>2, <1>4, <2>1, <2>2, LostFacts DEF TableInv, TypeOK
  <2>4. \A u \in Thread : Stores(u)' => op'[u] # o
    BY <1>1, <1>5, <2>1, LostFacts
  <2>5. QED
    BY <1>1, <2>2, <2>3, <2>4, IsLost
<1>10. TypeOK'
  <2>1. pc' \in [Thread -> {"idle", "work", "store_op", "store_req",
                            "enqueue", "clear_req", "clear_op"}]
    BY DEF TableInv, TypeOK, StoreReq, GoTo
  <2>2. op' \in [Thread -> Ops \cup {None}]
    BY DEF TableInv, TypeOK, StoreReq
  <2>3. QED
    BY <1>1, <1>4, <2>1, <2>2 DEF TableInv, TypeOK
<1>11. Places'
  BY <1>1, <1>6 DEF TableInv, Places, Thread
<1>12. Tested'
  <2>1. SUFFICES ASSUME NEW i \in Slot, requests'[i] # None
                 PROVE  /\ i \in held /\ requests'[i] \in active
                        /\ \/ posted_ops[i] = requests'[i]
                           \/ posted_ops[i] = None /\ requests'[i] \in exposed
                        /\ \A j \in Slot : requests'[j] = requests'[i] => j = i
                        /\ i \in Releasing => requests'[i] \in exposed
    BY <1>1, <1>6 DEF Tested
  <2>2. CASE i = idx[t]
    BY <1>2, <1>3, <1>4, <2>1, <2>2, NoneAssumption
  <2>3. CASE i # idx[t]
    <3>1. requests'[i] = requests[i] /\ requests[i] # op[t]
      BY <1>2, <1>4, <2>3
    <3>2. QED
      BY <1>2, <1>4, <2>1, <3>1 DEF TableInv, Tested
  <2>4. QED
    BY <2>2, <2>3
<1>13. Returned'
  <2>1. \A i \in Given : i \in Slot /\ requests'[i] = requests[i]
    BY <1>2, <1>4 DEF TableInv, TypeOK, Returned
  <2>2. QED
    BY <1>1, <1>6, <1>9, <2>1 DEF TableInv, Returned
<1>14. Filled'
  <2>1. SUFFICES ASSUME NEW u \in Thread, Stores(u), u # t
                 PROVE  /\ op[u] \in active /\ \A i \in Slot : requests'[i] # op[u]
                        /\ \A v \in Thread \ {u} : v # t /\ Stores(v) =>
                             op[v] # op[u] /\ (idx[v] # idx[u] \/ idx[u] = None)
                        /\ idx[u] = None => op[u] \in exposed
                        /\ idx[u] # None =>
                             /\ idx[u] \in held \ Given /\ requests'[idx[u]] = None
                             /\ idx[u] \in Releasing => op[u] \in exposed
                             /\ pc[u] = "store_req" =>
                                  \/ posted_ops[idx[u]] = op[u]
                                  \/ posted_ops[idx[u]] = None /\ op[u] \in exposed
    BY <1>1, <1>5, <1>6 DEF Filled
  <2>2. op[u] # op[t] /\ (idx[u] # idx[t] \/ idx[u] = None)
    BY <1>8, <2>1
  <2>3. \A i \in Slot : requests'[i] # op[u]
    BY <1>2, <1>4, <2>1, <2>2, NoneAssumption DEF TableInv, TypeOK, Filled
  <2>4. idx[u] # None => requests'[idx[u]] = requests[idx[u]]
    BY <1>4, <2>1, <2>2 DEF TableInv, TypeOK
  <2>5. QED
    BY <2>1, <2>3, <2>4 DEF TableInv, Filled
<1>15. Lent'
  <2>1. ASSUME NEW i \in held
        PROVE  \/ requests'[i] # None \/ i \in Given \/ Lost' # {}
               \/ \E u \in Thread : Stores(u)' /\ idx[u] = i
    <3>1. i \in Slot
      BY DEF TableInv, TypeOK
    <3>2. CASE i = idx[t]
      BY <1>2, <1>3, <1>4, <3>1, <3>2
    <3>3. CASE i # idx[t]
      BY <1>4, <1>5, <1>9, <2>1, <3>1, <3>3 DEF TableInv, Lent
    <3>4. QED
      BY <3>2, <3>3
  <2>2. QED
    BY <1>1, <1>6, <2>1 DEF TableInv, Lent
<1>16. OpsApart'
  BY <1>1, <1>7 DEF TableInv, OpsApart
<1>17. NoneLost'
  <2>1. SUFFICES ASSUME NEW o \in active \ exposed PROVE Tracked(o)'
    BY <1>1 DEF NoneLost
  <2>2. CASE o = op[t]
    BY <1>1, <1>2, <1>4, <2>1, <2>2, NoneAssumption
       DEF Tracked, InTable
  <2>3. CASE o # op[t]
    <3>1. Tracked(o) /\ o \in Ops /\ o # None
      BY <2>1, NoneAssumption DEF TableInv, TypeOK, NoneLost
    <3>2. CASE InTable(o)
      <4>1. PICK i \in held : requests[i] = o /\ posted_ops[i] = o
        BY <3>2 DEF InTable
      <4>2. i \in Slot /\ i # idx[t]
        BY <1>2, <3>1, <4>1, NoneAssumption DEF TableInv, TypeOK
      <4>3. InTable(o)'
        BY <1>1, <1>4, <4>1, <4>2 DEF InTable
      <4>4. QED
        BY <4>3 DEF Tracked
    <3>3. CASE \E u \in Thread : Storing(u, o)
      BY <1>1, <2>3, <3>3 DEF Tracked, Storing
    <3>4. QED
      BY <3>1, <3>2, <3>3 DEF Tracked
  <2>4. QED
    BY <2>2, <2>3
<1>18. QED
  BY <1>1, <1>7, <1>10, <1>11, <1>12, <1>13, <1>14, <1>15, <1>16, <1>17 DEF TableInv

LEMMA GetSlotKeeps ==
  ASSUME TableInv, NEW t \in Thread, NEW o \in Ops, GetSlot(t, o)
  PROVE  /\ TableInv' /\ o \notin active \cup Reported
         /\ active' = active \cup {o} /\ Reported' = Reported
<1>1. /\ pc[t] = "work" /\ pc'[t] = "store_op" /\ op'[t] = o /\ idx'[t] = res'
      /\ \A u \in Thread : u # t =>
           pc'[u] = pc[u] /\ op'[u] = op[u] /\ idx'[u] = idx[u]
      /\ o \in unposted /\ unposted' = unposted \ {o} /\ active' = active \cup {o}
      /\ UNCHANGED <<posted_ops, requests, outs, ready, finished>>
  BY DEF TableInv, TypeOK, GetSlot, GoTo, tableVars
<1>2. /\ o \in exposed' => res' \in {None} \cup Releasing
      /\ res' \in {None} \cup Releasing => o \in exposed'
      /\ exposed' \subseteq Ops
      /\ \A x : x # o => (x \in exposed' <=> x \in exposed)
  BY DEF GetSlot, TableInv, TypeOK
<1>3. /\ held \subseteq held' /\ held' \subseteq Slot
      /\ res' \in Slot \cup {None}
      /\ res' # None => res' \in Slot \ held /\ held' = held \cup {res'}
      /\ res' = None => held' = held
  <2>1. CASE index_manager!Refuse
    BY <2>1 DEF index_manager!Refuse, TableInv, TypeOK
  <2>2. CASE \E i \in Slot : index_manager!Grant(i)
    <3>1. PICK i \in Slot : index_manager!Grant(i)
      BY <2>2
    <3>2. res' = i /\ i \notin held /\ held' = held \cup {i}
      BY <3>1 DEF index_manager!Grant
    <3>3. QED
      BY <3>2, NoneNoSlot DEF TableInv, TypeOK
  <2>3. QED
    BY <2>1, <2>2 DEF GetSlot
<1>4. /\ o \notin active /\ o \notin Reported /\ o \notin finished /\ o # None
      /\ \A i \in Slot : requests[i] # o
      /\ \A u \in Thread : Stores(u) => op[u] # o
  BY <1>1, NoneAssumption DEF TableInv, TypeOK, OpsApart, Tested, Filled
<1>5. /\ ~Stores(t) /\ Stores(t)'
      /\ \A u \in Thread : u # t => Stores(u)' = Stores(u)
  BY <1>1 DEF Stores
<1>6. Given' = Given /\ Releases' = Releases /\ Releasing' = Releasing
  <2>1. Unlisted' = Unlisted /\ Releases' = Releases /\ Releasing' = Releasing
    BY <1>1 DEF Unlisted, Releases, Releasing, Thread
  <2>2. QED
    BY <2>1 DEF Given
<1>7. Listed' = Listed /\ Reported' = Reported
  BY <1>1, <1>6 DEF Reported, Listed
<1>8. res' # None => requests[res'] = None /\ res' \notin Given
  BY <1>3 DEF TableInv, Tested, Returned
<1>9. Lost # {} => Lost' # {}
  <2>1. SUFFICES ASSUME NEW x \in Lost PROVE Lost' # {}
    OBVIOUS
  <2>2. x \in active /\ x # o /\ x # None
    BY <1>4, <2>1, LostFacts, NoneAssumption DEF TableInv, TypeOK
  <2>3. \A i \in held' : requests[i] = x => posted_ops[i] # x
    BY <1>3, <1>8, <2>1, <2>2, LostFacts
  <2>4. \A u \in Thread : Stores(u)' => op'[u] # x
    BY <1>1, <1>5, <2>1, <2>2, LostFacts
  <2>5. QED
    BY <1>1, <2>2, <2>3, <2>4, IsLost
<1>10. TypeOK'
  <2>1. pc' \in [Thread -> {"idle", "work", "store_op", "store_req",
                            "enqueue", "clear_req", "clear_op"}]
    BY DEF TableInv, TypeOK, GetSlot, GoTo
  <2>2. op' \in [Thread -> Ops \cup {None}] /\ idx' \in [Thread -> Slot \cup {None}]
    BY <1>3 DEF TableInv, TypeOK, GetSlot
  <2>3. active' \subseteq Ops /\ unposted' \subseteq Ops
    BY <1>1 DEF TableInv, TypeOK
  <2>4. QED
    BY <1>1, <1>2, <1>3, <2>1, <2>2, <2>3 DEF TableInv, TypeOK
<1>11. Places'
  BY <1>1, <1>6 DEF TableInv, Places, Thread
<1>12. Tested'
  <2>1. ASSUME NEW i \in Slot, requests[i] # None PROVE requests[i] # o
    BY <1>4
  <2>2. QED
    BY <1>1, <1>2, <1>3, <1>6, <2>1 DEF TableInv, Tested
<1>13. Returned'
  BY <1>1, <1>3, <1>6, <1>9 DEF TableInv, Returned
<1>14. Filled'
  <2>1. SUFFICES ASSUME NEW u \in Thread, Stores(u)'
                 PROVE  /\ op'[u] \in active' /\ \A i \in Slot : requests[i] # op'[u]
                        /\ \A v \in Thread \ {u} : Stores(v)' =>
                             op'[v] # op'[u] /\ (idx'[v] # idx'[u] \/ idx'[u] = None)
                        /\ idx'[u] = None => op'[u] \in exposed'
                        /\ idx'[u] # None =>
                             /\ idx'[u] \in held' \ Given /\ requests[idx'[u]] = None
                             /\ idx'[u] \in Releasing => op'[u] \in exposed'
                             /\ pc'[u] = "store_req" =>
                                  \/ posted_ops[idx'[u]] = op'[u]
                                  \/ posted_ops[idx'[u]] = None /\ op'[u] \in exposed'
    BY <1>1, <1>6 DEF Filled
  <2>2. \A v \in Thread : v # t /\ Stores(v)' =>
          /\ op[v] # o
          /\ idx[v] # None => idx[v] # res'
    BY <1>3, <1>4, <1>5 DEF TableInv, Filled
  <2>3. CASE u = t
    <3>1. \A v \in Thread \ {u} : Stores(v)' =>
            op'[v] # op'[u] /\ (idx'[v] # idx'[u] \/ idx'[u] = None)
      BY <1>1, <2>2, <2>3
    <3>2. QED
      BY <1>1, <1>2, <1>3, <1>4, <1>8, <2>3, <3>1
  <2>4. CASE u # t
    <3>1. /\ op[u] # o /\ Stores(u) /\ pc'[u] = pc[u]
          /\ op'[u] = op[u] /\ idx'[u] = idx[u]
      BY <1>1, <1>5, <2>1, <2>2, <2>4
    <3>2. ASSUME NEW v \in Thread \ {u}, Stores(v)'
          PROVE  op'[v] # op'[u] /\ (idx'[v] # idx'[u] \/ idx'[u] = None)
      <4>1. CASE v = t
        BY <1>1, <2>1, <2>2, <2>4, <3>1, <4>1
      <4>2. CASE v # t
        BY <1>1, <1>5, <3>1, <3>2, <4>2 DEF TableInv, Filled
      <4>3. QED
        BY <4>1, <4>2
    <3>3. QED
      BY <1>1, <1>2, <1>3, <3>1, <3>2 DEF TableInv, Filled
  <2>5. QED
    BY <2>3, <2>4
<1>15. Lent'
  <2>1. ASSUME NEW i \in held'
        PROVE  \/ requests[i] # None \/ i \in Given \/ Lost' # {}
               \/ \E u \in Thread : Stores(u)' /\ idx'[u] = i
    <3>1. CASE i \notin held
      BY <1>1, <1>3, <1>5, <2>1, <3>1
    <3>2. CASE i \in held
      BY <1>1, <1>5, <1>9, <3>2 DEF TableInv, Lent
    <3>3. QED
      BY <3>1, <3>2
  <2>2. QED
    BY <1>1, <1>3, <1>6, <2>1 DEF TableInv, Lent
<1>16. OpsApart'
  BY <1>1, <1>4, <1>7 DEF TableInv, OpsApart
<1>17. NoneLost'
  <2>1. SUFFICES ASSUME NEW x \in active' \ exposed' PROVE Tracked(x)'
    BY DEF NoneLost
  <2>2. CASE x = o
    BY <1>1, <2>2 DEF Tracked, Storing
  <2>3. CASE x # o
    <3>1. Tracked(x)
      BY <1>1, <1>2, <2>1, <2>3 DEF TableInv, NoneLost
    <3>2. InTable(x) => InTable(x)'
      BY <1>1, <1>3 DEF InTable
    <3>3. \A u \in Thread : Storing(u, x) => Storing(u, x)'
      BY <1>1 DEF Storing
    <3>4. QED
      BY <3>1, <3>2, <3>3 DEF Tracked
  <2>4. QED
    BY <2>2, <2>3
<1>18. QED
  BY <1>1, <1>4, <1>7, <1>10, <1>11, <1>12, <1>13, <1>14, <1>15, <1>16, <1>17
     DEF TableInv

LEMMA EnqueueKeeps ==
  ASSUME TableInv, Enqueue
  PROVE  TableInv' /\ active' = active /\ Reported' = Reported
<1> DEFINE r == Head(outs)
           o == posted_ops[r]
<1>1. /\ pc["prog"] = "enqueue" /\ outs # <<>> /\ o # None /\ r \in held
      /\ ready' = <<o>> \o ready /\ held' = held \ {r} /\ res' = res
      /\ pc'["prog"] = "clear_req" /\ pc'["app"] = pc["app"]
      /\ UNCHANGED <<posted_ops, requests, active, unposted, op, idx, exposed, outs,
                     finished>>
  BY DEF Enqueue, index_manager!GiveBack, GoTo, tableVars, trackVars, TableInv,
         TypeOK, Thread
<1>2. /\ Seqs(outs) \subseteq Slot /\ r \in Seqs(outs)
      /\ Seqs(Tail(outs)) = Seqs(outs) \ {r}
  BY <1>1, SetOfSeq, TailFacts DEF TableInv, TypeOK, Places
<1>3. Given = Seqs(outs) /\ Given' = Given \ {r} /\ r \in Given /\ Releasing' = {r}
  <2>1. Unlisted = outs /\ Unlisted' = Tail(outs)
    BY <1>1 DEF Unlisted
  <2>2. Given = Seqs(outs) /\ Given' = Seqs(Tail(outs))
    BY <1>1, <2>1 DEF Given
  <2>3. QED
    BY <1>1, <1>2, <2>2 DEF Releasing
<1>4. /\ r \in Slot /\ requests[r] = None /\ o \in Ops /\ o \notin Seqs(ready)
      /\ \A j \in Given : posted_ops[j] = o => j = r
  BY <1>1, <1>2, <1>3 DEF TableInv, TypeOK, Returned
<1>5. /\ ready' \in Seq(Ops) /\ Distinct(ready')
      /\ Seqs(ready') = Seqs(ready) \cup {o}
  BY <1>1, <1>4, ConsFacts DEF TableInv, TypeOK, Places
<1>6. Reported' = Reported
  <2>1. Listed = Listed' \cup {o}
    <3>1. Listed' = {posted_ops[i] : i \in Given \ {r}} \ {None}
      BY <1>1, <1>3 DEF Listed
    <3>2. QED
      BY <1>1, <1>3, <3>1 DEF Listed
  <2>2. QED
    BY <1>5, <2>1 DEF Reported
<1>7. \A u \in Thread : Stores(u)' = Stores(u) /\ (pc'[u] = pc[u] \/ ~Stores(u))
  BY <1>1 DEF Stores, Thread
<1>8. \A u \in Thread : Stores(u) => idx[u] # r
  BY <1>3, NoneNoSlot, <1>4 DEF TableInv, Filled
<1>9. \A i \in Slot : requests[i] # None => i # r
  BY <1>4
<1>10. \A x \in Ops : Tracked(x)' = Tracked(x)
  <2>1. \A x \in Ops : InTable(x)' = InTable(x)
    BY <1>1, <1>4, NoneAssumption DEF InTable
  <2>2. \A x, u : u \in Thread => Storing(u, x)' = Storing(u, x)
    BY <1>1 DEF Storing, Thread
  <2>3. QED
    BY <2>1, <2>2 DEF Tracked
<1>11. Lost' = Lost
  BY <1>1, <1>10 DEF Lost, TableInv, TypeOK
<1>12. TypeOK'
  <2>1. pc' \in [Thread -> {"idle", "work", "store_op", "store_req",
                            "enqueue", "clear_req", "clear_op"}]
    BY DEF TableInv, TypeOK, Enqueue, GoTo
  <2>2. QED
    BY <1>1, <1>5, <2>1 DEF TableInv, TypeOK
<1>13. Places'
  BY <1>1, <1>5 DEF TableInv, Places, Releases
<1>14. Tested'
  BY <1>1, <1>3, <1>9 DEF TableInv, Tested
<1>15. Returned'
  <2>1. \A i \in Given \ {r} : posted_ops[i] # o
    BY <1>4
  <2>2. QED
    BY <1>1, <1>3, <1>5, <1>11, <2>1 DEF TableInv, Returned
<1>16. Filled'
  BY <1>1, <1>3, <1>7, <1>8 DEF TableInv, Filled
<1>17. Lent'
  <2>1. Releasing = {}
    BY <1>1 DEF Releasing
  <2>2. QED
    BY <1>1, <1>3, <1>7, <1>11, <2>1 DEF TableInv, Lent
<1>18. OpsApart'
  BY <1>1, <1>6 DEF TableInv, OpsApart
<1>19. NoneLost'
  BY <1>1, <1>10 DEF TableInv, TypeOK, NoneLost
<1>20. QED
  BY <1>1, <1>6, <1>12, <1>13, <1>14, <1>15, <1>16, <1>17, <1>18, <1>19 DEF TableInv

LEMMA ClearRequestKeeps ==
  ASSUME TableInv, ClearRequest
  PROVE  TableInv' /\ active' = active /\ Reported' = Reported
<1> DEFINE r == Head(outs)
<1>1. /\ pc["prog"] = "clear_req" /\ pc'["prog"] = "clear_op"
      /\ pc'["app"] = pc["app"]
      /\ UNCHANGED <<held, res, posted_ops, active, unposted, op, idx, exposed, outs,
                     ready, finished>>
  BY DEF TableInv, TypeOK, ClearRequest, GoTo, Thread, trackVars
<1>2. outs # <<>> /\ Releases /\ Releases'
  BY <1>1 DEF TableInv, Places, Releases
<1>3. r \in Slot /\ Releasing = {r} /\ Releasing' = {r}
  BY <1>1, <1>2, SetOfSeq DEF TableInv, TypeOK, Releasing
<1>4. Given' = Given
  <2>1. Unlisted' = Unlisted
    BY <1>1 DEF Unlisted
  <2>2. QED
    BY <2>1 DEF Given
<1>5. Listed' = Listed /\ Reported' = Reported
  BY <1>1, <1>4 DEF Reported, Listed
<1>6. /\ requests' \in [Slot -> Ops \cup {None}]
      /\ \A j \in Slot : j # r => requests'[j] = requests[j]
      /\ requests'[r] = None
  BY <1>3 DEF ClearRequest, TableInv, TypeOK
<1>7. \A j \in Slot : requests'[j] # None => j # r /\ requests'[j] = requests[j]
  BY <1>6
<1>8. \A u \in Thread : /\ Stores(u)' = Stores(u)
                        /\ Stores(u) => pc'[u] = pc[u]
  BY <1>1 DEF Stores, Thread
<1>9. Lost # {} => Lost' # {}
  <2>1. SUFFICES ASSUME NEW o \in Lost PROVE Lost' # {}
    OBVIOUS
  <2>2. o \in active /\ o # None
    BY <2>1, LostFacts, NoneAssumption DEF TableInv, TypeOK
  <2>3. \A i \in held : requests'[i] = o => posted_ops[i] # o
    BY <1>7, <2>1, <2>2, LostFacts DEF TableInv, TypeOK
  <2>4. \A u \in Thread : Stores(u)' => op'[u] # o
    BY <1>1, <1>8, <2>1, LostFacts
  <2>5. QED
    BY <1>1, <2>2, <2>3, <2>4, IsLost
<1>10. requests[r] # None => requests[r] \in exposed /\ Lost' # {}
  <2>1. SUFFICES ASSUME requests[r] # None PROVE requests[r] \in exposed /\ Lost' # {}
    OBVIOUS
  <2>2. /\ requests[r] \in active /\ requests[r] \in exposed
        /\ \A j \in Slot : requests[j] = requests[r] => j = r
    BY <1>3, <2>1 DEF TableInv, Tested
  <2>3. \A i \in held : requests'[i] # requests[r]
    BY <1>6, <1>7, <2>1, <2>2 DEF TableInv, TypeOK
  <2>4. \A u \in Thread : Stores(u)' => op'[u] # requests[r]
    BY <1>1, <1>3, <1>8 DEF TableInv, Filled
  <2>5. QED
    BY <1>1, <2>2, <2>3, <2>4, IsLost
<1>11. TypeOK'
  <2>1. pc' \in [Thread -> {"idle", "work", "store_op", "store_req",
                            "enqueue", "clear_req", "clear_op"}]
    BY DEF TableInv, TypeOK, ClearRequest, GoTo
  <2>2. QED
    BY <1>1, <1>6, <2>1 DEF TableInv, TypeOK
<1>12. Places'
  BY <1>1, <1>2 DEF TableInv, Places
<1>13. Tested'
  BY <1>1, <1>3, <1>7 DEF TableInv, Tested
<1>14. Returned'
  <2>1. \A i \in Given : requests'[i] = None
    BY <1>7 DEF TableInv, TypeOK, Returned
  <2>2. QED
    BY <1>1, <1>4, <1>9, <2>1 DEF TableInv, Returned
<1>15. Filled'
  <2>1. \A o : (\A i \in Slot : requests[i] # o) /\ o # None
                  => \A i \in Slot : requests'[i] # o
    BY <1>7
  <2>2. \A u \in Thread : Stores(u) => op[u] # None
    BY NoneAssumption DEF TableInv, TypeOK, Filled
  <2>3. \A i \in Slot : requests[i] = None => requests'[i] = None
    BY <1>7
  <2>4. \A u \in Thread : idx[u] # None => idx[u] \in Slot
    BY DEF TableInv, TypeOK
  <2>5. QED
    BY <1>1, <1>3, <1>4, <1>8, <2>1, <2>2, <2>3, <2>4 DEF TableInv, Filled
<1>16. Lent'
  <2>1. ASSUME NEW i \in held
        PROVE  \/ requests'[i] # None \/ i \in Given \/ Lost' # {}
               \/ \E u \in Thread : Stores(u) /\ idx[u] = i
    <3>1. i \in Slot
      BY DEF TableInv, TypeOK
    <3>2. QED
      BY <1>6, <1>9, <1>10, <3>1 DEF TableInv, Lent
  <2>2. QED
    BY <1>1, <1>3, <1>4, <1>8, <2>1 DEF TableInv, Lent
<1>17. OpsApart'
  BY <1>1, <1>5 DEF TableInv, OpsApart
<1>18. NoneLost'
  <2>1. SUFFICES ASSUME NEW o \in active \ exposed PROVE Tracked(o)'
    BY <1>1 DEF NoneLost
  <2>2. InTable(o) => InTable(o)'
    <3>1. SUFFICES ASSUME NEW i \in held, requests[i] = o, posted_ops[i] = o
                   PROVE  InTable(o)'
      BY DEF InTable
    <3>2. i \in Slot /\ i # r
      BY <1>10, <2>1, <3>1, NoneAssumption DEF TableInv, TypeOK
    <3>3. QED
      BY <1>1, <1>6, <3>1, <3>2 DEF InTable
  <2>3. \A u \in Thread : Storing(u, o) => Storing(u, o)'
    BY <1>1 DEF Storing, Thread
  <2>4. QED
    BY <2>1, <2>2, <2>3 DEF TableInv, NoneLost, Tracked
<1>19. QED
  BY <1>1, <1>5, <1>11, <1>12, <1>13, <1>14, <1>15, <1>16, <1>17, <1>18 DEF TableInv

LEMMA ClearOpKeeps ==
  ASSUME TableInv, ClearOp
  PROVE  TableInv' /\ active' = active /\ Reported' = Reported
<1> DEFINE r == Head(outs)
<1>1. /\ pc["prog"] = "clear_op" /\ pc'["prog"] = "enqueue"
      /\ pc'["app"] = pc["app"] /\ outs' = Tail(outs)
      /\ UNCHANGED <<held, res, requests, active, unposted, op, idx, exposed, ready,
                     finished>>
  BY DEF TableInv, TypeOK, ClearOp, GoTo, Thread, trackVars
<1>2. outs # <<>> /\ Releases /\ ~Releases'
  BY <1>1 DEF TableInv, Places, Releases
<1>3. /\ r \in Slot /\ r \in Seqs(outs)
      /\ outs' \in Seq(Slot) /\ Distinct(outs') /\ Seqs(outs') = Seqs(outs) \ {r}
  BY <1>1, <1>2, SetOfSeq, TailFacts DEF TableInv, TypeOK, Places
<1>4. Releasing = {r} /\ Releasing' = {}
  BY <1>1 DEF Releasing
<1>5. Given' = Given /\ r \notin Given
  <2>1. Unlisted = Tail(outs) /\ Unlisted' = Tail(outs)
    BY <1>1, <1>2 DEF Unlisted
  <2>2. QED
    BY <1>1, <1>3, <2>1 DEF Given
<1>6. /\ posted_ops' \in [Slot -> Ops \cup {None}]
      /\ \A j \in Slot : j # r => posted_ops'[j] = posted_ops[j]
      /\ posted_ops'[r] = None
  BY <1>3 DEF ClearOp, TableInv, TypeOK
<1>7. \A j \in Given : j \in Slot /\ posted_ops'[j] = posted_ops[j]
  BY <1>5, <1>6 DEF TableInv, TypeOK, Returned
<1>8. Listed' = Listed /\ Reported' = Reported
  BY <1>1, <1>5, <1>7 DEF Reported, Listed
<1>9. \A u \in Thread : /\ Stores(u)' = Stores(u)
                        /\ Stores(u) => pc'[u] = pc[u]
  BY <1>1 DEF Stores, Thread
<1>10. Lost # {} => Lost' # {}
  <2>1. SUFFICES ASSUME NEW o \in Lost PROVE Lost' # {}
    OBVIOUS
  <2>2. o \in active /\ o # None
    BY <2>1, LostFacts, NoneAssumption DEF TableInv, TypeOK
  <2>3. \A i \in held : requests[i] = o => posted_ops'[i] # o
    BY <1>6, <2>1, <2>2, LostFacts DEF TableInv, TypeOK
  <2>4. \A u \in Thread : Stores(u)' => op'[u] # o
    BY <1>1, <1>9, <2>1, LostFacts
  <2>5. QED
    BY <1>1, <2>2, <2>3, <2>4, IsLost
<1>11. TypeOK'
  <2>1. pc' \in [Thread -> {"idle", "work", "store_op", "store_req",
                            "enqueue", "clear_req", "clear_op"}]
    BY DEF TableInv, TypeOK, ClearOp, GoTo
  <2>2. QED
    BY <1>1, <1>3, <1>6, <2>1 DEF TableInv, TypeOK
<1>12. Places'
  BY <1>1, <1>2, <1>3 DEF TableInv, Places
<1>13. Tested'
  <2>1. SUFFICES ASSUME NEW i \in Slot, requests[i] # None
                 PROVE  \/ posted_ops'[i] = requests[i]
                        \/ posted_ops'[i] = None /\ requests[i] \in exposed
    BY <1>1, <1>4 DEF TableInv, Tested
  <2>2. QED
    BY <1>4, <1>6, <2>1 DEF TableInv, Tested
<1>14. Returned'
  BY <1>1, <1>5, <1>7, <1>10 DEF TableInv, Returned
<1>15. Filled'
  <2>1. ASSUME NEW u \in Thread, Stores(u), idx[u] # None, pc[u] = "store_req"
        PROVE  \/ posted_ops'[idx[u]] = op[u]
               \/ posted_ops'[idx[u]] = None /\ op[u] \in exposed
    <3>1. idx[u] \in Slot
      BY <2>1 DEF TableInv, TypeOK
    <3>2. QED
      BY <1>4, <1>6, <2>1, <3>1 DEF TableInv, Filled
  <2>2. QED
    BY <1>1, <1>4, <1>5, <1>9, <2>1 DEF TableInv, Filled
<1>16. Lent'
  BY <1>1, <1>4, <1>5, <1>6, <1>9, <1>10 DEF TableInv, Lent
<1>17. OpsApart'
  BY <1>1, <1>8 DEF TableInv, OpsApart
<1>18. NoneLost'
  <2>1. SUFFICES ASSUME NEW o \in active \ exposed PROVE Tracked(o)'
    BY <1>1 DEF NoneLost
  <2>2. InTable(o) => InTable(o)'
    <3>1. SUFFICES ASSUME NEW i \in held, requests[i] = o, posted_ops[i] = o
                   PROVE  InTable(o)'
      BY DEF InTable
    <3>2. i \in Slot /\ i # r
      BY <1>4, <2>1, <3>1, NoneAssumption DEF TableInv, TypeOK, Tested
    <3>3. QED
      BY <1>1, <1>6, <3>1, <3>2 DEF InTable
  <2>3. \A u \in Thread : Storing(u, o) => Storing(u, o)'
    BY <1>1 DEF Storing, Thread
  <2>4. QED
    BY <2>1, <2>2, <2>3 DEF TableInv, NoneLost, Tracked
<1>19. QED
  BY <1>1, <1>8, <1>11, <1>12, <1>13, <1>14, <1>15, <1>16, <1>17, <1>18 DEF TableInv

(* A list of a set without repetition. *)
LEMMA Listing ==
  ASSUME NEW I \in SUBSET Slot, NEW q \in [1 .. Cardinality(I) -> I],
         \A i \in I : \E k \in DOMAIN q : q[k] = i
  PROVE  q \in Seq(Slot) /\ Distinct(q) /\ Seqs(q) = I
<1> DEFINE n == Cardinality(I)
<1>1. IsFiniteSet(I) /\ n \in Nat
  <2>1. IsFiniteSet(Slot)
    BY SlotsAssumption, FS_Interval DEF Slot
  <2>2. IsFiniteSet(I)
    BY <2>1, FS_Subset
  <2>3. QED
    BY <2>2, FS_CardinalityType
<1>2. IsFiniteSet(1 .. n) /\ Cardinality(1 .. n) = n
  BY <1>1, FS_Interval
<1>3. q \in Surjection(1 .. n, I)
  BY DEF Surjection
<1>4. q \in Injection(1 .. n, I)
  BY <1>2, <1>3, FS_Surjection
<1>5. q \in Seq(Slot) /\ Len(q) = n /\ DOMAIN q = 1 .. n
  BY <1>1
<1>6. Distinct(q)
  BY <1>4, <1>5 DEF Injection, Distinct, IsInjective
<1>7. Seqs(q) = I
  BY <1>5 DEF Seqs
<1>8. QED
  BY <1>5, <1>6, <1>7

LEMMA TestsomeKeeps ==
  ASSUME TableInv, NEW I \in SUBSET Slot, Testsome(I)
  PROVE  /\ TableInv'
         /\ \E S \in SUBSET active : active' = active \ S /\ Reported' = Reported \cup S
<1> DEFINE R == {posted_ops[i] : i \in I} \ {None}
<1>1. /\ pc["prog"] = "idle" /\ pc'["prog"] = "enqueue" /\ pc'["app"] = pc["app"]
      /\ ready = <<>> /\ outs = <<>> /\ ~Releases /\ ~Releases'
      /\ UNCHANGED <<held, res, posted_ops, unposted, op, idx, exposed, ready, finished>>
  BY DEF TableInv, TypeOK, Testsome, GoTo, Thread, Releases, Places, trackVars
<1>2. \A i \in I : /\ requests[i] # None /\ i \in held /\ i \in Slot
                   /\ requests[i] \in active
                   /\ \/ posted_ops[i] = requests[i]
                      \/ posted_ops[i] = None /\ requests[i] \in exposed
                   /\ \A j \in Slot : requests[j] = requests[i] => j = i
  BY DEF Testsome, TableInv, Tested
<1>3. R \subseteq active /\ active' = active \ R
  <2>1. R \subseteq active
    BY <1>2
  <2>2. None \notin active
    BY NoneAssumption DEF TableInv, TypeOK
  <2>3. QED
    BY <2>1, <2>2 DEF Testsome
<1>4. \A o \in R : \E i \in I : requests[i] = o /\ posted_ops[i] = o
  BY <1>2
<1>5. outs' \in Seq(Slot) /\ Distinct(outs') /\ Seqs(outs') = I
  BY Listing DEF Testsome
<1>6. Given = {} /\ Given' = I /\ Releasing = {} /\ Releasing' = {}
  <2>1. Unlisted = <<>> /\ Unlisted' = outs'
    BY <1>1 DEF Unlisted
  <2>2. QED
    BY <1>1, <1>5, <2>1, EmptyFacts DEF Given, Releasing
<1>7. Reported = {} /\ Reported' = R
  BY <1>1, <1>6, EmptyFacts DEF Reported, Listed
<1>8. \A i \in Slot : requests'[i] = IF i \in I THEN None ELSE requests[i]
  BY DEF Testsome
<1>9. \A u \in Thread : /\ Stores(u)' = Stores(u)
                        /\ Stores(u) => pc'[u] = pc[u] /\ op[u] \notin R
  <2>1. \A u \in Thread : /\ Stores(u)' = Stores(u)
                          /\ Stores(u) => pc'[u] = pc[u]
    BY <1>1 DEF Stores, Thread
  <2>2. \A u \in Thread : Stores(u) => op[u] \notin R
    BY <1>2, <1>4 DEF TableInv, Filled
  <2>3. QED
    BY <2>1, <2>2
<1>10. Lost # {} => Lost' # {}
  <2>1. SUFFICES ASSUME NEW o \in Lost PROVE Lost' # {}
    OBVIOUS
  <2>2. o \in active' /\ o # None
    BY <1>2, <1>3, <1>4, <2>1, LostFacts, NoneAssumption DEF TableInv, TypeOK
  <2>3. \A i \in held : requests'[i] = o => posted_ops[i] # o
    BY <1>8, <2>1, <2>2, LostFacts DEF TableInv, TypeOK
  <2>4. \A u \in Thread : Stores(u)' => op'[u] # o
    BY <1>1, <1>9, <2>1, LostFacts
  <2>5. QED
    BY <1>1, <2>2, <2>3, <2>4, IsLost
<1>11. ASSUME NEW i \in I, posted_ops[i] = None PROVE Lost' # {}
  <2>1. requests[i] \in active /\ requests[i] # None
    BY <1>2
  <2>2. requests[i] \notin R
    <3>1. SUFFICES ASSUME requests[i] \in R PROVE FALSE
      OBVIOUS
    <3>2. PICK j \in I : requests[j] = requests[i] /\ posted_ops[j] = requests[i]
      BY <1>4, <3>1
    <3>3. j = i
      BY <1>2, <3>2
    <3>4. QED
      BY <1>11, <2>1, <3>2, <3>3
  <2>3. \A j \in held : requests'[j] # requests[i]
    BY <1>2, <1>8, <2>1 DEF TableInv, TypeOK
  <2>4. \A u \in Thread : Stores(u)' => op'[u] # requests[i]
    BY <1>1, <1>2, <1>9 DEF TableInv, Filled
  <2>5. QED
    BY <1>1, <1>3, <2>1, <2>2, <2>3, <2>4, IsLost
<1>12. TypeOK'
  <2>1. requests' \in [Slot -> Ops \cup {None}]
    BY DEF TableInv, TypeOK, Testsome
  <2>2. pc' \in [Thread -> {"idle", "work", "store_op", "store_req",
                            "enqueue", "clear_req", "clear_op"}]
    BY DEF TableInv, TypeOK, Testsome, GoTo
  <2>3. QED
    BY <1>1, <1>3, <1>5, <2>1, <2>2 DEF TableInv, TypeOK
<1>13. Places'
  BY <1>1, <1>5 DEF TableInv, Places
<1>14. Tested'
  <2>1. SUFFICES ASSUME NEW i \in Slot, requests'[i] # None
                 PROVE  /\ requests'[i] = requests[i] /\ requests[i] # None
                        /\ requests[i] \in active'
                        /\ \A j \in Slot : requests'[j] = requests[i] => j = i
    BY <1>1, <1>6 DEF TableInv, Tested
  <2>2. i \notin I /\ requests'[i] = requests[i] /\ requests[i] # None
    BY <1>8, <2>1
  <2>3. requests[i] \notin R
    BY <1>2, <1>4, <2>2
  <2>4. requests[i] \in active /\ \A j \in Slot : requests[j] = requests[i] => j = i
    BY <2>2 DEF TableInv, Tested
  <2>5. QED
    BY <1>3, <1>8, <2>2, <2>3, <2>4
<1>15. Returned'
  <2>1. SUFFICES ASSUME NEW i \in I
                 PROVE  /\ i \in held /\ requests'[i] = None
                        /\ posted_ops[i] = None => Lost' # {}
                        /\ posted_ops[i] # None =>
                             \A j \in I : posted_ops[j] = posted_ops[i] => j = i
    BY <1>1, <1>6, EmptyFacts DEF Returned
  <2>2. QED
    BY <1>2, <1>8, <1>11
<1>16. Filled'
  <2>1. ASSUME NEW u \in Thread, Stores(u)
        PROVE  /\ op[u] \in active' /\ \A i \in Slot : requests'[i] # op[u]
               /\ idx[u] # None => idx[u] \notin I /\ requests'[idx[u]] = None
    <3>1. op[u] \in active /\ op[u] # None /\ \A i \in Slot : requests[i] # op[u]
      BY <2>1, NoneAssumption DEF TableInv, TypeOK, Filled
    <3>2. idx[u] # None => idx[u] \in Slot /\ requests[idx[u]] = None
      BY <2>1 DEF TableInv, TypeOK, Filled
    <3>3. QED
      BY <1>2, <1>3, <1>8, <1>9, <2>1, <3>1, <3>2
  <2>2. QED
    BY <1>1, <1>6, <1>9, <2>1 DEF TableInv, Filled
<1>17. Lent'
  <2>1. \A i \in held : requests[i] # None => requests'[i] # None \/ i \in I
    BY <1>8 DEF TableInv, TypeOK
  <2>2. QED
    BY <1>1, <1>6, <1>9, <1>10, <2>1 DEF TableInv, Lent
<1>18. OpsApart'
  BY <1>1, <1>3, <1>7 DEF TableInv, OpsApart
<1>19. NoneLost'
  <2>1. SUFFICES ASSUME NEW o \in active, o \notin R, o \notin exposed PROVE Tracked(o)'
    BY <1>1, <1>3 DEF NoneLost
  <2>2. InTable(o) => InTable(o)'
    <3>1. SUFFICES ASSUME NEW i \in held, requests[i] = o, posted_ops[i] = o
                   PROVE  InTable(o)'
      BY DEF InTable
    <3>2. i \in Slot /\ i \notin I
      BY <2>1, <3>1, NoneAssumption DEF TableInv, TypeOK
    <3>3. QED
      BY <1>1, <1>8, <3>1, <3>2 DEF InTable
  <2>3. \A u \in Thread : Storing(u, o) => Storing(u, o)'
    BY <1>1 DEF Storing, Thread
  <2>4. QED
    BY <2>1, <2>2, <2>3 DEF TableInv, NoneLost, Tracked
<1>20. QED
  BY <1>3, <1>7, <1>12, <1>13, <1>14, <1>15, <1>16, <1>17, <1>18, <1>19 DEF TableInv

LEMMA NextKeeps == TableInv /\ [Next]_vars => TableInv'
<1>1. SUFFICES ASSUME TableInv, [Next]_vars PROVE TableInv'
  OBVIOUS
<1>2. CASE StartRound
  BY <1>1, <1>2, StartRoundKeeps
<1>3. CASE AppPosted
  BY <1>1, <1>3, AppPostedKeeps
<1>4. ASSUME NEW t \in Thread, NEW o \in Ops, GetSlot(t, o) PROVE TableInv'
  BY <1>1, <1>4, GetSlotKeeps
<1>5. ASSUME NEW t \in Thread, StoreOp(t) PROVE TableInv'
  BY <1>1, <1>5, StoreOpKeeps
<1>6. ASSUME NEW t \in Thread, StoreReq(t) PROVE TableInv'
  BY <1>1, <1>6, StoreReqKeeps
<1>7. ASSUME NEW I \in SUBSET Slot, Testsome(I) PROVE TableInv'
  BY <1>1, <1>7, TestsomeKeeps
<1>8. CASE Enqueue
  BY <1>1, <1>8, EnqueueKeeps
<1>9. CASE ClearRequest
  BY <1>1, <1>9, ClearRequestKeeps
<1>10. CASE ClearOp
  BY <1>1, <1>10, ClearOpKeeps
<1>11. CASE CompleteFirst
  BY <1>1, <1>11, CompleteFirstKeeps
<1>12. CASE ListDone
  BY <1>1, <1>12, ListDoneKeeps
<1>13. CASE UNCHANGED vars
  BY <1>1, <1>13 DEF vars, tableVars, trackVars, TableInv, TypeOK, Places, Tested,
     Returned, Filled, Lent, OpsApart, NoneLost, Stores, Releases, Releasing, Given,
     Listed, Reported, Lost, Unlisted, Tracked, Storing, InTable
<1>14. QED
  BY <1>1, <1>2, <1>3, <1>4, <1>5, <1>6, <1>7, <1>8, <1>9, <1>10, <1>11, <1>12,
     <1>13 DEF Next, App, Test, Prog, Track, Thread

LEMMA TableInvariant == Spec => []TableInv
<1>1. Init => TableInv
  BY InitTable
<1>2. TableInv /\ [Next]_vars => TableInv'
  BY NextKeeps
<1>3. QED
  BY <1>1, <1>2, PTL DEF Spec

-----------------------------------------------------------------------------
(* The theorems. *)

(* The table, the slots and the lists stay what TypeOK says of the state   *)
(* of ffop_mpi_progresser.c and the two threads around it.                 *)
THEOREM TypeCorrect == Spec => []TypeOK
<1>1. TableInv => TypeOK
  BY DEF TableInv
<1>2. QED
  BY <1>1, TableInvariant, PTL

(* What MPI has not reported is in the table or on its way there           *)
(* (..._track, ..._release), but for an operation that got its own slot    *)
(* while that was being released, or none: no operation is lost because of *)
(* another's track or release, however both threads post.                  *)
THEOREM NothingLost == Spec => []NoneLost
<1>1. TableInv => NoneLost
  BY DEF TableInv
<1>2. QED
  BY <1>1, TableInvariant, PTL

(* A request that MPI reports is in a slot that is lent and leads to its   *)
(* own operation or, if that operation was exposed, to NULL; never to      *)
(* another operation.                                                      *)
THEOREM SlotsAgree == Spec => []SlotsInStep
<1>1. ASSUME TableInv PROVE SlotsInStep
  <2>1. \A t \in Thread : pc[t] \in {"store_op", "store_req"} =>
           idx[t] \in Slot \/ op[t] \in exposed
    BY <1>1 DEF TableInv, TypeOK, Filled, Stores
  <2>2. \A i \in Slot : requests[i] # None =>
           /\ i \in held
           /\ \/ posted_ops[i] = requests[i]
              \/ posted_ops[i] = None /\ requests[i] \in exposed
    BY <1>1 DEF TableInv, Tested
  <2>3. ASSUME pc["prog"] = "enqueue", NEW k \in DOMAIN outs
        PROVE  outs[k] \in held /\ (posted_ops[outs[k]] # None \/ active \cap exposed # {})
    <3>1. outs[k] \in Given
      BY <2>3 DEF Given, Unlisted, Seqs
    <3>2. Lost # {} => active \cap exposed # {}
      BY <1>1 DEF TableInv, NoneLost, Lost
    <3>3. QED
      BY <1>1, <3>1, <3>2 DEF TableInv, Returned
  <2>4. QED
    BY <2>1, <2>2, <2>3 DEF SlotsInStep
<1>2. QED
  BY <1>1, TableInvariant, PTL

(* Nothing is left in the table when both threads are idle and every       *)
(* operation has completed. *)
LEMMA AllQuiet ==
  ASSUME TableInv, pc["app"] = "idle", pc["prog"] = "idle", finished = Ops
  PROVE  held = {} /\ active = {} /\ \A i \in Slot : posted_ops[i] = None
<1>1. active = {} /\ Lost = {}
  BY DEF TableInv, TypeOK, OpsApart, Lost
<1>2. \A i \in Slot : requests[i] = None
  BY <1>1 DEF TableInv, Tested
<1>3. outs = <<>> /\ Releasing = {} /\ \A t \in Thread : ~Stores(t)
  BY DEF TableInv, Places, Releasing, Releases, Stores, Thread
<1>4. Given = {}
  BY <1>3, EmptyFacts DEF Given, Unlisted
<1>5. held = {}
  BY <1>1, <1>2, <1>3, <1>4 DEF TableInv, TypeOK, Lent
<1>6. QED
  BY <1>1, <1>3, <1>5 DEF TableInv, Lent

(* Between two rounds every index has been given back by ..._release and   *)
(* every slot is clear.                                                    *)
THEOREM NoSlotLeaks == Spec => []AllGivenBack
<1>1. TableInv => AllGivenBack
  BY AllQuiet DEF AllGivenBack
<1>2. QED
  BY <1>1, TableInvariant, PTL

(* The table does for the engine what FFReports says, whatever it loses:   *)
(* an operation that is reported was handed to it, is reported once for    *)
(* that, and completed once after that.                                    *)
THEOREM Refinement == Spec => ReportsSpec
<1> DEFINE bar == <<active, Seqs(ready) \cup
                            ({posted_ops[i] : i \in Seqs(Unlisted)} \ {None})>>
<1>1. Init => Reports!Init
  BY EmptyFacts DEF Init, Reports!Init, Unlisted
<1>2. ASSUME TableInv, [Next]_vars PROVE [Reports!Next]_bar
  <2>1. Reported = Seqs(ready) \cup ({posted_ops[i] : i \in Seqs(Unlisted)} \ {None})
    BY DEF Reported, Listed, Given
  <2>2. CASE active' = active /\ Reported' = Reported
    BY <2>2 DEF Reported, Listed, Given
  <2>3. ASSUME NEW o \in Ops \ (active \cup Reported),
               active' = active \cup {o}, Reported' = Reported
        PROVE  Reports!Next
    BY <2>3 DEF Reports!Next, Reports!Track, Reported, Listed, Given
  <2>4. ASSUME NEW o \in Ops \cap Reported,
               active' = active, Reported' = Reported \ {o}
        PROVE  Reports!Next
    BY <2>4 DEF Reports!Next, Reports!Take, Reported, Listed, Given
  <2>5. ASSUME NEW S \in SUBSET active,
               active' = active \ S, Reported' = Reported \cup S
        PROVE  [Reports!Next]_bar
    <3>1. CASE S = {}
      BY <2>2, <2>5, <3>1
    <3>2. CASE S # {}
      <4>1. S \in SUBSET Ops
        BY <1>2 DEF TableInv, TypeOK
      <4>2. Reports!Report(S)
        BY <2>5, <3>2 DEF Reports!Report, Reported, Listed, Given
      <4>3. QED
        BY <4>1, <4>2 DEF Reports!Next
    <3>3. QED
      BY <3>1, <3>2
  <2>6. CASE UNCHANGED vars
    BY <2>6 DEF vars, tableVars, Unlisted
  <2>7. CASE \/ StartRound \/ AppPosted \/ Enqueue \/ ClearRequest \/ ClearOp \/ ListDone
             \/ \E t \in Thread : StoreOp(t) \/ StoreReq(t)
    BY <1>2, <2>2, <2>7, StartRoundKeeps, AppPostedKeeps, EnqueueKeeps,
       ClearRequestKeeps, ClearOpKeeps, ListDoneKeeps, StoreOpKeeps, StoreReqKeeps
  <2>8. CASE \E t \in Thread, o \in Ops : GetSlot(t, o)
    BY <1>2, <2>3, <2>8, GetSlotKeeps
  <2>9. CASE CompleteFirst
    <3>1. Head(ready) \in Ops
      BY <1>2, <2>9, CompleteFirstKeeps, SetOfSeq DEF TableInv, TypeOK
    <3>2. QED
      BY <1>2, <2>4, <2>9, <3>1, CompleteFirstKeeps
  <2>10. CASE \E I \in SUBSET Slot : Testsome(I)
    BY <1>2, <2>5, <2>10, TestsomeKeeps
  <2>11. QED
    BY <1>2, <2>6, <2>7, <2>8, <2>9, <2>10 DEF Next, App, Test, Prog, Track, Thread
<1>3. QED
  BY <1>1, <1>2, TableInvariant, PTL DEF Spec, ReportsSpec, Reports!Spec
=============================================================================
