--------------------------- MODULE FFOpLifeProofs ---------------------------
(***************************************************************************)
(* What holds of the life of operations for every size of the pool, every  *)
(* number of operations and every choice of those that end in their post:  *)
(* the pool lends each block once and its list has every other, whatever   *)
(* is freed when; as long as each operation that is freed has been waited  *)
(* for, no pointer of the progress thread is to a block that was freed and *)
(* a wait returns only for what MPI has reported; and nothing is dropped   *)
(* if the others had been waited for too.                                  *)
(*                                                                         *)
(* The argument.  Both lists that run through the blocks, that of the free *)
(* ones by their next and that of the ready ones by their instance.next,   *)
(* are the links of a sequence without repetitions.  The functions take    *)
(* its first element, put one in front, or make a new one of a poll.       *)
(***************************************************************************)
EXTENDS FFOpLife, FiniteSetTheorems, WellFoundedInduction, TLAPS

-----------------------------------------------------------------------------
(* A set with 0 that has k + 1 with k has all natural numbers. *)
LEMMA Induction ==
  ASSUME NEW S, 0 \in S, \A k \in Nat : k \in S => k + 1 \in S
  PROVE  Nat \subseteq S
<1> DEFINE T == {0 .. x : x \in Nat \ S}
<1>1. T \subseteq FiniteSubsetsOf(Nat)
  <2>1. \A x \in Nat : IsFiniteSet(0 .. x) /\ 0 .. x \subseteq Nat
    BY FS_Interval
  <2>2. QED
    BY <2>1 DEF FiniteSubsetsOf
<1>2. ASSUME T # {} PROVE FALSE
  <2>1. PICK R \in T : \A Q \in T : <<Q, R>> \notin StrictSubsetOrdering(Nat)
    <3> HIDE DEF T
    <3>1. QED
      BY <1>1, <1>2, FS_StrictSubsetOrderingWellFounded, WFMin
  <2>2. PICK m \in Nat \ S : R = 0 .. m
    BY <2>1
  <2>3. m - 1 \in Nat \ S
    BY <2>2
  <2>4. PICK Q : Q = 0 .. m - 1
    OBVIOUS
  <2>5. Q \in T
    BY <2>3, <2>4
  <2>6. Q \subseteq R /\ Q # R /\ Q \subseteq Nat /\ R \subseteq Nat
    <3>1. m \in R /\ m \notin Q
      BY <2>2, <2>4
    <3>2. QED
      BY <2>2, <2>3, <2>4, <3>1
  <2>7. <<Q, R>> \in StrictSubsetOrdering(Nat)
    BY <2>6 DEF StrictSubsetOrdering
  <2>8. QED
    BY <2>1, <2>5, <2>7
<1>3. \A x \in Nat : x \in S
  BY <1>2
<1>4. QED
  BY <1>3

-----------------------------------------------------------------------------
(* Lists.  The blocks of s are linked one to the next, the last to none.   *)

Blocks(s) == {s[i] : i \in 1 .. Len(s)}
At(s, i) == IF i \in 1 .. Len(s) THEN s[i] ELSE NULL
Leads(first, link, s) ==
  /\ s \in Seq(Block)
  /\ \A i, j \in 1 .. Len(s) : s[i] = s[j] => i = j
  /\ first = At(s, 1)
  /\ \A i \in 1 .. Len(s) : link[s[i]] = At(s, i + 1)

LEMMA BlocksOfPool == 0 .. InitialCount - 1 \subseteq Block /\ NULL \notin Block /\ 0 \in Block
BY InitialCountAssumption, NULLAssumption DEF Block

LEMMA NoBlocks ==
  /\ \A link : Leads(NULL, link, <<>>)
  /\ \A link, s : Leads(NULL, link, s) => s = <<>>
  /\ Blocks(<<>>) = {}
<1>1. \A link : Leads(NULL, link, <<>>)
  BY DEF Leads, At
<1>2. ASSUME NEW link, NEW s, Leads(NULL, link, s) PROVE s = <<>>
  <2>1. s \in Seq(Block) /\ NULL = At(s, 1)
    BY <1>2 DEF Leads
  <2>2. ASSUME s # <<>> PROVE FALSE
    <3>1. 1 \in 1 .. Len(s) /\ s[1] \in Block
      BY <2>1, <2>2
    <3>2. QED
      BY <2>1, <3>1, BlocksOfPool DEF At
  <2>3. QED
    BY <2>2
<1>3. Blocks(<<>>) = {}
  BY DEF Blocks
<1>4. QED
  BY <1>1, <1>2, <1>3

(* The list without its first block. *)
LEMMA TailLeads ==
  ASSUME NEW first, NEW link, NEW s, Leads(first, link, s), first # NULL
  PROVE  /\ first \in Blocks(s) /\ Len(s) \in Nat \ {0} /\ Len(Tail(s)) = Len(s) - 1
         /\ Leads(link[first], link, Tail(s))
         /\ Blocks(Tail(s)) = Blocks(s) \ {first}
<1>1. s \in Seq(Block) /\ first = At(s, 1)
  BY DEF Leads
<1>2. PICK n \in Nat : n = Len(s)
  BY <1>1
<1>3. n > 0 /\ 1 \in 1 .. n /\ s # <<>>
  BY <1>1, <1>2 DEF At
<1>4. first = s[1]
  BY <1>1, <1>2, <1>3 DEF At
<1>5. PICK t : t = Tail(s)
  OBVIOUS
<1>6. /\ t \in Seq(Block) /\ Len(t) = n - 1
      /\ \A i \in 1 .. n - 1 : t[i] = s[i + 1]
  BY <1>1, <1>2, <1>3, <1>5
<1>7. \A i \in 1 .. n - 1 : i + 1 \in 1 .. n /\ i + 1 # 1
  BY <1>2
<1>8. \A i, j \in 1 .. n - 1 : t[i] = t[j] => i = j
  <2>1. SUFFICES ASSUME NEW i \in 1 .. n - 1, NEW j \in 1 .. n - 1, s[i + 1] = s[j + 1]
                 PROVE  i = j
    BY <1>6
  <2>2. i + 1 = j + 1
    BY <1>2, <1>7, <2>1 DEF Leads
  <2>3. QED
    BY <2>2
<1>9. \A i \in 1 .. n : i \in 1 .. n - 1 => At(t, i) = At(s, i + 1)
  BY <1>2, <1>6, <1>7 DEF At
<1>10. At(t, n) = NULL /\ At(s, n + 1) = NULL
  BY <1>2, <1>6 DEF At
<1>11. \A i \in 1 .. n : At(t, i) = At(s, i + 1)
  <2>1. \A i \in 1 .. n : i = n \/ i \in 1 .. n - 1
    BY <1>2
  <2>2. QED
    BY <1>9, <1>10, <2>1
<1>12. link[first] = At(t, 1)
  BY <1>2, <1>3, <1>4, <1>11 DEF Leads
<1>13. \A i \in 1 .. n - 1 : link[t[i]] = At(t, i + 1)
  <2>1. SUFFICES ASSUME NEW i \in 1 .. n - 1 PROVE link[s[i + 1]] = At(t, i + 1)
    BY <1>6
  <2>2. link[s[i + 1]] = At(s, (i + 1) + 1)
    BY <1>2, <1>7 DEF Leads
  <2>3. QED
    BY <1>7, <1>11, <2>2
<1>14. Leads(link[first], link, t)
  BY <1>6, <1>8, <1>12, <1>13 DEF Leads
<1>15. Blocks(t) = Blocks(s) \ {first}
  <2>1. Blocks(t) = {s[i + 1] : i \in 1 .. n - 1}
    BY <1>6 DEF Blocks
  <2>2. \A i \in 1 .. n : i = 1 \/ (i - 1 \in 1 .. n - 1 /\ (i - 1) + 1 = i)
    BY <1>2
  <2>3. \A i \in 1 .. n - 1 : s[i + 1] # s[1]
    BY <1>2, <1>3, <1>7 DEF Leads
  <2>4. Blocks(s) = {s[i] : i \in 1 .. n}
    BY <1>2 DEF Blocks
  <2>5. ASSUME NEW b \in Blocks(s), b # first PROVE b \in Blocks(t)
    <3>1. PICK i \in 1 .. n : b = s[i]
      BY <2>4, <2>5
    <3>2. i - 1 \in 1 .. n - 1 /\ (i - 1) + 1 = i
      BY <1>4, <2>2, <2>5, <3>1
    <3>3. QED
      BY <2>1, <3>1, <3>2
  <2>6. \A b \in Blocks(t) : b \in Blocks(s) /\ b # first
    BY <1>4, <1>7, <2>1, <2>3, <2>4
  <2>7. QED
    BY <2>5, <2>6
<1>16. first \in Blocks(s)
  BY <1>2, <1>3, <1>4 DEF Blocks
<1>17. QED
  BY <1>2, <1>3, <1>5, <1>6, <1>14, <1>15, <1>16

(* The list with one more block in front. *)
LEMMA ConsLeads ==
  ASSUME NEW first, NEW link, NEW s, Leads(first, link, s),
         NEW b \in Block, b \notin Blocks(s),
         NEW new, new[b] = first, \A c \in Blocks(s) : new[c] = link[c]
  PROVE  \E t : Leads(b, new, t) /\ Blocks(t) = Blocks(s) \cup {b} /\ Len(t) = Len(s) + 1
<1>1. s \in Seq(Block) /\ first = At(s, 1)
  BY DEF Leads
<1>2. PICK n \in Nat : n = Len(s)
  BY <1>1
<1>3. PICK t : t = [i \in 1 .. n + 1 |-> IF i = 1 THEN b ELSE s[i - 1]]
  OBVIOUS
<1>4. \A i \in 1 .. n + 1 : i = 1 \/ i - 1 \in 1 .. n
  BY <1>2
<1>5. t \in Seq(Block) /\ Len(t) = n + 1
  <2>1. \A i \in 1 .. n : s[i] \in Block
    BY <1>1, <1>2
  <2>2. t \in [1 .. n + 1 -> Block]
    BY <1>3, <1>4, <2>1
  <2>3. QED
    BY <2>2
<1>6. /\ t[1] = b /\ 1 \in 1 .. n + 1
      /\ \A i \in 1 .. n : t[i + 1] = s[i] /\ i + 1 \in 1 .. n + 1
      /\ \A i \in 1 .. n + 1 : i # 1 => t[i] = s[i - 1] /\ i - 1 \in 1 .. n
  BY <1>2, <1>3, <1>4
<1>7. \A i \in 1 .. n : s[i] \in Blocks(s) /\ s[i] # b
  BY <1>2 DEF Blocks
<1>8. ASSUME NEW i \in 1 .. n + 1, NEW j \in 1 .. n + 1, t[i] = t[j] PROVE i = j
  <2>1. CASE i = 1 \/ j = 1
    BY <1>6, <1>7, <1>8, <2>1
  <2>2. CASE i # 1 /\ j # 1
    <3>1. s[i - 1] = s[j - 1] /\ i - 1 \in 1 .. n /\ j - 1 \in 1 .. n
      BY <1>6, <1>8, <2>2
    <3>2. i - 1 = j - 1
      BY <1>2, <3>1 DEF Leads
    <3>3. QED
      BY <3>2
  <2>3. QED
    BY <2>1, <2>2
<1>9. \A i \in Nat : i # 0 => At(t, i + 1) = At(s, i)
  <2>1. \A i \in Nat : i # 0 => (i + 1 \in 1 .. n + 1 <=> i \in 1 .. n)
    BY <1>2
  <2>2. QED
    BY <1>2, <1>5, <1>6, <2>1 DEF At
<1>10. At(t, 1) = b
  BY <1>5, <1>6 DEF At
<1>11. ASSUME NEW i \in 1 .. n + 1 PROVE new[t[i]] = At(t, i + 1)
  <2>1. CASE i = 1
    BY <1>1, <1>6, <1>9, <2>1
  <2>2. CASE i # 1
    <3>1. t[i] = s[i - 1] /\ i - 1 \in 1 .. n /\ (i - 1) + 1 = i /\ i \in Nat
      BY <1>6, <2>2
    <3>2. link[s[i - 1]] = At(s, (i - 1) + 1)
      BY <1>2, <3>1 DEF Leads
    <3>3. QED
      BY <1>7, <1>9, <2>2, <3>1, <3>2
  <2>3. QED
    BY <2>1, <2>2
<1>12. Leads(b, new, t)
  BY <1>5, <1>8, <1>10, <1>11 DEF Leads
<1>13. Blocks(t) = Blocks(s) \cup {b}
  <2>1. Blocks(t) = {t[i] : i \in 1 .. n + 1} /\ Blocks(s) = {s[i] : i \in 1 .. n}
    BY <1>2, <1>5 DEF Blocks
  <2>2. \A c \in Blocks(t) : c \in Blocks(s) \/ c = b
    BY <1>4, <1>6, <2>1
  <2>3. \A c \in Blocks(s) : c \in Blocks(t)
    BY <1>6, <2>1
  <2>4. b \in Blocks(t)
    BY <1>6, <2>1
  <2>5. QED
    BY <2>2, <2>3, <2>4
<1>14. QED
  BY <1>2, <1>5, <1>12, <1>13

(* Links of other blocks do not matter. *)
LEMMA SameLeads ==
  ASSUME NEW first, NEW link, NEW s, Leads(first, link, s),
         NEW new, \A b \in Blocks(s) : new[b] = link[b]
  PROVE  Leads(first, new, s)
BY DEF Leads, Blocks

(* A list has as many blocks as its sequence is long. *)
LEMMA ListLength ==
  ASSUME NEW first, NEW link, NEW s, Leads(first, link, s)
  PROVE  /\ IsFiniteSet(Blocks(s)) /\ Cardinality(Blocks(s)) = Len(s)
         /\ Blocks(s) \subseteq Block
         /\ \A n \in Nat : Blocks(s) \subseteq 0 .. n - 1 => Len(s) <= n
         /\ Len(s) <= MaxSize
<1>1. s \in Seq(Block) /\ Len(s) \in Nat /\ \A i \in 1 .. Len(s) : s[i] \in Block
  <2>1. s \in Seq(Block)
    BY DEF Leads
  <2>2. QED
    BY <2>1
<1>2. IsFiniteSet(1 .. Len(s)) /\ Cardinality(1 .. Len(s)) = Len(s)
  BY <1>1, FS_Interval
<1>3. s \in Surjection(1 .. Len(s), Blocks(s))
  <2>1. s \in [1 .. Len(s) -> Blocks(s)]
    <3>1. s = [i \in 1 .. Len(s) |-> s[i]]
      BY <1>1
    <3>2. \A i \in 1 .. Len(s) : s[i] \in Blocks(s)
      BY DEF Blocks
    <3>3. QED
      BY <3>1, <3>2
  <2>2. \A b \in Blocks(s) : \E i \in 1 .. Len(s) : s[i] = b
    BY DEF Blocks
  <2>3. QED
    BY <2>1, <2>2 DEF Surjection
<1>4. s \in Injection(1 .. Len(s), Blocks(s))
  <2>1. \A i, j \in 1 .. Len(s) : s[i] = s[j] => i = j
    BY DEF Leads
  <2>2. s \in [1 .. Len(s) -> Blocks(s)]
    BY <1>3 DEF Surjection
  <2>3. QED
    BY <2>1, <2>2 DEF Injection, IsInjective
<1>5. IsFiniteSet(Blocks(s)) /\ Cardinality(Blocks(s)) = Len(s)
  BY <1>2, <1>3, <1>4, FS_Surjection
<1>6. Blocks(s) \subseteq Block
  BY <1>1 DEF Blocks
<1>7. ASSUME NEW n \in Nat, Blocks(s) \subseteq 0 .. n - 1 PROVE Len(s) <= n
  <2>1. IsFiniteSet(0 .. n - 1) /\ Cardinality(0 .. n - 1) = n
    BY FS_Interval
  <2>2. QED
    BY <1>5, <1>7, <2>1, FS_Subset
<1>8. Len(s) <= MaxSize
  BY <1>6, <1>7, InitialCountAssumption DEF Block
<1>9. QED
  BY <1>5, <1>6, <1>7, <1>8

(* Who follows the links of a list sees its blocks one after the other,    *)
(* and no block after that.                                                *)
Follow(first, link) ==
  CHOOSE g : g = [k \in 0 .. MaxSize |->
    IF k = 0 THEN first
    ELSE IF g[k - 1] = NULL THEN NULL ELSE link[g[k - 1]]]

LEMMA Walk ==
  ASSUME NEW first, NEW link, NEW s, Leads(first, link, s), NEW f,
         f = Follow(first, link)
  PROVE  /\ \A k \in 0 .. MaxSize : f[k] = At(s, k + 1)
         /\ f[MaxSize] = NULL
         /\ {f[k] : k \in 0 .. MaxSize} \ {NULL} = Blocks(s)
<1>1. /\ s \in Seq(Block) /\ Len(s) \in Nat /\ Len(s) <= MaxSize /\ MaxSize \in Nat
      /\ \A i \in 1 .. Len(s) : s[i] \in Block /\ s[i] # NULL
  BY ListLength, BlocksOfPool, InitialCountAssumption DEF Leads
<1>2. ASSUME NEW k \in Nat
      PROVE  At(s, k + 2) = IF At(s, k + 1) = NULL THEN NULL ELSE link[At(s, k + 1)]
  <2>1. CASE k + 1 \in 1 .. Len(s)
    <3>1. At(s, k + 1) = s[k + 1] /\ s[k + 1] # NULL
      BY <1>1, <2>1 DEF At
    <3>2. link[s[k + 1]] = At(s, (k + 1) + 1) /\ (k + 1) + 1 = k + 2
      BY <2>1 DEF Leads
    <3>3. QED
      BY <3>1, <3>2
  <2>2. CASE k + 1 \notin 1 .. Len(s)
    BY <1>1, <2>2 DEF At
  <2>3. QED
    BY <2>1, <2>2
<1>3. PICK h : h = [k \in 0 .. MaxSize |-> At(s, k + 1)]
  OBVIOUS
<1>4. h = [k \in 0 .. MaxSize |-> IF k = 0 THEN first
             ELSE IF h[k - 1] = NULL THEN NULL ELSE link[h[k - 1]]]
  <2>1. ASSUME NEW k \in 0 .. MaxSize
        PROVE  h[k] = IF k = 0 THEN first
                      ELSE IF h[k - 1] = NULL THEN NULL ELSE link[h[k - 1]]
    <3>1. CASE k = 0
      BY <1>3, <3>1 DEF Leads
    <3>2. CASE k # 0
      <4>1. k - 1 \in Nat /\ k - 1 \in 0 .. MaxSize /\ (k - 1) + 1 = k /\ (k - 1) + 2 = k + 1
        BY <1>1, <3>2
      <4>2. h[k] = At(s, k + 1) /\ h[k - 1] = At(s, k)
        BY <1>3, <4>1
      <4>3. At(s, k + 1) = IF At(s, k) = NULL THEN NULL ELSE link[At(s, k)]
        BY <1>2, <4>1
      <4>4. QED
        BY <3>2, <4>2, <4>3
    <3>3. QED
      BY <3>1, <3>2
  <2>2. h = [k \in 0 .. MaxSize |-> h[k]]
    BY <1>3
  <2>3. QED
    BY <2>1, <2>2
<1>5. f = [k \in 0 .. MaxSize |-> IF k = 0 THEN first
             ELSE IF f[k - 1] = NULL THEN NULL ELSE link[f[k - 1]]]
  BY <1>4 DEF Follow
<1>6. \A k \in 0 .. MaxSize : f[k] = At(s, k + 1)
  <2>0. \A j \in 0 .. MaxSize : f[j] = IF j = 0 THEN first
                 ELSE IF f[j - 1] = NULL THEN NULL ELSE link[f[j - 1]]
    BY <1>5
  <2> DEFINE S == {k \in Nat : k <= MaxSize => f[k] = At(s, k + 1)}
  <2>1. 0 \in S
    <3>1. 0 \in 0 .. MaxSize
      BY <1>1
    <3>2. f[0] = first
      BY <1>5, <3>1
    <3>3. QED
      BY <3>2 DEF Leads
  <2>2. ASSUME NEW k \in Nat, k \in S PROVE k + 1 \in S
    <3>1. SUFFICES ASSUME k + 1 <= MaxSize PROVE f[k + 1] = At(s, (k + 1) + 1)
      OBVIOUS
    <3>2. k + 1 \in 0 .. MaxSize /\ k + 1 # 0 /\ (k + 1) - 1 = k /\ (k + 1) + 1 = k + 2
      BY <1>1, <3>1
    <3> PICK j \in 0 .. MaxSize : j = k + 1
      BY <3>2
    <3>3. f[k + 1] = IF f[k] = NULL THEN NULL ELSE link[f[k]]
      <4>1. f[j] = IF j = 0 THEN first
                   ELSE IF f[j - 1] = NULL THEN NULL ELSE link[f[j - 1]]
        BY <2>0
      <4>2. j # 0 /\ j - 1 = k
        BY <3>2
      <4>3. QED
        BY <4>1, <4>2
    <3>4. f[k] = At(s, k + 1)
      BY <1>1, <2>2, <3>1
    <3>5. QED
      BY <1>2, <3>2, <3>3, <3>4
  <2>3. Nat \subseteq S
    <3> HIDE DEF S
    <3>1. QED
      BY <2>1, <2>2, Induction
  <2>4. QED
    BY <1>1, <2>3
<1>7. f[MaxSize] = NULL
  BY <1>1, <1>6 DEF At
<1>8. {f[k] : k \in 0 .. MaxSize} \ {NULL} = Blocks(s)
  <2>1. \A k \in 0 .. MaxSize : f[k] # NULL => f[k] \in Blocks(s)
    BY <1>1, <1>6 DEF At, Blocks
  <2>2. ASSUME NEW b \in Blocks(s) PROVE b # NULL /\ \E k \in 0 .. MaxSize : f[k] = b
    <3>1. PICK i \in 1 .. Len(s) : b = s[i]
      BY DEF Blocks
    <3>2. i - 1 \in 0 .. MaxSize /\ (i - 1) + 1 = i
      BY <1>1
    <3>3. f[i - 1] = b
      BY <1>6, <3>1, <3>2 DEF At
    <3>4. QED
      BY <1>1, <3>1, <3>2, <3>3
  <2>3. QED
    BY <2>1, <2>2
<1>9. QED
  BY <1>6, <1>7, <1>8

-----------------------------------------------------------------------------
(* The pool: the free blocks are those of its list, and as many as         *)
(* curr_size says.                                                         *)

PoolBlock == 0 .. InitialCount - 1
FreeBlocks == {b \in PoolBlock : <<mem, b>> \notin held}

FreeOn(s) == Leads(head, next, s) /\ Blocks(s) = FreeBlocks /\ curr_size = Len(s)
FreeList ==
  /\ mem \in Nat /\ pool_size = InitialCount
  /\ held \subseteq {mem} \X PoolBlock
  /\ next \in [Block -> Block \cup {NULL}]
  /\ res \in Block \cup {NULL}
  /\ \E s : FreeOn(s)

LEMMA SamePool == ASSUME FreeList, UNCHANGED vars PROVE FreeList'
<1>1. PICK s : FreeOn(s)
  BY DEF FreeList
<1>2. FreeOn(s)'
  BY <1>1 DEF FreeOn, FreeBlocks, vars
<1>3. QED
  BY <1>2 DEF FreeList, vars

LEMMA InitList == Init => FreeList
<1> SUFFICES ASSUME Init PROVE FreeList
  OBVIOUS
<1>1. FreeBlocks = PoolBlock
  BY DEF Init, FreeBlocks
<1>2. next = [b \in Block |-> IF b = InitialCount - 1 THEN NULL
                              ELSE IF b \in 0 .. InitialCount - 2 THEN b + 1 ELSE NULL]
  BY DEF Init, alloc_pool_internal
<1>3. \A b \in PoolBlock : next[b] = IF b = InitialCount - 1 THEN NULL ELSE b + 1
  BY <1>2, BlocksOfPool, InitialCountAssumption DEF PoolBlock
<1>4. next \in [Block -> Block \cup {NULL}]
  BY <1>2, InitialCountAssumption DEF Block
<1>5. PICK s : s = [i \in 1 .. InitialCount |-> i - 1]
  OBVIOUS
<1>6. \A i \in 1 .. InitialCount : i - 1 \in PoolBlock /\ i - 1 \in Block
  BY InitialCountAssumption DEF PoolBlock, Block
<1>7. s \in Seq(Block) /\ Len(s) = InitialCount
  <2>1. s \in [1 .. InitialCount -> Block]
    BY <1>5, <1>6
  <2>2. QED
    BY <1>5, <2>1, InitialCountAssumption
<1>8. \A i \in 1 .. InitialCount : s[i] = i - 1
  BY <1>5
<1>9. At(s, 1) = 0
  BY <1>7, <1>8, InitialCountAssumption DEF At
<1>10. ASSUME NEW i \in 1 .. InitialCount PROVE next[s[i]] = At(s, i + 1)
  <2>1. next[s[i]] = IF i - 1 = InitialCount - 1 THEN NULL ELSE (i - 1) + 1
    BY <1>3, <1>6, <1>8
  <2>2. CASE i = InitialCount
    BY <1>7, <2>1, <2>2, InitialCountAssumption DEF At
  <2>3. CASE i # InitialCount
    <3>1. i + 1 \in 1 .. InitialCount
      BY <2>3, InitialCountAssumption
    <3>2. At(s, i + 1) = (i + 1) - 1
      BY <1>7, <1>8, <3>1 DEF At
    <3>3. QED
      BY <2>1, <2>3, <3>2, InitialCountAssumption
  <2>4. QED
    BY <2>2, <2>3
<1>11. Leads(head, next, s)
  <2>1. head = At(s, 1)
    BY <1>9 DEF Init
  <2>2. \A i, j \in 1 .. InitialCount : s[i] = s[j] => i = j
    BY <1>8, InitialCountAssumption
  <2>3. QED
    BY <1>7, <1>10, <2>1, <2>2 DEF Leads
<1>12. Blocks(s) = PoolBlock
  <2>1. Blocks(s) = {i - 1 : i \in 1 .. InitialCount}
    BY <1>7, <1>8 DEF Blocks
  <2>2. \A b \in PoolBlock : b + 1 \in 1 .. InitialCount /\ (b + 1) - 1 = b
    BY InitialCountAssumption DEF PoolBlock
  <2>3. QED
    BY <1>6, <2>1, <2>2
<1>13. FreeOn(s)
  BY <1>1, <1>7, <1>11, <1>12 DEF FreeOn, Init
<1>14. QED
  BY <1>4, <1>13 DEF Init, FreeList

LEMMA GetTakes ==
  ASSUME FreeList, GetFirst
  PROVE  /\ FreeList'
         /\ res' \in FreeBlocks /\ held' = held \cup {<<mem, res'>>}
         /\ FreeBlocks' = FreeBlocks \ {res'} /\ mem' = mem
<1>1. /\ head # NULL /\ res' = head /\ head' = next[head]
      /\ held' = held \cup {<<mem, head>>} /\ mem' = mem /\ next' = next
      /\ curr_size' = (curr_size + UIntMod - 1) % UIntMod /\ pool_size' = pool_size
  BY DEF GetFirst
<1>2. PICK s : FreeOn(s)
  BY DEF FreeList
<1>3. /\ head \in FreeBlocks /\ Len(s) \in Nat \ {0} /\ Len(Tail(s)) = Len(s) - 1
      /\ Leads(next[head], next, Tail(s))
      /\ Blocks(Tail(s)) = FreeBlocks \ {head}
  BY <1>1, <1>2, TailLeads DEF FreeOn
<1>4. FreeBlocks' = FreeBlocks \ {head}
  BY <1>1 DEF FreeBlocks
<1>5. curr_size' = Len(Tail(s))
  <2>1. curr_size = Len(s) /\ Len(s) <= MaxSize
    BY <1>2, ListLength DEF FreeOn
  <2>2. curr_size \in Nat /\ curr_size > 0 /\ curr_size < UIntMod /\ UIntMod \in Nat
    BY <1>3, <2>1, InitialCountAssumption
  <2>3. (curr_size + UIntMod - 1) % UIntMod = curr_size - 1
    BY <2>2
  <2>4. QED
    BY <1>1, <1>3, <2>1, <2>3
<1>6. FreeOn(Tail(s))'
  BY <1>1, <1>3, <1>4, <1>5 DEF FreeOn
<1>7. held' \subseteq {mem'} \X PoolBlock
  BY <1>1, <1>3 DEF FreeList, FreeBlocks
<1>8. res' \in Block
  BY <1>1, <1>3, BlocksOfPool DEF FreeBlocks, PoolBlock
<1>9. FreeList'
  BY <1>1, <1>6, <1>7, <1>8 DEF FreeList
<1>10. QED
  BY <1>1, <1>3, <1>4, <1>9

LEMMA PutReturns ==
  ASSUME FreeList, NEW b \in Block, Put(b)
  PROVE  /\ FreeList'
         /\ b \notin FreeBlocks /\ held' = held \ {<<mem, b>>}
         /\ FreeBlocks' = FreeBlocks \cup {b} /\ mem' = mem
<1>1. /\ <<mem, b>> \in held /\ next' = [next EXCEPT ![b] = head] /\ head' = b
      /\ held' = held \ {<<mem, b>>} /\ mem' = mem /\ res' = res
      /\ curr_size' = (curr_size + 1) % UIntMod /\ pool_size' = pool_size
  BY DEF Put
<1>2. b \in PoolBlock /\ b \notin FreeBlocks
  BY <1>1 DEF FreeList, FreeBlocks
<1>3. FreeBlocks' = FreeBlocks \cup {b}
  BY <1>1, <1>2 DEF FreeBlocks
<1>4. PICK s : FreeOn(s)
  BY DEF FreeList
<1>5. /\ Leads(head, next, s) /\ Blocks(s) = FreeBlocks /\ curr_size = Len(s)
  BY <1>4 DEF FreeOn
<1>6. head \in Block \cup {NULL}
  BY <1>5 DEF Leads, At
<1>7. /\ next' \in [Block -> Block \cup {NULL}] /\ next'[b] = head
      /\ \A c \in FreeBlocks : next'[c] = next[c]
  BY <1>1, <1>2, <1>6, BlocksOfPool DEF FreeList, FreeBlocks, PoolBlock
<1>8. PICK t : Leads(b, next', t) /\ Blocks(t) = FreeBlocks \cup {b} /\ Len(t) = Len(s) + 1
  BY <1>2, <1>5, <1>7, ConsLeads
<1>9. curr_size' = Len(t)
  <2>1. Len(t) <= MaxSize /\ Len(s) \in Nat
    <3>1. Len(t) <= MaxSize
      BY <1>8, ListLength
    <3>2. QED
      BY <1>5, <3>1 DEF Leads
  <2>2. Len(s) + 1 < UIntMod /\ UIntMod \in Nat
    BY <1>8, <2>1, InitialCountAssumption
  <2>3. (Len(s) + 1) % UIntMod = Len(s) + 1
    BY <2>1, <2>2
  <2>4. QED
    BY <1>1, <1>5, <1>8, <2>3
<1>10. FreeOn(t)'
  BY <1>1, <1>3, <1>8, <1>9 DEF FreeOn
<1>11. FreeList'
  BY <1>1, <1>7, <1>10 DEF FreeList
<1>12. QED
  BY <1>1, <1>2, <1>3, <1>11

LEMMA PoolInvariant == Spec => []FreeList
<1>1. ASSUME FreeList, [Next]_vars PROVE FreeList'
  BY <1>1, GetTakes, PutReturns, SamePool DEF Next
<1>2. FreeList /\ [Next]_vars => FreeList'
  BY <1>1
<1>3. QED
  BY <1>2, InitList, PTL DEF Spec

(* The list of a pool from which no more is asked than it was made for     *)
(* ends, has the blocks that no caller holds and no others, and curr_size  *)
(* is their number, however blocks are taken and given back                *)
(* (ffstorage_pool_get, ffstorage_pool_put).                               *)
THEOREM FreeListExact == Spec => []ListExact
<1>1. ASSUME FreeList PROVE ListExact
  <2>1. PICK s : FreeOn(s)
    BY <1>1 DEF FreeList
  <2>2. Leads(head, next, s) /\ Blocks(s) = FreeBlocks /\ curr_size = Len(s)
    BY <2>1 DEF FreeOn
  <2>3. Chain = Follow(head, next)
    BY DEF Chain, Follow
  <2>4. Chain[MaxSize] = NULL /\ OnList = Blocks(s)
    BY <2>2, <2>3, Walk DEF OnList
  <2>5. curr_size = Cardinality(OnList)
    BY <2>2, <2>4, ListLength
  <2>6. OnList = {b \in 0 .. pool_size - 1 : <<mem, b>> \notin held}
    BY <1>1, <2>2, <2>4 DEF FreeBlocks, PoolBlock, FreeList
  <2>7. QED
    BY <2>4, <2>5, <2>6 DEF ListExact
<1>2. FreeList => ListExact
  BY <1>1
<1>3. QED
  BY <1>2, PoolInvariant, PTL

(* A pool whose initial count is enough lends each block to one holder at  *)
(* a time (ffstorage_pool_get, ffstorage_pool_put).                        *)
THEOREM PoolRefines == Spec => PoolSpec
<1> DEFINE lent == {b \in Block : <<mem, b>> \in held}
<1>1. Init => FreeList
  BY InitList
<1>2. ASSUME FreeList, [Next]_vars
      PROVE  FreeList' /\ [Pool!Next]_<<lent, res>>
  <2>1. CASE GetFirst
    <3>1. /\ res' \in FreeBlocks /\ held' = held \cup {<<mem, res'>>} /\ mem' = mem
      BY <1>2, <2>1, GetTakes
    <3>2. res' \in PoolBlock /\ res' \in Block /\ res' \notin lent
      BY <3>1, BlocksOfPool DEF FreeBlocks, PoolBlock
    <3>3. PICK i \in PoolBlock : i = res'
      BY <3>2
    <3>4. lent' = lent \cup {i}
      BY <3>1, <3>2, <3>3
    <3>5. Pool!Grant(i)
      BY <3>2, <3>3, <3>4 DEF Pool!Grant, Pool!Index, PoolBlock
    <3>6. QED
      BY <1>2, <2>1, <3>5, GetTakes DEF Pool!Next, Pool!Index, PoolBlock
  <2>2. ASSUME NEW b \in Block, Put(b) PROVE FreeList' /\ [Pool!Next]_<<lent, res>>
    <3>1. /\ held' = held \ {<<mem, b>>} /\ mem' = mem /\ res' = res
          /\ <<mem, b>> \in held
      BY <1>2, <2>2, PutReturns DEF Put
    <3>2. lent' = lent \ {b} /\ b \in lent /\ b \in PoolBlock
      BY <1>2, <3>1 DEF FreeList
    <3>3. Pool!GiveBack(b)
      BY <3>1, <3>2 DEF Pool!GiveBack
    <3>4. QED
      BY <1>2, <2>2, <3>2, <3>3, PutReturns DEF Pool!Next, Pool!Index, PoolBlock
  <2>3. CASE UNCHANGED vars
    BY <1>2, <2>3, SamePool DEF vars
  <2>4. QED
    BY <1>2, <2>1, <2>2, <2>3 DEF Next
<1>3. FreeList /\ [Next]_vars => FreeList' /\ [Pool!Next]_<<lent, res>>
  BY <1>2
<1>4. Init => Pool!Init
  BY DEF Init, Pool!Init
<1>5. QED
  BY <1>1, <1>3, <1>4, PTL DEF Spec, PoolSpec, Pool!Spec

LEMMA LifeStep == [LifeNext]_lifeVars => [Next]_vars
<1>1. SUFFICES ASSUME [LifeNext]_lifeVars PROVE [Next]_vars
  OBVIOUS
<1>2. CASE Create
  BY <1>2 DEF Create, ffop_create, Next
<1>3. ASSUME NEW b \in Block, Free(b) PROVE [Next]_vars
  BY <1>3 DEF Free, Next
<1>4. ASSUME NEW b \in Block, PostResets(b) \/ WaitSees(b) PROVE [Next]_vars
  BY <1>4 DEF PostResets, WaitSees
<1>5. CASE IssueMpi \/ IssueImmediate \/ WaitClears \/ Stopped \/ UNCHANGED lifeVars
  BY <1>5 DEF IssueMpi, IssueImmediate, WaitClears, Stopped, lifeVars
<1>6. CASE Prog \/ \E R \in SUBSET inflight : Poll(R)
  BY <1>6 DEF Prog, Complete, Signal, Advance, Poll
<1>7. QED
  BY <1>1, <1>2, <1>3, <1>4, <1>5, <1>6 DEF LifeNext, App

(* The operations, which are taken from the pool by ffop_create and given  *)
(* back by ffop_free, use it in that way.                                  *)
THEOREM OperationsPool == LifeSpec => PoolSpec
<1>1. LifeInit => Init
  BY DEF LifeInit
<1>2. QED
  BY <1>1, LifeStep, PoolRefines, PTL DEF LifeSpec, Spec

(* ... and so the list of free operations is exact.                        *)
THEOREM OperationsListExact == LifeSpec => []ListExact
<1>1. LifeInit => Init
  BY DEF LifeInit
<1>2. QED
  BY <1>1, LifeStep, FreeListExact, PTL DEF LifeSpec, Spec

-----------------------------------------------------------------------------
(* Operations. *)

LifeState ==
  /\ opid \in 0 .. MaxOps
  /\ id \in [Block -> 0 .. MaxOps]
  /\ instance_next \in [Block -> Block \cup {NULL}]
  /\ completed \in [Block -> 0 .. UInt8Mod - 1]
  /\ dependent = [b \in Block |-> NULL]
  /\ in_dep_count = [b \in Block |-> 0]
  /\ dep_left = [b \in Block |-> 0]
  /\ inflight \subseteq Block \X (0 .. MaxOps) /\ IsFiniteSet(inflight)
  /\ cur \in Block \cup {NULL} /\ dep_op = NULL
  /\ ppc \in {"poll", "complete", "signal", "advance"}
  /\ (cur = NULL <=> ppc = "poll")
  /\ apc \in [at : {"out", "issue", "clear"}, op : Block \cup {NULL}]
  /\ (apc.at # "out" => apc.op \in Block)
  /\ pending \subseteq Block
  /\ early \subseteq {"own", "others"}

(* Where what the application waits for can be, and where it cannot.       *)
Underway ==
  /\ \A b \in pending : <<mem, b>> \in held
  /\ \A r \in inflight : /\ r[1] \in pending /\ r[2] = id[r[1]]
                         /\ completed[r[1]] = 0 /\ r[2] \notin Immediate
                         /\ apc # [at |-> "issue", op |-> r[1]]
  /\ apc.at = "issue" => apc.op \in pending /\ completed[apc.op] = 0
  /\ apc.at = "clear" => apc.op \in pending /\ \A r \in inflight : r[1] # apc.op

(* The list of the progress thread: its blocks are waited for, and nowhere *)
(* else; and what is waited for is on its way, as long as no block of the  *)
(* list can have been cut off by a new life of the one in front of it.     *)
First == IF ppc \in {"poll", "complete"} THEN cur ELSE instance_next[cur]
ToComplete(s) ==
  \A b \in Blocks(s) : /\ b \in pending /\ completed[b] = 0
                       /\ apc # [at |-> "issue", op |-> b]
                       /\ apc # [at |-> "clear", op |-> b]
                       /\ \A r \in inflight : r[1] # b
Accounted(s) ==
  \A b \in pending : \/ apc = [at |-> "issue", op |-> b]
                     \/ <<b, id[b]>> \in inflight
                     \/ b \in Blocks(s)
                     \/ completed[b] # 0
Leaving(s) ==
  ppc \in {"signal", "advance"} => /\ cur \notin Blocks(s)
                                   /\ early = {} /\ <<mem, cur>> \notin held => s = <<>>
ReadyList(s) == /\ Leads(First, instance_next, s)
                /\ ToComplete(s) /\ Leaving(s)
                /\ early = {} => Accounted(s)
OnTheirWay == Underway /\ \E s : ReadyList(s)

(* The free list and the types hold whatever the application frees; the    *)
(* rest of an application that waits for an operation before it frees it.  *)
Waited == "own" \notin early
LifeInv == FreeList /\ LifeState /\ (Waited => OnTheirWay)

LEMMA InitLife == LifeInit => LifeInv
<1> SUFFICES ASSUME LifeInit PROVE LifeInv
  OBVIOUS
<1>1. FreeList
  BY InitList DEF LifeInit
<1>2. LifeState
  BY FS_EmptySet, MaxOpsAssumption, UInt8Assumption DEF LifeInit, LifeState, Out
<1>3. Underway
  BY DEF LifeInit, Underway, Out
<1>4. First = NULL
  BY DEF LifeInit, First
<1>5. ReadyList(<<>>)
  BY <1>4, NoBlocks DEF LifeInit, ReadyList, ToComplete, Accounted, Leaving
<1>6. QED
  BY <1>1, <1>2, <1>3, <1>5 DEF LifeInv, OnTheirWay

LEMMA SameLife ==
  ASSUME LifeInv, UNCHANGED lifeVars
  PROVE  LifeInv'
<1>1. /\ UNCHANGED vars
      /\ UNCHANGED <<id, opid, completed, dependent, in_dep_count, dep_left, instance_next,
                     cur, dep_op, ppc, inflight, apc, pending, early, mem, held>>
  BY DEF lifeVars, opVars, edgeVars, listVars, vars
<1>2. FreeList'
  BY <1>1, SamePool DEF LifeInv
<1>3. LifeState'
  BY <1>1 DEF LifeInv, LifeState
<1>4. ASSUME Waited' PROVE OnTheirWay'
  <2>1. OnTheirWay
    BY <1>1, <1>4 DEF LifeInv, Waited
  <2>2. Underway'
    BY <1>1, <2>1 DEF OnTheirWay, Underway
  <2>3. PICK s : ReadyList(s)
    BY <2>1 DEF OnTheirWay
  <2>4. ReadyList(s)'
    BY <1>1, <2>3 DEF ReadyList, First, ToComplete, Accounted, Leaving
  <2>5. QED
    BY <2>2, <2>4 DEF OnTheirWay
<1>5. QED
  BY <1>2, <1>3, <1>4 DEF LifeInv

(* A created operation is on no list.  Its block may be the one that the   *)
(* progress thread is about to leave: with instance.next reset the list    *)
(* ends there, which cuts nothing off as long as the application freed the *)
(* block when nothing else was pending.                                    *)
LEMMA CreateKeeps ==
  ASSUME LifeInv, Create
  PROVE  LifeInv'
<1> DEFINE b == res'
<1>1. /\ FreeList' /\ b \in FreeBlocks /\ held' = held \cup {<<mem, b>>} /\ mem' = mem
  BY GetTakes DEF LifeInv, Create, ffop_create
<1>2. /\ id' = [id EXCEPT ![b] = opid] /\ opid' = opid + 1 /\ opid < MaxOps
      /\ instance_next' = [instance_next EXCEPT ![b] = NULL]
      /\ completed' = [completed EXCEPT ![b] = 0]
      /\ dependent' = [dependent EXCEPT ![b] = NULL]
      /\ in_dep_count' = [in_dep_count EXCEPT ![b] = 0]
      /\ dep_left' = [dep_left EXCEPT ![b] = 0]
      /\ UNCHANGED <<inflight, cur, dep_op, ppc, apc, pending, early>>
  BY DEF Create, ffop_create
<1>3. b \in Block /\ <<mem, b>> \notin held
  BY <1>1, BlocksOfPool DEF FreeBlocks, PoolBlock
<1>4. LifeState'
  <2>1. opid' \in 0 .. MaxOps /\ id' \in [Block -> 0 .. MaxOps]
    BY <1>2, <1>3, MaxOpsAssumption DEF LifeInv, LifeState
  <2>2. /\ instance_next' \in [Block -> Block \cup {NULL}]
        /\ completed' \in [Block -> 0 .. UInt8Mod - 1]
    BY <1>2, <1>3, UInt8Assumption DEF LifeInv, LifeState
  <2>3. dependent' = dependent /\ in_dep_count' = in_dep_count /\ dep_left' = dep_left
    BY <1>2, <1>3 DEF LifeInv, LifeState
  <2>4. QED
    BY <1>2, <2>1, <2>2, <2>3 DEF LifeInv, LifeState
<1>5. ASSUME Waited' PROVE OnTheirWay'
  <2>1. Underway /\ \E s : ReadyList(s)
    BY <1>2, <1>5 DEF LifeInv, Waited, OnTheirWay
  <2>2. b \notin pending
    BY <1>3, <2>1 DEF Underway
  <2>3. Underway'
    BY <1>1, <1>2, <1>3, <2>1, <2>2 DEF LifeInv, LifeState, Underway
  <2>4. PICK s : ReadyList(s)
    BY <2>1
  <2>5. b \notin Blocks(s)
    BY <2>2, <2>4 DEF ReadyList, ToComplete
  <2>6. Blocks(s) \subseteq Block
    BY <2>4, ListLength DEF ReadyList
  <2>7. \A c \in Blocks(s) : instance_next'[c] = instance_next[c] /\ completed'[c] = completed[c]
    BY <1>2, <2>5, <2>6 DEF LifeInv, LifeState
  <2>8. Leads(First, instance_next', s)
    BY <2>4, <2>7, SameLeads DEF ReadyList
  <2>9. ToComplete(s)'
    BY <1>2, <2>4, <2>7 DEF ReadyList, ToComplete
  <2>10. Accounted(s) => Accounted(s)'
    <3>1. \A c \in pending : c \in Block /\ c # b
      BY <2>2 DEF LifeInv, LifeState
    <3>2. \A c \in pending : id'[c] = id[c] /\ completed'[c] = completed[c]
      BY <1>2, <1>3, <3>1 DEF LifeInv, LifeState
    <3>3. QED
      BY <1>2, <3>2 DEF Accounted
  <2>11. CASE ppc \in {"signal", "advance"} /\ cur = b
    <3>1. First' = NULL
      BY <1>2, <1>3, <2>11 DEF First, LifeInv, LifeState
    <3>2. early = {} => s = <<>>
      BY <1>3, <2>4, <2>11 DEF ReadyList, Leaving
    <3>3. Leads(First', instance_next', <<>>) /\ Blocks(<<>>) = {}
      BY <3>1, NoBlocks
    <3>4. early' = {} => Accounted(<<>>)'
      BY <1>2, <2>4, <2>10, <3>2 DEF ReadyList
    <3>5. ReadyList(<<>>)'
      BY <3>3, <3>4 DEF ReadyList, ToComplete, Leaving
    <3>6. QED
      BY <2>3, <3>5 DEF OnTheirWay
  <2>12. CASE ~(ppc \in {"signal", "advance"} /\ cur = b)
    <3>1. First' = First
      <4>1. CASE ppc \in {"signal", "advance"}
        <5>1. cur \in Block /\ cur # b
          BY <2>12, <4>1 DEF LifeInv, LifeState
        <5>2. QED
          BY <1>2, <1>3, <4>1, <5>1 DEF First, LifeInv, LifeState
      <4>2. CASE ppc \notin {"signal", "advance"}
        BY <1>2, <4>2 DEF First, LifeInv, LifeState
      <4>3. QED
        BY <4>1, <4>2
    <3>2. Leads(First', instance_next', s)
      BY <2>8, <3>1
    <3>3. Leaving(s)'
      BY <1>1, <1>2, <2>4 DEF ReadyList, Leaving
    <3>4. ReadyList(s)'
      BY <1>2, <2>4, <2>9, <2>10, <3>2, <3>3 DEF ReadyList
    <3>5. QED
      BY <2>3, <3>4 DEF OnTheirWay
  <2>13. QED
    BY <2>11, <2>12
<1>6. QED
  BY <1>1, <1>4, <1>5 DEF LifeInv

(* A freed operation that had been waited for is nowhere; and when nothing *)
(* else was pending the list it may still lead to is empty.                *)
LEMMA FreeKeeps ==
  ASSUME LifeInv, NEW b \in Block, Free(b)
  PROVE  LifeInv'
<1>1. FreeList' /\ mem' = mem /\ held' = held \ {<<mem, b>>}
  BY PutReturns DEF LifeInv, Free
<1>2. /\ pending' = pending \ {b}
      /\ early' = early \cup (IF b \in pending THEN {"own"} ELSE {})
                        \cup (IF pending' # {} THEN {"others"} ELSE {})
      /\ UNCHANGED <<id, opid, instance_next, completed, dependent, in_dep_count, dep_left,
                     inflight, cur, dep_op, ppc, apc>>
  BY DEF Free, opVars, edgeVars, listVars
<1>3. LifeState'
  BY <1>2 DEF LifeInv, LifeState
<1>4. ASSUME Waited' PROVE OnTheirWay'
  <2>1. b \notin pending /\ pending' = pending /\ Waited
    BY <1>2, <1>4 DEF Waited
  <2>2. Underway /\ \E s : ReadyList(s)
    BY <2>1 DEF LifeInv, OnTheirWay
  <2>3. Underway'
    BY <1>1, <1>2, <2>1, <2>2 DEF Underway
  <2>4. PICK s : ReadyList(s)
    BY <2>2
  <2>5. First' = First /\ ToComplete(s)'
    BY <1>2, <2>1, <2>4 DEF First, ReadyList, ToComplete
  <2>6. early' = {} => s = <<>> /\ early = {}
    <3>1. early' = {} => pending = {} /\ early = {}
      BY <1>2, <2>1
    <3>2. pending = {} => Blocks(s) = {}
      BY <2>4 DEF ReadyList, ToComplete
    <3>3. Leads(First, instance_next, s) /\ s \in Seq(Block)
      BY <2>4 DEF ReadyList, Leads
    <3>4. Blocks(s) = {} => Len(s) = 0
      BY <3>3, ListLength, FS_EmptySet
    <3>5. Len(s) = 0 => s = <<>>
      BY <3>3
    <3>6. QED
      BY <3>1, <3>2, <3>4, <3>5
  <2>7. Leaving(s)'
    BY <1>2, <2>4, <2>6 DEF ReadyList, Leaving
  <2>8. early' = {} => Accounted(s)'
    BY <1>2, <2>1, <2>4, <2>6 DEF ReadyList, Accounted
  <2>9. ReadyList(s)'
    BY <1>2, <2>4, <2>5, <2>7, <2>8 DEF ReadyList
  <2>10. QED
    BY <2>3, <2>9 DEF OnTheirWay
<1>5. QED
  BY <1>1, <1>3, <1>4 DEF LifeInv

(* The rest of the application's steps leave the pool and the list alone.  *)
LEMMA PostResetsKeeps ==
  ASSUME LifeInv, NEW b \in Block, PostResets(b)
  PROVE  LifeInv'
<1>1. /\ apc = Out /\ <<mem, b>> \in held /\ b \notin pending /\ b # NULL
      /\ completed' = [completed EXCEPT ![b] = 0]
      /\ apc' = [at |-> "issue", op |-> b]
      /\ UNCHANGED vars
      /\ UNCHANGED <<mem, held, id, opid, instance_next, dependent, in_dep_count, dep_left,
                     inflight, cur, dep_op, ppc, early>>
  BY BlocksOfPool DEF PostResets, HeldOps, opVars, edgeVars, listVars, vars
<1>2. pending' = pending \cup {b}
  BY DEF PostResets, LifeInv, LifeState
<1>3. FreeList'
  BY <1>1, SamePool DEF LifeInv
<1>4. LifeState'
  BY <1>1, <1>2, UInt8Assumption DEF LifeInv, LifeState
<1>5. SUFFICES ASSUME Waited' PROVE OnTheirWay'
  BY <1>3, <1>4 DEF LifeInv
<1>6. Underway /\ \E s : ReadyList(s)
  BY <1>1, <1>5 DEF LifeInv, Waited, OnTheirWay
<1>7. Underway'
  BY <1>1, <1>2, <1>6 DEF LifeInv, LifeState, Underway
<1>8. PICK s : ReadyList(s)
  BY <1>6
<1>9. b \notin Blocks(s) /\ First' = First
  BY <1>1, <1>8 DEF ReadyList, ToComplete, First
<1>10. \A c \in Block : c # b => completed'[c] = completed[c]
  BY <1>1 DEF LifeInv, LifeState
<1>11. Blocks(s) \subseteq Block /\ pending \subseteq Block
  BY <1>8, ListLength DEF ReadyList, LifeInv, LifeState
<1>12. ToComplete(s)'
  BY <1>1, <1>2, <1>8, <1>9, <1>10, <1>11 DEF ReadyList, ToComplete
<1>13. early' = {} => Accounted(s)'
  BY <1>1, <1>2, <1>8, <1>10, <1>11 DEF ReadyList, Accounted, Out
<1>14. Leads(First, instance_next, s)' /\ Leaving(s)'
  BY <1>1, <1>8, <1>9 DEF ReadyList, Leaving
<1>15. QED
  BY <1>7, <1>12, <1>13, <1>14 DEF OnTheirWay, ReadyList

LEMMA IssueKeeps ==
  ASSUME LifeInv, IssueMpi \/ IssueImmediate
  PROVE  LifeInv'
<1> DEFINE b == apc.op
<1>1. apc.at = "issue" /\ apc' = Out /\ apc = [at |-> "issue", op |-> b] /\ b \in Block
  BY DEF IssueMpi, IssueImmediate, LifeInv, LifeState
<1>2. /\ UNCHANGED vars
      /\ UNCHANGED <<mem, held, id, opid, instance_next, dependent, in_dep_count, dep_left,
                     cur, dep_op, ppc, pending, early>>
  BY DEF IssueMpi, IssueImmediate, opVars, edgeVars, listVars, vars
<1>3. \/ /\ id[b] \notin Immediate /\ completed' = completed
         /\ inflight' = inflight \cup {<<b, id[b]>>}
      \/ completed' = [completed EXCEPT ![b] = (@ + 1) % UInt8Mod] /\ inflight' = inflight
  BY DEF IssueMpi, IssueImmediate, Flagged
<1>4. FreeList'
  BY <1>2, SamePool DEF LifeInv
<1>5. LifeState'
  <2>1. IsFiniteSet(inflight')
    <3>1. IsFiniteSet(inflight)
      BY DEF LifeInv, LifeState
    <3>2. IsFiniteSet(inflight \cup {<<b, id[b]>>})
      BY <3>1, FS_AddElement
    <3>3. QED
      BY <1>3, <3>1, <3>2
  <2>2. inflight' \subseteq Block \X (0 .. MaxOps)
    BY <1>1, <1>3 DEF LifeInv, LifeState
  <2>3. completed' \in [Block -> 0 .. UInt8Mod - 1]
    <3>1. completed[b] \in Nat /\ completed \in [Block -> 0 .. UInt8Mod - 1]
      BY <1>1 DEF LifeInv, LifeState
    <3>2. (completed[b] + 1) % UInt8Mod \in 0 .. UInt8Mod - 1
      BY <3>1, UInt8Assumption
    <3>3. QED
      BY <1>1, <1>3, <3>1, <3>2
  <2>4. apc' \in [at : {"out", "issue", "clear"}, op : Block \cup {NULL}] /\ apc'.at = "out"
    BY <1>1 DEF Out
  <2>5. QED
    BY <1>2, <2>1, <2>2, <2>3, <2>4 DEF LifeInv, LifeState
<1>6. SUFFICES ASSUME Waited' PROVE OnTheirWay'
  BY <1>4, <1>5 DEF LifeInv
<1>7. Underway /\ \E s : ReadyList(s)
  BY <1>2, <1>6 DEF LifeInv, Waited, OnTheirWay
<1>8. b \in pending /\ completed[b] = 0 /\ \A r \in inflight : r[1] # b
  BY <1>1, <1>7 DEF Underway
<1>9. \/ /\ id[b] \notin Immediate /\ completed' = completed
         /\ inflight' = inflight \cup {<<b, id[b]>>}
      \/ completed' = [completed EXCEPT ![b] = 1] /\ inflight' = inflight
  <2>1. (completed[b] + 1) % UInt8Mod = 1
    BY <1>8, UInt8Assumption
  <2>2. QED
    BY <1>3, <2>1
<1>10. Underway'
  <2>1. apc'.at = "out"
    BY <1>1 DEF Out
  <2>2. ASSUME NEW r \in inflight'
        PROVE  /\ r[1] \in pending /\ r[2] = id[r[1]]
               /\ completed'[r[1]] = 0 /\ r[2] \notin Immediate
    <3>1. CASE r \in inflight
      <4>1. /\ r[1] \in pending /\ r[2] = id[r[1]] /\ r[1] # b
            /\ completed[r[1]] = 0 /\ r[2] \notin Immediate
        BY <1>7, <1>8, <3>1 DEF Underway
      <4>2. QED
        BY <1>9, <4>1 DEF LifeInv, LifeState
    <3>2. CASE r \notin inflight
      <4>1. r = <<b, id[b]>> /\ id[b] \notin Immediate /\ completed' = completed
        BY <1>9, <2>2, <3>2
      <4>2. QED
        BY <1>8, <4>1
    <3>3. QED
      BY <3>1, <3>2
  <2>3. QED
    BY <1>2, <1>7, <2>1, <2>2 DEF Underway
<1>11. PICK s : ReadyList(s)
  BY <1>7
<1>12. b \notin Blocks(s) /\ First' = First /\ Blocks(s) \subseteq Block
  <2>1. b \notin Blocks(s)
    BY <1>1, <1>11 DEF ReadyList, ToComplete
  <2>2. Blocks(s) \subseteq Block
    BY <1>11, ListLength DEF ReadyList
  <2>3. QED
    BY <1>2, <2>1, <2>2 DEF First
<1>13. \A c \in Blocks(s) : completed'[c] = completed[c] /\ \A r \in inflight' : r[1] # c
  BY <1>9, <1>11, <1>12 DEF LifeInv, LifeState, ReadyList, ToComplete
<1>14. ToComplete(s)'
  BY <1>1, <1>2, <1>11, <1>13 DEF ReadyList, ToComplete, Out
<1>15. early' = {} => Accounted(s)'
  <2>1. SUFFICES ASSUME early = {} PROVE Accounted(s)'
    BY <1>2
  <2>2. ASSUME NEW c \in pending, c # b
        PROVE  <<c, id[c]>> \in inflight' \/ c \in Blocks(s) \/ completed'[c] # 0
    <3>1. <<c, id[c]>> \in inflight \/ c \in Blocks(s) \/ completed[c] # 0
      BY <1>1, <1>11, <2>1, <2>2 DEF ReadyList, Accounted
    <3>2. inflight \subseteq inflight' /\ completed'[c] = completed[c]
      BY <1>9, <2>2 DEF LifeInv, LifeState
    <3>3. QED
      BY <3>1, <3>2
  <2>3. <<b, id[b]>> \in inflight' \/ completed'[b] # 0
    BY <1>1, <1>9 DEF LifeInv, LifeState
  <2>4. QED
    BY <1>2, <2>2, <2>3 DEF Accounted
<1>16. Leads(First, instance_next, s)' /\ Leaving(s)'
  BY <1>2, <1>11, <1>12 DEF ReadyList, Leaving
<1>17. QED
  BY <1>10, <1>14, <1>15, <1>16 DEF OnTheirWay, ReadyList

LEMMA WaitKeeps ==
  ASSUME LifeInv, WaitClears \/ \E b \in Block : WaitSees(b)
  PROVE  LifeInv'
<1>1. /\ UNCHANGED vars
      /\ UNCHANGED <<mem, held, id, opid, instance_next, dependent, in_dep_count, dep_left,
                     inflight, cur, dep_op, ppc, early>>
  BY DEF WaitSees, WaitClears, opVars, edgeVars, listVars, vars
<1>2. FreeList'
  BY <1>1, SamePool DEF LifeInv
<1>3. ASSUME NEW b \in Block, WaitSees(b) PROVE LifeInv'
  <2>1. /\ apc = Out /\ b \in pending /\ completed[b] # 0
        /\ apc' = [at |-> "clear", op |-> b] /\ UNCHANGED <<completed, pending>>
    BY <1>3 DEF WaitSees
  <2>2. LifeState'
    BY <1>1, <2>1 DEF LifeInv, LifeState
  <2>3. SUFFICES ASSUME Waited' PROVE OnTheirWay'
    BY <1>2, <2>2 DEF LifeInv
  <2>4. Underway /\ \E s : ReadyList(s)
    BY <1>1, <2>3 DEF LifeInv, Waited, OnTheirWay
  <2>5. Underway'
    BY <1>1, <2>1, <2>4 DEF Underway
  <2>6. PICK s : ReadyList(s)
    BY <2>4
  <2>7. ToComplete(s)'
    BY <1>1, <2>1, <2>6 DEF ReadyList, ToComplete
  <2>8. early' = {} => Accounted(s)'
    BY <1>1, <2>1, <2>6 DEF ReadyList, Accounted, Out
  <2>9. Leads(First, instance_next, s)' /\ Leaving(s)'
    BY <1>1, <2>6 DEF ReadyList, Leaving, First
  <2>10. QED
    BY <2>5, <2>7, <2>8, <2>9 DEF OnTheirWay, ReadyList
<1>4. CASE WaitClears
  <2> DEFINE b == apc.op
  <2>1. /\ apc.at = "clear" /\ apc = [at |-> "clear", op |-> b] /\ b \in Block
        /\ completed' = [completed EXCEPT ![b] = 0] /\ apc' = Out
    BY <1>4 DEF WaitClears, LifeInv, LifeState
  <2>2. pending' = pending \ {b}
    <3>1. \A a \in Block : dependent[a] # b
      BY <2>1, BlocksOfPool DEF LifeInv, LifeState
    <3>2. QED
      BY <1>4, <3>1 DEF WaitClears
  <2>3. LifeState'
    BY <1>1, <2>1, <2>2, UInt8Assumption DEF LifeInv, LifeState, Out
  <2>4. SUFFICES ASSUME Waited' PROVE OnTheirWay'
    BY <1>2, <2>3 DEF LifeInv
  <2>5. Underway /\ \E s : ReadyList(s)
    BY <1>1, <2>4 DEF LifeInv, Waited, OnTheirWay
  <2>6. b \in pending /\ \A r \in inflight : r[1] # b
    BY <2>1, <2>5 DEF Underway
  <2>7. Underway'
    BY <1>1, <2>1, <2>2, <2>5, <2>6 DEF LifeInv, LifeState, Underway, Out
  <2>8. \A c \in Block : c # b => completed'[c] = completed[c]
    BY <2>1 DEF LifeInv, LifeState
  <2>9. PICK s : ReadyList(s)
    BY <2>5
  <2>10. b \notin Blocks(s) /\ Blocks(s) \subseteq Block
    BY <2>1, <2>9, ListLength DEF ReadyList, ToComplete
  <2>11. ToComplete(s)'
    BY <1>1, <2>1, <2>2, <2>8, <2>9, <2>10 DEF ReadyList, ToComplete, Out
  <2>12. early' = {} => Accounted(s)'
    <3>1. pending \subseteq Block
      BY DEF LifeInv, LifeState
    <3>2. QED
      BY <1>1, <2>1, <2>2, <2>8, <2>9, <3>1 DEF ReadyList, Accounted
  <2>13. Leads(First, instance_next, s)' /\ Leaving(s)'
    BY <1>1, <2>9 DEF ReadyList, Leaving, First
  <2>14. QED
    BY <2>7, <2>11, <2>12, <2>13 DEF OnTheirWay, ReadyList
<1>5. QED
  BY <1>3, <1>4

(* ffop_complete takes the first block off the list ...                    *)
LEMMA CompleteKeeps ==
  ASSUME LifeInv, Complete
  PROVE  LifeInv'
<1>1. /\ ppc = "complete" /\ ppc' = "signal" /\ First = cur /\ cur \in Block /\ cur # NULL
      /\ First' = instance_next[cur]
      /\ UNCHANGED vars
      /\ UNCHANGED <<mem, held, id, opid, dependent, in_dep_count, instance_next, cur,
                     dep_op, inflight, apc, pending, early>>
  BY DEF Complete, First, opVars, vars, LifeInv, LifeState
<1>2. /\ completed' = [completed EXCEPT ![cur] = (@ + 1) % UInt8Mod]
      /\ dep_left' = dep_left
  BY <1>1 DEF Complete, Flagged, LifeInv, LifeState
<1>3. FreeList'
  BY <1>1, SamePool DEF LifeInv
<1>4. LifeState'
  <2>1. completed[cur] \in Nat /\ completed \in [Block -> 0 .. UInt8Mod - 1]
    BY <1>1 DEF LifeInv, LifeState
  <2>2. (completed[cur] + 1) % UInt8Mod \in 0 .. UInt8Mod - 1
    BY <2>1, UInt8Assumption
  <2>3. completed' \in [Block -> 0 .. UInt8Mod - 1]
    BY <1>1, <1>2, <2>1, <2>2
  <2>4. QED
    BY <1>1, <1>2, <2>3 DEF LifeInv, LifeState
<1>5. SUFFICES ASSUME Waited' PROVE OnTheirWay'
  BY <1>3, <1>4 DEF LifeInv
<1>6. Underway /\ \E s : ReadyList(s)
  BY <1>1, <1>5 DEF LifeInv, Waited, OnTheirWay
<1>7. PICK s : ReadyList(s)
  BY <1>6
<1>8. /\ cur \in Blocks(s) /\ Leads(instance_next[cur], instance_next, Tail(s))
      /\ Blocks(Tail(s)) = Blocks(s) \ {cur} /\ Blocks(s) \subseteq Block
  BY <1>1, <1>7, TailLeads, ListLength DEF ReadyList
<1>9. /\ cur \in pending /\ completed[cur] = 0
      /\ apc # [at |-> "issue", op |-> cur] /\ \A r \in inflight : r[1] # cur
  BY <1>7, <1>8 DEF ReadyList, ToComplete
<1>10. completed' = [completed EXCEPT ![cur] = 1]
  <2>1. (completed[cur] + 1) % UInt8Mod = 1
    BY <1>9, UInt8Assumption
  <2>2. QED
    BY <1>2, <2>1
<1>11. completed'[cur] = 1 /\ \A c \in Block : c # cur => completed'[c] = completed[c]
  BY <1>1, <1>10 DEF LifeInv, LifeState
<1>12. Underway'
  <2>1. apc.at = "issue" => apc.op # cur
    BY <1>9 DEF LifeInv, LifeState
  <2>2. QED
    BY <1>1, <1>6, <1>9, <1>11, <2>1 DEF LifeInv, LifeState, Underway
<1>13. ToComplete(Tail(s))'
  BY <1>1, <1>7, <1>8, <1>11 DEF ReadyList, ToComplete
<1>14. early' = {} => Accounted(Tail(s))'
  <2>1. pending \subseteq Block
    BY DEF LifeInv, LifeState
  <2>2. QED
    BY <1>1, <1>7, <1>8, <1>11, <2>1 DEF ReadyList, Accounted
<1>15. Leaving(Tail(s))'
  <2>1. <<mem, cur>> \in held
    BY <1>6, <1>9 DEF Underway
  <2>2. QED
    BY <1>1, <1>8, <2>1 DEF Leaving
<1>16. Leads(First, instance_next, Tail(s))'
  BY <1>1, <1>8
<1>17. QED
  BY <1>12, <1>13, <1>14, <1>15, <1>16 DEF OnTheirWay, ReadyList

(* ... and the thread goes on with what that block says is the next, which *)
(* it still says, unless it has been freed with others pending and created *)
(* again.                                                                  *)
LEMMA AdvanceKeeps ==
  ASSUME LifeInv, Signal \/ Advance
  PROVE  LifeInv'
<1>1. /\ UNCHANGED vars
      /\ UNCHANGED <<mem, held, id, opid, completed, dependent, in_dep_count, instance_next,
                     inflight, apc, pending, early>>
  BY DEF Signal, Advance, opVars, edgeVars, vars
<1>2. FreeList'
  BY <1>1, SamePool DEF LifeInv
<1>3. cur \in Block
  BY DEF Signal, Advance, LifeInv, LifeState
<1>4. /\ LifeState' /\ First' = First
      /\ ppc' \in {"signal", "advance"} => ppc = "signal" /\ cur' = cur
  <2>1. CASE Signal
    <3>1. ppc = "signal" /\ cur' = cur
      BY <2>1 DEF Signal
    <3>2. dependent[cur] = NULL
      BY <1>3 DEF LifeInv, LifeState
    <3>3. ppc' = "advance" /\ dep_op' = NULL /\ dep_left' = dep_left
      BY <2>1, <3>2 DEF Signal
    <3>4. LifeState'
      BY <1>1, <3>1, <3>3 DEF LifeInv, LifeState
    <3>5. First' = First
      BY <1>1, <3>1, <3>3 DEF First
    <3>6. QED
      BY <3>1, <3>4, <3>5
  <2>2. CASE Advance
    <3>1. /\ ppc = "advance" /\ cur' = instance_next[cur] /\ cur' = First
          /\ ppc' = IF cur' = NULL THEN "poll" ELSE "complete"
          /\ dep_op' = NULL /\ dep_left' = dep_left
      BY <2>2 DEF Advance, First, edgeVars
    <3>2. cur' \in Block \cup {NULL}
      BY <1>3, <3>1 DEF LifeInv, LifeState
    <3>3. LifeState'
      BY <1>1, <3>1, <3>2 DEF LifeInv, LifeState
    <3>4. First' = First
      BY <3>1 DEF First
    <3>5. QED
      BY <3>1, <3>3, <3>4
  <2>3. QED
    BY <2>1, <2>2
<1>5. SUFFICES ASSUME Waited' PROVE OnTheirWay'
  BY <1>2, <1>4 DEF LifeInv
<1>6. Underway /\ \E s : ReadyList(s)
  BY <1>1, <1>5 DEF LifeInv, Waited, OnTheirWay
<1>7. Underway'
  BY <1>1, <1>6 DEF Underway
<1>8. PICK s : ReadyList(s)
  BY <1>6
<1>9. ToComplete(s)' /\ (early' = {} => Accounted(s)')
  BY <1>1, <1>8 DEF ReadyList, ToComplete, Accounted
<1>10. Leads(First', instance_next', s) /\ Leaving(s)'
  BY <1>1, <1>4, <1>8 DEF ReadyList, Leaving
<1>11. QED
  BY <1>7, <1>8, <1>9, <1>10 DEF OnTheirWay, ReadyList

(* Of some positions in a sequence one is the last. *)
LEMMA Least ==
  ASSUME NEW S \in SUBSET Nat, S # {}
  PROVE  \E x \in S : \A y \in S : x <= y
<1> DEFINE R == {ss \in Nat \X Nat : ss[1] < ss[2]}
<1>1. OpToRel(<, Nat) = R
  BY DEF OpToRel
<1>2. IsWellFoundedOn(R, Nat)
  BY <1>1, NatLessThanWellFounded
<1>3. PICK x \in S : \A y \in S : <<y, x>> \notin R
  <2> HIDE DEF R
  <2>1. QED
    BY <1>2, WFMin
<1>4. ASSUME NEW y \in S PROVE x <= y
  <2>1. x \in Nat /\ y \in Nat
    OBVIOUS
  <2>2. y < x => <<y, x>> \in R
    BY <2>1
  <2>3. ~(y < x)
    BY <1>3, <2>2
  <2>4. QED
    BY <2>1, <2>3
<1>5. QED
  BY <1>4

LEMMA LastPosition ==
  ASSUME NEW n \in Nat, NEW q, DOMAIN q = 1 .. n, NEW b, \E k \in 1 .. n : q[k][1] = b
  PROVE  Last(q, b) \in 1 .. n
<1> DEFINE S == {n - k : k \in {l \in 1 .. n : q[l][1] = b}}
<1>1. S \in SUBSET Nat /\ S # {}
  OBVIOUS
<1>2. PICK x \in S : \A y \in S : x <= y
  <2> HIDE DEF S
  <2>1. QED
    BY <1>1, Least
<1>3. PICK k \in 1 .. n : x = n - k /\ q[k][1] = b
  OBVIOUS
<1>4. \A l \in 1 .. n : q[l][1] = b => l <= k
  <2>1. ASSUME NEW l \in 1 .. n, q[l][1] = b PROVE l <= k
    <3>1. n - l \in S
      BY <2>1
    <3>2. n - k <= n - l
      BY <1>2, <1>3, <3>1
    <3>3. QED
      BY <3>2
  <2>2. QED
    BY <2>1
<1>5. QED
  BY <1>3, <1>4 DEF Last

(* A poll makes the list from the requests that MPI reports, the last one  *)
(* in front.                                                               *)
LEMMA PollKeeps ==
  ASSUME LifeInv, NEW R \in SUBSET inflight, Poll(R)
  PROVE  LifeInv'
<1> DEFINE n == Cardinality(R)
<1>1. /\ ppc = "poll" /\ ppc' = "complete" /\ inflight' = inflight \ R /\ R # {}
      /\ UNCHANGED vars
      /\ UNCHANGED <<mem, held, id, opid, completed, dependent, in_dep_count, dep_left,
                     dep_op, apc, pending, early>>
  BY DEF Poll, opVars, edgeVars, vars
<1>2. PICK q \in [1 .. n -> R] :
        /\ \A x \in R : \E k \in 1 .. n : q[k] = x
        /\ instance_next' = [b \in Block |->
              IF \A k \in DOMAIN q : q[k][1] # b THEN instance_next[b]
              ELSE IF Last(q, b) = 1 THEN NULL ELSE q[Last(q, b) - 1][1]]
        /\ cur' = q[Len(q)][1]
  BY DEF Poll, Orders
<1>3. IsFiniteSet(R) /\ n \in Nat \ {0}
  BY <1>1, FS_Subset, FS_CardinalityType, FS_EmptySet DEF LifeInv, LifeState
<1>4. \A k \in 1 .. n : q[k] \in inflight /\ q[k][1] \in Block
  BY <1>2 DEF LifeInv, LifeState
<1>5. Len(q) = n /\ n \in 1 .. n /\ cur' = q[n][1]
  BY <1>2, <1>3
<1>6. FreeList'
  BY <1>1, SamePool DEF LifeInv
<1>7. LifeState'
  <2>1. IsFiniteSet(inflight') /\ inflight' \subseteq Block \X (0 .. MaxOps)
    BY <1>1, FS_Subset DEF LifeInv, LifeState
  <2>2. instance_next' \in [Block -> Block \cup {NULL}]
    <3>1. ASSUME NEW b \in Block PROVE instance_next'[b] \in Block \cup {NULL}
      <4>1. CASE \E k \in 1 .. n : q[k][1] = b
        <5>1. PICK l \in 1 .. n : l = Last(q, b)
          BY <1>2, <1>3, <4>1, LastPosition
        <5>2. instance_next'[b] = IF l = 1 THEN NULL ELSE q[l - 1][1]
          BY <1>2, <4>1, <5>1
        <5>3. l # 1 => l - 1 \in 1 .. n
          BY <1>3
        <5>4. QED
          BY <1>4, <5>2, <5>3
      <4>2. CASE ~\E k \in 1 .. n : q[k][1] = b
        <5>1. instance_next'[b] = instance_next[b]
          BY <1>2, <4>2
        <5>2. QED
          BY <5>1 DEF LifeInv, LifeState
      <4>3. QED
        BY <4>1, <4>2
    <3>2. QED
      BY <1>2, <3>1
  <2>3. cur' \in Block /\ cur' # NULL
    BY <1>4, <1>5, BlocksOfPool
  <2>4. QED
    BY <1>1, <2>1, <2>2, <2>3 DEF LifeInv, LifeState
<1>8. SUFFICES ASSUME Waited' PROVE OnTheirWay'
  BY <1>6, <1>7 DEF LifeInv
<1>9. Underway /\ \E s : ReadyList(s)
  BY <1>1, <1>8 DEF LifeInv, Waited, OnTheirWay
<1>10. \A j, k \in 1 .. n : q[j] = q[k] => j = k
  <2>1. IsFiniteSet(1 .. n) /\ Cardinality(1 .. n) = n
    BY <1>3, FS_Interval
  <2>2. q \in Surjection(1 .. n, R)
    BY <1>2 DEF Surjection
  <2>3. q \in Injection(1 .. n, R)
    BY <1>3, <2>1, <2>2, FS_Surjection
  <2>4. QED
    BY <2>3 DEF Injection, IsInjective
<1>11. \A r \in inflight : r = <<r[1], r[2]>> /\ r[2] = id[r[1]] /\ r[1] \in Block
  BY <1>9 DEF LifeInv, LifeState, Underway
<1>12. \A j, k \in 1 .. n : q[j][1] = q[k][1] => j = k
  BY <1>4, <1>10, <1>11
<1>13. \A k \in 1 .. n : instance_next'[q[k][1]] = IF k = 1 THEN NULL ELSE q[k - 1][1]
  <2>1. \A k \in 1 .. n : Last(q, q[k][1]) = k
    <3>1. DOMAIN q = 1 .. n
      BY <1>2
    <3>2. QED
      BY <1>3, <1>12, <3>1 DEF Last
  <2>2. QED
    BY <1>2, <1>4, <2>1
<1>14. Underway'
  BY <1>1, <1>9 DEF Underway
<1>15. PICK m \in Nat : m = n /\ m > 0
  BY <1>3
<1>16. PICK t : t = [i \in 1 .. m |-> q[m + 1 - i][1]]
  OBVIOUS
<1>17. \A i \in 1 .. m : m + 1 - i \in 1 .. n /\ m + 1 - (m + 1 - i) = i
  BY <1>15
<1>18. t \in Seq(Block) /\ Len(t) = m /\ \A i \in 1 .. m : t[i] = q[m + 1 - i][1]
  <2>1. t \in [1 .. m -> Block]
    BY <1>4, <1>16, <1>17
  <2>2. t \in Seq(Block) /\ Len(t) = m
    <3>1. \A f \in [1 .. m -> Block] : f \in Seq(Block) /\ Len(f) = m
      OBVIOUS
    <3>2. QED
      BY <2>1, <3>1
  <2>3. \A i \in 1 .. m : t[i] = q[m + 1 - i][1]
    BY <1>16
  <2>4. QED
    BY <2>2, <2>3
<1>19. Blocks(t) = {r[1] : r \in R}
  <2>1. Blocks(t) = {t[i] : i \in 1 .. m}
    <3>1. Len(t) = m
      BY <1>18
    <3>2. QED
      BY <3>1 DEF Blocks
  <2>2. \A i \in 1 .. m : q[m + 1 - i] \in R /\ t[i] = q[m + 1 - i][1]
    BY <1>2, <1>17, <1>18
  <2>3. ASSUME NEW r \in R PROVE \E i \in 1 .. m : t[i] = r[1]
    <3>1. PICK k \in 1 .. n : q[k] = r
      BY <1>2
    <3>2. PICK i \in 1 .. m : k = m + 1 - i
      <4>1. m + 1 - k \in 1 .. m /\ k = m + 1 - (m + 1 - k)
        BY <1>15
      <4>2. QED
        BY <4>1
    <3>3. t[i] = q[k][1]
      BY <2>2, <3>2
    <3>4. QED
      BY <3>1, <3>3
  <2>4. QED
    BY <2>1, <2>2, <2>3
<1>20. Leads(First', instance_next', t)
  <2>1. \A i, j \in 1 .. m : t[i] = t[j] => i = j
    <3>1. SUFFICES ASSUME NEW i \in 1 .. m, NEW j \in 1 .. m, q[m + 1 - i][1] = q[m + 1 - j][1]
                   PROVE  i = j
      BY <1>18
    <3>2. m + 1 - i = m + 1 - j
      BY <1>12, <1>17, <3>1
    <3>3. QED
      BY <3>2
  <2>2. First' = At(t, 1)
    <3>1. 1 \in 1 .. m /\ m + 1 - 1 = n
      BY <1>15
    <3>2. At(t, 1) = q[n][1]
      BY <1>18, <3>1 DEF At
    <3>3. QED
      BY <1>1, <1>5, <3>2 DEF First
  <2>3. ASSUME NEW i \in 1 .. m PROVE instance_next'[t[i]] = At(t, i + 1)
    <3>1. PICK k \in 1 .. n : k = m + 1 - i
      BY <1>17
    <3>2. t[i] = q[k][1]
      BY <1>18, <3>1
    <3>3. CASE k = 1
      <4>1. i + 1 \notin 1 .. m
        BY <3>1, <3>3
      <4>2. QED
        BY <1>13, <1>18, <3>2, <3>3, <4>1 DEF At
    <3>4. CASE k # 1
      <4>1. i + 1 \in 1 .. m /\ m + 1 - (i + 1) = k - 1
        BY <1>15, <3>1, <3>4
      <4>2. At(t, i + 1) = q[k - 1][1]
        BY <1>18, <4>1 DEF At
      <4>3. QED
        BY <1>13, <3>2, <3>4, <4>2
    <3>5. QED
      BY <3>3, <3>4
  <2>4. QED
    BY <1>18, <2>1, <2>2, <2>3 DEF Leads
<1>21. ToComplete(t)'
  <2>1. ASSUME NEW b \in Blocks(t)
        PROVE  /\ b \in pending /\ completed[b] = 0
               /\ apc # [at |-> "issue", op |-> b] /\ apc # [at |-> "clear", op |-> b]
               /\ \A r \in inflight' : r[1] # b
    <3>1. PICK r \in R : b = r[1]
      BY <1>19, <2>1
    <3>2. r \in inflight
      OBVIOUS
    <3>3. /\ b \in pending /\ completed[b] = 0 /\ apc # [at |-> "issue", op |-> b]
      BY <1>9, <3>1, <3>2 DEF Underway
    <3>4. apc # [at |-> "clear", op |-> b]
      BY <1>9, <3>1, <3>2 DEF Underway
    <3>5. \A x \in inflight' : x[1] # b
      BY <1>1, <1>11, <3>1, <3>2
    <3>6. QED
      BY <3>3, <3>4, <3>5
  <2>2. QED
    BY <1>1, <2>1 DEF ToComplete
<1>22. early' = {} => Accounted(t)'
  <2>1. PICK s : ReadyList(s)
    BY <1>9
  <2>2. First = NULL
    BY <1>1 DEF First, LifeInv, LifeState
  <2>3. Blocks(s) = {}
    BY <2>1, <2>2, NoBlocks DEF ReadyList
  <2>4. ASSUME NEW b \in pending, <<b, id[b]>> \in inflight
        PROVE  <<b, id[b]>> \in inflight' \/ b \in Blocks(t)
    <3>1. CASE <<b, id[b]>> \in R
      <4>1. PICK r \in R : r = <<b, id[b]>>
        BY <3>1
      <4>2. b = r[1]
        BY <4>1
      <4>3. QED
        BY <1>19, <4>2
    <3>2. CASE <<b, id[b]>> \notin R
      BY <1>1, <2>4, <3>2
    <3>3. QED
      BY <3>1, <3>2
  <2>5. QED
    BY <1>1, <2>1, <2>3, <2>4 DEF ReadyList, Accounted
<1>23. ReadyList(t)'
  BY <1>1, <1>20, <1>21, <1>22 DEF ReadyList, Leaving
<1>24. QED
  BY <1>14, <1>23 DEF OnTheirWay

LEMMA LifeInvariant == LifeSpec => []LifeInv
<1>1. ASSUME LifeInv, [LifeNext]_lifeVars PROVE LifeInv'
  <2>1. CASE Stopped \/ UNCHANGED lifeVars
    BY <1>1, <2>1, SameLife DEF Stopped
  <2>2. QED
    BY <1>1, <2>1, CreateKeeps, FreeKeeps, PostResetsKeeps, IssueKeeps, WaitKeeps,
       CompleteKeeps, AdvanceKeeps, PollKeeps DEF LifeNext, App, Prog
<1>2. LifeInv /\ [LifeNext]_lifeVars => LifeInv'
  BY <1>1
<1>3. QED
  BY <1>2, InitLife, PTL DEF LifeSpec

-----------------------------------------------------------------------------
(* The list that Ready makes is that of the invariant. *)
LEMMA ListedBlocks ==
  ASSUME NEW s, ReadyList(s), NEW b \in Block
  PROVE  Listed(b) <=> b \in Blocks(s)
<1>1. Leads(First, instance_next, s)
  BY DEF ReadyList
<1>2. Ready = Follow(First, instance_next)
  BY DEF Ready, Follow, First
<1>3. {Ready[k] : k \in 0 .. MaxSize} \ {NULL} = Blocks(s)
  BY <1>1, <1>2, Walk
<1>4. QED
  BY <1>3, BlocksOfPool DEF Listed

(* Every variable of the operations has its type; the bytes and the        *)
(* unsigned counters stay in their ranges.                                 *)
THEOREM OperationsTyped == LifeSpec => []LifeTypeOK
<1>1. ASSUME LifeInv PROVE LifeTypeOK
  <2>1. TypeOK
    <3>1. PICK s : FreeOn(s)
      BY <1>1 DEF LifeInv, FreeList
    <3>2. head \in Block \cup {NULL}
      BY <3>1 DEF FreeOn, Leads, At
    <3>3. curr_size \in 0 .. UIntMod - 1
      <4>1. curr_size = Len(s) /\ Len(s) <= MaxSize /\ Len(s) \in Nat
        <5>1. Len(s) <= MaxSize
          BY <3>1, ListLength DEF FreeOn
        <5>2. QED
          BY <3>1, <5>1 DEF FreeOn, Leads
      <4>2. QED
        BY <4>1, InitialCountAssumption
    <3>4. held \subseteq Nat \X Block
      BY <1>1, BlocksOfPool DEF LifeInv, FreeList, PoolBlock
    <3>5. pool_size \in 1 .. MaxSize
      BY <1>1, InitialCountAssumption DEF LifeInv, FreeList
    <3>6. QED
      BY <1>1, <3>2, <3>3, <3>4, <3>5 DEF LifeInv, FreeList, TypeOK
  <2>2. /\ dependent \in [Block -> Block \cup {NULL}]
        /\ in_dep_count \in [Block -> {0, 1}]
        /\ dep_left \in [Block -> 0 .. UIntMod - 1]
    BY <1>1, InitialCountAssumption DEF LifeInv, LifeState
  <2>3. QED
    BY <1>1, <2>1, <2>2 DEF LifeInv, LifeState, LifeTypeOK
<1>2. LifeInv => LifeTypeOK
  BY <1>1
<1>3. QED
  BY <1>2, LifeInvariant, PTL

(* The progress thread never follows a pointer to a block that was freed   *)
(* or has become another operation, neither one from the request table nor *)
(* one from its list, if the application waits for an operation before it  *)
(* frees it.                                                               *)
THEOREM NoDanglingPointer == LifeSpec => []PointersValid
<1>1. ASSUME LifeInv, Waited
      PROVE  /\ \A r \in inflight : r[1] \in HeldOps /\ id[r[1]] = r[2] /\ r[1] \in pending
             /\ \A b \in Block : Listed(b) => b \in HeldOps /\ b \in pending
  <2>1. Underway /\ \E s : ReadyList(s)
    BY <1>1 DEF LifeInv, OnTheirWay
  <2>2. pending \subseteq HeldOps
    BY <1>1, <2>1 DEF LifeInv, LifeState, Underway, HeldOps
  <2>3. \A r \in inflight : r[1] \in HeldOps /\ id[r[1]] = r[2] /\ r[1] \in pending
    BY <2>1, <2>2 DEF Underway
  <2>4. PICK s : ReadyList(s)
    BY <2>1
  <2>5. \A b \in Block : Listed(b) => b \in pending
    BY <2>4, ListedBlocks DEF ReadyList, ToComplete
  <2>6. QED
    BY <2>2, <2>3, <2>5
<1>2. LifeInv => PointersValid
  BY <1>1 DEF PointersValid, Waited
<1>3. QED
  BY <1>2, LifeInvariant, PTL

(* Where an operation is that is waited for. *)
LEMMA OnePlace ==
  ASSUME LifeInv, Waited, NEW b \in pending
  PROVE  /\ Cardinality(Places(b)) <= 1
         /\ early = {} => Cardinality(Places(b)) = 1
<1> DEFINE Posting == apc = [at |-> "issue", op |-> b]
           WithMpi == <<b, id[b]>> \in inflight
           OnReady == Listed(b)
           Done == completed[b] # 0
           Place(p) == CASE p = 1 -> Posting [] p = 2 -> WithMpi
                         [] p = 3 -> OnReady [] p = 4 -> Done
<1>1. Underway /\ \E s : ReadyList(s)
  BY DEF LifeInv, OnTheirWay
<1>2. PICK s : ReadyList(s)
  BY <1>1
<1>3. OnReady <=> b \in Blocks(s)
  BY <1>2, ListedBlocks DEF LifeInv, LifeState
<1>4. early = {} => Posting \/ WithMpi \/ OnReady \/ Done
  BY <1>2, <1>3 DEF ReadyList, Accounted
<1>5. OnReady => ~Posting /\ ~WithMpi /\ ~Done
  BY <1>2, <1>3 DEF ReadyList, ToComplete
<1>6. WithMpi => ~Posting /\ ~Done
  BY <1>1 DEF Underway
<1>7. Posting => ~Done
  BY <1>1 DEF Underway
<1>8. \A x \in 1 .. 4 :
        Place(x) <=> \/ x = 1 /\ Posting
                     \/ x = 2 /\ WithMpi
                     \/ x = 3 /\ OnReady
                     \/ x = 4 /\ Done
  <2>1. \A x \in 1 .. 4 : x = 1 \/ x = 2 \/ x = 3 \/ x = 4
    OBVIOUS
  <2>2. (Place(1) <=> Posting) /\ (Place(2) <=> WithMpi)
    OBVIOUS
  <2>3. (Place(3) <=> OnReady) /\ (Place(4) <=> Done)
    OBVIOUS
  <2> HIDE DEF Posting, WithMpi, OnReady, Done, Place
  <2>4. QED
    BY <2>1, <2>2, <2>3
<1>9. Places(b) = {x \in 1 .. 4 : Place(x)}
  BY DEF Places
<1> HIDE DEF Posting, WithMpi, OnReady, Done, Place
<1>10. CASE Posting \/ WithMpi \/ OnReady \/ Done
  <2>1. \E p \in 1 .. 4 : \A x \in 1 .. 4 : Place(x) <=> x = p
    <3>1. CASE Posting
      BY <1>5, <1>6, <1>7, <1>8, <3>1
    <3>2. CASE WithMpi
      BY <1>5, <1>6, <1>8, <3>2
    <3>3. CASE OnReady
      BY <1>5, <1>8, <3>3
    <3>4. CASE Done
      BY <1>5, <1>6, <1>7, <1>8, <3>4
    <3>5. QED
      BY <1>10, <3>1, <3>2, <3>3, <3>4
  <2>2. PICK p \in 1 .. 4 : Places(b) = {p}
    BY <1>9, <2>1
  <2>3. Cardinality(Places(b)) = 1
    BY <2>2, FS_Singleton
  <2>4. QED
    BY <2>3
<1>11. CASE ~(Posting \/ WithMpi \/ OnReady \/ Done)
  <2>1. Places(b) = {}
    BY <1>8, <1>9, <1>11
  <2>2. Cardinality(Places(b)) = 0
    BY <2>1, FS_EmptySet
  <2>3. QED
    BY <1>4, <1>11, <2>2
<1>12. QED
  BY <1>10, <1>11

(* What is waited for is at one place on its way, and at one only, if the  *)
(* application frees when it has waited for everything: the ready list     *)
(* drops nothing though it runs through blocks whose owners may free them. *)
(* And nothing is completed twice if it waits for each operation that it   *)
(* frees.                                                                  *)
THEOREM NothingLost == LifeSpec => []NothingDropped
<1>1. LifeInv => NothingDropped
  BY OnePlace DEF NothingDropped, Waited
<1>2. QED
  BY <1>1, LifeInvariant, PTL

(* When ffop_wait or ffop_test sees the flag, MPI has reported this very   *)
(* operation: nothing of the block's earlier lives makes it return, if all *)
(* those were waited for.                                                  *)
THEOREM NoEarlyWait == LifeSpec => []WaitMeansReported
<1>1. LifeInv => WaitMeansReported
  BY DEF LifeInv, LifeState, OnTheirWay, Waited, Underway, WaitMeansReported,
         ReportedWhenSeen
<1>2. QED
  BY <1>1, LifeInvariant, PTL
=============================================================================
