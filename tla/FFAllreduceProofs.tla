------------------------- MODULE FFAllreduceProofs -------------------------
(***************************************************************************)
(* The allreduce is right for every power of two of ranks: whatever the    *)
(* number of rounds, the counts of the buffers and the ranks that reduce   *)
(* in place, every message is the one its receiver has to have, and a rank *)
(* comes out of a round with the sum over all ranks.                       *)
(*                                                                         *)
(* The argument.  The partner of a step is the rank that differs in one    *)
(* binary digit, so the groups of two partners are disjoint and make up    *)
(* the group of the next step, and after the last step all ranks are one   *)
(* group.  How often a rank has done an operation says how many messages   *)
(* have gone into a channel and how many have come out of it, hence which  *)
(* rounds those in it are of.                                              *)
(***************************************************************************)
EXTENDS FFAllreduce, FiniteSetTheorems, WellFoundedInduction, TLAPS

-----------------------------------------------------------------------------
(* A set with 0 that has k + 1 with k has all natural numbers. *)
LEMMA Induction ==
  ASSUME NEW S, 0 \in S, \A k \in Nat : k \in S => k + 1 \in S
  PROVE  Nat \subseteq S
<1> DEFINE T == {0 .. x : x \in Nat \ S}
<1>1. T \subseteq FiniteSubsetsOf(Nat)
  <2>1. \A x \in Nat : IsFiniteSet(0 .. x) /\ 0 .. x \subseteq Nat
    BY FS_Interval
  <2>2. QED
    BY <2>1 DEF FiniteSubsetsOf
<1>2. ASSUME T # {} PROVE FALSE
  <2>1. PICK R \in T : \A Q \in T : <<Q, R>> \notin StrictSubsetOrdering(Nat)
    <3> HIDE DEF T
    <3>1. QED
      BY <1>1, <1>2, FS_StrictSubsetOrderingWellFounded, WFMin
  <2>2. PICK m \in Nat \ S : R = 0 .. m
    BY <2>1
  <2>3. m - 1 \in Nat \ S
    BY <2>2
  <2>4. PICK Q : Q = 0 .. m - 1
    OBVIOUS
  <2>5. Q \in T
    BY <2>3, <2>4
  <2>6. Q \subseteq R /\ Q # R /\ Q \subseteq Nat /\ R \subseteq Nat
    <3>1. m \in R /\ m \notin Q
      BY <2>2, <2>4
    <3>2. QED
      BY <2>2, <2>3, <2>4, <3>1
  <2>7. <<Q, R>> \in StrictSubsetOrdering(Nat)
    BY <2>6 DEF StrictSubsetOrdering
  <2>8. QED
    BY <2>1, <2>5, <2>7
<1>3. \A x \in Nat : x \in S
  BY <1>2
<1>4. QED
  BY <1>3

-----------------------------------------------------------------------------
(* Quotients. *)

LEMMA Divides ==
  ASSUME NEW p \in Nat, NEW m \in Nat \ {0}
  PROVE  /\ p \div m \in Nat /\ p % m \in 0 .. m - 1
         /\ p = m * (p \div m) + (p % m)
OBVIOUS

LEMMA Unique ==
  ASSUME NEW p \in Nat, NEW m \in Nat \ {0}, NEW q \in Nat,
         m * q <= p, p < m * q + m
  PROVE  p \div m = q
<1>1. p = m * (p \div m) + (p % m) /\ p % m \in 0 .. m - 1 /\ p \div m \in Nat
  BY Divides
<1>2. CASE p \div m > q
  <2>1. PICK d \in Nat : p \div m = q + 1 + d
    BY <1>1, <1>2
  <2>2. m * (p \div m) = m * q + m + m * d
    BY <2>1
  <2>3. m * d >= 0
    OBVIOUS
  <2>4. QED
    BY <1>1, <2>2, <2>3
<1>3. CASE p \div m < q
  <2>1. PICK d \in Nat : q = (p \div m) + 1 + d
    BY <1>1, <1>3
  <2>2. m * q = m * (p \div m) + m + m * d
    BY <1>1, <2>1
  <2>3. m * d >= 0
    OBVIOUS
  <2>4. QED
    BY <1>1, <2>2, <2>3
<1>4. QED
  BY <1>1, <1>2, <1>3

LEMMA Halves ==
  ASSUME NEW p \in Nat, NEW m \in Nat \ {0}
  PROVE  p \div (2 * m) = (p \div 2) \div m
<1> DEFINE h == p \div 2
           q == h \div m
<1>1. h \in Nat /\ 2 * h <= p /\ p <= 2 * h + 1
  OBVIOUS
<1>2. q \in Nat /\ h % m \in 0 .. m - 1 /\ h = m * q + (h % m)
  BY <1>1, Divides
<1>3. m * q \in Nat /\ (2 * m) * q = 2 * (m * q)
  BY <1>2
<1>4. (2 * m) * q <= p /\ p < (2 * m) * q + 2 * m
  BY <1>1, <1>2, <1>3
<1>5. 2 * m \in Nat \ {0}
  OBVIOUS
<1> HIDE DEF q
<1>6. p \div (2 * m) = q
  BY <1>2, <1>4, <1>5, Unique
<1>7. QED
  BY <1>6 DEF q

-----------------------------------------------------------------------------
(* The masks: the recursive definition has the value it is meant to have. *)

LEMMA MaskDef ==
  /\ mask \in [0 .. csize -> Nat \ {0}]
  /\ mask[0] = 1
  /\ \A k \in Nat : k + 1 \in 0 .. csize => mask[k + 1] = 2 * mask[k]
<1> DEFINE Doubles(f, n) == /\ f \in [0 .. n -> Nat \ {0}]
                            /\ f[0] = 1
                            /\ \A k \in Nat : k + 1 <= n => f[k + 1] = 2 * f[k]
           S == {n \in Nat : \E f : Doubles(f, n)}
<1>1. 0 \in S
  <2>1. PICK f : f = [k \in 0 .. 0 |-> 1]
    OBVIOUS
  <2>2. Doubles(f, 0)
    BY <2>1
  <2>3. QED
    BY <2>2
<1>2. ASSUME NEW n \in Nat, n \in S PROVE n + 1 \in S
  <2>1. PICK f : Doubles(f, n)
    BY <1>2
  <2>2. PICK g : g = [k \in 0 .. n + 1 |-> IF k = n + 1 THEN 2 * f[n] ELSE f[k]]
    OBVIOUS
  <2>3. f[n] \in Nat \ {0}
    BY <2>1
  <2>4. g \in [0 .. n + 1 -> Nat \ {0}]
    BY <2>1, <2>2, <2>3
  <2>5. g[0] = 1
    BY <2>1, <2>2
  <2>6. ASSUME NEW k \in Nat, k + 1 <= n + 1 PROVE g[k + 1] = 2 * g[k]
    <3>1. CASE k = n
      BY <2>2, <3>1
    <3>2. CASE k # n
      BY <2>1, <2>2, <2>6, <3>2
    <3>3. QED
      BY <3>1, <3>2
  <2>7. QED
    BY <2>4, <2>5, <2>6
<1>3. csize \in S
  <2> HIDE DEF S
  <2>1. QED
    BY <1>1, <1>2, Induction, SizeAssumption
<1>4. PICK f : Doubles(f, csize)
  BY <1>3
<1>5. f = [k \in 0 .. csize |-> IF k = 0 THEN 1 ELSE 2 * f[k - 1]]
  <2>1. ASSUME NEW k \in 0 .. csize PROVE f[k] = IF k = 0 THEN 1 ELSE 2 * f[k - 1]
    <3>1. CASE k = 0
      BY <1>4, <3>1
    <3>2. CASE k # 0
      <4>1. k - 1 \in Nat /\ (k - 1) + 1 <= csize /\ (k - 1) + 1 = k
        BY <3>2, SizeAssumption
      <4>2. f[(k - 1) + 1] = 2 * f[k - 1]
        BY <1>4, <4>1
      <4>3. QED
        BY <3>2, <4>1, <4>2
    <3>3. QED
      BY <3>1, <3>2
  <2>2. f = [k \in 0 .. csize |-> f[k]]
    BY <1>4
  <2>3. QED
    BY <2>1, <2>2
<1>6. mask = [k \in 0 .. csize |-> IF k = 0 THEN 1 ELSE 2 * mask[k - 1]]
  <2>1. PICK g : g = mask
    OBVIOUS
  <2>2. mask = CHOOSE h : h = [k \in 0 .. csize |-> IF k = 0 THEN 1 ELSE 2 * h[k - 1]]
    BY DEF mask
  <2>3. QED
    BY <1>5, <2>2
<1>7. mask[0] = 1 /\ \A k \in Nat : k + 1 \in 0 .. csize => mask[k + 1] = 2 * mask[k]
  <2>1. \A k \in 0 .. csize : mask[k] = IF k = 0 THEN 1 ELSE 2 * mask[k - 1]
    BY <1>6
  <2>2. QED
    BY <2>1, SizeAssumption
<1>8. \A k \in 0 .. csize : mask[k] = f[k]
  <2> DEFINE E == {k \in Nat : k <= csize => mask[k] = f[k]}
  <2>1. 0 \in E
    BY <1>4, <1>7
  <2>2. ASSUME NEW k \in Nat, k \in E PROVE k + 1 \in E
    BY <1>4, <1>7, <2>2, SizeAssumption
  <2>3. Nat \subseteq E
    <3> HIDE DEF E
    <3>1. QED
      BY <2>1, <2>2, Induction
  <2>4. QED
    BY <2>3, SizeAssumption
<1>9. mask \in [0 .. csize -> Nat \ {0}]
  <2>1. mask = [k \in 0 .. csize |-> mask[k]]
    BY <1>6
  <2>2. QED
    BY <1>4, <1>8, <2>1
<1>10. QED
  BY <1>7, <1>9

-----------------------------------------------------------------------------
(* The binary digits of a rank; flip changes one of them. *)

bit(p, k) == (p \div mask[k]) % 2

LEMMA BitDef ==
  ASSUME NEW p \in Nat
  PROVE  /\ bit(p, 0) = p % 2
         /\ \A k \in Nat : k + 1 <= csize => bit(p, k + 1) = bit(p \div 2, k)
         /\ \A k \in 0 .. csize : bit(p, k) \in 0 .. 1
<1>1. bit(p, 0) = p % 2
  <2>1. p \div 1 = p
    OBVIOUS
  <2>2. QED
    BY <2>1, MaskDef DEF bit
<1>2. ASSUME NEW k \in Nat, k + 1 <= csize PROVE bit(p, k + 1) = bit(p \div 2, k)
  <2>1. k \in 0 .. csize /\ k + 1 \in 0 .. csize
    BY <1>2, SizeAssumption
  <2>2. mask[k] \in Nat \ {0} /\ mask[k + 1] = 2 * mask[k]
    BY <2>1, MaskDef
  <2>3. QED
    BY <2>2, Halves DEF bit
<1>3. ASSUME NEW k \in 0 .. csize PROVE bit(p, k) \in 0 .. 1
  <2>1. mask[k] \in Nat \ {0}
    BY MaskDef
  <2>2. p \div mask[k] \in Nat
    BY <2>1, Divides
  <2>3. QED
    BY <2>2 DEF bit
<1>4. QED
  BY <1>1, <1>2, <1>3

(* To flip a digit but the last is to flip one in the half. *)
LEMMA FlipHalf ==
  ASSUME NEW p \in Nat
  PROVE  /\ flip(p, mask[0]) \in Nat /\ flip(p, mask[0]) \div 2 = p \div 2
         /\ flip(p, mask[0]) = IF p % 2 = 0 THEN p + 1 ELSE p - 1
         /\ \A k \in Nat : k + 1 <= csize =>
               flip(p, mask[k + 1]) = 2 * flip(p \div 2, mask[k]) + (p % 2)
<1>1. flip(p, mask[0]) = IF p % 2 = 0 THEN p + 1 ELSE p - 1
  <2>1. p \div 1 = p
    OBVIOUS
  <2>2. QED
    BY <2>1, MaskDef DEF flip
<1>2. flip(p, mask[0]) \in Nat /\ flip(p, mask[0]) \div 2 = p \div 2
  BY <1>1
<1>3. ASSUME NEW k \in Nat, k + 1 <= csize
      PROVE  flip(p, mask[k + 1]) = 2 * flip(p \div 2, mask[k]) + (p % 2)
  <2>1. k \in 0 .. csize /\ k + 1 \in 0 .. csize
    BY <1>3, SizeAssumption
  <2>2. PICK m \in Nat \ {0} : m = mask[k] /\ mask[k + 1] = 2 * m
    BY <2>1, MaskDef
  <2>3. p \div (2 * m) = (p \div 2) \div m
    BY Halves
  <2>4. PICK h \in Nat : h = p \div 2 /\ p = 2 * h + (p % 2) /\ p % 2 \in 0 .. 1
    OBVIOUS
  <2>5. PICK b : b = (h \div m) % 2
    OBVIOUS
  <2>6. flip(p, 2 * m) = IF b = 0 THEN p + 2 * m ELSE p - 2 * m
    BY <2>3, <2>4, <2>5 DEF flip
  <2>7. flip(h, m) = IF b = 0 THEN h + m ELSE h - m
    BY <2>5 DEF flip
  <2>8. CASE b = 0
    BY <2>2, <2>4, <2>6, <2>7, <2>8
  <2>9. CASE b # 0
    BY <2>2, <2>4, <2>6, <2>7, <2>9
  <2>10. QED
    BY <2>8, <2>9
<1>4. QED
  BY <1>1, <1>2, <1>3

LEMMA FlipBits ==
  ASSUME NEW k \in 0 .. csize, NEW p \in Nat
  PROVE  LET f == flip(p, mask[k])
         IN  /\ f \in Nat /\ flip(f, mask[k]) = p
             /\ \A j \in 0 .. csize : bit(f, j) = bit(p, j) <=> j # k
<1> DEFINE Flips(i, x) ==
             LET f == flip(x, mask[i])
             IN  /\ f \in Nat /\ flip(f, mask[i]) = x
                 /\ \A j \in 0 .. csize : bit(f, j) = bit(x, j) <=> j # i
           S == {i \in Nat : i <= csize => \A x \in Nat : Flips(i, x)}
<1>1. ASSUME NEW f \in Nat, NEW x \in Nat, f \div 2 = x \div 2, f % 2 # x % 2
      PROVE  \A j \in 0 .. csize : bit(f, j) = bit(x, j) <=> j # 0
  <2>1. SUFFICES ASSUME NEW j \in 0 .. csize
                 PROVE  bit(f, j) = bit(x, j) <=> j # 0
    OBVIOUS
  <2>2. CASE j = 0
    BY <1>1, <2>2, BitDef
  <2>3. CASE j # 0
    <3>1. PICK i \in Nat : i + 1 = j /\ i + 1 <= csize
      <4>1. j - 1 \in Nat /\ (j - 1) + 1 = j
        BY <2>3, SizeAssumption
      <4>2. QED
        BY <4>1, SizeAssumption
    <3>2. bit(f, i + 1) = bit(f \div 2, i) /\ bit(x, i + 1) = bit(x \div 2, i)
      BY <3>1, BitDef
    <3>3. QED
      BY <1>1, <2>3, <3>1, <3>2
  <2>4. QED
    BY <2>2, <2>3
<1>2. 0 \in S
  <2>1. SUFFICES ASSUME NEW x \in Nat PROVE Flips(0, x)
    OBVIOUS
  <2>2. PICK f \in Nat : f = flip(x, mask[0])
    BY FlipHalf
  <2>3. f \div 2 = x \div 2 /\ f = IF x % 2 = 0 THEN x + 1 ELSE x - 1
    BY <2>2, FlipHalf
  <2>4. f % 2 # x % 2
    BY <2>3
  <2>5. flip(f, mask[0]) = x
    <3>1. flip(f, mask[0]) = IF f % 2 = 0 THEN f + 1 ELSE f - 1
      BY FlipHalf
    <3>2. QED
      BY <2>3, <3>1
  <2>6. \A j \in 0 .. csize : bit(f, j) = bit(x, j) <=> j # 0
    BY <1>1, <2>3, <2>4
  <2>7. QED
    BY <2>2, <2>5, <2>6
<1>3. ASSUME NEW i \in Nat, i \in S PROVE i + 1 \in S
  <2>1. SUFFICES ASSUME i + 1 <= csize, NEW x \in Nat PROVE Flips(i + 1, x)
    OBVIOUS
  <2>2. PICK h \in Nat : h = x \div 2 /\ x = 2 * h + (x % 2) /\ x % 2 \in 0 .. 1
    OBVIOUS
  <2>3. Flips(i, h)
    BY <1>3, <2>1, SizeAssumption
  <2>4. PICK f \in Nat : f = flip(h, mask[i])
    BY <2>3
  <2>5. flip(f, mask[i]) = h /\ \A j \in 0 .. csize : bit(f, j) = bit(h, j) <=> j # i
    BY <2>3, <2>4
  <2>6. PICK g \in Nat : g = 2 * f + (x % 2)
    BY <2>2
  <2>7. g = flip(x, mask[i + 1])
    BY <2>1, <2>2, <2>4, <2>6, FlipHalf
  <2>8. g \div 2 = f /\ g % 2 = x % 2
    BY <2>2, <2>6
  <2>9. flip(g, mask[i + 1]) = x
    <3>1. flip(g, mask[i + 1]) = 2 * flip(g \div 2, mask[i]) + (g % 2)
      BY <2>1, FlipHalf
    <3>2. QED
      BY <2>2, <2>5, <2>8, <3>1
  <2>10. ASSUME NEW j \in 0 .. csize PROVE bit(g, j) = bit(x, j) <=> j # i + 1
    <3>1. CASE j = 0
      BY <2>8, <3>1, BitDef
    <3>2. CASE j # 0
      <4>1. PICK l \in Nat : l + 1 = j /\ l + 1 <= csize /\ l \in 0 .. csize
        <5>1. j - 1 \in Nat /\ (j - 1) + 1 = j
          BY <3>2, SizeAssumption
        <5>2. QED
          BY <5>1, SizeAssumption
      <4>2. bit(g, l + 1) = bit(f, l) /\ bit(x, l + 1) = bit(h, l)
        BY <2>2, <2>8, <4>1, BitDef
      <4>3. QED
        BY <2>5, <4>1, <4>2
    <3>3. QED
      BY <3>1, <3>2
  <2>11. QED
    BY <2>7, <2>9, <2>10
<1>4. k \in S
  <2> HIDE DEF S
  <2>1. QED
    BY <1>2, <1>3, Induction, SizeAssumption
<1>5. QED
  BY <1>4

(* A flip of a digit stays below the powers of two above it. *)
LEMMA FlipBelow ==
  ASSUME NEW k \in Nat, NEW n \in 0 .. csize, k < n, NEW p \in Nat, p < mask[n]
  PROVE  flip(p, mask[k]) < mask[n]
<1> DEFINE S == {i \in Nat : \A l \in 0 .. csize : i < l =>
                               \A x \in Nat : x < mask[l] => flip(x, mask[i]) < mask[l]}
<1>1. ASSUME NEW l \in 0 .. csize, l # 0
      PROVE  l - 1 \in Nat /\ l - 1 \in 0 .. csize /\ mask[l - 1] \in Nat \ {0}
             /\ mask[l] = 2 * mask[l - 1]
  <2>1. l - 1 \in Nat /\ l - 1 \in 0 .. csize /\ (l - 1) + 1 = l
    BY <1>1, SizeAssumption
  <2>2. QED
    BY <2>1, MaskDef
<1>2. 0 \in S
  <2>1. SUFFICES ASSUME NEW l \in 0 .. csize, 0 < l, NEW x \in Nat, x < mask[l]
                 PROVE  flip(x, mask[0]) < mask[l]
    OBVIOUS
  <2>2. PICK m \in Nat : mask[l] = 2 * m
    BY <1>1, <2>1
  <2>3. flip(x, mask[0]) = IF x % 2 = 0 THEN x + 1 ELSE x - 1
    BY FlipHalf
  <2>4. QED
    BY <2>1, <2>2, <2>3
<1>3. ASSUME NEW i \in Nat, i \in S PROVE i + 1 \in S
  <2>1. SUFFICES ASSUME NEW l \in 0 .. csize, i + 1 < l, NEW x \in Nat, x < mask[l]
                 PROVE  flip(x, mask[i + 1]) < mask[l]
    OBVIOUS
  <2>2. l # 0 /\ i < l - 1 /\ i + 1 <= csize
    BY <2>1, SizeAssumption
  <2>3. PICK m \in Nat : m = mask[l - 1] /\ mask[l] = 2 * m /\ l - 1 \in 0 .. csize
    BY <1>1, <2>2
  <2>4. PICK h \in Nat : h = x \div 2 /\ x = 2 * h + (x % 2) /\ x % 2 \in 0 .. 1
    OBVIOUS
  <2>5. h < m
    BY <2>1, <2>3, <2>4
  <2>6. flip(h, mask[i]) < m
    BY <1>3, <2>2, <2>3, <2>5
  <2>7. flip(h, mask[i]) \in Nat
    <3>1. i \in 0 .. csize
      BY <2>2, SizeAssumption
    <3>2. QED
      BY <3>1, FlipBits
  <2>8. flip(x, mask[i + 1]) = 2 * flip(h, mask[i]) + (x % 2)
    BY <2>2, <2>4, FlipHalf
  <2>9. QED
    BY <2>3, <2>4, <2>6, <2>7, <2>8
<1>4. k \in S
  <2> HIDE DEF S
  <2>1. QED
    BY <1>2, <1>3, Induction
<1>5. QED
  BY <1>4

(* A number below a power of two is given by its digits. *)
LEMMA BitsExact ==
  ASSUME NEW k \in 0 .. csize, NEW p \in Nat, NEW q \in Nat, p < mask[k], q < mask[k],
         \A j \in 0 .. k - 1 : bit(p, j) = bit(q, j)
  PROVE  p = q
<1> DEFINE S == {i \in Nat : i <= csize => \A x, y \in Nat :
                   /\ x < mask[i] /\ y < mask[i]
                   /\ \A j \in 0 .. i - 1 : bit(x, j) = bit(y, j)
                   => x = y}
<1>1. 0 \in S
  BY MaskDef
<1>2. ASSUME NEW i \in Nat, i \in S PROVE i + 1 \in S
  <2>1. SUFFICES ASSUME i + 1 <= csize, NEW x \in Nat, NEW y \in Nat,
                        x < mask[i + 1], y < mask[i + 1],
                        \A j \in 0 .. i : bit(x, j) = bit(y, j)
                 PROVE  x = y
    <3>1. (i + 1) - 1 = i
      OBVIOUS
    <3>2. QED
      BY <3>1
  <2>2. PICK g \in Nat : g = x \div 2 /\ x = 2 * g + (x % 2) /\ x % 2 \in 0 .. 1
    OBVIOUS
  <2>3. PICK h \in Nat : h = y \div 2 /\ y = 2 * h + (y % 2) /\ y % 2 \in 0 .. 1
    OBVIOUS
  <2>4. PICK m \in Nat : m = mask[i] /\ mask[i + 1] = 2 * m
    <3>1. i \in 0 .. csize /\ i + 1 \in 0 .. csize
      BY <2>1, SizeAssumption
    <3>2. QED
      BY <3>1, MaskDef
  <2>5. g < m /\ h < m
    BY <2>1, <2>2, <2>3, <2>4
  <2>6. \A j \in 0 .. i - 1 : bit(g, j) = bit(h, j)
    <3>1. SUFFICES ASSUME NEW j \in 0 .. i - 1 PROVE bit(g, j) = bit(h, j)
      OBVIOUS
    <3>2. j \in Nat /\ j + 1 \in 0 .. i /\ j + 1 <= csize
      BY <2>1, SizeAssumption
    <3>3. bit(x, j + 1) = bit(g, j) /\ bit(y, j + 1) = bit(h, j)
      BY <2>2, <2>3, <3>2, BitDef
    <3>4. QED
      BY <2>1, <3>2, <3>3
  <2>7. g = h
    BY <1>2, <2>1, <2>4, <2>5, <2>6, SizeAssumption
  <2>8. x % 2 = y % 2
    <3>1. bit(x, 0) = bit(y, 0)
      BY <2>1
    <3>2. QED
      BY <3>1, BitDef
  <2>9. QED
    BY <2>2, <2>3, <2>7, <2>8
<1>3. k \in S
  <2> HIDE DEF S
  <2>1. QED
    BY <1>1, <1>2, Induction, SizeAssumption
<1>4. QED
  BY <1>3

LEMMA MasksGrow ==
  ASSUME NEW j \in Nat, NEW k \in 0 .. csize, j < k
  PROVE  mask[j] < mask[k]
<1> DEFINE S == {i \in Nat : i <= csize => \A l \in 0 .. i - 1 : mask[l] < mask[i]}
<1>1. 0 \in S
  OBVIOUS
<1>2. ASSUME NEW i \in Nat, i \in S PROVE i + 1 \in S
  <2>1. SUFFICES ASSUME i + 1 <= csize, NEW l \in 0 .. i PROVE mask[l] < mask[i + 1]
    <3>1. (i + 1) - 1 = i
      OBVIOUS
    <3>2. QED
      BY <3>1
  <2>2. i \in 0 .. csize /\ i + 1 \in 0 .. csize /\ l \in 0 .. csize
    BY <2>1, SizeAssumption
  <2>3. mask[i] \in Nat \ {0} /\ mask[l] \in Nat /\ mask[i + 1] = 2 * mask[i]
    BY <2>2, MaskDef
  <2>4. l = i \/ mask[l] < mask[i]
    <3>1. l = i \/ l \in 0 .. i - 1
      OBVIOUS
    <3>2. QED
      BY <1>2, <2>1, <3>1, SizeAssumption
  <2>5. QED
    BY <2>3, <2>4
<1>3. k \in S
  <2> HIDE DEF S
  <2>1. QED
    BY <1>1, <1>2, Induction, SizeAssumption
<1>4. j \in 0 .. k - 1
  OBVIOUS
<1>5. QED
  BY <1>3, <1>4, SizeAssumption

-----------------------------------------------------------------------------
(* The hypercube.  The number of ranks is a power of two, the masks below  *)
(* it are as many as the ranks have digits, and every rank has a partner   *)
(* in each step.                                                           *)

PowerOfTwo == csize \in {mask[k] : k \in 0 .. csize}
Dim == CHOOSE k \in 0 .. csize : mask[k] = csize
Step0 == 0 .. Dim - 1

LEMMA DimDef ==
  ASSUME PowerOfTwo
  PROVE  Dim \in 0 .. csize /\ Dim \in Nat /\ mask[Dim] = csize
<1>1. \E k \in 0 .. csize : mask[k] = csize
  BY DEF PowerOfTwo
<1>2. Dim \in 0 .. csize /\ mask[Dim] = csize
  BY <1>1 DEF Dim
<1>3. QED
  BY <1>2, SizeAssumption

LEMMA MasksDef ==
  ASSUME PowerOfTwo
  PROVE  /\ Masks = {mask[k] : k \in Step0}
         /\ \A k \in 0 .. Dim : /\ IsFiniteSet({l \in Masks : l < mask[k]})
                               /\ Cardinality({l \in Masks : l < mask[k]}) = k
<1>1. \A k \in 0 .. Dim : k \in 0 .. csize /\ k \in Nat /\ mask[k] \in Nat
  BY DimDef, MaskDef, SizeAssumption
<1>2. ASSUME NEW j \in 0 .. csize, NEW k \in 0 .. csize
      PROVE  mask[j] < mask[k] <=> j < k
  <2>1. mask[j] \in Nat /\ mask[k] \in Nat /\ j \in Nat /\ k \in Nat
    BY MaskDef, SizeAssumption
  <2>2. j < k => mask[j] < mask[k]
    BY <2>1, MasksGrow
  <2>3. k < j => mask[k] < mask[j]
    BY <2>1, MasksGrow
  <2>4. QED
    BY <2>1, <2>2, <2>3
<1>3. Masks = {mask[k] : k \in Step0}
  <2>1. \A k \in 0 .. csize : mask[k] < csize <=> k < Dim
    BY <1>2, DimDef
  <2>2. \A k : k \in Step0 <=> k \in 0 .. csize /\ k < Dim
    BY DimDef, SizeAssumption DEF Step0
  <2>3. QED
    BY <2>1, <2>2 DEF Masks
<1> DEFINE below(k) == {l \in Masks : l < mask[k]}
           S == {i \in Nat : i <= Dim => IsFiniteSet(below(i)) /\ Cardinality(below(i)) = i}
<1>4. 0 \in S
  <2>1. below(0) = {}
    <3>1. \A k \in Step0 : ~(mask[k] < mask[0])
      <4>1. \A k \in Step0 : k \in 0 .. csize /\ ~(k < 0)
        BY DimDef, SizeAssumption DEF Step0
      <4>2. 0 \in 0 .. csize
        BY SizeAssumption
      <4>3. QED
        BY <1>2, <4>1, <4>2
    <3>2. QED
      BY <1>3, <3>1
  <2>2. QED
    BY <2>1, FS_EmptySet
<1>5. ASSUME NEW i \in Nat, i \in S PROVE i + 1 \in S
  <2>1. SUFFICES ASSUME i + 1 <= Dim
                 PROVE  IsFiniteSet(below(i + 1)) /\ Cardinality(below(i + 1)) = i + 1
    OBVIOUS
  <2>2. i \in Step0 /\ i \in 0 .. csize /\ i + 1 \in 0 .. csize
    BY <2>1, DimDef, SizeAssumption DEF Step0
  <2>3. below(i + 1) = below(i) \cup {mask[i]}
    <3>1. ASSUME NEW k \in Step0
          PROVE  mask[k] < mask[i + 1] <=> mask[k] < mask[i] \/ mask[k] = mask[i]
      <4>1. k \in 0 .. csize /\ k \in Nat
        BY DimDef, SizeAssumption DEF Step0
      <4>2. k < i + 1 <=> k < i \/ k = i
        BY <4>1
      <4>3. mask[k] = mask[i] => k = i
        <5>1. mask[k] \in Nat
          BY <4>1, MaskDef
        <5>2. mask[k] = mask[i] => ~(mask[k] < mask[i]) /\ ~(mask[i] < mask[k])
          BY <5>1
        <5>3. QED
          BY <1>2, <2>2, <4>1, <5>2
      <4>4. QED
        BY <1>2, <2>2, <4>1, <4>2, <4>3
    <3>2. mask[i] \in Masks
      BY <1>3, <2>2
    <3>3. \A l \in Masks : l < mask[i + 1] <=> l < mask[i] \/ l = mask[i]
      BY <1>3, <3>1
    <3>4. QED
      BY <3>2, <3>3
  <2>4. mask[i] \notin below(i)
    <3>1. mask[i] \in Nat
      BY <2>2, MaskDef
    <3>2. QED
      BY <3>1
  <2>5. IsFiniteSet(below(i)) /\ Cardinality(below(i)) = i
    BY <1>5, <2>1, DimDef
  <2> HIDE DEF below
  <2>6. QED
    BY <2>3, <2>4, <2>5, FS_AddElement
<1>6. Nat \subseteq S
  <2> HIDE DEF S
  <2>1. QED
    BY <1>4, <1>5, Induction
<1>7. QED
  BY <1>1, <1>3, <1>6, DimDef

LEMMA PartnersDef ==
  ASSUME PowerOfTwo, NEW p \in Rank
  PROVE  /\ partners(p) = Masks /\ Steps(p) = Step0
         /\ \A r \in Step0 : dst[p][r] = flip(p, mask[r]) /\ dst[p][r] \in Rank
         /\ DOMAIN dst[p] = Step0
<1>1. p \in Nat /\ p < mask[Dim]
  BY DimDef, SizeAssumption DEF Rank
<1>2. ASSUME NEW r \in Step0
      PROVE  /\ r \in 0 .. csize /\ r \in 0 .. Dim /\ flip(p, mask[r]) \in Rank
             /\ flip(p, mask[r]) < csize
  <2>1. r \in 0 .. csize /\ r \in 0 .. Dim /\ r < Dim /\ r \in Nat
    BY DimDef, SizeAssumption DEF Step0
  <2>2. flip(p, mask[r]) \in Nat
    BY <1>1, <2>1, FlipBits
  <2>3. flip(p, mask[r]) < mask[Dim]
    BY <1>1, <2>1, DimDef, FlipBelow
  <2>4. QED
    BY <2>1, <2>2, <2>3, DimDef, SizeAssumption DEF Rank
<1>3. partners(p) = Masks
  BY <1>2, MasksDef DEF partners
<1>4. Steps(p) = Step0
  <2>1. {l \in Masks : l < mask[Dim]} = Masks
    <3>1. \A l \in Masks : l < csize
      BY DEF Masks
    <3>2. QED
      BY <3>1, DimDef
  <2>2. Dim \in 0 .. Dim
    BY DimDef
  <2>3. Cardinality(Masks) = Dim
    BY <2>1, <2>2, MasksDef
  <2>4. QED
    BY <1>3, <2>3 DEF Steps, Step0
<1>5. ASSUME NEW r \in Step0 PROVE dst[p][r] = flip(p, mask[r])
  <2>1. dst[p][r] = flip(p, CHOOSE m \in Masks : Cardinality({l \in Masks : l < m}) = r)
    BY <1>3, <1>4 DEF dst
  <2>2. ASSUME NEW m \in Masks PROVE Cardinality({l \in Masks : l < m}) = r <=> m = mask[r]
    <3>1. PICK k \in Step0 : m = mask[k]
      BY MasksDef
    <3>2. Cardinality({l \in Masks : l < m}) = k
      BY <1>2, <3>1, MasksDef
    <3>3. Cardinality({l \in Masks : l < mask[r]}) = r
      BY <1>2, MasksDef
    <3>4. QED
      BY <3>1, <3>2, <3>3
  <2>3. mask[r] \in Masks
    BY MasksDef
  <2>4. (CHOOSE m \in Masks : Cardinality({l \in Masks : l < m}) = r) = mask[r]
    BY <2>2, <2>3
  <2>5. QED
    BY <2>1, <2>4
<1>6. DOMAIN dst[p] = Step0
  BY <1>4 DEF dst
<1>7. QED
  BY <1>2, <1>3, <1>4, <1>5, <1>6

(* The partner of the partner, and no partner twice. *)
LEMMA Partner ==
  ASSUME PowerOfTwo, NEW p \in Rank, NEW r \in Step0
  PROVE  /\ dst[p][r] \in Rank /\ dst[dst[p][r]][r] = p
         /\ \A s \in Step0 : dst[p][s] = dst[p][r] => s = r
<1>1. p \in Nat /\ \A s \in Step0 : s \in 0 .. csize
  BY DimDef, SizeAssumption DEF Rank, Step0
<1>2. dst[p][r] \in Rank /\ dst[p][r] = flip(p, mask[r])
  BY PartnersDef
<1>3. dst[dst[p][r]][r] = flip(dst[p][r], mask[r])
  BY <1>2, PartnersDef
<1>4. flip(flip(p, mask[r]), mask[r]) = p
  BY <1>1, FlipBits
<1>5. ASSUME NEW s \in Step0, dst[p][s] = dst[p][r] PROVE s = r
  <2>1. dst[p][s] = flip(p, mask[s])
    BY PartnersDef
  <2>2. bit(flip(p, mask[r]), r) # bit(p, r)
    BY <1>1, FlipBits
  <2>3. bit(flip(p, mask[s]), r) = bit(p, r) <=> r # s
    BY <1>1, FlipBits
  <2>4. QED
    BY <1>2, <1>5, <2>1, <2>2, <2>3
<1>6. QED
  BY <1>2, <1>3, <1>4, <1>5

(* A group is a rank and its partner's group, before and after the step. *)
LEMMA Groups ==
  ASSUME PowerOfTwo, NEW p \in Rank
  PROVE  /\ Group(p, 0) = {p} /\ Group(p, Dim) = Rank
         /\ \A r \in Step0 :
               /\ Group(p, r + 1) = Group(p, r) \cup Group(dst[p][r], r)
               /\ Group(p, r) \cap Group(dst[p][r], r) = {}
<1>1. ASSUME NEW x \in Rank, NEW r \in Nat
      PROVE  Group(x, r) = {q \in Rank : \A j \in Step0 : bit(q, j) = bit(x, j) \/ j < r}
  <2>1. ASSUME NEW j \in Step0 PROVE Cardinality({l \in Masks : l < mask[j]}) = j
    <3>1. j \in 0 .. Dim
      BY DimDef DEF Step0
    <3>2. QED
      BY <3>1, MasksDef
  <2>2. ASSUME NEW q \in Rank
        PROVE  (\A m \in Masks : (q \div m) % 2 = (x \div m) % 2 \/
                                  Cardinality({l \in Masks : l < m}) < r)
               <=> \A j \in Step0 : bit(q, j) = bit(x, j) \/ j < r
    <3> DEFINE Same(m) == \/ (q \div m) % 2 = (x \div m) % 2
                           \/ Cardinality({l \in Masks : l < m}) < r
    <3>1. \A j \in Step0 : Same(mask[j]) <=> bit(q, j) = bit(x, j) \/ j < r
      BY <2>1 DEF bit
    <3> HIDE DEF Same
    <3>2. (\A m \in Masks : Same(m)) <=> (\A j \in Step0 : Same(mask[j]))
      BY MasksDef
    <3>3. (\A m \in Masks : Same(m)) <=> (\A j \in Step0 : bit(q, j) = bit(x, j) \/ j < r)
      BY <3>1, <3>2
    <3>4. QED
      BY <3>3 DEF Same
  <2>3. QED
    BY <2>2 DEF Group
<1>2. p \in Nat /\ p < mask[Dim] /\ \A q \in Rank : q \in Nat /\ q < mask[Dim]
  BY DimDef, SizeAssumption DEF Rank
<1>3. Group(p, 0) = {p}
  <2>1. \A j \in Step0 : ~(j < 0)
    BY DimDef DEF Step0
  <2>2. Group(p, 0) = {q \in Rank : \A j \in Step0 : bit(q, j) = bit(p, j)}
    BY <1>1, <2>1
  <2>3. ASSUME NEW q \in Rank, \A j \in Step0 : bit(q, j) = bit(p, j) PROVE q = p
    BY <1>2, <2>3, DimDef, BitsExact DEF Step0
  <2>4. QED
    BY <2>2, <2>3
<1>4. Group(p, Dim) = Rank
  <2>1. \A j \in Step0 : j < Dim
    BY DimDef DEF Step0
  <2>2. QED
    BY <1>1, <2>1, DimDef
<1>5. ASSUME NEW r \in Step0
      PROVE  /\ Group(p, r + 1) = Group(p, r) \cup Group(dst[p][r], r)
             /\ Group(p, r) \cap Group(dst[p][r], r) = {}
  <2>1. r \in Nat /\ r + 1 \in Nat /\ \A j \in Step0 : j \in Nat /\ j \in 0 .. csize
    BY DimDef, SizeAssumption DEF Step0
  <2>2. PICK d \in Rank : d = dst[p][r] /\ d = flip(p, mask[r])
    BY PartnersDef
  <2>3. \A j \in Step0 : bit(d, j) = bit(p, j) <=> j # r
    BY <1>2, <2>1, <2>2, FlipBits
  <2>4. \A q \in Rank : \A j \in Step0 : bit(q, j) \in 0 .. 1
    BY <1>2, <2>1, BitDef
  <2>5. /\ Group(p, r) = {q \in Rank : \A j \in Step0 : bit(q, j) = bit(p, j) \/ j < r}
        /\ Group(d, r) = {q \in Rank : \A j \in Step0 : bit(q, j) = bit(d, j) \/ j < r}
        /\ Group(p, r + 1) = {q \in Rank : \A j \in Step0 : bit(q, j) = bit(p, j) \/ j < r + 1}
    BY <1>1, <2>1
  <2>6. ASSUME NEW q \in Rank
        PROVE  /\ q \in Group(p, r + 1) <=> q \in Group(p, r) \/ q \in Group(d, r)
               /\ ~(q \in Group(p, r) /\ q \in Group(d, r))
    <3>1. q \in Group(p, r) <=> (bit(q, r) = bit(p, r) /\ q \in Group(p, r + 1))
      BY <2>1, <2>5
    <3>2. q \in Group(d, r) <=> (bit(q, r) = bit(d, r) /\ q \in Group(p, r + 1))
      <4>1. \A j \in Step0 : (bit(q, j) = bit(d, j) \/ j < r) <=>
              ((bit(q, j) = bit(p, j) \/ j < r + 1) /\ (j = r => bit(q, r) = bit(d, r)))
        BY <2>1, <2>3
      <4>2. QED
        BY <2>5, <4>1
    <3>3. bit(d, r) # bit(p, r)
      BY <2>3
    <3>4. bit(q, r) = bit(p, r) \/ bit(q, r) = bit(d, r)
      BY <2>4, <3>3
    <3>5. QED
      BY <3>1, <3>2, <3>3, <3>4
  <2>7. /\ Group(p, r) \subseteq Rank /\ Group(d, r) \subseteq Rank
        /\ Group(p, r + 1) \subseteq Rank
    BY DEF Group
  <2>8. QED
    BY <2>2, <2>6, <2>7
<1>6. QED
  BY <1>3, <1>4, <1>5

-----------------------------------------------------------------------------
(* The invariant. *)

AllOps == {begin, move, end} \cup {<<k, r>> : k \in {"send", "recv", "comp"}, r \in Step0}
GroupSum(p, r, k) == SetToBag({<<g, k>> : g \in Group(p, r)})
Msg(p, r, k) == [value |-> GroupSum(p, r, k), count |-> Count[k]]
Message == {Msg(p, r, k) : p \in Rank, r \in Step0, k \in 1 .. MaxRounds}

Typed ==
  /\ round \in [Rank -> 0 .. MaxRounds]
  /\ active \subseteq Rank
  /\ done \in [Rank -> SUBSET AllOps]
  /\ rcvbuff = [p \in Rank |-> rcvbuff[p]]
  /\ tmpbuffs = [p \in Rank |-> [r \in Step0 |-> tmpbuffs[p][r]]]
  /\ count \in [Rank -> Nat] /\ tmpcount = count
  /\ chan \in [Rank -> [Rank -> Seq(Message)]]

(* The operations a rank has completed in its round. *)
Orderly(p) ==
  /\ \A o \in done[p] : Pred(p, o) \subseteq done[p]
  /\ \A r \in Step0 : send(r) \in done[p] =>
        /\ move \in done[p]
        /\ \A s \in 0 .. r - 1 : comp(s) \in done[p]
  /\ p \in active => round[p] > 0 /\ begin \in done[p] /\ end \notin done[p]
  /\ p \notin active => \/ round[p] = 0 /\ done[p] = {}
                        \/ round[p] > 0 /\ done[p] = AllOps

(* After the first c steps the receive buffer has the sum of the group. *)
Through(p, c) == /\ c = 0 \/ comp(c - 1) \in done[p]
                 /\ c = Dim \/ comp(c) \notin done[p]
Summed(p) ==
  /\ move \in done[p] =>
        \A c \in 0 .. Dim : Through(p, c) => rcvbuff[p] = GroupSum(p, c, round[p])
  /\ p \in active /\ move \notin done[p] /\ p \in InPlace =>
        rcvbuff[p] = Value(p, round[p])
  /\ round[p] = 0 => rcvbuff[p] = EmptyBag
  /\ \A r \in Step0 : recv(r) \in done[p] =>
        tmpbuffs[p][r] = GroupSum(dst[p][r], r, round[p])
  /\ round[p] > 0 => Count[round[p]] <= count[p]

(* How often a rank has done an operation. *)
times(p, o) == IF o \in done[p] THEN round[p]
               ELSE IF round[p] = 0 THEN 0 ELSE round[p] - 1

(* A channel has the messages that have been sent and not received. *)
Channel(p, r) ==
  LET q == dst[p][r]
      sent == times(p, send(r))
      received == times(q, recv(r))
  IN  /\ Len(chan[p][q]) = sent - received
      /\ \A k \in 1 .. Len(chan[p][q]) : chan[p][q][k] = Msg(p, r, received + k)
Unused(p, q) == (\A r \in Step0 : q # dst[p][r]) => chan[p][q] = <<>>

(* A contribution is to be found only after its rank has begun the round. *)
InTime(rd, b) == \A g \in Rank, k \in Nat : <<g, k>> \in DOMAIN b => rd[g] >= k
Entered ==
  /\ \A p \in Rank : InTime(round, rcvbuff[p])
  /\ \A p \in Rank : \A r \in Step0 : InTime(round, tmpbuffs[p][r])
  /\ \A p, q \in Rank : \A k \in 1 .. Len(chan[p][q]) : InTime(round, chan[p][q][k].value)

SumInv == /\ Typed
          /\ \A p \in Rank : Orderly(p) /\ Summed(p)
          /\ \A p \in Rank : \A r \in Step0 : Channel(p, r)
          /\ \A p, q \in Rank : Unused(p, q)
          /\ Entered

-----------------------------------------------------------------------------
(* The operations, and what comes before each. *)

LEMMA Kinds ==
  /\ begin # move /\ begin # end /\ move # end
  /\ \A r : /\ send(r) \notin {begin, move, end}
            /\ recv(r) \notin {begin, move, end}
            /\ comp(r) \notin {begin, move, end}
  /\ \A r, s : /\ send(r) # recv(s) /\ send(r) # comp(s) /\ recv(r) # comp(s)
               /\ send(r) = send(s) => r = s
               /\ recv(r) = recv(s) => r = s
               /\ comp(r) = comp(s) => r = s
BY DEF begin, move, end, send, recv, comp

LEMMA OpsDef ==
  ASSUME PowerOfTwo, NEW p \in Rank
  PROVE  /\ Ops(p) = AllOps
         /\ {begin, move, end} \subseteq AllOps
         /\ \A r \in Step0 : {send(r), recv(r), comp(r)} \subseteq AllOps
         /\ \A o \in AllOps : \/ o \in {begin, move, end}
                              \/ \E r \in Step0 : o \in {send(r), recv(r), comp(r)}
<1>1. Ops(p) = AllOps
  BY PartnersDef DEF Ops, AllOps
<1>2. \A r \in Step0 : {send(r), recv(r), comp(r)} \subseteq AllOps
  BY DEF AllOps, send, recv, comp
<1>3. ASSUME NEW o \in AllOps, o \notin {begin, move, end}
      PROVE  \E r \in Step0 : o \in {send(r), recv(r), comp(r)}
  <2>1. PICK k \in {"send", "recv", "comp"}, r \in Step0 : o = <<k, r>>
    BY <1>3 DEF AllOps
  <2>2. o \in {send(r), recv(r), comp(r)}
    BY <2>1 DEF send, recv, comp
  <2>3. QED
    BY <2>2
<1>4. QED
  BY <1>1, <1>2, <1>3 DEF AllOps

LEMMA PredDef ==
  ASSUME PowerOfTwo, NEW p \in Rank
  PROVE  /\ Pred(p, begin) = {} /\ Pred(p, move) = {begin}
         /\ Pred(p, end) = IF Step0 = {} THEN {move} ELSE {comp(r) : r \in Step0}
         /\ \A r \in Step0 :
               /\ Pred(p, send(r)) = {IF r = 0 THEN move ELSE comp(r - 1)}
               /\ Pred(p, recv(r)) = {begin}
               /\ Pred(p, comp(r)) = {send(r), recv(r)}
<1>1. Pred(p, begin) = {} /\ Pred(p, move) = {begin}
  <2>1. Pred(p, begin) = {}
    BY DEF Pred, begin, move, end
  <2>2. Pred(p, move) = {begin}
    BY DEF Pred, begin, move, end
  <2>3. QED
    BY <2>1, <2>2
<1>2. Pred(p, end) = IF Step0 = {} THEN {move} ELSE {comp(r) : r \in Step0}
  BY Kinds, PartnersDef DEF Pred, end
<1>3. ASSUME NEW r \in Step0
      PROVE  /\ Pred(p, send(r)) = {IF r = 0 THEN move ELSE comp(r - 1)}
             /\ Pred(p, recv(r)) = {begin}
             /\ Pred(p, comp(r)) = {send(r), recv(r)}
  <2>1. Pred(p, send(r)) = {IF r = 0 THEN move ELSE comp(r - 1)}
    <3>1. send(r)[1] = "send" /\ send(r)[2] = r
      BY DEF send
    <3>2. QED
      BY <3>1, Kinds DEF Pred
  <2>2. Pred(p, recv(r)) = {begin}
    <3>1. recv(r)[1] = "recv" /\ recv(r)[2] = r
      BY DEF recv
    <3>2. QED
      BY <3>1, Kinds DEF Pred
  <2>3. Pred(p, comp(r)) = {send(r), recv(r)}
    <3>1. comp(r)[1] = "comp" /\ comp(r)[2] = r
      BY DEF comp
    <3>2. QED
      BY <3>1, Kinds DEF Pred
  <2>4. QED
    BY <2>1, <2>2, <2>3
<1>4. QED
  BY <1>1, <1>2, <1>3

(* The computations of a rank complete one after the other. *)
LEMMA InOrder ==
  ASSUME PowerOfTwo, NEW p \in Rank, Orderly(p), NEW r \in Step0, comp(r) \in done[p]
  PROVE  /\ move \in done[p] /\ send(r) \in done[p] /\ recv(r) \in done[p]
         /\ \A s \in 0 .. r : comp(s) \in done[p]
<1>1. Pred(p, comp(r)) = {send(r), recv(r)}
  BY PredDef
<1>2. send(r) \in done[p] /\ recv(r) \in done[p]
  BY <1>1 DEF Orderly
<1>3. r \in Nat
  BY DimDef DEF Step0
<1>4. \A s \in 0 .. r : s = r \/ s \in 0 .. r - 1
  BY <1>3
<1>5. QED
  BY <1>2, <1>4 DEF Orderly

-----------------------------------------------------------------------------
(* The sums. *)

LEMMA OneSum ==
  ASSUME PowerOfTwo, NEW p \in Rank, NEW k
  PROVE  GroupSum(p, 0, k) = Value(p, k) /\ GroupSum(p, Dim, k) = Total(k)
<1>1. Group(p, 0) = {p} /\ Group(p, Dim) = Rank
  BY Groups
<1>2. {<<g, k>> : g \in Group(p, 0)} = {<<p, k>>}
  BY <1>1
<1>3. QED
  BY <1>1, <1>2 DEF GroupSum, Value, Total

LEMMA NextSum ==
  ASSUME PowerOfTwo, NEW p \in Rank, NEW r \in Step0, NEW k
  PROVE  GroupSum(dst[p][r], r, k) (+) GroupSum(p, r, k) = GroupSum(p, r + 1, k)
<1> DEFINE A == {<<g, k>> : g \in Group(dst[p][r], r)}
           B == {<<g, k>> : g \in Group(p, r)}
           C == {<<g, k>> : g \in Group(p, r + 1)}
<1>1. A \cup B = C /\ A \cap B = {}
  <2>1. /\ Group(p, r + 1) = Group(p, r) \cup Group(dst[p][r], r)
        /\ Group(p, r) \cap Group(dst[p][r], r) = {}
    BY Groups
  <2>2. QED
    BY <2>1
<1>2. PICK a, b : a = GroupSum(dst[p][r], r, k) /\ b = GroupSum(p, r, k)
  OBVIOUS
<1>3. a = [e \in A |-> 1] /\ b = [e \in B |-> 1]
  BY <1>2 DEF GroupSum, SetToBag
<1>4. GroupSum(p, r + 1, k) = [e \in C |-> 1]
  BY DEF GroupSum, SetToBag
<1> HIDE DEF A, B, C
<1>5. a (+) b = [e \in A \cup B |-> (IF e \in A THEN a[e] ELSE 0) + (IF e \in B THEN b[e] ELSE 0)]
  BY <1>3 DEF (+)
<1>6. \A e \in A \cup B : (IF e \in A THEN a[e] ELSE 0) + (IF e \in B THEN b[e] ELSE 0) = 1
  BY <1>1, <1>3
<1>7. a (+) b = [e \in C |-> 1]
  BY <1>1, <1>5, <1>6
<1>8. QED
  BY <1>2, <1>4, <1>7

LEMMA ValueInTime ==
  ASSUME NEW rd, NEW p \in Rank, NEW k \in Nat, rd[p] >= k
  PROVE  InTime(rd, Value(p, k))
<1>1. DOMAIN Value(p, k) = {<<p, k>>}
  BY DEF Value, SetToBag
<1>2. QED
  BY <1>1 DEF InTime

LEMMA InTimeLater ==
  ASSUME NEW rd, NEW later, NEW b, InTime(rd, b),
         \A p \in Rank : rd[p] \in Int /\ later[p] \in Int /\ rd[p] <= later[p]
  PROVE  InTime(later, b)
BY DEF InTime

LEMMA SumInTime ==
  ASSUME NEW rd, NEW a, NEW b, InTime(rd, a), InTime(rd, b)
  PROVE  InTime(rd, a (+) b)
<1>1. DOMAIN (a (+) b) = DOMAIN a \cup DOMAIN b
  BY DEF (+)
<1>2. QED
  BY <1>1 DEF InTime

-----------------------------------------------------------------------------
(* What an operation of a posted schedule does to the bookkeeping. *)

LEMMA TimesType ==
  ASSUME Typed, NEW p \in Rank, NEW o
  PROVE  times(p, o) \in Nat
<1>1. round[p] \in Nat
  BY MaxRoundsAssumption DEF Typed
<1>2. QED
  BY <1>1 DEF times

LEMMA DoesTyped ==
  ASSUME Typed, NEW p \in Rank, NEW o \in AllOps, Does(p, o)
  PROVE  /\ p \in active /\ o \notin done[p] /\ Pred(p, o) \subseteq done[p]
         /\ round' = round /\ active' = active
         /\ done' \in [Rank -> SUBSET AllOps]
         /\ done'[p] = done[p] \cup {o}
         /\ \A q \in Rank : q # p => done'[q] = done[q]
BY DEF Does, Ready, Typed

LEMMA DoesTimes ==
  ASSUME Typed, NEW p \in Rank, NEW o \in AllOps, Does(p, o), Orderly(p)
  PROVE  /\ times(p, o) = round[p] - 1 /\ times(p, o)' = round[p]
         /\ round[p] \in 1 .. MaxRounds
         /\ \A q \in Rank : \A x : q # p \/ x # o => times(q, x)' = times(q, x)
<1>1. /\ p \in active /\ o \notin done[p] /\ round' = round /\ o \in done'[p]
      /\ \A q \in Rank : \A x : q # p \/ x # o => (x \in done'[q] <=> x \in done[q])
  BY DoesTyped
<1>2. round[p] \in 1 .. MaxRounds
  BY <1>1, MaxRoundsAssumption DEF Typed, Orderly
<1>3. QED
  BY <1>1, <1>2 DEF times

LEMMA DoesOrderly ==
  ASSUME PowerOfTwo, Typed, \A q \in Rank : Orderly(q),
         NEW p \in Rank, NEW o \in AllOps, o # end, Does(p, o)
  PROVE  \A q \in Rank : Orderly(q)'
<1>1. /\ p \in active /\ o \notin done[p] /\ Pred(p, o) \subseteq done[p]
      /\ round' = round /\ active' = active
      /\ done'[p] = done[p] \cup {o}
      /\ \A q \in Rank : q # p => done'[q] = done[q]
  BY DoesTyped
<1>2. \A q \in Rank : q # p => Orderly(q)'
  BY <1>1 DEF Orderly
<1>3. Orderly(p)'
  <2>1. \A x \in done'[p] : Pred(p, x) \subseteq done'[p]
    BY <1>1 DEF Orderly
  <2>2. ASSUME NEW r \in Step0, send(r) \in done'[p]
        PROVE  move \in done'[p] /\ \A s \in 0 .. r - 1 : comp(s) \in done'[p]
    <3>1. CASE send(r) \in done[p]
      BY <1>1, <3>1 DEF Orderly
    <3>2. CASE o = send(r) /\ r = 0
      <4>1. move \in done[p]
        BY <1>1, <3>2, PredDef
      <4>2. QED
        BY <1>1, <3>2, <4>1
    <3>3. CASE o = send(r) /\ r # 0
      <4>1. comp(r - 1) \in done[p]
        BY <1>1, <3>3, PredDef
      <4>2. r - 1 \in Step0
        BY <3>3, DimDef DEF Step0
      <4>3. move \in done[p] /\ \A s \in 0 .. r - 1 : comp(s) \in done[p]
        BY <4>1, <4>2, InOrder
      <4>4. QED
        BY <1>1, <4>3
    <3>4. QED
      BY <1>1, <2>2, <3>1, <3>2, <3>3
  <2>3. round'[p] > 0 /\ begin \in done'[p] /\ end \notin done'[p]
    BY <1>1 DEF Orderly
  <2>4. QED
    BY <1>1, <2>1, <2>2, <2>3 DEF Orderly
<1>4. QED
  BY <1>2, <1>3

(* The ranks an operation is not of. *)
LEMMA OthersSummed ==
  ASSUME NEW q \in Rank, Summed(q),
         round'[q] = round[q], q \in active' <=> q \in active, done'[q] = done[q],
         rcvbuff'[q] = rcvbuff[q], tmpbuffs'[q] = tmpbuffs[q], count'[q] = count[q]
  PROVE  Summed(q)'
BY DEF Summed, Through

(* No message goes in or out. *)
LEMMA KeptChannel ==
  ASSUME PowerOfTwo, NEW p \in Rank, NEW r \in Step0, Channel(p, r),
         chan'[p][dst[p][r]] = chan[p][dst[p][r]],
         times(p, send(r))' = times(p, send(r)),
         times(dst[p][r], recv(r))' = times(dst[p][r], recv(r))
  PROVE  Channel(p, r)'
<1>1. PICK q \in Rank : q = dst[p][r]
  BY Partner
<1>2. PICK n, m : n = times(p, send(r)) /\ m = times(q, recv(r))
  OBVIOUS
<1>3. n = times(p, send(r))' /\ m = times(q, recv(r))'
  BY <1>1, <1>2
<1>4. /\ Len(chan[p][q]) = n - m
      /\ \A k \in 1 .. Len(chan[p][q]) : chan[p][q][k] = Msg(p, r, m + k)
  BY <1>1, <1>2 DEF Channel
<1>5. QED
  BY <1>1, <1>3, <1>4 DEF Channel

LEMMA SameChannels ==
  ASSUME PowerOfTwo, chan' = chan,
         \A q \in Rank : \A r \in Step0 : /\ times(q, send(r))' = times(q, send(r))
                                        /\ times(q, recv(r))' = times(q, recv(r)),
         \A p \in Rank : \A r \in Step0 : Channel(p, r),
         \A p, q \in Rank : Unused(p, q)
  PROVE  /\ \A p \in Rank : \A r \in Step0 : Channel(p, r)'
         /\ \A p, q \in Rank : Unused(p, q)'
<1>1. \A p \in Rank : \A r \in Step0 : Channel(p, r)'
  BY KeptChannel, Partner
<1>2. \A p, q \in Rank : Unused(p, q)'
  BY DEF Unused
<1>3. QED
  BY <1>1, <1>2

-----------------------------------------------------------------------------
(* Each action keeps the invariant. *)

LEMMA MoveInv ==
  ASSUME PowerOfTwo, SumInv, NEW p \in Rank, Move(p)
  PROVE  SumInv'
<1>1. move \in AllOps /\ move # end /\ Does(p, move)
  BY OpsDef, Kinds DEF Move
<1>2. Typed /\ \A q \in Rank : Orderly(q) /\ Summed(q)
  BY DEF SumInv
<1>3. /\ p \in active /\ move \notin done[p]
      /\ round' = round /\ active' = active
      /\ done' \in [Rank -> SUBSET AllOps]
      /\ done'[p] = done[p] \cup {move}
      /\ \A q \in Rank : q # p => done'[q] = done[q]
  BY <1>1, <1>2, DoesTyped
<1>4. /\ tmpbuffs' = tmpbuffs /\ tmpcount' = tmpcount /\ count' = count /\ chan' = chan
      /\ rcvbuff'[p] = IF p \in InPlace THEN rcvbuff[p] ELSE Value(p, round[p])
      /\ \A q \in Rank : q # p => rcvbuff'[q] = rcvbuff[q]
      /\ rcvbuff' = [q \in Rank |-> rcvbuff'[q]]
  BY <1>2 DEF Move, sizes, Typed
<1>5. Typed'
  BY <1>2, <1>3, <1>4 DEF Typed
<1>6. \A q \in Rank : Orderly(q)'
  BY <1>1, <1>2, DoesOrderly
<1>7. rcvbuff'[p] = Value(p, round[p])
  BY <1>2, <1>3, <1>4 DEF Summed
<1>8. ASSUME NEW q \in Rank PROVE Summed(q)'
  <2>1. CASE q # p
    BY <1>2, <1>3, <1>4, <2>1, OthersSummed
  <2>2. CASE q = p
    <3>1. ASSUME NEW c \in 0 .. Dim, Through(p, c)' PROVE c = 0
      <4>1. SUFFICES ASSUME c # 0 PROVE FALSE
        OBVIOUS
      <4>2. comp(c - 1) \in done[p]
        BY <1>3, <3>1, <4>1, Kinds DEF Through
      <4>3. c - 1 \in Step0
        BY <4>1, DimDef DEF Step0
      <4>4. QED
        BY <1>2, <1>3, <4>2, <4>3, InOrder
    <3>2. \A c \in 0 .. Dim : Through(p, c)' => rcvbuff'[p] = GroupSum(p, c, round'[p])
      BY <1>3, <1>7, <3>1, OneSum
    <3>3. move \in done'[p]
      BY <1>3
    <3>4. ASSUME NEW r \in Step0, recv(r) \in done'[p]
          PROVE  tmpbuffs'[p][r] = GroupSum(dst[p][r], r, round'[p])
      <4>1. recv(r) \in done[p]
        BY <1>3, <3>4, Kinds
      <4>2. QED
        BY <1>2, <1>3, <1>4, <4>1 DEF Summed
    <3>5. round'[p] > 0 /\ Count[round'[p]] <= count'[p]
      BY <1>2, <1>3, <1>4 DEF Summed, Orderly
    <3>6. round'[p] # 0
      BY <3>5
    <3>7. Summed(p)'
      BY <3>2, <3>3, <3>4, <3>5, <3>6 DEF Summed
    <3>8. QED
      BY <2>2, <3>7
  <2>3. QED
    BY <2>1, <2>2
<1>9. /\ \A q \in Rank : \A r \in Step0 : Channel(q, r)'
      /\ \A q, x \in Rank : Unused(q, x)'
  <2>1. \A q \in Rank : \A r \in Step0 : /\ times(q, send(r))' = times(q, send(r))
                                       /\ times(q, recv(r))' = times(q, recv(r))
    BY <1>1, <1>2, Kinds, DoesTimes
  <2>2. QED
    BY <1>2, <1>4, <2>1, SameChannels DEF SumInv
<1>10. Entered'
  <2>1. Entered
    BY DEF SumInv
  <2>2. round[p] \in Nat
    BY <1>2, MaxRoundsAssumption DEF Typed
  <2>3. InTime(round, rcvbuff'[p])
    BY <1>7, <2>2, ValueInTime
  <2>4. \A q \in Rank : InTime(round', rcvbuff'[q])
    BY <1>3, <1>4, <2>1, <2>3 DEF Entered
  <2>5. QED
    BY <1>3, <1>4, <2>1, <2>4 DEF Entered
<1>11. QED
  BY <1>5, <1>6, <1>8, <1>9, <1>10 DEF SumInv

LEMMA SendInv ==
  ASSUME PowerOfTwo, SumInv, NEW p \in Rank, NEW r \in Step0, Send(p, r)
  PROVE  SumInv'
<1>1. send(r) \in AllOps /\ send(r) # end /\ Does(p, send(r))
  BY OpsDef, Kinds DEF Send
<1>2. Typed /\ \A q \in Rank : Orderly(q) /\ Summed(q)
  BY DEF SumInv
<1>3. /\ p \in active /\ send(r) \notin done[p] /\ Pred(p, send(r)) \subseteq done[p]
      /\ round' = round /\ active' = active
      /\ done' \in [Rank -> SUBSET AllOps]
      /\ done'[p] = done[p] \cup {send(r)}
      /\ \A q \in Rank : q # p => done'[q] = done[q]
  BY <1>1, <1>2, DoesTyped
<1>4. tmpbuffs' = tmpbuffs /\ tmpcount' = tmpcount /\ count' = count /\ rcvbuff' = rcvbuff
  BY DEF Send, sizes
<1>5. round[p] \in 1 .. MaxRounds /\ r \in Nat /\ r < Dim /\ r \in 0 .. Dim
  BY <1>1, <1>2, DoesTimes, DimDef DEF Step0
<1>6. move \in done[p] /\ rcvbuff[p] = GroupSum(p, r, round[p])
  <2>1. comp(r) \notin done[p]
    BY <1>2, <1>3, InOrder
  <2>2. Pred(p, send(r)) = {IF r = 0 THEN move ELSE comp(r - 1)}
    BY PredDef
  <2>3. CASE r = 0
    <3>1. move \in done[p] /\ Through(p, r)
      BY <1>3, <2>1, <2>2, <2>3 DEF Through
    <3>2. QED
      BY <1>2, <1>5, <3>1 DEF Summed
  <2>4. CASE r # 0
    <3>1. comp(r - 1) \in done[p] /\ r - 1 \in Step0
      BY <1>3, <1>5, <2>2, <2>4, DimDef DEF Step0
    <3>2. move \in done[p] /\ Through(p, r)
      BY <1>2, <2>1, <3>1, InOrder DEF Through
    <3>3. QED
      BY <1>2, <1>5, <3>2 DEF Summed
  <2>5. QED
    BY <2>3, <2>4
<1>7. PICK d \in Rank : d = dst[p][r]
  BY Partner
<1>8. PICK m : m = Msg(p, r, round[p])
  OBVIOUS
<1>9. m \in Message /\ m = [value |-> rcvbuff[p], count |-> Count[round[p]]]
  BY <1>5, <1>6, <1>8 DEF Message, Msg
<1>10. chan' = [chan EXCEPT ![p][d] = Append(chan[p][d], m)]
  BY <1>7, <1>9 DEF Send
<1>11. /\ chan' \in [Rank -> [Rank -> Seq(Message)]]
       /\ chan'[p][d] = Append(chan[p][d], m)
       /\ \A x, y \in Rank : x # p \/ y # d => chan'[x][y] = chan[x][y]
       /\ chan[p][d] \in Seq(Message)
  BY <1>2, <1>9, <1>10 DEF Typed
<1>12. PICK l \in Nat : l = Len(chan[p][d])
  BY <1>11
<1>13. /\ Len(chan'[p][d]) = l + 1 /\ chan'[p][d][l + 1] = m
       /\ \A k \in 1 .. l : chan'[p][d][k] = chan[p][d][k]
  BY <1>9, <1>11, <1>12
<1>14. Typed'
  BY <1>2, <1>3, <1>4, <1>11 DEF Typed
<1>15. \A q \in Rank : Orderly(q)'
  BY <1>1, <1>2, DoesOrderly
<1>16. ASSUME NEW q \in Rank PROVE Summed(q)'
  <2>1. \A x : x \in {move} \/ (\E s : x \in {recv(s), comp(s)}) => (x \in done'[q] <=> x \in done[q])
    BY <1>3, Kinds
  <2>2. (move \in done'[q] <=> move \in done[q])
        /\ \A s : /\ recv(s) \in done'[q] <=> recv(s) \in done[q]
                  /\ comp(s) \in done'[q] <=> comp(s) \in done[q]
    BY <2>1
  <2>3. Summed(q)
    BY <1>2
  <2>4. QED
    BY <1>3, <1>4, <2>2, <2>3 DEF Summed, Through
<1>17. /\ times(p, send(r)) = round[p] - 1 /\ times(p, send(r))' = round[p]
       /\ \A q \in Rank : \A x : q # p \/ x # send(r) => times(q, x)' = times(q, x)
  BY <1>1, <1>2, DoesTimes
<1>18. Channel(p, r)'
  <2>1. PICK n \in Nat : n = times(d, recv(r))
    BY <1>2, TimesType
  <2>2. n = times(d, recv(r))'
    BY <1>17, <2>1, Kinds
  <2>3. l = round[p] - 1 - n /\ \A k \in 1 .. l : chan[p][d][k] = Msg(p, r, n + k)
    BY <1>7, <1>12, <1>17, <2>1 DEF SumInv, Channel
  <2>4. \A k \in 1 .. l + 1 : chan'[p][d][k] = Msg(p, r, n + k)
    <3>1. n + (l + 1) = round[p]
      BY <1>5, <2>1, <2>3
    <3>2. \A k \in 1 .. l + 1 : k \in 1 .. l \/ k = l + 1
      OBVIOUS
    <3>3. QED
      BY <1>8, <1>13, <2>3, <3>1, <3>2
  <2>5. Len(chan'[p][d]) = round[p] - n
    BY <1>5, <1>13, <2>1, <2>3
  <2>6. QED
    BY <1>7, <1>13, <1>17, <2>2, <2>4, <2>5 DEF Channel
<1>19. \A q \in Rank : \A s \in Step0 : Channel(q, s)'
  <2>1. SUFFICES ASSUME NEW q \in Rank, NEW s \in Step0, q # p \/ s # r
                 PROVE  Channel(q, s)'
    BY <1>18
  <2>2. dst[q][s] \in Rank /\ (q # p \/ dst[q][s] # d)
    BY <1>7, <2>1, Partner
  <2>3. chan'[q][dst[q][s]] = chan[q][dst[q][s]]
    BY <1>11, <2>2
  <2>4. times(q, send(s))' = times(q, send(s))
    BY <1>17, <2>1, Kinds
  <2>5. times(dst[q][s], recv(s))' = times(dst[q][s], recv(s))
    BY <1>17, <2>2, Kinds
  <2>6. QED
    BY <2>3, <2>4, <2>5, KeptChannel DEF SumInv
<1>20. ASSUME NEW q \in Rank, NEW x \in Rank PROVE Unused(q, x)'
  <2>1. SUFFICES ASSUME \A j \in Step0 : x # dst[q][j] PROVE chan'[q][x] = <<>>
    BY DEF Unused
  <2>2. q # p \/ x # d
    BY <1>7, <2>1
  <2>3. Unused(q, x)
    BY DEF SumInv
  <2>4. QED
    BY <1>11, <2>1, <2>2, <2>3 DEF Unused
<1>21. Entered'
  <2>1. Entered
    BY DEF SumInv
  <2>2. InTime(round, m.value)
    BY <1>9, <2>1 DEF Entered
  <2>3. ASSUME NEW x \in Rank, NEW y \in Rank, NEW k \in 1 .. Len(chan'[x][y])
        PROVE  InTime(round, chan'[x][y][k].value)
    <3>1. CASE x = p /\ y = d
      <4>1. k \in 1 .. l \/ k = l + 1
        BY <1>13, <2>3, <3>1
      <4>2. QED
        BY <1>12, <1>13, <2>1, <2>2, <3>1, <4>1 DEF Entered
    <3>2. CASE ~(x = p /\ y = d)
      <4>1. chan'[x][y] = chan[x][y]
        BY <1>11, <3>2
      <4>2. QED
        BY <2>1, <2>3, <4>1 DEF Entered
    <3>3. QED
      BY <3>1, <3>2
  <2>4. QED
    BY <1>3, <1>4, <2>1, <2>3 DEF Entered
<1>22. QED
  BY <1>14, <1>15, <1>16, <1>19, <1>20, <1>21 DEF SumInv

LEMMA RecvInv ==
  ASSUME PowerOfTwo, SumInv, NEW p \in Rank, NEW r \in Step0, Recv(p, r)
  PROVE  SumInv'
<1>1. recv(r) \in AllOps /\ recv(r) # end /\ Does(p, recv(r))
  BY OpsDef, Kinds DEF Recv
<1>2. Typed /\ \A q \in Rank : Orderly(q) /\ Summed(q)
  BY DEF SumInv
<1>3. /\ p \in active /\ recv(r) \notin done[p]
      /\ round' = round /\ active' = active
      /\ done' \in [Rank -> SUBSET AllOps]
      /\ done'[p] = done[p] \cup {recv(r)}
      /\ \A q \in Rank : q # p => done'[q] = done[q]
  BY <1>1, <1>2, DoesTyped
<1>4. tmpcount' = tmpcount /\ count' = count /\ rcvbuff' = rcvbuff
  BY DEF Recv, sizes
<1>5. round[p] \in 1 .. MaxRounds
  BY <1>1, <1>2, DoesTimes
<1>6. PICK d \in Rank : d = dst[p][r] /\ dst[d][r] = p
  BY Partner
<1>7. PICK s \in Seq(Message) : s = chan[d][p]
  BY <1>2, <1>6 DEF Typed
<1>8. PICK l \in Nat : l + 1 = Len(s)
  <2>1. s # <<>>
    BY <1>6, <1>7 DEF Recv
  <2>2. Len(s) \in Nat /\ Len(s) # 0
    BY <2>1
  <2>3. Len(s) - 1 \in Nat
    BY <2>2
  <2>4. QED
    BY <2>2, <2>3
<1>9. /\ chan' = [chan EXCEPT ![d][p] = Tail(s)]
      /\ tmpbuffs' = [tmpbuffs EXCEPT ![p][r] = Head(s).value]
  BY <1>6, <1>7 DEF Recv
<1>10. /\ Tail(s) \in Seq(Message) /\ Len(Tail(s)) = l /\ Head(s) = s[1]
       /\ \A k \in 1 .. l : Tail(s)[k] = s[k + 1]
  BY <1>7, <1>8
<1>11. /\ chan' \in [Rank -> [Rank -> Seq(Message)]]
       /\ chan'[d][p] = Tail(s)
       /\ \A x, y \in Rank : x # d \/ y # p => chan'[x][y] = chan[x][y]
  BY <1>2, <1>9, <1>10 DEF Typed
<1>12. /\ tmpbuffs' = [q \in Rank |-> [j \in Step0 |-> tmpbuffs'[q][j]]]
       /\ tmpbuffs'[p][r] = s[1].value
       /\ \A q \in Rank : \A j \in Step0 : q # p \/ j # r => tmpbuffs'[q][j] = tmpbuffs[q][j]
       /\ \A q \in Rank : q # p => tmpbuffs'[q] = tmpbuffs[q]
  <2>1. tmpbuffs = [q \in Rank |-> [j \in Step0 |-> tmpbuffs[q][j]]]
    BY <1>2 DEF Typed
  <2>2. DOMAIN tmpbuffs = Rank /\ \A q \in Rank : tmpbuffs[q] = [j \in Step0 |-> tmpbuffs[q][j]]
    BY <2>1
  <2>3. \A q \in Rank : DOMAIN tmpbuffs[q] = Step0
    BY <2>2
  <2>4. PICK h : h = [tmpbuffs[p] EXCEPT ![r] = s[1].value]
    OBVIOUS
  <2>5. tmpbuffs' = [tmpbuffs EXCEPT ![p] = h]
    BY <1>9, <1>10, <2>4
  <2>6. h = [j \in Step0 |-> h[j]] /\ h[r] = s[1].value
        /\ \A j \in Step0 : j # r => h[j] = tmpbuffs[p][j]
    BY <2>3, <2>4
  <2>7. tmpbuffs'[p] = h /\ \A q \in Rank : q # p => tmpbuffs'[q] = tmpbuffs[q]
    BY <2>2, <2>5
  <2>8. tmpbuffs' = [q \in Rank |-> tmpbuffs'[q]]
    BY <2>2, <2>5
  <2>9. \A q \in Rank : tmpbuffs'[q] = [j \in Step0 |-> tmpbuffs'[q][j]]
    BY <2>2, <2>6, <2>7
  <2>10. QED
    BY <2>6, <2>7, <2>8, <2>9
<1>13. /\ times(p, recv(r)) = round[p] - 1 /\ times(p, recv(r))' = round[p]
       /\ \A q \in Rank : \A x : q # p \/ x # recv(r) => times(q, x)' = times(q, x)
  BY <1>1, <1>2, DoesTimes
<1>14. PICK n \in Nat : n = times(d, send(r)) /\ n = times(d, send(r))'
  BY <1>2, <1>13, TimesType, Kinds
<1>15. /\ l + 1 = n - (round[p] - 1)
       /\ \A k \in 1 .. l + 1 : s[k] = Msg(d, r, (round[p] - 1) + k)
  <2>1. Channel(d, r)
    BY DEF SumInv
  <2>2. /\ Len(chan[d][p]) = n - times(p, recv(r))
        /\ \A k \in 1 .. Len(chan[d][p]) : chan[d][p][k] = Msg(d, r, times(p, recv(r)) + k)
    BY <1>6, <1>14, <2>1 DEF Channel
  <2>3. QED
    BY <1>7, <1>8, <1>13, <2>2
<1>16. s[1].value = GroupSum(d, r, round[p])
  <2>1. 1 \in 1 .. l + 1 /\ (round[p] - 1) + 1 = round[p]
    BY <1>5
  <2>2. s[1] = Msg(d, r, round[p])
    BY <1>15, <2>1
  <2>3. QED
    BY <2>2 DEF Msg
<1>17. Typed'
  BY <1>2, <1>3, <1>4, <1>11, <1>12 DEF Typed
<1>18. \A q \in Rank : Orderly(q)'
  BY <1>1, <1>2, DoesOrderly
<1>19. ASSUME NEW q \in Rank PROVE Summed(q)'
  <2>1. CASE q # p
    BY <1>2, <1>3, <1>4, <1>12, <2>1, OthersSummed
  <2>2. CASE q = p
    <3>1. /\ move \in done'[p] <=> move \in done[p]
          /\ \A j : /\ comp(j) \in done'[p] <=> comp(j) \in done[p]
                    /\ recv(j) \in done'[p] <=> recv(j) \in done[p] \/ j = r
      BY <1>3, Kinds
    <3>2. Summed(p)
      BY <1>2
    <3>3. \A j \in Step0 : recv(j) \in done'[p] =>
             tmpbuffs'[p][j] = GroupSum(dst[p][j], j, round'[p])
      <4>1. SUFFICES ASSUME NEW j \in Step0, recv(j) \in done'[p]
                     PROVE  tmpbuffs'[p][j] = GroupSum(dst[p][j], j, round[p])
        BY <1>3
      <4>2. CASE j = r
        BY <1>6, <1>12, <1>16, <4>2
      <4>3. CASE j # r
        BY <1>12, <3>1, <3>2, <4>1, <4>3 DEF Summed
      <4>4. QED
        BY <4>2, <4>3
    <3>4. /\ move \in done'[p] =>
                \A c \in 0 .. Dim : Through(p, c)' => rcvbuff'[p] = GroupSum(p, c, round'[p])
          /\ p \in active' /\ move \notin done'[p] /\ p \in InPlace =>
                rcvbuff'[p] = Value(p, round'[p])
          /\ round'[p] = 0 => rcvbuff'[p] = EmptyBag
          /\ round'[p] > 0 => Count[round'[p]] <= count'[p]
      BY <1>3, <1>4, <3>1, <3>2 DEF Summed, Through
    <3>5. Summed(p)'
      BY <3>3, <3>4 DEF Summed
    <3>6. QED
      BY <2>2, <3>5
  <2>3. QED
    BY <2>1, <2>2
<1>20. Channel(d, r)'
  <2>1. Len(chan'[d][p]) = n - round[p]
    BY <1>5, <1>10, <1>11, <1>15
  <2>2. \A k \in 1 .. l : chan'[d][p][k] = Msg(d, r, round[p] + k)
    <3>1. SUFFICES ASSUME NEW k \in 1 .. l PROVE Tail(s)[k] = Msg(d, r, round[p] + k)
      BY <1>11
    <3>2. k + 1 \in 1 .. l + 1 /\ (round[p] - 1) + (k + 1) = round[p] + k
      BY <1>5
    <3>3. QED
      BY <1>10, <1>15, <3>2
  <2>3. QED
    BY <1>6, <1>10, <1>11, <1>13, <1>14, <2>1, <2>2 DEF Channel
<1>21. \A q \in Rank : \A j \in Step0 : Channel(q, j)'
  <2>1. SUFFICES ASSUME NEW q \in Rank, NEW j \in Step0, q # d \/ j # r
                 PROVE  Channel(q, j)'
    BY <1>20
  <2>2. dst[q][j] \in Rank /\ (q # d \/ dst[q][j] # p) /\ (dst[q][j] # p \/ j # r)
    BY <1>6, <2>1, Partner
  <2>3. chan'[q][dst[q][j]] = chan[q][dst[q][j]]
    BY <1>11, <2>2
  <2>4. times(q, send(j))' = times(q, send(j))
    BY <1>13, Kinds
  <2>5. times(dst[q][j], recv(j))' = times(dst[q][j], recv(j))
    BY <1>13, <2>2, Kinds
  <2>6. QED
    BY <2>3, <2>4, <2>5, KeptChannel DEF SumInv
<1>22. ASSUME NEW q \in Rank, NEW x \in Rank PROVE Unused(q, x)'
  <2>1. SUFFICES ASSUME \A j \in Step0 : x # dst[q][j] PROVE chan'[q][x] = <<>>
    BY DEF Unused
  <2>2. q # d \/ x # p
    BY <1>6, <2>1
  <2>3. Unused(q, x)
    BY DEF SumInv
  <2>4. QED
    BY <1>11, <2>1, <2>2, <2>3 DEF Unused
<1>23. Entered'
  <2>1. Entered
    BY DEF SumInv
  <2>2. \A k \in 1 .. l + 1 : InTime(round, s[k].value)
    BY <1>6, <1>7, <1>8, <2>1 DEF Entered
  <2>3. ASSUME NEW x \in Rank, NEW y \in Rank, NEW k \in 1 .. Len(chan'[x][y])
        PROVE  InTime(round, chan'[x][y][k].value)
    <3>1. CASE x = d /\ y = p
      <4>1. chan'[x][y] = Tail(s)
        BY <1>11, <3>1
      <4>2. k \in 1 .. l
        BY <1>10, <2>3, <4>1
      <4>3. k + 1 \in 1 .. l + 1 /\ chan'[x][y][k] = s[k + 1]
        BY <1>10, <4>1, <4>2
      <4>4. QED
        BY <2>2, <4>3
    <3>2. CASE ~(x = d /\ y = p)
      <4>1. chan'[x][y] = chan[x][y]
        BY <1>11, <3>2
      <4>2. QED
        BY <2>1, <2>3, <4>1 DEF Entered
    <3>3. QED
      BY <3>1, <3>2
  <2>4. ASSUME NEW q \in Rank, NEW j \in Step0 PROVE InTime(round, tmpbuffs'[q][j])
    <3>1. CASE q = p /\ j = r
      BY <1>12, <2>2, <3>1
    <3>2. CASE ~(q = p /\ j = r)
      BY <1>12, <2>1, <3>2 DEF Entered
    <3>3. QED
      BY <3>1, <3>2
  <2>5. QED
    BY <1>3, <1>4, <2>1, <2>3, <2>4 DEF Entered
<1>24. QED
  BY <1>17, <1>18, <1>19, <1>21, <1>22, <1>23 DEF SumInv

LEMMA CompInv ==
  ASSUME PowerOfTwo, SumInv, NEW p \in Rank, NEW r \in Step0, Comp(p, r)
  PROVE  SumInv'
<1>1. comp(r) \in AllOps /\ comp(r) # end /\ Does(p, comp(r))
  BY OpsDef, Kinds DEF Comp
<1>2. Typed /\ \A q \in Rank : Orderly(q) /\ Summed(q)
  BY DEF SumInv
<1>3. /\ p \in active /\ comp(r) \notin done[p] /\ Pred(p, comp(r)) \subseteq done[p]
      /\ round' = round /\ active' = active
      /\ done' \in [Rank -> SUBSET AllOps]
      /\ done'[p] = done[p] \cup {comp(r)}
      /\ \A q \in Rank : q # p => done'[q] = done[q]
  BY <1>1, <1>2, DoesTyped
<1>4. tmpbuffs' = tmpbuffs /\ tmpcount' = tmpcount /\ count' = count /\ chan' = chan
  BY DEF Comp, sizes
<1>5. round[p] \in 1 .. MaxRounds /\ r \in Nat /\ r < Dim /\ r \in 0 .. Dim
  BY <1>1, <1>2, DoesTimes, DimDef DEF Step0
<1>6. send(r) \in done[p] /\ recv(r) \in done[p]
  BY <1>3, PredDef
<1>7. move \in done[p] /\ \A s \in 0 .. r - 1 : comp(s) \in done[p]
  BY <1>2, <1>6 DEF Orderly
<1>8. rcvbuff[p] = GroupSum(p, r, round[p])
  <2>1. r = 0 \/ r - 1 \in 0 .. r - 1
    BY <1>5
  <2>2. Through(p, r)
    BY <1>3, <1>7, <2>1 DEF Through
  <2>3. QED
    BY <1>2, <1>5, <1>7, <2>2 DEF Summed
<1>9. tmpbuffs[p][r] = GroupSum(dst[p][r], r, round[p])
  BY <1>2, <1>6 DEF Summed
<1>10. ~(tmpcount[p] < Count[round[p]])
  <2>1. Count[round[p]] <= count[p]
    BY <1>2, <1>5 DEF Summed
  <2>2. Count[round[p]] \in Nat /\ count[p] \in Nat
    BY <1>2, <1>5, CountAssumption DEF Typed
  <2>3. QED
    BY <1>2, <2>1, <2>2 DEF Typed
<1>11. rcvbuff' = [rcvbuff EXCEPT ![p] = tmpbuffs[p][r] (+) rcvbuff[p]]
  BY <1>10 DEF Comp
<1>12. /\ rcvbuff' = [q \in Rank |-> rcvbuff'[q]]
       /\ rcvbuff'[p] = tmpbuffs[p][r] (+) rcvbuff[p]
       /\ \A q \in Rank : q # p => rcvbuff'[q] = rcvbuff[q]
  <2>1. DOMAIN rcvbuff = Rank
    BY <1>2 DEF Typed
  <2>2. QED
    BY <1>11, <2>1
<1>13. rcvbuff'[p] = GroupSum(p, r + 1, round[p])
  BY <1>8, <1>9, <1>12, NextSum
<1>14. Typed'
  BY <1>2, <1>3, <1>4, <1>12 DEF Typed
<1>15. \A q \in Rank : Orderly(q)'
  BY <1>1, <1>2, DoesOrderly
<1>16. ASSUME NEW c \in 0 .. Dim, Through(p, c)' PROVE c = r + 1
  <2>1. c \in Int /\ Dim \in Nat
    BY DimDef
  <2>2. CASE c < r
    <3>1. c \in 0 .. r - 1 /\ c # Dim
      BY <1>5, <2>1, <2>2
    <3>2. QED
      BY <1>3, <1>7, <1>16, <3>1 DEF Through
  <2>3. CASE c = r
    BY <1>3, <1>5, <1>16, <2>1, <2>3 DEF Through
  <2>4. CASE c > r + 1
    <3>1. c - 1 \in Step0 /\ c - 1 # r /\ r \in 0 .. c - 1 /\ c # 0
      BY <1>5, <2>1, <2>4 DEF Step0
    <3>2. comp(c - 1) \in done[p]
      BY <1>3, <1>16, <3>1, Kinds DEF Through
    <3>3. comp(r) \in done[p]
      BY <1>2, <3>1, <3>2, InOrder
    <3>4. QED
      BY <1>3, <3>3
  <2>5. QED
    BY <1>5, <2>1, <2>2, <2>3, <2>4
<1>17. ASSUME NEW q \in Rank PROVE Summed(q)'
  <2>1. CASE q # p
    BY <1>2, <1>3, <1>4, <1>12, <2>1, OthersSummed
  <2>2. CASE q = p
    <3>1. /\ move \in done'[p]
          /\ \A j : recv(j) \in done'[p] <=> recv(j) \in done[p]
      BY <1>3, <1>7, Kinds
    <3>2. Summed(p)
      BY <1>2
    <3>3. \A c \in 0 .. Dim : Through(p, c)' => rcvbuff'[p] = GroupSum(p, c, round'[p])
      BY <1>3, <1>13, <1>16
    <3>4. /\ \A j \in Step0 : recv(j) \in done'[p] =>
                tmpbuffs'[p][j] = GroupSum(dst[p][j], j, round'[p])
          /\ round'[p] > 0 => Count[round'[p]] <= count'[p]
      BY <1>3, <1>4, <3>1, <3>2 DEF Summed
    <3>5. round'[p] # 0
      BY <1>3, <1>5
    <3>6. Summed(p)'
      BY <3>1, <3>3, <3>4, <3>5 DEF Summed
    <3>7. QED
      BY <2>2, <3>6
  <2>3. QED
    BY <2>1, <2>2
<1>18. /\ \A q \in Rank : \A j \in Step0 : Channel(q, j)'
       /\ \A q, x \in Rank : Unused(q, x)'
  <2>1. \A q \in Rank : \A j \in Step0 : /\ times(q, send(j))' = times(q, send(j))
                                       /\ times(q, recv(j))' = times(q, recv(j))
    BY <1>1, <1>2, Kinds, DoesTimes
  <2>2. QED
    BY <1>4, <2>1, SameChannels DEF SumInv
<1>19. Entered'
  <2>1. Entered
    BY DEF SumInv
  <2>2. InTime(round, rcvbuff'[p])
    BY <1>12, <2>1, SumInTime DEF Entered
  <2>3. \A q \in Rank : InTime(round, rcvbuff'[q])
    BY <1>12, <2>1, <2>2 DEF Entered
  <2>4. QED
    BY <1>3, <1>4, <2>1, <2>3 DEF Entered
<1>20. QED
  BY <1>14, <1>15, <1>17, <1>18, <1>19 DEF SumInv

(* A rank that has left a round has the sum of all ranks. *)
LEMMA WholeSum ==
  ASSUME PowerOfTwo, SumInv, NEW p \in Rank, move \in done[p],
         \A r \in Step0 : comp(r) \in done[p]
  PROVE  rcvbuff[p] = Total(round[p])
<1>1. Dim \in 0 .. Dim /\ (Dim = 0 \/ Dim - 1 \in Step0)
  BY DimDef DEF Step0
<1>2. Through(p, Dim)
  BY <1>1 DEF Through
<1>3. QED
  BY <1>1, <1>2, OneSum DEF SumInv, Summed

LEMMA WaitFacts ==
  ASSUME PowerOfTwo, SumInv, NEW p \in Rank, Wait(p)
  PROVE  /\ rcvbuff[p] = Total(round[p]) /\ round[p] \in 1 .. MaxRounds
         /\ \A q \in Rank : round[q] >= round[p]
         /\ done'[p] = AllOps /\ move \in done[p]
<1>1. Typed /\ Orderly(p)
  BY DEF SumInv
<1>2. p \in active /\ end \notin done[p] /\ Pred(p, end) \subseteq done[p]
      /\ done' = [done EXCEPT ![p] = done[p] \cup {end}]
  BY DEF Wait, Ready
<1>3. round[p] \in 1 .. MaxRounds /\ begin \in done[p]
  BY <1>1, <1>2, MaxRoundsAssumption DEF Typed, Orderly
<1>4. move \in done[p] /\ \A r \in Step0 : comp(r) \in done[p]
  <2>1. CASE Step0 = {}
    BY <1>2, <2>1, PredDef
  <2>2. CASE Step0 # {}
    <3>1. \A r \in Step0 : comp(r) \in done[p]
      BY <1>2, <2>2, PredDef
    <3>2. QED
      BY <1>1, <2>2, <3>1, InOrder
  <2>3. QED
    BY <2>1, <2>2
<1>5. rcvbuff[p] = Total(round[p])
  BY <1>4, WholeSum
<1>6. ASSUME NEW q \in Rank PROVE round[q] >= round[p]
  <2>1. DOMAIN Total(round[p]) = {<<x, round[p]>> : x \in Rank}
    BY DEF Total, SetToBag
  <2>2. <<q, round[p]>> \in DOMAIN rcvbuff[p]
    BY <1>5, <2>1
  <2>3. round[p] \in Nat
    BY <1>3
  <2>4. QED
    BY <2>2, <2>3 DEF SumInv, Entered, InTime
<1>7. done'[p] = AllOps
  <2>1. done'[p] = done[p] \cup {end} /\ done[p] \subseteq AllOps
    BY <1>1, <1>2 DEF Typed
  <2>2. \A r \in Step0 : send(r) \in done[p] /\ recv(r) \in done[p]
    BY <1>1, <1>4, InOrder
  <2>3. ASSUME NEW o \in AllOps PROVE o \in done'[p]
    BY <1>3, <1>4, <2>1, <2>2, OpsDef
  <2>4. end \in AllOps
    BY OpsDef
  <2>5. QED
    BY <2>1, <2>3, <2>4
<1>8. QED
  BY <1>3, <1>4, <1>5, <1>6, <1>7

LEMMA WaitInv ==
  ASSUME PowerOfTwo, SumInv, NEW p \in Rank, Wait(p)
  PROVE  SumInv'
<1>1. Typed /\ \A q \in Rank : Orderly(q) /\ Summed(q)
  BY DEF SumInv
<1>2. /\ rcvbuff[p] = Total(round[p]) /\ round[p] \in 1 .. MaxRounds
      /\ done'[p] = AllOps /\ move \in done[p]
  BY WaitFacts
<1>3. /\ active' = active \ {p} /\ done' = [done EXCEPT ![p] = done[p] \cup {end}]
      /\ round' = round /\ rcvbuff' = rcvbuff /\ tmpbuffs' = tmpbuffs /\ chan' = chan
      /\ tmpcount' = tmpcount /\ count' = count
  BY DEF Wait, sizes
<1>4. /\ done'[p] = done[p] \cup {end}
      /\ \A q \in Rank : q # p => done'[q] = done[q] /\ (q \in active' <=> q \in active)
      /\ p \notin active'
  BY <1>1, <1>3 DEF Typed
<1>5. Typed'
  <2>1. done' \in [Rank -> SUBSET AllOps]
    BY <1>1, <1>2, <1>3 DEF Typed
  <2>2. QED
    BY <1>1, <1>3, <2>1 DEF Typed
<1>6. ASSUME NEW q \in Rank PROVE Orderly(q)'
  <2>1. CASE q # p
    BY <1>1, <1>3, <1>4, <2>1 DEF Orderly
  <2>2. CASE q = p
    <3>1. \A o \in AllOps : Pred(p, o) \subseteq AllOps
      <4>1. \A r \in Step0 : r # 0 => r - 1 \in Step0
        BY DimDef DEF Step0
      <4>2. \A r \in Step0 : Pred(p, send(r)) \subseteq AllOps
        <5>1. SUFFICES ASSUME NEW r \in Step0 PROVE Pred(p, send(r)) \subseteq AllOps
          OBVIOUS
        <5>2. CASE r = 0
          BY <5>2, PredDef, OpsDef
        <5>3. CASE r # 0
          <6>1. comp(r - 1) \in AllOps
            BY <4>1, <5>3, OpsDef
          <6>2. Pred(p, send(r)) = {comp(r - 1)}
            BY <5>3, PredDef
          <6>3. QED
            BY <6>1, <6>2
        <5>4. QED
          BY <5>2, <5>3
      <4>3. \A r \in Step0 : Pred(p, recv(r)) \subseteq AllOps /\ Pred(p, comp(r)) \subseteq AllOps
        BY PredDef, OpsDef
      <4>4. Pred(p, begin) \subseteq AllOps /\ Pred(p, move) \subseteq AllOps
        BY PredDef, OpsDef
      <4>5. Pred(p, end) \subseteq AllOps
        BY PredDef, OpsDef
      <4>6. QED
        BY <4>2, <4>3, <4>4, <4>5, OpsDef
    <3>2. move \in AllOps /\ \A r \in Step0 : comp(r) \in AllOps
      BY OpsDef
    <3>3. \A r \in Step0 : \A s \in 0 .. r - 1 : s \in Step0
      BY DimDef DEF Step0
    <3>4. round'[p] > 0
      BY <1>2, <1>3
    <3>5. Orderly(p)'
      BY <1>2, <1>4, <3>1, <3>2, <3>3, <3>4 DEF Orderly
    <3>6. QED
      BY <2>2, <3>5
  <2>3. QED
    BY <2>1, <2>2
<1>7. ASSUME NEW q \in Rank PROVE Summed(q)'
  <2>1. CASE q # p
    BY <1>1, <1>3, <1>4, <2>1, OthersSummed
  <2>2. CASE q = p
    <3>1. ASSUME NEW c \in 0 .. Dim, Through(p, c)' PROVE c = Dim
      <4>1. SUFFICES ASSUME c # Dim PROVE FALSE
        OBVIOUS
      <4>2. c \in Step0
        BY <4>1, DimDef DEF Step0
      <4>3. comp(c) \in AllOps
        BY <4>2, OpsDef
      <4>4. QED
        BY <1>2, <3>1, <4>1, <4>3 DEF Through
    <3>2. \A c \in 0 .. Dim : Through(p, c)' => rcvbuff'[p] = GroupSum(p, c, round'[p])
      BY <1>2, <1>3, <3>1, OneSum
    <3>3. Summed(p)
      BY <1>1
    <3>4. \A j \in Step0 : recv(j) \in done'[p] =>
             tmpbuffs'[p][j] = GroupSum(dst[p][j], j, round'[p])
      <4>1. \A j : recv(j) \in done'[p] <=> recv(j) \in done[p]
        BY <1>4, Kinds
      <4>2. QED
        BY <1>3, <3>3, <4>1 DEF Summed
    <3>5. round'[p] # 0 /\ Count[round'[p]] <= count'[p] /\ move \in done'[p]
      BY <1>2, <1>3, <1>4, <3>3 DEF Summed
    <3>6. Summed(p)'
      BY <3>2, <3>4, <3>5 DEF Summed
    <3>7. QED
      BY <2>2, <3>6
  <2>3. QED
    BY <2>1, <2>2
<1>8. /\ \A q \in Rank : \A r \in Step0 : Channel(q, r)'
      /\ \A q, x \in Rank : Unused(q, x)'
  <2>1. \A q \in Rank : \A o : o # end => (o \in done'[q] <=> o \in done[q])
    BY <1>4
  <2>2. \A q \in Rank : \A r \in Step0 : /\ times(q, send(r))' = times(q, send(r))
                                       /\ times(q, recv(r))' = times(q, recv(r))
    BY <1>3, <2>1, Kinds DEF times
  <2>3. QED
    BY <1>3, <2>2, SameChannels DEF SumInv
<1>9. Entered'
  BY <1>3 DEF SumInv, Entered
<1>10. QED
  BY <1>5, <1>6, <1>7, <1>8, <1>9 DEF SumInv

LEMMA PostInv ==
  ASSUME PowerOfTwo, SumInv, NEW p \in Rank, Post(p)
  PROVE  SumInv'
<1>1. Typed /\ \A q \in Rank : Orderly(q) /\ Summed(q)
  BY DEF SumInv
<1>2. PICK k \in Nat : k = round[p]
  BY <1>1, MaxRoundsAssumption DEF Typed
<1>3. k + 1 \in 1 .. MaxRounds /\ k < MaxRounds
  BY <1>1, <1>2, MaxRoundsAssumption DEF Post, Typed
<1>4. /\ round' = [round EXCEPT ![p] = k + 1]
      /\ active' = active \cup {p} /\ done' = [done EXCEPT ![p] = {begin}]
      /\ tmpbuffs' = tmpbuffs /\ chan' = chan
  BY <1>2 DEF Post
<1>5. /\ round'[p] = k + 1 /\ done'[p] = {begin} /\ p \in active' /\ p \notin active
      /\ \A q \in Rank : q # p =>
            round'[q] = round[q] /\ done'[q] = done[q] /\ (q \in active' <=> q \in active)
  BY <1>1, <1>4 DEF Typed, Post
<1>6. PICK v : v = IF p \in InPlace THEN Value(p, k + 1) ELSE EmptyBag
  OBVIOUS
<1>7. rcvbuff' = [rcvbuff EXCEPT ![p] = v]
  <2>1. rcvbuff' = [rcvbuff EXCEPT ![p] =
                      IF p \in InPlace THEN Value(p, round'[p]) ELSE EmptyBag]
    BY DEF Post
  <2>2. QED
    BY <1>5, <1>6, <2>1
<1>8. /\ rcvbuff' = [q \in Rank |-> rcvbuff'[q]] /\ rcvbuff'[p] = v
      /\ \A q \in Rank : q # p => rcvbuff'[q] = rcvbuff[q]
  <2>1. DOMAIN rcvbuff = Rank
    BY <1>1 DEF Typed
  <2>2. QED
    BY <1>7, <2>1
<1>9. PICK c \in Nat : c = Count[k + 1]
  BY <1>3, CountAssumption
<1>10. /\ count' = [count EXCEPT ![p] = IF c > count[p] THEN c ELSE count[p]]
       /\ tmpcount' = [tmpcount EXCEPT ![p] = IF c > count[p] THEN c ELSE tmpcount[p]]
  <2>1. ffallreduce_post_check(p, Count[round'[p]])
    BY DEF Post
  <2>2. ffallreduce_post_check(p, c)
    BY <1>5, <1>9, <2>1
  <2>3. QED
    BY <2>2 DEF ffallreduce_post_check
<1>11. /\ count' \in [Rank -> Nat] /\ tmpcount' = count' /\ c <= count'[p]
       /\ \A q \in Rank : q # p => count'[q] = count[q]
  BY <1>1, <1>10 DEF Typed
<1>12. Typed'
  <2>1. round' \in [Rank -> 0 .. MaxRounds]
    BY <1>1, <1>3, <1>4 DEF Typed
  <2>2. done' \in [Rank -> SUBSET AllOps]
    <3>1. begin \in AllOps
      BY OpsDef
    <3>2. QED
      BY <1>1, <1>4, <3>1 DEF Typed
  <2>3. QED
    BY <1>1, <1>4, <1>8, <1>11, <2>1, <2>2 DEF Typed
<1>13. ASSUME NEW q \in Rank PROVE Orderly(q)'
  <2>1. CASE q # p
    BY <1>1, <1>5, <2>1 DEF Orderly
  <2>2. CASE q = p
    <3>1. Pred(p, begin) = {}
      BY PredDef
    <3>2. \A r : send(r) \notin done'[p]
      BY <1>5, Kinds
    <3>3. end \notin done'[p]
      BY <1>5, Kinds
    <3>4. Orderly(p)'
      BY <1>5, <3>1, <3>2, <3>3 DEF Orderly
    <3>5. QED
      BY <2>2, <3>4
  <2>3. QED
    BY <2>1, <2>2
<1>14. ASSUME NEW q \in Rank PROVE Summed(q)'
  <2>1. CASE q # p
    BY <1>1, <1>4, <1>5, <1>8, <1>11, <2>1, OthersSummed
  <2>2. CASE q = p
    <3>1. move \notin done'[p] /\ \A r : recv(r) \notin done'[p]
      BY <1>5, Kinds
    <3>2. p \in InPlace => rcvbuff'[p] = Value(p, round'[p])
      BY <1>5, <1>6, <1>8
    <3>3. round'[p] # 0 /\ Count[round'[p]] <= count'[p]
      BY <1>5, <1>9, <1>11
    <3>4. Summed(p)'
      BY <3>1, <3>2, <3>3 DEF Summed
    <3>5. QED
      BY <2>2, <3>4
  <2>3. QED
    BY <2>1, <2>2
<1>15. /\ \A q \in Rank : \A r \in Step0 : Channel(q, r)'
       /\ \A q, x \in Rank : Unused(q, x)'
  <2>1. \/ k = 0 /\ done[p] = {}
        \/ k > 0 /\ done[p] = AllOps
    BY <1>1, <1>2, <1>5 DEF Orderly
  <2>2. ASSUME NEW o \in AllOps, o # begin PROVE times(p, o)' = times(p, o)
    <3>1. times(p, o)' = k
      BY <1>5, <2>2 DEF times
    <3>2. times(p, o) = k
      BY <1>2, <2>1, <2>2 DEF times
    <3>3. QED
      BY <3>1, <3>2
  <2>3. \A q \in Rank : \A o \in AllOps : o # begin => times(q, o)' = times(q, o)
    BY <1>5, <2>2 DEF times
  <2>4. \A q \in Rank : \A r \in Step0 : /\ times(q, send(r))' = times(q, send(r))
                                       /\ times(q, recv(r))' = times(q, recv(r))
    BY <2>3, Kinds, OpsDef
  <2>5. QED
    BY <1>4, <2>4, SameChannels DEF SumInv
<1>16. Entered'
  <2>1. Entered
    BY DEF SumInv
  <2>2. \A q \in Rank : round[q] \in Int /\ round'[q] \in Int /\ round[q] <= round'[q]
    <3>1. \A q \in Rank : round[q] \in Int
      BY <1>1, MaxRoundsAssumption DEF Typed
    <3>2. k <= k + 1 /\ k + 1 \in Int /\ \A q \in Rank : round[q] <= round[q]
      BY <3>1
    <3>3. QED
      BY <1>2, <1>5, <3>1, <3>2
  <2>3. \A b : InTime(round, b) => InTime(round', b)
    BY <2>2, InTimeLater
  <2>4. InTime(round', v)
    <3>1. CASE p \in InPlace
      BY <1>5, <1>6, <3>1, ValueInTime
    <3>2. CASE p \notin InPlace
      <4>1. DOMAIN EmptyBag = {}
        BY DEF EmptyBag, SetToBag
      <4>2. QED
        BY <1>6, <3>2, <4>1 DEF InTime
    <3>3. QED
      BY <3>1, <3>2
  <2>5. \A q \in Rank : InTime(round', rcvbuff'[q])
    BY <1>8, <2>1, <2>3, <2>4 DEF Entered
  <2>6. \A q \in Rank : \A r \in Step0 : InTime(round', tmpbuffs'[q][r])
    BY <1>4, <2>1, <2>3 DEF Entered
  <2>7. \A q, x \in Rank : \A i \in 1 .. Len(chan'[q][x]) : InTime(round', chan'[q][x][i].value)
    BY <1>4, <2>1, <2>3 DEF Entered
  <2>8. QED
    BY <2>5, <2>6, <2>7 DEF Entered
<1>17. QED
  BY <1>12, <1>13, <1>14, <1>15, <1>16 DEF SumInv

LEMMA InitInv ==
  ASSUME PowerOfTwo, Init
  PROVE  SumInv
<1>1. Typed
  <2>1. Count[0] \in Nat
    BY CountAssumption, MaxRoundsAssumption
  <2>2. round \in [Rank -> 0 .. MaxRounds] /\ active \subseteq Rank
        /\ done \in [Rank -> SUBSET AllOps] /\ rcvbuff = [p \in Rank |-> rcvbuff[p]]
    BY MaxRoundsAssumption DEF Init
  <2>3. tmpbuffs = [p \in Rank |-> [r \in Step0 |-> tmpbuffs[p][r]]]
    <3>1. tmpbuffs = [p \in Rank |-> [r \in Steps(p) |-> EmptyBag]]
      BY DEF Init
    <3>2. \A p \in Rank : tmpbuffs[p] = [r \in Step0 |-> EmptyBag]
      BY <3>1, PartnersDef
    <3>3. QED
      BY <3>1, <3>2
  <2>4. count \in [Rank -> Nat] /\ tmpcount = count
    BY <2>1 DEF Init
  <2>5. chan \in [Rank -> [Rank -> Seq(Message)]]
    <3>1. <<>> \in Seq(Message)
      OBVIOUS
    <3>2. QED
      BY <3>1 DEF Init
  <2>6. QED
    BY <2>2, <2>3, <2>4, <2>5 DEF Typed
<1>2. ASSUME NEW p \in Rank PROVE Orderly(p) /\ Summed(p)
  BY DEF Init, Orderly, Summed
<1>3. ASSUME NEW p \in Rank, NEW r \in Step0 PROVE Channel(p, r)
  <2>1. PICK q \in Rank : q = dst[p][r]
    BY Partner
  <2>2. times(p, send(r)) = 0 /\ times(q, recv(r)) = 0 /\ chan[p][q] = <<>>
    BY DEF Init, times
  <2>3. QED
    BY <2>1, <2>2 DEF Channel
<1>4. ASSUME NEW p \in Rank, NEW q \in Rank PROVE Unused(p, q)
  BY DEF Init, Unused
<1>5. Entered
  <2>1. InTime(round, EmptyBag)
    BY DEF InTime, EmptyBag, SetToBag
  <2>2. \A p \in Rank : rcvbuff[p] = EmptyBag
    BY DEF Init
  <2>3. \A p \in Rank : \A r \in Step0 : tmpbuffs[p][r] = EmptyBag
    BY PartnersDef DEF Init
  <2>4. \A p, q \in Rank : Len(chan[p][q]) = 0
    BY DEF Init
  <2>5. QED
    BY <2>1, <2>2, <2>3, <2>4 DEF Entered
<1>6. QED
  BY <1>1, <1>2, <1>3, <1>4, <1>5 DEF SumInv

LEMMA NextInv ==
  ASSUME PowerOfTwo, SumInv, [Next]_vars
  PROVE  SumInv'
<1>1. CASE UNCHANGED vars
  BY <1>1 DEF vars, sizes, SumInv, Typed, Orderly, Summed, Through, times, Channel, Unused,
              Entered
<1>2. ASSUME NEW p \in Rank, Step(p) PROVE SumInv'
  <2>1. CASE Post(p)
    BY <2>1, PostInv
  <2>2. CASE Move(p)
    BY <2>2, MoveInv
  <2>3. CASE Wait(p)
    BY <2>3, WaitInv
  <2>4. ASSUME NEW r \in Steps(p), Send(p, r) \/ Recv(p, r) \/ Comp(p, r) PROVE SumInv'
    BY <2>4, PartnersDef, SendInv, RecvInv, CompInv
  <2>5. QED
    BY <1>2, <2>1, <2>2, <2>3, <2>4 DEF Step
<1>3. CASE Ended
  BY <1>1, <1>3 DEF Ended
<1>4. QED
  BY <1>1, <1>2, <1>3 DEF Next

LEMMA Invariance ==
  ASSUME PowerOfTwo
  PROVE  Spec => []SumInv
<1>1. Init => SumInv
  BY InitInv
<1>2. SumInv /\ [Next]_vars => SumInv'
  BY NextInv
<1>3. QED
  BY <1>1, <1>2, PTL DEF Spec

-----------------------------------------------------------------------------
(* What follows from the invariant. *)

LEMMA NothingLeftInv ==
  ASSUME PowerOfTwo, SumInv
  PROVE  NothingLeft
<1>1. Typed /\ \A p \in Rank : Orderly(p)
  BY DEF SumInv
<1>2. ASSUME NEW p \in Rank, p \notin active, round[p] > 0 PROVE done[p] = Ops(p)
  <2>1. round[p] # 0
    BY <1>2
  <2>2. QED
    BY <1>1, <1>2, <2>1, OpsDef DEF Orderly
<1>3. ASSUME NEW p \in Rank, NEW q \in Rank, p \notin active, q \notin active,
             round[p] = round[q]
      PROVE  chan[p][q] = <<>>
  <2>1. ASSUME NEW r \in Step0, q = dst[p][r] PROVE chan[p][q] = <<>>
    <3>1. PICK k \in Nat : k = round[p] /\ k = round[q]
      BY <1>1, <1>3, MaxRoundsAssumption DEF Typed
    <3>2. ASSUME NEW x \in {p, q}, NEW o \in AllOps PROVE times(x, o) = k
      BY <1>1, <1>3, <3>1 DEF Orderly, times
    <3>3. times(p, send(r)) = k /\ times(q, recv(r)) = k
      BY <3>2, OpsDef
    <3>4. Channel(p, r)
      BY DEF SumInv
    <3>5. Len(chan[p][q]) = 0
      BY <2>1, <3>1, <3>3, <3>4 DEF Channel
    <3>6. chan[p][q] \in Seq(Message)
      BY <1>1 DEF Typed
    <3>7. QED
      BY <3>5, <3>6
  <2>2. QED
    BY <2>1 DEF SumInv, Unused
<1>4. QED
  BY <1>2, <1>3 DEF NothingLeft

(* A schedule that has completed has run every operation, and two ranks    *)
(* between rounds have no message of theirs under way: a later round       *)
(* starts with nothing of an earlier one.                                  *)
THEOREM EverythingReceived ==
  ASSUME PowerOfTwo
  PROVE  Spec => []NothingLeft
<1>1. SumInv => NothingLeft
  BY NothingLeftInv
<1>2. QED
  BY <1>1, Invariance, PTL

LEMMA MessagesExactInv ==
  ASSUME PowerOfTwo, SumInv
  PROVE  MessagesExact
<1>1. Typed
  BY DEF SumInv
<1>2. SUFFICES ASSUME NEW p \in Rank, NEW r \in Steps(p), NEW k \in DOMAIN chan[p][dst[p][r]]
               PROVE  LET q == dst[p][r]
                          s == chan[p][q]
                          sent == IF send(r) \in done[p] THEN round[p] ELSE round[p] - 1
                      IN  /\ s[k].value = SetToBag({<<g, sent - Len(s) + k>> : g \in Group(p, r)})
                          /\ s[k].count = Count[sent - Len(s) + k]
  BY DEF MessagesExact
<1> DEFINE q == dst[p][r]
           s == chan[p][q]
           sent == IF send(r) \in done[p] THEN round[p] ELSE round[p] - 1
           Right(i) == /\ s[k].value = SetToBag({<<g, i>> : g \in Group(p, r)})
                       /\ s[k].count = Count[i]
<1>3. r \in Step0 /\ q \in Rank
  BY PartnersDef, Partner
<1>4. PICK n \in Nat, m \in Nat : n = times(p, send(r)) /\ m = times(q, recv(r))
  BY <1>1, <1>3, TimesType
<1>5. PICK l \in Nat : l = Len(s) /\ k \in 1 .. l
  <2>1. s \in Seq(Message)
    BY <1>1, <1>3 DEF Typed
  <2>2. QED
    BY <2>1
<1>6. l = n - m /\ s[k] = Msg(p, r, m + k)
  <2>1. Channel(p, r)
    BY <1>3 DEF SumInv
  <2>2. QED
    BY <1>4, <1>5, <2>1 DEF Channel
<1>7. sent = n
  <2>1. round[p] \in Nat
    BY <1>1, MaxRoundsAssumption DEF Typed
  <2>2. n # 0
    BY <1>5, <1>6
  <2>3. QED
    BY <1>4, <2>1, <2>2 DEF times
<1>8. Right(m + k)
  BY <1>6 DEF Msg, GroupSum
<1>9. sent - Len(s) + k = m + k
  BY <1>5, <1>6, <1>7
<1>10. Right(sent - Len(s) + k)
  <2> HIDE DEF Right
  <2>1. QED
    BY <1>8, <1>9
<1>11. QED
  BY <1>10

(* Every message is the sum that its round and its step call for, in       *)
(* whatever order the operations of a rank, and the ranks, get ahead.      *)
THEOREM EveryMessageExact ==
  ASSUME PowerOfTwo
  PROVE  Spec => []MessagesExact
<1>1. SumInv => MessagesExact
  BY MessagesExactInv
<1>2. QED
  BY <1>1, Invariance, PTL

LEMMA MessagesFitInv ==
  ASSUME PowerOfTwo, SumInv
  PROVE  MessagesFit
<1>1. Typed
  BY DEF SumInv
<1>2. SUFFICES ASSUME NEW p \in active, NEW r \in Step0, NEW q \in Rank, q = dst[p][r],
                      recv(r) \notin done[p], chan[q][p] # <<>>
               PROVE  /\ Head(chan[q][p]).count = Count[round[p]]
                      /\ Head(chan[q][p]).count <= tmpcount[p]
  BY <1>1, PartnersDef, Partner DEF MessagesFit, Ready, Typed
<1>3. p \in Rank /\ dst[q][r] = p
  BY <1>1, <1>2, Partner DEF Typed
<1>4. round[p] \in Nat /\ round[p] > 0
  BY <1>1, <1>3, MaxRoundsAssumption DEF SumInv, Typed, Orderly
<1>5. times(p, recv(r)) = round[p] - 1
  BY <1>2, <1>4 DEF times
<1>6. chan[q][p] \in Seq(Message) /\ 1 \in 1 .. Len(chan[q][p])
      /\ Head(chan[q][p]) = chan[q][p][1]
  <2>1. chan[q][p] \in Seq(Message)
    BY <1>1, <1>3 DEF Typed
  <2>2. QED
    BY <1>2, <2>1
<1>7. chan[q][p][1] = Msg(q, r, round[p])
  <2>1. Channel(q, r)
    BY DEF SumInv
  <2>2. \A k \in 1 .. Len(chan[q][p]) : chan[q][p][k] = Msg(q, r, (round[p] - 1) + k)
    BY <1>3, <1>5, <2>1 DEF Channel
  <2>3. (round[p] - 1) + 1 = round[p]
    BY <1>4
  <2>4. QED
    BY <1>6, <2>2, <2>3
<1>8. Count[round[p]] <= tmpcount[p]
  BY <1>1, <1>3, <1>4 DEF SumInv, Summed, Typed
<1>9. QED
  BY <1>6, <1>7, <1>8 DEF Msg

(* The message a receive is given is of its own round, and its buffer has  *)
(* room for it, whatever the counts of the rounds.                         *)
THEOREM EveryMessageFits ==
  ASSUME PowerOfTwo
  PROVE  Spec => []MessagesFit
<1>1. SumInv => MessagesFit
  BY MessagesFitInv
<1>2. QED
  BY <1>1, Invariance, PTL

LEMMA OutOfRound ==
  ASSUME PowerOfTwo, SumInv, NEW p \in Rank, p \notin active, round[p] > 0
  PROVE  rcvbuff[p] = Total(round[p])
<1>1. done[p] = AllOps
  <2>1. round[p] # 0
    OBVIOUS
  <2>2. QED
    BY <2>1 DEF SumInv, Orderly
<1>2. QED
  BY <1>1, OpsDef, WholeSum

(* test/allreduce.c:47: for a power of two of ranks the reduced value is   *)
(* the sum over all ranks.  The run of three ranks shows that it is not    *)
(* for every number of them.                                               *)
THEOREM PowersOfTwoReduced ==
  ASSUME PowerOfTwo
  PROVE  Spec => []Reduced
<1>1. SumInv => Reduced
  BY OutOfRound DEF Reduced
<1>2. QED
  BY <1>1, Invariance, PTL

-----------------------------------------------------------------------------
(* The reduction that FFReduction promises. *)

Result == [p \in Rank |-> IF p \notin active THEN rcvbuff[p]
                         ELSE IF round[p] = 1 THEN EmptyBag
                         ELSE Total(round[p] - 1)]

LEMMA InitReduces == Init => Reduction!Init
BY DEF Init, Reduction!Init, EmptyBag, Reduction!EmptyBag, SetToBag, Reduction!SetToBag

LEMMA StepReduces ==
  ASSUME PowerOfTwo, SumInv, NEW p \in Rank, Step(p)
  PROVE  Reduction!Enter(p) \/ Reduction!Leave(p) \/ UNCHANGED <<round, active, Result>>
<1>1. Typed /\ Orderly(p) /\ Summed(p)
  BY DEF SumInv
<1>2. CASE Post(p)
  <2>1. /\ p \notin active /\ round' = [round EXCEPT ![p] = @ + 1] /\ active' = active \cup {p}
        /\ \A q \in Rank : q # p => rcvbuff'[q] = rcvbuff[q] /\ round'[q] = round[q]
                                 /\ (q \in active' <=> q \in active)
    BY <1>1, <1>2 DEF Post, Typed
  <2>2. PICK k \in Nat : k = round[p]
    BY <1>1, MaxRoundsAssumption DEF Typed
  <2>3. round'[p] = k + 1 /\ p \in active'
    BY <1>1, <2>1, <2>2 DEF Typed
  <2>4. Result[p] = rcvbuff[p]
    BY <2>1 DEF Result
  <2>5. Result'[p] = IF k = 0 THEN EmptyBag ELSE Total(k)
    <3>1. Result'[p] = IF round'[p] = 1 THEN EmptyBag ELSE Total(round'[p] - 1)
      BY <2>3 DEF Result
    <3>2. (k + 1 = 1 <=> k = 0) /\ (k + 1) - 1 = k
      BY <2>2
    <3>3. QED
      BY <2>3, <3>1, <3>2
  <2>6. rcvbuff[p] = IF k = 0 THEN EmptyBag ELSE Total(k)
    <3>1. CASE k = 0
      BY <1>1, <2>2, <3>1 DEF Summed
    <3>2. CASE k # 0
      BY <2>1, <2>2, <3>2, OutOfRound
    <3>3. QED
      BY <3>1, <3>2
  <2>7. \A q \in Rank : Result'[q] = Result[q]
    <3>1. \A q \in Rank : q # p => Result'[q] = Result[q]
      BY <2>1 DEF Result
    <3>2. QED
      BY <2>4, <2>5, <2>6, <3>1
  <2>8. UNCHANGED Result
    <3>1. Result' = [q \in Rank |-> Result'[q]] /\ Result = [q \in Rank |-> Result[q]]
      BY DEF Result
    <3>2. QED
      BY <2>7, <3>1
  <2>9. Reduction!Enter(p)
    BY <2>1, <2>8 DEF Reduction!Enter, Result
  <2>10. QED
    BY <2>9
<1>3. CASE Wait(p)
  <2>1. /\ rcvbuff[p] = Total(round[p]) /\ \A q \in Rank : round[q] >= round[p]
    BY <1>3, WaitFacts
  <2>2. p \in active /\ active' = active \ {p} /\ round' = round /\ rcvbuff' = rcvbuff
    BY <1>3 DEF Wait
  <2>3. Result' = [Result EXCEPT ![p] = Total(round[p])]
    <3>1. \A q \in Rank : Result'[q] = IF q = p THEN Total(round[p]) ELSE Result[q]
      BY <2>1, <2>2 DEF Result
    <3>2. Result' = [q \in Rank |-> Result'[q]] /\ Result = [q \in Rank |-> Result[q]]
      BY DEF Result
    <3>3. QED
      BY <3>1, <3>2
  <2>4. Reduction!Leave(p)
    <3>1. Total(round[p]) = Reduction!Total(round[p])
      BY DEF Total, Reduction!Total, SetToBag, Reduction!SetToBag
    <3>2. QED
      BY <2>1, <2>2, <2>3, <3>1 DEF Reduction!Leave, Result
  <2>5. QED
    BY <2>4
<1>4. ASSUME NEW o, Does(p, o), \A q \in Rank : q # p => rcvbuff'[q] = rcvbuff[q]
      PROVE  UNCHANGED <<round, active, Result>>
  <2>1. p \in active /\ round' = round /\ active' = active
    BY <1>4 DEF Does
  <2>2. \A q \in Rank : Result'[q] = Result[q]
    BY <1>4, <2>1 DEF Result
  <2>3. Result' = [q \in Rank |-> Result'[q]] /\ Result = [q \in Rank |-> Result[q]]
    BY DEF Result
  <2>4. QED
    BY <2>1, <2>2, <2>3
<1>5. CASE Move(p)
  BY <1>1, <1>4, <1>5 DEF Move, Typed
<1>6. ASSUME NEW r \in Steps(p), Send(p, r) \/ Recv(p, r) \/ Comp(p, r)
      PROVE  UNCHANGED <<round, active, Result>>
  <2>1. CASE Send(p, r)
    BY <1>4, <2>1 DEF Send
  <2>2. CASE Recv(p, r)
    BY <1>4, <2>2 DEF Recv
  <2>3. CASE Comp(p, r)
    BY <1>1, <1>4, <2>3 DEF Comp, Typed
  <2>4. QED
    BY <1>6, <2>1, <2>2, <2>3
<1>7. QED
  BY <1>2, <1>3, <1>5, <1>6 DEF Step

(* The ranks together are the reduction of FFReduction: one comes out of a *)
(* round with the sum of that round, not before all have gone into it.     *)
THEOREM AllreduceRefines ==
  ASSUME PowerOfTwo
  PROVE  Spec => ReductionSpec
<1>1. SumInv /\ [Next]_vars => [Reduction!Next]_<<round, active, Result>>
  <2>1. SUFFICES ASSUME SumInv, [Next]_vars
                 PROVE  Reduction!Next \/ UNCHANGED <<round, active, Result>>
    BY DEF Result
  <2>2. CASE UNCHANGED vars
    BY <2>2 DEF vars, Result
  <2>3. CASE Ended
    BY <2>2, <2>3 DEF Ended
  <2>4. ASSUME NEW p \in Rank, Step(p)
        PROVE  Reduction!Next \/ UNCHANGED <<round, active, Result>>
    BY <2>1, <2>4, StepReduces DEF Reduction!Next
  <2>5. QED
    BY <2>1, <2>2, <2>3, <2>4 DEF Next
<1>2. QED
  BY <1>1, InitReduces, Invariance, PTL DEF Spec, ReductionSpec, Reduction!Spec, Result
=============================================================================
