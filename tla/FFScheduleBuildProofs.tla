----------------------- MODULE FFScheduleBuildProofs -----------------------
(***************************************************************************)
(* Every order of ffop_hb and ffschedule_add_op, on any number of          *)
(* operations none of which (begin_op included) is given more dependents   *)
(* than MAX_DEPS, gives a graph that begin_op feeds and end_op closes,     *)
(* with counters that agree with its edges.                                *)
(*                                                                         *)
(* The argument.  Edges go from smaller to larger operations, begin_op     *)
(* being the smallest and end_op the largest.  An operation that has been  *)
(* added has an edge in and an edge out, for ever after.  So the largest   *)
(* of a set that is closed under successors can be end_op only, and the    *)
(* smallest of one that is closed under predecessors only begin_op.        *)
(***************************************************************************)
EXTENDS FFScheduleBuild, FiniteSetTheorems, SequenceTheorems, WellFoundedInduction, TLAPS

-----------------------------------------------------------------------------
(* Sets of operations have a smallest and a largest element. *)

LEMMA MinimalSubset ==
  ASSUME NEW T, T # {}, \A S \in T : S \subseteq Op
  PROVE  \E S \in T : \A R \in T : R \subseteq S => R = S
<1>1. IsFiniteSet(Op)
  BY NAssumption, FS_Interval DEF Op
<1>2. T \subseteq FiniteSubsetsOf(Op)
  BY <1>1, FS_Subset DEF FiniteSubsetsOf
<1>3. PICK S \in T : \A R \in T : <<R, S>> \notin StrictSubsetOrdering(Op)
  BY <1>2, FS_StrictSubsetOrderingWellFounded, WFMin
<1>4. \A R \in T : R \subseteq S => R = S
  BY <1>3 DEF StrictSubsetOrdering
<1>5. QED
  BY <1>4

LEMMA SmallestOp ==
  ASSUME NEW S \in SUBSET Op, S # {}
  PROVE  \E m \in S : \A x \in S : m <= x
<1> DEFINE upto(x) == {y \in S : y <= x}
           T == {upto(x) : x \in S}
<1>1. Op \subseteq Int
  BY DEF Op
<1>2. T # {} /\ \A R \in T : R \subseteq Op
  OBVIOUS
<1>3. PICK m \in S : \A R \in T : R \subseteq upto(m) => R = upto(m)
  <2> HIDE DEF T
  <2>1. PICK R \in T : \A Q \in T : Q \subseteq R => Q = R
    BY <1>2, MinimalSubset
  <2>2. PICK m \in S : R = upto(m)
    BY DEF T
  <2>3. QED
    BY <2>1, <2>2
<1>4. ASSUME NEW x \in S, ~(m <= x) PROVE FALSE
  <2> m \in Int /\ x \in Int /\ x < m /\ S \subseteq Int
    BY <1>1, <1>4
  <2>1. upto(x) \in T
    BY <1>4
  <2>0. upto(x) \subseteq upto(m)
    <3>1. \A y \in S : y <= x => y <= m
      OBVIOUS
    <3>2. QED
      BY <3>1
  <2>2. m \in upto(m) /\ m \notin upto(x)
    BY <1>1, <1>4
  <2>3. QED
    BY <1>3, <2>0, <2>1, <2>2
<1>5. QED
  BY <1>4

LEMMA LargestOp ==
  ASSUME NEW S \in SUBSET Op, S # {}
  PROVE  \E m \in S : \A x \in S : x <= m
<1> DEFINE from(x) == {y \in S : y >= x}
           T == {from(x) : x \in S}
<1>1. Op \subseteq Int
  BY DEF Op
<1>2. T # {} /\ \A R \in T : R \subseteq Op
  OBVIOUS
<1>3. PICK m \in S : \A R \in T : R \subseteq from(m) => R = from(m)
  <2> HIDE DEF T
  <2>1. PICK R \in T : \A Q \in T : Q \subseteq R => Q = R
    BY <1>2, MinimalSubset
  <2>2. PICK m \in S : R = from(m)
    BY DEF T
  <2>3. QED
    BY <2>1, <2>2
<1>4. ASSUME NEW x \in S, ~(x <= m) PROVE FALSE
  <2> m \in Int /\ x \in Int /\ m < x /\ S \subseteq Int
    BY <1>1, <1>4
  <2>1. from(x) \in T
    BY <1>4
  <2>0. from(x) \subseteq from(m)
    <3>1. \A y \in S : y >= x => y >= m
      OBVIOUS
    <3>2. QED
      BY <3>1
  <2>2. m \in from(m) /\ m \notin from(x)
    BY <1>1, <1>4
  <2>3. QED
    BY <1>3, <2>0, <2>1, <2>2
<1>5. QED
  BY <1>4

-----------------------------------------------------------------------------
(* The edges, for any value of the record that ffop_hb works on. *)

LinkState == [dep : [Op -> Seq(Op)], out : [Op -> Nat],
              in : [Op -> Nat], left : [Op -> Nat], given : [Op -> Nat]]
Into(s, o) == {e \in UNION {{p} \X DOMAIN s.dep[p] : p \in Op} :
                 s.dep[e[1]][e[2]] = o}

Upward(s) == \A p \in Op : \A k \in 1 .. Len(s.dep[p]) : p < s.dep[p][k]
Counted(s) ==
  \A o \in Op : /\ s.out[o] = Len(s.dep[o])
                /\ IsFiniteSet(Into(s, o)) /\ s.in[o] = Cardinality(Into(s, o))
                /\ s.left[o] = s.in[o] /\ s.given[o] = s.out[o]
Good(s) == s \in LinkState /\ Upward(s) /\ Counted(s)
FitsIn(s) == \A o \in Op : s.given[o] <= MAX_DEPS
Grows(s, t) == \A o \in Op : s.in[o] <= t.in[o] /\ s.out[o] <= t.out[o]

LEMMA IntoEdges ==
  ASSUME NEW s \in LinkState, NEW o
  PROVE  \A e : e \in Into(s, o) <=> /\ e = <<e[1], e[2]>> /\ e[1] \in Op
                                     /\ e[2] \in 1 .. Len(s.dep[e[1]])
                                     /\ s.dep[e[1]][e[2]] = o
<1>1. \A p \in Op : DOMAIN s.dep[p] = 1 .. Len(s.dep[p])
  BY DEF LinkState
<1>2. QED
  BY <1>1 DEF Into

(* What ffop_hb adds to the number of dependents given, in any state. *)
LEMMA HbGiven ==
  ASSUME NEW s, s.given \in [Op -> Nat], NEW a \in Op, NEW b \in Op
  PROVE  LET g == hb(s, a, b).given
         IN  /\ g \in [Op -> Nat]
             /\ g[a] = s.given[a] + 1
             /\ g = [s.given EXCEPT ![a] = @ + 1]
             /\ \A o \in Op : s.given[o] <= g[o]
<1>1. PICK g : g = s.given
  OBVIOUS
<1>2. PICK h : h = [g EXCEPT ![a] = @ + 1]
  OBVIOUS
<1>3. hb(s, a, b).given = h
  BY <1>1, <1>2 DEF hb, store
<1>4. g \in [Op -> Nat]
  BY <1>1
<1>5. \A o \in Op : g[o] \in Nat /\ h[o] = IF o = a THEN g[o] + 1 ELSE g[o]
  BY <1>2, <1>4
<1>6. h \in [Op -> Nat] /\ h[a] = g[a] + 1 /\ \A o \in Op : g[o] <= h[o]
  BY <1>2, <1>4, <1>5
<1>7. QED
  BY <1>1, <1>2, <1>3, <1>6

LEMMA HbGood ==
  ASSUME NEW s, Good(s), NEW a \in Op, NEW b \in Op, a < b, FitsIn(hb(s, a, b))
  PROVE  LET t == hb(s, a, b)
         IN  Good(t) /\ Grows(s, t) /\ t.out[a] > 0 /\ t.in[b] > 0
<1>1. PICK t : t = hb(s, a, b)
  OBVIOUS
<1>2. PICK n \in Nat : n = Len(s.dep[a]) + 1
  BY DEF Good, LinkState
<1> DEFINE f == <<a, n>>
<1>3. s \in LinkState
  BY DEF Good
<1>0. s.given[a] < MAX_DEPS /\ s.out[a] = s.given[a] /\ s.out[a] \in Nat
  <2>1. t.given = [s.given EXCEPT ![a] = @ + 1]
    BY <1>1, <1>3, HbGiven DEF LinkState
  <2>2. t.given[a] = s.given[a] + 1 /\ t.given[a] <= MAX_DEPS
    BY <1>1, <1>3, HbGiven DEF FitsIn, LinkState
  <2>3. s.given[a] \in Nat /\ s.out[a] = s.given[a]
    BY <1>3 DEF LinkState, Good, Counted
  <2>4. QED
    BY <2>2, <2>3, DepsAssumption
<1>4. /\ t.dep = [s.dep EXCEPT ![a] = Append(@, b)]
      /\ t.out = [s.out EXCEPT ![a] = @ + 1]
      /\ t.in = [s.in EXCEPT ![b] = @ + 1]
      /\ t.left = [s.left EXCEPT ![b] = s.in[b] + 1]
      /\ t.given = [s.given EXCEPT ![a] = @ + 1]
      /\ t = [dep |-> t.dep, out |-> t.out, in |-> t.in, left |-> t.left,
              given |-> t.given]
  <2>1. PICK u : u = store(s, a, b)
    OBVIOUS
  <2>2. u = [dep |-> [s.dep EXCEPT ![a] = Append(@, b)],
             out |-> [s.out EXCEPT ![a] = @ + 1],
             in |-> [s.in EXCEPT ![a] = @], left |-> s.left,
             given |-> [s.given EXCEPT ![a] = @ + 1]]
    BY <1>0, <2>1, DepsAssumption DEF store
  <2>3. [s.in EXCEPT ![a] = @] = s.in
    BY <1>3 DEF LinkState
  <2>4. t = [u EXCEPT !.in[b] = @ + 1, !.left[b] = u.in[b] + 1]
    BY <1>1, <2>1 DEF hb
  <2>5. t = [dep |-> u.dep, out |-> u.out, in |-> [u.in EXCEPT ![b] = @ + 1],
             left |-> [u.left EXCEPT ![b] = u.in[b] + 1], given |-> u.given]
    BY <2>2, <2>4
  <2>6. QED
    BY <2>2, <2>3, <2>5
<1>5. /\ \A p \in Op : p # a => t.dep[p] = s.dep[p]
      /\ t.dep[a] \in Seq(Op) /\ Len(t.dep[a]) = n /\ t.dep[a][n] = b
      /\ \A k \in 1 .. n - 1 : t.dep[a][k] = s.dep[a][k]
  BY <1>2, <1>3, <1>4 DEF LinkState
<1>6. t \in LinkState
  <2>1. t = [dep |-> t.dep, out |-> t.out, in |-> t.in, left |-> t.left,
             given |-> t.given]
    BY <1>4
  <2>2. t.dep \in [Op -> Seq(Op)]
    BY <1>3, <1>4, <1>5 DEF LinkState
  <2>3. /\ t.out \in [Op -> Nat] /\ t.in \in [Op -> Nat]
        /\ t.left \in [Op -> Nat] /\ t.given \in [Op -> Nat]
    <3>1. /\ s.out \in [Op -> Nat] /\ s.in \in [Op -> Nat]
          /\ s.left \in [Op -> Nat] /\ s.given \in [Op -> Nat]
      BY <1>3 DEF LinkState
    <3>2. /\ t.out = [s.out EXCEPT ![a] = @ + 1]
          /\ t.in = [s.in EXCEPT ![b] = @ + 1]
          /\ t.left = [s.left EXCEPT ![b] = s.in[b] + 1]
          /\ t.given = [s.given EXCEPT ![a] = @ + 1]
      BY <1>4
    <3>3. s.in[b] + 1 \in Nat /\ s.out[a] + 1 \in Nat /\ s.given[a] + 1 \in Nat
      BY <3>1
    <3>4. QED
      BY <3>1, <3>2, <3>3
  <2>4. QED
    BY <2>1, <2>2, <2>3 DEF LinkState
<1>7. Upward(t)
  BY <1>2, <1>5 DEF Good, Upward
<1>8. \A o \in Op : o # b => Into(t, o) = Into(s, o)
  <2>1. ASSUME NEW o \in Op, o # b, NEW e
        PROVE  e \in Into(t, o) <=> e \in Into(s, o)
    <3>1. CASE e[1] = a
      BY <1>2, <1>3, <1>5, <1>6, <2>1, <3>1, IntoEdges
    <3>2. CASE e[1] # a
      BY <1>3, <1>5, <1>6, <3>2, IntoEdges
    <3>3. QED
      BY <3>1, <3>2
  <2>2. QED
    BY <2>1
<1>9. Into(t, b) = Into(s, b) \cup {f} /\ f \notin Into(s, b)
  <2>1. f \notin Into(s, b)
    BY <1>2, <1>3, IntoEdges
  <2>2. ASSUME NEW e PROVE e \in Into(t, b) <=> e \in Into(s, b) \/ e = f
    <3>1. CASE e[1] = a
      <4>1. e \in Into(t, b) <=> /\ e = <<a, e[2]>> /\ e[2] \in 1 .. n
                                 /\ t.dep[a][e[2]] = b
        BY <1>5, <1>6, <3>1, IntoEdges
      <4>2. e \in Into(s, b) <=> /\ e = <<a, e[2]>> /\ e[2] \in 1 .. n - 1
                                 /\ s.dep[a][e[2]] = b
        <5>1. n - 1 = Len(s.dep[a])
          BY <1>2, <1>3 DEF LinkState
        <5>2. QED
          BY <1>3, <3>1, <5>1, IntoEdges
      <4>3. e = f => e[2] = n
        OBVIOUS
      <4>4. \A k : k \in 1 .. n <=> k \in 1 .. n - 1 \/ k = n
        BY <1>2
      <4>5. n \notin 1 .. n - 1
        BY <1>2
      <4>6. CASE e[2] = n
        <5>1. e \in Into(t, b) <=> e = f
          BY <1>2, <1>5, <4>1, <4>6
        <5>2. e \notin Into(s, b)
          BY <4>2, <4>5, <4>6
        <5>3. QED
          BY <5>1, <5>2
      <4>7. CASE e[2] # n
        <5>1. \A k \in 1 .. n - 1 : t.dep[a][k] = s.dep[a][k]
          BY <1>5
        <5>2. QED
          BY <4>1, <4>2, <4>3, <4>4, <4>7, <5>1
      <4>8. QED
        BY <4>6, <4>7
    <3>2. CASE e[1] # a
      BY <1>3, <1>5, <1>6, <3>2, IntoEdges
    <3>3. QED
      BY <3>1, <3>2
  <2>3. QED
    BY <2>1, <2>2
<1>10. IsFiniteSet(Into(t, b)) /\ Cardinality(Into(t, b)) = s.in[b] + 1
  BY <1>9, FS_AddElement DEF Good, Counted
<1>11. Counted(t)
  <2>1. ASSUME NEW o \in Op
        PROVE  /\ t.out[o] = Len(t.dep[o])
               /\ IsFiniteSet(Into(t, o)) /\ t.in[o] = Cardinality(Into(t, o))
               /\ t.left[o] = t.in[o] /\ t.given[o] = t.out[o]
    <3>1. t.out[o] = Len(t.dep[o])
      BY <1>2, <1>3, <1>4, <1>5 DEF Good, Counted, LinkState
    <3>2. t.left[o] = t.in[o] /\ t.given[o] = t.out[o]
      BY <1>3, <1>4 DEF Good, Counted, LinkState
    <3>3. IsFiniteSet(Into(t, o)) /\ t.in[o] = Cardinality(Into(t, o))
      <4>1. CASE o = b
        BY <1>3, <1>4, <1>10, <4>1 DEF LinkState
      <4>2. CASE o # b
        BY <1>3, <1>4, <1>8, <4>2 DEF Good, Counted, LinkState
      <4>3. QED
        BY <4>1, <4>2
    <3>4. QED
      BY <3>1, <3>2, <3>3
  <2>2. QED
    BY <2>1 DEF Counted
<1>12. Grows(s, t) /\ t.out[a] > 0 /\ t.in[b] > 0
  <2>1. s.out \in [Op -> Nat] /\ s.in \in [Op -> Nat]
    BY <1>3 DEF LinkState
  <2>2. /\ t.out = [s.out EXCEPT ![a] = @ + 1]
        /\ t.in = [s.in EXCEPT ![b] = @ + 1]
    BY <1>4
  <2>3. QED
    BY <2>1, <2>2 DEF Grows
<1>13. QED
  BY <1>1, <1>6, <1>7, <1>11, <1>12 DEF Good

LEMMA LinkGiven ==
  ASSUME NEW s, s.given \in [Op -> Nat], NEW o \in UserOp
  PROVE  /\ link(s, o).given \in [Op -> Nat]
         /\ \A p \in Op : s.given[p] <= link(s, o).given[p]
<1>1. begin_op \in Op /\ o \in Op /\ end_op \in Op
  BY NAssumption DEF begin_op, end_op, Op, UserOp
<1>2. PICK b : b = IF s.in[o] = 0 THEN hb(s, begin_op, o) ELSE s
  OBVIOUS
<1>3. PICK t : t = IF b.out[o] = 0 THEN hb(b, o, end_op) ELSE b
  OBVIOUS
<1>4. t = link(s, o)
  BY <1>2, <1>3 DEF link
<1>5. b.given \in [Op -> Nat] /\ \A p \in Op : s.given[p] <= b.given[p]
  <2>1. CASE s.in[o] = 0
    BY <1>1, <1>2, <2>1, HbGiven
  <2>2. CASE s.in[o] # 0
    BY <1>2, <2>2
  <2>3. QED
    BY <2>1, <2>2
<1>6. t.given \in [Op -> Nat] /\ \A p \in Op : b.given[p] <= t.given[p]
  <2>1. CASE b.out[o] = 0
    BY <1>1, <1>3, <1>5, <2>1, HbGiven
  <2>2. CASE b.out[o] # 0
    BY <1>3, <1>5, <2>2
  <2>3. QED
    BY <2>1, <2>2
<1>7. \A p \in Op : s.given[p] <= t.given[p]
  BY <1>5, <1>6
<1>8. QED
  BY <1>4, <1>6, <1>7

(* ffschedule_add_op leaves the operation with an edge in and an edge out. *)
LEMMA LinkGood ==
  ASSUME NEW s, Good(s), NEW o \in UserOp, FitsIn(link(s, o))
  PROVE  LET t == link(s, o)
         IN  Good(t) /\ Grows(s, t) /\ t.out[o] > 0 /\ t.in[o] > 0
<1>1. /\ begin_op \in Op /\ o \in Op /\ end_op \in Op
      /\ begin_op < o /\ o < end_op
  BY NAssumption DEF begin_op, end_op, Op, UserOp
<1>2. PICK b : b = IF s.in[o] = 0 THEN hb(s, begin_op, o) ELSE s
  OBVIOUS
<1>3. PICK t : t = IF b.out[o] = 0 THEN hb(b, o, end_op) ELSE b
  OBVIOUS
<1>4. t = link(s, o)
  BY <1>2, <1>3 DEF link
<1>9. b.given \in [Op -> Nat] /\ t.given \in [Op -> Nat] /\ FitsIn(t)
      /\ \A p \in Op : b.given[p] <= t.given[p]
  <2>1. s.given \in [Op -> Nat]
    BY DEF Good, LinkState
  <2>2. b.given \in [Op -> Nat]
    BY <1>1, <1>2, <2>1, HbGiven
  <2>3. t.given \in [Op -> Nat] /\ \A p \in Op : b.given[p] <= t.given[p]
    <3>1. CASE b.out[o] = 0
      BY <1>1, <1>3, <2>2, <3>1, HbGiven
    <3>2. CASE b.out[o] # 0
      BY <1>3, <2>2, <3>2
    <3>3. QED
      BY <3>1, <3>2
  <2>4. QED
    BY <1>4, <2>2, <2>3
<1>10. FitsIn(b)
  BY <1>9, DepsAssumption DEF FitsIn
<1>5. Good(b) /\ Grows(s, b) /\ b.in[o] > 0
  <2>1. CASE s.in[o] = 0
    BY <1>1, <1>2, <1>10, <2>1, HbGood
  <2>2. CASE s.in[o] # 0
    <3>1. b = s
      BY <1>2, <2>2
    <3>2. \A p \in Op : s.in[p] \in Nat /\ s.out[p] \in Nat
      BY DEF Good, LinkState
    <3>3. Grows(s, s) /\ s.in[o] > 0
      BY <1>1, <2>2, <3>2 DEF Grows
    <3>4. QED
      BY <3>1, <3>3
  <2>3. QED
    BY <2>1, <2>2
<1>6. Good(t) /\ Grows(b, t) /\ t.out[o] > 0
  <2>1. CASE b.out[o] = 0
    BY <1>1, <1>3, <1>5, <1>9, <2>1, HbGood
  <2>2. CASE b.out[o] # 0
    <3>1. t = b
      BY <1>3, <2>2
    <3>2. \A p \in Op : b.in[p] \in Nat /\ b.out[p] \in Nat
      BY <1>5 DEF Good, LinkState
    <3>3. Grows(b, b) /\ b.out[o] > 0
      BY <1>1, <2>2, <3>2 DEF Grows
    <3>4. QED
      BY <1>5, <3>1, <3>3
  <2>3. QED
    BY <2>1, <2>2
<1>7. Grows(s, t) /\ t.in[o] > 0
  <2>1. \A p \in Op : /\ s.in[p] \in Nat /\ b.in[p] \in Nat /\ t.in[p] \in Nat
                      /\ s.out[p] \in Nat /\ b.out[p] \in Nat /\ t.out[p] \in Nat
    BY <1>5, <1>6 DEF Good, LinkState
  <2>2. QED
    BY <1>1, <1>5, <1>6, <2>1 DEF Grows
<1>8. QED
  BY <1>4, <1>6, <1>7

-----------------------------------------------------------------------------
(* The invariant: as long as the arrays suffice the edges are good ones,   *)
(* and an operation of the list has one in and one out.                    *)

Tied(o) == in_dep_count[o] > 0 /\ out_dep_count[o] > 0
BuildInv == /\ given \in [Op -> Nat]
            /\ oplist \in Seq(UserOp)
            /\ Fits => /\ Good(Links)
                       /\ \A o \in UserOp : Contains(oplist, o) => Tied(o)

LEMMA LinksFields ==
  /\ Links.dep = dependent /\ Links.out = out_dep_count
  /\ Links.in = in_dep_count /\ Links.left = dep_left /\ Links.given = given
BY DEF Links

LEMMA NewLinks ==
  ASSUME NEW s, s \in LinkState, Become(s)
  PROVE  Links' = s
<1>1. s = [dep |-> s.dep, out |-> s.out, in |-> s.in, left |-> s.left,
           given |-> s.given]
  BY DEF LinkState
<1>2. QED
  BY <1>1 DEF Become, Links

LEMMA InitBuildInv == Init => BuildInv
<1> SUFFICES ASSUME Init PROVE BuildInv
  OBVIOUS
<1>1. Links \in LinkState
  BY DEF Init, Links, LinkState
<1>2. \A o \in Op : Links.dep[o] = <<>> /\ Links.out[o] = 0 /\ Links.in[o] = 0
                    /\ Links.left[o] = 0 /\ Links.given[o] = 0
  BY DEF Init, Links
<1>3. Upward(Links)
  BY <1>2 DEF Upward
<1>4. ASSUME NEW o \in Op PROVE Into(Links, o) = {}
  <2>1. \A e : e \notin Into(Links, o)
    BY <1>1, <1>2, IntoEdges
  <2>2. QED
    BY <2>1
<1>5. Counted(Links)
  <2>1. IsFiniteSet({}) /\ Cardinality({}) = 0
    BY FS_EmptySet
  <2>2. Len(<<>>) = 0
    OBVIOUS
  <2>3. ASSUME NEW o \in Op
        PROVE  /\ Links.out[o] = Len(Links.dep[o])
               /\ IsFiniteSet(Into(Links, o))
               /\ Links.in[o] = Cardinality(Into(Links, o))
               /\ Links.left[o] = Links.in[o] /\ Links.given[o] = Links.out[o]
    BY <1>2, <1>4, <2>1, <2>2
  <2>4. QED
    BY <2>3 DEF Counted
<1>6. oplist = <<>> /\ \A o : ~Contains(oplist, o)
  BY DEF Init, Contains
<1>7. given \in [Op -> Nat]
  BY DEF Init
<1>8. QED
  BY <1>1, <1>3, <1>5, <1>6, <1>7 DEF BuildInv, Good

LEMMA StillTied ==
  ASSUME BuildInv, Fits, NEW s, Good(s), Grows(Links, s), Become(s)
  PROVE  Good(Links)' /\ \A o \in UserOp : Tied(o) => Tied(o)'
<1>1. Links' = s
  BY NewLinks DEF Good
<1>2. /\ in_dep_count \in [Op -> Nat] /\ out_dep_count \in [Op -> Nat]
      /\ s.in \in [Op -> Nat] /\ s.out \in [Op -> Nat]
  BY LinksFields DEF BuildInv, Good, LinkState
<1>3. in_dep_count' = s.in /\ out_dep_count' = s.out
  BY DEF Become
<1>4. UserOp \subseteq Op
  BY NAssumption DEF UserOp, Op
<1>5. \A o \in Op : in_dep_count[o] <= s.in[o] /\ out_dep_count[o] <= s.out[o]
  BY LinksFields DEF Grows
<1>6. \A o \in UserOp : Tied(o) => Tied(o)'
  BY <1>2, <1>3, <1>4, <1>5 DEF Tied
<1>7. Good(Links)'
  BY <1>1
<1>8. QED
  BY <1>6, <1>7

LEMMA NextBuildInv == BuildInv /\ [Next]_vars => BuildInv'
<1> SUFFICES ASSUME BuildInv, [Next]_vars PROVE BuildInv'
  OBVIOUS
<1>1. UserOp \subseteq Op /\ UserOp \subseteq Int
  BY NAssumption DEF UserOp, Op
<1>0. Links.given = given /\ given \in [Op -> Nat]
  BY LinksFields DEF BuildInv
<1>2. ASSUME NEW a \in UserOp, NEW b \in UserOp, Hb(a, b) PROVE BuildInv'
  <2>1. PICK s : s = hb(Links, a, b)
    OBVIOUS
  <2>2. Become(s) /\ oplist' = oplist /\ a < b
    BY <1>2, <2>1 DEF Hb
  <2>3. given' \in [Op -> Nat] /\ given' = s.given
        /\ \A o \in Op : given[o] <= given'[o]
    BY <1>0, <1>1, <2>1, <2>2, HbGiven DEF Become
  <2>4. ASSUME Fits'
        PROVE  Good(Links)' /\ \A o \in UserOp : Contains(oplist', o) => Tied(o)'
    <3>1. Fits /\ FitsIn(s)
      BY <1>0, <2>3, <2>4, DepsAssumption DEF Fits, FitsIn
    <3>2. Good(s) /\ Grows(Links, s)
      BY <1>1, <2>1, <2>2, <3>1, HbGood DEF BuildInv
    <3>3. QED
      BY <2>2, <3>1, <3>2, StillTied DEF BuildInv
  <2>5. QED
    BY <2>2, <2>3, <2>4 DEF BuildInv
<1>3. ASSUME NEW o \in UserOp, AddOp(o) PROVE BuildInv'
  <2>1. PICK s : s = link(Links, o)
    OBVIOUS
  <2>2. Become(s) /\ oplist' = <<o>> \o oplist /\ oplist \in Seq(UserOp)
    BY <1>3, <2>1 DEF AddOp, BuildInv
  <2>3. given' \in [Op -> Nat] /\ given' = s.given
        /\ \A p \in Op : given[p] <= given'[p]
    BY <1>0, <2>1, <2>2, LinkGiven DEF Become
  <2>4. oplist' \in Seq(UserOp)
    BY <1>3, <2>2
  <2>5. ASSUME NEW p \in UserOp, Contains(oplist', p) PROVE p = o \/ Contains(oplist, p)
    <3>1. PICK k \in 1 .. Len(oplist) + 1 : (<<o>> \o oplist)[k] = p
      BY <2>2, <2>5 DEF Contains
    <3>2. CASE k = 1
      BY <2>2, <3>1, <3>2
    <3>3. CASE k # 1
      BY <2>2, <3>1, <3>3 DEF Contains
    <3>4. QED
      BY <3>2, <3>3
  <2>6. ASSUME Fits'
        PROVE  Good(Links)' /\ \A p \in UserOp : Contains(oplist', p) => Tied(p)'
    <3>1. Fits /\ FitsIn(s)
      BY <1>0, <2>3, <2>6, DepsAssumption DEF Fits, FitsIn
    <3>2. Good(s) /\ Grows(Links, s) /\ s.in[o] > 0 /\ s.out[o] > 0
      BY <2>1, <3>1, LinkGood DEF BuildInv
    <3>3. Good(Links)' /\ \A p \in UserOp : Tied(p) => Tied(p)'
      BY <2>2, <3>1, <3>2, StillTied
    <3>4. Tied(o)'
      BY <2>2, <3>2 DEF Become, Tied
    <3>5. ASSUME NEW p \in UserOp, Contains(oplist', p) PROVE Tied(p)'
      BY <2>5, <3>1, <3>3, <3>4, <3>5 DEF BuildInv
    <3>6. QED
      BY <3>3, <3>5
  <2>7. QED
    BY <2>3, <2>4, <2>6 DEF BuildInv
<1>4. CASE UNCHANGED vars
  <2>1. /\ Links' = Links /\ oplist' = oplist /\ given' = given
        /\ in_dep_count' = in_dep_count /\ out_dep_count' = out_dep_count
    BY <1>4 DEF vars, Links
  <2>2. Fits' = Fits
    BY <2>1 DEF Fits
  <2>3. Fits => Good(Links)'
    BY <2>1 DEF BuildInv
  <2>4. QED
    BY <2>1, <2>2, <2>3 DEF BuildInv, Tied
<1>5. QED
  BY <1>2, <1>3, <1>4 DEF Next, Built

(* The edges are good ones at every step of the construction. *)
THEOREM BuildInvariant == Spec => []BuildInv
BY InitBuildInv, NextBuildInv, PTL DEF Spec

-----------------------------------------------------------------------------
(* What the invariant says of the edges. *)

LEMMA Edges ==
  ASSUME BuildInv, Fits
  PROVE  /\ \A p \in Op : \A x \in Succ(p) : x \in Op /\ p < x
         /\ \A p \in Op : out_dep_count[p] > 0 <=> Succ(p) # {}
         /\ \A o \in Op : in_dep_count[o] > 0 <=> \E p \in Op : o \in Succ(p)
<1>1. /\ Links \in LinkState /\ Upward(Links) /\ Counted(Links)
      /\ dependent \in [Op -> Seq(Op)]
      /\ in_dep_count \in [Op -> Nat] /\ out_dep_count \in [Op -> Nat]
  BY LinksFields DEF BuildInv, Good, LinkState
<1>2. \A p \in Op : \A x : x \in Succ(p) <=>
                             \E k \in 1 .. Len(dependent[p]) : dependent[p][k] = x
  <2>1. ASSUME NEW p \in Op PROVE DOMAIN dependent[p] = 1 .. Len(dependent[p])
    BY <1>1
  <2>2. QED
    BY <2>1 DEF Succ, ToSet
<1>3. ASSUME NEW p \in Op, NEW x \in Succ(p) PROVE x \in Op /\ p < x
  <2>1. PICK k \in 1 .. Len(dependent[p]) : dependent[p][k] = x
    BY <1>2, <1>3
  <2>2. p < x
    BY <1>1, <2>1, LinksFields DEF Upward
  <2>3. dependent[p] \in Seq(Op)
    BY <1>1
  <2>4. x \in Op
    BY <2>1, <2>3
  <2>5. QED
    BY <2>2, <2>4
<1>4. ASSUME NEW p \in Op PROVE out_dep_count[p] > 0 <=> Succ(p) # {}
  <2>1. out_dep_count[p] = Len(dependent[p])
    BY <1>1, LinksFields DEF Counted
  <2>2. Len(dependent[p]) \in Nat
    BY <1>1
  <2>3. Len(dependent[p]) > 0 <=> \E k : k \in 1 .. Len(dependent[p])
    <3>1. Len(dependent[p]) > 0 => 1 \in 1 .. Len(dependent[p])
      BY <2>2
    <3>2. QED
      BY <2>2, <3>1
  <2>4. QED
    BY <1>2, <2>1, <2>3
<1>5. ASSUME NEW o \in Op PROVE in_dep_count[o] > 0 <=> \E p \in Op : o \in Succ(p)
  <2>1. IsFiniteSet(Into(Links, o)) /\ in_dep_count[o] = Cardinality(Into(Links, o))
    BY <1>1, LinksFields DEF Counted
  <2>2. in_dep_count[o] > 0 <=> Into(Links, o) # {}
    BY <1>1, <2>1, FS_EmptySet
  <2>3. ASSUME NEW e, e \in Into(Links, o) PROVE \E p \in Op : o \in Succ(p)
    <3>1. e[1] \in Op /\ e[2] \in 1 .. Len(Links.dep[e[1]]) /\ Links.dep[e[1]][e[2]] = o
      BY <1>1, <2>3, IntoEdges
    <3>2. o \in Succ(e[1])
      BY <1>2, <3>1, LinksFields
    <3>3. QED
      BY <3>1, <3>2
  <2>4. ASSUME NEW p \in Op, o \in Succ(p) PROVE Into(Links, o) # {}
    <3>1. PICK k \in 1 .. Len(dependent[p]) : dependent[p][k] = o
      BY <1>2, <2>4
    <3>2. <<p, k>> \in Into(Links, o)
      BY <1>1, <3>1, IntoEdges, LinksFields
    <3>3. QED
      BY <3>2
  <2>5. QED
    BY <2>2, <2>3, <2>4
<1>6. QED
  BY <1>3, <1>4, <1>5

LEMMA OpOrder ==
  /\ Op \subseteq Int /\ UserOp \subseteq Op /\ begin_op \in Op /\ end_op \in Op
  /\ \A o \in Op : begin_op <= o /\ o <= end_op
  /\ \A o \in Op : o \in UserOp \/ o = begin_op \/ o = end_op
  /\ \A o \in UserOp : begin_op < o /\ o < end_op
BY NAssumption DEF Op, UserOp, begin_op, end_op

(* When all that is used has been added, every used operation of the       *)
(* application has an edge in and an edge out, and there is one.           *)
LEMMA UsedTied ==
  ASSUME BuildInv, Fits, Complete
  PROVE  /\ Used \subseteq Op
         /\ \A o \in Used \cap UserOp : Succ(o) # {} /\ \E p \in Op : o \in Succ(p)
         /\ \A p \in Op : \A x \in Succ(p) : p \in Used /\ x \in Used
         /\ Used \cap UserOp # {}
<1>1. Used \subseteq Op
  BY OpOrder DEF Used
<1>2. ASSUME NEW o \in UserOp, Contains(oplist, o)
      PROVE  /\ o \in Used
             /\ Succ(o) # {} /\ \E p \in Op : o \in Succ(p)
  <2>1. in_dep_count[o] > 0 /\ out_dep_count[o] > 0 /\ o \in Op
    BY <1>2, OpOrder DEF BuildInv, Tied
  <2>2. QED
    BY <2>1, Edges DEF Used, Uses
<1>3. \A o \in Used \cap UserOp : Contains(oplist, o)
  BY OpOrder DEF Used, Complete
<1>4. ASSUME NEW p \in Op, NEW x \in Succ(p) PROVE p \in Used /\ x \in Used
  <2>1. x \in Op /\ out_dep_count[p] > 0 /\ in_dep_count[x] > 0
    BY Edges, <1>4
  <2>2. QED
    BY <2>1, OpOrder DEF Used, Uses
<1>5. Used \cap UserOp # {}
  <2>1. 1 \in 1 .. Len(oplist) /\ oplist[1] \in UserOp
    BY DEF Complete, BuildInv
  <2>2. Contains(oplist, oplist[1])
    BY <2>1 DEF Contains
  <2>3. QED
    BY <1>2, <2>1, <2>2
<1>6. QED
  BY <1>1, <1>2, <1>3, <1>4, <1>5

(* The smallest used operation can only come after begin_op, the largest   *)
(* one only before end_op.                                                 *)
LEMMA EndsLinked ==
  ASSUME BuildInv, Fits, Complete
  PROVE  Succ(begin_op) # {} /\ \E u \in Used : end_op \in Succ(u)
<1>1. Used \cap UserOp # {} /\ Used \cap UserOp \in SUBSET Op
  BY UsedTied, OpOrder
<1>2. PICK m \in Used \cap UserOp : \A x \in Used \cap UserOp : m <= x
  BY <1>1, SmallestOp
<1>3. PICK p \in Op : m \in Succ(p)
  BY <1>2, UsedTied
<1>4. p \in Used /\ p < m
  BY <1>3, Edges, UsedTied
<1>5. p \notin UserOp
  BY <1>2, <1>4, OpOrder
<1>6. p # end_op
  BY <1>2, <1>4, OpOrder
<1>7. Succ(begin_op) # {}
  BY <1>3, <1>5, <1>6, OpOrder
<1>8. PICK u \in Used \cap UserOp : \A x \in Used \cap UserOp : x <= u
  BY <1>1, LargestOp
<1>9. PICK x : x \in Succ(u)
  BY <1>8, UsedTied
<1>10. u \in Op /\ x \in Op /\ x \in Used /\ u < x
  BY <1>8, <1>9, Edges, UsedTied
<1>11. x \notin UserOp
  BY <1>8, <1>10, OpOrder
<1>12. x # begin_op
  BY <1>8, <1>10, OpOrder
<1>13. x = end_op
  BY <1>10, <1>11, <1>12, OpOrder
<1>14. QED
  BY <1>7, <1>8, <1>9, <1>13

-----------------------------------------------------------------------------
(* ffop_hb (ffop.c) and ffschedule_add_op (ffschedule.c): after any calls  *)
(* that give no operation more than MAX_DEPS dependents, the counters that *)
(* the engine counts down agree with the stored edges.                     *)
THEOREM CountersAgree == Spec => []CountsAgree
<1>1. BuildInv => CountsAgree
  <2> SUFFICES ASSUME BuildInv, Fits
               PROVE  \A o \in Op :
                 /\ out_dep_count[o] = Len(dependent[o])
                 /\ in_dep_count[o] =
                      Cardinality({e \in Entries : dependent[e[1]][e[2]] = o})
                 /\ dep_left[o] = in_dep_count[o]
    BY DEF CountsAgree
  <2>1. Counted(Links)
    BY DEF BuildInv, Good
  <2>2. \A o : Into(Links, o) = {e \in Entries : dependent[e[1]][e[2]] = o}
    BY LinksFields DEF Into, Entries
  <2>3. QED
    BY <2>1, <2>2, LinksFields DEF Counted
<1>2. QED
  BY <1>1, BuildInvariant, PTL

(* ffschedule_add_op: end_op can be reached from every operation in use,   *)
(* whatever the order in which edges and operations were added, as long as *)
(* no array of dependents overflows.                                       *)
THEOREM EndReached == Spec => []LeadsToEnd
<1>1. BuildInv => LeadsToEnd
  <2> SUFFICES ASSUME BuildInv, Fits, Complete
               PROVE  /\ \A o \in Used : begin_op \notin Succ(o)
                      /\ dependent[end_op] = <<>>
                      /\ \A S \in SUBSET Used :
                            S # {} /\ (\A o \in S : Succ(o) \subseteq S) => end_op \in S
    BY DEF LeadsToEnd
  <2>1. \A o \in Used : begin_op \notin Succ(o)
    <3>1. ASSUME NEW o \in Used, begin_op \in Succ(o) PROVE FALSE
      <4>1. o \in Op /\ o < begin_op
        BY <3>1, UsedTied, Edges
      <4>2. QED
        BY <4>1, OpOrder DEF begin_op
    <3>2. QED
      BY <3>1
  <2>2. dependent[end_op] = <<>>
    <3>1. dependent[end_op] \in Seq(Op)
      BY OpOrder, LinksFields DEF BuildInv, Good, LinkState
    <3>2. Succ(end_op) = {}
      <4>1. ASSUME NEW x \in Succ(end_op) PROVE FALSE
        <5>1. x \in Op /\ end_op < x
          BY <4>1, OpOrder, Edges
        <5>2. QED
          BY <5>1, OpOrder
      <4>2. QED
        BY <4>1
    <3>3. Len(dependent[end_op]) = 0
      <4>1. \A k \in 1 .. Len(dependent[end_op]) : dependent[end_op][k] \in Succ(end_op)
        BY <3>1 DEF Succ, ToSet
      <4>2. QED
        BY <3>1, <3>2, <4>1
    <3>4. QED
      BY <3>1, <3>3
  <2>3. ASSUME NEW S \in SUBSET Used, S # {}, \A o \in S : Succ(o) \subseteq S
        PROVE  end_op \in S
    <3>1. S \in SUBSET Op
      BY UsedTied
    <3>2. PICK m \in S : \A x \in S : x <= m
      BY <2>3, <3>1, LargestOp
    <3>3. Succ(m) = {}
      <4>1. ASSUME NEW x \in Succ(m) PROVE FALSE
        <5>1. m \in Op /\ x \in Op /\ m < x /\ x <= m
          BY <2>3, <3>1, <3>2, <4>1, Edges
        <5>2. QED
          BY <5>1, OpOrder
      <4>2. QED
        BY <4>1
    <3>4. m \notin UserOp /\ m # begin_op
      BY <3>3, UsedTied, EndsLinked
    <3>5. QED
      BY <3>1, <3>4, OpOrder
  <2>4. QED
    BY <2>1, <2>2, <2>3
<1>2. QED
  BY <1>1, BuildInvariant, PTL

(* ffschedule_add_op: and every operation in use waits only for what the   *)
(* posting of begin_op leads to.                                           *)
THEOREM BeginReaches == Spec => []FedByBegin
<1>1. BuildInv => FedByBegin
  <2> SUFFICES ASSUME BuildInv, Fits, Complete, NEW S \in SUBSET Used, S # {},
                      \A p \in Used : Succ(p) \cap S # {} => p \in S
               PROVE  begin_op \in S
    BY DEF FedByBegin
  <2>1. S \in SUBSET Op
    BY UsedTied
  <2>2. PICK m \in S : \A x \in S : m <= x
    BY <2>1, SmallestOp
  <2>3. ASSUME NEW p \in Op, m \in Succ(p) PROVE FALSE
    <3>1. p \in S
      BY <2>2, <2>3, UsedTied
    <3>2. p < m /\ m <= p /\ m \in Op
      BY <2>1, <2>2, <2>3, <3>1, Edges
    <3>3. QED
      BY <2>3, <3>2, OpOrder
  <2>4. m \notin UserOp
    BY <2>2, <2>3, UsedTied
  <2>5. m # end_op
    BY <2>3, EndsLinked, UsedTied
  <2>6. QED
    BY <2>1, <2>4, <2>5, OpOrder
<1>2. QED
  BY <1>1, BuildInvariant, PTL
=============================================================================
