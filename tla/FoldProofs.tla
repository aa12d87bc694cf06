----------------------------- MODULE FoldProofs -----------------------------
(***************************************************************************)
(* Loops of the code over a list are folds in the models: FoldLeft applies *)
(* an operation Op to each element in turn.  A module that uses such a     *)
(* fold instantiates this one with its operation, and gets the values the  *)
(* loop passes through as a function of the number of rounds.              *)
(*                                                                         *)
(* FoldLeft is defined by recursion on sets of positions, so the function  *)
(* behind it is shown to exist by induction on their cardinality, and the  *)
(* induction is an argument about the least number that has no such        *)
(* function.                                                               *)
(***************************************************************************)
EXTENDS SequencesExt, FiniteSetTheorems, WellFoundedInduction, TLAPS

CONSTANT Op(_, _, _)  \* the operation: what the loop keeps fixed, what there is so
                      \* far, and the next element

\* The loop over a list
Folded(p, base, order) == FoldLeft(LAMBDA s, e : Op(p, s, e), base, order)

\* g[k] is what there is after k rounds of n.
Rounds(g, p, n, base, order) ==
  /\ g[0] = base
  /\ \A k \in 1..n : g[k] = Op(p, g[k - 1], order[k])
  /\ Folded(p, base, order) = g[n]

\* Sets of natural numbers have a least element.
LEMMA LeastNat ==
  ASSUME NEW T \in SUBSET Nat, T # {}
  PROVE  \E n \in T : \A m \in T : ~(m < n)
<1>1. PICK n \in T : \A m \in T : ~(<<m, n>> \in OpToRel(<, Nat))
  BY NatLessThanWellFounded, WFMin
<1> QED
  BY <1>1 DEF OpToRel

\* Sets of positions have a last one.
LEMMA LastPosition ==
  ASSUME NEW n \in Nat, NEW T \in SUBSET (1..n), T # {}
  PROVE  Max(T) \in T /\ \A y \in T : Max(T) >= y
<1> DEFINE Bounds == {m \in Nat : \A y \in T : y <= m}
<1>1. n \in Bounds
  OBVIOUS
<1>2. PICK m \in Bounds : \A k \in Bounds : ~(k < m)
  BY <1>1, LeastNat
<1>3. m \in T
  <2> SUFFICES ASSUME m \notin T PROVE FALSE
    OBVIOUS
  <2>1. \A y \in T : y <= m - 1
    BY <1>2
  <2>2. m - 1 \in Nat
    <3>1. PICK y \in T : y \in 1..n
      OBVIOUS
    <3> QED
      BY <1>2, <2>1, <3>1
  <2>3. m - 1 \in Bounds
    BY <2>1, <2>2
  <2> QED
    BY <1>2, <2>3
<1>4. \E x \in T : \A y \in T : x >= y
  BY <1>2, <1>3
<1> QED
  BY <1>4, Zenon DEF Max

-----------------------------------------------------------------------------
(* Recursion on finite sets.  c[T] is the element taken from T, v[x] what  *)
(* the operation is given for x.                                           *)

Rec(g, T, c, v, p, base) == IF T = {} THEN base ELSE Op(p, g[T \ {c[T]}], v[c[T]])

IsRecursion(g, S, c, v, p, base) == g = [T \in SUBSET S |-> Rec(g, T, c, v, p, base)]

LEMMA RecursionExists ==
  ASSUME NEW S, IsFiniteSet(S), NEW c, \A T \in SUBSET S : T # {} => c[T] \in T, NEW v, NEW p, NEW base
  PROVE  \E g : IsRecursion(g, S, c, v, p, base)
<1> DEFINE Sub(k) == {T \in SUBSET S : Cardinality(T) <= k}
           R(g, T) == Rec(g, T, c, v, p, base)
           Has(k) == \E g : g = [T \in Sub(k) |-> R(g, T)]
<1>1. ASSUME NEW T \in SUBSET S
      PROVE  IsFiniteSet(T) /\ Cardinality(T) \in Nat /\ Cardinality(T) <= Cardinality(S)
  BY FS_Subset, FS_CardinalityType
<1>2. ASSUME NEW T \in SUBSET S, T # {}
      PROVE  T \ {c[T]} \in SUBSET S /\ Cardinality(T \ {c[T]}) = Cardinality(T) - 1
  BY <1>1, <1>2, FS_RemoveElement
<1>3. \A k \in Nat : Has(k)
  <2> DEFINE Bad == {k \in Nat : ~Has(k)}
  <2> SUFFICES ASSUME Bad # {} PROVE FALSE
    OBVIOUS
  <2>1. PICK k \in Bad : \A m \in Bad : ~(m < k)
    BY LeastNat
  <2>2. k # 0
    <3>1. Has(0)
      <4> DEFINE g == [T \in Sub(0) |-> base]
      <4>1. \A T \in Sub(0) : T = {}
        BY <1>1, FS_EmptySet
      <4>2. g = [T \in Sub(0) |-> R(g, T)]
        BY <4>1, Zenon DEF Rec
      <4> QED
        BY <4>2
    <3> HIDE DEF Has
    <3> QED
      BY <2>1, <3>1
  <2>3. k - 1 \in Nat /\ k - 1 < k
    BY <2>1, <2>2
  <2>4. PICK g : g = [T \in Sub(k - 1) |-> R(g, T)]
    <3>1. k - 1 \notin Bad
      BY <2>1, <2>3
    <3> HIDE DEF Has
    <3>2. Has(k - 1)
      BY <2>3, <3>1
    <3> QED
      BY <3>2 DEF Has
  <2> DEFINE h == [T \in Sub(k) |-> R(g, T)]
  <2>5. ASSUME NEW T \in Sub(k), T # {}
        PROVE  T \ {c[T]} \in Sub(k - 1) /\ T \ {c[T]} \in Sub(k)
    <3>1. T \in SUBSET S /\ Cardinality(T) <= k
      BY <2>5
    <3>2. Cardinality(T) \in Nat
      BY <1>1, <3>1
    <3>3. T \ {c[T]} \in SUBSET S /\ Cardinality(T \ {c[T]}) = Cardinality(T) - 1
      BY <1>2, <2>5, <3>1
    <3>4. Cardinality(T) - 1 <= k - 1 /\ Cardinality(T) - 1 <= k
      BY <2>1, <3>1, <3>2
    <3> QED
      BY <3>3, <3>4
  <2>6. \A T \in Sub(k - 1) : T \in Sub(k)
    BY <1>1, <2>1
  <2>7. \A T \in Sub(k) : R(g, T) = R(h, T)
    <3> TAKE T \in Sub(k)
    <3>1. CASE T = {}
      BY <3>1 DEF Rec
    <3>2. CASE T # {}
      <4>1. T \ {c[T]} \in Sub(k - 1) /\ T \ {c[T]} \in Sub(k)
        BY <2>5, <3>2
      <4> HIDE DEF R, Sub
      <4>2. g[T \ {c[T]}] = h[T \ {c[T]}]
        BY <2>4, <4>1
      <4> QED
        BY <3>2, <4>2 DEF R, Rec
    <3> QED
      BY <3>1, <3>2
  <2> HIDE DEF R, Sub
  <2>8. h = [T \in Sub(k) |-> R(h, T)]
    BY <2>7
  <2>9. Has(k)
    BY <2>8
  <2> QED
    BY <2>1, <2>9
<1>4. Cardinality(S) \in Nat /\ Sub(Cardinality(S)) = SUBSET S
  BY <1>1, FS_CardinalityType
<1>5. PICK g : g = [T \in Sub(Cardinality(S)) |-> R(g, T)]
  BY <1>3, <1>4
<1>6. IsRecursion(g, S, c, v, p, base)
  BY <1>4, <1>5 DEF IsRecursion
<1> QED
  BY <1>6

\* The values a loop passes through, and its result.
LEMMA FoldTrace ==
  ASSUME NEW n \in Nat, NEW order, DOMAIN order = 1..n, NEW p, NEW base
  PROVE  \E g : Rounds(g, p, n, base, order)
<1> DEFINE R(g, T) == IF T = {} THEN base ELSE Op(p, g[T \ {Max(T)}], order[Max(T)])
           iter == CHOOSE g : g = [T \in SUBSET (1..n) |-> R(g, T)]
<1>4. iter = [T \in SUBSET (1..n) |-> R(iter, T)]
  <2>1. IsFiniteSet(1..n)
    BY FS_Interval
  <2> DEFINE c == [T \in SUBSET (1..n) |-> Max(T)]
  <2>2. \A T \in SUBSET (1..n) : c[T] = Max(T) /\ (T # {} => c[T] \in T)
    BY LastPosition
  <2> HIDE DEF c
  <2>3. PICK g : g = [T \in SUBSET (1..n) |-> Rec(g, T, c, order, p, base)]
    <3>1. PICK D : D = 1..n
      OBVIOUS
    <3>2. IsFiniteSet(D) /\ \A T \in SUBSET D : T # {} => c[T] \in T
      BY <2>1, <2>2, <3>1
    <3>3. \E g : IsRecursion(g, D, c, order, p, base)
      BY <3>2, RecursionExists
    <3> QED
      BY <3>1, <3>3 DEF IsRecursion
  <2>4. \A T \in SUBSET (1..n) : Rec(g, T, c, order, p, base) = R(g, T)
    BY <2>2 DEF Rec
  <2> HIDE DEF R
  <2>5. \E f : f = [T \in SUBSET (1..n) |-> R(f, T)]
    BY <2>3, <2>4
  <2> QED
    BY <2>5
<1>5. Folded(p, base, order) = iter[1..n]
  BY DEF Folded, FoldLeft, MapThenFoldSet
<1> HIDE DEF iter
<1>6. iter[1..0] = base
  <2>1. 1..0 = {} /\ 1..0 \in SUBSET (1..n)
    OBVIOUS
  <2> QED
    BY <1>4, <2>1
<1>7. ASSUME NEW k \in 1..n
      PROVE  iter[1..k] = Op(p, iter[1..(k - 1)], order[k])
  <2>0. k \in 1..k /\ 1..k \in SUBSET (1..n)
    OBVIOUS
  <2>1. 1..k \in SUBSET (1..n) /\ k \in 1..k /\ 1..k # {}
    BY <2>0
  <2>2. Max(1..k) = k
    <3>1. Max(1..k) \in 1..k /\ Max(1..k) >= k
      BY <2>1, LastPosition
    <3> QED
      BY <3>1
  <2>3. (1..k) \ {k} = 1..(k - 1)
    OBVIOUS
  <2> QED
    BY <1>4, <2>1, <2>2, <2>3
<1> DEFINE g == [k \in 0..n |-> iter[1..k]]
<1>8. g[0] = base /\ g[n] = iter[1..n]
  BY <1>6
<1>9. \A k \in 1..n : g[k] = Op(p, g[k - 1], order[k])
  <2> TAKE k \in 1..n
  <2>1. k \in 0..n /\ k - 1 \in 0..n
    OBVIOUS
  <2> QED
    BY <1>7, <2>1
<1> HIDE DEF g
<1>10. Rounds(g, p, n, base, order)
  BY <1>5, <1>8, <1>9 DEF Rounds
<1> QED
  BY <1>10

\* What every round keeps, the loop keeps.
LEMMA FoldKeeps ==
  ASSUME NEW n \in Nat, NEW order, DOMAIN order = 1..n, NEW p,
         NEW G, NEW base \in G,
         \A s \in G : \A i \in 1..n : Op(p, s, order[i]) \in G
  PROVE  Folded(p, base, order) \in G
<1> PICK g : Rounds(g, p, n, base, order)
  BY FoldTrace
<1> DEFINE Bad == {k \in 0..n : g[k] \notin G}
<1> SUFFICES ASSUME Bad # {} PROVE FALSE
  BY DEF Rounds
<1>0. Bad \in SUBSET Nat
  OBVIOUS
<1>1. PICK k \in Bad : \A m \in Bad : ~(m < k)
  BY <1>0, LeastNat
<1>2. k \in 1..n /\ k - 1 \in 0..n /\ k - 1 < k
  BY <1>1 DEF Rounds
<1>3. g[k - 1] \in G
  BY <1>1, <1>2
<1> QED
  BY <1>1, <1>2, <1>3 DEF Rounds

\* The same where what is kept depends on the rounds: G[k] is where the loop is after k.
LEMMA FoldKeepsEach ==
  ASSUME NEW n \in Nat, NEW order, DOMAIN order = 1..n, NEW p, NEW G, NEW base \in G[0],
         \A k \in 1..n : \A s \in G[k - 1] : Op(p, s, order[k]) \in G[k]
  PROVE  Folded(p, base, order) \in G[n]
<1> PICK g : Rounds(g, p, n, base, order)
  BY FoldTrace
<1> DEFINE Bad == {k \in 0..n : g[k] \notin G[k]}
<1> SUFFICES ASSUME Bad # {} PROVE FALSE
  BY DEF Rounds
<1>0. Bad \in SUBSET Nat
  OBVIOUS
<1>1. PICK k \in Bad : \A m \in Bad : ~(m < k)
  BY <1>0, LeastNat
<1>2. k \in 1..n /\ k - 1 \in 0..n /\ k - 1 < k
  BY <1>1 DEF Rounds
<1>3. g[k - 1] \in G[k - 1]
  BY <1>1, <1>2
<1> QED
  BY <1>1, <1>2, <1>3 DEF Rounds

\* The loop over a set, in any order
FoldedSet(p, base, S) == FoldSet(LAMBDA e, s : Op(p, s, e), base, S)

\* What every round keeps: G[T] is where the loop is after the elements of T.
SetKept(G, S, p, base) ==
  /\ base \in G[{}]
  /\ \A T \in SUBSET S : \A e \in S \ T : \A s \in G[T] : Op(p, s, e) \in G[T \cup {e}]

\* The loop over a set keeps it.
LEMMA FoldSetKeeps ==
  ASSUME NEW S, IsFiniteSet(S), NEW p, NEW G, NEW base, SetKept(G, S, p, base)
  PROVE  FoldedSet(p, base, S) \in G[S]
<1>0. /\ base \in G[{}]
      /\ \A T \in SUBSET S : \A e \in S \ T : \A s \in G[T] : Op(p, s, e) \in G[T \cup {e}]
  BY DEF SetKept
<1> DEFINE R(g, T) == IF T = {} THEN base
                      ELSE Op(p, g[T \ {CHOOSE x \in T : TRUE}], CHOOSE x \in T : TRUE)
           iter == CHOOSE g : g = [T \in SUBSET S |-> R(g, T)]
<1>1. iter = [T \in SUBSET S |-> R(iter, T)]
  <2> DEFINE c == [T \in SUBSET S |-> CHOOSE x \in T : TRUE]
             v == [x \in S |-> x]
  <2>1. \A T \in SUBSET S : c[T] = CHOOSE x \in T : TRUE
    OBVIOUS
  <2> HIDE DEF c
  <2>2. \A T \in SUBSET S : T # {} => c[T] \in T
    BY <2>1
  <2>3. \A x \in S : v[x] = x
    OBVIOUS
  <2> HIDE DEF v
  <2>4. PICK g : g = [T \in SUBSET S |-> Rec(g, T, c, v, p, base)]
    <3>1. \E g : IsRecursion(g, S, c, v, p, base)
      BY <2>2, RecursionExists
    <3> QED
      BY <3>1 DEF IsRecursion
  <2>5. \A T \in SUBSET S : Rec(g, T, c, v, p, base) = R(g, T)
    BY <2>1, <2>2, <2>3 DEF Rec
  <2> HIDE DEF R
  <2>6. \E f : f = [T \in SUBSET S |-> R(f, T)]
    BY <2>4, <2>5
  <2> QED
    BY <2>6
<1>2. FoldedSet(p, base, S) = iter[S]
  BY DEF FoldedSet, FoldSet, MapThenFoldSet
<1> HIDE DEF iter
<1> DEFINE Wrong(k) == \E T \in SUBSET S : Cardinality(T) = k /\ iter[T] \notin G[T]
           Bad == {k \in Nat : Wrong(k)}
<1>3. \A T \in SUBSET S : IsFiniteSet(T) /\ Cardinality(T) \in Nat
  BY FS_Subset, FS_CardinalityType
<1>4. Bad = {}
  <2> SUFFICES ASSUME Bad # {} PROVE FALSE
    OBVIOUS
  <2>1. PICK k \in Bad : \A m \in Bad : ~(m < k)
    BY LeastNat
  <2>2. PICK T \in SUBSET S : Cardinality(T) = k /\ iter[T] \notin G[T]
    BY <2>1
  <2>3. T # {}
    BY <1>0, <1>1, <2>2
  <2>4. PICK x \in T : x = CHOOSE y \in T : TRUE
    BY <2>3
  <2>5. T \ {x} \in SUBSET S /\ Cardinality(T \ {x}) = k - 1
    BY <1>3, <2>2, FS_RemoveElement
  <2>6. k - 1 \in Nat /\ k - 1 < k
    BY <1>3, <2>1, <2>5
  <2>7. iter[T \ {x}] \in G[T \ {x}]
    BY <2>1, <2>5, <2>6
  <2>8. iter[T] = Op(p, iter[T \ {x}], x)
    BY <1>1, <2>3, <2>4
  <2>9. PICK U \in SUBSET S : U = T \ {x} /\ U \cup {x} = T /\ x \in S \ U
    BY <2>4, <2>5
  <2>10. Op(p, iter[U], x) \in G[U \cup {x}]
    BY <1>0, <2>7, <2>9
  <2> QED
    BY <2>2, <2>8, <2>9, <2>10
<1>5. iter[S] \in G[S]
  BY <1>3, <1>4
<1> QED
  BY <1>2, <1>5

-----------------------------------------------------------------------------
(* Loops that drop the members of a set p from a list.                     *)

\* The l first of s are the n first of order without the members of p: h[j] is the place
\* in order of the j-th.
SiftedTo(l, s, p, n, order) ==
  \E h \in [1..l -> 1..n] :
    /\ \A j \in 1..l : s[j] = order[h[j]] /\ s[j] \notin p
    /\ \A j, k \in 1..l : j < k => h[j] < h[k]
    /\ \A i \in 1..n : order[i] \notin p => \E j \in 1..l : h[j] = i

Sifted(s, p, n, order) == SiftedTo(Len(s), s, p, n, order)

LEMMA SiftsOne ==
  ASSUME NEW S, NEW k \in Nat, NEW order, order[k + 1] \in S, NEW p,
         NEW s \in Seq(S), Sifted(s, p, k, order),
         NEW t, t = IF order[k + 1] \in p THEN s ELSE Append(s, order[k + 1])
  PROVE  t \in Seq(S) /\ Sifted(t, p, k + 1, order)
<1> DEFINE l == Len(s)
           e == order[k + 1]
<1>1. l \in Nat /\ DOMAIN s = 1..l
  OBVIOUS
<1>2. PICK h \in [1..l -> 1..k] :
        /\ \A j \in 1..l : s[j] = order[h[j]] /\ s[j] \notin p
        /\ \A j, m \in 1..l : j < m => h[j] < h[m]
        /\ \A i \in 1..k : order[i] \notin p => \E j \in 1..l : h[j] = i
  BY DEF Sifted, SiftedTo
<1>3. CASE e \in p
  <2>1. t = s
    BY <1>3
  <2>2. h \in [1..l -> 1..(k + 1)]
    BY <1>2
  <2>3. \A i \in 1..(k + 1) : order[i] \notin p => \E j \in 1..l : h[j] = i
    <3> TAKE i \in 1..(k + 1)
    <3>1. i = k + 1 \/ i \in 1..k
      OBVIOUS
    <3> QED
      BY <1>2, <1>3, <3>1
  <2> QED
    BY <1>2, <2>1, <2>2, <2>3 DEF Sifted, SiftedTo
<1>4. CASE e \notin p
  <2> HIDE DEF e
  <2>0. e \in S /\ t = Append(s, e)
    BY <1>4 DEF e
  <2>1. /\ t \in Seq(S) /\ Len(t) = l + 1 /\ t[l + 1] = e
        /\ \A j \in 1..l : t[j] = s[j]
    BY <2>0
  <2> HIDE DEF l
  <2>2. PICK u \in [1..(l + 1) -> 1..(k + 1)] :
          u[l + 1] = k + 1 /\ \A j \in 1..l : u[j] = h[j]
    <3> DEFINE v == [j \in 1..(l + 1) |-> IF j = l + 1 THEN k + 1 ELSE h[j]]
    <3>1. \A j \in 1..(l + 1) : j = l + 1 \/ j \in 1..l
      BY <1>1
    <3>2. v \in [1..(l + 1) -> 1..(k + 1)]
      BY <1>2, <3>1
    <3>3. v[l + 1] = k + 1 /\ \A j \in 1..l : v[j] = h[j]
      BY <1>1
    <3> QED
      BY <3>2, <3>3
  <2>3. \A j \in 1..(l + 1) : t[j] = order[u[j]] /\ t[j] \notin p
    <3> TAKE j \in 1..(l + 1)
    <3>1. CASE j = l + 1
      BY <1>4, <2>1, <2>2, <3>1 DEF e
    <3>2. CASE j \in 1..l
      BY <1>2, <2>1, <2>2, <3>2
    <3> QED
      BY <1>1, <3>1, <3>2
  <2>4. \A j, m \in 1..(l + 1) : j < m => u[j] < u[m]
    <3> SUFFICES ASSUME NEW j \in 1..(l + 1), NEW m \in 1..(l + 1), j < m
                 PROVE  u[j] < u[m]
      OBVIOUS
    <3>1. j \in 1..l /\ u[j] = h[j] /\ h[j] \in 1..k
      BY <1>1, <1>2, <2>2
    <3>2. CASE m = l + 1
      BY <2>2, <3>1, <3>2
    <3>3. CASE m \in 1..l
      BY <1>2, <2>2, <3>1, <3>3
    <3> QED
      BY <1>1, <3>2, <3>3
  <2>5. \A i \in 1..(k + 1) : order[i] \notin p => \E j \in 1..(l + 1) : u[j] = i
    <3> SUFFICES ASSUME NEW i \in 1..(k + 1), order[i] \notin p
                 PROVE  \E j \in 1..(l + 1) : u[j] = i
      OBVIOUS
    <3>1. CASE i = k + 1
      BY <1>1, <2>2, <3>1
    <3>2. CASE i \in 1..k
      <4>1. PICK j \in 1..l : h[j] = i
        BY <1>2, <3>2
      <4>2. j \in 1..(l + 1)
        BY <1>1
      <4> QED
        BY <2>2, <4>1, <4>2
    <3> QED
      BY <3>1, <3>2
  <2>6. SiftedTo(l + 1, t, p, k + 1, order)
    BY <2>2, <2>3, <2>4, <2>5 DEF SiftedTo
  <2> QED
    BY <2>1, <2>6 DEF Sifted
<1> QED
  BY <1>3, <1>4

\* A loop that appends what is not in q to a new list
LEMMA FoldSifts ==
  ASSUME NEW n \in Nat, NEW S, NEW order \in [1..n -> S], NEW p, NEW q,
         \A s \in Seq(S) : \A e \in S : Op(p, s, e) = IF e \in q THEN s ELSE Append(s, e)
  PROVE  /\ Folded(p, <<>>, order) \in Seq(S)
         /\ Sifted(Folded(p, <<>>, order), q, n, order)
<1> PICK g : Rounds(g, p, n, <<>>, order)
  BY FoldTrace
<1> DEFINE Good(k) == g[k] \in Seq(S) /\ Sifted(g[k], q, k, order)
           Bad == {k \in 0..n : ~Good(k)}
<1> SUFFICES ASSUME Bad # {} PROVE FALSE
  BY DEF Rounds
<1>0. Bad \in SUBSET Nat
  OBVIOUS
<1>1. PICK k \in Bad : \A m \in Bad : ~(m < k)
  BY <1>0, LeastNat
<1>2. k # 0
  <2>1. g[0] = <<>> /\ Len(<<>>) = 0
    BY DEF Rounds
  <2>2. <<>> \in Seq(S)
    OBVIOUS
  <2>3. [x \in 1..0 |-> x] \in [1..0 -> 1..0] /\ 1..0 = {}
    OBVIOUS
  <2>4. Sifted(<<>>, q, 0, order)
    <3>1. SiftedTo(0, <<>>, q, 0, order)
      BY <2>3, Zenon DEF SiftedTo
    <3> QED
      BY <2>1, <3>1 DEF Sifted
  <2> QED
    BY <1>1, <2>1, <2>2, <2>4
<1>3. k \in 1..n /\ k - 1 \in 0..n /\ k - 1 < k
  BY <1>1, <1>2
<1>4. g[k - 1] \in Seq(S) /\ Sifted(g[k - 1], q, k - 1, order)
  BY <1>1, <1>3
<1>5. PICK l \in Nat : l = k - 1 /\ k = l + 1
  BY <1>3
<1>6. order[l + 1] \in S /\ g[k] = Op(p, g[l], order[l + 1])
  BY <1>3, <1>5 DEF Rounds
<1>7. g[k] = IF order[l + 1] \in q THEN g[l] ELSE Append(g[l], order[l + 1])
  BY <1>4, <1>5, <1>6
<1>8. g[l] \in Seq(S) /\ Sifted(g[l], q, l, order)
  BY <1>4, <1>5
<1>9. g[k] \in Seq(S) /\ Sifted(g[k], q, l + 1, order)
  BY <1>6, <1>7, <1>8, SiftsOne
<1> QED
  BY <1>1, <1>5, <1>9

\* The list that is left has the other members, each as often.
LEMMA SiftedMembers ==
  ASSUME NEW n \in Nat, NEW order, DOMAIN order = 1..n, NEW p, NEW S, NEW s \in Seq(S),
         Sifted(s, p, n, order)
  PROVE  /\ Range(s) = Range(order) \ p
         /\ IsInjective(order) => IsInjective(s)
<1>1. PICK h \in [1..Len(s) -> 1..n] :
        /\ \A j \in 1..Len(s) : s[j] = order[h[j]] /\ s[j] \notin p
        /\ \A j, k \in 1..Len(s) : j < k => h[j] < h[k]
        /\ \A i \in 1..n : order[i] \notin p => \E j \in 1..Len(s) : h[j] = i
  BY DEF Sifted, SiftedTo
<1>2. DOMAIN s = 1..Len(s) /\ Len(s) \in Nat
  OBVIOUS
<1>3. Range(s) = Range(order) \ p
  BY <1>1, <1>2 DEF Range
<1>4. ASSUME IsInjective(order) PROVE IsInjective(s)
  <2> SUFFICES ASSUME NEW j \in 1..Len(s), NEW k \in 1..Len(s), s[j] = s[k] PROVE j = k
    BY <1>2 DEF IsInjective
  <2>1. h[j] = h[k]
    BY <1>1, <1>4 DEF IsInjective
  <2>2. ~(j < k) /\ ~(k < j)
    BY <1>1, <2>1
  <2> QED
    BY <1>2, <2>2
<1> QED
  BY <1>3, <1>4
=============================================================================
