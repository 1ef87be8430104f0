---------------------------- MODULE BrandesProofs ----------------------------
(***************************************************************************)
(* What is proved of betweenness (structural_metrics), for any wikis: the  *)
(* sums that Brandes' accumulation leaves are those of the definition.     *)
(*                                                                         *)
(* First what sums over finite sets do, whatever order they are taken in.  *)
(* Then paths in any graph, away from the state: m nodes, N their          *)
(* neighbours, W the walks of every length; d and g are the distances and  *)
(* the numbers of shortest paths from a source, which add up link by link  *)
(* (Layered), C the share one shortest path to a node has, Down what is    *)
(* handed on through a node.  Then the two loops: the breadth first search *)
(* with its queue q and order o, and the way back through o.  Last the     *)
(* actions of LinkGraph and the sums over the sources.                     *)
(***************************************************************************)
EXTENDS ExplorerProofs

AnyOf(sub) == CHOOSE x \in sub : TRUE

SumOf(g, S) == MapThenSumSet(LAMBDA x : g[x], S)

SumBody(f, g, sub) == IF sub = {} THEN 0 ELSE g[AnyOf(sub)] + f[sub \ {AnyOf(sub)}]

IsSum(f, g, S) ==
    /\ f \in [SUBSET S -> Nat]
    /\ \A sub \in SUBSET S : f[sub] = SumBody(f, g, sub)

Summable(g, S) == IsFiniteSet(S) /\ \A x \in S : g[x] \in Nat

SameOn(g, h, S) == \A x \in S : g[x] = h[x]

\* What holds of a set as soon as it holds of it without any one element.
LEMMA FiniteDescent ==
    ASSUME NEW S, IsFiniteSet(S), NEW P,
           \A sub \in SUBSET S : (\A x \in sub : sub \ {x} \in P) => sub \in P
    PROVE  \A sub \in SUBSET S : sub \in P
<1> SUFFICES ASSUME NEW t \in SUBSET S, t \notin P
             PROVE  FALSE
  OBVIOUS
<1> DEFINE Out == {sub \in SUBSET S : sub \notin P}
           Sizes == {Cardinality(sub) : sub \in Out}
<1>1. \A sub \in SUBSET S : IsFiniteSet(sub) /\ Cardinality(sub) \in Nat
  BY FS_Subset, FS_CardinalityType
<1>2. Sizes \subseteq Nat /\ Sizes # {}
  <2>1. Sizes \subseteq Nat
    BY <1>1
  <2>2. Cardinality(t) \in Sizes
    OBVIOUS
  <2> QED  BY ONLY <2>1, <2>2
<1>3. PICK k \in Sizes : \A j \in Sizes : k <= j
  <2> HIDE DEF Sizes
  <2> QED  BY ONLY <1>2, LeastExists
<1>4. PICK sub \in SUBSET S : sub \notin P /\ Cardinality(sub) = k
  OBVIOUS
<1>5. ASSUME NEW x \in sub
      PROVE  sub \ {x} \in P
  <2>1. IsFiniteSet(sub) /\ k \in Nat
    BY <1>1, <1>4
  <2>2. Cardinality(sub \ {x}) = k - 1
    BY <1>4, <2>1, FS_RemoveElement
  <2>3. ~(k <= k - 1)
    BY ONLY <2>1
  <2>4. Cardinality(sub \ {x}) \notin Sizes
    BY ONLY <1>3, <2>2, <2>3
  <2>5. sub \ {x} \in SUBSET S
    OBVIOUS
  <2> QED  BY ONLY <2>4, <2>5 DEF Sizes, Out
<1> QED  BY <1>4, <1>5

\* The fold of the library, as a choice of a recursive function,
LEMMA SumRecursion ==
    ASSUME NEW g, NEW S
    PROVE  SumOf(g, S) = (CHOOSE f : f = [sub \in SUBSET S |-> SumBody(f, g, sub)])[S]
BY DEF SumOf, MapThenSumSet, MapThenFoldSet, SumBody, AnyOf

LEMMA AnyOfIn ==
    ASSUME NEW sub, sub # {}
    PROVE  AnyOf(sub) \in sub
BY DEF AnyOf

\* The recursive function is there, on ever larger sets.
SumBelow(f, g, S, k) == \A sub \in SUBSET S : Cardinality(sub) < k => f[sub] = SumBody(f, g, sub)

LEMMA SumUpTo ==
    ASSUME NEW S, IsFiniteSet(S), NEW g, NEW k \in Nat
    PROVE  \E f : SumBelow(f, g, S, k)
<1> USE DEF SumBelow
<1> DEFINE OK(h) == \E f : \A sub \in SUBSET S : Cardinality(sub) < h => f[sub] = SumBody(f, g, sub)
           Out == {h \in Nat : ~OK(h)}
<1> SUFFICES ASSUME k \in Out PROVE FALSE
  OBVIOUS
<1>1. Out \subseteq Nat /\ Out # {}
  OBVIOUS
<1>2. PICK h \in Out : \A j \in Out : h <= j
  <2> HIDE DEF Out
  <2> QED  BY ONLY <1>1, LeastExists
<1>3. h \in Nat /\ ~OK(h)
  OBVIOUS
<1>4. \A sub \in SUBSET S : IsFiniteSet(sub) /\ Cardinality(sub) \in Nat
  BY FS_Subset, FS_CardinalityType
<1>5. h # 0
  <2>1. ASSUME h = 0 PROVE OK(h)
    BY <1>4, <2>1
  <2> QED  BY <1>3, <2>1
<1>6. OK(h - 1)
  <2>1. h - 1 \in Nat /\ ~(h <= h - 1)
    BY ONLY <1>3, <1>5
  <2>2. h - 1 \notin Out
    BY ONLY <1>2, <2>1
  <2> HIDE DEF OK
  <2> QED  BY ONLY <2>1, <2>2 DEF Out
<1>7. PICK f : \A sub \in SUBSET S : Cardinality(sub) < h - 1 => f[sub] = SumBody(f, g, sub)
  BY ONLY <1>6
<1> DEFINE e == [sub \in SUBSET S |-> SumBody(f, g, sub)]
<1>8. ASSUME NEW sub \in SUBSET S, Cardinality(sub) < h
      PROVE  e[sub] = SumBody(e, g, sub)
  <2>1. e[sub] = SumBody(f, g, sub)
    OBVIOUS
  <2>2. CASE sub = {}
    BY <2>1, <2>2 DEF SumBody
  <2>3. CASE sub # {}
    <3> DEFINE r == sub \ {AnyOf(sub)}
    <3>1. AnyOf(sub) \in sub
      BY <2>3, AnyOfIn
    <3>2. r \in SUBSET S /\ Cardinality(r) = Cardinality(sub) - 1
      BY <1>4, <3>1, FS_RemoveElement
    <3>3. Cardinality(r) < h - 1
      BY <1>3, <1>4, <1>8, <3>2
    <3>4. e[r] = SumBody(f, g, r) /\ f[r] = SumBody(f, g, r)
      BY <1>7, <3>2, <3>3
    <3> HIDE DEF e
    <3>5. SumBody(e, g, sub) = g[AnyOf(sub)] + e[r] /\ SumBody(f, g, sub) = g[AnyOf(sub)] + f[r]
      BY ONLY <2>3 DEF SumBody
    <3> QED  BY ONLY <2>1, <3>4, <3>5
  <2> QED  BY <2>2, <2>3
<1>9. OK(h)
  <2> HIDE DEF e
  <2> QED  BY ONLY <1>8
<1> QED  BY ONLY <1>3, <1>9

\* which there is: what it says of the sum of a part of S, it says of S.
LEMMA SumIsThere ==
    ASSUME NEW S, IsFiniteSet(S), NEW g, \A x \in S : g[x] \in Nat
    PROVE  \E f : IsSum(f, g, S) /\ SumOf(g, S) = f[S]
<1> DEFINE f == CHOOSE e : e = [sub \in SUBSET S |-> SumBody(e, g, sub)]
<1>1. \A sub \in SUBSET S : IsFiniteSet(sub) /\ Cardinality(sub) \in Nat /\ Cardinality(sub) < Cardinality(S) + 1
  <2>1. Cardinality(S) \in Nat
    BY FS_CardinalityType
  <2>2. ASSUME NEW sub \in SUBSET S
        PROVE  IsFiniteSet(sub) /\ Cardinality(sub) \in Nat /\ Cardinality(sub) <= Cardinality(S)
    BY FS_Subset, FS_CardinalityType
  <2> QED  BY <2>1, <2>2
<1>2. \E e : e = [sub \in SUBSET S |-> SumBody(e, g, sub)]
  <2>1. Cardinality(S) + 1 \in Nat
    BY FS_CardinalityType
  <2> DEFINE k == Cardinality(S) + 1
  <2> HIDE DEF k, f
  <2>0. k \in Nat
    BY ONLY <2>1 DEF k
  <2>2. PICK e : SumBelow(e, g, S, k)
    BY ONLY <2>0, IsFiniteSet(S), SumUpTo
  <2> DEFINE d == [sub \in SUBSET S |-> e[sub]]
  <2>3. ASSUME NEW sub \in SUBSET S
        PROVE  d[sub] = SumBody(d, g, sub)
    <3>1. e[sub] = SumBody(e, g, sub)
      BY ONLY <1>1, <2>2, sub \in SUBSET S DEF k, SumBelow
    <3>2. sub \ {AnyOf(sub)} \in SUBSET S
      OBVIOUS
    <3>3. d[sub] = e[sub] /\ d[sub \ {AnyOf(sub)}] = e[sub \ {AnyOf(sub)}]
      BY <3>2
    <3> HIDE DEF d
    <3> QED  BY ONLY <3>1, <3>3 DEF SumBody
  <2>4. d = [sub \in SUBSET S |-> d[sub]]
    OBVIOUS
  <2> HIDE DEF d
  <2>5. d = [sub \in SUBSET S |-> SumBody(d, g, sub)]
    BY ONLY <2>3, <2>4
  <2> QED  BY ONLY <2>5
<1>3. f = [sub \in SUBSET S |-> SumBody(f, g, sub)]
  BY ONLY <1>2, Zenon
<1> HIDE DEF f
<1>4. \A sub \in SUBSET S : f[sub] = SumBody(f, g, sub)
  BY ONLY <1>3
<1> DEFINE P == {sub \in SUBSET S : f[sub] \in Nat}
<1>5. ASSUME NEW sub \in SUBSET S, \A x \in sub : sub \ {x} \in P
      PROVE  sub \in P
  <2>1. CASE sub = {}
    BY <1>4, <2>1 DEF SumBody
  <2>2. CASE sub # {}
    <3>1. AnyOf(sub) \in sub
      BY <2>2, AnyOfIn
    <3>2. g[AnyOf(sub)] \in Nat /\ f[sub \ {AnyOf(sub)}] \in Nat
      BY <1>5, <3>1
    <3>3. f[sub] = g[AnyOf(sub)] + f[sub \ {AnyOf(sub)}]
      BY <1>4, <2>2 DEF SumBody
    <3> QED  BY <3>2, <3>3
  <2> QED  BY <2>1, <2>2
<1>6. \A sub \in SUBSET S : sub \in P
  <2> HIDE DEF P
  <2> QED  BY <1>5, FiniteDescent
<1>7. f \in [SUBSET S -> Nat]
  <2>1. \A sub \in SUBSET S : f[sub] \in Nat
    BY <1>6
  <2> QED  BY ONLY <1>3, <2>1
<1>8. SumOf(g, S) = f[S]
  BY SumRecursion DEF f
<1> QED  BY <1>4, <1>7, <1>8 DEF IsSum

\* The order in which the elements are taken does not matter,
LEMMA SumTakesAny ==
    ASSUME NEW S, IsFiniteSet(S), NEW g, \A x \in S : g[x] \in Nat, NEW f, IsSum(f, g, S)
    PROVE  \A sub \in SUBSET S : \A x \in sub : f[sub] = g[x] + f[sub \ {x}]
<1> DEFINE P == {sub \in SUBSET S : \A x \in sub : f[sub] = g[x] + f[sub \ {x}]}
<1>1. /\ \A sub \in SUBSET S : f[sub] \in Nat
      /\ \A sub \in SUBSET S : sub # {} => f[sub] = g[AnyOf(sub)] + f[sub \ {AnyOf(sub)}]
  BY DEF IsSum, SumBody
<1>2. ASSUME NEW sub \in SUBSET S, \A x \in sub : sub \ {x} \in P, NEW x \in sub
      PROVE  f[sub] = g[x] + f[sub \ {x}]
  <2> DEFINE c == AnyOf(sub)
  <2>1. c \in sub /\ f[sub] = g[c] + f[sub \ {c}]
    BY <1>1, AnyOfIn
  <2> HIDE DEF c
  <2>2. CASE x = c
    BY <2>1, <2>2
  <2>3. CASE x # c
    <3>1. f[sub \ {c}] = g[x] + f[(sub \ {c}) \ {x}]
      BY <1>2, <2>1, <2>3
    <3>2. f[sub \ {x}] = g[c] + f[(sub \ {x}) \ {c}]
      BY <1>2, <2>1, <2>3
    <3>3. (sub \ {x}) \ {c} = (sub \ {c}) \ {x} /\ (sub \ {c}) \ {x} \in SUBSET S
      OBVIOUS
    <3> DEFINE r == f[(sub \ {c}) \ {x}]
               a == g[c]
               b == g[x]
    <3>4. r \in Nat /\ a \in Nat /\ b \in Nat
      BY <1>1, <2>1, <3>3
    <3>5. f[sub] = a + (b + r) /\ f[sub \ {x}] = a + r
      BY <2>1, <3>1, <3>2, <3>3
    <3> HIDE DEF r, a
    <3>6. a + (b + r) = b + (a + r)
      <4> HIDE DEF b
      <4> QED  BY ONLY <3>4
    <3> QED  BY ONLY <3>5, <3>6 DEF b
  <2> QED  BY <2>2, <2>3
<1>3. ASSUME NEW sub \in SUBSET S, \A x \in sub : sub \ {x} \in P
      PROVE  sub \in P
  BY <1>2, <1>3
<1>4. \A sub \in SUBSET S : sub \in P
  <2> HIDE DEF P
  <2> QED  BY <1>3, FiniteDescent
<1> QED  BY ONLY <1>4

\* nor of which larger set they are.
LEMMA SumOfPart ==
    ASSUME NEW S, NEW T \in SUBSET S, NEW g, NEW h, Summable(g, S), SameOn(h, g, T),
           NEW f, IsSum(f, g, S), NEW e, IsSum(e, h, T)
    PROVE  e[T] = f[T]
<1> DEFINE P == {sub \in SUBSET T : e[sub] = f[sub]}
<1>1. IsFiniteSet(T) /\ \A x \in T : h[x] = g[x]
  BY FS_Subset DEF Summable, SameOn
<1>2. ASSUME NEW sub \in SUBSET T, \A x \in sub : sub \ {x} \in P
      PROVE  sub \in P
  <2>1. sub \in SUBSET S /\ f[sub] = SumBody(f, g, sub) /\ e[sub] = SumBody(e, h, sub)
    BY DEF IsSum
  <2>2. CASE sub = {}
    BY <2>1, <2>2 DEF SumBody
  <2>3. CASE sub # {}
    <3>1. AnyOf(sub) \in sub
      BY <2>3, AnyOfIn
    <3>2. e[sub \ {AnyOf(sub)}] = f[sub \ {AnyOf(sub)}] /\ h[AnyOf(sub)] = g[AnyOf(sub)]
      BY <1>1, <1>2, <3>1
    <3>3. f[sub] = g[AnyOf(sub)] + f[sub \ {AnyOf(sub)}] /\ e[sub] = h[AnyOf(sub)] + e[sub \ {AnyOf(sub)}]
      BY ONLY <2>1, <2>3 DEF SumBody
    <3> QED  BY ONLY <3>2, <3>3
  <2> QED  BY <2>2, <2>3
<1>3. \A sub \in SUBSET T : sub \in P
  <2> HIDE DEF P
  <2> QED  BY <1>1, <1>2, FiniteDescent
<1> QED  BY <1>3

-----------------------------------------------------------------------------
(***************************************************************************)
(* What is used of sums.                                                   *)
(***************************************************************************)
LEMMA SumNone ==
    ASSUME NEW g
    PROVE  SumOf(g, {}) = 0
<1>1. IsFiniteSet({})
  BY FS_EmptySet
<1>2. \A x \in {} : g[x] \in Nat
  OBVIOUS
<1>3. PICK f : IsSum(f, g, {}) /\ SumOf(g, {}) = f[{}]
  BY ONLY <1>1, <1>2, SumIsThere
<1>4. f[{}] = 0
  BY ONLY <1>3 DEF IsSum, SumBody
<1> QED  BY ONLY <1>3, <1>4

\* Any element may be taken first.
LEMMA SumTake ==
    ASSUME NEW g, NEW S, Summable(g, S)
    PROVE  SumOf(g, S) \in Nat /\ \A x \in S : SumOf(g, S) = g[x] + SumOf(g, S \ {x})
<1>1. IsFiniteSet(S) /\ \A x \in S : g[x] \in Nat
  BY DEF Summable
<1>2. PICK f : IsSum(f, g, S) /\ SumOf(g, S) = f[S]
  BY ONLY <1>1, SumIsThere
<1>3. SumOf(g, S) \in Nat
  BY ONLY <1>2 DEF IsSum
<1>4. ASSUME NEW x \in S
      PROVE  SumOf(g, S) = g[x] + SumOf(g, S \ {x})
  <2> DEFINE T == S \ {x}
  <2>1. T \in SUBSET S
    OBVIOUS
  <2>2. f[S] = g[x] + f[T]
    BY <1>1, <1>2, SumTakesAny
  <2> HIDE DEF T
  <2>3. IsFiniteSet(T) /\ \A y \in T : g[y] \in Nat
    BY ONLY <1>1, <2>1, FS_Subset
  <2>4. PICK e : IsSum(e, g, T) /\ SumOf(g, T) = e[T]
    BY ONLY <2>3, SumIsThere
  <2>6. e[T] = f[T]
    <3>1. SameOn(g, g, T)
      BY DEF SameOn
    <3> QED  BY ONLY Summable(g, S), <1>2, <2>1, <2>4, <3>1, SumOfPart
  <2> QED  BY ONLY <1>2, <2>2, <2>4, <2>6 DEF T
<1> QED  BY ONLY <1>3, <1>4

\* Only what is summed matters.
LEMMA SumSame ==
    ASSUME NEW S, NEW g, NEW h, Summable(g, S), SameOn(h, g, S)
    PROVE  SumOf(h, S) = SumOf(g, S)
<1>1. IsFiniteSet(S) /\ (\A x \in S : g[x] \in Nat) /\ (\A x \in S : h[x] \in Nat) /\ S \in SUBSET S
  BY DEF Summable, SameOn
<1>2. PICK f : IsSum(f, g, S) /\ SumOf(g, S) = f[S]
  BY ONLY <1>1, SumIsThere
<1>3. PICK e : IsSum(e, h, S) /\ SumOf(h, S) = e[S]
  BY ONLY <1>1, SumIsThere
<1>4. e[S] = f[S]
  BY <1>1, <1>2, <1>3, SumOfPart
<1> QED  BY ONLY <1>2, <1>3, <1>4

LEMMA CountsLess ==
    ASSUME NEW S, NEW g, Summable(g, S), NEW T \in SUBSET S
    PROVE  Summable(g, T)
BY FS_Subset DEF Summable

\* A sum of sums,
LEMMA SumPlus ==
    ASSUME NEW S, NEW g, NEW h, NEW k, Summable(g, S), Summable(h, S), \A x \in S : k[x] = g[x] + h[x]
    PROVE  SumOf(k, S) = SumOf(g, S) + SumOf(h, S)
<1> DEFINE P == {sub \in SUBSET S : SumOf(k, sub) = SumOf(g, sub) + SumOf(h, sub)}
<1>1. ASSUME NEW sub \in SUBSET S, \A x \in sub : sub \ {x} \in P
      PROVE  sub \in P
  <2>1. CASE sub = {}
    <3>1. SumOf(k, sub) = 0 /\ SumOf(g, sub) = 0 /\ SumOf(h, sub) = 0
      BY ONLY <2>1, SumNone
    <3> QED  BY ONLY <3>1, sub \in SUBSET S
  <2>2. CASE sub # {}
    <3>1. PICK x \in sub : TRUE
      BY <2>2
    <3> DEFINE t == sub \ {x}
    <3>2. t \in SUBSET S /\ SumOf(k, t) = SumOf(g, t) + SumOf(h, t)
      BY <1>1
    <3> HIDE DEF t
    <3>3. Summable(g, sub) /\ Summable(h, sub) /\ Summable(g, t) /\ Summable(h, t)
      BY <3>2, CountsLess
    <3>4. Summable(k, sub)
      BY <3>3 DEF Summable
    <3>5. SumOf(k, sub) = k[x] + SumOf(k, t) /\ SumOf(g, sub) = g[x] + SumOf(g, t) /\ SumOf(h, sub) = h[x] + SumOf(h, t)
      BY ONLY <3>1, <3>3, <3>4, SumTake DEF t
    <3>6. g[x] \in Nat /\ h[x] \in Nat /\ k[x] = g[x] + h[x]
      BY <3>1 DEF Summable
    <3>7. SumOf(g, t) \in Nat /\ SumOf(h, t) \in Nat
      BY ONLY <3>3, SumTake
    <3>8. SumOf(k, sub) = SumOf(g, sub) + SumOf(h, sub)
      BY ONLY <3>2, <3>5, <3>6, <3>7
    <3> QED  BY ONLY <3>8, sub \in SUBSET S
  <2> QED  BY <2>1, <2>2
<1>2. \A sub \in SUBSET S : sub \in P
  <2> HIDE DEF P
  <2>1. IsFiniteSet(S)
    BY DEF Summable
  <2> QED  BY <1>1, <2>1, FiniteDescent
<1> QED  BY ONLY <1>2

\* a multiple of a sum,
LEMMA SumTimes ==
    ASSUME NEW S, NEW g, NEW h, NEW c \in Nat, Summable(g, S), \A x \in S : h[x] = c * g[x]
    PROVE  SumOf(h, S) = c * SumOf(g, S)
<1> DEFINE P == {sub \in SUBSET S : SumOf(h, sub) = c * SumOf(g, sub)}
<1>1. ASSUME NEW sub \in SUBSET S, \A x \in sub : sub \ {x} \in P
      PROVE  sub \in P
  <2>1. CASE sub = {}
    <3>1. SumOf(h, sub) = 0 /\ SumOf(g, sub) = 0
      BY ONLY <2>1, SumNone
    <3> QED  BY ONLY <3>1, sub \in SUBSET S, c \in Nat
  <2>2. CASE sub # {}
    <3>1. PICK x \in sub : TRUE
      BY <2>2
    <3> DEFINE t == sub \ {x}
    <3>2. t \in SUBSET S /\ SumOf(h, t) = c * SumOf(g, t)
      BY <1>1
    <3> HIDE DEF t
    <3>3. Summable(g, sub) /\ Summable(g, t)
      BY <3>2, CountsLess
    <3>4. Summable(h, sub)
      BY <3>3 DEF Summable
    <3>5. SumOf(h, sub) = h[x] + SumOf(h, t) /\ SumOf(g, sub) = g[x] + SumOf(g, t)
      BY ONLY <3>1, <3>3, <3>4, SumTake DEF t
    <3>6. g[x] \in Nat /\ h[x] = c * g[x]
      BY <3>1 DEF Summable
    <3>7. SumOf(g, t) \in Nat
      BY ONLY <3>3, SumTake
    <3> DEFINE a == g[x]
               b == SumOf(g, t)
    <3>8. c * a + c * b = c * (a + b)
      <4>1. a \in Nat /\ b \in Nat
        BY ONLY <3>6, <3>7
      <4> HIDE DEF a, b
      <4> QED  BY ONLY <4>1, c \in Nat
    <3>9. SumOf(h, sub) = c * SumOf(g, sub)
      BY ONLY <3>2, <3>5, <3>6, <3>8
    <3> QED  BY ONLY <3>9, sub \in SUBSET S
  <2> QED  BY <2>1, <2>2
<1>2. \A sub \in SUBSET S : sub \in P
  <2> HIDE DEF P
  <2>1. IsFiniteSet(S)
    BY DEF Summable
  <2> QED  BY <1>1, <2>1, FiniteDescent
<1> QED  BY ONLY <1>2

\* a sum of which only a part is not zero,
LEMMA SumWithin ==
    ASSUME NEW S, NEW g, Summable(g, S), NEW T \in SUBSET S, \A x \in S \ T : g[x] = 0
    PROVE  SumOf(g, S) = SumOf(g, T)
<1> DEFINE P == {sub \in SUBSET S : SumOf(g, sub) = SumOf(g, sub \cap T)}
<1>1. ASSUME NEW sub \in SUBSET S, \A x \in sub : sub \ {x} \in P
      PROVE  sub \in P
  <2>1. CASE sub \subseteq T
    <3>1. sub \cap T = sub
      BY <2>1
    <3> QED  BY ONLY <3>1, sub \in SUBSET S
  <2>2. CASE ~(sub \subseteq T)
    <3>1. PICK x \in sub : x \notin T
      BY <2>2
    <3> DEFINE t == sub \ {x}
    <3>2. t \in SUBSET S /\ SumOf(g, t) = SumOf(g, t \cap T)
      BY <1>1
    <3>3. t \cap T = sub \cap T
      BY <3>1
    <3>4. Summable(g, sub) /\ Summable(g, t)
      BY <3>2, CountsLess
    <3>5. SumOf(g, sub) = g[x] + SumOf(g, t) /\ SumOf(g, t) \in Nat
      BY ONLY <3>1, <3>4, SumTake DEF t
    <3>6. g[x] = 0
      BY <3>1
    <3> HIDE DEF t
    <3>7. SumOf(g, sub) = SumOf(g, sub \cap T)
      BY ONLY <3>2, <3>3, <3>5, <3>6
    <3> QED  BY ONLY <3>7, sub \in SUBSET S
  <2> QED  BY <2>1, <2>2
<1>2. \A sub \in SUBSET S : sub \in P
  <2> HIDE DEF P
  <2>1. IsFiniteSet(S)
    BY DEF Summable
  <2> QED  BY <1>1, <2>1, FiniteDescent
<1>3. S \cap T = T /\ S \in SUBSET S
  OBVIOUS
<1> QED  BY ONLY <1>2, <1>3

LEMMA SumZero ==
    ASSUME NEW S, NEW g, IsFiniteSet(S), \A x \in S : g[x] = 0
    PROVE  SumOf(g, S) = 0
<1>1. Summable(g, S) /\ {} \in SUBSET S
  BY DEF Summable
<1>2. SumOf(g, S) = SumOf(g, {})
  BY <1>1, SumWithin
<1> QED  BY <1>2, SumNone

LEMMA SumPositive ==
    ASSUME NEW S, NEW g, Summable(g, S), NEW x \in S, g[x] # 0
    PROVE  SumOf(g, S) # 0
<1>1. SumOf(g, S) = g[x] + SumOf(g, S \ {x})
  BY SumTake
<1>2. S \ {x} \in SUBSET S
  OBVIOUS
<1>3. SumOf(g, S \ {x}) \in Nat
  <2> DEFINE T == S \ {x}
  <2>1. Summable(g, T)
    BY <1>2, CountsLess
  <2> HIDE DEF T
  <2>2. SumOf(g, T) \in Nat
    BY <2>1, SumTake
  <2> QED  BY <2>2 DEF T
<1>4. g[x] \in Nat
  BY DEF Summable
<1> QED  BY ONLY <1>1, <1>3, <1>4, g[x] # 0

\* the sum of a union,
LEMMA SumJoin ==
    ASSUME NEW S, NEW g, Summable(g, S), NEW A \in SUBSET S, NEW B \in SUBSET S, A \cap B = {}
    PROVE  SumOf(g, A \cup B) = SumOf(g, A) + SumOf(g, B)
<1> DEFINE P == {sub \in SUBSET A : SumOf(g, sub \cup B) = SumOf(g, sub) + SumOf(g, B)}
<1>1. ASSUME NEW sub \in SUBSET A, \A x \in sub : sub \ {x} \in P
      PROVE  sub \in P
  <2>1. CASE sub = {}
    <3> DEFINE u == sub \cup B
    <3>1. SumOf(g, sub) = 0 /\ u = B
      BY <2>1, SumNone
    <3> HIDE DEF u
    <3>2. Summable(g, B)
      BY CountsLess
    <3>3. SumOf(g, B) \in Nat
      BY ONLY <3>2, SumTake
    <3>4. SumOf(g, u) = SumOf(g, sub) + SumOf(g, B)
      BY ONLY <3>1, <3>3
    <3>5. sub \in SUBSET A
      OBVIOUS
    <3> QED  BY ONLY <3>4, <3>5 DEF u
  <2>2. CASE sub # {}
    <3>1. PICK x \in sub : TRUE
      BY <2>2
    <3> DEFINE t == sub \ {x}
               u == sub \cup B
    <3>2. SumOf(g, t \cup B) = SumOf(g, t) + SumOf(g, B)
      BY <1>1
    <3>3. t \cup B = u \ {x} /\ x \in u /\ u \in SUBSET S /\ sub \in SUBSET S /\ t \in SUBSET S
      BY <3>1
    <3> HIDE DEF t, u
    <3>4. Summable(g, u) /\ Summable(g, sub) /\ Summable(g, t) /\ Summable(g, B)
      BY <3>3, CountsLess
    <3>5. SumOf(g, u) = g[x] + SumOf(g, u \ {x}) /\ SumOf(g, sub) = g[x] + SumOf(g, sub \ {x})
      BY ONLY <3>1, <3>3, <3>4, SumTake
    <3>6. g[x] \in Nat /\ SumOf(g, t) \in Nat /\ SumOf(g, B) \in Nat
      <4>1. g[x] \in Nat
        BY <3>3 DEF Summable
      <4>2. SumOf(g, t) \in Nat /\ SumOf(g, B) \in Nat
        BY ONLY <3>4, SumTake
      <4> QED  BY ONLY <4>1, <4>2
    <3>7. SumOf(g, sub) = g[x] + SumOf(g, t) /\ SumOf(g, u) = g[x] + (SumOf(g, t) + SumOf(g, B))
      BY ONLY <3>2, <3>3, <3>5 DEF t
    <3>8. SumOf(g, u) = SumOf(g, sub) + SumOf(g, B)
      BY ONLY <3>6, <3>7
    <3> QED  BY ONLY <3>8, sub \in SUBSET A DEF u
  <2> QED  BY <2>1, <2>2
<1>2. \A sub \in SUBSET A : sub \in P
  <2> HIDE DEF P
  <2>1. IsFiniteSet(A)
    BY FS_Subset DEF Summable
  <2> QED  BY <1>1, <2>1, FiniteDescent
<1>3. A \in SUBSET A
  OBVIOUS
<1> QED  BY ONLY <1>2, <1>3

\* and a sum of sums, in either order,
Columns(c, B, sub) == [y \in B |-> SumOf(c[y], sub)]

\* c holds by column what f holds by row,
Tables(A, B, f, c) == \A x \in A : \A y \in B : f[x][y] \in Nat /\ c[y][x] = f[x][y]

\* and g the sum of every row.
IsTotal(g, f, A, B) == \A x \in A : g[x] = SumOf(f[x], B)

\* Sums of sums, in either order,
LEMMA SumSwap ==
    ASSUME NEW A, NEW B, IsFiniteSet(A), IsFiniteSet(B), NEW f, NEW c, Tables(A, B, f, c),
           NEW g, IsTotal(g, f, A, B)
    PROVE  SumOf(g, A) = SumOf(Columns(c, B, A), B)
<1> USE DEF Tables, IsTotal
<1> DEFINE P == {sub \in SUBSET A : SumOf(g, sub) = SumOf(Columns(c, B, sub), B)}
<1>0. /\ \A x \in A : Summable(f[x], B) /\ SumOf(f[x], B) \in Nat
      /\ \A y \in B : Summable(c[y], A)
  <2>1. ASSUME NEW x \in A
        PROVE  Summable(f[x], B) /\ SumOf(f[x], B) \in Nat
    <3>1. Summable(f[x], B)
      BY DEF Summable
    <3> QED  BY ONLY <3>1, SumTake
  <2>2. ASSUME NEW y \in B
        PROVE  Summable(c[y], A)
    BY DEF Summable
  <2> QED  BY ONLY <2>1, <2>2
<1>1. Summable(g, A)
  BY <1>0 DEF Summable
<1>2. ASSUME NEW sub \in SUBSET A, \A x \in sub : sub \ {x} \in P
      PROVE  sub \in P
  <2>1. CASE sub = {}
    <3>1. SumOf(g, sub) = 0
      BY ONLY <2>1, SumNone
    <3>2. ASSUME NEW y \in B
          PROVE  Columns(c, B, sub)[y] = 0
      <4>1. SumOf(c[y], sub) = 0
        BY ONLY <2>1, SumNone
      <4> QED  BY <4>1 DEF Columns
    <3>3. SumOf(Columns(c, B, sub), B) = 0
      BY <3>2, SumZero
    <3> QED  BY ONLY <3>1, <3>3, sub \in SUBSET A
  <2>2. CASE sub # {}
    <3>1. PICK x \in sub : TRUE
      BY <2>2
    <3> DEFINE t == sub \ {x}
               C == Columns(c, B, sub)
               D == Columns(c, B, t)
    <3>2. t \in SUBSET A /\ SumOf(g, t) = SumOf(D, B)
      BY <1>2
    <3>3. ASSUME NEW y \in B
          PROVE  C[y] = f[x][y] + D[y] /\ D[y] \in Nat /\ f[x][y] \in Nat
      <4>1. Summable(c[y], sub) /\ Summable(c[y], t)
        BY <1>0, <3>2, CountsLess
      <4>2. SumOf(c[y], sub) = c[y][x] + SumOf(c[y], t) /\ SumOf(c[y], t) \in Nat
        BY ONLY <3>1, <4>1, SumTake
      <4>3. c[y][x] = f[x][y] /\ f[x][y] \in Nat
        BY <3>1
      <4>4. C[y] = SumOf(c[y], sub) /\ D[y] = SumOf(c[y], t)
        BY DEF Columns
      <4> QED  BY ONLY <4>2, <4>3, <4>4
    <3> HIDE DEF C, D, t
    <3>4. Summable(D, B) /\ Summable(f[x], B)
      BY <1>0, <3>1, <3>3 DEF Summable
    <3>5. SumOf(C, B) = SumOf(f[x], B) + SumOf(D, B)
      <4>1. \A y \in B : C[y] = f[x][y] + D[y]
        BY ONLY <3>3
      <4> QED  BY ONLY <3>4, <4>1, SumPlus
    <3>6. SumOf(g, sub) = g[x] + SumOf(g, t)
      <4>1. Summable(g, sub)
        BY <1>1, CountsLess
      <4> QED  BY ONLY <3>1, <4>1, SumTake DEF t
    <3>7. g[x] = SumOf(f[x], B)
      BY <3>1
    <3>8. SumOf(g, sub) = SumOf(C, B)
      BY ONLY <3>2, <3>5, <3>6, <3>7
    <3> QED  BY ONLY <3>8, sub \in SUBSET A DEF C
  <2> QED  BY <2>1, <2>2
<1>3. \A sub \in SUBSET A : sub \in P
  <2> HIDE DEF P
  <2> QED  BY <1>2, FiniteDescent
<1>4. A \in SUBSET A
  OBVIOUS
<1> QED  BY ONLY <1>3, <1>4

\* or over the pairs.
Row(x, B) == {x} \X B

RowIs(h, x, f, B) == \A y \in B : h[<<x, y>>] = f[y]

LEMMA SumRow ==
    ASSUME NEW x, NEW B, NEW f, Summable(f, B), NEW h, RowIs(h, x, f, B)
    PROVE  SumOf(h, Row(x, B)) = SumOf(f, B)
<1> USE DEF Row, RowIs
<1> DEFINE P == {sub \in SUBSET B : SumOf(h, {x} \X sub) = SumOf(f, sub)}
<1>1. IsFiniteSet({x} \X B) /\ \A sub \in SUBSET B : Summable(h, {x} \X sub) /\ Summable(f, sub)
  <2>1. IsFiniteSet({x})
    BY FS_Singleton
  <2>2. IsFiniteSet(B) /\ \A y \in B : f[y] \in Nat
    BY DEF Summable
  <2>3. IsFiniteSet({x} \X B)
    BY ONLY <2>1, <2>2, FS_Product
  <2>4. \A p \in {x} \X B : h[p] \in Nat
    BY <2>2
  <2>5. Summable(h, {x} \X B)
    BY ONLY <2>3, <2>4 DEF Summable
  <2>6. ASSUME NEW sub \in SUBSET B
        PROVE  Summable(h, {x} \X sub) /\ Summable(f, sub)
    <3> DEFINE T == {x} \X B
               t == {x} \X sub
    <3>1. t \in SUBSET T
      OBVIOUS
    <3> HIDE DEF t, T
    <3>2. Summable(h, T)
      BY ONLY <2>5 DEF T
    <3>3. Summable(h, t)
      BY ONLY <3>1, <3>2, CountsLess
    <3>4. Summable(f, sub)
      BY CountsLess
    <3> QED  BY ONLY <3>3, <3>4 DEF t
  <2> QED  BY ONLY <2>3, <2>6
<1>2. ASSUME NEW sub \in SUBSET B, \A y \in sub : sub \ {y} \in P
      PROVE  sub \in P
  <2>1. CASE sub = {}
    <3>1. {x} \X sub = {}
      BY <2>1
    <3>2. SumOf(h, {x} \X sub) = 0 /\ SumOf(f, sub) = 0
      BY ONLY <2>1, <3>1, SumNone
    <3> QED  BY ONLY <3>2, sub \in SUBSET B
  <2>2. CASE sub # {}
    <3>1. PICK y \in sub : TRUE
      BY <2>2
    <3> DEFINE t == sub \ {y}
               u == {x} \X sub
    <3>2. SumOf(h, {x} \X t) = SumOf(f, t)
      BY <1>2
    <3>3. {x} \X t = u \ {<<x, y>>} /\ <<x, y>> \in u
      BY <3>1
    <3>4. Summable(h, u) /\ Summable(f, sub)
      BY <1>1
    <3> HIDE DEF t, u
    <3>5. SumOf(h, u) = h[<<x, y>>] + SumOf(h, u \ {<<x, y>>})
      BY ONLY <3>3, <3>4, SumTake
    <3>6. SumOf(f, sub) = f[y] + SumOf(f, t)
      BY ONLY <3>1, <3>4, SumTake DEF t
    <3>7. h[<<x, y>>] = f[y]
      BY <3>1
    <3>8. SumOf(h, u) = SumOf(f, sub)
      BY ONLY <3>2, <3>3, <3>5, <3>6, <3>7
    <3> QED  BY ONLY <3>8, sub \in SUBSET B DEF u
  <2> QED  BY <2>1, <2>2
<1>3. \A sub \in SUBSET B : sub \in P
  <2> HIDE DEF P
  <2>1. IsFiniteSet(B)
    BY DEF Summable
  <2> QED  BY <1>2, <2>1, FiniteDescent
<1>4. B \in SUBSET B
  OBVIOUS
<1> QED  BY ONLY <1>3, <1>4

\* as a sum of sums.
LEMMA SumPairs ==
    ASSUME NEW A, NEW B, IsFiniteSet(A), IsFiniteSet(B), NEW f, NEW h,
           \A x \in A : \A y \in B : f[x][y] \in Nat /\ h[<<x, y>>] = f[x][y],
           NEW g, \A x \in A : g[x] = SumOf(f[x], B)
    PROVE  SumOf(h, A \X B) = SumOf(g, A)
<1> DEFINE P == {sub \in SUBSET A : SumOf(h, sub \X B) = SumOf(g, sub)}
           U == A \X B
<1>0. \A x \in A : Summable(f[x], B) /\ SumOf(f[x], B) \in Nat
  <2>1. ASSUME NEW x \in A
        PROVE  Summable(f[x], B) /\ SumOf(f[x], B) \in Nat
    <3>1. Summable(f[x], B)
      BY DEF Summable
    <3> QED  BY ONLY <3>1, SumTake
  <2> QED  BY ONLY <2>1
<1>1. Summable(g, A)
  BY <1>0 DEF Summable
<1>2. Summable(h, U)
  <2>1. IsFiniteSet(U)
    BY FS_Product
  <2>2. \A p \in U : h[p] \in Nat
    OBVIOUS
  <2> QED  BY ONLY <2>1, <2>2 DEF Summable
<1>3. ASSUME NEW sub \in SUBSET A, \A x \in sub : sub \ {x} \in P
      PROVE  sub \in P
  <2>1. CASE sub = {}
    <3>1. sub \X B = {}
      BY <2>1
    <3>2. SumOf(h, sub \X B) = 0 /\ SumOf(g, sub) = 0
      BY ONLY <2>1, <3>1, SumNone
    <3> QED  BY ONLY <3>2, sub \in SUBSET A
  <2>2. CASE sub # {}
    <3>1. PICK x \in sub : TRUE
      BY <2>2
    <3> DEFINE t == sub \ {x}
               X == {x} \X B
               T == t \X B
    <3>2. SumOf(h, T) = SumOf(g, t)
      BY <1>3
    <3>3. X \in SUBSET U /\ T \in SUBSET U /\ X \cap T = {} /\ sub \X B = X \cup T
      BY <3>1
    <3>4. SumOf(h, X) = SumOf(f[x], B)
      <4>1. Summable(f[x], B) /\ \A y \in B : h[<<x, y>>] = f[x][y]
        BY <1>0, <3>1
      <4> DEFINE r == f[x]
      <4> HIDE DEF r
      <4>2. Summable(r, B) /\ RowIs(h, x, r, B)
        BY ONLY <4>1 DEF r, RowIs
      <4>3. SumOf(h, Row(x, B)) = SumOf(r, B)
        BY ONLY <4>2, SumRow
      <4> QED  BY ONLY <4>3 DEF r, Row
    <3> HIDE DEF t, X, T, U
    <3>5. SumOf(h, X \cup T) = SumOf(h, X) + SumOf(h, T)
      BY ONLY <1>2, <3>3, SumJoin
    <3>6. SumOf(g, sub) = g[x] + SumOf(g, t)
      <4>1. Summable(g, sub)
        BY <1>1, CountsLess
      <4> QED  BY ONLY <3>1, <4>1, SumTake DEF t
    <3>7. g[x] = SumOf(f[x], B)
      BY <3>1
    <3>8. SumOf(h, sub \X B) = SumOf(g, sub)
      BY ONLY <3>2, <3>3, <3>4, <3>5, <3>6, <3>7
    <3> QED  BY ONLY <3>8, sub \in SUBSET A
  <2> QED  BY <2>1, <2>2
<1>4. \A sub \in SUBSET A : sub \in P
  <2> HIDE DEF P
  <2> QED  BY <1>3, FiniteDescent
<1>5. A \in SUBSET A
  OBVIOUS
<1> QED  BY ONLY <1>4, <1>5

-----------------------------------------------------------------------------
(***************************************************************************)
(* Walks: what the recursive function of LinkGraphProperties is.           *)
(***************************************************************************)
WalkBody(m, N, a, f, k) ==
    [b \in 1..m |-> IF k = 0 THEN (IF a = b THEN 1 ELSE 0) ELSE SumOf(f[k - 1], N[b])]

IsWalks(m, N, a, f) ==
    /\ f \in [0..m -> [1..m -> Nat]]
    /\ f[0] = [b \in 1..m |-> IF a = b THEN 1 ELSE 0]
    /\ \A k \in 1..m : f[k] = [b \in 1..m |-> SumOf(f[k - 1], N[b])]

LEMMA WalksRecursion ==
    ASSUME NEW m, NEW N, NEW a
    PROVE  Walks(m, N, a) = CHOOSE f : f = [k \in 0..m |-> WalkBody(m, N, a, f, k)]
BY DEF Walks, WalkBody, SumOf

LEMMA WalksUpTo ==
    ASSUME NEW m \in Nat, NEW N, NEW a, NEW k \in Nat
    PROVE  \E f : \A i \in 0..m : i < k => f[i] = WalkBody(m, N, a, f, i)
<1> DEFINE OK(h) == \E f : \A i \in 0..m : i < h => f[i] = WalkBody(m, N, a, f, i)
           Out == {h \in Nat : ~OK(h)}
<1> SUFFICES ASSUME k \in Out PROVE FALSE
  OBVIOUS
<1>1. Out \subseteq Nat /\ Out # {}
  OBVIOUS
<1>2. PICK h \in Out : \A j \in Out : h <= j
  <2> HIDE DEF Out
  <2> QED  BY ONLY <1>1, LeastExists
<1>3. h \in Nat /\ ~OK(h)
  OBVIOUS
<1>5. h # 0
  <2>1. ASSUME h = 0 PROVE OK(h)
    BY <2>1
  <2> QED  BY <1>3, <2>1
<1>6. OK(h - 1)
  <2>1. h - 1 \in Nat /\ ~(h <= h - 1)
    BY ONLY <1>3, <1>5
  <2>2. h - 1 \notin Out
    BY ONLY <1>2, <2>1
  <2> HIDE DEF OK
  <2> QED  BY ONLY <2>1, <2>2 DEF Out
<1>7. PICK f : \A i \in 0..m : i < h - 1 => f[i] = WalkBody(m, N, a, f, i)
  BY ONLY <1>6
<1> DEFINE e == [i \in 0..m |-> WalkBody(m, N, a, f, i)]
<1>8. ASSUME NEW i \in 0..m, i < h
      PROVE  e[i] = WalkBody(m, N, a, e, i)
  <2>1. e[i] = WalkBody(m, N, a, f, i)
    OBVIOUS
  <2>2. CASE i = 0
    BY <2>1, <2>2 DEF WalkBody
  <2>3. CASE i # 0
    <3>1. i - 1 \in 0..m /\ i - 1 < h - 1
      BY <1>3, <1>8, <2>3
    <3>2. e[i - 1] = WalkBody(m, N, a, f, i - 1) /\ f[i - 1] = WalkBody(m, N, a, f, i - 1)
      BY <1>7, <3>1
    <3> HIDE DEF e
    <3>3. e[i - 1] = f[i - 1]
      BY ONLY <3>2
    <3> QED  BY ONLY <2>1, <3>3 DEF WalkBody
  <2> QED  BY <2>2, <2>3
<1>9. OK(h)
  <2> HIDE DEF e
  <2> QED  BY ONLY <1>8
<1> QED  BY ONLY <1>3, <1>9

\* The recursion is one that is there: the walks of k links are those of k - 1, and a link.
LEMMA WalksAre ==
    ASSUME NEW m, NEW N, IsGraph(m, N), NEW a \in 1..m
    PROVE  IsWalks(m, N, a, Walks(m, N, a))
<1> DEFINE w == Walks(m, N, a)
<1>1. m \in Nat /\ N \in [1..m -> SUBSET (1..m)]
  BY DEF IsGraph
<1>2. \E f : f = [k \in 0..m |-> WalkBody(m, N, a, f, k)]
  <2>1. m + 1 \in Nat
    BY <1>1
  <2>2. PICK e : \A i \in 0..m : i < m + 1 => e[i] = WalkBody(m, N, a, e, i)
    BY ONLY <1>1, <2>1, WalksUpTo
  <2>3. \A i \in 0..m : e[i] = WalkBody(m, N, a, e, i)
    BY <1>1, <2>2
  <2> DEFINE d == [i \in 0..m |-> e[i]]
  <2>4. ASSUME NEW i \in 0..m
        PROVE  d[i] = WalkBody(m, N, a, d, i)
    <3>1. d[i] = WalkBody(m, N, a, e, i)
      BY <2>3
    <3>2. CASE i = 0
      BY <3>1, <3>2 DEF WalkBody
    <3>3. CASE i # 0
      <4>1. i - 1 \in 0..m
        BY <1>1, <3>3
      <4>2. d[i - 1] = e[i - 1]
        BY <4>1
      <4> HIDE DEF d
      <4> QED  BY ONLY <3>1, <4>2 DEF WalkBody
    <3> QED  BY <3>2, <3>3
  <2>5. d = [i \in 0..m |-> d[i]]
    OBVIOUS
  <2> HIDE DEF d
  <2>6. d = [i \in 0..m |-> WalkBody(m, N, a, d, i)]
    BY ONLY <2>4, <2>5
  <2> QED  BY ONLY <2>6
<1>3. w = [k \in 0..m |-> WalkBody(m, N, a, w, k)]
  <2> DEFINE f == CHOOSE e : e = [k \in 0..m |-> WalkBody(m, N, a, e, k)]
  <2>1. f = [k \in 0..m |-> WalkBody(m, N, a, f, k)]
    BY ONLY <1>2, Zenon
  <2>2. w = f
    BY WalksRecursion
  <2> HIDE DEF w, f
  <2> QED  BY ONLY <2>1, <2>2
<1> HIDE DEF w
<1>4. \A k \in 0..m : w[k] = WalkBody(m, N, a, w, k)
  BY ONLY <1>3
<1>5. w[0] = [b \in 1..m |-> IF a = b THEN 1 ELSE 0]
  <2>1. 0 \in 0..m
    BY <1>1
  <2> QED  BY ONLY <1>4, <2>1 DEF WalkBody
<1>6. ASSUME NEW k \in 1..m
      PROVE  w[k] = [b \in 1..m |-> SumOf(w[k - 1], N[b])]
  <2>1. k \in 0..m /\ k # 0
    BY <1>1
  <2> QED  BY ONLY <1>4, <2>1 DEF WalkBody
<1> DEFINE Out == {k \in 0..m : w[k] \notin [1..m -> Nat]}
<1>7. Out = {}
  <2> SUFFICES ASSUME Out # {} PROVE FALSE
    OBVIOUS
  <2>1. Out \subseteq Nat
    BY <1>1
  <2>2. PICK k \in Out : \A j \in Out : k <= j
    <3> HIDE DEF Out
    <3> QED  BY ONLY Out # {}, <2>1, LeastExists
  <2>3. k \in 0..m /\ w[k] \notin [1..m -> Nat]
    OBVIOUS
  <2>4. k # 0
    BY <1>5, <2>3
  <2>5. k \in 1..m /\ k - 1 \in 0..m /\ ~(k <= k - 1)
    BY ONLY <1>1, <2>3, <2>4
  <2>6. k - 1 \notin Out
    BY ONLY <2>2, <2>5
  <2>7. w[k - 1] \in [1..m -> Nat]
    BY ONLY <2>5, <2>6 DEF Out
  <2>8. ASSUME NEW b \in 1..m
        PROVE  SumOf(w[k - 1], N[b]) \in Nat
    <3> DEFINE g == w[k - 1]
               S == N[b]
    <3>1. S \in SUBSET (1..m) /\ g \in [1..m -> Nat]
      BY <1>1, <2>7
    <3> HIDE DEF g, S
    <3>2. Summable(g, S)
      <4>1. IsFiniteSet(S)
        BY ONLY <1>1, <3>1, PositionsInOrder
      <4> QED  BY ONLY <3>1, <4>1 DEF Summable
    <3>3. SumOf(g, S) \in Nat
      BY ONLY <3>2, SumTake
    <3> QED  BY ONLY <3>3 DEF g, S
  <2>9. w[k] = [b \in 1..m |-> SumOf(w[k - 1], N[b])]
    BY <1>6, <2>5
  <2>10. w[k] \in [1..m -> Nat]
    BY ONLY <2>8, <2>9
  <2> QED  BY ONLY <2>3, <2>10
<1>8. \A k \in 0..m : w[k] \in [1..m -> Nat]
  BY ONLY <1>7
<1>9. w \in [0..m -> [1..m -> Nat]]
  BY ONLY <1>3, <1>8
<1> QED  BY ONLY <1>5, <1>6, <1>9 DEF IsWalks, w

-----------------------------------------------------------------------------
\* What holds of a number as soon as it holds of all below it.
LEMMA Upwards ==
    ASSUME NEW m \in Nat, NEW P, \A k \in 0..m : (\A j \in 0..m : j < k => j \in P) => k \in P
    PROVE  \A k \in 0..m : k \in P
<1> DEFINE Out == {k \in 0..m : k \notin P}
<1> SUFFICES ASSUME Out # {} PROVE FALSE
  OBVIOUS
<1>1. Out \subseteq Nat
  OBVIOUS
<1>2. PICK k \in Out : \A j \in Out : k <= j
  <2> HIDE DEF Out
  <2> QED  BY ONLY Out # {}, <1>1, LeastExists
<1>3. ASSUME NEW j \in 0..m, j < k
      PROVE  j \in P
  <2>1. k \in 0..m /\ j \in 0..m /\ ~(k <= j)
    BY <1>3
  <2> QED  BY <1>2, <2>1
<1>4. k \in 0..m /\ k \notin P
  OBVIOUS
<1> QED  BY ONLY <1>3, <1>4, \A i \in 0..m : (\A j \in 0..m : j < i => j \in P) => i \in P

LEMMA SumUnit ==
    ASSUME NEW S, IsFiniteSet(S), NEW g, NEW x, \A y \in S : g[y] = IF y = x THEN 1 ELSE 0
    PROVE  SumOf(g, S) = IF x \in S THEN 1 ELSE 0
<1>1. Summable(g, S)
  BY DEF Summable
<1>2. CASE x \in S
  <2> DEFINE T == S \ {x}
  <2>1. IsFiniteSet(T) /\ \A y \in T : g[y] = 0
    BY FS_Subset
  <2>2. SumOf(g, S) = g[x] + SumOf(g, T) /\ g[x] = 1
    BY <1>1, <1>2, SumTake
  <2> HIDE DEF T
  <2>3. SumOf(g, T) = 0
    BY ONLY <2>1, SumZero
  <2> QED  BY ONLY <1>2, <2>2, <2>3
<1>3. CASE x \notin S
  <2>1. \A y \in S : g[y] = 0
    BY <1>3
  <2>2. SumOf(g, S) = 0
    BY ONLY IsFiniteSet(S), <2>1, SumZero
  <2> QED  BY ONLY <1>3, <2>2
<1> QED  BY <1>2, <1>3

AllWalks(m, N, W) == IsGraph(m, N) /\ \A a \in 1..m : IsWalks(m, N, a, W[a])

From(m, W, k, b) == [c \in 1..m |-> W[c][k][b]]

\* What is used of walks.
LEMMA WalkFacts ==
    ASSUME NEW m, NEW N, NEW W, AllWalks(m, N, W)
    PROVE  /\ m \in Nat
           /\ \A a, b \in 1..m : W[a][0][b] = IF a = b THEN 1 ELSE 0
           /\ \A a, b \in 1..m : \A k \in 0..m : W[a][k][b] \in Nat
           /\ \A a, b \in 1..m : \A k \in 1..m : W[a][k][b] = SumOf(W[a][k - 1], N[b])
           /\ \A a \in 1..m : N[a] \in SUBSET (1..m) /\ IsFiniteSet(N[a])
           /\ \A a, b \in 1..m : \A k \in 0..m : Summable(W[a][k], N[b]) /\ Summable(From(m, W, k, a), N[b])
           /\ \A a, b \in 1..m : a \in N[b] <=> b \in N[a]
<1>1. m \in Nat /\ \A a \in 1..m : N[a] \in SUBSET (1..m)
  BY DEF AllWalks, IsGraph
<1>2. \A a \in 1..m : IsFiniteSet(N[a])
  BY ONLY <1>1, PositionsInOrder
<1>3. \A a \in 1..m : IsWalks(m, N, a, W[a])
  BY DEF AllWalks
<1>4. ASSUME NEW a \in 1..m, NEW b \in 1..m, NEW k \in 0..m
      PROVE  W[a][k][b] \in Nat
  <2> DEFINE w == W[a]
  <2>1. IsWalks(m, N, a, w)
    BY ONLY <1>3, a \in 1..m
  <2> HIDE DEF w
  <2>3. w \in [0..m -> [1..m -> Nat]]
    BY ONLY <2>1 DEF IsWalks
  <2>2. w[k][b] \in Nat
    BY ONLY <2>3, b \in 1..m, k \in 0..m
  <2> QED  BY ONLY <2>2 DEF w
<1>5. ASSUME NEW a \in 1..m, NEW b \in 1..m, NEW k \in 0..m
      PROVE  Summable(W[a][k], N[b]) /\ Summable(From(m, W, k, a), N[b])
  <2>1. \A c \in N[b] : W[a][k][c] \in Nat /\ From(m, W, k, a)[c] \in Nat
    BY <1>1, <1>4 DEF From
  <2> QED  BY ONLY <1>2, <2>1, b \in 1..m DEF Summable
<1>6. ASSUME NEW a \in 1..m, NEW b \in 1..m
      PROVE  W[a][0][b] = IF a = b THEN 1 ELSE 0
  <2> DEFINE w == W[a]
  <2>1. IsWalks(m, N, a, w)
    BY ONLY <1>3, a \in 1..m
  <2> HIDE DEF w
  <2>2. w[0][b] = IF a = b THEN 1 ELSE 0
    BY ONLY <2>1, b \in 1..m DEF IsWalks
  <2> QED  BY ONLY <2>2 DEF w
<1>7. ASSUME NEW a \in 1..m, NEW b \in 1..m, NEW k \in 1..m
      PROVE  W[a][k][b] = SumOf(W[a][k - 1], N[b])
  <2> DEFINE w == W[a]
  <2>1. IsWalks(m, N, a, w)
    BY ONLY <1>3, a \in 1..m
  <2> HIDE DEF w
  <2>2. w[k] = [c \in 1..m |-> SumOf(w[k - 1], N[c])]
    BY ONLY <2>1, k \in 1..m DEF IsWalks
  <2>3. w[k][b] = SumOf(w[k - 1], N[b])
    BY ONLY <2>2, b \in 1..m
  <2> QED  BY ONLY <2>3 DEF w
<1>8. \A a, b \in 1..m : a \in N[b] <=> b \in N[a]
  BY DEF AllWalks, IsGraph
<1> QED  BY ONLY <1>1, <1>2, <1>4, <1>5, <1>6, <1>7, <1>8

(***************************************************************************)
(* A walk may be taken apart at its first link as well as at its last.     *)
(***************************************************************************)
StartsAnywhere(m, N, W, k) ==
    \A a, b \in 1..m : W[a][k][b] = SumOf(From(m, W, k - 1, b), N[a])

LEMMA OneLink ==
    ASSUME NEW m, NEW N, NEW W, AllWalks(m, N, W), 1 \in 1..m
    PROVE  StartsAnywhere(m, N, W, 1)
<1> SUFFICES ASSUME NEW a \in 1..m, NEW b \in 1..m
             PROVE  W[a][1][b] = SumOf(From(m, W, 0, b), N[a])
  BY DEF StartsAnywhere
<1>1. W[a][1][b] = SumOf(W[a][0], N[b])
  BY WalkFacts
<1>2. SumOf(W[a][0], N[b]) = IF a \in N[b] THEN 1 ELSE 0
  <2>1. IsFiniteSet(N[b]) /\ \A y \in N[b] : W[a][0][y] = IF y = a THEN 1 ELSE 0
    BY WalkFacts
  <2> DEFINE S == N[b]
             g == W[a][0]
  <2> HIDE DEF S, g
  <2>2. SumOf(g, S) = IF a \in S THEN 1 ELSE 0
    BY <2>1, SumUnit DEF S, g
  <2> QED  BY ONLY <2>2 DEF S, g
<1>3. SumOf(From(m, W, 0, b), N[a]) = IF b \in N[a] THEN 1 ELSE 0
  <2>1. IsFiniteSet(N[a]) /\ \A y \in N[a] : From(m, W, 0, b)[y] = IF y = b THEN 1 ELSE 0
    BY WalkFacts DEF From
  <2> DEFINE S == N[a]
             g == From(m, W, 0, b)
  <2> HIDE DEF S, g
  <2>2. SumOf(g, S) = IF b \in S THEN 1 ELSE 0
    BY <2>1, SumUnit DEF S, g
  <2> QED  BY ONLY <2>2 DEF S, g
<1>4. a \in N[b] <=> b \in N[a]
  BY WalkFacts
<1> QED  BY ONLY <1>1, <1>2, <1>3, <1>4

LEMMA OneMoreLink ==
    ASSUME NEW m, NEW N, NEW W, AllWalks(m, N, W), NEW k \in 1..m, k + 1 \in 1..m,
           StartsAnywhere(m, N, W, k)
    PROVE  StartsAnywhere(m, N, W, k + 1)
<1> SUFFICES ASSUME NEW a \in 1..m, NEW b \in 1..m
             PROVE  W[a][k + 1][b] = SumOf(From(m, W, k, b), N[a])
  <2>1. (k + 1) - 1 = k
    BY WalkFacts
  <2> QED  BY <2>1 DEF StartsAnywhere
<1> DEFINE A == N[b]
           B == N[a]
           f == [c \in 1..m |-> From(m, W, k - 1, c)]
           col == [x \in 1..m |-> W[x][k - 1]]
           g == W[a][k]
           h == From(m, W, k, b)
<1>0. m \in Nat /\ k - 1 \in 0..m /\ k \in 0..m /\ (k + 1) - 1 = k
  BY WalkFacts
<1>1. A \in SUBSET (1..m) /\ B \in SUBSET (1..m) /\ IsFiniteSet(A) /\ IsFiniteSet(B)
  BY WalkFacts
<1>2. \A x \in A : \A y \in B : f[x][y] \in Nat /\ col[y][x] = f[x][y]
  BY <1>0, <1>1, WalkFacts DEF From
<1>3. \A x \in A : g[x] = SumOf(f[x], B)
  BY <1>1 DEF StartsAnywhere
<1>4. W[a][k + 1][b] = SumOf(g, A)
  <2>1. W[a][k + 1][b] = SumOf(W[a][(k + 1) - 1], N[b])
    BY WalkFacts
  <2> QED  BY ONLY <1>0, <2>1
<1>5. ASSUME NEW y \in B
      PROVE  SumOf(col[y], A) = h[y]
  <2>1. y \in 1..m
    BY <1>1
  <2>2. W[y][k][b] = SumOf(W[y][k - 1], N[b])
    BY <2>1, WalkFacts
  <2> QED  BY <2>1, <2>2 DEF From
<1>6. Summable(h, B)
  BY <1>0, WalkFacts
<1> HIDE DEF A, B, f, col, g, h
<1>7. SumOf(g, A) = SumOf(Columns(col, B, A), B)
  <2>1. Tables(A, B, f, col)
    BY ONLY <1>2 DEF Tables
  <2>2. IsTotal(g, f, A, B)
    BY ONLY <1>3 DEF IsTotal
  <2> QED  BY ONLY <1>1, <2>1, <2>2, SumSwap
<1>8. SumOf(Columns(col, B, A), B) = SumOf(h, B)
  <2>1. SameOn(Columns(col, B, A), h, B)
    BY ONLY <1>5 DEF SameOn, Columns
  <2> QED  BY ONLY <1>6, <2>1, SumSame
<1> QED  BY ONLY <1>4, <1>7, <1>8 DEF h, B

\* Walks counted by their first link instead of their last.
LEMMA StartsAnyhow ==
    ASSUME NEW m, NEW N, NEW W, AllWalks(m, N, W)
    PROVE  \A k \in 1..m : StartsAnywhere(m, N, W, k)
<1>1. m \in Nat
  BY WalkFacts
<1> DEFINE P == {k \in 0..m : k = 0 \/ StartsAnywhere(m, N, W, k)}
<1>2. ASSUME NEW k \in 0..m, \A j \in 0..m : j < k => j \in P
      PROVE  k \in P
  <2>1. CASE k = 0
    BY <2>1
  <2>2. CASE k = 1
    BY <2>2, <1>1, OneLink
  <2>3. CASE k # 0 /\ k # 1
    <3>1. k - 1 \in 1..m /\ (k - 1) + 1 = k /\ k - 1 < k /\ k - 1 \in 0..m /\ k - 1 # 0 /\ k \in 1..m
      BY <1>1, <2>3
    <3>2. StartsAnywhere(m, N, W, k - 1)
      BY <1>2, <3>1
    <3> DEFINE i == k - 1
    <3> HIDE DEF i
    <3>3. StartsAnywhere(m, N, W, i + 1)
      BY <3>1, <3>2, OneMoreLink DEF i
    <3> QED  BY <3>1, <3>3 DEF i
  <2> QED  BY <2>1, <2>2, <2>3
<1>3. \A k \in 0..m : k \in P
  <2> HIDE DEF P
  <2> QED  BY ONLY <1>1, <1>2, Upwards
<1>4. \A k \in 1..m : k \in 0..m /\ k # 0
  BY <1>1
<1> QED  BY ONLY <1>3, <1>4

-----------------------------------------------------------------------------
(***************************************************************************)
(* What a breadth first search from src leaves behind: distances d, in     *)
(* which no link leads more than one further, and the numbers g of         *)
(* shortest paths, which add up link by link.                              *)
(***************************************************************************)
Above(N, d, v) == {u \in N[v] : d[u] + 1 = d[v]}
Below(N, d, v) == {x \in N[v] : d[x] = d[v] + 1}

Layered(m, N, src, d, g) ==
    /\ src \in 1..m /\ d \in [1..m -> 0..m] /\ g \in [1..m -> Nat]
    /\ d[src] = 0 /\ g[src] = 1 /\ \A v \in 1..m : d[v] = 0 => v = src
    /\ \A v \in 1..m : d[v] # m => \A w \in N[v] : d[w] # m /\ d[w] <= d[v] + 1
    /\ \A v \in 1..m : v # src => g[v] = SumOf(g, Above(N, d, v))
    /\ \A v \in 1..m : d[v] = m <=> g[v] = 0

LEMMA LayersType ==
    ASSUME NEW m, NEW N, NEW src, NEW d, NEW g, Layered(m, N, src, d, g), m \in Nat
    PROVE  /\ src \in 1..m /\ d[src] = 0 /\ g[src] = 1 /\ m # 0
           /\ \A v \in 1..m : d[v] \in 0..m /\ d[v] \in Nat /\ d[v] <= m /\ g[v] \in Nat
<1>1. src \in 1..m /\ d[src] = 0 /\ g[src] = 1 /\ d \in [1..m -> 0..m] /\ g \in [1..m -> Nat]
  BY DEF Layered
<1> QED  BY ONLY <1>1, m \in Nat

\* No link leads past the next layer.
LEMMA NoJump ==
    ASSUME NEW m, NEW N, NEW src, NEW d, NEW g, Layered(m, N, src, d, g),
           NEW v \in 1..m, d[v] # m, NEW w \in N[v]
    PROVE  d[w] # m /\ d[w] <= d[v] + 1
BY DEF Layered

\* A walk of k links gets no more than k away.
NoFarther(m, W, d, k) ==
    \A v, t \in 1..m : d[v] # m /\ W[v][k][t] # 0 => d[t] # m /\ d[t] <= d[v] + k

LEMMA OneFarther ==
    ASSUME NEW m, NEW N, NEW W, AllWalks(m, N, W), NEW src, NEW d, NEW g, Layered(m, N, src, d, g),
           NEW k \in 1..m, NoFarther(m, W, d, k - 1)
    PROVE  NoFarther(m, W, d, k)
<1> SUFFICES ASSUME NEW v \in 1..m, NEW t \in 1..m, d[v] # m, W[v][k][t] # 0
             PROVE  d[t] # m /\ d[t] <= d[v] + k
  BY DEF NoFarther
<1> DEFINE S == N[t]
           f == W[v][k - 1]
<1>1. m \in Nat /\ S \in SUBSET (1..m) /\ IsFiniteSet(S)
  BY WalkFacts
<1>2. SumOf(f, S) # 0
  BY WalkFacts
<1>3. PICK c \in S : f[c] # 0
  <2> HIDE DEF f, S
  <2> QED  BY ONLY <1>1, <1>2, SumZero
<1>4. c \in 1..m
  BY <1>1
<1>5. d[c] # m /\ d[c] <= d[v] + (k - 1)
  BY <1>3, <1>4 DEF NoFarther
<1>6. t \in N[c]
  BY <1>3, <1>4, WalkFacts
<1>7. d[t] # m /\ d[t] <= d[c] + 1
  BY <1>4, <1>5, <1>6, NoJump
<1>8. d[t] \in Nat /\ d[c] \in Nat /\ d[v] \in Nat
  BY <1>1, <1>4, LayersType
<1> QED  BY ONLY <1>1, <1>5, <1>7, <1>8, k \in 1..m

\* Nothing is nearer than its layer,
LEMMA WalksReach ==
    ASSUME NEW m, NEW N, NEW W, AllWalks(m, N, W), NEW src, NEW d, NEW g, Layered(m, N, src, d, g)
    PROVE  \A k \in 0..m : NoFarther(m, W, d, k)
<1>1. m \in Nat
  BY WalkFacts
<1> DEFINE P == {k \in 0..m : NoFarther(m, W, d, k)}
<1>2. ASSUME NEW k \in 0..m, \A j \in 0..m : j < k => j \in P
      PROVE  k \in P
  <2>1. CASE k = 0
    <3>1. ASSUME NEW v \in 1..m, NEW t \in 1..m, d[v] # m, W[v][0][t] # 0
          PROVE  d[t] # m /\ d[t] <= d[v] + 0
      <4>1. v = t
        BY <3>1, WalkFacts
      <4>2. d[v] \in Nat
        BY <1>1, LayersType
      <4> QED  BY ONLY <3>1, <4>1, <4>2
    <3>2. NoFarther(m, W, d, 0)
      BY ONLY <3>1 DEF NoFarther
    <3> QED  BY <2>1, <3>2
  <2>2. CASE k # 0
    <3>1. k - 1 \in 0..m /\ k - 1 < k /\ k \in 1..m
      BY ONLY <1>1, <2>2, k \in 0..m
    <3>2. NoFarther(m, W, d, k - 1)
      BY <1>2, <3>1
    <3>3. NoFarther(m, W, d, k)
      BY <3>1, <3>2, OneFarther
    <3> QED  BY <3>3
  <2> QED  BY <2>1, <2>2
<1>3. \A k \in 0..m : k \in P
  <2> HIDE DEF P
  <2> QED  BY ONLY <1>1, <1>2, Upwards
<1> QED  BY ONLY <1>3

\* The walks from src that are as long as the distance are those g counts.
LEMMA LayerCount ==
    ASSUME NEW m, NEW N, NEW W, AllWalks(m, N, W), NEW src, NEW d, NEW g, Layered(m, N, src, d, g)
    PROVE  \A t \in 1..m : d[t] # m => W[src][d[t]][t] = g[t]
<1>1. m \in Nat /\ src \in 1..m /\ d[src] = 0 /\ g[src] = 1 /\ m # 0
  BY WalkFacts, LayersType
<1> DEFINE P == {k \in 0..m : \A t \in 1..m : d[t] = k /\ k # m => W[src][k][t] = g[t]}
<1>2. ASSUME NEW k \in 0..m, \A j \in 0..m : j < k => j \in P,
             NEW t \in 1..m, d[t] = k, k # m
      PROVE  W[src][k][t] = g[t]
  <2>1. CASE k = 0
    <3>1. t = src
      BY <1>2, <2>1 DEF Layered
    <3>2. W[src][0][src] = 1
      BY <1>1, WalkFacts
    <3> QED  BY ONLY <1>1, <2>1, <3>1, <3>2
  <2>2. CASE k # 0
    <3> DEFINE S == N[t]
               T == Above(N, d, t)
               f == W[src][k - 1]
    <3>1. k - 1 \in 0..m /\ k - 1 < k /\ k \in 1..m /\ k - 1 # m
      BY ONLY <1>1, <2>2, k \in 0..m
    <3>2. W[src][k][t] = SumOf(f, S)
      BY <1>1, <3>1, WalkFacts
    <3>3. Summable(f, S) /\ T \in SUBSET S /\ S \in SUBSET (1..m)
      BY <1>1, <3>1, WalkFacts DEF Above
    <3>4. ASSUME NEW c \in S, f[c] # 0
          PROVE  c \in T
      <4>1. c \in 1..m /\ t \in N[c]
        BY <3>3, WalkFacts
      <4>2. d[c] # m /\ d[c] <= d[src] + (k - 1)
        BY <1>1, <3>1, <3>4, <4>1, WalksReach DEF NoFarther
      <4>3. d[t] <= d[c] + 1
        BY <4>1, <4>2, NoJump
      <4>4. d[c] \in Nat
        BY <1>1, <4>1, LayersType
      <4>5. d[c] + 1 = d[t]
        BY ONLY <1>1, <1>2, <3>1, <4>2, <4>3, <4>4
      <4> QED  BY <4>5 DEF Above
    <3>5. ASSUME NEW c \in T
          PROVE  g[c] = f[c]
      <4>1. c \in 1..m /\ d[c] + 1 = k
        BY <1>2, <3>3 DEF Above
      <4>2. d[c] = k - 1
        <5>1. d[c] \in Nat
          BY <1>1, <4>1, LayersType
        <5> QED  BY ONLY <4>1, <5>1, k \in 0..m
      <4> QED  BY <1>2, <3>1, <4>1, <4>2
    <3>6. g[t] = SumOf(g, T)
      <4>1. t # src
        BY <1>1, <1>2, <2>2
      <4> QED  BY <4>1 DEF Layered
    <3> HIDE DEF S, T, f
    <3>7. SumOf(f, S) = SumOf(f, T)
      <4>1. \A x \in S \ T : f[x] = 0
        BY ONLY <3>4
      <4> QED  BY ONLY <3>3, <4>1, SumWithin
    <3>8. SumOf(g, T) = SumOf(f, T)
      <4>1. Summable(f, T)
        BY ONLY <3>3, CountsLess
      <4>2. SameOn(g, f, T)
        BY ONLY <3>5 DEF SameOn
      <4> QED  BY ONLY <4>1, <4>2, SumSame
    <3> QED  BY ONLY <3>2, <3>6, <3>7, <3>8
  <2> QED  BY <2>1, <2>2
<1>3. ASSUME NEW k \in 0..m, \A j \in 0..m : j < k => j \in P
      PROVE  k \in P
  BY <1>2, <1>3
<1>4. \A k \in 0..m : k \in P
  <2> HIDE DEF P
  <2> QED  BY ONLY <1>1, <1>3, Upwards
<1>5. \A t \in 1..m : d[t] \in 0..m
  BY <1>1, LayersType
<1> QED  BY ONLY <1>4, <1>5

-----------------------------------------------------------------------------
(***************************************************************************)
(* The definition of the property and the layers tell the same.            *)
(***************************************************************************)
FirstAt(m, f, b, k) == k \in 0..(m - 1) /\ f[k][b] # 0 /\ \A j \in 0..(k - 1) : f[j][b] = 0

AllOf(m, N) == [a \in 1..m |-> Walks(m, N, a)]

\* The walks of LinkGraphProperties, from every node.
LEMMA AllOfThem ==
    ASSUME NEW m, NEW N, IsGraph(m, N)
    PROVE  AllWalks(m, N, AllOf(m, N))
<1>1. ASSUME NEW a \in 1..m
      PROVE  IsWalks(m, N, a, AllOf(m, N)[a])
  <2>1. AllOf(m, N)[a] = Walks(m, N, a)
    BY DEF AllOf
  <2>2. IsWalks(m, N, a, Walks(m, N, a))
    BY WalksAre
  <2> QED  BY ONLY <2>1, <2>2
<1> QED  BY ONLY <1>1, IsGraph(m, N) DEF AllWalks

\* Shortest, without the choice in it.
LEMMA ShortestIs ==
    ASSUME NEW m \in Nat, NEW N, NEW a \in 1..m, NEW b \in 1..m, NEW f, f = Walks(m, N, a)
    PROVE  /\ (\A k \in 0..(m - 1) : f[k][b] = 0) => Shortest(m, N, a)[b] = [far |-> m, paths |-> 0]
           /\ \A k : FirstAt(m, f, b, k) => Shortest(m, N, a)[b] = [far |-> k, paths |-> f[k][b]]
           /\ (\A k \in 0..(m - 1) : f[k][b] = 0) \/ \E k : FirstAt(m, f, b, k)
<1> DEFINE none == \A k \in 0..(m - 1) : f[k][b] = 0
           it == CHOOSE k \in 0..(m - 1) : f[k][b] # 0 /\ \A j \in 0..(k - 1) : f[j][b] = 0
<1>1. Shortest(m, N, a)[b] = IF none THEN [far |-> m, paths |-> 0]
                             ELSE [far |-> it, paths |-> f[it][b]]
  BY DEF Shortest
<1>2. ASSUME NEW k, FirstAt(m, f, b, k), NEW j, FirstAt(m, f, b, j)
      PROVE  j = k
  <2>1. k \in Nat /\ j \in Nat
    BY <1>2 DEF FirstAt
  <2>2. ~(j < k) /\ ~(k < j)
    BY <1>2, <2>1 DEF FirstAt
  <2> QED  BY ONLY <2>1, <2>2
<1>3. ASSUME NEW k, FirstAt(m, f, b, k)
      PROVE  Shortest(m, N, a)[b] = [far |-> k, paths |-> f[k][b]]
  <2>1. ~none
    BY <1>3 DEF FirstAt
  <2>2. FirstAt(m, f, b, it)
    <3>1. \E i \in 0..(m - 1) : f[i][b] # 0 /\ \A j \in 0..(i - 1) : f[j][b] = 0
      BY <1>3 DEF FirstAt
    <3>2. it \in 0..(m - 1) /\ f[it][b] # 0 /\ \A j \in 0..(it - 1) : f[j][b] = 0
      BY ONLY <3>1, Zenon
    <3> HIDE DEF it
    <3> QED  BY ONLY <3>2 DEF FirstAt
  <2> HIDE DEF it, none
  <2>3. it = k
    BY <1>2, <1>3, <2>2
  <2> QED  BY ONLY <1>1, <2>1, <2>3
<1>4. none => Shortest(m, N, a)[b] = [far |-> m, paths |-> 0]
  BY ONLY <1>1
<1>5. none \/ \E k : FirstAt(m, f, b, k)
  <2> SUFFICES ASSUME ~none PROVE \E k : FirstAt(m, f, b, k)
    OBVIOUS
  <2> DEFINE K == {k \in 0..(m - 1) : f[k][b] # 0}
  <2>1. K \subseteq Nat /\ K # {}
    OBVIOUS
  <2>2. PICK k \in K : \A j \in K : k <= j
    <3> HIDE DEF K
    <3> QED  BY ONLY <2>1, LeastExists
  <2>3. ASSUME NEW j \in 0..(k - 1)
        PROVE  f[j][b] = 0
    <3>1. k \in 0..(m - 1)
      OBVIOUS
    <3>2. j \in 0..(m - 1) /\ ~(k <= j)
      BY ONLY <3>1, m \in Nat, j \in 0..(k - 1)
    <3>3. j \notin K
      BY ONLY <2>2, <3>2
    <3> QED  BY ONLY <3>2, <3>3
  <2>4. k \in 0..(m - 1) /\ f[k][b] # 0
    OBVIOUS
  <2> QED  BY ONLY <2>3, <2>4 DEF FirstAt
<1> QED  BY ONLY <1>3, <1>4, <1>5

\* From src, the search has found just that,
LEMMA ShortestFromSource ==
    ASSUME NEW m, NEW N, IsGraph(m, N), NEW src, NEW d, NEW g, Layered(m, N, src, d, g), NEW t \in 1..m
    PROVE  Shortest(m, N, src)[t] = [far |-> d[t], paths |-> g[t]]
<1> DEFINE W == AllOf(m, N)
           f == W[src]
<1>1. AllWalks(m, N, W)
  BY AllOfThem
<1>2. f = Walks(m, N, src) /\ m \in Nat
  BY LayersType DEF AllOf, IsGraph, Layered
<1> HIDE DEF W
<1>3. src \in 1..m /\ d[src] = 0 /\ m # 0 /\ d[t] \in 0..m /\ g[t] \in Nat
  BY <1>2, LayersType
<1>4. ASSUME NEW k \in 0..(m - 1), f[k][t] # 0
      PROVE  d[t] # m /\ d[t] <= k
  <2>1. k \in 0..m /\ d[src] # m
    BY ONLY <1>2, <1>3, k \in 0..(m - 1)
  <2>2. d[t] # m /\ d[t] <= d[src] + k
    BY <1>1, <1>3, <1>4, <2>1, WalksReach DEF NoFarther
  <2> QED  BY ONLY <1>3, <2>1, <2>2
<1>5. CASE d[t] = m
  <2>1. \A k \in 0..(m - 1) : f[k][t] = 0
    BY ONLY <1>4, <1>5
  <2>2. g[t] = 0
    BY <1>5 DEF Layered
  <2>3. Shortest(m, N, src)[t] = [far |-> m, paths |-> 0]
    BY <1>2, <1>3, <2>1, ShortestIs
  <2> QED  BY ONLY <1>5, <2>2, <2>3
<1>6. CASE d[t] # m
  <2>1. f[d[t]][t] = g[t] /\ g[t] # 0
    <3>1. f[d[t]][t] = g[t]
      BY <1>1, <1>6, LayerCount
    <3>2. g[t] # 0
      BY <1>6 DEF Layered
    <3> QED  BY ONLY <3>1, <3>2
  <2>2. ASSUME NEW j \in 0..(d[t] - 1)
        PROVE  f[j][t] = 0
    <3>1. j \in 0..(m - 1) /\ ~(d[t] <= j)
      BY ONLY <1>2, <1>3, j \in 0..(d[t] - 1)
    <3> QED  BY ONLY <1>4, <3>1
  <2>3. d[t] \in 0..(m - 1)
    BY ONLY <1>2, <1>3, <1>6
  <2> DEFINE k == d[t]
  <2>6. /\ (\A i \in 0..(m - 1) : f[i][t] = 0) => Shortest(m, N, src)[t] = [far |-> m, paths |-> 0]
        /\ \A i : FirstAt(m, f, t, i) => Shortest(m, N, src)[t] = [far |-> i, paths |-> f[i][t]]
        /\ (\A i \in 0..(m - 1) : f[i][t] = 0) \/ \E i : FirstAt(m, f, t, i)
    BY ONLY <1>2, <1>3, t \in 1..m, ShortestIs
  <2> HIDE DEF f, k
  <2>4. FirstAt(m, f, t, k)
    BY ONLY <2>1, <2>2, <2>3 DEF FirstAt, k
  <2>5. Shortest(m, N, src)[t] = [far |-> k, paths |-> f[k][t]]
    BY ONLY <2>4, <2>6
  <2> QED  BY ONLY <2>1, <2>5 DEF k
<1> QED  BY <1>5, <1>6

-----------------------------------------------------------------------------
(***************************************************************************)
(* The shortest paths from v on that are the rest of a shortest path from  *)
(* src: as many as there are walks from v of the links that are missing.   *)
(***************************************************************************)
Onward(m, W, d) ==
    [v \in 1..m |-> [t \in 1..m |-> IF d[v] <= d[t] /\ d[t] # m THEN W[v][d[t] - d[v]][t] ELSE 0]]

OnwardTo(m, W, d, t) == [v \in 1..m |-> Onward(m, W, d)[v][t]]

LEMMA OnwardType ==
    ASSUME NEW m, NEW N, NEW W, AllWalks(m, N, W), NEW src, NEW d, NEW g, Layered(m, N, src, d, g),
           NEW v \in 1..m, NEW t \in 1..m
    PROVE  Onward(m, W, d)[v][t] \in Nat /\ OnwardTo(m, W, d, t)[v] = Onward(m, W, d)[v][t]
<1>1. m \in Nat
  BY WalkFacts
<1>2. d[v] \in 0..m /\ d[t] \in 0..m
  BY <1>1, LayersType
<1>3. ASSUME d[v] <= d[t]
      PROVE  W[v][d[t] - d[v]][t] \in Nat
  <2>1. d[t] - d[v] \in 0..m
    BY ONLY <1>1, <1>2, <1>3
  <2> QED  BY <2>1, WalkFacts
<1>4. Onward(m, W, d)[v][t] = IF d[v] <= d[t] /\ d[t] # m THEN W[v][d[t] - d[v]][t] ELSE 0
  BY DEF Onward
<1>5. OnwardTo(m, W, d, t)[v] = Onward(m, W, d)[v][t]
  BY DEF OnwardTo
<1> QED  BY ONLY <1>3, <1>4, <1>5

\* One path leads nowhere else.
LEMMA OnwardSelf ==
    ASSUME NEW m, NEW N, NEW W, AllWalks(m, N, W), NEW src, NEW d, NEW g, Layered(m, N, src, d, g),
           NEW v \in 1..m, d[v] # m
    PROVE  Onward(m, W, d)[v][v] = 1
<1>1. d[v] \in Nat
  BY WalkFacts, LayersType
<1>2. Onward(m, W, d)[v][v] = IF d[v] <= d[v] /\ d[v] # m THEN W[v][d[v] - d[v]][v] ELSE 0
  BY DEF Onward
<1>3. d[v] - d[v] = 0 /\ d[v] <= d[v]
  BY ONLY <1>1
<1>4. W[v][0][v] = 1
  BY WalkFacts
<1> QED  BY ONLY <1>2, <1>3, <1>4, d[v] # m

\* They are those that begin with a link from v to a node below it.
LEMMA OnwardNext ==
    ASSUME NEW m, NEW N, NEW W, AllWalks(m, N, W), NEW src, NEW d, NEW g, Layered(m, N, src, d, g),
           NEW v \in 1..m, d[v] # m, NEW t \in 1..m, t # v
    PROVE  Onward(m, W, d)[v][t] = SumOf(OnwardTo(m, W, d, t), Below(N, d, v))
<1> DEFINE Q == Onward(m, W, d)
           q == OnwardTo(m, W, d, t)
           S == N[v]
           T == Below(N, d, v)
<1>1. m \in Nat /\ S \in SUBSET (1..m) /\ IsFiniteSet(S) /\ T \in SUBSET S
  BY WalkFacts DEF Below
<1>2. d[v] \in 0..m /\ d[t] \in 0..m
  BY <1>1, LayersType
<1>3. Q[v][t] = IF d[v] <= d[t] /\ d[t] # m THEN W[v][d[t] - d[v]][t] ELSE 0
  BY DEF Onward
<1>4. ASSUME NEW x \in T
      PROVE  x \in 1..m /\ d[x] = d[v] + 1
             /\ q[x] = IF d[x] <= d[t] /\ d[t] # m THEN W[x][d[t] - d[x]][t] ELSE 0
  BY <1>1 DEF Onward, OnwardTo, Below
<1>5. CASE d[t] <= d[v] \/ d[t] = m
  <2>1. Q[v][t] = 0
    <3>1. CASE d[t] = d[v]
      <4>1. d[t] - d[v] = 0
        BY ONLY <1>2, <3>1
      <4>2. W[v][0][t] = 0
        BY WalkFacts
      <4> QED  BY ONLY <1>3, <4>1, <4>2
    <3>2. CASE d[t] # d[v]
      BY ONLY <1>1, <1>2, <1>3, <1>5, <3>2
    <3> QED  BY ONLY <3>1, <3>2
  <2>2. ASSUME NEW x \in T
        PROVE  q[x] = 0
    <3>1. ~(d[x] <= d[t]) \/ d[t] = m
      <4>1. d[x] = d[v] + 1
        BY ONLY <1>4
      <4> QED  BY ONLY <1>1, <1>2, <1>5, <4>1
    <3> QED  BY ONLY <1>4, <3>1
  <2>3. IsFiniteSet(T)
    BY ONLY <1>1, FS_Subset
  <2> HIDE DEF q, T, Q
  <2>4. SumOf(q, T) = 0
    BY ONLY <2>2, <2>3, SumZero
  <2> QED  BY ONLY <2>1, <2>4 DEF Q, q, T
<1>6. CASE d[v] < d[t] /\ d[t] # m
  <2> DEFINE k == d[t] - d[v]
             f == From(m, W, k - 1, t)
  <2>1. k \in 1..m /\ k - 1 \in 0..m /\ d[v] <= d[t] /\ k = d[t] - d[v]
    BY ONLY <1>1, <1>2, <1>6
  <2> HIDE DEF k
  <2>2. Q[v][t] = SumOf(f, S)
    <3>1. Q[v][t] = W[v][k][t]
      BY ONLY <1>3, <1>6, <2>1
    <3>2. StartsAnywhere(m, N, W, k)
      BY <2>1, StartsAnyhow
    <3> QED  BY <3>1, <3>2 DEF StartsAnywhere
  <2>3. Summable(f, S)
    BY <2>1, WalkFacts
  <2>4. ASSUME NEW c \in S, f[c] # 0
        PROVE  c \in T
    <3>1. c \in 1..m /\ W[c][k - 1][t] # 0
      BY <1>1, <2>4 DEF From
    <3>2. d[c] # m /\ d[c] <= d[v] + 1
      BY NoJump
    <3>3. d[t] <= d[c] + (k - 1)
      BY <2>1, <3>1, <3>2, WalksReach DEF NoFarther
    <3>4. d[c] \in Nat
      BY <1>1, <3>1, LayersType
    <3>5. d[c] = d[v] + 1
      BY ONLY <1>2, <2>1, <3>2, <3>3, <3>4
    <3> QED  BY <3>5 DEF Below
  <2>5. ASSUME NEW x \in T
        PROVE  q[x] = f[x]
    <3>1. d[x] <= d[t] /\ d[t] - d[x] = k - 1
      BY ONLY <1>2, <1>4, <1>6, <2>1
    <3>2. q[x] = W[x][k - 1][t]
      BY ONLY <1>4, <1>6, <3>1
    <3> QED  BY <1>4, <3>2 DEF From
  <2> HIDE DEF Q, q, S, T, f
  <2>6. SumOf(f, S) = SumOf(f, T)
    <3>1. \A x \in S \ T : f[x] = 0
      BY ONLY <2>4
    <3> QED  BY ONLY <1>1, <2>3, <3>1, SumWithin
  <2>7. SumOf(q, T) = SumOf(f, T)
    <3>1. Summable(f, T)
      BY ONLY <1>1, <2>3, CountsLess
    <3>2. SameOn(q, f, T)
      BY ONLY <2>5 DEF SameOn
    <3> QED  BY ONLY <3>1, <3>2, SumSame
  <2> QED  BY ONLY <2>2, <2>6, <2>7 DEF Q, q, T
<1>7. (d[t] <= d[v] \/ d[t] = m) \/ (d[v] < d[t] /\ d[t] # m)
  BY ONLY <1>2
<1> QED  BY ONLY <1>5, <1>6, <1>7

\* A node lies on a shortest path from src to t if the missing links can be gone.
LEMMA OnwardIs ==
    ASSUME NEW m, NEW N, NEW W, AllWalks(m, N, W), W = AllOf(m, N),
           NEW src, NEW d, NEW g, Layered(m, N, src, d, g),
           NEW v \in 1..m, NEW t \in 1..m, d[t] # m
    PROVE  Onward(m, W, d)[v][t] = IF d[v] + Shortest(m, N, v)[t].far = d[t]
                                   THEN Shortest(m, N, v)[t].paths ELSE 0
<1> DEFINE f == W[v]
           sp == Shortest(m, N, v)[t]
           q == Onward(m, W, d)[v][t]
<1>1. m \in Nat
  BY WalkFacts
<1>2. d[v] \in 0..m /\ d[t] \in 0..m
  BY <1>1, LayersType
<1>3. q = IF d[v] <= d[t] THEN f[d[t] - d[v]][t] ELSE 0
  BY DEF Onward
<1>4. f = Walks(m, N, v)
  BY DEF AllOf
<1>5. /\ (\A k \in 0..(m - 1) : f[k][t] = 0) => sp = [far |-> m, paths |-> 0]
      /\ \A k : FirstAt(m, f, t, k) => sp = [far |-> k, paths |-> f[k][t]]
      /\ (\A k \in 0..(m - 1) : f[k][t] = 0) \/ \E k : FirstAt(m, f, t, k)
  BY <1>1, <1>4, ShortestIs
<1>6. ASSUME NEW k \in 0..m, f[k][t] # 0, d[v] # m
      PROVE  d[t] <= d[v] + k
  BY <1>6, WalksReach DEF NoFarther
<1> HIDE DEF f, sp, q
<1>7. CASE \A k \in 0..(m - 1) : f[k][t] = 0
  <2>1. sp.far = m /\ sp.paths = 0
    BY ONLY <1>5, <1>7
  <2>2. ASSUME d[v] <= d[t]
        PROVE  f[d[t] - d[v]][t] = 0
    <3>1. d[t] - d[v] \in 0..(m - 1)
      BY ONLY <1>1, <1>2, <2>2, d[t] # m
    <3> QED  BY ONLY <1>7, <3>1
  <2>3. q = 0
    BY ONLY <1>3, <2>2
  <2> QED  BY ONLY <2>1, <2>3 DEF q, sp
<1>8. CASE \E k : FirstAt(m, f, t, k)
  <2>1. PICK k : FirstAt(m, f, t, k)
    BY ONLY <1>8
  <2>2. sp.far = k /\ sp.paths = f[k][t]
    BY ONLY <1>5, <2>1
  <2>3. k \in 0..(m - 1) /\ f[k][t] # 0 /\ \A j \in 0..(k - 1) : f[j][t] = 0
    BY ONLY <2>1 DEF FirstAt
  <2>4. CASE d[v] + k = d[t]
    <3>1. d[v] <= d[t] /\ d[t] - d[v] = k
      BY ONLY <1>2, <2>3, <2>4
    <3> QED  BY ONLY <1>3, <2>2, <2>4, <3>1 DEF q, sp
  <2>5. CASE d[v] + k # d[t]
    <3>1. ASSUME d[v] <= d[t]
          PROVE  f[d[t] - d[v]][t] = 0
      <4>1. d[v] # m /\ k \in 0..m
        BY ONLY <1>1, <1>2, <2>3, <3>1, d[t] # m
      <4>2. d[t] <= d[v] + k
        BY ONLY <1>6, <2>3, <4>1
      <4>3. d[t] - d[v] \in 0..(k - 1)
        BY ONLY <1>2, <2>3, <2>5, <3>1, <4>2
      <4> QED  BY ONLY <2>3, <4>3
    <3>2. q = 0
      BY ONLY <1>3, <3>1
    <3> QED  BY ONLY <2>2, <2>5, <3>2 DEF q, sp
  <2> QED  BY ONLY <2>4, <2>5
<1> QED  BY ONLY <1>5, <1>7, <1>8

-----------------------------------------------------------------------------
\* Some arithmetic that is not linear, to be cited.
LEMMA TimesUp == ASSUME NEW i \in Nat, NEW j \in Nat, NEW g \in Nat, i <= j
                 PROVE  i * g <= j * g /\ i * g \in Nat /\ j * g \in Nat
<1> DEFINE e == j - i
<1>1. e \in Nat /\ j = i + e
  OBVIOUS
<1> HIDE DEF e
<1>2. e * g \in Nat /\ i * g \in Nat
  BY <1>1
<1>3. (i + e) * g = i * g + e * g
  BY <1>1
<1>4. j * g = i * g + e * g
  BY ONLY <1>1, <1>3
<1> QED  BY ONLY <1>2, <1>4

\* No remainder, no rounding.
LEMMA DivExact == ASSUME NEW k \in Nat, NEW g \in Nat, g # 0
                  PROVE  (k * g) \div g = k
<1> DEFINE a == k * g
           q == a \div g
<1>1. a \in Nat
  OBVIOUS
<1> HIDE DEF a
<1>2. q \in Nat /\ g * q <= a /\ a < g * q + g
  BY <1>1
<1> HIDE DEF q
<1>3. q * g = g * q
  BY <1>2
<1>4. ~(q < k)
  <2> SUFFICES ASSUME q < k PROVE FALSE
    OBVIOUS
  <2>1. q + 1 \in Nat /\ q + 1 <= k
    BY <1>2
  <2>2. (q + 1) * g <= k * g
    BY <2>1, TimesUp
  <2>3. (q + 1) * g = q * g + g
    BY <1>2
  <2> DEFINE y == q * g
  <2>4. y \in Nat
    BY <1>2
  <2> QED  BY <1>2, <1>3, <2>2, <2>3, <2>4 DEF a
<1>5. ~(k < q)
  <2> SUFFICES ASSUME k < q PROVE FALSE
    OBVIOUS
  <2>1. k + 1 \in Nat /\ k + 1 <= q
    BY <1>2
  <2>2. (k + 1) * g <= q * g
    BY <1>2, <2>1, TimesUp
  <2>3. (k + 1) * g = k * g + g
    OBVIOUS
  <2> DEFINE y == q * g
             z == k * g
  <2>4. y \in Nat /\ z \in Nat
    BY <1>2
  <2> QED  BY <1>2, <1>3, <2>2, <2>3, <2>4 DEF a
<1> QED  BY <1>2, <1>4, <1>5 DEF q, a

LEMMA ShareOut == ASSUME NEW c \in Nat, NEW g \in Nat, g # 0, NEW x \in Nat, NEW p \in Nat,
                         NEW sum, sum = c * g
                  PROVE  (sum * x * p) \div g = x * (c * p)
<1> DEFINE k == x * (c * p)
<1>1. k \in Nat
  <2>1. c * p \in Nat
    OBVIOUS
  <2> DEFINE y == c * p
  <2> HIDE DEF y
  <2>2. x * y \in Nat
    BY <2>1 DEF y
  <2> QED  BY ONLY <2>2 DEF y
<1>2. sum * x * p = k * g
  OBVIOUS
<1> HIDE DEF k
<1>3. (k * g) \div g = k
  BY ONLY <1>1, g \in Nat, g # 0, DivExact
<1> QED  BY ONLY <1>2, <1>3 DEF k

LEMMA Divides == ASSUME NEW a \in Nat, NEW g \in Nat, g # 0, a % g = 0
                 PROVE  a \div g \in Nat /\ a = (a \div g) * g
<1> DEFINE q == a \div g
<1>1. g \in Nat \ {0}
  OBVIOUS
<1>2. a % g = a - g * (a \div g)
  BY ONLY <1>1, a \in Nat
<1>3. q \in Nat
  OBVIOUS
<1>4. a % g = a - g * q
  BY ONLY <1>2
<1> HIDE DEF q
<1>5. a = q * g
  BY ONLY <1>3, <1>4, a \in Nat, g \in Nat, a % g = 0
<1> QED  BY ONLY <1>3, <1>5 DEF q

-----------------------------------------------------------------------------
(***************************************************************************)
(* The dependency of a source on a node: C[t] is the share of one shortest *)
(* path to t, Onward how many of them are left to go from v.               *)
(***************************************************************************)
Shares(m, d, C) == C \in [1..m -> Nat] /\ \A t \in 1..m : d[t] = m => C[t] = 0

Part(m, W, d, C) == [v \in 1..m |-> [t \in 1..m |-> C[t] * Onward(m, W, d)[v][t]]]

PartTo(m, W, d, C) == [t \in 1..m |-> [v \in 1..m |-> Part(m, W, d, C)[v][t]]]

Down(m, W, d, C) == [v \in 1..m |-> SumOf(Part(m, W, d, C)[v], 1..m)]

LEMMA PartType ==
    ASSUME NEW m, NEW N, NEW W, AllWalks(m, N, W), NEW src, NEW d, NEW g, Layered(m, N, src, d, g),
           NEW C, Shares(m, d, C), NEW v \in 1..m, NEW t \in 1..m
    PROVE  /\ Part(m, W, d, C)[v][t] = C[t] * Onward(m, W, d)[v][t]
           /\ Part(m, W, d, C)[v][t] \in Nat
           /\ PartTo(m, W, d, C)[t][v] = Part(m, W, d, C)[v][t]
           /\ Summable(Part(m, W, d, C)[v], 1..m) /\ Down(m, W, d, C)[v] \in Nat
           /\ Down(m, W, d, C)[v] = SumOf(Part(m, W, d, C)[v], 1..m)
<1> DEFINE E == Part(m, W, d, C)
<1>1. \A u \in 1..m : E[v][u] = C[u] * Onward(m, W, d)[v][u]
  BY DEF Part
<1>2. ASSUME NEW u \in 1..m
      PROVE  E[v][u] \in Nat
  <2> DEFINE c == C[u]
             q == Onward(m, W, d)[v][u]
  <2>1. c \in Nat /\ q \in Nat
    BY OnwardType DEF Shares
  <2> HIDE DEF c, q, E
  <2>2. c * q \in Nat
    BY ONLY <2>1
  <2> QED  BY <1>1, <2>2 DEF c, q
<1>3. PartTo(m, W, d, C)[t][v] = E[v][t]
  BY DEF PartTo
<1>4. Down(m, W, d, C)[v] = SumOf(E[v], 1..m)
  BY DEF Down
<1>5. IsFiniteSet(1..m)
  <2>1. m \in Nat
    BY WalkFacts
  <2> QED  BY <2>1, FS_Interval
<1> DEFINE e == E[v]
<1>6. Summable(e, 1..m)
  <2> HIDE DEF E
  <2> QED  BY ONLY <1>2, <1>5 DEF Summable
<1> HIDE DEF e
<1>7. SumOf(e, 1..m) \in Nat
  BY ONLY <1>6, SumTake
<1> QED  BY ONLY <1>1, <1>2, <1>3, <1>4, <1>6, <1>7, v \in 1..m, t \in 1..m DEF e

\* What goes through v goes through one of those below it.
LEMMA PartNext ==
    ASSUME NEW m, NEW N, NEW W, AllWalks(m, N, W), NEW src, NEW d, NEW g, Layered(m, N, src, d, g),
           NEW C, Shares(m, d, C), NEW v \in 1..m, d[v] # m, NEW t \in 1..m
    PROVE  /\ t # v => Part(m, W, d, C)[v][t] = SumOf(PartTo(m, W, d, C)[t], Below(N, d, v))
           /\ SumOf(PartTo(m, W, d, C)[v], Below(N, d, v)) = 0
           /\ Part(m, W, d, C)[v][v] = C[v]
<1> DEFINE T == Below(N, d, v)
           q == OnwardTo(m, W, d, t)
           e == PartTo(m, W, d, C)[t]
           f == PartTo(m, W, d, C)[v]
           c == C[t]
<1>1. m \in Nat /\ N[v] \in SUBSET (1..m) /\ IsFiniteSet(N[v]) /\ C[v] \in Nat /\ c \in Nat
  BY WalkFacts DEF Shares
<1>2. T \in SUBSET (1..m) /\ IsFiniteSet(T)
  <2>1. T \in SUBSET N[v]
    BY DEF Below
  <2>2. IsFiniteSet(T)
    <3> HIDE DEF T
    <3> QED  BY ONLY <1>1, <2>1, FS_Subset
  <2> QED  BY ONLY <1>1, <2>1, <2>2
<1>3. Part(m, W, d, C)[v][v] = C[v]
  <2>1. Part(m, W, d, C)[v][v] = C[v] * Onward(m, W, d)[v][v]
    BY PartType
  <2>2. Onward(m, W, d)[v][v] = 1
    BY OnwardSelf
  <2> QED  BY ONLY <1>1, <2>1, <2>2
<1>4. ASSUME NEW x \in T
      PROVE  f[x] = 0
  <2>1. x \in 1..m /\ d[x] = d[v] + 1
    BY <1>2 DEF Below
  <2>2. d[v] \in Nat
    BY <1>1, LayersType
  <2>3. ~(d[x] <= d[v])
    BY ONLY <2>1, <2>2
  <2>4. Onward(m, W, d)[x][v] = 0
    BY <2>1, <2>3 DEF Onward
  <2>5. f[x] = C[v] * Onward(m, W, d)[x][v]
    BY <2>1, PartType
  <2> QED  BY ONLY <1>1, <2>4, <2>5
<1>5. SumOf(f, T) = 0
  <2> HIDE DEF f, T
  <2> QED  BY ONLY <1>2, <1>4, SumZero
<1>6. ASSUME t # v
      PROVE  Part(m, W, d, C)[v][t] = SumOf(e, T)
  <2>1. Part(m, W, d, C)[v][t] = c * Onward(m, W, d)[v][t]
    BY PartType
  <2>2. Onward(m, W, d)[v][t] = SumOf(q, T)
    BY <1>6, OnwardNext
  <2>3. ASSUME NEW x \in T
        PROVE  q[x] \in Nat /\ e[x] = c * q[x]
    <3>1. x \in 1..m
      BY <1>2
    <3>2. q[x] \in Nat /\ q[x] = Onward(m, W, d)[x][t]
      BY <3>1, OnwardType
    <3>3. e[x] = c * Onward(m, W, d)[x][t]
      BY <3>1, PartType
    <3> QED  BY ONLY <3>2, <3>3
  <2> HIDE DEF e, q, T, c
  <2>4. Summable(q, T)
    BY ONLY <1>2, <2>3 DEF Summable
  <2>5. SumOf(e, T) = c * SumOf(q, T)
    <3>1. \A x \in T : e[x] = c * q[x]
      BY ONLY <2>3
    <3> QED  BY ONLY <1>1, <2>4, <3>1, SumTimes
  <2> QED  BY ONLY <2>1, <2>2, <2>5
<1> QED  BY ONLY <1>3, <1>5, <1>6

\* What v passes on: its own share, and what those below it pass on.
LEMMA DownNext ==
    ASSUME NEW m, NEW N, NEW W, AllWalks(m, N, W), NEW src, NEW d, NEW g, Layered(m, N, src, d, g),
           NEW C, Shares(m, d, C), NEW v \in 1..m, d[v] # m
    PROVE  /\ SumOf(Part(m, W, d, C)[v], (1..m) \ {v}) = SumOf(Down(m, W, d, C), Below(N, d, v))
           /\ Down(m, W, d, C)[v] = C[v] + SumOf(Down(m, W, d, C), Below(N, d, v))
           /\ SumOf(Down(m, W, d, C), Below(N, d, v)) \in Nat
<1> DEFINE A == Below(N, d, v)
           B == 1..m
           R == B \ {v}
           E == Part(m, W, d, C)
           D == Down(m, W, d, C)
           col == PartTo(m, W, d, C)
           F == Columns(col, B, A)
           e == E[v]
<1>1. m \in Nat /\ A \in SUBSET B /\ IsFiniteSet(A) /\ IsFiniteSet(B) /\ v \in B
  <2>1. m \in Nat /\ N[v] \in SUBSET B /\ A \in SUBSET N[v]
    BY WalkFacts DEF Below
  <2>2. IsFiniteSet(B) /\ A \in SUBSET B
    BY ONLY <2>1, FS_Interval
  <2>3. IsFiniteSet(A)
    <3> HIDE DEF A, B
    <3> QED  BY ONLY <2>2, FS_Subset
  <2> QED  BY ONLY <2>1, <2>2, <2>3, v \in 1..m
<1>2. Tables(A, B, E, col)
  <2>1. ASSUME NEW x \in A, NEW y \in B
        PROVE  E[x][y] \in Nat /\ col[y][x] = E[x][y]
    <3>1. x \in 1..m
      BY <1>1
    <3> QED  BY <3>1, PartType
  <2> HIDE DEF A, B, E, col
  <2> QED  BY ONLY <2>1 DEF Tables
<1>3. IsTotal(D, E, A, B) /\ Summable(D, A)
  <2>1. ASSUME NEW x \in A
        PROVE  D[x] = SumOf(E[x], B) /\ D[x] \in Nat
    <3>1. x \in 1..m
      BY <1>1
    <3> QED  BY <3>1, PartType
  <2> HIDE DEF A, B, D, E
  <2> QED  BY ONLY <1>1, <2>1 DEF IsTotal, Summable
<1>4. ASSUME NEW t \in B
      PROVE  /\ t # v => e[t] = F[t]
             /\ F[v] = 0 /\ e[v] = C[v] /\ e[t] \in Nat
  <2>1. t # v => e[t] = SumOf(col[t], A)
    BY PartNext
  <2>2. SumOf(col[v], A) = 0 /\ e[v] = C[v]
    BY PartNext
  <2>3. e[t] \in Nat
    BY PartType
  <2>4. F[t] = SumOf(col[t], A) /\ F[v] = SumOf(col[v], A)
    BY DEF Columns
  <2> QED  BY ONLY <2>1, <2>2, <2>3, <2>4
<1>5. D[v] = SumOf(e, B)
  BY PartType
<1> HIDE DEF A, B, E, D, col, F, e
<1>6. SumOf(D, A) = SumOf(F, B)
  BY ONLY <1>1, <1>2, <1>3, SumSwap DEF F
<1>7. Summable(e, B) /\ Summable(F, B) /\ Summable(e, R) /\ Summable(F, R)
  <2>1. Summable(e, B)
    BY ONLY <1>1, <1>4 DEF Summable
  <2>2. \A t \in B : F[t] \in Nat
    <3>1. \A t \in B : t # v => F[t] \in Nat
      BY ONLY <1>4
    <3>2. F[v] \in Nat
      BY ONLY <1>4, <1>1
    <3> QED  BY ONLY <3>1, <3>2
  <2>3. Summable(F, B)
    BY ONLY <1>1, <2>2 DEF Summable
  <2>4. R \in SUBSET B
    OBVIOUS
  <2> HIDE DEF R
  <2> QED  BY ONLY <2>1, <2>3, <2>4, CountsLess
<1>8. SumOf(e, B) = e[v] + SumOf(e, R) /\ SumOf(F, B) = F[v] + SumOf(F, R)
  BY ONLY <1>1, <1>7, SumTake
<1>9. SumOf(e, R) = SumOf(F, R)
  <2>1. SameOn(e, F, R)
    BY ONLY <1>4 DEF SameOn
  <2> HIDE DEF R
  <2> QED  BY ONLY <1>7, <2>1, SumSame
<1>10. SumOf(F, R) \in Nat
  <2> HIDE DEF R
  <2> QED  BY ONLY <1>7, SumTake
<1>11. F[v] = 0 /\ e[v] = C[v]
  BY ONLY <1>1, <1>4
<1>12. SumOf(e, R) = SumOf(D, A)
  BY ONLY <1>6, <1>8, <1>9, <1>10, <1>11
<1> QED  BY ONLY <1>5, <1>8, <1>9, <1>10, <1>11, <1>12 DEF A, B, D, E, e

-----------------------------------------------------------------------------
(***************************************************************************)
(* The same in the words of the property.                                  *)
(***************************************************************************)
Sp == [a \in Node |-> Shortest(n, Near, a)]

Toward(v, a) == [t \in Node |-> Through(Sp, v, a, t)]

Dependency(v) == [a \in Node |-> SumOf(Toward(v, a), Node \ {v})]

ShareOf(m, d, g) == [t \in 1..m |-> IF d[t] = m THEN 0 ELSE Scale \div g[t]]

\* By ScaleFits the shares are whole.
LEMMA SharesFit ==
    ASSUME n \in Nat, Scale \in Nat, ScaleFits(n, Near), NEW src, NEW d, NEW g,
           Layered(n, Near, src, d, g)
    PROVE  /\ Shares(n, d, ShareOf(n, d, g))
           /\ \A t \in 1..n : d[t] # n => g[t] # 0 /\ Scale = ShareOf(n, d, g)[t] * g[t]
<1> DEFINE C == ShareOf(n, d, g)
<1>1. IsGraph(n, Near) /\ src \in 1..n
  BY GraphIsGraph, LayersType
<1>2. ASSUME NEW t \in 1..n
      PROVE  C[t] \in Nat /\ (d[t] = n => C[t] = 0) /\ (d[t] # n => g[t] # 0 /\ Scale = C[t] * g[t])
  <2>1. CASE d[t] = n
    <3>1. C[t] = 0
      BY <2>1 DEF ShareOf
    <3> QED  BY ONLY <2>1, <3>1
  <2>2. CASE d[t] # n
    <3>1. C[t] = Scale \div g[t]
      BY <2>2 DEF ShareOf
    <3>2. g[t] # 0 /\ g[t] \in Nat
      BY <2>2, LayersType DEF Layered
    <3>3. Shortest(n, Near, src)[t] = [far |-> d[t], paths |-> g[t]]
      BY <1>1, ShortestFromSource
    <3>4. Shortest(n, Near, src)[t].paths = g[t]
      BY ONLY <3>3
    <3>5. Scale % g[t] = 0
      BY <1>1, <3>2, <3>4 DEF ScaleFits
    <3>6. Scale \div g[t] \in Nat /\ Scale = (Scale \div g[t]) * g[t]
      BY ONLY <3>2, <3>5, Scale \in Nat, Divides
    <3> HIDE DEF C
    <3> QED  BY ONLY <2>2, <3>1, <3>2, <3>6
  <2> QED  BY ONLY <2>1, <2>2
<1>3. C = [t \in 1..n |-> C[t]]
  BY DEF ShareOf
<1> HIDE DEF C
<1>4. C \in [1..n -> Nat]
  BY ONLY <1>2, <1>3
<1> QED  BY ONLY <1>2, <1>4 DEF Shares, C

\* The share of the property is a number of paths to v, times what they lead to.
LEMMA ThroughIs ==
    ASSUME n \in Nat, Scale \in Nat, ScaleFits(n, Near), NEW src, NEW d, NEW g,
           Layered(n, Near, src, d, g), NEW v \in 1..n, NEW t \in 1..n
    PROVE  /\ Toward(v, src)[t] = g[v] * Part(n, AllOf(n, Near), d, ShareOf(n, d, g))[v][t]
           /\ Toward(v, src)[t] \in Nat
<1> DEFINE C == ShareOf(n, d, g)
           W == AllOf(n, Near)
           q == Onward(n, W, d)[v][t]
           sv == Shortest(n, Near, v)[t]
           ss == Shortest(n, Near, src)[t]
           su == Shortest(n, Near, src)[v]
           x == Toward(v, src)[t]
           p == Part(n, W, d, C)[v][t]
<1>1. IsGraph(n, Near) /\ Node = 1..n /\ src \in 1..n
  BY GraphIsGraph, LayersType
<1>2. AllWalks(n, Near, W)
  BY <1>1, AllOfThem
<1>3. Shares(n, d, C) /\ (d[t] # n => g[t] # 0 /\ Scale = C[t] * g[t])
  BY SharesFit
<1>4. p = C[t] * q /\ p \in Nat
  BY <1>2, <1>3, PartType
<1>5. x = IF ss.far < n /\ su.far + sv.far = ss.far THEN (Scale * su.paths * sv.paths) \div ss.paths ELSE 0
  BY <1>1 DEF Toward, Through, Sp
<1>6. ss = [far |-> d[t], paths |-> g[t]] /\ su = [far |-> d[v], paths |-> g[v]]
  BY <1>1, ShortestFromSource
<1>7. d[t] # n => q = IF d[v] + sv.far = d[t] THEN sv.paths ELSE 0
  BY <1>2, OnwardIs
<1>8. d[t] \in Nat /\ d[t] <= n /\ g[t] \in Nat /\ g[v] \in Nat /\ C[t] \in Nat /\ q \in Nat
  <2>1. C[t] \in Nat
    BY <1>3 DEF Shares
  <2>2. q \in Nat
    BY <1>2, OnwardType
  <2> QED  BY <2>1, <2>2, LayersType
<1>9. d[t] = n => C[t] = 0
  BY <1>3 DEF Shares
<1> DEFINE c == C[t]
           a == g[v]
           b == g[t]
<1> HIDE DEF C, W, q, sv, ss, su, x, p
<1>10. x = IF d[t] < n /\ d[v] + sv.far = d[t] THEN (Scale * g[v] * sv.paths) \div g[t] ELSE 0
  BY ONLY <1>5, <1>6
<1>11. CASE d[t] = n
  <2>1. x = 0
    BY ONLY <1>8, <1>10, <1>11
  <2>2. p = 0
    BY ONLY <1>4, <1>8, <1>9, <1>11
  <2> QED  BY ONLY <1>8, <2>1, <2>2 DEF x, p, W, C
<1>12. CASE d[t] # n /\ d[v] + sv.far = d[t]
  <2>1. q = sv.paths
    BY ONLY <1>7, <1>12
  <2>2. x = (Scale * a * q) \div b
    BY ONLY <1>8, <1>10, <1>12, <2>1, n \in Nat
  <2>3. c \in Nat /\ a \in Nat /\ b \in Nat /\ b # 0 /\ q \in Nat /\ Scale = c * b /\ p = c * q
    BY ONLY <1>3, <1>4, <1>8, <1>12
  <2> HIDE DEF a, b, c
  <2>4. x = a * (c * q)
    BY ONLY <2>2, <2>3, ShareOut
  <2>5. x = a * p /\ x \in Nat
    BY ONLY <1>4, <2>3, <2>4
  <2> QED  BY ONLY <2>5 DEF x, p, W, C, a
<1>13. CASE d[t] # n /\ d[v] + sv.far # d[t]
  <2>1. q = 0 /\ x = 0
    BY ONLY <1>7, <1>10, <1>13
  <2>2. p = 0
    BY ONLY <1>4, <1>8, <2>1
  <2> QED  BY ONLY <1>8, <2>1, <2>2 DEF x, p, W, C
<1> QED  BY ONLY <1>11, <1>12, <1>13

\* What the source depends on v for is what those below v pass on, once for every
\* shortest path to v.
LEMMA DependencyIs ==
    ASSUME n \in Nat, Scale \in Nat, ScaleFits(n, Near), NEW src, NEW d, NEW g,
           Layered(n, Near, src, d, g), NEW v \in 1..n
    PROVE  Dependency(v)[src]
             = IF d[v] = n THEN 0
               ELSE g[v] * SumOf(Down(n, AllOf(n, Near), d, ShareOf(n, d, g)), Below(Near, d, v))
<1> DEFINE C == ShareOf(n, d, g)
           W == AllOf(n, Near)
           D == Down(n, W, d, C)
           R == (1..n) \ {v}
           x == Toward(v, src)
           p == Part(n, W, d, C)[v]
           a == g[v]
<1>1. IsGraph(n, Near) /\ Node = 1..n /\ src \in 1..n /\ a \in Nat
  BY GraphIsGraph, LayersType
<1>2. AllWalks(n, Near, W) /\ Shares(n, d, C)
  BY <1>1, AllOfThem, SharesFit
<1>3. Dependency(v)[src] = SumOf(x, R)
  BY <1>1 DEF Dependency
<1>4. \A t \in 1..n : x[t] = a * p[t]
  BY ThroughIs
<1>5. Summable(p, 1..n)
  BY <1>2, PartType
<1>6. d[v] # n => SumOf(p, R) = SumOf(D, Below(Near, d, v))
  BY <1>2, DownNext
<1>7. d[v] = n => a = 0
  BY DEF Layered
<1> HIDE DEF C, W, D, x, p, a
<1>8. R \in SUBSET (1..n)
  OBVIOUS
<1> HIDE DEF R
<1>9. Summable(p, R)
  BY ONLY <1>5, <1>8, CountsLess
<1>10. SumOf(x, R) = a * SumOf(p, R)
  <2>1. \A t \in R : x[t] = a * p[t]
    BY ONLY <1>4, <1>8
  <2> QED  BY ONLY <1>1, <1>9, <2>1, SumTimes
<1>11. SumOf(p, R) \in Nat
  BY ONLY <1>9, SumTake
<1>12. CASE d[v] = n
  <2>1. a = 0
    BY ONLY <1>7, <1>12
  <2>2. SumOf(x, R) = 0
    BY ONLY <1>10, <1>11, <2>1
  <2> QED  BY ONLY <1>3, <1>12, <2>2
<1>13. CASE d[v] # n
  BY ONLY <1>3, <1>6, <1>10, <1>13 DEF a, D, W, C
<1> QED  BY ONLY <1>12, <1>13

-----------------------------------------------------------------------------
(***************************************************************************)
(* The search itself: o are the nodes visited, q those that were found and *)
(* are still to be visited.                                                *)
(***************************************************************************)
Elems(q) == {q[i] : i \in 1..Len(q)}

\* Every node once, nearest first.
Ordered(m, d, q) ==
    /\ q \in Seq(1..m)
    /\ \A i, j \in 1..Len(q) : i < j => q[i] # q[j] /\ d[q[i]] <= d[q[j]]

Seen(m, d) == {w \in 1..m : d[w] # m}

Waiting(m, d, q, o) ==
    /\ Ordered(m, d, o) /\ Ordered(m, d, q)
    /\ Elems(o) \cup Elems(q) = Seen(m, d) /\ Elems(o) \cap Elems(q) = {}
    /\ \A u \in Elems(o) : \A w \in Elems(q) : d[u] <= d[w]
    /\ q # <<>> => \A w \in Elems(q) : d[w] <= d[q[1]] + 1

Breadth(m, N, src, d, q, o) ==
    /\ src \in 1..m /\ d \in [1..m -> 0..m] /\ d[src] = 0 /\ \A v \in 1..m : d[v] = 0 => v = src
    /\ Waiting(m, d, q, o)
    /\ \A w \in Seen(m, d) : d[w] < Cardinality(Seen(m, d))
    /\ \A v \in Elems(o) : \A w \in N[v] : d[w] # m /\ d[w] <= d[v] + 1

LEMMA HeadIs ==
    ASSUME NEW T, NEW q \in Seq(T), q # <<>>
    PROVE  /\ Len(q) \in Nat /\ Len(q) # 0 /\ 1 \in 1..Len(q) /\ Head(q) = q[1] /\ q[1] \in T
           /\ Tail(q) \in Seq(T) /\ Len(Tail(q)) = Len(q) - 1
           /\ \A i \in 1..(Len(q) - 1) : Tail(q)[i] = q[i + 1]
<1>1. Len(q) \in Nat /\ Len(q) # 0
  OBVIOUS
<1>2. 1 \in 1..Len(q)
  BY ONLY <1>1
<1> QED  BY <1>1, <1>2

LEMMA Joined ==
    ASSUME NEW T, NEW a \in Seq(T), NEW b \in Seq(T), NEW r, r = a \o b
    PROVE  /\ r \in Seq(T) /\ Len(r) = Len(a) + Len(b)
           /\ \A i \in 1..(Len(a) + Len(b)) : r[i] = IF i <= Len(a) THEN a[i] ELSE b[i - Len(a)]
<1>1. r \in Seq(T) /\ Len(r) = Len(a) + Len(b)
  OBVIOUS
<1>2. ASSUME NEW i \in 1..(Len(a) + Len(b))
      PROVE  r[i] = IF i <= Len(a) THEN a[i] ELSE b[i - Len(a)]
  OBVIOUS
<1> QED  BY ONLY <1>1, <1>2

\* The first has left, those in F have joined.
Turned(m, q, F, r) ==
    /\ m \in Nat /\ q \in Seq(1..m) /\ q # <<>> /\ F \in SUBSET (1..m)
    /\ r = Tail(q) \o Ascending(F)

\* How a queue turns: where its elements are,
LEMMA QueueTurns ==
    ASSUME NEW m, NEW q, NEW F, NEW r, Turned(m, q, F, r)
    PROVE  /\ r \in Seq(1..m) /\ Len(r) = Len(q) - 1 + Cardinality(F) /\ Cardinality(F) \in Nat
           /\ \A i \in 1..(Len(q) - 1) : r[i] = q[i + 1]
           /\ \A k \in 1..Cardinality(F) : r[k + (Len(q) - 1)] = Ascending(F)[k]
<1> DEFINE a == Ascending(F)
           t == Tail(q)
           c == Cardinality(F)
           l == Len(q) - 1
<1>0. m \in Nat /\ q \in Seq(1..m) /\ q # <<>> /\ F \in SUBSET (1..m) /\ r = Tail(q) \o Ascending(F)
  BY DEF Turned
<1>1. a \in [1..c -> F] /\ c \in Nat
  BY <1>0, AscendingIs
<1>2. /\ Len(q) \in Nat /\ Len(q) # 0 /\ t \in Seq(1..m) /\ Len(t) = l
      /\ \A i \in 1..l : t[i] = q[i + 1]
  BY <1>0, HeadIs
<1>3. l \in Nat
  BY ONLY <1>2
<1> HIDE DEF a, t, c, l
<1>4. a \in Seq(1..m) /\ Len(a) = c
  <2> DEFINE T == 1..m
  <2>1. a \in [1..c -> T]
    BY ONLY <1>0, <1>1
  <2> HIDE DEF T
  <2>2. a \in Seq(T) /\ Len(a) = c
    BY ONLY <1>1, <2>1
  <2> QED  BY ONLY <2>2 DEF T
<1>5. r = t \o a
  BY <1>0 DEF t, a
<1>6. /\ r \in Seq(1..m) /\ Len(r) = l + c
      /\ \A i \in 1..l : r[i] = t[i]
      /\ \A k \in 1..c : r[k + l] = a[k]
  <2> DEFINE T == 1..m
  <2> HIDE DEF T
  <2>5. /\ r \in Seq(T) /\ Len(r) = Len(t) + Len(a)
        /\ \A i \in 1..(Len(t) + Len(a)) : r[i] = IF i <= Len(t) THEN t[i] ELSE a[i - Len(t)]
    <3>1. t \in Seq(T) /\ a \in Seq(T)
      BY ONLY <1>2, <1>4 DEF T
    <3> QED  BY ONLY <1>5, <3>1, Joined
  <2>1. r \in Seq(1..m) /\ Len(r) = l + c
    BY ONLY <1>2, <1>4, <2>5 DEF T
  <2>2. ASSUME NEW i \in 1..(l + c)
        PROVE  r[i] = IF i <= l THEN t[i] ELSE a[i - l]
    BY ONLY <1>2, <1>4, <2>5, i \in 1..(l + c)
  <2>3. ASSUME NEW i \in 1..l
        PROVE  r[i] = t[i]
    <3>1. i \in 1..(l + c) /\ i <= l
      BY ONLY <1>1, <1>3
    <3> QED  BY ONLY <2>2, <3>1
  <2>4. ASSUME NEW k \in 1..c
        PROVE  r[k + l] = a[k]
    <3>1. k + l \in 1..(l + c) /\ ~(k + l <= l) /\ (k + l) - l = k
      BY ONLY <1>1, <1>3
    <3>2. r[k + l] = a[(k + l) - l]
      BY ONLY <2>2, <3>1
    <3> QED  BY ONLY <3>1, <3>2
  <2> QED  BY ONLY <2>1, <2>3, <2>4
<1> QED  BY ONLY <1>1, <1>2, <1>6 DEF a, t, c, l

\* which they are,
LEMMA QueueHolds ==
    ASSUME NEW m, NEW q, NEW F, NEW r, Turned(m, q, F, r), NEW d, Ordered(m, d, q)
    PROVE  Elems(r) = (Elems(q) \ {q[1]}) \cup F
<1> DEFINE c == Cardinality(F)
           l == Len(q) - 1
           a == Ascending(F)
<1>1. /\ Len(r) = l + c /\ c \in Nat
      /\ \A i \in 1..l : r[i] = q[i + 1]
      /\ \A k \in 1..c : r[k + l] = a[k]
  BY QueueTurns
<1>2. /\ a \in [1..c -> F] /\ \A w \in F : \E k \in 1..c : w = a[k]
  BY AscendingIs DEF Turned
<1>3. Len(q) \in Nat /\ Len(q) # 0 /\ l \in Nat /\ 1 \in 1..Len(q) /\ l + 1 = Len(q)
  BY HeadIs DEF Turned
<1>9. \A i, j \in 1..Len(q) : i < j => q[i] # q[j]
  BY DEF Ordered
<1> HIDE DEF a, c, l
<1>4. ASSUME NEW i \in 1..Len(r)
      PROVE  r[i] \in (Elems(q) \ {q[1]}) \cup F
  <2>1. CASE i \in 1..l
    <3>1. r[i] = q[i + 1]
      BY ONLY <1>1, <2>1
    <3>2. i + 1 \in 1..Len(q) /\ 1 < i + 1
      BY ONLY <1>3, <2>1
    <3>3. q[i + 1] # q[1]
      BY ONLY <1>3, <1>9, <3>2
    <3> QED  BY ONLY <3>1, <3>2, <3>3 DEF Elems
  <2>2. CASE i \notin 1..l
    <3>1. i - l \in 1..c /\ (i - l) + l = i
      BY ONLY <1>1, <1>3, <2>2, i \in 1..Len(r)
    <3>2. r[(i - l) + l] = a[i - l]
      BY ONLY <1>1, <3>1
    <3>3. a[i - l] \in F
      BY ONLY <1>2, <3>1
    <3> QED  BY ONLY <3>1, <3>2, <3>3
  <2> QED  BY ONLY <2>1, <2>2
<1>5. ASSUME NEW i \in 1..Len(q), q[i] # q[1]
      PROVE  q[i] \in Elems(r)
  <2>1. i # 1
    BY ONLY <1>5
  <2>2. i - 1 \in 1..l /\ (i - 1) + 1 = i /\ i - 1 \in 1..Len(r)
    BY ONLY <1>1, <1>3, <2>1, i \in 1..Len(q)
  <2>3. r[i - 1] = q[i]
    BY ONLY <1>1, <2>2
  <2> QED  BY ONLY <2>2, <2>3 DEF Elems
<1>6. ASSUME NEW w \in F
      PROVE  w \in Elems(r)
  <2>1. PICK k \in 1..c : w = a[k]
    BY ONLY <1>2
  <2>2. k + l \in 1..Len(r)
    BY ONLY <1>1, <1>3
  <2>3. r[k + l] = a[k]
    BY ONLY <1>1
  <2> QED  BY ONLY <2>1, <2>2, <2>3 DEF Elems
<1>7. Elems(r) \subseteq (Elems(q) \ {q[1]}) \cup F
  BY ONLY <1>4 DEF Elems
<1>8. \A x \in Elems(q) \ {q[1]} : x \in Elems(r)
  BY ONLY <1>5 DEF Elems
<1> QED  BY ONLY <1>6, <1>7, <1>8

\* and in what order.
LEMMA QueueOrdered ==
    ASSUME NEW m, NEW q, NEW F, NEW r, Turned(m, q, F, r), NEW d, Ordered(m, d, q),
           NEW e, NEW k \in Nat,
           \A w \in Elems(q) : w \notin F /\ e[w] = d[w] /\ d[w] <= k, \A w \in F : e[w] = k
    PROVE  Ordered(m, e, r)
<1> DEFINE c == Cardinality(F)
           l == Len(q) - 1
           a == Ascending(F)
<1>0. q \in Seq(1..m) /\ \A i, j \in 1..Len(q) : i < j => q[i] # q[j] /\ d[q[i]] <= d[q[j]]
  BY DEF Ordered
<1>1. /\ r \in Seq(1..m) /\ Len(r) = l + c /\ c \in Nat
      /\ \A i \in 1..l : r[i] = q[i + 1]
      /\ \A i \in 1..c : r[i + l] = a[i]
  BY QueueTurns
<1>2. /\ a \in [1..c -> F] /\ \A i \in 1..c : Position(F, a[i]) = i
  BY AscendingIs DEF Turned
<1>3. Len(q) \in Nat /\ Len(q) # 0 /\ l \in Nat /\ l + 1 = Len(q)
  BY <1>0, HeadIs DEF Turned
<1> HIDE DEF a, c, l
<1>4. ASSUME NEW i \in 1..l
      PROVE  i + 1 \in 1..Len(q) /\ r[i] = q[i + 1] /\ q[i + 1] \in Elems(q)
  <2>1. i + 1 \in 1..Len(q)
    BY ONLY <1>3, i \in 1..l
  <2> QED  BY ONLY <1>1, <2>1, i \in 1..l DEF Elems
<1>5. ASSUME NEW i \in 1..Len(r), i \notin 1..l
      PROVE  i - l \in 1..c /\ r[i] = a[i - l] /\ a[i - l] \in F
  <2>1. i - l \in 1..c /\ (i - l) + l = i
    BY ONLY <1>1, <1>3, <1>5
  <2>2. r[(i - l) + l] = a[i - l]
    BY ONLY <1>1, <2>1
  <2>3. a[i - l] \in F
    BY ONLY <1>2, <2>1
  <2> QED  BY ONLY <2>1, <2>2, <2>3
<1>6. ASSUME NEW i \in 1..Len(r), NEW j \in 1..Len(r), i < j
      PROVE  r[i] # r[j] /\ e[r[i]] <= e[r[j]]
  <2>1. CASE j \in 1..l
    <3>1. i \in 1..l
      BY ONLY <1>3, <1>6, <2>1
    <3>2. i + 1 < j + 1
      BY ONLY <1>3, <1>6, <2>1, <3>1
    <3>3. /\ i + 1 \in 1..Len(q) /\ r[i] = q[i + 1] /\ q[i + 1] \in Elems(q)
          /\ j + 1 \in 1..Len(q) /\ r[j] = q[j + 1] /\ q[j + 1] \in Elems(q)
      BY ONLY <1>4, <2>1, <3>1
    <3>4. q[i + 1] # q[j + 1] /\ d[q[i + 1]] <= d[q[j + 1]]
      BY ONLY <1>0, <3>2, <3>3
    <3> DEFINE x == q[i + 1]
               y == q[j + 1]
    <3>5. e[x] = d[x] /\ e[y] = d[y]
      BY ONLY <3>3, \A w \in Elems(q) : w \notin F /\ e[w] = d[w] /\ d[w] <= k
    <3> HIDE DEF x, y
    <3>6. r[i] = x /\ r[j] = y /\ x # y /\ d[x] <= d[y]
      BY ONLY <3>3, <3>4 DEF x, y
    <3> QED  BY ONLY <3>5, <3>6
  <2>2. CASE j \notin 1..l /\ i \in 1..l
    <3>1. r[i] \in Elems(q)
      BY ONLY <1>4, <2>2
    <3>2. r[j] \in F
      BY ONLY <1>5, <2>2, j \in 1..Len(r)
    <3> DEFINE x == r[i]
               y == r[j]
    <3> HIDE DEF x, y
    <3>3. x \notin F /\ e[x] = d[x] /\ d[x] <= k /\ e[y] = k /\ y \in F
      BY <3>1, <3>2 DEF x, y
    <3>4. x # y /\ e[x] <= e[y]
      BY ONLY <3>3
    <3> QED  BY ONLY <3>4 DEF x, y
  <2>3. CASE j \notin 1..l /\ i \notin 1..l
    <3>1. i - l \in 1..c /\ r[i] = a[i - l] /\ a[i - l] \in F
      BY ONLY <1>5, <2>3, i \in 1..Len(r)
    <3>2. j - l \in 1..c /\ r[j] = a[j - l] /\ a[j - l] \in F
      BY ONLY <1>5, <2>3, j \in 1..Len(r)
    <3>3. i - l # j - l
      BY ONLY <1>3, <1>6, <1>1
    <3>4. r[i] # r[j]
      BY ONLY <1>2, <3>1, <3>2, <3>3
    <3>5. e[r[i]] = k /\ e[r[j]] = k
      BY ONLY <3>1, <3>2, \A w \in F : e[w] = k
    <3>6. e[r[i]] <= e[r[j]]
      BY ONLY <3>5, k \in Nat
    <3> QED  BY ONLY <3>4, <3>6
  <2> QED  BY ONLY <2>1, <2>2, <2>3
<1> QED  BY ONLY <1>1, <1>6 DEF Ordered

LEMMA OrderedSame ==
    ASSUME NEW m, NEW d, NEW q, Ordered(m, d, q), NEW e, \A w \in Elems(q) : e[w] = d[w]
    PROVE  Ordered(m, e, q)
BY DEF Ordered, Elems

LEMMA OrderedAppend ==
    ASSUME NEW m, NEW d, NEW q, Ordered(m, d, q), NEW v \in 1..m, v \notin Elems(q),
           \A u \in Elems(q) : d[u] <= d[v]
    PROVE  Ordered(m, d, Append(q, v)) /\ Elems(Append(q, v)) = Elems(q) \cup {v}
<1> DEFINE r == Append(q, v)
           l == Len(q)
           T == 1..m
<1>1. q \in Seq(T) /\ \A i, j \in 1..l : i < j => q[i] # q[j] /\ d[q[i]] <= d[q[j]]
  BY DEF Ordered
<1>2. v \in T
  OBVIOUS
<1> HIDE DEF T
<1>3. r \in Seq(T) /\ Len(r) = l + 1 /\ l \in Nat /\ r[l + 1] = v
  BY ONLY <1>1, <1>2
<1>4. ASSUME NEW i \in 1..l
      PROVE  r[i] = q[i]
  BY ONLY <1>1, <1>2
<1>5. \A i \in 1..Len(r) : i \in 1..l \/ i = l + 1
  BY ONLY <1>3
<1>6. 1..l \subseteq 1..Len(r) /\ l + 1 \in 1..Len(r)
  BY ONLY <1>3
<1> HIDE DEF r, l
<1>7. Elems(r) = Elems(q) \cup {v}
  <2>1. \A i \in 1..Len(r) : r[i] \in Elems(q) \cup {v}
    BY ONLY <1>3, <1>4, <1>5 DEF Elems, l
  <2>2. \A i \in 1..l : q[i] \in Elems(r)
    BY ONLY <1>4, <1>6 DEF Elems
  <2>3. v \in Elems(r)
    BY ONLY <1>3, <1>6 DEF Elems
  <2>4. Elems(r) \subseteq Elems(q) \cup {v}
    BY ONLY <2>1 DEF Elems
  <2>5. Elems(q) \subseteq Elems(r)
    BY ONLY <2>2 DEF Elems, l
  <2> QED  BY ONLY <2>3, <2>4, <2>5
<1>8. ASSUME NEW i \in 1..Len(r), NEW j \in 1..Len(r), i < j
      PROVE  r[i] # r[j] /\ d[r[i]] <= d[r[j]]
  <2>1. i \in 1..l
    BY ONLY <1>3, <1>8
  <2>2. CASE j \in 1..l
    BY ONLY <1>1, <1>4, <1>8, <2>1, <2>2
  <2>3. CASE j = l + 1
    <3>1. r[j] = v /\ r[i] = q[i]
      BY ONLY <1>3, <1>4, <2>1, <2>3
    <3>2. q[i] \in Elems(q)
      BY ONLY <2>1 DEF Elems, l
    <3>3. q[i] # v /\ d[q[i]] <= d[v]
      BY ONLY <3>2, v \notin Elems(q), \A u \in Elems(q) : d[u] <= d[v]
    <3> QED  BY ONLY <3>1, <3>3
  <2> QED  BY ONLY <1>5, <2>2, <2>3
<1> QED  BY ONLY <1>3, <1>7, <1>8 DEF Ordered, r, T

LEMMA OrderedHead ==
    ASSUME NEW m, NEW d, NEW q, Ordered(m, d, q), q # <<>>,
           \A w \in 1..m : d[w] \in Nat
    PROVE  q[1] \in Elems(q) /\ q[1] \in 1..m /\ \A w \in Elems(q) : d[q[1]] <= d[w]
<1> DEFINE T == 1..m
<1>1. q \in Seq(T) /\ \A i, j \in 1..Len(q) : i < j => d[q[i]] <= d[q[j]]
  BY DEF Ordered
<1> HIDE DEF T
<1>2. Len(q) \in Nat /\ 1 \in 1..Len(q) /\ q[1] \in T
  BY ONLY <1>1, q # <<>>, HeadIs
<1>3. ASSUME NEW i \in 1..Len(q)
      PROVE  d[q[1]] <= d[q[i]]
  <2>1. CASE i = 1
    <3>1. d[q[1]] \in Nat
      BY <1>2 DEF T
    <3> QED  BY ONLY <2>1, <3>1
  <2>2. CASE i # 1
    <3>1. 1 < i
      BY ONLY <1>2, <2>2
    <3> QED  BY ONLY <1>1, <1>2, <3>1
  <2> QED  BY ONLY <2>1, <2>2
<1>4. \A w \in Elems(q) : d[q[1]] <= d[w]
  BY ONLY <1>3 DEF Elems
<1> QED  BY ONLY <1>2, <1>4 DEF Elems, T

\* One node is visited: d becomes e, q and o become r and Append(o, v).
Reached(m, N, d, v) == {w \in N[v] : d[w] = m}

Closer(m, N, d, v) == [w \in 1..m |-> IF w \in Reached(m, N, d, v) THEN d[v] + 1 ELSE d[w]]

\* What is known of that visit.
Sees(m, d, q, o, v, F, e) ==
    /\ m \in Nat /\ v \in 1..m /\ v \in Elems(q) /\ F \in SUBSET (1..m) /\ v \notin Elems(o)
    /\ d[v] # m /\ \A w \in 1..m : d[w] \in Nat /\ e[w] = IF w \in F THEN d[v] + 1 ELSE d[w]
    /\ \A w \in F : d[w] = m
    /\ F # {} => d[v] + 1 < m
    /\ Seen(m, e) = Seen(m, d) \cup F
    /\ \A w \in Seen(m, e) : e[w] < Cardinality(Seen(m, e))
    /\ \A w \in Elems(q) : d[v] <= d[w] /\ d[w] <= d[v] + 1
    /\ \A w \in Elems(o) : d[w] <= d[v]

\* The first of the queue is the nearest; what it finds is one further.
LEMMA VisitSees ==
    ASSUME NEW m, NEW N, IsGraph(m, N), NEW src, NEW d, NEW q, NEW o, Breadth(m, N, src, d, q, o),
           q # <<>>, NEW v, v = q[1], NEW F, F = Reached(m, N, d, v), NEW e, e = Closer(m, N, d, v)
    PROVE  Sees(m, d, q, o, v, F, e)
<1> DEFINE S == Seen(m, d)
           U == S \cup F
           T == 1..m
<1>1. m \in Nat /\ (N[v] \in SUBSET T \/ v \notin T)
  BY DEF IsGraph
<1>2. /\ d \in [T -> 0..m] /\ Waiting(m, d, q, o) /\ \A w \in S : d[w] < Cardinality(S)
  BY DEF Breadth
<1>3. m \in Nat /\ \A w \in T : d[w] \in Nat /\ d[w] <= m
  <2>1. m \in Nat
    BY DEF IsGraph
  <2> QED  BY ONLY <1>2, <2>1
<1>4. /\ Ordered(m, d, q) /\ Elems(o) \cup Elems(q) = S /\ Elems(o) \cap Elems(q) = {}
      /\ \A u \in Elems(o) : \A w \in Elems(q) : d[u] <= d[w]
      /\ \A w \in Elems(q) : d[w] <= d[v] + 1
  BY <1>2 DEF Waiting
<1>5. v \in Elems(q) /\ v \in T /\ \A w \in Elems(q) : d[v] <= d[w]
  BY <1>3, <1>4, OrderedHead
<1>6. d[v] # m /\ v \in S /\ v \notin Elems(o)
  <2>1. v \in S
    BY ONLY <1>4, <1>5
  <2> QED  BY ONLY <1>4, <1>5, <2>1 DEF Seen
<1>7. F \in SUBSET T /\ (\A w \in F : d[w] = m) /\ F \cap S = {}
  BY <1>1, <1>5 DEF Reached, Seen
<1>8. \A w \in T : e[w] = IF w \in F THEN d[v] + 1 ELSE d[w]
  BY DEF Closer
<1>9. /\ U \in SUBSET T /\ IsFiniteSet(U) /\ Cardinality(U) \in Nat /\ Cardinality(U) <= m
      /\ Cardinality(S) \in Nat /\ Cardinality(S) <= Cardinality(U)
      /\ F # {} => Cardinality(S) < Cardinality(U)
  <2>1. S \in SUBSET T
    BY DEF Seen
  <2>2. U \in SUBSET T /\ S \in SUBSET U /\ (F # {} => S # U)
    BY ONLY <1>7, <2>1
  <2>3. IsFiniteSet(T) /\ Cardinality(T) = m
    <3>1. IsFiniteSet(1..m) /\ Cardinality(1..m) = IF 1 > m THEN 0 ELSE m - 1 + 1
      BY ONLY <1>3, FS_Interval
    <3> QED  BY ONLY <1>3, <3>1
  <2> HIDE DEF T, U, S
  <2>4. IsFiniteSet(U) /\ Cardinality(U) <= Cardinality(T)
    BY ONLY <2>2, <2>3, FS_Subset
  <2>5. Cardinality(S) <= Cardinality(U) /\ (Cardinality(S) = Cardinality(U) => S = U) /\ IsFiniteSet(S)
    BY ONLY <2>2, <2>4, FS_Subset
  <2>6. Cardinality(S) \in Nat /\ Cardinality(U) \in Nat
    BY ONLY <2>4, <2>5, FS_CardinalityType
  <2> QED  BY ONLY <2>2, <2>3, <2>4, <2>5, <2>6
<1>10. d[v] < Cardinality(S)
  BY ONLY <1>2, <1>6
<1>11. F # {} => d[v] + 1 < m /\ d[v] + 1 < Cardinality(U)
  <2>1. d[v] \in Nat
    BY ONLY <1>3, <1>5
  <2> QED  BY ONLY <1>3, <1>9, <1>10, <2>1
<1>12. Seen(m, e) = U
  <2>1. ASSUME NEW w \in T
        PROVE  e[w] # m <=> (d[w] # m \/ w \in F)
    <3>1. CASE w \in F
      <4>1. e[w] = d[v] + 1 /\ d[v] + 1 < m
        BY ONLY <1>8, <1>11, <3>1
      <4> QED  BY ONLY <1>3, <3>1, <4>1
    <3>2. CASE w \notin F
      BY ONLY <1>8, <3>2, w \in T
    <3> QED  BY ONLY <3>1, <3>2
  <2> QED  BY ONLY <1>7, <2>1 DEF Seen, T
<1>13. ASSUME NEW w \in U
       PROVE  e[w] < Cardinality(U)
  <2>1. CASE w \in F
    <3>1. e[w] = d[v] + 1
      BY ONLY <1>7, <1>8, <2>1
    <3> QED  BY ONLY <1>11, <2>1, <3>1
  <2>2. CASE w \notin F
    <3>1. w \in S /\ w \in T
      BY ONLY <1>9, <2>2
    <3>2. e[w] = d[w] /\ d[w] < Cardinality(S) /\ d[w] \in Nat
      BY ONLY <1>2, <1>3, <1>8, <2>2, <3>1
    <3> QED  BY ONLY <1>9, <3>2
  <2> QED  BY ONLY <2>1, <2>2
<1>14. \A w \in Elems(o) : d[w] <= d[v]
  BY ONLY <1>4, <1>5
<1> QED  BY ONLY <1>3, <1>4, <1>5, <1>6, <1>7, <1>8, <1>11, <1>12, <1>13, <1>14 DEF Sees

\* The search stays one from near to far,
LEMMA BreadthVisits ==
    ASSUME NEW m, NEW N, IsGraph(m, N), NEW src, NEW d, NEW q, NEW o, Breadth(m, N, src, d, q, o),
           q # <<>>, NEW v, v = q[1], NEW F, F = Reached(m, N, d, v), NEW e, e = Closer(m, N, d, v),
           NEW r, Turned(m, q, F, r)
    PROVE  Breadth(m, N, src, e, r, Append(o, v))
<1> DEFINE p == Append(o, v)
           T == 1..m
           k == d[v] + 1
<1>1. /\ m \in Nat /\ v \in T /\ v \in Elems(q) /\ F \in SUBSET T /\ v \notin Elems(o)
      /\ d[v] # m /\ \A w \in T : d[w] \in Nat /\ e[w] = IF w \in F THEN k ELSE d[w]
      /\ \A w \in F : d[w] = m
      /\ F # {} => k < m
      /\ Seen(m, e) = Seen(m, d) \cup F
      /\ \A w \in Seen(m, e) : e[w] < Cardinality(Seen(m, e))
      /\ \A w \in Elems(q) : d[v] <= d[w] /\ d[w] <= k
      /\ \A w \in Elems(o) : d[w] <= d[v]
  <2>1. Sees(m, d, q, o, v, F, e)
    BY VisitSees
  <2> QED  BY ONLY <2>1 DEF Sees
<1>2. /\ src \in T /\ d \in [T -> 0..m] /\ d[src] = 0 /\ \A w \in T : d[w] = 0 => w = src
      /\ \A u \in Elems(o) : \A w \in N[u] : d[w] # m /\ d[w] <= d[u] + 1
  BY DEF Breadth
<1>3. /\ Ordered(m, d, o) /\ Ordered(m, d, q) /\ Elems(o) \cup Elems(q) = Seen(m, d)
      /\ Elems(o) \cap Elems(q) = {}
      /\ \A u \in Elems(o) : \A w \in Elems(q) : d[u] <= d[w]
  BY DEF Breadth, Waiting
<1>4. \A u \in T : N[u] \in SUBSET T
  BY DEF IsGraph
<1>5. k \in Nat /\ d[v] \in Nat
  BY ONLY <1>1
<1>6. \A w \in Elems(o) \cup Elems(q) : w \in T /\ w \notin F /\ e[w] = d[w] /\ d[w] # m
  <2>1. \A w \in Seen(m, d) : w \in T /\ d[w] # m
    BY DEF Seen
  <2> QED  BY ONLY <1>1, <1>3, <2>1
<1> HIDE DEF k
<1>7. Elems(r) = (Elems(q) \ {v}) \cup F /\ Ordered(m, e, r)
  <2>1. Elems(r) = (Elems(q) \ {v}) \cup F
    BY <1>3, QueueHolds
  <2>2. (\A w \in Elems(q) : w \notin F /\ e[w] = d[w] /\ d[w] <= k) /\ \A w \in F : e[w] = k
    BY ONLY <1>1, <1>6
  <2>3. Ordered(m, e, r)
    BY ONLY <1>3, <1>5, <2>2, Turned(m, q, F, r), QueueOrdered
  <2> QED  BY ONLY <2>1, <2>3
<1>8. Elems(p) = Elems(o) \cup {v} /\ Ordered(m, e, p)
  <2>1. Ordered(m, d, p) /\ Elems(p) = Elems(o) \cup {v}
    BY ONLY <1>1, <1>3, OrderedAppend
  <2>2. \A w \in Elems(p) : e[w] = d[w]
    BY ONLY <1>1, <1>6, <2>1
  <2> HIDE DEF p
  <2>3. Ordered(m, e, p)
    BY ONLY <2>1, <2>2, OrderedSame
  <2> QED  BY ONLY <2>1, <2>3
<1> HIDE DEF p
<1>9. Elems(p) \cup Elems(r) = Seen(m, e) /\ Elems(p) \cap Elems(r) = {}
  <2> DEFINE O == Elems(o)
             Q == Elems(q)
             P == Elems(p)
             R == Elems(r)
             S == Seen(m, d)
  <2>1. /\ v \in Q /\ v \notin O /\ R = (Q \ {v}) \cup F /\ P = O \cup {v} /\ Seen(m, e) = S \cup F
        /\ O \cup Q = S /\ O \cap Q = {}
    BY ONLY <1>1, <1>3, <1>7, <1>8
  <2>2. \A w \in O \cup Q : w \notin F
    BY ONLY <1>6
  <2> HIDE DEF O, Q, P, R, S
  <2>3. P \cup R = S \cup F /\ P \cap R = {}
    BY ONLY <2>1, <2>2
  <2> QED  BY ONLY <2>1, <2>3 DEF P, R
<1>10. ASSUME NEW w \in Elems(r)
       PROVE  e[v] <= e[w] /\ e[w] <= k /\ e[w] \in Nat
  <2>1. CASE w \in F
    <3>1. e[w] = k /\ e[v] = d[v]
      BY ONLY <1>1, <1>6, <2>1
    <3> QED  BY ONLY <1>5, <3>1 DEF k
  <2>2. CASE w \notin F
    <3>1. w \in Elems(q)
      BY ONLY <1>7, <2>2
    <3>2. e[w] = d[w] /\ e[v] = d[v] /\ d[w] \in Nat
      BY ONLY <1>1, <1>6, <3>1
    <3> QED  BY ONLY <1>1, <3>1, <3>2
  <2> QED  BY ONLY <2>1, <2>2
<1>11. ASSUME NEW u \in Elems(p), NEW w \in Elems(r)
       PROVE  e[u] <= e[w]
  <2>1. CASE u = v
    BY ONLY <1>10, <2>1
  <2>2. CASE u # v
    <3>1. u \in Elems(o)
      BY ONLY <1>8, <2>2
    <3>2. e[u] = d[u] /\ d[u] <= d[v] /\ d[u] \in Nat /\ e[v] = d[v]
      BY ONLY <1>1, <1>6, <3>1
    <3>3. e[v] <= e[w] /\ e[w] \in Nat
      BY ONLY <1>10
    <3> QED  BY ONLY <1>5, <3>2, <3>3
  <2> QED  BY ONLY <2>1, <2>2
<1>12. ASSUME r # <<>>, NEW w \in Elems(r)
       PROVE  e[w] <= e[r[1]] + 1
  <2>1. r[1] \in Elems(r)
    <3> DEFINE R == 1..m
    <3>1. r \in Seq(R)
      BY <1>7 DEF Ordered
    <3> HIDE DEF R
    <3>2. 1 \in 1..Len(r)
      BY ONLY <1>12, <3>1, HeadIs
    <3> QED  BY ONLY <3>2 DEF Elems
  <2>2. e[v] <= e[r[1]] /\ e[r[1]] \in Nat /\ e[w] <= k /\ e[w] \in Nat
    BY ONLY <1>10, <2>1
  <2>3. e[v] = d[v]
    BY ONLY <1>1, <1>6
  <2> QED  BY ONLY <1>5, <2>2, <2>3 DEF k
<1>13. Waiting(m, e, r, p)
  BY ONLY <1>7, <1>8, <1>9, <1>11, <1>12 DEF Waiting
<1>14. ASSUME NEW u \in Elems(p), NEW w \in N[u]
       PROVE  e[w] # m /\ e[w] <= e[u] + 1
  <2>1. u \in T /\ w \in T /\ e[u] = d[u]
    BY ONLY <1>1, <1>4, <1>6, <1>8
  <2>2. CASE u = v
    <3>1. CASE d[w] = m
      <4>1. w \in F
        BY <2>2, <3>1 DEF Reached
      <4>2. e[w] = k /\ k < m
        BY ONLY <1>1, <2>1, <4>1
      <4> QED  BY ONLY <1>1, <1>5, <2>1, <2>2, <4>2 DEF k
    <3>2. CASE d[w] # m
      <4>1. w \in Elems(o) \cup Elems(q)
        BY ONLY <1>3, <2>1, <3>2 DEF Seen, T
      <4>2. e[w] = d[w] /\ d[w] \in Nat
        BY ONLY <1>1, <1>6, <4>1
      <4>3. d[w] <= k
        <5>1. CASE w \in Elems(o)
          <6>1. d[w] <= d[v]
            BY ONLY <1>1, <5>1
          <6> QED  BY ONLY <1>5, <4>2, <6>1 DEF k
        <5>2. CASE w \in Elems(q)
          BY ONLY <1>1, <5>2
        <5> QED  BY ONLY <4>1, <5>1, <5>2
      <4> QED  BY ONLY <2>1, <2>2, <3>2, <4>2, <4>3 DEF k
    <3> QED  BY ONLY <3>1, <3>2
  <2>3. CASE u # v
    <3>1. u \in Elems(o)
      BY ONLY <1>8, <2>3
    <3>2. d[w] # m /\ d[w] <= d[u] + 1
      BY ONLY <1>2, <3>1
    <3>3. w \notin F
      BY ONLY <1>1, <3>2
    <3>4. e[w] = d[w]
      BY ONLY <1>1, <2>1, <3>3
    <3> QED  BY ONLY <2>1, <3>2, <3>4
  <2> QED  BY ONLY <2>2, <2>3
<1>15. e \in [T -> 0..m]
  <2>1. e = [w \in T |-> e[w]]
    BY DEF Closer
  <2>2. ASSUME NEW w \in T
        PROVE  e[w] \in 0..m
    <3>1. d[w] \in 0..m
      BY ONLY <1>2
    <3>2. CASE w \in F
      <4>1. e[w] = k /\ k < m
        BY ONLY <1>1, <3>2
      <4> QED  BY ONLY <1>1, <1>5, <4>1
    <3>3. CASE w \notin F
      BY ONLY <1>1, <3>1, <3>3
    <3> QED  BY ONLY <3>2, <3>3
  <2> QED  BY ONLY <2>1, <2>2
<1>16. e[src] = 0 /\ \A w \in T : e[w] = 0 => w = src
  <2>1. src \notin F
    <3>1. m # 0
      BY ONLY <1>1, <1>2 DEF T
    <3> QED  BY ONLY <1>1, <1>2, <3>1
  <2>2. k # 0
    BY ONLY <1>5 DEF k
  <2> QED  BY ONLY <1>1, <1>2, <2>1, <2>2
<1> QED  BY ONLY <1>1, <1>2, <1>13, <1>14, <1>15, <1>16 DEF Breadth, p, T

-----------------------------------------------------------------------------
\* The numbers of paths and the predecessors, once the nodes in E are visited.
Counting(m, N, src, d, g, p, E) ==
    /\ g \in [1..m -> Nat] /\ g[src] = 1
    /\ \A w \in 1..m : p[w] = {u \in E : u \in N[w] /\ d[u] + 1 = d[w]}
    /\ \A w \in 1..m : w # src => g[w] = SumOf(g, p[w])
    /\ \A w \in 1..m : d[w] = m <=> g[w] = 0

\* The neighbours that get v as a predecessor.
Gains(m, N, d, v) == {w \in N[v] : w \in Reached(m, N, d, v) \/ d[w] = d[v] + 1}

\* What a visit adds to the paths.
Spread(m, B, v, g, p, h, r) ==
    /\ h = [w \in 1..m |-> IF w \in B THEN g[w] + g[v] ELSE g[w]]
    /\ r = [w \in 1..m |-> IF w \in B THEN p[w] \cup {v} ELSE p[w]]

\* and the paths found are all those through the nodes visited.
LEMMA CountingVisits ==
    ASSUME NEW m, NEW N, IsGraph(m, N), NEW src, NEW d, NEW q, NEW o, Breadth(m, N, src, d, q, o),
           NEW v, NEW F, F = Reached(m, N, d, v), NEW e, e = Closer(m, N, d, v),
           Sees(m, d, q, o, v, F, e),
           NEW g, NEW p, Counting(m, N, src, d, g, p, Elems(o)),
           NEW B, B = Gains(m, N, d, v), NEW h, NEW r, Spread(m, B, v, g, p, h, r)
    PROVE  Counting(m, N, src, e, h, r, Elems(o) \cup {v})
<1> DEFINE E == Elems(o)
           G == E \cup {v}
           T == 1..m
           k == d[v] + 1
<1>0. /\ h = [w \in 1..m |-> IF w \in B THEN g[w] + g[v] ELSE g[w]]
      /\ r = [w \in 1..m |-> IF w \in B THEN p[w] \cup {v} ELSE p[w]]
  BY DEF Spread
<1> USE <1>0
<1>1. /\ m \in Nat /\ v \in T /\ F \in SUBSET T /\ v \notin E
      /\ d[v] # m /\ \A w \in T : d[w] \in Nat /\ e[w] = IF w \in F THEN d[v] + 1 ELSE d[w]
      /\ \A w \in F : d[w] = m
      /\ F # {} => k < m
      /\ \A w \in E : d[w] <= d[v]
  BY ONLY Sees(m, d, q, o, v, F, e) DEF Sees
<1>2. src \in T /\ d[src] = 0 /\ \A u \in E : \A w \in N[u] : d[w] # m
  BY DEF Breadth
<1>3. E \in SUBSET T /\ \A u \in E : d[u] # m
  <2>1. E \in SUBSET Seen(m, d)
    BY DEF Breadth, Waiting
  <2> QED  BY ONLY <2>1 DEF Seen
<1>4. /\ N \in [T -> SUBSET T] /\ v \notin N[v]
      /\ \A x \in T : \A y \in N[x] : x \in N[y]
  <2>1. N \in [T -> SUBSET T] /\ \A x \in T : x \notin N[x] /\ \A y \in N[x] : x \in N[y]
    BY DEF IsGraph
  <2> QED  BY ONLY <1>1, <2>1
<1>5. B \in SUBSET N[v] /\ (\A w \in N[v] : w \in B <=> (w \in F \/ d[w] = k)) /\ F \in SUBSET B
      /\ \A w \in N[v] : w \notin F => d[w] # m
  BY DEF Gains, Reached
<1>6. /\ g \in [T -> Nat] /\ g[src] = 1
      /\ \A w \in T : p[w] = {u \in E : u \in N[w] /\ d[u] + 1 = d[w]}
      /\ \A w \in T : w # src => g[w] = SumOf(g, p[w])
      /\ \A w \in T : d[w] = m <=> g[w] = 0
  BY DEF Counting
<1>7. h = [w \in T |-> IF w \in B THEN g[w] + g[v] ELSE g[w]]
      /\ r = [w \in T |-> IF w \in B THEN p[w] \cup {v} ELSE p[w]]
  OBVIOUS
<1>8. k \in Nat /\ d[v] \in Nat /\ g[v] \in Nat /\ g[v] # 0 /\ B \in SUBSET T
  BY ONLY <1>1, <1>4, <1>5, <1>6
<1> HIDE DEF E, T
<1>9. ASSUME NEW u \in G
      PROVE  u \in T /\ u \notin F /\ u \notin B /\ e[u] = d[u] /\ h[u] = g[u]
  <2>1. u \in T /\ d[u] # m /\ d[u] <= d[v] /\ d[u] \in Nat
    <3>1. CASE u = v
      BY ONLY <1>1, <1>8, <3>1
    <3>2. CASE u # v
      BY ONLY <1>1, <1>3, <3>2
    <3> QED  BY ONLY <3>1, <3>2
  <2>2. u \notin F
    BY ONLY <1>1, <2>1
  <2>3. d[u] # k
    BY ONLY <1>8, <2>1
  <2>4. u \notin B
    BY ONLY <1>5, <2>2, <2>3
  <2> QED  BY ONLY <1>1, <1>7, <2>1, <2>2, <2>4
<1>10. ASSUME NEW w \in B
       PROVE  e[w] = k /\ e[w] # m /\ w # src /\ h[w] # 0 /\ h[w] \in Nat /\ h[w] = g[w] + g[v]
  <2>1. w \in T /\ w \in N[v] /\ (w \in F \/ d[w] = k)
    BY ONLY <1>5, <1>8
  <2>2. e[w] = k
    BY ONLY <1>1, <2>1
  <2>3. e[w] # m
    <3>1. CASE w \in F
      BY ONLY <1>1, <1>8, <2>2, <3>1
    <3>2. CASE w \notin F
      BY ONLY <1>1, <1>5, <2>1, <3>2
    <3> QED  BY ONLY <3>1, <3>2
  <2>4. w # src
    <3>1. src \notin F /\ d[src] # k
      <4>1. m # 0
        BY ONLY <1>1, <1>2 DEF T
      <4> QED  BY ONLY <1>1, <1>2, <1>8, <4>1
    <3> QED  BY ONLY <2>1, <3>1
  <2>5. h[w] = g[w] + g[v] /\ g[w] \in Nat
    BY ONLY <1>6, <1>7, <2>1
  <2>6. h[w] # 0 /\ h[w] \in Nat
    BY ONLY <1>8, <2>5
  <2> QED  BY ONLY <2>2, <2>3, <2>4, <2>5, <2>6
<1>11. ASSUME NEW w \in T, w \notin B
       PROVE  e[w] = d[w] /\ h[w] = g[w] /\ r[w] = p[w]
  <2>1. w \notin F
    BY ONLY <1>5, <1>11
  <2> QED  BY ONLY <1>1, <1>7, <1>11, <2>1
<1>12. ASSUME NEW w \in T
       PROVE  r[w] = {u \in G : u \in N[w] /\ e[u] + 1 = e[w]}
  <2>1. \A u \in G : e[u] = d[u] /\ (u = v \/ u \in E)
    BY ONLY <1>9
  <2>2. p[w] = {u \in E : u \in N[w] /\ d[u] + 1 = d[w]}
    BY ONLY <1>6
  <2>3. CASE w \in B
    <3>1. r[w] = p[w] \cup {v} /\ e[w] = k /\ v \in N[w]
      BY ONLY <1>1, <1>4, <1>5, <1>7, <1>10, <2>3
    <3>2. \A u \in E : u \in N[w] => (d[u] + 1 = d[w] <=> d[u] + 1 = k)
      <4>1. CASE w \in F
        <5>1. \A u \in E : u \notin N[w]
          BY ONLY <1>1, <1>2, <1>4, <4>1
        <5> QED  BY ONLY <5>1
      <4>2. CASE w \notin F
        BY ONLY <1>5, <2>3, <4>2
      <4> QED  BY ONLY <4>1, <4>2
    <3>3. \A u : u \in r[w] <=> u \in {x \in G : x \in N[w] /\ e[x] + 1 = e[w]}
      <4>1. ASSUME NEW u
            PROVE  u \in r[w] <=> u \in {x \in G : x \in N[w] /\ e[x] + 1 = e[w]}
        <5>1. CASE u = v
          <6>1. e[v] + 1 = k
            BY ONLY <2>1
          <6> HIDE DEF k
          <6> QED  BY ONLY <3>1, <5>1, <6>1
        <5>2. CASE u # v
          <6>1. u \in r[w] <=> u \in p[w]
            BY ONLY <3>1, <5>2
          <6>2. u \in p[w] <=> u \in E /\ u \in N[w] /\ d[u] + 1 = k
            BY ONLY <2>2, <3>2
          <6>3. u \in G => e[u] = d[u]
            BY ONLY <2>1
          <6> HIDE DEF k
          <6> QED  BY ONLY <3>1, <5>2, <6>1, <6>2, <6>3
        <5> QED  BY ONLY <5>1, <5>2
      <4> QED  BY ONLY <4>1
    <3> QED  BY ONLY <3>3
  <2>4. CASE w \notin B
    <3>1. r[w] = p[w] /\ e[w] = d[w]
      BY ONLY <1>11, <2>4
    <3>2. v \in N[w] => k # d[w]
      <4>1. v \in N[w] => w \in N[v]
        BY ONLY <1>4
      <4> QED  BY ONLY <1>5, <2>4, <4>1
    <3>3. ASSUME NEW u
          PROVE  u \in r[w] <=> u \in {x \in G : x \in N[w] /\ e[x] + 1 = e[w]}
      <4>1. CASE u = v
        <5>1. u \notin r[w]
          BY ONLY <1>1, <2>2, <3>1, <4>1
        <5>2. u \in N[w] => e[u] + 1 # e[w]
          BY ONLY <2>1, <3>1, <3>2, <4>1
        <5> QED  BY ONLY <5>1, <5>2
      <4>2. CASE u # v
        <5>1. u \in G => e[u] = d[u]
          BY ONLY <2>1
        <5> QED  BY ONLY <2>2, <3>1, <4>2, <5>1
      <4> QED  BY ONLY <4>1, <4>2
    <3> QED  BY ONLY <3>3
  <2> QED  BY ONLY <2>3, <2>4
<1>13. ASSUME NEW w \in T
       PROVE  Summable(g, p[w]) /\ SameOn(h, g, p[w]) /\ IsFiniteSet(p[w]) /\ v \notin p[w]
  <2>1. p[w] \in SUBSET E
    BY ONLY <1>6
  <2>2. p[w] \in SUBSET (1..m) /\ v \notin p[w]
    BY ONLY <1>1, <1>3, <2>1 DEF T
  <2>3. IsFiniteSet(p[w])
    BY ONLY <1>1, <2>2, PositionsInOrder
  <2>4. \A u \in p[w] : g[u] \in Nat /\ h[u] = g[u]
    BY ONLY <1>3, <1>6, <1>9, <2>1
  <2> QED  BY ONLY <2>2, <2>3, <2>4 DEF Summable, SameOn
<1>14. ASSUME NEW w \in T, w # src
       PROVE  h[w] = SumOf(h, r[w])
  <2> DEFINE P == p[w]
             R == r[w]
  <2>1. g[w] = SumOf(g, P)
    BY ONLY <1>6, <1>14
  <2>2. Summable(g, P) /\ SameOn(h, g, P) /\ IsFiniteSet(P) /\ v \notin P
    BY ONLY <1>13
  <2>3. CASE w \notin B
    <3>1. R = P /\ h[w] = g[w]
      BY ONLY <1>11, <2>3
    <3> HIDE DEF P, R
    <3>2. SumOf(h, P) = SumOf(g, P)
      BY ONLY <2>2, SumSame
    <3> QED  BY ONLY <2>1, <3>1, <3>2 DEF R
  <2>4. CASE w \in B
    <3>1. R = P \cup {v} /\ h[w] = g[w] + g[v]
      BY ONLY <1>7, <2>4, w \in T
    <3>2. h[v] = g[v]
      BY ONLY <1>9
    <3> HIDE DEF P, R
    <3>3. SumOf(h, P) = SumOf(g, P) /\ SumOf(g, P) \in Nat
      BY ONLY <2>2, SumSame, SumTake
    <3>4. R \ {v} = P /\ v \in R
      BY ONLY <2>2, <3>1
    <3>5. Summable(h, R)
      <4>1. IsFiniteSet(R)
        BY ONLY <2>2, <3>1, FS_AddElement
      <4>2. \A x \in R : h[x] \in Nat
        BY ONLY <1>8, <2>2, <3>1, <3>2 DEF Summable, SameOn
      <4> QED  BY ONLY <4>1, <4>2 DEF Summable
    <3>6. SumOf(h, R) = h[v] + SumOf(h, R \ {v})
      BY ONLY <3>4, <3>5, SumTake
    <3>7. SumOf(h, R) = g[v] + SumOf(g, P)
      BY ONLY <3>2, <3>3, <3>4, <3>6
    <3> QED  BY ONLY <1>8, <2>1, <3>1, <3>3, <3>7 DEF R
  <2> QED  BY ONLY <2>3, <2>4
<1>15. ASSUME NEW w \in T
       PROVE  h[w] \in Nat /\ (e[w] = m <=> h[w] = 0)
  <2>1. CASE w \in B
    BY ONLY <1>10, <2>1
  <2>2. CASE w \notin B
    BY ONLY <1>6, <1>11, <2>2
  <2> QED  BY ONLY <2>1, <2>2
<1>16. h \in [T -> Nat] /\ h[src] = 1
  <2>1. src \notin B
    BY ONLY <1>10
  <2>2. h[src] = g[src]
    BY ONLY <1>2, <1>11, <2>1
  <2>3. h = [w \in T |-> h[w]]
    BY ONLY <1>7
  <2> QED  BY ONLY <1>6, <1>15, <2>2, <2>3
<1> QED  BY ONLY <1>12, <1>14, <1>15, <1>16 DEF Counting, T, E

\* The search begins,
LEMMA BreadthStarts ==
    ASSUME NEW m, NEW N, IsGraph(m, N), NEW src \in 1..m,
           NEW d, d = [v \in 1..m |-> IF v = src THEN 0 ELSE m],
           NEW g, g = [v \in 1..m |-> IF v = src THEN 1 ELSE 0],
           NEW p, p = [v \in 1..m |-> {}]
    PROVE  Breadth(m, N, src, d, <<src>>, <<>>) /\ Counting(m, N, src, d, g, p, Elems(<<>>))
<1> DEFINE T == 1..m
           q == <<src>>
<1>1. m \in Nat /\ m # 0
  BY DEF IsGraph
<1>2. Elems(<<>>) = {} /\ Elems(q) = {src} /\ q # <<>> /\ q[1] = src
  BY DEF Elems
<1>3. Seen(m, d) = {src} /\ Cardinality({src}) = 1
  <2>1. Cardinality({src}) = 1
    BY FS_Singleton
  <2> QED  BY <1>1, <2>1 DEF Seen
<1>4. d \in [T -> 0..m] /\ g \in [T -> Nat] /\ d[src] = 0 /\ g[src] = 1 /\ \A v \in T : d[v] = 0 => v = src
  BY <1>1
<1>5. Ordered(m, d, <<>>) /\ Ordered(m, d, q)
  <2>1. Ordered(m, d, <<>>)
    BY DEF Ordered
  <2>2. q \in Seq(T) /\ Len(q) = 1
    OBVIOUS
  <2>3. \A i, j \in 1..1 : ~(i < j)
    OBVIOUS
  <2> HIDE DEF q
  <2>4. Ordered(m, d, q)
    BY ONLY <2>2, <2>3 DEF Ordered
  <2> QED  BY ONLY <2>1, <2>4
<1> HIDE DEF q
<1>6. Waiting(m, d, q, <<>>)
  BY ONLY <1>2, <1>3, <1>4, <1>5 DEF Waiting
<1>7. Breadth(m, N, src, d, q, <<>>)
  BY ONLY <1>2, <1>3, <1>4, <1>6, src \in 1..m DEF Breadth
<1>8. ASSUME NEW w \in T
      PROVE  /\ p[w] = {u \in {} : u \in N[w] /\ d[u] + 1 = d[w]}
             /\ w # src => g[w] = SumOf(g, p[w])
             /\ d[w] = m <=> g[w] = 0
  <2>1. p[w] = {} /\ SumOf(g, {}) = 0
    BY SumNone
  <2>2. w # src => g[w] = 0
    OBVIOUS
  <2>3. d[w] = m <=> g[w] = 0
    BY <1>1
  <2>4. {u \in {} : u \in N[w] /\ d[u] + 1 = d[w]} = {}
    OBVIOUS
  <2> QED  BY ONLY <2>1, <2>2, <2>3, <2>4
<1>9. Counting(m, N, src, d, g, p, {})
  BY ONLY <1>4, <1>8 DEF Counting
<1> QED  BY ONLY <1>2, <1>7, <1>9 DEF q

\* and when nothing waits any more it has layered the graph.
LEMMA BreadthEnds ==
    ASSUME NEW m, NEW N, IsGraph(m, N), NEW src, NEW d, NEW o, Breadth(m, N, src, d, <<>>, o),
           NEW g, NEW p, Counting(m, N, src, d, g, p, Elems(o))
    PROVE  /\ Layered(m, N, src, d, g) /\ Ordered(m, d, o) /\ Elems(o) = Seen(m, d)
           /\ \A w \in 1..m : p[w] = Above(N, d, w)
<1> DEFINE T == 1..m
           E == Elems(o)
<1>1. m \in Nat /\ \A w \in T : N[w] \in SUBSET T
  BY DEF IsGraph
<1>2. /\ src \in T /\ d \in [T -> 0..m] /\ d[src] = 0 /\ \A v \in T : d[v] = 0 => v = src
      /\ \A v \in E : \A w \in N[v] : d[w] # m /\ d[w] <= d[v] + 1
  BY DEF Breadth
<1>3. Ordered(m, d, o) /\ E = Seen(m, d)
  <2>1. Ordered(m, d, o) /\ E \cup Elems(<<>>) = Seen(m, d)
    BY DEF Breadth, Waiting
  <2>2. Elems(<<>>) = {}
    BY DEF Elems
  <2> QED  BY ONLY <2>1, <2>2
<1>4. /\ g \in [T -> Nat] /\ g[src] = 1
      /\ \A w \in T : p[w] = {u \in E : u \in N[w] /\ d[u] + 1 = d[w]}
      /\ \A w \in T : w # src => g[w] = SumOf(g, p[w])
      /\ \A w \in T : d[w] = m <=> g[w] = 0
  BY DEF Counting
<1> HIDE DEF E
<1>5. ASSUME NEW w \in T
      PROVE  p[w] = Above(N, d, w)
  <2>1. ASSUME NEW u \in N[w], d[u] + 1 = d[w]
        PROVE  u \in E
    <3>1. u \in T /\ d[u] \in 0..m /\ d[w] \in 0..m
      BY ONLY <1>1, <1>2, w \in T, u \in N[w]
    <3>2. d[u] # m
      BY ONLY <1>1, <2>1, <3>1
    <3> QED  BY ONLY <1>3, <3>1, <3>2 DEF Seen
  <2>2. p[w] = {u \in E : u \in N[w] /\ d[u] + 1 = d[w]}
    BY ONLY <1>4
  <2> QED  BY ONLY <2>1, <2>2 DEF Above
<1>6. \A v \in T : d[v] # m => \A w \in N[v] : d[w] # m /\ d[w] <= d[v] + 1
  <2>1. \A v \in T : d[v] # m => v \in E
    BY ONLY <1>3 DEF Seen
  <2> QED  BY ONLY <1>2, <2>1
<1>7. \A v \in T : v # src => g[v] = SumOf(g, Above(N, d, v))
  BY ONLY <1>4, <1>5
<1> QED  BY ONLY <1>2, <1>3, <1>4, <1>5, <1>6, <1>7 DEF Layered, E

-----------------------------------------------------------------------------
(***************************************************************************)
(* The way back: P are the nodes taken from the order again, x what they   *)
(* have handed on so far.                                                  *)
(***************************************************************************)
HandedOn(m, N, d, g, D, x, P) ==
    /\ x \in [1..m -> Nat]
    /\ \A v \in 1..m : x[v] = g[v] * SumOf(D, Below(N, d, v) \cap P)

\* The last of the order is the farthest.
LEMMA OrderedLast ==
    ASSUME NEW m, NEW d, NEW q, Ordered(m, d, q), q # <<>>, \A w \in 1..m : d[w] \in Nat
    PROVE  /\ Last(q) \in Elems(q) /\ Last(q) \in 1..m /\ \A u \in Elems(q) : d[u] <= d[Last(q)]
           /\ Ordered(m, d, Front(q)) /\ Elems(Front(q)) = Elems(q) \ {Last(q)}
<1> DEFINE w == Last(q)
           r == Front(q)
           T == 1..m
           l == Len(q)
<1>1. q \in Seq(T) /\ \A i, j \in 1..l : i < j => q[i] # q[j] /\ d[q[i]] <= d[q[j]]
  BY DEF Ordered
<1> HIDE DEF T
<1>2. l \in Nat /\ l # 0 /\ l \in 1..l /\ w = q[l] /\ w \in T
  <2>1. l \in Nat /\ l # 0
    BY ONLY <1>1, q # <<>>
  <2>2. l \in 1..l
    BY ONLY <2>1
  <2>3. w = q[l]
    BY DEF Last
  <2>4. q[l] \in T
    BY ONLY <1>1, <2>2
  <2> QED  BY ONLY <2>1, <2>2, <2>3, <2>4
<1>3. r \in Seq(T) /\ Len(r) = l - 1 /\ \A i \in 1..(l - 1) : r[i] = q[i] /\ i \in 1..l /\ i < l
  <2>1. r = SubSeq(q, 1, l - 1)
    BY DEF Front
  <2>2. r \in Seq(T) /\ Len(r) = l - 1
    <3> DEFINE k == l - 1
    <3>1. k \in Nat /\ k \in 0..Len(q)
      BY ONLY <1>2
    <3> HIDE DEF k
    <3>2. \A i \in 1..k : q[i] \in T
      BY ONLY <1>1, <3>1
    <3>3. Len(SubSeq(q, 1, k)) = k /\ SubSeq(q, 1, k) \in Seq(T)
      BY ONLY <1>1, <3>1, <3>2
    <3> QED  BY ONLY <2>1, <3>3 DEF k
  <2>3. ASSUME NEW i \in 1..(l - 1)
        PROVE  r[i] = q[i] /\ i \in 1..l /\ i < l
    <3>1. i \in 1..l /\ i < l
      BY ONLY <1>2
    <3>2. r[i] = q[i]
      BY ONLY <1>1, <1>2, <2>1, i \in 1..(l - 1)
    <3> QED  BY ONLY <3>1, <3>2
  <2> QED  BY ONLY <2>2, <2>3
<1>4. \A i \in 1..l : i \in 1..(l - 1) \/ i = l
  BY ONLY <1>2
<1>5. d[w] \in Nat
  BY <1>2 DEF T
<1> HIDE DEF l
<1>6. ASSUME NEW i \in 1..l
      PROVE  d[q[i]] <= d[w] /\ (i # l => q[i] # w)
  <2>1. CASE i = l
    BY ONLY <1>2, <1>5, <2>1
  <2>2. CASE i # l
    <3>1. i < l
      BY ONLY <1>3, <1>4, <2>2
    <3> QED  BY ONLY <1>1, <1>2, <3>1
  <2> QED  BY ONLY <2>1, <2>2
<1>7. Elems(r) = Elems(q) \ {w}
  <2>1. ASSUME NEW i \in 1..(l - 1)
        PROVE  r[i] \in Elems(q) \ {w}
    <3>1. i \in 1..l /\ i # l /\ r[i] = q[i]
      BY ONLY <1>2, <1>3
    <3>2. q[i] # w
      BY ONLY <1>6, <3>1
    <3> QED  BY ONLY <3>1, <3>2 DEF Elems, l
  <2>2. ASSUME NEW i \in 1..l, q[i] # w
        PROVE  q[i] \in Elems(r)
    <3>1. i \in 1..(l - 1)
      BY ONLY <1>2, <1>4, <2>2
    <3>2. r[i] = q[i] /\ i \in 1..Len(r)
      BY ONLY <1>3, <3>1
    <3> QED  BY ONLY <3>2 DEF Elems
  <2>3. Elems(r) \subseteq Elems(q) \ {w}
    BY ONLY <1>3, <2>1 DEF Elems
  <2>4. Elems(q) \ {w} \subseteq Elems(r)
    BY ONLY <2>2 DEF Elems, l
  <2> QED  BY ONLY <2>3, <2>4
<1>8. Ordered(m, d, r)
  <2>1. ASSUME NEW i \in 1..Len(r), NEW j \in 1..Len(r), i < j
        PROVE  r[i] # r[j] /\ d[r[i]] <= d[r[j]]
    <3>1. r[i] = q[i] /\ r[j] = q[j] /\ i \in 1..l /\ j \in 1..l
      BY ONLY <1>3
    <3>2. q[i] # q[j] /\ d[q[i]] <= d[q[j]]
      BY ONLY <1>1, <2>1, <3>1
    <3> QED  BY ONLY <3>1, <3>2
  <2> QED  BY ONLY <1>3, <2>1 DEF Ordered, T
<1>9. w \in Elems(q) /\ \A u \in Elems(q) : d[u] <= d[w]
  BY ONLY <1>2, <1>6 DEF Elems, l
<1> QED  BY ONLY <1>2, <1>7, <1>8, <1>9 DEF T

\* The shares of the paths to a node make up the whole.
Fitting(m, d, C, g) == Scale \in Nat /\ \A t \in 1..m : d[t] # m => Scale = C[t] * g[t]

\* Of the nodes still to be taken, o, the next.
Farthest(m, d, o, w, P) ==
    /\ o \in SUBSET Seen(m, d) /\ P = Seen(m, d) \ o
    /\ w \in o /\ \A u \in o : d[u] <= d[w]

\* What w hands on to the nodes in A.
Hands(m, A, g, w, x, y) ==
    y = [v \in 1..m |-> IF v \in A THEN x[v] + (g[v] * (Scale + x[w])) \div g[w] ELSE x[v]]

\* Once w is taken, all below it are: what it has is what the source depends on it for,
\* and its predecessors get theirs.
LEMMA HandsOn ==
    ASSUME NEW m, NEW N, NEW W, AllWalks(m, N, W), NEW src, NEW d, NEW g, Layered(m, N, src, d, g),
           NEW C, Shares(m, d, C), Fitting(m, d, C, g), NEW D, D = Down(m, W, d, C),
           NEW o, NEW w, NEW P, Farthest(m, d, o, w, P),
           NEW x, HandedOn(m, N, d, g, D, x, P),
           NEW y, Hands(m, Above(N, d, w), g, w, x, y)
    PROVE  /\ x[w] = g[w] * SumOf(D, Below(N, d, w))
           /\ HandedOn(m, N, d, g, D, y, P \cup {w})
<1>0. y = [v \in 1..m |-> IF v \in Above(N, d, w)
                           THEN x[v] + (g[v] * (Scale + x[w])) \div g[w] ELSE x[v]]
  BY DEF Hands
<1>01. o \in SUBSET Seen(m, d) /\ P = Seen(m, d) \ o /\ w \in o /\ \A u \in o : d[u] <= d[w]
  BY DEF Farthest
<1>02. Scale \in Nat /\ \A t \in 1..m : d[t] # m => Scale = C[t] * g[t]
  BY DEF Fitting
<1> USE <1>01, <1>02
<1> DEFINE T == 1..m
           B(v) == Below(N, d, v)
<1>1. /\ m \in Nat /\ \A v \in T : N[v] \in SUBSET T /\ IsFiniteSet(N[v])
      /\ \A u, v \in T : u \in N[v] <=> v \in N[u]
  BY WalkFacts
<1>2. w \in T /\ d[w] # m /\ o \in SUBSET T /\ \A u \in T : u \in P <=> d[u] # m /\ u \notin o
  BY DEF Seen
<1>3. \A v \in T : d[v] \in Nat /\ g[v] \in Nat
  BY <1>1, LayersType
<1>4. x \in [T -> Nat] /\ \A v \in T : x[v] = g[v] * SumOf(D, B(v) \cap P)
  BY DEF HandedOn
<1>5. B(w) \cap P = B(w)
  <2>1. ASSUME NEW u \in B(w)
        PROVE  u \in P
    <3>1. u \in N[w] /\ d[u] = d[w] + 1
      BY DEF Below
    <3>2. u \in T
      BY ONLY <1>1, <1>2, <3>1
    <3>3. d[u] # m
      BY <1>2, <3>1, NoJump
    <3>4. ~(d[u] <= d[w])
      BY ONLY <1>2, <1>3, <3>1
    <3>5. u \notin o
      BY ONLY <3>4, \A a \in o : d[a] <= d[w]
    <3> QED  BY ONLY <1>2, <3>2, <3>3, <3>5
  <2> QED  BY ONLY <2>1
<1>6. x[w] = g[w] * SumOf(D, B(w))
  BY ONLY <1>2, <1>4, <1>5
<1>7. \A v \in T : D[v] \in Nat
  BY PartType
<1>8. D[w] = C[w] + SumOf(D, B(w)) /\ SumOf(D, B(w)) \in Nat
  <2> HIDE DEF B
  <2>1. /\ SumOf(Part(m, W, d, C)[w], (1..m) \ {w}) = SumOf(Down(m, W, d, C), Below(N, d, w))
        /\ Down(m, W, d, C)[w] = C[w] + SumOf(Down(m, W, d, C), Below(N, d, w))
        /\ SumOf(Down(m, W, d, C), Below(N, d, w)) \in Nat
    <3>1. w \in 1..m /\ d[w] # m
      BY ONLY <1>2
    <3> QED  BY ONLY <3>1, AllWalks(m, N, W), Layered(m, N, src, d, g), Shares(m, d, C), DownNext
  <2> QED  BY ONLY <2>1, D = Down(m, W, d, C) DEF B
<1>9. Scale = C[w] * g[w] /\ C[w] \in Nat /\ g[w] # 0
  <2>1. C[w] \in Nat
    BY <1>2 DEF Shares
  <2>2. g[w] # 0
    BY <1>2 DEF Layered
  <2> QED  BY <1>2, <2>1, <2>2
<1>10. Scale + x[w] = D[w] * g[w]
  <2> DEFINE a == g[w]
             c == C[w]
             t == SumOf(D, B(w))
  <2>1. Scale = c * a /\ x[w] = a * t /\ D[w] = c + t /\ a \in Nat /\ c \in Nat /\ t \in Nat
    BY ONLY <1>2, <1>3, <1>6, <1>8, <1>9
  <2> HIDE DEF a, c, t
  <2>2. c * a + a * t = (c + t) * a
    BY ONLY <2>1
  <2> QED  BY ONLY <2>1, <2>2 DEF a
<1>11. ASSUME NEW v \in T
       PROVE  /\ Summable(D, B(v) \cap P) /\ Summable(D, B(v) \cap (P \cup {w}))
              /\ w \in B(v) <=> v \in Above(N, d, w)
  <2>1. B(v) \in SUBSET N[v]
    BY DEF Below
  <2>2. Summable(D, N[v])
    BY ONLY <1>1, <1>7 DEF Summable
  <2>3. B(v) \cap P \in SUBSET N[v] /\ B(v) \cap (P \cup {w}) \in SUBSET N[v]
    BY ONLY <2>1
  <2>4. Summable(D, B(v) \cap P) /\ Summable(D, B(v) \cap (P \cup {w}))
    <3> DEFINE X == B(v) \cap P
               Y == B(v) \cap (P \cup {w})
               Z == N[v]
    <3> HIDE DEF X, Y, Z
    <3>1. Summable(D, Z) /\ X \in SUBSET Z /\ Y \in SUBSET Z
      BY ONLY <2>2, <2>3 DEF X, Y, Z
    <3>2. Summable(D, X) /\ Summable(D, Y)
      BY ONLY <3>1, CountsLess
    <3> QED  BY ONLY <3>2 DEF X, Y
  <2>5. w \in B(v) <=> v \in Above(N, d, w)
    <3>1. w \in N[v] <=> v \in N[w]
      BY ONLY <1>1, <1>2
    <3>2. d[w] = d[v] + 1 <=> d[v] + 1 = d[w]
      OBVIOUS
    <3> QED  BY ONLY <3>1, <3>2 DEF Below, Above
  <2> QED  BY ONLY <2>4, <2>5
<1>12. w \notin P
  BY ONLY <1>01, <1>2
<1> HIDE DEF B
<1>13. ASSUME NEW v \in T
       PROVE  y[v] = g[v] * SumOf(D, B(v) \cap (P \cup {w})) /\ y[v] \in Nat
  <2> DEFINE X == B(v) \cap P
             Y == B(v) \cap (P \cup {w})
  <2>1. Summable(D, X) /\ Summable(D, Y) /\ x[v] = g[v] * SumOf(D, X)
    BY ONLY <1>4, <1>11
  <2>2. CASE v \in Above(N, d, w)
    <3>1. w \in Y /\ Y \ {w} = X
      BY ONLY <1>11, <1>12, <2>2
    <3>2. y[v] = x[v] + (g[v] * (Scale + x[w])) \div g[w]
      BY ONLY <1>0, <2>2, v \in T
    <3> HIDE DEF X, Y
    <3>3. SumOf(D, Y) = D[w] + SumOf(D, X) /\ SumOf(D, X) \in Nat
      BY ONLY <2>1, <3>1, SumTake
    <3> DEFINE a == g[v]
               b == g[w]
               c == D[w]
               t == SumOf(D, X)
    <3>4. a \in Nat /\ b \in Nat /\ b # 0 /\ c \in Nat /\ t \in Nat
      BY ONLY <1>2, <1>3, <1>7, <1>9, <3>3
    <3>5. y[v] = a * t + (a * (c * b)) \div b /\ SumOf(D, Y) = c + t
      BY ONLY <1>10, <2>1, <3>2, <3>3
    <3> HIDE DEF a, b, c, t
    <3>6. a * (c * b) = (a * c) * b
      BY ONLY <3>4
    <3>7. a * c \in Nat
      BY ONLY <3>4
    <3>8. ((a * c) * b) \div b = a * c
      BY ONLY <3>4, <3>7, DivExact
    <3>9. y[v] = a * t + a * c
      BY ONLY <3>5, <3>6, <3>8
    <3>10. a * t + a * c = a * (c + t) /\ a * t + a * c \in Nat
      BY ONLY <3>4
    <3> QED  BY ONLY <3>5, <3>9, <3>10 DEF Y, a
  <2>3. CASE v \notin Above(N, d, w)
    <3>1. X = Y
      BY ONLY <1>11, <2>3
    <3>2. y[v] = x[v]
      BY ONLY <1>0, <2>3, v \in T
    <3>3. x[v] \in Nat
      BY ONLY <1>4
    <3> HIDE DEF X, Y
    <3> QED  BY ONLY <2>1, <3>1, <3>2, <3>3 DEF Y
  <2> QED  BY ONLY <2>2, <2>3
<1>14. y \in [T -> Nat]
  <2>1. y = [v \in T |-> y[v]]
    BY ONLY <1>0
  <2> QED  BY ONLY <1>13, <2>1
<1> QED  BY ONLY <1>6, <1>13, <1>14 DEF HandedOn, B

LEMMA ShortestType ==
    ASSUME NEW m, NEW N, IsGraph(m, N), NEW a \in 1..m, NEW b \in 1..m
    PROVE  /\ Shortest(m, N, a)[b].far \in Nat /\ Shortest(m, N, a)[b].paths \in Nat
           /\ Shortest(m, N, a)[b].far < m => Shortest(m, N, a)[b].paths # 0
<1> DEFINE f == Walks(m, N, a)
           sp == Shortest(m, N, a)[b]
<1>1. m \in Nat /\ \A k \in 0..m : f[k][b] \in Nat
  <2>1. IsWalks(m, N, a, f)
    BY WalksAre
  <2>2. f \in [0..m -> [1..m -> Nat]]
    BY ONLY <2>1 DEF IsWalks
  <2>3. m \in Nat
    BY DEF IsGraph
  <2> QED  BY ONLY <2>2, <2>3, b \in 1..m
<1>2. /\ (\A k \in 0..(m - 1) : f[k][b] = 0) => sp = [far |-> m, paths |-> 0]
      /\ \A k : FirstAt(m, f, b, k) => sp = [far |-> k, paths |-> f[k][b]]
      /\ (\A k \in 0..(m - 1) : f[k][b] = 0) \/ \E k : FirstAt(m, f, b, k)
  BY <1>1, ShortestIs
<1> HIDE DEF f, sp
<1>3. CASE \A k \in 0..(m - 1) : f[k][b] = 0
  <2>1. sp.far = m /\ sp.paths = 0
    BY ONLY <1>2, <1>3
  <2> QED  BY ONLY <1>1, <2>1 DEF sp
<1>4. CASE \E k : FirstAt(m, f, b, k)
  <2>1. PICK k : FirstAt(m, f, b, k)
    BY ONLY <1>4
  <2>2. sp.far = k /\ sp.paths = f[k][b]
    BY ONLY <1>2, <2>1
  <2>3. k \in 0..(m - 1) /\ f[k][b] # 0
    BY ONLY <2>1 DEF FirstAt
  <2>4. k \in 0..m /\ k \in Nat
    BY ONLY <1>1, <2>3
  <2>5. f[k][b] \in Nat
    BY ONLY <1>1, <2>4
  <2> QED  BY ONLY <2>2, <2>3, <2>4, <2>5 DEF sp
<1> QED  BY ONLY <1>2, <1>3, <1>4

LEMMA DivType == ASSUME NEW a \in Nat, NEW b \in Nat, b # 0 PROVE a \div b \in Nat
OBVIOUS

LEMMA ThroughType ==
    ASSUME n \in Nat, Scale \in Nat, NEW v \in Node, NEW a \in Node, NEW b \in Node
    PROVE  Through(Sp, v, a, b) \in Nat
<1> DEFINE x == Shortest(n, Near, a)[b]
           y == Shortest(n, Near, a)[v]
           z == Shortest(n, Near, v)[b]
<1>1. IsGraph(n, Near) /\ Node = 1..n
  BY GraphIsGraph
<1>2. /\ x.far \in Nat /\ x.paths \in Nat /\ (x.far < n => x.paths # 0)
      /\ y.paths \in Nat /\ z.paths \in Nat
  BY <1>1, ShortestType
<1>3. Through(Sp, v, a, b) = IF x.far < n /\ y.far + z.far = x.far
                             THEN (Scale * y.paths * z.paths) \div x.paths ELSE 0
  BY <1>1 DEF Through, Sp
<1> DEFINE p == y.paths
           q == z.paths
           k == Scale * p * q
<1>4. p \in Nat /\ q \in Nat
  BY ONLY <1>2
<1> HIDE DEF x, y, z, p, q
<1>5. k \in Nat
  <2> DEFINE l == Scale * p
  <2>1. l \in Nat
    BY ONLY <1>4, Scale \in Nat
  <2> HIDE DEF l
  <2>2. l * q \in Nat
    BY ONLY <1>4, <2>1
  <2> QED  BY ONLY <2>2 DEF l
<1> HIDE DEF k
<1>6. Through(Sp, v, a, b) = IF x.far < n /\ y.far + z.far = x.far THEN k \div x.paths ELSE 0
  BY ONLY <1>3 DEF k, p, q
<1>7. CASE x.far < n
  <2>1. k \div x.paths \in Nat
    BY ONLY <1>2, <1>5, <1>7, DivType
  <2> QED  BY ONLY <1>6, <2>1
<1>8. CASE ~(x.far < n)
  BY ONLY <1>6, <1>8
<1> QED  BY ONLY <1>7, <1>8

LEMMA DependencyType ==
    ASSUME n \in Nat, Scale \in Nat, NEW v \in Node
    PROVE  /\ \A a \in Node : Summable(Toward(v, a), Node \ {v}) /\ Dependency(v)[a] \in Nat
           /\ \A a, b \in Node : Toward(v, a)[b] = Through(Sp, v, a, b)
           /\ \A A \in SUBSET Node : Summable(Dependency(v), A)
<1>1. Node = 1..n /\ IsFiniteSet(Node)
  BY FS_Interval DEF Node
<1>2. \A a, b \in Node : Toward(v, a)[b] = Through(Sp, v, a, b) /\ Toward(v, a)[b] \in Nat
  BY ThroughType DEF Toward
<1>3. ASSUME NEW a \in Node
      PROVE  Summable(Toward(v, a), Node \ {v}) /\ Dependency(v)[a] \in Nat
  <2> DEFINE R == Node \ {v}
             t == Toward(v, a)
  <2>1. R \in SUBSET Node
    OBVIOUS
  <2>2. \A b \in Node : t[b] \in Nat
    BY ONLY <1>2, a \in Node
  <2>3. Dependency(v)[a] = SumOf(t, R)
    BY DEF Dependency
  <2> HIDE DEF R, t
  <2>4. IsFiniteSet(R)
    BY ONLY <1>1, <2>1, FS_Subset
  <2>5. Summable(t, R)
    BY ONLY <2>1, <2>2, <2>4 DEF Summable
  <2>6. SumOf(t, R) \in Nat
    BY ONLY <2>5, SumTake
  <2> QED  BY ONLY <2>3, <2>5, <2>6 DEF R, t
<1>4. ASSUME NEW A \in SUBSET Node
      PROVE  Summable(Dependency(v), A)
  <2>1. IsFiniteSet(A)
    BY ONLY <1>1, A \in SUBSET Node, FS_Subset
  <2>2. \A a \in A : Dependency(v)[a] \in Nat
    BY ONLY <1>3, A \in SUBSET Node
  <2> QED  BY ONLY <2>1, <2>2 DEF Summable
<1> QED  BY ONLY <1>2, <1>3, <1>4

-----------------------------------------------------------------------------
(***************************************************************************)
(* The sources: every Stride-th node.                                      *)
(***************************************************************************)
LEMMA MultipleOf == ASSUME NEW k \in Nat, NEW g \in Nat, g # 0 PROVE (k * g) % g = 0
<1> DEFINE a == k * g
<1>1. a \in Nat /\ a \div g = k
  BY DivExact
<1>2. g \in Nat \ {0}
  OBVIOUS
<1> HIDE DEF a
<1>3. a % g = a - g * (a \div g)
  BY ONLY <1>1, <1>2
<1>4. g * k = k * g
  OBVIOUS
<1>5. a % g = a - a
  BY ONLY <1>1, <1>3, <1>4 DEF a
<1> QED  BY ONLY <1>1, <1>5 DEF a

\* After one multiple of g the next is g further.
LEMMA NextMultiple ==
    ASSUME NEW a \in Nat, NEW g \in Nat, g # 0, a % g = 0
    PROVE  (a + g) % g = 0 /\ \A b \in Nat : b % g = 0 /\ b < a + g => b <= a
<1> DEFINE i == a \div g
<1>1. i \in Nat /\ a = i * g
  BY Divides
<1> HIDE DEF i
<1>2. i + 1 \in Nat /\ (i + 1) * g = i * g + g
  BY ONLY <1>1, g \in Nat
<1>3. (a + g) % g = 0
  <2>1. ((i + 1) * g) % g = 0
    BY ONLY <1>2, g \in Nat, g # 0, MultipleOf
  <2>2. (i + 1) * g = a + g
    BY ONLY <1>1, <1>2
  <2> QED  BY ONLY <2>1, <2>2
<1>4. ASSUME NEW b \in Nat, b % g = 0, b < a + g
      PROVE  b <= a
  <2> DEFINE j == b \div g
  <2>1. j \in Nat /\ b = j * g
    BY <1>4, Divides
  <2> HIDE DEF j
  <2>2. CASE j <= i
    <3>1. j * g <= i * g
      BY ONLY <1>1, <2>1, <2>2, g \in Nat, TimesUp
    <3> QED  BY ONLY <1>1, <2>1, <3>1
  <2>3. CASE ~(j <= i)
    <3>1. i + 1 <= j
      BY ONLY <1>1, <2>1, <2>3
    <3>2. (i + 1) * g <= j * g
      BY ONLY <1>2, <2>1, <3>1, g \in Nat, TimesUp
    <3> DEFINE y == i * g
               z == j * g
    <3>3. y \in Nat /\ z \in Nat
      BY ONLY <1>1, <2>1, a \in Nat, b \in Nat
    <3>4. y + g <= z /\ z < y + g
      BY ONLY <1>1, <1>2, <1>4, <2>1, <3>2
    <3> HIDE DEF y, z
    <3> QED  BY ONLY <3>3, <3>4, g \in Nat
  <2> QED  BY ONLY <2>2, <2>3
<1> QED  BY ONLY <1>3, <1>4

\* There is a next source.
LEMMA StrideType == ASSUME GraphAssumption, n \in Nat PROVE Stride \in Nat /\ Stride # 0
<1>1. ExactMax \in Nat /\ Pivots \in Nat /\ Pivots # 0
  BY DEF GraphAssumption
<1>2. CASE n <= ExactMax
  <2>1. Stride = 1
    BY ONLY <1>2 DEF Stride
  <2> QED  BY ONLY <2>1
<1>3. CASE ~(n <= ExactMax)
  <2> DEFINE a == n + Pivots - 1
             x == a \div Pivots
  <2>1. a \in Nat
    BY ONLY <1>1, n \in Nat
  <2>2. Stride = Max({1, x})
    BY ONLY <1>3 DEF Stride
  <2> HIDE DEF a
  <2>3. x \in Nat
    BY ONLY <1>1, <2>1, DivType
  <2> HIDE DEF x
  <2>4. Max({1, x}) = IF x < 1 THEN 1 ELSE x
    BY ONLY <2>3 DEF Max
  <2> QED  BY ONLY <2>2, <2>3, <2>4
<1> QED  BY ONLY <1>2, <1>3

UpTo(S, k) == {a \in S : a < k}

\* The next source is the next that counts.
LEMMA SourcesStep ==
    ASSUME n \in Nat, Stride \in Nat, Stride # 0, NEW k \in Nat, k # 0, k <= n, (k - 1) % Stride = 0
    PROVE  /\ k \in Node /\ k \notin UpTo(Sources, k) /\ UpTo(Sources, k) \in SUBSET Node
           /\ UpTo(Sources, k + Stride) = UpTo(Sources, k) \cup {k}
           /\ k + Stride \in Nat /\ k + Stride # 0 /\ (k + Stride - 1) % Stride = 0
<1> DEFINE g == Stride
           S == Sources
<1>1. \A a : a \in S <=> a \in 1..n /\ (a - 1) % g = 0
  BY DEF Sources, Node
<1>2. g \in Nat /\ g # 0
  OBVIOUS
<1> HIDE DEF g, S
<1>3. k - 1 \in Nat /\ k + g - 1 = (k - 1) + g /\ k \in 1..n /\ k + g \in Nat /\ k + g # 0
  BY ONLY <1>2, k \in Nat, k # 0, k <= n, n \in Nat
<1>4. (k - 1) % g = 0
  BY DEF g
<1>5. ((k - 1) + g) % g = 0 /\ \A b \in Nat : b % g = 0 /\ b < (k - 1) + g => b <= k - 1
  BY ONLY <1>2, <1>3, <1>4, NextMultiple
<1>6. k \in S
  BY ONLY <1>1, <1>3, <1>4
<1>7. ASSUME NEW a \in S
      PROVE  a < k + g <=> a < k \/ a = k
  <2>1. a \in Nat /\ a - 1 \in Nat /\ (a - 1) % g = 0
    BY ONLY <1>1, n \in Nat, a \in S
  <2>2. a < k + g => a - 1 < (k - 1) + g
    BY ONLY <1>2, <2>1, k \in Nat
  <2>3. a < k + g => a - 1 <= k - 1
    BY ONLY <1>5, <2>1, <2>2
  <2> QED  BY ONLY <1>2, <2>1, <2>3, k \in Nat
<1>8. UpTo(S, k + g) = UpTo(S, k) \cup {k}
  BY ONLY <1>6, <1>7 DEF UpTo
<1>9. k \notin UpTo(S, k) /\ UpTo(S, k) \in SUBSET (1..n)
  BY ONLY <1>1, k \in Nat DEF UpTo
<1>10. Node = 1..n
  BY DEF Node
<1> QED  BY ONLY <1>3, <1>5, <1>8, <1>9, <1>10 DEF g, S

LEMMA SourcesEnds ==
    ASSUME n \in Nat
    PROVE  /\ Sources \in SUBSET Node /\ UpTo(Sources, 1) = {}
           /\ \A k \in Nat : k > n => UpTo(Sources, k) = Sources
<1>1. \A a \in Sources : a \in 1..n
  BY DEF Sources, Node
<1>2. Node = 1..n
  BY DEF Node
<1> QED  BY ONLY <1>1, <1>2, n \in Nat DEF UpTo

-----------------------------------------------------------------------------
(***************************************************************************)
(* The sums so far: over the sources before k, and k itself for those in   *)
(* P.  D[v][a] is what the source a depends on v for.                      *)
(***************************************************************************)
Over(S, k, P, v) == (IF v \in P THEN UpTo(S, k) \cup {k} ELSE UpTo(S, k)) \ {v}

Summed(m, D, S, b, k, P) ==
    /\ b \in [1..m -> Nat]
    /\ \A v \in 1..m : b[v] = SumOf(D[v], Over(S, k, P, v))

\* D counts, and the next source after k is far enough away.
Counted(m, D, S, k) ==
    /\ \A v \in 1..m : \A A \in SUBSET (1..m) : Summable(D[v], A)
    /\ k \in 1..m /\ k \notin UpTo(S, k) /\ UpTo(S, k) \in SUBSET (1..m)

\* What one more source adds.
LEMMA OneMore ==
    ASSUME NEW m, NEW D, NEW S, NEW k, Counted(m, D, S, k), NEW v \in 1..m, v # k
    PROVE  SumOf(D[v], (UpTo(S, k) \cup {k}) \ {v}) = D[v][k] + SumOf(D[v], UpTo(S, k) \ {v})
<1> DEFINE f == D[v]
           A == (UpTo(S, k) \cup {k}) \ {v}
<1>1. A \in SUBSET (1..m) /\ k \in A /\ A \ {k} = UpTo(S, k) \ {v}
  BY ONLY Counted(m, D, S, k), v # k DEF Counted
<1>2. Summable(f, A)
  BY ONLY Counted(m, D, S, k), v \in 1..m, <1>1 DEF Counted
<1> HIDE DEF f, A
<1>3. SumOf(f, A) = f[k] + SumOf(f, A \ {k})
  BY ONLY <1>1, <1>2, SumTake
<1> QED  BY ONLY <1>1, <1>3 DEF f, A

Adds(k, w, x, b, c) == c = IF w = k THEN b ELSE [b EXCEPT ![w] = @ + x]

\* A node is taken from the order, what it has is added to its sum,
LEMMA SumsTake ==
    ASSUME NEW m, NEW D, NEW S, NEW k, Counted(m, D, S, k),
           NEW b, NEW P, Summed(m, D, S, b, k, P), NEW w \in 1..m, w \notin P,
           NEW x \in Nat, w # k => x = D[w][k], NEW c, Adds(k, w, x, b, c)
    PROVE  Summed(m, D, S, c, k, P \cup {w})
<1>0. c = IF w = k THEN b ELSE [b EXCEPT ![w] = @ + x]
  BY DEF Adds
<1>1. b \in [1..m -> Nat] /\ \A v \in 1..m : b[v] = SumOf(D[v], Over(S, k, P, v))
  BY DEF Summed
<1>2. c \in [1..m -> Nat] /\ \A v \in 1..m : c[v] = IF v = w /\ w # k THEN b[v] + x ELSE b[v]
  BY <1>0, <1>1
<1>3. ASSUME NEW v \in 1..m
      PROVE  c[v] = SumOf(D[v], Over(S, k, P \cup {w}, v))
  <2>1. CASE v # w
    <3>1. Over(S, k, P \cup {w}, v) = Over(S, k, P, v)
      BY ONLY <2>1 DEF Over
    <3> QED  BY ONLY <1>1, <1>2, <2>1, <3>1
  <2>2. CASE v = w /\ v = k
    <3>1. Over(S, k, P \cup {w}, v) = Over(S, k, P, v)
      BY ONLY <2>2, w \notin P DEF Over
    <3> QED  BY ONLY <1>1, <1>2, <2>2, <3>1
  <2>3. CASE v = w /\ v # k
    <3>1. /\ Over(S, k, P \cup {w}, v) = (UpTo(S, k) \cup {k}) \ {v}
          /\ Over(S, k, P, v) = UpTo(S, k) \ {v}
      BY ONLY <2>3, w \notin P DEF Over
    <3>2. SumOf(D[v], (UpTo(S, k) \cup {k}) \ {v}) = D[v][k] + SumOf(D[v], UpTo(S, k) \ {v})
      BY ONLY <2>3, Counted(m, D, S, k), v \in 1..m, OneMore
    <3>3. c[v] = b[v] + x /\ x = D[v][k] /\ b[v] \in Nat /\ b[v] = SumOf(D[v], UpTo(S, k) \ {v})
      BY ONLY <1>1, <1>2, <2>3, <3>1, w # k => x = D[w][k]
    <3>4. c[v] = SumOf(D[v], (UpTo(S, k) \cup {k}) \ {v})
      BY ONLY <3>2, <3>3, x \in Nat
    <3> QED  BY ONLY <3>1, <3>4
  <2> QED  BY ONLY <2>1, <2>2, <2>3
<1> QED  BY ONLY <1>2, <1>3 DEF Summed

\* and when all that k reaches were, k is one of the sources before the next.
LEMMA SumsMoveOn ==
    ASSUME NEW m, NEW D, NEW S, NEW k, Counted(m, D, S, k),
           NEW b, NEW P, Summed(m, D, S, b, k, P), k \in P,
           \A v \in 1..m : v \notin P => D[v][k] = 0,
           NEW j, UpTo(S, j) = UpTo(S, k) \cup {k}
    PROVE  Summed(m, D, S, b, j, {})
<1>1. b \in [1..m -> Nat] /\ \A v \in 1..m : b[v] = SumOf(D[v], Over(S, k, P, v))
  BY DEF Summed
<1>2. ASSUME NEW v \in 1..m
      PROVE  b[v] = SumOf(D[v], Over(S, j, {}, v))
  <2>1. Over(S, j, {}, v) = (UpTo(S, k) \cup {k}) \ {v}
    BY DEF Over
  <2>2. CASE v \in P
    <3>1. Over(S, k, P, v) = (UpTo(S, k) \cup {k}) \ {v}
      BY ONLY <2>2 DEF Over
    <3> QED  BY ONLY <1>1, <2>1, <3>1
  <2>3. CASE v \notin P
    <3>1. Over(S, k, P, v) = UpTo(S, k) \ {v} /\ v # k
      BY <2>3 DEF Over
    <3>2. SumOf(D[v], (UpTo(S, k) \cup {k}) \ {v}) = D[v][k] + SumOf(D[v], UpTo(S, k) \ {v})
      BY ONLY <3>1, Counted(m, D, S, k), v \in 1..m, OneMore
    <3>3. D[v][k] = 0 /\ b[v] = SumOf(D[v], UpTo(S, k) \ {v}) /\ b[v] \in Nat
      BY <1>1, <2>3, <3>1
    <3>4. b[v] = SumOf(D[v], (UpTo(S, k) \cup {k}) \ {v})
      BY ONLY <3>2, <3>3
    <3> QED  BY ONLY <2>1, <3>4
  <2> QED  BY ONLY <2>2, <2>3
<1> QED  BY ONLY <1>1, <1>2 DEF Summed

-----------------------------------------------------------------------------
(***************************************************************************)
(* The actions of LinkGraph.                                               *)
(***************************************************************************)
Dependencies == [v \in Node |-> Dependency(v)]

Searching(m, N, k, d, q, o, g, p) ==
    Breadth(m, N, k, d, q, o) /\ Counting(m, N, k, d, g, p, Elems(o))

Taken(m, d, o) == Seen(m, d) \ Elems(o)

Handing(m, N, k, d, o, g, p, x) ==
    /\ Layered(m, N, k, d, g) /\ Ordered(m, d, o) /\ Elems(o) \subseteq Seen(m, d)
    /\ \A w \in 1..m : p[w] = Above(N, d, w)
    /\ HandedOn(m, N, d, g, Down(m, AllOf(m, N), d, ShareOf(m, d, g)), x, Taken(m, d, o))

Measured(m, D, S, b, t) ==
    /\ b \in [1..m -> Nat] /\ \A v \in 1..m : b[v] = SumOf(D[v], S \ {v})
    /\ t = Max({0} \cup {b[v] : v \in 1..m})

BrandesAt(at, m, N, D, S, k, d, g, p, q, o, x, b, t) ==
    /\ at = "source" => Summed(m, D, S, b, k, {})
    /\ at = "visit" => /\ k <= m /\ Summed(m, D, S, b, k, {}) /\ x = [v \in 1..m |-> 0]
                       /\ Searching(m, N, k, d, q, o, g, p)
    /\ at = "back" => /\ k <= m /\ Handing(m, N, k, d, o, g, p, x)
                      /\ Summed(m, D, S, b, k, Taken(m, d, o))
    /\ at \in {"root", "tree", "done"} => Measured(m, D, S, b, t)

BrandesInv ==
    /\ n \in Nat /\ Scale \in Nat /\ ScaleFits(n, Near) /\ Stride \in Nat /\ Stride # 0
    /\ s \in Nat /\ s # 0 /\ (s - 1) % Stride = 0
    /\ BrandesAt(pc, n, Near, Dependencies, Sources, s, dist, sigma, preds, queue, order, delta,
                 betweenness, top)

\* The measure depends on the nodes and the links alone.
LEMMA SameMeasures ==
    UNCHANGED <<n, links>> => UNCHANGED <<Near, Node, Unseen, Stride, Sources, Dependencies>>
<1> SUFFICES ASSUME UNCHANGED <<n, links>>
             PROVE  UNCHANGED <<Near, Node, Unseen, Stride, Sources, Dependencies>>
  OBVIOUS
<1>1. UNCHANGED <<n, Near, Node, Unseen>>
  BY SameGraph
<1>2. Stride' = Stride
  BY ONLY <1>1 DEF Stride
<1>3. Sources' = Sources
  BY ONLY <1>1, <1>2 DEF Sources
<1>4. Dependencies' = Dependencies
  BY ONLY <1>1 DEF Dependencies, Dependency, Toward, Through, Sp
<1> QED  BY ONLY <1>1, <1>2, <1>3, <1>4

\* Before the first source nothing is summed.
LEMMA BrandesInit == GraphAssumption /\ ScaleAssumption /\ GraphInit => BrandesInv
<1> SUFFICES ASSUME GraphAssumption, ScaleAssumption, GraphInit PROVE BrandesInv
  OBVIOUS
<1>1. n \in Nat
  BY FS_CardinalityType DEF GraphAssumption, GraphInit
<1>2. Scale \in Nat /\ Stride \in Nat /\ Stride # 0
  <2>1. Scale \in Nat
    BY DEF GraphAssumption
  <2> QED  BY ONLY GraphAssumption, <1>1, <2>1, StrideType
<1>3. ScaleFits(n, Near)
  <2>1. pages \in Wikis /\ n = Cardinality(NodeIds(pages)) /\ links = LinksOf(pages)
    BY DEF GraphInit
  <2>2. ScaleFits(n, [v \in 1..n |-> Undirected(1..n, LinksOf(pages), v)])
    BY ONLY <2>1, ScaleAssumption DEF ScaleAssumption
  <2>3. Near = [v \in 1..n |-> Undirected(1..n, LinksOf(pages), v)]
    BY ONLY <2>1 DEF Near, Neighbours, Node
  <2> QED  BY ONLY <2>2, <2>3
<1>4. s = 1 /\ pc = "source" /\ betweenness = [v \in 1..n |-> 0]
  BY DEF GraphInit, Node
<1>5. (s - 1) % Stride = 0
  <2> DEFINE g == Stride
  <2>1. g \in Nat /\ g # 0
    BY <1>2
  <2> HIDE DEF g
  <2>2. (0 * g) % g = 0
    BY ONLY <2>1, MultipleOf
  <2>3. 0 * g = 0 /\ s - 1 = 0
    BY ONLY <1>4, <2>1
  <2>4. (s - 1) % g = 0
    BY ONLY <2>2, <2>3
  <2> QED  BY ONLY <2>4 DEF g
<1>6. Summed(n, Dependencies, Sources, betweenness, s, {})
  <2>1. UpTo(Sources, s) = {}
    BY ONLY <1>1, <1>4, SourcesEnds
  <2>2. ASSUME NEW v \in 1..n
        PROVE  betweenness[v] = SumOf(Dependencies[v], Over(Sources, s, {}, v))
    <3>1. Over(Sources, s, {}, v) = {}
      BY ONLY <2>1 DEF Over
    <3>2. SumOf(Dependencies[v], {}) = 0
      BY ONLY SumNone
    <3> QED  BY ONLY <1>4, <3>1, <3>2, v \in 1..n
  <2>3. betweenness \in [1..n -> Nat]
    BY ONLY <1>4
  <2> QED  BY ONLY <2>2, <2>3 DEF Summed
<1>7. s \in Nat /\ s # 0
  BY ONLY <1>4
<1> QED  BY ONLY <1>1, <1>2, <1>3, <1>4, <1>5, <1>6, <1>7 DEF BrandesInv, BrandesAt

\* The invariant, loop by loop.
LEMMA BrandesParts ==
    ASSUME BrandesInv
    PROVE  /\ n \in Nat /\ Scale \in Nat /\ ScaleFits(n, Near) /\ Stride \in Nat /\ Stride # 0
           /\ s \in Nat /\ s # 0 /\ (s - 1) % Stride = 0
           /\ IsGraph(n, Near) /\ Node = 1..n
           /\ pc = "source" => Summed(n, Dependencies, Sources, betweenness, s, {})
           /\ pc = "visit" => /\ s <= n /\ Summed(n, Dependencies, Sources, betweenness, s, {})
                              /\ delta = [v \in 1..n |-> 0]
                              /\ Searching(n, Near, s, dist, queue, order, sigma, preds)
           /\ pc = "back" => /\ s <= n /\ Handing(n, Near, s, dist, order, sigma, preds, delta)
                             /\ Summed(n, Dependencies, Sources, betweenness, s, Taken(n, dist, order))
           /\ pc \in {"root", "tree", "done"} =>
                Measured(n, Dependencies, Sources, betweenness, top)
<1>1. n \in Nat
  BY DEF BrandesInv
<1>2. IsGraph(n, Near) /\ Node = 1..n
  BY ONLY <1>1, GraphIsGraph
<1> QED  BY ONLY BrandesInv, <1>2 DEF BrandesInv, BrandesAt

LEMMA CountedHere ==
    ASSUME n \in Nat, Scale \in Nat, Stride \in Nat, Stride # 0, s \in Nat, s # 0, s <= n,
           (s - 1) % Stride = 0
    PROVE  Counted(n, Dependencies, Sources, s)
<1>1. Node = 1..n
  BY DEF Node
<1>2. s \in Node /\ s \notin UpTo(Sources, s) /\ UpTo(Sources, s) \in SUBSET Node
  BY SourcesStep
<1>3. ASSUME NEW v \in Node, NEW A \in SUBSET Node
      PROVE  Summable(Dependencies[v], A)
  <2>1. Summable(Dependency(v), A)
    BY DependencyType
  <2>2. Dependencies[v] = Dependency(v)
    BY DEF Dependencies
  <2> QED  BY ONLY <2>1, <2>2
<1> QED  BY ONLY <1>1, <1>2, <1>3 DEF Counted

\* The search from the next source starts;
LEMMA BrandesStartSource == BrandesInv /\ StartSource => BrandesInv'
<1> SUFFICES ASSUME BrandesInv, StartSource PROVE BrandesInv'
  OBVIOUS
<1>1. /\ pc = "source" /\ s <= n /\ pc' = "visit" /\ UNCHANGED <<n, links, s, betweenness>>
      /\ dist' = [v \in Node |-> IF v = s THEN 0 ELSE n]
      /\ sigma' = [v \in Node |-> IF v = s THEN 1 ELSE 0]
      /\ preds' = [v \in Node |-> {}] /\ delta' = [v \in Node |-> 0]
      /\ queue' = <<s>> /\ order' = <<>>
  BY DEF StartSource, graph, Unseen
<1>2. /\ n \in Nat /\ Scale \in Nat /\ ScaleFits(n, Near) /\ Stride \in Nat /\ Stride # 0
      /\ s \in Nat /\ s # 0 /\ (s - 1) % Stride = 0 /\ IsGraph(n, Near) /\ Node = 1..n
      /\ Summed(n, Dependencies, Sources, betweenness, s, {})
  BY ONLY BrandesInv, <1>1, BrandesParts
<1>3. UNCHANGED <<Near, Node, Stride, Sources, Dependencies>>
  BY ONLY <1>1, SameMeasures
<1>4. s \in 1..n
  BY ONLY <1>1, <1>2
<1>5. /\ Breadth(n, Near, s, dist', <<s>>, <<>>)
      /\ Counting(n, Near, s, dist', sigma', preds', Elems(<<>>))
  BY ONLY <1>1, <1>2, <1>4, BreadthStarts
<1>6. Searching(n, Near, s, dist', queue', order', sigma', preds')
  BY ONLY <1>1, <1>5 DEF Searching
<1>7. delta' = [v \in 1..n |-> 0]
  BY ONLY <1>1, <1>2
<1>8. BrandesAt("visit", n, Near, Dependencies, Sources, s, dist', sigma', preds', queue', order',
                delta', betweenness, top')
  BY ONLY <1>1, <1>2, <1>6, <1>7 DEF BrandesAt
<1> QED  BY ONLY <1>1, <1>2, <1>3, <1>8 DEF BrandesInv

\* it visits the next node of the queue;
LEMMA BrandesVisit == BrandesInv /\ Visit => BrandesInv'
<1> SUFFICES ASSUME BrandesInv, Visit PROVE BrandesInv'
  OBVIOUS
<1> DEFINE v == queue[1]
           F == Reached(n, Near, dist, v)
           e == Closer(n, Near, dist, v)
           B == Gains(n, Near, dist, v)
<1>1. pc = "visit" /\ pc' = "visit" /\ queue # <<>> /\ UNCHANGED <<n, links, s, betweenness, delta>>
  BY ONLY Visit DEF Visit, graph
<1>2. /\ n \in Nat /\ Scale \in Nat /\ ScaleFits(n, Near) /\ Stride \in Nat /\ Stride # 0
      /\ s \in Nat /\ s # 0 /\ (s - 1) % Stride = 0 /\ IsGraph(n, Near) /\ Node = 1..n
      /\ s <= n /\ Summed(n, Dependencies, Sources, betweenness, s, {})
      /\ delta = [w \in 1..n |-> 0] /\ Searching(n, Near, s, dist, queue, order, sigma, preds)
  BY ONLY BrandesInv, <1>1, BrandesParts
<1>3. UNCHANGED <<Near, Node, Stride, Sources, Dependencies>>
  BY ONLY <1>1, SameMeasures
<1>4. /\ Breadth(n, Near, s, dist, queue, order)
      /\ Counting(n, Near, s, dist, sigma, preds, Elems(order))
  BY ONLY <1>2 DEF Searching
<1>5. queue \in Seq(1..n)
  BY ONLY <1>4 DEF Breadth, Waiting, Ordered
<1>6. v = Head(queue) /\ v \in 1..n
  <2> DEFINE T == 1..n
  <2>1. queue \in Seq(T)
    BY ONLY <1>5
  <2> HIDE DEF T
  <2>2. Head(queue) = queue[1] /\ queue[1] \in T
    BY ONLY <1>1, <2>1, HeadIs
  <2> QED  BY ONLY <2>2 DEF T
<1>7. Near[v] = Neighbours(v)
  BY ONLY <1>2, <1>6 DEF Near
<1> DEFINE FF == {w \in Neighbours(v) : dist[w] = n}
           BB == {w \in Neighbours(v) : w \in FF \/ dist[w] = dist[v] + 1}
<1>8. F = FF /\ B = BB
  BY ONLY <1>7 DEF Reached, Gains
<1> HIDE DEF v
<1>9. /\ dist' = [w \in Node |-> IF w \in FF THEN dist[v] + 1 ELSE dist[w]]
      /\ sigma' = [w \in Node |-> IF w \in BB THEN sigma[w] + sigma[v] ELSE sigma[w]]
      /\ preds' = [w \in Node |-> IF w \in BB THEN preds[w] \cup {v} ELSE preds[w]]
      /\ queue' = Tail(queue) \o Ascending(FF)
      /\ order' = Append(order, v)
  BY ONLY Visit, <1>6 DEF Visit, Unseen
<1>10. e = dist'
  BY ONLY <1>2, <1>8, <1>9 DEF Closer
<1>11. F \in SUBSET (1..n)
  BY ONLY <1>2, <1>6 DEF Reached, IsGraph
<1> HIDE DEF F, B, FF, BB, e
<1>12. Turned(n, queue, F, queue')
  BY ONLY <1>1, <1>2, <1>5, <1>8, <1>9, <1>11 DEF Turned
<1>13. F = Reached(n, Near, dist, v) /\ B = Gains(n, Near, dist, v) /\ e = Closer(n, Near, dist, v)
       /\ v = queue[1]
  BY DEF F, B, e, v
<1>14. Sees(n, dist, queue, order, v, F, e)
  BY ONLY <1>1, <1>2, <1>4, <1>13, VisitSees
<1>15. Breadth(n, Near, s, e, queue', Append(order, v))
  BY ONLY <1>1, <1>2, <1>4, <1>12, <1>13, BreadthVisits
<1>16. Spread(n, B, v, sigma, preds, sigma', preds')
  <2>1. /\ sigma' = [w \in 1..n |-> IF w \in B THEN sigma[w] + sigma[v] ELSE sigma[w]]
        /\ preds' = [w \in 1..n |-> IF w \in B THEN preds[w] \cup {v} ELSE preds[w]]
    BY ONLY <1>2, <1>8, <1>9
  <2> QED  BY ONLY <2>1 DEF Spread
<1>17. Counting(n, Near, s, e, sigma', preds', Elems(order) \cup {v})
  BY ONLY <1>2, <1>4, <1>13, <1>14, <1>16, CountingVisits
<1>18. Elems(Append(order, v)) = Elems(order) \cup {v}
  <2>1. Ordered(n, dist, order)
    BY ONLY <1>4 DEF Breadth, Waiting
  <2>2. v \in 1..n /\ v \notin Elems(order) /\ \A u \in Elems(order) : dist[u] <= dist[v]
    BY ONLY <1>14 DEF Sees
  <2> QED  BY ONLY <2>1, <2>2, OrderedAppend
<1>19. Searching(n, Near, s, dist', queue', order', sigma', preds')
  BY ONLY <1>9, <1>10, <1>15, <1>17, <1>18 DEF Searching
<1>20. BrandesAt("visit", n, Near, Dependencies, Sources, s, dist', sigma', preds', queue', order',
                 delta, betweenness, top')
  BY ONLY <1>2, <1>19 DEF BrandesAt
<1> QED  BY ONLY <1>1, <1>2, <1>3, <1>20 DEF BrandesInv

\* nothing is left to visit, nothing handed on yet;
LEMMA BrandesVisitedAll == BrandesInv /\ VisitedAll => BrandesInv'
<1> SUFFICES ASSUME BrandesInv, VisitedAll PROVE BrandesInv'
  OBVIOUS
<1> DEFINE D == Down(n, AllOf(n, Near), dist, ShareOf(n, dist, sigma))
<1>1. /\ pc = "visit" /\ pc' = "back" /\ queue = <<>>
      /\ UNCHANGED <<n, links, s, dist, sigma, preds, queue, order, delta, betweenness>>
  BY DEF VisitedAll, graph, brandes
<1>2. /\ n \in Nat /\ Scale \in Nat /\ ScaleFits(n, Near) /\ Stride \in Nat /\ Stride # 0
      /\ s \in Nat /\ s # 0 /\ (s - 1) % Stride = 0 /\ IsGraph(n, Near) /\ Node = 1..n
      /\ s <= n /\ Summed(n, Dependencies, Sources, betweenness, s, {})
      /\ delta = [w \in 1..n |-> 0] /\ Searching(n, Near, s, dist, queue, order, sigma, preds)
  BY ONLY BrandesInv, <1>1, BrandesParts
<1>3. UNCHANGED <<Near, Node, Stride, Sources, Dependencies>>
  BY ONLY <1>1, SameMeasures
<1>4. /\ Layered(n, Near, s, dist, sigma) /\ Ordered(n, dist, order)
      /\ Elems(order) = Seen(n, dist) /\ \A w \in 1..n : preds[w] = Above(Near, dist, w)
  <2>1. /\ Breadth(n, Near, s, dist, <<>>, order)
        /\ Counting(n, Near, s, dist, sigma, preds, Elems(order))
    BY ONLY <1>1, <1>2 DEF Searching
  <2> QED  BY ONLY <1>2, <2>1, BreadthEnds
<1>5. Taken(n, dist, order) = {}
  BY ONLY <1>4 DEF Taken
<1>6. HandedOn(n, Near, dist, sigma, D, delta, {})
  <2>1. ASSUME NEW v \in 1..n
        PROVE  delta[v] = sigma[v] * SumOf(D, Below(Near, dist, v) \cap {})
    <3>1. SumOf(D, {}) = 0
      BY ONLY SumNone
    <3>2. Below(Near, dist, v) \cap {} = {}
      OBVIOUS
    <3>3. sigma[v] \in Nat
      BY ONLY <1>2, <1>4, LayersType, v \in 1..n
    <3>4. sigma[v] * 0 = 0 /\ delta[v] = 0
      BY ONLY <1>2, <3>3, v \in 1..n
    <3> QED  BY ONLY <3>1, <3>2, <3>4
  <2>2. delta \in [1..n -> Nat]
    BY ONLY <1>2
  <2> QED  BY ONLY <2>1, <2>2 DEF HandedOn
<1>7. Handing(n, Near, s, dist, order, sigma, preds, delta)
  BY ONLY <1>4, <1>5, <1>6 DEF Handing, D
<1>8. BrandesAt("back", n, Near, Dependencies, Sources, s, dist, sigma, preds, queue, order,
                delta, betweenness, top')
  BY ONLY <1>2, <1>5, <1>7 DEF BrandesAt
<1> QED  BY ONLY <1>1, <1>2, <1>3, <1>8 DEF BrandesInv

\* the farthest node hands on what it has, which is added to its sum;
LEMMA BrandesBack == BrandesInv /\ Back => BrandesInv'
<1> SUFFICES ASSUME BrandesInv, Back PROVE BrandesInv'
  OBVIOUS
<1> DEFINE w == Last(order)
           o == Elems(order)
           P == Taken(n, dist, order)
           W == AllOf(n, Near)
           C == ShareOf(n, dist, sigma)
           D == Down(n, W, dist, C)
<1>1. /\ pc = "back" /\ pc' = "back" /\ order # <<>>
      /\ UNCHANGED <<n, links, s, dist, sigma, preds, queue>>
      /\ delta' = [v \in Node |-> IF v \in preds[w]
                                  THEN delta[v] + (sigma[v] * (Scale + delta[w])) \div sigma[w]
                                  ELSE delta[v]]
      /\ Adds(s, w, delta[w], betweenness, betweenness')
      /\ order' = Front(order)
  BY ONLY Back DEF Back, graph, Adds
<1>2. /\ n \in Nat /\ Scale \in Nat /\ ScaleFits(n, Near) /\ Stride \in Nat /\ Stride # 0
      /\ s \in Nat /\ s # 0 /\ (s - 1) % Stride = 0 /\ IsGraph(n, Near) /\ Node = 1..n
      /\ s <= n /\ Handing(n, Near, s, dist, order, sigma, preds, delta)
      /\ Summed(n, Dependencies, Sources, betweenness, s, P)
  BY ONLY BrandesInv, <1>1, BrandesParts
<1>3. UNCHANGED <<Near, Node, Stride, Sources, Dependencies>>
  BY ONLY <1>1, SameMeasures
<1>4. /\ Layered(n, Near, s, dist, sigma) /\ Ordered(n, dist, order) /\ o \in SUBSET Seen(n, dist)
      /\ \A v \in 1..n : preds[v] = Above(Near, dist, v)
      /\ P = Seen(n, dist) \ o /\ HandedOn(n, Near, dist, sigma, D, delta, P)
  BY ONLY <1>2 DEF Handing, Taken
<1>5. \A v \in 1..n : dist[v] \in Nat
  BY ONLY <1>2, <1>4, LayersType
<1> HIDE DEF w, P, W, C, D
<1>6. w = Last(order)
  BY DEF w
<1>7. /\ w \in o /\ w \in 1..n /\ \A u \in o : dist[u] <= dist[w]
      /\ Ordered(n, dist, order') /\ Elems(order') = o \ {w}
  <2>1. Ordered(n, dist, order) /\ order # <<>> /\ order' = Front(order)
    BY ONLY <1>1, <1>4
  <2>2. /\ Last(order) \in Elems(order) /\ Last(order) \in 1..n
        /\ \A u \in Elems(order) : dist[u] <= dist[Last(order)]
        /\ Ordered(n, dist, Front(order)) /\ Elems(Front(order)) = Elems(order) \ {Last(order)}
    BY ONLY <1>5, <2>1, OrderedLast
  <2> QED  BY ONLY <1>6, <2>1, <2>2
<1> HIDE DEF o
<1>8. Hands(n, Above(Near, dist, w), sigma, w, delta, delta')
  <2>1. Above(Near, dist, w) = preds[w]
    BY ONLY <1>4, <1>7
  <2>2. Hands(n, preds[w], sigma, w, delta, delta')
    BY ONLY <1>1, <1>2 DEF Hands
  <2> QED  BY ONLY <2>1, <2>2
<1>9. /\ Shares(n, dist, C)
      /\ \A t \in 1..n : dist[t] # n => sigma[t] # 0 /\ Scale = C[t] * sigma[t]
  BY ONLY <1>2, <1>4, SharesFit DEF C
<1>10. AllWalks(n, Near, W)
  BY ONLY <1>2, AllOfThem DEF W
<1>11. D = Down(n, W, dist, C) /\ Fitting(n, dist, C, sigma)
  BY ONLY <1>2, <1>9 DEF D, Fitting
<1>12. /\ delta[w] = sigma[w] * SumOf(D, Below(Near, dist, w))
       /\ HandedOn(n, Near, dist, sigma, D, delta', P \cup {w})
  <2>1. Layered(n, Near, s, dist, sigma) /\ Shares(n, dist, C) /\ AllWalks(n, Near, W)
    BY ONLY <1>4, <1>9, <1>10
  <2>2. Farthest(n, dist, o, w, P)
    BY ONLY <1>4, <1>7 DEF Farthest
  <2>3. HandedOn(n, Near, dist, sigma, D, delta, P)
    BY ONLY <1>4
  <2> QED  BY ONLY <1>8, <1>11, <2>1, <2>2, <2>3, HandsOn
<1>13. w \in Seen(n, dist) /\ w \notin P /\ dist[w] # n
  BY ONLY <1>4, <1>7 DEF Seen
<1>14. delta[w] = Dependency(w)[s]
  <2>1. Dependency(w)[s] = IF dist[w] = n THEN 0
                           ELSE sigma[w] * SumOf(Down(n, AllOf(n, Near), dist, ShareOf(n, dist, sigma)),
                                                 Below(Near, dist, w))
    BY ONLY <1>2, <1>4, <1>7, DependencyIs
  <2>2. Dependency(w)[s] = IF dist[w] = n THEN 0 ELSE sigma[w] * SumOf(D, Below(Near, dist, w))
    BY ONLY <2>1 DEF D, W, C
  <2> QED  BY ONLY <1>12, <1>13, <2>2
<1>15. Summed(n, Dependencies, Sources, betweenness', s, P \cup {w})
  <2>1. Counted(n, Dependencies, Sources, s)
    BY ONLY <1>2, CountedHere
  <2>2. Dependencies[w] = Dependency(w)
    BY ONLY <1>2, <1>7 DEF Dependencies
  <2>3. delta[w] \in Nat
    BY ONLY <1>4, <1>7 DEF HandedOn
  <2>4. w # s => delta[w] = Dependencies[w][s]
    BY ONLY <1>14, <2>2
  <2> QED  BY ONLY <1>1, <1>2, <1>7, <1>13, <2>1, <2>3, <2>4, SumsTake
<1>16. Taken(n, dist, order') = P \cup {w} /\ Elems(order') \subseteq Seen(n, dist)
  BY ONLY <1>4, <1>7, <1>13 DEF Taken
<1>17. Handing(n, Near, s, dist, order', sigma, preds, delta')
  BY ONLY <1>4, <1>7, <1>12, <1>16 DEF Handing, D, W, C
<1>18. BrandesAt("back", n, Near, Dependencies, Sources, s, dist, sigma, preds, queue, order',
                 delta', betweenness', top')
  BY ONLY <1>2, <1>15, <1>16, <1>17 DEF BrandesAt
<1> QED  BY ONLY <1>1, <1>2, <1>3, <1>18 DEF BrandesInv

\* all have, and those that were not reached depend on nothing;
LEMMA BrandesNextSource == BrandesInv /\ NextSource => BrandesInv'
<1> SUFFICES ASSUME BrandesInv, NextSource PROVE BrandesInv'
  OBVIOUS
<1> DEFINE P == Taken(n, dist, order)
           j == s + Stride
<1>1. /\ pc = "back" /\ pc' = "source" /\ order = <<>> /\ s' = j
      /\ UNCHANGED <<n, links, betweenness>>
  BY ONLY NextSource DEF NextSource, graph
<1>2. /\ n \in Nat /\ Scale \in Nat /\ ScaleFits(n, Near) /\ Stride \in Nat /\ Stride # 0
      /\ s \in Nat /\ s # 0 /\ (s - 1) % Stride = 0 /\ IsGraph(n, Near) /\ Node = 1..n
      /\ s <= n /\ Handing(n, Near, s, dist, order, sigma, preds, delta)
      /\ Summed(n, Dependencies, Sources, betweenness, s, P)
  BY ONLY BrandesInv, <1>1, BrandesParts
<1>3. UNCHANGED <<Near, Node, Stride, Sources, Dependencies>>
  BY ONLY <1>1, SameMeasures
<1>4. Layered(n, Near, s, dist, sigma)
  BY ONLY <1>2 DEF Handing
<1>5. Elems(order) = {}
  BY ONLY <1>1 DEF Elems
<1>6. P = Seen(n, dist)
  BY ONLY <1>5 DEF Taken
<1>7. s \in P
  <2>1. s \in 1..n /\ dist[s] = 0 /\ n # 0
    BY ONLY <1>2, <1>4, LayersType
  <2> QED  BY ONLY <1>6, <2>1 DEF Seen
<1>8. ASSUME NEW v \in 1..n, v \notin P
      PROVE  Dependencies[v][s] = 0
  <2>1. dist[v] = n
    BY ONLY <1>6, <1>8 DEF Seen
  <2>2. Dependency(v)[s] = IF dist[v] = n THEN 0
                           ELSE sigma[v] * SumOf(Down(n, AllOf(n, Near), dist, ShareOf(n, dist, sigma)),
                                                 Below(Near, dist, v))
    BY ONLY <1>2, <1>4, v \in 1..n, DependencyIs
  <2>3. Dependencies[v] = Dependency(v)
    BY ONLY <1>2, v \in 1..n DEF Dependencies
  <2> QED  BY ONLY <2>1, <2>2, <2>3
<1>9. /\ UpTo(Sources, j) = UpTo(Sources, s) \cup {s}
      /\ j \in Nat /\ j # 0 /\ (j - 1) % Stride = 0
  BY ONLY <1>2, SourcesStep
<1>10. Counted(n, Dependencies, Sources, s)
  BY ONLY <1>2, CountedHere
<1>11. Summed(n, Dependencies, Sources, betweenness, j, {})
  <2> HIDE DEF P, j
  <2> QED  BY ONLY <1>2, <1>7, <1>8, <1>9, <1>10, SumsMoveOn
<1> HIDE DEF j
<1>12. BrandesAt("source", n, Near, Dependencies, Sources, j, dist', sigma', preds', queue', order',
                 delta', betweenness, top')
  BY ONLY <1>11 DEF BrandesAt
<1> QED  BY ONLY <1>1, <1>2, <1>3, <1>9, <1>12 DEF BrandesInv

\* all sources are done.
LEMMA BrandesNormalise == BrandesInv /\ Normalise => BrandesInv'
<1> SUFFICES ASSUME BrandesInv, Normalise PROVE BrandesInv'
  OBVIOUS
<1>1. /\ pc = "source" /\ pc' = "root" /\ s > n /\ UNCHANGED <<n, links, s, betweenness>>
      /\ top' = Max({0} \cup {betweenness[v] : v \in Node})
  BY ONLY Normalise DEF Normalise, brandes
<1>2. /\ n \in Nat /\ Scale \in Nat /\ ScaleFits(n, Near) /\ Stride \in Nat /\ Stride # 0
      /\ s \in Nat /\ s # 0 /\ (s - 1) % Stride = 0 /\ Node = 1..n
      /\ Summed(n, Dependencies, Sources, betweenness, s, {})
  BY ONLY BrandesInv, <1>1, BrandesParts
<1>3. UNCHANGED <<Near, Node, Stride, Sources, Dependencies>>
  BY ONLY <1>1, SameMeasures
<1>4. UpTo(Sources, s) = Sources
  BY ONLY <1>1, <1>2, SourcesEnds
<1>5. \A v \in 1..n : Over(Sources, s, {}, v) = Sources \ {v}
  BY ONLY <1>4 DEF Over
<1>6. top' = Max({0} \cup {betweenness[v] : v \in 1..n})
  BY ONLY <1>1, <1>2
<1>7. Measured(n, Dependencies, Sources, betweenness, top')
  BY ONLY <1>2, <1>5, <1>6 DEF Measured, Summed
<1>8. BrandesAt("root", n, Near, Dependencies, Sources, s, dist', sigma', preds', queue', order',
                delta', betweenness, top')
  BY ONLY <1>7 DEF BrandesAt
<1> QED  BY ONLY <1>1, <1>2, <1>3, <1>8 DEF BrandesInv

\* Tarjan leaves the measure alone.
LEMMA BrandesElsewhere ==
    ASSUME BrandesInv, UNCHANGED <<n, links, brandes, top>>,
           pc' = pc \/ (pc \in {"root", "tree"} /\ pc' \in {"root", "tree", "done"})
    PROVE  BrandesInv'
<1>1. UNCHANGED <<s, dist, sigma, preds, queue, order, delta, betweenness>>
  BY DEF brandes
<1>2. UNCHANGED <<Near, Node, Stride, Sources, Dependencies>>
  BY SameMeasures
<1>3. BrandesAt(pc', n, Near, Dependencies, Sources, s, dist, sigma, preds, queue, order, delta,
                betweenness, top)
  BY DEF BrandesInv, BrandesAt
<1> QED  BY <1>1, <1>2, <1>3 DEF BrandesInv

LEMMA BrandesNext == BrandesInv /\ [GraphNext]_graphVars => BrandesInv'
<1> SUFFICES ASSUME BrandesInv, [GraphNext]_graphVars PROVE BrandesInv'
  OBVIOUS
<1>1. CASE StartSource
  BY ONLY BrandesInv, <1>1, BrandesStartSource
<1>2. CASE Visit
  BY ONLY BrandesInv, <1>2, BrandesVisit
<1>3. CASE VisitedAll
  BY ONLY BrandesInv, <1>3, BrandesVisitedAll
<1>4. CASE Back
  BY ONLY BrandesInv, <1>4, BrandesBack
<1>5. CASE NextSource
  BY ONLY BrandesInv, <1>5, BrandesNextSource
<1>6. CASE Normalise
  BY ONLY BrandesInv, <1>6, BrandesNormalise
<1>7. CASE StartRoot \/ SkipRoot \/ Descend \/ LookBack \/ Return \/ EndRoot \/ Finish
  <2>1. UNCHANGED <<n, links, brandes, top>>
    BY ONLY <1>7 DEF StartRoot, SkipRoot, Descend, LookBack, Return, EndRoot, Finish, graph
  <2>2. pc' = pc \/ (pc \in {"root", "tree"} /\ pc' \in {"root", "tree", "done"})
    BY ONLY <1>7 DEF StartRoot, SkipRoot, Descend, LookBack, Return, EndRoot, Finish
  <2> QED  BY ONLY BrandesInv, <2>1, <2>2, BrandesElsewhere
<1>8. CASE UNCHANGED graphVars
  <2>1. UNCHANGED <<n, links, brandes, top, pc>>
    BY ONLY <1>8 DEF graphVars, graph
  <2> QED  BY ONLY BrandesInv, <2>1, BrandesElsewhere
<1> QED  BY ONLY [GraphNext]_graphVars, <1>1, <1>2, <1>3, <1>4, <1>5, <1>6, <1>7, <1>8 DEF GraphNext

-----------------------------------------------------------------------------
(***************************************************************************)
(* The finished sums, read with the definitions of the property.           *)
(***************************************************************************)
PairSum(sp, v) == MapThenSumSet(LAMBDA ab : Through(sp, v, ab[1], ab[2]), (Sources \ {v}) \X (Node \ {v}))

ThroughPair(v) == [ab \in (Sources \ {v}) \X (Node \ {v}) |-> Through(Sp, v, ab[1], ab[2])]

PairBody(f, v, z) ==
    IF z = {} THEN 0 ELSE Through(Sp, v, AnyOf(z)[1], AnyOf(z)[2]) + f[z \ {AnyOf(z)}]

LEMMA PairRecursion ==
    ASSUME NEW v
    PROVE  PairSum(Sp, v)
             = (CHOOSE f : f = [z \in SUBSET ((Sources \ {v}) \X (Node \ {v})) |-> PairBody(f, v, z)])
                 [(Sources \ {v}) \X (Node \ {v})]
BY DEF PairSum, MapThenSumSet, MapThenFoldSet, PairBody, AnyOf

\* The sum over pairs, as one of those above,
LEMMA PairSumIs ==
    ASSUME n \in Nat, Scale \in Nat, NEW v \in Node
    PROVE  PairSum(Sp, v) = SumOf(ThroughPair(v), (Sources \ {v}) \X (Node \ {v}))
<1> DEFINE X == (Sources \ {v}) \X (Node \ {v})
           h == ThroughPair(v)
           e == CHOOSE f : f = [z \in SUBSET X |-> PairBody(f, v, z)]
<1>1. \A ab \in X : h[ab] = Through(Sp, v, ab[1], ab[2])
  BY DEF ThroughPair
<1>2. IsFiniteSet(X) /\ \A ab \in X : h[ab] \in Nat
  <2>1. Sources \in SUBSET Node /\ IsFiniteSet(Node)
    BY SourcesEnds, FS_Interval DEF Node
  <2>2. IsFiniteSet(Sources \ {v}) /\ IsFiniteSet(Node \ {v})
    BY <2>1, FS_Subset
  <2>3. IsFiniteSet(X)
    BY ONLY <2>2, FS_Product
  <2>4. ASSUME NEW a \in Sources \ {v}, NEW b \in Node \ {v}
        PROVE  Through(Sp, v, a, b) \in Nat
    BY <2>1, ThroughType
  <2>5. \A ab \in X : ab[1] \in Sources \ {v} /\ ab[2] \in Node \ {v}
    OBVIOUS
  <2> QED  BY ONLY <1>1, <2>3, <2>4, <2>5
<1>3. PairSum(Sp, v) = e[X]
  BY PairRecursion
<1> HIDE DEF h, X
<1>4. PICK g : IsSum(g, h, X) /\ SumOf(h, X) = g[X]
  BY ONLY <1>2, SumIsThere
<1>5. ASSUME NEW f, NEW z \in SUBSET X
      PROVE  SumBody(f, h, z) = PairBody(f, v, z)
  <2>1. CASE z = {}
    BY ONLY <2>1 DEF SumBody, PairBody
  <2>2. CASE z # {}
    <3>1. AnyOf(z) \in X
      BY ONLY <2>2, AnyOfIn, z \in SUBSET X
    <3>2. h[AnyOf(z)] = Through(Sp, v, AnyOf(z)[1], AnyOf(z)[2])
      BY ONLY <1>1, <3>1
    <3> QED  BY ONLY <2>2, <3>2 DEF SumBody, PairBody
  <2> QED  BY ONLY <2>1, <2>2
<1>6. g = [z \in SUBSET X |-> PairBody(g, v, z)]
  <2>1. g \in [SUBSET X -> Nat] /\ \A z \in SUBSET X : g[z] = SumBody(g, h, z)
    BY ONLY <1>4 DEF IsSum
  <2>2. \A z \in SUBSET X : g[z] = PairBody(g, v, z)
    BY ONLY <1>5, <2>1
  <2> QED  BY ONLY <2>1, <2>2
<1>7. e = [z \in SUBSET X |-> PairBody(e, v, z)]
  BY ONLY <1>6
<1>8. e[X] = g[X]
  <2> DEFINE P == {z \in SUBSET X : e[z] = g[z]}
  <2> HIDE DEF e
  <2>1. \A z \in SUBSET X : e[z] = PairBody(e, v, z) /\ g[z] = PairBody(g, v, z)
    BY ONLY <1>6, <1>7
  <2>2. ASSUME NEW z \in SUBSET X, \A x \in z : z \ {x} \in P
        PROVE  z \in P
    <3>1. CASE z = {}
      <4>1. e[z] = g[z]
        BY ONLY <2>1, <3>1 DEF PairBody
      <4> QED  BY ONLY <4>1, z \in SUBSET X
    <3>2. CASE z # {}
      <4>1. AnyOf(z) \in z
        BY ONLY <3>2, AnyOfIn
      <4>2. e[z \ {AnyOf(z)}] = g[z \ {AnyOf(z)}]
        BY ONLY <2>2, <4>1
      <4>3. e[z] = g[z]
        BY ONLY <2>1, <3>2, <4>2 DEF PairBody
      <4> QED  BY ONLY <4>3, z \in SUBSET X
    <3> QED  BY ONLY <3>1, <3>2
  <2>3. X \in SUBSET X
    OBVIOUS
  <2>4. \A z \in SUBSET X : z \in P
    <3> HIDE DEF P
    <3> QED  BY ONLY <1>2, <2>2, FiniteDescent
  <2> QED  BY ONLY <2>3, <2>4
<1> QED  BY ONLY <1>3, <1>4, <1>8 DEF h, X

\* source by source.
LEMMA PairsAre ==
    ASSUME n \in Nat, Scale \in Nat, NEW v \in Node
    PROVE  PairSum(Sp, v) = SumOf(Dependency(v), Sources \ {v})
<1> DEFINE A == Sources \ {v}
           B == Node \ {v}
           f == [a \in Node |-> Toward(v, a)]
           h == ThroughPair(v)
           g == Dependency(v)
<1>1. Sources \in SUBSET Node /\ IsFiniteSet(Node)
  BY SourcesEnds, FS_Interval DEF Node
<1>2. A \in SUBSET Node /\ B \in SUBSET Node /\ IsFiniteSet(A) /\ IsFiniteSet(B)
  BY <1>1, FS_Subset
<1>3. ASSUME NEW a \in A, NEW b \in B
      PROVE  f[a][b] \in Nat /\ h[<<a, b>>] = f[a][b]
  <2>1. a \in Node /\ b \in Node
    BY ONLY <1>2, a \in A, b \in B
  <2>2. Toward(v, a)[b] = Through(Sp, v, a, b) /\ Through(Sp, v, a, b) \in Nat
    BY <2>1, DependencyType, ThroughType
  <2>3. <<a, b>> \in A \X B /\ <<a, b>>[1] = a /\ <<a, b>>[2] = b
    OBVIOUS
  <2>4. h[<<a, b>>] = Through(Sp, v, a, b)
    BY ONLY <2>3 DEF ThroughPair
  <2>5. f[a] = Toward(v, a)
    BY ONLY <2>1
  <2> QED  BY ONLY <2>2, <2>4, <2>5
<1>4. \A a \in A : g[a] = SumOf(f[a], B)
  <2>1. ASSUME NEW a \in A
        PROVE  g[a] = SumOf(f[a], B)
    <3>1. a \in Node
      BY ONLY <1>2, a \in A
    <3>2. Dependency(v)[a] = SumOf(Toward(v, a), Node \ {v})
      BY ONLY <3>1 DEF Dependency
    <3>3. f[a] = Toward(v, a)
      BY ONLY <3>1
    <3> QED  BY ONLY <3>2, <3>3
  <2> QED  BY ONLY <2>1
<1>5. PairSum(Sp, v) = SumOf(h, A \X B)
  BY PairSumIs
<1> HIDE DEF A, B, f, h, g
<1>6. SumOf(h, A \X B) = SumOf(g, A)
  BY ONLY <1>2, <1>3, <1>4, SumPairs
<1> QED  BY ONLY <1>5, <1>6 DEF g, A

\* The invariant says what is meant.
LEMMA DoneIsExact == BrandesInv => BetweennessIsExact
<1> SUFFICES ASSUME BrandesInv, pc = "done"
             PROVE  LET sum == [v \in Node |-> PairSum(Sp, v)]
                    IN  betweenness = sum /\ top = Max({0} \cup {sum[v] : v \in Node})
  BY DEF BetweennessIsExact, PairSum, Sp
<1> DEFINE sum == [v \in Node |-> PairSum(Sp, v)]
<1>1. n \in Nat /\ Scale \in Nat /\ Node = 1..n /\ Measured(n, Dependencies, Sources, betweenness, top)
  BY ONLY BrandesInv, pc = "done", BrandesParts
<1>2. /\ betweenness \in [Node -> Nat]
      /\ \A v \in Node : betweenness[v] = SumOf(Dependencies[v], Sources \ {v})
      /\ top = Max({0} \cup {betweenness[v] : v \in Node})
  BY ONLY <1>1 DEF Measured
<1>3. ASSUME NEW v \in Node
      PROVE  betweenness[v] = PairSum(Sp, v)
  <2>1. Dependencies[v] = Dependency(v)
    BY DEF Dependencies
  <2>2. PairSum(Sp, v) = SumOf(Dependency(v), Sources \ {v})
    BY ONLY <1>1, v \in Node, PairsAre
  <2> QED  BY ONLY <1>2, <2>1, <2>2
<1>4. betweenness = sum
  <2>1. betweenness = [v \in Node |-> betweenness[v]]
    BY ONLY <1>2
  <2> QED  BY ONLY <1>3, <2>1
<1> HIDE DEF sum
<1>5. betweenness = sum /\ top = Max({0} \cup {sum[v] : v \in Node})
  BY ONLY <1>2, <1>4
<1> QED  BY ONLY <1>5 DEF sum

(***************************************************************************)
(* The measure is the one that is meant, in a wiki of any size: when it is *)
(* done, every node has the share of the shortest paths, from the sources  *)
(* to all other nodes, that run through it, and what all are divided by is *)
(* the largest (structural_metrics, Brandes' accumulation; the explorer    *)
(* draws the nodes by it).                                                 *)
(***************************************************************************)
THEOREM BetweennessMeasured == GraphSpec => []BetweennessIsExact
<1>1. GraphInit => BrandesInv
  BY GraphAssumption, ScaleAssumption, BrandesInit
<1> QED  BY <1>1, BrandesNext, DoneIsExact, PTL DEF GraphSpec
=============================================================================
