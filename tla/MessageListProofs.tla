-------------------------- MODULE MessageListProofs --------------------------
(***************************************************************************)
(* Proofs about MessageList, for any contents, pictures and heights: the    *)
(* keys go to the selected message, every picture link is asked for, shown  *)
(* or no picture exactly once, and the view follows the end.                *)
(***************************************************************************)
EXTENDS MessageList, SequenceTheorems, FiniteSetTheorems, TLAPS

-----------------------------------------------------------------------------
(* Numbers and recursion                                                    *)

\* A set of numbers has a least one: the intervals below them are finite sets.
LEMMA LeastElement ==
  ASSUME NEW T, T \subseteq Nat, T # {}
  PROVE  \E m \in T : \A n \in T : m <= n
<1> DEFINE R == StrictSubsetOrdering(Nat)
           D == {0 .. n : n \in T}
<1>1. IsWellFoundedOn(R, FiniteSubsetsOf(Nat))
  BY FS_StrictSubsetOrderingWellFounded
<1>2. D \subseteq FiniteSubsetsOf(Nat) /\ D # {}
  <2>1. \A n \in Nat : 0 .. n \in FiniteSubsetsOf(Nat)
    BY FS_Interval DEF FiniteSubsetsOf
  <2> QED BY <2>1
<1> HIDE DEF R
<1>3. PICK x \in D : \A y \in D : <<y, x>> \notin R
  BY <1>1, <1>2, WFMin
<1>4. PICK m \in T : x = 0 .. m
  OBVIOUS
<1>5. ASSUME NEW n \in T, n < m PROVE FALSE
  <2>1. /\ 0 .. n \subseteq 0 .. m /\ 0 .. n # 0 .. m
        /\ 0 .. n \in SUBSET Nat /\ 0 .. m \in SUBSET Nat
    BY <1>5
  <2>2. <<0 .. n, 0 .. m>> \in R
    BY <2>1 DEF R, StrictSubsetOrdering
  <2> QED BY <2>2, <1>3, <1>4
<1> QED BY <1>5

\* What holds at 0 and from each number to the next holds up to n.
LEMMA InductionUpTo ==
  ASSUME NEW n \in Nat, NEW P, 0 \in P,
         \A i \in 1 .. n : i - 1 \in P => i \in P
  PROVE  \A i \in 0 .. n : i \in P
<1> DEFINE T == {i \in 0 .. n : i \notin P}
<1> SUFFICES ASSUME T # {} PROVE FALSE
  OBVIOUS
<1>1. PICK m \in T : \A k \in T : m <= k
  <2>1. T \subseteq Nat
    OBVIOUS
  <2> HIDE DEF T
  <2> QED BY <2>1, LeastElement
<1>2. m \in 1 .. n /\ m - 1 \in 0 .. n /\ m - 1 \notin T
  BY <1>1
<1> QED BY <1>1, <1>2

\* The functions on 0 .. n that go by the steps G from a value to the next.
Recursions(V, start, n, G) ==
  {f \in [0 .. n -> V] : f[0] = start /\ \A i \in 1 .. n : f[i] = G[i][f[i - 1]]}

\* There is one, if the steps stay among the values.
LEMMA RecursionExists ==
  ASSUME NEW V, NEW start \in V, NEW n \in Nat, NEW G \in [1 .. n -> [V -> V]]
  PROVE  Recursions(V, start, n, G) # {}
<1> DEFINE Makes(f, m) == f[0] = start /\ \A i \in 1 .. m : f[i] = G[i][f[i - 1]]
           P == {m \in 0 .. n : \E f \in [0 .. m -> V] : Makes(f, m)}
<1>1. 0 \in P
  <2> DEFINE f == [i \in 0 .. 0 |-> start]
  <2>1. f \in [0 .. 0 -> V] /\ Makes(f, 0)
    OBVIOUS
  <2> HIDE DEF f
  <2> QED BY <2>1
<1>2. ASSUME NEW m \in 1 .. n, m - 1 \in P PROVE m \in P
  <2>1. PICK g \in [0 .. m - 1 -> V] : Makes(g, m - 1)
    BY <1>2
  <2> DEFINE f == [i \in 0 .. m |-> IF i = m THEN G[m][g[m - 1]] ELSE g[i]]
  <2>2. f \in [0 .. m -> V]
    <3>1. G[m] \in [V -> V] /\ g[m - 1] \in V
      OBVIOUS
    <3>2. G[m][g[m - 1]] \in V
      BY <3>1
    <3>3. \A i \in 0 .. m : i # m => i \in 0 .. m - 1
      OBVIOUS
    <3> QED BY <3>2, <3>3
  <2>3. ASSUME NEW i \in 1 .. m PROVE f[i] = G[i][f[i - 1]]
    <3>1. i - 1 \in 0 .. m - 1 /\ f[i - 1] = g[i - 1]
      OBVIOUS
    <3>2. i # m => f[i] = g[i] /\ g[i] = G[i][g[i - 1]]
      BY <2>1
    <3> QED BY <3>1, <3>2
  <2>4. Makes(f, m)
    BY <2>1, <2>3
  <2> HIDE DEF f
  <2>5. m \in 0 .. n
    OBVIOUS
  <2> HIDE DEF Makes
  <2> QED BY <2>2, <2>4, <2>5
<1> HIDE DEF P
<1>3. \A i \in 0 .. n : i \in P
  BY <1>1, <1>2, InductionUpTo
<1> QED BY <1>3 DEF P, Recursions
-----------------------------------------------------------------------------
(* The recursive functions of the model                                     *)

\* The totals are what their recursion says, and numbers.
LEMMA TotalsFacts ==
  ASSUME NEW s \in Seq(Nat)
  PROVE  /\ Totals(s) \in [0 .. Len(s) -> Nat]
         /\ Totals(s)[0] = 0
         /\ \A i \in 1 .. Len(s) : Totals(s)[i] = Totals(s)[i - 1] + s[i]
<1> DEFINE n == Len(s)
           Makes(f) == f = [i \in 0 .. n |-> IF i = 0 THEN 0 ELSE f[i - 1] + s[i]]
           G == [i \in 1 .. n |-> [t \in Nat |-> t + s[i]]]
<1>1. n \in Nat /\ \A i \in 1 .. n : s[i] \in Nat
  OBVIOUS
<1>2. G \in [1 .. n -> [Nat -> Nat]]
  BY <1>1
<1>3. \A i \in 1 .. n : \A t \in Nat : G[i][t] = t + s[i]
  OBVIOUS
<1> HIDE DEF G, n
<1>4. PICK g \in [0 .. n -> Nat] : g[0] = 0 /\ \A i \in 1 .. n : g[i] = G[i][g[i - 1]]
  <2>1. Recursions(Nat, 0, n, G) # {}
    BY <1>1, <1>2, RecursionExists
  <2> QED BY <2>1 DEF Recursions
<1>5. Makes(g)
  <2>1. ASSUME NEW i \in 0 .. n, i # 0 PROVE g[i] = g[i - 1] + s[i]
    <3>1. i \in 1 .. n /\ i - 1 \in 0 .. n
      BY <1>1, <2>1
    <3>2. g[i] = G[i][g[i - 1]] /\ g[i - 1] \in Nat
      BY <1>4, <3>1
    <3> QED BY <1>3, <3>1, <3>2
  <2>2. \A i \in 0 .. n : g[i] = IF i = 0 THEN 0 ELSE g[i - 1] + s[i]
    BY <1>4, <2>1
  <2> QED BY <1>4, <2>2
<1>6. Totals(s) = CHOOSE f : Makes(f)
  BY DEF Totals, n
<1>7. Makes(Totals(s))
  <2> HIDE DEF Makes
  <2> QED BY <1>5, <1>6
<1> HIDE DEF Makes
<1>8. PICK t : t = Totals(s)
  OBVIOUS
<1>9. t = [i \in 0 .. n |-> IF i = 0 THEN 0 ELSE t[i - 1] + s[i]]
  BY <1>7, <1>8 DEF Makes
<1>10. DOMAIN t = 0 .. n /\ \A i \in 0 .. n : t[i] = IF i = 0 THEN 0 ELSE t[i - 1] + s[i]
  BY <1>9
<1>11. t[0] = 0 /\ \A i \in 1 .. n : t[i] = t[i - 1] + s[i]
  <2>1. \A i \in 1 .. n : i \in 0 .. n /\ i # 0
    BY <1>1
  <2> QED BY <1>1, <1>10, <2>1
<1>12. \A i \in 0 .. n : t[i] \in Nat
  <2> DEFINE P == {i \in 0 .. n : t[i] \in Nat}
  <2>1. 0 \in P
    BY <1>1, <1>11
  <2>2. ASSUME NEW i \in 1 .. n, i - 1 \in P PROVE i \in P
    <3>1. i \in 0 .. n /\ t[i - 1] \in Nat /\ s[i] \in Nat
      BY <1>1, <2>2
    <3>2. t[i] = t[i - 1] + s[i]
      BY <1>11
    <3> QED BY <3>1, <3>2
  <2> HIDE DEF P
  <2>3. \A i \in 0 .. n : i \in P
    BY <1>1, <2>1, <2>2, InductionUpTo
  <2> QED BY <2>3 DEF P
<1>13. t \in [0 .. n -> Nat]
  BY <1>9, <1>10, <1>12
<1> QED BY <1>8, <1>11, <1>13 DEF n

\* The links in a set, one more link at a time.
LEMMA AmongFacts ==
  ASSUME NEW s \in Seq(Url), NEW set
  PROVE  /\ \A i \in 0 .. Len(s) : AmongFirst(s, set)[i] \in Seq(Url)
         /\ AmongFirst(s, set)[0] = <<>>
         /\ \A i \in 1 .. Len(s) :
              AmongFirst(s, set)[i] = IF s[i] \in set
                                      THEN Append(AmongFirst(s, set)[i - 1], s[i])
                                      ELSE AmongFirst(s, set)[i - 1]
<1> DEFINE n == Len(s)
           With(t, i) == IF s[i] \in set THEN Append(t, s[i]) ELSE t
           Makes(f) == f = [i \in 0 .. n |-> IF i = 0 THEN <<>>
                                             ELSE IF s[i] \in set THEN Append(f[i - 1], s[i])
                                             ELSE f[i - 1]]
           G == [i \in 1 .. n |-> [t \in Seq(Url) |-> With(t, i)]]
<1>1. n \in Nat /\ \A i \in 1 .. n : s[i] \in Url
  OBVIOUS
<1>2. G \in [1 .. n -> [Seq(Url) -> Seq(Url)]]
  <2>1. \A i \in 1 .. n : \A t \in Seq(Url) : With(t, i) \in Seq(Url)
    BY <1>1
  <2> HIDE DEF With
  <2> QED BY <2>1
<1>3. \A i \in 1 .. n : \A t \in Seq(Url) : G[i][t] = With(t, i)
  OBVIOUS
<1> HIDE DEF G, n
<1>4. PICK g \in [0 .. n -> Seq(Url)] : g[0] = <<>> /\ \A i \in 1 .. n : g[i] = G[i][g[i - 1]]
  <2>1. Recursions(Seq(Url), <<>>, n, G) # {}
    BY <1>1, <1>2, EmptySeq, RecursionExists
  <2> QED BY <2>1 DEF Recursions
<1>5. Makes(g)
  <2>1. ASSUME NEW i \in 0 .. n, i # 0 PROVE g[i] = With(g[i - 1], i)
    <3>1. i \in 1 .. n /\ i - 1 \in 0 .. n
      BY <1>1, <2>1
    <3>2. g[i] = G[i][g[i - 1]] /\ g[i - 1] \in Seq(Url)
      BY <1>4, <3>1
    <3> HIDE DEF With
    <3> QED BY <1>3, <3>1, <3>2
  <2>2. \A i \in 0 .. n : g[i] = IF i = 0 THEN <<>> ELSE With(g[i - 1], i)
    <3> HIDE DEF With
    <3> QED BY <1>4, <2>1
  <2> QED BY <1>4, <2>2
<1>6. AmongFirst(s, set) = CHOOSE f : Makes(f)
  BY DEF AmongFirst, n
<1>7. Makes(AmongFirst(s, set))
  <2> HIDE DEF Makes
  <2> QED BY <1>5, <1>6
<1> HIDE DEF Makes
<1>8. PICK t : t = AmongFirst(s, set)
  OBVIOUS
<1>9. t = [i \in 0 .. n |-> IF i = 0 THEN <<>>
                          ELSE IF s[i] \in set THEN Append(t[i - 1], s[i]) ELSE t[i - 1]]
  BY <1>7, <1>8 DEF Makes
<1>10. \A i \in 0 .. n : t[i] = IF i = 0 THEN <<>> ELSE With(t[i - 1], i)
  BY <1>9
<1> HIDE DEF With
<1>11. t[0] = <<>> /\ \A i \in 1 .. n : t[i] = With(t[i - 1], i)
  <2>1. \A i \in 1 .. n : i \in 0 .. n /\ i # 0
    BY <1>1
  <2> QED BY <1>1, <1>10, <2>1
<1>12. \A i \in 0 .. n : t[i] \in Seq(Url)
  <2> DEFINE P == {i \in 0 .. n : t[i] \in Seq(Url)}
  <2>1. 0 \in P
    <3>1. 0 \in 0 .. n
      BY <1>1
    <3> QED BY <3>1, <1>11, EmptySeq
  <2>2. ASSUME NEW i \in 1 .. n, i - 1 \in P PROVE i \in P
    <3>1. i \in 0 .. n /\ t[i - 1] \in Seq(Url) /\ s[i] \in Url
      BY <1>1, <2>2
    <3>2. With(t[i - 1], i) \in Seq(Url)
      BY <3>1 DEF With
    <3> QED BY <1>11, <3>1, <3>2
  <2> HIDE DEF P
  <2>3. \A i \in 0 .. n : i \in P
    BY <1>1, <2>1, <2>2, InductionUpTo
  <2> QED BY <2>3 DEF P
<1> QED BY <1>8, <1>11, <1>12 DEF n, With
-----------------------------------------------------------------------------
(* Counting                                                                 *)

\* A count is a number, the size of a finite set of places.
LEMMA CountFacts ==
  ASSUME NEW V, NEW s \in Seq(V), NEW S
  PROVE  /\ Count(s, S) \in Nat
         /\ IsFiniteSet({k \in 1 .. Len(s) : s[k] \in S})
         /\ Count(s, S) = Cardinality({k \in 1 .. Len(s) : s[k] \in S})
<1> DEFINE K == {k \in 1 .. Len(s) : s[k] \in S}
<1>1. Len(s) \in Nat /\ DOMAIN s = 1 .. Len(s)
  OBVIOUS
<1>2. IsFiniteSet(1 .. Len(s))
  BY <1>1, FS_Interval
<1>3. K \in SUBSET (1 .. Len(s))
  OBVIOUS
<1>4. Count(s, S) = Cardinality(K)
  BY <1>1 DEF Count
<1> HIDE DEF K
<1>5. IsFiniteSet(K) /\ Cardinality(K) \in Nat
  BY <1>2, <1>3, FS_Subset, FS_CardinalityType
<1> QED BY <1>4, <1>5 DEF K

\* Sequences with the same members of a set, and one without any.
LEMMA CountSame ==
  ASSUME NEW V, NEW s \in Seq(V), NEW S, NEW W, NEW t \in Seq(W), NEW T, Len(s) = Len(t),
         \A k \in 1 .. Len(s) : s[k] \in S <=> t[k] \in T
  PROVE  Count(s, S) = Count(t, T)
<1>1. {k \in 1 .. Len(s) : s[k] \in S} = {k \in 1 .. Len(t) : t[k] \in T}
  OBVIOUS
<1>2. /\ Count(s, S) = Cardinality({k \in 1 .. Len(s) : s[k] \in S})
      /\ Count(t, T) = Cardinality({k \in 1 .. Len(t) : t[k] \in T})
  BY CountFacts
<1> QED BY <1>1, <1>2

\* Nothing of the set, nothing to count.
LEMMA CountNone ==
  ASSUME NEW V, NEW s \in Seq(V), NEW S, \A k \in 1 .. Len(s) : s[k] \notin S
  PROVE  Count(s, S) = 0
<1>1. {k \in 1 .. Len(s) : s[k] \in S} = {}
  OBVIOUS
<1>2. Count(s, S) = Cardinality({k \in 1 .. Len(s) : s[k] \in S})
  BY CountFacts
<1> QED BY <1>1, <1>2, FS_EmptySet

\* The count of two sequences is the sum of theirs.
LEMMA CountConcat ==
  ASSUME NEW V, NEW s \in Seq(V), NEW t \in Seq(V), NEW S
  PROVE  Count(s \o t, S) = Count(s, S) + Count(t, S)
<1> DEFINE m == Len(s)
           n == Len(t)
           A == {k \in 1 .. m : s[k] \in S}
           B == {k \in 1 .. n : t[k] \in S}
           C == {k \in m + 1 .. m + n : t[k - m] \in S}
           D == {k \in 1 .. Len(s \o t) : (s \o t)[k] \in S}
<1>1. /\ m \in Nat /\ n \in Nat /\ s \o t \in Seq(V) /\ Len(s \o t) = m + n
      /\ \A k \in 1 .. m : (s \o t)[k] = s[k]
      /\ \A k \in m + 1 .. m + n : (s \o t)[k] = t[k - m]
  OBVIOUS
<1>2. /\ Count(s, S) = Cardinality(A) /\ Count(t, S) = Cardinality(B)
      /\ Count(s \o t, S) = Cardinality(D) /\ IsFiniteSet(A) /\ IsFiniteSet(B)
      /\ Count(s, S) \in Nat /\ Count(t, S) \in Nat
  BY <1>1, CountFacts
<1>3. D = A \cup C /\ A \cap C = {}
  <2>1. 1 .. m + n = (1 .. m) \cup (m + 1 .. m + n) /\ (1 .. m) \cap (m + 1 .. m + n) = {}
    BY <1>1
  <2>2. D = {k \in 1 .. m + n : (s \o t)[k] \in S}
    BY <1>1
  <2> HIDE DEF m, n, D
  <2> QED BY <1>1, <2>1, <2>2
<1>4. ExistsBijection(B, C)
  <2> DEFINE f == [k \in B |-> k + m]
  <2>1. f \in [B -> C]
    BY <1>1
  <2>2. \A j, k \in B : f[j] = f[k] => j = k
    BY <1>1
  <2>3. \A c \in C : c - m \in B /\ f[c - m] = c
    BY <1>1
  <2> HIDE DEF f, B, C
  <2>4. f \in Bijection(B, C)
    BY <2>1, <2>2, <2>3 DEF Bijection, Injection, Surjection, IsInjective
  <2> QED BY <2>4 DEF ExistsBijection
<1> HIDE DEF A, B, C, D
<1>5. IsFiniteSet(C) /\ Cardinality(C) = Cardinality(B)
  BY <1>2, <1>4, FS_Bijection
<1>6. Cardinality(A \cup C) = Cardinality(A) + Cardinality(C) - Cardinality(A \cap C)
  BY <1>2, <1>5, FS_Union
<1>7. Cardinality(A \cap C) = 0
  BY <1>3, FS_EmptySet
<1>8. Cardinality(D) = Cardinality(A) + Cardinality(B)
  BY <1>2, <1>3, <1>5, <1>6, <1>7
<1> QED BY <1>2, <1>8

\* The count of one element.
LEMMA CountOne ==
  ASSUME NEW V, NEW x \in V, NEW S
  PROVE  Count(<<x>>, S) = IF x \in S THEN 1 ELSE 0
<1>1. <<x>> \in Seq(V) /\ Len(<<x>>) = 1 /\ <<x>>[1] = x
  OBVIOUS
<1>2. Count(<<x>>, S) = Cardinality({k \in 1 .. 1 : <<x>>[k] \in S})
  BY <1>1, CountFacts
<1>3. {k \in 1 .. 1 : <<x>>[k] \in S} = IF x \in S THEN {1} ELSE {}
  BY <1>1
<1> QED BY <1>2, <1>3, FS_EmptySet, FS_Singleton

\* One more element at the end.
LEMMA CountAppend ==
  ASSUME NEW V, NEW s \in Seq(V), NEW x \in V, NEW S
  PROVE  Count(Append(s, x), S) = Count(s, S) + (IF x \in S THEN 1 ELSE 0)
<1>1. Append(s, x) = s \o <<x>> /\ <<x>> \in Seq(V)
  OBVIOUS
<1>2. Count(s \o <<x>>, S) = Count(s, S) + Count(<<x>>, S)
  BY <1>1, CountConcat
<1> QED BY <1>1, <1>2, CountOne

\* One element less at the front.
LEMMA CountTail ==
  ASSUME NEW V, NEW s \in Seq(V), s # <<>>, NEW S
  PROVE  Count(s, S) = Count(Tail(s), S) + (IF Head(s) \in S THEN 1 ELSE 0)
<1>1. s = <<Head(s)>> \o Tail(s) /\ Head(s) \in V /\ Tail(s) \in Seq(V)
  BY HeadTailProperties
<1>2. <<Head(s)>> \in Seq(V)
  BY <1>1
<1>3. Count(s, S) = Count(<<Head(s)>>, S) + Count(Tail(s), S)
  BY ZenonT(60), <1>1, <1>2, CountConcat
<1>4. Count(<<Head(s)>>, S) = IF Head(s) \in S THEN 1 ELSE 0
  BY <1>1, CountOne
<1>5. Count(Tail(s), S) \in Nat
  BY <1>1, CountFacts
<1> QED BY <1>3, <1>4, <1>5

\* The links in a set are links.
LEMMA AmongType ==
  ASSUME NEW s \in Seq(Url), NEW set
  PROVE  Among(s, set) \in Seq(Url)
<1>1. Len(s) \in 0 .. Len(s)
  OBVIOUS
<1> QED BY <1>1, AmongFacts DEF Among

\* The links in a set are there as often as before, and no others.
LEMMA AmongCount ==
  ASSUME NEW s \in Seq(Url), NEW set, NEW u
  PROVE  Count(Among(s, set), {u}) = IF u \in set THEN Count(s, {u}) ELSE 0
<1> DEFINE n == Len(s)
           a == AmongFirst(s, set)
           C(i) == Cardinality({k \in 1 .. i : s[k] \in {u}})
           P == {i \in 0 .. n : /\ C(i) \in Nat
                                /\ Count(a[i], {u}) = IF u \in set THEN C(i) ELSE 0}
<1>1. /\ n \in Nat /\ a[0] = <<>>
      /\ \A i \in 0 .. n : a[i] \in Seq(Url)
      /\ \A i \in 1 .. n : a[i] = IF s[i] \in set THEN Append(a[i - 1], s[i]) ELSE a[i - 1]
  BY AmongFacts
<1>2. \A i \in 1 .. n : s[i] \in Url
  OBVIOUS
<1> HIDE DEF n, a
<1>3. 0 \in P
  <2>1. C(0) = 0
    <3>1. {k \in 1 .. 0 : s[k] \in {u}} = {}
      OBVIOUS
    <3> QED BY <3>1, FS_EmptySet
  <2>2. Count(a[0], {u}) = 0
    <3>1. {k \in DOMAIN <<>> : <<>>[k] \in {u}} = {}
      OBVIOUS
    <3>2. Count(<<>>, {u}) = 0
      BY <3>1, FS_EmptySet DEF Count
    <3> QED BY <1>1, <3>2
  <2> HIDE DEF C
  <2> QED BY <1>1, <2>1, <2>2
<1>4. ASSUME NEW i \in 1 .. n, i - 1 \in P PROVE i \in P
  <2>1. /\ i \in 0 .. n /\ i - 1 \in 0 .. n /\ s[i] \in Url /\ a[i - 1] \in Seq(Url)
        /\ i \in Nat
    BY <1>1, <1>2
  <2>2. C(i) = C(i - 1) + (IF s[i] = u THEN 1 ELSE 0)
    <3> DEFINE K == {k \in 1 .. i - 1 : s[k] \in {u}}
    <3>1. IsFiniteSet(K) /\ i \notin K
      <4>1. IsFiniteSet(1 .. i - 1)
        BY <2>1, FS_Interval
      <4>2. K \in SUBSET (1 .. i - 1) /\ i \notin 1 .. i - 1
        BY <2>1
      <4> HIDE DEF K
      <4> QED BY <4>1, <4>2, FS_Subset
    <3> DEFINE L == {k \in 1 .. i : s[k] \in {u}}
    <3>2. L = IF s[i] = u THEN K \cup {i} ELSE K
      <4>1. 1 .. i = (1 .. i - 1) \cup {i}
        BY <2>1
      <4> QED BY <4>1
    <3>3. C(i - 1) = Cardinality(K) /\ C(i) = Cardinality(L) /\ Cardinality(K) \in Nat
      BY <1>4
    <3> HIDE DEF K, L, C
    <3>4. Cardinality(K \cup {i}) = Cardinality(K) + 1
      BY <3>1, FS_AddElement
    <3>5. CASE s[i] = u
      BY <3>2, <3>3, <3>4, <3>5
    <3>6. CASE s[i] # u
      BY <3>2, <3>3, <3>6
    <3> QED BY <3>5, <3>6
  <2>3. Count(Append(a[i - 1], s[i]), {u}) = Count(a[i - 1], {u}) + (IF s[i] \in {u} THEN 1 ELSE 0)
    BY <2>1, CountAppend
  <2>4. a[i] = IF s[i] \in set THEN Append(a[i - 1], s[i]) ELSE a[i - 1]
    BY <1>1
  <2> HIDE DEF C
  <2>5. C(i - 1) \in Nat /\ Count(a[i - 1], {u}) = IF u \in set THEN C(i - 1) ELSE 0
    BY <1>4
  <2>6. CASE s[i] = u
    BY <2>1, <2>2, <2>3, <2>4, <2>5, <2>6
  <2>7. CASE s[i] # u
    BY <2>1, <2>2, <2>3, <2>4, <2>5, <2>7
  <2> QED BY <2>6, <2>7
<1> HIDE DEF P
<1>5. \A i \in 0 .. n : i \in P
  BY <1>1, <1>3, <1>4, InductionUpTo
<1>6. Count(a[n], {u}) = IF u \in set THEN C(n) ELSE 0
  <2>1. n \in P
    BY <1>1, <1>5
  <2> QED BY <2>1 DEF P
<1>7. C(n) = Count(s, {u})
  BY CountFacts DEF n
<1> QED BY <1>6, <1>7 DEF n, a, Among
-----------------------------------------------------------------------------
(* Pictures                                                                 *)

\* What PixelsThere says of a picture of a message.
Good(p) == p.url \notin Broken => Sound(p) /\ p.canBeDecoded

\* init keeps a good picture good; one that is no broken link has its pixels.
LEMMA InitImageFacts ==
  ASSUME NEW p \in Picture
  PROVE  /\ InitImage(p) \in Picture
         /\ InitImage(p).url = p.url /\ InitImage(p).for = p.for
         /\ Good(p) => Good(InitImage(p))
         /\ Good(p) /\ p.url \notin Broken => InitImage(p).data = "pixels"
<1> DEFINE d == IF ~p.decoded /\ p.canBeDecoded
                THEN [p EXCEPT !.data = "pixels", !.decoded = TRUE] ELSE p
<1>1. d \in Picture /\ d.url = p.url /\ d.for = p.for
  BY DEF Picture, Pixels
<1>2. InitImage(p) = IF p.valid THEN p
                     ELSE IF ~d.decoded THEN [d EXCEPT !.canBeDecoded = FALSE]
                     ELSE [d EXCEPT !.valid = TRUE, !.texture = d.data]
  BY DEF InitImage
<1>3. /\ InitImage(p) \in Picture
      /\ InitImage(p).url = p.url /\ InitImage(p).for = p.for
  <2> HIDE DEF d
  <2> QED BY ZenonT(60), <1>1, <1>2 DEF Picture, Pixels
<1>4. ASSUME Sound(p), p.canBeDecoded
      PROVE  /\ Sound(InitImage(p)) /\ InitImage(p).canBeDecoded
             /\ InitImage(p).data = "pixels"
  <2>1. d.decoded /\ d.data = "pixels" /\ d.canBeDecoded
    BY <1>4 DEF Sound, Picture, Pixels
  <2>2. CASE p.valid
    BY <1>2, <1>4, <2>2 DEF Sound
  <2>3. CASE ~p.valid
    <3>1. InitImage(p) = [d EXCEPT !.valid = TRUE, !.texture = d.data]
      BY <1>2, <2>1, <2>3
    <3> HIDE DEF d
    <3> QED BY <1>1, <2>1, <3>1 DEF Sound, Picture, Pixels
  <2> QED BY <2>2, <2>3
<1> HIDE DEF d
<1> QED BY <1>3, <1>4 DEF Good

\* unref keeps a good picture good.
LEMMA UnrefFacts ==
  ASSUME NEW p \in Picture
  PROVE  /\ Unref(p) \in Picture
         /\ Unref(p).url = p.url /\ Unref(p).for = p.for
         /\ Good(p) => Good(Unref(p))
BY DEF Unref, Good, Sound, Picture, Pixels

\* The overlay's copy of a picture with pixels is sound.
LEMMA CopyImageFacts ==
  ASSUME NEW p \in Picture
  PROVE  /\ CopyImage(p) \in Picture
         /\ CopyImage(p).url = p.url
         /\ p.data = "pixels" => Sound(CopyImage(p))
<1> DEFINE c == [p EXCEPT !.decoded = TRUE, !.canBeDecoded = FALSE, !.valid = FALSE]
<1>1. /\ c \in Picture /\ c.url = p.url /\ c.data = p.data
      /\ c.decoded /\ ~c.canBeDecoded /\ ~c.valid
  BY DEF Picture
<1>2. CopyImage(p) = InitImage(c)
  BY DEF CopyImage
<1> HIDE DEF c
<1>3. InitImage(c) = [c EXCEPT !.valid = TRUE, !.texture = c.data]
  BY <1>1 DEF InitImage
<1> QED BY ZenonT(60), <1>1, <1>2, <1>3 DEF Sound, Picture, Pixels

\* A new picture is a good one.
LEMMA NewImageFacts ==
  ASSUME NEW u \in Url, NEW id \in 1 .. MaxMade, NEW lines \in Nat
  PROVE  /\ NewImage(u, id, lines) \in Picture
         /\ NewImage(u, id, lines).url = u /\ NewImage(u, id, lines).for = id
         /\ Good(NewImage(u, id, lines))
<1> DEFINE p == [url |-> u, for |-> id, lines |-> IF u \in Broken THEN lines ELSE 1,
                 data |-> "none", texture |-> "none", decoded |-> FALSE,
                 canBeDecoded |-> u \notin Broken, valid |-> FALSE]
<1>1. p \in Picture /\ p.url = u /\ p.for = id
  BY DEF Picture, Pixels
<1>2. Good(p)
  BY DEF Good, Sound
<1>3. NewImage(u, id, lines) = InitImage(p)
  BY DEF NewImage
<1> HIDE DEF p
<1> QED BY <1>1, <1>2, <1>3, InitImageFacts
-----------------------------------------------------------------------------
(* Heights                                                                  *)

\* A height is a number.
LEMMA GetHeightType ==
  ASSUME NEW m \in Message
  PROVE  GetHeight(m) \in Nat
<1> DEFINE s == [k \in DOMAIN m.images |-> m.images[k].lines]
<1>1. m.images \in Seq(Picture)
  BY DEF Message
<1>2. s \in Seq(Nat) /\ Len(s) = Len(m.images)
  <2>1. DOMAIN m.images = 1 .. Len(m.images) /\ Len(m.images) \in Nat
    BY <1>1
  <2>2. \A k \in 1 .. Len(m.images) : m.images[k] \in Picture
    BY <1>1
  <2>3. \A p \in Picture : p.lines \in Nat
    BY DEF Picture
  <2> QED BY <2>1, <2>2, <2>3
<1>3. GetHeight(m) = 1 + Totals(s)[Len(s)]
  BY <1>2 DEF GetHeight
<1> HIDE DEF s
<1>4. Totals(s) \in [0 .. Len(s) -> Nat] /\ Len(s) \in Nat
  BY <1>2, TotalsFacts
<1>5. Totals(s)[Len(s)] \in Nat
  BY <1>4
<1> QED BY <1>3, <1>5

\* recomputeHeights moves messages and changes nothing else about them.
LEMMA PlacedFacts ==
  ASSUME NEW list \in Seq(Message)
  PROVE  /\ Placed(list).list \in Seq(Message) /\ Len(Placed(list).list) = Len(list)
         /\ \A i \in 1 .. Len(list) :
              /\ Placed(list).list[i].id = list[i].id
              /\ Placed(list).list[i].content = list[i].content
              /\ Placed(list).list[i].at = list[i].at
              /\ Placed(list).list[i].images = list[i].images
         /\ Placed(list).height \in Nat
<1> DEFINE h == [i \in DOMAIN list |-> GetHeight(list[i])]
           t == Totals(h)
           placed(i) == [list[i] EXCEPT !.start = t[i - 1], !.height = GetHeight(list[i])]
<1>1. Len(list) \in Nat /\ DOMAIN list = 1 .. Len(list)
      /\ \A i \in 1 .. Len(list) : list[i] \in Message
  OBVIOUS
<1>2. h \in Seq(Nat) /\ Len(h) = Len(list)
  BY <1>1, GetHeightType
<1>3. Placed(list) = [list |-> [i \in 1 .. Len(list) |-> placed(i)],
                      height |-> t[Len(list)]]
  BY <1>1 DEF Placed
<1> HIDE DEF h
<1>4. t \in [0 .. Len(list) -> Nat]
  BY <1>2, TotalsFacts
<1> HIDE DEF t
<1>5. ASSUME NEW i \in 1 .. Len(list)
      PROVE  /\ placed(i) \in Message
             /\ placed(i).id = list[i].id /\ placed(i).content = list[i].content
             /\ placed(i).at = list[i].at /\ placed(i).images = list[i].images
  <2>1. i - 1 \in 0 .. Len(list)
    BY <1>1
  <2>2. t[i - 1] \in Nat /\ GetHeight(list[i]) \in Nat /\ list[i] \in Message
    BY <1>1, <1>4, <2>1, GetHeightType
  <2> QED BY <2>2 DEF Message
<1> HIDE DEF placed
<1>6. /\ Placed(list).list = [i \in 1 .. Len(list) |-> placed(i)]
      /\ Placed(list).height = t[Len(list)]
  BY <1>3
<1>7. t[Len(list)] \in Nat
  BY <1>1, <1>4
<1>8. /\ [i \in 1 .. Len(list) |-> placed(i)] \in Seq(Message)
      /\ Len([i \in 1 .. Len(list) |-> placed(i)]) = Len(list)
  BY <1>1, <1>5
<1> QED BY <1>5, <1>6, <1>7, <1>8

\* The view after its height was computed is a view.
LEMMA ViewForFacts ==
  ASSUME NEW v \in [offset : Int, height : Nat, available : Nat], NEW h \in Nat
  PROVE  /\ ViewFor(v, h) \in [offset : Int, height : Nat, available : Nat]
         /\ ViewFor(v, h).height = h /\ ViewFor(v, h).available = v.available
         /\ ViewFor(v, h).offset = IF h < v.available THEN 0
                                   ELSE IF v.offset = v.height - v.available /\ v.offset # 0
                                   THEN h - v.available ELSE v.offset
<1> DEFINE o == IF h < v.available THEN 0
                ELSE IF v.offset = v.height - v.available /\ v.offset # 0
                THEN h - v.available ELSE v.offset
<1>1. o \in Int
  OBVIOUS
<1>2. v = [offset |-> v.offset, height |-> v.height, available |-> v.available]
  OBVIOUS
<1>3. ViewFor(v, h) = [v EXCEPT !.height = h, !.offset = o]
  BY <1>2 DEF ViewFor, End
<1> HIDE DEF o
<1>4. /\ [v EXCEPT !.height = h, !.offset = o] \in [offset : Int, height : Nat, available : Nat]
      /\ [v EXCEPT !.height = h, !.offset = o].height = h
      /\ [v EXCEPT !.height = h, !.offset = o].available = v.available
      /\ [v EXCEPT !.height = h, !.offset = o].offset = o
  BY <1>1
<1> QED BY <1>3, <1>4 DEF o
-----------------------------------------------------------------------------
(* What a step makes of the messages                                        *)

\* A message is the one it was, with the links it had, however it is drawn.
SameMessage(m, n) ==
  /\ m.id = n.id /\ m.content = n.content /\ m.at = n.at
  /\ Len(m.images) = Len(n.images)
  /\ \A k \in 1 .. Len(n.images) :
       /\ m.images[k].url = n.images[k].url /\ m.images[k].for = n.images[k].for
       /\ Good(n.images[k]) => Good(m.images[k])

SameMessages(list, old) ==
  /\ list \in Seq(Message) /\ Len(list) = Len(old)
  /\ \A i \in 1 .. Len(old) : SameMessage(list[i], old[i])

\* What a message consists of.
LEMMA MessageParts ==
  ASSUME NEW m \in Message
  PROVE  /\ m.images \in Seq(Picture) /\ Len(m.images) \in Nat
         /\ DOMAIN m.images = 1 .. Len(m.images)
         /\ \A k \in 1 .. Len(m.images) : m.images[k] \in Picture
         /\ m.id \in 1 .. MaxMade /\ m.content \in Content /\ m.at \in Nat
         /\ \A s \in Seq(Picture), b \in BOOLEAN :
              /\ [m EXCEPT !.images = s] \in Message
              /\ [m EXCEPT !.loading = b, !.images = s] \in Message
<1>1. m.images \in Seq(Picture)
  BY DEF Message
<1>2. m.id \in 1 .. MaxMade /\ m.content \in Content /\ m.at \in Nat
  BY DEF Message
<1>3. \A s \in Seq(Picture), b \in BOOLEAN :
        /\ [m EXCEPT !.images = s] \in Message
        /\ [m EXCEPT !.loading = b, !.images = s] \in Message
  BY DEF Message
<1>4. /\ Len(m.images) \in Nat /\ DOMAIN m.images = 1 .. Len(m.images)
      /\ \A k \in 1 .. Len(m.images) : m.images[k] \in Picture
  BY <1>1
<1> QED BY <1>1, <1>2, <1>3, <1>4

\* A message after a frame is the same but for its place and its textures.
LEMMA DrawnFacts ==
  ASSUME NEW m \in Message, NEW v
  PROVE  Drawn(m, v) \in Message /\ SameMessage(Drawn(m, v), m)
<1> DEFINE n == Len(m.images)
           shown == [i \in 1 .. n |-> InitImage(m.images[i])]
           hidden == [i \in 1 .. n |-> Unref(m.images[i])]
<1>1. n \in Nat /\ DOMAIN m.images = 1 .. n /\ \A k \in 1 .. n : m.images[k] \in Picture
  BY MessageParts
<1>2. /\ shown \in Seq(Picture) /\ Len(shown) = n
      /\ \A k \in 1 .. n : shown[k] = InitImage(m.images[k])
  <2> HIDE DEF n
  <2>1. \A k \in 1 .. n : InitImage(m.images[k]) \in Picture
    BY <1>1, InitImageFacts
  <2> QED BY <1>1, <2>1
<1>3. /\ hidden \in Seq(Picture) /\ Len(hidden) = n
      /\ \A k \in 1 .. n : hidden[k] = Unref(m.images[k])
  <2> HIDE DEF n
  <2>1. \A k \in 1 .. n : Unref(m.images[k]) \in Picture
    BY <1>1, UnrefFacts
  <2> QED BY <1>1, <2>1
<1>4. Drawn(m, v) = IF Visible(m, v)
                    THEN [m EXCEPT !.loading = TRUE, !.images = shown]
                    ELSE IF m.loading
                    THEN [m EXCEPT !.loading = FALSE, !.images = hidden]
                    ELSE m
  BY <1>1 DEF Drawn
<1> HIDE DEF shown, hidden
<1>5. ASSUME NEW s \in Seq(Picture), NEW b \in BOOLEAN, Len(s) = n,
             \A k \in 1 .. n : /\ s[k].url = m.images[k].url /\ s[k].for = m.images[k].for
                               /\ Good(m.images[k]) => Good(s[k])
      PROVE  /\ [m EXCEPT !.loading = b, !.images = s] \in Message
             /\ SameMessage([m EXCEPT !.loading = b, !.images = s], m)
  <2>1. [m EXCEPT !.loading = b, !.images = s] \in Message
    BY MessageParts
  <2>2. PICK d : d = [m EXCEPT !.loading = b, !.images = s]
    OBVIOUS
  <2>3. d.id = m.id /\ d.content = m.content /\ d.at = m.at /\ d.images = s
    BY <2>2 DEF Message
  <2> QED BY <1>5, <2>1, <2>2, <2>3 DEF SameMessage
<1>6. CASE Visible(m, v)
  <2>1. \A k \in 1 .. n : /\ shown[k].url = m.images[k].url /\ shown[k].for = m.images[k].for
                          /\ Good(m.images[k]) => Good(shown[k])
    BY <1>1, <1>2, InitImageFacts
  <2> HIDE DEF n
  <2> QED BY <1>2, <1>4, <1>5, <1>6, <2>1
<1>7. CASE ~Visible(m, v) /\ m.loading
  <2>1. \A k \in 1 .. n : /\ hidden[k].url = m.images[k].url
                          /\ hidden[k].for = m.images[k].for
                          /\ Good(m.images[k]) => Good(hidden[k])
    BY <1>1, <1>3, UnrefFacts
  <2> HIDE DEF n
  <2> QED BY <1>3, <1>4, <1>5, <1>7, <2>1
<1>8. CASE ~Visible(m, v) /\ ~m.loading
  <2>1. SameMessage(m, m)
    BY DEF SameMessage
  <2> QED BY <1>4, <1>8, <2>1
<1> QED BY <1>6, <1>7, <1>8

\* FlattenSeq goes through the sequences one after the other.
LEMMA FlattenParts ==
  ASSUME NEW S, NEW ss \in Seq(Seq(S))
  PROVE  \E t \in [0 .. Len(ss) -> Seq(S)] :
           /\ t[0] = <<>> /\ FlattenSeq(ss) = t[Len(ss)]
           /\ \A i \in 1 .. Len(ss) : t[i] = t[i - 1] \o ss[i]
<1> DEFINE n == Len(ss)
           Makes(f) == f = [i \in 1 .. n |-> IF i = 1 THEN ss[i] ELSE f[i - 1] \o ss[i]]
           G == [i \in 1 .. n |-> [t \in Seq(S) |-> t \o ss[i]]]
<1>1. n \in Nat /\ \A i \in 1 .. n : ss[i] \in Seq(S)
  OBVIOUS
<1>2. <<>> \in Seq(S) /\ \A t \in Seq(S) : <<>> \o t = t
  OBVIOUS
<1>3. \A i \in 1 .. n : \A t \in Seq(S) : t \o ss[i] \in Seq(S)
  BY <1>1
<1>4. /\ G \in [1 .. n -> [Seq(S) -> Seq(S)]]
      /\ \A i \in 1 .. n : \A t \in Seq(S) : G[i][t] = t \o ss[i]
  BY <1>3
<1> HIDE DEF G
<1>5. PICK g \in [0 .. n -> Seq(S)] : g[0] = <<>> /\ \A i \in 1 .. n : g[i] = G[i][g[i - 1]]
  <2> HIDE DEF n
  <2>1. Recursions(Seq(S), <<>>, n, G) # {}
    BY <1>1, <1>2, <1>4, RecursionExists
  <2> QED BY <2>1 DEF Recursions
<1>6. CASE n = 0
  <2>1. ss = <<>> /\ FlattenSeq(ss) = ss
    BY <1>6 DEF FlattenSeq
  <2>2. \A i \in 1 .. n : FALSE
    BY <1>6
  <2> HIDE DEF n
  <2>3. g[n] = <<>>
    BY <1>5, <1>6
  <2> QED BY <1>5, <2>1, <2>2, <2>3 DEF n
<1>7. CASE n # 0
  <2>1. FlattenSeq(ss) = (CHOOSE f : Makes(f))[n]
    BY <1>7 DEF FlattenSeq
  <2> HIDE DEF n
  <2>2. \A i \in 1 .. n : g[i] = g[i - 1] \o ss[i] /\ g[i] \in Seq(S) /\ g[i - 1] \in Seq(S)
    <3>1. ASSUME NEW i \in 1 .. n PROVE g[i - 1] \in Seq(S) /\ g[i] \in Seq(S)
      BY <1>1
    <3> QED BY <1>4, <1>5, <3>1
  <2>3. PICK h : h = [i \in 1 .. n |-> g[i]]
    OBVIOUS
  <2>4. ASSUME NEW i \in 1 .. n
        PROVE  h[i] = IF i = 1 THEN ss[i] ELSE h[i - 1] \o ss[i]
    <3>1. CASE i = 1
      <4>1. i - 1 = 0 /\ ss[i] \in Seq(S)
        BY <1>1, <3>1
      <4>2. g[i] = g[0] \o ss[i]
        BY <2>2, <4>1
      <4> QED BY <1>2, <1>5, <2>3, <3>1, <4>1, <4>2
    <3>2. CASE i # 1
      <4>1. i - 1 \in 1 .. n
        BY <1>1, <3>2
      <4> QED BY <2>2, <2>3, <3>2, <4>1
    <3> QED BY <3>1, <3>2
  <2>5. Makes(h)
    <3>1. h = [i \in 1 .. n |-> h[i]]
      BY <2>3
    <3> QED BY <2>4, <3>1
  <2>6. PICK c : c = CHOOSE f : Makes(f)
    OBVIOUS
  <2>7. Makes(c)
    <3> HIDE DEF Makes
    <3> QED BY <2>5, <2>6
  <2>8. \A i \in 1 .. n : c[i] = IF i = 1 THEN ss[i] ELSE c[i - 1] \o ss[i]
    BY <2>7
  <2>9. \A i \in 0 .. n : i # 0 => c[i] = g[i]
    <3> DEFINE P == {i \in 0 .. n : i # 0 => c[i] = g[i]}
    <3>1. 0 \in P
      BY <1>1
    <3>2. ASSUME NEW i \in 1 .. n, i - 1 \in P PROVE i \in P
      <4>1. i \in 0 .. n
        BY <1>1
      <4>2. CASE i = 1
        BY <2>4, <2>8, <2>3, <4>1, <4>2
      <4>3. CASE i # 1
        <5>1. i - 1 \in 1 .. n /\ i - 1 # 0
          BY <1>1, <4>3
        <5>2. c[i - 1] = g[i - 1]
          BY <3>2, <5>1
        <5> QED BY <2>2, <2>8, <4>1, <4>3, <5>2
      <4> QED BY <4>2, <4>3
    <3> HIDE DEF P
    <3>3. \A i \in 0 .. n : i \in P
      BY <1>1, <3>1, <3>2, InductionUpTo
    <3> QED BY <3>3 DEF P
  <2>10. FlattenSeq(ss) = g[n]
    <3>1. n \in 0 .. n
      BY <1>1
    <3> HIDE DEF Makes
    <3> QED BY <1>7, <2>1, <2>6, <2>9, <3>1
  <2> QED BY <1>5, <2>2, <2>10 DEF n
<1> QED BY <1>6, <1>7

\* A new message: it shows the links that were fetched and asks for the others.
Fresh(m, id, c, at) ==
  /\ m.id = id /\ m.content = c /\ m.at = at
  /\ Len(m.images) = Len(Among(PicturesOf[c], Fetched))
  /\ \A k \in 1 .. Len(m.images) :
       /\ m.images[k].url = Among(PicturesOf[c], Fetched)[k]
       /\ m.images[k].for = id /\ Good(m.images[k])

\* The constructor makes a message that shows what was fetched.
LEMMA NewMessageFacts ==
  ASSUME NEW id \in 1 .. MaxMade, NEW c \in Content, NEW at \in Nat, NEW lines \in Nat
  PROVE  NewMessage(id, c, at, lines) \in Message /\ Fresh(NewMessage(id, c, at, lines), id, c, at)
<1> DEFINE have == Among(PicturesOf[c], Fetched)
           s == [i \in 1 .. Len(have) |-> NewImage(have[i], id, lines)]
           m == [id |-> id, content |-> c, at |-> at, start |-> 0, height |-> 0,
                 loading |-> FALSE, images |-> s]
<1>1. have \in Seq(Url)
  BY MessageListAssumption, AmongType
<1>2. NewMessage(id, c, at, lines) = m
  <2>1. DOMAIN have = 1 .. Len(have)
    BY <1>1
  <2> HIDE DEF have
  <2> QED BY <2>1 DEF NewMessage, have
<1> HIDE DEF have
<1>3. ASSUME NEW i \in 1 .. Len(have)
      PROVE  /\ NewImage(have[i], id, lines) \in Picture
             /\ NewImage(have[i], id, lines).url = have[i]
             /\ NewImage(have[i], id, lines).for = id
             /\ Good(NewImage(have[i], id, lines))
  <2>1. have[i] \in Url
    BY <1>1
  <2> QED BY <2>1, NewImageFacts
<1>4. Len(have) \in Nat
  BY <1>1
<1>5. /\ s \in Seq(Picture) /\ Len(s) = Len(have)
      /\ \A k \in 1 .. Len(s) : s[k].url = have[k] /\ s[k].for = id /\ Good(s[k])
  BY <1>3, <1>4
<1> HIDE DEF s
<1>6. /\ m \in Message /\ m.id = id /\ m.content = c /\ m.at = at /\ m.images = s
  BY <1>5 DEF Message
<1> HIDE DEF m
<1> QED BY <1>2, <1>5, <1>6 DEF Fresh, have

\* It asks for the other links, with its number and its address.
LEMMA AsksFacts ==
  ASSUME NEW id \in 1 .. MaxMade, NEW c \in Content, NEW at \in Nat
  PROVE  /\ Asks(id, c, at) \in Seq(Request)
         /\ \A k \in 1 .. Len(Asks(id, c, at)) :
              Asks(id, c, at)[k].owner = id /\ Asks(id, c, at)[k].at = at
         /\ \A u : Count(Asks(id, c, at), Asked(u, id))
                     = Count(Among(PicturesOf[c], Url \ Fetched), {u})
<1> DEFINE lack == Among(PicturesOf[c], Url \ Fetched)
           r(i) == [url |-> lack[i], owner |-> id, at |-> at]
<1>1. lack \in Seq(Url)
  BY MessageListAssumption, AmongType
<1>2. /\ Asks(id, c, at) = [i \in 1 .. Len(lack) |-> r(i)]
      /\ Len(lack) \in Nat
  <2>1. DOMAIN lack = 1 .. Len(lack) /\ Len(lack) \in Nat
    BY <1>1
  <2> HIDE DEF lack
  <2> QED BY <2>1 DEF Asks, lack
<1> HIDE DEF lack
<1>3. ASSUME NEW i \in 1 .. Len(lack)
      PROVE  /\ r(i) \in Request /\ r(i).owner = id /\ r(i).at = at
             /\ \A u : r(i) \in Asked(u, id) <=> lack[i] \in {u}
  <2>1. lack[i] \in Url
    BY <1>1
  <2> QED BY <2>1 DEF Request, Asked
<1> HIDE DEF r
<1>4. /\ Asks(id, c, at) \in Seq(Request) /\ Len(Asks(id, c, at)) = Len(lack)
      /\ \A k \in 1 .. Len(lack) : Asks(id, c, at)[k] = r(k)
  BY <1>2, <1>3
<1>5. ASSUME NEW u PROVE Count(Asks(id, c, at), Asked(u, id)) = Count(lack, {u})
  <2>1. \A k \in 1 .. Len(lack) : Asks(id, c, at)[k] \in Asked(u, id) <=> lack[k] \in {u}
    BY <1>3, <1>4
  <2> QED BY <1>1, <1>4, <2>1, CountSame
<1> QED BY ZenonT(60), <1>3, <1>4, <1>5 DEF lack

\* The addresses a new message may have are free ones.
LEMMA AddressFacts ==
  ASSUME TypeOK, NEW used, NEW n \in Nat
  PROVE  /\ Addresses(used, n) \subseteq Nat
         /\ \A at \in Addresses(used, n) : at \notin used
<1>1. Kept \subseteq Nat
  <2>1. \A k \in DOMAIN requests : requests[k].at \in Nat
    <3>1. \A k \in DOMAIN requests : requests[k] \in Request
      BY DEF TypeOK
    <3> QED BY <3>1 DEF Request
  <2>2. \A k \in DOMAIN tasks : tasks[k].at \in Nat
    <3>1. \A k \in DOMAIN tasks : tasks[k] \in Request
      BY DEF TypeOK
    <3> QED BY <3>1 DEF Request
  <2> QED BY <2>1, <2>2 DEF Kept
<1>2. 1 .. MaxMade + n \subseteq Nat
  BY MessageListAssumption
<1> QED BY <1>1, <1>2 DEF Addresses

\* A search finds a message of the list or none.
LEMMA FoundAtType ==
  ASSUME TypeOK, NEW next \in BOOLEAN
  PROVE  FoundAt(next) \in 0 .. Len(messages)
<1> DEFINE from == IF next /\ search.text = search.last THEN search.index + 2 ELSE 1
           hits == IF Hits(from) = {} /\ next THEN Hits(1) ELSE Hits(from)
<1>1. search.index \in Nat \cup {-1} /\ Len(messages) \in Nat
  BY DEF TypeOK
<1>2. from \in Nat /\ from >= 1
  BY <1>1
<1>3. hits \subseteq 1 .. Len(messages)
  BY <1>1, <1>2 DEF Hits
<1>4. FoundAt(next) = IF hits = {} THEN 0 ELSE Min(hits)
  BY DEF FoundAt
<1> HIDE DEF hits
<1>5. CASE hits = {}
  BY <1>1, <1>4, <1>5
<1>6. CASE hits # {}
  <2>1. \E x \in hits : \A y \in hits : x <= y
    <3>1. hits \subseteq Nat
      BY <1>1, <1>3
    <3> QED BY <1>6, <3>1, LeastElement
  <2>2. Min(hits) \in hits
    BY <2>1 DEF Min
  <2>3. FoundAt(next) = Min(hits)
    BY <1>4, <1>6
  <2>4. FoundAt(next) \in 1 .. Len(messages)
    BY <1>3, <2>2, <2>3
  <2> QED BY <1>1, <2>4
<1> QED BY <1>5, <1>6

\* What addContent does to the messages and the requests.
LEMMA AddContentFacts ==
  ASSUME TypeOK, NEW c \in Content, AddContent(c)
  PROVE  /\ made + 1 \in 1 .. MaxMade /\ made' = made + 1
         /\ view' \in [offset : Int, height : Nat, available : Nat]
         /\ \E height \in Nat : view' = ViewFor(view, height)
         /\ messages' \in Seq(Message) /\ Len(messages') = Len(messages) + 1
         /\ \A i \in 1 .. Len(messages) : SameMessage(messages'[i], messages[i])
         /\ \E at \in Nat \ Used :
              /\ Fresh(messages'[Len(messages) + 1], made + 1, c, at)
              /\ requests' = requests \o Asks(made + 1, c, at)
<1>1. made + 1 \in 1 .. MaxMade /\ made' = made + 1
  BY MessageListAssumption DEF AddContent, TypeOK
<1>2. PICK at \in Addresses(Used, 1), lines \in {0, 2} :
        /\ requests' = requests \o Asks(made + 1, c, at)
        /\ RecomputeHeights(Append(messages, NewMessage(made + 1, c, at, lines)), view)
  BY DEF AddContent
<1>3. at \in Nat \ Used /\ lines \in Nat
  BY AddressFacts
<1>4. PICK m : m = NewMessage(made + 1, c, at, lines)
  OBVIOUS
<1>5. m \in Message /\ Fresh(m, made + 1, c, at)
  BY <1>1, <1>3, <1>4, NewMessageFacts
<1>6. PICK list : list = Append(messages, m)
  OBVIOUS
<1>7. /\ list \in Seq(Message) /\ Len(list) = Len(messages) + 1 /\ Len(messages) \in Nat
      /\ \A i \in 1 .. Len(messages) : list[i] = messages[i]
      /\ list[Len(messages) + 1] = m
  BY <1>5, <1>6 DEF TypeOK
<1>8. messages' = Placed(list).list /\ view' = ViewFor(view, Placed(list).height)
  BY <1>2, <1>4, <1>6 DEF RecomputeHeights
<1>9. /\ messages' \in Seq(Message) /\ Len(messages') = Len(messages) + 1
      /\ \A i \in 1 .. Len(messages) + 1 :
           /\ messages'[i].id = list[i].id /\ messages'[i].content = list[i].content
           /\ messages'[i].at = list[i].at /\ messages'[i].images = list[i].images
      /\ Placed(list).height \in Nat
  BY <1>7, <1>8, PlacedFacts
<1>10. ASSUME NEW i \in 1 .. Len(messages) PROVE SameMessage(messages'[i], messages[i])
  <2>1. i \in 1 .. Len(messages) + 1
    BY <1>7
  <2> QED BY <1>7, <1>9, <2>1 DEF SameMessage
<1>11. Fresh(messages'[Len(messages) + 1], made + 1, c, at)
  <2>1. Len(messages) + 1 \in 1 .. Len(messages) + 1
    BY <1>7
  <2> QED BY <1>5, <1>7, <1>9, <2>1 DEF Fresh
<1>12. view' \in [offset : Int, height : Nat, available : Nat]
  <2>1. view \in [offset : Int, height : Nat, available : Nat]
    BY DEF TypeOK
  <2> QED BY <1>8, <1>9, <2>1, ViewForFacts
<1> QED BY <1>1, <1>2, <1>3, <1>8, <1>9, <1>10, <1>11, <1>12

\* What the change of channel does to them.
LEMMA LoadChannelFacts ==
  ASSUME TypeOK, NEW cs \in Reloads, LoadChannel(cs), NEW n, n = Len(cs)
  PROVE  /\ n \in Nat /\ cs \in Seq(Content)
         /\ made + n \in 0 .. MaxMade /\ made' = made + n
         /\ \A i \in 1 .. n : made + i \in 1 .. MaxMade
         /\ view' \in [offset : Int, height : Nat, available : Nat]
         /\ view'.offset = End(view')
         /\ messages' \in Seq(Message) /\ Len(messages') = n
         /\ \E at \in [1 .. n -> Nat] :
              /\ \A i, j \in 1 .. n : at[i] = at[j] => i = j
              /\ \A i \in 1 .. n : Fresh(messages'[i], made + i, cs[i], at[i])
              /\ requests' = requests \o FlattenSeq([i \in 1 .. n |->
                                                       Asks(made + i, cs[i], at[i])])
<1>1. n \in Nat
  BY MessageListAssumption
<1>2. cs \in Seq(Content) /\ \A i \in 1 .. n : cs[i] \in Content
  BY <1>1, MessageListAssumption
<1>3. /\ made \in Nat /\ made + n \in 0 .. MaxMade /\ made' = made + n
      /\ \A i \in 1 .. n : made + i \in 1 .. MaxMade
  <2>1. made \in 0 .. MaxMade /\ MaxMade \in Nat /\ made + n <= MaxMade /\ made' = made + n
    BY MessageListAssumption DEF LoadChannel, TypeOK
  <2> QED BY <1>1, <2>1
<1>4. PICK at \in [1 .. n -> Addresses({}, n)] :
        /\ IsInjective(at)
        /\ LET list == [i \in 1 .. n |-> NewMessage(made + i, cs[i], at[i], 0)]
               height == Placed(list).height
           IN /\ messages' = Placed(list).list
              /\ view' = [view EXCEPT !.height = height, !.offset = height - view.available]
        /\ requests' = requests \o FlattenSeq([i \in 1 .. n |-> Asks(made + i, cs[i], at[i])])
  BY <1>1 DEF LoadChannel
<1>5. at \in [1 .. n -> Nat] /\ \A i, j \in 1 .. n : at[i] = at[j] => i = j
  <2>1. Addresses({}, n) \subseteq Nat
    BY AddressFacts
  <2>2. \A i \in 1 .. n : at[i] \in Nat
    BY <2>1
  <2>3. \A i, j \in 1 .. n : at[i] = at[j] => i = j
    BY <1>4 DEF IsInjective
  <2> QED BY <2>2, <2>3
<1>6. PICK list : list = [i \in 1 .. n |-> NewMessage(made + i, cs[i], at[i], 0)]
  OBVIOUS
<1>7. /\ messages' = Placed(list).list
      /\ view' = [view EXCEPT !.height = Placed(list).height,
                              !.offset = Placed(list).height - view.available]
  BY <1>4, <1>6
<1>8. ASSUME NEW i \in 1 .. n
      PROVE  list[i] \in Message /\ Fresh(list[i], made + i, cs[i], at[i])
  <2>1. made + i \in 1 .. MaxMade /\ cs[i] \in Content /\ at[i] \in Nat /\ 0 \in Nat
    BY <1>2, <1>3, <1>5
  <2>2. list[i] = NewMessage(made + i, cs[i], at[i], 0)
    BY <1>6
  <2> QED BY <2>1, <2>2, NewMessageFacts
<1>9. list \in Seq(Message) /\ Len(list) = n
  BY <1>6, <1>8
<1>10. /\ messages' \in Seq(Message) /\ Len(messages') = n
       /\ \A i \in 1 .. n :
            /\ messages'[i].id = list[i].id /\ messages'[i].content = list[i].content
            /\ messages'[i].at = list[i].at /\ messages'[i].images = list[i].images
       /\ Placed(list).height \in Nat
  BY <1>7, <1>9, PlacedFacts
<1>11. \A i \in 1 .. n : Fresh(messages'[i], made + i, cs[i], at[i])
  BY <1>8, <1>10 DEF Fresh
<1>12. view' \in [offset : Int, height : Nat, available : Nat] /\ view'.offset = End(view')
  <2>1. view \in [offset : Int, height : Nat, available : Nat]
    BY DEF TypeOK
  <2>2. PICK h \in Nat : h = Placed(list).height
    BY <1>10
  <2>3. view' = [view EXCEPT !.height = h, !.offset = h - view.available]
    BY <1>7, <2>2
  <2>4. h - view.available \in Int
    BY <2>1
  <2>5. PICK w : w = view'
    OBVIOUS
  <2>6. /\ w \in [offset : Int, height : Nat, available : Nat]
        /\ w.offset = w.height - w.available
    BY <2>1, <2>3, <2>4, <2>5
  <2> QED BY <2>5, <2>6 DEF End
<1> QED BY <1>1, <1>2, <1>3, <1>4, <1>5, <1>10, <1>11, <1>12

\* Opening a picture changes textures only; the overlay has its copy.
LEMMA OpenImageFacts ==
  ASSUME TypeOK, NEW i \in DOMAIN messages, NEW num \in DOMAIN messages[i].images,
         OpenImage(i, num)
  PROVE  /\ SameMessages(messages', messages)
         /\ \E p \in Picture : /\ overlay' = <<CopyImage(p)>>
                               /\ p.url = messages[i].images[num].url
                               /\ Good(messages[i].images[num]) /\ p.url \notin Broken
                                    => p.data = "pixels"
<1> DEFINE old == messages[i].images[num]
           src == InitImage(old)
           new == IF old.decoded THEN old ELSE src
<1>1. messages \in Seq(Message) /\ i \in 1 .. Len(messages) /\ messages[i] \in Message
      /\ Len(messages) \in Nat /\ DOMAIN messages = 1 .. Len(messages)
  BY DEF TypeOK
<1>2. PICK s : s = messages[i].images
  OBVIOUS
<1>3. s \in Seq(Picture) /\ num \in 1 .. Len(s) /\ s[num] \in Picture /\ Len(s) \in Nat
      /\ DOMAIN s = 1 .. Len(s)
  BY <1>1, <1>2, MessageParts
<1>4. old \in Picture /\ old = s[num]
  BY <1>2, <1>3
<1>5. /\ src \in Picture /\ src.url = old.url /\ src.for = old.for
      /\ Good(old) => Good(src)
      /\ Good(old) /\ old.url \notin Broken => src.data = "pixels"
  BY <1>4, InitImageFacts
<1>6. messages' = [messages EXCEPT ![i].images[num] = new] /\ overlay' = <<CopyImage(src)>>
  BY DEF OpenImage
<1> HIDE DEF old, src
<1>7. /\ new \in Picture /\ new.url = old.url /\ new.for = old.for
      /\ Good(old) => Good(new)
  BY <1>4, <1>5
<1> HIDE DEF new
<1>8. PICK t : t = [s EXCEPT ![num] = new]
  OBVIOUS
<1>9. /\ t \in Seq(Picture) /\ Len(t) = Len(s)
      /\ \A k \in 1 .. Len(s) : t[k] = IF k = num THEN new ELSE s[k]
  BY <1>3, <1>7, <1>8
<1>10. PICK m : m = [messages[i] EXCEPT !.images = t]
  OBVIOUS
<1>11. m \in Message /\ m.id = messages[i].id /\ m.content = messages[i].content
       /\ m.at = messages[i].at /\ m.images = t
  <2>1. m \in Message
    BY <1>1, <1>9, <1>10, MessageParts
  <2>2. m.id = messages[i].id /\ m.content = messages[i].content
        /\ m.at = messages[i].at /\ m.images = t
    BY <1>1, <1>10 DEF Message
  <2> QED BY <2>1, <2>2
<1>12. messages' = [messages EXCEPT ![i] = m]
  BY <1>2, <1>6, <1>8, <1>10
<1>13. /\ messages' \in Seq(Message) /\ Len(messages') = Len(messages)
       /\ \A j \in 1 .. Len(messages) : messages'[j] = IF j = i THEN m ELSE messages[j]
  BY <1>1, <1>11, <1>12
<1>14. SameMessage(m, messages[i])
  BY <1>2, <1>4, <1>7, <1>9, <1>11 DEF SameMessage
<1>15. \A j \in 1 .. Len(messages) : SameMessage(messages'[j], messages[j])
  <2>1. \A j \in 1 .. Len(messages) : SameMessage(messages[j], messages[j])
    BY DEF SameMessage
  <2> QED BY <1>13, <1>14, <2>1
<1> QED BY <1>5, <1>6, <1>13, <1>15 DEF SameMessages, old

\* A task appends its picture to the message at its address.
LEMMA RunTaskFacts ==
  ASSUME TypeOK, RunTask
  PROVE  \E i \in 1 .. Len(messages), p \in Picture :
           /\ tasks # <<>> /\ tasks' = Tail(tasks)
           /\ messages[i].at = Head(tasks).at
           /\ p.url = Head(tasks).url /\ p.for = Head(tasks).owner /\ Good(p)
           /\ messages' \in Seq(Message) /\ Len(messages') = Len(messages)
           /\ \A j \in 1 .. Len(messages) : j # i => messages'[j] = messages[j]
           /\ messages'[i].id = messages[i].id /\ messages'[i].content = messages[i].content
           /\ messages'[i].at = messages[i].at
           /\ messages'[i].images = Append(messages[i].images, p)
<1>1. PICK i \in At(Head(tasks)), lines \in {0, 2} :
        messages' = [messages EXCEPT ![i].images =
                       Append(@, NewImage(Head(tasks).url, Head(tasks).owner, lines))]
  BY DEF RunTask
<1>2. messages \in Seq(Message) /\ i \in 1 .. Len(messages) /\ messages[i] \in Message
      /\ messages[i].at = Head(tasks).at
  BY DEF TypeOK, At
<1>3. Head(tasks) \in Request /\ tasks # <<>> /\ tasks' = Tail(tasks)
  BY HeadTailProperties DEF TypeOK, RunTask
<1>4. PICK p : p = NewImage(Head(tasks).url, Head(tasks).owner, lines)
  OBVIOUS
<1>5. p \in Picture /\ p.url = Head(tasks).url /\ p.for = Head(tasks).owner /\ Good(p)
  <2>1. Head(tasks).url \in Url /\ Head(tasks).owner \in 1 .. MaxMade /\ lines \in Nat
    BY <1>3 DEF Request
  <2> QED BY <1>4, <2>1, NewImageFacts
<1>6. PICK s : s = Append(messages[i].images, p)
  OBVIOUS
<1>7. s \in Seq(Picture)
  <2>1. messages[i].images \in Seq(Picture)
    BY <1>2, MessageParts
  <2> QED BY <1>5, <1>6, <2>1
<1>8. PICK m : m = [messages[i] EXCEPT !.images = s]
  OBVIOUS
<1>9. m \in Message
  BY <1>2, <1>7, <1>8, MessageParts
<1>10. m.id = messages[i].id /\ m.content = messages[i].content
       /\ m.at = messages[i].at /\ m.images = s
  BY <1>2, <1>8 DEF Message
<1>11. messages' = [messages EXCEPT ![i] = m]
  BY <1>1, <1>4, <1>6, <1>8
<1>12. /\ messages' \in Seq(Message) /\ Len(messages') = Len(messages)
       /\ \A j \in 1 .. Len(messages) : messages'[j] = IF j = i THEN m ELSE messages[j]
  BY <1>2, <1>9, <1>11
<1> QED BY <1>2, <1>3, <1>5, <1>6, <1>10, <1>12

\* The smaller one of two numbers.
LEMMA LessOfTwo ==
  ASSUME NEW a \in Int, NEW b \in Int
  PROVE  Min({a, b}) \in Int
<1>1. \E x \in {a, b} : \A y \in {a, b} : x <= y
  <2>1. CASE a <= b
    BY <2>1
  <2>2. CASE ~(a <= b)
    BY <2>2
  <2> QED BY <2>1, <2>2
<1>2. Min({a, b}) \in {a, b}
  BY <1>1 DEF Min
<1> QED BY <1>2

\* What render does with the search: nothing, or it goes to a message that it found.
LEMMA LookedFacts ==
  ASSUME TypeOK, NEW list \in Seq(Message), Len(list) = Len(messages),
         \A i \in 1 .. Len(messages) : list[i].id = messages[i].id,
         NEW v \in [offset : Int, height : Nat, available : Nat],
         Looked(list, v)
  PROVE  /\ view' \in [offset : Int, height : Nat, available : Nat]
         /\ search' \in [open : BOOLEAN, text : Text \cup {NoText}, next : BOOLEAN,
                         last : Text \cup {NoText}, index : Nat \cup {-1},
                         result : 0 .. MaxMade]
         /\ \/ /\ search'.index = search.index /\ search'.result = search.result
               /\ selected_index' = selected_index /\ moved' = moved
               /\ view' = v
            \/ /\ search'.index = -1 /\ search'.result = 0
               /\ selected_index' = selected_index /\ moved' = moved
               /\ view' = v
            \/ \E at \in 1 .. Len(messages) :
                 /\ search'.index = at - 1 /\ search'.result = messages[at].id
                 /\ selected_index' = Len(messages) - at /\ moved' = TRUE
                 /\ search' # search
<1> DEFINE next == search.next /\ search.index > -1
           at == FoundAt(next)
           SearchType == [open : BOOLEAN, text : Text \cup {NoText}, next : BOOLEAN,
                          last : Text \cup {NoText}, index : Nat \cup {-1},
                          result : 0 .. MaxMade]
<1>1. /\ search \in SearchType /\ 0 \in 0 .. MaxMade /\ moved \in BOOLEAN
      /\ next \in BOOLEAN /\ Len(messages) \in Nat
  BY MessageListAssumption DEF TypeOK
<1>2. at \in 0 .. Len(messages)
  BY <1>1, FoundAtType
<1>3. CASE ~Searches
  <2>1. /\ search' = [search EXCEPT !.last = NoText, !.index = -1, !.result = 0]
        /\ view' = v /\ selected_index' = selected_index /\ moved' = moved
    BY <1>3 DEF Looked
  <2>2. search' \in SearchType /\ search'.index = -1 /\ search'.result = 0
    BY <1>1, <2>1
  <2> QED BY <2>1, <2>2
<1>4. CASE Searches /\ search.text = search.last /\ ~next
  <2>1. /\ search' = [search EXCEPT !.next = FALSE]
        /\ view' = v /\ selected_index' = selected_index /\ moved' = moved
    BY <1>4 DEF Looked
  <2>2. /\ search' \in SearchType /\ search'.index = search.index
        /\ search'.result = search.result
    BY <1>1, <2>1
  <2> QED BY <2>1, <2>2
<1>5. CASE Searches /\ ~(search.text = search.last /\ ~next)
  <2>1. /\ search' = [search EXCEPT !.next = FALSE, !.last = search.text, !.index = at - 1,
                                    !.result = IF at = 0 THEN 0 ELSE list[at].id]
        /\ selected_index' = IF at = 0 THEN selected_index ELSE Len(list) - at
        /\ moved' = (moved \/ at # 0)
        /\ view' = IF at = 0 THEN v
                   ELSE [v EXCEPT !.offset = Min({list[at].start, End(v)})]
    BY <1>5 DEF Looked
  <2>2. search' # search
    <3>1. SUFFICES ASSUME search' = search PROVE FALSE
      OBVIOUS
    <3>2. search'.next = FALSE /\ search'.last = search.text
      BY <1>1, <2>1
    <3>3. search.next = FALSE /\ search.last = search.text
      BY <3>1, <3>2
    <3> QED BY <1>5, <3>3
  <2> HIDE DEF at, next
  <2>3. CASE at = 0
    <3>1. /\ search' = [search EXCEPT !.next = FALSE, !.last = search.text, !.index = -1,
                                      !.result = 0]
          /\ view' = v /\ selected_index' = selected_index /\ moved' = moved
      BY <1>1, <2>1, <2>3
    <3>2. search' \in SearchType /\ search'.index = -1 /\ search'.result = 0
      BY <1>1, <3>1
    <3> QED BY <3>1, <3>2
  <2>4. CASE at # 0
    <3>1. at \in 1 .. Len(messages)
      BY <1>1, <1>2, <2>4
    <3>2. PICK id : id = messages[at].id
      OBVIOUS
    <3>3. list[at] \in Message /\ list[at].id = id
      BY <3>1, <3>2
    <3>4. id \in 0 .. MaxMade /\ list[at].start \in Int
      BY SMTT(30), <3>3, MessageListAssumption DEF Message
    <3>5. search' = [search EXCEPT !.next = FALSE, !.last = search.text, !.index = at - 1,
                                   !.result = id]
      BY <2>1, <2>4, <3>3
    <3>6. at - 1 \in Nat
      BY <1>1, <3>1
    <3>7. search' \in SearchType /\ search'.index = at - 1 /\ search'.result = id
      BY <1>1, <3>4, <3>5, <3>6
    <3>8. selected_index' = Len(messages) - at /\ moved' = TRUE
      BY <2>1, <2>4
    <3>9. view' \in [offset : Int, height : Nat, available : Nat]
      <4>1. PICK o : o = Min({list[at].start, End(v)})
        OBVIOUS
      <4>2. o \in Int
        <5>1. End(v) \in Int
          BY DEF End
        <5> QED BY <3>4, <4>1, <5>1, LessOfTwo
      <4>3. view' = [v EXCEPT !.offset = o]
        BY <2>1, <2>4, <4>1
      <4> QED BY <4>2, <4>3
    <3> QED BY <2>2, <3>1, <3>2, <3>7, <3>8, <3>9
  <2> QED BY <2>3, <2>4
<1> QED BY <1>3, <1>4, <1>5

\* A frame keeps the messages; the view and the search are those of Looked.
LEMMA DrawFacts ==
  ASSUME TypeOK, NEW h \in Nat, Draw(h)
  PROVE  /\ SameMessages(messages', messages)
         /\ \E list \in Seq(Message), v \in [offset : Int, height : Nat, available : Nat] :
              /\ Len(list) = Len(messages)
              /\ \A i \in 1 .. Len(messages) : list[i].id = messages[i].id
              /\ v = ViewFor([ViewFor(view, v.height) EXCEPT !.available = h], v.height)
              /\ Looked(list, v)
<1>1. PICK list : list = Placed(messages).list
  OBVIOUS
<1>2. PICK height : height = Placed(messages).height
  OBVIOUS
<1>3. PICK v : v = ViewFor([ViewFor(view, height) EXCEPT !.available = h], height)
  OBVIOUS
<1>4. Looked(list, v) /\ messages' = [i \in DOMAIN list |-> Drawn(list[i], view')]
  BY <1>1, <1>2, <1>3 DEF Draw
<1>5. messages \in Seq(Message) /\ view \in [offset : Int, height : Nat, available : Nat]
  BY DEF TypeOK
<1>6. /\ list \in Seq(Message) /\ Len(list) = Len(messages) /\ height \in Nat
      /\ \A i \in 1 .. Len(messages) :
           /\ list[i].id = messages[i].id /\ list[i].content = messages[i].content
           /\ list[i].at = messages[i].at /\ list[i].images = messages[i].images
  BY <1>1, <1>2, <1>5, PlacedFacts
<1>7. v \in [offset : Int, height : Nat, available : Nat] /\ v.height = height
  <2>1. PICK w : w = ViewFor(view, height)
    OBVIOUS
  <2>2. w \in [offset : Int, height : Nat, available : Nat]
    BY <1>5, <1>6, <2>1, ViewForFacts
  <2>3. PICK x : x = [w EXCEPT !.available = h]
    OBVIOUS
  <2>4. x \in [offset : Int, height : Nat, available : Nat]
    BY <2>2, <2>3
  <2>5. v = ViewFor(x, height)
    BY <1>3, <2>1, <2>3
  <2> QED BY <1>6, <2>4, <2>5, ViewForFacts
<1>8. SameMessages(messages', messages)
  <2>1. DOMAIN list = 1 .. Len(list) /\ Len(list) \in Nat
        /\ \A i \in 1 .. Len(list) : list[i] \in Message
    BY <1>6
  <2>2. ASSUME NEW i \in 1 .. Len(messages)
        PROVE  messages'[i] \in Message /\ SameMessage(messages'[i], messages[i])
    <3>1. messages'[i] = Drawn(list[i], view')
      BY <1>4, <1>6, <2>1
    <3>2. list[i] \in Message
      BY <1>6, <2>1
    <3>3. messages'[i] \in Message /\ SameMessage(messages'[i], list[i])
      BY <3>1, <3>2, DrawnFacts
    <3> QED BY <1>6, <3>3 DEF SameMessage
  <2>3. messages' \in Seq(Message) /\ Len(messages') = Len(messages)
    <3>1. messages' = [i \in 1 .. Len(messages) |-> messages'[i]]
      BY <1>4, <1>6, <2>1
    <3>2. Len(messages) \in Nat
      BY <1>6, <2>1
    <3>3. PICK l : l = messages'
      OBVIOUS
    <3> QED BY <2>2, <3>1, <3>2, <3>3
  <2> QED BY <2>2, <2>3 DEF SameMessages
<1>9. v = ViewFor([ViewFor(view, v.height) EXCEPT !.available = h], v.height)
  BY <1>3, <1>7
<1> QED BY <1>4, <1>6, <1>7, <1>8, <1>9
-----------------------------------------------------------------------------
(* Types                                                                    *)

\* The types hold at first.
LEMMA InitTypes == Init => TypeOK
<1> SUFFICES ASSUME Init PROVE TypeOK
  OBVIOUS
<1>1. /\ messages \in Seq(Message) /\ requests \in Seq(Request) /\ tasks \in Seq(Request)
      /\ failed \in Seq(Request) /\ overlay \in Seq(Picture)
  BY EmptySeq DEF Init
<1>2. view \in [offset : Int, height : Nat, available : Nat]
  BY MessageListAssumption DEF Init
<1>3. search \in [open : BOOLEAN, text : Text \cup {NoText}, next : BOOLEAN,
                  last : Text \cup {NoText}, index : Nat \cup {-1}, result : 0 .. MaxMade]
  BY MessageListAssumption DEF Init
<1>4. images \in [Url -> {"absent", "fresh", "old"}]
  BY DEF Init
<1> QED BY <1>1, <1>2, <1>3, <1>4, MessageListAssumption DEF Init, TypeOK

\* Every step keeps the types.
LEMMA StepTypes == TypeOK /\ SelectedHasKeys /\ [Next]_vars => TypeOK'
<1> SUFFICES ASSUME TypeOK, SelectedHasKeys, [Next]_vars PROVE TypeOK'
  OBVIOUS
<1> USE DEF pictures
<1>1. ASSUME NEW c \in Content, AddContent(c) PROVE TypeOK'
  <2>1. requests' \in Seq(Request)
    <3>1. PICK at \in Nat : requests' = requests \o Asks(made + 1, c, at)
      BY <1>1, AddContentFacts
    <3>2. Asks(made + 1, c, at) \in Seq(Request)
      BY <1>1, AddContentFacts, AsksFacts
    <3> QED BY <3>1, <3>2 DEF TypeOK
  <2>2. /\ view' \in [offset : Int, height : Nat, available : Nat]
        /\ messages' \in Seq(Message) /\ made' \in 0 .. MaxMade
    BY <1>1, AddContentFacts, MessageListAssumption
  <2> QED BY <1>1, <2>1, <2>2 DEF AddContent, TypeOK
<1>2. ASSUME NEW cs \in Reloads, LoadChannel(cs) PROVE TypeOK'
  <2>1. PICK n : n = Len(cs)
    OBVIOUS
  <2>2. /\ n \in Nat /\ cs \in Seq(Content) /\ made' \in 0 .. MaxMade
        /\ \A i \in 1 .. n : made + i \in 1 .. MaxMade
        /\ view' \in [offset : Int, height : Nat, available : Nat]
        /\ messages' \in Seq(Message)
    BY <1>2, <2>1, LoadChannelFacts
  <2>3. PICK at \in [1 .. n -> Nat] :
          requests' = requests \o FlattenSeq([i \in 1 .. n |-> Asks(made + i, cs[i], at[i])])
    BY <1>2, <2>1, LoadChannelFacts
  <2>4. requests' \in Seq(Request)
    <3>1. PICK ss : ss = [i \in 1 .. n |-> Asks(made + i, cs[i], at[i])]
      OBVIOUS
    <3>2. ASSUME NEW i \in 1 .. n PROVE ss[i] \in Seq(Request)
      <4>1. cs[i] \in Content /\ at[i] \in Nat /\ made + i \in 1 .. MaxMade
        BY <2>1, <2>2
      <4> QED BY <3>1, <4>1, AsksFacts
    <3>3. ss \in Seq(Seq(Request)) /\ Len(ss) = n
      BY <2>2, <3>1, <3>2
    <3>4. FlattenSeq(ss) \in Seq(Request)
      <4>1. PICK t \in [0 .. n -> Seq(Request)] : FlattenSeq(ss) = t[n]
        BY <3>3, FlattenParts
      <4> QED BY <2>2, <4>1
    <3>5. requests \in Seq(Request) /\ requests' = requests \o FlattenSeq(ss)
      BY <2>3, <3>1 DEF TypeOK
    <3> QED BY <3>4, <3>5
  <2>5. receiver' \in {CHAT, SEARCH, NOBODY} \cup 1 .. MaxMade
    BY <1>2 DEF LoadChannel, TypeOK
  <2>6. search' \in [open : BOOLEAN, text : Text \cup {NoText}, next : BOOLEAN,
                     last : Text \cup {NoText}, index : Nat \cup {-1}, result : 0 .. MaxMade]
    <3>1. search' = [search EXCEPT !.index = -1, !.result = 0]
      BY <1>2 DEF LoadChannel
    <3>2. search \in [open : BOOLEAN, text : Text \cup {NoText}, next : BOOLEAN,
                      last : Text \cup {NoText}, index : Nat \cup {-1}, result : 0 .. MaxMade]
      BY DEF TypeOK
    <3>3. 0 \in 0 .. MaxMade
      BY MessageListAssumption
    <3> QED BY <3>1, <3>2, <3>3
  <2>7. failed' \in Seq(Request) /\ moved' \in BOOLEAN
    BY <1>2, EmptySeq DEF LoadChannel
  <2> QED BY <1>2, <2>2, <2>4, <2>5, <2>6, <2>7 DEF LoadChannel, TypeOK
<1>3. ASSUME NEW d \in {-1, 1}, SelectIndex(d) PROVE TypeOK'
  <2>1. receiver' \in {CHAT, SEARCH, NOBODY} \cup 1 .. MaxMade
    <3>1. CASE selected_index + d < 0
      BY <1>3, <3>1 DEF SelectIndex
    <3>2. CASE ~(selected_index + d < 0)
      <4>1. Len(messages) - (selected_index + d) \in 1 .. Len(messages)
        <5>1. selected_index \in -1 .. Len(messages) - 1 /\ Len(messages) \in Nat
          BY DEF SelectedHasKeys, TypeOK
        <5>2. selected_index + d # Len(messages)
          BY <1>3 DEF SelectIndex
        <5> QED BY <3>2, <5>1, <5>2
      <4>2. messages[Len(messages) - (selected_index + d)] \in Message
        BY <4>1 DEF TypeOK
      <4>3. receiver' = messages[Len(messages) - (selected_index + d)].id
        BY <1>3, <3>2 DEF SelectIndex
      <4> QED BY <4>2, <4>3, MessageParts
    <3> QED BY <3>1, <3>2
  <2> QED BY <1>3, <2>1 DEF SelectIndex, TypeOK
<1>4. ASSUME NEW i \in DOMAIN messages, Press(i) PROVE TypeOK'
  <2>1. messages[i] \in Message
    BY DEF TypeOK
  <2>2. receiver' \in 1 .. MaxMade
    BY <1>4, <2>1, MessageParts DEF Press
  <2> QED BY <1>4, <2>2 DEF Press, TypeOK
<1>5. ASSUME NEW i \in DOMAIN messages, NEW num \in DOMAIN messages[i].images,
             OpenImage(i, num)
      PROVE  TypeOK'
  <2>1. messages' \in Seq(Message)
    BY <1>5, OpenImageFacts DEF SameMessages
  <2>2. overlay' \in Seq(Picture)
    <3>1. PICK p \in Picture : overlay' = <<CopyImage(p)>>
      BY <1>5, OpenImageFacts
    <3> QED BY <3>1, CopyImageFacts
  <2> QED BY <1>5, <2>1, <2>2 DEF OpenImage, TypeOK
<1>6. ASSUME ToChat \/ OpenSearch \/ SearchKey PROVE TypeOK'
  <2>1. search' \in [open : BOOLEAN, text : Text \cup {NoText}, next : BOOLEAN,
                     last : Text \cup {NoText}, index : Nat \cup {-1}, result : 0 .. MaxMade]
    BY ZenonT(60), <1>6 DEF ToChat, OpenSearch, SearchKey, TypeOK
  <2>2. receiver' \in {CHAT, SEARCH, NOBODY} \cup 1 .. MaxMade
    BY <1>6 DEF ToChat, OpenSearch, SearchKey, TypeOK
  <2> QED BY <1>6, <2>1, <2>2 DEF ToChat, OpenSearch, SearchKey, TypeOK
<1>7. ASSUME NEW by \in {-1, 1}, ScrollEnd \/ ChangeScroll(by) PROVE TypeOK'
  <2>1. view' \in [offset : Int, height : Nat, available : Nat]
    <3>1. view \in [offset : Int, height : Nat, available : Nat]
      BY DEF TypeOK
    <3>2. End(view) \in Int
      BY <3>1 DEF End
    <3>3. CASE ScrollEnd
      BY <3>1, <3>2, <3>3 DEF ScrollEnd
    <3>4. CASE ChangeScroll(by)
      <4>1. PICK o \in Int : o = view.offset + by
        BY <3>1
      <4>2. PICK e \in Int : e = End(view)
        BY <3>2
      <4>3. view' = [view EXCEPT !.offset = IF o <= 0 THEN 0 ELSE IF o > e THEN e ELSE o]
        BY <3>4, <4>1, <4>2 DEF ChangeScroll
      <4> QED BY <3>1, <4>3
    <3> QED BY <1>7, <3>3, <3>4
  <2> QED BY <1>7, <2>1 DEF ScrollEnd, ChangeScroll, TypeOK
<1>8. ASSUME NEW h \in Heights, Draw(h) PROVE TypeOK'
  <2>1. h \in Nat
    BY MessageListAssumption
  <2>2. messages' \in Seq(Message)
    BY <1>8, <2>1, DrawFacts DEF SameMessages
  <2>3. PICK list \in Seq(Message), v \in [offset : Int, height : Nat, available : Nat] :
          /\ Len(list) = Len(messages)
          /\ \A i \in 1 .. Len(messages) : list[i].id = messages[i].id
          /\ Looked(list, v)
    BY <1>8, <2>1, DrawFacts
  <2>4. /\ view' \in [offset : Int, height : Nat, available : Nat]
        /\ search' \in [open : BOOLEAN, text : Text \cup {NoText}, next : BOOLEAN,
                        last : Text \cup {NoText}, index : Nat \cup {-1},
                        result : 0 .. MaxMade]
        /\ moved' \in BOOLEAN
    <3>1. moved \in BOOLEAN
      BY DEF TypeOK
    <3> QED BY <2>3, <3>1, LookedFacts
  <2> QED BY <1>8, <2>2, <2>4 DEF Draw, TypeOK
<1>9. ASSUME Answer PROVE TypeOK'
  <2>1. Head(requests) \in Request /\ Tail(requests) \in Seq(Request)
    BY <1>9, HeadTailProperties DEF Answer, TypeOK
  <2>2. requests' \in Seq(Request) /\ failed' \in Seq(Request) /\ tasks' \in Seq(Request)
    <3>1. failed \in Seq(Request) /\ tasks \in Seq(Request) /\ requests' = Tail(requests)
      BY <1>9 DEF Answer, TypeOK
    <3>2. \/ failed' = Append(failed, Head(requests)) /\ tasks' = tasks
          \/ failed' = failed /\ tasks' = Append(tasks, Head(requests))
      BY <1>9 DEF Answer
    <3>3. PICK r \in Request : r = Head(requests)
      BY <2>1
    <3>4. Append(failed, r) \in Seq(Request) /\ Append(tasks, r) \in Seq(Request)
      BY <3>1
    <3>5. failed' \in Seq(Request)
      BY <3>1, <3>2, <3>3, <3>4
    <3>6. tasks' \in Seq(Request)
      BY <3>1, <3>2, <3>3, <3>4
    <3> QED BY <2>1, <3>1, <3>5, <3>6
  <2>3. images' \in [Url -> {"absent", "fresh", "old"}]
    BY <1>9, <2>1 DEF Answer, TypeOK, Request
  <2> QED BY <1>9, <2>2, <2>3 DEF Answer, TypeOK
<1>10. ASSUME RunTask PROVE TypeOK'
  <2>1. messages' \in Seq(Message)
    BY <1>10, RunTaskFacts
  <2>2. tasks' \in Seq(Request)
    BY <1>10, HeadTailProperties DEF RunTask, TypeOK
  <2> QED BY <1>10, <2>1, <2>2 DEF RunTask, TypeOK
<1>11. ASSUME RunTaskOfFreed PROVE TypeOK'
  <2>1. tasks' \in Seq(Request)
    BY <1>11, HeadTailProperties DEF RunTaskOfFreed, TypeOK
  <2> QED BY <1>11, <2>1 DEF RunTaskOfFreed, TypeOK
<1>12. ASSUME NEW u \in Url, Age(u) PROVE TypeOK'
  <2>1. images' \in [Url -> {"absent", "fresh", "old"}]
    BY <1>12 DEF Age, TypeOK
  <2> QED BY <1>12, <2>1 DEF Age, TypeOK
<1>13. ASSUME AnswerMeetsRead \/ UNCHANGED vars PROVE TypeOK'
  BY <1>13 DEF AnswerMeetsRead, vars, TypeOK
<1> QED BY <1>1, <1>2, <1>3, <1>4, <1>5, <1>6, <1>7, <1>8, <1>9, <1>10, <1>11, <1>12, <1>13
        DEF Next
-----------------------------------------------------------------------------
(* The keys                                                                 *)

\* With the list and the selection as they were, so is who has the keys.
LEMMA KeysKept ==
  ASSUME TypeOK, SelectedHasKeys, ResultPlaced, Len(messages') = Len(messages),
         messages' \in Seq(Message),
         \A i \in 1 .. Len(messages) : messages'[i].id = messages[i].id,
         selected_index' = selected_index, receiver' = receiver \/ receiver' <= 0,
         moved' = moved, receiver' \in Int,
         search'.index = search.index, search'.result = search.result
  PROVE  SelectedHasKeys' /\ ResultPlaced'
<1>1. /\ selected_index \in -1 .. Len(messages) - 1 /\ Len(messages) \in Nat
      /\ DOMAIN messages = 1 .. Len(messages) /\ DOMAIN messages' = 1 .. Len(messages)
  BY DEF TypeOK, SelectedHasKeys
<1>2. ASSUME receiver' > 0
      PROVE  /\ \E i \in DOMAIN messages' : messages'[i].id = receiver'
             /\ ~moved' => selected_index' >= 0 /\ Selected'.id = receiver'
  <2>1. receiver' = receiver /\ receiver > 0
    BY <1>2
  <2>2. PICK i \in 1 .. Len(messages) : messages[i].id = receiver
    BY <1>1, <2>1 DEF SelectedHasKeys
  <2>3. ASSUME ~moved' PROVE selected_index' >= 0 /\ Selected'.id = receiver'
    <3>1. selected_index >= 0 /\ messages[Len(messages) - selected_index].id = receiver
      BY <2>1, <2>3 DEF SelectedHasKeys, Selected
    <3>2. Len(messages) - selected_index \in 1 .. Len(messages)
      BY <1>1, <3>1
    <3> QED BY <2>1, <3>1, <3>2 DEF Selected
  <2> QED BY <1>1, <2>1, <2>2, <2>3
<1>3. ASSUME search'.result > 0
      PROVE  /\ search'.index < Len(messages') /\ search'.index >= 0
             /\ messages'[search'.index + 1].id = search'.result
  <2>1. /\ search.index < Len(messages) /\ search.index >= 0 /\ search.index \in Int
        /\ messages[search.index + 1].id = search.result
    BY <1>3 DEF TypeOK, SelectedHasKeys, ResultPlaced
  <2>2. search.index + 1 \in 1 .. Len(messages)
    BY <1>1, <2>1
  <2> QED BY <2>1, <2>2
<1> QED BY <1>1, <1>2, <1>3 DEF SelectedHasKeys, ResultPlaced

\* Every step keeps the keys with the selected message.
LEMMA StepKeys ==
  TypeOK /\ TypeOK' /\ SelectedHasKeys /\ ResultPlaced /\ [Next]_vars
    => SelectedHasKeys' /\ ResultPlaced'
<1> SUFFICES ASSUME TypeOK, TypeOK', SelectedHasKeys, ResultPlaced, [Next]_vars
             PROVE  SelectedHasKeys' /\ ResultPlaced'
  OBVIOUS
<1> USE DEF pictures
<1>a. /\ selected_index \in -1 .. Len(messages) - 1 /\ Len(messages) \in Nat
      /\ DOMAIN messages = 1 .. Len(messages) /\ messages \in Seq(Message)
      /\ messages' \in Seq(Message) /\ receiver' \in Int
  <2>1. messages \in Seq(Message) /\ messages' \in Seq(Message)
    BY DEF TypeOK
  <2>2. selected_index \in -1 .. Len(messages) - 1
    BY DEF SelectedHasKeys
  <2>3. receiver' \in Int
    <3>1. receiver' \in {CHAT, SEARCH, NOBODY} \cup 1 .. MaxMade
      BY DEF TypeOK
    <3> QED BY <3>1 DEF CHAT, SEARCH, NOBODY
  <2> QED BY <2>1, <2>2, <2>3
<1>1. ASSUME NEW c \in Content, AddContent(c) PROVE SelectedHasKeys' /\ ResultPlaced'
  <2>1. /\ Len(messages') = Len(messages) + 1 /\ DOMAIN messages' = 1 .. Len(messages')
        /\ \A i \in 1 .. Len(messages) : messages'[i].id = messages[i].id
    BY <1>a, <1>1, AddContentFacts DEF SameMessage
  <2>2. /\ selected_index' = IF selected_index = -1 THEN -1 ELSE selected_index + 1
        /\ receiver' = receiver /\ search' = search /\ moved' = moved
    BY <1>1 DEF AddContent
  <2>3. selected_index' \in -1 .. Len(messages') - 1
    BY <1>a, <2>1, <2>2
  <2>4. ASSUME receiver' > 0
        PROVE  /\ \E i \in DOMAIN messages' : messages'[i].id = receiver'
               /\ ~moved' => selected_index' >= 0 /\ Selected'.id = receiver'
    <3>1. PICK i \in 1 .. Len(messages) : messages[i].id = receiver
      BY <1>a, <2>2, <2>4 DEF SelectedHasKeys
    <3>2. i \in DOMAIN messages' /\ messages'[i].id = receiver'
      BY <1>a, <2>1, <2>2, <3>1
    <3>3. ASSUME ~moved' PROVE selected_index' >= 0 /\ Selected'.id = receiver'
      <4>1. selected_index >= 0 /\ messages[Len(messages) - selected_index].id = receiver
        BY <2>2, <2>4, <3>3 DEF SelectedHasKeys, Selected
      <4>2. /\ Len(messages) - selected_index \in 1 .. Len(messages)
            /\ selected_index' = selected_index + 1 /\ selected_index' >= 0
            /\ Len(messages') - selected_index' = Len(messages) - selected_index
        BY <1>a, <2>1, <2>2, <4>1
      <4> QED BY <2>1, <2>2, <4>1, <4>2 DEF Selected
    <3> QED BY <3>2, <3>3
  <2>5. ASSUME search'.result > 0
        PROVE  /\ search'.index < Len(messages') /\ search'.index >= 0
               /\ messages'[search'.index + 1].id = search'.result
    <3>1. /\ search.index < Len(messages) /\ search.index >= 0 /\ search.index \in Int
          /\ messages[search.index + 1].id = search.result
      BY <2>2, <2>5 DEF TypeOK, SelectedHasKeys, ResultPlaced
    <3>2. search.index + 1 \in 1 .. Len(messages)
      BY <1>a, <3>1
    <3> QED BY <1>a, <2>1, <2>2, <3>1, <3>2
  <2> QED BY <2>3, <2>4, <2>5 DEF SelectedHasKeys, ResultPlaced
<1>2. ASSUME NEW cs \in Reloads, LoadChannel(cs) PROVE SelectedHasKeys' /\ ResultPlaced'
  <2>1. selected_index' = -1 /\ Len(messages') \in Nat
    BY <1>2, <1>a DEF LoadChannel
  <2>2. ~(receiver' > 0)
    <3>1. receiver' = (IF receiver > 0 THEN NOBODY ELSE receiver) \/ receiver' = CHAT
      BY <1>2 DEF LoadChannel
    <3>2. ~(NOBODY > 0) /\ ~(CHAT > 0)
      BY DEF NOBODY, CHAT
    <3> QED BY <3>1, <3>2
  <2>3. ~(search'.result > 0)
    BY <1>2 DEF LoadChannel, TypeOK
  <2> QED BY <2>1, <2>2, <2>3 DEF SelectedHasKeys, ResultPlaced
<1>3. ASSUME NEW d \in {-1, 1}, SelectIndex(d) PROVE SelectedHasKeys' /\ ResultPlaced'
  <2>1. PICK target \in Int : target = selected_index + d
    BY <1>a
  <2>2. /\ target # -2 /\ target # Len(messages) /\ selected_index' = target
        /\ receiver' = IF target < 0 THEN CHAT ELSE messages[Len(messages) - target].id
        /\ messages' = messages /\ search' = search
    BY <1>3, <2>1 DEF SelectIndex
  <2>3. target \in -1 .. Len(messages) - 1
    <3>1. /\ target # -2 /\ target # Len(messages) /\ Len(messages) \in Nat
          /\ selected_index \in Int /\ selected_index >= -1
          /\ selected_index <= Len(messages) - 1
      <4>1. target # -2 /\ target # Len(messages)
        BY <2>2
      <4>2. Len(messages) \in Nat
        BY <1>a
      <4>3. /\ selected_index \in Int /\ selected_index >= -1
            /\ selected_index <= Len(messages) - 1
        BY <1>a
      <4> QED BY <4>1, <4>2, <4>3
    <3>2. PICK l \in Nat : l = Len(messages)
      BY <3>1
    <3>3. target >= -1 /\ target <= l - 1
      BY <2>1, <3>1, <3>2
    <3> QED BY <3>2, <3>3
  <2>4. ASSUME receiver' > 0
        PROVE  /\ \E i \in DOMAIN messages' : messages'[i].id = receiver'
               /\ selected_index' >= 0 /\ Selected'.id = receiver'
    <3>1. target >= 0
      BY <2>2, <2>4, <2>3 DEF CHAT
    <3>2. Len(messages) - target \in DOMAIN messages
      BY <1>a, <2>3, <3>1
    <3> QED BY <2>2, <2>3, <3>1, <3>2 DEF Selected
  <2> QED BY <2>2, <2>3, <2>4 DEF SelectedHasKeys, ResultPlaced
<1>4. ASSUME NEW i \in DOMAIN messages, Press(i) PROVE SelectedHasKeys' /\ ResultPlaced'
  <2>1. /\ selected_index' = Len(messages) - i /\ receiver' = messages[i].id
        /\ messages' = messages /\ search' = search
    BY <1>4 DEF Press
  <2>2. /\ selected_index' \in 0 .. Len(messages) - 1
        /\ Len(messages') - selected_index' = i
    BY <1>a, <2>1
  <2> QED BY <1>a, <2>1, <2>2 DEF SelectedHasKeys, ResultPlaced, Selected
<1>5. ASSUME NEW i \in DOMAIN messages, NEW num \in DOMAIN messages[i].images,
             OpenImage(i, num)
      PROVE  SelectedHasKeys' /\ ResultPlaced'
  <2>1. /\ Len(messages') = Len(messages)
        /\ \A j \in 1 .. Len(messages) : messages'[j].id = messages[j].id
    BY <1>5, OpenImageFacts DEF SameMessages, SameMessage
  <2>2. /\ selected_index' = selected_index /\ receiver' = receiver
        /\ moved' = moved /\ search' = search
    BY <1>5 DEF OpenImage
  <2> QED BY <1>a, <2>1, <2>2, KeysKept
<1>6. ASSUME ToChat \/ OpenSearch \/ SearchKey PROVE SelectedHasKeys' /\ ResultPlaced'
  <2>1. /\ messages' = messages /\ selected_index' = selected_index /\ moved' = moved
        /\ receiver' = receiver \/ receiver' <= 0
    BY <1>6 DEF ToChat, OpenSearch, SearchKey, CHAT, SEARCH
  <2>2. search'.index = search.index /\ search'.result = search.result
    BY <1>6 DEF ToChat, OpenSearch, SearchKey, TypeOK
  <2> QED BY <1>a, <2>1, <2>2, KeysKept
<1>7. ASSUME NEW h \in Heights, Draw(h) PROVE SelectedHasKeys' /\ ResultPlaced'
  <2>1. h \in Nat
    BY MessageListAssumption
  <2>2. /\ Len(messages') = Len(messages) /\ DOMAIN messages' = 1 .. Len(messages)
        /\ \A j \in 1 .. Len(messages) : messages'[j].id = messages[j].id
    BY <1>a, <1>7, <2>1, DrawFacts DEF SameMessages, SameMessage
  <2>3. receiver' = receiver
    BY <1>7 DEF Draw
  <2>4. PICK list \in Seq(Message), v \in [offset : Int, height : Nat, available : Nat] :
          /\ Len(list) = Len(messages)
          /\ \A i \in 1 .. Len(messages) : list[i].id = messages[i].id
          /\ Looked(list, v)
    BY <1>7, <2>1, DrawFacts
  <2>5. \/ /\ search'.index = search.index /\ search'.result = search.result
           /\ selected_index' = selected_index /\ moved' = moved
        \/ /\ search'.index = -1 /\ search'.result = 0
           /\ selected_index' = selected_index /\ moved' = moved
        \/ \E at \in 1 .. Len(messages) :
             /\ search'.index = at - 1 /\ search'.result = messages[at].id
             /\ selected_index' = Len(messages) - at /\ moved' = TRUE
    BY <2>4, LookedFacts
  <2>6. CASE /\ search'.index = search.index /\ search'.result = search.result
             /\ selected_index' = selected_index /\ moved' = moved
    BY <1>a, <2>2, <2>3, <2>6, KeysKept
  <2>7. CASE /\ search'.index = -1 /\ search'.result = 0
             /\ selected_index' = selected_index /\ moved' = moved
    <3>1. ASSUME receiver' > 0
          PROVE  /\ \E i \in DOMAIN messages' : messages'[i].id = receiver'
                 /\ ~moved' => selected_index' >= 0 /\ Selected'.id = receiver'
      <4>1. PICK i \in 1 .. Len(messages) : messages[i].id = receiver
        BY <1>a, <2>3, <3>1 DEF SelectedHasKeys
      <4>2. ASSUME ~moved' PROVE selected_index' >= 0 /\ Selected'.id = receiver'
        <5>1. selected_index >= 0 /\ messages[Len(messages) - selected_index].id = receiver
          BY <2>3, <2>7, <3>1, <4>2 DEF SelectedHasKeys, Selected
        <5>2. Len(messages) - selected_index \in 1 .. Len(messages)
          BY <1>a, <5>1
        <5> QED BY <2>2, <2>3, <2>7, <5>1, <5>2 DEF Selected
      <4> QED BY <2>2, <2>3, <4>1, <4>2
    <3>2. selected_index' \in -1 .. Len(messages') - 1 /\ ~(search'.result > 0)
      BY <1>a, <2>2, <2>7
    <3> QED BY <3>1, <3>2 DEF SelectedHasKeys, ResultPlaced
  <2>8. ASSUME NEW at \in 1 .. Len(messages),
               /\ search'.index = at - 1 /\ search'.result = messages[at].id
               /\ selected_index' = Len(messages) - at /\ moved' = TRUE
        PROVE  SelectedHasKeys' /\ ResultPlaced'
    <3>1. selected_index' \in -1 .. Len(messages') - 1
      BY <1>a, <2>2, <2>8
    <3>2. receiver' > 0 => \E i \in DOMAIN messages' : messages'[i].id = receiver'
      BY <1>a, <2>2, <2>3 DEF SelectedHasKeys
    <3>3. /\ search'.index < Len(messages') /\ search'.index >= 0
          /\ messages'[search'.index + 1].id = search'.result
      BY <1>a, <2>2, <2>8
    <3> QED BY <2>8, <3>1, <3>2, <3>3 DEF SelectedHasKeys, ResultPlaced
  <2> QED BY <2>5, <2>6, <2>7, <2>8
<1>8. ASSUME RunTask PROVE SelectedHasKeys' /\ ResultPlaced'
  <2>1. /\ Len(messages') = Len(messages)
        /\ \A j \in 1 .. Len(messages) : messages'[j].id = messages[j].id
    BY <1>8, RunTaskFacts
  <2>2. /\ selected_index' = selected_index /\ receiver' = receiver
        /\ moved' = moved /\ search' = search
    BY <1>8 DEF RunTask
  <2> QED BY <1>a, <2>1, <2>2, KeysKept
<1>9. ASSUME NEW by \in {-1, 1}, ScrollEnd \/ ChangeScroll(by)
      PROVE  SelectedHasKeys' /\ ResultPlaced'
  <2>1. UNCHANGED <<messages, selected_index, receiver, moved, search>>
    BY <1>9 DEF ScrollEnd, ChangeScroll
  <2> QED BY <1>a, <2>1, KeysKept
<1>10. ASSUME Answer \/ (\E u \in Url : Age(u)) \/ RunTaskOfFreed \/ AnswerMeetsRead
                \/ UNCHANGED vars
       PROVE  SelectedHasKeys' /\ ResultPlaced'
  <2>1. UNCHANGED <<messages, selected_index, receiver, moved, search>>
    BY <1>10 DEF Answer, Age, RunTaskOfFreed, AnswerMeetsRead, vars
  <2> QED BY <1>a, <2>1, KeysKept
<1> QED BY <1>1, <1>2, <1>3, <1>4, <1>5, <1>6, <1>7, <1>8, <1>9, <1>10 DEF Next
-----------------------------------------------------------------------------
(* The view                                                                 *)

\* A view at the end that gets another height is at the end of that one.
LEMMA ViewForFollows ==
  ASSUME NEW v \in [offset : Int, height : Nat, available : Nat], NEW h \in Nat,
         v.offset = End(v), v.offset >= 0, v.offset = 0 => h <= v.available
  PROVE  /\ ViewFor(v, h).offset >= 0
         /\ IF End(ViewFor(v, h)) < 0 THEN ViewFor(v, h).offset <= 0
            ELSE ViewFor(v, h).offset = End(ViewFor(v, h))
<1>1. PICK w : w = ViewFor(v, h)
  OBVIOUS
<1>2. /\ w.height = h /\ w.available = v.available /\ v.available \in Nat /\ v.height \in Nat
      /\ v.offset \in Int
      /\ w.offset = IF h < v.available THEN 0
                    ELSE IF v.offset = v.height - v.available /\ v.offset # 0
                    THEN h - v.available ELSE v.offset
  BY <1>1, ViewForFacts
<1>3. End(w) = h - v.available /\ v.offset = v.height - v.available
  BY <1>2 DEF End
<1>4. CASE h < v.available
  BY <1>1, <1>2, <1>3, <1>4
<1>5. CASE ~(h < v.available)
  BY <1>1, <1>2, <1>3, <1>5
<1> QED BY <1>4, <1>5

Follows ==
  (/\ view.offset = End(view) /\ view.offset > 0
   /\ view'.height # view.height /\ view'.available = view.available
   /\ search' = search)
   => IF End(view') < 0 THEN view'.offset <= 0 ELSE view'.offset = End(view')

\* Every step lets a view at the end follow.
LEMMA StepFollows == TypeOK /\ [Next]_vars => Follows
<1> SUFFICES ASSUME TypeOK, [Next]_vars, view.offset = End(view), view.offset > 0,
                    view'.height # view.height, view'.available = view.available,
                    search' = search
             PROVE  IF End(view') < 0 THEN view'.offset <= 0 ELSE view'.offset = End(view')
  BY DEF Follows
<1>a. view \in [offset : Int, height : Nat, available : Nat] /\ view.offset # 0
      /\ view.offset >= 0
  BY DEF TypeOK
<1>1. ASSUME NEW c \in Content, AddContent(c)
      PROVE  IF End(view') < 0 THEN view'.offset <= 0 ELSE view'.offset = End(view')
  <2>1. PICK h \in Nat : view' = ViewFor(view, h)
    BY <1>1, AddContentFacts
  <2> QED BY <1>a, <2>1, ViewForFollows
<1>2. ASSUME NEW cs \in Reloads, LoadChannel(cs)
      PROVE  IF End(view') < 0 THEN view'.offset <= 0 ELSE view'.offset = End(view')
  <2>1. PICK w : w = view'
    OBVIOUS
  <2>2. w.offset = End(w) /\ w \in [offset : Int, height : Nat, available : Nat]
    BY <1>2, <2>1, LoadChannelFacts
  <2>3. w.offset \in Int
    BY <2>2
  <2>4. IF End(w) < 0 THEN w.offset <= 0 ELSE w.offset = End(w)
    BY <2>2, <2>3
  <2> QED BY <2>1, <2>4
<1>3. ASSUME NEW h \in Heights, Draw(h)
      PROVE  IF End(view') < 0 THEN view'.offset <= 0 ELSE view'.offset = End(view')
  <2>1. h \in Nat
    BY MessageListAssumption
  <2>2. PICK list \in Seq(Message), v \in [offset : Int, height : Nat, available : Nat] :
          /\ Len(list) = Len(messages)
          /\ \A i \in 1 .. Len(messages) : list[i].id = messages[i].id
          /\ v = ViewFor([ViewFor(view, v.height) EXCEPT !.available = h], v.height)
          /\ Looked(list, v)
    BY <1>3, <2>1, DrawFacts
  <2>3. view' = v
    BY <2>2, LookedFacts
  <2>4. PICK w : w = ViewFor(view, v.height)
    OBVIOUS
  <2>5. /\ w \in [offset : Int, height : Nat, available : Nat]
        /\ w.height = v.height /\ w.available = view.available
    BY <1>a, <2>2, <2>4, ViewForFacts
  <2>6. w.offset >= 0 /\ IF End(w) < 0 THEN w.offset <= 0 ELSE w.offset = End(w)
    BY <1>a, <2>2, <2>4, ViewForFollows
  <2>7. PICK x : x = [w EXCEPT !.available = h]
    OBVIOUS
  <2>8. v = ViewFor(x, v.height) /\ x \in [offset : Int, height : Nat, available : Nat]
        /\ x.available = h /\ x.offset = w.offset /\ x.height = w.height
    BY <2>1, <2>2, <2>4, <2>5, <2>7
  <2>9. v.available = h
    BY <2>2, <2>8, ViewForFacts
  <2>10. h = view.available /\ x = w
    BY <1>a, <2>3, <2>5, <2>7, <2>9
  <2>11. v = ViewFor(w, v.height) /\ v.height \in Nat /\ v.offset \in Int
    BY <2>2, <2>8, <2>10
  <2>12. CASE End(w) < 0
    <3>1. w.height < w.available /\ w.height \in Nat /\ w.available \in Nat
      BY <2>5, <2>12 DEF End
    <3>2. v.offset = 0
      <4>1. v.height < w.available
        BY <2>5, <3>1
      <4>2. v.height < w.available => ViewFor(w, v.height).offset = 0
        BY <2>5, <2>11, ViewForFacts
      <4> QED BY <2>11, <4>1, <4>2
    <3>3. End(v) < 0
      BY <2>5, <2>9, <2>10, <3>1 DEF End
    <3> QED BY <2>3, <3>2, <3>3
  <2>13. CASE ~(End(w) < 0)
    <3>1. w.offset = End(w) /\ w.offset >= 0 /\ (w.offset = 0 => v.height <= w.available)
      BY <2>5, <2>6, <2>13 DEF End
    <3> QED BY <2>3, <2>5, <2>11, <3>1, ViewForFollows
  <2> QED BY <2>12, <2>13
<1>4. ASSUME NEW by \in {-1, 1}, ScrollEnd \/ ChangeScroll(by) PROVE FALSE
  <2>1. view'.height = view.height
    BY <1>4, <1>a DEF ScrollEnd, ChangeScroll
  <2> QED BY <2>1
<1>5. ASSUME NEW d \in {-1, 1}, SelectIndex(d) PROVE FALSE
  BY <1>5 DEF SelectIndex
<1>6. ASSUME NEW i \in DOMAIN messages,
             Press(i) \/ \E num \in DOMAIN messages[i].images : OpenImage(i, num)
      PROVE  FALSE
  BY <1>6 DEF Press, OpenImage
<1>7. ASSUME ToChat \/ OpenSearch \/ SearchKey \/ Answer \/ RunTask \/ (\E u \in Url : Age(u))
      PROVE  FALSE
  BY <1>7 DEF ToChat, OpenSearch, SearchKey, Answer, RunTask, Age
<1>8. ASSUME RunTaskOfFreed \/ AnswerMeetsRead \/ UNCHANGED vars PROVE FALSE
  BY <1>8 DEF RunTaskOfFreed, AnswerMeetsRead, vars
<1> QED BY <1>1, <1>2, <1>3, <1>4, <1>5, <1>6, <1>7, <1>8 DEF Next
-----------------------------------------------------------------------------
(* Whom a request is for                                                    *)

\* The members of a sequence after it grew or lost its first.
LEMMA MembersFacts ==
  ASSUME NEW V, NEW s \in Seq(V), NEW t \in Seq(V)
  PROVE  /\ ToSet(s) \subseteq V
         /\ ToSet(s \o t) = ToSet(s) \cup ToSet(t)
         /\ \A x \in V : ToSet(Append(s, x)) = ToSet(s) \cup {x}
         /\ s # <<>> => ToSet(s) = {Head(s)} \cup ToSet(Tail(s))
<1>1. ASSUME NEW r \in Seq(V)
      PROVE  ToSet(r) = {r[i] : i \in 1 .. Len(r)} /\ Len(r) \in Nat
  BY DEF ToSet
<1>2. ToSet(s) \subseteq V
  BY <1>1
<1>3. ASSUME NEW a \in Seq(V), NEW b \in Seq(V)
      PROVE  ToSet(a \o b) = ToSet(a) \cup ToSet(b)
  <2>1. /\ a \o b \in Seq(V) /\ Len(a \o b) = Len(a) + Len(b)
        /\ Len(a) \in Nat /\ Len(b) \in Nat
        /\ \A k \in 1 .. Len(a) : (a \o b)[k] = a[k]
        /\ \A k \in 1 .. Len(b) : (a \o b)[Len(a) + k] = b[k]
        /\ \A k \in Len(a) + 1 .. Len(a) + Len(b) : (a \o b)[k] = b[k - Len(a)]
    OBVIOUS
  <2>2. ASSUME NEW y \in ToSet(a \o b) PROVE y \in ToSet(a) \cup ToSet(b)
    <3>1. PICK k \in 1 .. Len(a) + Len(b) : y = (a \o b)[k]
      <4>1. PICK c \in Seq(V) : c = a \o b
        BY <2>1
      <4>2. PICK k \in 1 .. Len(c) : y = c[k]
        BY <1>1, <2>2, <4>1
      <4> QED BY <2>1, <4>1, <4>2
    <3>2. CASE k <= Len(a)
      BY <1>1, <2>1, <3>1, <3>2
    <3>3. CASE ~(k <= Len(a))
      <4>1. k - Len(a) \in 1 .. Len(b) /\ y = b[k - Len(a)]
        BY <2>1, <3>1, <3>3
      <4> QED BY <1>1, <4>1
    <3> QED BY <3>2, <3>3
  <2>3. ASSUME NEW y \in ToSet(a) PROVE y \in ToSet(a \o b)
    <3>1. PICK k \in 1 .. Len(a) : y = a[k]
      BY <1>1
    <3>2. k \in 1 .. Len(a) + Len(b) /\ y = (a \o b)[k]
      BY <2>1, <3>1
    <3> QED BY <1>1, <2>1, <3>2
  <2>4. ASSUME NEW y \in ToSet(b) PROVE y \in ToSet(a \o b)
    <3>1. PICK k \in 1 .. Len(b) : y = b[k]
      BY <1>1
    <3>2. Len(a) + k \in 1 .. Len(a) + Len(b) /\ y = (a \o b)[Len(a) + k]
      BY <2>1, <3>1
    <3> QED BY <1>1, <2>1, <3>2
  <2> QED BY <2>2, <2>3, <2>4
<1>4. ASSUME NEW y \in V PROVE ToSet(<<y>>) = {y} /\ <<y>> \in Seq(V)
  BY DEF ToSet
<1>5. ASSUME NEW x \in V PROVE ToSet(Append(s, x)) = ToSet(s) \cup {x}
  <2>1. Append(s, x) = s \o <<x>>
    OBVIOUS
  <2> QED BY <1>3, <1>4, <2>1
<1>6. ASSUME s # <<>> PROVE ToSet(s) = {Head(s)} \cup ToSet(Tail(s))
  <2>1. s = <<Head(s)>> \o Tail(s) /\ Head(s) \in V /\ Tail(s) \in Seq(V)
    BY <1>6, HeadTailProperties
  <2>2. PICK h \in V, r \in Seq(V) : h = Head(s) /\ r = Tail(s)
    BY <2>1
  <2>3. PICK o \in Seq(V) : o = <<h>> /\ ToSet(o) = {h}
    BY <1>4
  <2>4. ToSet(o \o r) = {h} \cup ToSet(r)
    BY <1>3, <2>3
  <2> QED BY <2>1, <2>2, <2>3, <2>4
<1> QED BY <1>2, <1>3, <1>5, <1>6

\* What FlattenSeq gives is in one of the sequences, ...
LEMMA FlattenMembers ==
  ASSUME NEW S, NEW ss \in Seq(Seq(S)), NEW x \in ToSet(FlattenSeq(ss))
  PROVE  \E j \in 1 .. Len(ss) : x \in ToSet(ss[j])
<1>1. PICK n \in Nat : n = Len(ss)
  OBVIOUS
<1>2. PICK t \in [0 .. n -> Seq(S)] :
        /\ t[0] = <<>> /\ FlattenSeq(ss) = t[n]
        /\ \A i \in 1 .. n : t[i] = t[i - 1] \o ss[i]
  BY <1>1, FlattenParts
<1> DEFINE In == {y : y \in UNION {ToSet(ss[j]) : j \in 1 .. n}}
           P == {i \in 0 .. n : ToSet(t[i]) \subseteq In}
<1>3. 0 \in P
  BY <1>1, <1>2 DEF ToSet
<1>4. ASSUME NEW i \in 1 .. n, i - 1 \in P PROVE i \in P
  <2>1. i \in 0 .. n /\ t[i - 1] \in Seq(S) /\ ss[i] \in Seq(S) /\ t[i] = t[i - 1] \o ss[i]
    <3>1. i \in 0 .. n /\ i - 1 \in 0 .. n /\ i \in 1 .. Len(ss)
      BY <1>1
    <3>2. t[i - 1] \in Seq(S) /\ ss[i] \in Seq(S)
      BY <3>1
    <3> QED BY <1>2, <3>1, <3>2
  <2>2. ToSet(t[i]) = ToSet(t[i - 1]) \cup ToSet(ss[i])
    BY <2>1, MembersFacts
  <2>3. ToSet(ss[i]) \subseteq In
    OBVIOUS
  <2> HIDE DEF In
  <2> QED BY <1>4, <2>1, <2>2, <2>3
<1> HIDE DEF P
<1>5. n \in P
  <2>1. \A i \in 0 .. n : i \in P
    BY <1>1, <1>3, <1>4, InductionUpTo
  <2> QED BY <2>1
<1>6. x \in In
  BY <1>2, <1>5 DEF P
<1> QED BY <1>1, <1>6

\* ... and when only one of them has members of a set, it has as many.
LEMMA FlattenCount ==
  ASSUME NEW S, NEW ss \in Seq(Seq(S)), NEW T, NEW j \in 1 .. Len(ss),
         \A i \in 1 .. Len(ss) : i # j => Count(ss[i], T) = 0
  PROVE  Count(FlattenSeq(ss), T) = Count(ss[j], T)
<1>1. PICK n \in Nat : n = Len(ss)
  OBVIOUS
<1>2. PICK t \in [0 .. n -> Seq(S)] :
        /\ t[0] = <<>> /\ FlattenSeq(ss) = t[n]
        /\ \A i \in 1 .. n : t[i] = t[i - 1] \o ss[i]
  BY <1>1, FlattenParts
<1>3. PICK c : c = Count(ss[j], T)
  OBVIOUS
<1>4. c \in Nat
  <2>1. ss[j] \in Seq(S)
    OBVIOUS
  <2> QED BY <1>3, <2>1, CountFacts
<1> DEFINE P == {i \in 0 .. n : Count(t[i], T) = IF i < j THEN 0 ELSE c}
<1>5. 0 \in P
  <2>1. {k \in DOMAIN <<>> : <<>>[k] \in T} = {}
    OBVIOUS
  <2>2. Count(<<>>, T) = 0
    BY <2>1, FS_EmptySet DEF Count
  <2> QED BY <1>1, <1>2, <2>2
<1>6. ASSUME NEW i \in 1 .. n, i - 1 \in P PROVE i \in P
  <2>1. /\ i \in 0 .. n /\ t[i - 1] \in Seq(S) /\ ss[i] \in Seq(S)
        /\ t[i] = t[i - 1] \o ss[i] /\ j \in Nat
    <3>1. i \in 0 .. n /\ i - 1 \in 0 .. n /\ i \in 1 .. Len(ss)
      BY <1>1
    <3>2. t[i - 1] \in Seq(S) /\ ss[i] \in Seq(S)
      BY <3>1
    <3>3. j \in Nat
      BY <1>1
    <3> QED BY <1>2, <3>1, <3>2, <3>3
  <2>2. Count(t[i], T) = Count(t[i - 1], T) + Count(ss[i], T)
    BY <2>1, CountConcat
  <2>3. Count(t[i - 1], T) = IF i - 1 < j THEN 0 ELSE c
    BY <1>6
  <2>4. Count(ss[i], T) = IF i = j THEN c ELSE 0
    BY <1>1, <1>3
  <2>5. Count(t[i], T) = IF i < j THEN 0 ELSE c
    BY <1>4, <2>1, <2>2, <2>3, <2>4
  <2> QED BY <2>1, <2>5
<1> HIDE DEF P
<1>7. n \in P
  <2>1. \A i \in 0 .. n : i \in P
    BY <1>1, <1>5, <1>6, InductionUpTo
  <2> QED BY <2>1
<1> QED BY <1>1, <1>2, <1>3, <1>7 DEF P

\* The members of three sequences in a row.
LEMMA ThreeSets ==
  ASSUME NEW V, NEW a \in Seq(V), NEW b \in Seq(V), NEW c \in Seq(V)
  PROVE  /\ ToSet(a \o b) = ToSet(a) \cup ToSet(b)
         /\ ToSet(a \o b \o c) = ToSet(a) \cup ToSet(b) \cup ToSet(c)
         /\ ToSet(a) \cup ToSet(b) \cup ToSet(c) \subseteq V
<1>1. PICK d \in Seq(V) : d = a \o b
  <2>1. a \o b \in Seq(V)
    OBVIOUS
  <2> QED BY <2>1
<1>2. ToSet(d) = ToSet(a) \cup ToSet(b)
  BY <1>1, MembersFacts
<1>3. ToSet(d \o c) = ToSet(d) \cup ToSet(c)
  BY MembersFacts
<1>4. ToSet(a) \subseteq V /\ ToSet(b) \subseteq V /\ ToSet(c) \subseteq V
  BY MembersFacts
<1> QED BY <1>1, <1>2, <1>3, <1>4

\* With the list as it was and no new request, so is all that Alone, Known and
\* Addressed say.
LEMMA OwnersKept ==
  ASSUME TypeOK, TypeOK', Alone, Known, Addressed, Len(messages') = Len(messages),
         \A i \in 1 .. Len(messages) :
           messages'[i].id = messages[i].id /\ messages'[i].at = messages[i].at,
         made' = made,
         ToSet(requests') \cup ToSet(tasks') \subseteq ToSet(requests) \cup ToSet(tasks),
         ToSet(failed') \subseteq ToSet(requests) \cup ToSet(tasks) \cup ToSet(failed)
  PROVE  Alone' /\ Known' /\ Addressed'
<1>1. /\ requests \in Seq(Request) /\ tasks \in Seq(Request) /\ failed \in Seq(Request)
      /\ requests' \in Seq(Request) /\ tasks' \in Seq(Request) /\ failed' \in Seq(Request)
      /\ DOMAIN messages = 1 .. Len(messages) /\ DOMAIN messages' = 1 .. Len(messages)
  BY DEF TypeOK
<1>2. /\ ToSet(requests \o tasks) = ToSet(requests) \cup ToSet(tasks)
      /\ ToSet(requests \o tasks \o failed)
           = ToSet(requests) \cup ToSet(tasks) \cup ToSet(failed)
  BY <1>1, ThreeSets
<1>3. /\ ToSet(requests' \o tasks') = ToSet(requests') \cup ToSet(tasks')
      /\ ToSet(requests' \o tasks' \o failed')
           = ToSet(requests') \cup ToSet(tasks') \cup ToSet(failed')
  BY <1>1, ThreeSets
<1>4. Alone'
  BY <1>1 DEF Alone
<1>5. Known'
  <2>1. \A r \in ToSet(requests) \cup ToSet(tasks) \cup ToSet(failed) : r.owner <= made
    BY <1>2 DEF Known
  <2>2. \A r \in ToSet(requests') \cup ToSet(tasks') \cup ToSet(failed') : r.owner <= made'
    BY <2>1
  <2> QED BY <1>3, <2>2 DEF Known
<1>6. Addressed'
  <2>1. \A r \in ToSet(requests) \cup ToSet(tasks), i \in 1 .. Len(messages) :
          r.owner = messages[i].id => r.at = messages[i].at
    BY <1>1, <1>2 DEF Addressed
  <2>2. \A r \in ToSet(requests') \cup ToSet(tasks'), i \in 1 .. Len(messages) :
          r.owner = messages'[i].id => r.at = messages'[i].at
    BY <2>1
  <2> QED BY <1>1, <1>3, <2>2 DEF Addressed
<1> QED BY <1>4, <1>5, <1>6

\* Every step keeps the numbers and the addresses apart.
LEMMA StepOwners ==
  TypeOK /\ TypeOK' /\ Alone /\ Known /\ Addressed /\ [Next]_vars
    => Alone' /\ Known' /\ Addressed'
<1> SUFFICES ASSUME TypeOK, TypeOK', Alone, Known, Addressed, [Next]_vars
             PROVE  Alone' /\ Known' /\ Addressed'
  OBVIOUS
<1> USE DEF pictures
<1>a. /\ requests \in Seq(Request) /\ tasks \in Seq(Request) /\ failed \in Seq(Request)
      /\ requests' \in Seq(Request) /\ tasks' \in Seq(Request) /\ failed' \in Seq(Request)
      /\ DOMAIN messages = 1 .. Len(messages) /\ DOMAIN messages' = 1 .. Len(messages')
      /\ Len(messages) \in Nat /\ messages \in Seq(Message)
      /\ made \in Nat /\ made' \in Nat
  BY MessageListAssumption DEF TypeOK
<1>b. \A r \in ToSet(requests) \cup ToSet(tasks) \cup ToSet(failed) :
        r.owner <= made /\ r.owner \in Nat
  <2>1. /\ ToSet(requests \o tasks \o failed)
             = ToSet(requests) \cup ToSet(tasks) \cup ToSet(failed)
        /\ ToSet(requests) \cup ToSet(tasks) \cup ToSet(failed) \subseteq Request
    BY <1>a, ThreeSets
  <2>2. \A r \in Request : r.owner \in Nat
    BY DEF Request
  <2> QED BY <2>1, <2>2 DEF Known
<1>d. \A r \in ToSet(requests) \cup ToSet(tasks), i \in 1 .. Len(messages) :
        r.owner = messages[i].id => r.at = messages[i].at
  <2>1. ToSet(requests \o tasks) = ToSet(requests) \cup ToSet(tasks)
    BY <1>a, ThreeSets
  <2> QED BY <1>a, <2>1 DEF Addressed
<1>e. \A i \in 1 .. Len(messages) : messages[i].id <= made /\ messages[i].id \in Nat
  <2>1. \A i \in 1 .. Len(messages) : messages[i] \in Message
    BY SMTT(30) DEF TypeOK
  <2>2. \A m \in Message : m.id \in Nat
    BY DEF Message
  <2> QED BY <1>a, <2>1, <2>2 DEF Alone
<1>f. made \in Nat
  BY <1>a
<1>c. /\ ToSet(requests' \o tasks') = ToSet(requests') \cup ToSet(tasks')
      /\ ToSet(requests' \o tasks' \o failed')
           = ToSet(requests') \cup ToSet(tasks') \cup ToSet(failed')
  BY <1>a, ThreeSets
<1>1. ASSUME NEW c \in Content, AddContent(c) PROVE Alone' /\ Known' /\ Addressed'
  <2>1. PICK at \in Nat \ Used :
          /\ Fresh(messages'[Len(messages) + 1], made + 1, c, at)
          /\ requests' = requests \o Asks(made + 1, c, at)
    BY <1>1, AddContentFacts
  <2>2. /\ made + 1 \in 1 .. MaxMade /\ made' = made + 1
        /\ Len(messages') = Len(messages) + 1
        /\ \A i \in 1 .. Len(messages) : /\ messages'[i].id = messages[i].id
                                         /\ messages'[i].at = messages[i].at
        /\ messages'[Len(messages) + 1].id = made + 1
        /\ messages'[Len(messages) + 1].at = at
    BY <1>1, <2>1, AddContentFacts DEF SameMessage, Fresh
  <2>3. PICK new : new = Asks(made + 1, c, at)
    OBVIOUS
  <2>4. /\ new \in Seq(Request)
        /\ \A k \in 1 .. Len(new) : new[k].owner = made + 1 /\ new[k].at = at
    BY <2>2, <2>3, AsksFacts
  <2>5. /\ ToSet(requests') = ToSet(requests) \cup ToSet(new)
        /\ tasks' = tasks /\ failed' = failed
        /\ \A r \in ToSet(new) : r.owner = made + 1 /\ r.at = at
    <3>1. ToSet(requests \o new) = ToSet(requests) \cup ToSet(new)
      BY <1>a, <2>4, MembersFacts
    <3>2. \A r \in ToSet(new) : r.owner = made + 1 /\ r.at = at
      BY <2>4 DEF ToSet
    <3> QED BY <1>1, <2>1, <2>3, <3>1, <3>2 DEF AddContent
  <2>6. \A i \in 1 .. Len(messages) : messages[i].at # at
    BY <1>a, <2>1 DEF Used
  <2>7. ASSUME NEW i \in 1 .. Len(messages'), i \notin 1 .. Len(messages)
        PROVE  i = Len(messages) + 1
    BY <1>a, <2>2, <2>7
  <2>8. Alone'
    <3>1. \A i \in 1 .. Len(messages') :
            messages'[i].id <= made + 1 /\ (i \in 1 .. Len(messages) => messages'[i].id <= made)
      <4>1. \A i \in 1 .. Len(messages) : messages'[i].id <= made /\ messages'[i].id \in Nat
        BY <1>e, <2>2
      <4>2. made <= made + 1 /\ made \in Nat
        BY <1>a
      <4>3. \A i \in 1 .. Len(messages) : messages'[i].id <= made + 1
        BY <4>1, <4>2
      <4> QED BY <2>2, <2>7, <4>1, <4>2, <4>3
    <3>2. ASSUME NEW i \in 1 .. Len(messages'), NEW j \in 1 .. Len(messages'),
                 messages'[i].id = messages'[j].id \/ messages'[i].at = messages'[j].at
          PROVE  i = j
      <4>1. CASE i \in 1 .. Len(messages) /\ j \in 1 .. Len(messages)
        BY <1>a, <2>2, <3>2, <4>1 DEF Alone
      <4>2. ASSUME NEW k \in 1 .. Len(messages)
            PROVE  /\ messages'[k].id # messages'[Len(messages) + 1].id
                   /\ messages'[k].at # messages'[Len(messages) + 1].at
        <5>1. messages'[k].id = messages[k].id /\ messages'[k].at = messages[k].at
          BY <2>2
        <5>2. messages[k].id # made + 1
          <6>1. PICK x \in Nat : x = messages[k].id /\ x <= made
            BY <1>e
          <6> QED BY <1>f, <6>1
        <5> QED BY <2>2, <2>6, <5>1, <5>2
      <4>3. CASE \/ i \in 1 .. Len(messages) /\ j \notin 1 .. Len(messages)
                 \/ i \notin 1 .. Len(messages) /\ j \in 1 .. Len(messages)
        BY <2>7, <3>2, <4>2, <4>3
      <4>4. CASE i \notin 1 .. Len(messages) /\ j \notin 1 .. Len(messages)
        BY <2>7, <4>4
      <4> QED BY <4>1, <4>2, <4>3, <4>4
    <3> QED BY <1>a, <2>2, <3>1, <3>2 DEF Alone
  <2>9. Known'
    <3>1. \A r \in ToSet(requests') \cup ToSet(tasks') \cup ToSet(failed') : r.owner <= made'
      <4>1. \A r \in ToSet(requests) \cup ToSet(tasks) \cup ToSet(failed) : r.owner <= made + 1
        BY <1>a, <1>b
      <4> QED BY <1>a, <2>2, <2>5, <4>1
    <3> QED BY <1>c, <3>1 DEF Known
  <2>10. Addressed'
    <3>1. ASSUME NEW r \in ToSet(requests') \cup ToSet(tasks'), NEW i \in 1 .. Len(messages'),
                 r.owner = messages'[i].id
          PROVE  r.at = messages'[i].at
      <4>1. CASE r \in ToSet(new)
        <5>1. r.owner = made + 1 /\ r.at = at
          BY <2>5, <4>1
        <5>2. i \notin 1 .. Len(messages)
          <6>1. \A k \in 1 .. Len(messages) : messages'[k].id # made + 1
            BY <1>a, <1>e, <2>2
          <6> QED BY <3>1, <5>1, <6>1
        <5> QED BY <2>2, <2>7, <5>1, <5>2
      <4>2. CASE r \notin ToSet(new)
        <5>1. r \in ToSet(requests) \cup ToSet(tasks) /\ r.owner <= made
          BY <1>b, <2>5, <3>1, <4>2
        <5>2. i \in 1 .. Len(messages)
          <6>1. r.owner # made + 1
            BY <1>a, <1>b, <5>1
          <6> QED BY <2>2, <2>7, <3>1, <6>1
        <5> QED BY <1>d, <2>2, <3>1, <5>1, <5>2
      <4> QED BY <4>1, <4>2
    <3> QED BY <1>a, <1>c, <3>1 DEF Addressed
  <2> QED BY <2>8, <2>9, <2>10
<1>2. ASSUME NEW cs \in Reloads, LoadChannel(cs) PROVE Alone' /\ Known' /\ Addressed'
  <2>1. PICK n : n = Len(cs)
    OBVIOUS
  <2>2. PICK at \in [1 .. n -> Nat] :
          /\ \A i, j \in 1 .. n : at[i] = at[j] => i = j
          /\ \A i \in 1 .. n : Fresh(messages'[i], made + i, cs[i], at[i])
          /\ requests' = requests \o FlattenSeq([i \in 1 .. n |-> Asks(made + i, cs[i], at[i])])
    BY <1>2, <2>1, LoadChannelFacts
  <2>3. /\ n \in Nat /\ cs \in Seq(Content) /\ made' = made + n /\ Len(messages') = n
        /\ \A i \in 1 .. n : made + i \in 1 .. MaxMade
    BY <1>2, <2>1, LoadChannelFacts
  <2>4. \A i \in 1 .. n : messages'[i].id = made + i /\ messages'[i].at = at[i]
    BY <2>2 DEF Fresh
  <2>5. PICK ss : ss = [i \in 1 .. n |-> Asks(made + i, cs[i], at[i])]
    OBVIOUS
  <2>6. ASSUME NEW i \in 1 .. n
        PROVE  /\ ss[i] \in Seq(Request)
               /\ \A r \in ToSet(ss[i]) : r.owner = made + i /\ r.at = at[i]
    <3>1. cs[i] \in Content /\ at[i] \in Nat /\ made + i \in 1 .. MaxMade
      BY <2>1, <2>3
    <3>2. /\ ss[i] \in Seq(Request)
          /\ \A k \in 1 .. Len(ss[i]) : ss[i][k].owner = made + i /\ ss[i][k].at = at[i]
      BY <2>5, <3>1, AsksFacts
    <3> QED BY <3>2 DEF ToSet
  <2>7. ss \in Seq(Seq(Request)) /\ Len(ss) = n
    BY <2>3, <2>5, <2>6
  <2>8. PICK new \in Seq(Request) : new = FlattenSeq(ss)
    <3>1. PICK t \in [0 .. n -> Seq(Request)] : FlattenSeq(ss) = t[n]
      BY <2>7, FlattenParts
    <3> QED BY <2>3, <3>1
  <2>9. ASSUME NEW r \in ToSet(new)
        PROVE  \E j \in 1 .. n : r.owner = made + j /\ r.at = at[j]
    <3>1. PICK j \in 1 .. n : r \in ToSet(ss[j])
      BY <2>7, <2>8, FlattenMembers
    <3> QED BY <2>6, <3>1
  <2>10. ToSet(requests') = ToSet(requests) \cup ToSet(new)
    <3>1. requests' = requests \o new
      BY <2>2, <2>5, <2>8
    <3> QED BY <1>a, <3>1, MembersFacts
  <2>11. tasks' = tasks /\ failed' = <<>>
    BY <1>2 DEF LoadChannel
  <2>12. Alone'
    <3>1. \A i, j \in 1 .. n : messages'[i].id = messages'[j].id => i = j
      BY <1>a, <2>3, <2>4
    <3>2. \A i, j \in 1 .. n : messages'[i].at = messages'[j].at => i = j
      BY <2>2, <2>4
    <3>3. \A i \in 1 .. n : messages'[i].id <= made'
      BY <1>a, <2>3, <2>4
    <3>4. DOMAIN messages' = 1 .. n
      BY <1>a, <2>3
    <3> QED BY <3>1, <3>2, <3>3, <3>4 DEF Alone
  <2>13. Known'
    <3>1. \A r \in ToSet(requests') \cup ToSet(tasks') \cup ToSet(failed') : r.owner <= made'
      <4>1. \A r \in ToSet(requests) \cup ToSet(tasks) : r.owner <= made + n
        BY <1>a, <1>b, <2>3
      <4>2. ToSet(failed') = {}
        BY <2>11 DEF ToSet
      <4>3. \A r \in ToSet(new) : r.owner <= made + n
        BY <1>a, <2>3, <2>9
      <4> QED BY <2>3, <2>10, <2>11, <4>1, <4>2, <4>3
    <3> QED BY <1>c, <3>1 DEF Known
  <2>14. Addressed'
    <3>1. ASSUME NEW r \in ToSet(requests') \cup ToSet(tasks'), NEW i \in 1 .. n,
                 r.owner = made + i
          PROVE  r.at = at[i]
      <4>1. CASE r \in ToSet(new)
        <5>1. PICK j \in 1 .. n : r.owner = made + j /\ r.at = at[j]
          BY <2>9, <4>1
        <5>2. i = j
          BY <1>a, <2>3, <3>1, <5>1
        <5> QED BY <5>1, <5>2
      <4>2. CASE r \notin ToSet(new)
        <5>1. r.owner <= made
          BY <1>b, <2>10, <2>11, <3>1, <4>2
        <5> QED BY <1>a, <2>3, <3>1, <5>1
      <4> QED BY <4>1, <4>2
    <3> QED BY <1>a, <1>c, <2>3, <2>4, <3>1 DEF Addressed
  <2> QED BY <2>12, <2>13, <2>14
<1>3. ASSUME NEW i \in DOMAIN messages, NEW num \in DOMAIN messages[i].images,
             OpenImage(i, num)
      PROVE  Alone' /\ Known' /\ Addressed'
  <2>1. /\ Len(messages') = Len(messages)
        /\ \A j \in 1 .. Len(messages) : messages'[j].id = messages[j].id
                                         /\ messages'[j].at = messages[j].at
    BY <1>3, OpenImageFacts DEF SameMessages, SameMessage
  <2>2. UNCHANGED <<made, requests, tasks, failed>>
    BY <1>3 DEF OpenImage
  <2> QED BY <2>1, <2>2, OwnersKept
<1>4. ASSUME NEW h \in Heights, Draw(h) PROVE Alone' /\ Known' /\ Addressed'
  <2>1. /\ Len(messages') = Len(messages)
        /\ \A j \in 1 .. Len(messages) : messages'[j].id = messages[j].id
                                         /\ messages'[j].at = messages[j].at
    BY <1>4, MessageListAssumption, DrawFacts DEF SameMessages, SameMessage
  <2>2. UNCHANGED <<made, requests, tasks, failed>>
    BY <1>4 DEF Draw
  <2> QED BY <2>1, <2>2, OwnersKept
<1>5. ASSUME RunTask PROVE Alone' /\ Known' /\ Addressed'
  <2>1. /\ Len(messages') = Len(messages)
        /\ \A j \in 1 .. Len(messages) : messages'[j].id = messages[j].id
                                         /\ messages'[j].at = messages[j].at
    BY <1>5, RunTaskFacts
  <2>2. UNCHANGED <<made, requests, failed>> /\ tasks # <<>> /\ tasks' = Tail(tasks)
    BY <1>5 DEF RunTask
  <2>3. ToSet(tasks') \subseteq ToSet(tasks)
    BY <1>a, <2>2, MembersFacts
  <2> QED BY <2>1, <2>2, <2>3, OwnersKept
<1>6. ASSUME RunTaskOfFreed PROVE Alone' /\ Known' /\ Addressed'
  <2>1. /\ UNCHANGED <<messages, made, requests, failed>> /\ tasks # <<>>
        /\ tasks' = Tail(tasks)
    BY <1>6 DEF RunTaskOfFreed
  <2>2. ToSet(tasks') \subseteq ToSet(tasks)
    BY <1>a, <2>1, MembersFacts
  <2> QED BY <2>1, <2>2, OwnersKept
<1>7. ASSUME Answer PROVE Alone' /\ Known' /\ Addressed'
  <2>1. /\ requests # <<>> /\ requests' = Tail(requests) /\ messages' = messages
        /\ made' = made
        /\ \/ failed' = Append(failed, Head(requests)) /\ tasks' = tasks
           \/ failed' = failed /\ tasks' = Append(tasks, Head(requests))
    BY <1>7 DEF Answer
  <2>2. PICK r \in Request : r = Head(requests)
    BY <1>a, <2>1, HeadTailProperties
  <2>3. ToSet(requests) = {r} \cup ToSet(requests')
    BY <1>a, <2>1, <2>2, MembersFacts
  <2>4. /\ ToSet(Append(failed, r)) = ToSet(failed) \cup {r}
        /\ ToSet(Append(tasks, r)) = ToSet(tasks) \cup {r}
    BY <1>a, <2>2, MembersFacts
  <2>5. /\ ToSet(requests') \cup ToSet(tasks') \subseteq ToSet(requests) \cup ToSet(tasks)
        /\ ToSet(failed') \subseteq ToSet(requests) \cup ToSet(tasks) \cup ToSet(failed)
    BY <2>1, <2>2, <2>3, <2>4
  <2> QED BY <2>1, <2>5, OwnersKept
<1>8. ASSUME NEW by \in {-1, 1}, ScrollEnd \/ ChangeScroll(by) \/ SelectIndex(by)
      PROVE  Alone' /\ Known' /\ Addressed'
  <2>1. UNCHANGED <<messages, made, requests, tasks, failed>>
    BY <1>8 DEF ScrollEnd, ChangeScroll, SelectIndex
  <2> QED BY <2>1, OwnersKept
<1>9. ASSUME ToChat \/ OpenSearch \/ SearchKey \/ (\E i \in DOMAIN messages : Press(i))
             \/ (\E u \in Url : Age(u)) \/ AnswerMeetsRead \/ UNCHANGED vars
      PROVE  Alone' /\ Known' /\ Addressed'
  <2>1. UNCHANGED <<messages, made, requests, tasks, failed>>
    BY <1>9 DEF ToChat, OpenSearch, SearchKey, Press, Age, AnswerMeetsRead, vars
  <2> QED BY <2>1, OwnersKept
<1> QED BY <1>1, <1>2, <1>3, <1>4, <1>5, <1>6, <1>7, <1>8, <1>9 DEF Next
-----------------------------------------------------------------------------
(* Pixels                                                                   *)

AllGood(list) ==
  \A i \in 1 .. Len(list) : \A k \in 1 .. Len(list[i].images) : Good(list[i].images[k])

\* The pictures by their places or as members.
LEMMA PixelsAreGood ==
  ASSUME NEW list \in Seq(Message)
  PROVE  (\A i \in DOMAIN list : \A p \in ToSet(list[i].images) :
            p.url \notin Broken => Sound(p) /\ p.canBeDecoded)
           <=> AllGood(list)
<1>1. ASSUME NEW i \in 1 .. Len(list)
      PROVE  ToSet(list[i].images) = {list[i].images[k] : k \in 1 .. Len(list[i].images)}
  <2>1. list[i] \in Message
    OBVIOUS
  <2>2. DOMAIN list[i].images = 1 .. Len(list[i].images)
    BY <2>1, MessageParts
  <2> QED BY <2>2 DEF ToSet
<1>2. DOMAIN list = 1 .. Len(list)
  OBVIOUS
<1>3. ASSUME NEW i \in 1 .. Len(list)
      PROVE  (\A p \in ToSet(list[i].images) : Good(p))
               <=> \A k \in 1 .. Len(list[i].images) : Good(list[i].images[k])
  BY <1>1
<1>4. AllGood(list) <=> \A i \in 1 .. Len(list) : \A p \in ToSet(list[i].images) : Good(p)
  BY <1>3 DEF AllGood
<1> QED BY <1>2, <1>4 DEF Good

\* Every step keeps the pixels where a picture says they are.
LEMMA StepPixels == TypeOK /\ TypeOK' /\ PixelsThere /\ [Next]_vars => PixelsThere'
<1> SUFFICES ASSUME TypeOK, TypeOK', PixelsThere, [Next]_vars PROVE PixelsThere'
  OBVIOUS
<1> DEFINE OverlayGood == \A p \in ToSet(overlay) : p.url \notin Broken => Sound(p)
<1>a. messages \in Seq(Message) /\ messages' \in Seq(Message) /\ Len(messages) \in Nat
      /\ DOMAIN messages = 1 .. Len(messages)
  BY DEF TypeOK
<1>b. AllGood(messages) /\ OverlayGood
  BY <1>a, PixelsAreGood DEF PixelsThere
<1>c. AllGood(messages') /\ OverlayGood' => PixelsThere'
  BY <1>a, PixelsAreGood DEF PixelsThere
<1>d. SameMessages(messages', messages) => AllGood(messages')
  BY <1>b DEF SameMessages, SameMessage, AllGood
<1>e. overlay' = overlay => OverlayGood'
  BY <1>b
<1> HIDE DEF OverlayGood
<1> USE DEF pictures
<1>1. ASSUME NEW c \in Content, AddContent(c) PROVE PixelsThere'
  <2>1. PICK at \in Nat : Fresh(messages'[Len(messages) + 1], made + 1, c, at)
    BY <1>1, AddContentFacts
  <2>2. /\ Len(messages') = Len(messages) + 1
        /\ \A i \in 1 .. Len(messages) : SameMessage(messages'[i], messages[i])
    BY <1>1, AddContentFacts
  <2>3. ASSUME NEW i \in 1 .. Len(messages')
        PROVE  \A k \in 1 .. Len(messages'[i].images) : Good(messages'[i].images[k])
    <3>1. CASE i \in 1 .. Len(messages)
      BY <1>b, <2>2, <3>1 DEF SameMessage, AllGood
    <3>2. CASE i \notin 1 .. Len(messages)
      <4>1. i = Len(messages) + 1
        BY <1>a, <2>2, <3>2
      <4> QED BY <2>1, <4>1 DEF Fresh
    <3> QED BY <3>1, <3>2
  <2> QED BY <1>1, <1>c, <1>e, <2>3 DEF AddContent, AllGood
<1>2. ASSUME NEW cs \in Reloads, LoadChannel(cs) PROVE PixelsThere'
  <2>1. PICK n : n = Len(cs)
    OBVIOUS
  <2>2. PICK at \in [1 .. n -> Nat] :
          \A i \in 1 .. n : Fresh(messages'[i], made + i, cs[i], at[i])
    BY <1>2, <2>1, LoadChannelFacts
  <2>3. Len(messages') = n
    BY <1>2, <2>1, LoadChannelFacts
  <2>4. AllGood(messages')
    BY <2>2, <2>3 DEF AllGood, Fresh
  <2> QED BY <1>2, <1>c, <1>e, <2>4 DEF LoadChannel
<1>3. ASSUME NEW i \in DOMAIN messages, NEW num \in DOMAIN messages[i].images,
             OpenImage(i, num)
      PROVE  PixelsThere'
  <2>1. PICK p \in Picture : /\ overlay' = <<CopyImage(p)>>
                             /\ p.url = messages[i].images[num].url
                             /\ Good(messages[i].images[num]) /\ p.url \notin Broken
                                  => p.data = "pixels"
    BY <1>3, OpenImageFacts
  <2>2. Good(messages[i].images[num])
    <3>1. messages[i] \in Message
      BY <1>a
    <3>2. num \in 1 .. Len(messages[i].images)
      BY <3>1, MessageParts
    <3> QED BY <1>a, <1>b, <3>2 DEF AllGood
  <2>3. p.url \notin Broken => Sound(CopyImage(p))
    BY <2>1, <2>2, CopyImageFacts
  <2>4. ToSet(overlay') = {CopyImage(p)} /\ CopyImage(p).url = p.url
    <3>1. PICK q : q = CopyImage(p)
      OBVIOUS
    <3>2. ToSet(<<q>>) = {q}
      BY DEF ToSet
    <3> QED BY <2>1, <3>1, <3>2, CopyImageFacts
  <2>5. OverlayGood'
    BY <2>3, <2>4 DEF OverlayGood
  <2>6. SameMessages(messages', messages)
    BY <1>3, OpenImageFacts
  <2> QED BY <1>c, <1>d, <2>5, <2>6
<1>4. ASSUME NEW h \in Heights, Draw(h) PROVE PixelsThere'
  <2>1. SameMessages(messages', messages)
    BY <1>4, MessageListAssumption, DrawFacts
  <2> QED BY <1>4, <1>c, <1>d, <1>e, <2>1 DEF Draw
<1>5. ASSUME RunTask PROVE PixelsThere'
  <2>1. PICK i \in 1 .. Len(messages), p \in Picture :
          /\ Good(p) /\ Len(messages') = Len(messages)
          /\ \A j \in 1 .. Len(messages) : j # i => messages'[j] = messages[j]
          /\ messages'[i].images = Append(messages[i].images, p)
    BY <1>5, RunTaskFacts
  <2>2. PICK s \in Seq(Picture) : s = messages[i].images
    <3>1. messages[i] \in Message
      BY <1>a
    <3> QED BY <3>1, MessageParts
  <2>3. \A k \in 1 .. Len(s) : Good(s[k])
    BY <1>b, <2>2 DEF AllGood
  <2>4. \A k \in 1 .. Len(Append(s, p)) : Good(Append(s, p)[k])
    BY <2>1, <2>3
  <2>5. ASSUME NEW j \in 1 .. Len(messages')
        PROVE  \A k \in 1 .. Len(messages'[j].images) : Good(messages'[j].images[k])
    <3>1. CASE j = i
      BY <2>1, <2>2, <2>4, <3>1
    <3>2. CASE j # i
      BY <1>b, <2>1, <3>2 DEF AllGood
    <3> QED BY <3>1, <3>2
  <2> QED BY <1>5, <1>c, <1>e, <2>5 DEF RunTask, AllGood
<1>6. ASSUME NEW by \in {-1, 1}, ScrollEnd \/ ChangeScroll(by) \/ SelectIndex(by)
      PROVE  PixelsThere'
  <2>1. UNCHANGED <<messages, overlay>>
    BY <1>6 DEF ScrollEnd, ChangeScroll, SelectIndex
  <2> QED BY <1>b, <1>c, <1>e, <2>1
<1>7. ASSUME ToChat \/ OpenSearch \/ SearchKey \/ (\E i \in DOMAIN messages : Press(i))
             \/ Answer \/ RunTaskOfFreed
             \/ (\E u \in Url : Age(u)) \/ AnswerMeetsRead \/ UNCHANGED vars
      PROVE  PixelsThere'
  <2>1. UNCHANGED <<messages, overlay>>
    BY <1>7 DEF ToChat, OpenSearch, SearchKey, Press, Answer, RunTaskOfFreed, Age,
                AnswerMeetsRead, vars
  <2> QED BY <1>b, <1>c, <1>e, <2>1
<1> QED BY <1>1, <1>2, <1>3, <1>4, <1>5, <1>6, <1>7 DEF Next
-----------------------------------------------------------------------------
(* Links                                                                    *)

\* The count of three sequences in a row.
LEMMA ThreeCounts ==
  ASSUME NEW V, NEW a \in Seq(V), NEW b \in Seq(V), NEW c \in Seq(V), NEW S
  PROVE  /\ Count(a \o b \o c, S) = Count(a, S) + Count(b, S) + Count(c, S)
         /\ Count(a, S) \in Nat /\ Count(b, S) \in Nat /\ Count(c, S) \in Nat
<1>1. PICK d \in Seq(V) : d = a \o b
  <2>1. a \o b \in Seq(V)
    OBVIOUS
  <2> QED BY <2>1
<1>2. Count(d, S) = Count(a, S) + Count(b, S)
  BY <1>1, CountConcat
<1>3. Count(d \o c, S) = Count(d, S) + Count(c, S)
  BY CountConcat
<1>4. Count(a, S) \in Nat /\ Count(b, S) \in Nat /\ Count(c, S) \in Nat
  BY CountFacts
<1> QED BY <1>1, <1>2, <1>3, <1>4

\* How often a link of a message is still asked for, on its way or no picture.
Waiting(u, id) ==
  Count(requests, Asked(u, id)) + Count(tasks, Asked(u, id)) + Count(failed, Asked(u, id))

\* What waits for a message, in each of the three queues.
LEMMA WaitingFacts ==
  ASSUME TypeOK, NEW u, NEW id
  PROVE  /\ Count(requests \o tasks \o failed, Asked(u, id)) = Waiting(u, id)
         /\ Count(requests, Asked(u, id)) \in Nat /\ Count(tasks, Asked(u, id)) \in Nat
         /\ Count(failed, Asked(u, id)) \in Nat
<1>1. /\ requests \in Seq(Request) /\ tasks \in Seq(Request) /\ failed \in Seq(Request)
  BY DEF TypeOK
<1> QED BY <1>1, ThreeCounts DEF Waiting

\* The same of the next state.
LEMMA WaitingFactsPrime ==
  ASSUME TypeOK', NEW u, NEW id
  PROVE  /\ Count(requests' \o tasks' \o failed', Asked(u, id)) = Waiting(u, id)'
         /\ Count(requests', Asked(u, id)) \in Nat /\ Count(tasks', Asked(u, id)) \in Nat
         /\ Count(failed', Asked(u, id)) \in Nat
<1>1. /\ requests' \in Seq(Request) /\ tasks' \in Seq(Request) /\ failed' \in Seq(Request)
  BY DEF TypeOK
<1> QED BY <1>1, ThreeCounts DEF Waiting

\* A request for a link of a message.
LEMMA AskedFact ==
  ASSUME NEW r \in Request, NEW u, NEW id
  PROVE  r \in Asked(u, id) <=> r.url = u /\ r.owner = id
BY DEF Request, Asked

\* What PicturesRight says of a message.
LinksOf(m) ==
  \A u \in Url : Count(PicturesOf[m.content], {u})
                   = Count(m.images, Shown(u, m.id)) + Waiting(u, m.id)

\* The same message shows a link as often.
LEMMA ShownCount ==
  ASSUME NEW m \in Message, NEW n \in Message, NEW u, SameMessage(m, n)
  PROVE  Count(m.images, Shown(u, m.id)) = Count(n.images, Shown(u, n.id))
<1>1. PICK s \in Seq(Picture) : s = m.images
  BY MessageParts
<1>2. PICK t \in Seq(Picture) : t = n.images
  BY MessageParts
<1>3. m.id = n.id /\ Len(s) = Len(t)
      /\ \A k \in 1 .. Len(t) : s[k].url = t[k].url /\ s[k].for = t[k].for
  BY <1>1, <1>2 DEF SameMessage
<1>4. \A k \in 1 .. Len(s) : s[k] \in Shown(u, m.id) <=> t[k] \in Shown(u, n.id)
  BY <1>3 DEF Shown
<1> QED BY <1>1, <1>2, <1>3, <1>4, CountSame

\* A message that is the same keeps its links, where what waits for it is.
LEMMA LinksKept ==
  ASSUME NEW m \in Message, NEW n \in Message, LinksOf(n), SameMessage(m, n),
         \A u \in Url : Waiting(u, n.id)' = Waiting(u, n.id)
  PROVE  \A u \in Url : Count(PicturesOf[m.content], {u})
                          = Count(m.images, Shown(u, m.id)) + Waiting(u, m.id)'
<1>1. m.id = n.id /\ m.content = n.content
  BY DEF SameMessage
<1> SUFFICES ASSUME NEW u \in Url
             PROVE  Count(PicturesOf[m.content], {u})
                      = Count(m.images, Shown(u, m.id)) + Waiting(u, m.id)'
  OBVIOUS
<1>2. Count(m.images, Shown(u, m.id)) = Count(n.images, Shown(u, n.id))
  BY ShownCount
<1>3. PICK w : w = Waiting(u, n.id)' /\ w = Waiting(u, n.id)
  OBVIOUS
<1>4. Waiting(u, m.id)' = w
  BY <1>1, <1>3
<1> QED BY <1>1, <1>2, <1>3, <1>4 DEF LinksOf

\* A new message shows the links that were fetched and asks for the others.
LEMMA FreshCounts ==
  ASSUME NEW m \in Message, NEW id \in 1 .. MaxMade, NEW c \in Content, NEW at \in Nat,
         Fresh(m, id, c, at), NEW u \in Url
  PROVE  Count(PicturesOf[c], {u})
           = Count(m.images, Shown(u, id)) + Count(Asks(id, c, at), Asked(u, id))
<1>1. PICK links \in Seq(Url) : links = PicturesOf[c]
  BY MessageListAssumption
<1>2. PICK have \in Seq(Url) : have = Among(links, Fetched)
  BY AmongType
<1>3. PICK s \in Seq(Picture) : s = m.images
  BY MessageParts
<1>4. Len(s) = Len(have) /\ \A k \in 1 .. Len(s) : s[k].url = have[k] /\ s[k].for = id
  BY <1>1, <1>2, <1>3 DEF Fresh
<1>5. \A k \in 1 .. Len(s) : s[k] \in Shown(u, id) <=> have[k] \in {u}
  <2>1. \A k \in 1 .. Len(s) : s[k] \in Picture
    OBVIOUS
  <2> QED BY <1>4, <2>1 DEF Shown
<1>6. Count(s, Shown(u, id)) = Count(have, {u})
  <2>1. PICK S, T : S = Shown(u, id) /\ T = {u}
    OBVIOUS
  <2>2. \A k \in 1 .. Len(s) : s[k] \in S <=> have[k] \in T
    BY <1>5, <2>1
  <2>3. Count(s, S) = Count(have, T)
    BY <1>4, <2>2, CountSame
  <2> QED BY <2>1, <2>3
<1>7. Count(have, {u}) = IF u \in Fetched THEN Count(links, {u}) ELSE 0
  BY <1>2, AmongCount
<1>8. Count(Among(links, Url \ Fetched), {u})
        = IF u \in Url \ Fetched THEN Count(links, {u}) ELSE 0
  BY ZenonT(60), AmongCount
<1>9. Count(Asks(id, c, at), Asked(u, id)) = Count(Among(links, Url \ Fetched), {u})
  <2>1. Count(Asks(id, c, at), Asked(u, id)) = Count(Among(PicturesOf[c], Url \ Fetched), {u})
    BY ZenonT(60), AsksFacts
  <2> QED BY <1>1, <2>1
<1>10. Count(links, {u}) \in Nat
  BY CountFacts
<1>11. CASE u \in Fetched
  BY <1>1, <1>3, <1>6, <1>7, <1>8, <1>9, <1>10, <1>11
<1>12. CASE u \notin Fetched
  BY <1>1, <1>3, <1>6, <1>7, <1>8, <1>9, <1>10, <1>12
<1> QED BY <1>11, <1>12

\* Nothing waits for a message yet to be made.
LEMMA NothingWaits ==
  ASSUME TypeOK, Known, NEW u, NEW id \in Nat, id > made
  PROVE  /\ Count(requests, Asked(u, id)) = 0 /\ Count(tasks, Asked(u, id)) = 0
         /\ Count(failed, Asked(u, id)) = 0
<1>1. /\ requests \in Seq(Request) /\ tasks \in Seq(Request) /\ failed \in Seq(Request)
      /\ made \in Nat
  BY MessageListAssumption DEF TypeOK
<1>2. ASSUME NEW r \in ToSet(requests) \cup ToSet(tasks) \cup ToSet(failed)
      PROVE  r \notin Asked(u, id)
  <2>1. r.owner <= made /\ r \in Request
    BY <1>1, ThreeSets DEF Known
  <2>2. r.owner # id
    BY <1>1, <2>1
  <2> QED BY <2>1, <2>2, AskedFact
<1>3. ASSUME NEW s \in Seq(Request),
             ToSet(s) \subseteq ToSet(requests) \cup ToSet(tasks) \cup ToSet(failed)
      PROVE  Count(s, Asked(u, id)) = 0
  <2>1. \A k \in 1 .. Len(s) : s[k] \in ToSet(s)
    BY DEF ToSet
  <2>2. \A k \in 1 .. Len(s) : s[k] \notin Asked(u, id)
    BY <1>2, <1>3, <2>1
  <2> QED BY <2>2, CountNone
<1> QED BY <1>1, <1>3

\* What is asked for one message is not asked for another.
LEMMA AsksOfOthers ==
  ASSUME NEW id \in 1 .. MaxMade, NEW c \in Content, NEW at \in Nat, NEW u, NEW other,
         other # id
  PROVE  Count(Asks(id, c, at), Asked(u, other)) = 0
<1>1. /\ Asks(id, c, at) \in Seq(Request)
      /\ \A k \in 1 .. Len(Asks(id, c, at)) : Asks(id, c, at)[k].owner = id
  BY AsksFacts
<1>2. \A k \in 1 .. Len(Asks(id, c, at)) : Asks(id, c, at)[k] \notin Asked(u, other)
  BY <1>1 DEF Asked
<1> QED BY <1>1, <1>2, CountNone

LinksRight == \A i \in 1 .. Len(messages) : LinksOf(messages[i])

\* LinksOf after a step.
LinksLater(m) ==
  \A u \in Url : Count(PicturesOf[m.content], {u})
                   = Count(m.images, Shown(u, m.id)) + Waiting(u, m.id)'

\* Every step keeps each link asked for, on its way, shown or no picture, once.
LEMMA StepLinks ==
  TypeOK /\ TypeOK' /\ Alone /\ Known /\ Addressed /\ LinksRight /\ [Next]_vars
    => \A i \in 1 .. Len(messages') : \A m \in Message : m = messages'[i] => LinksLater(m)
<1> SUFFICES ASSUME TypeOK, TypeOK', Alone, Known, Addressed, LinksRight, [Next]_vars,
                    NEW i \in 1 .. Len(messages'), NEW m \in Message, m = messages'[i]
             PROVE  LinksLater(m)
  OBVIOUS
<1> USE DEF pictures
<1>a. /\ requests \in Seq(Request) /\ tasks \in Seq(Request) /\ failed \in Seq(Request)
      /\ requests' \in Seq(Request) /\ tasks' \in Seq(Request) /\ failed' \in Seq(Request)
      /\ DOMAIN messages = 1 .. Len(messages) /\ Len(messages) \in Nat
      /\ messages \in Seq(Message)
  <2>1. requests \in Seq(Request) /\ tasks \in Seq(Request) /\ failed \in Seq(Request)
    BY DEF TypeOK
  <2>2. requests' \in Seq(Request) /\ tasks' \in Seq(Request) /\ failed' \in Seq(Request)
    BY DEF TypeOK
  <2>3. messages \in Seq(Message)
    BY DEF TypeOK
  <2>4. DOMAIN messages = 1 .. Len(messages) /\ Len(messages) \in Nat
    BY <2>3
  <2> QED BY <2>1, <2>2, <2>3, <2>4
<1>b. \A k \in 1 .. Len(messages) : messages[k] \in Message /\ LinksOf(messages[k])
  BY <1>a DEF LinksRight
<1>c. made \in Nat /\ \A k \in 1 .. Len(messages) : messages[k].id <= made
  <2>1. made \in Nat
    BY MessageListAssumption DEF TypeOK
  <2>2. \A k \in 1 .. Len(messages) : messages[k].id <= made
    BY <1>a DEF Alone
  <2> QED BY <2>1, <2>2
<1>d. ASSUME NEW n \in Message, LinksOf(n), SameMessage(m, n),
             \A u \in Url : Waiting(u, n.id)' = Waiting(u, n.id)
      PROVE  LinksLater(m)
  BY <1>d, LinksKept DEF LinksLater
<1>e. ASSUME UNCHANGED <<requests, tasks, failed>>, NEW u, NEW id
      PROVE  Waiting(u, id)' = Waiting(u, id)
  BY <1>e DEF Waiting
<1>f. ASSUME SameMessages(messages', messages), UNCHANGED <<requests, tasks, failed>>
      PROVE  LinksLater(m)
  <2>1. i \in 1 .. Len(messages) /\ SameMessage(m, messages[i])
    BY <1>f DEF SameMessages
  <2>2. PICK n \in Message : n = messages[i] /\ LinksOf(n)
    BY <1>b, <2>1
  <2> QED BY <1>d, <1>e, <1>f, <2>1, <2>2
<1>g. messages' = messages => SameMessages(messages', messages)
  BY <1>a DEF SameMessages, SameMessage
<1>1. ASSUME NEW c \in Content, AddContent(c) PROVE LinksLater(m)
  <2>1. PICK at \in Nat :
          /\ Fresh(messages'[Len(messages) + 1], made + 1, c, at)
          /\ requests' = requests \o Asks(made + 1, c, at)
    BY <1>1, AddContentFacts
  <2>2. /\ made + 1 \in 1 .. MaxMade /\ Len(messages') = Len(messages) + 1
        /\ \A k \in 1 .. Len(messages) : SameMessage(messages'[k], messages[k])
    BY <1>1, AddContentFacts
  <2>3. PICK new \in Seq(Request) : new = Asks(made + 1, c, at)
    BY <2>2, AsksFacts
  <2>4. requests' = requests \o new /\ tasks' = tasks /\ failed' = failed
    BY <1>1, <2>1, <2>3 DEF AddContent
  <2>5. ASSUME NEW u, NEW id
        PROVE  Waiting(u, id)' = Waiting(u, id) + Count(new, Asked(u, id))
    <3>1. Count(new, Asked(u, id)) \in Nat
      BY CountFacts
    <3>3. Count(requests', Asked(u, id))
            = Count(requests, Asked(u, id)) + Count(new, Asked(u, id))
      <4>1. PICK q \in Seq(Request) : q = requests
        BY <1>a
      <4>2. Count(q \o new, Asked(u, id)) = Count(q, Asked(u, id)) + Count(new, Asked(u, id))
        BY CountConcat
      <4> QED BY <2>4, <4>1, <4>2
    <3>2. /\ Count(requests, Asked(u, id)) \in Nat /\ Count(tasks, Asked(u, id)) \in Nat
          /\ Count(failed, Asked(u, id)) \in Nat
      BY WaitingFacts
    <3> QED BY <2>4, <3>1, <3>2, <3>3 DEF Waiting
  <2>6. CASE i \in 1 .. Len(messages)
    <3>1. PICK n \in Message : n = messages[i] /\ LinksOf(n)
      BY <1>b, <2>6
    <3>2. SameMessage(m, n)
      BY <2>2, <2>6, <3>1
    <3>3. n.id # made + 1
      <4>1. n.id <= made
        BY <1>c, <2>6, <3>1
      <4>2. n.id \in Nat
        BY DEF Message
      <4> QED BY <1>c, <4>1, <4>2
    <3>4. ASSUME NEW u \in Url PROVE Waiting(u, n.id)' = Waiting(u, n.id)
      <4>1. PICK id : id = n.id
        OBVIOUS
      <4>2. Count(new, Asked(u, id)) = 0
        BY <2>2, <2>3, <3>3, <4>1, AsksOfOthers
      <4>3. Waiting(u, id)' = Waiting(u, id) + 0
        BY <2>5, <4>2
      <4>4. Waiting(u, id) \in Nat
        BY WaitingFacts DEF Waiting
      <4> QED BY <4>1, <4>3, <4>4
    <3> QED BY <1>d, <3>1, <3>2, <3>4
  <2>7. CASE i \notin 1 .. Len(messages)
    <3>1. i = Len(messages) + 1
      BY <1>a, <2>2, <2>7
    <3>2. PICK id \in 1 .. MaxMade : id = made + 1
      BY <2>2
    <3>3. Fresh(m, id, c, at) /\ m.id = id /\ m.content = c
      BY <2>1, <3>1, <3>2 DEF Fresh
    <3>4. ASSUME NEW u \in Url
          PROVE  Count(PicturesOf[c], {u}) = Count(m.images, Shown(u, id)) + Waiting(u, id)'
      <4>1. Count(PicturesOf[c], {u}) = Count(m.images, Shown(u, id)) + Count(new, Asked(u, id))
        <5>1. new = Asks(id, c, at)
          BY <2>3, <3>2
        <5>2. Count(PicturesOf[c], {u})
                = Count(m.images, Shown(u, id)) + Count(Asks(id, c, at), Asked(u, id))
          BY ZenonT(60), <3>3, FreshCounts
        <5> QED BY <5>1, <5>2
      <4>2. Waiting(u, id) = 0
        <5>1. id \in Nat /\ id > made
          BY <1>c, <3>2
        <5> QED BY <5>1, NothingWaits DEF Waiting
      <4>3. Waiting(u, id)' = Count(new, Asked(u, id))
        <5>1. Waiting(u, id)' = Waiting(u, id) + Count(new, Asked(u, id))
          BY <2>5
        <5>2. Count(new, Asked(u, id)) \in Nat
          BY CountFacts
        <5> QED BY <4>2, <5>1, <5>2
      <4> QED BY <4>1, <4>3
    <3> QED BY <3>3, <3>4 DEF LinksLater
  <2> QED BY <2>6, <2>7
<1>2. ASSUME NEW cs \in Reloads, LoadChannel(cs) PROVE LinksLater(m)
  <2>1. PICK n : n = Len(cs)
    OBVIOUS
  <2>2. PICK at \in [1 .. n -> Nat] :
          /\ \A k \in 1 .. n : Fresh(messages'[k], made + k, cs[k], at[k])
          /\ requests' = requests \o FlattenSeq([k \in 1 .. n |-> Asks(made + k, cs[k], at[k])])
    BY <1>2, <2>1, LoadChannelFacts
  <2>3. /\ n \in Nat /\ cs \in Seq(Content) /\ Len(messages') = n
        /\ \A k \in 1 .. n : made + k \in 1 .. MaxMade
    BY <1>2, <2>1, LoadChannelFacts
  <2>4. PICK ss : ss = [k \in 1 .. n |-> Asks(made + k, cs[k], at[k])]
    OBVIOUS
  <2>5. ASSUME NEW k \in 1 .. n
        PROVE  /\ cs[k] \in Content /\ at[k] \in Nat /\ made + k \in 1 .. MaxMade
               /\ ss[k] = Asks(made + k, cs[k], at[k]) /\ ss[k] \in Seq(Request)
    <3>1. cs[k] \in Content /\ at[k] \in Nat /\ made + k \in 1 .. MaxMade
      BY <2>1, <2>3
    <3>2. ss[k] = Asks(made + k, cs[k], at[k])
      BY <2>4
    <3> QED BY <3>1, <3>2, AsksFacts
  <2>6. ss \in Seq(Seq(Request)) /\ Len(ss) = n
    BY <2>3, <2>4, <2>5
  <2>7. PICK new \in Seq(Request) : new = FlattenSeq(ss)
    <3>1. PICK t \in [0 .. n -> Seq(Request)] : FlattenSeq(ss) = t[n]
      BY <2>6, FlattenParts
    <3> QED BY <2>3, <3>1
  <2>8. requests' = requests \o new /\ tasks' = tasks /\ failed' = <<>>
    BY <1>2, <2>2, <2>4, <2>7 DEF LoadChannel
  <2>9. i \in 1 .. n
    BY <2>3
  <2>10. PICK id \in 1 .. MaxMade : id = made + i
    BY <2>3, <2>9
  <2>11. Fresh(m, id, cs[i], at[i]) /\ m.id = id /\ m.content = cs[i]
    BY <2>2, <2>9, <2>10 DEF Fresh
  <2>12. ASSUME NEW u \in Url
         PROVE  Count(PicturesOf[cs[i]], {u}) = Count(m.images, Shown(u, id)) + Waiting(u, id)'
    <3>1. Count(PicturesOf[cs[i]], {u})
            = Count(m.images, Shown(u, id)) + Count(ss[i], Asked(u, id))
      <4>1. PICK c \in Content, a \in Nat : c = cs[i] /\ a = at[i]
        BY <2>5, <2>9
      <4>2. ss[i] = Asks(id, c, a)
        BY <2>5, <2>9, <2>10, <4>1
      <4>3. Fresh(m, id, c, a)
        BY <2>11, <4>1
      <4>4. Count(PicturesOf[c], {u})
              = Count(m.images, Shown(u, id)) + Count(Asks(id, c, a), Asked(u, id))
        BY <4>3, FreshCounts
      <4> QED BY <4>1, <4>2, <4>4
    <3>2. ASSUME NEW k \in 1 .. n, k # i PROVE Count(ss[k], Asked(u, id)) = 0
      <4>1. id # made + k
        BY <1>c, <2>3, <2>9, <2>10, <3>2
      <4> QED BY <2>5, <4>1, AsksOfOthers
    <3>3. Count(new, Asked(u, id)) = Count(ss[i], Asked(u, id))
      BY <2>6, <2>7, <2>9, <3>2, FlattenCount
    <3>4. /\ Count(requests, Asked(u, id)) = 0 /\ Count(tasks, Asked(u, id)) = 0
      <4>1. id \in Nat /\ id > made
        BY <1>c, <2>3, <2>9, <2>10
      <4> QED BY <4>1, NothingWaits
    <3>5. Count(requests', Asked(u, id)) = 0 + Count(new, Asked(u, id))
      BY <1>a, <2>8, <3>4, CountConcat
    <3>6. Count(failed', Asked(u, id)) = 0
      <4>1. \A k \in 1 .. Len(failed') : FALSE
        BY <2>8
      <4> QED BY <1>a, <4>1, CountNone
    <3>7. Count(new, Asked(u, id)) \in Nat
      BY CountFacts
    <3>8. Waiting(u, id)' = Count(new, Asked(u, id))
      BY <2>8, <3>4, <3>5, <3>6, <3>7 DEF Waiting
    <3> QED BY <3>1, <3>3, <3>8
  <2> QED BY <2>11, <2>12 DEF LinksLater
<1>3. ASSUME NEW j \in DOMAIN messages, NEW num \in DOMAIN messages[j].images,
             OpenImage(j, num)
      PROVE  LinksLater(m)
  <2>1. SameMessages(messages', messages)
    BY <1>3, OpenImageFacts
  <2> QED BY <1>3, <1>f, <2>1 DEF OpenImage
<1>4. ASSUME NEW h \in Heights, Draw(h) PROVE LinksLater(m)
  <2>1. SameMessages(messages', messages)
    BY <1>4, MessageListAssumption, DrawFacts
  <2> QED BY <1>4, <1>f, <2>1 DEF Draw
<1>5. ASSUME RunTask PROVE LinksLater(m)
  <2>1. PICK at \in 1 .. Len(messages), p \in Picture :
          /\ tasks # <<>> /\ tasks' = Tail(tasks)
          /\ messages[at].at = Head(tasks).at
          /\ p.url = Head(tasks).url /\ p.for = Head(tasks).owner
          /\ Len(messages') = Len(messages)
          /\ \A j \in 1 .. Len(messages) : j # at => messages'[j] = messages[j]
          /\ messages'[at].id = messages[at].id
          /\ messages'[at].content = messages[at].content
          /\ messages'[at].images = Append(messages[at].images, p)
    BY <1>5, RunTaskFacts
  <2>2. requests' = requests /\ failed' = failed
    BY <1>5 DEF RunTask
  <2>3. PICK q \in Seq(Request) : q = tasks
    BY <1>a
  <2>4. PICK r \in Request : r = Head(tasks)
    BY <2>1, <2>3, HeadTailProperties
  <2>5. ASSUME NEW u, NEW id
        PROVE  Waiting(u, id)
                 = Waiting(u, id)' + (IF r.url = u /\ r.owner = id THEN 1 ELSE 0)
    <3>1. Count(q, Asked(u, id)) = Count(Tail(q), Asked(u, id))
                                   + (IF Head(q) \in Asked(u, id) THEN 1 ELSE 0)
      BY <2>1, <2>3, CountTail
    <3>2. r \in Asked(u, id) <=> r.url = u /\ r.owner = id
      BY AskedFact
    <3>3. Count(tasks, Asked(u, id))
            = Count(tasks', Asked(u, id)) + (IF r.url = u /\ r.owner = id THEN 1 ELSE 0)
      BY <2>1, <2>3, <2>4, <3>1, <3>2
    <3>4. /\ Count(requests, Asked(u, id)) \in Nat /\ Count(tasks', Asked(u, id)) \in Nat
          /\ Count(failed, Asked(u, id)) \in Nat
      BY WaitingFacts, WaitingFactsPrime
    <3> QED BY <2>2, <3>3, <3>4 DEF Waiting
  <2>6. i \in 1 .. Len(messages)
    BY <2>1
  <2>7. PICK n \in Message : n = messages[i] /\ LinksOf(n)
    BY <1>b, <2>6
  <2>8. ASSUME NEW u, NEW id PROVE Waiting(u, id)' \in Nat
    BY WaitingFactsPrime DEF Waiting
  <2>9. CASE i # at
    <3>1. m = n
      BY <2>1, <2>6, <2>7, <2>9
    <3>2. r.owner # n.id
      <4>1. r \in ToSet(requests \o tasks)
        BY <1>a, <2>1, <2>4, MembersFacts
      <4>2. r.owner = n.id => r.at = n.at
        BY <1>a, <2>6, <2>7, <4>1 DEF Addressed
      <4>3. r.at # n.at
        BY <1>a, <2>1, <2>4, <2>6, <2>7, <2>9 DEF Alone
      <4> QED BY <4>2, <4>3
    <3>3. ASSUME NEW u \in Url PROVE Waiting(u, n.id)' = Waiting(u, n.id)
      <4>1. PICK id : id = n.id
        OBVIOUS
      <4>2. Waiting(u, id) = Waiting(u, id)' + 0
        BY <2>5, <3>2, <4>1
      <4> QED BY <2>8, <4>1, <4>2
    <3>4. SameMessage(m, n)
      BY <3>1 DEF SameMessage
    <3> QED BY <1>d, <2>7, <3>3, <3>4
  <2>10. CASE i = at
    <3>1. m.id = n.id /\ m.content = n.content /\ m.images = Append(n.images, p)
      BY <2>1, <2>7, <2>10
    <3>2. ASSUME NEW u \in Url
          PROVE  Count(PicturesOf[m.content], {u})
                   = Count(m.images, Shown(u, m.id)) + Waiting(u, m.id)'
      <4>1. PICK id : id = n.id
        OBVIOUS
      <4>2. PICK s \in Seq(Picture) : s = n.images
        BY MessageParts
      <4>3. Count(Append(s, p), Shown(u, id))
              = Count(s, Shown(u, id)) + (IF p \in Shown(u, id) THEN 1 ELSE 0)
        BY CountAppend
      <4>4. p \in Shown(u, id) <=> r.url = u /\ r.owner = id
        BY <2>1, <2>4 DEF Shown
      <4>5. Waiting(u, id)
              = Waiting(u, id)' + (IF r.url = u /\ r.owner = id THEN 1 ELSE 0)
        BY <2>5
      <4>6. Count(PicturesOf[n.content], {u}) = Count(n.images, Shown(u, id)) + Waiting(u, id)
        BY <2>7, <4>1 DEF LinksOf
      <4>7. Count(s, Shown(u, id)) \in Nat
        BY CountFacts
      <4>8. PICK w \in Nat : w = Waiting(u, id)'
        BY <2>8
      <4>9. Count(PicturesOf[n.content], {u}) = Count(Append(s, p), Shown(u, id)) + w
        BY <4>2, <4>3, <4>4, <4>5, <4>6, <4>7, <4>8
      <4> QED BY <3>1, <4>1, <4>2, <4>8, <4>9
    <3> QED BY <3>2 DEF LinksLater
  <2> QED BY <2>9, <2>10
<1>6. ASSUME RunTaskOfFreed PROVE LinksLater(m)
  <2>1. /\ messages' = messages /\ requests' = requests /\ failed' = failed
        /\ tasks # <<>> /\ tasks' = Tail(tasks) /\ At(Head(tasks)) = {}
    BY <1>6 DEF RunTaskOfFreed
  <2>2. PICK n \in Message : n = messages[i] /\ LinksOf(n)
    BY <1>b, <2>1
  <2>3. PICK q \in Seq(Request) : q = tasks
    BY <1>a
  <2>4. PICK r \in Request : r = Head(tasks)
    BY <2>1, <2>3, HeadTailProperties
  <2>5. r.owner # n.id
    <3>1. r \in ToSet(requests \o tasks)
      BY <1>a, <2>1, <2>4, MembersFacts
    <3>2. i \in DOMAIN messages
      BY <1>a, <2>1
    <3>3. r.owner = n.id => r.at = n.at
      BY <2>2, <3>1, <3>2 DEF Addressed
    <3>4. r.at # n.at
      BY <2>1, <2>2, <2>4, <3>2 DEF At
    <3> QED BY <3>3, <3>4
  <2>6. ASSUME NEW u \in Url PROVE Waiting(u, n.id)' = Waiting(u, n.id)
    <3>1. PICK id : id = n.id
      OBVIOUS
    <3>2. Count(q, Asked(u, id)) = Count(Tail(q), Asked(u, id))
                                   + (IF Head(q) \in Asked(u, id) THEN 1 ELSE 0)
      BY <2>1, <2>3, CountTail
    <3>3. r \notin Asked(u, id)
      BY <2>5, <3>1, AskedFact
    <3>4. Count(tasks', Asked(u, id)) \in Nat
      BY WaitingFactsPrime
    <3>5. Count(tasks, Asked(u, id)) = Count(tasks', Asked(u, id))
      BY <2>1, <2>3, <2>4, <3>2, <3>3, <3>4
    <3>6. Waiting(u, id)' = Waiting(u, id)
      BY <2>1, <3>5 DEF Waiting
    <3> QED BY <3>1, <3>6
  <2>7. SameMessage(m, n)
    BY <2>1, <2>2 DEF SameMessage
  <2> QED BY <1>d, <2>2, <2>6, <2>7
<1>7. ASSUME Answer PROVE LinksLater(m)
  <2>1. /\ requests # <<>> /\ requests' = Tail(requests) /\ messages' = messages
        /\ \/ failed' = Append(failed, Head(requests)) /\ tasks' = tasks
           \/ failed' = failed /\ tasks' = Append(tasks, Head(requests))
    BY <1>7 DEF Answer
  <2>2. PICK n \in Message : n = messages[i] /\ LinksOf(n)
    BY <1>b, <2>1
  <2>3. PICK q \in Seq(Request), b \in Seq(Request), f \in Seq(Request) :
          q = requests /\ b = tasks /\ f = failed
    BY <1>a
  <2>4. PICK r \in Request : r = Head(requests)
    BY <2>1, <2>3, HeadTailProperties
  <2>5. ASSUME NEW u, NEW id PROVE Waiting(u, id)' = Waiting(u, id)
    <3> DEFINE one == IF r \in Asked(u, id) THEN 1 ELSE 0
    <3>1. Count(q, Asked(u, id)) = Count(Tail(q), Asked(u, id))
                                   + (IF Head(q) \in Asked(u, id) THEN 1 ELSE 0)
      BY <2>1, <2>3, CountTail
    <3>2. Count(requests, Asked(u, id)) = Count(requests', Asked(u, id)) + one
      BY <2>1, <2>3, <2>4, <3>1
    <3>3. Count(Append(b, r), Asked(u, id)) = Count(b, Asked(u, id)) + one
      BY CountAppend
    <3>4. Count(Append(f, r), Asked(u, id)) = Count(f, Asked(u, id)) + one
      BY CountAppend
    <3>5. /\ Count(requests, Asked(u, id)) \in Nat /\ Count(tasks, Asked(u, id)) \in Nat
          /\ Count(failed, Asked(u, id)) \in Nat /\ Count(requests', Asked(u, id)) \in Nat
      BY WaitingFacts, WaitingFactsPrime
    <3>6. one \in Nat
      OBVIOUS
    <3> HIDE DEF one
    <3>7. CASE failed' = Append(failed, Head(requests)) /\ tasks' = tasks
      BY <2>3, <2>4, <3>2, <3>4, <3>5, <3>6, <3>7 DEF Waiting
    <3>8. CASE failed' = failed /\ tasks' = Append(tasks, Head(requests))
      BY <2>3, <2>4, <3>2, <3>3, <3>5, <3>6, <3>8 DEF Waiting
    <3> QED BY <2>1, <3>7, <3>8
  <2>6. SameMessage(m, n)
    BY <2>1, <2>2 DEF SameMessage
  <2>7. ASSUME NEW u \in Url PROVE Waiting(u, n.id)' = Waiting(u, n.id)
    <3>1. PICK id : id = n.id
      OBVIOUS
    <3>2. Waiting(u, id)' = Waiting(u, id)
      BY <2>5
    <3> QED BY <3>1, <3>2
  <2> QED BY <1>d, <2>2, <2>6, <2>7
<1>8. ASSUME NEW by \in {-1, 1}, ScrollEnd \/ ChangeScroll(by) \/ SelectIndex(by)
      PROVE  LinksLater(m)
  <2>1. UNCHANGED <<messages, requests, tasks, failed>>
    BY <1>8 DEF ScrollEnd, ChangeScroll, SelectIndex
  <2> QED BY <1>f, <1>g, <2>1
<1>9. ASSUME ToChat \/ OpenSearch \/ SearchKey \/ (\E k \in DOMAIN messages : Press(k))
             \/ (\E u \in Url : Age(u)) \/ AnswerMeetsRead \/ UNCHANGED vars
      PROVE  LinksLater(m)
  <2>1. UNCHANGED <<messages, requests, tasks, failed>>
    BY <1>9 DEF ToChat, OpenSearch, SearchKey, Press, Age, AnswerMeetsRead, vars
  <2> QED BY <1>f, <1>g, <2>1
<1> QED BY <1>1, <1>2, <1>3, <1>4, <1>5, <1>6, <1>7, <1>8, <1>9 DEF Next
-----------------------------------------------------------------------------
(* The invariant                                                            *)

\* What PicturesRight says of the links, by the queues.
LEMMA LinksOfState ==
  ASSUME TypeOK
  PROVE  (\A i \in DOMAIN messages, u \in Url :
            LET m == messages[i]
            IN Count(PicturesOf[m.content], {u})
                 = Count(m.images, Shown(u, m.id))
                   + Count(requests \o tasks \o failed, Asked(u, m.id)))
           <=> LinksRight
<1>1. DOMAIN messages = 1 .. Len(messages)
  BY DEF TypeOK
<1>2. \A u, id : Count(requests \o tasks \o failed, Asked(u, id)) = Waiting(u, id)
  BY WaitingFacts
<1> QED BY ZenonT(60), <1>1, <1>2 DEF LinksRight, LinksOf

\* The same of the next state.
LEMMA LinksOfNextState ==
  ASSUME TypeOK',
         \A i \in 1 .. Len(messages') : \A m \in Message : m = messages'[i] => LinksLater(m)
  PROVE  (\A i \in DOMAIN messages, u \in Url :
            LET m == messages[i]
            IN Count(PicturesOf[m.content], {u})
                 = Count(m.images, Shown(u, m.id))
                   + Count(requests \o tasks \o failed, Asked(u, m.id)))'
<1>1. /\ DOMAIN messages' = 1 .. Len(messages')
      /\ \A i \in 1 .. Len(messages') : messages'[i] \in Message
  BY DEF TypeOK
<1> SUFFICES ASSUME NEW i \in DOMAIN messages', NEW u \in Url, NEW m \in Message,
                    m = messages'[i]
             PROVE  Count(PicturesOf[m.content], {u})
                      = Count(m.images, Shown(u, m.id))
                        + Count(requests' \o tasks' \o failed', Asked(u, m.id))
  BY <1>1
<1>2. PICK id : id = m.id
  OBVIOUS
<1>3. Count(requests' \o tasks' \o failed', Asked(u, id)) = Waiting(u, id)'
  BY WaitingFactsPrime
<1>4. LinksLater(m)
  BY <1>1
<1>5. Count(PicturesOf[m.content], {u}) = Count(m.images, Shown(u, m.id)) + Waiting(u, m.id)'
  BY <1>4 DEF LinksLater
<1>6. Waiting(u, m.id)' = Waiting(u, id)'
  BY <1>2
<1> QED BY <1>2, <1>3, <1>5, <1>6

\* A picture has a texture of its pixels where it is sound.
LEMMA PicturesHaveTextures ==
  ASSUME PixelsThere
  PROVE  \A p \in ToSet(overlay)
                   \cup UNION {ToSet(messages[i].images) : i \in DOMAIN messages} :
           p.url \notin Broken => (p.valid <=> p.texture = "pixels")
BY DEF PixelsThere, Sound

\* The invariant holds at first,
LEMMA InitInv == Init => IInv
<1> SUFFICES ASSUME Init PROVE IInv
  OBVIOUS
<1>1. TypeOK
  BY InitTypes
<1>2. /\ messages = <<>> /\ DOMAIN messages = {} /\ Len(messages) = 0
      /\ requests = <<>> /\ tasks = <<>> /\ failed = <<>> /\ overlay = <<>>
      /\ selected_index = -1 /\ receiver = 0 /\ search.result = 0
  BY DEF Init, CHAT
<1>3. ToSet(<<>>) = {} /\ requests \o tasks = <<>> /\ requests \o tasks \o failed = <<>>
  BY <1>2 DEF ToSet
<1>4. SelectedHasKeys /\ ResultPlaced
  BY <1>2 DEF SelectedHasKeys, ResultPlaced
<1>5. Alone /\ Known /\ Addressed
  BY <1>2, <1>3 DEF Alone, Known, Addressed
<1>6. PixelsThere
  BY <1>2, <1>3 DEF PixelsThere
<1>7. PicturesRight
  BY <1>2, <1>6, PicturesHaveTextures DEF PicturesRight
<1> QED BY <1>1, <1>4, <1>5, <1>6, <1>7 DEF IInv

\* every step keeps it,
LEMMA StepInv == IInv /\ [Next]_vars => IInv'
<1> SUFFICES ASSUME IInv, [Next]_vars PROVE IInv'
  OBVIOUS
<1>1. /\ TypeOK /\ ResultPlaced /\ SelectedHasKeys /\ Alone /\ Known /\ Addressed
      /\ PixelsThere /\ PicturesRight
  BY DEF IInv
<1>2. TypeOK'
  BY <1>1, StepTypes
<1>3. SelectedHasKeys' /\ ResultPlaced'
  BY <1>1, <1>2, StepKeys
<1>4. Alone' /\ Known' /\ Addressed'
  BY <1>1, <1>2, StepOwners
<1>5. PixelsThere'
  BY <1>1, <1>2, StepPixels
<1>6. LinksRight
  BY <1>1, LinksOfState DEF PicturesRight
<1>7. \A i \in 1 .. Len(messages') : \A m \in Message : m = messages'[i] => LinksLater(m)
  BY <1>1, <1>2, <1>6, StepLinks
<1>8. PicturesRight'
  <2>1. (\A p \in ToSet(overlay)
                 \cup UNION {ToSet(messages[i].images) : i \in DOMAIN messages} :
           p.url \notin Broken => (p.valid <=> p.texture = "pixels"))'
    BY <1>5 DEF PixelsThere, Sound
  <2> QED BY <1>2, <1>7, <2>1, LinksOfNextState DEF PicturesRight
<1> QED BY <1>2, <1>3, <1>4, <1>5, <1>8 DEF IInv

\* and so it always holds.
LEMMA Invariant == Spec => []IInv
<1>1. Init => IInv
  BY InitInv
<1>2. IInv /\ [Next]_vars => IInv'
  BY StepInv
<1> QED BY <1>1, <1>2, PTL DEF Spec

\* message_list.cc, irc_event_handler.cc: the variables of the list have their
\* types: nothing is out of the lists, the heights are numbers.
THEOREM TypesAreKept == Spec => []TypeOK
<1>1. IInv => TypeOK
  BY DEF IInv
<1> QED BY <1>1, Invariant, PTL

\* SelectedHasKeys: the keys go to a message of the list that is the selected one,
\* however many came behind it, unless a search moved the selection; and what a
\* search found is the message at its place.
THEOREM KeysGoToTheSelected == Spec => []SelectedHasKeys
<1>1. IInv => SelectedHasKeys
  BY DEF IInv
<1> QED BY <1>1, Invariant, PTL

\* PicturesRight: every picture link of a message is asked for, on its way, shown
\* or no picture, once, and a picture has a texture of its pixels, however the
\* answers, the tasks and the deletions of messages interleave.
THEOREM PicturesAreRight == Spec => []PicturesRight
<1>1. IInv => PicturesRight
  BY DEF IInv
<1> QED BY <1>1, Invariant, PTL

\* FollowsEnd: a view at the end is at the end after new messages and pictures.
THEOREM TheViewFollows == Spec => FollowsEnd
<1>1. IInv /\ [Next]_vars => [Follows]_vars
  <2>1. IInv => TypeOK
    BY DEF IInv
  <2> QED BY <2>1, StepFollows
<1>2. IInv /\ [Next]_vars
        => [(/\ view.offset = End(view) /\ view.offset > 0
             /\ view'.height # view.height /\ view'.available = view.available
             /\ search' = search)
            => IF End(view') < 0 THEN view'.offset <= 0 ELSE view'.offset = End(view')]_vars
  BY <1>1 DEF Follows
<1> QED BY <1>2, Invariant, PTL DEF Spec, FollowsEnd
=============================================================================
