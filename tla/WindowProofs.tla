---------------------------- MODULE WindowProofs ----------------------------
(***************************************************************************)
(* Window for every network, channel, item and text, and any number of      *)
(* them: WindowInv is inductive, so the selection is one of the list, the   *)
(* keys go to what is shown and an item is of the kind it is taken for.     *)
(***************************************************************************)
EXTENDS Window, SequenceTheorems, FiniteSetTheorems, TLAPS

(* Induction                                                                *)

\* A set of numbers has a least element: of the intervals 0 .. n of its
\* elements one is minimal.
LEMMA LeastElement ==
  ASSUME NEW T, T \subseteq Nat, T # {}
  PROVE  \E m \in T : \A n \in T : m <= n
<1> DEFINE R == StrictSubsetOrdering(Nat)
           D == {0 .. n : n \in T}
<1>1. IsWellFoundedOn(R, FiniteSubsetsOf(Nat))
  BY FS_StrictSubsetOrderingWellFounded
<1>2. D \subseteq FiniteSubsetsOf(Nat) /\ D # {}
  <2>1. \A n \in Nat : 0 .. n \in FiniteSubsetsOf(Nat)
    BY FS_Interval DEF FiniteSubsetsOf
  <2> QED BY <2>1
<1> HIDE DEF R
<1>3. PICK x \in D : \A y \in D : <<y, x>> \notin R
  BY <1>1, <1>2, WFMin
<1>4. PICK m \in T : x = 0 .. m
  OBVIOUS
<1>5. ASSUME NEW n \in T, n < m PROVE FALSE
  <2>1. /\ 0 .. n \subseteq 0 .. m /\ 0 .. n # 0 .. m
        /\ 0 .. n \in SUBSET Nat /\ 0 .. m \in SUBSET Nat
    BY <1>5
  <2>2. <<0 .. n, 0 .. m>> \in R
    BY <2>1 DEF R, StrictSubsetOrdering
  <2> QED BY <2>2, <1>3, <1>4
<1> QED BY <1>5

\* What holds at 0 and from each number to the next holds up to n.
LEMMA InductionUpTo ==
  ASSUME NEW n \in Nat, NEW P, 0 \in P,
         \A i \in 1 .. n : i - 1 \in P => i \in P
  PROVE  \A i \in 0 .. n : i \in P
<1> DEFINE T == {i \in 0 .. n : i \notin P}
<1> SUFFICES ASSUME T # {} PROVE FALSE
  OBVIOUS
<1>1. PICK m \in T : \A k \in T : m <= k
  <2>1. T \subseteq Nat
    OBVIOUS
  <2> HIDE DEF T
  <2> QED BY <2>1, LeastElement
<1>2. m \in 1 .. n /\ m - 1 \in 0 .. n /\ m - 1 \notin T
  BY <1>1
<1> QED BY <1>1, <1>2

\* The functions on 0 .. n that go by the steps G from a value to the next.
Recursions(V, start, n, G) ==
  {f \in [0 .. n -> V] : f[0] = start /\ \A i \in 1 .. n : f[i] = G[i][f[i - 1]]}

\* There is one, if the steps stay among the values.
LEMMA RecursionExists ==
  ASSUME NEW V, NEW start \in V, NEW n \in Nat, NEW G \in [1 .. n -> [V -> V]]
  PROVE  Recursions(V, start, n, G) # {}
<1> DEFINE Makes(f, m) == f[0] = start /\ \A i \in 1 .. m : f[i] = G[i][f[i - 1]]
           P == {m \in 0 .. n : \E f \in [0 .. m -> V] : Makes(f, m)}
<1>1. 0 \in P
  <2> DEFINE f == [i \in 0 .. 0 |-> start]
  <2>1. f \in [0 .. 0 -> V] /\ Makes(f, 0)
    OBVIOUS
  <2> HIDE DEF f
  <2> QED BY <2>1
<1>2. ASSUME NEW m \in 1 .. n, m - 1 \in P PROVE m \in P
  <2>1. PICK g \in [0 .. m - 1 -> V] : Makes(g, m - 1)
    BY <1>2
  <2> DEFINE f == [i \in 0 .. m |-> IF i = m THEN G[m][g[m - 1]] ELSE g[i]]
  <2>2. f \in [0 .. m -> V]
    <3>1. G[m] \in [V -> V] /\ g[m - 1] \in V
      OBVIOUS
    <3>2. G[m][g[m - 1]] \in V
      BY <3>1
    <3>3. \A i \in 0 .. m : i # m => i \in 0 .. m - 1
      OBVIOUS
    <3> QED BY <3>2, <3>3
  <2>3. ASSUME NEW i \in 1 .. m PROVE f[i] = G[i][f[i - 1]]
    <3>1. i - 1 \in 0 .. m - 1 /\ f[i - 1] = g[i - 1]
      OBVIOUS
    <3>2. i # m => f[i] = g[i] /\ g[i] = G[i][g[i - 1]]
      BY <2>1
    <3> QED BY <3>1, <3>2
  <2>4. Makes(f, m)
    BY <2>1, <2>3
  <2> HIDE DEF f
  <2>5. m \in 0 .. n
    OBVIOUS
  <2> HIDE DEF Makes
  <2> QED BY <2>2, <2>4, <2>5
<1> HIDE DEF P
<1>3. \A i \in 0 .. n : i \in P
  BY <1>1, <1>2, InductionUpTo
<1> QED BY <1>3 DEF P, Recursions
-----------------------------------------------------------------------------
(* The operators of the list                                                *)

\* The larger of two numbers.
LEMMA MaxOfTwo ==
  ASSUME NEW a \in Int, NEW b \in Int
  PROVE  Max({a, b}) \in {a, b} /\ Max({a, b}) >= a /\ Max({a, b}) >= b
<1>1. \E x \in {a, b} : \A y \in {a, b} : x >= y
  <2>1. CASE a >= b
    BY <2>1
  <2>2. CASE b >= a
    BY <2>2
  <2> QED BY <2>1, <2>2
<1>2. Max({a, b}) \in {a, b} /\ \A y \in {a, b} : Max({a, b}) >= y
  BY <1>1 DEF Max
<1> QED BY <1>2

\* The smaller of two numbers.
LEMMA MinOfTwo ==
  ASSUME NEW a \in Int, NEW b \in Int
  PROVE  Min({a, b}) \in {a, b} /\ Min({a, b}) <= a /\ Min({a, b}) <= b
<1>1. \E x \in {a, b} : \A y \in {a, b} : x =< y
  <2>1. CASE a <= b
    BY <2>1
  <2>2. CASE b <= a
    BY <2>2
  <2> QED BY <2>1, <2>2
<1>2. Min({a, b}) \in {a, b} /\ \A y \in {a, b} : Min({a, b}) =< y
  BY <1>1 DEF Min
<1> QED BY <1>2

\* The largest of some places.
LEMMA MaxOfPlaces ==
  ASSUME NEW n \in Nat, NEW T, T \subseteq 1 .. n, T # {}
  PROVE  Max(T) \in T
<1> DEFINE U == {n - i : i \in T}
<1>1. U \subseteq Nat /\ U # {}
  <2>1. \A i \in T : n - i \in Nat
    OBVIOUS
  <2> QED BY <2>1
<1>2. PICK m \in U : \A k \in U : m <= k
  <2> HIDE DEF U
  <2> QED BY <1>1, LeastElement
<1>3. PICK x \in T : m = n - x
  OBVIOUS
<1>4. ASSUME NEW y \in T PROVE x >= y
  <2>1. n - y \in U
    OBVIOUS
  <2>2. m <= n - y
    BY <1>2, <2>1
  <2> QED BY <1>3, <2>2
<1> QED BY <1>3, <1>4 DEF Max

\* What is found are places of the vector, no more than it has.
LEMMA FoundPlaces ==
  ASSUME NEW S, NEW items \in Seq(S), NEW text
  PROVE  /\ Found(items, text) \in Seq(1 .. Len(items))
         /\ Len(Found(items, text)) <= Len(items)
<1> DEFINE n == Len(items)
           V == Seq(1 .. n)
           none == <<>>
           Hit(i) == Matches(items[i].name, text)
           Makes(f) == f = [i \in 0 .. n |->
                              IF i = 0 THEN none
                              ELSE IF Hit(i) THEN Append(f[i - 1], i) ELSE f[i - 1]]
           G == [i \in 1 .. n |-> [v \in V |-> IF Hit(i) THEN Append(v, i) ELSE v]]
<1>1. n \in Nat /\ none \in V
  OBVIOUS
<1>2. Found(items, text) = (CHOOSE f : Makes(f))[n]
  BY DEF Found
<1> HIDE DEF Hit, n, none
<1>3. G \in [1 .. n -> [V -> V]]
  <2>1. ASSUME NEW i \in 1 .. n, NEW v \in V
        PROVE  (IF Hit(i) THEN Append(v, i) ELSE v) \in V
    <3>1. Append(v, i) \in V
      BY <1>1
    <3> QED BY <3>1
  <2> HIDE DEF V
  <2> QED BY <2>1
<1>4. \A i \in 1 .. n : \A v \in V : G[i][v] = IF Hit(i) THEN Append(v, i) ELSE v
  OBVIOUS
<1> HIDE DEF G, V
<1>5. PICK g \in [0 .. n -> V] :
        g[0] = none /\ \A i \in 1 .. n : g[i] = G[i][g[i - 1]]
  <2>1. Recursions(V, none, n, G) # {}
    BY <1>1, <1>3, RecursionExists
  <2> QED BY <2>1 DEF Recursions
<1>6. Makes(g)
  <2>1. \A i \in 0 .. n : i # 0 => i \in 1 .. n /\ i - 1 \in 0 .. n /\ g[i - 1] \in V
    BY <1>1
  <2>2. \A i \in 0 .. n : g[i] = IF i = 0 THEN none
                                 ELSE IF Hit(i) THEN Append(g[i - 1], i) ELSE g[i - 1]
    BY <1>4, <1>5, <2>1
  <2> QED BY <1>5, <2>2
<1> DEFINE F == CHOOSE f : Makes(f)
<1>7. Makes(F)
  <2> HIDE DEF Makes
  <2> QED BY <1>6
<1> HIDE DEF F
<1>8. /\ F[0] = none
      /\ \A i \in 1 .. n : F[i] = IF Hit(i) THEN Append(F[i - 1], i) ELSE F[i - 1]
  <2>1. 0 \in 0 .. n /\ \A i \in 1 .. n : i \in 0 .. n /\ i # 0
    BY <1>1
  <2> QED BY <1>7, <2>1
<1> HIDE DEF Makes
<1> DEFINE P == {i \in 0 .. n : F[i] \in Seq(1 .. n) /\ Len(F[i]) <= i}
<1>9. 0 \in P
  <2>1. none \in Seq(1 .. n) /\ Len(none) = 0
    BY DEF none
  <2>2. F[0] \in Seq(1 .. n) /\ Len(F[0]) <= 0 /\ 0 \in 0 .. n
    BY <1>1, <1>8, <2>1
  <2> QED BY <2>2
<1>10. ASSUME NEW i \in 1 .. n, i - 1 \in P PROVE i \in P
  <2>1. F[i - 1] \in Seq(1 .. n) /\ Len(F[i - 1]) <= i - 1 /\ i \in 0 .. n
    BY <1>1, <1>10
  <2>2. /\ Append(F[i - 1], i) \in Seq(1 .. n)
        /\ Len(Append(F[i - 1], i)) = Len(F[i - 1]) + 1
    BY <2>1
  <2>3. F[i] = Append(F[i - 1], i) \/ F[i] = F[i - 1]
    BY <1>8
  <2>4. Len(F[i - 1]) \in Nat
    BY <2>1
  <2>5. F[i] \in Seq(1 .. n)
    BY <2>1, <2>2, <2>3
  <2>6. Len(F[i]) = Len(F[i - 1]) + 1 \/ Len(F[i]) = Len(F[i - 1])
    BY <2>2, <2>3
  <2> HIDE DEF P
  <2>7. Len(F[i]) <= i
    <3> DEFINE k == Len(F[i - 1])
    <3>1. k \in Nat /\ k <= i - 1 /\ i \in Int /\ (Len(F[i]) = k + 1 \/ Len(F[i]) = k)
      BY <1>1, <2>1, <2>4, <2>6
    <3> HIDE DEF k
    <3> QED BY <3>1
  <2> QED BY <2>1, <2>5, <2>7 DEF P
<1> HIDE DEF P
<1>11. n \in P
  <2>1. \A i \in 0 .. n : i \in P
    BY <1>1, <1>9, <1>10, InductionUpTo
  <2> QED BY <1>1, <2>1
<1>12. Found(items, text) = F[n]
  BY <1>2 DEF F
<1> QED BY <1>11, <1>12 DEF P, n

\* Nothing but the items, the capacity and where the memory is changes.
Grown(l, m) ==
  /\ m \in ListType /\ Len(m.items) <= m.capacity /\ l.capacity <= m.capacity
  /\ m.given = l.given /\ m.filtered = l.filtered /\ m.selected = l.selected
  /\ m.index = l.index /\ m.text = l.text

\* push_back.
LEMMA PushItemGrows ==
  ASSUME NEW l \in ListType, Len(l.items) <= l.capacity, NEW item \in Item
  PROVE  Grown(l, PushItem(l, item)) /\ PushItem(l, item).items = Append(l.items, item)
<1> DEFINE c == Max({1, 2 * l.capacity})
           m == PushItem(l, item)
<1>1. /\ l.items \in Seq(Item) /\ l.capacity \in Nat /\ l.moved \in BOOLEAN
      /\ l.given \in BOOLEAN /\ l.filtered \in Seq(Nat) /\ l.selected \in Nat
      /\ l.index \in Int /\ l.text \in Seq(Letter)
  BY DEF ListType
<1>2. c \in Nat /\ c >= 1 /\ c >= 2 * l.capacity
  <2>1. 2 * l.capacity \in Int
    BY <1>1
  <2>2. 1 \in Int
    OBVIOUS
  <2> HIDE DEF c
  <2>3. c \in {1, 2 * l.capacity} /\ c >= 1 /\ c >= 2 * l.capacity
    BY <2>1, <2>2, MaxOfTwo, Zenon DEF c
  <2> QED BY <1>1, <2>3
<1>3. Append(l.items, item) \in Seq(Item) /\ Len(Append(l.items, item)) = Len(l.items) + 1
      /\ Len(l.items) \in Nat
  BY <1>1
<1> HIDE DEF c
<1>4. m = [l EXCEPT !.items = Append(@, item), !.moved = @ \/ Len(l.items) = l.capacity,
                    !.capacity = IF Len(l.items) = l.capacity THEN c ELSE @]
  BY DEF PushItem, c
<1>5. /\ m.items = Append(l.items, item) /\ m.given = l.given /\ m.filtered = l.filtered
      /\ m.selected = l.selected /\ m.index = l.index /\ m.text = l.text
      /\ m.capacity = IF Len(l.items) = l.capacity THEN c ELSE l.capacity
      /\ m.moved = (l.moved \/ Len(l.items) = l.capacity)
      /\ m = [items |-> m.items, capacity |-> m.capacity, moved |-> m.moved,
              given |-> m.given, filtered |-> m.filtered, selected |-> m.selected,
              index |-> m.index, text |-> m.text]
  BY <1>4 DEF ListType
<1> HIDE DEF m
<1>6. m.capacity \in Nat /\ Len(m.items) <= m.capacity /\ l.capacity <= m.capacity
  BY <1>1, <1>2, <1>3, <1>5
<1>7. m.moved \in BOOLEAN
  BY <1>5
<1>8. m \in ListType
  BY <1>1, <1>3, <1>5, <1>6, <1>7 DEF ListType
<1> QED BY <1>5, <1>6, <1>8 DEF Grown, m

\* The vector is filled again after it was cleared: it holds what it was given.
LEMMA PushItemsGrows ==
  ASSUME NEW l \in ListType, l.items = <<>>, NEW items \in Seq(Item)
  PROVE  /\ Grown(l, PushItems(l, items))
         /\ DOMAIN PushItems(l, items).items = DOMAIN items
         /\ \A i \in DOMAIN items : PushItems(l, items).items[i] = items[i]
<1> DEFINE n == Len(items)
           V == {m \in ListType : Len(m.items) <= m.capacity}
           Makes(f) == f = [i \in 0 .. n |-> IF i = 0 THEN l ELSE PushItem(f[i - 1], items[i])]
           G == [i \in 1 .. n |-> [v \in V |-> PushItem(v, items[i])]]
<1>1. n \in Nat /\ \A i \in 1 .. n : items[i] \in Item
  OBVIOUS
<1>2. l \in V /\ Len(l.items) = 0
  <2>1. Len(l.items) = 0 /\ l.capacity \in Nat
    BY DEF ListType
  <2> QED BY <2>1
<1>3. PushItems(l, items) = (CHOOSE f : Makes(f))[n]
  BY DEF PushItems
<1> HIDE DEF n
<1>4. \A i \in 1 .. n : \A v \in V :
        /\ PushItem(v, items[i]) \in V /\ Grown(v, PushItem(v, items[i]))
        /\ PushItem(v, items[i]).items = Append(v.items, items[i])
  BY <1>1, PushItemGrows DEF Grown
<1> HIDE DEF V
<1>5. G \in [1 .. n -> [V -> V]] /\ \A i \in 1 .. n : \A v \in V : G[i][v] = PushItem(v, items[i])
  BY <1>4
<1> HIDE DEF G
<1>6. PICK g \in [0 .. n -> V] :
        g[0] = l /\ \A i \in 1 .. n : g[i] = G[i][g[i - 1]]
  <2>1. Recursions(V, l, n, G) # {}
    BY <1>1, <1>2, <1>5, RecursionExists
  <2> QED BY <2>1 DEF Recursions
<1>7. Makes(g)
  <2>1. \A i \in 0 .. n : i # 0 => i \in 1 .. n /\ i - 1 \in 0 .. n /\ g[i - 1] \in V
    BY <1>1
  <2>2. \A i \in 0 .. n : g[i] = IF i = 0 THEN l ELSE PushItem(g[i - 1], items[i])
    BY <1>5, <1>6, <2>1
  <2> QED BY <1>6, <2>2
<1> DEFINE F == CHOOSE f : Makes(f)
<1>8. Makes(F)
  <2> HIDE DEF Makes
  <2> QED BY <1>7
<1> HIDE DEF F
<1>9. F[0] = l /\ \A i \in 1 .. n : F[i] = PushItem(F[i - 1], items[i])
  <2>1. 0 \in 0 .. n /\ \A i \in 1 .. n : i \in 0 .. n /\ i # 0
    BY <1>1
  <2> QED BY <1>8, <2>1
<1> HIDE DEF Makes
<1> DEFINE Holds(i, m) == /\ m \in V /\ Grown(l, m) /\ Len(m.items) = i
                          /\ \A j \in 1 .. i : m.items[j] = items[j]
           P == {i \in 0 .. n : Holds(i, F[i])}
<1>10. 0 \in P
  <2>1. Grown(l, l)
    BY <1>2 DEF Grown, ListType
  <2>2. Holds(0, l)
    BY <1>2, <2>1
  <2> HIDE DEF Holds
  <2> QED BY <1>1, <1>9, <2>2
<1>11. ASSUME NEW i \in 1 .. n, i - 1 \in P PROVE i \in P
  <2> DEFINE m == F[i - 1]
             k == F[i]
  <2>1. /\ m \in V /\ Grown(l, m) /\ Len(m.items) = i - 1 /\ i \in 0 .. n /\ i \in 1 .. n
        /\ \A j \in 1 .. i - 1 : m.items[j] = items[j]
    BY <1>1, <1>11
  <2>2. k = PushItem(m, items[i])
    BY <1>9
  <2> HIDE DEF m, k, P
  <2>3. k \in V /\ Grown(m, k) /\ k.items = Append(m.items, items[i])
    BY <1>4, <2>1, <2>2
  <2>4. Grown(l, k)
    <3>1. l.capacity \in Nat /\ m.capacity \in Nat /\ k.capacity \in Nat
      BY <2>1, <2>3 DEF Grown, ListType
    <3> QED BY <2>1, <2>3, <3>1 DEF Grown
  <2>5. m.items \in Seq(Item) /\ items[i] \in Item
    BY <1>1, <2>1 DEF V, ListType
  <2>6. /\ Len(k.items) = i
        /\ \A j \in 1 .. i : k.items[j] = IF j = i THEN items[i] ELSE m.items[j]
    BY <2>1, <2>3, <2>5
  <2>7. \A j \in 1 .. i : k.items[j] = items[j]
    BY <2>1, <2>6
  <2> QED BY <2>1, <2>3, <2>4, <2>6, <2>7 DEF P, k
<1>12. Holds(n, F[n])
  <2> HIDE DEF P
  <2>1. \A i \in 0 .. n : i \in P
    BY <1>1, <1>10, <1>11, InductionUpTo
  <2>2. n \in P
    BY <1>1, <2>1
  <2> QED BY <2>2 DEF P
<1>13. PushItems(l, items) = F[n]
  BY <1>3 DEF F
<1> DEFINE p == PushItems(l, items)
<1>14. Grown(l, p) /\ Len(p.items) = n /\ \A j \in 1 .. n : p.items[j] = items[j]
  BY <1>12, <1>13
<1> HIDE DEF p
<1>15. p.items \in Seq(Item)
  BY <1>14 DEF Grown, ListType
<1>16. DOMAIN p.items = 1 .. n /\ DOMAIN items = 1 .. n
  BY <1>14, <1>15 DEF n
<1> QED BY <1>14, <1>16 DEF p

\* A list that is in order, made of another one by a key or the mouse.
Follows(l, m) ==
  /\ Addresses(m) /\ Selected(m) /\ m.items = l.items /\ m.given = l.given
  /\ Fresh(l) => Fresh(m)

\* Selecting one of the items that are shown.
LEMMA SelectFollows ==
  ASSUME NEW l, Addresses(l), Selected(l), NEW index \in 0 .. Len(l.filtered) - 1
  PROVE  Follows(l, Select(l, index))
<1> DEFINE m == Select(l, index)
<1>1. l \in ListType /\ l.filtered \in Seq(Nat) /\ index \in Int
  BY DEF Addresses, ListType
<1>2. index + 1 \in DOMAIN l.filtered /\ l.filtered[index + 1] \in Nat /\ l.filtered # <<>>
  BY <1>1
<1>3. /\ m.items = l.items /\ m.given = l.given /\ m.filtered = l.filtered
      /\ m.text = l.text /\ m.capacity = l.capacity
      /\ m.index = index /\ m.selected = l.filtered[index + 1] /\ m \in ListType
  BY <1>1, <1>2 DEF Select, ListType
<1> HIDE DEF m
<1>4. Addresses(m) /\ Selected(m)
  BY <1>2, <1>3 DEF Addresses, Selected
<1>5. Fresh(l) => Fresh(m)
  BY <1>3 DEF Fresh
<1> QED BY <1>3, <1>4, <1>5 DEF Follows, m

\* Whatever was selected, what is selected afterwards is shown, and something
\* is selected if something is shown.
LEMMA RecomputeInOrder ==
  ASSUME NEW l \in ListType, Len(l.items) <= l.capacity,
         ~l.given => l.selected = 0 /\ l.index = -1
  PROVE  /\ Addresses(Recompute(l)) /\ Selected(Recompute(l)) /\ Fresh(Recompute(l))
         /\ Recompute(l).items = l.items /\ Recompute(l).given = l.given
<1>1. /\ l.items \in Seq(Item) /\ l.capacity \in Nat /\ l.moved \in BOOLEAN
      /\ l.given \in BOOLEAN /\ l.filtered \in Seq(Nat) /\ l.selected \in Nat
      /\ l.index \in Int /\ l.text \in Seq(Letter)
  BY DEF ListType
<1>2. CASE ~l.given
  <2> DEFINE r == [l EXCEPT !.filtered = <<>>]
  <2>1. Recompute(l) = r
    BY <1>2 DEF Recompute
  <2>2. /\ r.items = l.items /\ r.given = l.given /\ r.filtered = <<>>
        /\ r.capacity = l.capacity /\ r.selected = 0 /\ r.index = -1
    BY <1>2 DEF ListType
  <2>5. r \in ListType
    <3>1. <<>> \in Seq(Nat)
      OBVIOUS
    <3> QED BY <1>2, <3>1 DEF ListType
  <2> HIDE DEF r
  <2>3. Addresses(r)
    BY <1>1, <2>2, <2>5 DEF Addresses
  <2>4. Selected(r) /\ Fresh(r)
    BY <1>2, <2>2 DEF Selected, Fresh
  <2> QED BY <2>1, <2>2, <2>3, <2>4
<1>3. CASE l.given
  <2> DEFINE filtered == Found(l.items, l.text)
             at == {i \in DOMAIN filtered : filtered[i] = l.selected}
             m == [l EXCEPT !.filtered = filtered, !.moved = FALSE,
                            !.selected = IF at = {} THEN 0 ELSE @,
                            !.index = IF at = {} THEN -1 ELSE Max(at) - 1]
             r == IF at = {} /\ filtered # <<>> THEN Select(m, 0) ELSE m
  <2>1. Recompute(l) = r
    BY <1>3 DEF Recompute
  <2>2. filtered \in Seq(1 .. Len(l.items)) /\ Len(filtered) <= Len(l.items)
    BY <1>1, FoundPlaces
  <2> HIDE DEF filtered
  <2>3. /\ filtered \in Seq(Nat) /\ Len(filtered) \in Nat /\ Len(filtered) <= l.capacity
        /\ DOMAIN filtered = 1 .. Len(filtered)
        /\ \A i \in DOMAIN filtered : filtered[i] \in 1 .. l.capacity
    BY <1>1, <2>2
  <2>4. at # {} => Max(at) \in at
    BY <2>3, MaxOfPlaces
  <2>5. at # {} => Max(at) \in DOMAIN filtered /\ filtered[Max(at)] = l.selected
    BY <2>4
  <2> HIDE DEF at
  <2>6. /\ m.items = l.items /\ m.given = l.given /\ m.filtered = filtered
        /\ m.capacity = l.capacity /\ m.text = l.text
        /\ m.selected = (IF at = {} THEN 0 ELSE l.selected)
        /\ m.index = (IF at = {} THEN -1 ELSE Max(at) - 1)
    BY DEF ListType
  <2>7. m.index \in Int /\ m.selected \in Nat
    BY <1>1, <2>3, <2>5, <2>6
  <2>8. m \in ListType
    BY <1>1, <2>3, <2>6, <2>7 DEF ListType
  <2> HIDE DEF m
  <2>9. Addresses(m) /\ Fresh(m)
    BY <2>3, <2>6, <2>8 DEF Addresses, Fresh, filtered
  <2>10. CASE at # {}
    <3>1. r = m /\ m.index = Max(at) - 1 /\ Max(at) \in DOMAIN filtered
          /\ m.selected = filtered[Max(at)]
      BY <2>5, <2>6, <2>10
    <3>2. m.index + 1 = Max(at)
      BY <2>3, <3>1
    <3>3. filtered # <<>>
      BY <2>3, <3>1
    <3>4. Selected(m)
      BY <1>3, <2>6, <3>1, <3>2, <3>3 DEF Selected
    <3> QED BY <2>1, <2>6, <2>9, <3>1, <3>4
  <2>11. CASE at = {} /\ filtered = <<>>
    <3>1. r = m
      BY <2>11
    <3>2. Selected(m)
      BY <1>3, <2>6, <2>11 DEF Selected
    <3> QED BY <2>1, <2>6, <2>9, <3>1, <3>2
  <2>12. CASE at = {} /\ filtered # <<>>
    <3>1. r = Select(m, 0)
      BY <2>12
    <3>2. 0 + 1 \in DOMAIN filtered /\ filtered[0 + 1] \in Nat /\ filtered[0 + 1] \in 1 .. l.capacity
      BY <2>3, <2>12
    <3> DEFINE s == Select(m, 0)
    <3>3. /\ s.items = l.items /\ s.given = l.given /\ s.filtered = filtered /\ s.text = l.text
          /\ s.capacity = l.capacity /\ s.index = 0 /\ s.selected = filtered[0 + 1]
      BY <2>6, <2>8, <3>2 DEF Select, ListType
    <3>6. s \in ListType
      <4>1. s = [m EXCEPT !.index = 0, !.selected = filtered[0 + 1]]
        BY <2>6 DEF Select
      <4>2. 0 \in Int
        OBVIOUS
      <4> HIDE DEF s
      <4> QED BY <4>2, <2>8, <3>2, <4>1 DEF ListType
    <3> HIDE DEF s
    <3>4. Addresses(s)
      BY <2>3, <3>3, <3>6 DEF Addresses
    <3>5. Selected(s) /\ Fresh(s)
      BY <1>3, <2>12, <3>2, <3>3 DEF Selected, Fresh, filtered
    <3> QED BY <2>1, <3>1, <3>3, <3>4, <3>5 DEF s
  <2> QED BY <2>10, <2>11, <2>12
<1> QED BY <1>1, <1>2, <1>3

\* Another text.
LEMMA RecomputeFollows ==
  ASSUME NEW l, Addresses(l), Selected(l), NEW text \in Seq(Letter)
  PROVE  Follows(l, Recompute([l EXCEPT !.text = text]))
<1> DEFINE m == [l EXCEPT !.text = text]
<1>1. l \in ListType /\ Len(l.items) <= l.capacity
  BY DEF Addresses
<1>2. /\ m \in ListType /\ m.items = l.items /\ m.given = l.given /\ m.selected = l.selected
      /\ m.capacity = l.capacity /\ m.index = l.index
  BY <1>1 DEF ListType
<1>3. ~l.given => l.selected = 0 /\ l.index = -1
  BY DEF Selected
<1> HIDE DEF m
<1>4. /\ Addresses(Recompute(m)) /\ Selected(Recompute(m)) /\ Fresh(Recompute(m))
      /\ Recompute(m).items = m.items /\ Recompute(m).given = m.given
  BY <1>1, <1>2, <1>3, RecomputeInOrder
<1> QED BY <1>2, <1>4 DEF Follows, m

\* A list follows itself.
LEMMA SameFollows == \A l : Addresses(l) /\ Selected(l) => Follows(l, l)
BY DEF Follows

\* onKey, with no other key held.
LEMMA ListKeyFollows ==
  ASSUME NEW l, Addresses(l), Selected(l), NEW key \in {"backspace", "up", "down"}
  PROVE  Follows(l, ListKey(l, key, FALSE, FALSE))
<1>1. /\ l.text \in Seq(Letter) /\ l.index \in Int /\ l.filtered \in Seq(Nat)
      /\ Len(l.filtered) \in Nat /\ DOMAIN l.filtered = 1 .. Len(l.filtered)
  BY DEF Addresses, ListType
<1>2. CASE key = "backspace"
  <2> DEFINE input == [data |-> l.text, text_x |-> Len(l.text), last_point |-> 0]
             text == RemoveChar(input).data
  <2>1. ListKey(l, key, FALSE, FALSE) = Recompute([l EXCEPT !.text = text])
    BY <1>2 DEF ListKey
  <2>2. text \in Seq(Letter)
    <3>1. CASE Len(l.text) = 0
      BY <1>1, <3>1 DEF RemoveChar
    <3>2. CASE Len(l.text) # 0
      <4> DEFINE n == Len(l.text)
                 before == SubSeq(l.text, 1, n)
                 behind == SubSeq(l.text, n + 1, n)
      <4>1. n \in Nat /\ n >= 1 /\ \A i \in 1 .. n : l.text[i] \in Letter
        BY <1>1, <3>2
      <4>2. before \in Seq(Letter) /\ Len(before) = n
        <5>1. \A i \in 1 .. n : l.text[i] \in Letter
          BY <4>1
        <5> QED BY <1>1, <4>1, <5>1
      <4>3. behind \in Seq(Letter)
        BY <1>1, <4>1
      <4> HIDE DEF before
      <4>4. SubSeq(before, 1, n - 1) \in Seq(Letter)
        BY <4>1, <4>2
      <4>5. text = SubSeq(before, 1, n - 1) \o behind
        BY <3>2, <4>2 DEF RemoveChar, Changed, Before, Behind, Front, before
      <4> HIDE DEF n, behind, text
      <4> QED BY <4>3, <4>4, <4>5, ConcatProperties
    <3> QED BY <3>1, <3>2
  <2> HIDE DEF text
  <2> QED BY <2>1, <2>2, RecomputeFollows
<1>3. CASE key = "up"
  <2>1. CASE l.index > 0
    <3>1. ListKey(l, key, FALSE, FALSE) = Select(l, l.index - 1)
      BY <1>3, <2>1 DEF ListKey
    <3>2. l.filtered # <<>>
      BY <2>1 DEF Selected
    <3>3. l.index + 1 \in 1 .. Len(l.filtered)
      BY <1>1, <3>2 DEF Selected
    <3>4. l.index - 1 \in 0 .. Len(l.filtered) - 1
      BY <1>1, <2>1, <3>3
    <3> QED BY <3>1, <3>4, SelectFollows
  <2>2. CASE ~(l.index > 0)
    <3>1. ListKey(l, key, FALSE, FALSE) = l
      BY <1>3, <2>2 DEF ListKey
    <3> QED BY <3>1, SameFollows
  <2> QED BY <2>1, <2>2
<1>4. CASE key = "down"
  <2>1. CASE l.index \in 0 .. Len(l.filtered) - 2
    <3>1. ListKey(l, key, FALSE, FALSE) = Select(l, l.index + 1)
      BY <1>4, <2>1 DEF ListKey
    <3>2. l.index + 1 \in 0 .. Len(l.filtered) - 1
      BY <1>1, <2>1
    <3> QED BY <3>1, <3>2, SelectFollows
  <2>2. CASE ~(l.index \in 0 .. Len(l.filtered) - 2)
    <3>1. ListKey(l, key, FALSE, FALSE) = l
      BY <1>4, <2>2 DEF ListKey
    <3> QED BY <3>1, SameFollows
  <2> QED BY <2>1, <2>2
<1> QED BY <1>2, <1>3, <1>4

\* onMouseWheel.
LEMMA WheelFollows ==
  ASSUME NEW l, Addresses(l), Selected(l), NEW up \in BOOLEAN
  PROVE  Follows(l, Wheel(l, up))
<1>1. /\ l.index \in Int /\ l.filtered \in Seq(Nat)
      /\ Len(l.filtered) \in Nat /\ DOMAIN l.filtered = 1 .. Len(l.filtered)
  BY DEF Addresses, ListType
<1>2. CASE l.filtered = <<>>
  BY <1>2, SameFollows DEF Wheel
<1>3. CASE l.filtered # <<>>
  <2>1. l.index + 1 \in 1 .. Len(l.filtered)
    BY <1>1, <1>3 DEF Selected
  <2> DEFINE n == Len(l.filtered)
             least == Min({l.index + 1, n - 1})
             most == Max({l.index - 1, 0})
  <2>2. Wheel(l, up) = Select(l, IF up THEN least ELSE most)
    BY <1>3 DEF Wheel
  <2>3. /\ l.index + 1 \in Int /\ n - 1 \in Int /\ l.index - 1 \in Int /\ 0 \in Int
        /\ l.index + 1 >= 1 /\ l.index + 1 <= n /\ n \in Nat /\ l.index \in Int
    BY <1>1, <2>1
  <2> HIDE DEF n
  <2>4. least \in {l.index + 1, n - 1} /\ least <= n - 1
    BY <2>3, MinOfTwo
  <2>5. most \in {l.index - 1, 0} /\ most >= 0
    BY <2>3, MaxOfTwo
  <2> HIDE DEF least, most
  <2>6. least \in 0 .. n - 1 /\ most \in 0 .. n - 1
    BY <1>1, <2>3, <2>4, <2>5
  <2> QED BY <2>2, <2>6, SelectFollows DEF n
<1> QED BY <1>2, <1>3

\* onMousePress.
LEMMA PressFollows ==
  ASSUME NEW l, Addresses(l), Selected(l), NEW row \in Rows(l, 1)
  PROVE  Follows(l, Press(l, row))
<1>1. row \in 1 .. Len(l.filtered) /\ Len(l.filtered) \in Nat
  BY DEF Rows, Addresses, ListType
<1>2. row - 1 \in 0 .. Len(l.filtered) - 1
  BY <1>1
<1> QED BY <1>2, SelectFollows DEF Press

\* setItems: what was selected before may be lost, or another item.
LEMMA SetItemsInOrder ==
  ASSUME NEW l \in ListType, Len(l.items) <= l.capacity, NEW m \in SetItems(l)
  PROVE  Addresses(m) /\ Selected(m) /\ Fresh(m) /\ m.items = l.items /\ m.given
<1>1. l.items \in Seq(Item) /\ l.selected \in Nat /\ DOMAIN l.items \subseteq Nat
  BY DEF ListType
<1>2. PICK s \in Nat : m = Recompute([l EXCEPT !.given = TRUE, !.selected = s])
  <2>1. PICK s \in IF l.moved THEN {0} \cup DOMAIN l.items ELSE {l.selected} :
          m = Recompute([l EXCEPT !.given = TRUE, !.selected = s])
    <3> DEFINE R(s) == Recompute([l EXCEPT !.given = TRUE, !.selected = s])
               T == IF l.moved THEN {0} \cup DOMAIN l.items ELSE {l.selected}
    <3>1. SetItems(l) = {R(s) : s \in T}
      BY DEF SetItems
    <3> HIDE DEF R, T
    <3>2. \E s \in T : m = R(s)
      BY <3>1
    <3> QED BY <3>2 DEF R, T
  <2>2. s \in Nat
    BY <1>1
  <2> QED BY <2>1, <2>2
<1> DEFINE k == [l EXCEPT !.given = TRUE, !.selected = s]
<1>3. /\ k \in ListType /\ k.items = l.items /\ k.given = TRUE /\ k.capacity = l.capacity
  BY DEF ListType
<1> HIDE DEF k
<1>4. /\ Addresses(Recompute(k)) /\ Selected(Recompute(k)) /\ Fresh(Recompute(k))
      /\ Recompute(k).items = k.items /\ Recompute(k).given = k.given
  BY <1>3, RecomputeInOrder
<1> QED BY <1>2, <1>3, <1>4 DEF k

-----------------------------------------------------------------------------
(* What has the keys                                                        *)

\* v comes of u by operations that leave the mode alone; a cursor that v shows
\* is that of its receiver.
Turns(u, v) ==
  /\ v \in UiType /\ v.mode = u.mode /\ v.cursors \subseteq {v.receiver}

\* A receiver is set.
LEMMA ReceiverSet ==
  ASSUME NEW recv \in Receivers \cup {None}, NEW u \in UiType,
         u.cursors \subseteq {u.receiver, recv}, NEW mouse \in Lists \cup {"message_list"}
  PROVE  /\ Turns(u, SetTextReceiver(u, recv, mouse))
         /\ SetTextReceiver(u, recv, mouse).receiver = recv
         /\ SetTextReceiver(u, recv, mouse).mouse = mouse
         /\ SetTextReceiver(u, recv, mouse).popover = u.popover
<1> DEFINE v == SetTextReceiver(u, recv, mouse)
           cursors == (u.cursors \ {u.receiver}) \cup ({recv} \ {None})
<1>1. v = [u EXCEPT !.receiver = recv, !.mouse = mouse, !.cursors = cursors]
  BY DEF SetTextReceiver, UiType
<1>2. cursors \in SUBSET Receivers /\ cursors \subseteq {recv}
  BY DEF UiType
<1> HIDE DEF cursors, v
<1>3. /\ v.receiver = recv /\ v.mouse = mouse /\ v.popover = u.popover /\ v.mode = u.mode
      /\ v.cursors = cursors
  BY <1>1 DEF UiType
<1>4. v \in UiType
  BY <1>1, <1>2 DEF UiType
<1> QED BY <1>2, <1>3, <1>4 DEF Turns, v

\* A popover is closed: the keys stay where they are.
LEMMA PopoverClosed ==
  ASSUME NEW u \in UiType, u.cursors \subseteq {u.receiver}
  PROVE  /\ Turns(u, ClosePopover(u)) /\ ClosePopover(u).popover = None
         /\ ClosePopover(u).receiver = u.receiver /\ ClosePopover(u).mouse = u.mouse
<1>1. CASE u.popover = "channels_popover"
  BY <1>1 DEF ClosePopover, Turns, UiType
<1>2. CASE u.popover = "search"
  BY <1>2 DEF ClosePopover, Turns, UiType
<1>3. CASE u.popover # "channels_popover" /\ u.popover # "search"
  <2>1. ClosePopover(u) = [u EXCEPT !.popover = None]
    BY <1>3 DEF ClosePopover
  <2> QED BY <2>1 DEF Turns, UiType
<1> QED BY <1>1, <1>2, <1>3

\* A popover with a list or text of its own gets the keys.
LEMMA PopoverShown ==
  ASSUME NEW u \in UiType, u.cursors \subseteq {u.receiver}
  PROVE  /\ \A c \in {"channels_popover", "user_list", "userInfo"} :
              LET v == SetActivePopover(u, c)
              IN /\ Turns(u, v) /\ v.popover = c
                 /\ v.receiver = CASE c = "channels_popover" -> "found"
                                   [] c = "user_list" -> "users"
                                   [] c = "userInfo" -> "info"
                 /\ v.mouse \in {v.receiver, "message_list"}
         /\ LET v == SetTextReceiver(SetActivePopover(u, "search"), "search", "message_list")
            IN /\ Turns(u, v) /\ v.popover = "search" /\ v.receiver = "search"
               /\ v.mouse = "message_list"
         /\ LET v == SetActivePopover(u, "imageOverlay")
            IN /\ Turns(u, v) /\ v.receiver = u.receiver /\ v.mouse = u.mouse
               /\ v.popover = "imageOverlay"
<1> DEFINE W(c) == [u EXCEPT !.popover = c]
<1>1. ASSUME NEW c \in Popovers
      PROVE  /\ W(c) \in UiType /\ W(c).popover = c /\ W(c).receiver = u.receiver
             /\ W(c).mouse = u.mouse /\ W(c).cursors = u.cursors /\ W(c).mode = u.mode
  BY DEF UiType
<1>2. /\ SetActivePopover(u, "channels_popover")
           = SetTextReceiver(W("channels_popover"), "found", "found")
      /\ SetActivePopover(u, "user_list") = SetTextReceiver(W("user_list"), "users", "users")
      /\ SetActivePopover(u, "userInfo") = SetTextReceiver(W("userInfo"), "info", "message_list")
      /\ SetActivePopover(u, "search") = [W("search") EXCEPT !.cursors = @ \cup {"search"}]
      /\ SetActivePopover(u, "imageOverlay") = W("imageOverlay")
  BY DEF SetActivePopover
<1> HIDE DEF W
<1>3. /\ {"channels_popover", "user_list", "userInfo", "search", "imageOverlay"} = Popovers
      /\ {"found", "users", "info", "search"} \subseteq Receivers \cup {None}
      /\ {"found", "users", "message_list"} \subseteq Lists \cup {"message_list"}
  BY DEF Popovers, Receivers, Lists
<1>4. LET v == SetActivePopover(u, "channels_popover")
      IN Turns(u, v) /\ v.popover = "channels_popover" /\ v.receiver = "found" /\ v.mouse = "found"
  BY <1>1, <1>2, <1>3, ReceiverSet DEF Turns
<1>5. LET v == SetActivePopover(u, "user_list")
      IN Turns(u, v) /\ v.popover = "user_list" /\ v.receiver = "users" /\ v.mouse = "users"
  BY <1>1, <1>2, <1>3, ReceiverSet DEF Turns
<1>6. LET v == SetActivePopover(u, "userInfo")
      IN Turns(u, v) /\ v.popover = "userInfo" /\ v.receiver = "info" /\ v.mouse = "message_list"
  BY <1>1, <1>2, <1>3, ReceiverSet DEF Turns
<1>7. LET v == SetTextReceiver(SetActivePopover(u, "search"), "search", "message_list")
      IN /\ Turns(u, v) /\ v.popover = "search" /\ v.receiver = "search"
         /\ v.mouse = "message_list"
  <2> DEFINE w == SetActivePopover(u, "search")
  <2>1. /\ w \in UiType /\ w.popover = "search" /\ w.receiver = u.receiver /\ w.mode = u.mode
        /\ w.cursors = u.cursors \cup {"search"}
    BY <1>1, <1>2, <1>3 DEF UiType, Receivers
  <2> HIDE DEF w
  <2>2. w.cursors \subseteq {w.receiver, "search"}
    BY <2>1
  <2>3. /\ Turns(w, SetTextReceiver(w, "search", "message_list"))
        /\ SetTextReceiver(w, "search", "message_list").receiver = "search"
        /\ SetTextReceiver(w, "search", "message_list").mouse = "message_list"
        /\ SetTextReceiver(w, "search", "message_list").popover = "search"
    BY <1>3, <2>1, <2>2, ReceiverSet
  <2> QED BY <2>1, <2>3 DEF Turns, w
<1>8. LET v == SetActivePopover(u, "imageOverlay")
      IN /\ Turns(u, v) /\ v.receiver = u.receiver /\ v.mouse = u.mouse
         /\ v.popover = "imageOverlay"
  BY <1>1, <1>2, <1>3 DEF Turns
<1> QED BY <1>4, <1>5, <1>6, <1>7, <1>8

\* The messages go; one of them may have had the keys.
LEMMA ListCleared ==
  ASSUME NEW u \in UiType, u.cursors \subseteq {u.receiver}
  PROVE  /\ Turns(u, ClearList(u)) /\ ClearList(u).popover = u.popover
         /\ ClearList(u).receiver = IF u.receiver = "message" THEN None ELSE u.receiver
         /\ ClearList(u).mouse = IF u.receiver = "message" THEN "message_list" ELSE u.mouse
<1>1. None \in Receivers \cup {None} /\ "message_list" \in Lists \cup {"message_list"}
  OBVIOUS
<1>2. u.cursors \subseteq {u.receiver, None}
  OBVIOUS
<1>3. CASE u.receiver = "message"
  BY <1>1, <1>2, <1>3, ReceiverSet DEF ClearList
<1>4. CASE u.receiver # "message"
  BY <1>4 DEF ClearList, Turns
<1> QED BY <1>3, <1>4

\* The chat input gets the keys.
LEMMA ChatGetsKeys ==
  ASSUME NEW u \in UiType, u.cursors \subseteq {u.receiver}
  PROVE  /\ Turns(u, ToChat(u)) /\ ToChat(u).receiver = "chat_input"
         /\ ToChat(u).mouse = "message_list" /\ ToChat(u).popover = u.popover
<1>1. "chat_input" \in Receivers \cup {None} /\ "message_list" \in Lists \cup {"message_list"}
  BY DEF Receivers
<1>2. u.cursors \subseteq {u.receiver, "chat_input"}
  OBVIOUS
<1> QED BY <1>1, <1>2, ReceiverSet DEF ToChat

\* Nobody is the receiver of no keys.
LEMMA NoneIsNothing ==
  /\ None # "message" /\ None # "found" /\ None # "users" /\ None # "info" /\ None # "search"
  /\ None # "channel_list" /\ None # "network_list" /\ None # "chat_input"
BY WindowAssumption DEF Receivers, Lists

\* The cursor is the receiver's, as ReceiverSet and the others want it.
LEMMA OneCursor ==
  ASSUME UiOK
  PROVE  /\ ui \in UiType /\ ui.cursors \subseteq {ui.receiver}
         /\ \A recv : ui.cursors \subseteq {ui.receiver, recv}
BY DEF UiOK, KeysGoToShown

\* Lists and fields of no popover, the message list and the chat input.
LEMMA KeysToWindow ==
  ASSUME UiOK, NEW u, Turns(u, ui'), ui'.mouse \in {ui'.receiver, "message_list"},
         ui'.receiver \in {"chat_input", "channel_list", "network_list", None}
  PROVE  UiOK'
<1>1. "message_list" \notin Lists
  BY DEF Lists
<1> QED BY <1>1, NoneIsNothing DEF UiOK, KeysGoToShown, Turns

\* A popover that has just been set.
LEMMA KeysToPopover ==
  ASSUME UiOK, NEW u, Turns(u, ui'), ui'.mouse \in {ui'.receiver, "message_list"},
         \/ ui'.receiver = "found" /\ ui'.popover = "channels_popover"
         \/ ui'.receiver = "users" /\ ui'.popover = "user_list"
         \/ ui'.receiver = "info" /\ ui'.popover = "userInfo"
         \/ ui'.receiver = "search" /\ ui'.popover = "search"
  PROVE  UiOK'
<1>1. "message_list" \notin Lists
  BY DEF Lists
<1> QED BY <1>1 DEF UiOK, KeysGoToShown, Turns

\* The messages go, and the popover stays as it is.
LEMMA KeysOfCleared ==
  ASSUME UiOK, ui' = ClearList(ui), stranded' = (stranded /\ ClearList(ui).receiver = ui.receiver)
  PROVE  UiOK'
<1>1. /\ Turns(ui, ui') /\ ui'.popover = ui.popover
      /\ ui'.receiver = IF ui.receiver = "message" THEN None ELSE ui.receiver
      /\ ui'.mouse = IF ui.receiver = "message" THEN "message_list" ELSE ui.mouse
  BY OneCursor, ListCleared
<1>2. CASE ui.receiver = "message"
  BY <1>1, <1>2, KeysToWindow
<1>3. CASE ui.receiver # "message"
  <2>1. ui'.receiver = ui.receiver /\ ui'.mouse = ui.mouse /\ (stranded => stranded')
    BY <1>1, <1>3
  <2> QED BY <1>1, <1>3, <2>1 DEF UiOK, KeysGoToShown, Turns
<1> QED BY <1>2, <1>3

\* Nothing of it changes, but perhaps the mode and the network of the popover.
LEMMA KeysUntouched ==
  ASSUME UiOK, UNCHANGED stranded, listed => listed',
         ui' \in UiType, ui'.popover = ui.popover, ui'.receiver = ui.receiver,
         ui'.mouse = ui.mouse, ui'.cursors = ui.cursors
  PROVE  UiOK'
BY DEF UiOK, KeysGoToShown

\* loadChannel.
LEMMA KeysOfLoaded ==
  ASSUME UiOK, NEW ch \in Channel, LoadChannel(ch, TRUE)
  PROVE  UiOK' /\ ui'.mode = ui.mode
<1>1. CASE active_network = Home[ch] /\ active = ch
  BY <1>1, KeysUntouched DEF LoadChannel, UiOK
<1>2. CASE ~(active_network = Home[ch] /\ active = ch)
  <2>1. ui' = ClearList(ClosePopover(ui)) /\ stranded'
    BY <1>2 DEF LoadChannel
  <2> DEFINE v == ClosePopover(ui)
  <2>2. Turns(ui, v) /\ v.receiver = ui.receiver /\ v.mouse = ui.mouse
    BY OneCursor, PopoverClosed
  <2> HIDE DEF v
  <2>3. /\ Turns(v, ui')
        /\ ui'.receiver = IF v.receiver = "message" THEN None ELSE v.receiver
        /\ ui'.mouse = IF v.receiver = "message" THEN "message_list" ELSE v.mouse
    BY <2>1, <2>2, ListCleared DEF Turns, v
  <2>4. CASE ui.receiver = "message"
    BY <2>2, <2>3, <2>4, KeysToWindow DEF Turns
  <2>5. CASE ui.receiver # "message"
    <3>1. ui'.receiver = ui.receiver /\ ui'.mouse = ui.mouse
      BY <2>2, <2>3, <2>5
    <3> QED BY <2>1, <2>2, <2>3, <2>5, <3>1 DEF UiOK, KeysGoToShown, Turns
  <2> QED BY <2>4, <2>5
<1> QED BY <1>1, <1>2

\* The keys and the mouse; the quick search is that of its popover.
LEMMA KeysOfKeys ==
  ASSUME UiOK, Keys
  PROVE  UiOK' /\ (QuickSearch \/ ui'.mode = ui.mode)
<1>1. CASE Escape
  <2> DEFINE v == ClosePopover(ui)
  <2>1. ui' = ToChat(v)
    BY <1>1 DEF Escape, Only, Goes
  <2>2. Turns(ui, v)
    BY OneCursor, PopoverClosed
  <2> HIDE DEF v
  <2>3. Turns(v, ui') /\ ui'.receiver = "chat_input" /\ ui'.mouse = "message_list"
    BY <2>1, <2>2, ChatGetsKeys DEF Turns
  <2> QED BY <2>2, <2>3, KeysToWindow DEF Turns
<1>2. CASE QuickSearch
  <2> DEFINE v == QuickSearchMode
  <2>1. ui' = SetActivePopover(v, "channels_popover")
    BY <1>2 DEF QuickSearch, Goes
  <2>2. v \in UiType /\ v.cursors \subseteq {v.receiver}
    BY OneCursor DEF QuickSearchMode, UiType, Kinds
  <2> HIDE DEF v
  <2>3. /\ Turns(v, ui') /\ ui'.popover = "channels_popover" /\ ui'.receiver = "found"
        /\ ui'.mouse \in {ui'.receiver, "message_list"}
    BY <2>1, <2>2, PopoverShown
  <2> QED BY <1>2, <2>3, KeysToPopover
<1>3. CASE UserListKey
  <2>1. ui' = SetActivePopover(ui, "user_list")
    BY <1>3 DEF UserListKey, Only, Goes
  <2>2. /\ Turns(ui, ui') /\ ui'.popover = "user_list" /\ ui'.receiver = "users"
        /\ ui'.mouse \in {ui'.receiver, "message_list"}
    BY <2>1, OneCursor, PopoverShown
  <2> QED BY <2>2, KeysToPopover DEF Turns
<1>4. CASE ChannelsKey
  <2>1. ui' = SetTextReceiver(ui, "channel_list", "channel_list")
    BY <1>4 DEF ChannelsKey, Only, Goes
  <2>2. "channel_list" \in Receivers \cup {None} /\ "channel_list" \in Lists \cup {"message_list"}
    BY DEF Receivers, Lists
  <2>3. Turns(ui, ui') /\ ui'.receiver = "channel_list" /\ ui'.mouse = "channel_list"
    BY <2>1, <2>2, OneCursor, ReceiverSet
  <2> QED BY <2>3, KeysToWindow DEF Turns
<1>5. CASE NetworksKey
  <2>1. ui' = SetTextReceiver(ui, "network_list", "network_list")
    BY <1>5 DEF NetworksKey, Only, Goes
  <2>2. "network_list" \in Receivers \cup {None} /\ "network_list" \in Lists \cup {"message_list"}
    BY DEF Receivers, Lists
  <2>3. Turns(ui, ui') /\ ui'.receiver = "network_list" /\ ui'.mouse = "network_list"
    BY <2>1, <2>2, OneCursor, ReceiverSet
  <2> QED BY <2>3, KeysToWindow DEF Turns
<1>6. CASE SelectMessage \/ PressMessage
  <2>1. ui' = SetTextReceiver(ui, "message", "message_list") /\ listed /\ UNCHANGED listed
    BY <1>6 DEF PressMessage, SelectMessage, Only, Goes
  <2>2. "message" \in Receivers \cup {None} /\ "message_list" \in Lists \cup {"message_list"}
        /\ "message_list" \notin Lists
    BY DEF Receivers, Lists
  <2>3. Turns(ui, ui') /\ ui'.receiver = "message" /\ ui'.mouse = "message_list"
    BY <2>1, <2>2, OneCursor, ReceiverSet
  <2> QED BY <2>1, <2>2, <2>3 DEF UiOK, KeysGoToShown, Turns
<1>7. CASE SelectNone \/ ChatKeyPressed
  <2>1. ui' = ToChat(ui)
    BY <1>7 DEF SelectNone, ChatKeyPressed, Only, Goes
  <2>2. Turns(ui, ui') /\ ui'.receiver = "chat_input" /\ ui'.mouse = "message_list"
    BY <2>1, OneCursor, ChatGetsKeys
  <2> QED BY <2>2, KeysToWindow DEF Turns
<1>8. CASE SearchKey
  <2>1. ui' = SetTextReceiver(SetActivePopover(ui, "search"), "search", "message_list")
    BY <1>8 DEF SearchKey, Only, Goes
  <2>2. /\ Turns(ui, ui') /\ ui'.popover = "search" /\ ui'.receiver = "search"
        /\ ui'.mouse = "message_list"
    BY <2>1, OneCursor, PopoverShown
  <2> QED BY <2>2, KeysToPopover DEF Turns
<1>9. CASE OverlayKey
  <2>1. ui' = SetActivePopover(ui, "imageOverlay") /\ ui.receiver = "message" /\ UNCHANGED listed
    BY <1>9 DEF OverlayKey, Only, Goes
  <2>2. Turns(ui, ui') /\ ui'.receiver = "message" /\ ui'.mouse = ui.mouse
    BY <2>1, OneCursor, PopoverShown
  <2> QED BY <2>1, <2>2 DEF UiOK, KeysGoToShown, Turns
<1>10. CASE Focus
  <2> DEFINE cursors == IF ui.receiver = None THEN ui.cursors
                        ELSE IF ui.focused THEN ui.cursors \ {ui.receiver}
                        ELSE ui.cursors \cup {ui.receiver}
  <2>1. /\ ui' = [ui EXCEPT !.focused = ~ui.focused, !.cursors = cursors]
        /\ UNCHANGED listed /\ stranded' = (stranded /\ ui'.receiver = ui.receiver)
    BY <1>10 DEF Focus, Only, Goes
  <2>2. cursors \in SUBSET Receivers /\ cursors \subseteq {ui.receiver}
    BY OneCursor DEF UiType
  <2> HIDE DEF cursors
  <2>3. /\ ui' \in UiType /\ ui'.popover = ui.popover /\ ui'.receiver = ui.receiver
        /\ ui'.mouse = ui.mouse /\ ui'.cursors = cursors /\ ui'.mode = ui.mode
    BY <2>1, <2>2, OneCursor DEF UiType
  <2> QED BY <2>1, <2>2, <2>3 DEF UiOK, KeysGoToShown
<1>11. CASE FoundKeys \/ FoundMouse
  <2>1. UNCHANGED ui /\ UNCHANGED stranded /\ UNCHANGED listed
    BY <1>11 DEF FoundKeys, FoundMouse, ChangeFound
  <2>2. UiOK'
    BY <2>1 DEF UiOK, KeysGoToShown
  <2> QED BY <2>1, <2>2
<1> QED BY <1>1, <1>2, <1>3, <1>4, <1>5, <1>6, <1>7, <1>8, <1>9, <1>10, <1>11 DEF Keys

-----------------------------------------------------------------------------
(* The steps                                                                *)

\* What the list and its kinds are is left alone.
LEMMA ListUntouched ==
  ASSUME ListOK, alive, UNCHANGED <<found, filling, mixed>>, ui'.mode = ui.mode
  PROVE  ListOK'
BY DEF ListOK, Addresses, Selected, Fresh, ItemsOfChannels, KindFilled, KindsKept, Pushing

\* A key or the mouse changes the list that has them.
LEMMA FoundChanges ==
  ASSUME ListOK, alive, NEW l, Follows(found, l), ChangeFound(l)
  PROVE  ListOK'
<1>1. found' = l /\ UNCHANGED <<ui, filling, mixed>>
  BY DEF ChangeFound
<1>2. Addresses(found') /\ Selected(found') /\ found'.items = found.items
  BY <1>1 DEF Follows
<1>3. alive' /\ ~Pushing' => Fresh(found')
  BY <1>1 DEF Follows, ListOK, Pushing
<1>4. (Addresses(found) /\ Selected(found))'
  BY <1>2 DEF Addresses, Selected
<1>5. (alive /\ ~Pushing => Fresh(found))'
  BY <1>3 DEF Fresh
<1>6. ItemsOfChannels' /\ KindFilled' /\ KindsKept'
  BY <1>1, <1>2 DEF ListOK, ItemsOfChannels, KindFilled, KindsKept, Pushing
<1> QED BY <1>4, <1>5, <1>6 DEF ListOK

\* The channels of the quick search, by their names.
LEMMA ChannelItemsType ==
  /\ ChannelItems \in Seq(Item)
  /\ \A i \in DOMAIN ChannelItems :
       ChannelItems[i].kind = "QuickSearch" /\ ChannelItems[i].of \in Channel
<1>1. Len(ChannelSeq) \in Nat /\ DOMAIN ChannelSeq = 1 .. Len(ChannelSeq)
      /\ \A i \in 1 .. Len(ChannelSeq) : ChannelSeq[i] \in Channel
  BY WindowAssumption
<1>2. \A ch \in Channel :
        [name |-> NameOf[ch], kind |-> "QuickSearch", of |-> ch] \in Item
  BY WindowAssumption DEF Item, Kinds
<1>3. DOMAIN ChannelItems = 1 .. Len(ChannelSeq)
      /\ \A i \in 1 .. Len(ChannelSeq) :
           ChannelItems[i] = [name |-> NameOf[ChannelSeq[i]], kind |-> "QuickSearch",
                              of |-> ChannelSeq[i]]
  BY <1>1 DEF ChannelItems
<1>4. \A i \in 1 .. Len(ChannelSeq) : ChannelItems[i] \in Item
  BY <1>1, <1>2, <1>3
<1>5. ChannelItems \in [1 .. Len(ChannelSeq) -> Item]
  BY <1>1, <1>2 DEF ChannelItems
<1>6. ChannelItems \in Seq(Item)
  BY <1>1, <1>5, IsASeq
<1> QED BY <1>1, <1>3, <1>6

\* The vector is cleared.
LEMMA Cleared ==
  ASSUME NEW l \in ListType
  PROVE  /\ ClearItems(l) \in ListType /\ ClearItems(l).items = <<>>
         /\ Len(ClearItems(l).items) = 0
         /\ ClearItems(l).capacity = l.capacity /\ ClearItems(l).given = l.given
         /\ ClearItems(l).filtered = l.filtered /\ ClearItems(l).selected = l.selected
         /\ ClearItems(l).index = l.index /\ ClearItems(l).text = l.text
<1>1. <<>> \in Seq(Item)
  OBVIOUS
<1>2. ClearItems(l) \in ListType
  BY <1>1 DEF ClearItems, ListType
<1> QED BY <1>2 DEF ClearItems, ListType

\* The connection thread.
LEMMA ConnectionSteps ==
  ASSUME WindowInv, alive, ConnectionThread
  PROVE  WindowInv'
<1> USE DEF WindowInv
<1>1. ASSUME NEW mode \in {"List", "Names"}, BeginFill(mode) PROVE WindowInv'
  <2>1. /\ filling' = mode /\ found' = ClearItems(found) /\ mixed' = FALSE
        /\ ui' = [ui EXCEPT !.mode = mode, !.network = TRUE]
        /\ UNCHANGED <<shows, active_network, active, listed, alive, stranded>>
    BY <1>1 DEF BeginFill
  <2>2. /\ ui' \in UiType /\ ui'.mode = mode /\ ui'.popover = ui.popover
        /\ ui'.receiver = ui.receiver /\ ui'.mouse = ui.mouse /\ ui'.cursors = ui.cursors
    BY <2>1 DEF UiOK, UiType, Kinds
  <2>3. UiOK'
    BY <2>1, <2>2 DEF UiOK, KeysGoToShown
  <2>4. /\ found' \in ListType /\ found'.items = <<>> /\ Len(found'.items) = 0
        /\ found'.capacity = found.capacity /\ found'.given = found.given
        /\ found'.filtered = found.filtered /\ found'.selected = found.selected
        /\ found'.index = found.index /\ DOMAIN found'.items = {}
    BY <2>1, Cleared DEF ListOK, Addresses
  <2>5. (Addresses(found) /\ Selected(found))'
    <3>1. Len(found'.items) <= found'.capacity
      BY <2>4 DEF ListOK, Addresses, ListType
    <3> QED BY <2>4, <3>1 DEF ListOK, Addresses, Selected
  <2>6. ListOK'
    BY <2>1, <2>2, <2>4, <2>5 DEF ListOK, ItemsOfChannels, KindFilled, KindsKept, Pushing
  <2>7. RestOK'
    BY <2>1 DEF RestOK
  <2> QED BY <2>3, <2>6, <2>7
<1>2. ASSUME NEW name \in EntryName, Push(name) PROVE WindowInv'
  <2> DEFINE item == [name |-> name, kind |-> filling, of |-> None]
  <2>1. /\ Pushing /\ found' = PushItem(found, item)
        /\ UNCHANGED <<ui, filling, shows, active_network, active, listed, alive, stranded, mixed>>
    BY <1>2 DEF Push
  <2>2. item \in Item /\ item.kind = filling /\ item.kind # "QuickSearch"
    BY <2>1, WindowAssumption DEF Pushing, Item, Kinds
  <2> HIDE DEF item
  <2>3. Grown(found, found') /\ found'.items = Append(found.items, item)
    BY <2>1, <2>2, PushItemGrows DEF ListOK, Addresses
  <2>4. /\ found.items \in Seq(Item)
        /\ \A i \in DOMAIN found'.items :
             \/ i \in DOMAIN found.items /\ found'.items[i] = found.items[i]
             \/ found'.items[i] = item
    BY <2>2, <2>3 DEF ListOK, Addresses, ListType
  <2>5. (Addresses(found) /\ Selected(found))'
    <3>1. found.capacity \in Nat /\ found'.capacity \in Nat /\ Len(found.filtered) \in Nat
      BY <2>3 DEF ListOK, Addresses, Grown, ListType
    <3>2. 1 .. found.capacity \subseteq 1 .. found'.capacity /\ Len(found.filtered) <= found'.capacity
      BY <2>3, <3>1 DEF Grown, ListOK, Addresses
    <3> QED BY <2>3, <3>2 DEF ListOK, Addresses, Selected, Grown
  <2>6. ItemsOfChannels'
    BY <2>2, <2>4 DEF ListOK, ItemsOfChannels
  <2>7. KindFilled' /\ KindsKept' /\ Pushing'
    BY <2>1, <2>2, <2>4 DEF ListOK, KindFilled, KindsKept, Pushing
  <2>8. ListOK'
    BY <2>5, <2>6, <2>7 DEF ListOK
  <2>9. UiOK' /\ RestOK'
    BY <2>1 DEF UiOK, KeysGoToShown, RestOK
  <2> QED BY <2>8, <2>9
<1>3. CASE EndFill
  <2>1. /\ Pushing /\ found' \in SetItems(found) /\ filling' = "post"
        /\ UNCHANGED <<ui, shows, active_network, active, listed, alive, stranded, mixed>>
    BY <1>3 DEF EndFill
  <2>2. Addresses(found') /\ Selected(found') /\ Fresh(found') /\ found'.items = found.items
    BY <2>1, SetItemsInOrder DEF ListOK, Addresses
  <2>3. (Addresses(found) /\ Selected(found) /\ Fresh(found))'
    BY <2>2 DEF Addresses, Selected, Fresh
  <2>4. ListOK'
    BY <2>1, <2>2, <2>3 DEF ListOK, ItemsOfChannels, KindFilled, KindsKept, Pushing
  <2>5. UiOK' /\ RestOK'
    BY <2>1 DEF UiOK, KeysGoToShown, RestOK
  <2> QED BY <2>4, <2>5
<1>4. CASE PostShow
  <2>1. /\ filling = "post" /\ filling' = "no" /\ shows' = Append(shows, "channels_popover")
        /\ UNCHANGED <<ui, found, active_network, active, listed, alive, stranded, mixed>>
    BY <1>4 DEF PostShow
  <2>2. ListOK'
    BY <2>1 DEF ListOK, Addresses, Selected, Fresh, ItemsOfChannels, KindFilled, KindsKept, Pushing
  <2>3. UiOK' /\ RestOK'
    BY <2>1 DEF UiOK, KeysGoToShown, RestOK
  <2> QED BY <2>2, <2>3
<1>5. CASE ShowWhoIs
  <2>1. /\ shows' = Append(shows, "userInfo")
        /\ UNCHANGED <<ui, found, filling, active_network, active, listed, alive, stranded, mixed>>
    BY <1>5 DEF ShowWhoIs
  <2>2. ListOK'
    BY <2>1, ListUntouched
  <2>3. UiOK' /\ RestOK'
    BY <2>1 DEF UiOK, KeysGoToShown, RestOK
  <2> QED BY <2>2, <2>3
<1> HIDE DEF WindowInv
<1> QED BY <1>1, <1>2, <1>3, <1>4, <1>5 DEF ConnectionThread

\* The tasks.
LEMMA TaskSteps ==
  ASSUME WindowInv, alive, RunShow \/ RunAddContent \/ RunDeactivate
  PROVE  WindowInv'
<1> USE DEF WindowInv
<1>1. CASE RunShow
  <2>1. /\ shows # <<>> /\ shows' = Tail(shows) /\ ui' = SetActivePopover(ui, Head(shows))
        /\ stranded' = (stranded /\ ui'.receiver = ui.receiver)
        /\ UNCHANGED <<found, filling, active_network, active, listed, alive, mixed>>
    BY <1>1 DEF RunShow, Goes
  <2>2. shows' \in Seq({"channels_popover", "userInfo"}) /\ Head(shows) \in {"channels_popover", "userInfo"}
    BY <2>1, HeadTailProperties DEF RestOK
  <2>3. /\ Turns(ui, ui') /\ ui'.mouse \in {ui'.receiver, "message_list"}
        /\ \/ ui'.receiver = "found" /\ ui'.popover = "channels_popover"
           \/ ui'.receiver = "info" /\ ui'.popover = "userInfo"
    BY <2>1, <2>2, OneCursor, PopoverShown
  <2>4. UiOK'
    BY <2>3, KeysToPopover
  <2>5. ListOK'
    BY <2>1, <2>3, ListUntouched DEF Turns
  <2>6. RestOK'
    BY <2>1, <2>2 DEF RestOK
  <2> QED BY <2>4, <2>5, <2>6
<1>2. CASE RunAddContent
  <2>1. /\ listed' = TRUE
        /\ UNCHANGED <<ui, found, filling, shows, active_network, active, alive, stranded, mixed>>
    BY <1>2 DEF RunAddContent
  <2>2. ListOK'
    BY <2>1, ListUntouched
  <2>3. UiOK' /\ RestOK'
    BY <2>1 DEF UiOK, KeysGoToShown, RestOK
  <2> QED BY <2>2, <2>3
<1>3. CASE RunDeactivate
  <2>1. /\ ui' = ClearList(ui) /\ stranded' = (stranded /\ ClearList(ui).receiver = ui.receiver)
        /\ active' = None /\ listed' = FALSE
        /\ UNCHANGED <<found, filling, shows, active_network, alive, mixed>>
    BY <1>3 DEF RunDeactivate, Goes
  <2>2. UiOK' /\ Turns(ui, ui')
    BY <2>1, KeysOfCleared, OneCursor, ListCleared
  <2>3. ListOK'
    BY <2>1, <2>2, ListUntouched DEF Turns
  <2>4. RestOK'
    BY <2>1 DEF RestOK
  <2> QED BY <2>2, <2>3, <2>4
<1> QED BY <1>1, <1>2, <1>3

\* What is chosen.
LEMMA EnterSteps ==
  ASSUME WindowInv, alive, Enter
  PROVE  WindowInv'
<1> USE DEF WindowInv
<1>1. CASE Choose
  <2>1. /\ UNCHANGED <<found, filling, shows, mixed>> /\ found.selected # 0
        /\ \/ UNCHANGED <<ui, stranded, active_network, active, listed>> /\ alive' \in BOOLEAN
           \/ \E ch \in Channel : LoadChannel(ch, TRUE) /\ UNCHANGED alive
    <3> DEFINE item == found.items[found.selected]
    <3>1. CASE Sound(found) /\ found.selected \in DOMAIN found.items
      <4>1. item.kind = "QuickSearch" => item.of \in Channel
        BY <3>1 DEF ListOK, ItemsOfChannels
      <4> HIDE DEF item
      <4>2. /\ UNCHANGED <<found, filling, shows, mixed>> /\ found.selected # 0
            /\ \/ UNCHANGED <<ui, stranded, active_network, active, listed, alive>>
               \/ Crash /\ UNCHANGED <<ui, stranded, active_network, active, listed>>
               \/ item.kind = "QuickSearch" /\ LoadChannel(item.of, TRUE) /\ UNCHANGED alive
        BY <1>1, <3>1 DEF Choose, item
      <4> QED BY <4>1, <4>2 DEF Crash, RestOK
    <3>2. CASE ~(Sound(found) /\ found.selected \in DOMAIN found.items)
      BY <1>1, <3>2 DEF Choose, Crash
    <3> QED BY <3>1, <3>2
  <2>2. CASE UNCHANGED <<ui, stranded, active_network, active, listed>> /\ alive' \in BOOLEAN
    <3>1. ListOK'
      BY <2>1, <2>2, ListUntouched
    <3>2. UiOK' /\ RestOK'
      BY <2>1, <2>2 DEF UiOK, KeysGoToShown, RestOK
    <3> QED BY <3>1, <3>2
  <2>3. ASSUME NEW ch \in Channel, LoadChannel(ch, TRUE), UNCHANGED alive PROVE WindowInv'
    <3>1. UiOK' /\ ui'.mode = ui.mode
      BY <2>3, KeysOfLoaded
    <3>2. ListOK'
      BY <2>1, <2>3, <3>1, ListUntouched
    <3>3. Home[ch] \in Network /\ Home[ch] # None
      BY WindowAssumption
    <3>4. RestOK'
      <4>1. CASE active_network = Home[ch] /\ active = ch
        BY <2>1, <2>3, <4>1 DEF LoadChannel, RestOK
      <4>2. CASE ~(active_network = Home[ch] /\ active = ch)
        BY <2>1, <2>3, <3>3, <4>2 DEF LoadChannel, RestOK
      <4> QED BY <4>1, <4>2
    <3> QED BY <3>1, <3>2, <3>4
  <2> QED BY <2>1, <2>2, <2>3
<1>2. ASSUME NEW n \in Network, ChooseNetwork(n) PROVE WindowInv'
  <2>1. /\ active_network' = n
        /\ ui' = SetTextReceiver(ui, "channel_list", "channel_list")
        /\ stranded' = (stranded /\ ui'.receiver = ui.receiver)
        /\ UNCHANGED <<found, filling, shows, active, listed, alive, mixed>>
    BY <1>2 DEF ChooseNetwork, Goes
  <2>2. "channel_list" \in Receivers \cup {None} /\ "channel_list" \in Lists \cup {"message_list"}
    BY DEF Receivers, Lists
  <2>3. Turns(ui, ui') /\ ui'.receiver = "channel_list" /\ ui'.mouse = "channel_list"
    BY <2>1, <2>2, OneCursor, ReceiverSet
  <2>4. UiOK'
    BY <2>3, KeysToWindow
  <2>5. ListOK'
    BY <2>1, <2>3, ListUntouched DEF Turns
  <2>6. RestOK'
    BY <2>1, WindowAssumption DEF RestOK
  <2> QED BY <2>4, <2>5, <2>6
<1>3. ASSUME NEW ch \in Channel, ChooseChannel(ch) PROVE WindowInv'
  <2> DEFINE v == IF active = ch THEN ui ELSE ClearList(ui)
  <2>1. /\ active_network = Home[ch] /\ ui' = ToChat(v)
        /\ stranded' = (stranded /\ ui'.receiver = ui.receiver)
        /\ active' = ch /\ listed' \in IF active = ch THEN {listed} ELSE BOOLEAN
        /\ UNCHANGED <<found, filling, shows, active_network, alive, mixed>>
    BY <1>3 DEF ChooseChannel, Goes
  <2>2. Turns(ui, v)
    BY OneCursor, ListCleared DEF Turns
  <2> HIDE DEF v
  <2>3. Turns(v, ui') /\ ui'.receiver = "chat_input" /\ ui'.mouse = "message_list"
    BY <2>1, <2>2, ChatGetsKeys DEF Turns
  <2>4. UiOK'
    BY <2>3, KeysToWindow
  <2>5. ListOK'
    BY <2>1, <2>2, <2>3, ListUntouched DEF Turns
  <2>6. RestOK'
    <3>1. Home[ch] # None /\ listed' \in BOOLEAN
      BY <2>1, WindowAssumption DEF RestOK
    <3> QED BY <2>1, <2>3, <3>1 DEF RestOK
  <2> QED BY <2>4, <2>5, <2>6
<1>4. CASE ChooseUser \/ ChooseInfo
  <2>1. /\ UNCHANGED <<ui, found, filling, shows, active_network, active, listed, stranded, mixed>>
        /\ alive' \in BOOLEAN
    BY <1>4 DEF ChooseUser, ChooseInfo, Crash, RestOK
  <2>2. ListOK'
    BY <2>1, ListUntouched
  <2>3. UiOK' /\ RestOK'
    BY <2>1 DEF UiOK, KeysGoToShown, RestOK
  <2> QED BY <2>2, <2>3
<1>5. CASE DelServer
  <2>1. /\ ui' = ClearList(ui) /\ stranded' = (stranded /\ ClearList(ui).receiver = ui.receiver)
        /\ active_network' = None /\ active' = None /\ listed' = FALSE /\ alive' \in BOOLEAN
        /\ UNCHANGED <<found, filling, shows, mixed>>
    BY <1>5 DEF DelServer, Goes, Crash, RestOK
  <2>2. UiOK' /\ Turns(ui, ui')
    BY <2>1, KeysOfCleared, OneCursor, ListCleared
  <2>3. ListOK'
    BY <2>1, <2>2, ListUntouched DEF Turns
  <2>4. RestOK'
    BY <2>1 DEF RestOK
  <2> QED BY <2>2, <2>3, <2>4
<1> HIDE DEF WindowInv
<1> QED BY <1>1, <1>2, <1>3, <1>4, <1>5 DEF Enter

\* The keys and the mouse.
LEMMA KeysSteps ==
  ASSUME WindowInv, alive, Keys
  PROVE  WindowInv'
<1> USE DEF WindowInv
<1>1. UiOK' /\ (QuickSearch \/ ui'.mode = ui.mode)
  BY KeysOfKeys
<1>2. CASE QuickSearch
  <2> DEFINE l == ClearItems(found)
             m == PushItems(l, ChannelItems)
  <2>1. /\ found' \in SetItems(m) /\ mixed' = Pushing
        /\ ui' = SetActivePopover(QuickSearchMode, "channels_popover")
        /\ stranded' = (stranded /\ ui'.receiver = ui.receiver)
        /\ UNCHANGED <<filling, shows, active_network, active, listed, alive>>
    BY <1>2 DEF QuickSearch, Goes
  <2>2. l \in ListType /\ l.items = <<>>
    BY Cleared DEF ListOK, Addresses
  <2> HIDE DEF l
  <2>3. /\ Grown(l, m) /\ DOMAIN m.items = DOMAIN ChannelItems
        /\ \A i \in DOMAIN ChannelItems : m.items[i] = ChannelItems[i]
    BY <2>2, ChannelItemsType, PushItemsGrows
  <2> HIDE DEF m
  <2>4. /\ Addresses(found') /\ Selected(found') /\ Fresh(found') /\ found'.items = m.items
    BY <2>1, <2>3, SetItemsInOrder DEF Grown
  <2>5. (Addresses(found) /\ Selected(found) /\ Fresh(found))'
    BY <2>4 DEF Addresses, Selected, Fresh
  <2>6. \A i \in DOMAIN found'.items :
          found'.items[i].kind = "QuickSearch" /\ found'.items[i].of \in Channel
    BY <2>3, <2>4, ChannelItemsType
  <2>7. QuickSearchMode.mode = "QuickSearch" /\ QuickSearchMode \in UiType
        /\ QuickSearchMode.cursors \subseteq {QuickSearchMode.receiver}
    BY OneCursor DEF QuickSearchMode, UiType, Kinds
  <2>8. ui'.mode = "QuickSearch"
    BY <2>1, <2>7, PopoverShown DEF Turns
  <2>9. ItemsOfChannels' /\ KindFilled' /\ KindsKept'
    BY <2>1, <2>6, <2>8 DEF ItemsOfChannels, KindFilled, KindsKept, Pushing
  <2>10. ListOK'
    BY <2>5, <2>9 DEF ListOK
  <2>11. RestOK'
    BY <2>1 DEF RestOK, Pushing
  <2> QED BY <1>1, <2>10, <2>11
<1>3. CASE FoundKeys \/ FoundMouse
  <2>1. Addresses(found) /\ Selected(found) /\ found.text \in Seq(Letter)
    BY DEF ListOK, Addresses, ListType
  <2>2. PICK l : Follows(found, l) /\ ChangeFound(l)
    <3>1. ASSUME NEW letter \in Letter, ChangeFound(TypeInto(found, <<letter>>))
          PROVE  Follows(found, TypeInto(found, <<letter>>))
      <4> DEFINE text == found.text \o <<letter>>
      <4>1. text \in Seq(Letter)
        BY <2>1
      <4>2. TypeInto(found, <<letter>>) = Recompute([found EXCEPT !.text = text])
        BY DEF TypeInto
      <4> HIDE DEF text
      <4> QED BY <2>1, <4>1, <4>2, RecomputeFollows
    <3>2. \A key \in {"backspace", "up", "down"} : Follows(found, ListKey(found, key, FALSE, FALSE))
      BY <2>1, ListKeyFollows
    <3>3. /\ \A up \in BOOLEAN : Follows(found, Wheel(found, up))
          /\ \A row \in Rows(found, 1) : Follows(found, Press(found, row))
      BY <2>1, WheelFollows, PressFollows
    <3> QED BY <1>3, <3>1, <3>2, <3>3 DEF FoundKeys, FoundMouse
  <2>3. ListOK'
    BY <2>2, FoundChanges
  <2>4. RestOK'
    BY <2>2 DEF RestOK, ChangeFound, Crash
  <2> QED BY <1>1, <2>3, <2>4
<1>4. CASE /\ UNCHANGED <<found, filling, shows, active_network, active, listed, alive, mixed>>
           /\ stranded' \in BOOLEAN /\ ui'.mode = ui.mode
  <2>1. ListOK'
    BY <1>4, ListUntouched
  <2>2. RestOK'
    BY <1>4 DEF RestOK
  <2> QED BY <1>1, <2>1, <2>2
<1>5. \/ QuickSearch \/ FoundKeys \/ FoundMouse
      \/ /\ UNCHANGED <<found, filling, shows, active_network, active, listed, alive, mixed>>
         /\ stranded' \in BOOLEAN
  <2>1. \A u : Only(u) => /\ UNCHANGED <<found, filling, shows, active_network, active, listed, alive, mixed>>
                          /\ stranded' \in BOOLEAN
    BY DEF Only, Goes, RestOK
  <2>2. \/ QuickSearch \/ FoundKeys \/ FoundMouse \/ \E u : Only(u)
    BY DEF Keys, Escape, UserListKey, ChannelsKey, NetworksKey, SelectMessage, SelectNone,
           ChatKeyPressed, SearchKey, OverlayKey, PressMessage, Focus
  <2> QED BY <2>1, <2>2
<1> HIDE DEF WindowInv
<1> QED BY <1>1, <1>2, <1>3, <1>4, <1>5

\* The list that nobody has filled, and the chat input.
LEMMA InitWindow == Init => WindowInv
<1> SUFFICES ASSUME Init PROVE WindowInv
  OBVIOUS
<1>1. ui \in UiType
  BY DEF Init, UiType, Popovers, Receivers, Lists, Kinds
<1>2. UiOK
  BY <1>1 DEF Init, UiOK, KeysGoToShown, Lists
<1>3. found = NoList /\ NoList \in ListType
  <2>1. <<>> \in Seq(Item) /\ <<>> \in Seq(Nat) /\ <<>> \in Seq(Letter)
    OBVIOUS
  <2> QED BY <2>1 DEF Init, NoList, ListType
<1>4. Addresses(found) /\ Selected(found) /\ Fresh(found)
  BY <1>3 DEF NoList, Addresses, Selected, Fresh
<1>5. ItemsOfChannels /\ KindFilled /\ KindsKept
  BY <1>3 DEF Init, NoList, ItemsOfChannels, KindFilled, KindsKept, Pushing
<1>6. RestOK
  <2>1. <<>> \in Seq({"channels_popover", "userInfo"})
    OBVIOUS
  <2> QED BY <2>1 DEF Init, RestOK
<1> QED BY <1>2, <1>4, <1>5, <1>6 DEF WindowInv, ListOK

\* Every step keeps the invariant.
LEMMA WindowInductive == WindowInv /\ [Next]_vars => WindowInv'
<1> SUFFICES ASSUME WindowInv, [Next]_vars PROVE WindowInv'
  OBVIOUS
<1>1. CASE Next
  BY <1>1, ConnectionSteps, TaskSteps, EnterSteps, KeysSteps DEF Next
<1>2. CASE UNCHANGED vars
  BY <1>2 DEF vars, WindowInv, UiOK, KeysGoToShown, ListOK, Addresses, Selected, Fresh,
              ItemsOfChannels, KindFilled, KindsKept, Pushing, RestOK
<1> QED BY <1>1, <1>2

\* The invariant says what the properties ask.
LEMMA WindowProperties ==
  WindowInv => WindowTypeOK /\ SelectionValid /\ KeysGoToShown /\ KindsKept
<1> SUFFICES ASSUME WindowInv
             PROVE  WindowTypeOK /\ SelectionValid /\ KeysGoToShown /\ KindsKept
  OBVIOUS
<1> USE DEF WindowInv
<1>1. /\ Addresses(found) /\ Selected(found) /\ KindsKept /\ KeysGoToShown
      /\ alive /\ ~Pushing => Fresh(found)
  BY DEF ListOK, UiOK
<1>2. /\ found.items \in Seq(Item) /\ found.text \in Seq(Letter) /\ found.index \in Int
      /\ found.capacity \in Nat /\ Len(found.filtered) \in Nat
      /\ DOMAIN found.filtered = 1 .. Len(found.filtered)
  BY <1>1 DEF Addresses, ListType
<1>3. found.index \in -1 .. found.capacity - 1 /\ found.selected \in 0 .. found.capacity
  <2>1. CASE found.filtered = <<>>
    BY <1>1, <1>2, <2>1 DEF Selected
  <2>2. CASE found.filtered # <<>>
    <3>1. /\ found.index + 1 \in 1 .. Len(found.filtered)
          /\ found.selected \in 1 .. found.capacity
      BY <1>1, <1>2, <2>2 DEF Selected, Addresses
    <3>2. Len(found.filtered) <= found.capacity
      BY <1>1 DEF Addresses
    <3> QED BY <1>2, <3>1, <3>2
  <2> QED BY <2>1, <2>2
<1>4. WindowTypeOK
  BY <1>2, <1>3 DEF WindowTypeOK, UiOK, RestOK
<1>5. SelectionValid
  <2>1. ASSUME alive, ~Pushing PROVE found.given => found.filtered = Found(found.items, found.text)
    BY <1>1, <2>1 DEF Fresh
  <2>2. /\ found.filtered # <<>> => found.index + 1 \in DOMAIN found.filtered
        /\ found.selected = IF found.filtered = <<>> THEN 0
                            ELSE found.filtered[found.index + 1]
    BY <1>1 DEF Selected
  <2> QED BY <2>1, <2>2 DEF SelectionValid
<1> QED BY <1>1, <1>4, <1>5

\* For any channels, networks and texts the receivers, the popover and the list
\* are what their types say.
THEOREM WindowTypes == Spec => []WindowTypeOK
BY InitWindow, WindowInductive, WindowProperties, PTL DEF Spec

\* However often the list is typed into, pressed, scrolled and filled again by
\* either thread, wherever its memory moves: what is selected is what is shown.
THEOREM SelectionIsOfTheList == Spec => []SelectionValid
BY InitWindow, WindowInductive, WindowProperties, PTL DEF Spec

\* Whoever takes the keys and the mouse is on the screen, and shows the cursor.
THEOREM KeysAreSeen == Spec => []KeysGoToShown
BY InitWindow, WindowInductive, WindowProperties, PTL DEF Spec

\* An item is of the kind that the callback takes it for.
THEOREM KindsAreRight == Spec => []KindsKept
BY InitWindow, WindowInductive, WindowProperties, PTL DEF Spec
-----------------------------------------------------------------------------
(* The texts: what the keys do to a text of any length, with its cursor     *)
(* anywhere in it.                                                          *)

\* A set of numbers has a least element, which Min gives.
LEMMA MinOf ==
  ASSUME NEW S, S \subseteq Nat, S # {}
  PROVE  Min(S) \in S /\ \A y \in S : Min(S) <= y
<1>1. PICK m \in S : \A y \in S : m <= y
  BY LeastElement
<1> QED BY <1>1 DEF Min

\* A set of numbers up to n has a greatest element, which Max gives.
LEMMA MaxOf ==
  ASSUME NEW n \in Nat, NEW S, S \subseteq 0 .. n, S # {}
  PROVE  Max(S) \in S /\ \A y \in S : Max(S) >= y
<1> DEFINE T == {n - i : i \in S}
<1>1. T \subseteq Nat /\ T # {}
  <2>1. \A i \in S : n - i \in Nat
    OBVIOUS
  <2> QED BY <2>1
<1>2. PICK m \in T : \A y \in T : m <= y
  <2> HIDE DEF T
  <2> QED BY <1>1, LeastElement
<1>3. PICK x \in S : m = n - x
  OBVIOUS
<1>4. \A y \in S : x >= y
  <2> TAKE y \in S
  <2>1. n - y \in T /\ n - x <= n - y
    BY <1>2, <1>3
  <2> QED BY <2>1
<1> QED BY <1>4 DEF Max

\* A text with its cursor in it.
Buffer ==
  {b \in [data : Seq(Nat), text_x : Nat, last_point : Nat] : b.text_x <= Len(b.data)}

\* The two parts of a sequence that a cut leaves.
LEMMA CutOf ==
  ASSUME NEW S, NEW s \in Seq(S), NEW n \in 0 .. Len(s)
  PROVE  /\ SubSeq(s, 1, n) \in Seq(S) /\ Len(SubSeq(s, 1, n)) = n
         /\ \A i \in 1 .. n : SubSeq(s, 1, n)[i] = s[i]
         /\ SubSeq(s, n + 1, Len(s)) \in Seq(S)
         /\ Len(SubSeq(s, n + 1, Len(s))) = Len(s) - n
         /\ \A i \in 1 .. Len(s) - n : SubSeq(s, n + 1, Len(s))[i] = s[n + i]
<1>1. Len(s) \in Nat /\ \A i \in 1 .. Len(s) : s[i] \in S
  BY LenProperties
<1>2. n \in Nat /\ n <= Len(s)
  BY <1>1
<1>3. 1 \in Int /\ n \in Int /\ \A i \in 1 .. n : s[i] \in S
  BY <1>1, <1>2
<1>4. n + 1 \in Int /\ Len(s) \in Int /\ \A i \in n + 1 .. Len(s) : s[i] \in S
  BY <1>1, <1>2
<1>5. /\ SubSeq(s, 1, n) \in Seq(S)
      /\ Len(SubSeq(s, 1, n)) = IF 1 <= n THEN n - 1 + 1 ELSE 0
      /\ \A i \in 1 .. n - 1 + 1 : SubSeq(s, 1, n)[i] = s[1 + i - 1]
  BY <1>3, SubSeqProperties
<1>6. /\ SubSeq(s, n + 1, Len(s)) \in Seq(S)
      /\ Len(SubSeq(s, n + 1, Len(s))) = IF n + 1 <= Len(s) THEN Len(s) - (n + 1) + 1 ELSE 0
      /\ \A i \in 1 .. Len(s) - (n + 1) + 1 : SubSeq(s, n + 1, Len(s))[i] = s[n + 1 + i - 1]
  BY <1>4, SubSeqProperties
<1>7. \A i \in 1 .. n : SubSeq(s, 1, n)[i] = s[i]
  <2> TAKE i \in 1 .. n
  <2>1. i \in 1 .. n - 1 + 1 /\ 1 + i - 1 = i
    BY <1>2
  <2> QED BY <1>5, <2>1
<1>8. \A i \in 1 .. Len(s) - n : SubSeq(s, n + 1, Len(s))[i] = s[n + i]
  <2> TAKE i \in 1 .. Len(s) - n
  <2>1. i \in 1 .. Len(s) - (n + 1) + 1 /\ n + 1 + i - 1 = n + i
    BY <1>1, <1>2
  <2> QED BY <1>6, <2>1
<1>9. Len(SubSeq(s, 1, n)) = n /\ Len(SubSeq(s, n + 1, Len(s))) = Len(s) - n
  BY <1>1, <1>2, <1>5, <1>6
<1> QED BY <1>5, <1>6, <1>7, <1>8, <1>9

\* Two sequences that are joined are the parts they were.
LEMMA JoinedParts ==
  ASSUME NEW S, NEW s \in Seq(S), NEW t \in Seq(S)
  PROVE  /\ s \o t \in Seq(S) /\ Len(s \o t) = Len(s) + Len(t)
         /\ SubSeq(s \o t, 1, Len(s)) = s
         /\ SubSeq(s \o t, Len(s) + 1, Len(s \o t)) = t
<1>1. PICK u \in Seq(S) : u = s \o t
  <2>1. s \o t \in Seq(S)
    BY ConcatProperties
  <2> QED BY <2>1
<1>2. /\ Len(u) = Len(s) + Len(t) /\ Len(s) \in Nat /\ Len(t) \in Nat
      /\ \A i \in 1 .. Len(s) : u[i] = s[i]
      /\ \A i \in 1 .. Len(t) : u[Len(s) + i] = t[i]
  BY <1>1
<1>3. Len(s) \in 0 .. Len(u)
  BY <1>2
<1>4. SubSeq(u, 1, Len(s)) = s
  <2>1. /\ SubSeq(u, 1, Len(s)) \in Seq(S) /\ Len(SubSeq(u, 1, Len(s))) = Len(s)
        /\ \A i \in 1 .. Len(s) : SubSeq(u, 1, Len(s))[i] = u[i]
    BY <1>3, CutOf
  <2>2. \A i \in 1 .. Len(s) : SubSeq(u, 1, Len(s))[i] = s[i]
    BY <1>2, <2>1
  <2> QED BY <2>1, <2>2, SeqEqual
<1>5. SubSeq(u, Len(s) + 1, Len(u)) = t
  <2>1. /\ SubSeq(u, Len(s) + 1, Len(u)) \in Seq(S)
        /\ Len(SubSeq(u, Len(s) + 1, Len(u))) = Len(u) - Len(s)
        /\ \A i \in 1 .. Len(u) - Len(s) : SubSeq(u, Len(s) + 1, Len(u))[i] = u[Len(s) + i]
    BY <1>3, CutOf
  <2>2. Len(u) - Len(s) = Len(t)
    BY <1>2
  <2>3. \A i \in 1 .. Len(t) : SubSeq(u, Len(s) + 1, Len(u))[i] = t[i]
    BY <1>2, <2>1, <2>2
  <2> QED BY <2>1, <2>2, <2>3, SeqEqual
<1> QED BY <1>1, <1>2, <1>4, <1>5

\* What any operation that puts str in the place of the characters from x to the
\* cursor does, if it adds or takes away.
LEMMA ReplacedInFront ==
  ASSUME NEW b \in Buffer, NEW str \in Seq(Nat), NEW x \in 0 .. b.text_x,
         x = b.text_x \/ str = <<>>,
         NEW c, c = Changed(b, SubSeq(b.data, 1, x) \o str \o Behind(b), x + Len(str))
  PROVE  c \in Buffer /\ EditsInFront(b, c)
<1>1. PICK d \in Seq(Nat) : d = b.data
  BY DEF Buffer
<1>2. PICK p \in Nat : p = b.text_x /\ p <= Len(d) /\ x \in 0 .. p
  BY <1>1 DEF Buffer
<1>3. x \in 0 .. Len(d) /\ p \in 0 .. Len(d)
  BY <1>2
<1>4. PICK head \in Seq(Nat) : head = SubSeq(d, 1, x) /\ Len(head) = x
  <2>1. SubSeq(d, 1, x) \in Seq(Nat) /\ Len(SubSeq(d, 1, x)) = x
    BY <1>3, CutOf
  <2> QED BY <2>1
<1>5. PICK tail \in Seq(Nat) : tail = SubSeq(d, p + 1, Len(d))
  <2>1. SubSeq(d, p + 1, Len(d)) \in Seq(Nat)
    BY <1>3, CutOf
  <2> QED BY <2>1
<1>6. PICK new \in Seq(Nat) :
        new = head \o str /\ Len(new) = x + Len(str) /\ SubSeq(new, 1, x) = head
  <2>1. /\ head \o str \in Seq(Nat) /\ Len(head \o str) = Len(head) + Len(str)
        /\ SubSeq(head \o str, 1, Len(head)) = head
    BY JoinedParts
  <2> QED BY <2>1, <1>4
<1>7. PICK e \in Seq(Nat) :
        /\ e = new \o tail /\ Len(e) = Len(new) + Len(tail)
        /\ SubSeq(e, 1, Len(new)) = new /\ SubSeq(e, Len(new) + 1, Len(e)) = tail
  <2>1. /\ new \o tail \in Seq(Nat) /\ Len(new \o tail) = Len(new) + Len(tail)
        /\ SubSeq(new \o tail, 1, Len(new)) = new
        /\ SubSeq(new \o tail, Len(new) + 1, Len(new \o tail)) = tail
    BY JoinedParts
  <2> QED BY <2>1
<1>8. Behind(b) = tail /\ Before(b) = SubSeq(d, 1, p)
  BY <1>1, <1>2, <1>5 DEF Behind, Before
<1>9. /\ c.data = e /\ c.text_x = Len(new) /\ c.last_point = b.last_point + 1
      /\ b.last_point \in Nat
      /\ c = [data |-> e, text_x |-> Len(new), last_point |-> b.last_point + 1]
  BY <1>1, <1>4, <1>6, <1>7, <1>8 DEF Changed, Buffer
<1>10. Behind(c) = tail /\ Before(c) = new
  BY <1>7, <1>9 DEF Behind, Before
<1>11. Len(new) \in 0 .. Len(e)
  BY <1>7
<1>12. c \in Buffer
  BY <1>9, <1>11 DEF Buffer
<1>13. IsPrefix(Before(b), c.data) \/ IsPrefix(Before(c), b.data)
  <2>1. CASE x = p
    <3>1. head = Before(b)
      BY <2>1, <1>4, <1>8
    <3>2. Len(head) <= Len(e)
      BY <1>4, <1>6, <1>7
    <3>3. SubSeq(e, 1, Len(head)) = head
      <4>1. \A i \in 1 .. x : e[i] = new[i] /\ new[i] = head[i]
        <5> TAKE i \in 1 .. x
        <5>1. i \in 1 .. Len(new) + Len(tail) /\ i <= Len(new)
              /\ i \in 1 .. Len(head) + Len(str) /\ i <= Len(head)
          BY <1>4, <1>6
        <5>2. (new \o tail)[i] = new[i]
          BY <5>1, ConcatProperties
        <5>3. (head \o str)[i] = head[i]
          BY <5>1, ConcatProperties
        <5> QED BY <5>2, <5>3, <1>6, <1>7
      <4>2. x \in 0 .. Len(e)
        BY <1>6, <1>7
      <4>3. /\ SubSeq(e, 1, x) \in Seq(Nat) /\ Len(SubSeq(e, 1, x)) = x
            /\ \A i \in 1 .. x : SubSeq(e, 1, x)[i] = e[i]
        BY <4>2, CutOf
      <4>4. \A i \in 1 .. x : SubSeq(e, 1, x)[i] = head[i]
        BY <4>1, <4>3
      <4>5. SubSeq(e, 1, x) = head
        BY <4>3, <4>4, <1>4, SeqEqual
      <4> QED BY <4>5, <1>4
    <3>4. SubSeq(head, 1, Len(head)) = head
      BY SubSeqFull
    <3> QED BY <3>1, <3>2, <3>3, <3>4, <1>9 DEF IsPrefix
  <2>2. CASE str = <<>>
    <3>1. new = head
      BY <2>2, <1>6, ConcatEmptySeq
    <3>2. SubSeq(head, 1, Len(head)) = head
      BY SubSeqFull
    <3>3. Before(c) = head /\ b.data = d /\ Len(head) <= Len(d)
      BY <3>1, <1>1, <1>2, <1>4, <1>10
    <3>4. SubSeq(d, 1, Len(head)) = head
      BY <1>4
    <3> QED BY <3>2, <3>3, <3>4 DEF IsPrefix
  <2> QED BY <2>1, <2>2, <1>2
<1> QED BY <1>8, <1>9, <1>10, <1>11, <1>12, <1>13 DEF EditsInFront

\* Moving the cursor changes no text.
LEMMA MovedInFront ==
  ASSUME NEW b \in Buffer, NEW x \in 0 .. Len(b.data)
  PROVE  At(b, x) \in Buffer /\ EditsInFront(b, At(b, x))
<1>1. /\ b.data \in Seq(Nat) /\ b.text_x \in Nat /\ b.last_point \in Nat
      /\ b = [data |-> b.data, text_x |-> b.text_x, last_point |-> b.last_point]
  BY DEF Buffer
<1>2. At(b, x) = [data |-> b.data, text_x |-> x, last_point |-> b.last_point]
  BY <1>1 DEF At
<1> QED BY <1>1, <1>2 DEF Buffer, EditsInFront

\* Each operation edits in front of the cursor, or only moves it.
LEMMA OperationsInFront ==
  ASSUME NEW b \in Buffer, NEW c,
         \/ \E str \in Seq(Nat) : c = AppendText(b, str)
         \/ c \in {b, RemoveChar(b), RemoveWord(b), ClearData(b), MoveLeft(b), MoveRight(b),
                   MoveUp(b), MoveDown(b), MoveLineStart(b), MoveLineEnd(b),
                   MoveWordBack(b), MoveWordForward(b)}
  PROVE  c \in Buffer /\ EditsInFront(b, c)
<1>1. PICK d \in Seq(Nat), p \in Nat : d = b.data /\ p = b.text_x /\ p <= Len(d)
  BY DEF Buffer
<1>2. b.last_point \in Nat /\ Len(d) \in Nat
  BY DEF Buffer
<1>3. b = At(b, p) /\ p \in 0 .. Len(d)
  BY <1>1, <1>2 DEF Buffer, At
<1>4. b \in Buffer /\ EditsInFront(b, b)
  BY <1>1, <1>2 DEF Buffer, EditsInFront
<1>5. ASSUME NEW str \in Seq(Nat), c = AppendText(b, str)
      PROVE  c \in Buffer /\ EditsInFront(b, c)
  <2>1. Before(b) = SubSeq(b.data, 1, p) /\ p \in 0 .. b.text_x
    BY <1>1 DEF Before
  <2> QED BY <1>1, <1>5, <2>1, ReplacedInFront DEF AppendText
<1>6. ASSUME NEW x \in 0 .. p,
             c = Changed(b, SubSeq(b.data, 1, x) \o Behind(b), x)
      PROVE  c \in Buffer /\ EditsInFront(b, c)
  <2>1. SubSeq(b.data, 1, x) \in Seq(Nat)
    <3>1. x \in 0 .. Len(d)
      BY <1>1, <1>2
    <3> QED BY <1>1, <3>1, CutOf
  <2>2. SubSeq(b.data, 1, x) \o <<>> = SubSeq(b.data, 1, x)
    BY <2>1, ConcatEmptySeq
  <2>3. x + Len(<<>>) = x /\ x \in 0 .. b.text_x /\ <<>> \in Seq(Nat)
    BY <1>1
  <2> QED BY <1>6, <2>2, <2>3, ReplacedInFront
<1>7. CASE c = RemoveChar(b)
  <2>1. CASE p = 0
    BY <2>1, <1>1, <1>4, <1>7 DEF RemoveChar
  <2>2. CASE p # 0
    <3>1. p - 1 \in 0 .. p /\ p \in 0 .. Len(d)
      BY <2>2, <1>1
    <3>2. Front(Before(b)) = SubSeq(d, 1, p - 1)
      <4>1. PICK h \in Seq(Nat) :
              h = SubSeq(d, 1, p) /\ Len(h) = p /\ \A i \in 1 .. p : h[i] = d[i]
        <5>1. /\ SubSeq(d, 1, p) \in Seq(Nat) /\ Len(SubSeq(d, 1, p)) = p
              /\ \A i \in 1 .. p : SubSeq(d, 1, p)[i] = d[i]
          BY <3>1, CutOf
        <5> QED BY <5>1
      <4>2. p - 1 \in 0 .. Len(h) /\ p - 1 \in 0 .. Len(d)
        BY <4>1, <2>2, <3>1
      <4>3. /\ SubSeq(h, 1, p - 1) \in Seq(Nat) /\ Len(SubSeq(h, 1, p - 1)) = p - 1
            /\ \A i \in 1 .. p - 1 : SubSeq(h, 1, p - 1)[i] = h[i]
        BY <4>2, CutOf
      <4>4. /\ SubSeq(d, 1, p - 1) \in Seq(Nat) /\ Len(SubSeq(d, 1, p - 1)) = p - 1
            /\ \A i \in 1 .. p - 1 : SubSeq(d, 1, p - 1)[i] = d[i]
        BY <4>2, CutOf
      <4>5. \A i \in 1 .. p - 1 : SubSeq(h, 1, p - 1)[i] = SubSeq(d, 1, p - 1)[i]
        BY <4>1, <4>3, <4>4
      <4>6. SubSeq(h, 1, p - 1) = SubSeq(d, 1, p - 1)
        BY <4>3, <4>4, <4>5, SeqEqual
      <4> QED BY <4>1, <4>6, <1>1 DEF Front, Before
    <3>3. c = Changed(b, SubSeq(b.data, 1, p - 1) \o Behind(b), p - 1)
      BY <1>1, <1>7, <2>2, <3>2 DEF RemoveChar
    <3> QED BY <3>1, <3>3, <1>6
  <2> QED BY <2>1, <2>2
<1>8. CASE c = RemoveWord(b)
  <2>1. CASE p = 0
    BY <2>1, <1>1, <1>4, <1>8 DEF RemoveWord
  <2>2. CASE p # 0
    <3> DEFINE blanks == {0} \cup {i \in 1 .. p - 1 : d[i] \in {SPACE, TAB, NL}}
    <3>1. blanks \subseteq 0 .. p /\ blanks # {}
      OBVIOUS
    <3>2. Max(blanks) \in 0 .. p
      <4> HIDE DEF blanks
      <4> QED BY <3>1, MaxOf
    <3>3. c = Changed(b, SubSeq(b.data, 1, Max(blanks)) \o Behind(b), Max(blanks))
      BY <1>1, <1>8, <2>2 DEF RemoveWord
    <3> HIDE DEF blanks
    <3> QED BY <3>2, <3>3, <1>6
  <2> QED BY <2>1, <2>2
<1>9. CASE c = ClearData(b)
  <2>1. c = [data |-> <<>>, text_x |-> 0, last_point |-> b.last_point + 1]
    BY <1>9 DEF ClearData, Changed
  <2> QED BY <2>1, <1>2 DEF Buffer, EditsInFront
<1>10. ASSUME NEW x \in 0 .. Len(d), c = At(b, x) PROVE c \in Buffer /\ EditsInFront(b, c)
  BY <1>1, <1>10, MovedInFront
<1>11. ASSUME NEW S, S \subseteq 0 .. Len(d), S # {}
       PROVE  Max(S) \in 0 .. Len(d) /\ Min(S) \in 0 .. Len(d)
  <2>1. S \subseteq Nat
    BY <1>11, <1>2
  <2>2. Max(S) \in S
    BY <1>2, <1>11, MaxOf
  <2>3. Min(S) \in S
    BY <2>1, <1>11, MinOf
  <2> QED BY <2>2, <2>3, <1>11
<1>12. CASE c \in {MoveLeft(b), MoveRight(b)}
  <2>2. Max({0, p - 1}) \in 0 .. Len(d)
    <3>1. CASE p = 0
      <4>1. \A S : S = {0, p - 1} => Max(S) = 0
        BY <3>1 DEF Max
      <4> QED BY <4>1, <1>2
    <3>2. CASE p # 0
      <4>1. {0, p - 1} \subseteq 0 .. Len(d) /\ {0, p - 1} # {}
        BY <3>2, <1>1, <1>2
      <4> QED BY <4>1, <1>11
    <3> QED BY <3>1, <3>2
  <2>3. Min({Len(d), p + 1}) \in 0 .. Len(d)
    <3>1. {Len(d), p + 1} \subseteq Nat /\ {Len(d), p + 1} # {}
      BY <1>1, <1>2
    <3>2. Min({Len(d), p + 1}) \in {Len(d), p + 1} /\ Min({Len(d), p + 1}) <= Len(d)
      BY <3>1, MinOf
    <3> QED BY <3>2, <1>1, <1>2
  <2> QED BY <1>1, <1>10, <1>12, <2>2, <2>3 DEF MoveLeft, MoveRight
<1>13. Newlines(b) \subseteq 0 .. Len(d)
  BY <1>1, <1>2 DEF Newlines
<1>14. CASE c = MoveUp(b)
  <2> DEFINE up == {i \in Newlines(b) : i < b.text_x}
             x == IF up = {} THEN b.text_x ELSE Max(up)
  <2>1. x \in 0 .. Len(d)
    <3>1. up \subseteq 0 .. Len(d)
      BY <1>13
    <3> HIDE DEF up
    <3> QED BY <3>1, <1>3, <1>11, <1>1
  <2>2. c = At(b, x)
    BY <1>14 DEF MoveUp
  <2> QED BY <2>1, <2>2, <1>10
<1>15. CASE c = MoveDown(b)
  <2> DEFINE S == {Len(d)} \cup {i \in Newlines(b) : i > b.text_x}
  <2>1. S \subseteq 0 .. Len(d) /\ S # {}
    BY <1>13, <1>2
  <2>2. c = At(b, Min(S))
    BY <1>15, <1>1 DEF MoveDown
  <2> HIDE DEF S
  <2> QED BY <2>1, <2>2, <1>10, <1>11
<1>16. CASE c = MoveLineStart(b)
  <2> DEFINE S == {0} \cup {i \in 2 .. p : d[i] = NL}
  <2>1. S \subseteq 0 .. Len(d) /\ S # {}
    BY <1>1, <1>2
  <2>2. c = At(b, Max(S))
    BY <1>16, <1>1 DEF MoveLineStart
  <2> HIDE DEF S
  <2> QED BY <2>1, <2>2, <1>10, <1>11
<1>17. CASE c = MoveLineEnd(b)
  <2> DEFINE S == {Len(d)} \cup {i \in Newlines(b) : i >= b.text_x /\ i < Len(d) - 1}
  <2>1. S \subseteq 0 .. Len(d) /\ S # {}
    BY <1>13, <1>2
  <2>2. c = At(b, Min(S))
    BY <1>17, <1>1 DEF MoveLineEnd
  <2> HIDE DEF S
  <2> QED BY <2>1, <2>2, <1>10, <1>11
<1>18. CASE c = MoveWordBack(b)
  <2> DEFINE S == {0} \cup {i \in 2 .. p - 1 : d[i] = SPACE}
  <2>1. S \subseteq 0 .. Len(d) /\ S # {}
    BY <1>1, <1>2
  <2>2. c = At(b, Max(S))
    BY <1>18, <1>1 DEF MoveWordBack
  <2> HIDE DEF S
  <2> QED BY <2>1, <2>2, <1>10, <1>11
<1>19. CASE c = MoveWordForward(b)
  <2> DEFINE S == {Len(d)} \cup {i \in p + 2 .. Len(d) - 1 : d[i + 1] = SPACE}
  <2>1. S \subseteq 0 .. Len(d) /\ S # {}
    BY <1>1, <1>2
  <2>2. c = At(b, Min(S))
    BY <1>19, <1>1 DEF MoveWordForward
  <2> HIDE DEF S
  <2> QED BY <2>1, <2>2, <1>10, <1>11
<1> QED BY <1>4, <1>5, <1>7, <1>8, <1>9, <1>12, <1>14, <1>15, <1>16, <1>17, <1>18, <1>19

\* text.cc, text_field.cc, chat_input.h: whatever key is pressed in whatever text,
\* wherever the cursor is, the cursor stays in the text, the text changes only in
\* front of it (or is emptied), and the layout is told of the change.
THEOREM KeysEditInFront ==
  ASSUME NEW b \in Buffer, NEW styleMode \in BOOLEAN, NEW images,
         NEW key \in STRING, NEW ctrl \in BOOLEAN, NEW alt \in BOOLEAN
  PROVE  LET input == [text |-> b, styleMode |-> styleMode, images |-> images]
             c == ChatKey(input, key, ctrl, alt).text
         IN c \in Buffer /\ EditsInFront(b, c)
<1> SUFFICES ASSUME NEW input,
                    input = [text |-> b, styleMode |-> styleMode, images |-> images],
                    NEW c, c = ChatKey(input, key, ctrl, alt).text
             PROVE  c \in Buffer /\ EditsInFront(b, c)
  OBVIOUS
<1>1. \A x \in DOMAIN StyleCode : <<StyleCode[x]>> \in Seq(Nat)
  <2> TAKE x \in DOMAIN StyleCode
  <2>1. StyleCode[x] \in Nat
    BY DEF StyleCode
  <2> QED BY <2>1
<1>2. \/ \E str \in Seq(Nat) : FieldKey(b, key, ctrl, alt) = AppendText(b, str)
      \/ FieldKey(b, key, ctrl, alt) \in
           {b, RemoveChar(b), RemoveWord(b), ClearData(b), MoveLeft(b), MoveRight(b),
            MoveUp(b), MoveDown(b), MoveLineStart(b), MoveLineEnd(b),
            MoveWordBack(b), MoveWordForward(b)}
  <2>1. <<NL>> \in Seq(Nat)
    BY DEF NL
  <2> QED BY <2>1 DEF FieldKey
<1>3. CASE styleMode /\ ctrl
  <2>1. c = IF key \in DOMAIN StyleCode THEN AppendText(b, <<StyleCode[key]>>) ELSE b
    BY <1>3 DEF ChatKey
  <2> QED BY <2>1, <1>1, OperationsInFront
<1>4. CASE ~(styleMode /\ ctrl)
  <2>1. c = b \/ c = FieldKey(b, key, ctrl, alt)
    BY <1>4 DEF ChatKey
  <2>2. CASE c = b
    BY <2>2, OperationsInFront
  <2>3. CASE c = FieldKey(b, key, ctrl, alt)
    BY <2>3, <1>2, OperationsInFront
  <2> QED BY <2>1, <2>2, <2>3
<1> QED BY <1>3, <1>4

\* text.cc:26-52: from wherever in whatever text, the up key goes to the line
\* above, and the down key behind the line the cursor is on: no line is skipped.
THEOREM LineKeysSkipNoLine == \A b \in Buffer : ReachesLines(b)
<1> SUFFICES ASSUME NEW b \in Buffer PROVE ReachesLines(b)
  OBVIOUS
<1>1. PICK d \in Seq(Nat), p \in Nat : d = b.data /\ p = b.text_x /\ p <= Len(d)
  BY DEF Buffer
<1>2. PICK n \in Nat : n = Len(d)
  BY <1>1
<1>3. b = [data |-> d, text_x |-> p, last_point |-> b.last_point]
  BY <1>1 DEF Buffer
<1> DEFINE N == {i \in 0 .. n - 1 : d[i + 1] = NL}
           Above(x) == {i \in N : i < x}
<1>4. \A x : GetCursorPosition(At(b, x)).y = Cardinality(Above(x))
  <2> TAKE x
  <2>1. At(b, x).data = d /\ At(b, x).text_x = x
    BY <1>3 DEF At
  <2>2. Newlines(At(b, x)) = N
    BY <2>1, <1>2 DEF Newlines
  <2> QED BY <2>1, <2>2 DEF GetCursorPosition
<1>5. Newlines(b) = N /\ At(b, p) = b
  BY <1>1, <1>2, <1>3 DEF Newlines, At
<1>6. \A x : IsFiniteSet(Above(x))
  <2> TAKE x
  <2>1. IsFiniteSet(0 .. n - 1) /\ Above(x) \subseteq 0 .. n - 1
    BY FS_Interval
  <2> HIDE DEF Above
  <2> QED BY <2>1, FS_Subset
<1>7. PICK y \in Nat : y = Cardinality(Above(p)) /\ GetCursorPosition(b).y = y
  <2>1. Cardinality(Above(p)) \in Nat
    BY <1>6, FS_CardinalityType
  <2> HIDE DEF Above
  <2> QED BY <2>1, <1>4, <1>5
<1>8. GetCursorPosition(MoveUp(b)).y = Max({0, y - 1})
  <2> DEFINE up == IF Above(p) = {} THEN p ELSE Max(Above(p))
  <2>1. MoveUp(b) = At(b, up)
    BY <1>1, <1>5 DEF MoveUp
  <2>2. CASE Above(p) = {}
    <3>1. y = 0
      BY <2>2, <1>7, FS_EmptySet
    <3>2. up = p
      BY <2>2
    <3>3. \A S : S = {0, y - 1} => Max(S) = 0
      BY <3>1 DEF Max
    <3> QED BY <1>4, <1>7, <2>1, <3>1, <3>2, <3>3
  <2>3. CASE Above(p) # {}
    <3>1. Above(p) \subseteq 0 .. n /\ n \in Nat
      OBVIOUS
    <3>2. PICK m \in Above(p) : m = Max(Above(p)) /\ \A i \in Above(p) : m >= i
      <4> HIDE DEF Above
      <4> QED BY <3>1, <2>3, MaxOf
    <3>3. Above(m) = Above(p) \ {m}
      <4>1. m \in Nat /\ m < p /\ N \subseteq Nat
        OBVIOUS
      <4>2. \A i \in N : i < m <=> i < p /\ i # m
        <5> TAKE i \in N
        <5>1. i < p => i \in Above(p) /\ m >= i
          BY <3>2
        <5> QED BY <4>1, <5>1
      <4> QED BY <4>2
    <3>4. Cardinality(Above(p) \ {m}) = y - 1 /\ y - 1 \in Nat
      <4>1. Cardinality(Above(p) \ {m}) = Cardinality(Above(p)) - 1
        <5> HIDE DEF Above
        <5> QED BY <3>2, <1>6, FS_RemoveElement
      <4>2. Above(p) \ {m} \subseteq Above(p)
        OBVIOUS
      <4>3. Cardinality(Above(p) \ {m}) \in Nat
        <5> HIDE DEF Above
        <5> QED BY <4>2, <1>6, FS_Subset, FS_CardinalityType
      <4> QED BY <4>1, <4>3, <1>7
    <3>5. Max({0, y - 1}) = y - 1
      <4>1. \A S : S = {0, y - 1} => Max(S) = y - 1
        BY <3>4 DEF Max
      <4> QED BY <4>1
    <3>6. GetCursorPosition(At(b, m)).y = Cardinality(Above(m))
      BY <1>4
    <3>7. MoveUp(b) = At(b, m)
      BY <2>1, <2>3, <3>2
    <3> HIDE DEF Above, up
    <3> QED BY <3>3, <3>4, <3>5, <3>6, <3>7
  <2> QED BY <2>2, <2>3
<1>9. /\ GetCursorPosition(MoveDown(b)).y =
           y + (IF p < n /\ d[p + 1] = NL THEN 1 ELSE 0)
      /\ MoveDown(b).text_x > p \/ p = n
  <2> DEFINE S == {n} \cup {i \in N : i > p}
  <2>1. MoveDown(b) = At(b, Min(S))
    BY <1>1, <1>2, <1>5 DEF MoveDown
  <2>2. PICK x \in S : x = Min(S) /\ \A i \in S : x <= i
    <3>1. S \subseteq Nat /\ S # {}
      OBVIOUS
    <3> HIDE DEF S
    <3> QED BY <3>1, MinOf
  <2>3. MoveDown(b) = At(b, x) /\ At(b, x).text_x = x
    BY <2>1, <2>2, <1>3 DEF At
  <2>4. Above(x) = Above(p) \cup (IF p < n /\ d[p + 1] = NL THEN {p} ELSE {})
    <3>1. \A i \in N : i < x <=> i <= p
      <4> TAKE i \in N
      <4>3. i \in Nat /\ i < n /\ (x = n \/ x > p) /\ x \in Nat
        OBVIOUS
      <4>1. CASE i > p
        <5>1. i \in S
          BY <4>1
        <5> QED BY <5>1, <2>2, <4>1, <4>3
      <4>2. CASE i <= p
        BY <4>2, <4>3
      <4> QED BY <4>1, <4>2
    <3>2. p \in N <=> p < n /\ d[p + 1] = NL
      OBVIOUS
    <3> QED BY <3>1, <3>2
  <2>5. GetCursorPosition(MoveDown(b)).y = Cardinality(Above(x))
    BY <1>4, <2>3
  <2>6. CASE p < n /\ d[p + 1] = NL
    <3>1. Above(x) = Above(p) \cup {p} /\ p \notin Above(p)
      BY <2>4, <2>6
    <3>2. Cardinality(Above(p) \cup {p}) = Cardinality(Above(p)) + 1
      <4> HIDE DEF Above
      <4> QED BY <3>1, <1>6, FS_AddElement
    <3>3. x > p
      BY <2>2, <2>6
    <3> HIDE DEF Above
    <3> QED BY <2>3, <2>5, <2>6, <3>1, <3>2, <3>3, <1>7
  <2>7. CASE ~(p < n /\ d[p + 1] = NL)
    <3>1. Above(x) = Above(p)
      BY <2>4, <2>7
    <3>2. x > p \/ p = n
      <4>1. x \in Nat /\ (x = n \/ x > p) /\ p <= n
        BY <1>1, <1>2
      <4> QED BY <4>1
    <3> HIDE DEF Above
    <3> QED BY <2>3, <2>5, <2>7, <3>1, <3>2, <1>7
  <2> QED BY <2>6, <2>7
<1> QED BY <1>1, <1>2, <1>7, <1>8, <1>9 DEF ReachesLines

\* text.cc:77-96: what a removed word leaves ends at a blank, or is nothing, and
\* no blank but the one at the cursor is taken away with it.
THEOREM WordsAreRemoved == \A b \in Buffer : RemovesWord(b, RemoveWord(b))
<1> SUFFICES ASSUME NEW b \in Buffer PROVE RemovesWord(b, RemoveWord(b))
  OBVIOUS
<1>1. PICK d \in Seq(Nat), p \in Nat : d = b.data /\ p = b.text_x /\ p <= Len(d)
  BY DEF Buffer
<1>2. CASE p = 0
  <2>1. RemoveWord(b) = b
    BY <1>1, <1>2 DEF RemoveWord
  <2> QED BY <2>1, <1>1, <1>2 DEF RemovesWord
<1>3. CASE p # 0
  <2> DEFINE S == {0} \cup {i \in 1 .. p - 1 : d[i] \in {SPACE, TAB, NL}}
  <2>1. PICK x \in S : x = Max(S) /\ \A i \in S : x >= i
    <3>1. S \subseteq 0 .. p /\ S # {}
      OBVIOUS
    <3> HIDE DEF S
    <3> QED BY <3>1, MaxOf
  <2>2. RemoveWord(b) = Changed(b, SubSeq(d, 1, x) \o Behind(b), x)
    BY <1>1, <1>3, <2>1 DEF RemoveWord
  <2>3. RemoveWord(b).text_x = x /\ RemoveWord(b).data = SubSeq(d, 1, x) \o Behind(b)
    BY <2>2 DEF Changed
  <2>4. ASSUME x # 0 PROVE RemoveWord(b).data[x] = d[x]
    <3>1. x \in 0 .. Len(d) /\ p \in 0 .. Len(d)
      BY <1>1
    <3>2. PICK h \in Seq(Nat) :
            h = SubSeq(d, 1, x) /\ Len(h) = x /\ \A i \in 1 .. x : h[i] = d[i]
      <4>1. /\ SubSeq(d, 1, x) \in Seq(Nat) /\ Len(SubSeq(d, 1, x)) = x
            /\ \A i \in 1 .. x : SubSeq(d, 1, x)[i] = d[i]
        BY <3>1, CutOf
      <4> QED BY <4>1
    <3>3. PICK t \in Seq(Nat) : t = Behind(b)
      <4>1. SubSeq(d, p + 1, Len(d)) \in Seq(Nat)
        BY <3>1, CutOf
      <4> QED BY <4>1, <1>1 DEF Behind
    <3>4. x \in 1 .. Len(h) + Len(t) /\ x <= Len(h) /\ x \in 1 .. x
      BY <3>1, <3>2, <2>4
    <3>5. (h \o t)[x] = h[x]
      BY <3>4, ConcatProperties
    <3> QED BY <2>3, <3>2, <3>3, <3>4, <3>5
  <2>5. \A i \in x + 1 .. p - 1 : d[i] \notin {SPACE, TAB, NL}
    BY <2>1
  <2>6. x = 0 \/ d[x] \in {SPACE, TAB, NL}
    OBVIOUS
  <2> HIDE DEF S
  <2> QED BY <1>1, <2>3, <2>4, <2>5, <2>6 DEF RemovesWord
<1> QED BY <1>2, <1>3
=============================================================================
