----------------------------- MODULE GameProofs -----------------------------
(***************************************************************************)
(* Lemmas about the operators of Game and Table: the scans of game.c end,  *)
(* its counters count, and doAction writes what its lines say; which       *)
(* states are ready for an action, and that valid actions keep them so;    *)
(* what the steps of a match do to a table; and how sums unfold.           *)
(* HandProofs, MatchProofs, DealerProofs and DeepStackProofs build on them.*)
(***************************************************************************)
EXTENDS Table, TLAPS, WellFoundedInduction, FiniteSetTheorems

\* A set of naturals has a least element: the induction of this module, since
\* no backend can use a theorem about an arbitrary predicate.
LEMMA LeastNatural ==
  ASSUME NEW T \in SUBSET Nat, T # {}
  PROVE  \E m \in T : \A k \in T : m <= k
<1> DEFINE R == {ss \in Nat \X Nat : ss[1] < ss[2]}
<1>1. IsWellFoundedOn(R, Nat)
  <2>1. R = OpToRel(<, Nat)
    BY DEF OpToRel
  <2>2. QED BY <2>1, NatLessThanWellFounded
<1>2. \A k, m \in T : k < m => <<k, m>> \in R
  OBVIOUS
<1> HIDE DEF R
<1>3. PICK m \in T : \A k \in T : ~(<<k, m>> \in R)
  BY <1>1, WFMin
<1>4. \A k \in T : ~(k < m)
  BY <1>2, <1>3
<1>5. \A k \in T : m <= k
  BY <1>4
<1> QED BY <1>5

\* A function on the players has an upper bound among the naturals.
LEMMA UpperBound ==
  ASSUME NEW f \in [Players -> Nat]
  PROVE  \E b \in Nat : \A p \in Players : f[p] <= b
<1> DEFINE bounded(n) == \E b \in Nat : \A p \in Players : p < n => f[p] <= b
           T == {n \in Nat : n <= numPlayers /\ ~bounded(n)}
<1>1. SUFFICES ASSUME ~bounded(numPlayers) PROVE FALSE
  BY GameAssumption DEF Players
<1>2. numPlayers \in T
  BY <1>1, GameAssumption
<1>3. PICK m \in T : \A k \in T : m <= k
  <2>1. T \in SUBSET Nat /\ T # {}
    BY <1>2
  <2> HIDE DEF T
  <2>2. QED BY <2>1, LeastNatural
<1>4. m # 0
  <2>1. 0 \in Nat /\ \A p \in Players : ~(p < 0)
    BY GameAssumption DEF Players
  <2>2. bounded(0)
    BY <2>1
  <2>3. QED BY <2>2, <1>3
<1>5. bounded(m - 1)
  <2>1. m - 1 \in Nat /\ m - 1 <= numPlayers /\ ~(m <= m - 1)
    BY <1>3, <1>4, GameAssumption
  <2>2. m - 1 \notin T
    BY <1>3, <2>1
  <2>3. QED BY <2>1, <2>2
<1>6. PICK b \in Nat : \A p \in Players : p < m - 1 => f[p] <= b
  BY <1>5
<1>7. m - 1 \in Players
  BY <1>3, <1>4, GameAssumption DEF Players
<1>8. bounded(m)
  <2> DEFINE c == Larger(b, f[m - 1])
  <2>1. c \in Nat /\ b <= c /\ f[m - 1] <= c
    BY <1>7, <1>6 DEF Larger
  <2> HIDE DEF c
  <2>2. \A p \in Players : p < m => p < m - 1 \/ p = m - 1
    BY <1>3, GameAssumption DEF Players
  <2>3. \A p \in Players : p < m => f[p] <= c
    BY <2>1, <2>2, <1>6, <1>7
  <2>4. QED BY <2>1, <2>3
<1> QED BY <1>3, <1>8

\* The big blind exists: no blind is larger, and somebody posts it.
LEMMA BigBlindIsMax ==
  /\ BigBlind \in Nat
  /\ \E p \in Players : blind[p] = BigBlind
  /\ \A p \in Players : blind[p] <= BigBlind
<1> DEFINE B == {blind[p] : p \in Players}
           T == {n \in Nat : \A p \in Players : blind[p] <= n}
<1>1. blind \in [Players -> Nat] /\ 0 \in Players
  BY GameAssumption DEF Players
<1>2. PICK m \in T : \A k \in T : m <= k
  <2>1. T \in SUBSET Nat /\ T # {}
    BY <1>1, UpperBound
  <2> HIDE DEF T
  <2>2. QED BY <2>1, LeastNatural
<1>3. \E p \in Players : blind[p] = m
  <2> SUFFICES ASSUME \A p \in Players : blind[p] # m PROVE FALSE
    OBVIOUS
  <2>1. \A p \in Players : blind[p] <= m - 1
    BY <1>1, <1>2
  <2>2. m - 1 \in Nat
    BY <1>1, <2>1
  <2>3. QED BY <2>1, <2>2, <1>2
<1>4. \E x \in B : \A y \in B : x >= y
  BY <1>1, <1>2, <1>3
<1>5. BigBlind \in B /\ \A y \in B : BigBlind >= y
  BY <1>4 DEF BigBlind, Max
<1> QED BY <1>1, <1>5

-----------------------------------------------------------------------------
(* Sums.                                                                   *)

\* SumTo is the recursive function that its definition says.
LEMMA SumIsRecursive ==
  ASSUME NEW f, NEW n \in Nat
  PROVE  \E sum : /\ sum = [i \in 0 .. n |-> IF i = 0 THEN 0 ELSE sum[i - 1] + f[i]]
                  /\ SumTo(f, n) = sum[n]
<1> DEFINE row(g, i) == IF i = 0 THEN 0 ELSE g[i - 1] + f[i]
           steps(g, m) == [i \in 0 .. m |-> row(g, i)]
           Bad == {m \in 0 .. n : ~\E g : g = steps(g, m)}
<1>1. Bad = {}
  <2> SUFFICES ASSUME Bad # {} PROVE FALSE
    OBVIOUS
  <2>1. PICK m \in Bad : \A k \in Bad : m <= k
    <3>1. Bad \in SUBSET Nat
      OBVIOUS
    <3> HIDE DEF Bad
    <3> QED BY <3>1, LeastNatural
  <2>2. m \in 0 .. n
    OBVIOUS
  <2>3. m # 0
    <3> DEFINE h == [i \in 0 .. 0 |-> 0]
    <3>1. h = steps(h, 0)
      OBVIOUS
    <3> HIDE DEF h
    <3>2. 0 \notin Bad
      BY <3>1
    <3> QED BY <3>2
  <2>4. PICK g : g = steps(g, m - 1)
    <3>1. m - 1 \in 0 .. n /\ m - 1 \notin Bad
      BY <2>1, <2>2, <2>3
    <3> HIDE DEF steps
    <3> QED BY <3>1
  <2> DEFINE h == [i \in 0 .. m |-> IF i = m THEN row(g, m) ELSE g[i]]
  <2>5. \A i \in 0 .. m - 1 : g[i] = row(g, i)
    BY <2>4
  <2>6. \A i \in 0 .. m : i # 0 => h[i - 1] = g[i - 1]
    BY <2>2
  <2>7. h = [i \in 0 .. m |-> h[i]]
    OBVIOUS
  <2>8. ASSUME NEW i \in 0 .. m PROVE h[i] = row(h, i)
    <3>1. row(h, i) = row(g, i)
      BY <2>6
    <3>2. CASE i = m
      BY <3>1, <3>2
    <3>3. CASE i # m
      <4>1. i \in 0 .. m - 1 /\ h[i] = g[i]
        BY <3>3, <2>2
      <4> QED BY <4>1, <3>1, <2>5
    <3> QED BY <3>2, <3>3
  <2> HIDE DEF h
  <2>9. h = steps(h, m)
    BY <2>7, <2>8
  <2> HIDE DEF steps
  <2> QED BY <2>9
<1>2. \E g : g = steps(g, n)
  <2>1. n \in 0 .. n /\ n \notin Bad
    BY <1>1
  <2> HIDE DEF steps
  <2> QED BY <2>1
<1> DEFINE sum == CHOOSE g : g = steps(g, n)
<1>3. sum = steps(sum, n)
  BY <1>2
<1>4. SumTo(f, n) = sum[n]
  BY DEF SumTo
<1> QED BY <1>3, <1>4

\* Two such functions agree as far as they go, so that a sum can be unfolded.
LEMMA SumStep ==
  ASSUME NEW f
  PROVE  /\ SumTo(f, 0) = 0
         /\ \A n \in Nat : SumTo(f, n + 1) = SumTo(f, n) + f[n + 1]
<1>1. SumTo(f, 0) = 0
  <2>1. PICK sum : /\ sum = [i \in 0 .. 0 |-> IF i = 0 THEN 0 ELSE sum[i - 1] + f[i]]
                   /\ SumTo(f, 0) = sum[0]
    BY SumIsRecursive
  <2> QED BY <2>1
<1>2. ASSUME NEW n \in Nat PROVE SumTo(f, n + 1) = SumTo(f, n) + f[n + 1]
  <2>1. PICK g : /\ g = [i \in 0 .. n |-> IF i = 0 THEN 0 ELSE g[i - 1] + f[i]]
                 /\ SumTo(f, n) = g[n]
    BY SumIsRecursive
  <2>2. n + 1 \in Nat
    OBVIOUS
  <2>3. PICK h : /\ h = [i \in 0 .. n + 1 |-> IF i = 0 THEN 0 ELSE h[i - 1] + f[i]]
                 /\ SumTo(f, n + 1) = h[n + 1]
    BY <2>2, SumIsRecursive
  <2> DEFINE Bad == {i \in 0 .. n : g[i] # h[i]}
  <2>4. Bad = {}
    <3> SUFFICES ASSUME Bad # {} PROVE FALSE
      OBVIOUS
    <3>1. PICK m \in Bad : \A k \in Bad : m <= k
      <4>1. Bad \in SUBSET Nat
        OBVIOUS
      <4> HIDE DEF Bad
      <4> QED BY <4>1, LeastNatural
    <3>2. m \in 0 .. n /\ g[m] # h[m] /\ (m # 0 => g[m - 1] = h[m - 1])
      BY <3>1
    <3> QED BY <3>2, <2>1, <2>3
  <2>5. g[n] = h[n]
    BY <2>4
  <2>6. h[n + 1] = h[n] + f[n + 1]
    BY <2>3
  <2> QED BY <2>1, <2>3, <2>5, <2>6
<1> QED BY <1>1, <1>2

\* A sum of integers is an integer, and so is a sum of naturals a natural.
LEMMA SumType ==
  ASSUME NEW n \in Nat, NEW f, \A i \in 1 .. n : f[i] \in Int
  PROVE  \A m \in 0 .. n : SumTo(f, m) \in Int
<1> DEFINE Bad == {m \in 0 .. n : SumTo(f, m) \notin Int}
<1> SUFFICES ASSUME Bad # {} PROVE FALSE
  OBVIOUS
<1>1. PICK m \in Bad : \A k \in Bad : m <= k
  <2>1. Bad \in SUBSET Nat
    OBVIOUS
  <2> HIDE DEF Bad
  <2> QED BY <2>1, LeastNatural
<1>2. m \in 0 .. n /\ SumTo(f, m) \notin Int
  BY <1>1
<1>3. m # 0
  BY <1>2, SumStep
<1>4. m - 1 \in Nat /\ m - 1 \in 0 .. n /\ (m - 1) + 1 = m /\ m - 1 \notin Bad
  BY <1>1, <1>2, <1>3
<1>5. SumTo(f, (m - 1) + 1) = SumTo(f, m - 1) + f[(m - 1) + 1]
  BY <1>4, SumStep
<1> QED BY <1>2, <1>3, <1>4, <1>5

\* Equal entries have equal sums.
LEMMA SumOfEquals ==
  ASSUME NEW n \in Nat, NEW f, NEW g, \A i \in 1 .. n : f[i] = g[i]
  PROVE  SumTo(f, n) = SumTo(g, n)
<1> DEFINE Bad == {m \in 0 .. n : SumTo(f, m) # SumTo(g, m)}
<1> SUFFICES ASSUME Bad # {} PROVE FALSE
  BY n \in 0 .. n
<1>1. PICK m \in Bad : \A k \in Bad : m <= k
  <2>1. Bad \in SUBSET Nat
    OBVIOUS
  <2> HIDE DEF Bad
  <2> QED BY <2>1, LeastNatural
<1>2. m \in 0 .. n /\ SumTo(f, m) # SumTo(g, m)
  BY <1>1
<1>3. m # 0
  BY <1>2, SumStep
<1>4. m - 1 \in Nat /\ (m - 1) + 1 = m /\ m - 1 \notin Bad /\ m - 1 \in 0 .. n
  BY <1>1, <1>2, <1>3
<1>5. /\ SumTo(f, (m - 1) + 1) = SumTo(f, m - 1) + f[(m - 1) + 1]
      /\ SumTo(g, (m - 1) + 1) = SumTo(g, m - 1) + g[(m - 1) + 1]
  BY <1>4, SumStep
<1> QED BY <1>2, <1>3, <1>4, <1>5

\* What a stretch of equal entries adds.
LEMMA SumOfConstant ==
  ASSUME NEW a \in Nat, NEW k \in Nat, NEW c \in Int, NEW f,
         \A i \in 1 .. a : f[i] \in Int,
         \A i \in a + 1 .. a + k : f[i] = c
  PROVE  SumTo(f, a + k) = SumTo(f, a) + k * c
<1> DEFINE Bad == {m \in 0 .. k : SumTo(f, a + m) # SumTo(f, a) + m * c}
<1> SUFFICES ASSUME Bad # {} PROVE FALSE
  BY k \in 0 .. k
<1>1. PICK m \in Bad : \A j \in Bad : m <= j
  <2>1. Bad \in SUBSET Nat
    OBVIOUS
  <2> HIDE DEF Bad
  <2> QED BY <2>1, LeastNatural
<1>2. m \in 0 .. k /\ SumTo(f, a + m) # SumTo(f, a) + m * c
  BY <1>1
<1>3. SumTo(f, a) \in Int
  BY SumType, a \in 0 .. a
<1>4. m # 0
  BY <1>2, <1>3
<1>5. m - 1 \in Nat /\ m - 1 \notin Bad /\ m - 1 \in 0 .. k
  BY <1>1, <1>2, <1>4
<1>6. SumTo(f, (a + (m - 1)) + 1) = SumTo(f, a + (m - 1)) + f[(a + (m - 1)) + 1]
  BY <1>5, SumStep
<1>7. (a + (m - 1)) + 1 = a + m /\ f[a + m] = c
  BY <1>2, <1>4
<1>8. SumTo(f, a + (m - 1)) = SumTo(f, a) + (m - 1) * c
  BY <1>5
<1>9. (m - 1) * c + c = m * c
  BY <1>2
<1>10. (m - 1) * c \in Int /\ m * c \in Int
  BY <1>2
<1> HIDE DEF Bad
<1> QED BY <1>2, <1>3, <1>6, <1>7, <1>8, <1>9, <1>10

\* Sums are added entry by entry.
LEMMA SumOfSum ==
  ASSUME NEW n \in Nat, NEW f, NEW g, NEW h,
         \A i \in 1 .. n : f[i] \in Int /\ g[i] \in Int /\ h[i] = f[i] + g[i]
  PROVE  SumTo(h, n) = SumTo(f, n) + SumTo(g, n)
<1> DEFINE Bad == {m \in 0 .. n : SumTo(h, m) # SumTo(f, m) + SumTo(g, m)}
<1> SUFFICES ASSUME Bad # {} PROVE FALSE
  BY n \in 0 .. n
<1>1. PICK m \in Bad : \A k \in Bad : m <= k
  <2>1. Bad \in SUBSET Nat
    OBVIOUS
  <2> HIDE DEF Bad
  <2> QED BY <2>1, LeastNatural
<1>2. m \in 0 .. n /\ SumTo(h, m) # SumTo(f, m) + SumTo(g, m)
  BY <1>1
<1>3. m # 0
  BY <1>2, SumStep
<1>4. m - 1 \in Nat /\ (m - 1) + 1 = m /\ m - 1 \notin Bad /\ m - 1 \in 0 .. n /\ m \in 1 .. n
  BY <1>1, <1>2, <1>3
<1>5. /\ SumTo(f, (m - 1) + 1) = SumTo(f, m - 1) + f[(m - 1) + 1]
      /\ SumTo(g, (m - 1) + 1) = SumTo(g, m - 1) + g[(m - 1) + 1]
      /\ SumTo(h, (m - 1) + 1) = SumTo(h, m - 1) + h[(m - 1) + 1]
  BY <1>4, SumStep
<1>6. /\ SumTo(f, m - 1) \in Int /\ SumTo(g, m - 1) \in Int
  BY <1>4, SumType
<1>7. SumTo(h, m - 1) = SumTo(f, m - 1) + SumTo(g, m - 1)
  BY <1>4
<1> HIDE DEF Bad
<1> QED BY <1>2, <1>4, <1>5, <1>6, <1>7

\* A sum of ones counts them.
LEMMA SumCounts ==
  ASSUME NEW n \in Nat, NEW A \in SUBSET (1 .. n), NEW f,
         \A i \in 1 .. n : f[i] = IF i \in A THEN 1 ELSE 0
  PROVE  SumTo(f, n) = Cardinality(A)
<1> DEFINE upTo(m) == A \cap (1 .. m)
           Bad == {m \in 0 .. n : SumTo(f, m) # Cardinality(upTo(m))}
<1>1. IsFiniteSet(A)
  <2>1. IsFiniteSet(1 .. n)
    BY FS_Interval
  <2> QED BY <2>1, FS_Subset
<1>2. \A m \in 0 .. n : IsFiniteSet(upTo(m))
  BY <1>1, FS_Subset
<1>3. upTo(n) = A
  OBVIOUS
<1>4. SUFFICES ASSUME Bad # {} PROVE FALSE
  <2>1. n \in 0 .. n
    OBVIOUS
  <2> HIDE DEF upTo
  <2> QED BY <2>1, <1>3
<1>5. PICK m \in Bad : \A k \in Bad : m <= k
  <2>1. Bad \in SUBSET Nat
    OBVIOUS
  <2> HIDE DEF Bad
  <2> QED BY <2>1, <1>4, LeastNatural
<1>6. m \in 0 .. n /\ SumTo(f, m) # Cardinality(upTo(m))
  <2> HIDE DEF upTo
  <2> QED BY <1>5
<1>7. m # 0
  <2>1. upTo(0) = {}
    BY ONLY TRUE
  <2>2. SumTo(f, 0) = 0 /\ Cardinality(upTo(0)) = 0
    BY <2>1, SumStep, FS_EmptySet
  <2> QED BY <2>2, <1>6
<1>8. m - 1 \in Nat /\ (m - 1) + 1 = m /\ m - 1 \in 0 .. n /\ m \in 1 .. n
  BY <1>6, <1>7
<1>9. SumTo(f, m - 1) = Cardinality(upTo(m - 1))
  <2>1. m - 1 \notin Bad
    <3> HIDE DEF Bad
    <3> QED BY <1>5, <1>8
  <2> HIDE DEF upTo
  <2> QED BY <2>1, <1>8
<1>10. SumTo(f, m) = SumTo(f, m - 1) + f[m]
  BY <1>8, SumStep
<1>11. /\ m \in A => upTo(m) = upTo(m - 1) \cup {m}
       /\ m \notin A => upTo(m) = upTo(m - 1)
       /\ m \notin upTo(m - 1)
  BY <1>8
<1>12. IsFiniteSet(upTo(m - 1))
  BY <1>2, <1>8
<1> HIDE DEF Bad, upTo
<1>13. Cardinality(upTo(m - 1)) \in Nat
  BY <1>12, FS_CardinalityType
<1>14. Cardinality(upTo(m - 1) \cup {m}) = Cardinality(upTo(m - 1)) + 1
  BY <1>11, <1>12, FS_AddElement
<1>15. f[m] = IF m \in A THEN 1 ELSE 0
  BY <1>8
<1>16. CASE m \in A
  BY <1>16, <1>6, <1>9, <1>10, <1>11, <1>13, <1>14, <1>15
<1>17. CASE m \notin A
  BY <1>17, <1>6, <1>9, <1>10, <1>11, <1>13, <1>15
<1> QED BY <1>16, <1>17

-----------------------------------------------------------------------------
(* Whose turn it is.                                                       *)

\* Arithmetic of the players' circle.
LEMMA ModuloOfMultiple ==
  ASSUME NEW n \in Nat, n > 0, NEW d \in Nat, NEW p \in 0 .. n - 1
  PROVE  (d * n + p) % n = p
OBVIOUS

\* A number in 32 bits is a number; and one that fits is kept as it is.
LEMMA Int32Type ==
  ASSUME NEW n \in Int
  PROVE  Int32(n) \in Int32s /\ Int32(n) \in Int
<1> DEFINE m == 2 * (INT32_MAX + 1)
           k == n + INT32_MAX + 1
<1>1. INT32_MAX \in Nat /\ m \in Nat /\ m > 0 /\ k \in Int
  BY Int32Assumption
<1>2. Int32(n) = (k % m) - (INT32_MAX + 1)
  BY DEF Int32
<1>3. (k % m) \in 0 .. m - 1
  <2> HIDE DEF m, k
  <2> QED BY <1>1
<1> DEFINE rest == k % m
<1>4. rest \in 0 .. m - 1 /\ Int32(n) = rest - (INT32_MAX + 1)
  BY <1>2, <1>3
<1> HIDE DEF rest
<1> QED BY <1>1, <1>4 DEF Int32s

LEMMA Int32Fits ==
  ASSUME NEW n \in Int, n >= 0, n <= INT32_MAX
  PROVE  Int32(n) = n
<1> DEFINE m == 2 * (INT32_MAX + 1)
           k == n + INT32_MAX + 1
<1>1. INT32_MAX \in Nat /\ m \in Nat /\ m > 0 /\ k \in 0 .. m - 1 /\ 0 * m + k = k
  BY Int32Assumption
<1>2. (0 * m + k) % m = k
  BY <1>1, ModuloOfMultiple
<1>3. Int32(n) = (k % m) - (INT32_MAX + 1)
  BY DEF Int32
<1> HIDE DEF m
<1> QED BY <1>1, <1>2, <1>3


\* Counting on from cur and wrapping at n, in terms of what cur leaves mod n.
LEMMA ModuloShift ==
  ASSUME NEW n \in Nat, n > 0, NEW cur \in Nat, NEW k \in Nat, NEW p \in 0 .. n - 1,
         (cur % n) + k = p \/ (cur % n) + k = p + n
  PROVE  (cur + k) % n = p
<1>1. \A d \in Nat : (d * n + p) % n = p
  BY ModuloOfMultiple
<1> DEFINE q == cur \div n
           c == cur % n
<1>2. q \in Nat /\ c \in 0 .. n - 1 /\ cur = q * n + c
  OBVIOUS
<1> HIDE DEF q, c
<1>3. CASE c + k = p
  <2>1. cur + k = q * n + p
    BY <1>2, <1>3
  <2>2. QED BY <1>1, <1>2, <2>1
<1>4. CASE c + k = p + n
  <2>1. q * n + c + k = (q + 1) * n + p
    BY <1>2, <1>4
  <2>2. cur + k = (q + 1) * n + p /\ q + 1 \in Nat
    BY <1>2, <2>1
  <2>3. QED BY <1>1, <2>2
<1> QED BY <1>3, <1>4 DEF c

\* The loop of nextPlayer ends when somebody can act: at the first who can.
LEMMA NextPlayerStops ==
  ASSUME NEW s \in State, NEW cur \in Nat, \E p \in Players : CanAct(s, p)
  PROVE  \E k \in 1 .. numPlayers :
            /\ nextPlayer(s, cur) = (cur + k) % numPlayers
            /\ nextPlayer(s, cur) \in Players /\ CanAct(s, nextPlayer(s, cur))
            /\ \A j \in 1 .. k - 1 : ~CanAct(s, (cur + j) % numPlayers)
<1> DEFINE at(k) == (cur + k) % numPlayers
           T == {k \in Nat : k \in 1 .. numPlayers /\ CanAct(s, at(k))}
           stops(k) == CanAct(s, at(k)) /\ \A j \in 1 .. k - 1 : ~CanAct(s, at(j))
<1>1. numPlayers \in Nat /\ numPlayers > 0
  BY GameAssumption
<1>2. \A k \in 1 .. numPlayers : at(k) \in Players
  BY <1>1 DEF Players
<1>3. \A p \in Players : \E k \in 1 .. numPlayers : at(k) = p
  <2> TAKE p \in Players
  <2> DEFINE c == cur % numPlayers
             k == IF p > c THEN p - c ELSE p - c + numPlayers
  <2>1. c \in 0 .. numPlayers - 1 /\ p \in 0 .. numPlayers - 1
    BY <1>1 DEF Players
  <2>2. k \in 1 .. numPlayers /\ (c + k = p \/ c + k = p + numPlayers)
    BY <1>1, <2>1
  <2>3. k \in Nat /\ p \in 0 .. numPlayers - 1
        /\ ((cur % numPlayers) + k = p \/ (cur % numPlayers) + k = p + numPlayers)
    BY <1>1, <2>1, <2>2
  <2> HIDE DEF k
  <2>4. (cur + k) % numPlayers = p
    BY <1>1, <2>3, ModuloShift
  <2>5. QED BY <2>2, <2>4
<1>4. PICK m \in T : \A k \in T : m <= k
  <2>1. PICK p \in Players : CanAct(s, p)
    OBVIOUS
  <2>2. PICK k \in 1 .. numPlayers : at(k) = p
    BY <1>3
  <2> HIDE DEF at
  <2>3. k \in T /\ T \in SUBSET Nat
    BY <2>1, <2>2, <1>1
  <2> HIDE DEF T
  <2>4. QED BY <2>3, LeastNatural
<1>5. \E k \in 1 .. numPlayers : stops(k)
  <2>1. m \in 1 .. numPlayers /\ CanAct(s, at(m))
    BY <1>4
  <2>2. \A j \in 1 .. m - 1 : j \in Nat /\ j \in 1 .. numPlayers /\ ~(m <= j)
    BY <2>1, <1>1
  <2>3. \A j \in 1 .. m - 1 : ~CanAct(s, at(j))
    BY <2>2, <1>4
  <2> HIDE DEF at, T
  <2>4. QED BY <2>1, <2>3
<1> DEFINE k == CHOOSE k \in 1 .. numPlayers : stops(k)
<1>6. k \in 1 .. numPlayers /\ stops(k)
  BY <1>5
<1>7. nextPlayer(s, cur) = at(k)
  BY DEF nextPlayer
<1> QED BY <1>2, <1>6, <1>7

LEMMA NextPlayerCanAct ==
  ASSUME NEW s \in State, NEW cur \in Nat, \E p \in Players : CanAct(s, p)
  PROVE  nextPlayer(s, cur) \in Players /\ CanAct(s, nextPlayer(s, cur))
BY NextPlayerStops

\* Of any state with somebody who can act, the current player is one of them.
LEMMA CurrentPlayerCanAct ==
  ASSUME NEW s \in State, \E p \in Players : CanAct(s, p)
  PROVE  currentPlayer(s) \in Players /\ CanAct(s, currentPlayer(s))
<1>1. s.action[s.round] \in Seq(Entry) /\ s.round \in Rounds
  BY DEF State
<1>2. CASE acts(s) # << >>
  <2> DEFINE last == acts(s)[Len(acts(s))].player
  <2>1. acts(s)[Len(acts(s))] \in Entry
    BY <1>1, <1>2 DEF acts
  <2>2. last \in Nat
    BY <2>1, GameAssumption DEF Entry, Players
  <2>3. currentPlayer(s) = nextPlayer(s, last)
    BY <1>2 DEF currentPlayer
  <2> HIDE DEF last
  <2>4. QED BY <2>2, <2>3, NextPlayerCanAct
<1>3. CASE acts(s) = << >>
  <2> DEFINE first == firstPlayer[s.round] + numPlayers - 1
  <2>1. first \in Nat
    BY <1>1, GameAssumption DEF Players
  <2>2. currentPlayer(s) = nextPlayer(s, first)
    BY <1>3 DEF currentPlayer
  <2> HIDE DEF first
  <2>3. QED BY <2>1, <2>2, NextPlayerCanAct
<1> QED BY <1>2, <1>3

\* The counters of game.c are natural numbers, and zero when nothing is counted.
LEMMA CountersCount ==
  ASSUME NEW s \in State
  PROVE  /\ numFolded(s) \in Nat
         /\ numActingPlayers(s) \in Nat
         /\ numCalled(s) \in Nat
         /\ numActingPlayers(s) > 0 <=> \E p \in Players : CanAct(s, p)
         /\ acts(s) = << >> => numCalled(s) = 0
<1>1. IsFiniteSet(Players)
  BY GameAssumption, FS_Interval DEF Players
<1>2. acts(s) \in Seq(Entry)
  BY DEF State, acts
<1>3. numFolded(s) \in Nat
  <2>1. {p \in Players : s.playerFolded[p]} \in SUBSET Players
    OBVIOUS
  <2>2. IsFiniteSet({p \in Players : s.playerFolded[p]})
    BY ONLY <1>1, <2>1, FS_Subset
  <2>3. QED BY <2>2, FS_CardinalityType DEF numFolded
<1>4. /\ numActingPlayers(s) \in Nat
      /\ numActingPlayers(s) > 0 <=> \E p \in Players : CanAct(s, p)
  <2> DEFINE C == {p \in Players : CanAct(s, p)}
  <2>1. C \in SUBSET Players
    OBVIOUS
  <2>2. C # {} <=> \E p \in Players : CanAct(s, p)
    OBVIOUS
  <2>3. numActingPlayers(s) = Cardinality(C)
    BY DEF numActingPlayers
  <2> HIDE DEF C
  <2>4. IsFiniteSet(C)
    BY <1>1, <2>1, FS_Subset
  <2>5. Cardinality(C) \in Nat /\ (Cardinality(C) = 0 <=> C = {})
    BY <2>4, FS_CardinalityType, FS_EmptySet
  <2>6. QED BY <2>2, <2>3, <2>5
<1>5. numCalled(s) \in Nat /\ (acts(s) = << >> => numCalled(s) = 0)
  <2> DEFINE C == {i \in CurrentBet(s) :
                     /\ acts(s)[i].type \in {"call", "raise"}
                     /\ s.spent[acts(s)[i].player] < stack[acts(s)[i].player]}
  <2>1. C \in SUBSET (1 .. Len(acts(s)))
    BY <1>2 DEF CurrentBet
  <2>2. acts(s) = << >> => C = {}
    BY <1>2, <2>1
  <2>3. numCalled(s) = Cardinality(C)
    BY DEF numCalled
  <2> HIDE DEF C
  <2>4. Len(acts(s)) \in Nat
    BY <1>2
  <2>5. IsFiniteSet(1 .. Len(acts(s)))
    BY <2>4, FS_Interval
  <2>6. IsFiniteSet(C)
    BY <2>1, <2>5, FS_Subset
  <2>7. QED BY <2>2, <2>3, <2>6, FS_CardinalityType, FS_EmptySet
<1> QED BY <1>3, <1>4, <1>5

\* No more can act than there are players.
LEMMA ActingPlayersBounded ==
  ASSUME NEW s \in State
  PROVE  numActingPlayers(s) <= numPlayers
<1> DEFINE C == {p \in Players : CanAct(s, p)}
<1>1. IsFiniteSet(Players) /\ Cardinality(Players) = numPlayers
  <2>1. numPlayers \in Nat /\ 0 \in Int /\ numPlayers - 1 \in Int /\ 0 <= numPlayers - 1
    BY GameAssumption
  <2>2. QED BY <2>1, FS_Interval DEF Players
<1>2. C \in SUBSET Players
  OBVIOUS
<1>3. numActingPlayers(s) = Cardinality(C)
  BY DEF numActingPlayers
<1> HIDE DEF C
<1> QED BY <1>1, <1>2, <1>3, FS_Subset

-----------------------------------------------------------------------------
(* What doAction leaves behind.                                            *)

\* A hand begins with somebody to act and with nothing played.
LEMMA InitStateFacts ==
  /\ initState \in State
  /\ \E p \in Players : CanAct(initState, p)
  /\ acts(initState) = << >>
<1>1. initState \in State
  <2>1. Int32(BigBlind * 2) \in Int32s
    BY BigBlindIsMax, Int32Type
  <2>2. {0, 1} \subseteq Int32s
    BY Int32Assumption DEF Int32s
  <2>3. QED BY <2>1, <2>2, BigBlindIsMax, GameAssumption DEF initState, State, Players, Rounds
<1>2. \E p \in Players : CanAct(initState, p)
  BY SomeoneHasChips DEF initState, CanAct
<1>3. acts(initState) = << >>
  BY GameAssumption DEF initState, acts, Rounds
<1> QED BY <1>1, <1>2, <1>3

\* StoreAction, field by field: one entry more in the current round, and the
\* player, the bet and the minimum changed as the type of the action says.
Stored(t, s, a, p, to) ==
  /\ t = [maxSpent |-> t.maxSpent, minNoLimitRaiseTo |-> t.minNoLimitRaiseTo,
          spent |-> t.spent, action |-> t.action, round |-> s.round,
          finished |-> s.finished, playerFolded |-> t.playerFolded]
  /\ t.action = [s.action EXCEPT ![s.round] =
                    Append(@, [type |-> a.type, size |-> a.size, player |-> p])]
  /\ t.playerFolded = IF a.type = "fold" THEN [s.playerFolded EXCEPT ![p] = TRUE]
                      ELSE s.playerFolded
  /\ t.spent = IF a.type = "fold" THEN s.spent
               ELSE IF a.type = "call" THEN [s.spent EXCEPT ![p] = CallTo(s, p)]
               ELSE [s.spent EXCEPT ![p] = to]
  /\ t.maxSpent = IF a.type = "raise" THEN to ELSE s.maxSpent
  /\ t.minNoLimitRaiseTo = IF a.type = "raise" /\ noLimit
                           THEN Larger(s.minNoLimitRaiseTo, Int32(to + to - s.maxSpent))
                           ELSE s.minNoLimitRaiseTo

\* StoreAction writes the fields that Stored says and no other.
LEMMA StoreActionFields ==
  ASSUME NEW s \in State, NEW a \in Action, a.type # "invalid"
  PROVE  LET p == currentPlayer(s)
         IN Stored(StoreAction(s, a), s, a, p, RaiseTo(s, p, a.size))
<1> DEFINE p == currentPlayer(s)
           t == StoreAction(s, a)
           to == RaiseTo(s, p, a.size)
<1> SUFFICES Stored(t, s, a, p, to)
  OBVIOUS
<1>1. a.type \in {"fold", "call", "raise"}
  BY DEF Action, ActionTypes
<1>2. s = [maxSpent |-> s.maxSpent, minNoLimitRaiseTo |-> s.minNoLimitRaiseTo,
           spent |-> s.spent, action |-> s.action, round |-> s.round,
           finished |-> s.finished, playerFolded |-> s.playerFolded]
  BY DEF State
<1>3. CASE a.type = "fold"
  BY <1>2, <1>3 DEF StoreAction, Stored, RaisedMinimum
<1>4. CASE a.type = "call"
  BY <1>2, <1>4 DEF StoreAction, Stored, RaisedMinimum
<1>5. CASE a.type = "raise"
  BY <1>2, <1>5 DEF StoreAction, Stored, RaisedMinimum
<1> QED BY <1>1, <1>3, <1>4, <1>5

\* EndBetting moves no chips, and a hand it lets go on has an answer to wait
\* for in a round with nothing behind it.
LEMMA EndBettingFacts ==
  ASSUME NEW t \in State, ~t.finished,
         \A r \in Rounds : r > t.round => t.action[r] = << >>,
         NEW e, e = EndBetting(t)
  PROVE  /\ e \in State
         /\ e.spent = t.spent /\ e.maxSpent = t.maxSpent
         /\ e.action = t.action /\ e.playerFolded = t.playerFolded
         /\ ~e.finished =>
               /\ e = t \/ (e.round = t.round + 1 /\ acts(e) = << >>)
               /\ numCalled(e) < numActingPlayers(e)
               /\ \A r \in Rounds : r > e.round => e.action[r] = << >>
               /\ /\ t.maxSpent < t.minNoLimitRaiseTo
                  /\ Larger(1, BigBlind) + t.maxSpent \in 0 .. INT32_MAX
                  => e.maxSpent < e.minNoLimitRaiseTo
<1>1. t = [maxSpent |-> t.maxSpent, minNoLimitRaiseTo |-> t.minNoLimitRaiseTo,
           spent |-> t.spent, action |-> t.action, round |-> t.round,
           finished |-> t.finished, playerFolded |-> t.playerFolded]
      /\ t.maxSpent \in Int /\ t.round \in Rounds
  BY DEF State
<1>2. numRounds \in Nat /\ numRounds - 1 \in Rounds /\ BigBlind \in Nat
  BY GameAssumption, BigBlindIsMax DEF Rounds
<1>3. numCalled(t) \in Nat /\ numActingPlayers(t) \in Nat /\ numFolded(t) \in Nat
  BY CountersCount
<1>4. CASE numFolded(t) + 1 >= numPlayers
  <2>1. e = [t EXCEPT !.finished = TRUE]
    BY <1>4 DEF EndBetting, AnswersOwed, RoundsLeft, RoundMinimum
  <2>2. QED BY <1>1, <2>1 DEF State
<1>5. CASE ~(numFolded(t) + 1 >= numPlayers) /\ numCalled(t) < numActingPlayers(t)
  <2>1. e = t
    BY <1>5 DEF EndBetting, AnswersOwed, RoundsLeft, RoundMinimum
  <2>2. QED BY <2>1, <1>5
<1>6. CASE /\ ~(numFolded(t) + 1 >= numPlayers) /\ ~(numCalled(t) < numActingPlayers(t))
           /\ numActingPlayers(t) <= 1
  <2>1. e = [t EXCEPT !.finished = TRUE, !.round = numRounds - 1]
    BY <1>6 DEF EndBetting, AnswersOwed, RoundsLeft, RoundMinimum
  <2>2. QED BY <1>1, <1>2, <2>1 DEF State
<1>7. CASE /\ ~(numFolded(t) + 1 >= numPlayers) /\ ~(numCalled(t) < numActingPlayers(t))
           /\ ~(numActingPlayers(t) <= 1) /\ t.round + 1 < numRounds
  <2>1. e = [t EXCEPT !.round = @ + 1, !.minNoLimitRaiseTo = Int32(Larger(1, BigBlind) + t.maxSpent)]
    BY <1>7 DEF EndBetting, AnswersOwed, RoundsLeft, RoundMinimum
  <2>2. Larger(1, BigBlind) \in Nat /\ Larger(1, BigBlind) > 0
    BY <1>2 DEF Larger
  <2>3. t.round + 1 \in Rounds /\ t.round + 1 > t.round
    BY <1>1, <1>2, <1>7 DEF Rounds
  <2>4. e \in State
    <3> DEFINE least == Int32(Larger(1, BigBlind) + t.maxSpent)
    <3>1. least \in Int32s
      BY <1>1, <2>2, Int32Type
    <3>2. e = [t EXCEPT !.round = @ + 1, !.minNoLimitRaiseTo = least]
      BY <2>1
    <3> HIDE DEF least
    <3>3. QED BY <2>3, <3>1, <3>2 DEF State
  <2>5. e.spent = t.spent /\ e.maxSpent = t.maxSpent /\ e.action = t.action
        /\ e.playerFolded = t.playerFolded /\ e.round = t.round + 1
        /\ e.minNoLimitRaiseTo = Int32(Larger(1, BigBlind) + t.maxSpent)
    BY <1>1, <2>1
  <2>6. acts(e) = << >>
    BY <2>3, <2>5 DEF acts
  <2>7. numCalled(e) = 0
    BY <2>4, <2>6, CountersCount
  <2>8. numActingPlayers(e) = numActingPlayers(t)
    BY <2>5 DEF numActingPlayers, CanAct
  <2>9. \A r \in Rounds : r > e.round => e.action[r] = << >>
    BY <1>1, <2>5 DEF Rounds
  <2>10. Larger(1, BigBlind) + t.maxSpent \in 0 .. INT32_MAX => e.maxSpent < e.minNoLimitRaiseTo
    BY <1>1, <2>2, <2>5, Int32Fits
  <2>11. QED BY <1>3, <1>7, <2>4, <2>5, <2>7, <2>8, <2>9, <2>10, <2>6
<1>8. CASE /\ ~(numFolded(t) + 1 >= numPlayers) /\ ~(numCalled(t) < numActingPlayers(t))
           /\ ~(numActingPlayers(t) <= 1) /\ ~(t.round + 1 < numRounds)
  <2>1. e = [t EXCEPT !.finished = TRUE]
    BY <1>8 DEF EndBetting, AnswersOwed, RoundsLeft, RoundMinimum
  <2>2. QED BY <1>1, <2>1 DEF State
<1> QED BY <1>4, <1>5, <1>6, <1>7, <1>8

\* What numCalled and numActingPlayers count.
Called(s) == {i \in CurrentBet(s) :
                 /\ acts(s)[i].type \in {"call", "raise"}
                 /\ s.spent[acts(s)[i].player] < stack[acts(s)[i].player]}
Acting(s) == {p \in Players : CanAct(s, p)}

LEMMA CalledAndActing ==
  ASSUME NEW s \in State
  PROVE  /\ IsFiniteSet(Called(s)) /\ Cardinality(Called(s)) = numCalled(s)
         /\ IsFiniteSet(Acting(s)) /\ Cardinality(Acting(s)) = numActingPlayers(s)
<1>1. acts(s) \in Seq(Entry)
  BY DEF State, acts
<1>2. Called(s) \in SUBSET (1 .. Len(acts(s))) /\ Len(acts(s)) \in Nat
  BY <1>1 DEF Called, CurrentBet
<1>3. Acting(s) \in SUBSET Players
  BY DEF Acting
<1>4. IsFiniteSet(Called(s))
  <2>1. IsFiniteSet(1 .. Len(acts(s)))
    BY <1>2, FS_Interval
  <2>2. QED BY <1>2, <2>1, FS_Subset
<1>5. IsFiniteSet(Acting(s))
  <2>1. IsFiniteSet(Players)
    BY GameAssumption, FS_Interval DEF Players
  <2>2. QED BY <1>3, <2>1, FS_Subset
<1> QED BY <1>4, <1>5 DEF Called, Acting, numCalled, numActingPlayers

\* StoreAction adds an entry to the round and, by a raise, begins a new bet.
EntryStored(t, s, entry) ==
    LET n == Len(acts(s))
    IN /\ n \in Nat /\ DOMAIN acts(s) = 1 .. n
       /\ Len(acts(t)) = n + 1 /\ DOMAIN acts(t) = 1 .. n + 1
       /\ acts(t)[n + 1] = entry
       /\ \A i \in DOMAIN acts(s) : acts(t)[i] = acts(s)[i] /\ acts(s)[i] \in Entry
       /\ CurrentBet(t) = IF entry.type = "raise" THEN {n + 1} ELSE CurrentBet(s) \cup {n + 1}
       /\ CurrentBet(s) \subseteq 1 .. n
       /\ \A i \in CurrentBet(s) : acts(s)[i].player \in Players

LEMMA StoredEntry ==
  ASSUME NEW s \in State, NEW a \in Action, a.type # "invalid",
         NEW p \in Players, NEW to, NEW t \in State, Stored(t, s, a, p, to)
  PROVE  EntryStored(t, s, [type |-> a.type, size |-> a.size, player |-> p])
<1> DEFINE n == Len(acts(s))
           entry == [type |-> a.type, size |-> a.size, player |-> p]
<1>1. /\ s.action \in [Rounds -> Seq(Entry)] /\ s.round \in Rounds
      /\ acts(s) \in Seq(Entry) /\ n \in Nat
  <2>1. /\ s.action \in [Rounds -> Seq(Entry)] /\ s.round \in Rounds
    BY DEF State
  <2>2. acts(s) \in Seq(Entry)
    BY <2>1 DEF acts
  <2>3. QED BY <2>1, <2>2
<1>2. a.type \in {"fold", "call", "raise"} /\ entry \in Entry
  BY DEF Action, ActionTypes, Entry
<1>3. acts(t) = Append(acts(s), entry)
  <2>1. t.round = s.round
    BY DEF Stored
  <2>2. t.action = [s.action EXCEPT ![s.round] = Append(@, entry)]
    BY DEF Stored
  <2> HIDE DEF n, entry
  <2>3. QED BY <2>1, <2>2, <1>1 DEF acts
<1>4. /\ Len(acts(t)) = n + 1
      /\ DOMAIN acts(t) = DOMAIN acts(s) \cup {n + 1} /\ n + 1 \notin DOMAIN acts(s)
      /\ DOMAIN acts(s) = 1 .. n
      /\ acts(t)[n + 1] = entry
      /\ \A i \in DOMAIN acts(s) : acts(t)[i] = acts(s)[i] /\ acts(s)[i] \in Entry
  <2> HIDE DEF entry
  <2>1. QED BY <1>1, <1>2, <1>3
<1>5. CurrentBet(t) = IF a.type = "raise" THEN {n + 1} ELSE CurrentBet(s) \cup {n + 1}
  <2>1. \A i \in DOMAIN acts(s) : n + 1 > i
    BY <1>1, <1>4
  <2>2. \A j \in DOMAIN acts(t) : ~(j > n + 1)
    BY <1>1, <1>4
  <2>3. acts(t)[n + 1].type = a.type
    BY <1>4
  <2>4. \A j \in DOMAIN acts(t) : j = n + 1 \/ j \in DOMAIN acts(s)
    BY <1>4
  <2> HIDE DEF n, entry
  <2>5. n + 1 \in CurrentBet(t)
    BY <1>4, <2>2 DEF CurrentBet
  <2>6. CASE a.type = "raise"
    BY <2>1, <2>3, <2>4, <2>5, <2>6, <1>4 DEF CurrentBet
  <2>7. CASE a.type # "raise"
    <3>1. \A i \in DOMAIN acts(s) : i \in CurrentBet(t) <=> i \in CurrentBet(s)
      BY <2>3, <2>4, <2>7, <1>4 DEF CurrentBet
    <3>2. CurrentBet(s) \subseteq DOMAIN acts(s) /\ CurrentBet(t) \subseteq DOMAIN acts(t)
      BY DEF CurrentBet
    <3>3. QED BY <3>1, <3>2, <2>4, <2>5, <2>7
  <2>8. QED BY <2>6, <2>7
<1>6. CurrentBet(s) \subseteq 1 .. n /\ \A i \in CurrentBet(s) : acts(s)[i].player \in Players
  BY <1>4 DEF CurrentBet, Entry
<1> QED BY <1>1, <1>4, <1>5, <1>6 DEF EntryStored

\* StoreAction counts one raise more after a raise, and no other.
LEMMA RaisesCount ==
  ASSUME NEW s \in State
  PROVE  numRaises(s) \in Nat /\ (acts(s) = << >> => numRaises(s) = 0)
<1> DEFINE R == {i \in DOMAIN acts(s) : acts(s)[i].type = "raise"}
<1>1. acts(s) \in Seq(Entry)
  BY DEF State, acts
<1>2. R \subseteq 1 .. Len(acts(s)) /\ Len(acts(s)) \in Nat
      /\ (acts(s) = << >> => R = {})
  BY <1>1
<1>3. numRaises(s) = Cardinality(R)
  BY DEF numRaises
<1> HIDE DEF R
<1>4. IsFiniteSet(1 .. Len(acts(s)))
  BY <1>2, FS_Interval
<1>5. IsFiniteSet(R)
  BY <1>2, <1>4, FS_Subset
<1> QED BY <1>2, <1>3, <1>5, FS_CardinalityType, FS_EmptySet

LEMMA RaiseIsCounted ==
  ASSUME NEW s \in State, NEW t \in State, NEW entry, EntryStored(t, s, entry)
  PROVE  numRaises(t) = IF entry.type = "raise" THEN numRaises(s) + 1 ELSE numRaises(s)
<1> DEFINE n == Len(acts(s))
           R(u) == {i \in DOMAIN acts(u) : acts(u)[i].type = "raise"}
<1>1. /\ n \in Nat /\ DOMAIN acts(s) = 1 .. n /\ DOMAIN acts(t) = 1 .. n + 1
      /\ acts(t)[n + 1] = entry
      /\ \A i \in DOMAIN acts(s) : acts(t)[i] = acts(s)[i]
  BY DEF EntryStored
<1>2. n + 1 \notin 1 .. n /\ 1 .. n + 1 = (1 .. n) \cup {n + 1}
  BY <1>1
<1>3. IsFiniteSet(1 .. n)
  BY <1>1, FS_Interval
<1>4. numRaises(s) = Cardinality(R(s)) /\ numRaises(t) = Cardinality(R(t))
  BY DEF numRaises
<1> HIDE DEF n
<1>5. R(s) \subseteq 1 .. n
  BY <1>1
<1>6. IsFiniteSet(R(s)) /\ n + 1 \notin R(s)
  BY <1>2, <1>3, <1>5, FS_Subset
<1>7. CASE entry.type = "raise"
  <2>1. R(t) = R(s) \cup {n + 1}
    BY <1>1, <1>2, <1>7
  <2> HIDE DEF R
  <2>2. QED BY <2>1, <1>4, <1>6, <1>7, FS_AddElement
<1>8. CASE entry.type # "raise"
  <2>1. R(t) = R(s)
    BY <1>1, <1>2, <1>8
  <2>2. QED BY <2>1, <1>4, <1>8
<1> QED BY <1>7, <1>8

\* The largest bet of a limit game only grows with the rounds.
LEMMA MostBetGrows ==
  /\ \A n \in 0 .. numRounds : mostBet(n) \in Nat /\ mostBet(n) <= mostBet(numRounds)
  /\ mostBet(0) = BigBlind
  /\ \A r \in Rounds : mostBet(r + 1) = mostBet(r) + maxRaises[r] * raiseSize[r]
<1> DEFINE f == [r \in 1 .. numRounds |-> maxRaises[r - 1] * raiseSize[r - 1]]
<1>1. numRounds \in 1 .. 4 /\ BigBlind \in Nat
  BY GameAssumption, BigBlindIsMax
<1>2. \A r \in Rounds : r \in Nat /\ r + 1 \in 1 .. numRounds /\ (r + 1) - 1 = r
  BY <1>1 DEF Rounds
<1>3. \A r \in Rounds : maxRaises[r] * raiseSize[r] \in Nat
  BY GameAssumption
<1>4. \A r \in Rounds : f[r + 1] = maxRaises[r] * raiseSize[r]
  BY <1>2
<1>5. \A n : mostBet(n) = BigBlind + SumTo(f, n)
  BY DEF mostBet
<1> HIDE DEF f
<1>6. SumTo(f, 0) = 0 /\ \A n \in Nat : SumTo(f, n + 1) = SumTo(f, n) + f[n + 1]
  BY SumStep
<1>7. mostBet(0) = BigBlind /\ mostBet(0) \in Nat
  BY <1>1, <1>5, <1>6
<1>8. ASSUME NEW r \in Rounds, mostBet(r) \in Nat
      PROVE  /\ mostBet(r + 1) = mostBet(r) + maxRaises[r] * raiseSize[r]
             /\ mostBet(r + 1) \in Nat /\ mostBet(r) <= mostBet(r + 1)
  <2> DEFINE x == SumTo(f, r)
             y == maxRaises[r] * raiseSize[r]
  <2>1. y \in Nat /\ SumTo(f, r + 1) = x + y
    BY <1>2, <1>3, <1>4, <1>6
  <2>2. mostBet(r) = BigBlind + x /\ mostBet(r + 1) = BigBlind + SumTo(f, r + 1)
    BY <1>5
  <2>3. x \in Int
    <3>1. \A i \in 1 .. r : f[i] \in Int
      <4>1. \A i \in 1 .. r : i - 1 \in Rounds /\ (i - 1) + 1 = i
        BY <1>1 DEF Rounds
      <4>2. QED BY <4>1, <1>3, <1>4
    <3>2. r \in Nat /\ r \in 0 .. r
      BY <1>2
    <3> HIDE DEF x, y
    <3>3. SumTo(f, r) \in Int
      BY <3>1, <3>2, SumType
    <3>4. QED BY <3>3 DEF x
  <2> HIDE DEF x, y
  <2>4. mostBet(r + 1) = mostBet(r) + y
    BY <1>1, <2>1, <2>2, <2>3
  <2>5. QED BY <2>1, <2>4, <1>8 DEF y
<1>9. 0 \in Rounds /\ (1 < numRounds => 1 \in Rounds) /\ (2 < numRounds => 2 \in Rounds)
      /\ (3 < numRounds => 3 \in Rounds)
  BY <1>1 DEF Rounds
<1>10. mostBet(1) \in Nat /\ mostBet(0) <= mostBet(1)
  BY <1>7, <1>8, <1>9
<1>11. 1 < numRounds => mostBet(2) \in Nat /\ mostBet(1) <= mostBet(2)
  BY <1>8, <1>9, <1>10
<1>12. 2 < numRounds => mostBet(3) \in Nat /\ mostBet(2) <= mostBet(3)
  BY <1>1, <1>8, <1>9, <1>11
<1>13. 3 < numRounds => mostBet(4) \in Nat /\ mostBet(3) <= mostBet(4)
  BY <1>1, <1>8, <1>9, <1>12
<1>14. \A n \in 0 .. numRounds : mostBet(n) \in Nat /\ mostBet(n) <= mostBet(numRounds)
  <2>1. CASE numRounds = 1
    BY <2>1, <1>7, <1>10
  <2>2. CASE numRounds = 2
    BY <2>2, <1>7, <1>10, <1>11
  <2>3. CASE numRounds = 3
    BY <2>3, <1>7, <1>10, <1>11, <1>12
  <2>4. CASE numRounds = 4
    BY <2>4, <1>7, <1>10, <1>11, <1>12, <1>13
  <2>5. QED BY <1>1, <2>1, <2>2, <2>3, <2>4
<1>15. \A r \in Rounds : mostBet(r) \in Nat
  BY <1>1, <1>14 DEF Rounds
<1> QED BY <1>7, <1>8, <1>14, <1>15

\* Where the chips fit, twice as many as a bet can be are a number of 32 bits.
LEMMA TwiceFits ==
  ASSUME ChipsFit
  PROVE  /\ noLimit => \A p \in Players : 2 * stack[p] <= INT32_MAX
         /\ ~noLimit => 2 * mostBet(numRounds) <= INT32_MAX
<1>1. numPlayers \in 2 .. 10 /\ INT32_MAX \in Nat
  BY GameAssumption, Int32Assumption
<1>2. ASSUME NEW x \in Nat, numPlayers * x <= INT32_MAX PROVE 2 * x <= INT32_MAX
  <2> DEFINE rest == numPlayers - 2
  <2>1. rest \in Nat /\ numPlayers = rest + 2
    BY <1>1
  <2>2. rest * x \in Nat
    BY <2>1
  <2>3. numPlayers * x = rest * x + 2 * x
    BY <1>1, <2>1
  <2> HIDE DEF rest
  <2>4. QED BY <1>1, <1>2, <2>2, <2>3
<1>3. CASE noLimit
  BY <1>2, <1>3, GameAssumption DEF ChipsFit
<1>4. CASE ~noLimit
  <2>1. mostBet(numRounds) \in Nat
    BY <1>1, MostBetGrows, GameAssumption
  <2>2. QED BY <1>2, <1>4, <2>1 DEF ChipsFit
<1> QED BY <1>3, <1>4

-----------------------------------------------------------------------------
(* States that are ready for an action.                                    *)

\* A state in which somebody is asked for an action.
Ready(s) ==
    /\ s \in State /\ ~s.finished
    /\ numCalled(s) < numActingPlayers(s)
    /\ \A r \in Rounds : r > s.round => s.action[r] = << >>

LEMMA InitIsReady == Ready(initState)
<1>1. /\ initState \in State /\ acts(initState) = << >>
      /\ \E p \in Players : CanAct(initState, p)
  BY InitStateFacts
<1>2. numCalled(initState) = 0 /\ numActingPlayers(initState) \in Nat /\ numActingPlayers(initState) > 0
  BY <1>1, CountersCount
<1>3. /\ ~initState.finished
      /\ \A r \in Rounds : r > initState.round => initState.action[r] = << >>
  BY DEF initState
<1> QED BY <1>1, <1>2, <1>3 DEF Ready

LEMMA ReadyActor ==
  ASSUME NEW s, Ready(s)
  PROVE  currentPlayer(s) \in Players /\ CanAct(s, currentPlayer(s))
<1>1. s \in State /\ numCalled(s) \in Nat /\ numActingPlayers(s) \in Nat
      /\ numCalled(s) < numActingPlayers(s)
  BY CountersCount DEF Ready
<1>2. \E p \in Players : CanAct(s, p)
  BY <1>1, CountersCount
<1> QED BY <1>1, <1>2, CurrentPlayerCanAct

\* The sizes between which a raise must lie.
LEMMA RaiseSizes ==
  ASSUME NEW s, Ready(s)
  PROVE  /\ minSize(s) \in Int /\ minSize(s) >= -(INT32_MAX + 1)
         /\ maxSize(s) \in Nat /\ minSize(s) <= maxSize(s)
         /\ maxSize(s) = stack[currentPlayer(s)]
<1>1. currentPlayer(s) \in Players /\ s.minNoLimitRaiseTo \in Int32s /\ stack \in [Players -> Nat]
  BY ReadyActor, GameAssumption DEF Ready, State
<1> QED BY <1>1, Int32Assumption DEF minSize, maxSize, Int32s

\* A valid action is stored in a state again (StoreAction).
LEMMA StoreKeepsState ==
  ASSUME NEW s, Ready(s), NEW a \in Action, isValidAction(s, FALSE, a)
  PROVE  LET t == StoreAction(s, a)
             p == currentPlayer(s)
         IN /\ t \in State /\ ~t.finished /\ t.round = s.round
            /\ Stored(t, s, a, p, RaiseTo(s, p, a.size))
            /\ p \in Players /\ a.type \in {"fold", "call", "raise"}
            /\ \A r \in Rounds : r > t.round => t.action[r] = << >>
<1> DEFINE p == currentPlayer(s)
           t == StoreAction(s, a)
           to == RaiseTo(s, p, a.size)
           entry == [type |-> a.type, size |-> a.size, player |-> p]
<1>1. /\ s \in State /\ a.type \in {"fold", "call", "raise"} /\ p \in Players
      /\ a.type # "invalid" /\ a.size \in Int
  BY ReadyActor DEF Ready, isValidAction, Action, ActionTypes
<1>2. /\ s.maxSpent \in Int /\ s.minNoLimitRaiseTo \in Int32s /\ s.finished \in BOOLEAN
      /\ s.spent \in [Players -> Int] /\ s.round \in Rounds
      /\ s.action \in [Rounds -> Seq(Entry)] /\ s.playerFolded \in [Players -> BOOLEAN]
      /\ stack \in [Players -> Nat] /\ raiseSize[s.round] \in Nat
  BY <1>1, GameAssumption DEF State
<1>3. to \in Int
  <2>1. CASE noLimit
    BY <2>1, <1>1 DEF RaiseTo
  <2>2. CASE ~noLimit
    <3>1. s.maxSpent + raiseSize[s.round] \in Int /\ stack[p] \in Nat
      BY <1>1, <1>2
    <3>2. Int32(s.maxSpent + raiseSize[s.round]) \in Int
      BY <3>1, Int32Type
    <3>3. QED BY <2>2, <3>1, <3>2 DEF RaiseTo
  <2>3. QED BY <2>1, <2>2
<1>4. CallTo(s, p) \in Int
  BY <1>1, <1>2 DEF CallTo
<1>5. Stored(t, s, a, p, to)
  BY <1>1, StoreActionFields
<1>7. entry \in Entry
  BY <1>1 DEF Entry
<1> HIDE DEF p, t, to
<1>8. t.action = [s.action EXCEPT ![s.round] = Append(@, entry)]
  BY <1>5 DEF Stored
<1> HIDE DEF entry
<1>9. /\ t.action \in [Rounds -> Seq(Entry)]
      /\ \A r \in Rounds : r # s.round => t.action[r] = s.action[r]
  BY <1>2, <1>7, <1>8
<1>10. /\ t.spent \in [Players -> Int] /\ t.playerFolded \in [Players -> BOOLEAN]
       /\ t.maxSpent \in Int
  BY <1>1, <1>2, <1>3, <1>4, <1>5 DEF Stored
<1>11. t.minNoLimitRaiseTo \in Int32s
  <2>1. to + to - s.maxSpent \in Int
    BY <1>2, <1>3
  <2>2. Int32(to + to - s.maxSpent) \in Int32s
    BY <2>1, Int32Type
  <2>3. QED BY <1>1, <1>2, <2>2, <1>5 DEF Stored, Larger
<1>12. t.round = s.round /\ t.finished = s.finished /\ ~s.finished
  BY <1>5 DEF Stored, Ready
<1>13. t \in State
  <2>1. t = [maxSpent |-> t.maxSpent, minNoLimitRaiseTo |-> t.minNoLimitRaiseTo,
             spent |-> t.spent, action |-> t.action, round |-> s.round,
             finished |-> s.finished, playerFolded |-> t.playerFolded]
    BY <1>5 DEF Stored
  <2>2. QED BY <2>1, <1>2, <1>9, <1>10, <1>11 DEF State
<1>14. ASSUME NEW r \in Rounds, r > t.round PROVE t.action[r] = << >>
  <2>1. r > s.round /\ r # s.round
    BY <1>2, <1>12, <1>14 DEF Rounds
  <2>2. QED BY <2>1, <1>9 DEF Ready
<1> QED BY <1>1, <1>5, <1>12, <1>13, <1>14 DEF p, t, to

\* A valid action leads to a state that is finished or ready (doAction).
LEMMA ActionKeepsReady ==
  ASSUME NEW s, Ready(s), NEW a \in Action, isValidAction(s, FALSE, a)
  PROVE  doAction(s, a) \in State /\ (~doAction(s, a).finished => Ready(doAction(s, a)))
BY StoreKeepsState, EndBettingFacts DEF Ready, doAction

\* An action that isValidAction has repaired is valid as it stands.
LEMMA FixedIsValid ==
  ASSUME NEW s, Ready(s), NEW a \in Action, isValidAction(s, TRUE, a)
  PROVE  /\ isValidAction(s, FALSE, fixedAction(s, a))
         /\ fixedAction(s, a) \in Action /\ fixedAction(s, a).type = a.type
         /\ a.type # "raise" => fixedAction(s, a).size = 0
         /\ a.type = "raise" /\ noLimit =>
               fixedAction(s, a).size \in -(INT32_MAX + 1) .. stack[currentPlayer(s)]
         /\ a.type = "raise" /\ ~noLimit => fixedAction(s, a) = a
<1> DEFINE b == fixedAction(s, a)
<1>1. /\ minSize(s) \in Int /\ minSize(s) >= -(INT32_MAX + 1)
      /\ maxSize(s) \in Nat /\ minSize(s) <= maxSize(s)
      /\ maxSize(s) = stack[currentPlayer(s)] /\ a.size \in Int /\ a.type \in ActionTypes
  BY RaiseSizes DEF Action
<1>2. /\ b \in Action /\ b.type = a.type
      /\ a.type # "raise" => b.size = 0
      /\ a.type = "raise" /\ ~noLimit => b = a
      /\ a.type = "raise" /\ noLimit => b.size \in minSize(s) .. maxSize(s)
  BY <1>1 DEF fixedAction, Action
<1> HIDE DEF b
<1>3. isValidAction(s, FALSE, b)
  BY <1>2 DEF isValidAction, SizeIsValid
<1>4. a.type = "raise" /\ noLimit => b.size \in -(INT32_MAX + 1) .. stack[currentPlayer(s)]
  BY <1>1, <1>2, Int32Assumption
<1> QED BY <1>2, <1>3, <1>4, Zenon DEF b

-----------------------------------------------------------------------------
(* Tables.                                                                 *)

\* Records with the fields of a table, whatever state and totals are.
TableWith(s, totals) ==
    [handId : Nat, player0Seat : Nat, state : {s}, totalValue : {totals}]

\* Playing an action moves neither the hand number nor the button.
LEMMA ActFields ==
  ASSUME NEW t, t \in TableWith(t.state, t.totalValue), NEW a
  PROVE  LET after == act(t, a)
         IN /\ after \in TableWith(after.state, t.totalValue)
            /\ after.handId = t.handId /\ after.player0Seat = t.player0Seat
<1> DEFINE s == doAction(t.state, a)
           S == {t.state, s}
<1>1. t \in [handId : Nat, player0Seat : Nat, state : S, totalValue : {t.totalValue}]
  BY DEF TableWith
<1>2. act(t, a) = [t EXCEPT !.state = s]
  BY DEF act
<1>3. s \in S
  OBVIOUS
<1> HIDE DEF s, S
<1> QED BY <1>1, <1>2, <1>3 DEF TableWith

\* Adding the values of a hand to the totals changes no other field.
LEMMA CountedFields ==
  ASSUME NEW t, t \in TableWith(t.state, t.totalValue), NEW total
  PROVE  LET counted == [t EXCEPT !.totalValue = total]
         IN /\ counted \in TableWith(t.state, total)
            /\ counted.handId = t.handId /\ counted.player0Seat = t.player0Seat
<1> DEFINE V == {t.totalValue, total}
<1>1. t \in [handId : Nat, player0Seat : Nat, state : {t.state}, totalValue : V]
  BY DEF TableWith
<1>2. total \in V
  OBVIOUS
<1> HIDE DEF V
<1> QED BY <1>1, <1>2 DEF TableWith

\* setUpNewHand moves the button and begins a hand.
LEMMA SetUpNewHandFields ==
  ASSUME NEW t, t \in TableWith(t.state, t.totalValue)
  PROVE  LET u == setUpNewHand(t)
         IN /\ u \in TableWith(initState, t.totalValue)
            /\ u.handId = t.handId + 1
            /\ u.player0Seat = IF fixedSeats THEN t.player0Seat
                               ELSE (t.player0Seat + 1) % numPlayers
<1> DEFINE button == IF fixedSeats THEN t.player0Seat ELSE (t.player0Seat + 1) % numPlayers
           hand == t.handId + 1
           S == {t.state, initState}
           V == {t.totalValue}
<1>1. t \in [handId : Nat, player0Seat : Nat, state : S, totalValue : V]
  BY DEF TableWith
<1>2. button \in Nat /\ hand \in Nat
  BY <1>1, GameAssumption
<1>3. setUpNewHand(t) = [t EXCEPT !.handId = hand, !.player0Seat = button,
                                  !.state = initState]
  BY DEF setUpNewHand
<1>4. initState \in S
  OBVIOUS
<1> HIDE DEF button, hand, S, V
<1>5. /\ setUpNewHand(t).handId = hand
      /\ setUpNewHand(t).player0Seat = button
      /\ setUpNewHand(t).state = initState
  BY <1>1, <1>3
<1>6. setUpNewHand(t) \in
        [handId : Nat, player0Seat : Nat, state : S, totalValue : V]
  BY <1>1, <1>2, <1>3, <1>4
<1> HIDE DEF setUpNewHand
<1>7. setUpNewHand(t) \in TableWith(initState, t.totalValue)
  BY <1>5, <1>6 DEF TableWith, V
<1> QED BY <1>5, <1>7 DEF button, hand

-----------------------------------------------------------------------------
\* A table at which somebody is asked for an action.
ReadyTable(t) ==
    /\ t \in TableWith(t.state, t.totalValue)
    /\ t.player0Seat \in Seats /\ Ready(t.state)

LEMMA SeatsOfTable ==
  ASSUME NEW t, t.player0Seat \in Seats
  PROVE  /\ \A seat \in Seats : seatToPlayer(t.player0Seat, seat) \in Players
         /\ Ready(t.state) => currentSeat(t) \in Seats
<1>1. numPlayers \in Nat /\ numPlayers > 0 /\ Players = 0 .. numPlayers - 1 /\ Seats = Players
  BY GameAssumption DEF Players, Seats
<1>2. \A x \in Int : x % numPlayers \in 0 .. numPlayers - 1
  BY <1>1
<1>3. ASSUME NEW seat \in Seats PROVE seatToPlayer(t.player0Seat, seat) \in Players
  BY <1>1, <1>2 DEF seatToPlayer
<1>4. ASSUME Ready(t.state) PROVE currentSeat(t) \in Seats
  <2>1. currentPlayer(t.state) \in Players
    BY <1>4, ReadyActor
  <2>2. QED BY <2>1, <1>1, <1>2 DEF currentSeat, playerToSeat
<1> QED BY <1>3, <1>4

LEMMA FirstHandIsReady == ReadyTable(firstHand) /\ firstHand.handId = 0
<1>1. firstHand = [handId |-> 0, player0Seat |-> 0, state |-> initState,
                   totalValue |-> [s \in Seats |-> 0]]
  BY DEF firstHand
<1>2. 0 \in Seats
  BY GameAssumption DEF Seats, Players
<1> QED BY <1>1, <1>2, InitIsReady DEF ReadyTable, TableWith

\* What one action makes of a table, and what the next hand of it is.
LEMMA TransactKeepsReady ==
  ASSUME NEW t, ReadyTable(t), NEW a \in Action, isValidAction(t.state, FALSE, a)
  PROVE  /\ ReadyTable(transact(t, a))
         /\ act(t, a) \in TableWith(act(t, a).state, act(t, a).totalValue)
         /\ act(t, a).handId = t.handId /\ act(t, a).player0Seat = t.player0Seat
         /\ act(t, a).state \in State
         /\ act(t, a).state.finished =>
               LET counted == [act(t, a) EXCEPT !.totalValue = addValues(act(t, a))]
               IN /\ transact(t, a) = setUpNewHand(counted)
                  /\ counted \in TableWith(counted.state, counted.totalValue)
                  /\ counted.state = act(t, a).state
                  /\ counted.handId = t.handId /\ counted.player0Seat = t.player0Seat
                  /\ transact(t, a).handId = t.handId + 1
         /\ ~act(t, a).state.finished =>
               transact(t, a) = act(t, a) /\ transact(t, a).handId = t.handId
<1> DEFINE after == act(t, a)
           total == addValues(after)
           counted == [after EXCEPT !.totalValue = total]
<1>1. t \in TableWith(t.state, t.totalValue) /\ t.player0Seat \in Seats /\ Ready(t.state)
  BY DEF ReadyTable
<1>2. /\ after \in TableWith(after.state, t.totalValue)
      /\ after.handId = t.handId /\ after.player0Seat = t.player0Seat
  BY <1>1, ActFields
<1>3. after.state = doAction(t.state, a)
  BY <1>1 DEF act, TableWith
<1>4. after.state \in State /\ (~after.state.finished => Ready(after.state))
  BY <1>1, <1>3, ActionKeepsReady
<1>5. transact(t, a) = IF after.state.finished THEN setUpNewHand(counted) ELSE after
  BY DEF transact, stateFinished
<1> HIDE DEF after, total
<1>6. after \in TableWith(after.state, after.totalValue)
  BY <1>2 DEF TableWith
<1>7. /\ counted \in TableWith(after.state, total)
      /\ counted.handId = t.handId /\ counted.player0Seat = t.player0Seat
  BY <1>2, <1>6, CountedFields
<1> HIDE DEF counted
<1>8. counted \in TableWith(counted.state, counted.totalValue) /\ counted.state = after.state
  BY <1>7 DEF TableWith
<1>9. /\ setUpNewHand(counted) \in TableWith(initState, counted.totalValue)
      /\ setUpNewHand(counted).handId = t.handId + 1
      /\ setUpNewHand(counted).player0Seat =
            IF fixedSeats THEN t.player0Seat ELSE (t.player0Seat + 1) % numPlayers
  BY <1>7, <1>8, SetUpNewHandFields
<1>10. setUpNewHand(counted).player0Seat \in Seats
  <2>1. numPlayers \in Nat /\ numPlayers > 0 /\ t.player0Seat \in 0 .. numPlayers - 1
    BY <1>1, GameAssumption DEF Seats, Players
  <2>2. (t.player0Seat + 1) % numPlayers \in 0 .. numPlayers - 1
    BY <2>1
  <2>3. QED BY <2>2, <1>1, <1>9 DEF Seats, Players
<1>11. ReadyTable(setUpNewHand(counted))
  BY <1>9, <1>10, InitIsReady DEF ReadyTable, TableWith
<1>12. ~after.state.finished => ReadyTable(after)
  BY <1>1, <1>2, <1>4, <1>6 DEF ReadyTable
<1> QED BY <1>2, <1>4, <1>5, <1>6, <1>7, <1>8, <1>9, <1>11, <1>12 DEF after, total, counted

=============================================================================
