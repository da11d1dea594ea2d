----------------------------- MODULE PoolProofs -----------------------------
(***************************************************************************)
(* Lemmas about the lists of Pool: what Only and Without leave of a list,  *)
(* and that a pool never has an entry twice.                               *)
(***************************************************************************)
EXTENDS Pool, TLAPS, WellFoundedInduction

-----------------------------------------------------------------------------
(* Lists.                                                                  *)

\* A set of naturals has a least element, which serves as induction.
LEMMA LeastNatural ==
  ASSUME NEW T \in SUBSET Nat, T # {}
  PROVE  \E m \in T : \A k \in T : m <= k
<1> DEFINE R == {ss \in Nat \X Nat : ss[1] < ss[2]}
<1>1. IsWellFoundedOn(R, Nat)
  <2>1. R = OpToRel(<, Nat)
    BY DEF OpToRel
  <2>2. QED BY <2>1, NatLessThanWellFounded
<1>2. \A k, m \in T : k < m => <<k, m>> \in R
  OBVIOUS
<1> HIDE DEF R
<1>3. PICK m \in T : \A k \in T : ~(<<k, m>> \in R)
  BY <1>1, WFMin
<1>4. \A k \in T : ~(k < m)
  BY <1>2, <1>3
<1>5. \A k \in T : m <= k
  BY <1>4
<1> QED BY <1>5

\* The function by which Only is defined exists, and is what Only looks up.
LEMMA OnlyIsRecursive ==
  ASSUME NEW list, Len(list) \in Nat, NEW S
  PROVE  \E kept : /\ kept = [n \in 0 .. Len(list) |->
                                IF n = 0 THEN << >>
                                ELSE IF list[n] \in S THEN Append(kept[n - 1], list[n])
                                     ELSE kept[n - 1]]
                   /\ Only(list, S) = kept[Len(list)]
<1> DEFINE next(f, n) == IF list[n] \in S THEN Append(f[n - 1], list[n]) ELSE f[n - 1]
           steps(f, m) == [n \in 0 .. m |-> IF n = 0 THEN << >> ELSE next(f, n)]
           T == {m \in 0 .. Len(list) : ~\E f : f = steps(f, m)}
<1>1. T = {}
  <2>1. SUFFICES ASSUME T # {} PROVE FALSE
    OBVIOUS
  <2>2. PICK m \in T : \A k \in T : m <= k
    <3>1. T \in SUBSET Nat
      OBVIOUS
    <3> HIDE DEF T
    <3> QED BY <2>1, <3>1, LeastNatural
  <2>3. m # 0
    <3> DEFINE f == [n \in {0} |-> << >>]
    <3>1. \A g : steps(g, 0) = f
      OBVIOUS
    <3> QED BY <3>1
  <2>4. PICK f : f = steps(f, m - 1)
    <3>1. m - 1 \in 0 .. Len(list) /\ ~(m <= m - 1)
      BY <2>3
    <3>2. m - 1 \notin T
      BY <2>2, <3>1
    <3> QED BY <3>1, <3>2
  <2> DEFINE g == [n \in 0 .. m |-> IF n < m THEN f[n] ELSE next(f, m)]
  <2> HIDE DEF next
  <2>5. \A n \in 0 .. m - 1 : g[n] = f[n]
    BY <2>3
  <2>6. \A n \in 1 .. m : next(g, n) = next(f, n)
    BY <2>5 DEF next
  <2>7. ASSUME NEW n \in 0 .. m PROVE g[n] = steps(g, m)[n]
    <3>1. CASE n = m
      BY <3>1, <2>3, <2>6
    <3>2. CASE n # m
      <4>1. n \in 0 .. m - 1
        BY <3>2
      <4>2. f[n] = IF n = 0 THEN << >> ELSE next(f, n)
        <5>1. f[n] = steps(f, m - 1)[n]
          BY <2>4
        <5> QED BY <5>1, <4>1
      <4>3. n # 0 => next(g, n) = next(f, n)
        BY <2>6
      <4> QED BY <4>1, <4>2, <4>3, <2>5
    <3> QED BY <3>1, <3>2
  <2>8. g = steps(g, m)
    BY <2>7
  <2> QED BY <2>8
<1>2. \E f : f = steps(f, Len(list))
  BY <1>1
<1> DEFINE kept == CHOOSE f : f = steps(f, Len(list))
<1>3. kept = steps(kept, Len(list))
  BY <1>2
<1>4. Only(list, S) = kept[Len(list)]
  BY DEF Only
<1> QED BY <1>3, <1>4

\* Only picks items of the list that are in S, each once and every one.
Picks(sub, list, S, n) ==
    \E h \in [1 .. Len(sub) -> 1 .. n] :
        /\ \A i \in 1 .. Len(sub) : sub[i] = list[h[i]] /\ sub[i] \in S
        /\ \A i, j \in 1 .. Len(sub) : h[i] = h[j] => i = j
        /\ \A k \in 1 .. n : list[k] \in S => \E i \in 1 .. Len(sub) : h[i] = k

LEMMA PicksOneMore ==
  ASSUME NEW T, NEW list \in Seq(T), NEW S, NEW n \in 1 .. Len(list),
         NEW sub \in Seq(T), Picks(sub, list, S, n - 1)
  PROVE  LET more == IF list[n] \in S THEN Append(sub, list[n]) ELSE sub
         IN more \in Seq(T) /\ Picks(more, list, S, n)
<1> DEFINE more == IF list[n] \in S THEN Append(sub, list[n]) ELSE sub
<1>1. PICK h \in [1 .. Len(sub) -> 1 .. n - 1] :
        /\ \A i \in 1 .. Len(sub) : sub[i] = list[h[i]] /\ sub[i] \in S
        /\ \A i, j \in 1 .. Len(sub) : h[i] = h[j] => i = j
        /\ \A k \in 1 .. n - 1 : list[k] \in S => \E i \in 1 .. Len(sub) : h[i] = k
  BY DEF Picks
<1>2. CASE list[n] \notin S
  <2>1. more = sub /\ h \in [1 .. Len(sub) -> 1 .. n]
    BY <1>1, <1>2
  <2>2. \A k \in 1 .. n : k = n \/ k \in 1 .. n - 1
    OBVIOUS
  <2>3. \A k \in 1 .. n : list[k] \in S => \E i \in 1 .. Len(sub) : h[i] = k
    BY <1>1, <1>2, <2>2
  <2>4. Picks(sub, list, S, n)
    BY <1>1, <2>1, <2>3 DEF Picks
  <2> QED BY <2>1, <2>4
<1>3. CASE list[n] \in S
  <2> DEFINE m == Len(sub) + 1
             g == [i \in 1 .. m |-> IF i = m THEN n ELSE h[i]]
  <2>1. /\ more = Append(sub, list[n]) /\ more \in Seq(T) /\ Len(more) = m
        /\ more[m] = list[n] /\ \A i \in 1 .. Len(sub) : more[i] = sub[i]
    BY <1>3
  <2>2. m \in Nat /\ \A i \in 1 .. m : i = m \/ i \in 1 .. Len(sub)
    OBVIOUS
  <2>3. /\ g \in [1 .. m -> 1 .. n] /\ g[m] = n
        /\ \A i \in 1 .. Len(sub) : g[i] = h[i] /\ h[i] \in 1 .. n - 1 /\ g[i] # n
    <3>1. \A i \in 1 .. Len(sub) : h[i] \in 1 .. n - 1 /\ h[i] # n /\ h[i] \in 1 .. n
      BY <1>1
    <3>2. m \in 1 .. m /\ \A i \in 1 .. Len(sub) : i \in 1 .. m /\ i # m
      OBVIOUS
    <3> HIDE DEF m
    <3>3. \A i \in 1 .. m : g[i] = IF i = m THEN n ELSE h[i]
      OBVIOUS
    <3>4. \A i \in 1 .. m : g[i] \in 1 .. n
      BY <3>1, <3>3, <2>2
    <3> QED BY <3>1, <3>2, <3>3, <3>4
  <2> HIDE DEF g, more, m
  <2>4. \A i \in 1 .. m : more[i] = list[g[i]] /\ more[i] \in S
    <3>1. more[m] = list[g[m]] /\ more[m] \in S
      BY <1>3, <2>1, <2>3
    <3>2. \A i \in 1 .. Len(sub) : more[i] = list[g[i]] /\ more[i] \in S
      BY <1>1, <2>1, <2>3
    <3> QED BY <3>1, <3>2, <2>2
  <2>5. \A i, j \in 1 .. m : g[i] = g[j] => i = j
    <3>1. \A i \in 1 .. m : g[i] = g[m] => i = m
      BY <2>2, <2>3
    <3>2. \A i, j \in 1 .. Len(sub) : g[i] = g[j] => i = j
      BY <1>1, <2>3
    <3> QED BY <2>2, <3>1, <3>2
  <2>6. ASSUME NEW k \in 1 .. n, list[k] \in S PROVE \E i \in 1 .. m : g[i] = k
    <3>1. m \in 1 .. m /\ \A i \in 1 .. Len(sub) : i \in 1 .. m
      BY DEF m
    <3>2. k = n \/ k \in 1 .. n - 1
      OBVIOUS
    <3> QED BY <1>1, <2>3, <2>6, <3>1, <3>2
  <2>7. Picks(more, list, S, n)
    <3>1. Len(more) = m
      BY <2>1
    <3>2. /\ g \in [1 .. Len(more) -> 1 .. n]
          /\ \A i \in 1 .. Len(more) : more[i] = list[g[i]] /\ more[i] \in S
          /\ \A i, j \in 1 .. Len(more) : g[i] = g[j] => i = j
          /\ \A k \in 1 .. n : list[k] \in S => \E i \in 1 .. Len(more) : g[i] = k
      BY <3>1, <2>3, <2>4, <2>5, <2>6
    <3> QED BY <3>2 DEF Picks
  <2> QED BY <2>1, <2>7 DEF more
<1> QED BY <1>2, <1>3

LEMMA OnlyPicks ==
  ASSUME NEW T, NEW list \in Seq(T), NEW S
  PROVE  Only(list, S) \in Seq(T) /\ Picks(Only(list, S), list, S, Len(list))
<1>1. PICK kept : /\ kept = [n \in 0 .. Len(list) |->
                                IF n = 0 THEN << >>
                                ELSE IF list[n] \in S THEN Append(kept[n - 1], list[n])
                                     ELSE kept[n - 1]]
                  /\ Only(list, S) = kept[Len(list)]
  <2>1. Len(list) \in Nat
    OBVIOUS
  <2> QED BY <2>1, OnlyIsRecursive
<1> DEFINE good(n) == kept[n] \in Seq(T) /\ Picks(kept[n], list, S, n)
           B == {n \in 0 .. Len(list) : ~good(n)}
<1>2. B = {}
  <2>1. SUFFICES ASSUME B # {} PROVE FALSE
    OBVIOUS
  <2>2. PICK n \in B : \A k \in B : n <= k
    <3>1. B \in SUBSET Nat
      OBVIOUS
    <3> HIDE DEF B
    <3> QED BY <2>1, <3>1, LeastNatural
  <2>3. n # 0
    <3>1. 0 \in 0 .. Len(list) /\ kept[0] = << >>
      BY <1>1
    <3>2. good(0)
      <4>1. << >> \in Seq(T) /\ Len(<< >>) = 0 /\ 1 .. 0 = {}
        OBVIOUS
      <4>2. [i \in 1 .. 0 |-> 0] \in [1 .. Len(<< >>) -> 1 .. 0]
        BY <4>1
      <4> QED BY <3>1, <4>1, <4>2 DEF Picks
    <3> QED BY <2>2, <3>2
  <2>4. good(n - 1)
    <3>1. n - 1 \in 0 .. Len(list) /\ ~(n <= n - 1)
      BY <2>3
    <3>2. n - 1 \notin B
      BY <2>2, <3>1
    <3> QED BY <3>1, <3>2
  <2>5. n \in 1 .. Len(list)
    BY <2>3
  <2>6. kept[n] = IF list[n] \in S THEN Append(kept[n - 1], list[n]) ELSE kept[n - 1]
    BY <1>1, <2>3, <2>5
  <2>7. good(n)
    BY <2>4, <2>5, <2>6, PicksOneMore
  <2> QED BY <2>2, <2>7
<1>3. good(Len(list))
  <2>1. Len(list) \in 0 .. Len(list)
    OBVIOUS
  <2> QED BY <1>2, <2>1
<1> QED BY <1>1, <1>3

\* The lists of what is in S and of what is not are as long as the whole.
LEMMA OnlyAndWithout ==
  ASSUME NEW T, NEW list \in Seq(T), NEW S
  PROVE  Len(Only(list, S)) + Len(Without(list, S)) = Len(list)
<1> DEFINE R == Range(list) \ S
<1>0. \A k \in 1 .. Len(list) : list[k] \in R <=> list[k] \notin S
  BY DEF Range
<1>a. Len(list) \in Nat
  OBVIOUS
<1> HIDE DEF R
<1>1. PICK in : /\ in = [n \in 0 .. Len(list) |->
                            IF n = 0 THEN << >>
                            ELSE IF list[n] \in S THEN Append(in[n - 1], list[n])
                                 ELSE in[n - 1]]
                /\ Only(list, S) = in[Len(list)]
  BY <1>a, OnlyIsRecursive
<1>2. PICK out : /\ out = [n \in 0 .. Len(list) |->
                            IF n = 0 THEN << >>
                            ELSE IF list[n] \in R THEN Append(out[n - 1], list[n])
                                 ELSE out[n - 1]]
                 /\ Only(list, R) = out[Len(list)]
  BY <1>a, OnlyIsRecursive
<1> DEFINE good(n) == /\ in[n] \in Seq(T) /\ out[n] \in Seq(T)
                      /\ Len(in[n]) + Len(out[n]) = n
           B == {n \in 0 .. Len(list) : ~good(n)}
<1>3. B = {}
  <2>1. SUFFICES ASSUME B # {} PROVE FALSE
    OBVIOUS
  <2>2. PICK n \in B : \A k \in B : n <= k
    <3> HIDE DEF good
    <3>1. B \in SUBSET Nat
      OBVIOUS
    <3> HIDE DEF B
    <3> QED BY <2>1, <3>1, LeastNatural
  <2>3. n # 0
    <3>1. 0 \in 0 .. Len(list) /\ in[0] = << >> /\ out[0] = << >>
      BY <1>1, <1>2
    <3>2. good(0)
      <4>1. << >> \in Seq(T) /\ Len(<< >>) = 0
        OBVIOUS
      <4> QED BY <3>1, <4>1
    <3> QED BY <2>2, <3>2
  <2>4. good(n - 1)
    <3>1. n - 1 \in 0 .. Len(list) /\ ~(n <= n - 1)
      BY <2>3
    <3>2. n - 1 \notin B
      BY <2>2, <3>1
    <3> QED BY <3>1, <3>2
  <2>5. n \in 1 .. Len(list)
    BY <2>3
  <2>6. in[n] = IF list[n] \in S THEN Append(in[n - 1], list[n]) ELSE in[n - 1]
    BY <1>1, <2>3, <2>5
  <2>7. out[n] = IF list[n] \in S THEN out[n - 1] ELSE Append(out[n - 1], list[n])
    BY <1>0, <1>2, <2>3, <2>5
  <2>8. good(n)
    <3>1. list[n] \in T
      BY <2>5
    <3> DEFINE a == in[n - 1]
               b == out[n - 1]
    <3>c. n \in Nat
      BY <2>5
    <3>2. a \in Seq(T) /\ b \in Seq(T) /\ Len(a) + Len(b) = n - 1
      BY <2>4, Zenon
    <3>a. in[n] = (IF list[n] \in S THEN Append(a, list[n]) ELSE a)
      BY <2>6
    <3>b. out[n] = (IF list[n] \in S THEN b ELSE Append(b, list[n]))
      BY <2>7
    <3> HIDE DEF a, b
    <3>3. /\ Append(a, list[n]) \in Seq(T) /\ Len(Append(a, list[n])) = Len(a) + 1
          /\ Append(b, list[n]) \in Seq(T) /\ Len(Append(b, list[n])) = Len(b) + 1
          /\ Len(a) \in Nat /\ Len(b) \in Nat
      BY <3>1, <3>2
    <3>4. CASE list[n] \in S
      <4>1. in[n] = Append(a, list[n]) /\ out[n] = b
        BY <3>a, <3>b, <3>4
      <4> QED BY <3>2, <3>3, <3>c, <4>1
    <3>5. CASE list[n] \notin S
      <4>1. in[n] = a /\ out[n] = Append(b, list[n])
        BY <3>a, <3>b, <3>5
      <4> QED BY <3>2, <3>3, <3>c, <4>1
    <3> QED BY <3>4, <3>5
  <2> QED BY <2>2, <2>8
<1>4. good(Len(list))
  <2>1. Len(list) \in 0 .. Len(list)
    OBVIOUS
  <2> QED BY <1>3, <2>1
<1> QED BY <1>1, <1>2, <1>4 DEF Without, R

Distinct(list) == \A i, j \in 1 .. Len(list) : list[i] = list[j] => i = j

LEMMA RangeOfList ==
  ASSUME NEW T, NEW list \in Seq(T), NEW x
  PROVE  x \in Range(list) <=> \E i \in 1 .. Len(list) : list[i] = x
BY DEF Range

LEMMA OnlyFacts ==
  ASSUME NEW T, NEW list \in Seq(T), NEW S
  PROVE  /\ Only(list, S) \in Seq(T)
         /\ Range(Only(list, S)) = Range(list) \cap S
         /\ Distinct(list) => Distinct(Only(list, S))
<1> DEFINE sub == Only(list, S)
<1>1. sub \in Seq(T) /\ Picks(sub, list, S, Len(list))
  BY OnlyPicks
<1> HIDE DEF sub
<1>2. PICK h \in [1 .. Len(sub) -> 1 .. Len(list)] :
        /\ \A i \in 1 .. Len(sub) : sub[i] = list[h[i]] /\ sub[i] \in S
        /\ \A i, j \in 1 .. Len(sub) : h[i] = h[j] => i = j
        /\ \A k \in 1 .. Len(list) : list[k] \in S => \E i \in 1 .. Len(sub) : h[i] = k
  BY <1>1 DEF Picks
<1>3. \A i \in 1 .. Len(sub) : h[i] \in 1 .. Len(list)
  BY <1>2
<1>4. ASSUME NEW x \in Range(sub) PROVE x \in Range(list) \cap S
  BY <1>1, <1>2, <1>3, RangeOfList
<1>5. ASSUME NEW x \in Range(list) \cap S PROVE x \in Range(sub)
  BY <1>1, <1>2, RangeOfList
<1>6. Distinct(list) => Distinct(sub)
  BY <1>2, <1>3 DEF Distinct
<1> QED BY <1>1, <1>4, <1>5, <1>6 DEF sub

LEMMA WithoutFacts ==
  ASSUME NEW T, NEW list \in Seq(T), NEW S
  PROVE  /\ Without(list, S) \in Seq(T)
         /\ Range(Without(list, S)) = Range(list) \ S
         /\ Distinct(list) => Distinct(Without(list, S))
<1> DEFINE R == Range(list) \ S
<1>1. Without(list, S) = Only(list, R) /\ Range(list) \cap R = Range(list) \ S
  BY DEF Without
<1> HIDE DEF R
<1> QED BY <1>1, OnlyFacts

\* A list of different items has one of them once.
LEMMA OnlyOne ==
  ASSUME NEW T, NEW list \in Seq(T), Distinct(list), NEW x
  PROVE  Len(Without(list, {x})) + 1 >= Len(list)
<1> DEFINE sub == Only(list, {x})
<1>1. sub \in Seq(T) /\ Range(sub) = Range(list) \cap {x} /\ Distinct(sub)
  BY OnlyFacts
<1>2. Len(sub) + Len(Without(list, {x})) = Len(list)
  BY OnlyAndWithout
<1>3. Len(Without(list, {x})) \in Nat
  BY WithoutFacts
<1> HIDE DEF sub
<1>4. \A i \in 1 .. Len(sub) : sub[i] = x
  BY <1>1, RangeOfList
<1>5. Len(sub) <= 1
  <2>1. SUFFICES ASSUME Len(sub) > 1 PROVE FALSE
    BY <1>1
  <2>2. 1 \in 1 .. Len(sub) /\ 2 \in 1 .. Len(sub)
    BY <1>1, <2>1
  <2> QED BY <1>1, <1>4, <2>2 DEF Distinct
<1> QED BY <1>1, <1>2, <1>3, <1>5

LEMMA ReverseFacts ==
  ASSUME NEW T, NEW list \in Seq(T)
  PROVE  /\ Reverse(list) \in Seq(T) /\ Len(Reverse(list)) = Len(list)
         /\ Range(Reverse(list)) = Range(list)
         /\ Distinct(list) => Distinct(Reverse(list))
<1> DEFINE back(i) == (Len(list) - i) + 1
           rev == Reverse(list)
<1>1. rev = [i \in 1 .. Len(list) |-> list[back(i)]]
  BY DEF Reverse
<1>2. \A i \in 1 .. Len(list) : back(i) \in 1 .. Len(list) /\ back(back(i)) = i
  OBVIOUS
<1> HIDE DEF back
<1>3. rev \in Seq(T) /\ Len(rev) = Len(list) /\ \A i \in 1 .. Len(list) : rev[i] = list[back(i)]
  BY <1>1, <1>2
<1> HIDE DEF rev
<1>4. ASSUME NEW x PROVE x \in Range(rev) <=> x \in Range(list)
  BY <1>2, <1>3, RangeOfList
<1>5. Distinct(list) => Distinct(rev)
  BY <1>2, <1>3 DEF Distinct
<1>6. Range(rev) = Range(list)
  BY <1>4
<1> QED BY <1>3, <1>5, <1>6 DEF rev

LEMMA ConcatFacts ==
  ASSUME NEW T, NEW a \in Seq(T), NEW b \in Seq(T)
  PROVE  /\ a \o b \in Seq(T) /\ Len(a \o b) = Len(a) + Len(b)
         /\ Range(a \o b) = Range(a) \cup Range(b)
         /\ Distinct(a) /\ Distinct(b) /\ Range(a) \cap Range(b) = {} => Distinct(a \o b)
<1>1. /\ a \o b \in Seq(T) /\ Len(a \o b) = Len(a) + Len(b)
      /\ Len(a) \in Nat /\ Len(b) \in Nat
      /\ \A i \in 1 .. Len(a) : (a \o b)[i] = a[i]
      /\ \A i \in 1 .. Len(b) : (a \o b)[Len(a) + i] = b[i]
  OBVIOUS
<1> DEFINE c == a \o b
<1>2. \A i \in 1 .. Len(a) + Len(b) : i \in 1 .. Len(a) \/ \E j \in 1 .. Len(b) : i = Len(a) + j
  <2>1. \A i \in 1 .. Len(a) + Len(b) : i \notin 1 .. Len(a) =>
            i - Len(a) \in 1 .. Len(b) /\ i = Len(a) + (i - Len(a))
    BY <1>1
  <2> QED BY <2>1
<1>3. \A i \in 1 .. Len(a) : i \in 1 .. Len(a) + Len(b)
  BY <1>1
<1>4. \A i \in 1 .. Len(b) : Len(a) + i \in 1 .. Len(a) + Len(b)
  BY <1>1
<1> HIDE DEF c
<1>5. /\ c \in Seq(T) /\ Len(c) = Len(a) + Len(b)
      /\ \A i \in 1 .. Len(a) : c[i] = a[i] /\ c[i] \in Range(a)
      /\ \A i \in 1 .. Len(b) : c[Len(a) + i] = b[i] /\ c[Len(a) + i] \in Range(b)
  BY <1>1, RangeOfList DEF c
<1>a. ASSUME NEW x
      PROVE  /\ x \in Range(a) <=> \E i \in 1 .. Len(a) : a[i] = x
             /\ x \in Range(b) <=> \E i \in 1 .. Len(b) : b[i] = x
             /\ x \in Range(c) <=> \E i \in 1 .. Len(c) : c[i] = x
  <2>1. x \in Range(a) <=> \E i \in 1 .. Len(a) : a[i] = x
    BY RangeOfList
  <2>2. x \in Range(b) <=> \E i \in 1 .. Len(b) : b[i] = x
    BY RangeOfList
  <2>3. x \in Range(c) <=> \E i \in 1 .. Len(c) : c[i] = x
    BY <1>5, RangeOfList
  <2> QED BY <2>1, <2>2, <2>3
<1>6. ASSUME NEW x \in Range(c) PROVE x \in Range(a) \cup Range(b)
  BY <1>2, <1>5, <1>a
<1>7. ASSUME NEW x \in Range(a) \cup Range(b) PROVE x \in Range(c)
  <2>1. CASE x \in Range(a)
    <3>1. PICK i \in 1 .. Len(a) : a[i] = x
      BY <2>1, <1>a
    <3> QED BY <3>1, <1>3, <1>5, <1>a
  <2>2. CASE x \in Range(b)
    <3>1. PICK i \in 1 .. Len(b) : b[i] = x
      BY <2>2, <1>a
    <3>2. c[Len(a) + i] = x /\ Len(a) + i \in 1 .. Len(c)
      BY <3>1, <1>4, <1>5
    <3> QED BY <3>2, <1>a
  <2> QED BY <2>1, <2>2
<1>8. Range(c) = Range(a) \cup Range(b)
  BY <1>6, <1>7
<1>9. ASSUME Distinct(a), Distinct(b), Range(a) \cap Range(b) = {} PROVE Distinct(c)
  <2>1. SUFFICES ASSUME NEW i \in 1 .. Len(a) + Len(b), NEW j \in 1 .. Len(a) + Len(b),
                        c[i] = c[j]
                 PROVE  i = j
    BY <1>5 DEF Distinct
  <2>2. CASE i \in 1 .. Len(a) /\ j \in 1 .. Len(a)
    BY <2>1, <2>2, <1>5, <1>9 DEF Distinct
  <2>3. CASE i \notin 1 .. Len(a) /\ j \notin 1 .. Len(a)
    <3>1. PICK k \in 1 .. Len(b), l \in 1 .. Len(b) : i = Len(a) + k /\ j = Len(a) + l
      BY <2>3, <1>2
    <3> QED BY <2>1, <3>1, <1>5, <1>9 DEF Distinct
  <2>4. CASE i \in 1 .. Len(a) /\ j \notin 1 .. Len(a)
    BY <2>1, <2>4, <1>2, <1>5, <1>9
  <2>5. CASE i \notin 1 .. Len(a) /\ j \in 1 .. Len(a)
    BY <2>1, <2>5, <1>2, <1>5, <1>9
  <2> QED BY <2>2, <2>3, <2>4, <2>5
<1> QED BY <1>5, <1>8, <1>9 DEF c

-----------------------------------------------------------------------------
(* Pools.                                                                  *)

\* No entry is in a pool twice, and malloc has made no others.
SoundPool(pool) ==
    /\ pool = [list |-> pool.list, free |-> pool.free]
    /\ pool.list \in Seq(Nat) /\ pool.free \in Seq(Nat)
    /\ Distinct(pool.list) /\ Distinct(pool.free)
    /\ Range(pool.list) \cap Range(pool.free) = {}
    /\ Range(pool.list) \cup Range(pool.free) \subseteq 1 .. Len(pool.list) + Len(pool.free)

LEMMA NewPoolIsSound == SoundPool(newLLPool) /\ Range(newLLPool.list) = {}
<1>1. newLLPool = [list |-> << >>, free |-> << >>]
  BY DEF newLLPool
<1>2. << >> \in Seq(Nat) /\ Len(<< >>) = 0 /\ Range(<< >>) = {} /\ 1 .. 0 = {}
  BY DEF Range
<1>3. Distinct(<< >>)
  BY <1>2 DEF Distinct
<1> QED BY <1>1, <1>2, <1>3 DEF SoundPool

\* The free list without the entry that is taken, and the list with it.
LEMMA NextEntryIsFree ==
  ASSUME NEW pool, SoundPool(pool)
  PROVE  LET e == NextEntry(pool)
             free == IF pool.free # << >> THEN Tail(pool.free) ELSE << >>
         IN /\ e \in Nat /\ e \notin Range(pool.list)
            /\ e \in 1 .. Len(pool.list) + Len(free) + 1
            /\ free \in Seq(Nat) /\ Distinct(free) /\ e \notin Range(free)
            /\ Range(free) \subseteq Range(pool.free)
            /\ Len(pool.list) + Len(pool.free) <= Len(pool.list) + Len(free) + 1
<1> DEFINE list == pool.list
           used == pool.free
<1>1. /\ list \in Seq(Nat) /\ used \in Seq(Nat) /\ Distinct(list) /\ Distinct(used)
      /\ Range(list) \cap Range(used) = {}
      /\ Range(list) \cup Range(used) \subseteq 1 .. Len(list) + Len(used)
  BY DEF SoundPool
<1>2. CASE used = << >>
  <2>1. Len(used) = 0 /\ Range(used) = {} /\ Len(list) \in Nat
    BY <1>1, <1>2 DEF Range
  <2>2. NextEntry(pool) = Len(list) + 1
    BY <1>2 DEF NextEntry
  <2>3. Len(list) + 1 \notin 1 .. Len(list) + Len(used)
    BY <2>1
  <2> HIDE DEF list, used
  <2> QED BY <1>1, <1>2, <2>1, <2>2, <2>3 DEF list, used
<1>3. CASE used # << >>
  <2>1. NextEntry(pool) = Head(used)
    BY <1>3 DEF NextEntry
  <2> HIDE DEF list, used
  <2>2. /\ Tail(used) \in Seq(Nat) /\ Len(Tail(used)) = Len(used) - 1
        /\ Len(used) \in Nat /\ Len(used) > 0 /\ Len(list) \in Nat
        /\ Head(used) = used[1] /\ 1 \in 1 .. Len(used)
        /\ \A i \in 1 .. Len(used) - 1 : Tail(used)[i] = used[i + 1]
    BY <1>1, <1>3
  <2>3. Head(used) \in Range(used)
    BY <1>1, <2>2, RangeOfList
  <2>4. \A i \in 1 .. Len(used) - 1 : i + 1 \in 1 .. Len(used) /\ i + 1 # 1
    BY <2>2
  <2>5. ASSUME NEW x \in Range(Tail(used)) PROVE x \in Range(used) /\ x # Head(used)
    <3>1. PICK i \in 1 .. Len(used) - 1 : Tail(used)[i] = x
      <4> DEFINE rest == Tail(used)
      <4>1. rest \in Seq(Nat) /\ Len(rest) = Len(used) - 1 /\ x \in Range(rest)
        BY <2>2
      <4> HIDE DEF rest
      <4>2. \E i \in 1 .. Len(rest) : rest[i] = x
        BY <4>1, RangeOfList
      <4> QED BY <4>1, <4>2 DEF rest
    <3>2. used[i + 1] = x /\ i + 1 \in 1 .. Len(used) /\ i + 1 # 1
      BY <2>2, <2>4, <3>1
    <3>3. x \in Range(used)
      BY <1>1, <3>2, RangeOfList
    <3> QED BY <1>1, <2>2, <3>2, <3>3 DEF Distinct
  <2>6. Distinct(Tail(used))
    <3>1. SUFFICES ASSUME NEW i \in 1 .. Len(used) - 1, NEW j \in 1 .. Len(used) - 1,
                          Tail(used)[i] = Tail(used)[j]
                   PROVE  i = j
      BY <2>2 DEF Distinct
    <3>2. i + 1 = j + 1
      BY <1>1, <2>2, <2>4, <3>1 DEF Distinct
    <3> QED BY <3>2
  <2>7. Head(used) \in 1 .. Len(list) + Len(used)
    BY <1>1, <2>3
  <2>8. /\ Head(used) \in Nat /\ Head(used) \notin Range(list)
        /\ Len(list) + Len(Tail(used)) + 1 = Len(list) + Len(used)
    BY <1>1, <2>2, <2>3, <2>7
  <2>9. Head(used) \notin Range(Tail(used)) /\ Range(Tail(used)) \subseteq Range(used)
    BY <2>5
  <2>10. Len(list) + Len(used) <= Len(list) + Len(Tail(used)) + 1
    BY <2>2, <2>8
  <2> QED BY <1>3, <2>1, <2>2, <2>6, <2>7, <2>8, <2>9, <2>10 DEF list, used
<1> QED BY <1>2, <1>3

\* The same of a list that is known to be two lists in a row.
LEMMA ListOfTwo ==
  ASSUME NEW T, NEW a \in Seq(T), NEW b \in Seq(T), NEW list, list = a \o b,
         Distinct(a), Distinct(b), Range(a) \cap Range(b) = {}
  PROVE  /\ list \in Seq(T) /\ Len(list) = Len(a) + Len(b)
         /\ Range(list) = Range(a) \cup Range(b) /\ Distinct(list)
<1>1. a \o b \in Seq(T)
  BY ConcatFacts
<1>2. Len(a \o b) = Len(a) + Len(b)
  BY ConcatFacts
<1>3. Range(a \o b) = Range(a) \cup Range(b)
  BY ConcatFacts
<1>4. Distinct(a \o b)
  BY ConcatFacts
<1>5. list \in Seq(T)
  BY <1>1
<1>6. Len(list) = Len(a) + Len(b)
  BY <1>2
<1>7. Range(list) = Range(a) \cup Range(b)
  BY <1>3
<1>8. Distinct(list)
  BY <1>4
<1> QED BY <1>5, <1>6, <1>7, <1>8

\* A list with one more item.
Appended(list, a, x) ==
    Len(list) = Len(a) + 1 /\ list[Len(a) + 1] = x /\ \A i \in 1 .. Len(a) : list[i] = a[i]

LEMMA OneMore ==
  ASSUME NEW T, NEW a \in Seq(T), NEW x, NEW list \in Seq(T), Appended(list, a, x),
         Distinct(a), x \notin Range(a)
  PROVE  Range(list) = Range(a) \cup {x} /\ Distinct(list)
<1>1. /\ list \in Seq(T) /\ Len(list) = Len(a) + 1 /\ Len(a) \in Nat
      /\ list[Len(a) + 1] = x /\ \A i \in 1 .. Len(a) : list[i] = a[i]
  BY DEF Appended
<1>2. \A i \in 1 .. Len(a) + 1 : i = Len(a) + 1 \/ i \in 1 .. Len(a)
  BY <1>1
<1>3. \A i \in 1 .. Len(a) : i \in 1 .. Len(list) /\ a[i] \in Range(a)
  BY <1>1, RangeOfList
<1>4. Len(a) + 1 \in 1 .. Len(list)
  BY <1>1
<1>5. ASSUME NEW y PROVE y \in Range(list) <=> \E i \in 1 .. Len(a) + 1 : list[i] = y
  BY <1>1, RangeOfList
<1>6. ASSUME NEW y PROVE y \in Range(a) <=> \E i \in 1 .. Len(a) : a[i] = y
  BY RangeOfList
<1>7. Range(list) = Range(a) \cup {x}
  <2>1. ASSUME NEW y \in Range(list) PROVE y \in Range(a) \cup {x}
    BY <1>1, <1>2, <1>3, <1>5
  <2>2. ASSUME NEW y \in Range(a) \cup {x} PROVE y \in Range(list)
    BY <1>1, <1>3, <1>4, <1>5, <1>6
  <2> QED BY <2>1, <2>2
<1>8. Distinct(list)
  BY <1>1, <1>2, <1>3 DEF Distinct
<1> QED BY <1>1, <1>7, <1>8

\* Adding an entry, in front or at the end, keeps a pool sound.
LEMMA AddIsSound ==
  ASSUME NEW pool, SoundPool(pool), NEW atEnd \in BOOLEAN
  PROVE  LET e == NextEntry(pool)
             more == [LLPoolAddItem(pool) EXCEPT
                         !.list = IF atEnd THEN Append(pool.list, e) ELSE @]
         IN /\ SoundPool(more)
            /\ Range(more.list) = Range(pool.list) \cup {e}
            /\ e \in Nat /\ e \notin Range(pool.list)
<1> DEFINE e == NextEntry(pool)
           old == pool.list
           used == pool.free
           free == IF used # << >> THEN Tail(used) ELSE << >>
           one == <<e>>
           list == IF atEnd THEN Append(old, e) ELSE <<e>> \o old
           more == [LLPoolAddItem(pool) EXCEPT
                         !.list = IF atEnd THEN Append(pool.list, e) ELSE @]
<1>1. /\ e \in Nat /\ e \notin Range(old)
      /\ e \in 1 .. Len(old) + Len(free) + 1
      /\ free \in Seq(Nat) /\ Distinct(free) /\ e \notin Range(free)
      /\ Range(free) \subseteq Range(used)
      /\ Len(old) + Len(used) <= Len(old) + Len(free) + 1
  BY NextEntryIsFree
<1>2. more = [list |-> list, free |-> free]
  <2>1. LLPoolAddItem(pool) = [list |-> <<e>> \o old, free |-> free]
    BY DEF LLPoolAddItem
  <2>2. list = IF atEnd THEN Append(old, e) ELSE LLPoolAddItem(pool).list
    BY <2>1
  <2>3. more = [LLPoolAddItem(pool) EXCEPT !.list = list]
    BY <2>2
  <2> HIDE DEF e, free, list, more
  <2> QED BY <2>1, <2>3
<1>3. /\ old \in Seq(Nat) /\ used \in Seq(Nat) /\ Distinct(old)
      /\ Range(old) \cap Range(used) = {}
      /\ Range(old) \cup Range(used) \subseteq 1 .. Len(old) + Len(used)
  BY DEF SoundPool
<1>4. Range(more.list) = Range(list) /\ more = [list |-> more.list, free |-> more.free]
      /\ more.list = list /\ more.free = free
  BY <1>2
<1> HIDE DEF e, free, more, old, used
<1>5. one \in Seq(Nat) /\ Len(one) = 1 /\ Range(one) = {e} /\ Distinct(one)
  BY <1>1 DEF Range, Distinct
<1> HIDE DEF one, list
<1>6. /\ list \in Seq(Nat) /\ Len(list) = Len(old) + 1
      /\ Range(list) = Range(old) \cup {e} /\ Distinct(list)
  <2>0. old \in Seq(Nat) /\ Distinct(old) /\ one \in Seq(Nat) /\ Distinct(one)
    BY <1>3, <1>5
  <2>1. Range(old) \cap Range(one) = {} /\ Range(one) \cap Range(old) = {}
    BY <1>1, <1>5
  <2>2. CASE atEnd
    <3>1. /\ list \in Seq(Nat) /\ Len(list) = Len(old) + 1 /\ Appended(list, old, e)
      BY <1>1, <2>0, <2>2 DEF list, Appended
    <3> QED BY <1>1, <2>0, <3>1, OneMore
  <2>3. CASE ~atEnd
    <3>1. list = one \o old
      BY <2>3 DEF list, one
    <3>2. 1 + Len(old) = Len(old) + 1 /\ Range(one) \cup Range(old) = Range(old) \cup {e}
      BY <1>3, <1>5
    <3>3. /\ list \in Seq(Nat) /\ Len(list) = Len(one) + Len(old)
          /\ Range(list) = Range(one) \cup Range(old) /\ Distinct(list)
      BY <3>1, <2>0, <2>1, ListOfTwo
    <3> QED BY <3>2, <3>3, <1>5
  <2> QED BY <2>2, <2>3
<1>7. Range(list) \cap Range(free) = {}
  BY <1>1, <1>3, <1>6
<1>8. Range(list) \cup Range(free) \subseteq 1 .. Len(list) + Len(free)
  <2>1. Len(list) \in Nat /\ Len(free) \in Nat /\ Len(old) \in Nat /\ Len(used) \in Nat
    BY <1>1, <1>3, <1>6
  <2>2. Len(list) + Len(free) = Len(old) + Len(free) + 1
    BY <2>1, <1>6
  <2>3. Len(old) + Len(used) <= Len(list) + Len(free)
    BY <1>1, <2>2
  <2>4. \A x \in 1 .. Len(old) + Len(used) : x \in 1 .. Len(list) + Len(free)
    BY <2>1, <2>3
  <2>5. e \in 1 .. Len(list) + Len(free)
    BY <1>1, <2>2
  <2> QED BY <1>1, <1>3, <1>6, <2>4, <2>5
<1>9. SoundPool(more)
  BY <1>1, <1>4, <1>6, <1>7, <1>8 DEF SoundPool
<1> QED BY <1>1, <1>4, <1>6, <1>9 DEF e, more, old

\* The two uses of LLPoolAddItem.
LEMMA NewInFront ==
  ASSUME NEW pool, SoundPool(pool)
  PROVE  /\ SoundPool(LLPoolAddItem(pool)) /\ NextEntry(pool) \notin Range(pool.list)
         /\ Range(LLPoolAddItem(pool).list) = Range(pool.list) \cup {NextEntry(pool)}
<1>1. [LLPoolAddItem(pool) EXCEPT !.list = IF FALSE THEN Append(pool.list, NextEntry(pool)) ELSE @]
         = LLPoolAddItem(pool)
  BY DEF LLPoolAddItem
<1> QED BY <1>1, AddIsSound

LEMMA NewAtEnd ==
  ASSUME NEW pool, SoundPool(pool), NEW more,
         more = [LLPoolAddItem(pool) EXCEPT !.list = Append(pool.list, NextEntry(pool))]
  PROVE  /\ SoundPool(more) /\ NextEntry(pool) \notin Range(pool.list)
         /\ Range(more.list) = Range(pool.list) \cup {NextEntry(pool)}
<1>1. [LLPoolAddItem(pool) EXCEPT !.list = IF TRUE THEN Append(pool.list, NextEntry(pool)) ELSE @]
         = more
  OBVIOUS
<1> QED BY <1>1, AddIsSound

\* Removing entries keeps a pool sound.
LEMMA RemoveAllIsSound ==
  ASSUME NEW pool, SoundPool(pool), NEW S
  PROVE  /\ SoundPool(LLPoolRemoveAll(pool, S))
         /\ Range(LLPoolRemoveAll(pool, S).list) = Range(pool.list) \ S
<1> DEFINE old == pool.list
           used == pool.free
           list == Without(old, S)
           out == Only(old, S)
           back == Reverse(out)
           free == back \o used
           less == LLPoolRemoveAll(pool, S)
<1>1. /\ old \in Seq(Nat) /\ used \in Seq(Nat) /\ Distinct(old) /\ Distinct(used)
      /\ Range(old) \cap Range(used) = {}
      /\ Range(old) \cup Range(used) \subseteq 1 .. Len(old) + Len(used)
  BY DEF SoundPool
<1>2. less = [list |-> list, free |-> free]
  BY DEF LLPoolRemoveAll
<1> HIDE DEF less, list, free
<1>3. less.list = list /\ less.free = free /\ less = [list |-> less.list, free |-> less.free]
  BY <1>2
<1> HIDE DEF old, used
<1>4. list \in Seq(Nat) /\ Range(list) = Range(old) \ S /\ Distinct(list)
  BY <1>1, WithoutFacts DEF list
<1>5. out \in Seq(Nat) /\ Range(out) = Range(old) \cap S /\ Distinct(out)
  BY <1>1, OnlyFacts
<1>6. Len(out) + Len(list) = Len(old)
  BY <1>1, OnlyAndWithout DEF list
<1> HIDE DEF out
<1>7. back \in Seq(Nat) /\ Range(back) = Range(out) /\ Distinct(back) /\ Len(back) = Len(out)
  BY <1>5, ReverseFacts
<1> HIDE DEF back
<1>8. Range(back) \cap Range(used) = {}
  BY <1>1, <1>5, <1>7
<1>9. /\ free \in Seq(Nat) /\ Len(free) = Len(back) + Len(used)
      /\ Range(free) = Range(back) \cup Range(used) /\ Distinct(free)
  BY <1>1, <1>7, <1>8, ListOfTwo, Zenon DEF free
<1>10. Len(list) + Len(free) = Len(old) + Len(used)
  <2>1. /\ Len(list) \in Nat /\ Len(out) \in Nat /\ Len(back) \in Nat /\ Len(free) \in Nat
        /\ Len(old) \in Nat /\ Len(used) \in Nat
    BY <1>1, <1>4, <1>5, <1>7, <1>9
  <2>2. /\ Len(free) = Len(back) + Len(used) /\ Len(back) = Len(out)
        /\ Len(out) + Len(list) = Len(old)
    BY <1>6, <1>7, <1>9
  <2> QED BY <2>1, <2>2
<1>11. SoundPool(less)
  BY <1>1, <1>3, <1>4, <1>5, <1>7, <1>9, <1>10 DEF SoundPool
<1> QED BY <1>3, <1>4, <1>11 DEF less, old

\* Moving an entry to the end of the list keeps a pool sound.
LEMMA MoveToEndIsSound ==
  ASSUME NEW pool, SoundPool(pool), NEW e \in Range(pool.list)
  PROVE  LET moved == [pool EXCEPT !.list = Append(Without(@, {e}), e)]
         IN SoundPool(moved) /\ Range(moved.list) = Range(pool.list)
<1> DEFINE old == pool.list
           used == pool.free
           rest == Without(old, {e})
           list == Append(rest, e)
           moved == [pool EXCEPT !.list = Append(Without(@, {e}), e)]
<1>1. /\ old \in Seq(Nat) /\ used \in Seq(Nat) /\ Distinct(old) /\ Distinct(used)
      /\ Range(old) \cap Range(used) = {} /\ e \in Range(old)
      /\ Range(old) \cup Range(used) \subseteq 1 .. Len(old) + Len(used)
  BY DEF SoundPool
<1>2. moved.list = list /\ moved.free = used /\ moved = [list |-> moved.list, free |-> moved.free]
  <2>1. pool = [list |-> old, free |-> used] /\ moved = [pool EXCEPT !.list = list]
    BY DEF SoundPool
  <2> HIDE DEF list, old, used, moved
  <2> QED BY <2>1
<1> HIDE DEF moved, old, used
<1>3. rest \in Seq(Nat) /\ Range(rest) = Range(old) \ {e} /\ Distinct(rest)
  BY <1>1, WithoutFacts
<1>4. Len(rest) + 1 >= Len(old)
  BY <1>1, OnlyOne
<1>5. e \in Nat
  <2>1. \A x \in 1 .. Len(old) + Len(used) : x \in Nat
    BY <1>1
  <2> QED BY <1>1, <2>1
<1>6. e \notin Range(rest) /\ Range(rest) \cup {e} = Range(old)
  BY <1>1, <1>3
<1> HIDE DEF rest
<1>7. list \in Seq(Nat) /\ Len(list) = Len(rest) + 1 /\ Appended(list, rest, e)
  BY <1>3, <1>5 DEF Appended
<1> HIDE DEF list
<1>8. Range(list) = Range(old) /\ Distinct(list)
  <2>1. Range(list) = Range(rest) \cup {e} /\ Distinct(list)
    BY <1>3, <1>6, <1>7, OneMore
  <2> QED BY <2>1, <1>6
<1>9. \A x \in 1 .. Len(old) + Len(used) : x \in 1 .. Len(list) + Len(used)
  <2>1. Len(rest) \in Nat /\ Len(list) \in Nat /\ Len(old) \in Nat /\ Len(used) \in Nat
    BY <1>1, <1>3, <1>7
  <2>2. Len(old) + Len(used) <= Len(list) + Len(used)
    BY <2>1, <1>4, <1>7
  <2> QED BY <2>1, <2>2
<1>10. SoundPool(moved)
  BY <1>1, <1>2, <1>7, <1>8, <1>9 DEF SoundPool
<1> QED BY <1>2, <1>8, <1>10 DEF moved, old

=============================================================================
