---------------------------- MODULE PartsProofs -----------------------------
(***************************************************************************)
(* Three parts that the programs share, for any sizes.                     *)
(*                                                                         *)
(* The pools of bm_server.c: the links are sound, a walk visits what was   *)
(* there, and what is stored is EntryPool.  LinksInv knows the two lists   *)
(* as paths along next, and where in the list a walk is.                   *)
(*                                                                         *)
(* getLine of net.c: the lines are those of the stream.  BytesInv says     *)
(* where every byte of it is, and LinesInv that the lines so far are those *)
(* that are made of the bytes taken, or their ends.                        *)
(*                                                                         *)
(* readGame and printGame of game.c: a file is one game to every program.  *)
(* FileInv says that every memory has read the same, as far as anything    *)
(* was read.                                                               *)
(***************************************************************************)
EXTENDS LLPool, GetLine, GameFile, PoolProofs

-----------------------------------------------------------------------------
(* Lists along links.                                                      *)

Links == [Entries -> Entries \cup {NULL}]

\* Linked, along any links.
via(nx, e) ==
    LET from[n \in 0 .. MaxEntries] ==
            [q \in Entries \cup {NULL} |->
                IF q = NULL \/ n = 0 THEN << >> ELSE <<q>> \o from[n - 1][nx[q]]]
    IN from[MaxEntries][e]

\* The items of s are linked one to the next, from e on, and the last to none.
IsPath(nx, s, e) ==
    /\ s \in Seq(Entries)
    /\ e = IF s = << >> THEN NULL ELSE s[1]
    /\ \A i \in 1 .. Len(s) : nx[s[i]] = IF i < Len(s) THEN s[i + 1] ELSE NULL

\* The function by which Linked is defined exists.
LEMMA ViaIsRecursive ==
  ASSUME NEW nx, NEW e
  PROVE  \E from : /\ from = [n \in 0 .. MaxEntries |->
                                [q \in Entries \cup {NULL} |->
                                   IF q = NULL \/ n = 0 THEN << >>
                                   ELSE <<q>> \o from[n - 1][nx[q]]]]
                   /\ via(nx, e) = from[MaxEntries][e]
<1> USE LLPoolAssumption
<1> DEFINE A == Entries \cup {NULL}
           row(f, n) == [q \in A |-> IF q = NULL \/ n = 0 THEN << >> ELSE <<q>> \o f[n - 1][nx[q]]]
           steps(f, m) == [n \in 0 .. m |-> row(f, n)]
           T == {m \in 0 .. MaxEntries : ~\E f : f = steps(f, m)}
<1>1. T = {}
  <2>1. SUFFICES ASSUME T # {} PROVE FALSE
    OBVIOUS
  <2>2. PICK m \in T : \A k \in T : m <= k
    <3>1. T \in SUBSET Nat
      OBVIOUS
    <3> HIDE DEF T
    <3> QED BY <2>1, <3>1, LeastNatural
  <2>3. m # 0
    <3> DEFINE f == [n \in {0} |-> [q \in A |-> << >>]]
    <3>1. \A g : row(g, 0) = [q \in A |-> << >>]
      OBVIOUS
    <3>2. 0 .. 0 = {0}
      OBVIOUS
    <3> HIDE DEF row
    <3>3. \A g : steps(g, 0) = f
      BY <3>1, <3>2
    <3> QED BY <3>3
  <2>4. PICK f : f = steps(f, m - 1)
    <3>1. m - 1 \in 0 .. MaxEntries /\ ~(m <= m - 1)
      BY <2>3
    <3>2. m - 1 \notin T
      BY <2>2, <3>1
    <3> QED BY <3>1, <3>2
  <2>5. \A g, h, n : (n # 0 => g[n - 1] = h[n - 1]) => row(g, n) = row(h, n)
    OBVIOUS
  <2> HIDE DEF row
  <2> DEFINE g == [n \in 0 .. m |-> IF n < m THEN f[n] ELSE row(f, m)]
  <2>6. \A n \in 0 .. m - 1 : g[n] = f[n]
    BY <2>3
  <2>7. ASSUME NEW n \in 0 .. m PROVE g[n] = row(g, n)
    <3>1. n # 0 => g[n - 1] = f[n - 1]
      BY <2>6
    <3> HIDE DEF g
    <3>2. row(g, n) = row(f, n)
      BY <3>1, <2>5
    <3>3. CASE n = m
      BY <3>2, <3>3 DEF g
    <3>4. CASE n # m
      <4>1. n \in 0 .. m - 1
        BY <3>4
      <4>2. f[n] = row(f, n)
        BY <2>4, <4>1
      <4> QED BY <3>2, <4>1, <4>2, <2>6
    <3> QED BY <3>3, <3>4
  <2>8. g = steps(g, m)
    BY <2>7
  <2> QED BY <2>8
<1>2. \E f : f = steps(f, MaxEntries)
  <2>1. MaxEntries \in 0 .. MaxEntries
    OBVIOUS
  <2> HIDE DEF steps
  <2> QED BY <1>1, <2>1
<1> DEFINE from == CHOOSE f : f = steps(f, MaxEntries)
<1>3. from = steps(from, MaxEntries)
  BY <1>2
<1>4. via(nx, e) = from[MaxEntries][e]
  BY DEF via
<1> QED BY <1>3, <1>4

\* What is linked is the path.
LEMMA PathIsLinked ==
  ASSUME NEW nx \in Links, NEW s, NEW e, IsPath(nx, s, e), Len(s) <= MaxEntries
  PROVE  via(nx, e) = s
<1> USE LLPoolAssumption
<1>1. PICK from : /\ from = [n \in 0 .. MaxEntries |->
                                [q \in Entries \cup {NULL} |->
                                   IF q = NULL \/ n = 0 THEN << >>
                                   ELSE <<q>> \o from[n - 1][nx[q]]]]
                  /\ via(nx, e) = from[MaxEntries][e]
  BY ViaIsRecursive
<1>2. s \in Seq(Entries) /\ Len(s) \in Nat /\ \A i \in 1 .. Len(s) : s[i] \in Entries /\ s[i] # NULL
  BY DEF IsPath, Entries, NULL
<1>3. \A m \in 0 .. MaxEntries : from[m][NULL] = << >>
  BY <1>1
<1>4. \A m \in 1 .. MaxEntries, q \in Entries : from[m][q] = <<q>> \o from[m - 1][nx[q]]
  <2>1. ASSUME NEW m \in 1 .. MaxEntries, NEW q \in Entries
        PROVE  from[m][q] = <<q>> \o from[m - 1][nx[q]]
    <3>1. m \in 0 .. MaxEntries /\ m # 0 /\ q # NULL /\ q \in Entries \cup {NULL}
      BY DEF Entries, NULL
    <3>2. from[m] = [r \in Entries \cup {NULL} |->
                       IF r = NULL \/ m = 0 THEN << >> ELSE <<r>> \o from[m - 1][nx[r]]]
      BY <3>1, <1>1
    <3> QED BY <3>1, <3>2
  <2> QED BY <2>1
<1> DEFINE start(k) == IF k = 0 THEN NULL ELSE s[Len(s) - k + 1]
           tail(k) == [i \in 1 .. k |-> s[Len(s) - k + i]]
           good(k) == \A m \in k .. MaxEntries : from[m][start(k)] = tail(k)
           B == {k \in 0 .. Len(s) : ~good(k)}
<1>5. good(0)
  <2>1. tail(0) = << >>
    OBVIOUS
  <2> HIDE DEF tail
  <2> QED BY <1>3, <2>1
<1>6. ASSUME NEW k \in 1 .. Len(s), good(k - 1)
      PROVE  good(k)
  <2> DEFINE j == Len(s) - k + 1
  <2>1. j \in 1 .. Len(s) /\ start(k) = s[j]
    BY <1>2
  <2>2. nx[s[j]] = start(k - 1)
    BY <2>1, <1>2 DEF IsPath
  <2>3. <<s[j]>> \o tail(k - 1) = tail(k)
    <3> DEFINE t == tail(k - 1)
    <3>1. t \in Seq(Entries) /\ Len(t) = k - 1 /\ \A i \in 1 .. k - 1 : t[i] = s[j + i]
      BY <1>2
    <3> HIDE DEF t
    <3>2. /\ Len(<<s[j]>> \o t) = k /\ (<<s[j]>> \o t)[1] = s[j]
          /\ \A i \in 2 .. k : (<<s[j]>> \o t)[i] = t[i - 1]
          /\ <<s[j]>> \o t = [i \in 1 .. k |-> (<<s[j]>> \o t)[i]]
      BY <3>1, <2>1, <1>2
    <3>3. ASSUME NEW i \in 1 .. k PROVE (<<s[j]>> \o t)[i] = s[Len(s) - k + i]
      <4>1. CASE i = 1
        BY <4>1, <3>2, <1>2
      <4>2. CASE i # 1
        <5>1. i - 1 \in 1 .. k - 1 /\ i \in 2 .. k /\ j + (i - 1) = Len(s) - k + i
          BY <4>2, <1>2
        <5> QED BY <5>1, <3>1, <3>2
      <4> QED BY <4>1, <4>2
    <3> QED BY <3>2, <3>3 DEF t
  <2> HIDE DEF tail, start, j
  <2>4. ASSUME NEW m \in k .. MaxEntries PROVE from[m][start(k)] = tail(k)
    <3>1. m \in 1 .. MaxEntries /\ m - 1 \in k - 1 .. MaxEntries
      BY <1>2
    <3>2. from[m][s[j]] = <<s[j]>> \o from[m - 1][nx[s[j]]]
      BY <3>1, <2>1, <1>2, <1>4
    <3>3. from[m - 1][start(k - 1)] = tail(k - 1)
      BY <3>1, <1>6
    <3> QED BY <3>2, <3>3, <2>1, <2>2, <2>3
  <2> QED BY <2>4
<1>7. good(Len(s))
  <2>1. SUFFICES ASSUME B # {} PROVE FALSE
    BY <1>2
  <2>2. PICK k \in B : \A l \in B : k <= l
    <3>1. B \in SUBSET Nat
      BY <1>2
    <3> HIDE DEF B
    <3> QED BY <2>1, <3>1, LeastNatural
  <2> HIDE DEF good
  <2>3. k \in 0 .. Len(s) /\ ~good(k)
    BY <2>2
  <2>4. k # 0
    BY <2>3, <1>5
  <2>5. k \in 1 .. Len(s) /\ k - 1 \in 0 .. Len(s) /\ ~(k <= k - 1)
    BY <2>3, <2>4, <1>2
  <2>6. good(k - 1)
    BY <2>5, <2>2
  <2> QED BY <2>3, <2>5, <2>6, <1>6
<1>8. start(Len(s)) = e
  BY <1>2 DEF IsPath
<1>9. tail(Len(s)) = s
  BY <1>2
<1>10. MaxEntries \in Len(s) .. MaxEntries
  BY <1>2
<1> HIDE DEF start, tail
<1> QED BY <1>1, <1>7, <1>8, <1>9, <1>10

-----------------------------------------------------------------------------
(* The two operations of a pool.                                           *)

\* A list without its item at place k.
skip(k, i) == IF i < k THEN i ELSE i + 1

LEMMA WithoutAt ==
  ASSUME NEW T, NEW list \in Seq(T), Distinct(list), NEW k \in 1 .. Len(list)
  PROVE  LET spare == Without(list, {list[k]})
         IN /\ spare \in Seq(T) /\ Len(spare) = Len(list) - 1
            /\ \A i \in 1 .. Len(list) - 1 : spare[i] = list[skip(k, i)]
<1> DEFINE R == Range(list) \ {list[k]}
<1>1. \A n \in 1 .. Len(list) : list[n] \in R <=> n # k
  BY DEF Range, Distinct
<1>2. Len(list) \in Nat /\ k \in Nat /\ \A n \in 1 .. Len(list) : list[n] \in T
  OBVIOUS
<1> HIDE DEF R
<1>3. PICK kept : /\ kept = [n \in 0 .. Len(list) |->
                            IF n = 0 THEN << >>
                            ELSE IF list[n] \in R THEN Append(kept[n - 1], list[n])
                                 ELSE kept[n - 1]]
                  /\ Only(list, R) = kept[Len(list)]
  BY <1>2, OnlyIsRecursive
<1> DEFINE good(n) == /\ kept[n] \in Seq(T) /\ Len(kept[n]) = IF n < k THEN n ELSE n - 1
                      /\ \A i \in 1 .. Len(kept[n]) : kept[n][i] = list[skip(k, i)]
           B == {n \in 0 .. Len(list) : ~good(n)}
<1>4. good(0)
  <2>1. kept[0] = << >> /\ << >> \in Seq(T) /\ Len(<< >>) = 0 /\ 0 < k
    BY <1>3, <1>2
  <2> QED BY <2>1
<1>5. ASSUME NEW n \in 1 .. Len(list), good(n - 1) PROVE good(n)
  <2> DEFINE a == kept[n - 1]
  <2>1. a \in Seq(T) /\ Len(a) = (IF n - 1 < k THEN n - 1 ELSE n - 2)
        /\ \A i \in 1 .. Len(a) : a[i] = list[skip(k, i)]
    BY <1>5
  <2>2. kept[n] = IF n # k THEN Append(a, list[n]) ELSE a
    <3>1. n # 0 /\ n \in 0 .. Len(list)
      OBVIOUS
    <3>2. kept[n] = IF list[n] \in R THEN Append(kept[n - 1], list[n]) ELSE kept[n - 1]
      BY <1>3, <3>1
    <3> QED BY <3>2, <1>1
  <2> HIDE DEF a
  <2>3. CASE n = k
    <3>1. kept[n] = a /\ Len(a) = n - 1
      BY <2>1, <2>2, <2>3
    <3> QED BY <3>1, <2>1, <2>3
  <2>4. CASE n # k
    <3> DEFINE b == Append(a, list[n])
    <3>1. b \in Seq(T) /\ Len(b) = Len(a) + 1 /\ b[Len(a) + 1] = list[n] /\ Len(a) \in Nat
          /\ \A i \in 1 .. Len(a) : b[i] = a[i]
      BY <2>1, <1>2
    <3>2. kept[n] = b
      BY <2>2, <2>4
    <3> HIDE DEF b
    <3>3. Len(b) = (IF n < k THEN n ELSE n - 1) /\ skip(k, Len(b)) = n
      BY <3>1, <2>1, <2>4, <1>2 DEF skip
    <3>4. ASSUME NEW i \in 1 .. Len(b) PROVE b[i] = list[skip(k, i)]
      <4>1. CASE i = Len(b)
        BY <4>1, <3>1, <3>3
      <4>2. CASE i # Len(b)
        <5>1. i \in 1 .. Len(a)
          BY <4>2, <3>1
        <5> QED BY <5>1, <3>1, <2>1
      <4> QED BY <4>1, <4>2
    <3> QED BY <3>1, <3>2, <3>3, <3>4
  <2> QED BY <2>3, <2>4
<1> HIDE DEF good
<1>6. good(Len(list))
  <2>1. SUFFICES ASSUME B # {} PROVE FALSE
    BY <1>2
  <2>2. PICK n \in B : \A l \in B : n <= l
    <3>1. B \in SUBSET Nat
      BY <1>2
    <3> HIDE DEF B
    <3> QED BY <2>1, <3>1, LeastNatural
  <2>3. n \in 0 .. Len(list) /\ ~good(n)
    BY <2>2
  <2>4. n # 0
    BY <2>3, <1>4
  <2>5. n \in 1 .. Len(list) /\ n - 1 \in 0 .. Len(list) /\ ~(n <= n - 1)
    BY <2>3, <2>4, <1>2
  <2>6. good(n - 1)
    BY <2>5, <2>2
  <2> QED BY <2>3, <2>5, <2>6, <1>5
<1>7. Without(list, {list[k]}) = kept[Len(list)]
  BY <1>3 DEF Without, R
<1>8. kept[Len(list)] \in Seq(T) /\ Len(kept[Len(list)]) = Len(list) - 1
      /\ \A i \in 1 .. Len(list) - 1 : kept[Len(list)][i] = list[skip(k, i)]
  BY <1>6, <1>2 DEF good
<1> QED BY <1>7, <1>8

\* Every item is linked back to the one before it.
IsBack(pv, s) == \A i \in 2 .. Len(s) : pv[s[i]] = s[i - 1]

\* The links of the pool are those of these two lists.
Holds(L, F) ==
    /\ next \in Links /\ prev \in Links
    /\ IsPath(next, L, head) /\ IsPath(next, F, free)
    /\ SoundPool([list |-> L, free |-> F])
    /\ IsBack(prev, L) /\ IsBack(prev, F)
    /\ L # << >> => prev[L[1]] = NULL
    /\ numEntries = Len(L) /\ made = Len(L) + Len(F) /\ made <= MaxEntries

\* What is known of two such lists.
LEMMA HoldsFacts ==
  ASSUME NEW L, NEW F, Holds(L, F)
  PROVE  /\ L \in Seq(Entries) /\ F \in Seq(Entries) /\ Len(L) \in Nat /\ Len(F) \in Nat
         /\ \A i \in 1 .. Len(L) : L[i] \in Entries /\ L[i] # NULL
         /\ \A i \in 1 .. Len(F) : F[i] \in Entries /\ F[i] # NULL
         /\ \A i \in 1 .. Len(L), j \in 1 .. Len(F) : L[i] # F[j]
         /\ Distinct(L) /\ Distinct(F)
         /\ L = << >> <=> Len(L) = 0
         /\ F = << >> <=> Len(F) = 0
         /\ head = IF Len(L) = 0 THEN NULL ELSE L[1]
         /\ free = IF Len(F) = 0 THEN NULL ELSE F[1]
         /\ \A i \in 1 .. Len(L) : next[L[i]] = IF i < Len(L) THEN L[i + 1] ELSE NULL
         /\ \A i \in 1 .. Len(F) : next[F[i]] = IF i < Len(F) THEN F[i + 1] ELSE NULL
<1>1. L \in Seq(Entries) /\ F \in Seq(Entries)
  BY DEF Holds, IsPath
<1>2. /\ Len(L) \in Nat /\ Len(F) \in Nat
      /\ \A i \in 1 .. Len(L) : L[i] \in Entries /\ L[i] # NULL
      /\ \A i \in 1 .. Len(F) : F[i] \in Entries /\ F[i] # NULL
  <2>1. \A x \in Entries : x # NULL
    BY DEF Entries, NULL
  <2> QED BY <1>1, <2>1
<1>a. /\ L = << >> <=> Len(L) = 0
      /\ F = << >> <=> Len(F) = 0
  BY <1>1
<1>3. Distinct(L) /\ Distinct(F) /\ Range(L) \cap Range(F) = {}
  BY DEF Holds, SoundPool
<1>4. ASSUME NEW i \in 1 .. Len(L), NEW j \in 1 .. Len(F) PROVE L[i] # F[j]
  <2>1. L[i] \in Range(L) /\ F[j] \in Range(F)
    BY <1>1, RangeOfList
  <2> QED BY <2>1, <1>3
<1> QED BY <1>1, <1>2, <1>a, <1>3, <1>4 DEF Holds, IsPath

\* LLPoolAddItem, link by link, adds an entry in front of the list.
LEMMA AddsInFront ==
  ASSUME NEW L, NEW F, Holds(L, F), AddItem,
         NEW pool, pool = LLPoolAddItem([list |-> L, free |-> F])
  PROVE  /\ Holds(pool.list, pool.free)'
         /\ pool.list \in Seq(Entries) /\ Len(pool.list) = Len(L) + 1
         /\ \A i \in 1 .. Len(L) : pool.list[i + 1] = L[i]
<1> USE LLPoolAssumption
<1> DEFINE old == [list |-> L, free |-> F]
<1>0. PICK e, list, spare : e = nextEntry /\ list = pool.list /\ spare = pool.free
  OBVIOUS
<1>1. /\ L \in Seq(Entries) /\ F \in Seq(Entries) /\ Len(L) \in Nat /\ Len(F) \in Nat
      /\ \A i \in 1 .. Len(L) : L[i] \in Entries /\ L[i] # NULL
      /\ \A i \in 1 .. Len(F) : F[i] \in Entries /\ F[i] # NULL
      /\ \A i \in 1 .. Len(L), j \in 1 .. Len(F) : L[i] # F[j]
      /\ Distinct(L) /\ Distinct(F)
      /\ L = << >> <=> Len(L) = 0
      /\ F = << >> <=> Len(F) = 0
      /\ head = IF Len(L) = 0 THEN NULL ELSE L[1]
      /\ free = IF Len(F) = 0 THEN NULL ELSE F[1]
      /\ \A i \in 1 .. Len(L) : next[L[i]] = IF i < Len(L) THEN L[i + 1] ELSE NULL
      /\ \A i \in 1 .. Len(F) : next[F[i]] = IF i < Len(F) THEN F[i + 1] ELSE NULL
  BY HoldsFacts
<1>2. /\ next \in Links /\ prev \in Links /\ SoundPool(old) /\ IsBack(prev, L) /\ IsBack(prev, F)
      /\ numEntries = Len(L) /\ made = Len(L) + Len(F) /\ made <= MaxEntries
  BY DEF Holds
<1>3. /\ e \in Entries /\ e # NULL
      /\ free' = freeAfterAdding
      /\ made' = IF free # NULL THEN made ELSE made + 1
      /\ next' = [next EXCEPT ![e] = head]
      /\ prev' = [x \in Entries |-> IF x = e THEN NULL ELSE IF x = head THEN e ELSE prev[x]]
      /\ head' = e /\ numEntries' = numEntries + 1
  BY <1>0 DEF AddItem, Entries, NULL
<1>4. free # NULL <=> Len(F) # 0
  BY <1>1
<1>5. e = NextEntry(old)
  <2>1. old.list = L /\ old.free = F
    OBVIOUS
  <2>2. Len(F) # 0 => Head(F) = F[1]
    BY <1>1
  <2> HIDE DEF old
  <2> QED BY <1>0, <1>1, <1>2, <1>4, <2>1, <2>2 DEF nextEntry, NextEntry
<1>6. /\ list = <<e>> \o L /\ spare = IF F # << >> THEN Tail(F) ELSE << >>
      /\ pool = [list |-> list, free |-> spare]
  BY <1>0, <1>5 DEF LLPoolAddItem
<1>a. \A s \in Seq(Entries) : Len(s) \in Nat /\ (s = << >> <=> Len(s) = 0)
  OBVIOUS
<1> HIDE DEF old
<1>7. /\ spare \in Seq(Entries) /\ Len(spare) = (IF Len(F) = 0 THEN 0 ELSE Len(F) - 1)
      /\ \A i \in 1 .. Len(spare) : i + 1 \in 1 .. Len(F) /\ spare[i] = F[i + 1]
  <2>1. CASE F = << >>
    BY <2>1, <1>1, <1>6
  <2>2. CASE F # << >>
    <3>1. Tail(F) \in Seq(Entries) /\ Len(Tail(F)) = Len(F) - 1
          /\ \A i \in 1 .. Len(F) - 1 : Tail(F)[i] = F[i + 1]
      BY <1>1, <2>2
    <3> QED BY <3>1, <2>2, <1>1, <1>6
  <2> QED BY <2>1, <2>2
<1>8. /\ list \in Seq(Entries) /\ Len(list) = Len(L) + 1 /\ list[1] = e
      /\ \A i \in 1 .. Len(L) : list[i + 1] = L[i]
  <2>1. <<e>> \in Seq(Entries) /\ Len(<<e>>) = 1 /\ <<e>>[1] = e
    BY <1>3
  <2>2. list \in Seq(Entries) /\ Len(list) = Len(L) + 1
    BY <1>1, <1>6, <2>1
  <2>3. list[1] = e
    BY <1>1, <1>6, <2>1
  <2>4. ASSUME NEW i \in 1 .. Len(L) PROVE list[i + 1] = L[i]
    BY <1>1, <1>6, <2>1
  <2> QED BY <2>2, <2>3, <2>4
<1>9. \A i \in 2 .. Len(list) : i - 1 \in 1 .. Len(L) /\ list[i] = L[i - 1]
  <2>1. ASSUME NEW i \in 2 .. Len(list) PROVE i - 1 \in 1 .. Len(L) /\ list[i] = L[i - 1]
    <3>1. i - 1 \in 1 .. Len(L) /\ (i - 1) + 1 = i
      BY <1>1, <1>8
    <3> QED BY <3>1, <1>8
  <2> QED BY <2>1
<1>10. SoundPool([list |-> list, free |-> spare])
  BY <1>2, <1>6, NewInFront DEF old
<1>11. /\ \A i \in 1 .. Len(L) : L[i] # e
       /\ \A i \in 1 .. Len(spare) : spare[i] # e
       /\ \A i \in 1 .. Len(spare) : spare[i] \in Entries /\ spare[i] # head
  <2>1. ASSUME NEW i \in 1 .. Len(L) PROVE L[i] # e
    <3>1. Distinct(list)
      BY <1>10 DEF SoundPool
    <3>2. i + 1 \in 1 .. Len(list) /\ 1 \in 1 .. Len(list) /\ i + 1 # 1
      BY <1>1, <1>8
    <3> QED BY <3>1, <3>2, <1>8 DEF Distinct
  <2>2. ASSUME NEW i \in 1 .. Len(spare) PROVE spare[i] # e
    <3>1. Range(list) \cap Range(spare) = {}
      BY <1>10 DEF SoundPool
    <3>2. 1 \in 1 .. Len(list)
      BY <1>1, <1>8
    <3>3. list[1] \in Range(list) /\ spare[i] \in Range(spare)
      BY <1>7, <1>8, <3>2, RangeOfList
    <3> QED BY <3>1, <3>3, <1>8
  <2>3. ASSUME NEW i \in 1 .. Len(spare) PROVE spare[i] \in Entries /\ spare[i] # head
    <3>1. i + 1 \in 1 .. Len(F) /\ spare[i] = F[i + 1]
      BY <1>7
    <3>2. Len(L) # 0 => 1 \in 1 .. Len(L)
      BY <1>1
    <3> QED BY <3>1, <3>2, <1>1
  <2> QED BY <2>1, <2>2, <2>3
<1>12. IsPath(next', list, e)
  <2>1. ASSUME NEW i \in 1 .. Len(list)
        PROVE  next'[list[i]] = IF i < Len(list) THEN list[i + 1] ELSE NULL
    <3>1. CASE i = 1
      <4>1. next'[list[i]] = head
        BY <3>1, <1>2, <1>3, <1>8 DEF Links
      <4>2. Len(L) # 0 => 1 \in 1 .. Len(L)
        BY <1>1
      <4> QED BY <3>1, <4>1, <4>2, <1>1, <1>8
    <3>2. CASE i # 1
      <4>1. i \in 2 .. Len(list)
        BY <3>2, <1>1, <1>8
      <4>2. i - 1 \in 1 .. Len(L) /\ list[i] = L[i - 1]
        BY <4>1, <1>9
      <4>3. next'[list[i]] = next[L[i - 1]]
        BY <4>2, <1>1, <1>2, <1>3, <1>11 DEF Links
      <4>4. next[L[i - 1]] = IF i - 1 < Len(L) THEN L[(i - 1) + 1] ELSE NULL
        BY <4>2, <1>1
      <4>5. i < Len(list) => i \in 1 .. Len(L) /\ list[i + 1] = L[i]
        BY <4>1, <1>1, <1>8
      <4>6. i \in Nat /\ (i - 1) + 1 = i /\ (i < Len(list) <=> i - 1 < Len(L))
        BY <4>1, <1>1, <1>8
      <4> QED BY <4>3, <4>4, <4>5, <4>6
    <3> QED BY <3>1, <3>2
  <2>2. list # << >>
    BY <1>1, <1>8
  <2>3. list \in Seq(Entries) /\ e = IF list = << >> THEN NULL ELSE list[1]
    BY <2>2, <1>8
  <2> QED BY <2>1, <2>3 DEF IsPath
<1>13. IsPath(next', spare, free')
  <2>1. free' = IF Len(F) = 0 THEN free ELSE next[F[1]]
    BY <1>1, <1>3, <1>4 DEF freeAfterAdding
  <2>2. free' = IF spare = << >> THEN NULL ELSE spare[1]
    <3>1. spare = << >> <=> Len(spare) = 0
      BY <1>7, <1>a
    <3>2. CASE Len(F) = 0
      BY <2>1, <3>1, <3>2, <1>1, <1>7
    <3>3. CASE Len(F) # 0
      <4>1. 1 \in 1 .. Len(F)
        BY <3>3, <1>1
      <4>2. next[F[1]] = IF 1 < Len(F) THEN F[1 + 1] ELSE NULL
        BY <4>1, <1>1
      <4>3. 1 < Len(F) <=> Len(spare) # 0
        BY <3>3, <1>1, <1>7
      <4>4. Len(spare) # 0 => spare[1] = F[1 + 1]
        <5>1. Len(spare) # 0 => 1 \in 1 .. Len(spare)
          <6>1. Len(spare) \in Nat
            BY <1>7, <1>a
          <6> QED BY <6>1
        <5> QED BY <5>1, <1>7
      <4> QED BY <2>1, <3>1, <3>3, <4>2, <4>3, <4>4
    <3> QED BY <3>2, <3>3
  <2>3. ASSUME NEW i \in 1 .. Len(spare)
        PROVE  next'[spare[i]] = IF i < Len(spare) THEN spare[i + 1] ELSE NULL
    <3>1. next'[spare[i]] = next[spare[i]]
      BY <1>2, <1>3, <1>11 DEF Links
    <3>2. i + 1 \in 1 .. Len(F) /\ spare[i] = F[i + 1]
      BY <1>7
    <3>3. next[F[i + 1]] = IF i + 1 < Len(F) THEN F[(i + 1) + 1] ELSE NULL
      BY <3>2, <1>1
    <3>4. i < Len(spare) <=> i + 1 < Len(F)
      BY <3>2, <1>1, <1>7
    <3>5. i < Len(spare) => spare[i + 1] = F[(i + 1) + 1]
      <4>1. i < Len(spare) => i + 1 \in 1 .. Len(spare)
        BY <1>7, <1>a
      <4> QED BY <4>1, <1>7
    <3> QED BY <3>1, <3>2, <3>3, <3>4, <3>5
  <2> QED BY <2>2, <2>3, <1>7 DEF IsPath
<1>14. IsBack(prev', list)
  <2>1. SUFFICES ASSUME NEW i \in 2 .. Len(list) PROVE prev'[list[i]] = list[i - 1]
    BY DEF IsBack
  <2>2. i - 1 \in 1 .. Len(L) /\ list[i] = L[i - 1]
    BY <1>9
  <2>3. prev'[L[i - 1]] = IF L[i - 1] = head THEN e ELSE prev[L[i - 1]]
    BY <2>2, <1>1, <1>3, <1>11
  <2>4. CASE i = 2
    BY <2>2, <2>3, <2>4, <1>1, <1>8
  <2>5. CASE i # 2
    <3>1. i - 1 \in 2 .. Len(L) /\ i - 2 \in 1 .. Len(L) /\ 1 \in 1 .. Len(L) /\ i - 1 # 1
          /\ (i - 1) - 1 = i - 2 /\ (i - 2) + 1 = i - 1
      BY <2>2, <2>5, <1>1
    <3>2. L[i - 1] # head
      BY <3>1, <2>2, <1>1 DEF Distinct
    <3>3. prev[L[i - 1]] = L[(i - 1) - 1]
      BY <3>1, <1>2 DEF IsBack
    <3>4. list[(i - 2) + 1] = L[i - 2]
      BY <3>1, <1>8
    <3> QED BY <2>2, <2>3, <3>1, <3>2, <3>3, <3>4
  <2> QED BY <2>4, <2>5
<1>15. IsBack(prev', spare)
  <2>1. SUFFICES ASSUME NEW i \in 2 .. Len(spare) PROVE prev'[spare[i]] = spare[i - 1]
    BY DEF IsBack
  <2>2. i \in 1 .. Len(spare) /\ i - 1 \in 1 .. Len(spare) /\ (i - 1) + 1 = i
    BY <1>1, <1>7
  <2>3. prev'[spare[i]] = prev[spare[i]]
    BY <2>2, <1>3, <1>11
  <2>4. spare[i] = F[i + 1] /\ spare[i - 1] = F[i] /\ i + 1 \in 1 .. Len(F)
    BY <2>2, <1>7
  <2>5. i + 1 \in 2 .. Len(F) /\ (i + 1) - 1 = i
    BY <2>4, <1>1
  <2>6. prev[F[i + 1]] = F[(i + 1) - 1]
    BY <2>5, <1>2 DEF IsBack
  <2> QED BY <2>3, <2>4, <2>5, <2>6
<1>16. prev'[list[1]] = NULL
  BY <1>3, <1>8
<1>17. numEntries' = Len(list) /\ made' = Len(list) + Len(spare) /\ made' <= MaxEntries
  <2>1. CASE Len(F) = 0
    <3>1. e = made + 1 /\ made' = made + 1
      BY <2>1, <1>0, <1>3, <1>4 DEF nextEntry
    <3>2. e <= MaxEntries
      BY <1>3 DEF Entries
    <3> QED BY <2>1, <3>1, <3>2, <1>1, <1>2, <1>3, <1>7, <1>8
  <2>2. CASE Len(F) # 0
    <3>1. made' = made
      BY <2>2, <1>3, <1>4
    <3> QED BY <2>2, <3>1, <1>1, <1>2, <1>3, <1>7, <1>8
  <2> QED BY <2>1, <2>2
<1>18. next' \in Links /\ prev' \in Links
  <2>1. head \in Entries \cup {NULL}
    <3>1. Len(L) # 0 => 1 \in 1 .. Len(L)
      BY <1>1
    <3> QED BY <3>1, <1>1
  <2> QED BY <2>1, <1>2, <1>3 DEF Links
<1>19. Holds(list, spare)'
  BY <1>3, <1>10, <1>12, <1>13, <1>14, <1>15, <1>16, <1>17, <1>18 DEF Holds
<1> QED BY <1>0, <1>8, <1>19

\* LLPoolRemoveEntry, link by link, takes the entry out of the list and puts it
\* in front of the free ones.
LEMMA RemovesOne ==
  ASSUME NEW L, NEW F, Holds(L, F), NEW k \in 1 .. Len(L), unlinked(L[k]),
         NEW pool, pool = LLPoolRemoveEntry([list |-> L, free |-> F], L[k])
  PROVE  /\ Holds(pool.list, pool.free)'
         /\ pool.list \in Seq(Entries) /\ Len(pool.list) = Len(L) - 1
         /\ \A i \in 1 .. Len(L) - 1 : pool.list[i] = L[skip(k, i)]
<1> USE LLPoolAssumption
<1> DEFINE old == [list |-> L, free |-> F]
<1>0. PICK e, list, spare : e = L[k] /\ list = pool.list /\ spare = pool.free
  OBVIOUS
<1>1. /\ L \in Seq(Entries) /\ F \in Seq(Entries) /\ Len(L) \in Nat /\ Len(F) \in Nat
      /\ \A i \in 1 .. Len(L) : L[i] \in Entries /\ L[i] # NULL
      /\ \A i \in 1 .. Len(F) : F[i] \in Entries /\ F[i] # NULL
      /\ \A i \in 1 .. Len(L), j \in 1 .. Len(F) : L[i] # F[j]
      /\ Distinct(L) /\ Distinct(F)
      /\ L = << >> <=> Len(L) = 0
      /\ F = << >> <=> Len(F) = 0
      /\ head = IF Len(L) = 0 THEN NULL ELSE L[1]
      /\ free = IF Len(F) = 0 THEN NULL ELSE F[1]
      /\ \A i \in 1 .. Len(L) : next[L[i]] = IF i < Len(L) THEN L[i + 1] ELSE NULL
      /\ \A i \in 1 .. Len(F) : next[F[i]] = IF i < Len(F) THEN F[i + 1] ELSE NULL
  BY HoldsFacts
<1>2. /\ next \in Links /\ prev \in Links /\ SoundPool(old) /\ IsBack(prev, L) /\ IsBack(prev, F)
      /\ numEntries = Len(L) /\ made = Len(L) + Len(F) /\ made <= MaxEntries
      /\ L # << >> => prev[L[1]] = NULL
  BY DEF Holds
<1>3. k \in Nat /\ k > 0 /\ k <= Len(L) /\ e \in Entries /\ e # NULL /\ Len(L) # 0
  BY <1>0, <1>1
<1>4. prev[e] = IF k = 1 THEN NULL ELSE L[k - 1]
  <2>1. CASE k = 1
    BY <2>1, <1>0, <1>1, <1>2, <1>3
  <2>2. CASE k # 1
    <3>1. k \in 2 .. Len(L)
      BY <2>2, <1>1, <1>3
    <3> QED BY <2>2, <3>1, <1>0, <1>2 DEF IsBack
  <2> QED BY <2>1, <2>2
<1>5. next[e] = IF k < Len(L) THEN L[k + 1] ELSE NULL
  BY <1>0, <1>1
<1>6. /\ head' = (IF k = 1 THEN next[e] ELSE head)
      /\ \A x \in Entries : next'[x] = (IF x = e THEN free
                                        ELSE IF k # 1 /\ x = L[k - 1] THEN next[e] ELSE next[x])
      /\ next' \in Links
  <2>a. free \in Entries \cup {NULL} /\ next[e] \in Entries \cup {NULL}
    <3>1. Len(F) # 0 => 1 \in 1 .. Len(F)
      BY <1>1
    <3> QED BY <3>1, <1>1, <1>2, <1>3 DEF Links
  <2>1. CASE k = 1
    <3>1. prev[e] = NULL
      BY <2>1, <1>4
    <3>2. next' = [next EXCEPT ![e] = free] /\ head' = next[e]
      BY <3>1, <1>0 DEF unlinked
    <3> QED BY <2>1, <2>a, <3>2, <1>2, <1>3 DEF Links
  <2>2. CASE k # 1
    <3>1. k - 1 \in 1 .. Len(L) /\ k - 1 # k
      BY <2>2, <1>1, <1>3
    <3>2. L[k - 1] \in Entries /\ L[k - 1] # NULL /\ L[k - 1] # e
      BY <3>1, <1>0, <1>1 DEF Distinct
    <3>3. prev[e] = L[k - 1]
      BY <2>2, <1>4
    <3>4. next' = [next EXCEPT ![L[k - 1]] = next[e], ![e] = free] /\ head' = head
      BY <3>2, <3>3, <1>0 DEF unlinked
    <3> QED BY <2>2, <2>a, <3>2, <3>4, <1>2, <1>3 DEF Links
  <2> QED BY <2>1, <2>2
<1>7. /\ prev' = [x \in Entries |-> IF x = free THEN e ELSE IF x = next[e] THEN prev[e] ELSE prev[x]]
      /\ free' = e /\ numEntries' = numEntries - 1 /\ made' = made
  BY <1>0 DEF unlinked, prevAfterRemoving
<1>8. /\ list = Without(L, {e}) /\ spare = <<e>> \o F
      /\ pool = [list |-> list, free |-> spare]
  BY <1>0 DEF LLPoolRemoveEntry
<1>a. \A s \in Seq(Entries) : Len(s) \in Nat /\ (s = << >> <=> Len(s) = 0)
  OBVIOUS
<1> HIDE DEF old
<1>9. /\ list \in Seq(Entries) /\ Len(list) = Len(L) - 1
      /\ \A i \in 1 .. Len(L) - 1 : list[i] = L[skip(k, i)]
  <2>1. /\ Without(L, {L[k]}) \in Seq(Entries) /\ Len(Without(L, {L[k]})) = Len(L) - 1
        /\ \A i \in 1 .. Len(L) - 1 : Without(L, {L[k]})[i] = L[skip(k, i)]
    BY <1>1, WithoutAt
  <2>2. Without(L, {L[k]}) = list
    BY <1>0, <1>8
  <2> QED BY <2>1, <2>2
<1>b. ASSUME NEW i \in 1 .. Len(L) - 1
      PROVE  /\ skip(k, i) \in 1 .. Len(L) /\ skip(k, i) # k
             /\ list[i] = L[skip(k, i)] /\ list[i] # e /\ list[i] \in Entries
  <2>1. skip(k, i) \in 1 .. Len(L) /\ skip(k, i) # k
    BY <1>1, <1>3 DEF skip
  <2> QED BY <2>1, <1>0, <1>1, <1>9 DEF Distinct
<1>10. /\ spare \in Seq(Entries) /\ Len(spare) = Len(F) + 1 /\ spare[1] = e
       /\ \A i \in 1 .. Len(F) : spare[i + 1] = F[i]
  BY <1>1, <1>3, <1>8
<1>11. \A i \in 2 .. Len(spare) : i - 1 \in 1 .. Len(F) /\ spare[i] = F[i - 1]
  <2>1. ASSUME NEW i \in 2 .. Len(spare) PROVE i - 1 \in 1 .. Len(F) /\ spare[i] = F[i - 1]
    <3>1. i - 1 \in 1 .. Len(F) /\ (i - 1) + 1 = i
      BY <1>1, <1>10
    <3> QED BY <3>1, <1>10
  <2> QED BY <2>1
<1>12. \A i \in 1 .. Len(F) : F[i] \in Entries /\ F[i] # e /\ (k # 1 => F[i] # L[k - 1])
  <2>1. k # 1 => k - 1 \in 1 .. Len(L)
    BY <1>1, <1>3
  <2> QED BY <2>1, <1>0, <1>1
<1>13. SoundPool(pool)
  <2>1. \A x : x \in Range(L) <=> \E i \in 1 .. Len(L) : L[i] = x
    BY <1>1, RangeOfList
  <2>2. /\ L \in Seq(Nat) /\ F \in Seq(Nat) /\ Range(L) \cap Range(F) = {}
        /\ Range(L) \cup Range(F) \subseteq 1 .. Len(L) + Len(F)
    BY <1>2 DEF SoundPool, old
  <2>3. list \in Seq(Nat) /\ Range(list) = Range(L) \ {e} /\ Distinct(list)
    BY <2>2, <1>1, <1>8, WithoutFacts
  <2>4. e \in Range(L) /\ e \notin Range(F) /\ e \in Nat
    <3>1. e \in Range(L)
      BY <2>1, <1>0
    <3>2. e \in Nat
      BY <1>3 DEF Entries
    <3> QED BY <3>1, <3>2, <2>2
  <2>5. PICK one : one = <<e>>
    OBVIOUS
  <2>6. one \in Seq(Nat) /\ Distinct(one) /\ Range(one) = {e} /\ Len(one) = 1
    BY <2>4, <2>5 DEF Distinct, Range
  <2>7. Range(one) \cap Range(F) = {} /\ Distinct(F) /\ F \in Seq(Nat) /\ spare = one \o F
    BY <2>2, <2>4, <2>5, <2>6, <1>1, <1>8
  <2>8. spare \in Seq(Nat) /\ Range(spare) = Range(one) \cup Range(F) /\ Distinct(spare)
    BY <2>6, <2>7, ListOfTwo
  <2>9. Len(list) + Len(spare) = Len(L) + Len(F)
    BY <1>1, <1>9, <1>10
  <2>10. /\ Range(list) \cap Range(spare) = {}
         /\ Range(list) \cup Range(spare) \subseteq 1 .. Len(list) + Len(spare)
    BY <2>2, <2>3, <2>4, <2>6, <2>8, <2>9
  <2>11. pool.list = list /\ pool.free = spare /\ pool = [list |-> pool.list, free |-> pool.free]
    BY <1>8
  <2> QED BY <2>3, <2>8, <2>10, <2>11 DEF SoundPool
<1>14. head' = IF Len(list) = 0 THEN NULL ELSE list[1]
  <2>1. CASE k = 1
    <3>1. Len(list) # 0 => 1 \in 1 .. Len(L) - 1 /\ list[1] = L[2]
      BY <2>1, <1>1, <1>3, <1>9 DEF skip
    <3>2. Len(list) # 0 <=> k < Len(L)
      BY <2>1, <1>1, <1>3, <1>9
    <3> QED BY <2>1, <3>1, <3>2, <1>5, <1>6
  <2>2. CASE k # 1
    <3>1. 1 \in 1 .. Len(L) - 1 /\ 1 < k
      BY <2>2, <1>1, <1>3
    <3>2. list[1] = L[1] /\ Len(list) # 0
      BY <3>1, <1>1, <1>9 DEF skip
    <3> QED BY <2>2, <3>2, <1>1, <1>3, <1>6
  <2> QED BY <2>1, <2>2
<1>15. IsPath(next', list, head')
  <2>1. ASSUME NEW i \in 1 .. Len(list)
        PROVE  next'[list[i]] = IF i < Len(list) THEN list[i + 1] ELSE NULL
    <3>1. i \in 1 .. Len(L) - 1 /\ i \in Nat
      BY <1>1, <1>9
    <3>2. skip(k, i) \in 1 .. Len(L) /\ list[i] = L[skip(k, i)] /\ list[i] # e /\ list[i] \in Entries
      BY <3>1, <1>b
    <3>3. i < Len(list) => i + 1 \in 1 .. Len(L) - 1 /\ list[i + 1] = L[skip(k, i + 1)]
      BY <1>1, <1>9
    <3>4. CASE i = k - 1
      <4>1. skip(k, i) = k - 1 /\ skip(k, i + 1) = k + 1 /\ k # 1
        BY <3>1, <3>4, <1>3 DEF skip
      <4>2. next'[list[i]] = next[e]
        BY <3>2, <4>1, <1>6
      <4>3. i < Len(list) <=> k < Len(L)
        BY <3>1, <3>4, <1>1, <1>3, <1>9
      <4> QED BY <3>3, <4>1, <4>2, <4>3, <1>5
    <3>5. CASE i # k - 1
      <4>1. skip(k, i + 1) = skip(k, i) + 1 /\ (i < Len(list) <=> skip(k, i) < Len(L))
        BY <3>1, <3>5, <1>1, <1>3, <1>9 DEF skip
      <4>2. k # 1 => k - 1 \in 1 .. Len(L) /\ skip(k, i) # k - 1
        BY <3>1, <3>5, <1>1, <1>3 DEF skip
      <4>3. ~(k # 1 /\ list[i] = L[k - 1])
        BY <3>2, <4>2, <1>1 DEF Distinct
      <4>4. next'[list[i]] = next[L[skip(k, i)]]
        BY <3>2, <4>3, <1>6
      <4>5. next[L[skip(k, i)]] = IF skip(k, i) < Len(L) THEN L[skip(k, i) + 1] ELSE NULL
        BY <3>2, <1>1
      <4> QED BY <3>3, <4>1, <4>4, <4>5
    <3> QED BY <3>4, <3>5
  <2>2. list = << >> <=> Len(list) = 0
    BY <1>9, <1>a
  <2> QED BY <2>1, <2>2, <1>9, <1>14 DEF IsPath
<1>16. IsPath(next', spare, free')
  <2>1. ASSUME NEW i \in 1 .. Len(spare)
        PROVE  next'[spare[i]] = IF i < Len(spare) THEN spare[i + 1] ELSE NULL
    <3>1. CASE i = 1
      <4>1. next'[spare[i]] = free
        BY <3>1, <1>3, <1>6, <1>10
      <4>2. Len(F) # 0 => 1 \in 1 .. Len(F)
        BY <1>1
      <4>3. Len(F) # 0 => spare[i + 1] = F[1] /\ i < Len(spare)
        BY <3>1, <4>2, <1>1, <1>10
      <4>4. Len(F) = 0 => ~(i < Len(spare))
        BY <3>1, <1>1, <1>10
      <4> QED BY <4>1, <4>3, <4>4, <1>1
    <3>2. CASE i # 1
      <4>1. i \in 2 .. Len(spare)
        BY <3>2, <1>1, <1>10
      <4>2. i - 1 \in 1 .. Len(F) /\ spare[i] = F[i - 1]
        BY <4>1, <1>11
      <4>3. next'[spare[i]] = next[F[i - 1]]
        BY <4>2, <1>6, <1>12
      <4>4. next[F[i - 1]] = IF i - 1 < Len(F) THEN F[(i - 1) + 1] ELSE NULL
        BY <4>2, <1>1
      <4>5. i < Len(spare) => i \in 1 .. Len(F) /\ spare[i + 1] = F[i]
        BY <4>1, <1>1, <1>10
      <4>6. i \in Nat /\ (i - 1) + 1 = i /\ (i < Len(spare) <=> i - 1 < Len(F))
        BY <4>1, <1>1, <1>10
      <4> QED BY <4>3, <4>4, <4>5, <4>6
    <3> QED BY <3>1, <3>2
  <2>2. spare # << >>
    BY <1>1, <1>10
  <2>3. spare \in Seq(Entries) /\ e = IF spare = << >> THEN NULL ELSE spare[1]
    BY <2>2, <1>10
  <2> QED BY <2>1, <2>3, <1>7 DEF IsPath
<1>17. ASSUME NEW j \in 1 .. Len(L)
       PROVE  prev'[L[j]] = IF j = k + 1 THEN prev[e] ELSE prev[L[j]]
  <2>1. L[j] # free
    <3>1. Len(F) # 0 => 1 \in 1 .. Len(F)
      BY <1>1
    <3> QED BY <3>1, <1>1
  <2>2. L[j] = next[e] <=> j = k + 1
    <3>1. k < Len(L) => k + 1 \in 1 .. Len(L)
      BY <1>1, <1>3
    <3>2. j = k + 1 => k < Len(L)
      BY <1>1, <1>3
    <3> QED BY <3>1, <3>2, <1>1, <1>5 DEF Distinct
  <2>3. L[j] \in Entries
    BY <1>1
  <2> QED BY <2>1, <2>2, <2>3, <1>7
<1>18. IsBack(prev', list)
  <2>1. SUFFICES ASSUME NEW i \in 2 .. Len(list) PROVE prev'[list[i]] = list[i - 1]
    BY DEF IsBack
  <2>2. /\ i \in 1 .. Len(L) - 1 /\ i - 1 \in 1 .. Len(L) - 1 /\ i \in Nat
    BY <1>1, <1>9
  <2>3. /\ skip(k, i) \in 1 .. Len(L) /\ list[i] = L[skip(k, i)] /\ skip(k, i) # k
        /\ list[i - 1] = L[skip(k, i - 1)]
    BY <2>2, <1>b
  <2>4. CASE i = k
    <3>1. skip(k, i) = k + 1 /\ skip(k, i - 1) = k - 1 /\ k # 1
      BY <2>4, <2>1, <1>3 DEF skip
    <3> QED BY <3>1, <2>3, <1>4, <1>17
  <2>5. CASE i # k
    <3>1. skip(k, i) # k + 1 /\ skip(k, i - 1) = skip(k, i) - 1 /\ skip(k, i) \in 2 .. Len(L)
      BY <2>1, <2>2, <2>3, <2>5, <1>1, <1>3 DEF skip
    <3>2. prev[L[skip(k, i)]] = L[skip(k, i) - 1]
      BY <3>1, <1>2 DEF IsBack
    <3> QED BY <3>1, <3>2, <2>3, <1>17
  <2> QED BY <2>4, <2>5
<1>19. list # << >> => prev'[list[1]] = NULL
  <2>1. SUFFICES ASSUME Len(list) # 0 PROVE prev'[list[1]] = NULL
    BY <1>9, <1>a
  <2>2. 1 \in 1 .. Len(L) - 1
    BY <2>1, <1>1, <1>9
  <2>3. skip(k, 1) \in 1 .. Len(L) /\ list[1] = L[skip(k, 1)]
    BY <2>2, <1>b
  <2>4. CASE k = 1
    <3>1. skip(k, 1) = k + 1
      BY <2>4 DEF skip
    <3> QED BY <3>1, <2>3, <2>4, <1>4, <1>17
  <2>5. CASE k # 1
    <3>1. skip(k, 1) = 1 /\ 1 # k + 1
      BY <2>5, <1>3 DEF skip
    <3> QED BY <3>1, <2>3, <1>1, <1>2, <1>3, <1>17
  <2> QED BY <2>4, <2>5
<1>20. IsBack(prev', spare)
  <2>1. SUFFICES ASSUME NEW i \in 2 .. Len(spare) PROVE prev'[spare[i]] = spare[i - 1]
    BY DEF IsBack
  <2>2. i - 1 \in 1 .. Len(F) /\ spare[i] = F[i - 1]
    BY <1>11
  <2>3. F[i - 1] \in Entries /\ F[i - 1] # next[e]
    <3>1. k < Len(L) => k + 1 \in 1 .. Len(L)
      BY <1>1, <1>3
    <3> QED BY <2>2, <3>1, <1>1, <1>5
  <2>4. prev'[F[i - 1]] = IF F[i - 1] = free THEN e ELSE prev[F[i - 1]]
    BY <2>3, <1>7
  <2>5. CASE i = 2
    BY <2>2, <2>4, <2>5, <1>1, <1>10
  <2>6. CASE i # 2
    <3>1. i - 1 \in 2 .. Len(F) /\ i - 2 \in 1 .. Len(F) /\ 1 \in 1 .. Len(F) /\ i - 1 # 1
          /\ (i - 1) - 1 = i - 2 /\ (i - 2) + 1 = i - 1
      BY <2>2, <2>6, <1>1
    <3>2. F[i - 1] # free
      BY <3>1, <2>2, <1>1 DEF Distinct
    <3>3. prev[F[i - 1]] = F[(i - 1) - 1]
      BY <3>1, <1>2 DEF IsBack
    <3>4. spare[(i - 2) + 1] = F[i - 2]
      BY <3>1, <1>10
    <3> QED BY <2>2, <2>4, <3>1, <3>2, <3>3, <3>4
  <2> QED BY <2>5, <2>6
<1>21. prev' \in Links
  BY <1>2, <1>3, <1>7 DEF Links
<1>22. numEntries' = Len(list) /\ made' = Len(list) + Len(spare) /\ made' <= MaxEntries
  BY <1>1, <1>2, <1>7, <1>9, <1>10
<1>23. Holds(list, spare)'
  BY <1>6, <1>8, <1>13, <1>15, <1>16, <1>18, <1>19, <1>20, <1>21, <1>22 DEF Holds
<1> QED BY <1>0, <1>9, <1>23

-----------------------------------------------------------------------------
(* The walk, the invariant, and what follows from it.                      *)

\* What a list holds from place k on.
onwards(L, k) == {L[j] : j \in k .. Len(L)}

\* A walk is at an entry of the list and has to visit it and what follows.
Walk(L) ==
    IF cur = NULL THEN todo = {}
    ELSE \E k \in 1 .. Len(L) : cur = L[k] /\ todo = onwards(L, k)

LinksInv == \E L, F : Holds(L, F) /\ Walk(L)

stored == [list |-> Linked(head), free |-> Linked(free)]

LEMMA ShortEnough ==
  ASSUME NEW L, NEW F, Holds(L, F)
  PROVE  Len(L) \in Nat /\ Len(F) \in Nat /\ Len(L) <= MaxEntries /\ Len(F) <= MaxEntries
<1>1. Len(L) \in Nat /\ Len(F) \in Nat
  BY HoldsFacts
<1> QED BY <1>1, LLPoolAssumption DEF Holds

\* The lists are those that Linked finds, in a state and after a step.
LEMMA ListsAreLinked ==
  ASSUME NEW L, NEW F, Holds(L, F)
  PROVE  Linked(head) = L /\ Linked(free) = F
<1>1. next \in Links /\ IsPath(next, L, head) /\ IsPath(next, F, free)
  BY DEF Holds
<1>2. via(next, head) = L /\ via(next, free) = F
  BY <1>1, ShortEnough, PathIsLinked
<1>3. Linked(head) = via(next, head) /\ Linked(free) = via(next, free)
  BY DEF Linked, via
<1> QED BY <1>2, <1>3

LEMMA ListsAreLinkedNext ==
  ASSUME NEW L, NEW F, Holds(L, F)',
         L \in Seq(Entries), F \in Seq(Entries)
  PROVE  stored' = [list |-> L, free |-> F]
<1>1. next' \in Links /\ IsPath(next', L, head') /\ IsPath(next', F, free')
      /\ made' = Len(L) + Len(F) /\ made' <= MaxEntries
  BY DEF Holds
<1>2. Len(L) <= MaxEntries /\ Len(F) <= MaxEntries
  <2>1. Len(L) \in Nat /\ Len(F) \in Nat
    OBVIOUS
  <2> QED BY <2>1, <1>1, LLPoolAssumption
<1>3. via(next', head') = L /\ via(next', free') = F
  BY <1>1, <1>2, PathIsLinked
<1>4. Linked(head)' = via(next', head') /\ Linked(free)' = via(next', free')
  BY DEF Linked, via
<1> QED BY <1>3, <1>4 DEF stored

\* The entries linked from a place in the list are those from there on.
LEMMA RestIsLinked ==
  ASSUME NEW L, NEW F, Holds(L, F), NEW k \in 1 .. Len(L)
  PROVE  Range(Linked(L[k])) = onwards(L, k)
<1> DEFINE t == [i \in 1 .. (Len(L) - k) + 1 |-> L[(k - 1) + i]]
<1>1. /\ L \in Seq(Entries) /\ Len(L) \in Nat /\ Len(L) <= MaxEntries
      /\ \A i \in 1 .. Len(L) : next[L[i]] = IF i < Len(L) THEN L[i + 1] ELSE NULL
  BY HoldsFacts, ShortEnough
<1>2. /\ t \in Seq(Entries) /\ Len(t) = (Len(L) - k) + 1
      /\ \A i \in 1 .. Len(t) : t[i] = L[(k - 1) + i]
  <2>1. (Len(L) - k) + 1 \in Nat
    BY <1>1
  <2>2. \A i \in 1 .. (Len(L) - k) + 1 : L[(k - 1) + i] \in Entries
    <3>1. \A i \in 1 .. (Len(L) - k) + 1 : (k - 1) + i \in 1 .. Len(L)
      BY <1>1
    <3>2. \A i \in 1 .. Len(L) : L[i] \in Entries
      BY <1>1
    <3> QED BY <3>1, <3>2
  <2>3. t \in Seq(Entries) /\ Len(t) = (Len(L) - k) + 1
    BY <2>1, <2>2
  <2> QED BY <2>3
<1> HIDE DEF t
<1>3. ASSUME NEW i \in 1 .. Len(t)
      PROVE  next[t[i]] = IF i < Len(t) THEN t[i + 1] ELSE NULL
  <2>1. (k - 1) + i \in 1 .. Len(L) /\ ((k - 1) + i < Len(L) <=> i < Len(t))
        /\ ((k - 1) + i) + 1 = (k - 1) + (i + 1)
    BY <1>1, <1>2
  <2>2. i < Len(t) => i + 1 \in 1 .. Len(t)
    BY <1>1, <1>2
  <2> QED BY <2>1, <2>2, <1>1, <1>2
<1>4. t # << >> /\ t[1] = L[k] /\ Len(t) <= MaxEntries
  <2>1. 1 \in 1 .. Len(t) /\ (k - 1) + 1 = k
    BY <1>1, <1>2
  <2> QED BY <2>1, <1>1, <1>2, LLPoolAssumption
<1>5. IsPath(next, t, L[k]) /\ next \in Links
  BY <1>2, <1>3, <1>4 DEF IsPath, Holds
<1>6. via(next, L[k]) = t
  BY <1>4, <1>5, PathIsLinked
<1>7. Linked(L[k]) = t
  BY <1>6 DEF Linked, via
<1>8. ASSUME NEW x PROVE x \in Range(t) <=> x \in onwards(L, k)
  <2>1. x \in Range(t) <=> \E i \in 1 .. Len(t) : t[i] = x
    BY <1>2, RangeOfList
  <2>2. \A i \in 1 .. Len(t) : (k - 1) + i \in k .. Len(L)
    BY <1>1, <1>2
  <2>3. \A j \in k .. Len(L) : (j - k) + 1 \in 1 .. Len(t) /\ (k - 1) + ((j - k) + 1) = j
    BY <1>1, <1>2
  <2>4. x \in onwards(L, k) <=> \E j \in k .. Len(L) : L[j] = x
    BY DEF onwards
  <2>5. ASSUME NEW i \in 1 .. Len(t), t[i] = x PROVE \E j \in k .. Len(L) : L[j] = x
    BY <2>2, <2>5, <1>2
  <2>6. ASSUME NEW j \in k .. Len(L), L[j] = x PROVE \E i \in 1 .. Len(t) : t[i] = x
    BY <2>3, <2>6, <1>2
  <2> QED BY <2>1, <2>4, <2>5, <2>6
<1> QED BY <1>7, <1>8

\* Walking on: the place k is left.
LEMMA WalkingOn ==
  ASSUME NEW T, NEW L \in Seq(T), Distinct(L), NEW k \in 1 .. Len(L)
  PROVE  /\ onwards(L, k) \ {L[k]} = onwards(L, k + 1)
         /\ k = Len(L) => onwards(L, k + 1) = {}
         /\ k < Len(L) => k + 1 \in 1 .. Len(L)
<1>1. ASSUME NEW x PROVE x \in onwards(L, k) \ {L[k]} <=> x \in onwards(L, k + 1)
  <2>1. \A j \in k .. Len(L) : j \in 1 .. Len(L) /\ (j = k \/ j \in k + 1 .. Len(L))
    OBVIOUS
  <2>2. \A j \in k + 1 .. Len(L) : j \in k .. Len(L) /\ j \in 1 .. Len(L) /\ j # k
    OBVIOUS
  <2> QED BY <2>1, <2>2 DEF onwards, Distinct
<1>2. k = Len(L) => k + 1 .. Len(L) = {}
  OBVIOUS
<1>3. k < Len(L) => k + 1 \in 1 .. Len(L)
  OBVIOUS
<1>4. k = Len(L) => onwards(L, k + 1) = {}
  BY <1>2 DEF onwards
<1>5. onwards(L, k) \ {L[k]} = onwards(L, k + 1)
  BY <1>1
<1> QED BY <1>3, <1>4, <1>5

LEMMA InitLinks == LinksInit => LinksInv /\ stored = newLLPool
<1> SUFFICES ASSUME LinksInit PROVE LinksInv /\ stored = newLLPool
  OBVIOUS
<1>1. /\ next \in Links /\ prev \in Links /\ head = NULL /\ free = NULL
      /\ numEntries = 0 /\ made = 0 /\ cur = NULL /\ todo = {}
  BY DEF LinksInit, Links
<1>2. PICK E : E = << >>
  OBVIOUS
<1>3. E \in Seq(Entries) /\ Len(E) = 0 /\ 1 .. 0 = {} /\ 2 .. 0 = {}
  BY <1>2
<1>4. SoundPool([list |-> E, free |-> E])
  BY <1>2, NewPoolIsSound DEF newLLPool
<1>5. IsPath(next, E, head) /\ IsPath(next, E, free) /\ IsBack(prev, E)
  BY <1>1, <1>2, <1>3 DEF IsPath, IsBack
<1>6. Holds(E, E)
  BY <1>1, <1>2, <1>3, <1>4, <1>5, LLPoolAssumption DEF Holds
<1>7. Walk(E)
  BY <1>1 DEF Walk
<1>8. Linked(head) = E /\ Linked(free) = E
  BY <1>6, ListsAreLinked
<1> QED BY <1>2, <1>6, <1>7, <1>8 DEF LinksInv, stored, newLLPool

\* LLPoolAddItem: a walk goes on with the entries it had to visit.
LEMMA AddItemStep ==
  ASSUME NEW L, NEW F, Holds(L, F), Walk(L), AddItem
  PROVE  LinksInv' /\ stored' = LLPoolAddItem(stored)
<1>1. PICK pool : pool = LLPoolAddItem([list |-> L, free |-> F])
  OBVIOUS
<1>2. /\ Holds(pool.list, pool.free)'
      /\ pool.list \in Seq(Entries) /\ Len(pool.list) = Len(L) + 1
      /\ \A i \in 1 .. Len(L) : pool.list[i + 1] = L[i]
  BY <1>1, AddsInFront
<1>3. Len(L) \in Nat
  BY ShortEnough
<1>4. cur' = cur /\ todo' = todo
  BY DEF AddItem
<1>5. ASSUME NEW k \in 1 .. Len(L)
      PROVE  /\ k + 1 \in 1 .. Len(pool.list) /\ pool.list[k + 1] = L[k]
             /\ onwards(pool.list, k + 1) = onwards(L, k)
  <2>1. \A j \in k .. Len(L) : j \in 1 .. Len(L) /\ j + 1 \in k + 1 .. Len(pool.list)
    BY <1>2, <1>3
  <2>2. \A j \in k + 1 .. Len(pool.list) : j - 1 \in k .. Len(L) /\ (j - 1) + 1 = j
    BY <1>2, <1>3
  <2>3. ASSUME NEW x PROVE x \in onwards(pool.list, k + 1) <=> x \in onwards(L, k)
    <3>1. ASSUME NEW j \in k .. Len(L), x = L[j]
          PROVE  \E i \in k + 1 .. Len(pool.list) : x = pool.list[i]
      BY <2>1, <3>1, <1>2
    <3>2. ASSUME NEW j \in k + 1 .. Len(pool.list), x = pool.list[j]
          PROVE  \E i \in k .. Len(L) : x = L[i]
      BY <2>1, <2>2, <3>2, <1>2
    <3> QED BY <3>1, <3>2 DEF onwards
  <2>4. k + 1 \in 1 .. Len(pool.list) /\ pool.list[k + 1] = L[k]
    BY <1>2, <1>3
  <2> QED BY <2>3, <2>4
<1>6. Walk(pool.list)'
  BY <1>4, <1>5 DEF Walk
<1>7. pool.free \in Seq(Entries)
  BY <1>2 DEF Holds, IsPath
<1>8. stored' = [list |-> pool.list, free |-> pool.free]
  BY <1>2, <1>7, ListsAreLinkedNext
<1>9. stored = [list |-> L, free |-> F]
  BY ListsAreLinked DEF stored
<1>10. stored' = pool
  BY <1>1, <1>8 DEF LLPoolAddItem
<1> QED BY <1>1, <1>2, <1>6, <1>9, <1>10 DEF LinksInv

\* What a removal does, whoever asks for it.
LEMMA UnlinkedStep ==
  ASSUME NEW L, NEW F, Holds(L, F), NEW k \in 1 .. Len(L), unlinked(L[k]),
         NEW pool, pool = LLPoolRemoveEntry([list |-> L, free |-> F], L[k])
  PROVE  /\ Holds(pool.list, pool.free)'
         /\ pool.list \in Seq(Entries) /\ Len(pool.list) = Len(L) - 1
         /\ \A i \in 1 .. Len(L) - 1 : pool.list[i] = L[skip(k, i)]
         /\ stored' = LLPoolRemoveEntry(stored, L[k]) /\ stored.list = L
<1>1. /\ Holds(pool.list, pool.free)'
      /\ pool.list \in Seq(Entries) /\ Len(pool.list) = Len(L) - 1
      /\ \A i \in 1 .. Len(L) - 1 : pool.list[i] = L[skip(k, i)]
  BY RemovesOne
<1>2. pool.free \in Seq(Entries)
  BY <1>1 DEF Holds, IsPath
<1>3. stored' = [list |-> pool.list, free |-> pool.free]
  BY <1>1, <1>2, ListsAreLinkedNext
<1>4. stored = [list |-> L, free |-> F]
  BY ListsAreLinked DEF stored
<1>5. stored' = pool
  BY <1>3 DEF LLPoolRemoveEntry
<1> QED BY <1>1, <1>4, <1>5

\* LLPoolRemoveEntry, outside of a walk.
LEMMA RemoveEntryStep ==
  ASSUME NEW L, NEW F, Holds(L, F), Walk(L), RemoveEntry
  PROVE  LinksInv' /\ \E i \in DOMAIN stored.list : stored' = LLPoolRemoveEntry(stored, stored.list[i])
<1>1. PICK e \in InUse : unlinked(e)
  BY DEF RemoveEntry
<1>2. L \in Seq(Entries) /\ Linked(head) = L
  BY HoldsFacts, ListsAreLinked
<1>3. PICK k \in 1 .. Len(L) : L[k] = e
  BY <1>2, RangeOfList DEF InUse
<1>4. PICK pool : pool = LLPoolRemoveEntry([list |-> L, free |-> F], L[k])
  OBVIOUS
<1>5. /\ Holds(pool.list, pool.free)'
      /\ stored' = LLPoolRemoveEntry(stored, L[k]) /\ stored.list = L
  BY <1>1, <1>3, <1>4, UnlinkedStep
<1>6. cur' = NULL /\ todo' = {}
  BY DEF RemoveEntry, Walk
<1>7. Walk(pool.list)'
  BY <1>6 DEF Walk
<1>8. k \in DOMAIN stored.list
  BY <1>2, <1>5
<1> QED BY <1>5, <1>7, <1>8 DEF LinksInv

\* The body of a walk removes the entry it is at; the walk goes on with the one
\* that followed it.
LEMMA RemoveCurrentStep ==
  ASSUME NEW L, NEW F, Holds(L, F), Walk(L), RemoveCurrent
  PROVE  LinksInv' /\ \E i \in DOMAIN stored.list : stored' = LLPoolRemoveEntry(stored, stored.list[i])
<1>1. PICK k \in 1 .. Len(L) : cur = L[k] /\ todo = onwards(L, k)
  BY DEF RemoveCurrent, Walk
<1>2. /\ L \in Seq(Entries) /\ Distinct(L) /\ Len(L) \in Nat
      /\ \A i \in 1 .. Len(L) : L[i] \in Entries /\ L[i] # NULL
      /\ \A i \in 1 .. Len(L) : next[L[i]] = IF i < Len(L) THEN L[i + 1] ELSE NULL
  BY HoldsFacts
<1>3. unlinked(L[k]) /\ cur' = next[L[k]] /\ todo' = todo \ {L[k]}
  BY <1>1 DEF RemoveCurrent, following
<1>4. PICK pool : pool = LLPoolRemoveEntry([list |-> L, free |-> F], L[k])
  OBVIOUS
<1>5. /\ Holds(pool.list, pool.free)'
      /\ pool.list \in Seq(Entries) /\ Len(pool.list) = Len(L) - 1
      /\ \A i \in 1 .. Len(L) - 1 : pool.list[i] = L[skip(k, i)]
      /\ stored' = LLPoolRemoveEntry(stored, L[k]) /\ stored.list = L
  BY <1>3, <1>4, UnlinkedStep
<1>6. /\ todo' = onwards(L, k + 1)
      /\ k = Len(L) => onwards(L, k + 1) = {}
      /\ k < Len(L) => k + 1 \in 1 .. Len(L)
  BY <1>1, <1>2, <1>3, WalkingOn
<1>7. CASE k = Len(L)
  <2>1. cur' = NULL /\ todo' = {}
    BY <1>2, <1>3, <1>6, <1>7
  <2>2. Walk(pool.list)'
    BY <2>1 DEF Walk
  <2> QED BY <2>2, <1>2, <1>5 DEF LinksInv
<1>8. CASE k < Len(L)
  <2>1. /\ k \in 1 .. Len(pool.list) /\ pool.list[k] = L[k + 1] /\ cur' = L[k + 1] /\ cur' # NULL
    <3>1. k \in 1 .. Len(L) - 1 /\ skip(k, k) = k + 1
      BY <1>2, <1>8 DEF skip
    <3> QED BY <3>1, <1>2, <1>3, <1>5, <1>6, <1>8
  <2>2. ASSUME NEW x PROVE x \in onwards(pool.list, k) <=> x \in onwards(L, k + 1)
    <3>1. \A j \in k .. Len(pool.list) : /\ j \in 1 .. Len(L) - 1 /\ skip(k, j) = j + 1
                                         /\ j + 1 \in k + 1 .. Len(L)
      BY <1>2, <1>5 DEF skip
    <3>2. \A j \in k + 1 .. Len(L) : j - 1 \in k .. Len(pool.list) /\ (j - 1) + 1 = j
      BY <1>2, <1>5
    <3>3. ASSUME NEW j \in k .. Len(pool.list), x = pool.list[j]
          PROVE  \E i \in k + 1 .. Len(L) : x = L[i]
      BY <3>1, <3>3, <1>5
    <3>4. ASSUME NEW j \in k + 1 .. Len(L), x = L[j]
          PROVE  \E i \in k .. Len(pool.list) : x = pool.list[i]
      <4>1. pool.list[j - 1] = L[skip(k, j - 1)] /\ skip(k, j - 1) = j
        BY <3>1, <3>2, <1>5
      <4> QED BY <3>2, <3>4, <4>1
    <3> QED BY <3>3, <3>4 DEF onwards
  <2>3. todo' = onwards(pool.list, k)
    BY <2>2, <1>6
  <2>4. Walk(pool.list)'
    BY <2>1, <2>3 DEF Walk
  <2> QED BY <2>4, <1>2, <1>5 DEF LinksInv
<1> QED BY <1>2, <1>7, <1>8

\* The steps of a walk that change nothing.
LEMMA WalkStep ==
  ASSUME NEW L, NEW F, Holds(L, F), Walk(L),
         StartWalk \/ Keep \/ UNCHANGED links
  PROVE  LinksInv' /\ stored' = stored
<1>1. UNCHANGED <<head, free, next, prev, numEntries, made>>
  BY DEF StartWalk, Keep, links
<1>2. Holds(L, F)'
  BY <1>1 DEF Holds
<1>3. /\ L \in Seq(Entries) /\ Distinct(L) /\ Len(L) \in Nat /\ Linked(head) = L
      /\ \A i \in 1 .. Len(L) : L[i] \in Entries /\ L[i] # NULL
      /\ \A i \in 1 .. Len(L) : next[L[i]] = IF i < Len(L) THEN L[i + 1] ELSE NULL
      /\ head = IF Len(L) = 0 THEN NULL ELSE L[1]
  BY HoldsFacts, ListsAreLinked
<1>4. ASSUME StartWalk PROVE Walk(L)'
  <2>1. cur' = head /\ todo' = Range(L)
    BY <1>3, <1>4 DEF StartWalk, InUse
  <2>2. ASSUME NEW x PROVE x \in Range(L) <=> x \in onwards(L, 1)
    BY <1>3, RangeOfList DEF onwards
  <2>3. Len(L) # 0 => 1 \in 1 .. Len(L)
    BY <1>3
  <2>4. Len(L) = 0 => onwards(L, 1) = {}
    <3>1. Len(L) = 0 => 1 .. Len(L) = {}
      BY <1>3
    <3> QED BY <3>1 DEF onwards
  <2>5. CASE Len(L) = 0
    BY <2>1, <2>2, <2>4, <2>5, <1>3 DEF Walk
  <2>6. CASE Len(L) # 0
    <3>1. 1 \in 1 .. Len(L) /\ cur' = L[1] /\ cur' # NULL /\ todo' = onwards(L, 1)
      BY <2>1, <2>2, <2>3, <2>6, <1>3
    <3> QED BY <3>1 DEF Walk
  <2> QED BY <2>5, <2>6
<1>5. ASSUME Keep PROVE Walk(L)'
  <2>1. PICK k \in 1 .. Len(L) : cur = L[k] /\ todo = onwards(L, k)
    BY <1>5 DEF Keep, Walk
  <2>2. cur' = next[L[k]] /\ todo' = todo \ {L[k]}
    BY <1>5, <2>1 DEF Keep, following
  <2>3. /\ todo' = onwards(L, k + 1)
        /\ k = Len(L) => onwards(L, k + 1) = {}
        /\ k < Len(L) => k + 1 \in 1 .. Len(L)
    BY <1>3, <2>1, <2>2, WalkingOn
  <2> QED BY <2>2, <2>3, <1>3 DEF Walk
<1>6. ASSUME UNCHANGED links PROVE Walk(L)'
  BY <1>6 DEF links, Walk
<1>7. stored' = stored
  BY <1>1 DEF stored, Linked
<1>8. Walk(L)'
  BY <1>4, <1>5, <1>6
<1> QED BY <1>2, <1>7, <1>8 DEF LinksInv

LEMMA LinksInvStep ==
  LinksInv /\ [LinksNext]_links =>
      LinksInv' /\ (\/ stored' = LLPoolAddItem(stored)
                    \/ \E i \in DOMAIN stored.list :
                          stored' = LLPoolRemoveEntry(stored, stored.list[i])
                    \/ stored' = stored)
<1> SUFFICES ASSUME LinksInv, [LinksNext]_links
             PROVE  LinksInv' /\ (\/ stored' = LLPoolAddItem(stored)
                                  \/ \E i \in DOMAIN stored.list :
                                        stored' = LLPoolRemoveEntry(stored, stored.list[i])
                                  \/ stored' = stored)
  OBVIOUS
<1>1. PICK L, F : Holds(L, F) /\ Walk(L)
  BY DEF LinksInv
<1>2. CASE AddItem
  BY <1>1, <1>2, AddItemStep
<1>3. CASE RemoveEntry
  BY <1>1, <1>3, RemoveEntryStep
<1>4. CASE RemoveCurrent
  BY <1>1, <1>4, RemoveCurrentStep
<1>5. CASE StartWalk \/ Keep \/ UNCHANGED links
  BY <1>1, <1>5, WalkStep
<1> QED BY <1>2, <1>3, <1>4, <1>5 DEF LinksNext

\* LinksInv gives what the users of a pool rely on.
LEMMA LinksAreSound == LinksInv => PoolIsSound
<1> SUFFICES ASSUME LinksInv PROVE PoolIsSound
  OBVIOUS
<1>1. PICK L, F : Holds(L, F) /\ Walk(L)
  BY DEF LinksInv
<1>2. /\ L \in Seq(Entries) /\ F \in Seq(Entries) /\ Len(L) \in Nat /\ Len(F) \in Nat
      /\ \A i \in 1 .. Len(L) : L[i] \in Entries /\ L[i] # NULL
      /\ L = << >> <=> Len(L) = 0
      /\ head = IF Len(L) = 0 THEN NULL ELSE L[1]
      /\ \A i \in 1 .. Len(L) : next[L[i]] = IF i < Len(L) THEN L[i + 1] ELSE NULL
      /\ \A i \in 1 .. Len(F) : next[F[i]] = IF i < Len(F) THEN F[i + 1] ELSE NULL
  BY <1>1, HoldsFacts
<1>3. Linked(head) = L /\ Linked(free) = F
  BY <1>1, ListsAreLinked
<1>4. IsBack(prev, L) /\ IsBack(prev, F)
  BY <1>1 DEF Holds
<1>5. ASSUME NEW i \in 1 .. Len(L), next[L[i]] # NULL PROVE prev[next[L[i]]] = L[i]
  <2>1. i < Len(L) /\ next[L[i]] = L[i + 1] /\ i + 1 \in 2 .. Len(L) /\ (i + 1) - 1 = i
    BY <1>2, <1>5
  <2> QED BY <2>1, <1>4 DEF IsBack
<1>6. ASSUME NEW i \in 1 .. Len(F), next[F[i]] # NULL PROVE prev[next[F[i]]] = F[i]
  <2>1. i < Len(F) /\ next[F[i]] = F[i + 1] /\ i + 1 \in 2 .. Len(F) /\ (i + 1) - 1 = i
    BY <1>2, <1>6
  <2> QED BY <2>1, <1>4 DEF IsBack
<1>7. \A first \in {head, free} : \A e \in Range(Linked(first)) :
          next[e] # NULL => prev[next[e]] = e
  <2>1. ASSUME NEW e \in Range(L), next[e] # NULL PROVE prev[next[e]] = e
    BY <1>2, <1>5, <2>1, RangeOfList
  <2>2. ASSUME NEW e \in Range(F), next[e] # NULL PROVE prev[next[e]] = e
    BY <1>2, <1>6, <2>2, RangeOfList
  <2> QED BY <2>1, <2>2, <1>3
<1>8. ListsAreSound
  <2>1. Range(L) \cap Range(F) = {}
    BY <1>1 DEF Holds, SoundPool
  <2>2. head # NULL => prev[head] = NULL
    BY <1>1, <1>2 DEF Holds
  <2>3. numEntries = Len(L) /\ made = numEntries + Len(F)
    BY <1>1 DEF Holds
  <2> QED BY <2>1, <2>2, <2>3, <1>3, <1>7 DEF ListsAreSound, InUse
<1>9. WalkVisitsAll
  BY <1>1, <1>2, RestIsLinked DEF Walk, WalkVisitsAll
<1> QED BY <1>8, <1>9 DEF PoolIsSound

-----------------------------------------------------------------------------
(* The theorems.                                                           *)

\* However many entries a pool has, in whatever order they are added, removed
\* and used again, and whatever the body of a walk removes: list and free list
\* are disjoint and linked both ways, numEntries is the length of the list, and
\* a walk visits every entry that was there when it began and is never at one
\* that was removed.
THEOREM PoolsAreSound == LinksSpec => []PoolIsSound
<1>1. LinksInit => LinksInv
  BY InitLinks
<1>2. LinksInv /\ [LinksNext]_links => LinksInv'
  BY LinksInvStep
<1>3. LinksInv => PoolIsSound
  BY LinksAreSound
<1> QED BY <1>1, <1>2, <1>3, PTL DEF LinksSpec

\* Linked entries are a list: LLPoolAddItem puts one in front, LLPoolRemoveEntry
\* takes one out and leaves the others in their order, and nothing else changes it.
THEOREM LinksAreLists == LinksSpec => ImplementsPool
<1>1. LinksInit => LinksInv /\ P!Init
  BY InitLinks DEF stored, P!Init, newLLPool, P!newLLPool
<1>2. LinksInv /\ [LinksNext]_links => LinksInv' /\ [P!Add \/ P!RemoveAny]_stored
  <2> SUFFICES ASSUME LinksInv, [LinksNext]_links
               PROVE  LinksInv' /\ [P!Add \/ P!RemoveAny]_stored
    OBVIOUS
  <2>1. CASE stored' = LLPoolAddItem(stored)
    BY <2>1, LinksInvStep DEF stored, P!Add, LLPoolAddItem, P!LLPoolAddItem, NextEntry, P!NextEntry
  <2>2. CASE \E i \in DOMAIN stored.list : stored' = LLPoolRemoveEntry(stored, stored.list[i])
    <3>1. \A list, S : P!Only(list, S) = Only(list, S)
      BY DEF Only, P!Only
    <3>2. \A list, S : P!Without(list, S) = Without(list, S)
      BY <3>1 DEF Without, P!Without, Range, P!Range
    <3>3. \A pool, e : P!LLPoolRemoveEntry(pool, e) = LLPoolRemoveEntry(pool, e)
      BY <3>2 DEF LLPoolRemoveEntry, P!LLPoolRemoveEntry
    <3>4. P!RemoveAny
      BY <2>2, <3>3 DEF stored, P!RemoveAny
    <3> QED BY <3>4, LinksInvStep
  <2>3. CASE stored' = stored
    BY <2>3, LinksInvStep
  <2> QED BY <2>1, <2>2, <2>3, LinksInvStep
<1> QED BY <1>1, <1>2, PTL DEF LinksSpec, ImplementsPool, P!Spec, stored

-----------------------------------------------------------------------------
(* The lines of a stream.                                                  *)

Byte == {"c", "\n"}
Made == [line : Seq(Byte), lines : Seq(Seq(Byte))]

\* What the first n bytes make follows from what the first n - 1 made.
LEMMA MadeStep ==
  ASSUME NEW bytes, Len(bytes) \in Nat
  PROVE  /\ madeOf(bytes)[0] = [line |-> << >>, lines |-> << >>]
         /\ \A n \in 1 .. Len(bytes) : madeOf(bytes)[n] = put(madeOf(bytes)[n - 1], bytes[n])
<1> DEFINE row(g, i) == IF i = 0 THEN [line |-> << >>, lines |-> << >>] ELSE put(g[i - 1], bytes[i])
           steps(g, m) == [i \in 0 .. m |-> row(g, i)]
           n == Len(bytes)
           Bad == {m \in 0 .. n : ~\E g : g = steps(g, m)}
<1>1. Bad = {}
  <2> SUFFICES ASSUME Bad # {} PROVE FALSE
    OBVIOUS
  <2>1. PICK m \in Bad : \A k \in Bad : m <= k
    <3>1. Bad \in SUBSET Nat
      OBVIOUS
    <3> HIDE DEF Bad
    <3> QED BY <3>1, LeastNatural
  <2>2. m \in 0 .. n
    OBVIOUS
  <2>3. m # 0
    <3> DEFINE h == [i \in 0 .. 0 |-> [line |-> << >>, lines |-> << >>]]
    <3>1. h = steps(h, 0)
      OBVIOUS
    <3> HIDE DEF h
    <3>2. 0 \notin Bad
      BY <3>1
    <3> QED BY <3>2
  <2>4. PICK g : g = steps(g, m - 1)
    <3>1. m - 1 \in 0 .. n /\ m - 1 \notin Bad
      <4>1. m - 1 \in 0 .. n /\ ~(m <= m - 1)
        BY <2>2, <2>3
      <4> HIDE DEF Bad
      <4> QED BY <4>1, <2>1
    <3> HIDE DEF steps
    <3> QED BY <3>1
  <2> HIDE DEF n
  <2> DEFINE h == [i \in 0 .. m |-> IF i = m THEN row(g, m) ELSE g[i]]
  <2>5. \A i \in 0 .. m - 1 : g[i] = row(g, i)
    BY <2>4
  <2>6. \A i \in 0 .. m : i # 0 => h[i - 1] = g[i - 1]
    BY <2>2
  <2>7. h = [i \in 0 .. m |-> h[i]]
    OBVIOUS
  <2>8. ASSUME NEW i \in 0 .. m PROVE h[i] = row(h, i)
    <3>1. row(h, i) = row(g, i)
      BY <2>6
    <3>2. CASE i = m
      BY <3>1, <3>2
    <3>3. CASE i # m
      <4>1. i \in 0 .. m - 1 /\ h[i] = g[i]
        BY <3>3, <2>2
      <4> QED BY <4>1, <3>1, <2>5
    <3> QED BY <3>2, <3>3
  <2> HIDE DEF h
  <2>9. h = steps(h, m)
    BY <2>7, <2>8
  <2> HIDE DEF steps
  <2> QED BY <2>9 DEF n
<1>2. \E g : g = steps(g, n)
  <2>1. n \in 0 .. n /\ n \notin Bad
    BY <1>1
  <2> HIDE DEF steps
  <2> QED BY <2>1
<1> DEFINE of == CHOOSE g : g = steps(g, n)
<1>3. of = steps(of, n)
  BY <1>2
<1>4. madeOf(bytes) = of
  BY DEF madeOf
<1> HIDE DEF of
<1>5. \A i \in 0 .. n : of[i] = row(of, i)
  BY <1>3
<1> QED BY <1>4, <1>5

LEMMA PutIsTyped ==
  ASSUME NEW m \in Made, NEW b \in Byte
  PROVE  /\ put(m, b) \in Made
         /\ Len(m.line) < maxLen => Len(put(m, b).line) < maxLen
         /\ Append(m.line, b) \in Seq(Byte) /\ Len(Append(m.line, b)) = Len(m.line) + 1
         /\ b = "\n" \/ isFull(Append(m.line, b)) =>
               put(m, b).line = << >> /\ put(m, b).lines = Append(m.lines, Append(m.line, b))
         /\ ~(b = "\n" \/ isFull(Append(m.line, b))) =>
               put(m, b).line = Append(m.line, b) /\ put(m, b).lines = m.lines
<1> DEFINE l == Append(m.line, b)
<1>1. /\ m.line \in Seq(Byte) /\ m.lines \in Seq(Seq(Byte)) /\ l \in Seq(Byte)
      /\ Len(l) = Len(m.line) + 1 /\ Len(m.line) \in Nat
      /\ m = [line |-> m.line, lines |-> m.lines]
  BY DEF Made
<1>2. put(m, b) = IF b = "\n" \/ isFull(l) THEN [line |-> << >>, lines |-> Append(m.lines, l)]
                  ELSE [m EXCEPT !.line = l]
  BY DEF put
<1> HIDE DEF l
<1>3. << >> \in Seq(Byte) /\ Append(m.lines, l) \in Seq(Seq(Byte)) /\ Len(<< >>) = 0
  BY <1>1
<1>4. CASE b = "\n" \/ isFull(l)
  <2>1. put(m, b) = [line |-> << >>, lines |-> Append(m.lines, l)]
    BY <1>2, <1>4
  <2>2. 0 < maxLen /\ maxLen \in Nat
    BY GetLineAssumption
  <2> QED BY <2>1, <2>2, <1>1, <1>3, <1>4 DEF Made, l
<1>5. CASE ~(b = "\n" \/ isFull(l))
  <2>1. put(m, b) = [line |-> l, lines |-> m.lines]
    BY <1>1, <1>2, <1>5
  <2>2. Len(m.line) < maxLen => Len(l) < maxLen
    BY <1>1, <1>5, GetLineAssumption DEF isFull
  <2> QED BY <2>1, <2>2, <1>1, <1>5 DEF Made, l
<1> QED BY <1>4, <1>5

LEMMA MadeIsTyped ==
  ASSUME NEW bytes \in Seq(Byte)
  PROVE  \A n \in 0 .. Len(bytes) :
            madeOf(bytes)[n] \in Made /\ Len(madeOf(bytes)[n].line) < maxLen
<1> DEFINE Good(n) == madeOf(bytes)[n] \in Made /\ Len(madeOf(bytes)[n].line) < maxLen
           Bad == {n \in 0 .. Len(bytes) : ~Good(n)}
<1>1. Len(bytes) \in Nat /\ \A n \in 1 .. Len(bytes) : bytes[n] \in Byte
  OBVIOUS
<1> SUFFICES ASSUME Bad # {} PROVE FALSE
  OBVIOUS
<1>2. PICK m \in Bad : \A k \in Bad : m <= k
  <2>1. Bad \in SUBSET Nat
    BY <1>1
  <2> HIDE DEF Bad
  <2> QED BY <2>1, LeastNatural
<1>3. m \in 0 .. Len(bytes) /\ ~Good(m)
  BY <1>2
<1>4. Good(0)
  <2>1. madeOf(bytes)[0] = [line |-> << >>, lines |-> << >>]
    BY <1>1, MadeStep
  <2>2. << >> \in Seq(Byte) /\ << >> \in Seq(Seq(Byte)) /\ Len(<< >>) < maxLen
    BY GetLineAssumption
  <2> QED BY <2>1, <2>2 DEF Made
<1>5. m # 0
  BY <1>3, <1>4
<1>6. m - 1 \in 0 .. Len(bytes) /\ ~(m <= m - 1) /\ m \in 1 .. Len(bytes)
  BY <1>1, <1>3, <1>5
<1>7. Good(m - 1)
  <2>1. m - 1 \notin Bad
    <3> HIDE DEF Bad
    <3> QED BY <1>2, <1>6
  <2> QED BY <2>1, <1>6
<1>8. madeOf(bytes)[m] = put(madeOf(bytes)[m - 1], bytes[m])
  BY <1>1, <1>6, MadeStep
<1>9. Good(m)
  BY <1>1, <1>6, <1>7, <1>8, PutIsTyped
<1> QED BY <1>3, <1>9

\* A line that was made stays.
LEMMA MadeGrows ==
  ASSUME NEW bytes \in Seq(Byte), NEW n \in 0 .. Len(bytes), NEW m \in n .. Len(bytes)
  PROVE  /\ Len(madeOf(bytes)[n].lines) <= Len(madeOf(bytes)[m].lines)
         /\ \A i \in 1 .. Len(madeOf(bytes)[n].lines) :
               madeOf(bytes)[m].lines[i] = madeOf(bytes)[n].lines[i]
<1> DEFINE L(k) == madeOf(bytes)[k].lines
           Good(k) == Len(L(n)) <= Len(L(k)) /\ \A i \in 1 .. Len(L(n)) : L(k)[i] = L(n)[i]
           Bad == {k \in n .. Len(bytes) : ~Good(k)}
<1>1. Len(bytes) \in Nat /\ n \in Nat
  OBVIOUS
<1>2. \A k \in n .. Len(bytes) : L(k) \in Seq(Seq(Byte)) /\ Len(L(k)) \in Nat
  <2>1. ASSUME NEW k \in n .. Len(bytes) PROVE madeOf(bytes)[k] \in Made
    <3>1. k \in 0 .. Len(bytes)
      BY <1>1
    <3> QED BY <3>1, MadeIsTyped
  <2> QED BY <2>1 DEF Made
<1> SUFFICES ASSUME Bad # {} PROVE FALSE
  OBVIOUS
<1>3. PICK k \in Bad : \A j \in Bad : k <= j
  <2>1. Bad \in SUBSET Nat
    BY <1>1
  <2> HIDE DEF Bad
  <2> QED BY <2>1, LeastNatural
<1>4. k \in n .. Len(bytes) /\ ~Good(k)
  BY <1>3
<1>5. Good(n)
  BY <1>1, <1>2
<1>6. k - 1 \in n .. Len(bytes) /\ ~(k <= k - 1) /\ k \in 1 .. Len(bytes) /\ k - 1 \in 0 .. Len(bytes)
  <2>1. k # n
    BY <1>4, <1>5
  <2> QED BY <2>1, <1>1, <1>4
<1>7. Good(k - 1)
  <2>1. k - 1 \notin Bad
    <3> HIDE DEF Bad
    <3> QED BY <1>3, <1>6
  <2> QED BY <2>1, <1>6
<1>8. madeOf(bytes)[k - 1] \in Made /\ bytes[k] \in Byte
  BY <1>1, <1>6, MadeIsTyped
<1>9. madeOf(bytes)[k] = put(madeOf(bytes)[k - 1], bytes[k])
  BY <1>1, <1>6, MadeStep
<1>10. L(k) = L(k - 1) \/ \E x \in Seq(Byte) : L(k) = Append(L(k - 1), x)
  <2> DEFINE x == Append(madeOf(bytes)[k - 1].line, bytes[k])
  <2>1. x \in Seq(Byte) /\ (L(k) = L(k - 1) \/ L(k) = Append(L(k - 1), x))
    <3> DEFINE p == madeOf(bytes)[k - 1]
               b == bytes[k]
    <3>1. p \in Made /\ b \in Byte
      BY <1>8
    <3>2. madeOf(bytes)[k] = put(p, b)
      BY <1>9
    <3> HIDE DEF p, b
    <3>3. /\ Append(p.line, b) \in Seq(Byte)
          /\ put(p, b).lines = p.lines \/ put(p, b).lines = Append(p.lines, Append(p.line, b))
      BY <3>1, PutIsTyped
    <3> QED BY <3>2, <3>3 DEF p, b
  <2> HIDE DEF x, L
  <2> QED BY <2>1
<1>11. Good(k)
  <2> HIDE DEF L
  <2>1. /\ L(n) \in Seq(Seq(Byte)) /\ L(k) \in Seq(Seq(Byte)) /\ L(k - 1) \in Seq(Seq(Byte))
        /\ Len(L(n)) \in Nat /\ Len(L(k - 1)) \in Nat
    BY <1>1, <1>2, <1>4, <1>6
  <2>2. Len(L(k - 1)) <= Len(L(k)) /\ \A i \in 1 .. Len(L(k - 1)) : L(k)[i] = L(k - 1)[i]
    <3>1. CASE L(k) = L(k - 1)
      BY <3>1, <2>1
    <3>2. ASSUME NEW x \in Seq(Byte), L(k) = Append(L(k - 1), x)
          PROVE  Len(L(k - 1)) <= Len(L(k)) /\ \A i \in 1 .. Len(L(k - 1)) : L(k)[i] = L(k - 1)[i]
      <4> DEFINE a == L(k - 1)
      <4>1. a \in Seq(Seq(Byte)) /\ L(k) = Append(a, x)
        BY <2>1, <3>2
      <4> HIDE DEF a
      <4>2. Len(a) <= Len(Append(a, x)) /\ \A i \in 1 .. Len(a) : Append(a, x)[i] = a[i]
        BY <4>1
      <4> QED BY <4>1, <4>2 DEF a
    <3> QED BY <1>10, <3>1, <3>2
  <2> QED BY <1>7, <2>1, <2>2
<1> QED BY <1>4, <1>11

-----------------------------------------------------------------------------
(* The line reader.                                                        *)

EndsIn(t, s) == Len(s) <= Len(t) /\ \A i \in 1 .. Len(s) : s[i] = t[Len(t) - Len(s) + i]

LEMMA EndsInIsSuffix ==
  ASSUME NEW t \in Seq(Byte), NEW s \in Seq(Byte)
  PROVE  /\ EndsIn(t, s) => IsSuffix(s, t)
         /\ EndsIn(t, << >>) /\ EndsIn(t, t)
         /\ EndsIn(t, s) => \A b \in Byte : EndsIn(Append(t, b), Append(s, b))
<1>1. Len(s) \in Nat /\ Len(t) \in Nat
  OBVIOUS
<1>2. ASSUME EndsIn(t, s) PROVE IsSuffix(s, t)
  <2> DEFINE x == Reverse(s)
             y == Reverse(t)
  <2>1. /\ x = [i \in 1 .. Len(s) |-> s[Len(s) - i + 1]]
        /\ y = [i \in 1 .. Len(t) |-> t[Len(t) - i + 1]]
    BY DEF Reverse
  <2>2. x \in Seq(Byte) /\ y \in Seq(Byte) /\ Len(x) = Len(s) /\ Len(y) = Len(t)
    <3>1. ASSUME NEW r \in Seq(Byte)
          PROVE  LET z == [i \in 1 .. Len(r) |-> r[Len(r) - i + 1]]
                 IN z \in Seq(Byte) /\ Len(z) = Len(r)
      <4>1. \A i \in 1 .. Len(r) : r[Len(r) - i + 1] \in Byte
        OBVIOUS
      <4> QED BY <4>1
    <3> QED BY <3>1, <2>1
  <2>3. ASSUME NEW i \in 1 .. Len(s) PROVE x[i] = y[i]
    <3>1. Len(s) - i + 1 \in 1 .. Len(s) /\ Len(t) - Len(s) + (Len(s) - i + 1) = Len(t) - i + 1
          /\ i \in 1 .. Len(t)
      BY <1>1, <1>2 DEF EndsIn
    <3>2. s[Len(s) - i + 1] = t[Len(t) - i + 1]
      BY <1>2, <3>1 DEF EndsIn
    <3> QED BY <2>1, <3>1, <3>2
  <2> HIDE DEF x, y
  <2>4. Len(s) <= Len(t)
    BY <1>2 DEF EndsIn
  <2>5. SubSeq(x, 1, Len(x)) = SubSeq(y, 1, Len(x))
    <3>1. /\ SubSeq(x, 1, Len(x)) = [i \in 1 .. Len(s) |-> x[i]]
          /\ SubSeq(y, 1, Len(x)) = [i \in 1 .. Len(s) |-> y[i]]
      BY <1>1, <2>2, <2>4
    <3> QED BY <3>1, <2>3
  <2> QED BY <1>1, <2>2, <2>4, <2>5 DEF IsSuffix, IsPrefix, x, y
<1>3. EndsIn(t, << >>) /\ EndsIn(t, t)
  BY <1>1 DEF EndsIn
<1>4. ASSUME EndsIn(t, s), NEW b \in Byte PROVE EndsIn(Append(t, b), Append(s, b))
  <2>1. Len(Append(t, b)) = Len(t) + 1 /\ Len(Append(s, b)) = Len(s) + 1
    OBVIOUS
  <2>2. ASSUME NEW i \in 1 .. Len(s) + 1
        PROVE  Append(s, b)[i] = Append(t, b)[Len(t) + 1 - (Len(s) + 1) + i]
    <3>1. CASE i = Len(s) + 1
      <4>1. Append(s, b)[Len(s) + 1] = b /\ Append(t, b)[Len(t) + 1] = b
        OBVIOUS
      <4>2. Len(t) + 1 - (Len(s) + 1) + (Len(s) + 1) = Len(t) + 1
        BY <1>1
      <4> QED BY ONLY <3>1, <4>1, <4>2
    <3>2. CASE i \in 1 .. Len(s)
      <4>1. Len(t) - Len(s) + i \in 1 .. Len(t) /\ s[i] = t[Len(t) - Len(s) + i]
            /\ Len(t) + 1 - (Len(s) + 1) + i = Len(t) - Len(s) + i
        BY <1>1, <1>4, <3>2 DEF EndsIn
      <4> QED BY <4>1, <3>2
    <3>3. i = Len(s) + 1 \/ i \in 1 .. Len(s)
      BY <1>1
    <3> QED BY <3>1, <3>2, <3>3
  <2>3. /\ Len(Append(s, b)) <= Len(Append(t, b))
        /\ \A i \in 1 .. Len(Append(s, b)) :
              Append(s, b)[i] = Append(t, b)[Len(Append(t, b)) - Len(Append(s, b)) + i]
    <3>1. Len(s) <= Len(t)
      BY <1>4 DEF EndsIn
    <3>2. Len(s) + 1 <= Len(t) + 1
      BY <1>1, <3>1
    <3> QED BY ONLY <2>1, <2>2, <3>2
  <2> QED BY ONLY <2>3 DEF EndsIn
<1> QED BY <1>2, <1>3, <1>4

\* How much of the stream getLine has taken out of its buffer.
taken == Len(stream) - Len(unsent) - Len(wire) - Len(buf)

\* What was written is in the lines, in the buffer, on its way, or to come.
BytesInv ==
    /\ stream \in Seq(Byte) /\ unsent \in Seq(Byte) /\ wire \in Seq(Byte)
    /\ buf \in Seq(Byte) /\ line \in Seq(Byte) /\ lines \in Seq(Seq(Byte))
    /\ lost \in BOOLEAN /\ taken \in Nat
    /\ \A i \in 1 .. Len(buf) : buf[i] = stream[taken + i]
    /\ \A i \in 1 .. Len(wire) : wire[i] = stream[taken + Len(buf) + i]
    /\ \A i \in 1 .. Len(unsent) : unsent[i] = stream[taken + Len(buf) + Len(wire) + i]
    /\ closed => unsent = << >>
    /\ at \in {"returned", "copy", "wait", "read"}
    /\ at \in {"wait", "read"} => buf = << >>

LinesAreShort == \A i \in DOMAIN StreamLines : Len(StreamLines[i]) < maxLen

\* A line is the one that was made, or the end of it.
Follows(gone, l, m) == IF gone THEN EndsIn(m, l) ELSE l = m

\* What getLine has of the line that is under way.
begun == IF at = "returned" THEN << >> ELSE line

\* The lines are those that were made of what was taken, and nothing is left of
\* them; or the peer has closed and the last of them has no newline.
InStep(m) ==
    /\ Len(lines) = Len(m.lines)
    /\ \A i \in 1 .. Len(m.lines) : Follows(lost, lines[i], m.lines[i])
    /\ Follows(lost, begun, m.line)
AtLastLine(m) ==
    /\ at = "returned" /\ AtEnd /\ m.line # << >>
    /\ Len(lines) = Len(m.lines) + 1
    /\ \A i \in 1 .. Len(m.lines) : Follows(lost, lines[i], m.lines[i])
    /\ Follows(lost, lines[Len(lines)], m.line)

LinesInv == ~lost \/ LinesAreShort => InStep(madeOf(stream)[taken]) \/ AtLastLine(madeOf(stream)[taken])

LEMMA TakenIsMade ==
  ASSUME BytesInv
  PROVE  /\ taken \in 0 .. Len(stream) /\ madeOf(stream)[taken] \in Made
         /\ Len(madeOf(stream)[taken].line) < maxLen
         /\ Len(stream) \in Nat /\ Len(buf) \in Nat /\ Len(wire) \in Nat /\ Len(unsent) \in Nat
         /\ Len(stream) = taken + Len(buf) + Len(wire) + Len(unsent)
<1>1. /\ Len(stream) \in Nat /\ Len(buf) \in Nat /\ Len(wire) \in Nat /\ Len(unsent) \in Nat
      /\ taken \in Nat /\ stream \in Seq(Byte)
  BY DEF BytesInv
<1>2. taken \in 0 .. Len(stream) /\ Len(stream) = taken + Len(buf) + Len(wire) + Len(unsent)
  BY <1>1 DEF taken
<1> QED BY <1>1, <1>2, MadeIsTyped

\* The lines of the stream are those that are made of all of it.
LEMMA StreamIsMade ==
  ASSUME stream \in Seq(Byte), NEW n \in 0 .. Len(stream)
  PROVE  LET m == madeOf(stream)[n]
             end == madeOf(stream)[Len(stream)]
         IN /\ m \in Made /\ end \in Made
            /\ StreamLines \in Seq(Seq(Byte))
            /\ Len(StreamLines) = Len(end.lines) + (IF end.line = << >> THEN 0 ELSE 1)
            /\ Len(m.lines) <= Len(end.lines)
            /\ \A i \in 1 .. Len(m.lines) : StreamLines[i] = m.lines[i]
            /\ end.line # << >> => StreamLines[Len(end.lines) + 1] = end.line
<1> DEFINE m == madeOf(stream)[n]
           end == madeOf(stream)[Len(stream)]
<1>1. Len(stream) \in Nat /\ Len(stream) \in n .. Len(stream) /\ Len(stream) \in 0 .. Len(stream)
  OBVIOUS
<1>2. m \in Made /\ end \in Made
  BY <1>1, MadeIsTyped
<1>3. /\ Len(m.lines) <= Len(end.lines)
      /\ \A i \in 1 .. Len(m.lines) : end.lines[i] = m.lines[i]
  BY <1>1, MadeGrows
<1>4. StreamLines = IF end.line = << >> THEN end.lines ELSE Append(end.lines, end.line)
  BY DEF StreamLines
<1> HIDE DEF m, end
<1>5. /\ end.lines \in Seq(Seq(Byte)) /\ end.line \in Seq(Byte) /\ Len(end.lines) \in Nat
      /\ m.lines \in Seq(Seq(Byte)) /\ Len(m.lines) \in Nat
  BY <1>2 DEF Made
<1>6. CASE end.line = << >>
  BY <1>2, <1>3, <1>4, <1>5, <1>6 DEF m, end
<1>7. CASE end.line # << >>
  <2>1. /\ StreamLines \in Seq(Seq(Byte)) /\ Len(StreamLines) = Len(end.lines) + 1
        /\ StreamLines[Len(end.lines) + 1] = end.line
        /\ \A i \in 1 .. Len(end.lines) : StreamLines[i] = end.lines[i]
    BY <1>4, <1>5, <1>7
  <2>2. ASSUME NEW i \in 1 .. Len(m.lines) PROVE StreamLines[i] = m.lines[i]
    <3>1. i \in 1 .. Len(end.lines)
      BY <1>3, <1>5
    <3> QED BY ONLY <1>3, <2>1, <3>1, i \in 1 .. Len(m.lines)
  <2> QED BY <1>2, <1>3, <1>7, <2>1, <2>2 DEF m, end
<1> QED BY <1>6, <1>7

LEMMA InvReadsTheStream == BytesInv /\ LinesInv => LinesAreTheStreams
<1> SUFFICES ASSUME BytesInv, LinesInv PROVE LinesAreTheStreams
  OBVIOUS
<1> DEFINE m == madeOf(stream)[taken]
           end == madeOf(stream)[Len(stream)]
           n == Len(m.lines)
<1>1. /\ m \in Made /\ end \in Made /\ StreamLines \in Seq(Seq(Byte))
      /\ Len(StreamLines) = Len(end.lines) + (IF end.line = << >> THEN 0 ELSE 1)
      /\ n <= Len(end.lines)
      /\ \A i \in 1 .. n : StreamLines[i] = m.lines[i]
      /\ end.line # << >> => StreamLines[Len(end.lines) + 1] = end.line
  BY TakenIsMade, StreamIsMade DEF BytesInv
<1>2. /\ lines \in Seq(Seq(Byte)) /\ lost \in BOOLEAN /\ Len(lines) \in Nat
      /\ n \in Nat /\ Len(end.lines) \in Nat /\ m.lines \in Seq(Seq(Byte)) /\ m.line \in Seq(Byte)
  BY <1>1 DEF Made, BytesInv
<1>3. at = "returned" /\ AtEnd => m = end
  <2> SUFFICES ASSUME AtEnd PROVE taken = Len(stream)
    OBVIOUS
  <2>1. Len(unsent) = 0 /\ Len(wire) = 0 /\ Len(buf) = 0
    BY DEF AtEnd, BytesInv
  <2> QED BY <2>1, TakenIsMade
<1>4. ASSUME ~lost \/ LinesAreShort
      PROVE  /\ Len(lines) <= Len(StreamLines)
             /\ \A i \in 1 .. Len(lines) : Follows(lost, lines[i], StreamLines[i])
             /\ at = "returned" /\ AtEnd => IF lost THEN Len(lines) + 1 >= Len(StreamLines)
                                            ELSE Len(lines) = Len(StreamLines)
  <2>1. InStep(m) \/ AtLastLine(m)
    BY <1>4 DEF LinesInv
  <2> HIDE DEF m, end
  <2>2. CASE InStep(m)
    <3>1. Len(lines) = n /\ (\A i \in 1 .. n : Follows(lost, lines[i], m.lines[i])) /\ Follows(lost, begun, m.line)
      BY <2>2 DEF InStep
    <3>2. ~lost /\ at = "returned" => m.line = << >>
      BY <3>1 DEF Follows, begun
    <3>3. Len(lines) <= Len(StreamLines) /\ \A i \in 1 .. Len(lines) : Follows(lost, lines[i], StreamLines[i])
      <4>1. \A i \in 1 .. n : Follows(lost, lines[i], StreamLines[i])
        BY <1>1, <3>1
      <4> HIDE DEF n
      <4>2. Len(lines) <= Len(StreamLines)
        <5>1. n <= Len(end.lines) /\ Len(StreamLines) = Len(end.lines) + (IF end.line = << >> THEN 0 ELSE 1)
          BY <1>1
        <5>2. Len(lines) = n /\ n \in Nat /\ Len(end.lines) \in Nat
          BY <1>2, <3>1
        <5>3. Len(StreamLines) = Len(end.lines) \/ Len(StreamLines) = Len(end.lines) + 1
          <6>1. CASE end.line = << >>
            BY ONLY <5>1, <5>2, <6>1
          <6>2. CASE end.line # << >>
            BY ONLY <5>1, <5>2, <6>2
          <6> QED BY <6>1, <6>2
        <5>4. \A a, b, c, d : a = b /\ b \in Nat /\ c \in Nat /\ b <= c /\ (d = c \/ d = c + 1) => a <= d
          OBVIOUS
        <5> QED BY ONLY <5>1, <5>2, <5>3, <5>4
      <4> QED BY <3>1, <4>1, <4>2
    <3>4. ASSUME at = "returned", AtEnd
          PROVE  IF lost THEN Len(lines) + 1 >= Len(StreamLines) ELSE Len(lines) = Len(StreamLines)
      <4>1. Len(StreamLines) = n + (IF m.line = << >> THEN 0 ELSE 1)
        BY <1>1, <1>3, <3>4
      <4> HIDE DEF n
      <4> QED BY <4>1, <3>1, <3>2, <3>4, <1>2
    <3> QED BY <3>3, <3>4
  <2>3. CASE AtLastLine(m)
    <3>1. /\ at = "returned" /\ AtEnd /\ m.line # << >> /\ Len(lines) = n + 1
          /\ \A i \in 1 .. n : Follows(lost, lines[i], m.lines[i])
          /\ Follows(lost, lines[n + 1], m.line)
      BY <2>3 DEF AtLastLine
    <3>2. /\ m = end /\ Len(StreamLines) = n + 1 /\ StreamLines[n + 1] = m.line
      BY <1>1, <1>3, <3>1
    <3>3. \A i \in 1 .. n : Follows(lost, lines[i], StreamLines[i])
      BY <1>1, <3>1
    <3>4. Follows(lost, lines[n + 1], StreamLines[n + 1])
      BY <3>1, <3>2
    <3> HIDE DEF n
    <3>5. \A i \in 1 .. Len(lines) : Follows(lost, lines[i], StreamLines[i])
      <4>1. \A i \in 1 .. n + 1 : i \in 1 .. n \/ i = n + 1
        BY <1>2
      <4> QED BY ONLY <3>1, <3>3, <3>4, <4>1
    <3> QED BY <3>1, <3>2, <3>5, <1>2
  <2> QED BY <2>1, <2>2, <2>3
<1> HIDE DEF m, end, n
<1>5. ASSUME ~lost
      PROVE  /\ IsPrefix(lines, StreamLines)
             /\ at = "returned" /\ AtEnd => Len(lines) = Len(StreamLines)
  <2>1. /\ Len(lines) <= Len(StreamLines)
        /\ \A i \in 1 .. Len(lines) : lines[i] = StreamLines[i]
        /\ at = "returned" /\ AtEnd => Len(lines) = Len(StreamLines)
    BY <1>4, <1>5 DEF Follows
  <2>2. /\ SubSeq(lines, 1, Len(lines)) = [i \in 1 .. Len(lines) |-> lines[i]]
        /\ SubSeq(StreamLines, 1, Len(lines)) = [i \in 1 .. Len(lines) |-> StreamLines[i]]
    BY <1>1, <1>2, <2>1
  <2> QED BY <2>1, <2>2 DEF IsPrefix
<1>6. ASSUME LinesAreShort
      PROVE  /\ \A i \in DOMAIN lines : i \in DOMAIN StreamLines /\ IsSuffix(lines[i], StreamLines[i])
             /\ at = "returned" /\ AtEnd => Len(lines) + 1 >= Len(StreamLines)
  <2>1. /\ Len(lines) <= Len(StreamLines)
        /\ \A i \in 1 .. Len(lines) : Follows(lost, lines[i], StreamLines[i])
        /\ at = "returned" /\ AtEnd => IF lost THEN Len(lines) + 1 >= Len(StreamLines)
                                       ELSE Len(lines) = Len(StreamLines)
    BY <1>4, <1>6
  <2> DEFINE all == StreamLines
  <2> HIDE DEF all
  <2>3. StreamLines = all /\ all \in Seq(Seq(Byte)) /\ Len(all) \in Nat
    <3>1. all \in Seq(Seq(Byte))
      BY <1>1 DEF all
    <3> QED BY <3>1 DEF all
  <2>2. ASSUME NEW i \in DOMAIN lines
        PROVE  i \in DOMAIN StreamLines /\ IsSuffix(lines[i], StreamLines[i])
    <3>1. i \in 1 .. Len(lines) /\ i \in DOMAIN StreamLines
      <4>1. i \in 1 .. Len(lines) /\ Len(lines) <= Len(all)
        BY <1>2, <2>1, <2>3
      <4>2. i \in 1 .. Len(all)
        BY <4>1, <1>2, <2>3
      <4> QED BY <4>1, <4>2, <2>3
    <3>2. lines[i] \in Seq(Byte) /\ StreamLines[i] \in Seq(Byte)
      <4>1. i \in 1 .. Len(all)
        BY <3>1, <2>3
      <4> QED BY <1>2, <2>3, <3>1, <4>1
    <3>3. EndsIn(StreamLines[i], lines[i])
      <4>1. Follows(lost, lines[i], StreamLines[i])
        BY <2>1, <3>1
      <4> QED BY <4>1, <3>2, EndsInIsSuffix DEF Follows
    <3> QED BY <3>1, <3>2, <3>3, EndsInIsSuffix
  <2> QED BY <1>2, <2>1, <2>2, <2>3
<1> QED BY <1>5, <1>6 DEF LinesAreTheStreams, LinesAreShort

-----------------------------------------------------------------------------
LEMMA ReaderInitInv == ReaderInit => BytesInv /\ LinesInv
<1> SUFFICES ASSUME ReaderInit PROVE BytesInv /\ LinesInv
  OBVIOUS
<1>1. /\ stream \in Seq(Byte) /\ Len(stream) \in Nat /\ unsent = stream /\ wire = << >> /\ buf = << >>
      /\ line = << >> /\ lines = << >> /\ lost = FALSE /\ at = "returned" /\ closed = FALSE
  BY GetLineAssumption DEF ReaderInit, Byte
<1>2. taken = 0
  <2>1. Len(<< >>) = 0 /\ Len(unsent) = Len(stream)
    BY <1>1
  <2>2. Len(stream) - Len(stream) - 0 - 0 = 0
    BY <1>1
  <2> QED BY <1>1, <2>1, <2>2 DEF taken
<1>3. /\ << >> \in Seq(Byte) /\ << >> \in Seq(Seq(Byte)) /\ Len(<< >>) = 0
  OBVIOUS
<1>4. \A i \in 1 .. Len(unsent) : unsent[i] = stream[taken + Len(buf) + Len(wire) + i]
  <2>1. ASSUME NEW i \in 1 .. Len(stream) PROVE 0 + 0 + 0 + i = i
    OBVIOUS
  <2> QED BY <1>1, <1>2, <1>3, <2>1
<1>5. BytesInv
  <2>1. /\ \A i \in 1 .. Len(buf) : buf[i] = stream[taken + i]
        /\ \A i \in 1 .. Len(wire) : wire[i] = stream[taken + Len(buf) + i]
    BY <1>1, <1>3
  <2> QED BY <1>1, <1>2, <1>3, <1>4, <2>1 DEF BytesInv
<1>6. madeOf(stream)[taken] = [line |-> << >>, lines |-> << >>]
  BY <1>1, <1>2, MadeStep
<1>7. InStep(madeOf(stream)[taken])
  BY <1>1, <1>3, <1>6 DEF InStep, Follows, begun
<1> QED BY <1>5, <1>7 DEF LinesInv

\* A step that moves nothing between the peer and the line.
LEMMA SameBytes ==
  ASSUME BytesInv, stream' = stream, unsent' = unsent, wire' = wire, buf' = buf, closed' = closed,
         line' \in Seq(Byte), lines' \in Seq(Seq(Byte)), lost' \in BOOLEAN,
         at' \in {"returned", "copy", "wait", "read"},
         at' \in {"wait", "read"} => buf = << >>
  PROVE  BytesInv' /\ taken' = taken
<1>1. taken' = taken
  BY DEF taken
<1> QED BY <1>1 DEF BytesInv

LEMMA ReaderKeepsBytes == BytesInv /\ [ReaderNext]_reader => BytesInv'
<1> SUFFICES ASSUME BytesInv, [ReaderNext]_reader PROVE BytesInv'
  OBVIOUS
<1> USE DEF peer, timer, results
<1>1. /\ stream \in Seq(Byte) /\ unsent \in Seq(Byte) /\ wire \in Seq(Byte)
      /\ buf \in Seq(Byte) /\ line \in Seq(Byte) /\ lines \in Seq(Seq(Byte))
      /\ lost \in BOOLEAN /\ << >> \in Seq(Byte) /\ Append(lines, line) \in Seq(Seq(Byte))
      /\ at \in {"returned", "copy", "wait", "read"}
  BY DEF BytesInv
<1>2. /\ taken \in 0 .. Len(stream) /\ taken \in Nat
      /\ Len(stream) \in Nat /\ Len(buf) \in Nat /\ Len(wire) \in Nat /\ Len(unsent) \in Nat
      /\ Len(stream) = taken + Len(buf) + Len(wire) + Len(unsent)
  BY TakenIsMade DEF BytesInv
<1>3. CASE Call
  BY <1>1, <1>3, SameBytes DEF Call
<1>4. CASE Fill
  BY <1>1, <1>4, SameBytes DEF Fill, mustFill
<1>5. CASE SelectReady
  BY <1>1, <1>5, SameBytes DEF SelectReady, BytesInv
<1>6. CASE SelectTimesOut
  BY <1>1, <1>6, SameBytes DEF SelectTimesOut
<1>7. CASE Read
  <2>1. buf = << >> /\ Len(buf) = 0 /\ at = "read"
    BY <1>7 DEF Read, BytesInv
  <2>2. CASE wire = << >>
    BY <1>1, <1>7, <2>1, <2>2, SameBytes DEF Read, Return
  <2>3. CASE wire # << >>
    <3>1. PICK n \in 1 .. READBUF_LEN :
             /\ n <= Len(wire)
             /\ buf' = SubSeq(wire, 1, n) /\ wire' = SubSeq(wire, n + 1, Len(wire))
      BY <1>7, <2>3 DEF Read
    <3>2. /\ stream' = stream /\ unsent' = unsent /\ closed' = closed /\ line' = line
          /\ lines' = lines /\ lost' = lost /\ at' = "copy"
      BY <1>7, <2>3 DEF Read
    <3>3. n \in Nat /\ n \in 1 .. Len(wire)
      BY <1>2, <3>1, GetLineAssumption
    <3>4. /\ buf' \in Seq(Byte) /\ Len(buf') = n /\ \A i \in 1 .. n : buf'[i] = wire[i]
      BY <1>1, <1>2, <3>1, <3>3
    <3>5. /\ wire' \in Seq(Byte) /\ Len(wire') = Len(wire) - n
          /\ \A i \in 1 .. Len(wire) - n : wire'[i] = wire[n + i]
      <4>1. \A i \in n + 1 .. Len(wire) : wire[i] \in Byte
        BY <1>1, <1>2, <3>3
      <4> QED BY <1>1, <1>2, <3>1, <3>3, <4>1
    <3>6. taken' = taken
      BY <1>2, <2>1, <3>2, <3>3, <3>4, <3>5 DEF taken
    <3>7. \A i \in 1 .. Len(buf') : buf'[i] = stream'[taken' + i]
      <4>1. ASSUME NEW i \in 1 .. n PROVE buf'[i] = stream[taken + i]
        <5>1. i \in 1 .. Len(wire) /\ taken + 0 + i = taken + i
          BY <1>2, <3>3
        <5> QED BY <2>1, <3>4, <5>1 DEF BytesInv
      <4> QED BY <3>2, <3>4, <3>6, <4>1
    <3>8. \A i \in 1 .. Len(wire') : wire'[i] = stream'[taken' + Len(buf') + i]
      <4>1. ASSUME NEW i \in 1 .. Len(wire) - n PROVE wire'[i] = stream[taken + n + i]
        <5>1. n + i \in 1 .. Len(wire) /\ taken + 0 + (n + i) = taken + n + i
          BY <1>2, <3>3
        <5> QED BY <2>1, <3>5, <5>1 DEF BytesInv
      <4> QED BY <3>2, <3>4, <3>5, <3>6, <4>1
    <3>9. \A i \in 1 .. Len(unsent') : unsent'[i] = stream'[taken' + Len(buf') + Len(wire') + i]
      <4>1. ASSUME NEW i \in 1 .. Len(unsent)
            PROVE  unsent[i] = stream[taken + n + (Len(wire) - n) + i]
        <5>1. taken + n + (Len(wire) - n) + i = taken + 0 + Len(wire) + i
          BY <1>2, <3>3
        <5> QED BY <2>1, <5>1 DEF BytesInv
      <4> QED BY <3>2, <3>4, <3>5, <3>6, <4>1
    <3> QED BY <1>1, <1>2, <3>2, <3>4, <3>5, <3>6, <3>7, <3>8, <3>9 DEF BytesInv
  <2> QED BY <2>2, <2>3
<1>8. CASE Copy
  <2>1. /\ buf # << >> /\ line' = Append(line, Head(buf)) /\ buf' = Tail(buf) /\ at = "copy"
        /\ stream' = stream /\ unsent' = unsent /\ wire' = wire /\ closed' = closed /\ lost' = lost
        /\ (at' = "returned" /\ lines' = IF line' = << >> THEN lines ELSE Append(lines, line'))
           \/ (at' = at /\ lines' = lines)
    BY <1>8 DEF Copy, rest, mustFill, Return
  <2>2. /\ Head(buf) \in Byte /\ buf' \in Seq(Byte) /\ Len(buf') = Len(buf) - 1
        /\ \A i \in 1 .. Len(buf) - 1 : buf'[i] = buf[i + 1]
    BY <1>1, <2>1
  <2>3. line' \in Seq(Byte)
    BY <1>1, <2>1, <2>2
  <2>4. lines' \in Seq(Seq(Byte)) /\ at' \in {"returned", "copy"}
    <3>1. Append(lines, line') \in Seq(Seq(Byte))
      BY <1>1, <2>3
    <3> QED BY <1>1, <2>1, <3>1
  <2>5. taken' = taken + 1
    BY <1>2, <2>1, <2>2 DEF taken
  <2>6. \A i \in 1 .. Len(buf') : buf'[i] = stream'[taken' + i]
    <3>1. ASSUME NEW i \in 1 .. Len(buf) - 1 PROVE buf'[i] = stream[taken + 1 + i]
      <4>1. i + 1 \in 1 .. Len(buf) /\ taken + (i + 1) = taken + 1 + i
        BY <1>2
      <4> QED BY <2>2, <4>1 DEF BytesInv
    <3> QED BY <2>1, <2>2, <2>5, <3>1
  <2>7. \A i \in 1 .. Len(wire') : wire'[i] = stream'[taken' + Len(buf') + i]
    <3>1. ASSUME NEW i \in 1 .. Len(wire) PROVE wire[i] = stream[taken + 1 + (Len(buf) - 1) + i]
      <4>1. taken + 1 + (Len(buf) - 1) + i = taken + Len(buf) + i
        BY <1>2
      <4> QED BY <4>1 DEF BytesInv
    <3> QED BY <2>1, <2>2, <2>5, <3>1
  <2>8. \A i \in 1 .. Len(unsent') : unsent'[i] = stream'[taken' + Len(buf') + Len(wire') + i]
    <3>1. ASSUME NEW i \in 1 .. Len(unsent)
          PROVE  unsent[i] = stream[taken + 1 + (Len(buf) - 1) + Len(wire) + i]
      <4>1. taken + 1 + (Len(buf) - 1) + Len(wire) + i = taken + Len(buf) + Len(wire) + i
        BY <1>2
      <4> QED BY <4>1 DEF BytesInv
    <3> QED BY <2>1, <2>2, <2>5, <3>1
  <2>9. taken' \in Nat /\ (closed' => unsent' = << >>)
    BY <1>2, <2>1, <2>5 DEF BytesInv
  <2> QED BY <1>1, <2>1, <2>2, <2>3, <2>4, <2>6, <2>7, <2>8, <2>9 DEF BytesInv
<1>9. CASE Arrive
  <2>1. PICK n \in 1 .. Len(unsent) :
           /\ wire' = wire \o SubSeq(unsent, 1, n)
           /\ unsent' = SubSeq(unsent, n + 1, Len(unsent))
    BY <1>9 DEF Arrive
  <2>2. /\ unsent # << >> /\ stream' = stream /\ closed' = closed /\ buf' = buf /\ line' = line
        /\ lines' = lines /\ lost' = lost /\ at' = at
    BY <1>9 DEF Arrive
  <2>3. n \in Nat /\ n <= Len(unsent)
    BY <1>2
  <2> DEFINE some == SubSeq(unsent, 1, n)
  <2>4. /\ some \in Seq(Byte) /\ Len(some) = n /\ \A i \in 1 .. n : some[i] = unsent[i]
    BY <1>1, <1>2, <2>3
  <2>5. /\ unsent' \in Seq(Byte) /\ Len(unsent') = Len(unsent) - n
        /\ \A i \in 1 .. Len(unsent) - n : unsent'[i] = unsent[n + i]
    <3>1. \A i \in n + 1 .. Len(unsent) : unsent[i] \in Byte
      BY <1>1, <1>2, <2>3
    <3> QED BY <1>1, <1>2, <2>1, <2>3, <3>1
  <2>6. /\ wire' \in Seq(Byte) /\ Len(wire') = Len(wire) + n
        /\ \A i \in 1 .. Len(wire) : wire'[i] = wire[i]
        /\ \A i \in 1 .. n : wire'[Len(wire) + i] = some[i]
    <3>1. wire' = wire \o some
      BY <2>1
    <3> HIDE DEF some
    <3>2. wire' \in Seq(Byte) /\ Len(wire') = Len(wire) + n
      <4>1. /\ wire \o some \in Seq(Byte) /\ Len(wire \o some) = Len(wire) + Len(some)
        <5>1. wire \in Seq(Byte) /\ some \in Seq(Byte)
          BY <1>1, <2>4
        <5> QED BY ONLY <5>1
      <4> QED BY ONLY <2>4, <3>1, <4>1
    <3>3. \A i \in 1 .. Len(wire) : wire'[i] = wire[i]
      BY <1>1, <1>2, <2>3, <2>4, <3>1
    <3>4. ASSUME NEW i \in 1 .. n PROVE wire'[Len(wire) + i] = some[i]
      <4>1. Len(wire) + i \in 1 .. Len(wire) + Len(some) /\ Len(wire) + i - Len(wire) = i /\ Len(wire) + i > Len(wire)
        BY <1>2, <2>3, <2>4
      <4> QED BY <1>1, <2>4, <3>1, <4>1
    <3> QED BY <3>2, <3>3, <3>4
  <2>7. taken' = taken
    BY <1>2, <2>2, <2>3, <2>5, <2>6 DEF taken
  <2> HIDE DEF some
  <2>8. \A i \in 1 .. Len(wire') : wire'[i] = stream'[taken' + Len(buf') + i]
    <3>1. ASSUME NEW i \in 1 .. Len(wire) + n PROVE wire'[i] = stream[taken + Len(buf) + i]
      <4>1. CASE i \in 1 .. Len(wire)
        BY <2>6, <4>1 DEF BytesInv
      <4>2. CASE i \notin 1 .. Len(wire)
        <5> DEFINE j == i - Len(wire)
        <5>1. j \in 1 .. n /\ i = Len(wire) + j /\ j \in 1 .. Len(unsent)
              /\ taken + Len(buf) + Len(wire) + j = taken + Len(buf) + i
          BY <1>2, <2>3, <4>2
        <5> HIDE DEF j
        <5>2. unsent[j] = stream[taken + Len(buf) + i]
          BY <5>1 DEF BytesInv
        <5> QED BY <2>4, <2>6, <5>1, <5>2
      <4> QED BY <4>1, <4>2
    <3> QED BY <2>2, <2>6, <2>7, <3>1
  <2>9. \A i \in 1 .. Len(unsent') : unsent'[i] = stream'[taken' + Len(buf') + Len(wire') + i]
    <3>1. ASSUME NEW i \in 1 .. Len(unsent) - n
          PROVE  unsent[n + i] = stream[taken + Len(buf) + (Len(wire) + n) + i]
      <4>1. n + i \in 1 .. Len(unsent)
            /\ taken + Len(buf) + (Len(wire) + n) + i = taken + Len(buf) + Len(wire) + (n + i)
        BY <1>2, <2>3
      <4> QED BY <4>1 DEF BytesInv
    <3> QED BY <2>2, <2>5, <2>6, <2>7, <3>1
  <2>10. closed' => unsent' = << >>
    BY <2>2 DEF BytesInv
  <2>11. \A i \in 1 .. Len(buf') : buf'[i] = stream'[taken' + i]
    BY <2>2, <2>7 DEF BytesInv
  <2>12. taken' \in Nat /\ (at' \in {"wait", "read"} => buf' = << >>)
    BY <1>2, <2>2, <2>7 DEF BytesInv
  <2> QED BY <1>1, <2>2, <2>5, <2>6, <2>8, <2>9, <2>10, <2>11, <2>12 DEF BytesInv
<1>10. CASE Close
  <2>1. taken' = taken
    BY <1>10 DEF Close, taken
  <2> QED BY <1>10, <2>1 DEF Close, BytesInv
<1>11. CASE Tick
  BY <1>1, <1>11, SameBytes DEF Tick, BytesInv
<1>12. CASE UNCHANGED reader
  BY <1>1, <1>12, SameBytes DEF reader, BytesInv
<1> QED BY <1>3, <1>4, <1>5, <1>6, <1>7, <1>8, <1>9, <1>10, <1>11, <1>12 DEF ReaderNext

-----------------------------------------------------------------------------
\* The lines that go with a state after a step that leaves the stream alone.
LEMMA InStepThen ==
  ASSUME stream' = stream, NEW m, m = madeOf(stream)[taken'],
         Len(lines') = Len(m.lines),
         \A i \in 1 .. Len(m.lines) : Follows(lost', lines'[i], m.lines[i]),
         Follows(lost', begun', m.line)
  PROVE  LinesInv'
<1>1. (madeOf(stream)[taken])' = m
  <2>1. (madeOf(stream)[taken])' = madeOf(stream')[taken']
    BY DEF madeOf
  <2> QED BY <2>1
<1> DEFINE s == madeOf(stream)[taken]
<1>2. s' = m
  BY <1>1
<1>3. InStep(s)'
  <2> HIDE DEF s
  <2> QED BY <1>2 DEF InStep, Follows
<1> HIDE DEF s
<1>4. InStep(s)' => LinesInv'
  BY DEF LinesInv, s
<1> QED BY <1>3, <1>4

\* A step that leaves the line alone too.
LEMMA SameLines ==
  ASSUME LinesInv, stream' = stream, taken' = taken, lines' = lines, lost' = lost, begun' = begun,
         AtLastLine(madeOf(stream)[taken]) => at' = "returned" /\ AtEnd'
  PROVE  LinesInv'
<1>1. /\ (madeOf(stream)[taken])' = madeOf(stream)[taken]
      /\ LinesAreShort' = LinesAreShort
  BY DEF madeOf, LinesAreShort, StreamLines
<1> DEFINE m == madeOf(stream)[taken]
<1>2. m' = m
  BY <1>1
<1>3. LinesInv = (~lost \/ LinesAreShort => InStep(m) \/ AtLastLine(m))
  BY DEF LinesInv
<1>4. LinesInv' = (~lost' \/ LinesAreShort' => InStep(m)' \/ AtLastLine(m)')
  BY DEF LinesInv
<1>5. AtLastLine(m) => at' = "returned" /\ AtEnd'
  OBVIOUS
<1> HIDE DEF m
<1>6. InStep(m) => InStep(m)'
  BY <1>2 DEF InStep, Follows
<1>7. AtLastLine(m) => AtLastLine(m)'
  BY <1>2, <1>5 DEF AtLastLine, Follows
<1> QED BY <1>1, <1>3, <1>4, <1>6, <1>7

\* A line more on either side.
LEMMA OneLineMoreFollows ==
  ASSUME NEW ls \in Seq(Seq(Byte)), NEW ms \in Seq(Seq(Byte)), NEW l \in Seq(Byte), NEW ml \in Seq(Byte),
         NEW gone, Len(ls) = Len(ms), \A i \in 1 .. Len(ms) : Follows(gone, ls[i], ms[i]),
         Follows(gone, l, ml)
  PROVE  /\ Len(Append(ls, l)) = Len(Append(ms, ml))
         /\ \A i \in 1 .. Len(Append(ms, ml)) : Follows(gone, Append(ls, l)[i], Append(ms, ml)[i])
<1>1. /\ Len(Append(ls, l)) = Len(ls) + 1 /\ Len(Append(ms, ml)) = Len(ms) + 1 /\ Len(ms) \in Nat
      /\ Append(ls, l)[Len(ls) + 1] = l /\ Append(ms, ml)[Len(ms) + 1] = ml
      /\ \A i \in 1 .. Len(ms) : Append(ls, l)[i] = ls[i] /\ Append(ms, ml)[i] = ms[i]
  OBVIOUS
<1>2. \A i \in 1 .. Len(ms) + 1 : i \in 1 .. Len(ms) \/ i = Len(ms) + 1
  BY <1>1
<1> QED BY <1>1, <1>2

\* A line that is the one that was made ends like it.
LEMMA WeakerFollows ==
  ASSUME NEW m \in Seq(Byte), NEW l \in Seq(Byte), NEW gone, Follows(gone, l, m)
  PROVE  Follows(TRUE, l, m) /\ Follows(TRUE, << >>, m)
BY EndsInIsSuffix DEF Follows

LEMMA ReaderKeepsLines == BytesInv /\ BytesInv' /\ LinesInv /\ [ReaderNext]_reader => LinesInv'
<1> SUFFICES ASSUME BytesInv, BytesInv', LinesInv, [ReaderNext]_reader PROVE LinesInv'
  OBVIOUS
<1> USE DEF peer, timer, results
<1> DEFINE m == madeOf(stream)[taken]
<1>1. /\ stream \in Seq(Byte) /\ line \in Seq(Byte) /\ lines \in Seq(Seq(Byte)) /\ lost \in BOOLEAN
      /\ buf \in Seq(Byte) /\ << >> \in Seq(Byte)
  BY DEF BytesInv
<1>2. /\ taken \in 0 .. Len(stream) /\ m \in Made /\ m.line \in Seq(Byte) /\ m.lines \in Seq(Seq(Byte))
      /\ Len(m.line) < maxLen /\ Len(m.line) \in Nat
  BY TakenIsMade DEF Made
<1>3. stream' = stream
  BY DEF ReaderNext, Call, Fill, SelectReady, SelectTimesOut, Read, Copy, Arrive, Close, Tick, reader
<1>4. LinesAreShort' = LinesAreShort
  BY <1>3 DEF LinesAreShort, StreamLines, madeOf
<1> DEFINE Due == ~lost \/ LinesAreShort
<1>5. Due => InStep(m) \/ AtLastLine(m)
  BY DEF LinesInv
<1>6. (~lost' => ~lost) /\ ~(~lost' \/ LinesAreShort) => LinesInv'
  BY <1>4 DEF LinesInv
<1> HIDE DEF m
<1>7. CASE Call
  <2>1. at = "returned" /\ ~AtEnd /\ at' = "copy" /\ line' = << >> /\ lines' = lines /\ lost' = lost
    BY <1>7 DEF Call
  <2>2. taken' = taken
    BY <1>7 DEF Call, taken
  <2> QED BY <1>3, <2>1, <2>2, SameLines DEF begun, AtLastLine, m
<1>8. CASE Fill \/ SelectReady \/ Tick
  <2>1. /\ at # "returned" /\ at' # "returned" /\ line' = line /\ lines' = lines /\ lost' = lost
        /\ unsent' = unsent /\ wire' = wire /\ buf' = buf
    BY <1>8 DEF Fill, SelectReady, Tick
  <2>2. taken' = taken
    BY <1>3, <2>1 DEF taken
  <2> QED BY <1>3, <2>1, <2>2, SameLines DEF begun, AtLastLine, m
<1>9. CASE SelectTimesOut
  <2>1. /\ at = "wait" /\ at' = "returned" /\ lost' = (lost \/ line # << >>) /\ lines' = lines
        /\ line' = line /\ begun = line /\ begun' = << >>
    BY <1>9 DEF SelectTimesOut, begun
  <2>2. taken' = taken
    BY <1>9 DEF SelectTimesOut, taken
  <2>3. CASE line = << >>
    BY <1>1, <1>3, <2>1, <2>2, <2>3, SameLines DEF AtLastLine, m
  <2>4. CASE line # << >>
    <3>1. lost' = TRUE
      BY <1>1, <2>1, <2>4
    <3> SUFFICES ASSUME LinesAreShort PROVE LinesInv'
      BY <1>6, <3>1
    <3>2. InStep(m)
      BY <1>5, <2>1 DEF AtLastLine
    <3>3. Len(lines) = Len(m.lines) /\ Follows(lost, line, m.line)
          /\ \A i \in 1 .. Len(m.lines) : Follows(lost, lines[i], m.lines[i])
      BY <2>1, <3>2 DEF InStep
    <3>4. \A i \in 1 .. Len(m.lines) : Follows(TRUE, lines[i], m.lines[i])
      <4>1. \A i \in 1 .. Len(m.lines) : lines[i] \in Seq(Byte) /\ m.lines[i] \in Seq(Byte)
        BY <1>1, <1>2, <3>3
      <4> QED BY <3>3, <4>1, WeakerFollows
    <3>5. Follows(TRUE, << >>, m.line)
      BY <1>1, <1>2, <3>3, WeakerFollows
    <3>6. m = madeOf(stream)[taken']
      BY <2>2 DEF m
    <3> QED BY <1>3, <2>1, <3>1, <3>3, <3>4, <3>5, <3>6, InStepThen
  <2> QED BY <2>3, <2>4
<1>10. CASE Read
  <2>1. /\ at = "read" /\ isReady /\ line' = line /\ lost' = lost /\ begun = line /\ buf = << >>
        /\ unsent' = unsent /\ closed' = closed
    BY <1>10 DEF Read, begun, BytesInv
  <2>2. CASE wire # << >>
    <3>1. at' = "copy" /\ lines' = lines /\ begun' = begun
      BY <1>10, <2>1, <2>2 DEF Read, begun
    <3>2. taken' = taken
      <4>1. PICK n \in 1 .. READBUF_LEN :
               n <= Len(wire) /\ buf' = SubSeq(wire, 1, n) /\ wire' = SubSeq(wire, n + 1, Len(wire))
        BY <1>10, <2>2 DEF Read
      <4>2. n \in 1 .. Len(wire) /\ Len(wire) \in Nat /\ wire \in Seq(Byte)
            /\ Len(stream) \in Nat /\ Len(unsent) \in Nat
        BY <4>1, TakenIsMade, GetLineAssumption DEF BytesInv
      <4>3. Len(buf') = n /\ Len(wire') = Len(wire) - n /\ Len(buf) = 0
        BY <2>1, <4>1, <4>2
      <4>4. Len(stream) - Len(unsent) - (Len(wire) - n) - n = Len(stream) - Len(unsent) - Len(wire) - 0
        BY <4>2
      <4> QED BY <1>3, <2>1, <4>3, <4>4 DEF taken
    <3> QED BY <1>3, <2>1, <3>1, <3>2, SameLines DEF AtLastLine, m
  <2>3. CASE wire = << >>
    <3>1. /\ closed /\ wire' = << >> /\ buf' = << >> /\ at' = "returned" /\ begun' = << >>
          /\ lines' = IF line = << >> THEN lines ELSE Append(lines, line)
      BY <1>10, <2>1, <2>3 DEF Read, Return, isReady, begun
    <3>2. taken' = taken
      BY <1>3, <2>1, <2>3, <3>1 DEF taken
    <3>3. CASE line = << >>
      BY <1>3, <2>1, <3>1, <3>2, <3>3, SameLines DEF AtLastLine, m
    <3>4. CASE line # << >>
      <4> SUFFICES ASSUME Due PROVE LinesInv'
        BY <1>6, <2>1
      <4>1. Len(lines) = Len(m.lines) /\ Follows(lost, line, m.line)
            /\ \A i \in 1 .. Len(m.lines) : Follows(lost, lines[i], m.lines[i])
        BY <1>5, <2>1 DEF InStep, AtLastLine
      <4>2. m.line # << >>
        <5> SUFFICES ASSUME m.line = << >> PROVE FALSE
          OBVIOUS
        <5>1. Len(line) # 0
          BY <1>1, <3>4
        <5>2. Len(line) <= 0 \/ line = << >>
          BY <4>1 DEF Follows, EndsIn
        <5>3. Len(line) \in Nat
          BY <1>1
        <5> QED BY <3>4, <5>1, <5>2, <5>3
      <4>3. lines' = Append(lines, line) /\ Len(lines') = Len(lines) + 1
            /\ lines'[Len(lines')] = line /\ \A i \in 1 .. Len(lines) : lines'[i] = lines[i]
        BY <1>1, <3>1, <3>4
      <4>4. AtLastLine(m)' = (/\ at' = "returned" /\ AtEnd' /\ m'.line # << >>
                              /\ Len(lines') = Len(m'.lines) + 1
                              /\ \A i \in 1 .. Len(m'.lines) : Follows(lost', lines'[i], m'.lines[i])
                              /\ Follows(lost', lines'[Len(lines')], m'.line))
        BY DEF AtLastLine, Follows
      <4>5. m' = m
        BY <1>3, <3>2 DEF m, madeOf
      <4>6. AtEnd'
        BY <2>1, <3>1 DEF AtEnd
      <4>7. AtLastLine(m)'
        BY <2>1, <3>1, <4>1, <4>2, <4>3, <4>4, <4>5, <4>6
      <4>8. AtLastLine(m)' => LinesInv'
        BY DEF LinesInv, m
      <4> QED BY <4>7, <4>8
    <3> QED BY <3>3, <3>4
  <2> QED BY <2>2, <2>3
<1>11. CASE Copy
  <2> DEFINE b == Head(buf)
             l == Append(line, b)
             ml == Append(m.line, b)
  <2>1. /\ at = "copy" /\ buf # << >> /\ line' = l /\ lost' = lost /\ begun = line
        /\ unsent' = unsent /\ wire' = wire /\ buf' = Tail(buf)
        /\ IF b = "\n" \/ isFull(l) THEN Return(l) ELSE at' = at /\ lines' = lines
    BY <1>11 DEF Copy, mustFill, rest, begun, Return
  <2>2. b \in Byte /\ Len(buf') = Len(buf) - 1 /\ Len(buf) \in Nat /\ Len(buf) > 0
    BY <1>1, <2>1
  <2>3. b = stream[taken + 1] /\ taken \in Nat /\ taken + 1 \in 1 .. Len(stream)
    <3>1. 1 \in 1 .. Len(buf) /\ b = buf[1]
      BY <1>1, <2>1, <2>2
    <3>2. Len(stream) = taken + Len(buf) + Len(wire) + Len(unsent) /\ Len(wire) \in Nat /\ Len(unsent) \in Nat
          /\ taken \in Nat
      BY TakenIsMade DEF BytesInv
    <3> QED BY <2>2, <3>1, <3>2 DEF BytesInv
  <2>4. taken' = taken + 1
    <3>1. Len(stream) \in Nat /\ Len(wire) \in Nat /\ Len(unsent) \in Nat
      BY TakenIsMade
    <3>2. Len(stream) - Len(unsent) - Len(wire) - (Len(buf) - 1) = Len(stream) - Len(unsent) - Len(wire) - Len(buf) + 1
      BY <2>2, <3>1
    <3> QED BY <1>3, <2>1, <2>2, <3>2 DEF taken
  <2> HIDE DEF b
  <2> DEFINE p == put(m, b)
  <2>5. p = madeOf(stream)[taken']
    <3>1. taken + 1 - 1 = taken /\ Len(stream) \in Nat
      BY <1>1, <2>3
    <3>2. \A k \in 1 .. Len(stream) : madeOf(stream)[k] = put(madeOf(stream)[k - 1], stream[k])
      BY <3>1, MadeStep
    <3>3. madeOf(stream)[taken + 1] = put(madeOf(stream)[taken + 1 - 1], stream[taken + 1])
      BY <2>3, <3>2
    <3> QED BY <2>3, <2>4, <3>1, <3>3 DEF m
  <2>6. /\ l \in Seq(Byte) /\ ml \in Seq(Byte) /\ Len(l) = Len(line) + 1 /\ Len(ml) = Len(m.line) + 1
        /\ Len(line) \in Nat /\ l # << >>
    <3>1. Append(line, b) \in Seq(Byte) /\ Len(Append(line, b)) = Len(line) + 1 /\ Len(line) \in Nat
      BY <1>1, <2>2
    <3>2. Append(line, b) # << >>
      BY <3>1
    <3> QED BY <1>2, <2>2, <3>1, <3>2
  <2>7. /\ p \in Made
        /\ b = "\n" \/ isFull(ml) => p.line = << >> /\ p.lines = Append(m.lines, ml)
        /\ ~(b = "\n" \/ isFull(ml)) => p.line = ml /\ p.lines = m.lines
    BY <1>2, <2>2, PutIsTyped
  <2> SUFFICES ASSUME Due PROVE LinesInv'
    BY <1>6, <2>1
  <2>8. Len(lines) = Len(m.lines) /\ Follows(lost, line, m.line)
        /\ \A i \in 1 .. Len(m.lines) : Follows(lost, lines[i], m.lines[i])
    BY <1>5, <2>1 DEF InStep, AtLastLine
  <2>9. Follows(lost, l, ml)
    BY <1>1, <1>2, <2>2, <2>8, EndsInIsSuffix DEF Follows
  <2>10. ASSUME lost PROVE ~isFull(ml)
    <3> SUFFICES ASSUME isFull(ml) PROVE FALSE
      OBVIOUS
    <3>1. taken' \in 0 .. Len(stream) /\ Len(stream) \in Nat
      BY <1>1, <2>3, <2>4
    <3>2. /\ StreamLines \in Seq(Seq(Byte)) /\ Len(p.lines) <= Len(StreamLines)
          /\ \A i \in 1 .. Len(p.lines) : StreamLines[i] = p.lines[i]
      <4> DEFINE end == madeOf(stream)[Len(stream)]
                 all == StreamLines
      <4>1. /\ all \in Seq(Seq(Byte)) /\ Len(all) = Len(end.lines) + (IF end.line = << >> THEN 0 ELSE 1)
            /\ Len(p.lines) <= Len(end.lines) /\ end \in Made
            /\ \A i \in 1 .. Len(p.lines) : all[i] = p.lines[i]
        BY <1>1, <2>5, <3>1, StreamIsMade
      <4> HIDE DEF end, p, all
      <4>2. Len(end.lines) \in Nat /\ Len(p.lines) \in Nat /\ Len(all) \in Nat
        BY <2>7, <4>1 DEF Made
      <4>3. Len(p.lines) <= Len(all)
        <5>1. CASE end.line = << >>
          BY <4>1, <4>2, <5>1
        <5>2. CASE end.line # << >>
          BY <4>1, <4>2, <5>2
        <5> QED BY <5>1, <5>2
      <4> QED BY <4>1, <4>3 DEF all
    <3>3. p.lines = Append(m.lines, ml) /\ Len(p.lines) \in 1 .. Len(p.lines) /\ p.lines[Len(p.lines)] = ml
      BY <1>2, <2>6, <2>7
    <3>4. Len(p.lines) \in DOMAIN StreamLines /\ StreamLines[Len(p.lines)] = ml
      <4>1. Len(p.lines) \in Nat /\ Len(p.lines) >= 1
        BY <3>3
      <4> DEFINE all == StreamLines
                 k == Len(p.lines)
      <4>2. all \in Seq(Seq(Byte)) /\ k <= Len(all) /\ k \in Nat /\ k >= 1
        BY <3>2, <4>1
      <4> HIDE DEF all, k, p
      <4>3. k \in DOMAIN all
        BY <4>2
      <4> QED BY <3>2, <3>3, <4>3 DEF all, k
    <3>5. Len(ml) < maxLen
      BY <2>10, <3>4 DEF LinesAreShort
    <3> QED BY <3>5, <2>6, GetLineAssumption DEF isFull
  <2>11. b = "\n" \/ (isFull(l) <=> isFull(ml))
    <3>1. CASE lost
      <4>1. Len(l) <= Len(ml) /\ Len(ml) < maxLen
        BY <1>2, <2>6, <2>9, <2>10, <3>1, GetLineAssumption DEF Follows, EndsIn, isFull
      <4> QED BY <1>2, <2>6, <4>1, GetLineAssumption DEF isFull
    <3>2. CASE ~lost
      BY <2>9, <3>2 DEF Follows
    <3> QED BY <3>1, <3>2
  <2>a. /\ lines \in Seq(Seq(Byte)) /\ m.lines \in Seq(Seq(Byte))
        /\ l \in Seq(Byte) /\ ml \in Seq(Byte)
    BY <1>1, <1>2, <2>6
  <2> HIDE DEF p, l, ml
  <2>12. CASE b = "\n" \/ isFull(ml)
    <3>1. /\ at' = "returned" /\ lines' = Append(lines, l) /\ begun' = << >>
          /\ p.line = << >> /\ p.lines = Append(m.lines, ml)
      BY <2>1, <2>6, <2>7, <2>11, <2>12 DEF Return, begun
    <3>2. Follows(lost, << >>, << >>)
      BY <1>1, EndsInIsSuffix DEF Follows
    <3>3. /\ Len(lines') = Len(p.lines)
          /\ \A i \in 1 .. Len(p.lines) : Follows(lost, lines'[i], p.lines[i])
      <4>1. /\ Len(Append(lines, l)) = Len(Append(m.lines, ml))
            /\ \A i \in 1 .. Len(Append(m.lines, ml)) :
                  Follows(lost, Append(lines, l)[i], Append(m.lines, ml)[i])
        BY <2>8, <2>9, <2>a, OneLineMoreFollows
      <4> QED BY <3>1, <4>1
    <3> QED BY <1>3, <2>1, <2>5, <3>1, <3>2, <3>3, InStepThen
  <2>13. CASE ~(b = "\n" \/ isFull(ml))
    <3>1. at' = "copy" /\ lines' = lines /\ begun' = l /\ p.line = ml /\ p.lines = m.lines
      BY <2>1, <2>7, <2>11, <2>13 DEF begun
    <3> QED BY <1>3, <2>1, <2>5, <2>8, <2>9, <3>1, InStepThen
  <2> QED BY <2>12, <2>13
<1>12. CASE Arrive \/ Close
  <2>1. line' = line /\ lines' = lines /\ lost' = lost /\ at' = at /\ begun' = begun /\ stream' = stream
    BY <1>12 DEF Arrive, Close, begun
  <2>2. ~AtLastLine(m)
    BY <1>12 DEF AtLastLine, AtEnd, Arrive, Close, BytesInv
  <2>3. taken' = taken
    <3>1. CASE Close
      BY <3>1 DEF Close, taken
    <3>2. CASE Arrive
      <4>1. PICK n \in 1 .. Len(unsent) :
               wire' = wire \o SubSeq(unsent, 1, n) /\ unsent' = SubSeq(unsent, n + 1, Len(unsent))
        BY <3>2 DEF Arrive
      <4>2. /\ unsent \in Seq(Byte) /\ wire \in Seq(Byte) /\ n \in Nat /\ n <= Len(unsent)
            /\ Len(unsent) \in Nat /\ Len(wire) \in Nat /\ Len(stream) \in Nat /\ Len(buf) \in Nat
            /\ buf' = buf
        BY <3>2, <4>1, TakenIsMade DEF BytesInv, Arrive
      <4>3. Len(unsent') = Len(unsent) - n
        BY <4>1, <4>2
      <4> DEFINE some == SubSeq(unsent, 1, n)
      <4>4. some \in Seq(Byte) /\ Len(some) = n
        BY <4>2
      <4> HIDE DEF some
      <4>5. Len(wire') = Len(wire) + n
        <5>1. wire' = wire \o some
          BY <4>1 DEF some
        <5>2. Len(wire \o some) = Len(wire) + Len(some)
          <6>1. wire \in Seq(Byte) /\ some \in Seq(Byte)
            BY <4>2, <4>4
          <6> QED BY ONLY <6>1
        <5> QED BY ONLY <4>4, <5>1, <5>2
      <4>6. Len(stream) - (Len(unsent) - n) - (Len(wire) + n) - Len(buf)
              = Len(stream) - Len(unsent) - Len(wire) - Len(buf)
        BY <4>2
      <4> QED BY <2>1, <4>2, <4>3, <4>5, <4>6 DEF taken
    <3> QED BY <1>12, <3>1, <3>2
  <2> QED BY <2>1, <2>2, <2>3, SameLines DEF m
<1>13. CASE UNCHANGED reader
  <2>1. taken' = taken /\ begun' = begun /\ line' = line /\ lines' = lines /\ lost' = lost /\ at' = at
        /\ (AtEnd => AtEnd')
    BY <1>13 DEF reader, taken, begun, AtEnd
  <2> QED BY <1>3, <2>1, SameLines DEF AtLastLine
<1> QED BY <1>7, <1>8, <1>9, <1>10, <1>11, <1>12, <1>13 DEF ReaderNext

\* Wherever the stream is cut into packets and buffers, however often a call
\* gives up, and whatever the sizes of the buffer and of a line: the lines are
\* those of the stream (net.c: getLine).
THEOREM TheLinesAreRead == ReaderSpec => []LinesAreTheStreams
<1>1. ReaderInit => BytesInv /\ LinesInv
  BY ReaderInitInv
<1>2. BytesInv /\ LinesInv /\ [ReaderNext]_reader => (BytesInv /\ LinesInv)'
  BY ReaderKeepsBytes, ReaderKeepsLines
<1>3. BytesInv /\ LinesInv => LinesAreTheStreams
  BY InvReadsTheStream
<1> QED BY <1>1, <1>2, <1>3, PTL DEF ReaderSpec

-----------------------------------------------------------------------------
(* Game files: what a line does to the game.                                   *)

\* A game is a record, whose fields a line may name.
fields == arrays \cup single \cup {"bettingType", "read"}
IsRecord(h) == h = [f \in fields |-> h[f]]

\* What each kind of line does to the record.
typeOf(l) == IF l.field = "nolimit" THEN noLimitBetting ELSE limitBetting

LEMMA BettingLineIs ==
  ASSUME NEW h, IsRecord(h), NEW l, l.field \in betting
  PROVE  /\ IsRecord(readLine(h, l))
         /\ readLine(h, l).bettingType = typeOf(l)
         /\ \A e \in fields \ {"bettingType"} : readLine(h, l)[e] = h[e]
<1> DEFINE n == readLine(h, l)
<1>1. DOMAIN h = fields
  BY DEF IsRecord
<1>2. "bettingType" \in fields
  BY DEF fields
<1>3. n = [h EXCEPT !.bettingType = typeOf(l)]
  <2>1. l.field \notin single /\ l.field \notin counted /\ l.field # "raiseSize"
    BY DEF betting, single, counted
  <2> QED BY <2>1 DEF readLine, typeOf
<1>4. IsRecord(n) /\ \A e \in fields \ {"bettingType"} : n[e] = h[e]
  BY <1>1, <1>2, <1>3 DEF IsRecord
<1>5. n.bettingType = typeOf(l)
  BY <1>1, <1>2, <1>3
<1> QED BY <1>4, <1>5

LEMMA SingleLineIs ==
  ASSUME NEW h, IsRecord(h), NEW l, l.field \in single
  PROVE  /\ IsRecord(readLine(h, l))
         /\ readLine(h, l)[l.field] = IF asStored(l) = << >> THEN h[l.field] ELSE asStored(l)[1]
         /\ \A e \in fields \ {l.field} : readLine(h, l)[e] = h[e]
<1> DEFINE f == l.field
           n == readLine(h, l)
           v == asStored(l)
<1>1. DOMAIN h = fields
  BY DEF IsRecord
<1>2. f \in fields /\ f \notin betting /\ f \notin counted /\ f # "raiseSize"
  BY DEF betting, fields, single, counted
<1>3. n = [h EXCEPT ![f] = IF v = << >> THEN h[f] ELSE v[1]]
  BY <1>2 DEF readLine
<1>4. IsRecord(n)
  BY <1>1, <1>2, <1>3 DEF IsRecord
<1>5. /\ n[f] = IF v = << >> THEN h[f] ELSE v[1]
      /\ \A e \in fields \ {f} : n[e] = h[e]
  BY <1>1, <1>2, <1>3
<1> QED BY <1>4, <1>5

\* The items of a line in their array, with nothing written beyond it.
itemsStored(h, l) ==
    IF l.field \in counted
    THEN [h EXCEPT ![l.field] = readItems(@, asStored(l)),
                   !.read[l.field] = itemsRead(l.field, asStored(l))]
    ELSE [h EXCEPT ![l.field] = readItems(@, asStored(l))]

LEMMA ArrayLineIs ==
  ASSUME NEW h, IsRecord(h), NEW l, l.field \in arrays
  PROVE  /\ readLine(h, l) = IF l.field = "raiseSize" THEN overrun(itemsStored(h, l), asStored(l))
                             ELSE itemsStored(h, l)
         /\ IsRecord(itemsStored(h, l))
         /\ itemsStored(h, l)[l.field] = readItems(h[l.field], asStored(l))
         /\ itemsStored(h, l).read =
               IF l.field \in counted
               THEN [h.read EXCEPT ![l.field] = itemsRead(l.field, asStored(l))] ELSE h.read
         /\ \A e \in fields \ {l.field, "read"} : itemsStored(h, l)[e] = h[e]
<1> DEFINE f == l.field
           n == itemsStored(h, l)
           v == asStored(l)
<1>1. DOMAIN h = fields
  BY DEF IsRecord
<1>2. f \in fields /\ "read" \in fields /\ f # "read" /\ f \notin betting /\ f \notin single
  BY DEF betting, fields, single, arrays, ofPlayers
<1>3. readLine(h, l) = IF f = "raiseSize" THEN overrun(n, v) ELSE n
  <2>1. CASE f = "raiseSize"
    <3>1. readLine(h, l) = overrun([h EXCEPT !.raiseSize = readItems(@, v), !.read[f] = itemsRead(f, v)], v)
      BY <1>2, <2>1 DEF readLine
    <3>2. f \in counted
      BY <2>1 DEF counted
    <3> QED BY <2>1, <3>1, <3>2 DEF itemsStored
  <2>2. CASE f # "raiseSize"
    BY <1>2, <2>2 DEF readLine, itemsStored
  <2> QED BY <2>1, <2>2
<1>4. CASE f \in counted
  <2>1. n = [h EXCEPT ![f] = readItems(h[f], v), !.read[f] = itemsRead(f, v)]
    BY <1>4 DEF itemsStored
  <2>2. IsRecord(n)
    BY <1>1, <1>2, <2>1 DEF IsRecord
  <2>3. /\ n[f] = readItems(h[f], v)
        /\ n.read = [h.read EXCEPT ![f] = itemsRead(f, v)]
        /\ \A e \in fields \ {f, "read"} : n[e] = h[e]
    BY <1>1, <1>2, <2>1
  <2> QED BY <2>2, <2>3, <1>3, <1>4
<1>5. CASE f \notin counted
  <2>1. n = [h EXCEPT ![f] = readItems(h[f], v)]
    BY <1>5 DEF itemsStored
  <2>2. IsRecord(n)
    BY <1>1, <1>2, <2>1 DEF IsRecord
  <2>3. /\ n[f] = readItems(h[f], v)
        /\ n.read = h.read
        /\ \A e \in fields \ {f, "read"} : n[e] = h[e]
    BY <1>1, <1>2, <2>1
  <2> QED BY <2>2, <2>3, <1>3, <1>5
<1> QED BY <1>4, <1>5

\* The lines of FileLine, and those that printGame writes.
AnyLine == [field : arrays \cup single \cup betting, values : Seq(Nat)]

\* The entries of a field's array: for raiseSize not so many as are read (arrayLen).
room(f) == IF f \in ofPlayers THEN MAX_PLAYERS ELSE MAX_ROUNDS
places(f) == 0 .. room(f) - 1

\* Memory that a game is read into: what was read of a field is known, and the
\* bytes among it are bytes.
IsFileGame(h) ==
    /\ IsRecord(h)
    /\ h.bettingType \in Nat
    /\ h.read \in [counted -> Nat]
    /\ \A f \in counted : h.read[f] <= arrayLen(f)
    /\ \A f \in single : h[f] \in 0 .. UINT8_MAX
    /\ \A f \in arrays : h[f] \in [places(f) -> Nat]
    /\ \A f \in arrays \cap ofBytes : \A k \in places(f) :
          (f \in counted => k < h.read[f]) => h[f][k] <= UINT8_MAX

\* Two that have read the same. A type that is none is there after a list that has
\* filled raiseSize[] and more.
SameGame(a, b) ==
    /\ a.bettingType = b.bettingType
    /\ a.read = b.read
    /\ \A f \in single : a[f] = b[f]
    /\ \A f \in arrays : \A k \in places(f) :
          (f \in counted => k < a.read[f]) => a[f][k] = b[f][k]
    /\ ~hasType(a) => \A k \in places("raiseSize") : a.raiseSize[k] = b.raiseSize[k]

\* The kinds of fields, and how many numbers they have.
LEMMA FieldFacts ==
  /\ "bettingType" \in fields /\ "read" \in fields /\ single \subseteq fields /\ arrays \subseteq fields
  /\ "bettingType" \notin single \cup arrays /\ "read" \notin single \cup arrays
  /\ single \cap arrays = {} /\ single \subseteq ofBytes /\ counted \subseteq arrays
  /\ "raiseSize" \in arrays /\ "raiseSize" \in counted /\ "raiseSize" \notin ofPlayers
BY DEF fields, single, arrays, ofPlayers, ofBytes, counted

LEMMA Lengths ==
  /\ MAX_ROUNDS \in 1 .. 4 /\ MAX_PLAYERS \in 1 .. 10 /\ MAX_ROUNDS <= MAX_PLAYERS
  /\ \A f : room(f) \in 1 .. 10 /\ arrayLen(f) \in 1 .. 10 /\ room(f) <= arrayLen(f)
<1>1. MAX_ROUNDS \in 1 .. 4 /\ MAX_PLAYERS \in MAX_ROUNDS .. 10
  BY FileAssumption
<1> QED BY <1>1 DEF room, arrayLen

\* Numbers are stored as they are, or as bytes.
LEMMA StoredIs ==
  ASSUME NEW l \in AnyLine
  PROVE  /\ asStored(l) \in Seq(Nat) /\ Len(asStored(l)) = Len(l.values)
         /\ \A k \in 1 .. Len(l.values) :
               asStored(l)[k] = IF l.field \in ofBytes THEN l.values[k] % 256 ELSE l.values[k]
         /\ l.field \in ofBytes => \A k \in 1 .. Len(l.values) : asStored(l)[k] \in 0 .. 255
<1>1. Len(l.values) \in Nat /\ \A k \in 1 .. Len(l.values) : l.values[k] \in Nat
  BY DEF AnyLine
<1>2. \A k \in 1 .. Len(l.values) :
         asStored(l)[k] = IF l.field \in ofBytes THEN l.values[k] % 256 ELSE l.values[k]
  BY DEF asStored, UINT8_MAX
<1>3. \A x \in Nat : x % 256 \in 0 .. 255
  OBVIOUS
<1>4. \A k \in 1 .. Len(l.values) : asStored(l)[k] \in Nat
  BY <1>1, <1>2, <1>3
<1>5. DOMAIN asStored(l) = 1 .. Len(l.values)
  BY DEF asStored
<1>6. asStored(l) = [k \in 1 .. Len(l.values) |-> asStored(l)[k]]
  BY <1>5 DEF asStored
<1>7. asStored(l) \in [1 .. Len(l.values) -> Nat]
  BY <1>4, <1>6
<1>8. asStored(l) \in Seq(Nat) /\ Len(asStored(l)) = Len(l.values)
  BY <1>1, <1>5, <1>7
<1> QED BY <1>1, <1>2, <1>3, <1>8

\* What readItems and itemsRead do to the array of a field.
LEMMA ItemsAre ==
  ASSUME NEW f \in arrays, NEW a \in [places(f) -> Nat], NEW v \in Seq(Nat)
  PROVE  /\ readItems(a, v) \in [places(f) -> Nat]
         /\ \A k \in places(f) : readItems(a, v)[k] = IF k < Len(v) THEN v[k + 1] ELSE a[k]
         /\ itemsRead(f, v) \in 0 .. arrayLen(f) /\ itemsRead(f, v) <= Len(v)
<1>1. room(f) \in Nat /\ arrayLen(f) \in Nat
  BY Lengths
<1>2. Len(v) \in Nat /\ \A k \in 1 .. Len(v) : v[k] \in Nat
  OBVIOUS
<1>3. DOMAIN a = places(f)
  OBVIOUS
<1>4. \A k \in places(f) : k \in Nat /\ (k < Len(v) => k + 1 \in 1 .. Len(v))
  BY <1>1, <1>2 DEF places
<1>5. \A k \in places(f) : readItems(a, v)[k] = IF k < Len(v) THEN v[k + 1] ELSE a[k]
  BY <1>3 DEF readItems
<1>6. \A k \in places(f) : (IF k < Len(v) THEN v[k + 1] ELSE a[k]) \in Nat
  BY <1>2, <1>4
<1>7. readItems(a, v) \in [places(f) -> Nat]
  BY <1>3, <1>6 DEF readItems
<1> QED BY <1>1, <1>2, <1>5, <1>7 DEF itemsRead

\* The first byte of each field behind bettingType, and what an overrun makes of it.
offset(f) == CASE f = "numPlayers" -> 0
               [] f = "numRounds" -> 1
               [] f = "firstPlayer" -> 2
               [] f = "maxRaises" -> 2 + MAX_ROUNDS
               [] f = "numSuits" -> 2 + 2 * MAX_ROUNDS
               [] f = "numRanks" -> 3 + 2 * MAX_ROUNDS
               [] f = "numHoleCards" -> 4 + 2 * MAX_ROUNDS
               [] f = "numBoardCards" -> 5 + 2 * MAX_ROUNDS

LEMMA Offsets ==
  \A f \in ofBytes : offset(f) \in Nat
<1>1. MAX_ROUNDS \in Nat
  BY Lengths
<1> QED BY <1>1 DEF ofBytes, single, offset

LEMMA ByteIs ==
  ASSUME NEW v \in Seq(Nat), NEW i \in Nat, NEW old
  PROVE  byteAt(v, i, old) = old \/ byteAt(v, i, old) \in 0 .. 255
<1> DEFINE k == MAX_ROUNDS + 2 + i \div 4
<1>1. CASE k <= itemsRead("raiseSize", v)
  <2>1. k \in 1 .. Len(v)
    <3>1. itemsRead("raiseSize", v) <= Len(v) /\ Len(v) \in Nat /\ itemsRead("raiseSize", v) \in Nat
      BY Lengths DEF itemsRead
    <3>2. k \in Nat /\ k >= 1
      BY Lengths
    <3> HIDE DEF k
    <3> QED BY <1>1, <3>1, <3>2
  <2>2. v[k] \in Nat
    BY <2>1
  <2>3. ASSUME NEW w \in Nat PROVE byteOf(w, i) \in 0 .. 255
    <3>1. i % 4 = 0 \/ i % 4 = 1 \/ i % 4 = 2 \/ i % 4 = 3
      OBVIOUS
    <3>2. <<1, 256, 65536, 16777216>>[(i % 4) + 1] \in {1, 256, 65536, 16777216}
      BY <3>1
    <3>3. ASSUME NEW d \in {1, 256, 65536, 16777216} PROVE (w \div d) % 256 \in 0 .. 255
      <4>1. w \div d \in Int
        BY <3>3
      <4> QED BY <4>1
    <3>4. PICK d \in {1, 256, 65536, 16777216} : d = <<1, 256, 65536, 16777216>>[(i % 4) + 1]
      BY <3>2
    <3>5. byteOf(w, i) = (w \div d) % 256
      BY <3>4 DEF byteOf, UINT8_MAX
    <3> QED BY <3>3, <3>5
  <2> QED BY <1>1, <2>2, <2>3 DEF byteAt
<1>2. CASE ~(k <= itemsRead("raiseSize", v))
  BY <1>2 DEF byteAt
<1> QED BY <1>1, <1>2

LEMMA OverrunIs ==
  ASSUME NEW h, IsRecord(h), NEW v, ~(itemsRead("raiseSize", v) <= MAX_ROUNDS)
  PROVE  /\ IsRecord(overrun(h, v))
         /\ overrun(h, v).bettingType = v[MAX_ROUNDS + 1]
         /\ overrun(h, v).read = h.read
         /\ \A f \in single : overrun(h, v)[f] = byteAt(v, offset(f), h[f])
         /\ \A f \in arrays \cap ofBytes :
               overrun(h, v)[f] = [r \in rounds |-> byteAt(v, offset(f) + r, h[f][r])]
         /\ \A f \in arrays \ ofBytes : overrun(h, v)[f] = h[f]
<1> DEFINE n == overrun(h, v)
<1>1. DOMAIN h = fields
  BY DEF IsRecord
<1>2. n = [h EXCEPT
             !.bettingType = v[MAX_ROUNDS + 1],
             !.numPlayers = byteAt(v, 0, @), !.numRounds = byteAt(v, 1, @),
             !.firstPlayer = [r \in rounds |-> byteAt(v, 2 + r, @[r])],
             !.maxRaises = [r \in rounds |-> byteAt(v, 2 + MAX_ROUNDS + r, @[r])],
             !.numSuits = byteAt(v, 2 + 2 * MAX_ROUNDS, @),
             !.numRanks = byteAt(v, 3 + 2 * MAX_ROUNDS, @),
             !.numHoleCards = byteAt(v, 4 + 2 * MAX_ROUNDS, @),
             !.numBoardCards = [r \in rounds |-> byteAt(v, 5 + 2 * MAX_ROUNDS + r, @[r])]]
  BY DEF overrun
<1>3. fields = {"stack", "blind", "raiseSize", "firstPlayer", "maxRaises", "numBoardCards",
                "numPlayers", "numRounds", "numSuits", "numRanks", "numHoleCards",
                "bettingType", "read"}
  BY DEF fields, arrays, ofPlayers, single
<1>4. IsRecord(n)
  BY <1>1, <1>2 DEF IsRecord
<1>5. n.bettingType = v[MAX_ROUNDS + 1] /\ n.read = h.read
  BY <1>1, <1>2, <1>3
<1>6. /\ n.numPlayers = byteAt(v, 0, h.numPlayers) /\ n.numRounds = byteAt(v, 1, h.numRounds)
      /\ n.numSuits = byteAt(v, 2 + 2 * MAX_ROUNDS, h.numSuits)
      /\ n.numRanks = byteAt(v, 3 + 2 * MAX_ROUNDS, h.numRanks)
      /\ n.numHoleCards = byteAt(v, 4 + 2 * MAX_ROUNDS, h.numHoleCards)
  BY <1>1, <1>2, <1>3
<1>7. /\ n.firstPlayer = [r \in rounds |-> byteAt(v, 2 + r, h.firstPlayer[r])]
      /\ n.maxRaises = [r \in rounds |-> byteAt(v, 2 + MAX_ROUNDS + r, h.maxRaises[r])]
      /\ n.numBoardCards = [r \in rounds |-> byteAt(v, 5 + 2 * MAX_ROUNDS + r, h.numBoardCards[r])]
  BY <1>1, <1>2, <1>3
<1>8. n.stack = h.stack /\ n.blind = h.blind /\ n.raiseSize = h.raiseSize
  BY <1>1, <1>2, <1>3
<1> HIDE DEF n
<1>9. \A f \in single : n[f] = byteAt(v, offset(f), h[f])
  BY <1>6 DEF single, offset
<1>10. arrays \cap ofBytes = {"firstPlayer", "maxRaises", "numBoardCards"}
       /\ arrays \ ofBytes = {"stack", "blind", "raiseSize"}
  BY DEF arrays, ofPlayers, ofBytes, single
<1>11. \A f \in arrays \cap ofBytes : n[f] = [r \in rounds |-> byteAt(v, offset(f) + r, h[f][r])]
  BY <1>7, <1>10 DEF offset
<1>12. \A f \in arrays \ ofBytes : n[f] = h[f]
  BY <1>8, <1>10
<1> QED BY <1>4, <1>5, <1>9, <1>11, <1>12 DEF n

LEMMA NoOverrun ==
  ASSUME NEW h, NEW v, itemsRead("raiseSize", v) <= MAX_ROUNDS
  PROVE  overrun(h, v) = h
BY DEF overrun

LEMMA BytesAreSmall ==
  ASSUME NEW b \in 0 .. 255 PROVE b \in Nat /\ b <= UINT8_MAX
BY DEF UINT8_MAX

\* An overrun leaves a game, and the same of the same.
LEMMA OverrunIsGame ==
  ASSUME NEW h, IsFileGame(h), NEW v \in Seq(Nat)
  PROVE  IsFileGame(overrun(h, v))
<1> DEFINE n == overrun(h, v)
<1>1. CASE itemsRead("raiseSize", v) <= MAX_ROUNDS
  BY <1>1, NoOverrun
<1>2. CASE ~(itemsRead("raiseSize", v) <= MAX_ROUNDS)
  <2>1. /\ IsRecord(n) /\ n.bettingType = v[MAX_ROUNDS + 1] /\ n.read = h.read
        /\ \A f \in single : n[f] = byteAt(v, offset(f), h[f])
        /\ \A f \in arrays \cap ofBytes :
              n[f] = [r \in rounds |-> byteAt(v, offset(f) + r, h[f][r])]
        /\ \A f \in arrays \ ofBytes : n[f] = h[f]
    BY <1>2, OverrunIs DEF IsFileGame
  <2> HIDE DEF n
  <2>2. n.bettingType \in Nat
    <3>1. MAX_ROUNDS + 1 \in 1 .. Len(v)
      BY <1>2, Lengths DEF itemsRead
    <3>2. v[MAX_ROUNDS + 1] \in Nat
      BY <3>1
    <3> QED BY <2>1, <3>2
  <2>3. \A f \in single : n[f] \in 0 .. UINT8_MAX
    <3> TAKE f \in single
    <3>1. offset(f) \in Nat /\ h[f] \in 0 .. 255
      BY Offsets, FieldFacts DEF IsFileGame, UINT8_MAX
    <3>2. byteAt(v, offset(f), h[f]) = h[f] \/ byteAt(v, offset(f), h[f]) \in 0 .. 255
      BY <3>1, ByteIs
    <3> QED BY <2>1, <3>1, <3>2 DEF UINT8_MAX
  <2>4. ASSUME NEW f \in arrays \cap ofBytes
        PROVE  /\ n[f] \in [places(f) -> Nat]
               /\ \A k \in places(f) : (f \in counted => k < n.read[f]) => n[f][k] <= UINT8_MAX
    <3>1. places(f) = rounds /\ \A r \in rounds : r \in Nat
      BY Lengths DEF places, room, rounds, arrays, ofPlayers, ofBytes, single
    <3>2. h[f] \in [rounds -> Nat]
      BY <3>1 DEF IsFileGame
    <3>3. \A r \in rounds : n[f][r] = h[f][r] \/ n[f][r] \in 0 .. 255
      <4>1. ASSUME NEW r \in rounds PROVE n[f][r] = h[f][r] \/ n[f][r] \in 0 .. 255
        <5>1. offset(f) + r \in Nat
          BY <3>1, Offsets
        <5>2. n[f][r] = byteAt(v, offset(f) + r, h[f][r])
          BY <2>1
        <5> QED BY <5>1, <5>2, ByteIs
      <4> QED BY <4>1
    <3>4. n[f] = [r \in rounds |-> n[f][r]]
      BY <2>1
    <3>5. ASSUME NEW r \in rounds PROVE n[f][r] \in Nat
      <4>1. h[f][r] \in Nat
        BY <3>2
      <4>2. CASE n[f][r] = h[f][r]
        BY <4>1, <4>2
      <4>3. CASE n[f][r] \in 0 .. 255
        BY <4>3, BytesAreSmall, ZenonT(30)
      <4> QED BY <4>2, <4>3, <3>3
    <3>6. n[f] \in [rounds -> Nat]
      BY <3>4, <3>5
    <3>7. \A k \in rounds : (f \in counted => k < h.read[f]) => h[f][k] <= UINT8_MAX
      BY <3>1 DEF IsFileGame
    <3>8. ASSUME NEW k \in rounds, f \in counted => k < n.read[f] PROVE n[f][k] <= UINT8_MAX
      <4>1. h[f][k] <= UINT8_MAX /\ (n[f][k] = h[f][k] \/ n[f][k] \in 0 .. 255)
        BY <3>3, <3>7, <3>8, <2>1
      <4>2. CASE n[f][k] = h[f][k]
        BY <4>1, <4>2
      <4>3. CASE n[f][k] \in 0 .. 255
        BY <4>3, BytesAreSmall, ZenonT(30)
      <4> QED BY <4>1, <4>2, <4>3
    <3> QED BY <3>1, <3>6, <3>8
  <2>5. /\ n.read \in [counted -> Nat]
        /\ \A f \in counted : n.read[f] <= arrayLen(f)
        /\ \A f \in arrays \ ofBytes : n[f] \in [places(f) -> Nat]
    BY <2>1 DEF IsFileGame
  <2> QED BY <2>1, <2>2, <2>3, <2>4, <2>5 DEF IsFileGame, n
<1> QED BY <1>1, <1>2

LEMMA OverrunSame ==
  ASSUME NEW a, NEW b, IsFileGame(a), IsFileGame(b), SameGame(a, b), NEW v \in Seq(Nat),
         a.read["raiseSize"] = itemsRead("raiseSize", v)
  PROVE  SameGame(overrun(a, v), overrun(b, v))
<1> DEFINE x == overrun(a, v)
           y == overrun(b, v)
<1>1. CASE itemsRead("raiseSize", v) <= MAX_ROUNDS
  BY <1>1, NoOverrun
<1>2. CASE ~(itemsRead("raiseSize", v) <= MAX_ROUNDS)
  <2>1. /\ x.bettingType = v[MAX_ROUNDS + 1] /\ x.read = a.read
        /\ \A f \in single : x[f] = byteAt(v, offset(f), a[f])
        /\ \A f \in arrays \cap ofBytes :
              x[f] = [r \in rounds |-> byteAt(v, offset(f) + r, a[f][r])]
        /\ \A f \in arrays \ ofBytes : x[f] = a[f]
    BY <1>2, OverrunIs DEF IsFileGame
  <2>2. /\ y.bettingType = v[MAX_ROUNDS + 1] /\ y.read = b.read
        /\ \A f \in single : y[f] = byteAt(v, offset(f), b[f])
        /\ \A f \in arrays \cap ofBytes :
              y[f] = [r \in rounds |-> byteAt(v, offset(f) + r, b[f][r])]
        /\ \A f \in arrays \ ofBytes : y[f] = b[f]
    BY <1>2, OverrunIs DEF IsFileGame
  <2> HIDE DEF x, y
  <2>3. x.bettingType = y.bettingType /\ x.read = y.read /\ \A f \in single : x[f] = y[f]
    BY <2>1, <2>2 DEF SameGame
  <2>4. ASSUME NEW f \in arrays, NEW k \in places(f), f \in counted => k < x.read[f]
        PROVE  x[f][k] = y[f][k]
    <3>1. a[f][k] = b[f][k]
      BY <2>1, <2>4 DEF SameGame
    <3>2. CASE f \in ofBytes
      <4>1. k \in rounds
        BY <3>2 DEF places, room, rounds, arrays, ofPlayers, ofBytes, single
      <4>2. /\ x[f] = [j \in rounds |-> byteAt(v, offset(f) + j, a[f][j])]
            /\ y[f] = [j \in rounds |-> byteAt(v, offset(f) + j, b[f][j])]
        BY <3>2, <2>1, <2>2
      <4>3. x[f][k] = byteAt(v, offset(f) + k, a[f][k]) /\ y[f][k] = byteAt(v, offset(f) + k, b[f][k])
        BY <4>1, <4>2
      <4> QED BY <4>3, <3>1
    <3>3. CASE f \notin ofBytes
      BY <3>1, <3>3, <2>1, <2>2
    <3> QED BY <3>2, <3>3
  <2>5. \A k \in places("raiseSize") : x.raiseSize[k] = y.raiseSize[k]
    <3>1. \A k \in places("raiseSize") : k < x.read["raiseSize"]
      BY <1>2, <2>1, Lengths DEF places, room, ofPlayers, itemsRead
    <3> QED BY <3>1, <2>4, FieldFacts
  <2> QED BY <2>3, <2>4, <2>5 DEF SameGame, x, y
<1> QED BY <1>1, <1>2

\* So do the items in their array.
LEMMA StoredIsGame ==
  ASSUME NEW h, IsFileGame(h), NEW l \in AnyLine, l.field \in arrays
  PROVE  IsFileGame(itemsStored(h, l))
<1> DEFINE f == l.field
           v == asStored(l)
           o == itemsStored(h, l)
<1>20. IsRecord(h)
  BY DEF IsFileGame
<1>21. v \in Seq(Nat) /\ (f \in ofBytes => \A k \in 1 .. Len(v) : v[k] \in 0 .. 255)
  BY StoredIs
<1>1. /\ IsRecord(o) /\ o[f] = readItems(h[f], v)
      /\ o.read = IF f \in counted THEN [h.read EXCEPT ![f] = itemsRead(f, v)] ELSE h.read
      /\ \A e \in fields \ {f, "read"} : o[e] = h[e]
  BY <1>20, ArrayLineIs
<1> HIDE DEF o
<1>2. o.bettingType = h.bettingType /\ \A e \in single : o[e] = h[e]
  BY <1>1, FieldFacts
<1>3. /\ o[f] \in [places(f) -> Nat]
      /\ \A k \in places(f) : o[f][k] = IF k < Len(v) THEN v[k + 1] ELSE h[f][k]
      /\ itemsRead(f, v) \in 0 .. arrayLen(f) /\ itemsRead(f, v) <= Len(v)
  <2>1. h[f] \in [places(f) -> Nat] /\ v \in Seq(Nat)
    BY <1>21 DEF IsFileGame
  <2> HIDE DEF v
  <2>2. /\ readItems(h[f], v) \in [places(f) -> Nat]
        /\ \A k \in places(f) : readItems(h[f], v)[k] = IF k < Len(v) THEN v[k + 1] ELSE h[f][k]
        /\ itemsRead(f, v) \in 0 .. arrayLen(f) /\ itemsRead(f, v) <= Len(v)
    BY <2>1, ItemsAre
  <2> QED BY <2>2, <1>1
<1>4. room(f) \in Nat /\ arrayLen(f) \in Nat /\ Len(v) \in Nat
  BY Lengths, StoredIs
<1>5. /\ o.read \in [counted -> Nat] /\ \A e \in counted : o.read[e] <= arrayLen(e)
      /\ \A e \in counted \ {f} : o.read[e] = h.read[e]
      /\ f \in counted => o.read[f] <= Len(v)
  BY <1>1, <1>3, <1>4 DEF IsFileGame
<1>6. ASSUME f \in ofBytes, NEW k \in places(f), f \in counted => k < o.read[f]
      PROVE  o[f][k] <= UINT8_MAX
  <2>1. k \in Nat
    BY <1>4 DEF places
  <2>2. CASE k < Len(v)
    <3>1. k + 1 \in 1 .. Len(v)
      BY <2>1, <2>2, <1>4
    <3>2. o[f][k] = v[k + 1] /\ v[k + 1] \in 0 .. 255
      BY <3>1, <2>2, <1>3, <1>6, <1>21
    <3> QED BY <3>2 DEF UINT8_MAX
  <2>3. CASE ~(k < Len(v))
    <3>1. f \notin counted
      BY <2>1, <2>3, <1>4, <1>5, <1>6
    <3> QED BY <3>1, <2>3, <1>3, <1>6 DEF IsFileGame
  <2> QED BY <2>2, <2>3
<1>7. \A e \in arrays \ {f} : o[e] = h[e]
  BY <1>1, FieldFacts
<1>8. \A e \in arrays : o[e] \in [places(e) -> Nat]
  BY <1>3, <1>7 DEF IsFileGame
<1>9. \A e \in arrays \cap ofBytes : \A k \in places(e) :
         (e \in counted => k < o.read[e]) => o[e][k] <= UINT8_MAX
  BY <1>5, <1>6, <1>7 DEF IsFileGame
<1>10. o.bettingType \in Nat /\ \A e \in single : o[e] \in 0 .. UINT8_MAX
  BY <1>2 DEF IsFileGame
<1>11. o.read \in [counted -> Nat] /\ \A e \in counted : o.read[e] <= arrayLen(e)
  BY <1>5
<1>12. IsFileGame(o)
  BY ONLY <1>1, <1>8, <1>9, <1>10, <1>11 DEF IsFileGame
<1> QED BY <1>12 DEF o

\* Every line leaves a game.
LEMMA ReadIsGame ==
  ASSUME NEW h, IsFileGame(h), NEW l \in AnyLine
  PROVE  IsFileGame(readLine(h, l))
<1> DEFINE f == l.field
           n == readLine(h, l)
           v == asStored(l)
<1> SUFFICES IsFileGame(n)
  OBVIOUS
<1>0. f \in arrays \cup single \cup betting
  BY DEF AnyLine
<1>1. IsRecord(h)
  BY DEF IsFileGame
<1>2. v \in Seq(Nat) /\ (f \in ofBytes => \A k \in 1 .. Len(v) : v[k] \in 0 .. 255)
  BY StoredIs
<1>4. CASE f \in betting
  <2>1. /\ IsRecord(n) /\ n.bettingType \in Nat
        /\ \A e \in fields \ {"bettingType"} : n[e] = h[e]
    BY <1>1, <1>4, BettingLineIs DEF typeOf, noLimitBetting, limitBetting
  <2>2. n.read = h.read
    BY <2>1, FieldFacts
  <2> QED BY <2>1, <2>2, FieldFacts DEF IsFileGame
<1>5. CASE f \in single
  <2>1. /\ IsRecord(n)
        /\ n[f] = IF v = << >> THEN h[f] ELSE v[1]
        /\ \A e \in fields \ {f} : n[e] = h[e]
    BY <1>1, <1>5, SingleLineIs
  <2>2. n.read = h.read /\ n.bettingType = h.bettingType
    BY <2>1, FieldFacts, <1>5
  <2>3. n[f] \in 0 .. UINT8_MAX
    <3>1. v = << >> \/ 1 \in 1 .. Len(v)
      <4> HIDE DEF v
      <4> QED BY <1>2
    <3>2. v # << >> => v[1] \in 0 .. 255
      BY <3>1, <1>2, FieldFacts, <1>5
    <3> QED BY <3>2, <2>1, <1>5 DEF IsFileGame, UINT8_MAX
  <2> HIDE DEF n
  <2>4. \A e \in arrays : n[e] = h[e]
    BY <2>1, FieldFacts, <1>5
  <2>5. \A e \in single : n[e] \in 0 .. UINT8_MAX
    BY <2>1, <2>3, FieldFacts DEF IsFileGame
  <2>6. /\ n.bettingType \in Nat
        /\ n.read \in [counted -> Nat]
        /\ \A e \in counted : n.read[e] <= arrayLen(e)
        /\ \A e \in arrays : n[e] \in [places(e) -> Nat]
        /\ \A e \in arrays \cap ofBytes : \A k \in places(e) :
              (e \in counted => k < n.read[e]) => n[e][k] <= UINT8_MAX
    BY <2>2, <2>4 DEF IsFileGame
  <2> QED BY ONLY <2>1, <2>5, <2>6 DEF IsFileGame
<1>6. CASE f \in arrays
  <2>1. n = IF f = "raiseSize" THEN overrun(itemsStored(h, l), v) ELSE itemsStored(h, l)
    BY <1>1, <1>6, ArrayLineIs
  <2> HIDE DEF n, v
  <2> QED BY <2>1, <1>2, <1>6, StoredIsGame, OverrunIsGame
<1> QED BY <1>0, <1>4, <1>5, <1>6

\* The same line leaves the same game.
LEMMA ReadSame ==
  ASSUME NEW a, NEW b, IsFileGame(a), IsFileGame(b), SameGame(a, b), NEW l \in AnyLine
  PROVE  SameGame(readLine(a, l), readLine(b, l))
<1> DEFINE f == l.field
           x == readLine(a, l)
           y == readLine(b, l)
           v == asStored(l)
<1> SUFFICES SameGame(x, y)
  OBVIOUS
<1>1. f \in arrays \cup single \cup betting /\ IsRecord(a) /\ IsRecord(b)
  BY DEF AnyLine, IsFileGame
<1>2. CASE f \in betting
  <2>1. x.bettingType = y.bettingType /\ hasType(x)
    BY <1>1, <1>2, BettingLineIs DEF typeOf, hasType
  <2>2. \A e \in fields \ {"bettingType"} : x[e] = a[e] /\ y[e] = b[e]
    BY <1>1, <1>2, BettingLineIs
  <2> HIDE DEF x, y
  <2>3. /\ x.read = a.read /\ y.read = b.read
        /\ \A e \in single \cup arrays : x[e] = a[e] /\ y[e] = b[e]
    BY <2>2, FieldFacts
  <2> QED BY <2>1, <2>3 DEF SameGame
<1>3. CASE f \in single
  <2>1. x[f] = y[f]
    <3>1. a[f] = b[f]
      BY <1>3 DEF SameGame
    <3> QED BY <3>1, <1>1, <1>3, SingleLineIs
  <2>2. \A e \in fields \ {f} : x[e] = a[e] /\ y[e] = b[e]
    BY <1>1, <1>3, SingleLineIs
  <2> HIDE DEF x, y
  <2>3. /\ x.bettingType = a.bettingType /\ y.bettingType = b.bettingType
        /\ x.read = a.read /\ y.read = b.read
        /\ \A e \in arrays : x[e] = a[e] /\ y[e] = b[e]
        /\ \A e \in single \ {f} : x[e] = a[e] /\ y[e] = b[e]
    BY <2>2, <1>3, FieldFacts
  <2>4. x.raiseSize = a.raiseSize /\ y.raiseSize = b.raiseSize /\ (hasType(x) <=> hasType(a))
    BY <2>3, FieldFacts DEF hasType
  <2> QED BY <2>1, <2>3, <2>4 DEF SameGame
<1>4. CASE f \in arrays
  <2> DEFINE c == itemsStored(a, l)
             d == itemsStored(b, l)
  <2>1. /\ c[f] = readItems(a[f], v) /\ d[f] = readItems(b[f], v)
        /\ c.read = IF f \in counted THEN [a.read EXCEPT ![f] = itemsRead(f, v)] ELSE a.read
        /\ d.read = IF f \in counted THEN [b.read EXCEPT ![f] = itemsRead(f, v)] ELSE b.read
        /\ x = IF f = "raiseSize" THEN overrun(c, v) ELSE c
        /\ y = IF f = "raiseSize" THEN overrun(d, v) ELSE d
    BY <1>1, <1>4, ArrayLineIs
  <2>2. \A e \in fields \ {f, "read"} : c[e] = a[e] /\ d[e] = b[e]
    BY <1>1, <1>4, ArrayLineIs
  <2>3. /\ v \in Seq(Nat) /\ a[f] \in [places(f) -> Nat] /\ b[f] \in [places(f) -> Nat]
    BY <1>4, StoredIs DEF IsFileGame
  <2>4. /\ \A k \in places(f) : c[f][k] = IF k < Len(v) THEN v[k + 1] ELSE a[f][k]
        /\ \A k \in places(f) : d[f][k] = IF k < Len(v) THEN v[k + 1] ELSE b[f][k]
        /\ itemsRead(f, v) <= Len(v) /\ itemsRead(f, v) \in Nat
    <3>1. arrayLen(f) \in Nat
      BY Lengths
    <3>2. /\ \A k \in places(f) : readItems(a[f], v)[k] = IF k < Len(v) THEN v[k + 1] ELSE a[f][k]
          /\ \A k \in places(f) : readItems(b[f], v)[k] = IF k < Len(v) THEN v[k + 1] ELSE b[f][k]
          /\ itemsRead(f, v) \in 0 .. arrayLen(f) /\ itemsRead(f, v) <= Len(v)
      <4> HIDE DEF v
      <4> QED BY <2>3, <1>4, ItemsAre
    <3> QED BY <3>1, <3>2, <2>1
  <2>5. a.read \in [counted -> Nat] /\ a.read = b.read
    BY DEF IsFileGame, SameGame
  <2>7. IsFileGame(c) /\ IsFileGame(d)
    BY <1>4, StoredIsGame
  <2> HIDE DEF x, y, v, c, d
  <2>8. /\ c.bettingType = a.bettingType /\ d.bettingType = b.bettingType
        /\ \A e \in single : c[e] = a[e] /\ d[e] = b[e]
        /\ \A e \in arrays \ {f} : c[e] = a[e] /\ d[e] = b[e]
    BY <2>2, <1>4, FieldFacts
  <2>9. c.read = d.read /\ \A e \in counted \ {f} : c.read[e] = a.read[e]
    BY <2>1, <2>5
  <2>10. f \in counted => c.read[f] = itemsRead(f, v)
    BY <2>1, <2>5
  <2>11. ASSUME NEW k \in places(f), f \in counted => k < c.read[f] PROVE c[f][k] = d[f][k]
    <3>1. k \in Nat /\ Len(v) \in Nat
      BY <2>3, Lengths DEF places
    <3>2. CASE f \in counted
      BY <3>1, <3>2, <2>4, <2>10, <2>11
    <3>3. CASE f \notin counted
      <4>1. a[f][k] = b[f][k]
        BY <3>3, <1>4 DEF SameGame
      <4> QED BY <4>1, <2>4
    <3> QED BY <3>2, <3>3
  <2>12. \A e \in arrays : \A k \in places(e) :
           (e \in counted => k < c.read[e]) => c[e][k] = d[e][k]
    <3>1. ASSUME NEW e \in arrays \ {f}, NEW k \in places(e), e \in counted => k < c.read[e]
          PROVE  c[e][k] = d[e][k]
      BY <3>1, <2>8, <2>9 DEF SameGame
    <3> QED BY <3>1, <2>11
  <2>13. ~hasType(c) => \A k \in places("raiseSize") : c.raiseSize[k] = d.raiseSize[k]
    <3>1. ASSUME ~hasType(c), NEW k \in places("raiseSize") PROVE c.raiseSize[k] = d.raiseSize[k]
      <4>1. a.raiseSize[k] = b.raiseSize[k]
        BY <3>1, <2>8 DEF SameGame, hasType
      <4>2. CASE f = "raiseSize"
        BY <4>1, <4>2, <2>4
      <4>3. CASE f # "raiseSize"
        BY <4>1, <4>3, <2>8, FieldFacts
      <4> QED BY <4>2, <4>3
    <3> QED BY <3>1
  <2>14. SameGame(c, d)
    BY <2>8, <2>9, <2>12, <2>13 DEF SameGame
  <2>15. CASE f = "raiseSize"
    <3>1. c.read["raiseSize"] = itemsRead("raiseSize", v)
      BY <2>10, <2>15, FieldFacts
    <3> QED BY <3>1, <2>1, <2>3, <2>7, <2>14, <2>15, OverrunSame
  <2>16. CASE f # "raiseSize"
    BY <2>1, <2>14, <2>16
  <2> QED BY <2>15, <2>16
<1> QED BY <1>1, <1>2, <1>3, <1>4

\* What readGame begins with.
LEMMA NewIsGame ==
  ASSUME NEW m \in Nat
  PROVE  /\ IsFileGame(newGame(m))
         /\ \A n \in Nat : SameGame(newGame(m), newGame(n))
<1> USE DEF newGame, newGameWith
<1>1. /\ MAX_PLAYERS \in Nat /\ MAX_ROUNDS \in Nat /\ MAX_ROUNDS <= MAX_PLAYERS /\ INT32_MAX \in Nat
      /\ 1 <= MAX_ROUNDS
  BY Lengths, Int32Assumption
<1>2. IsRecord(newGame(m))
  BY DEF IsRecord, fields, arrays, ofPlayers, single
<1>3. /\ newGame(m).bettingType \in Nat /\ newGame(m).read \in [counted -> Nat]
      /\ \A f \in counted : newGame(m).read[f] <= arrayLen(f)
  BY <1>1 DEF counted, arrayLen, ofPlayers, limitBetting
<1>4. \A f \in single : newGame(m)[f] \in 0 .. UINT8_MAX
  BY DEF single, UINT8_MAX
<1>5. \A f \in arrays : newGame(m)[f] \in [places(f) -> Nat]
  BY <1>1 DEF arrays, ofPlayers, places, room, seats, rounds, UINT8_MAX
<1>6. \A f \in arrays \cap ofBytes : \A k \in places(f) :
         (f \in counted => k < newGame(m).read[f]) => newGame(m)[f][k] <= UINT8_MAX
  BY <1>1 DEF arrays, ofPlayers, ofBytes, single, counted, places, room, seats, rounds, UINT8_MAX
<1>7. ASSUME NEW n \in Nat PROVE SameGame(newGame(m), newGame(n))
  <2> DEFINE a == newGame(m)
             b == newGame(n)
  <2>1. /\ a.bettingType = b.bettingType /\ a.read = b.read /\ \A f \in single : a[f] = b[f]
        /\ hasType(a)
    BY DEF single, hasType
  <2>2. \A f \in arrays : \A k \in places(f) :
           (f \in counted => k < a.read[f]) => a[f][k] = b[f][k]
    BY <1>1 DEF arrays, ofPlayers, counted, places, room, seats, rounds
  <2> QED BY <2>1, <2>2 DEF SameGame
<1> QED BY <1>2, <1>3, <1>4, <1>5, <1>6, <1>7 DEF IsFileGame

\* What an accepted game has is known.
LEMMA AcceptedIsKnown ==
  ASSUME NEW a, IsFileGame(a), accepted(a)
  PROVE  /\ a.numPlayers \in 2 .. 10 /\ a.numRounds \in 1 .. 4
         /\ a.numPlayers <= MAX_PLAYERS /\ a.numRounds <= MAX_ROUNDS
         /\ \A f \in ofPlayers : \A p \in 0 .. a.numPlayers - 1 :
               p \in places(f) /\ p < a.read[f] /\ a[f][p] \in Nat
         /\ \A f \in arrays \ ofPlayers : \A r \in 0 .. a.numRounds - 1 :
               /\ r \in places(f) /\ a[f][r] \in Nat
               /\ f \in counted /\ (f = "raiseSize" => a.bettingType = limitBetting) => r < a.read[f]
<1>1. /\ a.numPlayers \in 2 .. MAX_PLAYERS /\ a.numRounds \in 1 .. MAX_ROUNDS
      /\ a.read["stack"] >= a.numPlayers /\ a.read["blind"] >= a.numPlayers
      /\ a.bettingType = limitBetting => a.read["raiseSize"] >= a.numRounds
      /\ a.read["numBoardCards"] >= a.numRounds
  BY DEF accepted
<1>2. /\ MAX_PLAYERS \in Nat /\ MAX_PLAYERS <= 10 /\ MAX_ROUNDS \in 1 .. 4
  BY Lengths
<1>3. /\ \A f \in arrays : a[f] \in [places(f) -> Nat]
      /\ \A f \in counted : a.read[f] \in Nat
  BY DEF IsFileGame
<1>4. ASSUME NEW f \in ofPlayers, NEW p \in 0 .. a.numPlayers - 1
      PROVE  p \in places(f) /\ p < a.read[f] /\ a[f][p] \in Nat
  <2>1. f \in arrays /\ f \in counted /\ (f = "stack" \/ f = "blind")
    BY DEF arrays, ofPlayers, counted
  <2>2. p \in places(f)
    BY <1>1, <1>2 DEF places, room
  <2>3. p < a.read[f]
    BY <2>1, <1>1, <1>2, <1>3
  <2> QED BY <2>1, <2>2, <2>3, <1>3
<1>5. ASSUME NEW f \in arrays \ ofPlayers, NEW r \in 0 .. a.numRounds - 1
      PROVE  /\ r \in places(f) /\ a[f][r] \in Nat
             /\ f \in counted /\ (f = "raiseSize" => a.bettingType = limitBetting) => r < a.read[f]
  <2>1. r \in places(f)
    BY <1>1, <1>2 DEF places, room
  <2>2. ASSUME f \in counted, f = "raiseSize" => a.bettingType = limitBetting PROVE r < a.read[f]
    <3>1. f = "raiseSize" \/ f = "numBoardCards"
      BY <2>2 DEF counted, ofPlayers
    <3> QED BY <3>1, <2>2, <1>1, <1>2, <1>3
  <2> QED BY <2>1, <2>2, <1>3
<1> QED BY <1>1, <1>2, <1>4, <1>5

\* What a program looks at of a field, h has as the accepted game a has it.
ownPlaces(a, f) == IF f \in ofPlayers THEN a.numPlayers ELSE a.numRounds
Has(h, a, f) ==
    /\ f = "bettingType" => h.bettingType = a.bettingType
    /\ f \in single => h[f] = a[f]
    /\ f \in arrays /\ ~(f = "raiseSize" /\ a.bettingType = noLimitBetting) =>
          /\ \A k \in 0 .. ownPlaces(a, f) - 1 : h[f][k] = a[f][k]
          /\ f \in counted /\ (f = "raiseSize" => a.bettingType = limitBetting) =>
                h.read[f] >= ownPlaces(a, f)
names == fields \ {"read"}
HasAll(h, a) == \A f \in names : Has(h, a, f)

\* The fields by name.
LEMMA FieldsByName ==
  ASSUME NEW a, NEW b, HasAll(b, a)
  PROVE  /\ a.bettingType = b.bettingType
         /\ a.numPlayers = b.numPlayers /\ a.numRounds = b.numRounds
         /\ a.numSuits = b.numSuits /\ a.numRanks = b.numRanks
         /\ a.numHoleCards = b.numHoleCards
         /\ b.read["stack"] >= a.numPlayers /\ b.read["blind"] >= a.numPlayers
         /\ a.bettingType = limitBetting => b.read["raiseSize"] >= a.numRounds
         /\ b.read["numBoardCards"] >= a.numRounds
         /\ \A p \in 0 .. a.numPlayers - 1 : a.stack[p] = b.stack[p] /\ a.blind[p] = b.blind[p]
         /\ \A r \in 0 .. a.numRounds - 1 :
               /\ a.firstPlayer[r] = b.firstPlayer[r] /\ a.maxRaises[r] = b.maxRaises[r]
               /\ a.numBoardCards[r] = b.numBoardCards[r]
               /\ a.bettingType # noLimitBetting => a.raiseSize[r] = b.raiseSize[r]
<1>1. /\ "bettingType" \in names /\ single \subseteq names /\ arrays \subseteq names
  BY FieldFacts DEF names
<1>2. a.bettingType = b.bettingType
  BY <1>1 DEF HasAll, Has
<1>3. \A f \in single : b[f] = a[f]
  BY <1>1 DEF HasAll, Has
<1>4. /\ a.numPlayers = b.numPlayers /\ a.numRounds = b.numRounds
      /\ a.numSuits = b.numSuits /\ a.numRanks = b.numRanks
      /\ a.numHoleCards = b.numHoleCards
  BY <1>3 DEF single
<1>5. \A f \in arrays : ~(f = "raiseSize" /\ a.bettingType = noLimitBetting) =>
          /\ \A k \in 0 .. ownPlaces(a, f) - 1 : b[f][k] = a[f][k]
          /\ f \in counted /\ (f = "raiseSize" => a.bettingType = limitBetting) =>
                b.read[f] >= ownPlaces(a, f)
  BY <1>1 DEF HasAll, Has
<1>6. /\ "stack" \in arrays \cap counted /\ ownPlaces(a, "stack") = a.numPlayers
      /\ "blind" \in arrays \cap counted /\ ownPlaces(a, "blind") = a.numPlayers
  BY DEF arrays, ofPlayers, counted, ownPlaces
<1>7. /\ b.read["stack"] >= a.numPlayers /\ b.read["blind"] >= a.numPlayers
      /\ \A p \in 0 .. a.numPlayers - 1 : a.stack[p] = b.stack[p] /\ a.blind[p] = b.blind[p]
  BY <1>5, <1>6
<1>8. /\ "firstPlayer" \in arrays /\ ownPlaces(a, "firstPlayer") = a.numRounds
      /\ "maxRaises" \in arrays /\ ownPlaces(a, "maxRaises") = a.numRounds
      /\ "raiseSize" \in arrays \cap counted /\ ownPlaces(a, "raiseSize") = a.numRounds
      /\ "numBoardCards" \in arrays \cap counted /\ ownPlaces(a, "numBoardCards") = a.numRounds
  BY DEF arrays, ofPlayers, counted, ownPlaces
<1>9. /\ a.bettingType = limitBetting => b.read["raiseSize"] >= a.numRounds
      /\ b.read["numBoardCards"] >= a.numRounds
      /\ \A r \in 0 .. a.numRounds - 1 :
               /\ a.firstPlayer[r] = b.firstPlayer[r] /\ a.maxRaises[r] = b.maxRaises[r]
               /\ a.numBoardCards[r] = b.numBoardCards[r]
               /\ a.bettingType # noLimitBetting => a.raiseSize[r] = b.raiseSize[r]
  BY <1>5, <1>8 DEF limitBetting, noLimitBetting
<1> QED BY <1>2, <1>4, <1>7, <1>9

\* Whoever has all of an accepted game returns that game.
LEMMA HasAllIsAccepted ==
  ASSUME NEW a, NEW b, HasAll(b, a), IsFileGame(a), accepted(a)
  PROVE  accepted(b) /\ returned(a) = returned(b)
<1> DEFINE players == 0 .. a.numPlayers - 1
           ownRounds == 0 .. a.numRounds - 1
<1>1. /\ a.bettingType = b.bettingType
      /\ a.numPlayers = b.numPlayers /\ a.numRounds = b.numRounds
      /\ a.numSuits = b.numSuits /\ a.numRanks = b.numRanks
      /\ a.numHoleCards = b.numHoleCards
      /\ b.read["stack"] >= a.numPlayers /\ b.read["blind"] >= a.numPlayers
      /\ a.bettingType = limitBetting => b.read["raiseSize"] >= a.numRounds
      /\ b.read["numBoardCards"] >= a.numRounds
  BY FieldsByName
<1>2. \A p \in players : a.stack[p] = b.stack[p] /\ a.blind[p] = b.blind[p]
  BY FieldsByName
<1>3. \A r \in ownRounds :
               /\ a.firstPlayer[r] = b.firstPlayer[r] /\ a.maxRaises[r] = b.maxRaises[r]
               /\ a.numBoardCards[r] = b.numBoardCards[r]
               /\ a.bettingType # noLimitBetting => a.raiseSize[r] = b.raiseSize[r]
  BY FieldsByName
<1>4. cardsOf(a) = cardsOf(b)
  <2>1. [r \in 1 .. a.numRounds |-> a.numBoardCards[r - 1]]
           = [r \in 1 .. b.numRounds |-> b.numBoardCards[r - 1]]
    <3>1. a.numRounds \in 1 .. 4
      BY AcceptedIsKnown
    <3>2. \A r \in 1 .. a.numRounds : r - 1 \in ownRounds
      BY <3>1
    <3> QED BY <3>2, <1>1, <1>3
  <2> QED BY <2>1, <1>1 DEF cardsOf
<1>5. accepted(b)
  BY <1>1, <1>2, <1>3, <1>4 DEF accepted
<1>6. returned(a) = returned(b)
  BY <1>1, <1>2, <1>3 DEF returned
<1> QED BY <1>5, <1>6

\* So programs that read the same lines return the same.
LEMMA SameHasAll ==
  ASSUME NEW a, NEW b, SameGame(a, b), IsFileGame(a), accepted(a)
  PROVE  HasAll(b, a)
<1> SUFFICES ASSUME NEW f \in names PROVE Has(b, a, f)
  BY DEF HasAll
<1>1. f = "bettingType" => b.bettingType = a.bettingType
  BY DEF SameGame
<1>2. f \in single => b[f] = a[f]
  BY DEF SameGame
<1>3. ASSUME f \in arrays, ~(f = "raiseSize" /\ a.bettingType = noLimitBetting)
      PROVE  /\ \A k \in 0 .. ownPlaces(a, f) - 1 : b[f][k] = a[f][k]
             /\ f \in counted /\ (f = "raiseSize" => a.bettingType = limitBetting) =>
                   b.read[f] >= ownPlaces(a, f)
  <2>1. ASSUME NEW k \in 0 .. ownPlaces(a, f) - 1
        PROVE  /\ k \in places(f)
               /\ f \in counted /\ (f = "raiseSize" => a.bettingType = limitBetting) => k < a.read[f]
    <3>1. CASE f \in ofPlayers
      BY <3>1, AcceptedIsKnown DEF ownPlaces
    <3>2. CASE f \notin ofPlayers
      BY <3>2, <1>3, AcceptedIsKnown DEF ownPlaces
    <3> QED BY <3>1, <3>2
  <2>2. ASSUME NEW k \in 0 .. ownPlaces(a, f) - 1 PROVE b[f][k] = a[f][k]
    <3>1. CASE f = "raiseSize" /\ a.bettingType # limitBetting
      <4>1. ~hasType(a)
        BY <3>1, <1>3 DEF hasType
      <4> QED BY <4>1, <3>1, <2>1 DEF SameGame
    <3>2. CASE ~(f = "raiseSize" /\ a.bettingType # limitBetting)
      BY <3>2, <2>1, <1>3 DEF SameGame
    <3> QED BY <3>1, <3>2
  <2>3. ownPlaces(a, f) \in 1 .. 10
    BY AcceptedIsKnown DEF ownPlaces
  <2>4. ASSUME f \in counted, f = "raiseSize" => a.bettingType = limitBetting
        PROVE  b.read[f] >= ownPlaces(a, f)
    <3>1. ownPlaces(a, f) - 1 < a.read[f]
      BY <2>1, <2>3, <2>4
    <3> QED BY <3>1, <2>3, <2>4 DEF SameGame, IsFileGame
  <2> QED BY <2>2, <2>4
<1> QED BY <1>1, <1>2, <1>3 DEF Has

LEMMA SameAccepted ==
  ASSUME NEW a, NEW b, SameGame(a, b), IsFileGame(a), accepted(a)
  PROVE  accepted(b) /\ returned(a) = returned(b)
BY SameHasAll, HasAllIsAccepted

LEMMA SameOutcome ==
  ASSUME NEW a, NEW b, SameGame(a, b), SameGame(b, a), IsFileGame(a), IsFileGame(b)
  PROVE  outcome(a) = outcome(b)
<1>1. accepted(a) => accepted(b) /\ returned(a) = returned(b)
  BY SameAccepted
<1>2. accepted(b) => accepted(a)
  BY SameAccepted
<1> QED BY <1>1, <1>2 DEF outcome

\* An accepted game is one that module Game plays.
LEMMA AcceptedIsPlayed ==
  ASSUME NEW a, IsFileGame(a), accepted(a), NEW g, g = returned(a)
  PROVE  /\ Engine(g)!GameAssumption
         /\ g.numBoardCards \in [Engine(g)!Rounds -> Nat]
         /\ cardsOf(g) <= g.numSuits * g.numRanks
<1> DEFINE players == 0 .. a.numPlayers - 1
           ownRounds == 0 .. a.numRounds - 1
<1>1. /\ a.numPlayers \in 2 .. 10 /\ a.numRounds \in 1 .. 4
  BY AcceptedIsKnown
<1>2. \A p \in players : a.stack[p] \in Nat /\ a.blind[p] \in Nat
  BY AcceptedIsKnown DEF ofPlayers
<1>3. \A r \in ownRounds : /\ a.firstPlayer[r] \in Nat /\ a.maxRaises[r] \in Nat
                           /\ a.numBoardCards[r] \in Nat /\ a.raiseSize[r] \in Nat
  <2>1. {"firstPlayer", "maxRaises", "numBoardCards", "raiseSize"} = arrays \ ofPlayers
    BY DEF arrays, ofPlayers
  <2> QED BY <2>1, AcceptedIsKnown
<1>4. /\ \A p \in players : a.blind[p] <= a.stack[p]
      /\ \A r \in ownRounds : a.firstPlayer[r] \in 1 .. a.numPlayers
      /\ cardsOf(a) <= a.numSuits * a.numRanks
  BY DEF accepted
<1>5. /\ g.numPlayers = a.numPlayers /\ g.numRounds = a.numRounds /\ g.bettingType = a.bettingType
      /\ g.numSuits = a.numSuits /\ g.numRanks = a.numRanks /\ g.numHoleCards = a.numHoleCards
      /\ g.stack = [p \in players |-> a.stack[p]]
      /\ g.blind = [p \in players |-> a.blind[p]]
      /\ g.raiseSize = [r \in ownRounds |-> IF a.bettingType = noLimitBetting THEN 0 ELSE a.raiseSize[r]]
      /\ g.firstPlayer = [r \in ownRounds |-> a.firstPlayer[r] - 1]
      /\ g.maxRaises = [r \in ownRounds |-> a.maxRaises[r]]
      /\ g.numBoardCards = [r \in ownRounds |-> a.numBoardCards[r]]
  BY DEF returned
<1>6. /\ g.stack \in [players -> Nat] /\ g.blind \in [players -> Nat]
      /\ \A p \in players : g.blind[p] <= g.stack[p]
  BY <1>2, <1>4, <1>5
<1>7. /\ g.raiseSize \in [ownRounds -> Nat] /\ g.maxRaises \in [ownRounds -> Nat]
      /\ g.numBoardCards \in [ownRounds -> Nat]
  BY <1>3, <1>5
<1>8. g.firstPlayer \in [ownRounds -> players]
  BY <1>1, <1>4, <1>5
<1>9. Engine(g)!GameAssumption
  <2>1. players = 0 .. g.numPlayers - 1 /\ ownRounds = 0 .. g.numRounds - 1
    BY <1>5
  <2>2. g.numPlayers \in 2 .. 10 /\ g.numRounds \in 1 .. 4 /\ (g.bettingType = noLimitBetting) \in BOOLEAN
    BY <1>1, <1>5
  <2>3. 64 \in Nat /\ g.numPlayers <= 64
    BY <2>2
  <2> HIDE DEF players, ownRounds
  <2> QED BY <2>1, <2>2, <2>3, <1>6, <1>7, <1>8 DEF Engine!GameAssumption, Engine!Players, Engine!Rounds
<1>10. g.numBoardCards \in [Engine(g)!Rounds -> Nat]
  BY <1>5, <1>7 DEF Engine!Rounds
<1>11. cardsOf(g) = cardsOf(a)
  <2>1. [r \in 1 .. a.numRounds |-> a.numBoardCards[r - 1]]
           = [r \in 1 .. g.numRounds |-> g.numBoardCards[r - 1]]
    <3>1. \A r \in 1 .. a.numRounds : r - 1 \in ownRounds
      BY <1>1
    <3> QED BY <3>1, <1>5
  <2> QED BY <2>1, <1>5 DEF cardsOf
<1> QED BY <1>4, <1>5, <1>9, <1>10, <1>11

-----------------------------------------------------------------------------
(* Game files: what is printed.                                            *)

\* What the first n lines leave follows from what the first n - 1 leave.
LEMMA LinesStep ==
  ASSUME NEW h, NEW text, Len(text) \in Nat
  PROVE  /\ linesRead(h, text)[0] = h
         /\ \A n \in 1 .. Len(text) :
               linesRead(h, text)[n] = readLine(linesRead(h, text)[n - 1], text[n])
<1> DEFINE row(g, i) == IF i = 0 THEN h ELSE readLine(g[i - 1], text[i])
           steps(g, m) == [i \in 0 .. m |-> row(g, i)]
           n == Len(text)
           Bad == {m \in 0 .. n : ~\E g : g = steps(g, m)}
<1>1. Bad = {}
  <2> SUFFICES ASSUME Bad # {} PROVE FALSE
    OBVIOUS
  <2>1. PICK m \in Bad : \A k \in Bad : m <= k
    <3>1. Bad \in SUBSET Nat
      OBVIOUS
    <3> HIDE DEF Bad
    <3> QED BY <3>1, LeastNatural
  <2>2. m \in 0 .. n
    OBVIOUS
  <2>3. m # 0
    <3> DEFINE x == [i \in 0 .. 0 |-> h]
    <3>1. x = steps(x, 0)
      OBVIOUS
    <3> HIDE DEF x
    <3>2. 0 \notin Bad
      BY <3>1
    <3> QED BY <3>2
  <2>4. PICK g : g = steps(g, m - 1)
    <3>1. m - 1 \in 0 .. n /\ m - 1 \notin Bad
      <4>1. m - 1 \in 0 .. n /\ ~(m <= m - 1)
        BY <2>2, <2>3
      <4> HIDE DEF Bad
      <4> QED BY <4>1, <2>1
    <3> HIDE DEF steps
    <3> QED BY <3>1
  <2> HIDE DEF n
  <2> DEFINE x == [i \in 0 .. m |-> IF i = m THEN row(g, m) ELSE g[i]]
  <2>5. \A i \in 0 .. m - 1 : g[i] = row(g, i)
    BY <2>4
  <2>6. \A i \in 0 .. m : i # 0 => x[i - 1] = g[i - 1]
    BY <2>2
  <2>7. x = [i \in 0 .. m |-> x[i]]
    OBVIOUS
  <2>8. ASSUME NEW i \in 0 .. m PROVE x[i] = row(x, i)
    <3>1. row(x, i) = row(g, i)
      BY <2>6
    <3>2. CASE i = m
      BY <3>1, <3>2
    <3>3. CASE i # m
      <4>1. i \in 0 .. m - 1 /\ x[i] = g[i]
        BY <3>3, <2>2
      <4> QED BY <4>1, <3>1, <2>5
    <3> QED BY <3>2, <3>3
  <2> HIDE DEF x
  <2>9. x = steps(x, m)
    BY <2>7, <2>8
  <2> HIDE DEF steps
  <2> QED BY <2>9 DEF n
<1>2. \E g : g = steps(g, n)
  <2>1. n \in 0 .. n
    OBVIOUS
  <2>2. n \notin Bad
    BY <1>1
  <2> HIDE DEF steps, n
  <2> QED BY <2>1, <2>2
<1> DEFINE after == CHOOSE g : g = steps(g, n)
<1>3. after = steps(after, n)
  <2> HIDE DEF steps
  <2> QED BY <1>2
<1>4. linesRead(h, text) = after
  BY DEF linesRead
<1> HIDE DEF after
<1>5. \A i \in 0 .. n : after[i] = row(after, i)
  BY <1>3
<1> HIDE DEF steps, Bad
<1> QED BY <1>4, <1>5

\* What all lines leave.
allRead(h, text) == linesRead(h, text)[Len(text)]

\* One line more is one step more.
LEMMA OneLineMore ==
  ASSUME NEW h, NEW text \in Seq(AnyLine), NEW l \in AnyLine
  PROVE  /\ allRead(h, << >>) = h
         /\ allRead(h, Append(text, l)) = readLine(allRead(h, text), l)
<1> DEFINE n == Len(text)
           more == Append(text, l)
<1>1. /\ n \in Nat /\ Len(more) = n + 1 /\ more[n + 1] = l
      /\ \A i \in 1 .. n : more[i] = text[i]
  OBVIOUS
<1>2. allRead(h, << >>) = h
  <2>1. Len(<< >>) = 0
    OBVIOUS
  <2> QED BY <2>1, LinesStep DEF allRead
<1> HIDE DEF more
<1>3. /\ linesRead(h, more)[0] = h
      /\ \A m \in 1 .. n + 1 : linesRead(h, more)[m] = readLine(linesRead(h, more)[m - 1], more[m])
  <2>1. Len(more) \in Nat
    BY <1>1
  <2> QED BY <2>1, <1>1, LinesStep
<1>4. /\ linesRead(h, text)[0] = h
      /\ \A m \in 1 .. n : linesRead(h, text)[m] = readLine(linesRead(h, text)[m - 1], text[m])
  BY <1>1, LinesStep
<1> DEFINE Bad == {m \in 0 .. n : linesRead(h, more)[m] # linesRead(h, text)[m]}
<1>5. Bad = {}
  <2> SUFFICES ASSUME Bad # {} PROVE FALSE
    OBVIOUS
  <2>1. PICK m \in Bad : \A k \in Bad : m <= k
    <3>1. Bad \in SUBSET Nat
      BY <1>1
    <3> HIDE DEF Bad
    <3> QED BY <3>1, LeastNatural
  <2>2. m \in 0 .. n /\ linesRead(h, more)[m] # linesRead(h, text)[m] /\ m # 0
    BY <1>3, <1>4
  <2>3. m - 1 \in 0 .. n /\ ~(m <= m - 1) /\ m \in 1 .. n /\ m \in 1 .. n + 1
    BY <1>1, <2>2
  <2>4. linesRead(h, more)[m - 1] = linesRead(h, text)[m - 1]
    BY <2>1, <2>3
  <2>5. linesRead(h, more)[m] = readLine(linesRead(h, more)[m - 1], text[m])
    BY <1>1, <1>3, <2>3
  <2>6. linesRead(h, text)[m] = readLine(linesRead(h, text)[m - 1], text[m])
    BY <1>4, <2>3
  <2> QED BY <2>2, <2>4, <2>5, <2>6
<1>6. linesRead(h, more)[n] = linesRead(h, text)[n]
  <2>1. n \in 0 .. n
    BY <1>1
  <2> QED BY <2>1, <1>5
<1>7. linesRead(h, more)[n + 1] = readLine(linesRead(h, more)[n], l)
  <2>1. n + 1 \in 1 .. n + 1 /\ (n + 1) - 1 = n
    BY <1>1
  <2>2. linesRead(h, more)[n + 1] = readLine(linesRead(h, more)[(n + 1) - 1], more[n + 1])
    BY <2>1, <1>3
  <2> QED BY <2>1, <2>2, <1>1
<1>8. allRead(h, more) = readLine(allRead(h, text), l)
  BY <1>1, <1>6, <1>7 DEF allRead
<1> QED BY <1>2, <1>8 DEF more

\* The field that a line is about, and a line that says of it what a has.
about(l) == IF l.field \in betting THEN "bettingType" ELSE l.field
Says(l, a) ==
    LET f == about(l)
    IN /\ f = "bettingType" => typeOf(l) = a.bettingType
       /\ f \in single => l.values = <<a[f]>>
       /\ f \in arrays => /\ Len(l.values) = ownPlaces(a, f)
                          /\ \A k \in 0 .. ownPlaces(a, f) - 1 : l.values[k + 1] = a[f][k]

\* The fields in done are as in a, the others as in a new game.
Partly(h, a, new, done) ==
    /\ IsFileGame(h)
    /\ \A f \in done : Has(h, a, f)
    /\ \A f \in names \ done : h[f] = new[f] /\ (f \in counted => h.read[f] = new.read[f])

\* A line that is not too long changes no other field.
LEMMA OtherFields ==
  ASSUME NEW h, IsFileGame(h), NEW l \in AnyLine, NEW e \in names, e # about(l),
         l.field = "raiseSize" => Len(l.values) <= MAX_ROUNDS
  PROVE  readLine(h, l)[e] = h[e] /\ (e \in counted => readLine(h, l).read[e] = h.read[e])
<1>1. l.field \in arrays \cup single \cup betting /\ IsRecord(h)
  BY DEF AnyLine, IsFileGame
<1>2. e \in fields /\ e # "read" /\ "read" \in fields /\ "read" # "bettingType"
  BY DEF names, fields
<1>3. CASE l.field \in betting
  <2>1. about(l) = "bettingType"
    BY <1>3 DEF about
  <2> QED BY <2>1, <1>1, <1>2, <1>3, BettingLineIs
<1>4. CASE l.field \in single
  <2>1. about(l) = l.field /\ l.field # "read"
    BY <1>4 DEF about, single, betting
  <2> QED BY <2>1, <1>1, <1>2, <1>4, SingleLineIs
<1>5. CASE l.field \in arrays
  <2>1. about(l) = l.field
    BY <1>5 DEF about, arrays, ofPlayers, betting
  <2>5. readLine(h, l) = itemsStored(h, l)
    <3>1. l.field = "raiseSize" => itemsRead("raiseSize", asStored(l)) <= MAX_ROUNDS
      BY StoredIs, Lengths DEF itemsRead, AnyLine
    <3>2. l.field = "raiseSize" => overrun(itemsStored(h, l), asStored(l)) = itemsStored(h, l)
      BY <3>1, NoOverrun
    <3> QED BY <3>2, <1>1, <1>5, ArrayLineIs
  <2>2. readLine(h, l)[e] = h[e]
    <3>1. e \in fields \ {l.field, "read"}
      BY <2>1, <1>2
    <3> QED BY <3>1, <2>5, <1>1, <1>5, ArrayLineIs
  <2>3. readLine(h, l).read = IF l.field \in counted
               THEN [h.read EXCEPT ![l.field] = itemsRead(l.field, asStored(l))] ELSE h.read
    BY <2>5, <1>1, <1>5, ArrayLineIs
  <2>4. h.read \in [counted -> Nat]
    BY DEF IsFileGame
  <2> QED BY <2>1, <2>2, <2>3, <2>4
<1> QED BY <1>1, <1>3, <1>4, <1>5

\* What a line says is had.
LEMMA SaidIsHad ==
  ASSUME NEW h, IsFileGame(h), NEW a, IsFileGame(a), accepted(a),
         NEW l \in AnyLine, Says(l, a), about(l) = "raiseSize" => hasType(a)
  PROVE  Has(readLine(h, l), a, about(l))
<1> DEFINE f == about(l)
           n == readLine(h, l)
<1>1. l.field \in arrays \cup single \cup betting /\ IsRecord(h)
  BY DEF AnyLine, IsFileGame
<1>2. CASE l.field \in betting
  <2>1. f = "bettingType" /\ f \notin single /\ f \notin arrays
    BY <1>2, FieldFacts DEF about
  <2>2. n.bettingType = a.bettingType
    BY <2>1, <1>1, <1>2, BettingLineIs DEF Says
  <2> QED BY <2>1, <2>2 DEF Has
<1>3. CASE l.field \in single
  <2>1. f = l.field /\ f \in single /\ f # "bettingType" /\ f \notin arrays /\ f \in ofBytes
    BY <1>3, FieldFacts DEF about, single, betting
  <2>2. l.values = <<a[f]>> /\ a[f] \in 0 .. 255
    BY <2>1 DEF Says, IsFileGame, UINT8_MAX
  <2>3. Len(l.values) = 1 /\ l.values[1] = a[f]
    BY <2>2
  <2>4. asStored(l) # << >> /\ asStored(l)[1] = a[f]
    <3>1. asStored(l)[1] = l.values[1] % 256 /\ Len(asStored(l)) = 1
      BY <2>1, <2>3, StoredIs
    <3>2. a[f] % 256 = a[f]
      BY <2>2
    <3>3. asStored(l) # << >>
      <4>1. \A s : s = << >> => Len(s) # 1
        OBVIOUS
      <4> QED BY <3>1, <4>1, Zenon
    <3> QED BY <3>1, <3>2, <3>3, <2>3
  <2>5. n[f] = a[f]
    BY <2>1, <2>4, <1>1, <1>3, SingleLineIs
  <2> QED BY <2>1, <2>5 DEF Has
<1>4. CASE f = "raiseSize" /\ a.bettingType = noLimitBetting
  <2>1. f \notin single
    BY <1>4 DEF single
  <2> QED BY <1>4, <2>1 DEF Has
<1>5. CASE l.field \in arrays /\ ~(f = "raiseSize" /\ a.bettingType = noLimitBetting)
  <2>1. f = l.field /\ f \in arrays /\ f # "bettingType" /\ f \notin single
    BY <1>5, FieldFacts DEF about, arrays, ofPlayers, betting
  <2> DEFINE c == ownPlaces(a, f)
             v == asStored(l)
  <2>2. /\ Len(l.values) = c
        /\ \A k \in 0 .. c - 1 : l.values[k + 1] = a[f][k]
    BY <2>1 DEF Says
  <2>3. c \in 1 .. 10 /\ c <= arrayLen(f)
    BY AcceptedIsKnown, Lengths DEF ownPlaces, arrayLen
  <2>11. f = "raiseSize" => a.bettingType = limitBetting
    BY <1>5 DEF hasType
  <2>4. ASSUME NEW k \in 0 .. c - 1
        PROVE  /\ k \in places(f) /\ a[f][k] \in Nat
               /\ f \in ofBytes => a[f][k] <= 255
    <3>1. k \in places(f) /\ (f \in counted => k < a.read[f])
      <4>1. CASE f \in ofPlayers
        BY <4>1, AcceptedIsKnown DEF ownPlaces
      <4>2. CASE f \notin ofPlayers
        <5>1. k \in 0 .. a.numRounds - 1 /\ f \in arrays \ ofPlayers
          BY <4>2, <2>1 DEF ownPlaces
        <5> QED BY <5>1, <2>11, AcceptedIsKnown
      <4> QED BY <4>1, <4>2
    <3> QED BY <3>1, <2>1 DEF IsFileGame, UINT8_MAX
  <2>5. ASSUME NEW k \in 0 .. c - 1 PROVE v[k + 1] = a[f][k]
    <3>1. k + 1 \in 1 .. Len(l.values)
      BY <2>2, <2>3
    <3>2. v[k + 1] = IF f \in ofBytes THEN a[f][k] % 256 ELSE a[f][k]
      BY <3>1, <2>1, <2>2, StoredIs
    <3>3. a[f][k] <= 255 => a[f][k] % 256 = a[f][k]
      BY <2>4
    <3> QED BY <3>2, <3>3, <2>4
  <2>6. v \in Seq(Nat) /\ Len(v) = c /\ h[f] \in [places(f) -> Nat]
    BY <2>1, <2>2, StoredIs DEF IsFileGame
  <2>7. /\ n[f] = readItems(h[f], v)
        /\ f \in counted => n.read = [h.read EXCEPT ![f] = itemsRead(f, v)]
    <3>1. f = "raiseSize" => itemsRead("raiseSize", v) <= MAX_ROUNDS
      <4>1. f = "raiseSize" => c <= MAX_ROUNDS
        BY AcceptedIsKnown DEF ownPlaces, ofPlayers
      <4> HIDE DEF v, c
      <4> QED BY <4>1, <2>3, <2>6, Lengths DEF itemsRead
    <3>2. n = itemsStored(h, l)
      <4>1. f = "raiseSize" => overrun(itemsStored(h, l), v) = itemsStored(h, l)
        BY <3>1, NoOverrun
      <4> QED BY <4>1, <2>1, <1>1, <1>5, ArrayLineIs
    <3> QED BY <3>2, <2>1, <1>1, <1>5, ArrayLineIs
  <2>8. \A k \in places(f) : readItems(h[f], v)[k] = IF k < Len(v) THEN v[k + 1] ELSE h[f][k]
    <3> HIDE DEF v
    <3> QED BY <2>1, <2>6, ItemsAre
  <2> HIDE DEF v, c, n
  <2>9. \A k \in 0 .. c - 1 : n[f][k] = a[f][k]
    BY <2>3, <2>4, <2>5, <2>6, <2>7, <2>8
  <2>10. f \in counted => n.read[f] >= c
    <3>1. itemsRead(f, v) = c
      BY <2>3, <2>6, Lengths DEF itemsRead
    <3> QED BY <3>1, <2>3, <2>7 DEF IsFileGame
  <2> QED BY <2>1, <2>9, <2>10 DEF Has, n, c
<1> QED BY <1>1, <1>2, <1>3, <1>4, <1>5

\* One part of the text, which may be empty.
LEMMA PartIsRead ==
  ASSUME NEW new, NEW a, IsFileGame(a), accepted(a), hasType(a), NEW done, NEW f \in names \ done,
         NEW text \in Seq(AnyLine), Partly(allRead(new, text), a, new, done),
         NEW part,
         \/ part = << >> /\ Has(new, a, f)
         \/ \E l \in AnyLine : part = <<l>> /\ about(l) = f /\ Says(l, a)
  PROVE  /\ text \o part \in Seq(AnyLine)
         /\ Partly(allRead(new, text \o part), a, new, done \cup {f})
<1> DEFINE h == allRead(new, text)
<1>1. CASE part = << >> /\ Has(new, a, f)
  <2>1. text \o part = text
    BY <1>1
  <2>2. h[f] = new[f] /\ (f \in counted => h.read[f] = new.read[f])
    BY DEF Partly
  <2>3. Has(h, a, f)
    <3>1. h.bettingType = h["bettingType"] /\ new.bettingType = new["bettingType"]
      OBVIOUS
    <3> HIDE DEF h
    <3> QED BY <3>1, <2>2, <1>1 DEF Has
  <2> HIDE DEF h
  <2>4. Partly(h, a, new, done \cup {f})
    BY <2>3 DEF Partly, h
  <2> QED BY <2>1, <2>4 DEF h
<1>2. ASSUME NEW l \in AnyLine, part = <<l>>, about(l) = f, Says(l, a)
      PROVE  /\ text \o part \in Seq(AnyLine)
             /\ Partly(allRead(new, text \o part), a, new, done \cup {f})
  <2> DEFINE n == readLine(h, l)
  <2>1. text \o part = Append(text, l) /\ Append(text, l) \in Seq(AnyLine)
    BY <1>2
  <2>2. allRead(new, text \o part) = n
    BY <2>1, OneLineMore
  <2>3. IsFileGame(h)
    BY DEF Partly
  <2>4. IsFileGame(n)
    BY <2>3, ReadIsGame
  <2>5. Has(n, a, f)
    BY <2>3, <1>2, SaidIsHad
  <2>6. \A e \in names \ {f} : n[e] = h[e] /\ (e \in counted => n.read[e] = h.read[e])
    <3>1. l.field = "raiseSize" => Len(l.values) <= MAX_ROUNDS
      <4>1. "raiseSize" \notin betting
        BY DEF betting
      <4>2. l.field = "raiseSize" => Len(l.values) = ownPlaces(a, "raiseSize")
        BY <4>1, <1>2, FieldFacts DEF Says, about
      <4>3. ownPlaces(a, "raiseSize") <= MAX_ROUNDS
        BY AcceptedIsKnown, FieldFacts DEF ownPlaces
      <4> QED BY <4>2, <4>3
    <3> QED BY <3>1, <2>3, <1>2, OtherFields
  <2>7. ASSUME NEW e \in done, e # f PROVE Has(n, a, e)
    <3>1. Has(h, a, e)
      BY <2>7 DEF Partly
    <3>2. CASE e \in names
      <4>1. n[e] = h[e] /\ (e \in counted => n.read[e] = h.read[e])
        BY <3>2, <2>6, <2>7
      <4> HIDE DEF n, h
      <4> QED BY <4>1, <3>1 DEF Has
    <3>3. CASE e \notin names
      <4>1. e \notin single /\ e \notin arrays /\ e # "bettingType"
        BY <3>3, FieldFacts DEF names
      <4> QED BY <4>1 DEF Has
    <3> QED BY <3>2, <3>3
  <2>8. \A e \in names \ (done \cup {f}) :
           n[e] = new[e] /\ (e \in counted => n.read[e] = new.read[e])
    BY <2>6 DEF Partly
  <2> HIDE DEF n
  <2>9. Partly(n, a, new, done \cup {f})
    BY <2>4, <2>5, <2>7, <2>8 DEF Partly
  <2> QED BY <2>1, <2>2, <2>9
<1> QED BY <1>1, <1>2

\* The lines of printGame.
LEMMA ArrayIsSaid ==
  ASSUME NEW a, IsFileGame(a), accepted(a), NEW f \in arrays,
         NEW x, NEW shift \in Int, NEW n \in Nat, n = ownPlaces(a, f),
         \A k \in 0 .. n - 1 : x[k] + shift = a[f][k] /\ a[f][k] \in Nat
  PROVE  \E l \in AnyLine : arrayLine(f, n, x, shift) = <<l>> /\ about(l) = f /\ Says(l, a)
<1> DEFINE v == [k \in 1 .. n |-> x[k - 1] + shift]
           l == [field |-> f, values |-> v]
<1>1. \A k \in 1 .. n : v[k] = a[f][k - 1] /\ v[k] \in Nat
  <2>1. \A k \in 1 .. n : k - 1 \in 0 .. n - 1
    OBVIOUS
  <2> QED BY <2>1
<1>2. v \in Seq(Nat) /\ Len(v) = n
  <2>1. v \in [1 .. n -> Nat]
    BY <1>1
  <2> QED BY <2>1
<1>3. \A k \in 0 .. n - 1 : v[k + 1] = a[f][k]
  <2>1. \A k \in 0 .. n - 1 : k + 1 \in 1 .. n /\ (k + 1) - 1 = k
    OBVIOUS
  <2> HIDE DEF v
  <2> QED BY <2>1, <1>1
<1>4. arrayLine(f, n, x, shift) = <<l>>
  BY DEF arrayLine
<1> HIDE DEF v
<1>5. l \in AnyLine
  BY <1>2 DEF AnyLine
<1>6. l.field = f /\ l.values = v /\ about(l) = f /\ f # "bettingType" /\ f \notin single
  BY FieldFacts DEF about, arrays, ofPlayers, betting
<1> HIDE DEF l
<1>7. Says(l, a)
  BY <1>2, <1>3, <1>6 DEF Says
<1> QED BY <1>4, <1>5, <1>6, <1>7

LEMMA NumberIsSaid ==
  ASSUME NEW a, IsFileGame(a), NEW f \in single
  PROVE  \E l \in AnyLine : numberLine(f, a[f]) = <<l>> /\ about(l) = f /\ Says(l, a)
<1> DEFINE l == [field |-> f, values |-> <<a[f]>>]
<1>1. a[f] \in Nat
  BY DEF IsFileGame, UINT8_MAX
<1>2. l \in AnyLine
  BY <1>1 DEF AnyLine
<1>3. l.field = f /\ l.values = <<a[f]>> /\ about(l) = f /\ f # "bettingType" /\ f \notin arrays
  BY FieldFacts DEF about, single, betting
<1>4. numberLine(f, a[f]) = <<l>>
  BY DEF numberLine
<1> HIDE DEF l
<1> QED BY <1>2, <1>3, <1>4 DEF Says

\* Part by part, what printGame writes makes a new game that has all of the one
\* printed; a part that is left out says what a new game has.
LEMMA PrintedIsRead ==
  ASSUME NEW a, IsFileGame(a), accepted(a), NEW g, g = returned(a), NEW m \in Nat,
         ~(unlimited(g) /\ g.numPlayers > MAX_ROUNDS), hasType(g)
  PROVE  readGame(printGame(g), m) = {g}
<1> DEFINE new == newGame(m)
           players == 0 .. a.numPlayers - 1
           ownRounds == 0 .. a.numRounds - 1
           IsPart(part, f) ==
               \/ part = << >> /\ Has(new, a, f)
               \/ \E l \in AnyLine : part = <<l>> /\ about(l) = f /\ Says(l, a)
           Reads(text, done) == text \in Seq(AnyLine) /\ Partly(allRead(new, text), a, new, done)
<1>1. /\ a.numPlayers \in 2 .. 10 /\ a.numRounds \in 1 .. 4 /\ MAX_ROUNDS \in Nat
      /\ a.numPlayers <= MAX_PLAYERS /\ a.numRounds <= MAX_ROUNDS /\ MAX_PLAYERS \in Nat
  BY AcceptedIsKnown, Lengths
<1>2. /\ g.numPlayers = a.numPlayers /\ g.numRounds = a.numRounds /\ g.bettingType = a.bettingType
      /\ g.numSuits = a.numSuits /\ g.numRanks = a.numRanks /\ g.numHoleCards = a.numHoleCards
      /\ g.stack = [p \in players |-> a.stack[p]]
      /\ g.blind = [p \in players |-> a.blind[p]]
      /\ g.raiseSize = [r \in ownRounds |-> IF a.bettingType = noLimitBetting THEN 0 ELSE a.raiseSize[r]]
      /\ g.firstPlayer = [r \in ownRounds |-> a.firstPlayer[r] - 1]
      /\ g.maxRaises = [r \in ownRounds |-> a.maxRaises[r]]
      /\ g.numBoardCards = [r \in ownRounds |-> a.numBoardCards[r]]
  BY DEF returned
<1>35. hasType(a)
  BY <1>2 DEF hasType
<1>3. \A p \in players : a.stack[p] \in Nat /\ a.blind[p] \in Nat
  BY AcceptedIsKnown DEF ofPlayers
<1>4. \A r \in ownRounds : /\ a.firstPlayer[r] \in Nat /\ a.maxRaises[r] \in Nat
                           /\ a.numBoardCards[r] \in Nat /\ a.raiseSize[r] \in Nat
  <2>1. {"firstPlayer", "maxRaises", "numBoardCards", "raiseSize"} = arrays \ ofPlayers
    BY DEF arrays, ofPlayers
  <2> QED BY <2>1, AcceptedIsKnown
<1>5. /\ "stack" \in arrays /\ ownPlaces(a, "stack") = a.numPlayers
      /\ "blind" \in arrays /\ ownPlaces(a, "blind") = a.numPlayers
      /\ "firstPlayer" \in arrays /\ ownPlaces(a, "firstPlayer") = a.numRounds
      /\ "maxRaises" \in arrays /\ ownPlaces(a, "maxRaises") = a.numRounds
      /\ "raiseSize" \in arrays /\ ownPlaces(a, "raiseSize") = a.numRounds
      /\ "numBoardCards" \in arrays /\ ownPlaces(a, "numBoardCards") = a.numRounds
  BY DEF arrays, ofPlayers, ownPlaces
<1>6. /\ new.stack = [p \in seats |-> IF p < MAX_ROUNDS THEN INT32_MAX ELSE m]
      /\ new.read["stack"] = MAX_ROUNDS
      /\ new.firstPlayer = [r \in rounds |-> 1]
      /\ new.maxRaises = [r \in rounds |-> UINT8_MAX]
  BY DEF newGame, newGameWith, counted
<1> HIDE DEF new
<1>7. ASSUME NEW f \in arrays, NEW x, NEW shift \in {0, 1}, NEW n, n = ownPlaces(a, f),
             \A k \in 0 .. n - 1 : x[k] + shift = a[f][k] /\ a[f][k] \in Nat
      PROVE  IsPart(arrayLine(f, n, x, shift), f)
  <2>1. n \in Nat /\ shift \in Int
    BY <1>1, <1>7 DEF ownPlaces
  <2>2. \E l \in AnyLine : arrayLine(f, n, x, shift) = <<l>> /\ about(l) = f /\ Says(l, a)
    BY <2>1, <1>7, ArrayIsSaid
  <2> QED BY <2>2
<1>8. /\ g.numPlayers = a.numPlayers /\ players = 0 .. g.numPlayers - 1
      /\ g.numRounds = a.numRounds /\ ownRounds = 0 .. g.numRounds - 1
  BY <1>2
<1>9. \A r \in ownRounds : r \in rounds
  BY <1>1 DEF rounds
(* The parts. *)
<1>10. IsPart(<<[field |-> IF g.bettingType = noLimitBetting THEN "nolimit" ELSE "limit", values |-> << >>]>>, "bettingType")
  <2> DEFINE l == [field |-> IF g.bettingType = noLimitBetting THEN "nolimit" ELSE "limit", values |-> << >>]
  <2>1. /\ l.field \in betting /\ l.values = << >> /\ l \in AnyLine
        /\ typeOf(l) = a.bettingType
    BY <1>2, <1>35 DEF AnyLine, betting, typeOf, hasType
  <2>2. "bettingType" \notin single /\ "bettingType" \notin arrays
    BY FieldFacts
  <2> HIDE DEF l
  <2>3. about(l) = "bettingType" /\ Says(l, a)
    BY <2>1, <2>2 DEF about, Says
  <2> QED BY <2>1, <2>3 DEF l
<1>11. /\ IsPart(numberLine("numPlayers", g.numPlayers), "numPlayers")
       /\ IsPart(numberLine("numRounds", g.numRounds), "numRounds")
       /\ IsPart(numberLine("numSuits", g.numSuits), "numSuits")
       /\ IsPart(numberLine("numRanks", g.numRanks), "numRanks")
       /\ IsPart(numberLine("numHoleCards", g.numHoleCards), "numHoleCards")
  <2>1. single = {"numPlayers", "numRounds", "numSuits", "numRanks", "numHoleCards"}
    BY DEF single
  <2>2. \A f \in single : IsPart(numberLine(f, a[f]), f)
    BY NumberIsSaid
  <2> HIDE DEF IsPart
  <2> QED BY <1>2, <2>1, <2>2
<1>12. IsPart(unlessAll(g.stack, INT32_MAX, arrayLine("stack", g.numPlayers, g.stack, 0)), "stack")
  <2>1. CASE \A p \in players : a.stack[p] = INT32_MAX
    <3>1. unlimited(g) /\ a.numPlayers <= MAX_ROUNDS
      BY <1>1, <1>2, <2>1 DEF unlimited
    <3>2. unlessAll(g.stack, INT32_MAX, arrayLine("stack", g.numPlayers, g.stack, 0)) = << >>
      BY <1>2, <2>1 DEF unlessAll
    <3>3. \A p \in players : new.stack[p] = a.stack[p]
      BY <1>1, <1>6, <2>1, <3>1 DEF seats
    <3>4. new.read["stack"] >= a.numPlayers
      BY <1>1, <1>6, <3>1
    <3>5. Has(new, a, "stack")
      BY <1>5, <3>3, <3>4 DEF Has, single
    <3> QED BY <3>2, <3>5
  <2>2. CASE ~\A p \in players : a.stack[p] = INT32_MAX
    <3>1. unlessAll(g.stack, INT32_MAX, arrayLine("stack", g.numPlayers, g.stack, 0))
             = arrayLine("stack", g.numPlayers, g.stack, 0)
      BY <1>2, <2>2 DEF unlessAll
    <3>2. \A p \in players : g.stack[p] + 0 = a["stack"][p] /\ a["stack"][p] \in Nat
      BY <1>2, <1>3
    <3> HIDE DEF IsPart, players, ownRounds
    <3> QED BY <1>7, <1>8, <1>5, <3>1, <3>2
  <2> QED BY <2>1, <2>2
<1>13. IsPart(arrayLine("blind", g.numPlayers, g.blind, 0), "blind")
  <2>1. \A p \in players : g.blind[p] + 0 = a["blind"][p] /\ a["blind"][p] \in Nat
    BY <1>2, <1>3
  <2> HIDE DEF IsPart, players, ownRounds
  <2> QED BY <1>7, <1>8, <1>5, <2>1
<1>14. IsPart(IF g.bettingType = limitBetting
              THEN arrayLine("raiseSize", g.numRounds, g.raiseSize, 0) ELSE << >>, "raiseSize")
  <2>1. CASE a.bettingType = noLimitBetting
    <3>1. Has(new, a, "raiseSize")
      BY <2>1 DEF Has, single
    <3> QED BY <1>2, <2>1, <3>1 DEF limitBetting, noLimitBetting
  <2>2. CASE a.bettingType = limitBetting
    <3>1. \A r \in ownRounds : g.raiseSize[r] + 0 = a["raiseSize"][r] /\ a["raiseSize"][r] \in Nat
      BY <1>2, <1>4, <2>2 DEF limitBetting, noLimitBetting
    <3> HIDE DEF IsPart, players, ownRounds
    <3> QED BY <1>2, <1>7, <1>8, <1>5, <2>2, <3>1
  <2> QED BY <2>1, <2>2, <1>35 DEF hasType
<1>15. IsPart(unlessAll(g.firstPlayer, 0, printFirstPlayer(g)), "firstPlayer")
  <2>1. \A r \in ownRounds : a.firstPlayer[r] \in 1 .. a.numPlayers
    BY DEF accepted
  <2>2. CASE \A r \in ownRounds : g.firstPlayer[r] = 0
    <3>1. unlessAll(g.firstPlayer, 0, printFirstPlayer(g)) = << >>
      BY <1>2, <2>2 DEF unlessAll
    <3>2. \A r \in ownRounds : new.firstPlayer[r] = 1 /\ a.firstPlayer[r] = 1
      <4>1. \A r \in ownRounds : a.firstPlayer[r] - 1 = 0
        BY <1>2, <2>2
      <4>2. \A r \in ownRounds : a.firstPlayer[r] = 1
        BY <1>4, <4>1
      <4> QED BY <4>2, <1>6, <1>9
    <3>3. "firstPlayer" \notin counted
      BY DEF counted
    <3>4. Has(new, a, "firstPlayer")
      BY <1>5, <3>2, <3>3 DEF Has, single
    <3> QED BY <3>1, <3>4
  <2>3. CASE ~\A r \in ownRounds : g.firstPlayer[r] = 0
    <3>1. unlessAll(g.firstPlayer, 0, printFirstPlayer(g))
             = arrayLine("firstPlayer", g.numRounds, g.firstPlayer, 1)
      BY <1>2, <2>3 DEF unlessAll, printFirstPlayer
    <3>2. \A r \in ownRounds :
             g.firstPlayer[r] + 1 = a["firstPlayer"][r] /\ a["firstPlayer"][r] \in Nat
      BY <1>2, <1>4
    <3> HIDE DEF IsPart, players, ownRounds
    <3> QED BY <1>7, <1>8, <1>5, <3>1, <3>2
  <2> QED BY <2>2, <2>3
<1>16. IsPart(unlessAll(g.maxRaises, UINT8_MAX, arrayLine("maxRaises", g.numRounds, g.maxRaises, 0)),
              "maxRaises")
  <2>2. CASE \A r \in ownRounds : g.maxRaises[r] = UINT8_MAX
    <3>1. unlessAll(g.maxRaises, UINT8_MAX, arrayLine("maxRaises", g.numRounds, g.maxRaises, 0))
             = << >>
      BY <1>2, <2>2 DEF unlessAll
    <3>2. \A r \in ownRounds : new.maxRaises[r] = a.maxRaises[r]
      BY <1>2, <1>6, <1>9, <2>2
    <3>3. "maxRaises" \notin counted
      BY DEF counted
    <3>4. Has(new, a, "maxRaises")
      BY <1>5, <3>2, <3>3 DEF Has, single
    <3> QED BY <3>1, <3>4
  <2>3. CASE ~\A r \in ownRounds : g.maxRaises[r] = UINT8_MAX
    <3>1. unlessAll(g.maxRaises, UINT8_MAX, arrayLine("maxRaises", g.numRounds, g.maxRaises, 0))
             = arrayLine("maxRaises", g.numRounds, g.maxRaises, 0)
      BY <1>2, <2>3 DEF unlessAll
    <3>2. \A r \in ownRounds : g.maxRaises[r] + 0 = a["maxRaises"][r] /\ a["maxRaises"][r] \in Nat
      BY <1>2, <1>4
    <3> HIDE DEF IsPart, players, ownRounds
    <3> QED BY <1>7, <1>8, <1>5, <3>1, <3>2
  <2> QED BY <2>2, <2>3
<1>17. IsPart(arrayLine("numBoardCards", g.numRounds, g.numBoardCards, 0), "numBoardCards")
  <2>1. \A r \in ownRounds :
           g.numBoardCards[r] + 0 = a["numBoardCards"][r] /\ a["numBoardCards"][r] \in Nat
    BY <1>2, <1>4
  <2> HIDE DEF IsPart, players, ownRounds
  <2> QED BY <1>7, <1>8, <1>5, <2>1
(* All of them. *)
<1>20. ASSUME NEW text, NEW done, Reads(text, done), NEW f \in names \ done, NEW part, IsPart(part, f)
       PROVE  Reads(text \o part, done \cup {f})
  BY <1>20, <1>35, PartIsRead
<1>21. Reads(<< >>, {})
  <2>1. IsFileGame(new)
    BY NewIsGame DEF new
  <2>2. << >> \in Seq(AnyLine)
    OBVIOUS
  <2>3. allRead(new, << >>) = new
    <3>1. Len(<< >>) = 0
      OBVIOUS
    <3> QED BY <3>1, LinesStep DEF allRead
  <2> QED BY <2>1, <2>2, <2>3 DEF Partly
<1> HIDE DEF IsPart, Reads
<1> DEFINE p1 == <<[field |-> IF g.bettingType = noLimitBetting THEN "nolimit" ELSE "limit", values |-> << >>]>>
           p2 == numberLine("numPlayers", g.numPlayers)
           p3 == numberLine("numRounds", g.numRounds)
           p4 == unlessAll(g.stack, INT32_MAX, arrayLine("stack", g.numPlayers, g.stack, 0))
           p5 == arrayLine("blind", g.numPlayers, g.blind, 0)
           p6 == IF g.bettingType = limitBetting
                 THEN arrayLine("raiseSize", g.numRounds, g.raiseSize, 0) ELSE << >>
           p7 == unlessAll(g.firstPlayer, 0, printFirstPlayer(g))
           p8 == unlessAll(g.maxRaises, UINT8_MAX, arrayLine("maxRaises", g.numRounds, g.maxRaises, 0))
           p9 == numberLine("numSuits", g.numSuits)
           p10 == numberLine("numRanks", g.numRanks)
           p11 == numberLine("numHoleCards", g.numHoleCards)
           p12 == arrayLine("numBoardCards", g.numRounds, g.numBoardCards, 0)
<1>22. printGame(g) = p1 \o p2 \o p3 \o p4 \o p5 \o p6 \o p7 \o p8 \o p9 \o p10 \o p11 \o p12
  BY DEF printGame
<1>23. /\ IsPart(p1, "bettingType") /\ IsPart(p2, "numPlayers") /\ IsPart(p3, "numRounds")
       /\ IsPart(p4, "stack") /\ IsPart(p5, "blind") /\ IsPart(p6, "raiseSize")
       /\ IsPart(p7, "firstPlayer") /\ IsPart(p8, "maxRaises") /\ IsPart(p9, "numSuits")
       /\ IsPart(p10, "numRanks") /\ IsPart(p11, "numHoleCards") /\ IsPart(p12, "numBoardCards")
  BY <1>10, <1>11, <1>12, <1>13, <1>14, <1>15, <1>16, <1>17
<1>24. << >> \o p1 = p1
  <2>1. p1 \in Seq({p1[1]})
    OBVIOUS
  <2> QED BY <2>1
<1> HIDE DEF p1, p2, p3, p4, p5, p6, p7, p8, p9, p10, p11, p12
<1>25. names = {"bettingType", "numPlayers", "numRounds", "stack", "blind", "raiseSize",
                "firstPlayer", "maxRaises", "numSuits", "numRanks", "numHoleCards", "numBoardCards"}
  BY DEF names, fields, arrays, ofPlayers, single
<1> DEFINE t3 == p1 \o p2 \o p3
           t6 == t3 \o p4 \o p5 \o p6
           t9 == t6 \o p7 \o p8 \o p9
           t12 == t9 \o p10 \o p11 \o p12
           d3 == {"bettingType", "numPlayers", "numRounds"}
           d6 == d3 \cup {"stack", "blind", "raiseSize"}
           d9 == d6 \cup {"firstPlayer", "maxRaises", "numSuits"}
<1>26. Reads(p1, {"bettingType"})
  <2>1. Reads(<< >> \o p1, {} \cup {"bettingType"})
    BY <1>20, <1>21, <1>23, <1>25
  <2> QED BY <2>1, <1>24
<1>27. Reads(t3, d3)
  <2>1. Reads(p1 \o p2, {"bettingType"} \cup {"numPlayers"})
    BY <1>20, <1>26, <1>23, <1>25
  <2>2. Reads(t3, ({"bettingType"} \cup {"numPlayers"}) \cup {"numRounds"})
    BY <1>20, <2>1, <1>23, <1>25
  <2> QED BY <2>2
<1> HIDE DEF t3
<1>28. Reads(t6, d6)
  <2>1. Reads(t3 \o p4, d3 \cup {"stack"})
    BY <1>20, <1>27, <1>23, <1>25
  <2>2. Reads(t3 \o p4 \o p5, (d3 \cup {"stack"}) \cup {"blind"})
    BY <1>20, <2>1, <1>23, <1>25
  <2>3. Reads(t6, ((d3 \cup {"stack"}) \cup {"blind"}) \cup {"raiseSize"})
    BY <1>20, <2>2, <1>23, <1>25
  <2>4. ((d3 \cup {"stack"}) \cup {"blind"}) \cup {"raiseSize"} = d6
    OBVIOUS
  <2> QED BY <2>3, <2>4
<1> HIDE DEF t6
<1>29. Reads(t9, d9)
  <2>1. Reads(t6 \o p7, d6 \cup {"firstPlayer"})
    BY <1>20, <1>28, <1>23, <1>25
  <2>2. Reads(t6 \o p7 \o p8, (d6 \cup {"firstPlayer"}) \cup {"maxRaises"})
    BY <1>20, <2>1, <1>23, <1>25
  <2>3. Reads(t9, ((d6 \cup {"firstPlayer"}) \cup {"maxRaises"}) \cup {"numSuits"})
    BY <1>20, <2>2, <1>23, <1>25
  <2>4. ((d6 \cup {"firstPlayer"}) \cup {"maxRaises"}) \cup {"numSuits"} = d9
    OBVIOUS
  <2> QED BY <2>3, <2>4
<1> HIDE DEF t9
<1>30. Reads(t12, names)
  <2>1. Reads(t9 \o p10, d9 \cup {"numRanks"})
    BY <1>20, <1>29, <1>23, <1>25
  <2>2. Reads(t9 \o p10 \o p11, (d9 \cup {"numRanks"}) \cup {"numHoleCards"})
    BY <1>20, <2>1, <1>23, <1>25
  <2>3. Reads(t12, ((d9 \cup {"numRanks"}) \cup {"numHoleCards"}) \cup {"numBoardCards"})
    BY <1>20, <2>2, <1>23, <1>25
  <2>4. ((d9 \cup {"numRanks"}) \cup {"numHoleCards"}) \cup {"numBoardCards"} = names
    BY <1>25
  <2> QED BY <2>3, <2>4
<1>31. t12 = printGame(g)
  BY <1>22 DEF t3, t6, t9
<1> HIDE DEF t12
<1>32. HasAll(allRead(new, printGame(g)), a)
  BY <1>30, <1>31 DEF Reads, Partly, HasAll
<1>33. accepted(allRead(new, printGame(g))) /\ returned(allRead(new, printGame(g))) = g
  BY <1>32, HasAllIsAccepted
<1> QED BY <1>33 DEF readGame, outcome, allRead, new

\* Every file so far has been read into every memory alike.
FileInv ==
    /\ unread \in Seq(FileLine)
    /\ \A m \in Memory : IsFileGame(game[m])
    /\ \A m, n \in Memory : SameGame(game[m], game[n])

\* FileInv holds, and is enough.
LEMMA FileLinesAreLines == FileLine \subseteq AnyLine
<1>1. Seq(0 .. INT32_MAX) \subseteq Seq(Nat)
  <2>1. 0 .. INT32_MAX \subseteq Nat
    BY Int32Assumption
  <2>2. ASSUME NEW A, NEW B, A \subseteq B, NEW s \in Seq(A) PROVE s \in Seq(B)
    <3>1. Len(s) \in Nat /\ s \in [1 .. Len(s) -> A]
      OBVIOUS
    <3>2. s \in [1 .. Len(s) -> B]
      BY <2>2, <3>1
    <3> QED BY <3>1, <3>2
  <2> QED BY <2>1, <2>2
<1> QED BY <1>1 DEF FileLine, AnyLine

LEMMA InitFileInv == FileInit => FileInv
<1> SUFFICES ASSUME FileInit PROVE FileInv
  OBVIOUS
<1>1. unread \in Seq(FileLine)
  BY FileAssumption DEF FileInit
<1>2. \A m \in Memory : m \in Nat /\ game[m] = newGame(m)
  BY FileAssumption DEF FileInit, noGame
<1> QED BY <1>1, <1>2, NewIsGame DEF FileInv

LEMMA FileInvStep == FileInv /\ [FileNext]_definition => FileInv'
<1> SUFFICES ASSUME FileInv, [FileNext]_definition PROVE FileInv'
  OBVIOUS
<1>1. ASSUME NEW l \in FileLine, readsLine(l)
      PROVE  /\ \A m \in Memory : IsFileGame(game'[m])
             /\ \A m, n \in Memory : SameGame(game'[m], game'[n])
  <2>1. l \in AnyLine
    BY FileLinesAreLines
  <2>2. \A m \in Memory : game'[m] = readLine(game[m], l)
    BY <1>1 DEF readsLine
  <2>3. \A m \in Memory : IsFileGame(game[m])
    BY DEF FileInv
  <2>4. \A m, n \in Memory : SameGame(game[m], game[n])
    BY DEF FileInv
  <2>5. \A m \in Memory : IsFileGame(readLine(game[m], l))
    BY <2>1, <2>3, ReadIsGame
  <2>6. \A m, n \in Memory : SameGame(readLine(game[m], l), readLine(game[n], l))
    BY <2>1, <2>3, <2>4, ReadSame
  <2> QED BY <2>2, <2>5, <2>6
<1>2. unread # << >> => Head(unread) \in FileLine /\ Tail(unread) \in Seq(FileLine)
  BY DEF FileInv
<1>3. CASE ReadLine
  <2>1. /\ \A m \in Memory : IsFileGame(game'[m])
        /\ \A m, n \in Memory : SameGame(game'[m], game'[n])
    BY <1>1, <1>2, <1>3 DEF ReadLine
  <2> QED BY <2>1, <1>2, <1>3 DEF ReadLine, FileInv
<1>4. CASE MissLine
  BY <1>2, <1>4 DEF MissLine, FileInv
<1>5. CASE ReadOddLine
  <2>1. PICK l \in OddLines : readsLine(l)
    BY <1>5 DEF ReadOddLine
  <2>2. l \in FileLine
    BY FileAssumption
  <2>3. /\ \A m \in Memory : IsFileGame(game'[m])
        /\ \A m, n \in Memory : SameGame(game'[m], game'[n])
    BY <1>1, <2>1, <2>2
  <2> QED BY <2>3, <1>5 DEF ReadOddLine, FileInv
<1>6. CASE UNCHANGED definition
  BY <1>6 DEF definition, FileInv
<1> QED BY <1>3, <1>4, <1>5, <1>6 DEF FileNext

LEMMA FileInvReads == FileInv => GameFilesAreRead
<1> SUFFICES ASSUME FileInv PROVE GameFilesAreRead
  OBVIOUS
<1>1. ASSUME NEW m \in Memory, NEW n \in Memory PROVE outcome(game[m]) = outcome(game[n])
  BY SameOutcome DEF FileInv
<1>2. ASSUME NEW g \in games
      PROVE  \E m \in Memory : IsFileGame(game[m]) /\ accepted(game[m]) /\ g = returned(game[m])
  <2>1. PICK m \in Memory : g \in outcome(game[m])
    BY <1>2 DEF games
  <2>2. accepted(game[m]) /\ g = returned(game[m])
    BY <2>1 DEF outcome
  <2> QED BY <2>2 DEF FileInv
<1>3. ReadersAgree
  <2>1. ASSUME NEW g \in games
        PROVE  /\ Engine(g)!GameAssumption
               /\ g.numBoardCards \in [Engine(g)!Rounds -> Nat]
               /\ cardsOf(g) <= g.numSuits * g.numRanks
    BY <1>2, AcceptedIsPlayed
  <2> QED BY <1>1, <2>1 DEF ReadersAgree
<1>4. GameIsReadBack
  <2> SUFFICES ASSUME NEW g \in games, NEW m \in Memory,
                      ~(unlimited(g) /\ g.numPlayers > MAX_ROUNDS), hasType(g)
               PROVE  readGame(printGame(g), m) = {g}
    BY DEF GameIsReadBack
  <2>1. m \in Nat
    BY FileAssumption
  <2> QED BY <2>1, <1>2, PrintedIsRead
<1> QED BY <1>3, <1>4 DEF GameFilesAreRead

\* Programs that read the same game file, with whatever mistakes, all refuse it or
\* all have the same game, one that module Game assumes, with cards enough; and
\* what printGame prints of it is read back as the same game, unless its stacks
\* are neither printed nor set.
THEOREM TheGamesAreRead == FileSpec => []GameFilesAreRead
<1>1. FileInit => FileInv
  BY InitFileInv
<1>2. FileInv /\ [FileNext]_definition => FileInv'
  BY FileInvStep
<1>3. FileInv => GameFilesAreRead
  BY FileInvReads
<1> QED BY <1>1, <1>2, <1>3, PTL DEF FileSpec

=============================================================================
