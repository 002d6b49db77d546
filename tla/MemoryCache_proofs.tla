-------------------------- MODULE MemoryCache_proofs --------------------------
(***************************************************************************)
(* MemoryCache for any keys, values, times to live, callers of Close and   *)
(* capacity.  It implements LossyCache whichever entry the list names for  *)
(* eviction.  The list names the right one: it has the keys of the map,    *)
(* each once and in the order of their use, whatever is removed, moved and *)
(* evicted.  Removal walks the list, so what it leaves is an induction     *)
(* over the list; it rests on the least element of a set of numbers.       *)
(***************************************************************************)
EXTENDS MemoryCache, WellFoundedInduction, FiniteSetTheorems, TLAPS
-----------------------------------------------------------------------------
(* Induction and recursion over numbers *)

\* Every set of numbers has a least one.
LEMMA NatLeast ==
  ASSUME NEW T \in SUBSET Nat, T # {}
  PROVE  \E x \in T : \A y \in T : x <= y
<1> DEFINE R == {ss \in Nat \X Nat : ss[1] < ss[2]}
<1>1. IsWellFoundedOn(R, Nat)
  <2>1. OpToRel(<, Nat) = R
    BY DEF OpToRel
  <2> QED
    BY <2>1, NatLessThanWellFounded
<1>2. \A x, y \in Nat : y < x => <<y, x>> \in R
  OBVIOUS
<1> HIDE DEF R
<1>3. PICK x \in T : \A y \in T : ~ (<<y, x>> \in R)
  BY <1>1, WFMin
<1>4. ASSUME NEW y \in T PROVE x <= y
  <2>1. x \in Nat /\ y \in Nat /\ ~ (<<y, x>> \in R)
    BY <1>3
  <2>2. ~ (y < x)
    BY <2>1, <1>2
  <2> QED
    BY <2>1, <2>2
<1> QED
  BY <1>4

\* What 0 has and n + 1 has if n does, every number has.
LEMMA Induction ==
  ASSUME NEW S, 0 \in S, \A n \in Nat : n \in S => n + 1 \in S
  PROVE  Nat \subseteq S
<1> DEFINE T == {n \in Nat : n \notin S}
<1> SUFFICES ASSUME T # {} PROVE FALSE
  OBVIOUS
<1>1. PICK x \in T : \A y \in T : x <= y
  <2>1. T \in SUBSET Nat
    OBVIOUS
  <2> HIDE DEF T
  <2> QED
    BY <2>1, NatLeast
<1>2. x \in Nat /\ x # 0
  OBVIOUS
<1>3. x - 1 \in Nat /\ (x - 1) + 1 = x
  BY <1>2
<1>4. x - 1 \notin T
  BY <1>1, <1>2, <1>3
<1> QED
  BY <1>3, <1>4

\* There is a function that computes n steps from its first value.
LEMMA Recursion ==
  ASSUME NEW D, NEW a \in D, NEW n \in Nat, NEW G \in [1..n -> [D -> D]]
  PROVE  \E f \in [0..n -> D] : f[0] = a /\ \A i \in 1..n : f[i] = G[i][f[i - 1]]
<1> DEFINE Solves(f, m) == f \in [0..m -> D] /\ f[0] = a /\ \A i \in 1..m : f[i] = G[i][f[i - 1]]
           S == {m \in Nat : m <= n => \E f : Solves(f, m)}
<1>1. 0 \in S
  <2>1. Solves([i \in 0..0 |-> a], 0)
    OBVIOUS
  <2> QED
    BY <2>1
<1>2. ASSUME NEW m \in Nat, m \in S PROVE m + 1 \in S
  <2> SUFFICES ASSUME m + 1 <= n PROVE \E f : Solves(f, m + 1)
    OBVIOUS
  <2>1. m <= n /\ m + 1 \in 1..n
    OBVIOUS
  <2>2. PICK f : Solves(f, m)
    BY <1>2, <2>1
  <2> DEFINE b == G[m + 1][f[m]]
             g == [i \in 0..(m + 1) |-> IF i = m + 1 THEN b ELSE f[i]]
  <2>3. b \in D
    <3>1. f[m] \in D /\ G[m + 1] \in [D -> D]
      BY <2>1, <2>2
    <3> QED
      BY <3>1
  <2>4. g \in [0..(m + 1) -> D]
    BY <2>2, <2>3
  <2>5. ASSUME NEW i \in 1..(m + 1) PROVE g[i] = G[i][g[i - 1]]
    <3>1. g[i - 1] = f[i - 1]
      OBVIOUS
    <3>2. CASE i = m + 1
      BY <3>1, <3>2
    <3>3. CASE i # m + 1
      <4>1. i \in 1..m /\ i \in 0..(m+1)
        BY <3>3
      <4>2. g[i] = f[i]
        BY <3>3, <4>1
      <4> QED
        BY <2>2, <3>1, <4>1, <4>2
    <3> QED
      BY <3>2, <3>3
  <2>6. g[0] = a
    BY <2>2
  <2> QED
    BY <2>4, <2>5, <2>6
<1>3. n \in S
  <2> HIDE DEF S
  <2> QED
    BY <1>1, <1>2, Induction
<1> QED
  BY <1>3
-----------------------------------------------------------------------------
(* The list *)

\* Remove leaves the others, in the order they had.
LEMMA WithoutKeeps ==
  ASSUME lru \in Seq(Keys), NEW gone
  PROVE  /\ Without(gone) \in Seq(Keys)
         /\ Len(Without(gone)) <= Len(lru)
         /\ (\E i \in 1..Len(lru) : lru[i] \in gone) => Len(Without(gone)) < Len(lru)
         /\ \A i \in 1..Len(lru) : lru[i] \notin gone =>
               \E j \in 1..Len(Without(gone)) : Without(gone)[j] = lru[i]
         /\ \A j \in 1..Len(Without(gone)) : Without(gone)[j] \notin gone
         /\ \A j \in 1..Len(Without(gone)) :
               \E i \in 1..Len(lru) : Without(gone)[j] = lru[i]
         /\ \A j, m \in 1..Len(Without(gone)) : j < m =>
               \E i, l \in 1..Len(lru) :
                  i < l /\ Without(gone)[j] = lru[i] /\ Without(gone)[m] = lru[l]
<1> DEFINE K[n \in 0..Len(lru)] ==
             IF n = 0 THEN <<>>
             ELSE IF lru[n] \in gone THEN K[n - 1] ELSE Append(K[n - 1], lru[n])
           Step(g) == [n \in 0..Len(lru) |->
             IF n = 0 THEN <<>>
             ELSE IF lru[n] \in gone THEN g[n - 1] ELSE Append(g[n - 1], lru[n])]
           G == [n \in 1..Len(lru) |-> [s \in Seq(Keys) |->
                   IF lru[n] \in gone THEN s ELSE Append(s, lru[n])]]
<1>1. Without(gone) = K[Len(lru)]
  BY DEF Without
<1>2. Len(lru) \in Nat /\ <<>> \in Seq(Keys) /\ \A i \in 1..Len(lru) : lru[i] \in Keys
  OBVIOUS
<1>3. G \in [1..Len(lru) -> [Seq(Keys) -> Seq(Keys)]]
  BY <1>2
<1>4. PICK f \in [0..Len(lru) -> Seq(Keys)] :
        f[0] = <<>> /\ \A i \in 1..Len(lru) : f[i] = G[i][f[i - 1]]
  <2> DEFINE D == Seq(Keys)  a == <<>>  n == Len(lru)
  <2>1. a \in D /\ n \in Nat /\ G \in [1..n -> [D -> D]]
    BY <1>2, <1>3
  <2> HIDE DEF D, a, n, G
  <2>2. \E f \in [0..n -> D] : f[0] = a /\ \A i \in 1..n : f[i] = G[i][f[i - 1]]
    BY <2>1, Recursion
  <2> QED
    BY <2>2 DEF D, a, n
<1>5. f = Step(f)
  <2>1. ASSUME NEW i \in 1..Len(lru)
        PROVE  f[i] = IF lru[i] \in gone THEN f[i - 1] ELSE Append(f[i - 1], lru[i])
    <3>1. i - 1 \in 0..Len(lru)
      BY <1>2
    <3>2. f[i - 1] \in Seq(Keys)
      BY <1>4, <3>1
    <3>3. G[i][f[i - 1]] = IF lru[i] \in gone THEN f[i - 1] ELSE Append(f[i - 1], lru[i])
      BY <3>2
    <3> HIDE DEF G
    <3> QED
      BY <1>4, <3>3
  <2>2. ASSUME NEW i \in 0..Len(lru)
        PROVE  f[i] = IF i = 0 THEN <<>>
                      ELSE IF lru[i] \in gone THEN f[i - 1] ELSE Append(f[i - 1], lru[i])
    <3>1. i = 0 \/ i \in 1..Len(lru)
      BY <1>2
    <3> HIDE DEF G
    <3> QED
      BY <1>4, <2>1, <3>1
  <2>3. f = [i \in 0..Len(lru) |-> f[i]]
    OBVIOUS
  <2> HIDE DEF G
  <2> QED
    BY <2>2, <2>3, Zenon
<1>6. K = Step(K)
  BY <1>5
<1>7. /\ K[0] = <<>>
      /\ \A n \in 1..Len(lru) :
            K[n] = IF lru[n] \in gone THEN K[n - 1] ELSE Append(K[n - 1], lru[n])
  <2>1. ASSUME NEW g, g = Step(g), NEW n \in 0..Len(lru)
        PROVE  g[n] = IF n = 0 THEN <<>>
                      ELSE IF lru[n] \in gone THEN g[n - 1] ELSE Append(g[n - 1], lru[n])
    <3>1. Step(g)[n] = IF n = 0 THEN <<>>
                       ELSE IF lru[n] \in gone THEN g[n - 1] ELSE Append(g[n - 1], lru[n])
      OBVIOUS
    <3> HIDE DEF Step
    <3> QED
      BY <2>1, <3>1, Zenon
  <2> HIDE DEF K, Step
  <2>2. 0 \in 0..Len(lru) /\ \A n \in 1..Len(lru) : n \in 0..Len(lru) /\ n # 0
    BY <1>2
  <2> QED
    BY <1>6, <2>1, <2>2
<1> DEFINE Keeps(n, w) ==
             /\ w \in Seq(Keys)
             /\ Len(w) <= n
             /\ (\E i \in 1..n : lru[i] \in gone) => Len(w) < n
             /\ \A i \in 1..n : lru[i] \notin gone => \E j \in 1..Len(w) : w[j] = lru[i]
             /\ \A j \in 1..Len(w) : w[j] \notin gone
             /\ \A j \in 1..Len(w) : \E i \in 1..n : w[j] = lru[i]
             /\ \A j, m \in 1..Len(w) : j < m =>
                   \E i, l \in 1..n : i < l /\ w[j] = lru[i] /\ w[m] = lru[l]
           S == {n \in Nat : n <= Len(lru) => Keeps(n, K[n])}
<1> HIDE DEF K, G, Step
<1>8. 0 \in S
  <2>1. Keeps(0, <<>>)
    BY <1>2
  <2> HIDE DEF Keeps
  <2> QED
    BY <1>7, <2>1
<1>9. ASSUME NEW n \in Nat, n \in S PROVE n + 1 \in S
  <2> HIDE DEF Keeps
  <2> SUFFICES ASSUME n + 1 <= Len(lru) PROVE Keeps(n + 1, K[n + 1])
    OBVIOUS
  <2>1. n <= Len(lru) /\ n + 1 \in 1..Len(lru) /\ (n + 1) - 1 = n /\ Len(lru) \in Nat
    BY <1>2
  <2>2. Keeps(n, K[n])
    BY <1>9, <2>1
  <2>3. K[n + 1] = IF lru[n + 1] \in gone THEN K[n] ELSE Append(K[n], lru[n + 1])
    BY <1>7, <2>1
  <2>4. ASSUME NEW w, Keeps(n, w), lru[n + 1] \in gone PROVE Keeps(n + 1, w)
    BY <2>1, <2>4 DEF Keeps
  <2>5. ASSUME NEW w, Keeps(n, w), lru[n + 1] \notin gone
        PROVE  Keeps(n + 1, Append(w, lru[n + 1]))
    <3> USE DEF Keeps
    <3> DEFINE v == Append(w, lru[n + 1])
    <3>1. /\ v \in Seq(Keys) /\ Len(w) \in Nat /\ Len(v) = Len(w) + 1
          /\ v[Len(w) + 1] = lru[n + 1] /\ \A j \in 1..Len(w) : v[j] = w[j]
      BY <1>2, <2>1, <2>5
    <3> HIDE DEF v
    <3>2. \A j \in 1..Len(v) : j \in 1..Len(w) \/ j = Len(w) + 1
      BY <3>1
    <3>3. \A i \in 1..(n + 1) : i \in 1..n \/ i = n + 1
      OBVIOUS
    <3>4. Len(v) <= n + 1 /\ ((\E i \in 1..(n + 1) : lru[i] \in gone) => Len(v) < n + 1)
      BY <2>5, <3>1, <3>3
    <3>5. \A i \in 1..(n + 1) : lru[i] \notin gone => \E j \in 1..Len(v) : v[j] = lru[i]
      BY <2>5, <3>1, <3>3
    <3>6. \A j \in 1..Len(v) : v[j] \notin gone
      BY <2>5, <3>1, <3>2
    <3>7. ASSUME NEW j \in 1..Len(v) PROVE \E i \in 1..(n + 1) : v[j] = lru[i]
      <4>1. CASE j \in 1..Len(w)
        BY <2>5, <3>1, <4>1
      <4>2. CASE j = Len(w) + 1
        BY <3>1, <4>2
      <4> QED
        BY <3>2, <4>1, <4>2
    <3>8. ASSUME NEW j \in 1..Len(v), NEW m \in 1..Len(v), j < m
          PROVE  \E i, l \in 1..(n + 1) : i < l /\ v[j] = lru[i] /\ v[m] = lru[l]
      <4>1. j \in 1..Len(w)
        BY <3>1, <3>2, <3>8
      <4>2. CASE m \in 1..Len(w)
        <5>1. PICK i \in 1..n, l \in 1..n : i < l /\ w[j] = lru[i] /\ w[m] = lru[l]
          BY <2>5, <3>8, <4>1, <4>2
        <5>2. i \in 1..(n + 1) /\ l \in 1..(n + 1) /\ v[j] = lru[i] /\ v[m] = lru[l]
          BY <3>1, <4>1, <4>2, <5>1
        <5> QED
          BY <5>1, <5>2
      <4>3. CASE m = Len(w) + 1
        <5>1. PICK i \in 1..n : w[j] = lru[i]
          BY <2>5, <4>1
        <5>2. i < n + 1 /\ i \in 1..(n + 1) /\ n + 1 \in 1..(n + 1)
          OBVIOUS
        <5> QED
          BY <3>1, <4>1, <4>3, <5>1, <5>2
      <4> QED
        BY <3>2, <4>2, <4>3
    <3> QED
      BY <3>1, <3>4, <3>5, <3>6, <3>7, <3>8 DEF v
  <2> QED
    BY <2>2, <2>3, <2>4, <2>5
<1>10. Keeps(Len(lru), K[Len(lru)])
  <2>1. Len(lru) \in S
    <3> HIDE DEF S
    <3> QED
      BY <1>2, <1>8, <1>9, Induction
  <2> QED
    BY <1>2, <2>1
<1> QED
  BY <1>1, <1>10

-----------------------------------------------------------------------------
\* The list has these keys, each once.
Mirrors(s, S) ==
    /\ s \in Seq(Keys)
    /\ \A k \in Keys : k \in S <=> \E i \in 1..Len(s) : s[i] = k
    /\ \A i, j \in 1..Len(s) : s[i] = s[j] => i = j

\* What is further to the front was used later.
InOrder(s, later) == \A i, j \in 1..Len(s) : i < j => <<s[i], s[j]>> \in later

\* Removing keys from the list removes them from what it mirrors.
LEMMA Removed ==
    ASSUME Mirrors(lru, Present), InOrder(lru, newer), NEW gone
    PROVE  /\ Mirrors(Without(gone), Present \ gone)
           /\ InOrder(Without(gone), newer)
           /\ Len(Without(gone)) <= Len(lru)
           /\ gone \cap Present # {} => Len(Without(gone)) < Len(lru)
<1> DEFINE w == Without(gone)
<1>1. /\ w \in Seq(Keys)
      /\ Len(w) <= Len(lru)
      /\ (\E i \in 1..Len(lru) : lru[i] \in gone) => Len(w) < Len(lru)
      /\ \A i \in 1..Len(lru) : lru[i] \notin gone => \E j \in 1..Len(w) : w[j] = lru[i]
      /\ \A j \in 1..Len(w) : w[j] \notin gone
      /\ \A j \in 1..Len(w) : \E i \in 1..Len(lru) : w[j] = lru[i]
      /\ \A j, m \in 1..Len(w) : j < m =>
            \E i, l \in 1..Len(lru) : i < l /\ w[j] = lru[i] /\ w[m] = lru[l]
  BY WithoutKeeps DEF Mirrors
<1> HIDE DEF w
<1>2. Len(lru) \in Nat /\ Len(w) \in Nat
  BY <1>1 DEF Mirrors
<1>3. ASSUME NEW k \in Keys
      PROVE  k \in Present \ gone <=> \E j \in 1..Len(w) : w[j] = k
  <2>1. k \in Present <=> \E i \in 1..Len(lru) : lru[i] = k
    BY DEF Mirrors
  <2>2. ASSUME k \in Present, k \notin gone PROVE \E j \in 1..Len(w) : w[j] = k
    BY <1>1, <2>1, <2>2
  <2>3. ASSUME NEW j \in 1..Len(w), w[j] = k PROVE k \in Present /\ k \notin gone
    BY <1>1, <2>1, <2>3
  <2> QED
    BY <2>2, <2>3
<1>4. ASSUME NEW j \in 1..Len(w), NEW m \in 1..Len(w), j < m
      PROVE  w[j] # w[m] /\ <<w[j], w[m]>> \in newer
  <2>1. PICK i \in 1..Len(lru), l \in 1..Len(lru) : i < l /\ w[j] = lru[i] /\ w[m] = lru[l]
    BY <1>1, <1>4
  <2>2. lru[i] # lru[l]
    BY <1>2, <2>1 DEF Mirrors
  <2> QED
    BY <2>1, <2>2 DEF InOrder
<1>5. ASSUME NEW j \in 1..Len(w), NEW m \in 1..Len(w), w[j] = w[m] PROVE j = m
  <2>1. ~ (j < m) /\ ~ (m < j)
    BY <1>4, <1>5
  <2> QED
    BY <1>2, <2>1
<1>6. gone \cap Present # {} => \E i \in 1..Len(lru) : lru[i] \in gone
  BY DEF Mirrors, Present
<1> QED
  BY <1>1, <1>3, <1>4, <1>5, <1>6 DEF Mirrors, InOrder, w

\* A key that was not in the list goes to the front, and is the latest used.
LEMMA Pushed ==
    ASSUME NEW s, NEW S, NEW k \in Keys, Mirrors(s, S), InOrder(s, newer), k \notin S
    PROVE  /\ Mirrors(<<k>> \o s, S \cup {k})
           /\ InOrder(<<k>> \o s, Used(k))
           /\ Len(<<k>> \o s) = Len(s) + 1
<1> DEFINE t == <<k>> \o s
<1>1. /\ t \in Seq(Keys) /\ Len(t) = Len(s) + 1 /\ Len(s) \in Nat
      /\ t[1] = k /\ \A i \in 1..Len(s) : t[i + 1] = s[i]
  BY DEF Mirrors
<1> HIDE DEF t
<1>2. ASSUME NEW i \in 1..Len(t), i # 1
      PROVE  i - 1 \in 1..Len(s) /\ t[i] = s[i - 1] /\ t[i] # k /\ t[i] \in Keys
  <2>1. i - 1 \in 1..Len(s)
    BY <1>1, <1>2
  <2>2. t[i] = s[i - 1]
    BY <1>1, <2>1
  <2> QED
    BY <2>1, <2>2 DEF Mirrors
<1>3. \A l \in Keys : l \in S \cup {k} <=> \E i \in 1..Len(t) : t[i] = l
  <2>1. \A i \in 1..Len(s) : i + 1 \in 1..Len(t)
    BY <1>1
  <2>2. 1 \in 1..Len(t)
    BY <1>1
  <2>3. ASSUME NEW l \in S, l \in Keys PROVE \E i \in 1..Len(t) : t[i] = l
    <3>1. PICK i \in 1..Len(s) : s[i] = l
      BY <2>3 DEF Mirrors
    <3> QED
      BY <1>1, <2>1, <3>1
  <2>4. ASSUME NEW i \in 1..Len(t), i # 1 PROVE t[i] \in S
    BY <1>2, <2>4 DEF Mirrors
  <2> QED
    BY <1>1, <2>2, <2>3, <2>4
<1>4. ASSUME NEW i \in 1..Len(t), NEW j \in 1..Len(t), t[i] = t[j] PROVE i = j
  <2>1. CASE i # 1 /\ j # 1
    <3>1. i - 1 = j - 1
      BY <1>2, <1>4, <2>1 DEF Mirrors
    <3> QED
      BY <3>1
  <2>2. CASE i = 1 \/ j = 1
    BY <1>1, <1>2, <1>4, <2>2
  <2> QED
    BY <2>1, <2>2
<1>5. ASSUME NEW i \in 1..Len(t), NEW j \in 1..Len(t), i < j
      PROVE  <<t[i], t[j]>> \in Used(k)
  <2>1. j # 1 /\ j - 1 \in 1..Len(s) /\ t[j] = s[j - 1] /\ t[j] \in Keys \ {k}
    BY <1>2, <1>5
  <2>2. CASE i = 1
    BY <1>1, <2>1, <2>2 DEF Used
  <2>3. CASE i # 1
    <3>1. <<t[i], t[j]>> \in newer
      BY <1>2, <1>5, <2>1, <2>3 DEF InOrder
    <3> QED
      BY <2>1, <3>1 DEF Used
  <2> QED
    BY <2>2, <2>3
<1> QED
  BY <1>1, <1>3, <1>4, <1>5 DEF Mirrors, InOrder, t

\* The back of the list is a key of the map.
LEMMA Evicted ==
    ASSUME Mirrors(lru, Present), InOrder(lru, newer), Len(lru) > 0
    PROVE  LET s == SubSeq(lru, 1, Len(lru) - 1)
               last == lru[Len(lru)] IN
           /\ last \in Present
           /\ Mirrors(s, Present \ {last})
           /\ InOrder(s, newer)
           /\ Len(s) = Len(lru) - 1
<1> DEFINE s == SubSeq(lru, 1, Len(lru) - 1)
           last == lru[Len(lru)]
<1>1. Len(lru) \in Nat \ {0} /\ Len(lru) \in 1..Len(lru) /\ last \in Keys
  BY DEF Mirrors
<1>2. /\ s \in Seq(Keys) /\ Len(s) = Len(lru) - 1
      /\ \A i \in 1..Len(s) : i \in 1..Len(lru) /\ i # Len(lru) /\ s[i] = lru[i]
  <2>1. lru \in Seq(Keys) /\ 1 \in Nat /\ Len(lru) - 1 \in 0..Len(lru)
    BY <1>1 DEF Mirrors
  <2>2. s \in Seq(Keys) /\ Len(s) = Len(lru) - 1
    <3> DEFINE n == Len(lru) - 1
    <3>1. n \in 0..Len(lru) /\ lru \in Seq(Keys)
      BY <2>1
    <3> HIDE DEF n
    <3>2. SubSeq(lru, 1, n) \in Seq(Keys)
      BY <3>1
    <3>3. Len(SubSeq(lru, 1, n)) = n
      BY <3>1
    <3> QED
      BY <3>2, <3>3 DEF n
  <2>3. ASSUME NEW i \in 1..(Len(lru) - 1)
        PROVE  i \in 1..Len(lru) /\ i # Len(lru) /\ s[i] = lru[i]
    BY <1>1, <2>1
  <2> QED
    BY <2>2, <2>3
<1>3. \A i \in 1..Len(lru) : i # Len(lru) => i \in 1..Len(s)
  BY <1>1, <1>2
<1> HIDE DEF s
<1>4. \A k \in Keys : k \in Present \ {last} <=> \E i \in 1..Len(s) : s[i] = k
  BY <1>1, <1>2, <1>3 DEF Mirrors
<1>5. last \in Present
  BY <1>1 DEF Mirrors
<1> QED
  BY <1>2, <1>4, <1>5 DEF Mirrors, InOrder, s
-----------------------------------------------------------------------------
(* The contract *)

USE TimeAssumption, MissAssumption

\* The map holds entries; the deadline of each is granted by Set.
ItemsOK == items \in [Keys -> Entries \cup {Miss}]

LEMMA EntryType ==
  ASSUME NEW v \in Values, NEW ttl \in TTLs
  PROVE  Entry(v, ttl) \in Entries \cup {Miss}
<1>1. Granted(ttl) \in -1..MaxTTL
  BY DEF Granted
<1> QED
  BY <1>1 DEF Entry, Entries

LEMMA ItemsInit == Init => ItemsOK
  BY DEF Init, ItemsOK

LEMMA ItemsNext == ItemsOK /\ [Next]_vars => ItemsOK'
<1> SUFFICES ASSUME ItemsOK, [Next]_vars PROVE ItemsOK'
  OBVIOUS
<1> USE DEF ItemsOK
<1>1. ASSUME NEW k \in Keys, Get(k) PROVE ItemsOK'
  BY <1>1 DEF Get, cacheVars
<1>2. ASSUME NEW k \in Keys, NEW v \in Values, NEW ttl \in TTLs, Set(k, v, ttl)
      PROVE  ItemsOK'
  BY <1>2, EntryType DEF Set
<1>3. CASE Tick
  <2>1. ASSUME NEW k \in Keys, items[k] # Miss, ~Expired(k)
        PROVE  [items[k] EXCEPT !.left = @ - 1] \in Entries \cup {Miss}
    BY <2>1 DEF Expired, Entries
  <2> QED
    BY <1>3, <2>1 DEF Tick
<1>4. CASE CleanupTick \/ CleanupExpired
  BY <1>4 DEF CleanupTick, CleanupExpired, RemoveExpired
<1>5. CASE LoopStops
  BY <1>5 DEF LoopStops, cacheVars
<1>6. ASSUME NEW c \in Closers, CloseBegins(c) \/ CloseReturns(c) PROVE ItemsOK'
  BY <1>6 DEF CloseBegins, CloseReturns, cacheVars
<1>7. CASE UNCHANGED vars
  BY <1>7 DEF vars, cacheVars
<1> QED
  BY <1>1, <1>2, <1>3, <1>4, <1>5, <1>6, <1>7 DEF Next

\* Every step of the cache is a step of its contract or a stutter.
LEMMA ContractStep == ItemsOK /\ [Next]_vars => [Contract!Next]_(Contract!vars)
<1> SUFFICES ASSUME ItemsOK, [Next]_vars PROVE [Contract!Next]_(Contract!vars)
  OBVIOUS
<1> USE DEF ItemsOK, Contract!vars
<1>1. ASSUME NEW k \in Keys, Get(k) PROVE Contract!Next
  <2>1. CASE items[k] # Miss /\ ~Expired(k)
    <3>1. items[k].left >= 0
      BY <2>1 DEF Expired, Entries
    <3> QED
      BY <1>1, <2>1, <3>1 DEF Get, Contract!Next, Contract!Hit, Contract!Alive
  <2>2. CASE items[k] = Miss \/ Expired(k)
    <3>1. ~Contract!Alive(items[k])
      BY <2>2 DEF Expired, Entries, Contract!Alive
    <3> QED
      BY <1>1, <2>2, <3>1 DEF Get, Expired, Contract!Next, Contract!MissOn, cacheVars
  <2> QED
    BY <2>1, <2>2
<1>2. ASSUME NEW k \in Keys, NEW v \in Values, NEW ttl \in TTLs, Set(k, v, ttl)
      PROVE  Contract!Next
  <2>1. Entry(v, ttl) = Contract!Entry(v, ttl)
    BY DEF Entry, Granted, Contract!Entry, Contract!Granted
  <2>2. \E lost \in SUBSET (Keys \ {k}) :
          items' = [i \in Keys |-> IF i = k THEN Entry(v, ttl)
                                   ELSE IF i \in lost THEN Miss ELSE items[i]]
    <3>1. CASE items' = [items EXCEPT ![k] = Entry(v, ttl)]
      <4> WITNESS {} \in SUBSET (Keys \ {k})
      <4> QED
        BY <3>1
    <3>2. CASE items' = [items EXCEPT ![lru[Len(lru)]] = Miss, ![k] = Entry(v, ttl)]
      <4> WITNESS {lru[Len(lru)]} \cap (Keys \ {k}) \in SUBSET (Keys \ {k})
      <4> QED
        BY <3>2
    <3>3. \/ items' = [items EXCEPT ![k] = Entry(v, ttl)]
          \/ items' = [items EXCEPT ![lru[Len(lru)]] = Miss, ![k] = Entry(v, ttl)]
      BY <1>2 DEF Set
    <3> QED
      BY <3>1, <3>2, <3>3
  <2>3. UNCHANGED answer
    BY <1>2 DEF Set
  <2>4. Contract!Set(k, v, ttl)
    BY <2>1, <2>2, <2>3 DEF Contract!Set
  <2> QED
    BY <2>4 DEF Contract!Next
<1>3. ASSUME Tick PROVE Contract!Next
  <2>1. ASSUME NEW k \in Keys
        PROVE  Contract!Alive(items[k]) <=> items[k] # Miss /\ ~Expired(k)
    BY DEF Contract!Alive, Expired, Entries
  <2> QED
    BY <1>3, <2>1 DEF Tick, Contract!Next, Contract!Tick
<1>4. ASSUME CleanupTick \/ CleanupExpired PROVE Contract!Next
  <2>1. RemoveExpired
    BY <1>4 DEF CleanupTick, CleanupExpired
  <2>2. \E lost \in SUBSET Keys :
          items' = [i \in Keys |-> IF i \in lost THEN Miss ELSE items[i]]
    <3> WITNESS {k \in Keys : Expired(k)} \in SUBSET Keys
    <3> QED
      BY <2>1 DEF RemoveExpired
  <2> QED
    BY <2>1, <2>2 DEF RemoveExpired, Contract!Next, Contract!Lose
<1>5. ASSUME LoopStops PROVE UNCHANGED Contract!vars
  BY <1>5 DEF LoopStops, cacheVars
<1>6. ASSUME NEW c \in Closers, CloseBegins(c) \/ CloseReturns(c)
      PROVE  UNCHANGED Contract!vars
  BY <1>6 DEF CloseBegins, CloseReturns, cacheVars
<1>7. ASSUME UNCHANGED vars PROVE UNCHANGED Contract!vars
  BY <1>7 DEF vars, cacheVars
<1> QED
  BY <1>1, <1>2, <1>3, <1>4, <1>5, <1>6, <1>7 DEF Next

(***************************************************************************)
(* Whatever is set, evicted, expired and cleaned up in between, a Get      *)
(* answers with the live value last set or with a miss (memoryGet,         *)
(* memorySet, cleanupExpired; the Cache interface).                        *)
(***************************************************************************)
THEOREM CacheImplementsContract == Spec => ImplementsLossyCache
<1>1. Init => Contract!Init
  BY DEF Init, Contract!Init
<1>2. Spec => []ItemsOK
  BY ItemsInit, ItemsNext, PTL DEF Spec
<1> QED
  BY <1>1, <1>2, ContractStep, PTL DEF Spec, ImplementsLossyCache, Contract!Spec

(***************************************************************************)
(* However many callers Close has, none returns before the goroutine that  *)
(* cleans up has ended (Close, cleanupLoop).                               *)
(***************************************************************************)
THEOREM CloseCorrect == Spec => []CloseWaitsForCleanup
<1>1. Init => CloseWaitsForCleanup
  BY DEF Init, CloseWaitsForCleanup
<1>2. CloseWaitsForCleanup /\ [Next]_vars => CloseWaitsForCleanup'
  <2> SUFFICES ASSUME CloseWaitsForCleanup, [Next]_vars PROVE CloseWaitsForCleanup'
    OBVIOUS
  <2> USE DEF CloseWaitsForCleanup, closeVars
  <2>1. ASSUME NEW k \in Keys, Get(k) PROVE CloseWaitsForCleanup'
    BY <2>1 DEF Get
  <2>2. ASSUME NEW k \in Keys, NEW v \in Values, NEW ttl \in TTLs, Set(k, v, ttl)
        PROVE  CloseWaitsForCleanup'
    BY <2>2 DEF Set
  <2>3. CASE Tick \/ CleanupTick \/ CleanupExpired
    BY <2>3 DEF Tick, CleanupTick, CleanupExpired, RemoveExpired
  <2>4. CASE LoopStops
    BY <2>4 DEF LoopStops
  <2>5. ASSUME NEW c \in Closers, CloseBegins(c) PROVE CloseWaitsForCleanup'
    BY <2>5 DEF CloseBegins
  <2>6. ASSUME NEW c \in Closers, CloseReturns(c) PROVE CloseWaitsForCleanup'
    BY <2>6 DEF CloseReturns
  <2>7. CASE UNCHANGED vars
    BY <2>7 DEF vars
  <2> QED
    BY <2>1, <2>2, <2>3, <2>4, <2>5, <2>6, <2>7 DEF Next
<1> QED
  BY <1>1, <1>2, PTL DEF Spec
-----------------------------------------------------------------------------
(* The list and the map *)

\* The inductive invariant: the list mirrors the map, in the order of use.
LruInv ==
    /\ ItemsOK
    /\ Mirrors(lru, Present) /\ InOrder(lru, newer)
    /\ Len(lru) <= MaxSize

\* A key that is set is present.
LEMMA SetEntry ==
    ASSUME NEW v \in Values, NEW ttl \in TTLs
    PROVE  Entry(v, ttl) # Miss
<1>1. Entry(v, ttl) \in [value : Values, left : -1..MaxTTL]
  BY EntryType DEF Entry, Entries, Granted
<1> QED
  BY <1>1

\* An entry that is used moves to the front.
LEMMA MovedToFront ==
    ASSUME LruInv, NEW k \in Present
    PROVE  /\ Mirrors(Front(k), Present)
           /\ InOrder(Front(k), Used(k))
           /\ Len(Front(k)) <= MaxSize
<1> DEFINE w == Without({k})
<1>1. Mirrors(lru, Present) /\ InOrder(lru, newer) /\ k \in Keys /\ {k} \cap Present # {}
  BY DEF LruInv, Present
<1>2. Mirrors(w, Present \ {k}) /\ InOrder(w, newer) /\ Len(w) < Len(lru)
  BY <1>1, Removed
<1>3. /\ Mirrors(<<k>> \o w, (Present \ {k}) \cup {k})
      /\ InOrder(<<k>> \o w, Used(k))
      /\ Len(<<k>> \o w) = Len(w) + 1
  <2> HIDE DEF w
  <2> QED
    BY <1>1, <1>2, Pushed
<1>4. (Present \ {k}) \cup {k} = Present
  OBVIOUS
<1>5. Len(w) \in Nat /\ Len(lru) \in Nat /\ Len(lru) <= MaxSize /\ MaxSize \in Nat
  BY <1>1, <1>2, SizeAssumption DEF Mirrors, LruInv
<1>6. Front(k) = <<k>> \o w
  BY DEF Front
<1> HIDE DEF w
<1>7. Len(<<k>> \o w) <= MaxSize
  BY <1>2, <1>3, <1>5
<1> QED
  BY <1>3, <1>4, <1>6, <1>7

\* Room for a new key is made at the back.
LEMMA Added ==
    ASSUME LruInv, NEW k \in Keys, items[k] = Miss, Len(lru) >= MaxSize
    PROVE  LET s == SubSeq(lru, 1, Len(lru) - 1)
               last == lru[Len(lru)] IN
           /\ last \in Present
           /\ Mirrors(<<k>> \o s, (Present \ {last}) \cup {k})
           /\ InOrder(<<k>> \o s, Used(k))
           /\ Len(<<k>> \o s) = MaxSize
<1> DEFINE s == SubSeq(lru, 1, Len(lru) - 1)
           last == lru[Len(lru)]
<1>1. Mirrors(lru, Present) /\ InOrder(lru, newer) /\ k \notin Present
  BY DEF LruInv, Present
<1>2. Len(lru) = MaxSize /\ MaxSize \in Nat \ {0}
  BY <1>1, SizeAssumption DEF LruInv, Mirrors
<1>3. last \in Present /\ Mirrors(s, Present \ {last}) /\ InOrder(s, newer) /\ Len(s) = Len(lru) - 1
  BY <1>1, <1>2, Evicted
<1> HIDE DEF s, last
<1>4. /\ Mirrors(<<k>> \o s, (Present \ {last}) \cup {k})
      /\ InOrder(<<k>> \o s, Used(k))
      /\ Len(<<k>> \o s) = Len(s) + 1
  BY <1>1, <1>3, Pushed
<1> QED
  BY <1>2, <1>3, <1>4 DEF s, last

\* The list follows the map in every operation.
LEMMA GetKeepsList == ASSUME LruInv, NEW k \in Keys, Get(k) PROVE LruInv'
<1>0. ItemsOK'
  BY ItemsNext DEF LruInv, Next
<1>1. CASE UNCHANGED cacheVars
  BY <1>0, <1>1 DEF LruInv, cacheVars, Present
<1>2. CASE /\ Expired(k) /\ items' = [items EXCEPT ![k] = Miss]
           /\ lru' = Without({k}) /\ UNCHANGED newer
  <2>1. Present' = Present \ {k}
    BY <1>2 DEF Present, LruInv, ItemsOK
  <2>2. Mirrors(lru', Present') /\ InOrder(lru', newer') /\ Len(lru') <= Len(lru)
    BY <1>2, <2>1, Removed DEF LruInv
  <2>3. Len(lru) \in Nat /\ Len(lru') \in Nat /\ MaxSize \in Nat /\ Len(lru) <= MaxSize
    BY <2>2, SizeAssumption DEF LruInv, Mirrors
  <2> QED
    BY <1>0, <2>2, <2>3 DEF LruInv
<1>3. CASE items[k] # Miss /\ lru' = Front(k) /\ newer' = Used(k) /\ UNCHANGED items
  <2>1. Present' = Present /\ k \in Present
    BY <1>3 DEF Present
  <2>2. Mirrors(lru', Present') /\ InOrder(lru', newer') /\ Len(lru') <= MaxSize
    BY <1>3, <2>1, MovedToFront
  <2> QED
    BY <1>0, <2>2 DEF LruInv
<1> QED
  BY <1>1, <1>2, <1>3 DEF Get

LEMMA SetKeepsList ==
    ASSUME LruInv, NEW k \in Keys, NEW v \in Values, NEW ttl \in TTLs, Set(k, v, ttl)
    PROVE  LruInv'
<1>0. ItemsOK' /\ newer' = Used(k) /\ Entry(v, ttl) # Miss
  BY ItemsNext, SetEntry DEF LruInv, Next, Set
<1> HIDE MissAssumption
<1>1. CASE items[k] # Miss /\ items' = [items EXCEPT ![k] = Entry(v, ttl)] /\ lru' = Front(k)
  <2>1. Present' = Present /\ k \in Present
    BY <1>0, <1>1 DEF Present, LruInv, ItemsOK
  <2>2. Mirrors(lru', Present') /\ InOrder(lru', newer') /\ Len(lru') <= MaxSize
    BY <1>0, <1>1, <2>1, MovedToFront
  <2> QED
    BY <1>0, <2>2 DEF LruInv
<1>2. CASE items[k] = Miss /\ Len(lru) < MaxSize
           /\ items' = [items EXCEPT ![k] = Entry(v, ttl)] /\ lru' = <<k>> \o lru
  <2>1. Present' = Present \cup {k} /\ k \notin Present
    BY <1>0, <1>2 DEF Present, LruInv, ItemsOK
  <2>2. Mirrors(lru', Present') /\ InOrder(lru', newer') /\ Len(lru') = Len(lru) + 1
    BY <1>0, <1>2, <2>1, Pushed DEF LruInv
  <2>3. Len(lru) \in Nat /\ MaxSize \in Nat
    BY SizeAssumption DEF LruInv, Mirrors
  <2> QED
    BY <1>0, <1>2, <2>2, <2>3 DEF LruInv
<1>3. CASE items[k] = Miss /\ Len(lru) >= MaxSize
           /\ items' = [items EXCEPT ![lru[Len(lru)]] = Miss, ![k] = Entry(v, ttl)]
           /\ lru' = <<k>> \o SubSeq(lru, 1, Len(lru) - 1)
  <2>1. /\ lru[Len(lru)] \in Present
        /\ Mirrors(lru', (Present \ {lru[Len(lru)]}) \cup {k})
        /\ InOrder(lru', newer') /\ Len(lru') = MaxSize
    BY <1>0, <1>3, Added
  <2>2. Present' = (Present \ {lru[Len(lru)]}) \cup {k}
    BY <1>0, <1>3, <2>1 DEF Present, LruInv, ItemsOK
  <2>3. MaxSize \in Nat
    BY SizeAssumption
  <2> QED
    BY <1>0, <2>1, <2>2, <2>3 DEF LruInv
<1> QED
  BY <1>1, <1>2, <1>3 DEF Set

LEMMA LruInvNext == LruInv /\ [Next]_vars => LruInv'
<1> SUFFICES ASSUME LruInv, [Next]_vars PROVE LruInv'
  OBVIOUS
<1>0. ItemsOK'
  BY ItemsNext DEF LruInv
<1>1. ASSUME NEW k \in Keys, Get(k) PROVE LruInv'
  BY <1>1, GetKeepsList
<1>2. ASSUME NEW k \in Keys, NEW v \in Values, NEW ttl \in TTLs, Set(k, v, ttl)
      PROVE  LruInv'
  BY <1>2, SetKeepsList
<1>3. CASE Tick
  <2>1. ASSUME NEW k \in Keys, items[k] # Miss, ~Expired(k)
        PROVE  [items[k] EXCEPT !.left = @ - 1] # Miss
    <3>1. items[k] \in [value : Values, left : -1..MaxTTL] /\ ~ (items[k].left < 0)
      BY <2>1 DEF LruInv, ItemsOK, Entries, Expired
    <3>2. [items[k] EXCEPT !.left = @ - 1] \in [value : Values, left : -1..MaxTTL]
      BY <3>1
    <3> QED
      BY <3>2
  <2>2. Present' = Present
    BY <1>3, <2>1 DEF Tick, Present
  <2> QED
    BY <1>0, <1>3, <2>2 DEF Tick, LruInv
<1>4. CASE CleanupTick \/ CleanupExpired
  <2> DEFINE gone == {k \in Keys : Expired(k)}
  <2>1. /\ items' = [k \in Keys |-> IF Expired(k) THEN Miss ELSE items[k]]
        /\ lru' = Without(gone) /\ newer' = newer
    BY <1>4 DEF CleanupTick, CleanupExpired, RemoveExpired
  <2>2. Present' = Present \ gone
    BY <2>1 DEF Present
  <2>3. Mirrors(lru', Present') /\ InOrder(lru', newer') /\ Len(lru') <= Len(lru)
    <3> HIDE DEF gone
    <3> QED
      BY <2>1, <2>2, Removed DEF LruInv
  <2>4. Len(lru) \in Nat /\ Len(lru') \in Nat /\ MaxSize \in Nat /\ Len(lru) <= MaxSize
    BY <2>3, SizeAssumption DEF LruInv, Mirrors
  <2> QED
    BY <1>0, <2>3, <2>4 DEF LruInv
<1>5. CASE UNCHANGED cacheVars
  BY <1>5 DEF LruInv, cacheVars, Present, ItemsOK
<1> QED
  BY <1>1, <1>2, <1>3, <1>4, <1>5 DEF Next, LoopStops, CloseBegins, CloseReturns, vars

LEMMA LruInvInit == Init => LruInv
<1> SUFFICES ASSUME Init PROVE LruInv
  OBVIOUS
<1>1. Len(lru) = 0 /\ lru \in Seq(Keys) /\ Present = {} /\ MaxSize \in Nat
  BY SizeAssumption DEF Init, Present
<1>2. Mirrors(lru, Present) /\ InOrder(lru, newer)
  BY <1>1 DEF Mirrors, InOrder
<1> QED
  BY <1>1, <1>2, ItemsInit DEF LruInv

LEMMA LruInvCorrect == Spec => []LruInv
  BY LruInvInit, LruInvNext, PTL DEF Spec

\* Every variable keeps its type.
LEMMA TypesNext == TypeOK /\ LruInv /\ LruInv' /\ [Next]_vars => TypeOK'
<1> SUFFICES ASSUME TypeOK, LruInv, LruInv', [Next]_vars PROVE TypeOK'
  OBVIOUS
<1>0. items' \in [Keys -> Entries \cup {Miss}] /\ lru' \in Seq(Keys)
  BY DEF LruInv, ItemsOK, Mirrors
<1>1. ASSUME NEW k \in Keys PROVE Used(k) \in SUBSET (Keys \X Keys)
  BY DEF Used, TypeOK
<1>2. ASSUME NEW k \in Keys, Get(k) PROVE TypeOK'
  <2>1. items[k] # Miss => items[k].value \in Values
    BY DEF TypeOK, Entries
  <2>2. answer' \in [key : Keys \cup {Miss}, got : Values \cup {Miss}]
    BY <1>2, <2>1 DEF Get
  <2> QED
    BY <1>0, <1>1, <1>2, <2>2 DEF Get, TypeOK, cacheVars, closeVars
<1>3. ASSUME NEW k \in Keys, NEW v \in Values, NEW ttl \in TTLs, Set(k, v, ttl) PROVE TypeOK'
  BY <1>0, <1>1, <1>3 DEF Set, TypeOK, closeVars
<1>4. CASE Tick \/ CleanupTick \/ CleanupExpired
  BY <1>0, <1>4 DEF Tick, CleanupTick, CleanupExpired, RemoveExpired, TypeOK, closeVars
<1>5. CASE LoopStops
  BY <1>0, <1>5 DEF LoopStops, TypeOK, cacheVars
<1>6. ASSUME NEW c \in Closers, CloseBegins(c) \/ CloseReturns(c) PROVE TypeOK'
  BY <1>0, <1>6 DEF CloseBegins, CloseReturns, TypeOK, cacheVars
<1>7. CASE UNCHANGED vars
  BY <1>0, <1>7 DEF vars, cacheVars, closeVars, TypeOK
<1> QED
  BY <1>2, <1>3, <1>4, <1>5, <1>6, <1>7 DEF Next

(***************************************************************************)
(* The map, the list and the goroutine agree, for any capacity: the list   *)
(* has the keys of the map, each once, in the order of their use, and not  *)
(* more than maxSize; a Close that has returned left nobody cleaning up    *)
(* (memoryGet, memorySet, removeEntry, evictOldest, cleanupExpired, Close).*)
(***************************************************************************)
THEOREM CacheInvCorrect == Spec => []CacheInv
<1>1. ASSUME Init PROVE TypeOK
  <2>1. stopped \in BOOLEAN
    BY <1>1 DEF Init
  <2>2. lru \in Seq(Keys) /\ newer \in SUBSET (Keys \X Keys)
    BY <1>1 DEF Init
  <2> QED
    BY <1>1, <2>1, <2>2 DEF Init, TypeOK
<1>2. Spec => []TypeOK
  BY <1>1, TypesNext, LruInvCorrect, PTL DEF Spec
<1>3. LruInv => ListMirrorsMap /\ ListInOrderOfUse
  BY DEF LruInv, Mirrors, InOrder, Present, ListMirrorsMap, ListInOrderOfUse
<1> QED
  BY <1>2, <1>3, LruInvCorrect, CloseCorrect, PTL DEF CacheInv

\* The length of the list is the number of the keys.
LEMMA Counted ==
    ASSUME NEW s, NEW S \in SUBSET Keys, Mirrors(s, S)
    PROVE  Cardinality(S) = Len(s)
<1>1. Len(s) \in Nat /\ \A i \in 1..Len(s) : s[i] \in Keys /\ s[i] \in S
  BY DEF Mirrors
<1> DEFINE f == [i \in 1..Len(s) |-> s[i]]
<1>2. f \in [1..Len(s) -> S] /\ \A i, j \in 1..Len(s) : f[i] = f[j] => i = j
  BY <1>1 DEF Mirrors
<1>3. \A k \in S : \E i \in 1..Len(s) : f[i] = k
  BY DEF Mirrors
<1> HIDE DEF f
<1>4. f \in Bijection(1..Len(s), S)
  BY <1>2, <1>3 DEF Bijection, Injection, Surjection, IsInjective
<1>5. ExistsBijection(1..Len(s), S)
  BY <1>4 DEF ExistsBijection
<1> QED
  BY <1>1, <1>5, FS_CountingElements

(***************************************************************************)
(* For any capacity, a live entry that leaves the cache leaves it full,    *)
(* and every entry that stays was used after it (memorySet, evictOldest).  *)
(***************************************************************************)
THEOREM EvictionCorrect == Spec => EvictsLeastRecent
<1>1. ASSUME LruInv, [Next]_vars, NEW k \in Keys,
             items[k] # Miss, ~Expired(k), items'[k] = Miss
      PROVE  /\ Cardinality(Present') = MaxSize
             /\ \A l \in Present \ {k} : <<l, k>> \in newer
  <2> DEFINE last == lru[Len(lru)]
  <2>1. PICK i \in Keys, v \in Values, ttl \in TTLs :
          /\ items[i] = Miss /\ Len(lru) >= MaxSize
          /\ items' = [items EXCEPT ![last] = Miss, ![i] = Entry(v, ttl)]
          /\ lru' = <<i>> \o SubSeq(lru, 1, Len(lru) - 1)
    <3>1. ASSUME NEW i \in Keys, Get(i) PROVE FALSE
      BY <1>1, <3>1 DEF Get, cacheVars, LruInv, ItemsOK
    <3>2. ASSUME NEW i \in Keys, NEW v \in Values, NEW ttl \in TTLs, Set(i, v, ttl),
                 items' = [items EXCEPT ![i] = Entry(v, ttl)]
          PROVE  FALSE
      BY <1>1, <3>2, SetEntry DEF LruInv, ItemsOK
    <3>3. CASE Tick
      <4>1. items[k] \in [value : Values, left : -1..MaxTTL] /\ ~ (items[k].left < 0)
        BY <1>1 DEF LruInv, ItemsOK, Entries, Expired
      <4>2. [items[k] EXCEPT !.left = @ - 1] \in [value : Values, left : -1..MaxTTL]
        BY <4>1
      <4> QED
        BY <1>1, <3>3, <4>2 DEF Tick
    <3>4. CASE CleanupTick \/ CleanupExpired
      BY <1>1, <3>4 DEF CleanupTick, CleanupExpired, RemoveExpired
    <3>5. items' # items
      BY <1>1
    <3> QED
      BY <1>1, <3>1, <3>2, <3>3, <3>4, <3>5
         DEF Next, Set, LoopStops, CloseBegins, CloseReturns, vars, cacheVars
  <2>2. /\ last \in Present
        /\ Mirrors(lru', (Present \ {last}) \cup {i})
        /\ Len(lru') = MaxSize
    BY <1>1, <2>1, Added
  <2>3. k = last
    BY <1>1, <2>1, SetEntry DEF LruInv, ItemsOK
  <2>4. Present' = (Present \ {last}) \cup {i}
    BY <1>1, <2>1, <2>2, SetEntry DEF Present, LruInv, ItemsOK
  <2>5. Cardinality(Present') = MaxSize
    BY <2>2, <2>4, Counted DEF Present
  <2>6. ASSUME NEW l \in Present \ {k} PROVE <<l, k>> \in newer
    <3>1. Len(lru) \in Nat /\ Len(lru) \in 1..Len(lru)
      BY <1>1, <2>1, SizeAssumption DEF LruInv, Mirrors
    <3>2. PICK j \in 1..Len(lru) : lru[j] = l
      BY <1>1 DEF LruInv, Mirrors, Present
    <3>3. j < Len(lru)
      BY <2>3, <3>1, <3>2
    <3> QED
      BY <1>1, <2>3, <3>1, <3>2, <3>3 DEF LruInv, InOrder
  <2> QED
    BY <2>5, <2>6
<1>2. LruInv /\ [Next]_vars =>
        [\A k \in Keys : (items[k] # Miss /\ ~Expired(k) /\ items'[k] = Miss) =>
           /\ Cardinality(Present') = MaxSize
           /\ \A l \in Present \ {k} : <<l, k>> \in newer]_vars
  BY <1>1
<1> QED
  BY <1>2, LruInvCorrect, PTL DEF Spec, EvictsLeastRecent
=============================================================================
