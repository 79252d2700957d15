----------------------------- MODULE ListLemmas -----------------------------
(* Induction and recursion over the naturals, for sets and functions, and  *)
(* what follows for lists.  Each lemma is stated for the set of the        *)
(* numbers that have a property, not for the property: a lemma about an    *)
(* operator could not be used by the provers.                              *)
EXTENDS Lists, SequencesExt, WellFoundedInduction, TLAPS

\* A set of naturals that is not empty has a least element.
LEMMA LeastNatural ==
  ASSUME NEW T, T \subseteq Nat, T # {}
  PROVE  \E d \in T : \A e \in T : d <= e
<1> DEFINE R == {p \in Nat \X Nat : p[1] < p[2]}
<1>1. IsWellFoundedOn(R, Nat)
  BY NatLessThanWellFounded DEF OpToRel
<1>2. \A d, e \in Nat : <<e, d>> \in R <=> e < d
  OBVIOUS
<1> HIDE DEF R
<1>3. PICK d \in T : \A e \in T : <<e, d>> \notin R
  BY <1>1, WFMin
<1>4. \A e \in T : ~(e < d)
  BY <1>2, <1>3
<1>5. d \in Nat /\ \A e \in T : e \in Nat
  OBVIOUS
<1>6. \A e \in T : d <= e
  BY <1>4, <1>5
<1> QED
  BY <1>6

\* Induction over the naturals, for the set of those with a property.
LEMMA Induction ==
  ASSUME NEW A, 0 \in A, \A n \in Nat : n \in A => n + 1 \in A
  PROVE  \A n \in Nat : n \in A
<1> SUFFICES ASSUME NEW m \in Nat, m \notin A PROVE FALSE
  OBVIOUS
<1>1. Nat \ A # {} /\ Nat \ A \subseteq Nat
  OBVIOUS
<1>2. PICK d \in Nat \ A : \A e \in Nat \ A : d <= e
  BY <1>1, LeastNatural
<1>3. d - 1 \in Nat /\ d - 1 \in A
  BY <1>2
<1> QED
  BY <1>2, <1>3

\* A value v for 0, and for every further number a step from the value before.
RecursiveOn(V, v, step, m) ==
  \E f \in [0 .. m -> V] : \A n \in 0 .. m : f[n] = IF n = 0 THEN v ELSE step[<<n, f[n - 1]>>]

\* A function that is defined by recursion over the first naturals exists.
LEMMA Recursion ==
  ASSUME NEW V, NEW v \in V, NEW step \in [Nat \X V -> V], NEW m \in Nat
  PROVE  RecursiveOn(V, v, step, m)
<1> DEFINE Upto(k) == \E f \in [0 .. k -> V] : \A n \in 0 .. k : f[n] = IF n = 0 THEN v ELSE step[<<n, f[n - 1]>>]
           A == {k \in Nat : Upto(k)}
<1>1. 0 \in A
  <2> DEFINE f == [n \in 0 .. 0 |-> v]
  <2>1. f \in [0 .. 0 -> V] /\ \A n \in 0 .. 0 : f[n] = IF n = 0 THEN v ELSE step[<<n, f[n - 1]>>]
    OBVIOUS
  <2> QED
    BY <2>1
<1>2. ASSUME NEW k \in Nat, k \in A PROVE k + 1 \in A
  <2>1. PICK f \in [0 .. k -> V] : \A n \in 0 .. k : f[n] = IF n = 0 THEN v ELSE step[<<n, f[n - 1]>>]
    BY <1>2
  <2> DEFINE g == [n \in 0 .. k + 1 |-> IF n = k + 1 THEN step[<<n, f[k]>>] ELSE f[n]]
  <2>2. g \in [0 .. k + 1 -> V]
    OBVIOUS
  <2>3. ASSUME NEW n \in 0 .. k + 1 PROVE g[n] = IF n = 0 THEN v ELSE step[<<n, g[n - 1]>>]
    <3>1. CASE n = k + 1
      <4>1. g[n - 1] = f[k] /\ n # 0 /\ g[n] = step[<<n, f[k]>>]
        BY <3>1
      <4> QED
        BY <4>1
    <3>2. CASE n # k + 1 /\ n # 0
      <4>1. n \in 0 .. k /\ n - 1 \in 0 .. k /\ n - 1 # k + 1
        BY <3>2
      <4>2. g[n] = f[n] /\ g[n - 1] = f[n - 1]
        BY <3>2, <4>1
      <4>3. f[n] = step[<<n, f[n - 1]>>]
        BY <2>1, <3>2, <4>1
      <4> QED
        BY <3>2, <4>2, <4>3
    <3>3. CASE n # k + 1 /\ n = 0
      <4>1. g[n] = f[n]
        BY <3>3
      <4>2. 0 \in 0 .. k
        OBVIOUS
      <4>3. f[0] = v
        BY <2>1, <4>2
      <4> QED
        BY <3>3, <4>1, <4>3
    <3> QED
      BY <3>1, <3>2, <3>3
  <2> HIDE DEF g
  <2>5. Upto(k + 1)
    BY <2>2, <2>3
  <2> HIDE DEF Upto
  <2> QED
    BY <2>5
<1> HIDE DEF A
<1>3. m \in A
  BY <1>1, <1>2, Induction
<1> QED
  BY <1>3 DEF A, RecursiveOn

-----------------------------------------------------------------------------
(* Kept(seq, S).                                                           *)

\* The function that Kept defines by recursion.
KeptTo(seq, S) ==
  CHOOSE f : f = [n \in 0 .. Len(seq) |->
    IF n = 0 THEN <<>> ELSE IF seq[n] \in S THEN Append(f[n - 1], seq[n]) ELSE f[n - 1]]

\* What is kept of the first n elements.
LEMMA KeptStep ==
  ASSUME NEW T, NEW seq \in Seq(T), NEW S
  PROVE  LET k == KeptTo(seq, S)
         IN /\ Kept(seq, S) = k[Len(seq)] /\ k[0] = <<>>
            /\ \A n \in 1 .. Len(seq) : k[n] = IF seq[n] \in S THEN Append(k[n - 1], seq[n]) ELSE k[n - 1]
<1> DEFINE g == [x \in Nat \X Seq(T) |-> IF x[1] \in 1 .. Len(seq) /\ seq[x[1]] \in S THEN Append(x[2], seq[x[1]]) ELSE x[2]]
           k == KeptTo(seq, S)
<1>1. g \in [Nat \X Seq(T) -> Seq(T)]
  OBVIOUS
<1>2. Len(seq) \in Nat /\ <<>> \in Seq(T)
  OBVIOUS
<1>3. PICK f \in [0 .. Len(seq) -> Seq(T)] :
        \A n \in 0 .. Len(seq) : f[n] = IF n = 0 THEN <<>> ELSE g[<<n, f[n - 1]>>]
  <2> DEFINE V == Seq(T)
             v == <<>>
             m == Len(seq)
  <2>1. v \in V /\ m \in Nat /\ g \in [Nat \X V -> V]
    BY <1>1, <1>2
  <2> HIDE DEF g, V, v, m
  <2>2. RecursiveOn(V, v, g, m)
    BY <2>1, Recursion
  <2> QED
    BY <2>2 DEF V, v, m, RecursiveOn
<1>4. ASSUME NEW n \in 0 .. Len(seq), n # 0
      PROVE  g[<<n, f[n - 1]>>] = IF seq[n] \in S THEN Append(f[n - 1], seq[n]) ELSE f[n - 1]
  <2>1. n \in 1 .. Len(seq) /\ f[n - 1] \in Seq(T) /\ n \in Nat
    BY <1>4
  <2> HIDE <1>3
  <2> QED
    BY <2>1
<1>5. f = [n \in 0 .. Len(seq) |-> IF n = 0 THEN <<>> ELSE IF seq[n] \in S THEN Append(f[n - 1], seq[n]) ELSE f[n - 1]]
  <2> HIDE DEF g
  <2>1. \A n \in 0 .. Len(seq) : f[n] = IF n = 0 THEN <<>> ELSE IF seq[n] \in S THEN Append(f[n - 1], seq[n]) ELSE f[n - 1]
    BY <1>3, <1>4
  <2> HIDE <1>3
  <2> QED
    BY <2>1
<1>6. k = [n \in 0 .. Len(seq) |-> IF n = 0 THEN <<>> ELSE IF seq[n] \in S THEN Append(k[n - 1], seq[n]) ELSE k[n - 1]]
  BY <1>5 DEF KeptTo
<1>7. Kept(seq, S) = k[Len(seq)]
  BY DEF Kept, KeptTo
<1> HIDE DEF k
<1>8. k[0] = <<>> /\ \A n \in 1 .. Len(seq) : k[n] = IF seq[n] \in S THEN Append(k[n - 1], seq[n]) ELSE k[n - 1]
  <2>1. k[0] = <<>>
    BY <1>2, <1>6
  <2>2. ASSUME NEW n \in 1 .. Len(seq)
        PROVE  k[n] = IF seq[n] \in S THEN Append(k[n - 1], seq[n]) ELSE k[n - 1]
    <3>1. n \in 0 .. Len(seq) /\ n # 0
      OBVIOUS
    <3> QED
      BY <1>6, <3>1
  <2> QED
    BY <2>1, <2>2
<1> QED
  BY <1>7, <1>8 DEF k

\* A list with one more element.
LEMMA AppendElements ==
  ASSUME NEW T, NEW seq \in Seq(T), NEW w \in T
  PROVE  /\ Append(seq, w) \in Seq(T) /\ ToSet(Append(seq, w)) = ToSet(seq) \cup {w}
         /\ IsInjective(seq) /\ w \notin ToSet(seq) => IsInjective(Append(seq, w))
<1> DEFINE t == Append(seq, w)
           n == Len(seq)
<1>1. t \in Seq(T) /\ n \in Nat /\ DOMAIN t = 1 .. n + 1 /\ DOMAIN seq = 1 .. n
  OBVIOUS
<1>2. t[n + 1] = w /\ \A i \in 1 .. n : t[i] = seq[i]
  OBVIOUS
<1> HIDE DEF t, n
<1>3. ToSet(t) = {t[i] : i \in 1 .. n} \cup {t[n + 1]}
  BY <1>1 DEF ToSet
<1>4. {t[i] : i \in 1 .. n} = {seq[i] : i \in 1 .. n}
  BY <1>2
<1>5. ToSet(seq) = {seq[i] : i \in 1 .. n}
  BY <1>1 DEF ToSet
<1>6. ToSet(t) = ToSet(seq) \cup {w}
  BY <1>2, <1>3, <1>4, <1>5
<1>7. ASSUME IsInjective(seq), w \notin ToSet(seq) PROVE IsInjective(t)
  BY <1>1, <1>2, <1>7, <1>5 DEF IsInjective
<1> QED
  BY <1>1, <1>6, <1>7 DEF t

\* Kept(seq, S) has the elements of seq in S, each as often as seq.
LEMMA KeptElements ==
  ASSUME NEW T, NEW seq \in Seq(T), NEW S
  PROVE  /\ Kept(seq, S) \in Seq(T)
         /\ ToSet(Kept(seq, S)) = ToSet(seq) \cap S
         /\ IsInjective(seq) => IsInjective(Kept(seq, S))
<1> DEFINE k == KeptTo(seq, S)
           Fits(n) == /\ k[n] \in Seq(T)
                      /\ ToSet(k[n]) = {seq[i] : i \in 1 .. n} \cap S
                      /\ IsInjective(seq) => IsInjective(k[n])
           A == {n \in Nat : n <= Len(seq) => Fits(n)}
<1>1. /\ Kept(seq, S) = k[Len(seq)] /\ k[0] = <<>>
      /\ \A n \in 1 .. Len(seq) : k[n] = IF seq[n] \in S THEN Append(k[n - 1], seq[n]) ELSE k[n - 1]
  BY KeptStep
<1> HIDE DEF k
<1>2. Fits(0)
  BY <1>1 DEF ToSet, IsInjective
<1>3. ASSUME NEW n \in Nat, n + 1 <= Len(seq), Fits(n) PROVE Fits(n + 1)
  <2>1. n + 1 \in 1 .. Len(seq) /\ n <= Len(seq) /\ seq[n + 1] \in T
    BY <1>3
  <2>2. k[n + 1] = IF seq[n + 1] \in S THEN Append(k[n], seq[n + 1]) ELSE k[n]
    BY <1>1, <2>1
  <2>3. {seq[i] : i \in 1 .. n + 1} = {seq[i] : i \in 1 .. n} \cup {seq[n + 1]}
    BY <2>1
  <2>4. CASE seq[n + 1] \notin S
    BY <1>3, <2>2, <2>3, <2>4
  <2>5. CASE seq[n + 1] \in S
    <3>1. k[n + 1] = Append(k[n], seq[n + 1]) /\ k[n] \in Seq(T)
      BY <1>3, <2>2, <2>5
    <3>2. k[n + 1] \in Seq(T)
      BY <2>1, <3>1
    <3>3. ToSet(k[n + 1]) = ToSet(k[n]) \cup {seq[n + 1]}
      BY <2>1, <3>1, AppendElements
    <3>4. ASSUME IsInjective(seq) PROVE IsInjective(k[n + 1])
      <4>1. seq[n + 1] \notin ToSet(k[n])
        <5>1. \A i \in 1 .. n : seq[i] # seq[n + 1]
          BY <2>1, <3>4 DEF IsInjective
        <5> QED
          BY <1>3, <5>1
      <4>2. IsInjective(k[n])
        BY <1>3, <3>4
      <4> QED
        BY <2>1, <3>1, <4>1, <4>2, AppendElements
    <3> QED
      BY <1>3, <2>3, <2>5, <3>2, <3>3, <3>4
  <2> QED
    BY <2>4, <2>5
<1>4. \A n \in Nat : n \in A
  <2>1. 0 \in A
    BY <1>2
  <2>2. ASSUME NEW n \in Nat, n \in A PROVE n + 1 \in A
    <3>1. n + 1 <= Len(seq) => n <= Len(seq)
      OBVIOUS
    <3> HIDE DEF Fits
    <3> QED
      BY <1>3, <2>2, <3>1
  <2> HIDE DEF A
  <2> QED
    BY <2>1, <2>2, Induction
<1>5. Len(seq) \in Nat /\ Fits(Len(seq))
  <2> HIDE DEF Fits
  <2> QED
    BY <1>4
<1>6. {seq[i] : i \in 1 .. Len(seq)} = ToSet(seq)
  BY DEF ToSet
<1> QED
  BY <1>1, <1>5, <1>6

\* The elements of s are where seq has them, and in the order of seq.
Among(s, seq, n) == \A i \in 1 .. Len(s) : \E p \in 1 .. n : seq[p] = s[i]
InOrder(s, seq) ==
  \A i, j \in 1 .. Len(s), p, q \in 1 .. Len(seq) : i < j /\ seq[p] = s[i] /\ seq[q] = s[j] => p < q

\* Kept(seq, S) has its elements in the order of seq.
LEMMA KeptInOrder ==
  ASSUME NEW T, NEW seq \in Seq(T), NEW S, IsInjective(seq) PROVE InOrder(Kept(seq, S), seq)
<1> DEFINE k == KeptTo(seq, S)
           Fits(n) == k[n] \in Seq(T) /\ Among(k[n], seq, n) /\ InOrder(k[n], seq)
           A == {n \in Nat : n <= Len(seq) => Fits(n)}
<1>1. /\ Kept(seq, S) = k[Len(seq)] /\ k[0] = <<>>
      /\ \A n \in 1 .. Len(seq) : k[n] = IF seq[n] \in S THEN Append(k[n - 1], seq[n]) ELSE k[n - 1]
  BY KeptStep
<1> HIDE DEF k
<1>2. Fits(0)
  BY <1>1 DEF Among, InOrder
<1>3. ASSUME NEW n \in Nat, n + 1 <= Len(seq), Fits(n) PROVE Fits(n + 1)
  <2>1. n + 1 \in 1 .. Len(seq) /\ (n + 1) - 1 = n /\ seq[n + 1] \in T
    BY <1>3
  <2>2. k[n + 1] = IF seq[n + 1] \in S THEN Append(k[n], seq[n + 1]) ELSE k[n]
    BY <1>1, <2>1
  <2>3. CASE seq[n + 1] \notin S
    BY <1>3, <2>2, <2>3 DEF Among
  <2>4. CASE seq[n + 1] \in S
    <3> DEFINE s == k[n]
               t == k[n + 1]
               z == Len(s)
    <3>1. t = Append(s, seq[n + 1]) /\ s \in Seq(T)
      BY <1>3, <2>2, <2>4
    <3>2. t \in Seq(T) /\ z \in Nat /\ Len(t) = z + 1 /\ t[z + 1] = seq[n + 1] /\ \A i \in 1 .. z : t[i] = s[i]
      BY <2>1, <3>1
    <3>3. \A i \in 1 .. z : \E p \in 1 .. n : seq[p] = s[i]
      BY <1>3 DEF Among
    <3>4. \A i, j \in 1 .. z, p, q \in 1 .. Len(seq) : i < j /\ seq[p] = s[i] /\ seq[q] = s[j] => p < q
      BY <1>3 DEF InOrder
    <3>5. \A p, q \in 1 .. Len(seq) : seq[p] = seq[q] => p = q
      BY DEF IsInjective
    <3> HIDE DEF s, t, z
    <3>6. ASSUME NEW i \in 1 .. z + 1 PROVE \E p \in 1 .. n + 1 : seq[p] = t[i]
      <4>1. CASE i \in 1 .. z
        <5>1. PICK p \in 1 .. n : seq[p] = s[i]
          BY <3>3, <4>1
        <5>2. p \in 1 .. n + 1 /\ seq[p] = t[i]
          BY <3>2, <4>1, <5>1
        <5> QED
          BY <5>2
      <4>2. CASE i = z + 1
        <5>1. n + 1 \in 1 .. n + 1
          OBVIOUS
        <5> QED
          BY <3>2, <4>2, <5>1
      <4> QED
        BY <3>2, <4>1, <4>2
    <3>7. ASSUME NEW i \in 1 .. z + 1, NEW j \in 1 .. z + 1, NEW p \in 1 .. Len(seq), NEW q \in 1 .. Len(seq),
                 i < j, seq[p] = t[i], seq[q] = t[j]
          PROVE  p < q
      <4>1. i \in 1 .. z /\ seq[p] = s[i]
        BY <3>2, <3>7
      <4>2. CASE j \in 1 .. z
        BY <3>2, <3>4, <3>7, <4>1, <4>2
      <4>3. CASE j = z + 1
        <5>1. PICK m \in 1 .. n : seq[m] = s[i]
          BY <3>3, <4>1
        <5>2. m \in 1 .. Len(seq)
          BY <2>1, <5>1
        <5>3. p = m
          BY <3>5, <4>1, <5>1, <5>2
        <5>4. seq[q] = seq[n + 1]
          BY <3>2, <3>7, <4>3
        <5>5. q = n + 1
          BY <2>1, <3>5, <5>4
        <5> QED
          BY <5>3, <5>5
      <4> QED
        BY <3>2, <4>2, <4>3
    <3>8. Among(t, seq, n + 1) /\ InOrder(t, seq)
      BY <3>2, <3>6, <3>7 DEF Among, InOrder
    <3> QED
      BY <3>2, <3>8 DEF t
  <2> QED
    BY <2>3, <2>4
<1>4. \A n \in Nat : n \in A
  <2>1. 0 \in A
    BY <1>2
  <2>2. ASSUME NEW n \in Nat, n \in A PROVE n + 1 \in A
    <3>1. n + 1 <= Len(seq) => n <= Len(seq)
      OBVIOUS
    <3> HIDE DEF Fits
    <3> QED
      BY <1>3, <2>2, <3>1
  <2> HIDE DEF A
  <2> QED
    BY <2>1, <2>2, Induction
<1>5. Len(seq) \in Nat /\ Fits(Len(seq))
  <2> HIDE DEF Fits
  <2> QED
    BY <1>4
<1> QED
  BY <1>1, <1>5

\* The ends of a list.
LEMMA EmptyList ==
  ASSUME NEW T, NEW seq \in Seq(T) PROVE seq = <<>> <=> ToSet(seq) = {}
BY DEF ToSet

LEMMA EndElements ==
  ASSUME NEW T, NEW seq \in Seq(T), seq # <<>>
  PROVE  {Head(seq), Last(seq)} \subseteq ToSet(seq) /\ ToSet(seq) \subseteq T
<1>1. 1 \in DOMAIN seq /\ Head(seq) = seq[1] /\ Len(seq) \in DOMAIN seq /\ Last(seq) = seq[Len(seq)]
  BY DEF Last
<1> QED
  BY <1>1 DEF ToSet

\* Nothing is left out of a list whose elements are all wanted.
LEMMA KeptAll ==
  ASSUME NEW T, NEW seq \in Seq(T), NEW S, ToSet(seq) \subseteq S PROVE Kept(seq, S) = seq
<1> DEFINE k == KeptTo(seq, S)
           Fits(n) == k[n] \in Seq(T) /\ Len(k[n]) = n /\ \A i \in 1 .. n : k[n][i] = seq[i]
           A == {n \in Nat : n <= Len(seq) => Fits(n)}
<1>1. /\ Kept(seq, S) = k[Len(seq)] /\ k[0] = <<>>
      /\ \A n \in 1 .. Len(seq) : k[n] = IF seq[n] \in S THEN Append(k[n - 1], seq[n]) ELSE k[n - 1]
  BY KeptStep
<1> HIDE DEF k
<1>2. Fits(0)
  BY <1>1
<1>3. ASSUME NEW n \in Nat, n + 1 <= Len(seq), Fits(n) PROVE Fits(n + 1)
  <2>1. n + 1 \in 1 .. Len(seq) /\ seq[n + 1] \in T /\ seq[n + 1] \in S
    BY <1>3 DEF ToSet
  <2>2. k[n + 1] = Append(k[n], seq[n + 1])
    <3>1. (n + 1) - 1 = n
      OBVIOUS
    <3> QED
      BY <1>1, <2>1, <3>1
  <2> QED
    BY <1>3, <2>1, <2>2
<1>4. \A n \in Nat : n \in A
  <2>1. 0 \in A
    BY <1>2
  <2>2. ASSUME NEW n \in Nat, n \in A PROVE n + 1 \in A
    <3>1. n + 1 <= Len(seq) => n <= Len(seq)
      OBVIOUS
    <3> HIDE DEF Fits
    <3> QED
      BY <1>3, <2>2, <3>1
  <2> HIDE DEF A
  <2> QED
    BY <2>1, <2>2, Induction
<1>5. Len(seq) \in Nat /\ Fits(Len(seq))
  <2> HIDE DEF Fits
  <2> QED
    BY <1>4
<1> QED
  BY <1>1, <1>5

\* A list has an element that no other one exceeds.
LEMMA Maximal ==
  ASSUME NEW T, NEW G, \A x \in T : <<x, x>> \notin G,
         \A x, y, z \in T : <<x, y>> \in G /\ <<y, z>> \in G => <<x, z>> \in G,
         NEW seq \in Seq(T), seq # <<>>
  PROVE  \E w \in ToSet(seq) : \A v \in ToSet(seq) : <<v, w>> \notin G
<1> DEFINE Best(n, i) == i \in 1 .. n /\ \A j \in 1 .. n : <<seq[j], seq[i]>> \notin G
           A == {n \in Nat : n + 1 <= Len(seq) => \E i \in 1 .. n + 1 : Best(n + 1, i)}
<1>1. 0 \in A
  <2>1. Len(seq) \in Nat /\ (1 <= Len(seq) => seq[1] \in T)
    OBVIOUS
  <2>2. 0 + 1 <= Len(seq) => Best(0 + 1, 1)
    BY <2>1
  <2> QED
    BY <2>2
<1>2. ASSUME NEW n \in Nat, n \in A PROVE n + 1 \in A
  <2> SUFFICES ASSUME n + 2 <= Len(seq) PROVE \E i \in 1 .. n + 2 : Best(n + 2, i)
    BY <1>2
  <2>1. PICK i \in 1 .. n + 1 : Best(n + 1, i)
    BY <1>2
  <2>2. \A j \in 1 .. n + 2 : seq[j] \in T
    OBVIOUS
  <2>3. CASE <<seq[n + 2], seq[i]>> \notin G
    <3>1. Best(n + 2, i)
      BY <2>1, <2>3
    <3> QED
      BY <3>1
  <2>4. CASE <<seq[n + 2], seq[i]>> \in G
    <3>1. ASSUME NEW j \in 1 .. n + 1 PROVE <<seq[j], seq[n + 2]>> \notin G
      <4>1. seq[j] \in T /\ seq[n + 2] \in T /\ seq[i] \in T
        BY <2>1, <2>2
      <4>2. <<seq[j], seq[i]>> \notin G
        BY <2>1
      <4> QED
        BY <2>4, <4>1, <4>2
    <3>2. Best(n + 2, n + 2)
      BY <2>2, <3>1
    <3> QED
      BY <3>2
  <2> QED
    BY <2>3, <2>4
<1> HIDE DEF A
<1>3. \A n \in Nat : n \in A
  BY <1>1, <1>2, Induction
<1>4. Len(seq) \in Nat /\ Len(seq) # 0 /\ Len(seq) - 1 \in Nat /\ DOMAIN seq = 1 .. Len(seq)
  OBVIOUS
<1>5. PICK i \in 1 .. Len(seq) : Best(Len(seq), i)
  <2>1. \A n \in Nat : n + 1 <= Len(seq) => \E i \in 1 .. n + 1 : Best(n + 1, i)
    BY <1>3 DEF A
  <2>2. (Len(seq) - 1) + 1 = Len(seq)
    BY <1>4
  <2> HIDE DEF Best
  <2> QED
    BY <1>4, <2>1, <2>2
<1>6. \A v \in ToSet(seq) : <<v, seq[i]>> \notin G
  BY <1>4, <1>5 DEF ToSet
<1> QED
  BY <1>4, <1>6 DEF ToSet
=============================================================================
