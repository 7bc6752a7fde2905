------------------------------ MODULE SeqFacts ------------------------------
(***************************************************************************)
(* What the operators of SeqOps return, for sequences of any length.       *)
(***************************************************************************)
EXTENDS SeqOps, FiniteSets, WellFoundedInduction, FiniteSetTheorems, TLAPS

\* A set of naturals has a least element (drainReady:
\* the first ready index exists).
LEMMA LeastNat ==
  ASSUME NEW S \in SUBSET Nat, S # {}
  PROVE  \E i \in S : \A j \in S : i <= j
<1> DEFINE R == OpToRel(<, Nat)
<1>1. IsWellFoundedOn(R, Nat)
  BY NatLessThanWellFounded
<1>2. \E x \in S : \A y \in S : ~(<<y, x>> \in R)
  BY <1>1, WFMin, Zenon
<1>3. \A x, y \in S : ~(<<y, x>> \in R) => x <= y
  BY DEF OpToRel
<1> HIDE DEF R
<1> QED
  BY <1>2, <1>3, Zenon

\* Induction over the naturals for a set, which needs no operator parameter.
LEMMA SetInduction ==
  ASSUME NEW S, 0 \in S, \A n \in Nat : n \in S => n + 1 \in S
  PROVE  Nat \subseteq S
<1>1. SUFFICES ASSUME Nat \ S # {} PROVE FALSE
  OBVIOUS
<1>2. PICK i \in Nat \ S : \A j \in Nat \ S : i <= j
  BY <1>1, LeastNat
<1>3. i - 1 \in Nat /\ i - 1 \notin Nat \ S
  BY <1>2
<1> QED
  BY <1>3

\* A sequence that repeats nothing is as long as it has elements.
LEMMA RangeCardinality ==
  ASSUME NEW T, NEW s \in Seq(T), \A i, j \in DOMAIN s : s[i] = s[j] => i = j
  PROVE  /\ IsFiniteSet({s[i] : i \in DOMAIN s})
         /\ Cardinality({s[i] : i \in DOMAIN s}) = Len(s)
<1> DEFINE E == {s[i] : i \in DOMAIN s}
<1>1. s \in [1..Len(s) -> E] /\ Len(s) \in Nat
  OBVIOUS
<1>2. s \in Bijection(1..Len(s), E)
  BY <1>1 DEF Bijection, Injection, Surjection, IsInjective
<1>3. ExistsBijection(1..Len(s), E)
  BY <1>2 DEF ExistsBijection
<1> HIDE DEF E
<1>4. IsFiniteSet(E) /\ Cardinality(E) = Len(s)
  BY <1>1, <1>3, FS_CountingElements, FS_NatBijection
<1> QED
  BY <1>4 DEF E

KeepsOf(f, s, H) ==
  [i \in 0..Len(s) |->
     IF i = 0 THEN <<>> ELSE IF s[i] \in H THEN f[i - 1] ELSE Append(f[i - 1], s[i])]

\* The recursive function in Filtered is defined, for every length.
LEMMA FilteredDefined ==
  ASSUME NEW T, NEW s \in Seq(T), NEW H
  PROVE  \E f : f = KeepsOf(f, s, H)
<1> DEFINE Next(f, i) == IF i = 0 THEN <<>>
                         ELSE IF s[i] \in H THEN f[i - 1] ELSE Append(f[i - 1], s[i])
           Upto(n) == \E f : f = [i \in 0..n |-> Next(f, i)]
           Good == {n \in Nat : Upto(n)}
<1>1. 0 \in Good
  <2>1. [i \in 0..0 |-> <<>>] = [i \in 0..0 |-> Next([j \in 0..0 |-> <<>>], i)]
    OBVIOUS
  <2> QED
    BY <2>1
<1>2. ASSUME NEW n \in Nat, n \in Good PROVE n + 1 \in Good
  <2>1. PICK f : f = [i \in 0..n |-> Next(f, i)]
    BY <1>2
  <2> DEFINE g == [i \in 0..(n + 1) |-> IF i = n + 1 THEN Next(f, n + 1) ELSE f[i]]
  <2>2. ASSUME NEW i \in 0..(n + 1) PROVE g[i] = Next(g, i)
    <3>1. i # 0 => i - 1 \in 0..n /\ g[i - 1] = f[i - 1]
      OBVIOUS
    <3>2. CASE i = n + 1
      BY <3>1, <3>2
    <3>3. CASE i # n + 1
      <4>1. i \in 0..n /\ g[i] = f[i]
        BY <3>3
      <4>2. f[i] = Next(f, i)
        <5> HIDE DEF Next
        <5> QED BY <4>1, <2>1
      <4> QED
        BY <3>1, <4>1, <4>2
    <3> QED
      BY <3>2, <3>3
  <2>3. g = [i \in 0..(n + 1) |-> Next(g, i)]
    BY <2>2
  <2>4. Upto(n + 1)
    <3> HIDE DEF g, Next
    <3> QED BY <2>3
  <2> QED
    <3> HIDE DEF Upto
    <3> QED BY <2>4
<1>3. Len(s) \in Good
  <2> HIDE DEF Good
  <2> QED
    BY <1>1, <1>2, SetInduction
<1> QED
  BY <1>3 DEF KeepsOf

\* What append does to a slice.
LEMMA ElemsAppend ==
  ASSUME NEW T, NEW q \in Seq(T), NEW e \in T
  PROVE  /\ Append(q, e) \in Seq(T) /\ Elems(Append(q, e)) = Elems(q) \cup {e}
         /\ Once(q) /\ e \notin Elems(q) => Once(Append(q, e))
<1> DEFINE a == Append(q, e)
<1>1. /\ a \in Seq(T) /\ Len(a) = Len(q) + 1
      /\ \A i \in 1..Len(q) : a[i] = q[i]
      /\ a[Len(q) + 1] = e
  OBVIOUS
<1>2. DOMAIN a = 1..(Len(q) + 1) /\ DOMAIN q = 1..Len(q) /\ Len(q) \in Nat
  OBVIOUS
<1> HIDE DEF a
<1>3. Elems(a) \subseteq Elems(q) \cup {e}
  BY <1>1, <1>2 DEF Elems
<1>4. Elems(q) \cup {e} \subseteq Elems(a)
  BY <1>1, <1>2 DEF Elems
<1>5. Once(q) /\ e \notin Elems(q) => Once(a)
  BY <1>1, <1>2 DEF Once, Elems
<1> QED
  BY <1>1, <1>3, <1>4, <1>5 DEF a

\* Filtering keeps exactly the elements outside H, and no element twice.
LEMMA FilteredFacts ==
  ASSUME NEW T, NEW s \in Seq(T), NEW H
  PROVE  /\ Filtered(s, H) \in Seq(T)
         /\ Elems(Filtered(s, H)) = Elems(s) \ H
         /\ Once(s) => Once(Filtered(s, H))
<1> DEFINE keep == CHOOSE f : f = KeepsOf(f, s, H)
           Prefix(n) == {s[j] : j \in 1..n} \ H
           Good == {n \in Nat : n <= Len(s) =>
                      /\ keep[n] \in Seq(T)
                      /\ Elems(keep[n]) = Prefix(n)
                      /\ Once(s) => Once(keep[n])}
<1>1. Filtered(s, H) = keep[Len(s)]
  BY DEF Filtered, KeepsOf
<1>2. keep = [i \in 0..Len(s) |->
                IF i = 0 THEN <<>>
                ELSE IF s[i] \in H THEN keep[i - 1] ELSE Append(keep[i - 1], s[i])]
  <2>1. keep = KeepsOf(keep, s, H)
    BY FilteredDefined, Zenon
  <2> QED
    BY <2>1 DEF KeepsOf
<1> HIDE DEF keep
<1> DEFINE Step(i) == IF s[i] \in H THEN keep[i - 1] ELSE Append(keep[i - 1], s[i])
<1>a. keep[0] = <<>> /\ \A i \in 1..Len(s) : keep[i] = Step(i)
  <2> DEFINE All(i) == IF i = 0 THEN <<>> ELSE Step(i)
  <2>1. keep = [i \in 0..Len(s) |-> All(i)]
    BY <1>2, Zenon
  <2> HIDE DEF All
  <2>2. \A i \in 0..Len(s) : keep[i] = All(i)
    BY <2>1
  <2>3. Len(s) \in Nat
    OBVIOUS
  <2>4. keep[0] = All(0) /\ \A i \in 1..Len(s) : keep[i] = All(i)
    BY <2>2, <2>3
  <2>5. All(0) = <<>>
    BY DEF All
  <2>6. ASSUME NEW i \in 1..Len(s) PROVE All(i) = Step(i)
    <3>1. i # 0
      OBVIOUS
    <3> HIDE DEF Step
    <3> QED
      BY <3>1 DEF All
  <2> HIDE DEF Step
  <2> QED
    BY <2>4, <2>5, <2>6
<1>3. 0 \in Good
  <2>1. Elems(<<>>) = {} /\ Once(<<>>) /\ <<>> \in Seq(T) /\ Prefix(0) = {}
    BY DEF Elems, Once
  <2> QED
    BY <1>a, <2>1
<1>4. ASSUME NEW n \in Nat, n \in Good PROVE n + 1 \in Good
  <2> SUFFICES ASSUME n + 1 <= Len(s)
               PROVE  /\ keep[n + 1] \in Seq(T)
                      /\ Elems(keep[n + 1]) = Prefix(n + 1)
                      /\ Once(s) => Once(keep[n + 1])
    OBVIOUS
  <2>1. /\ keep[n] \in Seq(T) /\ Elems(keep[n]) = Prefix(n)
        /\ Once(s) => Once(keep[n])
        /\ n + 1 \in DOMAIN s /\ s[n + 1] \in T
    BY <1>4
  <2>2. CASE s[n + 1] \in H
    <3>1. keep[n + 1] = keep[n]
      BY <1>a, <2>2, <2>1
    <3>2. Prefix(n + 1) = Prefix(n)
      BY <2>2
    <3> QED
      BY <2>1, <3>1, <3>2
  <2>3. CASE s[n + 1] \notin H
    <3> DEFINE k == keep[n]
    <3>1. keep[n + 1] = Append(k, s[n + 1])
      <4>1. (n + 1) - 1 = n /\ n + 1 \in 1..Len(s)
        BY <2>1
      <4>2. keep[n + 1] = Step(n + 1)
        BY <4>1, <1>a
      <4>3. Step(n + 1) = Append(keep[(n + 1) - 1], s[n + 1])
        BY <2>3
      <4> QED
        BY <4>1, <4>2, <4>3
    <3>2. Prefix(n + 1) = Prefix(n) \cup {s[n + 1]}
      BY <2>3
    <3> HIDE DEF k
    <3>3. Elems(Append(k, s[n + 1])) = Elems(k) \cup {s[n + 1]}
      BY <2>1, ElemsAppend DEF k
    <3>4. Once(s) => s[n + 1] \notin Elems(k)
      BY <2>1 DEF Once, k
    <3>5. Once(k) /\ s[n + 1] \notin Elems(k) => Once(Append(k, s[n + 1]))
      BY <2>1, ElemsAppend DEF k
    <3> QED
      BY <2>1, <3>1, <3>2, <3>3, <3>4, <3>5 DEF k
  <2> QED
    BY <2>2, <2>3
<1>5. Len(s) \in Good
  <2> HIDE DEF Good
  <2> QED
    BY <1>3, <1>4, SetInduction
<1>6. Prefix(Len(s)) = Elems(s) \ H
  BY DEF Elems
<1> QED
  BY <1>1, <1>5, <1>6

\* Unregistering the i-th element of a slice takes out that element only.
LEMMA WithoutFacts ==
  ASSUME NEW T, NEW s \in Seq(T), NEW i \in DOMAIN s
  PROVE  /\ Without(s, i) \in Seq(T)
         /\ Elems(Without(s, i)) \subseteq Elems(s)
         /\ Elems(s) \subseteq Elems(Without(s, i)) \cup {s[i]}
         /\ Once(s) => Once(Without(s, i)) /\ s[i] \notin Elems(Without(s, i))
<1> DEFINE w == Without(s, i)
           m == [k \in 1..(Len(s) - 1) |-> IF k < i THEN k ELSE k + 1]
<1>1. i \in 1..Len(s) /\ DOMAIN s = 1..Len(s) /\ Len(s) \in Nat
  OBVIOUS
<1>2. w \in Seq(T) /\ DOMAIN w = 1..(Len(s) - 1) /\ \A k \in DOMAIN w : w[k] = s[m[k]]
  <2> DEFINE a == SubSeq(s, 1, i - 1)
             b == SubSeq(s, i + 1, Len(s))
  <2>1. a \in Seq(T) /\ Len(a) = i - 1 /\ \A k \in 1..(i - 1) : a[k] = s[k]
    BY <1>1
  <2>2. b \in Seq(T) /\ Len(b) = Len(s) - i /\ \A k \in 1..(Len(s) - i) : b[k] = s[i + k]
    BY <1>1
  <2> HIDE DEF a, b
  <2>a. /\ a \o b \in Seq(T) /\ Len(a \o b) = Len(a) + Len(b)
        /\ \A k \in 1..(Len(a) + Len(b)) :
             (a \o b)[k] = IF k <= Len(a) THEN a[k] ELSE b[k - Len(a)]
    BY <2>1, <2>2
  <2>b. \A k \in 1..(Len(s) - 1) : k <= i - 1 <=> k < i
    BY <1>1
  <2>3. /\ a \o b \in Seq(T) /\ Len(a \o b) = Len(s) - 1
        /\ \A k \in 1..(Len(s) - 1) : (a \o b)[k] = IF k < i THEN a[k] ELSE b[k - (i - 1)]
    BY <2>1, <2>2, <1>1, <2>a, <2>b
  <2>4. ASSUME NEW k \in 1..(Len(s) - 1) PROVE (a \o b)[k] = s[m[k]]
    <3>1. CASE k < i
      BY <3>1, <2>1, <2>3, <1>1
    <3>2. CASE ~(k < i)
      <4>1. k - (i - 1) \in 1..(Len(s) - i) /\ i + (k - (i - 1)) = k + 1
        BY <3>2, <1>1
      <4> QED
        BY <3>2, <4>1, <2>2, <2>3, <1>1
    <3> QED
      BY <3>1, <3>2
  <2>5. w = a \o b
    BY DEF Without, a, b
  <2> DEFINE c == a \o b
  <2>6. DOMAIN c = 1..(Len(s) - 1)
    BY <2>3, <1>1
  <2>7. c \in Seq(T) /\ \A k \in 1..(Len(s) - 1) : c[k] = s[m[k]]
    BY <2>3, <2>4
  <2> HIDE DEF c, m
  <2> QED
    <3> SUFFICES c \in Seq(T) /\ DOMAIN c = 1..(Len(s) - 1) /\ \A k \in DOMAIN c : c[k] = s[m[k]]
      BY <2>5 DEF c
    <3> QED
      BY <2>6, <2>7
<1>3. m \in [DOMAIN w -> DOMAIN s]
  BY <1>1, <1>2
<1>4. \A k \in DOMAIN w : m[k] # i
  BY <1>1, <1>2
<1>5. \A j \in DOMAIN s : s[j] \in {s[i]} \/ \E k \in DOMAIN w : m[k] = j
  <2>1. ASSUME NEW j \in 1..Len(s), j # i PROVE \E k \in 1..(Len(s) - 1) : m[k] = j
    <3>1. CASE j < i
      BY <3>1, <1>1
    <3>2. CASE j > i
      <4>1. j - 1 \in 1..(Len(s) - 1) /\ m[j - 1] = j
        BY <3>2, <1>1
      <4> QED
        BY <4>1
    <3> QED
      BY <3>1, <3>2, <2>1, <1>1
  <2> QED
    BY <2>1, <1>1, <1>2
<1>6. \A k, l \in DOMAIN w : m[k] = m[l] => k = l
  BY <1>1, <1>2
<1>7. w \in Seq(T) /\ \A k \in DOMAIN w : w[k] = s[m[k]]
  BY <1>2
<1> HIDE DEF w, m
<1>8. \A k \in DOMAIN w : m[k] \in DOMAIN s
  BY <1>3
<1>9. Elems(s) \subseteq Elems(w) \cup {s[i]}
  BY <1>5, <1>7 DEF Elems
<1>10. Elems(w) \subseteq Elems(s)
  BY <1>7, <1>8 DEF Elems
<1>11. Once(s) => Once(w)
  BY <1>6, <1>7, <1>8 DEF Once
<1>12. Once(s) => s[i] \notin Elems(w)
  BY <1>4, <1>7, <1>8 DEF Once, Elems
<1> QED
  BY <1>7, <1>9, <1>10, <1>11, <1>12 DEF w

\* What taking the head off a slice does.
LEMMA TailFacts ==
  ASSUME NEW T, NEW s \in Seq(T), s # <<>>
  PROVE  /\ Head(s) \in T /\ Head(s) \in Elems(s) /\ Tail(s) \in Seq(T)
         /\ Elems(s) = Elems(Tail(s)) \cup {Head(s)}
         /\ Once(s) => Once(Tail(s)) /\ Head(s) \notin Elems(Tail(s))
<1> DEFINE t == Tail(s)
           m == [k \in 1..(Len(s) - 1) |-> k + 1]
<1>1. /\ t \in Seq(T) /\ DOMAIN t = 1..(Len(s) - 1) /\ Len(s) \in Nat \ {0}
      /\ DOMAIN s = 1..Len(s) /\ Head(s) = s[1] /\ s[1] \in T
      /\ \A k \in DOMAIN t : t[k] = s[m[k]]
  OBVIOUS
<1>2. m \in [DOMAIN t -> DOMAIN s] /\ 1 \in DOMAIN s
  BY <1>1
<1>3. \A k \in DOMAIN t : m[k] # 1
  BY <1>1
<1>4. \A j \in DOMAIN s : s[j] \in {s[1]} \/ \E k \in DOMAIN t : m[k] = j
  <2>1. \A j \in 1..Len(s) : j = 1 \/ (j - 1 \in 1..(Len(s) - 1) /\ m[j - 1] = j)
    BY <1>1
  <2> QED
    BY <2>1, <1>1
<1>5. \A k, l \in DOMAIN t : m[k] = m[l] => k = l
  BY <1>1
<1>6. s[1] \in Elems(s)
  BY <1>2 DEF Elems
<1>7. t \in Seq(T) /\ Head(s) = s[1] /\ s[1] \in T /\ \A k \in DOMAIN t : t[k] = s[m[k]]
  BY <1>1
<1> HIDE DEF t, m
<1>8. 1 \in DOMAIN s /\ \A k \in DOMAIN t : m[k] \in DOMAIN s
  BY <1>2
<1>9. Elems(s) \subseteq Elems(t) \cup {s[1]}
  BY <1>4, <1>7 DEF Elems
<1>10. Elems(t) \subseteq Elems(s)
  BY <1>7, <1>8 DEF Elems
<1>11. Once(s) => Once(t)
  BY <1>5, <1>7, <1>8 DEF Once
<1>12. Once(s) => s[1] \notin Elems(t)
  BY <1>3, <1>7, <1>8 DEF Once, Elems
<1> QED
  BY <1>6, <1>7, <1>9, <1>10, <1>11, <1>12 DEF t
=============================================================================
