--------------------------- MODULE Totals_proofs ----------------------------
(***************************************************************************)
(* Induction over the numbers, and what it says of sums of sequences.  The *)
(* library's induction takes a predicate, which no prover here can supply; *)
(* over a set of numbers it follows from the least element that every one  *)
(* has.                                                                    *)
(***************************************************************************)
EXTENDS Totals, SequenceTheorems, WellFoundedInduction, TLAPS

-----------------------------------------------------------------------------
(* Induction.                                                              *)

\* Every set of numbers has a least one.
LEMMA LeastNumber ==
  ASSUME NEW S \in SUBSET Nat, S # {}
  PROVE  \E n \in S : \A m \in S : n <= m
<1> DEFINE R == OpToRel(<, Nat)
<1>1. IsWellFoundedOn(R, Nat)
  BY NatLessThanWellFounded
<1>2. \A x, y \in Nat : x < y => <<x, y>> \in R
  BY DEF OpToRel
<1> HIDE DEF R
<1>3. PICK n \in S : \A m \in S : ~ (<<m, n>> \in R)
  BY <1>1, WFMin, Zenon
<1>4. ASSUME NEW m \in S PROVE n <= m
  <2>1. m \in Nat /\ n \in Nat /\ ~ (<<m, n>> \in R)
    BY <1>3
  <2>2. ~ (m < n)
    BY <1>2, <2>1
  <2> QED
    BY <2>1, <2>2
<1> QED
  BY <1>4

\* A set of numbers with 0 and all successors has them all.
LEMMA SetInduction ==
  ASSUME NEW S \in SUBSET Nat, 0 \in S, \A n \in S : n + 1 \in S
  PROVE  S = Nat
<1> SUFFICES ASSUME Nat \ S # {}
             PROVE  FALSE
  OBVIOUS
<1>1. PICK n \in Nat \ S : \A m \in Nat \ S : n <= m
  BY LeastNumber
<1>2. n # 0 /\ n - 1 \in Nat
  BY <1>1
<1>3. n - 1 \in S
  BY <1>1, <1>2
<1> QED
  BY <1>1, <1>2, <1>3

-----------------------------------------------------------------------------
(* Sums.                                                                   *)

\* f has the partial sums of the first n elements of w.
SumsUpTo(f, w, n) == f = [k \in 0 .. n |-> IF k = 0 THEN 0 ELSE f[k - 1] + w[k]]

LEMMA SumsExist ==
  ASSUME NEW w, NEW n \in Nat
  PROVE  \E f : SumsUpTo(f, w, n)
<1> DEFINE S == {m \in Nat : \E f : SumsUpTo(f, w, m)}
<1>1. 0 \in S
  <2>1. SumsUpTo([k \in 0 .. 0 |-> 0], w, 0)
    BY DEF SumsUpTo
  <2> QED
    BY <2>1
<1>2. ASSUME NEW m \in S
      PROVE  m + 1 \in S
  <2>1. PICK f : SumsUpTo(f, w, m)
    BY <1>2
  <2> DEFINE g == [k \in 0 .. m + 1 |-> IF k = m + 1 THEN f[m] + w[k] ELSE f[k]]
  <2>2. ASSUME NEW k \in 0 .. m + 1
        PROVE  g[k] = IF k = 0 THEN 0 ELSE g[k - 1] + w[k]
    <3>1. CASE k = m + 1
      <4>1. k # 0 /\ k - 1 = m /\ m \in 0 .. m + 1 /\ m # m + 1
        BY <3>1
      <4> QED
        BY <3>1, <4>1
    <3>2. CASE k # m + 1 /\ k # 0
      <4>1. k \in 0 .. m /\ k - 1 \in 0 .. m + 1 /\ k - 1 # m + 1
        BY <3>2
      <4> QED
        BY <2>1, <3>2, <4>1 DEF SumsUpTo
    <3>3. CASE k = 0
      <4>1. 0 \in 0 .. m /\ 0 # m + 1
        OBVIOUS
      <4> QED
        BY <2>1, <3>3, <4>1 DEF SumsUpTo
    <3> QED
      BY <3>1, <3>2, <3>3
  <2>3. SumsUpTo(g, w, m + 1)
    BY <2>2 DEF SumsUpTo
  <2> QED
    BY <2>3
<1> HIDE DEF S
<1>3. S = Nat
  <2>1. S \in SUBSET Nat
    BY DEF S
  <2> QED
    BY <1>1, <1>2, <2>1, SetInduction
<1> QED
  BY <1>3 DEF S

Agree(v, w, l) == \A k \in 1 .. l : v[k] = w[k]

\* Two sequences have the same sums as far as they agree.
LEMMA SumsAgree ==
  ASSUME NEW v, NEW w, NEW l \in Nat, NEW n \in Nat, l <= n,
         NEW f, NEW g, SumsUpTo(f, v, l), SumsUpTo(g, w, n),
         Agree(v, w, l)
  PROVE  \A k \in 0 .. l : f[k] = g[k]
<1> DEFINE S == {k \in Nat : k <= l => f[k] = g[k]}
<1>1. 0 \in S
  <2>1. 0 \in 0 .. l /\ 0 \in 0 .. n
    OBVIOUS
  <2> QED
    BY <2>1 DEF SumsUpTo
<1>2. ASSUME NEW k \in S
      PROVE  k + 1 \in S
  <2> SUFFICES ASSUME k + 1 <= l
               PROVE  f[k + 1] = g[k + 1]
    OBVIOUS
  <2>1. k + 1 \in 0 .. l /\ k + 1 \in 0 .. n /\ k + 1 # 0 /\ (k + 1) - 1 = k /\ k + 1 \in 1 .. l
    OBVIOUS
  <2>2. f[k + 1] = f[k] + v[k + 1] /\ g[k + 1] = g[k] + w[k + 1]
    BY <2>1 DEF SumsUpTo
  <2> QED
    BY <1>2, <2>1, <2>2 DEF Agree
<1> HIDE DEF S
<1>3. S = Nat
  <2>1. S \in SUBSET Nat
    BY DEF S
  <2> QED
    BY <1>1, <1>2, <2>1, SetInduction
<1> QED
  BY <1>3 DEF S

LEMMA SumsAreNumbers ==
  ASSUME NEW w, NEW n \in Nat, NEW f, SumsUpTo(f, w, n), \A k \in 1 .. n : w[k] \in Nat
  PROVE  \A k \in 0 .. n : f[k] \in Nat
<1> DEFINE S == {k \in Nat : k <= n => f[k] \in Nat}
<1>1. 0 \in S
  BY DEF SumsUpTo
<1>2. ASSUME NEW k \in S
      PROVE  k + 1 \in S
  <2> SUFFICES ASSUME k + 1 <= n
               PROVE  f[k + 1] \in Nat
    OBVIOUS
  <2>1. k + 1 \in 0 .. n /\ k + 1 # 0 /\ (k + 1) - 1 = k /\ k + 1 \in 1 .. n
    OBVIOUS
  <2>2. f[k + 1] = f[k] + w[k + 1]
    BY <2>1 DEF SumsUpTo
  <2> QED
    BY <1>2, <2>1, <2>2
<1> HIDE DEF S
<1>3. S = Nat
  <2>1. S \in SUBSET Nat
    BY DEF S
  <2> QED
    BY <1>1, <1>2, <2>1, SetInduction
<1> QED
  BY <1>3 DEF S

LEMMA SumsAre ==
  ASSUME NEW w, Len(w) \in Nat
  PROVE  SumsUpTo(PartialSums(w), w, Len(w))
<1>1. \E f : SumsUpTo(f, w, Len(w))
  BY SumsExist
<1>2. PartialSums(w) = CHOOSE f : SumsUpTo(f, w, Len(w))
  BY DEF PartialSums, SumsUpTo
<1> QED
  BY <1>1, <1>2

\* What the sum of a sequence of numbers is, and what an element more makes of it.
LEMMA TotalOfNumbers ==
  ASSUME NEW w \in Seq(Nat)
  PROVE  TotalOf(w) \in Nat /\ (Len(w) = 0 => TotalOf(w) = 0)
<1>1. Len(w) \in Nat /\ \A k \in 1 .. Len(w) : w[k] \in Nat
  BY LenProperties, ElementOfSeq
<1>2. SumsUpTo(PartialSums(w), w, Len(w))
  BY <1>1, SumsAre
<1>3. \A k \in 0 .. Len(w) : PartialSums(w)[k] \in Nat
  BY <1>1, <1>2, SumsAreNumbers
<1>4. Len(w) \in 0 .. Len(w) /\ 0 \in 0 .. Len(w)
  BY <1>1
<1> QED
  BY <1>2, <1>3, <1>4 DEF TotalOf, SumsUpTo

LEMMA TotalOfMore ==
  ASSUME NEW T, NEW v \in Seq(T), NEW w \in Seq(T), Len(w) = Len(v) + 1,
         \A k \in 1 .. Len(v) : w[k] = v[k]
  PROVE  TotalOf(w) = TotalOf(v) + w[Len(w)]
<1> DEFINE n == Len(v)
           m == Len(w)
           f == PartialSums(v)
           g == PartialSums(w)
<1>1. n \in Nat /\ m \in Nat /\ m = n + 1
  BY LenProperties
<1>2. SumsUpTo(f, v, n) /\ SumsUpTo(g, w, m)
  BY <1>1, SumsAre
<1>3. Agree(v, w, n)
  BY DEF Agree
<1> HIDE DEF n, m, f, g
<1>4. n <= m
  BY <1>1
<1>5. \A k \in 0 .. n : f[k] = g[k]
  BY <1>1, <1>2, <1>3, <1>4, SumsAgree
<1>6. g[m] = g[n] + w[m]
  <2>1. m \in 0 .. m /\ m # 0 /\ m - 1 = n
    BY <1>1
  <2> QED
    BY <1>2, <2>1 DEF SumsUpTo
<1>7. n \in 0 .. n
  BY <1>1
<1> QED
  BY <1>5, <1>6, <1>7 DEF TotalOf, n, m, f, g

LEMMA SumsGrow ==
  ASSUME NEW w, NEW n \in Nat, NEW f, SumsUpTo(f, w, n), \A k \in 1 .. n : w[k] \in Nat,
         NEW l \in 0 .. n
  PROVE  f[l] <= f[n]
<1> DEFINE S == {k \in Nat : \A m \in 0 .. n : m = l + k => f[l] <= f[m]}
<1>0. \A k \in 0 .. n : f[k] \in Nat
  BY SumsAreNumbers
<1>1. 0 \in S
  BY <1>0
<1>2. ASSUME NEW k \in S
      PROVE  k + 1 \in S
  <2> SUFFICES ASSUME NEW m \in 0 .. n, m = l + (k + 1)
               PROVE  f[l] <= f[m]
    OBVIOUS
  <2>1. m # 0 /\ m - 1 = l + k /\ m \in 1 .. n /\ m - 1 \in 0 .. n
    OBVIOUS
  <2>2. f[m] = f[m - 1] + w[m]
    BY <2>1 DEF SumsUpTo
  <2>3. f[l] <= f[m - 1] /\ f[l] \in Nat /\ f[m - 1] \in Nat /\ w[m] \in Nat
    BY <1>0, <1>2, <2>1
  <2> QED
    BY <2>2, <2>3
<1> HIDE DEF S
<1>3. S = Nat
  <2>1. S \in SUBSET Nat
    BY DEF S
  <2> QED
    BY <1>1, <1>2, <2>1, SetInduction
<1>4. n - l \in Nat /\ n = l + (n - l) /\ n \in 0 .. n
  OBVIOUS
<1> QED
  BY <1>3, <1>4 DEF S

LEMMA TotalOfPrefix ==
  ASSUME NEW v \in Seq(Nat), NEW w \in Seq(Nat), Len(v) <= Len(w), Agree(v, w, Len(v))
  PROVE  TotalOf(v) <= TotalOf(w)
<1> DEFINE n == Len(v)
           m == Len(w)
           f == PartialSums(v)
           g == PartialSums(w)
<1>1. n \in Nat /\ m \in Nat /\ n <= m /\ \A k \in 1 .. m : w[k] \in Nat
  BY LenProperties, ElementOfSeq
<1>2. SumsUpTo(f, v, n) /\ SumsUpTo(g, w, m)
  BY <1>1, SumsAre
<1>3. Agree(v, w, n)
  OBVIOUS
<1> HIDE DEF n, m, f, g
<1>4. \A k \in 0 .. n : f[k] = g[k]
  BY <1>1, <1>2, <1>3, SumsAgree
<1>5. n \in 0 .. n /\ n \in 0 .. m
  BY <1>1
<1>6. g[n] <= g[m]
  BY <1>1, <1>2, <1>5, SumsGrow
<1> QED
  BY <1>4, <1>5, <1>6 DEF TotalOf, n, m, f, g

\* Nothing, however often, adds up to nothing.
LEMMA TotalOfNothing ==
  ASSUME NEW n \in Nat
  PROVE  TotalOf([k \in 1 .. n |-> 0]) = 0
<1> DEFINE w == [k \in 1 .. n |-> 0]
           f == PartialSums(w)
           S == {k \in Nat : k <= n => f[k] = 0}
<1>1. Len(w) = n /\ \A k \in 1 .. n : w[k] = 0
  OBVIOUS
<1>2. SumsUpTo(f, w, n)
  BY <1>1, SumsAre
<1> HIDE DEF f, w
<1>3. 0 \in S
  BY <1>2 DEF SumsUpTo
<1>4. ASSUME NEW k \in S
      PROVE  k + 1 \in S
  <2> SUFFICES ASSUME k + 1 <= n
               PROVE  f[k + 1] = 0
    OBVIOUS
  <2>1. k + 1 \in 0 .. n /\ k + 1 # 0 /\ (k + 1) - 1 = k /\ k + 1 \in 1 .. n
    OBVIOUS
  <2>2. f[k + 1] = f[k] + w[k + 1]
    BY <1>2, <2>1 DEF SumsUpTo
  <2> QED
    BY <1>1, <1>4, <2>1, <2>2
<1> HIDE DEF S
<1>5. S = Nat
  <2>1. S \in SUBSET Nat
    BY DEF S
  <2> QED
    BY <1>3, <1>4, <2>1, SetInduction
<1> QED
  BY <1>1, <1>5 DEF S, TotalOf, f, w
=============================================================================
