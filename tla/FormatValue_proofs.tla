-------------------------- MODULE FormatValue_proofs -----------------------
(***************************************************************************)
(* Proofs about the writers of values: whatever the word, an integer is    *)
(* written so that it reads back, with as many digits as were counted,     *)
(* its separators before every three of them, and every argument is padded *)
(* as asked for.  What a recursive function returns is known only by what  *)
(* it is at 0 .. n, and by induction on that.                              *)
(***************************************************************************)
EXTENDS FormatString, FormatValue, Totals_proofs, FiniteSetTheorems, SequenceTheorems, TLAPS

-----------------------------------------------------------------------------
(* Numbers and their quotients.                                            *)

\* A set of numbers with each whose smaller numbers it has, has them all.
LEMMA StrongInduction ==
  ASSUME NEW S \in SUBSET Nat, \A n \in Nat : (\A m \in 0 .. n - 1 : m \in S) => n \in S
  PROVE  S = Nat
<1> SUFFICES ASSUME Nat \ S # {}
             PROVE  FALSE
  OBVIOUS
<1>1. PICK n \in Nat \ S : \A m \in Nat \ S : n <= m
  BY LeastNumber
<1>2. \A m \in 0 .. n - 1 : m \in S
  BY <1>1
<1> QED
  BY <1>1, <1>2

LEMMA Tenths ==
  ASSUME NEW n \in Nat
  PROVE  n = (n \div 10) * 10 + (n % 10) /\ n % 10 \in 0 .. 9 /\ n \div 10 \in Nat /\ (n >= 10 => n \div 10 \in 1 .. n - 1)
OBVIOUS

-----------------------------------------------------------------------------
(* Recursion.                                                              *)

LEMMA Quotients ==
  ASSUME NEW b \in {2, 8, 10, 16, 100}, NEW n \in Nat
  PROVE  /\ n = (n \div b) * b + (n % b) /\ n % b \in 0 .. b - 1 /\ n \div b \in Nat
         /\ n >= b => n \div b \in 1 .. n - 1
         /\ n < b => n \div b = 0 /\ n % b = n
<1>1. CASE b = 2
  BY <1>1
<1>2. CASE b = 8
  BY <1>2
<1>3. CASE b = 10
  BY <1>3
<1>4. CASE b = 16
  BY <1>4
<1>5. CASE b = 100
  BY <1>5
<1> QED
  BY <1>1, <1>2, <1>3, <1>4, <1>5

\* From b on, every number has a smaller one below it.
Descends(down, b) == \A k \in Nat : k >= b => down[k] \in 0 .. k - 1

\* f is recursive up to n, from first and with next.
DescendsTo(f, n, b, down, first, next) ==
  f = [k \in 0 .. n |-> IF k < b THEN first[k] ELSE next[k][f[down[k]]]]

LEMMA DescentsExist ==
  ASSUME NEW b \in Nat, NEW down, NEW first, NEW next, Descends(down, b), NEW n \in Nat
  PROVE  \E f : DescendsTo(f, n, b, down, first, next)
<1> DEFINE S == {m \in Nat : \E f : DescendsTo(f, m, b, down, first, next)}
           on(y, k) == next[k][y]
<1>0. b \in Nat /\ b > 0
  BY DEF Descends
<1>1. 0 \in S
  <2> DEFINE g == [k \in 0 .. 0 |-> first[k]]
  <2>1. g = [k \in 0 .. 0 |-> IF k < b THEN first[k] ELSE on(g[down[k]], k)]
    BY <1>0
  <2>2. DescendsTo(g, 0, b, down, first, next)
    BY <2>1 DEF DescendsTo
  <2> QED
    BY <2>2
<1>2. ASSUME NEW m \in S
      PROVE  m + 1 \in S
  <2>1. PICK f : DescendsTo(f, m, b, down, first, next)
    BY <1>2
  <2>2. f = [k \in 0 .. m |-> IF k < b THEN first[k] ELSE on(f[down[k]], k)]
    BY <2>1 DEF DescendsTo
  <2> HIDE DEF on
  <2> DEFINE g == [k \in 0 .. m + 1 |-> IF k # m + 1 THEN f[k] ELSE IF k < b THEN first[k] ELSE on(f[down[k]], k)]
  <2>3. ASSUME NEW k \in 0 .. m + 1
        PROVE  g[k] = IF k < b THEN first[k] ELSE on(g[down[k]], k)
    <3>1. k >= b => down[k] \in 0 .. m /\ down[k] \in 0 .. m + 1 /\ down[k] # m + 1
      BY <1>0 DEF Descends
    <3>2. CASE k = m + 1
      BY <1>0, <3>1, <3>2
    <3>3. CASE k # m + 1
      <4>1. k \in 0 .. m
        BY <3>3
      <4>2. f[k] = IF k < b THEN first[k] ELSE on(f[down[k]], k)
        BY <2>2, <4>1
      <4>3. g[k] = f[k]
        BY <3>3
      <4>4. k >= b => g[down[k]] = f[down[k]]
        BY <3>1
      <4> HIDE DEF g
      <4> QED
        BY <1>0, <4>1, <4>2, <4>3, <4>4
    <3> QED
      BY <3>2, <3>3
  <2>4. DescendsTo(g, m + 1, b, down, first, next)
    BY <2>3 DEF DescendsTo, on
  <2> QED
    BY <2>4
<1> HIDE DEF S
<1>3. S = Nat
  <2>1. S \in SUBSET Nat
    BY DEF S
  <2> QED
    BY <1>1, <1>2, <2>1, SetInduction
<1> QED
  BY <1>3 DEF S

LEMMA DescentsAgree ==
  ASSUME NEW b \in Nat, NEW down, NEW first, NEW next, Descends(down, b),
         NEW l \in Nat, NEW n \in Nat, l <= n, NEW f, NEW g,
         DescendsTo(f, l, b, down, first, next), DescendsTo(g, n, b, down, first, next)
  PROVE  \A k \in 0 .. l : f[k] = g[k]
<1> DEFINE S == {k \in Nat : k <= l => f[k] = g[k]}
           on(y, k) == next[k][y]
<1>3. /\ f = [k \in 0 .. l |-> IF k < b THEN first[k] ELSE on(f[down[k]], k)]
      /\ g = [k \in 0 .. n |-> IF k < b THEN first[k] ELSE on(g[down[k]], k)]
  BY DEF DescendsTo
<1> HIDE DEF on
<1>0. b \in Nat
  OBVIOUS
<1>1. ASSUME NEW k \in Nat, \A m \in 0 .. k - 1 : m \in S
      PROVE  k \in S
  <2> SUFFICES ASSUME k <= l
               PROVE  f[k] = g[k]
    OBVIOUS
  <2>1. k \in 0 .. l /\ k \in 0 .. n /\ (k >= b => down[k] \in 0 .. k - 1 /\ down[k] <= l)
    BY <1>0 DEF Descends
  <2>2. k >= b => f[down[k]] = g[down[k]]
    BY <1>1, <2>1
  <2>3. f[k] = IF k < b THEN first[k] ELSE on(f[down[k]], k)
    BY <1>3, <2>1
  <2>4. g[k] = IF k < b THEN first[k] ELSE on(g[down[k]], k)
    BY <1>3, <2>1
  <2> QED
    BY <1>0, <2>1, <2>2, <2>3, <2>4
<1> HIDE DEF S
<1>2. S = Nat
  <2>1. S \in SUBSET Nat
    BY DEF S
  <2> QED
    BY <1>1, <2>1, StrongInduction
<1> QED
  BY <1>2 DEF S

Recursive(f, b, down, first, next) ==
  f = [n \in Nat |-> IF n < b THEN first[n] ELSE next[n][f[down[n]]]]

\* A function of every number that is recursive on the one below it.
LEMMA Descent ==
  ASSUME NEW b \in Nat, NEW down, NEW first, NEW next, Descends(down, b)
  PROVE  \E f : Recursive(f, b, down, first, next)
<1> DEFINE up(m) == CHOOSE f : DescendsTo(f, m, b, down, first, next)
           D == [m \in Nat |-> up(m)[m]]
<1>0. b \in Nat
  OBVIOUS
<1>1. \A m \in Nat : DescendsTo(up(m), m, b, down, first, next)
  BY DescentsExist
<1> HIDE DEF up
<1>2. ASSUME NEW m \in Nat
      PROVE  D[m] = IF m < b THEN first[m] ELSE next[m][D[down[m]]]
  <2>1. m \in 0 .. m
    OBVIOUS
  <2>2. up(m)[m] = IF m < b THEN first[m] ELSE next[m][up(m)[down[m]]]
    BY <1>1, <2>1 DEF DescendsTo
  <2>3. m >= b => up(m)[down[m]] = D[down[m]]
    <3> SUFFICES ASSUME m >= b
                 PROVE  up(m)[down[m]] = D[down[m]]
      OBVIOUS
    <3> DEFINE l == down[m]
    <3>1. l \in Nat /\ l <= m /\ l \in 0 .. l
      BY DEF Descends
    <3>2. DescendsTo(up(m), m, b, down, first, next) /\ DescendsTo(up(l), l, b, down, first, next)
      BY <1>1, <3>1
    <3> HIDE DEF l
    <3>3. up(l)[l] = up(m)[l]
      BY <3>1, <3>2, DescentsAgree
    <3> QED
      BY <3>1, <3>3 DEF l
  <2>4. D[m] = up(m)[m]
    OBVIOUS
  <2> HIDE DEF D
  <2> QED
    BY <1>0, <2>2, <2>3, <2>4
<1>3. D = [m \in Nat |-> IF m < b THEN first[m] ELSE next[m][D[down[m]]]]
  <2>1. D = [m \in Nat |-> D[m]]
    OBVIOUS
  <2> HIDE DEF D
  <2> QED
    BY <1>2, <2>1
<1> HIDE DEF D
<1> QED
  BY <1>3 DEF Recursive

LEMMA TypedDescent ==
  ASSUME NEW b \in Nat, NEW down, NEW T, NEW first \in [Nat -> T], NEW next \in [Nat -> [T -> T]], Descends(down, b)
  PROVE  \E f \in [Nat -> T] : Recursive(f, b, down, first, next)
<1>0. PICK f : Recursive(f, b, down, first, next)
  BY Descent
<1> DEFINE S == {n \in Nat : f[n] \in T}
           on(y, n) == next[n][y]
<1>1. f = [n \in Nat |-> IF n < b THEN first[n] ELSE on(f[down[n]], n)]
  BY <1>0 DEF Recursive
<1>5. \A n \in Nat : \A y \in T : on(y, n) \in T
  OBVIOUS
<1> HIDE DEF on
<1>2. ASSUME NEW n \in Nat, \A m \in 0 .. n - 1 : m \in S
      PROVE  n \in S
  <2>1. n >= b => f[down[n]] \in T
    BY <1>2 DEF Descends
  <2>2. CASE n < b
    BY <1>1, <2>2
  <2>3. CASE n >= b
    <3> DEFINE y == f[down[n]]
    <3>1. y \in T
      BY <2>1, <2>3
    <3>2. f[n] = on(y, n)
      BY <1>1, <2>3
    <3> HIDE DEF y
    <3> QED
      BY <1>5, <3>1, <3>2
  <2> QED
    BY <2>2, <2>3
<1> HIDE DEF S
<1>3. S = Nat
  <2>1. S \in SUBSET Nat
    BY DEF S
  <2> QED
    BY <1>2, <2>1, StrongInduction
<1>4. f \in [Nat -> T]
  <2>1. \A n \in Nat : f[n] \in T
    BY <1>3 DEF S
  <2>2. f = [n \in Nat |-> f[n]]
    BY <1>1
  <2> QED
    BY <2>1, <2>2
<1> QED
  BY <1>0, <1>4

-----------------------------------------------------------------------------
(* Powers.                                                                 *)

LEMMA PowersExist ==
  ASSUME NEW b \in Nat
  PROVE  \E f : f = [n \in Nat |-> IF n = 0 THEN 1 ELSE b * f[n - 1]]
<1> DEFINE down == [n \in Nat |-> n - 1]
           first == [n \in Nat |-> 1]
           next == [n \in Nat |-> [y \in Nat |-> b * y]]
<1>1. Descends(down, 1)
  BY DEF Descends
<1>2. first \in [Nat -> Nat] /\ next \in [Nat -> [Nat -> Nat]]
  OBVIOUS
<1> HIDE DEF down, first, next
<1>3. PICK f \in [Nat -> Nat] : Recursive(f, 1, down, first, next)
  BY <1>1, <1>2, TypedDescent
<1>4. \A n \in Nat : f[n] = IF n = 0 THEN 1 ELSE b * f[n - 1]
  <2> TAKE n \in Nat
  <2>1. f[n] = IF n < 1 THEN first[n] ELSE next[n][f[down[n]]]
    BY <1>3 DEF Recursive
  <2>2. CASE n = 0
    BY <2>1, <2>2 DEF first
  <2>3. CASE n # 0
    <3>1. n - 1 \in Nat /\ down[n] = n - 1
      BY <2>3 DEF down
    <3>2. next[n][f[n - 1]] = b * f[n - 1]
      BY <3>1 DEF next
    <3> QED
      BY <2>1, <2>3, <3>1, <3>2
  <2> QED
    BY <2>2, <2>3
<1>5. f = [n \in Nat |-> IF n = 0 THEN 1 ELSE b * f[n - 1]]
  <2>1. f = [n \in Nat |-> f[n]]
    OBVIOUS
  <2> QED
    BY <1>4, <2>1
<1> QED
  BY <1>5

LEMMA PowersAre ==
  ASSUME NEW n \in Nat
  PROVE  /\ TwoTo[n] = IF n = 0 THEN 1 ELSE 2 * TwoTo[n - 1]
         /\ TenTo[n] = IF n = 0 THEN 1 ELSE 10 * TenTo[n - 1]
<1>1. TwoTo = [k \in Nat |-> IF k = 0 THEN 1 ELSE 2 * TwoTo[k - 1]]
  <2>1. \E f : f = [k \in Nat |-> IF k = 0 THEN 1 ELSE 2 * f[k - 1]]
    BY PowersExist
  <2> QED
    BY <2>1 DEF TwoTo
<1>2. TenTo = [k \in Nat |-> IF k = 0 THEN 1 ELSE 10 * TenTo[k - 1]]
  <2>1. \E f : f = [k \in Nat |-> IF k = 0 THEN 1 ELSE 10 * f[k - 1]]
    BY PowersExist
  <2> QED
    BY <2>1 DEF TenTo
<1> QED
  BY <1>1, <1>2

LEMMA PowerIsNumber ==
  ASSUME NEW n \in Nat
  PROVE  TwoTo[n] \in Nat /\ TenTo[n] \in Nat
<1> DEFINE S == {k \in Nat : TwoTo[k] \in Nat /\ TenTo[k] \in Nat}
<1>1. 0 \in S
  BY PowersAre
<1>2. ASSUME NEW k \in S
      PROVE  k + 1 \in S
  <2>1. k \in Nat /\ k + 1 \in Nat /\ (k + 1) - 1 = k /\ k + 1 # 0
    OBVIOUS
  <2>2. TwoTo[k + 1] = 2 * TwoTo[k] /\ TenTo[k + 1] = 10 * TenTo[k]
    BY <2>1, PowersAre
  <2> QED
    BY <2>1, <2>2
<1> HIDE DEF S
<1>3. S = Nat
  <2>1. S \in SUBSET Nat
    BY DEF S
  <2> QED
    BY <1>1, <1>2, <2>1, SetInduction
<1> QED
  BY <1>3 DEF S

\* Powers are positive and grow.
LEMMA PowersGrow ==
  ASSUME NEW n \in Nat
  PROVE  /\ TwoTo[n] \in Nat /\ TwoTo[n] > 0 /\ \A k \in 0 .. n : TwoTo[k] <= TwoTo[n]
         /\ TenTo[n] \in Nat /\ TenTo[n] > 0 /\ \A k \in 0 .. n : TenTo[k] <= TenTo[n]
<1> DEFINE Grown(k) == /\ TwoTo[k] \in Nat /\ TwoTo[k] > 0 /\ \A l \in 0 .. k : TwoTo[l] <= TwoTo[k]
                       /\ TenTo[k] \in Nat /\ TenTo[k] > 0 /\ \A l \in 0 .. k : TenTo[l] <= TenTo[k]
           S == {k \in Nat : Grown(k)}
<1>1. 0 \in S
  BY PowersAre
<1>2. ASSUME NEW k \in S
      PROVE  k + 1 \in S
  <2>1. k \in Nat /\ k + 1 \in Nat /\ (k + 1) - 1 = k /\ k + 1 # 0
    OBVIOUS
  <2>2. TwoTo[k + 1] = 2 * TwoTo[k] /\ TenTo[k + 1] = 10 * TenTo[k]
    BY <2>1, PowersAre
  <2>3. Grown(k)
    OBVIOUS
  <2>4. \A l \in 0 .. k + 1 : l = k + 1 \/ l \in 0 .. k
    BY <2>1
  <2>5. TwoTo[k + 1] \in Nat /\ TwoTo[k + 1] > TwoTo[k] /\ TenTo[k + 1] \in Nat /\ TenTo[k + 1] > TenTo[k]
    BY <2>2, <2>3
  <2>6. ASSUME NEW l \in 0 .. k + 1
        PROVE  TwoTo[l] <= TwoTo[k + 1] /\ TenTo[l] <= TenTo[k + 1]
    <3>1. CASE l = k + 1
      BY <2>5, <3>1
    <3>2. CASE l # k + 1
      <4>1. l \in 0 .. k /\ TwoTo[l] \in Nat /\ TenTo[l] \in Nat
        BY <2>1, <3>2, PowerIsNumber
      <4> QED
        BY <2>3, <2>5, <4>1
    <3> QED
      BY <3>1, <3>2
  <2>7. Grown(k + 1)
    BY <2>3, <2>5, <2>6
  <2> QED
    BY <2>1, <2>7
<1> HIDE DEF S
<1>3. S = Nat
  <2>1. S \in SUBSET Nat
    BY DEF S
  <2> QED
    BY <1>1, <1>2, <2>1, SetInduction
<1> QED
  BY <1>3 DEF S

LEMMA SmallPowers == TwoTo[0] = 1 /\ TwoTo[1] = 2 /\ TwoTo[3] = 8 /\ TwoTo[4] = 16 /\ TenTo[0] = 1 /\ TenTo[1] = 10
<1>1. TwoTo[0] = 1 /\ TwoTo[1] = 2 * TwoTo[0] /\ TwoTo[2] = 2 * TwoTo[1] /\ TwoTo[3] = 2 * TwoTo[2] /\ TwoTo[4] = 2 * TwoTo[3]
  BY PowersAre
<1>2. TenTo[0] = 1 /\ TenTo[1] = 10 * TenTo[0]
  BY PowersAre
<1> QED
  BY <1>1, <1>2
-----------------------------------------------------------------------------
(* Digits.                                                                 *)

Lower == <<"0", "1", "2", "3", "4", "5", "6", "7", "8", "9", "a", "b", "c", "d", "e", "f">>
Upper == <<"0", "1", "2", "3", "4", "5", "6", "7", "8", "9", "A", "B", "C", "D", "E", "F">>

HexDigits == {Upper[k] : k \in 1 .. 16} \cup {Lower[k] : k \in 1 .. 16}
Letters(upper) == IF upper THEN <<"A", "B", "C", "D", "E", "F">> ELSE <<"a", "b", "c", "d", "e", "f">>

LEMMA PartsAre ==
  ASSUME NEW upper \in BOOLEAN
  PROVE  /\ DigitChars \in Seq(HexDigits) /\ Len(DigitChars) = 10
         /\ Letters(upper) \in Seq(HexDigits) /\ Len(Letters(upper)) = 6
<1> DEFINE d == DigitChars
           t == Letters(upper)
<1>1. /\ d = [k \in 1 .. 10 |-> d[k]] /\ Len(d) = 10
      /\ t = [k \in 1 .. 6 |-> t[k]] /\ Len(t) = 6
  BY DEF DigitChars, Letters
<1>2. \A k \in 1 .. 10 : d[k] = Upper[k]
  BY DEF Upper, DigitChars
<1>3. \A k \in 1 .. 6 : t[k] = (IF upper THEN Upper ELSE Lower)[k + 10]
  BY DEF Upper, Lower, Letters
<1> HIDE DEF d, t
<1>4. d \in [1 .. 10 -> HexDigits] /\ t \in [1 .. 6 -> HexDigits]
  <2>1. \A k \in 1 .. 10 : d[k] \in HexDigits
    BY <1>2 DEF HexDigits
  <2>2. \A k \in 1 .. 6 : t[k] \in HexDigits
    <3> TAKE k \in 1 .. 6
    <3>1. k + 10 \in 1 .. 16
      OBVIOUS
    <3> QED
      BY <1>3, <3>1 DEF HexDigits
  <2> QED
    BY <1>1, <2>1, <2>2
<1>5. [1 .. 10 -> HexDigits] \subseteq Seq(HexDigits) /\ [1 .. 6 -> HexDigits] \subseteq Seq(HexDigits)
  <2>1. \A k \in Nat : [1 .. k -> HexDigits] \subseteq Seq(HexDigits)
    BY SeqDef, Zenon
  <2>2. 10 \in Nat /\ 6 \in Nat
    OBVIOUS
  <2> QED
    BY <2>1, <2>2, Zenon
<1>6. d \in Seq(HexDigits) /\ t \in Seq(HexDigits)
  BY <1>4, <1>5, Zenon
<1> QED
  BY <1>1, <1>6 DEF d, t

IsText(s, S, n) == s \in Seq(S) /\ n \in Nat /\ Len(s) = n
Begins(r, s, m) == \A k \in 1 .. m : r[k] = s[k]
Goes(r, t, m, n) == \A k \in 1 .. n : r[m + k] = t[k]

LEMMA Joined ==
  ASSUME NEW S, NEW s, NEW t, NEW m, NEW n, IsText(s, S, m), IsText(t, S, n)
  PROVE  IsText(s \o t, S, m + n) /\ Begins(s \o t, s, m) /\ Goes(s \o t, t, m, n)
BY DEF IsText, Begins, Goes

LEMMA BaseDigitsAre ==
  ASSUME NEW upper \in BOOLEAN
  PROVE  /\ \A k \in 1 .. 16 : BaseDigits(upper)[k] = (IF upper THEN Upper ELSE Lower)[k]
         /\ \A k \in 1 .. 10 : BaseDigits(upper)[k] = DigitChars[k]
         /\ Len(BaseDigits(upper)) = 16 /\ BaseDigits(upper) \in Seq(HexDigits)
<1> DEFINE s == DigitChars
           t == Letters(upper)
           r == s \o t
<1>1. IsText(s, HexDigits, 10) /\ IsText(t, HexDigits, 6)
  BY PartsAre DEF IsText
<1>2. BaseDigits(upper) = r
  BY DEF BaseDigits, Letters
<1>3. /\ \A k \in 1 .. 10 : s[k] = (IF upper THEN Upper ELSE Lower)[k]
      /\ \A k \in 1 .. 6 : t[k] = (IF upper THEN Upper ELSE Lower)[k + 10]
  BY DEF Upper, Lower, Letters, DigitChars
<1> HIDE DEF s, t
<1>4. IsText(r, HexDigits, 10 + 6) /\ Begins(r, s, 10) /\ Goes(r, t, 10, 6)
  BY <1>1, Joined
<1> HIDE DEF r
<1>5. \A k \in 1 .. 10 : r[k] = s[k]
  BY <1>4 DEF Begins
<1>6. \A k \in 1 .. 6 : r[10 + k] = t[k]
  BY <1>4 DEF Goes
<1>7. ASSUME NEW k \in 1 .. 16
      PROVE  r[k] = (IF upper THEN Upper ELSE Lower)[k]
  <2>1. CASE k <= 10
    BY <1>3, <1>5, <2>1
  <2>2. CASE k > 10
    <3>1. PICK j \in 1 .. 6 : k = 10 + j /\ k = j + 10
      BY <2>2
    <3> QED
      BY <1>3, <1>6, <3>1
  <2> QED
    BY <2>1, <2>2
<1>8. Len(r) = 16 /\ r \in Seq(HexDigits)
  BY <1>4 DEF IsText
<1> QED
  BY <1>2, <1>5, <1>7, <1>8 DEF s

LEMMA DigitsDiffer ==
  ASSUME NEW j \in 1 .. 16, NEW k \in 1 .. 16
  PROVE  /\ Upper[j] = Upper[k] => j = k
         /\ Lower[j] = Lower[k] => j = k
         /\ Lower[j] = Upper[k] => j = k
<1>1. Upper[j] = Upper[k] => j = k
  BY DEF Upper
<1>2. Lower[j] = Lower[k] => j = k
  BY DEF Lower
<1>3. Lower[j] = Upper[k] => j = k
  BY DEF Lower, Upper
<1> QED
  BY <1>1, <1>2, <1>3

LEMMA HexValueIs ==
  ASSUME NEW d \in 0 .. 15, NEW upper \in BOOLEAN
  PROVE  HexValue(BaseDigits(upper)[d + 1]) = d
<1>1. upper = TRUE \/ upper = FALSE
  OBVIOUS
<1>4. \A k \in 1 .. 16 : BaseDigits(TRUE)[k] = Upper[k] /\ BaseDigits(FALSE)[k] = Lower[k]
  BY BaseDigitsAre
<1>5. \A e \in 0 .. 15 : e + 1 \in 1 .. 16
  OBVIOUS
<1>2. ASSUME NEW e \in 0 .. 15, BaseDigits(upper)[d + 1] \in {BaseDigits(TRUE)[e + 1], BaseDigits(FALSE)[e + 1]}
      PROVE  e = d
  <2>1. d + 1 \in 1 .. 16 /\ e + 1 \in 1 .. 16
    OBVIOUS
  <2>2. d + 1 = e + 1
    BY <1>1, <1>2, <1>4, <2>1, DigitsDiffer
  <2> QED
    BY <2>2
<1>3. BaseDigits(upper)[d + 1] \in {BaseDigits(TRUE)[d + 1], BaseDigits(FALSE)[d + 1]}
  BY <1>1
<1> QED
  BY <1>2, <1>3 DEF HexValue

-----------------------------------------------------------------------------
(* Reading digits.                                                         *)

LEMMA HexDigitValues ==
  ASSUME NEW c \in HexDigits
  PROVE  HexValue(c) \in 0 .. 15
<1>1. PICK k \in 1 .. 16 : c = Upper[k] \/ c = Lower[k]
  BY DEF HexDigits
<1>2. BaseDigits(TRUE)[k] = Upper[k] /\ BaseDigits(FALSE)[k] = Lower[k]
  BY BaseDigitsAre
<1> DEFINE d == k - 1
<1>3. d \in 0 .. 15 /\ k = d + 1
  OBVIOUS
<1> HIDE DEF d
<1>4. HexValue(BaseDigits(TRUE)[d + 1]) = d /\ HexValue(BaseDigits(FALSE)[d + 1]) = d
  BY <1>3, HexValueIs
<1> QED
  BY <1>1, <1>2, <1>3, <1>4

ReadStep(c, base, skipped, v) == IF c \in skipped THEN v ELSE v * base + HexValue(c)

LEMMA ReadStepType ==
  ASSUME NEW skipped, NEW c \in skipped \cup HexDigits, NEW base \in Nat, NEW v \in Nat
  PROVE  ReadStep(c, base, skipped, v) \in Nat
<1>1. CASE c \in skipped
  BY <1>1 DEF ReadStep
<1>2. CASE c \notin skipped
  <2>1. HexValue(c) \in Nat
    BY <1>2, HexDigitValues
  <2> DEFINE h == HexValue(c)
  <2> HIDE DEF h
  <2>2. v * base + h \in Nat
    BY <2>1 DEF h
  <2> QED
    BY <1>2, <2>2 DEF ReadStep, h
<1> QED
  BY <1>1, <1>2

\* f is what is read of each of the first l characters.
ReadsTo(f, s, base, skipped, l) ==
  f = [n \in 0 .. l |-> IF n = 0 THEN 0 ELSE ReadStep(s[n], base, skipped, f[n - 1])]

LEMMA ReadsExist ==
  ASSUME NEW skipped, NEW base \in Nat, NEW l \in Nat, NEW s, \A k \in 1 .. l : s[k] \in skipped \cup HexDigits
  PROVE  \E f \in [0 .. l -> Nat] : ReadsTo(f, s, base, skipped, l)
<1> DEFINE to(n, y) == IF n \in 1 .. l THEN ReadStep(s[n], base, skipped, y) ELSE 0
           down == [n \in Nat |-> n - 1]
           first == [n \in Nat |-> 0]
           next == [n \in Nat |-> [y \in Nat |-> to(n, y)]]
<1>0. \A n, y \in Nat : to(n, y) \in Nat
  BY ReadStepType
<1>6. \A n \in 1 .. l : \A y \in Nat : to(n, y) = ReadStep(s[n], base, skipped, y)
  OBVIOUS
<1> HIDE DEF to
<1>1. Descends(down, 1)
  BY DEF Descends
<1>2. first \in [Nat -> Nat] /\ next \in [Nat -> [Nat -> Nat]]
  BY <1>0
<1> HIDE DEF down, first, next
<1>3. PICK f \in [Nat -> Nat] : Recursive(f, 1, down, first, next)
  BY <1>1, <1>2, TypedDescent
<1> DEFINE g == [n \in 0 .. l |-> f[n]]
           on(y, n) == next[n][y]
<1>7. f = [n \in Nat |-> IF n < 1 THEN first[n] ELSE on(f[down[n]], n)]
  BY <1>3 DEF Recursive
<1>8. \A n \in Nat : \A y \in Nat : on(y, n) = to(n, y)
  BY DEF next
<1> HIDE DEF on
<1>4. ASSUME NEW n \in 0 .. l
      PROVE  g[n] = IF n = 0 THEN 0 ELSE ReadStep(s[n], base, skipped, g[n - 1])
  <2>1. f[n] = IF n < 1 THEN first[n] ELSE on(f[down[n]], n)
    BY <1>7
  <2>2. CASE n = 0
    BY <2>1, <2>2 DEF first
  <2>3. CASE n # 0
    <3>1. n - 1 \in 0 .. l /\ n - 1 \in Nat /\ down[n] = n - 1 /\ n \in 1 .. l
      BY <2>3 DEF down
    <3>2. on(f[n - 1], n) = to(n, f[n - 1])
      BY <1>8, <3>1
    <3>3. to(n, f[n - 1]) = ReadStep(s[n], base, skipped, f[n - 1])
      BY <1>6, <3>1
    <3> QED
      BY <2>1, <2>3, <3>1, <3>2, <3>3
  <2> QED
    BY <2>2, <2>3
<1>5. ReadsTo(g, s, base, skipped, l) /\ g \in [0 .. l -> Nat]
  BY <1>4 DEF ReadsTo
<1> QED
  BY <1>5

LEMMA ReadsAgree ==
  ASSUME NEW skipped, NEW base, NEW l \in Nat, NEW m \in Nat, l <= m, NEW s, NEW t, \A k \in 1 .. l : s[k] = t[k],
         NEW f, NEW g, ReadsTo(f, s, base, skipped, l), ReadsTo(g, t, base, skipped, m)
  PROVE  \A k \in 0 .. l : f[k] = g[k]
<1> DEFINE S == {k \in Nat : k <= l => f[k] = g[k]}
<1>1. 0 \in S
  BY DEF ReadsTo
<1>2. ASSUME NEW k \in S
      PROVE  k + 1 \in S
  <2> SUFFICES ASSUME k + 1 <= l
               PROVE  f[k + 1] = g[k + 1]
    OBVIOUS
  <2>1. f[k] = g[k] /\ k + 1 \in 0 .. l /\ k + 1 \in 0 .. m /\ k + 1 # 0 /\ (k + 1) - 1 = k /\ k + 1 \in 1 .. l
    OBVIOUS
  <2>2. f[k + 1] = ReadStep(s[k + 1], base, skipped, f[k]) /\ g[k + 1] = ReadStep(t[k + 1], base, skipped, g[k])
    BY <2>1 DEF ReadsTo
  <2> QED
    BY <2>1, <2>2
<1> HIDE DEF S
<1>3. S = Nat
  <2>1. S \in SUBSET Nat
    BY DEF S
  <2> QED
    BY <1>1, <1>2, <2>1, SetInduction
<1> QED
  BY <1>3 DEF S

IsReading(f, s, base, skipped, l) ==
  f \in [0 .. l -> Nat] /\ ReadsTo(f, s, base, skipped, l) /\ ValueOfDigits(s, base, skipped) = f[l]

LEMMA ReadingIs ==
  ASSUME NEW skipped, NEW base \in Nat, NEW l, NEW s, IsText(s, skipped \cup HexDigits, l)
  PROVE  \E f : IsReading(f, s, base, skipped, l)
<1> DEFINE F == CHOOSE f : ReadsTo(f, s, base, skipped, l)
<1>1. l \in Nat /\ Len(s) = l /\ \A k \in 1 .. l : s[k] \in skipped \cup HexDigits
  BY DEF IsText
<1>2. PICK f \in [0 .. l -> Nat] : ReadsTo(f, s, base, skipped, l)
  BY <1>1, ReadsExist
<1>3. ReadsTo(F, s, base, skipped, l)
  BY <1>2
<1>4. ValueOfDigits(s, base, skipped) = F[l]
  BY <1>1 DEF ValueOfDigits, ReadsTo, ReadStep
<1> HIDE DEF F
<1>5. F[l] = f[l]
  <2>1. \A k \in 0 .. l : F[k] = f[k]
    BY <1>1, <1>2, <1>3, ReadsAgree
  <2> QED
    BY <1>1, <2>1
<1> QED
  BY <1>2, <1>4, <1>5 DEF IsReading

LEMMA ReadNothing ==
  ASSUME NEW skipped, NEW base \in Nat, NEW s, IsText(s, skipped \cup HexDigits, 0)
  PROVE  ValueOfDigits(s, base, skipped) = 0
<1>1. PICK f : IsReading(f, s, base, skipped, 0)
  BY ReadingIs DEF IsText
<1> QED
  BY <1>1 DEF ReadsTo, IsReading

LEMMA ReadType ==
  ASSUME NEW skipped, NEW base \in Nat, NEW l, NEW s, IsText(s, skipped \cup HexDigits, l)
  PROVE  ValueOfDigits(s, base, skipped) \in Nat
<1>1. PICK f : IsReading(f, s, base, skipped, l)
  BY ReadingIs
<1> QED
  BY <1>1 DEF IsText, IsReading

\* One more character is one more step.
LEMMA ReadMore ==
  ASSUME NEW skipped, NEW base \in Nat, NEW l, NEW s, IsText(s, skipped \cup HexDigits, l),
         NEW c \in skipped \cup HexDigits
  PROVE  /\ IsText(s \o <<c>>, skipped \cup HexDigits, l + 1)
         /\ ValueOfDigits(s \o <<c>>, base, skipped) = ReadStep(c, base, skipped, ValueOfDigits(s, base, skipped))
<1> DEFINE S == skipped \cup HexDigits
           t == <<c>>
           r == s \o t
           m == l + 1
<1>1. IsText(s, S, l) /\ c \in S /\ l \in Nat /\ m \in Nat /\ m # 0 /\ m - 1 = l /\ l <= m /\ m \in 0 .. m
  BY DEF IsText
<1> HIDE DEF S
<1>2. IsText(t, S, 1) /\ t[1] = c
  BY <1>1 DEF IsText
<1> HIDE DEF t
<1>3. IsText(r, S, m) /\ Begins(r, s, l) /\ Goes(r, t, l, 1)
  BY <1>1, <1>2, Joined
<1> HIDE DEF r
<1>4. r[m] = c /\ \A k \in 1 .. l : s[k] = r[k]
  <2>1. r[l + 1] = t[1]
    BY <1>3 DEF Goes
  <2> QED
    BY <1>2, <1>3, <2>1 DEF Begins
<1>5. PICK f : IsReading(f, s, base, skipped, l)
  BY <1>1, ReadingIs DEF S
<1> HIDE DEF m
<1>6. PICK g : IsReading(g, r, base, skipped, m)
  BY <1>3, ReadingIs DEF S
<1>7. f[l] = g[l]
  <2>2. ReadsTo(f, s, base, skipped, l) /\ ReadsTo(g, r, base, skipped, m)
    BY <1>5, <1>6 DEF IsReading
  <2>3. \A k \in 1 .. l : s[k] = r[k]
    BY <1>4
  <2>1. \A k \in 0 .. l : f[k] = g[k]
    BY <1>1, <2>2, <2>3, ReadsAgree
  <2> QED
    BY <1>1, <2>1
<1>8. g[m] = ReadStep(r[m], base, skipped, g[m - 1])
  BY <1>1, <1>6 DEF ReadsTo, IsReading
<1>9. ValueOfDigits(r, base, skipped) = ReadStep(c, base, skipped, ValueOfDigits(s, base, skipped))
  BY <1>1, <1>4, <1>5, <1>6, <1>7, <1>8 DEF IsReading
<1> QED
  BY <1>3, <1>9 DEF r, t, m, S

\* Characters that are skipped and zeros in front change nothing.
LEMMA ReadBehind ==
  ASSUME NEW skipped, NEW base \in Nat, NEW l, NEW m, NEW z, NEW t,
         IsText(z, skipped \cup HexDigits, l), IsText(t, skipped \cup HexDigits, m),
         \A k \in 1 .. l : z[k] \in skipped \/ HexValue(z[k]) = 0
  PROVE  ValueOfDigits(z \o t, base, skipped) = ValueOfDigits(t, base, skipped)
<1> DEFINE r == z \o t
           n == l + m
<1>1. l \in Nat /\ m \in Nat /\ n \in Nat /\ l <= n
  BY DEF IsText
<1>2. IsText(r, skipped \cup HexDigits, n) /\ Begins(r, z, l) /\ Goes(r, t, l, m)
  BY Joined
<1> HIDE DEF r
<1>3. (\A k \in 1 .. l : r[k] = z[k]) /\ (\A k \in 1 .. m : r[l + k] = t[k])
  BY <1>2 DEF Begins, Goes
<1> HIDE DEF n
<1>4. PICK g : IsReading(g, t, base, skipped, m)
  BY ReadingIs
<1>5. PICK f : IsReading(f, r, base, skipped, n)
  BY <1>2, ReadingIs
<1> DEFINE S == {k \in Nat : k <= l => f[k] = 0}
           U == {k \in Nat : k <= m => f[l + k] = g[k]}
<1>6. S = Nat
  <2>1. 0 \in S
    BY <1>1, <1>5 DEF ReadsTo, IsReading
  <2>2. ASSUME NEW k \in S
        PROVE  k + 1 \in S
    <3> SUFFICES ASSUME k + 1 <= l
                 PROVE  f[k + 1] = 0
      OBVIOUS
    <3>1. f[k] = 0 /\ k + 1 \in 0 .. n /\ k + 1 # 0 /\ (k + 1) - 1 = k /\ k + 1 \in 1 .. l
      BY <1>1
    <3>2. f[k + 1] = ReadStep(r[k + 1], base, skipped, f[k])
      BY <1>5, <3>1 DEF ReadsTo, IsReading
    <3>3. r[k + 1] \in skipped \/ HexValue(r[k + 1]) = 0
      BY <1>3, <3>1
    <3> QED
      BY <3>1, <3>2, <3>3 DEF ReadStep
  <2> HIDE DEF S
  <2>3. S \in SUBSET Nat
    BY DEF S
  <2> QED
    BY <2>1, <2>2, <2>3, SetInduction
<1>7. U = Nat
  <2>1. 0 \in U
    <3>1. f[l] = 0
      BY <1>1, <1>6
    <3>2. g[0] = 0
      BY <1>1, <1>4 DEF ReadsTo, IsReading
    <3> QED
      BY <1>1, <3>1, <3>2
  <2>2. ASSUME NEW k \in U
        PROVE  k + 1 \in U
    <3> SUFFICES ASSUME k + 1 <= m
                 PROVE  f[l + (k + 1)] = g[k + 1]
      OBVIOUS
    <3>1. /\ f[l + k] = g[k] /\ k + 1 \in 0 .. m /\ k + 1 # 0 /\ (k + 1) - 1 = k /\ k + 1 \in 1 .. m
          /\ l + (k + 1) \in 0 .. n /\ l + (k + 1) # 0 /\ (l + (k + 1)) - 1 = l + k
      BY <1>1 DEF n
    <3>2. f[l + (k + 1)] = ReadStep(r[l + (k + 1)], base, skipped, f[l + k])
      BY <1>5, <3>1 DEF ReadsTo, IsReading
    <3>3. g[k + 1] = ReadStep(t[k + 1], base, skipped, g[k])
      BY <1>4, <3>1 DEF ReadsTo, IsReading
    <3>4. r[l + (k + 1)] = t[k + 1]
      BY <1>3, <3>1
    <3> QED
      BY <3>1, <3>2, <3>3, <3>4
  <2> HIDE DEF U
  <2>3. U \in SUBSET Nat
    BY DEF U
  <2> QED
    BY <2>1, <2>2, <2>3, SetInduction
<1>8. f[n] = g[m]
  <2>1. m \in U
    BY <1>1, <1>7
  <2> QED
    BY <1>1, <2>1 DEF n
<1> QED
  BY <1>4, <1>5, <1>8 DEF r, IsReading

-----------------------------------------------------------------------------
(* Reading what is written digit by digit.                                 *)

DigitsOf(upper) == {BaseDigits(upper)[k] : k \in 1 .. 16}
Clear(skipped, upper) == \A c \in DigitsOf(upper) : c \notin skipped

\* t is n characters long, a digit first, and reads v.
Reads(t, v, n, base, upper, skipped) ==
  /\ IsText(t, skipped \cup DigitsOf(upper), n) /\ n >= 1
  /\ ValueOfDigits(t, base, skipped) = v
  /\ t[1] \in DigitsOf(upper) /\ (t[1] = "0" => v = 0)

LEMMA TextElements ==
  ASSUME NEW S, NEW s, NEW n, IsText(s, S, n)
  PROVE  n \in Nat /\ DOMAIN s = 1 .. n /\ \A k \in 1 .. n : s[k] \in S
BY DEF IsText

LEMMA DigitsOfAre ==
  ASSUME NEW upper \in BOOLEAN
  PROVE  /\ DigitsOf(upper) \subseteq HexDigits /\ DigitsOf(upper) = ToSet(BaseDigits(upper))
         /\ \A d \in 0 .. 15 : /\ BaseDigits(upper)[d + 1] \in DigitsOf(upper)
                               /\ HexValue(BaseDigits(upper)[d + 1]) = d
                               /\ (BaseDigits(upper)[d + 1] = "0" => d = 0)
<1> DEFINE r == BaseDigits(upper)
<1>1. r \in Seq(HexDigits) /\ Len(r) = 16
  BY BaseDigitsAre
<1>0. IsText(r, HexDigits, 16)
  BY <1>1 DEF IsText
<1>2. DOMAIN r = 1 .. 16
  BY <1>0, TextElements
<1>3. \A k \in 1 .. 16 : r[k] \in HexDigits
  BY <1>0, TextElements
<1>4. DigitsOf(upper) = ToSet(r)
  BY <1>2 DEF DigitsOf, ToSet
<1>5. r[1] = "0"
  <2>1. r[1] = (IF upper THEN Upper ELSE Lower)[1]
    BY BaseDigitsAre
  <2> QED
    BY <2>1 DEF Upper, Lower
<1>6. \A d \in 0 .. 15 : d + 1 \in 1 .. 16 /\ HexValue(r[d + 1]) = d
  BY HexValueIs
<1>7. HexValue("0") = 0
  <2>1. HexValue(r[0 + 1]) = 0
    BY <1>6
  <2> QED
    BY <1>5, <2>1
<1> HIDE DEF r
<1>8. ASSUME NEW d \in 0 .. 15, r[d + 1] = "0"
      PROVE  d = 0
  BY <1>6, <1>7, <1>8
<1>9. DigitsOf(upper) \subseteq HexDigits
  BY <1>3 DEF DigitsOf, r
<1> QED
  BY <1>4, <1>6, <1>8, <1>9 DEF DigitsOf, r

\* A digit alone, and a digit behind others.
LEMMA FirstRead ==
  ASSUME NEW upper \in BOOLEAN, NEW skipped, Clear(skipped, upper), NEW base \in Nat, NEW d \in 0 .. 15
  PROVE  Reads(<<BaseDigits(upper)[d + 1]>>, d, 1, base, upper, skipped)
<1> DEFINE c == BaseDigits(upper)[d + 1]
           t == <<c>>
           n == << >>
           D == DigitsOf(upper)
<1>1. c \in D /\ D \subseteq HexDigits /\ HexValue(c) = d /\ (c = "0" => d = 0)
  BY DigitsOfAre
<1>2. c \notin skipped
  BY <1>1 DEF Clear
<1> HIDE DEF c, D
<1>3. IsText(t, skipped \cup D, 1) /\ t[1] = c /\ IsText(n, skipped \cup HexDigits, 0) /\ n \o t = t
  BY <1>1 DEF IsText
<1> HIDE DEF n
<1>4. ValueOfDigits(n, base, skipped) = 0
  BY <1>3, ReadNothing
<1>5. ValueOfDigits(n \o <<c>>, base, skipped) = ReadStep(c, base, skipped, ValueOfDigits(n, base, skipped))
  <2>1. c \in skipped \cup HexDigits
    BY <1>1
  <2> QED
    BY <1>3, <2>1, ReadMore
<1>6. ReadStep(c, base, skipped, 0) = d
  <2>1. ReadStep(c, base, skipped, 0) = 0 * base + d
    BY <1>1, <1>2 DEF ReadStep
  <2> QED
    BY <2>1
<1>7. ValueOfDigits(t, base, skipped) = d
  BY <1>3, <1>4, <1>5, <1>6
<1> HIDE DEF t
<1>8. 1 >= 1
  OBVIOUS
<1> QED
  BY <1>1, <1>3, <1>7, <1>8 DEF Reads, D, t, c

LEMMA WiderText ==
  ASSUME NEW S, NEW T, S \subseteq T, NEW s, NEW n, IsText(s, S, n)
  PROVE  IsText(s, T, n)
<1>1. s \in Seq(T)
  BY SeqMonotonic DEF IsText
<1> QED
  BY <1>1 DEF IsText

LEMMA ReadFurther ==
  ASSUME NEW upper \in BOOLEAN, NEW skipped, NEW base \in Nat, NEW t, NEW v, NEW n,
         Reads(t, v, n, base, upper, skipped), NEW c \in skipped \cup DigitsOf(upper), NEW w,
         w = ReadStep(c, base, skipped, v), t[1] = "0" => w = 0
  PROVE  Reads(t \o <<c>>, w, n + 1, base, upper, skipped)
<1> DEFINE D == DigitsOf(upper)
           S == skipped \cup D
           H == skipped \cup HexDigits
           e == <<c>>
           r == t \o e
<1>1. n \in Nat /\ n >= 1 /\ 1 \in 1 .. n /\ n + 1 >= 1 /\ IsText(t, S, n) /\ t[1] \in D
  BY DEF Reads, IsText
<1>2. S \subseteq H /\ c \in S
  BY DigitsOfAre
<1> HIDE DEF S, H, D
<1>3. IsText(t, H, n) /\ c \in H
  BY <1>1, <1>2, WiderText
<1>4. ValueOfDigits(t \o <<c>>, base, skipped) = ReadStep(c, base, skipped, ValueOfDigits(t, base, skipped))
  BY <1>3, ReadMore DEF H
<1>5. ValueOfDigits(r, base, skipped) = w
  BY <1>4 DEF Reads
<1>6. IsText(e, S, 1)
  BY <1>2 DEF IsText
<1> HIDE DEF e
<1>7. IsText(r, S, n + 1) /\ Begins(r, t, n)
  BY <1>1, <1>6, Joined
<1> HIDE DEF r
<1>8. r[1] = t[1]
  BY <1>1, <1>7 DEF Begins
<1>9. Reads(r, w, n + 1, base, upper, skipped)
  BY <1>1, <1>5, <1>7, <1>8 DEF Reads, S, D
<1> QED
  BY <1>9 DEF r, e

LEMMA DigitRead ==
  ASSUME NEW upper \in BOOLEAN, NEW skipped, Clear(skipped, upper), NEW base \in Nat, NEW t, NEW v \in Nat, NEW n,
         Reads(t, v, n, base, upper, skipped), v > 0, NEW d \in 0 .. 15
  PROVE  Reads(t \o <<BaseDigits(upper)[d + 1]>>, v * base + d, n + 1, base, upper, skipped)
<1> DEFINE c == BaseDigits(upper)[d + 1]
           w == v * base + d
<1>1. c \in DigitsOf(upper) /\ HexValue(c) = d
  BY DigitsOfAre
<1>2. c \notin skipped
  BY <1>1 DEF Clear
<1>3. w = ReadStep(c, base, skipped, v)
  BY <1>1, <1>2 DEF ReadStep
<1>4. t[1] # "0"
  BY DEF Reads
<1> HIDE DEF c, w
<1>5. Reads(t \o <<c>>, w, n + 1, base, upper, skipped)
  BY <1>1, <1>3, <1>4, ReadFurther
<1> QED
  BY <1>5 DEF c, w

LEMMA SkippedRead ==
  ASSUME NEW upper \in BOOLEAN, NEW skipped, NEW base \in Nat, NEW t, NEW v \in Nat, NEW n,
         Reads(t, v, n, base, upper, skipped), NEW c \in skipped
  PROVE  Reads(t \o <<c>>, v, n + 1, base, upper, skipped)
<1>1. v = ReadStep(c, base, skipped, v)
  BY DEF ReadStep
<1>2. t[1] = "0" => v = 0
  BY DEF Reads
<1> QED
  BY <1>1, <1>2, ReadFurther

-----------------------------------------------------------------------------
(* Numbers in base two, eight and sixteen.                                 *)

UintBits == {1, 3, 4}

LEMMA UintBases ==
  ASSUME NEW bits \in UintBits
  PROVE  TwoTo[bits] \in {2, 8, 16}
BY SmallPowers DEF UintBits

LEMMA QuotientsDescend ==
  ASSUME NEW b \in {2, 8, 10, 16, 100}, NEW down, down = [n \in Nat |-> n \div b]
  PROVE  Descends(down, b)
<1>1. ASSUME NEW k \in Nat, k >= b
      PROVE  down[k] \in 0 .. k - 1
  BY <1>1, Quotients
<1> QED
  BY <1>1 DEF Descends

LEMMA CountIs ==
  ASSUME NEW bits \in UintBits, NEW n \in Nat
  PROVE  LET b == TwoTo[bits]
         IN  CountInBase(n, bits) = IF n < b THEN 1 ELSE 1 + CountInBase(n \div b, bits)
<1> DEFINE b == TwoTo[bits]
           to(y) == 1 + y
           down == [k \in Nat |-> k \div b]
           first == [k \in Nat |-> 1]
           next == [k \in Nat |-> [y \in Nat |-> to(y)]]
           on(y, k) == next[k][y]
           F == CHOOSE f : f = [m \in Nat |-> IF m < b THEN 1 ELSE 1 + f[m \div b]]
<1>0. b \in {2, 8, 10, 16, 100}
  BY UintBases
<1>1. CountInBase(n, bits) = F[n] /\ CountInBase(n \div b, bits) = F[n \div b]
  BY DEF CountInBase
<1> HIDE DEF b
<1>2. Descends(down, b) /\ b \in Nat
  <2>1. down = [k \in Nat |-> k \div b]
    OBVIOUS
  <2> HIDE DEF down
  <2> QED
    BY <1>0, <2>1, QuotientsDescend
<1>3. first \in [Nat -> Nat] /\ next \in [Nat -> [Nat -> Nat]]
  OBVIOUS
<1>4. (\A k \in Nat : first[k] = 1 /\ down[k] = k \div b) /\ \A k, y \in Nat : on(y, k) = 1 + y
  OBVIOUS
<1>7. \A k \in Nat : k >= b => k \div b \in Nat
  BY <1>0, Quotients
<1> HIDE DEF first, next, down
<1>5. PICK f \in [Nat -> Nat] : Recursive(f, b, down, first, next)
  BY <1>2, <1>3, TypedDescent
<1>6. f = [k \in Nat |-> IF k < b THEN first[k] ELSE on(f[down[k]], k)]
  BY <1>5 DEF Recursive
<1> HIDE DEF on
<1>8. f = [m \in Nat |-> IF m < b THEN 1 ELSE 1 + f[m \div b]]
  <2>1. \A m \in Nat : f[m] = IF m < b THEN 1 ELSE 1 + f[m \div b]
    <3> TAKE m \in Nat
    <3>1. f[m] = IF m < b THEN first[m] ELSE on(f[down[m]], m)
      BY <1>6
    <3>2. CASE m < b
      BY <1>4, <3>1, <3>2
    <3>3. CASE m >= b
      <4>1. m \div b \in Nat /\ down[m] = m \div b /\ f[m \div b] \in Nat
        BY <1>4, <1>7, <3>3
      <4>2. on(f[m \div b], m) = 1 + f[m \div b]
        BY <1>4, <4>1
      <4> QED
        BY <1>2, <3>1, <3>3, <4>1, <4>2
    <3> QED
      BY <1>2, <3>2, <3>3
  <2>2. f = [m \in Nat |-> f[m]]
    OBVIOUS
  <2> QED
    BY <2>1, <2>2
<1>9. F = [m \in Nat |-> IF m < b THEN 1 ELSE 1 + F[m \div b]]
  BY <1>8
<1> HIDE DEF F
<1>10. F[n] = IF n < b THEN 1 ELSE 1 + F[n \div b]
  BY <1>9
<1> QED
  BY <1>1, <1>10 DEF b

LEMMA UintIs ==
  ASSUME NEW bits \in UintBits, NEW upper \in BOOLEAN, NEW v \in Nat
  PROVE  LET b == TwoTo[bits]
         IN  UintFrom(v, bits, upper) =
               IF v < b THEN <<BaseDigits(upper)[v + 1]>>
               ELSE UintFrom(v \div b, bits, upper) \o <<BaseDigits(upper)[(v % b) + 1]>>
<1> DEFINE b == TwoTo[bits]
           T == Seq(HexDigits)
           digit(k) == <<BaseDigits(upper)[(k % b) + 1]>>
           down == [k \in Nat |-> k \div b]
           first == [k \in Nat |-> digit(k)]
           next == [k \in Nat |-> [y \in T |-> y \o digit(k)]]
           on(y, k) == next[k][y]
           F == CHOOSE f : f = [m \in Nat |-> IF m \div b = 0 THEN digit(m) ELSE f[m \div b] \o digit(m)]
<1>0. b \in {2, 8, 16} /\ b \in {2, 8, 10, 16, 100}
  BY UintBases
<1>1. UintFrom(v, bits, upper) = F[v] /\ UintFrom(v \div b, bits, upper) = F[v \div b]
  BY DEF UintFrom
<1> HIDE DEF b
<1>2. Descends(down, b) /\ b \in Nat
  <2>1. down = [k \in Nat |-> k \div b]
    OBVIOUS
  <2> HIDE DEF down
  <2> QED
    BY <1>0, <2>1, QuotientsDescend
<1>11. \A k \in Nat : k \div b \in Nat /\ (k \div b = 0 <=> k < b) /\ k % b \in 0 .. b - 1 /\ (k < b => k % b = k)
  BY <1>0, Quotients
<1>12. ASSUME NEW k \in Nat
       PROVE  digit(k) \in T
  <2>1. k % b \in 0 .. 15
    BY <1>0, <1>11
  <2>2. BaseDigits(upper)[(k % b) + 1] \in HexDigits
    BY <2>1, DigitsOfAre
  <2> DEFINE c == BaseDigits(upper)[(k % b) + 1]
  <2> HIDE DEF c
  <2>3. <<c>> \in T
    BY <2>2 DEF c
  <2> QED
    BY <2>3 DEF c
<1> HIDE DEF digit
<1>3. first \in [Nat -> T] /\ next \in [Nat -> [T -> T]]
  BY <1>12
<1>4. (\A k \in Nat : first[k] = digit(k) /\ down[k] = k \div b) /\ \A k \in Nat, y \in T : on(y, k) = y \o digit(k)
  OBVIOUS
<1> HIDE DEF first, next, down, T
<1>5. PICK f \in [Nat -> T] : Recursive(f, b, down, first, next)
  BY <1>2, <1>3, TypedDescent
<1>6. f = [k \in Nat |-> IF k < b THEN first[k] ELSE on(f[down[k]], k)]
  BY <1>5 DEF Recursive
<1> HIDE DEF on
<1>8. f = [m \in Nat |-> IF m \div b = 0 THEN digit(m) ELSE f[m \div b] \o digit(m)]
  <2>1. \A m \in Nat : f[m] = IF m \div b = 0 THEN digit(m) ELSE f[m \div b] \o digit(m)
    <3> TAKE m \in Nat
    <3>1. f[m] = IF m < b THEN first[m] ELSE on(f[down[m]], m)
      BY <1>6
    <3>2. m \div b \in Nat /\ down[m] = m \div b /\ f[m \div b] \in T /\ first[m] = digit(m) /\ (m \div b = 0 <=> m < b)
      BY <1>4, <1>11
    <3>3. on(f[m \div b], m) = f[m \div b] \o digit(m)
      BY <1>4, <3>2, Zenon
    <3> QED
      BY <3>1, <3>2, <3>3
  <2>2. f = [m \in Nat |-> f[m]]
    OBVIOUS
  <2> QED
    BY <2>1, <2>2
<1>9. F = [m \in Nat |-> IF m \div b = 0 THEN digit(m) ELSE F[m \div b] \o digit(m)]
  BY <1>8, Zenon
<1> HIDE DEF F
<1>10. F[v] = IF v \div b = 0 THEN digit(v) ELSE F[v \div b] \o digit(v)
  BY <1>9
<1>13. v < b => digit(v) = <<BaseDigits(upper)[v + 1]>>
  BY <1>11 DEF digit
<1>14. UintFrom(v, bits, upper) = IF v < b THEN <<BaseDigits(upper)[v + 1]>>
                                  ELSE UintFrom(v \div b, bits, upper) \o digit(v)
  BY <1>1, <1>10, <1>11, <1>13
<1> QED
  BY <1>14 DEF b, digit

\* A number in base two, eight or sixteen: as many digits as were counted, and they read it.
LEMMA UintReads ==
  ASSUME NEW bits \in UintBits, NEW upper \in BOOLEAN, NEW skipped, Clear(skipped, upper), NEW v \in Nat
  PROVE  Reads(UintFrom(v, bits, upper), v, CountInBase(v, bits), TwoTo[bits], upper, skipped)
<1> DEFINE b == TwoTo[bits]
           Read(k) == Reads(UintFrom(k, bits, upper), k, CountInBase(k, bits), b, upper, skipped)
           S == {k \in Nat : Read(k)}
<1>0. b \in {2, 8, 16} /\ b \in {2, 8, 10, 16, 100} /\ b \in Nat
  BY UintBases
<1>1. ASSUME NEW k \in Nat, \A m \in 0 .. k - 1 : m \in S
      PROVE  k \in S
  <2>1. CASE k < b
    <3>1. UintFrom(k, bits, upper) = <<BaseDigits(upper)[k + 1]>> /\ CountInBase(k, bits) = 1
      BY <2>1, UintIs, CountIs
    <3>2. k \in 0 .. 15
      BY <1>0, <2>1
    <3> HIDE DEF b
    <3>3. Reads(<<BaseDigits(upper)[k + 1]>>, k, 1, b, upper, skipped)
      BY <1>0, <3>2, FirstRead
    <3>4. Read(k)
      BY <3>1, <3>3
    <3> QED
      BY <3>4
  <2>2. CASE k >= b
    <3> DEFINE q == k \div b
               d == k % b
               t == UintFrom(q, bits, upper)
               n == CountInBase(q, bits)
    <3>1. q \in 0 .. k - 1 /\ q > 0 /\ d \in 0 .. 15 /\ k = q * b + d /\ q \in Nat
      BY <1>0, <2>2, Quotients
    <3>2. Reads(t, q, n, b, upper, skipped)
      BY <1>1, <3>1
    <3>3. UintFrom(k, bits, upper) = t \o <<BaseDigits(upper)[d + 1]>>
      <4>1. ~(k < b)
        BY <1>0, <2>2
      <4> QED
        BY <4>1, UintIs
    <3>4. CountInBase(k, bits) = n + 1
      <4>1. ~(k < b)
        BY <1>0, <2>2
      <4>2. CountInBase(k, bits) = 1 + n
        BY <4>1, CountIs
      <4>3. n \in Nat
        BY <3>2 DEF Reads, IsText
      <4> QED
        BY <4>2, <4>3
    <3> HIDE DEF q, d, t, n, b
    <3>5. Reads(t \o <<BaseDigits(upper)[d + 1]>>, q * b + d, n + 1, b, upper, skipped)
      BY <1>0, <3>1, <3>2, DigitRead
    <3> QED
      BY <3>1, <3>3, <3>4, <3>5
  <2> QED
    BY <1>0, <2>1, <2>2
<1> HIDE DEF S
<1>2. S = Nat
  <2>1. S \in SUBSET Nat
    BY DEF S
  <2> QED
    BY <1>1, <2>1, StrongInduction
<1> QED
  BY <1>2 DEF S

-----------------------------------------------------------------------------
(* Decimal numbers.                                                        *)

HasDigits(v, k) == k \in Nat /\ k >= 1 /\ v < TenTo[k] /\ (k > 1 => v >= TenTo[k - 1])

LEMMA OneDigitMore ==
  ASSUME NEW v \in Nat, v > 0, NEW k, HasDigits(v, k), NEW d \in 0 .. 9
  PROVE  HasDigits(v * 10 + d, k + 1)
<1>1. k \in Nat /\ k >= 1 /\ v < TenTo[k] /\ (k > 1 => v >= TenTo[k - 1])
  BY DEF HasDigits
<1>2. k + 1 \in Nat /\ k + 1 # 0 /\ (k + 1) - 1 = k
  BY <1>1
<1>3. TenTo[k + 1] = 10 * TenTo[k] /\ TenTo[k] \in Nat
  BY <1>1, <1>2, PowersAre, PowerIsNumber
<1>4. v * 10 + d < TenTo[k + 1]
  BY <1>1, <1>3
<1>5. v * 10 + d >= TenTo[k]
  <2>1. CASE k = 1
    BY <2>1, SmallPowers
  <2>2. CASE k > 1
    <3>1. k - 1 \in Nat /\ k # 0
      BY <1>1, <2>2
    <3>2. TenTo[k] = 10 * TenTo[k - 1] /\ TenTo[k - 1] \in Nat
      BY <1>1, <3>1, PowersAre, PowerIsNumber
    <3> QED
      BY <1>1, <2>2, <3>2
  <2> QED
    BY <1>1, <2>1, <2>2
<1> QED
  BY <1>1, <1>2, <1>4, <1>5 DEF HasDigits

LEMMA DigitsAreUnique ==
  ASSUME NEW v \in Nat, NEW k, NEW l, HasDigits(v, k), HasDigits(v, l)
  PROVE  k = l
<1>1. ASSUME NEW i, NEW j, HasDigits(v, i), HasDigits(v, j), i < j
      PROVE  FALSE
  <2>1. i \in Nat /\ j - 1 \in Nat /\ i \in 0 .. j - 1 /\ v < TenTo[i] /\ v >= TenTo[j - 1]
    BY <1>1 DEF HasDigits
  <2>2. TenTo[i] <= TenTo[j - 1] /\ TenTo[i] \in Nat /\ TenTo[j - 1] \in Nat
    BY <2>1, PowersGrow
  <2> QED
    BY <2>1, <2>2
<1>2. k \in Nat /\ l \in Nat
  BY DEF HasDigits
<1> QED
  BY <1>1, <1>2

-----------------------------------------------------------------------------
(* Separators.                                                             *)

\* The characters on the right of a digit that has index others there.
Behind10(index, sep) == index + (IF sep = << >> THEN 0 ELSE index \div 3)
\* How many characters k digits take.
CharsTaken(k, index, sep) == Behind10(index + k - 1, sep) + 1 - Behind10(index, sep)
\* Separators stand where they belong in a text with g characters behind it.
LEMMA SeparatorIsNoDigit ==
  ASSUME NEW upper \in BOOLEAN, NEW c \in DigitsOf(upper)
  PROVE  c # ThousandsSep
<1> DEFINE others == {"0", "1", "2", "3", "4", "5", "6", "7", "8", "9"} \cup
                     {"a", "b", "c", "d", "e", "f", "A", "B", "C", "D", "E", "F"}
<1>1. ThousandsSep \notin others
  BY Zenon DEF ThousandsSep
<1>2. PICK k \in 1 .. 16 : c = BaseDigits(upper)[k]
  BY DEF DigitsOf
<1>3. BaseDigits(upper)[k] = (IF upper THEN Upper ELSE Lower)[k]
  BY BaseDigitsAre
<1>4. Upper[k] \in others /\ Lower[k] \in others
  BY DEF Upper, Lower
<1> QED
  BY <1>1, <1>2, <1>3, <1>4

IsSeparator(c) == c = ThousandsSep
SeparatorsAt(t, n, g) == \A j \in 1 .. n : IsSeparator(t[j]) <=> (n - j + g) % 4 = 3

Separators == {<< >>, <<ThousandsSep>>}

LEMMA Behind10Is ==
  ASSUME NEW index \in Nat, NEW sep
  PROVE  /\ Behind10(index, sep) \in Nat /\ Behind10(0, sep) = 0
         /\ Behind10(index + 1, sep) = Behind10(index, sep) + (IF sep # << >> /\ (index + 1) % 3 = 0 THEN 2 ELSE 1)
         /\ sep # << >> => Behind10(index, sep) % 4 = index % 3
<1>1. CASE sep = << >>
  BY <1>1 DEF Behind10
<1>2. CASE sep # << >>
  <2>1. Behind10(index, sep) = index + index \div 3 /\ Behind10(index + 1, sep) = (index + 1) + (index + 1) \div 3
        /\ Behind10(0, sep) = 0 + 0 \div 3
    BY <1>2 DEF Behind10
  <2>2. index + index \div 3 \in Nat /\ 0 + 0 \div 3 = 0
        /\ (index + 1) + (index + 1) \div 3 = (index + index \div 3) + (IF (index + 1) % 3 = 0 THEN 2 ELSE 1)
        /\ (index + index \div 3) % 4 = index % 3
    OBVIOUS
  <2> QED
    BY <1>2, <2>1, <2>2
<1> QED
  BY <1>1, <1>2

LEMMA Behind10Grows ==
  ASSUME NEW index \in Nat, NEW k \in Nat, NEW sep
  PROVE  Behind10(index + k, sep) >= Behind10(index, sep)
<1>1. CASE sep = << >>
  BY <1>1 DEF Behind10
<1>2. CASE sep # << >>
  <2>1. Behind10(index, sep) = index + index \div 3 /\ Behind10(index + k, sep) = (index + k) + (index + k) \div 3
    BY <1>2 DEF Behind10
  <2>2. (index + k) + (index + k) \div 3 >= index + index \div 3
    OBVIOUS
  <2> QED
    BY <2>1, <2>2
<1> QED
  BY <1>1, <1>2

LEMMA TakenIs ==
  ASSUME NEW index \in Nat, NEW k \in Nat, k >= 1, NEW sep
  PROVE  /\ CharsTaken(k, index, sep) \in Nat /\ CharsTaken(1, index, sep) = 1
         /\ CharsTaken(k + 1, index, sep) = CharsTaken(k, index + 1, sep) + (IF sep # << >> /\ (index + 1) % 3 = 0 THEN 2 ELSE 1)
         /\ CharsTaken(k, 0, sep) = IF sep = << >> THEN k ELSE k + (k - 1) \div 3
<1> DEFINE g(i) == Behind10(i, sep)
<1>1. /\ CharsTaken(k, index, sep) = g(index + k - 1) + 1 - g(index)
      /\ CharsTaken(1, index, sep) = g(index + 1 - 1) + 1 - g(index)
      /\ CharsTaken(k + 1, index, sep) = g(index + (k + 1) - 1) + 1 - g(index)
      /\ CharsTaken(k, index + 1, sep) = g((index + 1) + k - 1) + 1 - g(index + 1)
      /\ CharsTaken(k, 0, sep) = g(0 + k - 1) + 1 - g(0)
  BY DEF CharsTaken
<1> DEFINE j == k - 1
<1>2. /\ j \in Nat /\ k = j + 1 /\ index + k - 1 = index + j /\ index + 1 - 1 = index /\ index + (k + 1) - 1 = index + k
      /\ (index + 1) + k - 1 = index + k /\ 0 + k - 1 = j /\ index + j \in Nat /\ index + k \in Nat
  OBVIOUS
<1>3. g(k - 1) = IF sep = << >> THEN j ELSE j + j \div 3
  BY DEF Behind10
<1> HIDE DEF j
<1>4. /\ g(index) \in Nat /\ g(index + j) \in Nat /\ g(index + k) \in Nat /\ g(0) = 0
      /\ g(index + 1) = g(index) + (IF sep # << >> /\ (index + 1) % 3 = 0 THEN 2 ELSE 1)
  BY <1>2, Behind10Is
<1>5. g(index + j) >= g(index)
  BY <1>2, Behind10Grows
<1>6. CharsTaken(k, 0, sep) = IF sep = << >> THEN k ELSE k + (k - 1) \div 3
  <2>1. CharsTaken(k, 0, sep) = g(k - 1) + 1
    BY <1>1, <1>2, <1>4, Behind10Is DEF j
  <2> QED
    BY <1>2, <1>3, <2>1 DEF j
<1> HIDE DEF g
<1>7. CharsTaken(k, index, sep) \in Nat /\ CharsTaken(1, index, sep) = 1
  BY <1>1, <1>2, <1>4, <1>5, SMTT(30)
<1>8. CharsTaken(k + 1, index, sep) = CharsTaken(k, index + 1, sep) + (IF sep # << >> /\ (index + 1) % 3 = 0 THEN 2 ELSE 1)
  BY <1>1, <1>2, <1>4, SMTT(30)
<1> QED
  BY <1>6, <1>7, <1>8

LEMMA SeparatorsFurther ==
  ASSUME NEW t, NEW S, NEW n, IsText(t, S, n), NEW c \in S, NEW g \in Nat,
         SeparatorsAt(t, n, g + 1), IsSeparator(c) <=> g % 4 = 3
  PROVE  SeparatorsAt(t \o <<c>>, n + 1, g)
<1> DEFINE e == <<c>>
           r == t \o e
<1>1. IsText(e, S, 1) /\ e[1] = c
  BY DEF IsText
<1> HIDE DEF e
<1>2. Begins(r, t, n) /\ Goes(r, e, n, 1)
  BY <1>1, Joined
<1> HIDE DEF r
<1>3. n \in Nat /\ r[n + 1] = c /\ \A j \in 1 .. n : r[j] = t[j]
  <2>1. r[n + 1] = e[1]
    BY <1>2 DEF Goes
  <2> QED
    BY <1>1, <1>2, <2>1 DEF Begins, IsText
<1> DEFINE m == n + 1
<1>4. ASSUME NEW j \in 1 .. m
      PROVE  IsSeparator(r[j]) <=> (m - j + g) % 4 = 3
  <2>1. CASE j = n + 1
    <3>1. n + 1 - j + g = g
      BY <1>3, <2>1
    <3> QED
      BY <1>3, <2>1, <3>1
  <2>2. CASE j \in 1 .. n
    <3>1. n + 1 - j + g = n - j + (g + 1)
      BY <1>3, <2>2
    <3>2. IsSeparator(t[j]) <=> (n - j + (g + 1)) % 4 = 3
      BY <2>2 DEF SeparatorsAt
    <3> QED
      BY <1>3, <2>2, <3>1, <3>2
  <2> QED
    BY <1>3, <2>1, <2>2
<1> HIDE DEF m
<1>5. SeparatorsAt(r, m, g)
  BY <1>4 DEF SeparatorsAt
<1> QED
  BY <1>5 DEF r, e, m

\* t is the decimal text of v with k digits, before index others.
Decimal(t, v, k, index, sep, skipped) ==
  /\ Reads(t, v, CharsTaken(k, index, sep), 10, FALSE, skipped)
  /\ HasDigits(v, k)
  /\ sep # << >> => SeparatorsAt(t, CharsTaken(k, index, sep), Behind10(index, sep))

Separating(sep, skipped) ==
  sep \in Separators /\ Clear(skipped, FALSE) /\ (sep # << >> => ThousandsSep \in skipped)

LEMMA DecimalDigits ==
  ASSUME NEW d \in 0 .. 9
  PROVE  /\ DigitChars[d + 1] = BaseDigits(FALSE)[d + 1] /\ ~IsSeparator(DigitChars[d + 1])
         /\ DigitChars[d + 1] \in DigitsOf(FALSE) /\ d \in 0 .. 15
<1>1. d \in 0 .. 15 /\ d + 1 \in 1 .. 10
  OBVIOUS
<1>2. DigitChars[d + 1] = BaseDigits(FALSE)[d + 1]
  BY <1>1, BaseDigitsAre
<1>4. BaseDigits(FALSE)[d + 1] \in DigitsOf(FALSE)
  BY <1>1, DigitsOfAre
<1>3. ~IsSeparator(DigitChars[d + 1])
  <2>1. DigitChars[d + 1] # ThousandsSep
    BY <1>2, <1>4, SeparatorIsNoDigit
  <2> QED
    BY <2>1 DEF IsSeparator
<1> QED
  BY <1>1, <1>2, <1>3, <1>4

LEMMA LeadingDigit ==
  ASSUME NEW d \in 0 .. 9, NEW index \in Nat, NEW sep, NEW skipped, Separating(sep, skipped)
  PROVE  Decimal(<<DigitChars[d + 1]>>, d, 1, index, sep, skipped)
<1> DEFINE c == BaseDigits(FALSE)[d + 1]
           t == <<c>>
           g == Behind10(index, sep)
<1>1. c = DigitChars[d + 1] /\ ~IsSeparator(c) /\ d \in 0 .. 15
  BY DecimalDigits
<1>2. Reads(t, d, 1, 10, FALSE, skipped)
  BY <1>1, FirstRead DEF Separating
<1>3. CharsTaken(1, index, sep) = 1
  BY TakenIs
<1>4. HasDigits(d, 1)
  BY SmallPowers DEF HasDigits
<1>5. sep # << >> => SeparatorsAt(t, 1, g)
  <2> SUFFICES ASSUME sep # << >>
               PROVE  SeparatorsAt(t, 1, g)
    OBVIOUS
  <2>1. g \in Nat /\ g % 4 = index % 3
    BY Behind10Is
  <2> HIDE DEF g, c
  <2>2. ~IsSeparator(t[1]) /\ g % 4 # 3
    BY <1>1, <2>1
  <2> HIDE DEF t
  <2>3. \A j \in 1 .. 1 : j = 1 /\ 1 - j + g = g
    BY <2>1
  <2> QED
    BY <2>2, <2>3 DEF SeparatorsAt
<1> HIDE DEF c, g
<1>6. Decimal(t, d, 1, index, sep, skipped)
  BY <1>2, <1>3, <1>4, <1>5 DEF Decimal, g
<1> QED
  BY <1>1, <1>6

LEMMA PutBehind ==
  ASSUME NEW v \in Nat, v > 0, NEW k, NEW index \in Nat, NEW sep, NEW skipped, Separating(sep, skipped), NEW t,
         Decimal(t, v, k, index + 1, sep, skipped), NEW d \in 0 .. 9
  PROVE  Decimal(t \o Put(d, index, sep), v * 10 + d, k + 1, index, sep, skipped)
<1> DEFINE c == BaseDigits(FALSE)[d + 1]
           n == CharsTaken(k, index + 1, sep)
           m == CharsTaken(k + 1, index, sep)
           g == Behind10(index, sep)
           h == Behind10(index + 1, sep)
           S == skipped \cup DigitsOf(FALSE)
           w == v * 10 + d
           here == sep # << >> /\ (index + 1) % 3 = 0
<1>0. index + 1 \in Nat /\ k \in Nat /\ k >= 1 /\ w \in Nat
  BY DEF Decimal, HasDigits
<1>1. c = DigitChars[d + 1] /\ ~IsSeparator(c) /\ d \in 0 .. 15 /\ c \in DigitsOf(FALSE)
  BY DecimalDigits
<1>2. HasDigits(w, k + 1)
  BY OneDigitMore DEF Decimal
<1>3. n \in Nat /\ m = n + (IF here THEN 2 ELSE 1)
  BY <1>0, TakenIs
<1>4. g \in Nat /\ h = g + (IF here THEN 2 ELSE 1) /\ (sep # << >> => g % 4 = index % 3)
  BY Behind10Is
<1>5. Reads(t, v, n, 10, FALSE, skipped) /\ (sep # << >> => SeparatorsAt(t, n, h))
  BY DEF Decimal
<1>6. IsText(t, S, n)
  BY <1>5 DEF Reads
<1>7. Clear(skipped, FALSE) /\ c \in S
  BY <1>1 DEF Separating
<1> DEFINE z == IF here THEN t \o <<ThousandsSep>> ELSE t
           p == IF here THEN n + 1 ELSE n
<1>8. t \o Put(d, index, sep) = z \o <<c>>
  <2>1. CASE here
    <3>1. sep = <<ThousandsSep>>
      BY <2>1 DEF Separating, Separators
    <3>2. Put(d, index, sep) = <<ThousandsSep>> \o <<c>>
      BY <1>1, <2>1, <3>1 DEF Put
    <3>3. ThousandsSep \in S
      BY <2>1 DEF Separating
    <3> DEFINE a == <<ThousandsSep>>
               e == <<c>>
    <3> HIDE DEF S, c
    <3>6. a \in Seq(S) /\ e \in Seq(S)
      BY <1>7, <3>3
    <3>7. t \in Seq(S)
      BY <1>6 DEF IsText
    <3> HIDE DEF a, e
    <3>4. t \in Seq(S) /\ a \in Seq(S) /\ e \in Seq(S)
      BY <3>6, <3>7
    <3>5. t \o (a \o e) = (t \o a) \o e
      BY <3>4, ConcatAssociative, SMTT(30)
    <3> QED
      BY <2>1, <3>2, <3>5 DEF a, e
  <2>2. CASE ~here
    <3>1. Put(d, index, sep) = << >> \o <<c>>
      BY <1>1, <2>2 DEF Put, Separating, Separators
    <3>2. << >> \o <<c>> = <<c>>
      OBVIOUS
    <3> QED
      BY <2>2, <3>1, <3>2
  <2> QED
    BY <2>1, <2>2
<1> HIDE DEF c, n, m, g, h, w
<1>9. Reads(z, v, p, 10, FALSE, skipped)
  <2>1. CASE here
    <3>1. ThousandsSep \in skipped
      BY <2>1 DEF Separating
    <3>2. Reads(t \o <<ThousandsSep>>, v, n + 1, 10, FALSE, skipped)
      BY <1>5, <3>1, SkippedRead
    <3> QED
      BY <2>1, <3>2
  <2>2. CASE ~here
    BY <1>5, <2>2
  <2> QED
    BY <2>1, <2>2
<1>10. sep # << >> => SeparatorsAt(z, p, g + 1)
  <2> SUFFICES ASSUME sep # << >>
               PROVE  SeparatorsAt(z, p, g + 1)
    OBVIOUS
  <2>1. CASE here
    <3>1. (index + 1) % 3 = 0 => (index % 3) = 2
      OBVIOUS
    <3>2. g + 1 \in Nat /\ (g + 1) + 1 = h /\ (g + 1) % 4 = 3
      BY <1>4, <2>1, <3>1
    <3>3. ThousandsSep \in S
      BY <2>1 DEF Separating
    <3> HIDE DEF S
    <3>4. SeparatorsAt(t, n, (g + 1) + 1)
      BY <1>5, <3>2
    <3> DEFINE comma == ThousandsSep
    <3>5. IsSeparator(comma) <=> (g + 1) % 4 = 3
      BY <3>2 DEF IsSeparator
    <3>6. comma \in S
      BY <3>3
    <3> HIDE DEF comma
    <3>7. SeparatorsAt(t \o <<comma>>, n + 1, g + 1)
      BY <1>6, <3>2, <3>4, <3>5, <3>6, SeparatorsFurther
    <3> QED
      BY <2>1, <3>7 DEF comma
  <2>2. CASE ~here
    BY <1>4, <1>5, <2>2
  <2> QED
    BY <2>1, <2>2
<1>11. IsText(z, S, p) /\ p + 1 = m
  <2>1. p + 1 = m
    BY <1>3 DEF m
  <2>2. IsText(z, S, p)
    BY <1>9 DEF Reads
  <2> QED
    BY <2>1, <2>2
<1> HIDE DEF z, p, S
<1>12. Reads(z \o <<c>>, w, m, 10, FALSE, skipped)
  BY <1>1, <1>7, <1>9, <1>11, DigitRead DEF c, w
<1>13. sep # << >> => SeparatorsAt(z \o <<c>>, m, g)
  <2> SUFFICES ASSUME sep # << >>
               PROVE  SeparatorsAt(z \o <<c>>, m, g)
    OBVIOUS
  <2>1. IsSeparator(c) <=> g % 4 = 3
    BY <1>1, <1>4
  <2>2. SeparatorsAt(z \o <<c>>, p + 1, g)
    BY <1>4, <1>7, <1>10, <1>11, <2>1, SeparatorsFurther
  <2> QED
    BY <1>11, <2>2
<1> QED
  BY <1>2, <1>8, <1>12, <1>13 DEF Decimal, m, g, w

\* Up to two digits, and two digits behind others.
LeadingText(v, index, sep) ==
  IF v < 10 THEN <<DigitChars[v + 1]>> ELSE <<DigitChars[(v \div 10) + 1]>> \o Put(v % 10, index, sep)
TwoBehind(t, v, index, sep) == t \o Put((v \div 10) % 10, index + 1, sep) \o Put(v % 10, index, sep)

DecimalSet == Seq(HexDigits \cup {ThousandsSep})

LEMMA PutType ==
  ASSUME NEW d \in 0 .. 9, NEW index, NEW sep \in Separators
  PROVE  Put(d, index, sep) \in DecimalSet /\ <<DigitChars[d + 1]>> \in DecimalSet
<1> DEFINE S == HexDigits \cup {ThousandsSep}
           c == DigitChars[d + 1]
           e == <<c>>
           s == <<ThousandsSep>>
           n == << >>
<1>1. c \in S
  BY DecimalDigits, DigitsOfAre
<1>2. ThousandsSep \in S
  OBVIOUS
<1> HIDE DEF S, c
<1>3. e \in Seq(S) /\ s \in Seq(S) /\ n \in Seq(S)
  BY <1>1, <1>2
<1> HIDE DEF e, s, n
<1>4. Put(d, index, sep) = s \o e \/ Put(d, index, sep) = n \o e
  BY DEF Put, Separators, e, s, n, c
<1>5. s \o e \in Seq(S) /\ n \o e \in Seq(S)
  BY <1>3, ConcatProperties
<1>6. Put(d, index, sep) \in Seq(S) /\ e \in Seq(S)
  BY <1>3, <1>4, <1>5
<1> QED
  BY <1>6 DEF S, e, c, DecimalSet

LEMMA JoinedDecimals ==
  ASSUME NEW s \in DecimalSet, NEW t \in DecimalSet
  PROVE  s \o t \in DecimalSet
BY ConcatProperties DEF DecimalSet

Tenth(n) == n = (n \div 10) * 10 + (n % 10) /\ n % 10 \in 0 .. 9 /\ n \div 10 \in Nat

LEMMA TenthsOf ==
  ASSUME NEW n \in Nat
  PROVE  Tenth(n)
BY Tenths DEF Tenth

LEMMA Tens ==
  ASSUME NEW v \in Nat
  PROVE  /\ v % 10 \in 0 .. 9 /\ (v \div 10) % 10 \in 0 .. 9 /\ (v < 10 => v \in 0 .. 9)
         /\ v < 100 => v \div 10 \in 0 .. 9
         /\ v = (v \div 10) * 10 + (v % 10) /\ v = ((v \div 100) * 10 + ((v \div 10) % 10)) * 10 + (v % 10)
         /\ v >= 10 => v \div 10 > 0
         /\ v >= 100 => v \div 100 > 0
         /\ v \div 10 \in Nat /\ v \div 100 \in Nat
<1> DEFINE q == v \div 10
           p == v \div 100
<1>1. q \in Nat /\ p \in Nat /\ v = q * 10 + (v % 10) /\ v % 10 \in 0 .. 9
  <2>1. Tenth(v)
    BY TenthsOf
  <2>2. v \div 100 \in Nat
    OBVIOUS
  <2> QED
    BY <2>1, <2>2 DEF Tenth
<1>6. p = q \div 10
  OBVIOUS
<1>2. q % 10 \in 0 .. 9 /\ q = (q \div 10) * 10 + (q % 10) /\ p = q \div 10
  <2> HIDE DEF p, q
  <2>1. Tenth(q)
    BY <1>1, TenthsOf
  <2> QED
    BY <1>6, <2>1 DEF Tenth
<1>3. (v < 10 => v \in 0 .. 9) /\ (v < 100 => q \in 0 .. 9) /\ (v >= 10 => q > 0) /\ (v >= 100 => p > 0)
  OBVIOUS
<1>4. q = p * 10 + (q % 10)
  BY <1>2
<1> HIDE DEF p, q
<1>5. v = (p * 10 + (q % 10)) * 10 + (v % 10)
  BY <1>1, <1>4
<1> QED
  BY <1>1, <1>2, <1>3, <1>5 DEF p, q

LEMMA DecimalTypes ==
  ASSUME NEW v \in Nat, NEW index, NEW sep \in Separators
  PROVE  /\ v < 100 => LeadingText(v, index, sep) \in DecimalSet
         /\ \A t \in DecimalSet : TwoBehind(t, v, index, sep) \in DecimalSet
<1>1. ASSUME v < 100
      PROVE  LeadingText(v, index, sep) \in DecimalSet
  <2>1. CASE v < 10
    BY <2>1, Tens, PutType DEF LeadingText
  <2>2. CASE v >= 10
    <3> DEFINE e == <<DigitChars[(v \div 10) + 1]>>
               p == Put(v % 10, index, sep)
    <3>1. v \div 10 \in 0 .. 9 /\ v % 10 \in 0 .. 9
      BY <1>1, Tens
    <3>2. e \in DecimalSet /\ p \in DecimalSet
      BY <3>1, PutType
    <3>3. LeadingText(v, index, sep) = e \o p
      BY <2>2 DEF LeadingText
    <3> HIDE DEF e, p
    <3> QED
      BY <3>2, <3>3, JoinedDecimals
  <2> QED
    BY <2>1, <2>2
<1>2. ASSUME NEW t \in DecimalSet
      PROVE  TwoBehind(t, v, index, sep) \in DecimalSet
  <2> DEFINE p == Put((v \div 10) % 10, index + 1, sep)
             q == Put(v % 10, index, sep)
  <2>1. p \in DecimalSet /\ q \in DecimalSet
    BY Tens, PutType
  <2>2. TwoBehind(t, v, index, sep) = t \o p \o q
    BY DEF TwoBehind
  <2> HIDE DEF p, q
  <2>3. t \o p \in DecimalSet
    BY <2>1, JoinedDecimals
  <2> QED
    BY <2>1, <2>2, <2>3, JoinedDecimals
<1> QED
  BY <1>1, <1>2

DecimalTextOf(f, sep) ==
  f = [v \in Nat |-> [index \in Nat |-> IF v >= 100 THEN TwoBehind(f[v \div 100][index + 2], v, index, sep)
                                        ELSE LeadingText(v, index, sep)]]

LEMMA DecimalTextExists ==
  ASSUME NEW sep \in Separators
  PROVE  \E f : DecimalTextOf(f, sep)
<1> DEFINE T == [Nat -> DecimalSet]
           lead(v, i) == IF v < 100 THEN LeadingText(v, i, sep) ELSE << >>
           two(y, v, i) == TwoBehind(y[i + 2], v, i, sep)
           down == [v \in Nat |-> v \div 100]
           first == [v \in Nat |-> [i \in Nat |-> lead(v, i)]]
           next == [v \in Nat |-> [y \in T |-> [i \in Nat |-> two(y, v, i)]]]
           on(y, v) == next[v][y]
<1>1. \A v, i \in Nat : lead(v, i) \in DecimalSet
  <2>1. << >> \in DecimalSet
    BY DEF DecimalSet
  <2> QED
    BY <2>1, DecimalTypes
<1>2. \A v, i \in Nat : \A y \in T : two(y, v, i) \in DecimalSet
  <2> TAKE v, i \in Nat
  <2> TAKE y \in T
  <2>1. y[i + 2] \in DecimalSet
    OBVIOUS
  <2> QED
    BY <2>1, DecimalTypes
<1> HIDE DEF lead, two
<1>3. first \in [Nat -> T]
  BY <1>1
<1>4. next \in [Nat -> [T -> T]]
  BY <1>2
<1>5. Descends(down, 100)
  <2>1. down = [v \in Nat |-> v \div 100]
    OBVIOUS
  <2> HIDE DEF down
  <2> QED
    BY <2>1, QuotientsDescend
<1>6. \A v \in Nat : first[v] = [i \in Nat |-> lead(v, i)] /\ down[v] = v \div 100
  OBVIOUS
<1>7. \A v \in Nat : \A y \in T : on(y, v) = [i \in Nat |-> two(y, v, i)]
  OBVIOUS
<1> HIDE DEF first, next, down, T
<1>8. PICK f \in [Nat -> T] : Recursive(f, 100, down, first, next)
  BY <1>3, <1>4, <1>5, TypedDescent
<1>9. f = [v \in Nat |-> IF v < 100 THEN first[v] ELSE on(f[down[v]], v)]
  BY <1>8 DEF Recursive
<1> HIDE DEF on
<1>10. ASSUME NEW v \in Nat
       PROVE  f[v] = [i \in Nat |-> IF v >= 100 THEN TwoBehind(f[v \div 100][i + 2], v, i, sep) ELSE LeadingText(v, i, sep)]
  <2>1. f[v] = IF v < 100 THEN first[v] ELSE on(f[down[v]], v)
    BY <1>9
  <2>2. CASE v < 100
    <3>1. f[v] = [i \in Nat |-> lead(v, i)]
      BY <1>6, <2>1, <2>2
    <3>2. [i \in Nat |-> lead(v, i)] = [i \in Nat |-> LeadingText(v, i, sep)]
      BY <2>2 DEF lead
    <3> QED
      BY <2>2, <3>1, <3>2
  <2>3. CASE v >= 100
    <3> DEFINE q == v \div 100
    <3>1. q \in Nat
      BY Tens
    <3>7. down[v] = v \div 100
      BY <1>6
    <3>4. down[v] = q /\ ~(v < 100)
      BY <2>3, <3>7
    <3> HIDE DEF q
    <3>5. f[q] \in T
      BY <3>1
    <3>2. f[v] = on(f[q], v) /\ f[q] \in T
      BY <2>1, <3>4, <3>5
    <3>3. f[v] = [i \in Nat |-> two(f[q], v, i)]
      BY <1>7, <3>2
    <3>6. [i \in Nat |-> two(f[q], v, i)] = [i \in Nat |-> TwoBehind(f[q][i + 2], v, i, sep)]
      BY DEF two
    <3> QED
      BY <2>3, <3>3, <3>6 DEF q
  <2> QED
    BY <2>2, <2>3
<1>11. DecimalTextOf(f, sep)
  <2>1. f = [v \in Nat |-> f[v]]
    OBVIOUS
  <2> QED
    BY <1>10, <2>1 DEF DecimalTextOf
<1> QED
  BY <1>11

LEMMA LeadingReads ==
  ASSUME NEW v \in 0 .. 99, NEW index \in Nat, NEW sep, NEW skipped, Separating(sep, skipped)
  PROVE  \E k : Decimal(LeadingText(v, index, sep), v, k, index, sep, skipped)
<1>1. CASE v < 10
  <2>1. v \in 0 .. 9 /\ LeadingText(v, index, sep) = <<DigitChars[v + 1]>>
    BY <1>1 DEF LeadingText
  <2>2. Decimal(<<DigitChars[v + 1]>>, v, 1, index, sep, skipped)
    BY <2>1, LeadingDigit
  <2> QED
    BY <2>1, <2>2
<1>2. CASE v >= 10
  <2> DEFINE q == v \div 10
             d == v % 10
             t == <<DigitChars[q + 1]>>
             i == index + 1
  <2>1. q \in 0 .. 9 /\ q \in Nat /\ q > 0 /\ d \in 0 .. 9 /\ v = q * 10 + d /\ i \in Nat
    BY <1>2, Tens
  <2>2. LeadingText(v, index, sep) = t \o Put(d, index, sep)
    BY <1>2 DEF LeadingText
  <2>3. Decimal(t, q, 1, i, sep, skipped)
    <3> HIDE DEF q, i
    <3> QED
      BY <2>1, LeadingDigit
  <2> HIDE DEF q, d, t
  <2>4. Decimal(t \o Put(d, index, sep), q * 10 + d, 1 + 1, index, sep, skipped)
    BY <2>1, <2>3, PutBehind
  <2> QED
    BY <2>1, <2>2, <2>4
<1> QED
  BY <1>1, <1>2

LEMMA TwoBehindRead ==
  ASSUME NEW v \in Nat, v >= 100, NEW index \in Nat, NEW sep, NEW skipped, Separating(sep, skipped),
         NEW t, NEW k, Decimal(t, v \div 100, k, index + 2, sep, skipped)
  PROVE  \E l : Decimal(TwoBehind(t, v, index, sep), v, l, index, sep, skipped)
<1> DEFINE p == v \div 100
           d == (v \div 10) % 10
           e == v % 10
           i == index + 1
           q == p * 10 + d
           u == t \o Put(d, i, sep)
<1>1. /\ p \in Nat /\ p > 0 /\ d \in 0 .. 9 /\ e \in 0 .. 9 /\ v = q * 10 + e
      /\ i \in Nat /\ i + 1 = index + 2 /\ i = index + 1
  BY Tens
<1>2. TwoBehind(t, v, index, sep) = u \o Put(e, index, sep)
  BY DEF TwoBehind
<1>3. Decimal(t, p, k, i + 1, sep, skipped)
  BY <1>1
<1>4. q \in Nat /\ q > 0
  <2> HIDE DEF p, d
  <2> QED
    BY <1>1
<1> HIDE DEF p, d, e, i
<1>5. Decimal(u, q, k + 1, i, sep, skipped)
  BY <1>1, <1>3, PutBehind
<1> HIDE DEF q, u
<1>6. Decimal(u \o Put(e, index, sep), q * 10 + e, (k + 1) + 1, index, sep, skipped)
  BY <1>1, <1>4, <1>5, PutBehind
<1> QED
  BY <1>1, <1>2, <1>6

\* A decimal number: as long as its digits and separators take, these where they belong.
LEMMA DecimalReads ==
  ASSUME NEW v \in Nat, NEW sep, NEW skipped, Separating(sep, skipped)
  PROVE  \E k : Decimal(DecimalFrom(v, sep), v, k, 0, sep, skipped)
<1> DEFINE F == CHOOSE f : DecimalTextOf(f, sep)
           Read(m) == \A i \in Nat : \E k : Decimal(F[m][i], m, k, i, sep, skipped)
           S == {m \in Nat : Read(m)}
<1>0. DecimalTextOf(F, sep)
  BY DecimalTextExists DEF Separating
<1>1. DecimalFrom(v, sep) = F[v][0]
  BY DEF DecimalFrom, DecimalTextOf, TwoBehind, LeadingText
<1> HIDE DEF F
<1>2. \A m, i \in Nat : F[m][i] = IF m >= 100 THEN TwoBehind(F[m \div 100][i + 2], m, i, sep) ELSE LeadingText(m, i, sep)
  BY <1>0 DEF DecimalTextOf
<1>3. ASSUME NEW m \in Nat, \A l \in 0 .. m - 1 : l \in S
      PROVE  m \in S
  <2>1. ASSUME NEW i \in Nat
        PROVE  \E k : Decimal(F[m][i], m, k, i, sep, skipped)
    <3>1. CASE m < 100
      <4>1. F[m][i] = LeadingText(m, i, sep) /\ m \in 0 .. 99
        BY <1>2, <3>1
      <4> QED
        BY <4>1, LeadingReads
    <3>2. CASE m >= 100
      <4> DEFINE p == m \div 100
                 j == i + 2
      <4>1. p \in 0 .. m - 1 /\ j \in Nat
        BY <3>2, Quotients
      <4>2. F[m][i] = TwoBehind(F[p][j], m, i, sep)
        BY <1>2, <3>2
      <4>3. PICK k : Decimal(F[p][j], p, k, j, sep, skipped)
        <5> HIDE DEF p, j
        <5>1. p \in S
          BY <1>3, <4>1
        <5> QED
          BY <4>1, <5>1
      <4>4. \E l : Decimal(TwoBehind(F[p][j], m, i, sep), m, l, i, sep, skipped)
        BY <3>2, <4>3, TwoBehindRead
      <4> QED
        BY <4>2, <4>4
    <3> QED
      BY <3>1, <3>2
  <2> QED
    BY <2>1
<1> HIDE DEF S
<1>4. S = Nat
  <2>1. S \in SUBSET Nat
    BY DEF S
  <2> QED
    BY <1>3, <2>1, StrongInduction
<1>5. Read(v)
  BY <1>4 DEF S
<1> QED
  BY <1>1, <1>5

-----------------------------------------------------------------------------
(* How many decimal digits.                                                *)

LEMMA NextPowers ==
  ASSUME NEW n \in Nat, NEW x \in Nat, NEW y \in Nat
  PROVE  /\ TwoTo[n] = x => /\ TwoTo[n + 1] = 2 * x /\ TwoTo[n + 3] = 8 * x /\ TwoTo[n + 4] = 16 * x
         /\ TenTo[n] = y => TenTo[n + 1] = 10 * y
<1>1. ASSUME NEW m \in Nat
      PROVE  TwoTo[m + 1] = 2 * TwoTo[m] /\ TenTo[m + 1] = 10 * TenTo[m]
  <2>1. m + 1 \in Nat /\ m + 1 # 0 /\ (m + 1) - 1 = m
    OBVIOUS
  <2> QED
    BY <2>1, PowersAre
<1>2. TwoTo[n + 1] = 2 * TwoTo[n] /\ TenTo[n + 1] = 10 * TenTo[n]
  BY <1>1
<1>3. TwoTo[(n + 1) + 1] = 2 * TwoTo[n + 1] /\ TwoTo[(n + 2) + 1] = 2 * TwoTo[n + 2] /\ TwoTo[(n + 3) + 1] = 2 * TwoTo[n + 3]
  BY <1>1
<1>4. (n + 1) + 1 = n + 2 /\ (n + 2) + 1 = n + 3 /\ (n + 3) + 1 = n + 4
  OBVIOUS
<1> QED
  BY <1>2, <1>3, <1>4

\* The powers of two at which the number of decimal digits may change.
LEMMA PowersOfTwo ==
  /\ TwoTo[0] = 1
  /\ TwoTo[3] = 8
  /\ TwoTo[6] = 64
  /\ TwoTo[9] = 512
  /\ TwoTo[13] = 8192
  /\ TwoTo[16] = 65536
  /\ TwoTo[19] = 524288
  /\ TwoTo[23] = 8388608
  /\ TwoTo[26] = 67108864
  /\ TwoTo[29] = 536870912
  /\ TwoTo[33] = 8589934592
  /\ TwoTo[36] = 68719476736
  /\ TwoTo[39] = 549755813888
  /\ TwoTo[43] = 8796093022208
  /\ TwoTo[46] = 70368744177664
  /\ TwoTo[49] = 562949953421312
  /\ TwoTo[53] = 9007199254740992
  /\ TwoTo[56] = 72057594037927936
  /\ TwoTo[59] = 576460752303423488
  /\ TwoTo[63] = 16 * TwoTo[59]
  /\ TwoTo[64] = 2 * TwoTo[63]
<1>0. TwoTo[0] = 1
  BY SmallPowers
<1>1. TwoTo[3] = 8
  <2>1. TwoTo[0 + 3] = 8 * 1
    BY <1>0, NextPowers, SMT
  <2> QED
    BY <2>1, SMT
<1>2. TwoTo[6] = 64
  <2>1. TwoTo[3 + 3] = 8 * 8
    BY <1>1, NextPowers, SMT
  <2> QED
    BY <2>1, SMT
<1>3. TwoTo[9] = 512
  <2>1. TwoTo[6 + 3] = 8 * 64
    BY <1>2, NextPowers, SMT
  <2> QED
    BY <2>1, SMT
<1>4. TwoTo[13] = 8192
  <2>1. TwoTo[9 + 4] = 16 * 512
    BY <1>3, NextPowers, SMT
  <2> QED
    BY <2>1, SMT
<1>5. TwoTo[16] = 65536
  <2>1. TwoTo[13 + 3] = 8 * 8192
    BY <1>4, NextPowers, SMT
  <2> QED
    BY <2>1, SMT
<1>6. TwoTo[19] = 524288
  <2>1. TwoTo[16 + 3] = 8 * 65536
    BY <1>5, NextPowers, SMT
  <2> QED
    BY <2>1, SMT
<1>7. TwoTo[23] = 8388608
  <2>1. TwoTo[19 + 4] = 16 * 524288
    BY <1>6, NextPowers, SMT
  <2> QED
    BY <2>1, SMT
<1>8. TwoTo[26] = 67108864
  <2>1. TwoTo[23 + 3] = 8 * 8388608
    BY <1>7, NextPowers, SMT
  <2> QED
    BY <2>1, SMT
<1>9. TwoTo[29] = 536870912
  <2>1. TwoTo[26 + 3] = 8 * 67108864
    BY <1>8, NextPowers, SMT
  <2> QED
    BY <2>1, SMT
<1>10. TwoTo[33] = 8589934592
  <2>1. TwoTo[29 + 4] = 16 * 536870912
    BY <1>9, NextPowers, SMT
  <2> QED
    BY <2>1, SMT
<1>11. TwoTo[36] = 68719476736
  <2>1. TwoTo[33 + 3] = 8 * 8589934592
    BY <1>10, NextPowers, SMT
  <2> QED
    BY <2>1, SMT
<1>12. TwoTo[39] = 549755813888
  <2>1. TwoTo[36 + 3] = 8 * 68719476736
    BY <1>11, NextPowers, SMT
  <2> QED
    BY <2>1, SMT
<1>13. TwoTo[43] = 8796093022208
  <2>1. TwoTo[39 + 4] = 16 * 549755813888
    BY <1>12, NextPowers, SMT
  <2> QED
    BY <2>1, SMT
<1>14. TwoTo[46] = 70368744177664
  <2>1. TwoTo[43 + 3] = 8 * 8796093022208
    BY <1>13, NextPowers, SMT
  <2> QED
    BY <2>1, SMT
<1>15. TwoTo[49] = 562949953421312
  <2>1. TwoTo[46 + 3] = 8 * 70368744177664
    BY <1>14, NextPowers, SMT
  <2> QED
    BY <2>1, SMT
<1>16. TwoTo[53] = 9007199254740992
  <2>1. TwoTo[49 + 4] = 16 * 562949953421312
    BY <1>15, NextPowers, SMT
  <2> QED
    BY <2>1, SMT
<1>17. TwoTo[56] = 72057594037927936
  <2>1. TwoTo[53 + 3] = 8 * 9007199254740992
    BY <1>16, NextPowers, SMT
  <2> QED
    BY <2>1, SMT
<1>18. TwoTo[59] = 576460752303423488
  <2>1. TwoTo[56 + 3] = 8 * 72057594037927936
    BY <1>17, NextPowers, SMT
  <2> QED
    BY <2>1, SMT
<1>19. TwoTo[63] = 16 * TwoTo[59]
  <2>1. TwoTo[59] \in Nat
    BY PowerIsNumber
  <2>2. TwoTo[59 + 4] = 16 * TwoTo[59]
    BY <2>1, NextPowers, SMT
  <2> QED
    BY <2>2, SMT
<1>20. TwoTo[64] = 2 * TwoTo[63]
  <2>1. TwoTo[63] \in Nat
    BY PowerIsNumber
  <2>2. TwoTo[63 + 1] = 2 * TwoTo[63]
    BY <2>1, NextPowers, SMT
  <2> QED
    BY <2>2, SMT
<1> QED
  BY <1>0, <1>1, <1>2, <1>3, <1>4, <1>5, <1>6, <1>7, <1>8, <1>9, <1>10, <1>11, <1>12, <1>13, <1>14, <1>15, <1>16, <1>17, <1>18, <1>19, <1>20, SMT

LEMMA PowersOfTen ==
  /\ TenTo[0] = 1
  /\ TenTo[1] = 10
  /\ TenTo[2] = 100
  /\ TenTo[3] = 1000
  /\ TenTo[4] = 10000
  /\ TenTo[5] = 100000
  /\ TenTo[6] = 1000000
  /\ TenTo[7] = 10000000
  /\ TenTo[8] = 100000000
  /\ TenTo[9] = 1000000000
  /\ TenTo[10] = 10000000000
  /\ TenTo[11] = 100000000000
  /\ TenTo[12] = 1000000000000
  /\ TenTo[13] = 10000000000000
  /\ TenTo[14] = 100000000000000
  /\ TenTo[15] = 1000000000000000
  /\ TenTo[16] = 10000000000000000
  /\ TenTo[17] = 100000000000000000
  /\ TenTo[18] = 1000000000000000000
  /\ TenTo[19] = 10 * TenTo[18]
  /\ TenTo[20] = 10 * TenTo[19]
<1>0. TenTo[0] = 1
  BY SmallPowers
<1>1. TenTo[1] = 10
  <2>1. TenTo[0 + 1] = 10 * 1
    BY <1>0, NextPowers, SMT
  <2> QED
    BY <2>1, SMT
<1>2. TenTo[2] = 100
  <2>1. TenTo[1 + 1] = 10 * 10
    BY <1>1, NextPowers, SMT
  <2> QED
    BY <2>1, SMT
<1>3. TenTo[3] = 1000
  <2>1. TenTo[2 + 1] = 10 * 100
    BY <1>2, NextPowers, SMT
  <2> QED
    BY <2>1, SMT
<1>4. TenTo[4] = 10000
  <2>1. TenTo[3 + 1] = 10 * 1000
    BY <1>3, NextPowers, SMT
  <2> QED
    BY <2>1, SMT
<1>5. TenTo[5] = 100000
  <2>1. TenTo[4 + 1] = 10 * 10000
    BY <1>4, NextPowers, SMT
  <2> QED
    BY <2>1, SMT
<1>6. TenTo[6] = 1000000
  <2>1. TenTo[5 + 1] = 10 * 100000
    BY <1>5, NextPowers, SMT
  <2> QED
    BY <2>1, SMT
<1>7. TenTo[7] = 10000000
  <2>1. TenTo[6 + 1] = 10 * 1000000
    BY <1>6, NextPowers, SMT
  <2> QED
    BY <2>1, SMT
<1>8. TenTo[8] = 100000000
  <2>1. TenTo[7 + 1] = 10 * 10000000
    BY <1>7, NextPowers, SMT
  <2> QED
    BY <2>1, SMT
<1>9. TenTo[9] = 1000000000
  <2>1. TenTo[8 + 1] = 10 * 100000000
    BY <1>8, NextPowers, SMT
  <2> QED
    BY <2>1, SMT
<1>10. TenTo[10] = 10000000000
  <2>1. TenTo[9 + 1] = 10 * 1000000000
    BY <1>9, NextPowers, SMT
  <2> QED
    BY <2>1, SMT
<1>11. TenTo[11] = 100000000000
  <2>1. TenTo[10 + 1] = 10 * 10000000000
    BY <1>10, NextPowers, SMT
  <2> QED
    BY <2>1, SMT
<1>12. TenTo[12] = 1000000000000
  <2>1. TenTo[11 + 1] = 10 * 100000000000
    BY <1>11, NextPowers, SMT
  <2> QED
    BY <2>1, SMT
<1>13. TenTo[13] = 10000000000000
  <2>1. TenTo[12 + 1] = 10 * 1000000000000
    BY <1>12, NextPowers, SMT
  <2> QED
    BY <2>1, SMT
<1>14. TenTo[14] = 100000000000000
  <2>1. TenTo[13 + 1] = 10 * 10000000000000
    BY <1>13, NextPowers, SMT
  <2> QED
    BY <2>1, SMT
<1>15. TenTo[15] = 1000000000000000
  <2>1. TenTo[14 + 1] = 10 * 100000000000000
    BY <1>14, NextPowers, SMT
  <2> QED
    BY <2>1, SMT
<1>16. TenTo[16] = 10000000000000000
  <2>1. TenTo[15 + 1] = 10 * 1000000000000000
    BY <1>15, NextPowers, SMT
  <2> QED
    BY <2>1, SMT
<1>17. TenTo[17] = 100000000000000000
  <2>1. TenTo[16 + 1] = 10 * 10000000000000000
    BY <1>16, NextPowers, SMT
  <2> QED
    BY <2>1, SMT
<1>18. TenTo[18] = 1000000000000000000
  <2>1. TenTo[17 + 1] = 10 * 100000000000000000
    BY <1>17, NextPowers, SMT
  <2> QED
    BY <2>1, SMT
<1>19. TenTo[19] = 10 * TenTo[18]
  <2>1. TenTo[18] \in Nat
    BY PowerIsNumber
  <2>2. TenTo[18 + 1] = 10 * TenTo[18]
    BY <2>1, NextPowers, SMT
  <2> QED
    BY <2>2, SMT
<1>20. TenTo[20] = 10 * TenTo[19]
  <2>1. TenTo[19] \in Nat
    BY PowerIsNumber
  <2>2. TenTo[19 + 1] = 10 * TenTo[19]
    BY <2>1, NextPowers, SMT
  <2> QED
    BY <2>2, SMT
<1> QED
  BY <1>0, <1>1, <1>2, <1>3, <1>4, <1>5, <1>6, <1>7, <1>8, <1>9, <1>10, <1>11, <1>12, <1>13, <1>14, <1>15, <1>16, <1>17, <1>18, <1>19, <1>20, SMT

\* With b bits a number has as many decimal digits as the table says, or one fewer.
DigitsFor(b, t) == TwoTo[b] <= TenTo[t + 1] /\ (t > 0 => TenTo[t - 1] <= TwoTo[b - 1])

LEMMA WithinBits ==
  ASSUME NEW low \in Nat, NEW high \in Nat, low >= 1, NEW t \in Nat,
         TwoTo[high] <= TenTo[t + 1], t > 0 => TenTo[t - 1] <= TwoTo[low - 1],
         NEW b \in low .. high
  PROVE  DigitsFor(b, t)
<1>1. b \in Nat /\ b \in 0 .. high /\ b - 1 \in Nat /\ low - 1 \in Nat /\ low - 1 \in 0 .. b - 1 /\ t + 1 \in Nat
      /\ (t > 0 => t - 1 \in Nat)
  OBVIOUS
<1>2. TwoTo[b] <= TwoTo[high] /\ TwoTo[low - 1] <= TwoTo[b - 1]
  BY <1>1, PowersGrow
<1>3. TwoTo[b] \in Nat /\ TwoTo[high] \in Nat /\ TwoTo[low - 1] \in Nat /\ TwoTo[b - 1] \in Nat /\ TenTo[t + 1] \in Nat
      /\ (t > 0 => TenTo[t - 1] \in Nat)
  BY <1>1, PowerIsNumber
<1> QED
  BY <1>2, <1>3 DEF DigitsFor

LEMMA DigitsOfBits ==
  ASSUME NEW b \in 1 .. 64
  PROVE  DigitsFor(b, (b * 1233) \div 4096)
<1>1. CASE b \in 1 .. 3
  <2>1. (b * 1233) \div 4096 = 0
    BY <1>1
  <2>2. TwoTo[3] <= TenTo[1]
    BY PowersOfTwo, PowersOfTen, SMTT(30)
  <2>3. DigitsFor(b, 0)
    BY <1>1, <2>2, WithinBits
  <2> QED
    BY <2>1, <2>3
<1>2. CASE b \in 4 .. 6
  <2>1. (b * 1233) \div 4096 = 1
    BY <1>2
  <2>2. TwoTo[6] <= TenTo[2] /\ TenTo[0] <= TwoTo[3]
    BY PowersOfTwo, PowersOfTen, SMTT(30)
  <2>3. DigitsFor(b, 1)
    BY <1>2, <2>2, WithinBits
  <2> QED
    BY <2>1, <2>3
<1>3. CASE b \in 7 .. 9
  <2>1. (b * 1233) \div 4096 = 2
    BY <1>3
  <2>2. TwoTo[9] <= TenTo[3] /\ TenTo[1] <= TwoTo[6]
    BY PowersOfTwo, PowersOfTen, SMTT(30)
  <2>3. DigitsFor(b, 2)
    BY <1>3, <2>2, WithinBits
  <2> QED
    BY <2>1, <2>3
<1>4. CASE b \in 10 .. 13
  <2>1. (b * 1233) \div 4096 = 3
    BY <1>4
  <2>2. TwoTo[13] <= TenTo[4] /\ TenTo[2] <= TwoTo[9]
    BY PowersOfTwo, PowersOfTen, SMTT(30)
  <2>3. DigitsFor(b, 3)
    BY <1>4, <2>2, WithinBits
  <2> QED
    BY <2>1, <2>3
<1>5. CASE b \in 14 .. 16
  <2>1. (b * 1233) \div 4096 = 4
    BY <1>5
  <2>2. TwoTo[16] <= TenTo[5] /\ TenTo[3] <= TwoTo[13]
    BY PowersOfTwo, PowersOfTen, SMTT(30)
  <2>3. DigitsFor(b, 4)
    BY <1>5, <2>2, WithinBits
  <2> QED
    BY <2>1, <2>3
<1>6. CASE b \in 17 .. 19
  <2>1. (b * 1233) \div 4096 = 5
    BY <1>6
  <2>2. TwoTo[19] <= TenTo[6] /\ TenTo[4] <= TwoTo[16]
    BY PowersOfTwo, PowersOfTen, SMTT(30)
  <2>3. DigitsFor(b, 5)
    BY <1>6, <2>2, WithinBits
  <2> QED
    BY <2>1, <2>3
<1>7. CASE b \in 20 .. 23
  <2>1. (b * 1233) \div 4096 = 6
    BY <1>7
  <2>2. TwoTo[23] <= TenTo[7] /\ TenTo[5] <= TwoTo[19]
    BY PowersOfTwo, PowersOfTen, SMTT(30)
  <2>3. DigitsFor(b, 6)
    BY <1>7, <2>2, WithinBits
  <2> QED
    BY <2>1, <2>3
<1>8. CASE b \in 24 .. 26
  <2>1. (b * 1233) \div 4096 = 7
    BY <1>8
  <2>2. TwoTo[26] <= TenTo[8] /\ TenTo[6] <= TwoTo[23]
    BY PowersOfTwo, PowersOfTen, SMTT(30)
  <2>3. DigitsFor(b, 7)
    BY <1>8, <2>2, WithinBits
  <2> QED
    BY <2>1, <2>3
<1>9. CASE b \in 27 .. 29
  <2>1. (b * 1233) \div 4096 = 8
    BY <1>9
  <2>2. TwoTo[29] <= TenTo[9] /\ TenTo[7] <= TwoTo[26]
    BY PowersOfTwo, PowersOfTen, SMTT(30)
  <2>3. DigitsFor(b, 8)
    BY <1>9, <2>2, WithinBits
  <2> QED
    BY <2>1, <2>3
<1>10. CASE b \in 30 .. 33
  <2>1. (b * 1233) \div 4096 = 9
    BY <1>10
  <2>2. TwoTo[33] <= TenTo[10] /\ TenTo[8] <= TwoTo[29]
    BY PowersOfTwo, PowersOfTen, SMTT(30)
  <2>3. DigitsFor(b, 9)
    BY <1>10, <2>2, WithinBits
  <2> QED
    BY <2>1, <2>3
<1>11. CASE b \in 34 .. 36
  <2>1. (b * 1233) \div 4096 = 10
    BY <1>11
  <2>2. TwoTo[36] <= TenTo[11] /\ TenTo[9] <= TwoTo[33]
    BY PowersOfTwo, PowersOfTen, SMTT(30)
  <2>3. DigitsFor(b, 10)
    BY <1>11, <2>2, WithinBits
  <2> QED
    BY <2>1, <2>3
<1>12. CASE b \in 37 .. 39
  <2>1. (b * 1233) \div 4096 = 11
    BY <1>12
  <2>2. TwoTo[39] <= TenTo[12] /\ TenTo[10] <= TwoTo[36]
    BY PowersOfTwo, PowersOfTen, SMTT(30)
  <2>3. DigitsFor(b, 11)
    BY <1>12, <2>2, WithinBits
  <2> QED
    BY <2>1, <2>3
<1>13. CASE b \in 40 .. 43
  <2>1. (b * 1233) \div 4096 = 12
    BY <1>13
  <2>2. TwoTo[43] <= TenTo[13] /\ TenTo[11] <= TwoTo[39]
    BY PowersOfTwo, PowersOfTen, SMTT(30)
  <2>3. DigitsFor(b, 12)
    BY <1>13, <2>2, WithinBits
  <2> QED
    BY <2>1, <2>3
<1>14. CASE b \in 44 .. 46
  <2>1. (b * 1233) \div 4096 = 13
    BY <1>14
  <2>2. TwoTo[46] <= TenTo[14] /\ TenTo[12] <= TwoTo[43]
    BY PowersOfTwo, PowersOfTen, SMTT(30)
  <2>3. DigitsFor(b, 13)
    BY <1>14, <2>2, WithinBits
  <2> QED
    BY <2>1, <2>3
<1>15. CASE b \in 47 .. 49
  <2>1. (b * 1233) \div 4096 = 14
    BY <1>15
  <2>2. TwoTo[49] <= TenTo[15] /\ TenTo[13] <= TwoTo[46]
    BY PowersOfTwo, PowersOfTen, SMTT(30)
  <2>3. DigitsFor(b, 14)
    BY <1>15, <2>2, WithinBits
  <2> QED
    BY <2>1, <2>3
<1>16. CASE b \in 50 .. 53
  <2>1. (b * 1233) \div 4096 = 15
    BY <1>16
  <2>2. TwoTo[53] <= TenTo[16] /\ TenTo[14] <= TwoTo[49]
    BY PowersOfTwo, PowersOfTen, SMTT(30)
  <2>3. DigitsFor(b, 15)
    BY <1>16, <2>2, WithinBits
  <2> QED
    BY <2>1, <2>3
<1>17. CASE b \in 54 .. 56
  <2>1. (b * 1233) \div 4096 = 16
    BY <1>17
  <2>2. TwoTo[56] <= TenTo[17] /\ TenTo[15] <= TwoTo[53]
    BY PowersOfTwo, PowersOfTen, SMTT(30)
  <2>3. DigitsFor(b, 16)
    BY <1>17, <2>2, WithinBits
  <2> QED
    BY <2>1, <2>3
<1>18. CASE b \in 57 .. 59
  <2>1. (b * 1233) \div 4096 = 17
    BY <1>18
  <2>2. TwoTo[59] <= TenTo[18] /\ TenTo[16] <= TwoTo[56]
    BY PowersOfTwo, PowersOfTen, SMTT(30)
  <2>3. DigitsFor(b, 17)
    BY <1>18, <2>2, WithinBits, SMTT(30)
  <2> QED
    BY <2>1, <2>3
<1>19. CASE b \in 60 .. 63
  <2>1. (b * 1233) \div 4096 = 18
    BY <1>19
  <2>2. TwoTo[63] <= TenTo[19] /\ TenTo[17] <= TwoTo[59]
    BY PowersOfTwo, PowersOfTen, SMTT(30)
  <2>3. DigitsFor(b, 18)
    BY <1>19, <2>2, WithinBits
  <2> QED
    BY <2>1, <2>3
<1>20. CASE b \in 64 .. 64
  <2>1. (b * 1233) \div 4096 = 19
    BY <1>20
  <2>2. TwoTo[64] <= TenTo[20] /\ TenTo[18] <= TwoTo[63]
    <3> DEFINE x == TwoTo[59]
               y == TenTo[18]
    <3>1. TwoTo[64] = 2 * TwoTo[63] /\ TwoTo[63] = 16 * x
      BY PowersOfTwo, SMT
    <3>2. TenTo[20] = 10 * TenTo[19] /\ TenTo[19] = 10 * y
      BY PowersOfTen, SMT
    <3>3. x = 576460752303423488 /\ y = 1000000000000000000
      BY PowersOfTwo, PowersOfTen, SMTT(30)
    <3>4. x \in Nat /\ y \in Nat /\ x <= y /\ y <= x + x
      BY <3>3, SMT
    <3> HIDE DEF x, y
    <3>5. TwoTo[64] = 32 * x /\ TenTo[20] = 100 * y
      BY <3>1, <3>2, <3>4, SMT
    <3>6. y <= TwoTo[63] /\ TwoTo[64] <= TenTo[20]
      BY <3>1, <3>4, <3>5, SMT
    <3> QED
      BY <3>6 DEF y
  <2>3. DigitsFor(b, 19)
    BY <1>20, <2>2, WithinBits
  <2> QED
    BY <2>1, <2>3
<1> QED
  BY <1>1, <1>2, <1>3, <1>4, <1>5, <1>6, <1>7, <1>8, <1>9, <1>10, <1>11, <1>12, <1>13, <1>14, <1>15, <1>16, <1>17, <1>18, <1>19, <1>20

\* count_digits finds the number of decimal digits of every number that fits in a word.
LEMMA BitLengthIs ==
  ASSUME NEW n \in Nat, n >= 1, n < Word
  PROVE  /\ BitLength(n) \in 1 .. WordBits
         /\ TwoTo[BitLength(n) - 1] <= n /\ n < TwoTo[BitLength(n)]
<1> DEFINE S == {b \in Nat : n < TwoTo[b]}
<1>0. WordBits \in Nat /\ WordBits \in S
  BY FormatValueAssumption DEF Word
<1>1. PICK b \in S : \A c \in S : b <= c
  <2> HIDE DEF S
  <2>1. S \in SUBSET Nat
    BY DEF S
  <2> QED
    BY <1>0, <2>1, LeastNumber
<1>2. b \in Nat /\ b <= WordBits /\ n < TwoTo[b]
  BY <1>0, <1>1
<1>3. b # 0
  BY <1>2, SmallPowers
<1>4. b - 1 \in Nat /\ b - 1 \notin S
  BY <1>1, <1>2, <1>3
<1>5. TwoTo[b - 1] <= n
  BY <1>4, PowerIsNumber
<1>6. b \in 1 .. WordBits
  BY <1>0, <1>2, <1>3
<1> QED
  BY <1>2, <1>5, <1>6 DEF BitLength

LEMMA EvenPowers ==
  ASSUME NEW b \in Nat, b >= 1, NEW n \in Nat
  PROVE  /\ n % 2 # 0 /\ TwoTo[b] <= n => TwoTo[b] <= n - 1
         /\ n % 2 = 0 /\ n < TwoTo[b] => n + 1 < TwoTo[b]
<1> DEFINE h == TwoTo[b - 1]
<1>1. TwoTo[b] = 2 * h
  BY PowersAre
<1>2. h \in Nat
  <2>1. b - 1 \in Nat
    OBVIOUS
  <2> QED
    BY <2>1, PowerIsNumber
<1> HIDE DEF h
<1>3. (n % 2 # 0 /\ 2 * h <= n => 2 * h <= n - 1) /\ (n % 2 = 0 /\ n < 2 * h => n + 1 < 2 * h)
  BY <1>2
<1> QED
  BY <1>1, <1>3

LEMMA DecimalsCounted ==
  ASSUME NEW n \in Nat, n < Word
  PROVE  HasDigits(n, CountDecimals(n))
<1> DEFINE odd == IF n % 2 = 0 THEN n + 1 ELSE n
           b == BitLength(odd)
           t == (b * 1233) \div 4096
<1>1. WordBits \in 2 .. 64 /\ Word = TwoTo[WordBits] /\ WordBits \in Nat /\ WordBits >= 1
  BY FormatValueAssumption DEF Word
<1>2. odd \in Nat /\ odd >= 1 /\ odd % 2 # 0 /\ n <= odd /\ odd - 1 <= n
  OBVIOUS
<1>3. odd < Word
  BY <1>1, EvenPowers
<1> HIDE DEF odd
<1>4. b \in 1 .. WordBits /\ TwoTo[b - 1] <= odd /\ odd < TwoTo[b]
  BY <1>2, <1>3, BitLengthIs
<1>5. b \in 1 .. 64
  BY <1>1, <1>4
<1>6. CountDecimals(n) = t + 1 - (IF t > 0 /\ n < TenTo[t] THEN 1 ELSE 0)
  BY DEF CountDecimals, odd
<1> HIDE DEF b
<1>7. DigitsFor(b, t) /\ t \in Nat /\ (t > 0 => b >= 4)
  BY <1>5, DigitsOfBits
<1> HIDE DEF t
<1>8. /\ TwoTo[b] <= TenTo[t + 1] /\ (t > 0 => TenTo[t - 1] <= TwoTo[b - 1])
      /\ TwoTo[b] \in Nat /\ TenTo[t + 1] \in Nat /\ TwoTo[b - 1] \in Nat /\ TenTo[t] \in Nat
      /\ t > 0 => t - 1 \in Nat /\ TenTo[t - 1] \in Nat
  <2>1. b \in Nat /\ b - 1 \in Nat /\ t + 1 \in Nat /\ t \in Nat /\ (t > 0 => t - 1 \in Nat)
    BY <1>5, <1>7
  <2> QED
    BY <1>7, <2>1, PowerIsNumber DEF DigitsFor
<1>9. n < TenTo[t + 1]
  BY <1>2, <1>4, <1>8
<1>10. CASE t > 0 /\ n < TenTo[t]
  <2>1. CountDecimals(n) = t
    BY <1>6, <1>7, <1>10
  <2>2. t > 1 => n >= TenTo[t - 1]
    <3>1. TwoTo[b - 1] <= odd - 1
      <4>1. b - 1 \in Nat /\ b - 1 >= 1
        BY <1>5, <1>7, <1>10
      <4> QED
        BY <1>2, <1>4, <4>1, EvenPowers
    <3> QED
      BY <1>2, <1>8, <1>10, <3>1
  <2> QED
    BY <1>7, <1>10, <2>1, <2>2 DEF HasDigits
<1>11. CASE ~(t > 0 /\ n < TenTo[t])
  <2>1. CountDecimals(n) = t + 1 /\ (t + 1) - 1 = t
    BY <1>6, <1>7, <1>11
  <2>2. t > 0 => n >= TenTo[t]
    BY <1>8, <1>11
  <2> QED
    BY <1>7, <1>9, <2>1, <2>2 DEF HasDigits
<1> QED
  BY <1>10, <1>11

-----------------------------------------------------------------------------
(* Words, and digits behind zeros.                                         *)

\* The values that a word holds, with a sign or without.
WordValues == (0 - TwoTo[WordBits - 1]) .. (Word - 1)

LEMMA WordIs == Word \in Nat /\ TwoTo[WordBits - 1] \in Nat /\ Word = 2 * TwoTo[WordBits - 1] /\ TwoTo[WordBits - 1] >= 1
<1>1. WordBits \in Nat /\ WordBits # 0 /\ WordBits - 1 \in Nat
  BY FormatValueAssumption
<1>2. TwoTo[WordBits - 1] \in Nat /\ TwoTo[WordBits - 1] > 0
  BY <1>1, PowersGrow
<1>3. Word = 2 * TwoTo[WordBits - 1]
  BY <1>1, PowersAre DEF Word
<1> QED
  BY <1>2, <1>3

\* The remainder of a number just below zero.
LEMMA Wrapped ==
  ASSUME NEW w \in Nat, NEW a \in Int, 0 - w <= a, a < 0
  PROVE  a % w = a + w
<1> DEFINE q == a \div w
           r == a % w
<1>1. w > 0 /\ a = w * q + r /\ q \in Int /\ r \in 0 .. w - 1
  OBVIOUS
<1> HIDE DEF q, r
<1>2. q = 0 - 1
  <2>1. q < 0
    <3> SUFFICES ASSUME q >= 0
                 PROVE  FALSE
      BY <1>1
    <3>1. w * q >= 0
      BY <1>1
    <3> QED
      BY <1>1, <3>1
  <2>2. q > 0 - 2
    <3> SUFFICES ASSUME q <= 0 - 2
                 PROVE  FALSE
      BY <1>1
    <3> DEFINE p == 0 - q - 2
    <3>1. p \in Nat /\ q = 0 - 2 - p
      BY <1>1
    <3>2. w * q = 0 - 2 * w - w * p /\ w * p >= 0
      BY <1>1, <3>1
    <3> QED
      BY <1>1, <3>2
  <2> QED
    BY <1>1, <2>1, <2>2
<1>3. w * q = 0 - w
  BY <1>2
<1>4. r = a + w
  BY <1>1, <1>3
<1> QED
  BY <1>4 DEF r

LEMMA AbsValueIs ==
  ASSUME NEW value \in WordValues
  PROVE  AbsValue(value) = Magnitude(value) /\ Magnitude(value) \in Nat /\ Magnitude(value) < Word
<1>1. value \in Int /\ Word \in Nat /\ 0 - Word <= value /\ value < Word /\ (value < 0 => 0 - value < Word)
  BY WordIs DEF WordValues
<1>2. CASE value < 0
  <2>1. value % Word = value + Word
    BY <1>1, <1>2, Wrapped
  <2> DEFINE m == 0 - (value + Word)
  <2>2. m \in Int /\ 0 - Word <= m /\ m < 0 /\ m + Word = 0 - value
    BY <1>1, <1>2
  <2>3. m % Word = m + Word
    <3> HIDE DEF m
    <3> QED
      BY <1>1, <2>2, Wrapped
  <2>4. AbsValue(value) = m % Word
    BY <1>2, <2>1 DEF AbsValue
  <2>5. Magnitude(value) = 0 - value
    BY <1>1, <1>2 DEF Magnitude
  <2> HIDE DEF m
  <2> QED
    BY <1>1, <1>2, <2>2, <2>3, <2>4, <2>5
<1>3. CASE value >= 0
  BY <1>1, <1>3 DEF AbsValue, Magnitude
<1> QED
  BY <1>1, <1>2, <1>3

-----------------------------------------------------------------------------
(* Texts.                                                                  *)

LEMMA RepeatedText ==
  ASSUME NEW S, NEW c \in S, NEW n \in Nat
  PROVE  IsText(Repeated(c, n), S, n) /\ \A k \in 1 .. n : Repeated(c, n)[k] = c
<1> DEFINE r == Repeated(c, n)
<1>1. r = [k \in 1 .. n |-> c]
  BY DEF Repeated
<1>2. r \in [1 .. n -> S]
  BY <1>1
<1>3. r \in Seq(S) /\ Len(r) = n
  BY <1>1, <1>2, SeqDef
<1> QED
  BY <1>1, <1>3 DEF IsText

LEMMA NoText ==
  ASSUME NEW S
  PROVE  IsText(<< >>, S, 0)
BY DEF IsText

IsSplit(r, s, t, m, n) == SubSeq(r, 1, m) = s /\ SubSeq(r, m + 1, m + n) = t

LEMMA SplitText ==
  ASSUME NEW S, NEW s, NEW t, NEW m, NEW n, IsText(s, S, m), IsText(t, S, n)
  PROVE  IsSplit(s \o t, s, t, m, n)
<1> DEFINE r == s \o t
           p == SubSeq(r, 1, m)
           q == SubSeq(r, m + 1, m + n)
<1>1. m \in Nat /\ n \in Nat /\ s \in Seq(S) /\ t \in Seq(S) /\ Len(s) = m /\ Len(t) = n
  BY DEF IsText
<1>2. IsText(r, S, m + n) /\ Begins(r, s, m) /\ Goes(r, t, m, n)
  BY Joined
<1> HIDE DEF r
<1>3. r \in Seq(S) /\ Len(r) = m + n
  BY <1>2 DEF IsText
<1>4. p = [k \in 1 .. m |-> r[k]]
  BY <1>1, <1>3
<1>5. q = [k \in 1 .. n |-> r[m + k]]
  BY <1>1, <1>3
<1>6. s = [k \in 1 .. m |-> s[k]] /\ t = [k \in 1 .. n |-> t[k]]
  BY <1>1
<1>7. p = s
  BY <1>2, <1>4, <1>6 DEF Begins
<1>8. q = t
  BY <1>2, <1>5, <1>6 DEF Goes
<1> QED
  BY <1>7, <1>8 DEF r, IsSplit

-----------------------------------------------------------------------------
(* Digits behind zeros, or behind what fills the width.                    *)

LEMMA ZeroIsADigit ==
  ASSUME NEW upper \in BOOLEAN
  PROVE  "0" \in DigitsOf(upper) /\ "0" \in HexDigits /\ HexValue("0") = 0
<1>1. BaseDigits(upper)[1] = "0"
  <2>1. BaseDigits(upper)[1] = (IF upper THEN Upper ELSE Lower)[1]
    BY BaseDigitsAre
  <2> QED
    BY <2>1 DEF Upper, Lower
<1>2. BaseDigits(upper)[0 + 1] \in DigitsOf(upper) /\ HexValue(BaseDigits(upper)[0 + 1]) = 0 /\ DigitsOf(upper) \subseteq HexDigits
  BY DigitsOfAre
<1>3. 0 + 1 = 1
  OBVIOUS
<1> QED
  BY <1>1, <1>2, <1>3

Alphabet(upper, skipped) == skipped \cup DigitsOf(upper)
Fills(c, skipped) == c \in skipped \/ c = "0"

FilledWith(c, l, t) == Repeated(c, l) \o t

\* A text that is filled with l characters c.
IsFilled(r, t, c, l, n) == (\A k \in 1 .. l : r[k] = c) /\ (\A k \in 1 .. n : r[l + k] = t[k])

\* What reads v behind characters that are skipped or zeros still reads v.
LEMMA FilledReads ==
  ASSUME NEW upper \in BOOLEAN, NEW skipped, NEW base \in Nat, NEW t, NEW n,
         IsText(t, Alphabet(upper, skipped), n), NEW c, Fills(c, skipped), NEW l \in Nat,
         NEW r, r = FilledWith(c, l, t)
  PROVE  /\ IsText(r, Alphabet(upper, skipped), l + n)
         /\ ValueOfDigits(r, base, skipped) = ValueOfDigits(t, base, skipped)
         /\ IsFilled(r, t, c, l, n)
<1> DEFINE z == Repeated(c, l)
           S == Alphabet(upper, skipped)
           H == skipped \cup HexDigits
<1>0. r = z \o t
  BY DEF FilledWith
<1>1. c \in S /\ S \subseteq H /\ (c \in skipped \/ HexValue(c) = 0)
  BY ZeroIsADigit, DigitsOfAre DEF Fills, Alphabet
<1> HIDE DEF S, H
<1>2. IsText(z, S, l) /\ \A k \in 1 .. l : z[k] = c
  BY <1>1, RepeatedText
<1> HIDE DEF z
<1>3. IsText(t, S, n)
  BY DEF S
<1>4. IsText(r, S, l + n) /\ Begins(r, z, l) /\ Goes(r, t, l, n)
  BY <1>0, <1>2, <1>3, Joined
<1>5. IsText(z, H, l) /\ IsText(t, H, n)
  BY <1>1, <1>2, <1>3, WiderText
<1>6. \A k \in 1 .. l : z[k] \in skipped \/ HexValue(z[k]) = 0
  BY <1>1, <1>2
<1>7. ValueOfDigits(r, base, skipped) = ValueOfDigits(t, base, skipped)
  BY <1>0, <1>5, <1>6, ReadBehind DEF H
<1>8. IsFilled(r, t, c, l, n)
  BY <1>2, <1>4 DEF Begins, Goes, IsFilled
<1> QED
  BY <1>4, <1>7, <1>8 DEF S

\* A body: perhaps a zero for base eight, what fills, and the digits.
Body(a, c, l, digits) == FilledWith("0", a, FilledWith(c, l, digits))

BodyIs(body, digits, a, l, n, skipped) ==
  /\ a + (l + n) >= 1 /\ a + (l + 1) \in 1 .. a + (l + n) /\ body[a + (l + 1)] \notin skipped
  /\ a + l = 0 => body[1] = digits[1]
  /\ a = 1 /\ l = 0 => body[2] = digits[1]

LEMMA BodyReads ==
  ASSUME NEW upper \in BOOLEAN, NEW skipped, Clear(skipped, upper), NEW base \in Nat, NEW v, NEW n, NEW digits,
         Reads(digits, v, n, base, upper, skipped), NEW c, Fills(c, skipped), NEW l \in Nat, NEW a \in 0 .. 1,
         NEW body, body = Body(a, c, l, digits)
  PROVE  /\ IsText(body, Alphabet(upper, skipped), a + (l + n))
         /\ ValueOfDigits(body, base, skipped) = v
         /\ BodyIs(body, digits, a, l, n, skipped)
<1> DEFINE t == FilledWith(c, l, digits)
           S == Alphabet(upper, skipped)
           m == l + n
<1>1. IsText(digits, S, n) /\ n \in Nat /\ n >= 1 /\ ValueOfDigits(digits, base, skipped) = v /\ digits[1] \in DigitsOf(upper)
  BY DEF Reads, IsText, Alphabet
<1>2. IsText(t, S, m) /\ ValueOfDigits(t, base, skipped) = v /\ IsFilled(t, digits, c, l, n)
  BY <1>1, FilledReads
<1>b. body = FilledWith("0", a, t)
  BY DEF Body
<1> HIDE DEF t
<1>3. a \in Nat /\ Fills("0", skipped)
  BY DEF Fills
<1>m. m = l + n /\ m \in Nat
  BY <1>1
<1> HIDE DEF m
<1>4. IsText(body, S, a + m) /\ ValueOfDigits(body, base, skipped) = v /\ IsFilled(body, t, "0", a, m)
  BY <1>2, <1>3, <1>b, FilledReads
<1>5. body[a + (l + 1)] = digits[1]
  <2>1. t[l + 1] = digits[1] /\ l + 1 \in 1 .. m
    BY <1>1, <1>2, <1>m DEF IsFilled
  <2> QED
    BY <1>4, <2>1 DEF IsFilled
<1>6. digits[1] \notin skipped
  BY <1>1 DEF Clear
<1>7. /\ a + (l + n) >= 1 /\ a + (l + 1) \in 1 .. a + (l + n)
      /\ a + l = 0 => a + (l + 1) = 1
      /\ a = 1 /\ l = 0 => a + (l + 1) = 2
  BY <1>1
<1>8. BodyIs(body, digits, a, l, n, skipped)
  BY <1>5, <1>6, <1>7 DEF BodyIs
<1> QED
  BY <1>4, <1>8, <1>m DEF S

-----------------------------------------------------------------------------
(* Signs, prefixes and padding.                                            *)

\* The specifications that an integer is written with.
Alignments == {"default", "left", "right", "center", "numeric"}
Flags == {"SIGN", "PLUS", "HASH"}
WriteSpecs(fills) ==
  [fill : fills, align : Alignments, flags : SUBSET Flags, width : Nat, precision : Int, type : IntSpecs]

IsUpper(s) == s.type = "X"
SkippedOf(s) ==
  (IF s.type = "n" THEN {ThousandsSep} ELSE {}) \cup (IF s.align = "numeric" THEN {s.fill} \ {"0"} ELSE {})

\* What fills is no digit but zero.
ClearFill(s) == s.align = "numeric" => s.fill \notin DigitsOf(IsUpper(s)) \ {"0"}

LEMMA SkippedClear ==
  ASSUME NEW fills, NEW s \in WriteSpecs(fills), ClearFill(s)
  PROVE  Clear(SkippedOf(s), IsUpper(s)) /\ IsUpper(s) \in BOOLEAN
<1>1. IsUpper(s) \in BOOLEAN
  BY DEF IsUpper
<1>2. ASSUME NEW c \in DigitsOf(IsUpper(s))
      PROVE  c \notin SkippedOf(s)
  <2>1. c # ThousandsSep
    BY <1>1, <1>2, SeparatorIsNoDigit
  <2>2. c \notin (IF s.align = "numeric" THEN {s.fill} \ {"0"} ELSE {})
    BY <1>2 DEF ClearFill
  <2> QED
    BY <2>1, <2>2 DEF SkippedOf
<1> QED
  BY <1>1, <1>2 DEF Clear

-----------------------------------------------------------------------------
(* Signs and prefixes.                                                     *)

StartChars == {"-", "+", " ", "0"} \cup IntSpecs

LEMMA SignText ==
  ASSUME NEW negative \in BOOLEAN, NEW s
  PROVE  SignOf(negative, s) \in Seq(StartChars)
<1>1. <<"-">> \in Seq(StartChars) /\ <<"+">> \in Seq(StartChars) /\ <<" ">> \in Seq(StartChars)
  BY DEF StartChars
<1>2. << >> \in Seq(StartChars)
  OBVIOUS
<1>3. SignOf(negative, s) \in {<<"-">>, <<"+">>, <<" ">>, << >>}
  BY DEF SignOf
<1> QED
  BY <1>1, <1>2, <1>3

LEMMA HashText ==
  ASSUME NEW fills, NEW s \in WriteSpecs(fills)
  PROVE  <<"0", s.type>> \in Seq(StartChars)
<1>1. s.type \in StartChars /\ "0" \in StartChars
  BY DEF WriteSpecs, StartChars
<1> QED
  BY <1>1

LEMMA StartText ==
  ASSUME NEW fills, NEW s \in WriteSpecs(fills), NEW value \in Int
  PROVE  StartOf(value, s) \in Seq(StartChars)
<1> DEFINE negative == value < 0
           sign == SignOf(negative, s)
           hash == IF "HASH" \in s.flags /\ BaseOf(s.type) \in {2, 16} THEN <<"0", s.type>> ELSE << >>
<1>0. negative \in BOOLEAN
  OBVIOUS
<1>1. sign \in Seq(StartChars)
  <2> HIDE DEF negative
  <2> QED
    BY <1>0, SignText
<1>2. hash \in Seq(StartChars)
  BY HashText
<1>3. StartOf(value, s) = sign \o hash
  BY DEF StartOf
<1> HIDE DEF sign, hash
<1> QED
  BY <1>1, <1>2, <1>3

LEMMA NothingRepeated ==
  ASSUME NEW c
  PROVE  Repeated(c, 0) = << >> /\ Repeated(c, 1) = <<c>>
<1>1. Repeated(c, 0) = << >>
  BY DEF Repeated
<1>2. Repeated(c, 1) = <<c>>
  BY DEF Repeated
<1> QED
  BY <1>1, <1>2

-----------------------------------------------------------------------------
(* Padding.                                                                *)

LEMMA NotPadded ==
  ASSUME NEW fills, NEW s \in WriteSpecs(fills), NEW S, NEW t \in Seq(S), s.width <= Len(t)
  PROVE  WritePadded(RightByDefault(s), t) = t
<1> DEFINE r == RightByDefault(s)
<1>1. s.width \in Nat /\ DOMAIN s = {"fill", "align", "flags", "width", "precision", "type"}
  BY DEF WriteSpecs
<1>2. r.width = s.width
  BY <1>1 DEF RightByDefault, WriteSpecs
<1> HIDE DEF r
<1>3. r.width - Len(t) <= 0
  BY <1>1, <1>2
<1>4. WritePadded(r, t) = t
  BY <1>3, Zenon DEF WritePadded
<1> QED
  BY <1>4 DEF r

\* How many characters fill an integer, and which.
FillChar(s) == IF s.align = "numeric" THEN s.fill ELSE "0"
FillSize(s, p, n) ==
  IF s.align = "numeric" THEN IF s.width > p + n THEN s.width - (p + n) ELSE 0
  ELSE IF s.precision > n THEN s.precision - n ELSE 0

LEMMA PrefixedPadded ==
  ASSUME NEW fills, NEW s \in WriteSpecs(fills),
         NEW S, NEW prefix, NEW digits, NEW p, NEW n, IsText(prefix, S, p), IsText(digits, S, n), FillChar(s) \in S,
         NEW l, l = FillSize(s, p, n), NEW t, t = FilledWith(FillChar(s), l, digits)
  PROVE  /\ l \in Nat /\ (s.align = "numeric" => p + (l + n) >= s.width)
         /\ WritePrefixed(prefix, digits, s) = WritePadded(RightByDefault(s), prefix \o t)
         /\ IsText(prefix \o t, S, p + (l + n))
<1> DEFINE length == Len(prefix) + Len(digits)
           zeros == Repeated(FillChar(s), l)
<1>1. s.width \in Nat /\ s.precision \in Int
  BY DEF WriteSpecs
<1>2. p \in Nat /\ n \in Nat /\ Len(prefix) = p /\ Len(digits) = n /\ prefix \in Seq(S) /\ digits \in Seq(S) /\ length = p + n
  BY DEF IsText
<1>3. l \in Nat /\ (s.align = "numeric" => p + (l + n) >= s.width)
  BY <1>1, <1>2 DEF FillSize
<1>4. zeros = CASE s.align = "numeric" ->
                       Repeated(s.fill, IF s.width > length THEN s.width - length ELSE 0)
                [] s.align # "numeric" /\ s.precision > Len(digits) ->
                       Repeated("0", s.precision - Len(digits))
                [] OTHER -> << >>
  <2>1. CASE s.align = "numeric"
    BY <1>2, <2>1, Zenon DEF FillSize, FillChar
  <2>2. CASE s.align # "numeric" /\ s.precision > n
    <3>1. zeros = Repeated("0", s.precision - n)
      BY <2>2 DEF FillSize, FillChar
    <3> QED
      BY <1>2, <2>2, <3>1, Zenon
  <2>3. CASE s.align # "numeric" /\ ~(s.precision > n)
    <3>1. zeros = << >>
      BY <2>3, NothingRepeated DEF FillSize, FillChar
    <3> QED
      BY <1>2, <2>3, <3>1, Zenon
  <2> QED
    BY <2>1, <2>2, <2>3
<1>5. WritePrefixed(prefix, digits, s) = WritePadded(RightByDefault(s), prefix \o zeros \o digits)
  BY <1>4, Zenon DEF WritePrefixed
<1>6. IsText(zeros, S, l)
  BY <1>3, RepeatedText
<1>11. t = zeros \o digits
  BY DEF FilledWith
<1> HIDE DEF zeros
<1>7. zeros \in Seq(S) /\ Len(zeros) = l
  BY <1>6 DEF IsText
<1>8. prefix \o zeros \o digits = prefix \o t
  BY <1>2, <1>7, <1>11, ConcatAssociative, SMTT(30)
<1>9. IsText(prefix \o t, S, p + (l + n))
  <2>1. IsText(t, S, l + n)
    BY <1>6, <1>11, Joined
  <2> QED
    BY <2>1, Joined
<1> QED
  BY <1>3, <1>5, <1>8, <1>9

LEMMA PrefixedIs ==
  ASSUME NEW fills, NEW s \in WriteSpecs(fills), s.align # "numeric" => s.width = 0,
         NEW S, NEW prefix, NEW digits, NEW p, NEW n, IsText(prefix, S, p), IsText(digits, S, n), FillChar(s) \in S
  PROVE  /\ FillSize(s, p, n) \in Nat
         /\ WritePrefixed(prefix, digits, s) = prefix \o FilledWith(FillChar(s), FillSize(s, p, n), digits)
         /\ (s.align = "numeric" => p + (FillSize(s, p, n) + n) >= s.width)
<1> DEFINE l == FillSize(s, p, n)
           t == FilledWith(FillChar(s), l, digits)
           line == prefix \o t
<1>1. s.width \in Nat /\ p \in Nat /\ n \in Nat
  BY DEF WriteSpecs, IsText
<1>2. /\ l \in Nat /\ (s.align = "numeric" => p + (l + n) >= s.width)
      /\ WritePrefixed(prefix, digits, s) = WritePadded(RightByDefault(s), line)
      /\ IsText(line, S, p + (l + n))
  <2>1. l = FillSize(s, p, n) /\ t = FilledWith(FillChar(s), l, digits)
    OBVIOUS
  <2> HIDE DEF l, t
  <2> QED
    BY <2>1, PrefixedPadded
<1> HIDE DEF line, l
<1>3. line \in Seq(S) /\ s.width <= Len(line)
  BY <1>1, <1>2 DEF IsText
<1>4. WritePadded(RightByDefault(s), line) = line
  BY <1>3, NotPadded
<1> QED
  BY <1>2, <1>4 DEF line, l

-----------------------------------------------------------------------------
(* Integers, type by type.                                                 *)

\* What an integer is written from: its start, perhaps a zero for base eight, and its digits.
IsStart(prefix, start, a) == prefix = start \o Repeated("0", a)
Numeral(prefix, digits, start, n, a, s, v) ==
  /\ IsStart(prefix, start, a)
  /\ Reads(digits, v, n, BaseOf(s.type), IsUpper(s), SkippedOf(s))
  /\ a \in {0, 1}
  /\ (a = 1 => s.type = "o" /\ "HASH" \in s.flags /\ s.precision <= n)

SignFor(value, s) == SignOf(value < 0, s)
PlainPrefix(s) == IF "HASH" \in s.flags THEN <<"0", s.type>> ELSE << >>
OctalPrefix(s, n) == IF "HASH" \in s.flags /\ s.precision <= n THEN <<"0">> ELSE << >>
Commas(n) == n + (n - 1) \div 3

\* What stands before the fill of an integer, and its digits.
IntPrefix(value, s) ==
  IF s.type \in {"none", "d", "n"} THEN SignFor(value, s)
  ELSE IF s.type = "o" THEN SignFor(value, s) \o OctalPrefix(s, CountInBase(AbsValue(value), 3))
  ELSE SignFor(value, s) \o PlainPrefix(s)
IntDigits(value, s) ==
  IF s.type \in {"none", "d"} THEN FormatDecimal(AbsValue(value), CountDecimals(AbsValue(value)), << >>)
  ELSE IF s.type = "n" THEN FormatDecimal(AbsValue(value), Commas(CountDecimals(AbsValue(value))), <<ThousandsSep>>)
  ELSE IF s.type \in {"x", "X"} THEN FormatUint(AbsValue(value), 4, CountInBase(AbsValue(value), 4), IsUpper(s))
  ELSE IF s.type \in {"b", "B"} THEN FormatUint(AbsValue(value), 1, CountInBase(AbsValue(value), 1), FALSE)
  ELSE FormatUint(AbsValue(value), 3, CountInBase(AbsValue(value), 3), FALSE)

\* WriteInt, type by type.
LEMMA WriteDecimalIs ==
  ASSUME NEW value, NEW s, s.type = "none" \/ s.type = "d"
  PROVE  /\ WriteInt(value, s) = WritePrefixed(SignFor(value, s),
            FormatDecimal(AbsValue(value), CountDecimals(AbsValue(value)), << >>), s)
         /\ IntPrefix(value, s) = SignFor(value, s)
         /\ IntDigits(value, s) = FormatDecimal(AbsValue(value), CountDecimals(AbsValue(value)), << >>)

<1>1. s.type \in {"none", "d"} /\ s.type \in {"none", "d", "n"}
  OBVIOUS
<1> QED
  BY <1>1, Zenon DEF IntPrefix, IntDigits, WriteInt, SignFor

LEMMA WriteSeparatedIs ==
  ASSUME NEW value, NEW s, s.type = "n"
  PROVE  /\ WriteInt(value, s) = WritePrefixed(SignFor(value, s),
            FormatDecimal(AbsValue(value), Commas(CountDecimals(AbsValue(value))), <<ThousandsSep>>), s)
         /\ IntPrefix(value, s) = SignFor(value, s)
         /\ IntDigits(value, s) = FormatDecimal(AbsValue(value), Commas(CountDecimals(AbsValue(value))), <<ThousandsSep>>)

<1>1. s.type \in {"none", "d", "n"} /\ s.type \notin {"none", "d"} /\ s.type \notin {"x", "X"} /\ s.type \notin {"b", "B"} /\ s.type # "o"
  OBVIOUS
<1> QED
  BY <1>1, Zenon DEF IntPrefix, IntDigits, WriteInt, SignFor, Commas

LEMMA WriteHexIs ==
  ASSUME NEW value, NEW s, s.type = "x" \/ s.type = "X"
  PROVE  /\ WriteInt(value, s) = WritePrefixed(SignFor(value, s) \o PlainPrefix(s),
            FormatUint(AbsValue(value), 4, CountInBase(AbsValue(value), 4), IsUpper(s)), s)
         /\ IntPrefix(value, s) = SignFor(value, s) \o PlainPrefix(s)
         /\ IntDigits(value, s) = FormatUint(AbsValue(value), 4, CountInBase(AbsValue(value), 4), IsUpper(s))

<1>1. s.type \notin {"none", "d", "n"} /\ s.type \notin {"none", "d"} /\ s.type \notin {"b", "B"} /\ s.type # "o" /\ s.type # "n"
  OBVIOUS
<1> QED
  BY <1>1, Zenon DEF IntPrefix, IntDigits, WriteInt, SignFor, PlainPrefix, IsUpper

LEMMA WriteBinaryIs ==
  ASSUME NEW value, NEW s, s.type = "b" \/ s.type = "B"
  PROVE  /\ WriteInt(value, s) = WritePrefixed(SignFor(value, s) \o PlainPrefix(s),
            FormatUint(AbsValue(value), 1, CountInBase(AbsValue(value), 1), FALSE), s)
         /\ IntPrefix(value, s) = SignFor(value, s) \o PlainPrefix(s)
         /\ IntDigits(value, s) = FormatUint(AbsValue(value), 1, CountInBase(AbsValue(value), 1), FALSE)

<1>1. s.type \notin {"none", "d", "n"} /\ s.type \notin {"none", "d"} /\ s.type \notin {"x", "X"} /\ s.type # "o" /\ s.type # "n"
  OBVIOUS
<1> QED
  BY <1>1, Zenon DEF IntPrefix, IntDigits, WriteInt, SignFor, PlainPrefix

LEMMA WriteOctalIs ==
  ASSUME NEW value, NEW s, s.type = "o"
  PROVE  /\ WriteInt(value, s) = WritePrefixed(SignFor(value, s) \o OctalPrefix(s, CountInBase(AbsValue(value), 3)),
            FormatUint(AbsValue(value), 3, CountInBase(AbsValue(value), 3), FALSE), s)
         /\ IntPrefix(value, s) = SignFor(value, s) \o OctalPrefix(s, CountInBase(AbsValue(value), 3))
         /\ IntDigits(value, s) = FormatUint(AbsValue(value), 3, CountInBase(AbsValue(value), 3), FALSE)

<1>1. s.type \notin {"none", "d", "n"} /\ s.type \notin {"none", "d"} /\ s.type \notin {"x", "X"} /\ s.type \notin {"b", "B"} /\ s.type # "n"
  OBVIOUS
<1> QED
  BY <1>1, Zenon DEF IntPrefix, IntDigits, WriteInt, SignFor, OctalPrefix

\* The base, by the type.
LEMMA BaseIs ==
  ASSUME NEW type \in IntSpecs
  PROVE  /\ (type \in {"none", "d", "n"} => BaseOf(type) = 10) /\ (type \in {"x", "X"} => BaseOf(type) = 16)
         /\ (type \in {"b", "B"} => BaseOf(type) = 2) /\ (type = "o" => BaseOf(type) = 8)
<1>1. ASSUME type \in {"none", "d", "n"}
      PROVE  BaseOf(type) = 10 /\ type \notin {"x", "X"} /\ type \notin {"b", "B"} /\ type # "o"
  <2>1. type \notin {"x", "X"} /\ type \notin {"b", "B"} /\ type # "o"
    BY <1>1
  <2> QED
    BY <1>1, <2>1, Zenon DEF BaseOf
<1>2. ASSUME type \in {"x", "X"}
      PROVE  BaseOf(type) = 16
  <2>1. type \notin {"none", "d", "n"} /\ type \notin {"b", "B"} /\ type # "o"
    BY <1>2
  <2> QED
    BY <1>2, <2>1, Zenon DEF BaseOf
<1>3. ASSUME type \in {"b", "B"}
      PROVE  BaseOf(type) = 2
  <2>1. type \notin {"none", "d", "n"} /\ type \notin {"x", "X"} /\ type # "o"
    BY <1>3
  <2> QED
    BY <1>3, <2>1, Zenon DEF BaseOf
<1>4. ASSUME type = "o"
      PROVE  BaseOf(type) = 8
  <2>1. type \notin {"none", "d", "n"} /\ type \notin {"x", "X"} /\ type \notin {"b", "B"}
    BY <1>4
  <2> QED
    BY <1>4, <2>1, Zenon DEF BaseOf
<1> QED
  BY <1>1, <1>2, <1>3, <1>4

\* A text that reads as the number does has the length that was counted.
LEMMA FilledUp ==
  ASSUME NEW t, NEW v, NEW n, NEW base, NEW upper, NEW skipped, Reads(t, v, n, base, upper, skipped)
  PROVE  Filling(n, t) = t
BY DEF Reads, IsText, Filling

LEMMA UintWritten ==
  ASSUME NEW bits \in UintBits, NEW upper \in BOOLEAN, NEW skipped, Clear(skipped, upper), NEW v \in Nat
  PROVE  Reads(FormatUint(v, bits, CountInBase(v, bits), upper), v, CountInBase(v, bits), TwoTo[bits], upper, skipped)
<1>1. Reads(UintFrom(v, bits, upper), v, CountInBase(v, bits), TwoTo[bits], upper, skipped)
  BY UintReads
<1>2. FormatUint(v, bits, CountInBase(v, bits), upper) = UintFrom(v, bits, upper)
  BY <1>1, FilledUp DEF FormatUint
<1> QED
  BY <1>1, <1>2

LEMMA DecimalWritten ==
  ASSUME NEW v \in Nat, v < Word, NEW sep, NEW skipped, Separating(sep, skipped),
         NEW n, n = IF sep = << >> THEN CountDecimals(v) ELSE Commas(CountDecimals(v))
  PROVE  /\ Reads(FormatDecimal(v, n, sep), v, n, 10, FALSE, skipped)
         /\ FormatDecimal(v, n, sep) = DecimalFrom(v, sep)
         /\ (sep # << >> => SeparatorsAt(FormatDecimal(v, n, sep), n, 0))
<1> DEFINE t == DecimalFrom(v, sep)
           k == CountDecimals(v)
<1>1. PICK j : Decimal(t, v, j, 0, sep, skipped)
  BY DecimalReads
<1> DEFINE m == CharsTaken(j, 0, sep)
<1>t. DecimalFrom(v, sep) = t
  OBVIOUS
<1>k. CountDecimals(v) = k
  OBVIOUS
<1> HIDE DEF t, k
<1>2. HasDigits(v, j) /\ HasDigits(v, k)
  BY <1>1, <1>k, DecimalsCounted DEF Decimal
<1>3. j = k /\ k \in Nat /\ k >= 1
  BY <1>2, DigitsAreUnique DEF HasDigits
<1>4. m = n
  <2>1. CharsTaken(k, 0, sep) = IF sep = << >> THEN k ELSE k + (k - 1) \div 3
    BY <1>3, TakenIs
  <2> QED
    BY <1>3, <1>k, <2>1 DEF Commas
<1>5. Reads(t, v, m, 10, FALSE, skipped) /\ (sep # << >> => SeparatorsAt(t, m, Behind10(0, sep)))
  BY <1>1 DEF Decimal
<1>6. Behind10(0, sep) = 0
  BY Behind10Is
<1> HIDE DEF m
<1> DEFINE no == FALSE
<1>n. FALSE = no
  OBVIOUS
<1> HIDE DEF no
<1>7. Reads(t, v, n, 10, no, skipped)
  BY <1>4, <1>5, <1>n
<1>8. Filling(n, t) = t
  BY <1>7, FilledUp
<1>9. FormatDecimal(v, n, sep) = t
  BY <1>8, <1>t DEF FormatDecimal
<1> QED
  BY <1>4, <1>5, <1>6, <1>7, <1>9, <1>t, <1>n

IsWritten(value, s) ==
  /\ WriteInt(value, s) = WritePrefixed(IntPrefix(value, s), IntDigits(value, s), s)
  /\ \E n, a : Numeral(IntPrefix(value, s), IntDigits(value, s), StartOf(value, s), n, a, s, Magnitude(value))

LEMMA NoZero ==
  ASSUME NEW S, NEW start \in Seq(S)
  PROVE  IsStart(start, start, 0)
<1>1. Repeated("0", 0) = << >>
  BY NothingRepeated
<1>2. start \o << >> = start
  OBVIOUS
<1> QED
  BY <1>1, <1>2 DEF IsStart

\* The start, by the type.
LEMMA StartIs ==
  ASSUME NEW fills, NEW s \in WriteSpecs(fills), NEW value \in Int
  PROVE  /\ SignFor(value, s) \in Seq(StartChars)
         /\ (BaseOf(s.type) \in {2, 16} => StartOf(value, s) = SignFor(value, s) \o PlainPrefix(s))
         /\ (BaseOf(s.type) \notin {2, 16} => StartOf(value, s) = SignFor(value, s))
<1> DEFINE sign == SignFor(value, s)
<1>1. sign \in Seq(StartChars)
  <2> DEFINE negative == value < 0
  <2>1. negative \in BOOLEAN /\ sign = SignOf(negative, s)
    BY DEF SignFor
  <2> HIDE DEF negative, sign
  <2> QED
    BY <2>1, SignText
<1>2. StartOf(value, s) = sign \o (IF "HASH" \in s.flags /\ BaseOf(s.type) \in {2, 16} THEN <<"0", s.type>> ELSE << >>)
  BY DEF StartOf, SignFor
<1> HIDE DEF sign
<1>3. sign \o << >> = sign
  BY <1>1
<1> QED
  BY <1>1, <1>2, <1>3 DEF sign, PlainPrefix

LEMMA IntWritten ==
  ASSUME NEW fills, NEW s \in WriteSpecs(fills), ClearFill(s), NEW value \in WordValues
  PROVE  IsWritten(value, s)
<1> DEFINE start == StartOf(value, s)
           sign == SignFor(value, s)
           v == Magnitude(value)
           skipped == SkippedOf(s)
           upper == IsUpper(s)
           abs == AbsValue(value)
           no == FALSE
<1>1. value \in Int /\ s.type \in IntSpecs /\ s.precision \in Int
  BY WordIs DEF WordValues, WriteSpecs
<1>2. abs = v /\ v \in Nat /\ v < Word
  BY AbsValueIs
<1>3. Clear(skipped, upper) /\ upper \in BOOLEAN
  BY SkippedClear
<1>4. start \in Seq(StartChars)
  BY <1>1, StartText
<1>5. ASSUME NEW digits, NEW n, NEW a, NEW prefix, WriteInt(value, s) = WritePrefixed(prefix, digits, s),
             prefix = IntPrefix(value, s), digits = IntDigits(value, s), Numeral(prefix, digits, start, n, a, s, v)
      PROVE  IsWritten(value, s)
  BY <1>5 DEF IsWritten
<1> HIDE DEF v, abs, skipped, start, upper, no, sign
<1>6. CASE s.type = "none" \/ s.type = "d"
  <2>1. IsUpper(s) = no /\ BaseOf(s.type) = 10 /\ s.type # "o"
    BY <1>1, <1>6, BaseIs DEF IsUpper, no
  <2> DEFINE n == CountDecimals(v)
             sep == << >>
             digits == FormatDecimal(v, n, sep)
  <2>2. Separating(sep, skipped)
    BY <1>3, <2>1 DEF Separating, Separators, upper, no
  <2>3. sep = << >> /\ n = CountDecimals(v)
    OBVIOUS
  <2>c. n = IF sep = << >> THEN CountDecimals(v) ELSE Commas(CountDecimals(v))
    OBVIOUS
  <2> HIDE DEF n, sep
  <2>4. Reads(digits, v, n, 10, no, skipped)
    BY <1>2, <2>2, <2>c, DecimalWritten DEF no
  <2>5. start = sign /\ sign \in Seq(StartChars)
    BY <1>1, <2>1, StartIs DEF start, sign
  <2>6. IsStart(sign, start, 0)
    BY <2>5, NoZero
  <2>7. WriteInt(value, s) = WritePrefixed(sign, digits, s) /\ sign = IntPrefix(value, s) /\ digits = IntDigits(value, s)
    BY <1>2, <1>6, <2>3, WriteDecimalIs DEF abs, sign
  <2> HIDE DEF digits
  <2>8. Numeral(sign, digits, start, n, 0, s, v)
    BY <2>1, <2>4, <2>6 DEF Numeral, skipped
  <2> QED
    BY <1>5, <2>7, <2>8
<1>7. CASE s.type = "n"
  <2>1. IsUpper(s) = no /\ BaseOf(s.type) = 10 /\ s.type # "o"
    BY <1>1, <1>7, BaseIs DEF IsUpper, no
  <2> DEFINE n == Commas(CountDecimals(v))
             sep == <<ThousandsSep>>
             digits == FormatDecimal(v, n, sep)
  <2>t. ThousandsSep \in skipped
    BY <1>7 DEF skipped, SkippedOf
  <2>2. Separating(sep, skipped) /\ sep # << >>
    BY <1>3, <2>1, <2>t DEF Separating, Separators, upper, no
  <2>3. sep = <<ThousandsSep>> /\ n = Commas(CountDecimals(v))
    OBVIOUS
  <2> HIDE DEF n, sep
  <2>c. n = IF sep = << >> THEN CountDecimals(v) ELSE Commas(CountDecimals(v))
    BY <2>2, <2>3
  <2>4. Reads(digits, v, n, 10, no, skipped)
    BY <1>2, <2>2, <2>c, DecimalWritten DEF no
  <2>5. start = sign /\ sign \in Seq(StartChars)
    BY <1>1, <2>1, StartIs DEF start, sign
  <2>6. IsStart(sign, start, 0)
    BY <2>5, NoZero
  <2>7. WriteInt(value, s) = WritePrefixed(sign, digits, s) /\ sign = IntPrefix(value, s) /\ digits = IntDigits(value, s)
    BY <1>2, <1>7, <2>3, WriteSeparatedIs DEF abs, sign
  <2> HIDE DEF digits
  <2>8. Numeral(sign, digits, start, n, 0, s, v)
    BY <2>1, <2>4, <2>6 DEF Numeral, skipped
  <2> QED
    BY <1>5, <2>7, <2>8
<1>8. CASE s.type = "x" \/ s.type = "X"
  <2>1. BaseOf(s.type) = 16 /\ TwoTo[4] = 16 /\ 4 \in UintBits
    BY <1>1, <1>8, BaseIs, SmallPowers DEF UintBits
  <2> DEFINE n == CountInBase(v, 4)
             digits == FormatUint(v, 4, n, upper)
             prefix == sign \o PlainPrefix(s)
  <2>4. Reads(digits, v, n, 16, upper, skipped)
    BY <1>2, <1>3, <2>1, UintWritten
  <2>5. start = prefix
    BY <1>1, <2>1, StartIs DEF start, sign
  <2>6. IsStart(start, start, 0)
    BY <1>4, NoZero
  <2>7. WriteInt(value, s) = WritePrefixed(start, digits, s) /\ start = IntPrefix(value, s) /\ digits = IntDigits(value, s)
    BY <1>2, <1>8, <2>5, WriteHexIs DEF abs, upper, sign, no
  <2> HIDE DEF digits, prefix, n
  <2>8. Numeral(start, digits, start, n, 0, s, v)
    BY <1>8, <2>1, <2>4, <2>6 DEF Numeral, skipped, upper
  <2> QED
    BY <1>5, <2>7, <2>8
<1>9. CASE s.type = "b" \/ s.type = "B"
  <2>1. BaseOf(s.type) = 2 /\ TwoTo[1] = 2 /\ 1 \in UintBits /\ IsUpper(s) = no
    BY <1>1, <1>9, BaseIs, SmallPowers DEF UintBits, IsUpper, no
  <2> DEFINE n == CountInBase(v, 1)
             digits == FormatUint(v, 1, n, upper)
             prefix == sign \o PlainPrefix(s)
  <2>4. Reads(digits, v, n, 2, upper, skipped)
    BY <1>2, <1>3, <2>1, UintWritten
  <2>5. start = prefix
    BY <1>1, <2>1, StartIs DEF start, sign
  <2>6. IsStart(start, start, 0)
    BY <1>4, NoZero
  <2>7. WriteInt(value, s) = WritePrefixed(start, digits, s) /\ start = IntPrefix(value, s) /\ digits = IntDigits(value, s)
    BY <1>2, <1>9, <2>1, <2>5, WriteBinaryIs DEF abs, upper, sign, no
  <2> HIDE DEF digits, prefix, n
  <2>8. Numeral(start, digits, start, n, 0, s, v)
    BY <1>9, <2>1, <2>4, <2>6 DEF Numeral, skipped, upper
  <2> QED
    BY <1>5, <2>7, <2>8
<1>10. CASE s.type = "o"
  <2>1. BaseOf(s.type) = 8 /\ TwoTo[3] = 8 /\ 3 \in UintBits /\ IsUpper(s) = no
    BY <1>1, <1>10, BaseIs, SmallPowers DEF UintBits, IsUpper, no
  <2> DEFINE n == CountInBase(v, 3)
             digits == FormatUint(v, 3, n, upper)
             prefix == sign \o OctalPrefix(s, n)
             a == IF "HASH" \in s.flags /\ s.precision <= n THEN 1 ELSE 0
  <2>4. Reads(digits, v, n, 8, upper, skipped)
    BY <1>2, <1>3, <2>1, UintWritten
  <2>5. start = sign /\ sign \in Seq(StartChars)
    BY <1>1, <2>1, StartIs DEF start, sign
  <2>7. WriteInt(value, s) = WritePrefixed(prefix, digits, s) /\ prefix = IntPrefix(value, s) /\ digits = IntDigits(value, s)
    BY <1>2, <1>10, <2>1, WriteOctalIs DEF abs, upper, sign, no
  <2>6. IsStart(prefix, start, a) /\ a \in {0, 1} /\ (a = 1 => "HASH" \in s.flags /\ s.precision <= n)
    <3> HIDE DEF n
    <3>1. CASE "HASH" \in s.flags /\ s.precision <= n
      <4>1. a = 1 /\ OctalPrefix(s, n) = <<"0">>
        BY <3>1 DEF OctalPrefix
      <4> QED
        BY <2>5, <3>1, <4>1, NothingRepeated DEF IsStart
    <3>2. CASE ~("HASH" \in s.flags /\ s.precision <= n)
      <4>1. a = 0 /\ OctalPrefix(s, n) = << >>
        BY <3>2 DEF OctalPrefix
      <4> QED
        BY <2>5, <3>2, <4>1, NothingRepeated DEF IsStart
    <3> QED
      BY <3>1, <3>2
  <2> HIDE DEF digits, prefix, n, a
  <2>8. Numeral(prefix, digits, start, n, a, s, v)
    BY <1>10, <2>1, <2>4, <2>6 DEF Numeral, skipped, upper
  <2> QED
    BY <1>5, <2>7, <2>8
<1> QED
  BY <1>1, <1>6, <1>7, <1>8, <1>9, <1>10 DEF IntSpecs

-----------------------------------------------------------------------------
(* The body.                                                               *)

LEMMA FillFills ==
  ASSUME NEW s
  PROVE  Fills(FillChar(s), SkippedOf(s))
BY DEF Fills, FillChar, SkippedOf

LEMMA FillIsThere ==
  ASSUME NEW upper \in BOOLEAN, NEW skipped, NEW c, Fills(c, skipped)
  PROVE  c \in Alphabet(upper, skipped) /\ "0" \in Alphabet(upper, skipped)
BY ZeroIsADigit DEF Fills, Alphabet

LEMMA TextsAssociate ==
  ASSUME NEW S, NEW s, NEW t, NEW u, NEW m, NEW n, IsText(s, S, m), IsText(t, S, n), u \in Seq(S)
  PROVE  (s \o t) \o u = s \o (t \o u)
BY ConcatAssociative, SMTT(30) DEF IsText

FillFor(s, p, a, n) == FillSize(s, p + a, n)
IsWide(s, p, a, l, n) == (p + a) + (l + n) >= s.width
IsJoin(r, s, t) == r = s \o t

\* What is written: the start, and a body.
LEMMA WrittenInPieces ==
  ASSUME NEW fills, NEW s \in WriteSpecs(fills), s.align # "numeric" => s.width = 0,
         NEW upper \in BOOLEAN, NEW skipped, Fills(FillChar(s), skipped),
         NEW start, NEW p, IsText(start, StartChars, p), NEW a \in {0, 1}, NEW prefix, IsStart(prefix, start, a),
         NEW digits, NEW n, IsText(digits, Alphabet(upper, skipped), n),
         NEW l, l = FillFor(s, p, a, n), NEW body, body = Body(a, FillChar(s), l, digits)
  PROVE  /\ WritePrefixed(prefix, digits, s) = start \o body
         /\ l \in Nat /\ (s.align = "numeric" => IsWide(s, p, a, l, n))
<1> DEFINE A == Alphabet(upper, skipped)
           S == StartChars \cup A
           z == Repeated("0", a)
           t == FilledWith(FillChar(s), l, digits)
<1>1. FillChar(s) \in A /\ "0" \in A
  BY FillIsThere
<1>z. z = Repeated("0", a)
  OBVIOUS
<1> HIDE DEF A
<1>2. FillChar(s) \in S /\ "0" \in S /\ StartChars \subseteq S /\ A \subseteq S
  BY <1>1
<1> HIDE DEF S, z
<1>3. a \in Nat /\ IsText(z, S, a)
  BY <1>2, <1>z, RepeatedText
<1>4. IsText(start, S, p) /\ IsText(digits, S, n)
  BY <1>2, WiderText DEF A
<1>5. prefix = start \o z
  BY <1>z DEF IsStart
<1>6. IsText(prefix, S, p + a)
  BY <1>3, <1>4, <1>5, Joined
<1>7. /\ l \in Nat /\ WritePrefixed(prefix, digits, s) = prefix \o t
      /\ (s.align = "numeric" => (p + a) + (l + n) >= s.width)
  <2> DEFINE q == p + a
  <2>1. IsText(prefix, S, q) /\ l = FillSize(s, q, n)
    BY <1>6 DEF FillFor
  <2> HIDE DEF q
  <2>2. /\ FillSize(s, q, n) \in Nat
        /\ WritePrefixed(prefix, digits, s) = prefix \o FilledWith(FillChar(s), FillSize(s, q, n), digits)
        /\ (s.align = "numeric" => q + (FillSize(s, q, n) + n) >= s.width)
    BY <1>2, <1>4, <2>1, PrefixedIs
  <2> QED
    BY <2>1, <2>2 DEF q
<1>8. t \in Seq(S)
  <2>1. IsText(Repeated(FillChar(s), l), S, l)
    BY <1>2, <1>7, RepeatedText
  <2> DEFINE r == Repeated(FillChar(s), l)
  <2>2. t = r \o digits
    BY DEF FilledWith
  <2> HIDE DEF r, t
  <2> QED
    BY <1>4, <2>1, <2>2 DEF IsText, r
<1>9. body = z \o t
  BY <1>z DEF Body, FilledWith
<1> HIDE DEF t
<1>10. (start \o z) \o t = start \o (z \o t)
  BY <1>3, <1>4, <1>8, TextsAssociate, SMTT(30)
<1> QED
  BY <1>5, <1>7, <1>9, <1>10 DEF IsWide

LEMMA TextSplit ==
  ASSUME NEW S, NEW T, NEW start, NEW body, NEW p, NEW q, IsText(start, S, p), IsText(body, T, q), NEW line, IsJoin(line, start, body)
  PROVE  /\ Len(line) = p + q /\ Len(start) = p /\ p \in Nat /\ q \in Nat
         /\ SubSeq(line, 1, Len(start)) = start /\ SubSeq(line, Len(start) + 1, Len(line)) = body
<1> DEFINE U == S \cup T
<1>0. S \subseteq U /\ T \subseteq U
  OBVIOUS
<1> HIDE DEF U
<1>1. IsText(start, U, p) /\ IsText(body, U, q)
  BY <1>0, WiderText
<1>2. IsSplit(start \o body, start, body, p, q)
  BY <1>1, SplitText
<1>3. IsText(start \o body, U, p + q)
  BY <1>1, Joined
<1>4. Len(line) = p + q /\ Len(start) = p /\ p \in Nat /\ q \in Nat
  BY <1>1, <1>3 DEF IsText, IsJoin
<1> QED
  BY <1>2, <1>4 DEF IsSplit, IsJoin

LEMMA BodyIsRead ==
  ASSUME NEW fills, NEW s \in WriteSpecs(fills), ClearFill(s), NEW value \in WordValues,
         NEW digits, NEW n, Reads(digits, Magnitude(value), n, BaseOf(s.type), IsUpper(s), SkippedOf(s)),
         NEW a \in {0, 1}, a = 1 => s.type = "o" /\ "HASH" \in s.flags /\ s.precision <= n,
         NEW l \in Nat, s.align # "numeric" => l = IF s.precision > n THEN s.precision - n ELSE 0,
         NEW body, body = Body(a, FillChar(s), l, digits)
  PROVE  IsText(body, Alphabet(IsUpper(s), SkippedOf(s)), a + (l + n)) /\ BodyReadsBack(body, value, s)
<1> DEFINE upper == IsUpper(s)
           skipped == SkippedOf(s)
           base == BaseOf(s.type)
           v == Magnitude(value)
           c == FillChar(s)
           q == a + (l + n)
<1>1. upper \in BOOLEAN /\ Clear(skipped, upper)
  BY SkippedClear
<1>2. base \in Nat /\ s.type \in IntSpecs /\ s.precision \in Int /\ (s.type = "o" => base = 8)
  BY BaseIs DEF WriteSpecs, IntSpecs
<1>3. Fills(c, skipped)
  BY FillFills
<1>4. v \in Nat /\ (v = 0 => value = 0)
  BY WordIs DEF Magnitude, WordValues
<1>5. a \in 0 .. 1
  OBVIOUS
<1>6. Reads(digits, v, n, base, upper, skipped)
  OBVIOUS
<1>7. body = Body(a, c, l, digits)
  OBVIOUS
<1>8. n \in Nat /\ n >= 1 /\ (digits[1] = "0" => v = 0)
  BY <1>6 DEF Reads, IsText
<1> HIDE DEF upper, skipped, base, v, c
<1>9. IsText(body, Alphabet(upper, skipped), q) /\ ValueOfDigits(body, base, skipped) = v /\ BodyIs(body, digits, a, l, n, skipped)
  BY <1>1, <1>2, <1>3, <1>5, <1>6, <1>7, BodyReads
<1>10. DOMAIN body = 1 .. q /\ Len(body) = q
  BY <1>9 DEF IsText
<1>11. \E k \in DOMAIN body : body[k] \notin skipped
  BY <1>9, <1>10 DEF BodyIs
<1>12. ToSet(body) \subseteq skipped \cup ToSet(BaseDigits(upper))
  <2>1. DigitsOf(upper) = ToSet(BaseDigits(upper))
    BY <1>1, DigitsOfAre
  <2>2. ToSet(body) \subseteq Alphabet(upper, skipped)
    BY <1>9 DEF IsText, ToSet
  <2> QED
    BY <2>1, <2>2 DEF Alphabet
<1>13. ASSUME s.align # "numeric"
       PROVE  /\ Len(body) >= s.precision
              /\ (body[1] = "0" => \/ value = 0
                                   \/ Len(body) = s.precision
                                   \/ base = 8 /\ "HASH" \in s.flags /\ body[2] # "0")
  <2>1. l = IF s.precision > n THEN s.precision - n ELSE 0
    BY <1>13
  <2>2. Len(body) >= s.precision
    BY <1>2, <1>8, <1>10, <2>1
  <2>3. CASE a = 1
    <3>1. l = 0 /\ s.type = "o" /\ "HASH" \in s.flags
      BY <1>2, <1>8, <2>1, <2>3
    <3>2. body[2] = digits[1]
      BY <1>9, <2>3, <3>1 DEF BodyIs
    <3> QED
      BY <1>2, <1>4, <1>8, <2>2, <3>1, <3>2
  <2>4. CASE a = 0 /\ l = 0
    <3>1. body[1] = digits[1]
      BY <1>9, <2>4 DEF BodyIs
    <3> QED
      BY <1>4, <1>8, <2>2, <3>1
  <2>5. CASE a = 0 /\ l # 0
    <3>1. Len(body) = s.precision
      BY <1>2, <1>8, <1>10, <2>1, <2>5
    <3> QED
      BY <2>2, <3>1
  <2> QED
    BY <2>3, <2>4, <2>5
<1>14. BodyReadsBack(body, value, s)
  BY <1>9, <1>11, <1>12, <1>13, Zenon DEF BodyReadsBack, skipped, SkippedOf, upper, IsUpper, base, v
<1> QED
  BY <1>9, <1>14 DEF upper, skipped

-----------------------------------------------------------------------------
(* Integers read back.                                                     *)

LEMMA TextIsRead ==
  ASSUME NEW fills, NEW s \in WriteSpecs(fills), ClearFill(s), s.align # "numeric" => s.width = 0, NEW value \in WordValues
  PROVE  TextReadsBack(WriteInt(value, s), StartOf(value, s), value, s)
<1> DEFINE start == StartOf(value, s)
           upper == IsUpper(s)
           skipped == SkippedOf(s)
           line == WriteInt(value, s)
<1> DEFINE prefix == IntPrefix(value, s)
           digits == IntDigits(value, s)
<1>1. PICK n, a : line = WritePrefixed(prefix, digits, s) /\ Numeral(prefix, digits, start, n, a, s, Magnitude(value))
  BY IntWritten DEF IsWritten
<1> HIDE DEF prefix, digits
<1>2. /\ Reads(digits, Magnitude(value), n, BaseOf(s.type), IsUpper(s), SkippedOf(s)) /\ a \in {0, 1}
      /\ (a = 1 => s.type = "o" /\ "HASH" \in s.flags /\ s.precision <= n) /\ IsStart(prefix, start, a)
  BY <1>1 DEF Numeral
<1> DEFINE p == Len(start)
           l == FillFor(s, p, a, n)
           body == Body(a, FillChar(s), l, digits)
           q == a + (l + n)
<1>3. IsText(start, StartChars, p)
  <2>1. value \in Int
    BY WordIs DEF WordValues
  <2>2. start \in Seq(StartChars)
    BY <2>1, StartText
  <2> QED
    BY <2>2 DEF IsText
<1>4. upper \in BOOLEAN
  BY SkippedClear
<1>5. Fills(FillChar(s), skipped)
  BY FillFills
<1>6. IsText(digits, Alphabet(upper, skipped), n)
  BY <1>2 DEF Reads, Alphabet
<1>7. /\ WritePrefixed(prefix, digits, s) = start \o body
      /\ l \in Nat /\ (s.align = "numeric" => IsWide(s, p, a, l, n))
  <2> HIDE DEF start, p, skipped, upper
  <2>1. l = FillFor(s, p, a, n) /\ body = Body(a, FillChar(s), l, digits)
    OBVIOUS
  <2> HIDE DEF l, body
  <2> QED
    BY <1>2, <1>3, <1>4, <1>5, <1>6, <2>1, WrittenInPieces, SMTT(30)
<1>8. s.align # "numeric" => l = IF s.precision > n THEN s.precision - n ELSE 0
  BY DEF FillSize, FillFor
<1>9. IsText(body, Alphabet(IsUpper(s), SkippedOf(s)), q) /\ BodyReadsBack(body, value, s)
  <2>1. l \in Nat /\ body = Body(a, FillChar(s), l, digits)
    BY <1>7
  <2> HIDE DEF l, body
  <2> QED
    BY <1>2, <1>8, <2>1, BodyIsRead
<1> HIDE DEF start, l, body, p
<1>10. IsJoin(line, start, body)
  BY <1>1, <1>7 DEF IsJoin
<1> HIDE DEF line, q
<1>11. /\ Len(line) = p + q /\ Len(start) = p /\ p \in Nat /\ q \in Nat
       /\ SubSeq(line, 1, Len(start)) = start /\ SubSeq(line, Len(start) + 1, Len(line)) = body
  BY <1>3, <1>9, <1>10, TextSplit
<1>12. Len(start) <= Len(line)
  BY <1>11
<1>13. s.align = "numeric" => Len(line) >= s.width
  <2>1. n \in Nat /\ s.width \in Nat
    BY <1>2 DEF Reads, IsText, WriteSpecs
  <2> QED
    BY <1>2, <1>7, <1>11, <2>1 DEF q, IsWide
<1>14. TextReadsBack(line, start, value, s)
  BY <1>9, <1>11, <1>12, <1>13, Zenon DEF TextReadsBack
<1> QED
  BY <1>14 DEF line, start

\* Integers read back: in every base, with every flag, precision, width and filling.
THEOREM IntegersReadBack ==
  ASSUME NEW fills, NEW specs \in WriteSpecs(fills), NEW value \in WordValues
  PROVE  ReadsBack(value, specs)
<1> DEFINE s == [specs EXCEPT !.width = IF specs.align = "numeric" THEN @ ELSE 0]
<1>1. specs.fill \in fills /\ specs.align \in Alignments /\ specs.flags \in SUBSET Flags /\ specs.width \in Nat
      /\ specs.precision \in Int /\ specs.type \in IntSpecs
  BY DEF WriteSpecs
<1>2. /\ s.fill = specs.fill /\ s.align = specs.align /\ s.flags = specs.flags /\ s.precision = specs.precision
      /\ s.type = specs.type /\ s.width = (IF specs.align = "numeric" THEN specs.width ELSE 0)
  BY DEF WriteSpecs
<1>3. s \in WriteSpecs(fills)
  BY <1>1 DEF WriteSpecs
<1> SUFFICES ASSUME specs.align = "numeric" => specs.fill \notin ToSet(BaseDigits(specs.type = "X")) \ {"0"}
             PROVE  TextReadsBack(WriteInt(value, s), StartOf(value, specs), value, specs)
  BY DEF ReadsBack
<1> HIDE DEF s
<1>4. ClearFill(s)
  <2>1. ToSet(BaseDigits(specs.type = "X")) = DigitsOf(IsUpper(specs)) /\ IsUpper(specs) = IsUpper(s)
    <3>1. IsUpper(specs) \in BOOLEAN /\ IsUpper(specs) = IsUpper(s)
      BY <1>2 DEF IsUpper
    <3>2. DigitsOf(IsUpper(specs)) = ToSet(BaseDigits(IsUpper(specs)))
      BY <3>1, DigitsOfAre
    <3> QED
      BY <3>1, <3>2, Zenon DEF IsUpper
  <2> QED
    BY <1>2, <2>1, Zenon DEF ClearFill
<1>5. s.align # "numeric" => s.width = 0
  BY <1>2
<1>6. TextReadsBack(WriteInt(value, s), StartOf(value, s), value, s)
  BY <1>3, <1>4, <1>5, TextIsRead
<1>7. StartOf(value, s) = StartOf(value, specs)
  BY <1>2, Zenon DEF StartOf, SignOf
<1> DEFINE line == WriteInt(value, s)
           start == StartOf(value, s)
<1>8. BodyReadsBack(SubSeq(line, Len(start) + 1, Len(line)), value, specs)
  <2> DEFINE body == SubSeq(line, Len(start) + 1, Len(line))
  <2>1. BodyReadsBack(body, value, s)
    BY <1>6, Zenon DEF TextReadsBack
  <2> HIDE DEF body
  <2> DEFINE Short(t) == body[1] = "0" => \/ value = 0
                                          \/ Len(body) = t.precision
                                          \/ BaseOf(t.type) = 8 /\ "HASH" \in t.flags /\ body[2] # "0"
             Good(t) == /\ \E k \in DOMAIN body : body[k] \notin SkippedOf(t)
                        /\ ToSet(body) \subseteq SkippedOf(t) \cup ToSet(BaseDigits(IsUpper(t)))
                        /\ ValueOfDigits(body, BaseOf(t.type), SkippedOf(t)) = Magnitude(value)
                        /\ t.align # "numeric" => Len(body) >= t.precision
                        /\ t.align # "numeric" => Short(t)
  <2>2. Good(s)
    BY <2>1, Zenon DEF BodyReadsBack, SkippedOf, IsUpper
  <2>3. SkippedOf(s) = SkippedOf(specs) /\ BaseOf(s.type) = BaseOf(specs.type) /\ IsUpper(s) = IsUpper(specs)
    BY <1>2 DEF SkippedOf, IsUpper
  <2>4. Good(specs)
    BY <1>2, <2>2, <2>3
  <2>5. ASSUME specs.align # "numeric"
        PROVE  Len(body) >= specs.precision /\ Short(specs)
    BY <2>4, <2>5
  <2>6. /\ \E k \in DOMAIN body : body[k] \notin SkippedOf(specs)
        /\ ToSet(body) \subseteq SkippedOf(specs) \cup ToSet(BaseDigits(IsUpper(specs)))
        /\ ValueOfDigits(body, BaseOf(specs.type), SkippedOf(specs)) = Magnitude(value)
    BY <2>4
  <2> HIDE DEF Good
  <2>7. BodyReadsBack(body, value, specs)
    BY <2>5, <2>6, Zenon DEF BodyReadsBack, SkippedOf, IsUpper
  <2> QED
    BY <2>7 DEF body
<1>9. specs.align = "numeric" => s.width = specs.width
  BY <1>2
<1> QED
  BY <1>2, <1>6, <1>7, <1>8, <1>9, Zenon DEF TextReadsBack

-----------------------------------------------------------------------------
(* Groups of three digits.                                                 *)

\* What is written with separators and nothing else.
SeparatedSpecs ==
  [fill |-> " ", align |-> "default", flags |-> {}, width |-> 0, precision |-> -1, type |-> "n"]

LEMMA SeparatorIsNoSign == ThousandsSep # "-"
BY Zenon DEF ThousandsSep

LEMMA SeparatedText ==
  ASSUME NEW value \in WordValues
  PROVE  LET s == SeparatedSpecs
             digits == IntDigits(value, s)
         IN  \E n : /\ WriteInt(value, s) = SignFor(value, s) \o digits
                    /\ IsText(digits, {ThousandsSep} \cup DigitsOf(FALSE), n) /\ n >= 1
                    /\ SeparatorsAt(digits, n, 0) /\ ~IsSeparator(digits[1])
<1> DEFINE s == SeparatedSpecs
           v == Magnitude(value)
           sep == <<ThousandsSep>>
           skipped == {ThousandsSep}
           n == Commas(CountDecimals(v))
           prefix == SignFor(value, s)
           digits == IntDigits(value, s)
           no == FALSE
           fills == {" "}
           none == -1
<1>s. SeparatedSpecs = s /\ FALSE = no /\ {ThousandsSep} = skipped
  OBVIOUS
<1>0. s.align = "default" /\ s.precision = none /\ none < 0 /\ none \in Int
  BY DEF SeparatedSpecs
<1>1. /\ s.type = "n" /\ s.width = 0
      /\ s \in WriteSpecs(fills) /\ s.align # "numeric"
  BY DEF SeparatedSpecs, WriteSpecs, Alignments, IntSpecs
<1>2. AbsValue(value) = v /\ v \in Nat /\ v < Word /\ value \in Int
  BY AbsValueIs, WordIs DEF WordValues
<1> HIDE DEF s, v, no, fills, none
<1>3. /\ WriteInt(value, s) = WritePrefixed(prefix, digits, s) /\ digits = FormatDecimal(v, n, sep)
  BY <1>1, <1>2, WriteSeparatedIs
<1>4. Separating(sep, skipped) /\ sep # << >>
  <2>1. Clear(skipped, FALSE)
    BY SeparatorIsNoDigit DEF Clear
  <2> QED
    BY <2>1 DEF Separating, Separators
<1>5. n = IF sep = << >> THEN CountDecimals(v) ELSE Commas(CountDecimals(v))
  BY <1>4
<1> HIDE DEF sep, skipped, n, digits, prefix
<1>6. Reads(digits, v, n, 10, FALSE, skipped) /\ SeparatorsAt(digits, n, 0)
  BY <1>2, <1>3, <1>4, <1>5, DecimalWritten
<1>7. IsText(digits, skipped \cup DigitsOf(no), n) /\ n >= 1 /\ digits[1] \in DigitsOf(no)
  BY <1>6, <1>s DEF Reads
<1>8. ~IsSeparator(digits[1])
  BY <1>7, <1>s, SeparatorIsNoDigit DEF IsSeparator
<1>9. prefix \in Seq(StartChars)
  BY <1>1, <1>2, StartIs DEF prefix
<1>10. WritePrefixed(prefix, digits, s) = prefix \o digits
  <2> DEFINE S == StartChars \cup (skipped \cup DigitsOf(no))
             p == Len(prefix)
  <2>1. StartChars \subseteq S /\ skipped \cup DigitsOf(no) \subseteq S /\ FillChar(s) \in S
    BY <1>1, Zenon DEF FillChar, StartChars
  <2> HIDE DEF S
  <2>2. IsText(prefix, StartChars, p)
    BY <1>9 DEF IsText
  <2>3. IsText(prefix, S, p) /\ IsText(digits, S, n)
    BY <1>7, <2>1, <2>2, WiderText
  <2>4. s.align # "numeric" => s.width = 0
    BY <1>1
  <2> HIDE DEF p
  <2>5. WritePrefixed(prefix, digits, s) = prefix \o FilledWith(FillChar(s), FillSize(s, p, n), digits)
    BY <1>1, <2>1, <2>3, <2>4, PrefixedIs
  <2>6. FillSize(s, p, n) = 0
    BY <1>0, <1>1, <1>7 DEF FillSize, IsText
  <2>7. FilledWith(FillChar(s), 0, digits) = digits
    <3>1. Repeated(FillChar(s), 0) = << >>
      BY NothingRepeated
    <3>2. << >> \o digits = digits
      BY <2>3 DEF IsText
    <3> QED
      BY <3>1, <3>2 DEF FilledWith
  <2> QED
    BY <2>5, <2>6, <2>7
<1> QED
  BY <1>3, <1>6, <1>7, <1>8, <1>10, <1>s DEF prefix, digits

\* Separators stand exactly before each group of three digits.
THEOREM GroupedInThrees ==
  ASSUME NEW value \in WordValues
  PROVE  Grouped(value)
<1> DEFINE s == SeparatedSpecs
           digits == IntDigits(value, s)
           sign == SignFor(value, s)
           line == WriteInt(value, s)
           p == IF value < 0 THEN 1 ELSE 0
           D == {ThousandsSep} \cup DigitsOf(FALSE)
<1>1. PICK n : /\ line = sign \o digits /\ IsText(digits, D, n) /\ n >= 1
               /\ SeparatorsAt(digits, n, 0) /\ ~IsSeparator(digits[1])
  BY SeparatedText
<1>2. value \in Int
  BY WordIs DEF WordValues
<1>3. /\ sign = (IF value < 0 THEN <<"-">> ELSE << >>)
  <2>1. "SIGN" \notin s.flags
    BY DEF SeparatedSpecs
  <2> QED
    BY <2>1, Zenon DEF SignFor, SignOf
<1> DEFINE S == {"-"} \cup D
<1>4. IsText(sign, S, p) /\ IsText(digits, S, n)
  <2>1. IsText(sign, S, p)
    <3>1. "-" \in S
      OBVIOUS
    <3> HIDE DEF S, sign
    <3>2. CASE value < 0
      <4>1. sign = <<"-">> /\ p = 1
        BY <1>3, <3>2
      <4> QED
        BY <3>1, <4>1 DEF IsText
    <3>3. CASE ~(value < 0)
      <4>1. sign = << >> /\ p = 0
        BY <1>3, <3>3
      <4> QED
        BY <4>1, NoText
    <3> QED
      BY <3>2, <3>3
  <2>2. D \subseteq S
    OBVIOUS
  <2> HIDE DEF D, S, digits
  <2> QED
    BY <1>1, <2>1, <2>2, WiderText
<1>5. value < 0 => sign[1] = "-"
  BY <1>3
<1> HIDE DEF S, D, sign, digits, line, s
<1>6. IsText(line, S, p + n) /\ Begins(line, sign, p) /\ Goes(line, digits, p, n)
  BY <1>1, <1>4, Joined
<1>7. n \in Nat /\ p \in Nat /\ Len(line) = p + n /\ DOMAIN line = 1 .. p + n
  BY <1>4, <1>6 DEF IsText
<1>8. ASSUME NEW k \in 1 .. p + n
      PROVE  (line[k] = ThousandsSep) <=> (p + n - k + 1) % 4 = 0 /\ k > p + 1
  <2>1. CASE k <= p
    <3>1. k = 1 /\ p = 1 /\ value < 0 /\ line[k] = sign[1]
      BY <1>6, <1>7, <2>1 DEF Begins
    <3>2. line[k] # ThousandsSep
      BY <1>5, <3>1, SeparatorIsNoSign
    <3> QED
      BY <3>1, <3>2
  <2>2. CASE k > p
    <3> DEFINE j == k - p
    <3>1. j \in 1 .. n /\ k = p + j
      BY <1>7, <2>2
    <3> HIDE DEF j
    <3>2. line[k] = digits[j]
      BY <1>6, <3>1 DEF Goes
    <3>3. IsSeparator(digits[j]) <=> (n - j + 0) % 4 = 3
      BY <1>1, <3>1 DEF SeparatorsAt
    <3>4. (n - j + 0) % 4 = 3 <=> (p + n - k + 1) % 4 = 0
      <4> HIDE DEF p
      <4> DEFINE x == n - j
      <4>1. x \in Nat /\ n - j + 0 = x /\ p + n - k + 1 = x + 1
        BY <1>7, <3>1
      <4> HIDE DEF x
      <4>2. x % 4 = 3 <=> (x + 1) % 4 = 0
        BY <4>1
      <4> QED
        BY <4>1, <4>2
    <3>5. j = 1 <=> k = p + 1
      BY <1>7, <3>1
    <3>6. line[k] = ThousandsSep <=> IsSeparator(digits[j])
      BY <3>2 DEF IsSeparator
    <3> QED
      BY <1>1, <1>7, <3>1, <3>3, <3>4, <3>5, <3>6
  <2> QED
    BY <1>7, <2>1, <2>2
<1>9. p + 1 = IF value < 0 THEN 2 ELSE 1
  OBVIOUS
<1>10. Grouped(value) = (\A k \in DOMAIN line : (line[k] = ThousandsSep)
                            <=> (Len(line) - k + 1) % 4 = 0 /\ k > (IF value < 0 THEN 2 ELSE 1))
  BY Zenon DEF Grouped, line, s, SeparatedSpecs
<1> QED
  BY <1>7, <1>8, <1>9, <1>10

-----------------------------------------------------------------------------
(* Padding.                                                                *)

\* Padding leaves a text in one piece between fill characters.
Missing(width, t) == IF width > Len(t) THEN width - Len(t) ELSE 0
Before(align, missing) == IF align = "right" THEN missing ELSE IF align = "center" THEN missing \div 2 ELSE 0
Between(fill, before, t, after) == Repeated(fill, before) \o t \o Repeated(fill, after)

LEMMA PaddedIs ==
  ASSUME NEW s, s.width \in Nat, s.align # "numeric", NEW S, NEW t \in Seq(S), s.fill \in S,
         NEW m, m = Missing(s.width, t), NEW b, b = Before(s.align, m)
  PROVE  WritePadded(s, t) = Between(s.fill, b, t, m - b)
<1> DEFINE fill(n) == Repeated(s.fill, n)
<1>1. m \in Nat /\ Len(t) \in Nat
  BY DEF Missing
<1>2. fill(0) = << >>
  BY NothingRepeated
<1>3. << >> \o t = t /\ t \o << >> = t
  OBVIOUS
<1>4. ASSUME NEW n \in Nat
      PROVE  << >> \o t \o fill(n) = t \o fill(n) /\ fill(n) \o t \o << >> = fill(n) \o t
  <2>1. fill(n) \in Seq(S)
    BY RepeatedText DEF IsText
  <2> HIDE DEF fill
  <2>2. fill(n) \o t \in Seq(S)
    BY <2>1
  <2>3. (fill(n) \o t) \o << >> = fill(n) \o t
    BY <2>2
  <2> QED
    BY <1>3, <2>3
<1>5. CASE s.width <= Len(t)
  <2>1. m = 0 /\ b = 0 /\ m - b = 0
    BY <1>1, <1>5 DEF Missing, Before
  <2>2. s.width - Len(t) <= 0
    BY <1>1, <1>5
  <2>3. WritePadded(s, t) = t
    BY <2>2, Zenon DEF WritePadded
  <2> QED
    BY <1>2, <1>3, <2>1, <2>3 DEF Between
<1>6. CASE s.width > Len(t)
  <2>1. m = s.width - Len(t) /\ m > 0 /\ ~(m <= 0)
    BY <1>1, <1>6 DEF Missing
  <2>2. CASE s.align = "right"
    <3>1. WritePadded(s, t) = fill(m) \o t
      BY <2>1, <2>2, Zenon DEF WritePadded
    <3>2. b = m /\ m - b = 0
      BY <1>1, <2>2 DEF Before
    <3> QED
      BY <1>1, <1>2, <1>4, <3>1, <3>2 DEF Between
  <2>3. CASE s.align = "center"
    <3>0. s.align # "right"
      BY <2>3
    <3>1. WritePadded(s, t) = fill(m \div 2) \o t \o fill(m - m \div 2)
      BY <2>1, <2>3, <3>0, Zenon DEF WritePadded
    <3>2. b = m \div 2
      BY <1>1, <2>3 DEF Before
    <3> QED
      BY <3>1, <3>2 DEF Between
  <2>4. CASE s.align # "right" /\ s.align # "center"
    <3>1. WritePadded(s, t) = t \o fill(m)
      BY <2>1, <2>4, Zenon DEF WritePadded
    <3>2. b = 0 /\ m - b = m
      BY <1>1, <2>4 DEF Before
    <3> QED
      BY <1>1, <1>2, <1>4, <3>1, <3>2 DEF Between
  <2> QED
    BY <2>2, <2>3, <2>4
<1>7. s.width <= Len(t) \/ s.width > Len(t)
  BY <1>1
<1> QED
  BY <1>5, <1>6, <1>7

\* The specifications that leave padding to write_padded.
PadSpecs(fills, types) ==
  [fill : fills, align : Alignments \ {"numeric"}, flags : SUBSET Flags, width : Nat, precision : Int, type : types]

\* The arguments that stand to the right, unless asked otherwise.
IsNumber(arg, specs) ==
  \/ arg.type \in {"int", "uint", "long_long", "ulong_long", "pointer"}
  \/ arg.type = "double" /\ arg.finite
  \/ arg.type \in {"bool", "char"} /\ specs.type \notin {"none", "c"}

Unpadded(specs) == [specs EXCEPT !.width = 0]
AlignedFor(arg, specs) == IF IsNumber(arg, specs) THEN RightByDefault(specs) ELSE specs

\* An argument is padded as the text that it is without a width.
LEMMA PadsWhatItWrites ==
  ASSUME NEW fills, NEW types, NEW specs \in PadSpecs(fills, types), NEW arg, NEW S, specs.fill \in S,
         NEW t \in Seq(S), WriteArg(arg, Unpadded(specs)) = t, WriteArg(arg, specs) = WritePadded(AlignedFor(arg, specs), t)
  PROVE  PadsOnly(arg, specs)
<1> DEFINE r == AlignedFor(arg, specs)
           m == Missing(specs.width, t)
           right == specs.align = "right" \/ (specs.align = "default" /\ IsNumber(arg, specs))
           b == CASE right -> m [] ~right /\ specs.align = "center" -> m \div 2 [] OTHER -> 0
<1>1. specs.width \in Nat /\ specs.align \in Alignments /\ specs.align # "numeric"
  BY DEF PadSpecs
<1>2. /\ r.width = specs.width /\ r.fill = specs.fill
      /\ r.align = IF specs.align = "default" /\ IsNumber(arg, specs) THEN "right" ELSE specs.align
  BY DEF AlignedFor, RightByDefault, PadSpecs
<1> HIDE DEF r
<1>3. r.align # "numeric" /\ r.width \in Nat /\ r.fill \in S
  BY <1>1, <1>2
<1>4. WritePadded(r, t) = Between(specs.fill, Before(r.align, m), t, m - Before(r.align, m))
  <2>1. m = Missing(r.width, t)
    BY <1>2
  <2> HIDE DEF m
  <2> QED
    BY <1>2, <1>3, <2>1, PaddedIs
<1>5. Before(r.align, m) = b
  <2> HIDE DEF m
  <2>1. CASE right
    <3>1. r.align = "right"
      BY <1>2, <2>1
    <3>2. b = m
      BY <2>1, Zenon
    <3> QED
      BY <3>1, <3>2 DEF Before
  <2>2. CASE ~right
    <3>1. r.align = specs.align /\ r.align # "right"
      BY <1>2, <2>2
    <3>2. b = IF specs.align = "center" THEN m \div 2 ELSE 0
      BY <2>2, ZenonT(60)
    <3> QED
      BY <3>1, <3>2 DEF Before
  <2> QED
    BY <2>1, <2>2
<1>6. WriteArg(arg, specs) = Repeated(specs.fill, b) \o t \o Repeated(specs.fill, m - b)
  BY <1>4, <1>5 DEF Between, r
<1>7. WriteArg(arg, [specs EXCEPT !.width = 0]) = t
  BY DEF Unpadded
<1> QED
  BY <1>6, <1>7, Zenon DEF PadsOnly, IsNumber, Missing

-----------------------------------------------------------------------------
(* Integers are padded as texts are.                                       *)

\* The text that write_int pads, when it is prefix before t.
PadsAs(prefix, digits, s, t, S, size) ==
    /\ WritePrefixed(prefix, digits, s) = WritePadded(RightByDefault(s), prefix \o t)
    /\ IsText(prefix \o t, S, size)

LEMMA PadsPrefixed ==
  ASSUME NEW fills, NEW s \in WriteSpecs(fills),
         NEW S, NEW prefix, NEW digits, NEW p, NEW n, IsText(prefix, S, p), IsText(digits, S, n), FillChar(s) \in S,
         NEW l, l = FillSize(s, p, n), NEW c, c = FillChar(s), NEW t, t = FilledWith(c, l, digits)
  PROVE  PadsAs(prefix, digits, s, t, S, p + (l + n))
BY PrefixedPadded DEF PadsAs

\* The characters that an integer is written with.
IntChars(s, fills) == fills \cup (StartChars \cup Alphabet(IsUpper(s), SkippedOf(s)))

LEMMA IntPads ==
  ASSUME NEW fills, NEW s \in WriteSpecs(fills), s.align # "numeric", NEW value \in WordValues,
         NEW t, t = WriteInt(value, Unpadded(s))
  PROVE  /\ t \in Seq(IntChars(s, fills)) /\ s.fill \in IntChars(s, fills)
         /\ WriteInt(value, s) = WritePadded(RightByDefault(s), t)
<1> DEFINE z == Unpadded(s)
           S == IntChars(s, fills)
           prefix == IntPrefix(value, s)
           digits == IntDigits(value, s)
           p == Len(prefix)
<1>1. /\ z.fill = s.fill /\ z.align = s.align /\ z.flags = s.flags /\ z.precision = s.precision /\ z.type = s.type
      /\ z.width = 0 /\ z \in WriteSpecs(fills)
  BY DEF Unpadded, WriteSpecs
<1>2. s.fill \in fills /\ s.precision \in Int
  BY DEF WriteSpecs
<1>z. t = WriteInt(value, z)
  OBVIOUS
<1> HIDE DEF z
<1>3. ClearFill(s) /\ ClearFill(z)
  BY <1>1 DEF ClearFill
<1>4. PICK n, a : /\ WriteInt(value, s) = WritePrefixed(prefix, digits, s)
                  /\ Numeral(prefix, digits, StartOf(value, s), n, a, s, Magnitude(value))
  BY <1>3, IntWritten DEF IsWritten
<1>5. WriteInt(value, z) = WritePrefixed(IntPrefix(value, z), IntDigits(value, z), z)
  BY <1>1, <1>3, IntWritten DEF IsWritten
<1>6. IntPrefix(value, z) = prefix /\ IntDigits(value, z) = digits
  <2>1. SignFor(value, z) = SignFor(value, s) /\ IsUpper(z) = IsUpper(s) /\ PlainPrefix(z) = PlainPrefix(s)
    BY <1>1, Zenon DEF SignFor, SignOf, IsUpper, PlainPrefix
  <2>2. OctalPrefix(z, CountInBase(AbsValue(value), 3)) = OctalPrefix(s, CountInBase(AbsValue(value), 3))
    BY <1>1, Zenon DEF OctalPrefix
  <2>3. IntPrefix(value, z) = prefix
    BY <1>1, <2>1, <2>2 DEF IntPrefix
  <2>4. IntDigits(value, z) = digits
    BY <1>1, <2>1 DEF IntDigits
  <2> QED
    BY <2>3, <2>4
<1>7. /\ Reads(digits, Magnitude(value), n, BaseOf(s.type), IsUpper(s), SkippedOf(s))
      /\ a \in {0, 1} /\ IsStart(prefix, StartOf(value, s), a)
  BY <1>4 DEF Numeral
<1>8. IsText(digits, S, n)
  <2>1. IsText(digits, Alphabet(IsUpper(s), SkippedOf(s)), n)
    BY <1>7 DEF Reads, Alphabet
  <2>2. Alphabet(IsUpper(s), SkippedOf(s)) \subseteq S
    BY DEF IntChars
  <2> HIDE DEF S, digits
  <2> QED
    BY <2>1, <2>2, WiderText
<1>9. IsText(prefix, S, p)
  <2> DEFINE start == StartOf(value, s)
             q == Len(start)
             o == Repeated("0", a)
  <2>1. start \in Seq(StartChars)
    <3>1. value \in Int
      BY WordIs DEF WordValues
    <3> QED
      BY <3>1, StartText
  <2>2. StartChars \subseteq S /\ "0" \in S
    BY DEF StartChars, IntChars
  <2>3. prefix = start \o o
    BY <1>7 DEF IsStart
  <2> HIDE DEF start, S
  <2>4. start \in Seq(S)
    BY <2>1, <2>2, SeqMonotonic
  <2>5. o \in Seq(S)
    <3>1. a \in Nat
      BY <1>7
    <3> QED
      BY <2>2, <3>1, RepeatedText DEF IsText
  <2> HIDE DEF o, prefix
  <2>6. prefix \in Seq(S)
    BY <2>3, <2>4, <2>5
  <2> QED
    BY <2>6 DEF IsText
<1> DEFINE c == "0"
<1>10. c = FillChar(s) /\ c = FillChar(z) /\ FillChar(s) \in S /\ FillChar(z) \in S /\ s.fill \in S
  BY <1>1, <1>2 DEF FillChar, IntChars, StartChars
<1> HIDE DEF S, prefix, digits, p, c
<1> DEFINE l == FillSize(s, p, n)
           f == FilledWith(c, l, digits)
           line == prefix \o f
<1>11. FillSize(z, p, n) = l
  BY <1>1 DEF FillSize
<1>12. l = FillSize(s, p, n) /\ f = FilledWith(c, l, digits)
  OBVIOUS
<1> HIDE DEF l, f
<1>13. PadsAs(prefix, digits, s, f, S, p + (l + n))
  BY <1>8, <1>9, <1>10, <1>12, PadsPrefixed
<1>14. PadsAs(prefix, digits, z, f, S, p + (l + n))
  BY <1>1, <1>8, <1>9, <1>10, <1>11, <1>12, PadsPrefixed
<1>17. /\ WritePrefixed(prefix, digits, s) = WritePadded(RightByDefault(s), line)
       /\ WritePrefixed(prefix, digits, z) = WritePadded(RightByDefault(z), line)
       /\ IsText(line, S, p + (l + n))
  BY <1>13, <1>14 DEF PadsAs
<1> HIDE DEF line
<1>15. WritePadded(RightByDefault(z), line) = line /\ line \in Seq(S)
  <2>1. line \in Seq(S) /\ z.width <= Len(line)
    BY <1>1, <1>17 DEF IsText
  <2> QED
    BY <1>1, <2>1, NotPadded
<1>16. t = line
  BY <1>5, <1>6, <1>17, <1>15, <1>z
<1> QED
  BY <1>4, <1>10, <1>17, <1>15, <1>16 DEF S

-----------------------------------------------------------------------------
(* Every argument is padded as asked for.                                  *)

\* The arguments of basic_format_args, their texts over chars, and the types they go with.
ArgOK(arg, chars) ==
  /\ arg.type \in IntTypes \cup {"bool", "char", "double", "string", "pointer"}
  /\ arg.type \in IntTypes \cup {"bool", "char", "pointer"} => arg.value \in WordValues
  /\ arg.type = "char" => arg.char \in chars
  /\ arg.type = "double" => arg.text \in Seq(chars) /\ arg.negative \in BOOLEAN /\ arg.finite \in BOOLEAN
  /\ arg.type = "string" => arg.text \in Seq(chars)
ArgFits(arg, specs) ==
  /\ arg.type \in IntTypes \cup {"bool"} => specs.type \in IntSpecs
  /\ arg.type = "char" => specs.type \in IntSpecs \cup {"c"}

\* write_padded for a text that is not a number.
PlainlyPadded(arg, specs, t) ==
  WriteArg(arg, specs) = WritePadded(AlignedFor(arg, specs), t) /\ WriteArg(arg, Unpadded(specs)) = WritePadded(AlignedFor(arg, Unpadded(specs)), t)

LEMMA PlainPads ==
  ASSUME NEW fills, NEW types, NEW specs \in PadSpecs(fills, types), NEW arg, NEW S, specs.fill \in S,
         NEW t \in Seq(S), PlainlyPadded(arg, specs, t)
  PROVE  PadsOnly(arg, specs)
<1> DEFINE z == Unpadded(specs)
           r == AlignedFor(arg, z)
<1>1. r.width = 0
  BY DEF AlignedFor, RightByDefault, Unpadded, PadSpecs
<1>2. WriteArg(arg, specs) = WritePadded(AlignedFor(arg, specs), t) /\ WriteArg(arg, z) = WritePadded(r, t)
  BY DEF PlainlyPadded
<1> HIDE DEF r
<1>3. r.width - Len(t) <= 0
  BY <1>1
<1>4. WritePadded(r, t) = t
  BY <1>3, Zenon DEF WritePadded
<1> QED
  BY <1>2, <1>4, PadsWhatItWrites

\* What holds of the specifications without a width.
LEMMA UnpaddedIs ==
  ASSUME NEW fills, NEW types, NEW specs \in PadSpecs(fills, types)
  PROVE  /\ Unpadded(specs).fill = specs.fill /\ Unpadded(specs).align = specs.align /\ Unpadded(specs).flags = specs.flags
         /\ Unpadded(specs).precision = specs.precision /\ Unpadded(specs).type = specs.type
         /\ specs.fill \in fills /\ specs.align # "numeric" /\ specs.align \in Alignments /\ specs.precision \in Int
         /\ specs.type \in types /\ specs.flags \in SUBSET Flags /\ specs.width \in Nat
         /\ (specs.type \in IntSpecs => specs \in WriteSpecs(fills))
BY DEF Unpadded, PadSpecs, WriteSpecs

\* What is written as an integer.
LEMMA NumberPads ==
  ASSUME NEW fills, NEW types, NEW specs \in PadSpecs(fills, types), NEW arg, IsNumber(arg, specs),
         NEW s \in WriteSpecs(fills), s.align # "numeric", s.fill = specs.fill, NEW value \in WordValues,
         WriteArg(arg, specs) = WriteInt(value, s), WriteArg(arg, Unpadded(specs)) = WriteInt(value, Unpadded(s)),
         s.align = specs.align, s.width = specs.width
  PROVE  PadsOnly(arg, specs)
<1> DEFINE t == WriteInt(value, Unpadded(s))
           S == IntChars(s, fills)
<1>1. /\ t \in Seq(S) /\ s.fill \in S /\ WriteInt(value, s) = WritePadded(RightByDefault(s), t)
  BY IntPads
<1> HIDE DEF t, S
<1>2. WritePadded(RightByDefault(s), t) = WritePadded(RightByDefault(specs), t)
  <2>1. /\ RightByDefault(s).fill = RightByDefault(specs).fill /\ RightByDefault(s).align = RightByDefault(specs).align
        /\ RightByDefault(s).width = RightByDefault(specs).width
    BY DEF RightByDefault, PadSpecs, WriteSpecs
  <2> QED
    BY <2>1, Zenon DEF WritePadded
<1>3. WriteArg(arg, specs) = WritePadded(AlignedFor(arg, specs), t)
  BY <1>1, <1>2 DEF AlignedFor
<1>4. WriteArg(arg, Unpadded(specs)) = t
  BY DEF t
<1> QED
  BY <1>1, <1>3, <1>4, PadsWhatItWrites

LEMMA IntArgPads ==
  ASSUME NEW chars, NEW arg, ArgOK(arg, chars), NEW fills, NEW types, NEW specs \in PadSpecs(fills, types), ArgFits(arg, specs),
         \/ arg.type \in IntTypes
         \/ arg.type = "bool" /\ specs.type # "none"
         \/ arg.type = "char" /\ specs.type \notin {"none", "c"}
  PROVE  PadsOnly(arg, specs)
<1>1. specs.type \in IntSpecs /\ specs \in WriteSpecs(fills) /\ specs.align # "numeric"
  BY UnpaddedIs DEF ArgFits
<1>2. arg.value \in WordValues
  BY DEF ArgOK
<1>3. IsNumber(arg, specs)
  BY <1>1 DEF IsNumber, IntTypes, IntSpecs
<1>4. ASSUME NEW s, s.type = specs.type
      PROVE  WriteArg(arg, s) = WriteInt(arg.value, s)
  <2>1. CASE arg.type \in IntTypes
    <3>1. arg.type \in {"int", "uint", "long_long", "ulong_long"} /\ arg.type \notin {"bool", "char", "double", "string", "pointer"}
      BY <2>1 DEF IntTypes
    <3> QED
      BY <3>1, Zenon DEF WriteArg
  <2>2. CASE arg.type = "bool" /\ specs.type # "none"
    <3>1. arg.type \notin {"int", "uint", "long_long", "ulong_long"} /\ arg.type \notin {"char", "double", "string", "pointer"} /\ s.type # "none"
      BY <1>4, <2>2
    <3> QED
      BY <2>2, <3>1, Zenon DEF WriteArg
  <2>3. CASE arg.type = "char" /\ specs.type \notin {"none", "c"}
    <3>1. arg.type \notin {"int", "uint", "long_long", "ulong_long"} /\ arg.type \notin {"bool", "double", "string", "pointer"} /\ s.type \notin {"none", "c"}
      BY <1>4, <2>3
    <3> QED
      BY <2>3, <3>1, Zenon DEF WriteArg
  <2> QED
    BY <2>1, <2>2, <2>3
<1>5. WriteArg(arg, specs) = WriteInt(arg.value, specs) /\ WriteArg(arg, Unpadded(specs)) = WriteInt(arg.value, Unpadded(specs))
  <2>1. Unpadded(specs).type = specs.type
    BY UnpaddedIs
  <2> QED
    BY <1>4, <2>1
<1> QED
  BY <1>1, <1>2, <1>3, <1>5, NumberPads

LEMMA PointerPads ==
  ASSUME NEW chars, NEW arg, ArgOK(arg, chars), NEW fills, NEW types, NEW specs \in PadSpecs(fills, types),
         arg.type = "pointer"
  PROVE  PadsOnly(arg, specs)
<1> DEFINE s == [specs EXCEPT !.flags = {"HASH"}, !.type = "x"]
<1>1. s.fill = specs.fill /\ s.align = specs.align /\ s.width = specs.width /\ s \in WriteSpecs(fills) /\ s.align # "numeric"
  BY DEF PadSpecs, WriteSpecs, Flags, IntSpecs
<1>2. arg.value \in WordValues
  BY DEF ArgOK
<1>3. IsNumber(arg, specs)
  BY DEF IsNumber
<1>4. Unpadded(s) = [Unpadded(specs) EXCEPT !.flags = {"HASH"}, !.type = "x"]
  BY DEF Unpadded, PadSpecs
<1>5. ASSUME NEW u
      PROVE  WriteArg(arg, u) = WritePointer(arg.value, u)
  <2>1. arg.type \notin {"int", "uint", "long_long", "ulong_long"} /\ arg.type \notin {"bool", "char", "double", "string"}
    OBVIOUS
  <2> QED
    BY <2>1, Zenon DEF WriteArg
<1>6. WriteArg(arg, specs) = WriteInt(arg.value, s)
  BY <1>5, Zenon DEF WritePointer
<1>7. WriteArg(arg, Unpadded(specs)) = WriteInt(arg.value, Unpadded(s))
  <2>1. WriteArg(arg, Unpadded(specs)) = WriteInt(arg.value, [Unpadded(specs) EXCEPT !.flags = {"HASH"}, !.type = "x"])
    BY <1>5, Zenon DEF WritePointer
  <2> QED
    BY <1>4, <2>1
<1> HIDE DEF s
<1> QED
  BY <1>1, <1>2, <1>3, <1>6, <1>7, NumberPads

\* A text, cut to the precision.
CutTo(line, precision) == IF precision \in 0 .. Len(line) THEN SubSeq(line, 1, precision) ELSE line

LEMMA CutIsText ==
  ASSUME NEW S, NEW line \in Seq(S), NEW precision
  PROVE  CutTo(line, precision) \in Seq(S)
<1>1. CASE precision \in 0 .. Len(line)
  <2>1. SubSeq(line, 1, precision) \in Seq(S)
    BY <1>1
  <2> QED
    BY <1>1, <2>1 DEF CutTo
<1>2. CASE precision \notin 0 .. Len(line)
  BY <1>2 DEF CutTo
<1> QED
  BY <1>1, <1>2

LEMMA WriteTextIs ==
  ASSUME NEW line, NEW specs
  PROVE  WriteText(line, specs) = WritePadded(specs, CutTo(line, specs.precision))
BY Zenon DEF WriteText, CutTo

LEMMA TextArgPads ==
  ASSUME NEW chars, NEW arg, NEW fills, NEW types, NEW specs \in PadSpecs(fills, types),
         ~IsNumber(arg, specs), ~IsNumber(arg, Unpadded(specs)), NEW line \in Seq(chars),
         WriteArg(arg, specs) = WriteText(line, specs), WriteArg(arg, Unpadded(specs)) = WriteText(line, Unpadded(specs))
  PROVE  PadsOnly(arg, specs)
<1> DEFINE S == chars \cup fills
           t == CutTo(line, specs.precision)
<1>1. Unpadded(specs).precision = specs.precision /\ specs.fill \in S
  BY UnpaddedIs
<1>2. chars \subseteq S
  OBVIOUS
<1> HIDE DEF S
<1>3. line \in Seq(S)
  BY <1>2, SeqMonotonic
<1>4. t \in Seq(S)
  BY <1>3, CutIsText
<1>5. WriteArg(arg, specs) = WritePadded(specs, t) /\ WriteArg(arg, Unpadded(specs)) = WritePadded(Unpadded(specs), t)
  BY <1>1, WriteTextIs
<1> HIDE DEF t
<1>6. PlainlyPadded(arg, specs, t)
  BY <1>5 DEF PlainlyPadded, AlignedFor
<1> QED
  BY <1>1, <1>4, <1>6, PlainPads

BoolText(value) == IF value = 1 THEN <<"t", "r", "u", "e">> ELSE <<"f", "a", "l", "s", "e">>
BoolChars == {"t", "r", "u", "e", "f", "a", "l", "s"}

LEMMA FewAreText ==
  ASSUME NEW S, NEW a \in S, NEW b \in S, NEW c \in S, NEW d \in S, NEW e \in S
  PROVE  <<a, b, c, d>> \in Seq(S) /\ <<a, b, c, d, e>> \in Seq(S)
OBVIOUS

LEMMA BoolIsText ==
  ASSUME NEW value
  PROVE  BoolText(value) \in Seq(BoolChars)
<1>1. /\ "t" \in BoolChars /\ "r" \in BoolChars /\ "u" \in BoolChars /\ "e" \in BoolChars
      /\ "f" \in BoolChars /\ "a" \in BoolChars /\ "l" \in BoolChars /\ "s" \in BoolChars
  BY DEF BoolChars
<1>2. <<"t", "r", "u", "e">> \in Seq(BoolChars)
  BY <1>1, FewAreText
<1>3. <<"f", "a", "l", "s", "e">> \in Seq(BoolChars)
  BY <1>1, FewAreText
<1> QED
  BY <1>2, <1>3 DEF BoolText

LEMMA BoolTextArg ==
  ASSUME NEW arg, NEW fills, NEW types, NEW specs \in PadSpecs(fills, types), arg.type = "bool", specs.type = "none"
  PROVE  PadsOnly(arg, specs)
<1> DEFINE line == BoolText(arg.value)
<1>1. line \in Seq(BoolChars)
  BY BoolIsText
<1>2. Unpadded(specs).type = "none"
  BY UnpaddedIs
<1>3. ~IsNumber(arg, specs) /\ ~IsNumber(arg, Unpadded(specs))
  BY <1>2 DEF IsNumber
<1>4. ASSUME NEW u, u.type = "none"
      PROVE  WriteArg(arg, u) = WriteText(line, u)
  <2>1. arg.type \notin {"int", "uint", "long_long", "ulong_long"} /\ arg.type \notin {"char", "double", "string", "pointer"}
    OBVIOUS
  <2> QED
    BY <1>4, <2>1, Zenon DEF WriteArg, BoolText
<1> HIDE DEF line
<1>5. WriteArg(arg, specs) = WriteText(line, specs) /\ WriteArg(arg, Unpadded(specs)) = WriteText(line, Unpadded(specs))
  BY <1>2, <1>4
<1> QED
  BY <1>1, <1>3, <1>5, TextArgPads

LEMMA StringArg ==
  ASSUME NEW chars, NEW arg, ArgOK(arg, chars), NEW fills, NEW types, NEW specs \in PadSpecs(fills, types), arg.type = "string"
  PROVE  PadsOnly(arg, specs)
<1>1. arg.text \in Seq(chars)
  BY DEF ArgOK
<1>2. ~IsNumber(arg, specs) /\ ~IsNumber(arg, Unpadded(specs))
  BY DEF IsNumber
<1>3. ASSUME NEW u
      PROVE  WriteArg(arg, u) = WriteText(arg.text, u)
  <2>1. arg.type \notin {"int", "uint", "long_long", "ulong_long"} /\ arg.type \notin {"bool", "char", "double", "pointer"}
    OBVIOUS
  <2> QED
    BY <2>1, Zenon DEF WriteArg
<1> QED
  BY <1>1, <1>2, <1>3, TextArgPads

LEMMA CharArg ==
  ASSUME NEW chars, NEW arg, ArgOK(arg, chars), NEW fills, NEW types, NEW specs \in PadSpecs(fills, types), arg.type = "char",
         specs.type \in {"none", "c"}
  PROVE  PadsOnly(arg, specs)
<1> DEFINE t == <<arg.char>>
           S == chars \cup fills
<1>1. t \in Seq(S) /\ specs.fill \in S
  BY UnpaddedIs DEF ArgOK
<1>2. Unpadded(specs).type = specs.type
  BY UnpaddedIs
<1>3. ~IsNumber(arg, specs) /\ ~IsNumber(arg, Unpadded(specs))
  BY <1>2 DEF IsNumber
<1>4. ASSUME NEW u, u.type \in {"none", "c"}
      PROVE  WriteArg(arg, u) = WritePadded(u, t)
  <2>1. arg.type \notin {"int", "uint", "long_long", "ulong_long"} /\ arg.type \notin {"bool", "double", "string", "pointer"}
    OBVIOUS
  <2> QED
    BY <1>4, <2>1, Zenon DEF WriteArg
<1>5. PlainlyPadded(arg, specs, t)
  BY <1>2, <1>3, <1>4 DEF PlainlyPadded, AlignedFor
<1> HIDE DEF t, S
<1> QED
  BY <1>1, <1>5, PlainPads

LEMMA DoubleArg ==
  ASSUME NEW chars, NEW arg, ArgOK(arg, chars), NEW fills, NEW types, NEW specs \in PadSpecs(fills, types), arg.type = "double"
  PROVE  PadsOnly(arg, specs)
<1> DEFINE sign == SignOf(arg.negative, specs)
           t == sign \o arg.text
           S == (chars \cup StartChars) \cup fills
           z == Unpadded(specs)
<1>1. arg.text \in Seq(chars) /\ arg.negative \in BOOLEAN /\ arg.finite \in BOOLEAN
  BY DEF ArgOK
<1>2. z.flags = specs.flags /\ z.align = specs.align /\ specs.align # "numeric" /\ specs.fill \in S
  BY UnpaddedIs
<1> HIDE DEF z
<1>3. SignOf(arg.negative, z) = sign
  BY <1>2, Zenon DEF SignOf
<1>4. t \in Seq(S)
  <2>1. sign \in Seq(StartChars)
    BY <1>1, SignText
  <2>2. chars \subseteq S /\ StartChars \subseteq S
    OBVIOUS
  <2> HIDE DEF S, sign
  <2>3. sign \in Seq(S) /\ arg.text \in Seq(S)
    BY <1>1, <2>1, <2>2, SeqMonotonic
  <2> QED
    BY <2>3
<1> HIDE DEF S
<1>5. ASSUME NEW u, u.align # "numeric", SignOf(arg.negative, u) = sign
      PROVE  WriteArg(arg, u) = WritePadded(IF IsNumber(arg, u) THEN RightByDefault(u) ELSE u, t)
  <2>1. arg.type \notin {"int", "uint", "long_long", "ulong_long"} /\ arg.type \notin {"bool", "char", "string", "pointer"}
        /\ (IsNumber(arg, u) <=> arg.finite)
    BY DEF IsNumber
  <2>2. WriteArg(arg, u) = WriteDouble(arg, u)
    BY <2>1, Zenon DEF WriteArg
  <2>3. CASE arg.finite
    <3>1. WriteDouble(arg, u) = WritePadded(RightByDefault(u), t)
      BY <1>5, <2>3, Zenon DEF WriteDouble
    <3> QED
      BY <2>1, <2>2, <2>3, <3>1
  <2>4. CASE ~arg.finite
    <3>1. WriteDouble(arg, u) = WritePadded(u, t)
      BY <1>5, <2>4, Zenon DEF WriteDouble
    <3> QED
      BY <2>1, <2>2, <2>4, <3>1
  <2> QED
    BY <2>3, <2>4
<1>6. PlainlyPadded(arg, specs, t)
  BY <1>2, <1>3, <1>5 DEF PlainlyPadded, AlignedFor, z
<1> HIDE DEF t
<1> QED
  BY <1>2, <1>4, <1>6, PlainPads

\* Every argument is padded as asked for, and nothing of it is changed.
THEOREM ArgsArePadded ==
  ASSUME NEW chars, NEW arg, ArgOK(arg, chars), NEW fills, NEW types, NEW specs \in PadSpecs(fills, types), ArgFits(arg, specs)
  PROVE  PadsOnly(arg, specs)
<1>1. \/ arg.type \in IntTypes
      \/ arg.type = "bool" /\ specs.type # "none"
      \/ arg.type = "char" /\ specs.type \notin {"none", "c"}
      \/ arg.type = "pointer"
      \/ arg.type = "bool" /\ specs.type = "none"
      \/ arg.type = "string"
      \/ arg.type = "char" /\ specs.type \in {"none", "c"}
      \/ arg.type = "double"
  BY DEF ArgOK, IntTypes
<1> QED
  BY <1>1, IntArgPads, PointerPads, BoolTextArg, StringArg, CharArg, DoubleArg
=============================================================================
