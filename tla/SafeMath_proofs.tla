--------------------------- MODULE SafeMath_proofs ---------------------------
(***************************************************************************)
(* Checked arithmetic is exact arithmetic moved to the nearest value of the *)
(* type, for types of any width: no test for overflow overflows itself.     *)
(***************************************************************************)
EXTENDS SafeMath, TLAPS

\* What is in the range of the type does not wrap.
LEMMA UnsignedInRange ==
    ASSUME NEW M \in Nat \ {0}, NEW x \in Uints(M)
    PROVE  Unsigned(M, x) = x
BY SMT DEF Uints, Unsigned

LEMMA SignedInRange ==
    ASSUME NEW H \in Nat \ {0}, NEW x \in Ints(H)
    PROVE  Signed(H, x) = x
<1> DEFINE M == 2 * H
           y == x + H
<1>1. M \in Nat \ {0} /\ y \in 0 .. M - 1
  BY SMT DEF Ints
<1>2. y % M = y
  <2> HIDE DEF M, y
  <2> QED BY <1>1, SMT
<1> QED
  BY <1>2, SMT DEF Ints, Signed

\* One more than the largest value wraps to the smallest.
LEMMA SignedWraps ==
    ASSUME NEW H \in Nat \ {0}, NEW x \in H .. 3 * H - 1
    PROVE  Signed(H, x) = x - 2 * H
<1> DEFINE M == 2 * H
           y == x + H
<1>1. M \in Nat \ {0} /\ y \in M .. 2 * M - 1
  BY SMT
<1>2. y % M = y - M
  <2> HIDE DEF M, y
  <2> QED BY <1>1, SMT
<1> QED
  BY <1>2, SMT DEF Signed

\* SafeAddUint32 and SafeAddUint64 return the sum, or the largest value if the
\* sum is larger.
THEOREM SafeAddUintIsExact ==
    ASSUME NEW M \in Nat \ {0}, NEW src \in Uints(M), NEW add \in Uints(M)
    PROVE  SafeAddUint(M, src, add) = Nearest(0, M - 1, src + add)
<1>1. Unsigned(M, (M - 1) - src) = (M - 1) - src
  <2>1. (M - 1) - src \in Uints(M)
    BY SMT DEF Uints
  <2> QED BY <2>1, UnsignedInRange
<1>2. ASSUME src + add <= M - 1 PROVE Unsigned(M, src + add) = src + add
  <2>1. src + add \in Uints(M)
    BY <1>2, SMT DEF Uints
  <2> QED BY <2>1, UnsignedInRange
<1> QED
  BY <1>1, <1>2, SMT DEF SafeAddUint, Nearest, Uints

\* SafeSubUint32 and SafeSubUint64 return the difference, or zero if it is
\* negative.
THEOREM SafeSubUintIsExact ==
    ASSUME NEW M \in Nat \ {0}, NEW src \in Uints(M), NEW sub \in Uints(M)
    PROVE  SafeSubUint(M, src, sub) = Nearest(0, M - 1, src - sub)
<1>1. ASSUME sub <= src PROVE Unsigned(M, src - sub) = src - sub
  <2>1. src - sub \in Uints(M)
    BY <1>1, SMT DEF Uints
  <2> QED BY <2>1, UnsignedInRange
<1> QED
  BY <1>1, SMT DEF SafeSubUint, Nearest, Uints

\* SafeAddInt64 returns the sum, or the nearest limit of the type: the tests
\* MaxInt64 - add and MinInt64 - add do not overflow where they are evaluated.
THEOREM SafeAddIntIsExact ==
    ASSUME NEW H \in Nat \ {0}, NEW src \in Ints(H), NEW add \in Ints(H)
    PROVE  SafeAddInt(H, src, add) = Nearest(-H, H - 1, src + add)
<1>1. ASSUME 0 < add PROVE Signed(H, (H - 1) - add) = (H - 1) - add
  <2>1. (H - 1) - add \in Ints(H)
    BY <1>1, SMT DEF Ints
  <2> QED BY <2>1, SignedInRange
<1>2. ASSUME add < 0 PROVE Signed(H, -H - add) = -H - add
  <2>1. -H - add \in Ints(H)
    BY <1>2, SMT DEF Ints
  <2> QED BY <2>1, SignedInRange
<1>3. ASSUME -H <= src + add, src + add <= H - 1
      PROVE  Signed(H, src + add) = src + add
  <2>1. src + add \in Ints(H)
    BY <1>3, SMT DEF Ints
  <2> QED BY <2>1, SignedInRange
<1> QED
  BY <1>1, <1>2, <1>3, SMT DEF SafeAddInt, Nearest, Ints

\* Ints and Int64s return exactly the values from min to max as long as their
\* number is one of the type.
THEOREM RandomIntsAreInRange ==
    ASSUME NEW H \in Nat \ {0}, NEW min \in Ints(H), NEW max \in Ints(H),
           min <= max, max - min < H - 1
    PROVE  RandomInts(H, min, max) = min .. max
<1>1. CASE max <= min
  <2>1. min = max
    BY <1>1, SMT DEF Ints
  <2>2. min .. max = {min}
    BY <2>1, SMT DEF Ints
  <2> QED
    BY <1>1, <2>2 DEF RandomInts
<1>2. CASE ~(max <= min)
  <2> DEFINE n == Signed(H, Signed(H, max - min) + 1)
  <2>1. max - min \in Ints(H) /\ (max - min) + 1 \in Ints(H)
    BY <1>2, SMT DEF Ints
  <2>2. n = (max - min) + 1
    BY <2>1, SignedInRange
  <2>3. RandomInts(H, min, max) = {Signed(H, i + min) : i \in 0 .. n - 1}
    <3>1. ~(n <= 0)
      BY <1>2, <2>2, SMT DEF Ints
    <3> QED
      BY <1>2, <3>1 DEF RandomInts
  <2>4. ASSUME NEW i \in 0 .. n - 1 PROVE Signed(H, i + min) = i + min
    <3>1. i + min \in Ints(H)
      <4> HIDE DEF n
      <4> QED BY <2>2, SMT DEF Ints
    <3> QED BY <3>1, SignedInRange
  <2>5. RandomInts(H, min, max) = {i + min : i \in 0 .. n - 1}
    BY <2>3, <2>4
  <2> HIDE DEF n
  <2>6. ASSUME NEW x \in min .. max
        PROVE  x - min \in 0 .. n - 1 /\ x = (x - min) + min
    BY <2>2, SMT DEF Ints
  <2>7. ASSUME NEW i \in 0 .. n - 1 PROVE i + min \in min .. max
    BY <2>2, SMT DEF Ints
  <2> QED
    BY <2>5, <2>6, <2>7
<1> QED
  BY <1>1, <1>2

\* When their number is larger than the largest value it wraps, and Intn or
\* Int63n panics: no caller gets a number outside of its interval.
THEOREM WideRandomIntsPanic ==
    ASSUME NEW H \in Nat \ {0}, NEW min \in Ints(H), NEW max \in Ints(H),
           max - min >= H - 1, min < max
    PROVE  RandomInts(H, min, max) = {}
<1> DEFINE d == Signed(H, max - min)
           n == Signed(H, d + 1)
<1>1. CASE max - min = H - 1
  <2>1. max - min \in Ints(H) /\ H \in H .. 3 * H - 1
    BY <1>1, SMT DEF Ints
  <2>2. d = H - 1
    BY <1>1, <2>1, SignedInRange
  <2>3. n = -H
    <3>1. d + 1 = H /\ H - 2 * H = -H
      BY <2>2, SMT
    <3> QED
      BY <2>1, <3>1, SignedWraps
  <2> HIDE DEF n
  <2>4. n <= 0 /\ ~(max <= min)
    BY <2>3, SMT DEF Ints
  <2> QED
    BY <2>4 DEF RandomInts, n
<1>2. CASE max - min > H - 1
  <2>1. max - min \in H .. 3 * H - 1
    BY <1>2, SMT DEF Ints
  <2>2. d = (max - min) - 2 * H
    BY <2>1, SignedWraps
  <2>3. d + 1 \in Ints(H) /\ d + 1 <= 0
    <3> HIDE DEF d
    <3> QED BY <1>2, <2>1, <2>2, SMT DEF Ints
  <2>4. n = d + 1
    BY <2>3, SignedInRange
  <2> HIDE DEF n, d
  <2>5. n <= 0 /\ ~(max <= min)
    BY <2>3, <2>4, SMT DEF Ints
  <2> QED
    BY <2>5 DEF RandomInts, n, d
<1> QED
  BY <1>1, <1>2, SMT DEF Ints
=============================================================================
