------------------------------ MODULE SafeMath ------------------------------
(***************************************************************************)
(* The checked arithmetic of lib/math/math.go and the bounded random        *)
(* numbers of lib/util/rand/rand.go.  Go's integers wrap around: an unsigned *)
(* type of w bits has M = 2^w values, a signed one goes from -H to H - 1     *)
(* with H = 2^(w-1).  Every operation of the code wraps here as well, those  *)
(* inside its tests for overflow included.                                   *)
(***************************************************************************)
EXTENDS Integers

Uints(M) == 0 .. M - 1
Ints(H) == -H .. H - 1

\* The value of an expression of an unsigned and of a signed type.
Unsigned(M, x) == x % M
Signed(H, x) == ((x + H) % (2 * H)) - H

SafeAddUint(M, src, add) ==
    IF Unsigned(M, (M - 1) - src) < add THEN M - 1 ELSE Unsigned(M, src + add)

SafeSubUint(M, src, sub) == IF sub > src THEN 0 ELSE Unsigned(M, src - sub)

SafeAddInt(H, src, add) ==
    IF 0 < add /\ Signed(H, (H - 1) - add) < src THEN H - 1
    ELSE IF add < 0 /\ src < Signed(H, -H - add) THEN -H
    ELSE Signed(H, src + add)

\* The values Ints and Int64s may return: Intn and Int63n, which are
\* external, choose any of 0 .. n - 1, and panic if n is not positive.
RandomInts(H, min, max) ==
    LET n == Signed(H, Signed(H, max - min) + 1)
    IN IF max <= min THEN {min}
       ELSE IF n <= 0 THEN {}
       ELSE {Signed(H, i + min) : i \in 0 .. n - 1}

-----------------------------------------------------------------------------
\* The exact sum or difference, moved to the nearest value of the type.
Nearest(low, high, x) == IF x < low THEN low ELSE IF x > high THEN high ELSE x
=============================================================================
