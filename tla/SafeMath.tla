------------------------------ MODULE SafeMath ------------------------------
(***************************************************************************)
(* core/math/safe.go: unsigned arithmetic that reports an overflow instead *)
(* of wrapping.  MaxUint stands for math.MaxUint64.  Every operation is    *)
(* modelled by its error condition as the code computes it; the result it  *)
(* returns when there is no error is the plain sum, difference or product. *)
(* The exactness lemmas are proved in AccountsProofs.                      *)
(***************************************************************************)
EXTENDS Integers

CONSTANT MaxUint   \* the largest value of the code's uint64

ASSUME MaxUintAssumption == MaxUint \in Nat \ {0}

Uint == 0 .. MaxUint

\* Go's unsigned arithmetic wraps modulo 2^64.
Wrap(n) == n % (MaxUint + 1)

\* Go's n >> h: n divided by 2^h and rounded down.
Pow2[h \in Nat] == IF h = 0 THEN 1 ELSE 2 * Pow2[h - 1]
ShiftRight(n, h) == n \div Pow2[h]

\* SafeAdd and CheckedAdd succeed.
SafeAddOk(a, b) == ~ (a > MaxUint - b)

\* SafeSub and CheckedSub succeed.
SafeSubOk(a, b) == ~ (b > a)

\* SafeMul and CheckedMul succeed: the wrapped product divided by the first
\* factor gives back the second.
SafeMulOk(a, b) == a = 0 \/ b = 0 \/ Wrap(a * b) \div a = b

=============================================================================
