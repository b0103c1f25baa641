------------------------------- MODULE GoInt -------------------------------
(***************************************************************************)
(* Go's signed integers (int64, time.Duration): W-bit two's complement,    *)
(* W = 64 in the program.  A smaller W reaches the wrap-around with        *)
(* numbers TLC can enumerate.                                              *)
(***************************************************************************)
EXTENDS Integers

CONSTANT W      \* width in bits

ASSUME WidthAssumption == W \in Nat /\ W >= 2

\* An integer cut to W bits and read as a signed number.
Wrap(x) == LET half == 2^(W - 1)
               m == x % (2 * half)
           IN  IF m >= half THEN m - 2 * half ELSE m

\* Go's x << n.
Shl(x, n) == IF n >= W THEN 0 ELSE Wrap(x * 2^n)

=============================================================================
