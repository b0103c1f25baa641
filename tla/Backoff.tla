------------------------------ MODULE Backoff ------------------------------
(***************************************************************************)
(* backoffFor of pkg/middleware/retry: the sleep between two attempts.     *)
(***************************************************************************)
EXTENDS GoInt

\* The clamp without its overflow test.
ClampedNoSign(attempt, initial, maxBackoff) ==
    LET d == Shl(initial, attempt - 1)
    IN  IF d > maxBackoff THEN maxBackoff ELSE d

\* The schedule one doubling ahead.
ClampedLate(attempt, initial, maxBackoff) ==
    LET d == Shl(initial, attempt)
    IN  IF d <= 0 \/ d > maxBackoff THEN maxBackoff ELSE d

\* initial << (attempt-1), clamped when it exceeds maxBackoff or wrapped around.
Clamped(attempt, initial, maxBackoff) ==
    LET d == Shl(initial, attempt - 1)
    IN  IF d <= 0 \/ d > maxBackoff THEN maxBackoff ELSE d

\* What rand.Int63n(d/2) may return; empty when it panics (argument <= 0).
Jitter(d) == 0 .. (d \div 2) - 1

\* backoffFor: d -25% .. +25%, clamped again.
BackoffFor(attempt, initial, maxBackoff) ==
    LET d == Clamped(attempt, initial, maxBackoff)
    IN  { LET s == Wrap(d - d \div 4 + j) IN IF s > maxBackoff THEN maxBackoff ELSE s
          : j \in Jitter(d) }

=============================================================================
