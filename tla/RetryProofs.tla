---------------------------- MODULE RetryProofs ----------------------------
(***************************************************************************)
(* Proofs about Retry for every RetryConfig, every deadline, every         *)
(* integer width and whatever the downstream answers.                      *)
(*                                                                         *)
(* The loop variable and the attempts made go together, and an attempt is  *)
(* only repeated after an error worth retrying: Loop says so for each      *)
(* place the call can be in.  How long a sleep is plays no part in that.   *)
(*                                                                         *)
(* How long it is, is arithmetic: the shift of backoffFor may overflow the *)
(* W bits of a Duration, and ClampedIsNominal shows that the clamp hides   *)
(* every overflow.  It rests on a few facts about powers of two, which the *)
(* provers do not have built in.                                           *)
(***************************************************************************)
EXTENDS Retry, FiniteSetTheorems, WellFoundedInduction, TLAPS

Typed ==
    /\ conf \in [max : Int, initial : Nat, cap : Nat]
    /\ pc \in {"begin", "check", "send", "call", "settle", "sleep", "done"}
    /\ attempt \in Nat /\ now \in Nat /\ sent \in Nat /\ started \in Nat
    /\ ctx \in {"live", "canceled", "deadline"}

\* Where the call is, what it has sent and what came back.
Loop ==
    /\ pc = "begin" => sent = 0 /\ attempt = 1 /\ last = "none"
    /\ conf.max <= 1 => pc \notin {"check", "sleep"}
    /\ conf.max <= 1 /\ pc = "send" => sent = 0
    /\ conf.max > 1 => attempt <= conf.max
    /\ conf.max > 1 /\ pc \in {"check", "send"} => sent = attempt - 1
    /\ conf.max > 1 /\ pc \in {"check", "send"} /\ sent > 0 => Retryable(last)
    /\ conf.max > 1 /\ pc \in {"call", "settle", "sleep"} => sent = attempt
    /\ pc \in {"check", "sleep"} => last # "ok"
    /\ pc = "sleep" => Retryable(last) /\ attempt < conf.max
    /\ started <= sent

\* A live context's deadline is ahead.
Timely == now <= Deadline /\ (ctx = "live" => now < Deadline)

IInv == Typed /\ Loop /\ Timely /\ ResultFaithful

-----------------------------------------------------------------------------
\* The options' limit is the configuration's.
LEMMA OptMax == opt.max = conf.max
BY DEF opt

\* The call before its first step.
LEMMA InitInv == Init => IInv
<1> SUFFICES ASSUME Init PROVE IInv
  OBVIOUS
<1>1. Typed
  BY OptionsAssumption DEF Init, Typed
<1>2. Loop
  BY <1>1, OptionsAssumption DEF Init, Loop, Typed
<1>3. Timely /\ ResultFaithful
  BY OptionsAssumption DEF Init, Timely, ResultFaithful
<1> QED BY <1>1, <1>2, <1>3 DEF IInv

\* Every step of the loop, of the caller and of the clock preserves it.
LEMMA NextInv == IInv /\ [Next]_vars => IInv'
<1> SUFFICES ASSUME IInv, [Next]_vars PROVE IInv'
  OBVIOUS
<1>0. Typed /\ Loop /\ Timely /\ ResultFaithful
  BY DEF IInv
<1>1. CASE Begin
  <2>1. /\ pc = "begin" /\ pc' = IF conf.max <= 1 THEN "send" ELSE "check"
        /\ UNCHANGED <<conf, attempt, ctx, now, wake, slept, last, sent, started, result>>
    BY <1>1, OptMax DEF Begin
  <2> QED BY <1>0, <2>1 DEF IInv, Typed, Loop, Timely, ResultFaithful, Retryable
<1>2. CASE Check
  BY <1>0, <1>2 DEF Check, Return, IInv, Typed, Loop, Timely, ResultFaithful, Retryable
<1>3. CASE Send
  BY <1>0, <1>3 DEF Send, IInv, Typed, Loop, Timely, ResultFaithful, Retryable
<1>4. CASE BreakerReject
  BY <1>0, <1>4 DEF BreakerReject, IInv, Typed, Loop, Timely, ResultFaithful, Retryable
<1>5. CASE Receive
  BY <1>0, <1>5 DEF Receive, IInv, Typed, Loop, Timely, ResultFaithful, Retryable
<1>6. CASE Settle
  <2>0. UNCHANGED <<conf, ctx, now, last, sent, started>> /\ pc = "settle" /\ attempt' = attempt
    BY <1>6 DEF Settle
  <2>1. CASE pc' = "done" /\ result' = last
    BY <1>0, <2>0, <2>1 DEF IInv, Typed, Loop, Timely, ResultFaithful, Retryable
  <2>2. CASE /\ conf.max > 1 /\ last # "ok" /\ Retryable(last) /\ attempt # conf.max
             /\ pc' = "sleep"
    BY <1>0, <2>0, <2>2 DEF IInv, Typed, Loop, Timely, ResultFaithful, Retryable
  <2> QED BY <1>6, <2>1, <2>2, OptMax DEF Settle, Return
<1>7. CASE SettlePanic
  BY <1>0, <1>7 DEF SettlePanic, Return, IInv, Typed, Loop, Timely, ResultFaithful, Retryable
<1>8. CASE WakeByTimer
  BY <1>0, <1>8 DEF WakeByTimer, IInv, Typed, Loop, Timely, ResultFaithful, Retryable
<1>9. CASE WakeByCtx
  BY <1>0, <1>9 DEF WakeByCtx, Return, IInv, Typed, Loop, Timely, ResultFaithful, Retryable
<1>10. CASE Cancel
  BY <1>0, <1>10 DEF Cancel, IInv, Typed, Loop, Timely, ResultFaithful, Retryable
<1>11. CASE Tick
  <2>1. /\ ctx = "live" /\ pc \in {"call", "sleep"} /\ now' = now + 1
        /\ ctx' = IF now' >= Deadline /\ ctx = "live" THEN "deadline" ELSE ctx
        /\ UNCHANGED <<conf, pc, attempt, wake, slept, last, sent, started, result>>
    BY <1>11 DEF Tick, SleepOver
  <2> QED BY <1>0, <2>1, OptionsAssumption DEF IInv, Typed, Loop, Timely, ResultFaithful, Retryable
<1>12. CASE UNCHANGED vars
  BY <1>0, <1>12 DEF vars, IInv, Typed, Loop, Timely, ResultFaithful, Retryable
<1> QED BY <1>1, <1>2, <1>3, <1>4, <1>5, <1>6, <1>7, <1>8, <1>9, <1>10, <1>11, <1>12
        DEF Next, Step

\* The invariant, of every behaviour.
LEMMA Invariance == Spec => []IInv
BY InitInv, NextInv, PTL DEF Spec

-----------------------------------------------------------------------------
\* The caller is told what the last attempt or its own context came to, and
\* success only of an attempt that succeeded.
THEOREM Faithful == Spec => []ResultFaithful
<1>1. IInv => ResultFaithful
  BY DEF IInv
<1> QED BY <1>1, Invariance, PTL

\* No backoff, of whatever length the arithmetic makes it, outlasts the
\* caller's deadline.
THEOREM Punctual == Spec => []NeverLate
<1>1. IInv => NeverLate
  BY DEF IInv, Timely, NeverLate
<1> QED BY <1>1, Invariance, PTL

\* A further attempt follows an error worth retrying, under a live context and
\* within the limit.
THEOREM Justified == Spec => RetryJustified
<1> DEFINE Justifies ==
      /\ pc = "check" /\ pc' = "send" => ctx = "live"
      /\ sent' > sent =>
            /\ started' <= sent'
            /\ sent < IF opt.max <= 1 THEN 1 ELSE opt.max
            /\ sent > 0 => last \in Documented
<1>1. IInv /\ [Next]_vars => [Justifies]_vars
  <2> SUFFICES ASSUME IInv, Next PROVE Justifies
    OBVIOUS
  <2>0. Typed /\ Loop
    BY DEF IInv
  <2>1. CASE Send \/ BreakerReject
    <3>1. pc = "send" /\ sent' = sent + 1 /\ started' <= started + 1
      BY <2>0, <2>1 DEF Send, BreakerReject, Typed
    <3>2. started' <= sent'
      BY <2>0, <3>1, <2>1 DEF Loop, Typed, Send, BreakerReject
    <3>3. sent < IF conf.max <= 1 THEN 1 ELSE conf.max
      BY <2>0, <3>1 DEF Loop, Typed
    <3>4. sent > 0 => last \in Documented
      BY <2>0, <3>1 DEF Loop, Typed, Retryable, Documented
    <3> QED BY <3>1, <3>2, <3>3, <3>4, OptMax
  <2>2. CASE Check
    <3>1. sent' = sent /\ (pc' = "send" => ctx = "live")
      BY <2>2 DEF Check, Return
    <3> QED BY <2>0, <3>1 DEF Typed
  <2>3. CASE Begin \/ Receive \/ Settle \/ SettlePanic \/ WakeByTimer \/ WakeByCtx \/ Cancel \/ Tick
    <3>1. sent' = sent
      BY <2>3 DEF Begin, Receive, Settle, SettlePanic, WakeByTimer, WakeByCtx, Cancel, Tick
    <3>2. ~ (pc = "check" /\ pc' = "send")
      BY <2>3 DEF Begin, Receive, Settle, SettlePanic, WakeByTimer, WakeByCtx, Cancel, Tick
    <3> QED BY <2>0, <3>1, <3>2 DEF Typed
  <2> QED BY <2>1, <2>2, <2>3 DEF Next, Step
<1> HIDE DEF Justifies
<1>2. Spec => [][Justifies]_vars
  BY <1>1, Invariance, PTL DEF Spec
<1> QED BY <1>2 DEF Justifies, RetryJustified

-----------------------------------------------------------------------------
(* Powers of two.                                                          *)

\* A non-empty set of naturals has a least element.
LEMMA LeastElement ==
    ASSUME NEW T, T \subseteq Nat, T # {}
    PROVE  \E x \in T : \A y \in T : x <= y
<1> DEFINE R == {ss \in Nat \X Nat : ss[1] < ss[2]}
<1>1. IsWellFoundedOn(R, Nat)
  BY NatLessThanWellFounded DEF OpToRel
<1>2. PICK x \in T : \A y \in T : ~ (<<y, x>> \in R)
  <2> HIDE DEF R
  <2> QED BY <1>1, WFMin
<1>3. \A y \in T : x <= y
  <2> SUFFICES ASSUME NEW y \in T PROVE x <= y
    OBVIOUS
  <2>1. x \in Nat /\ y \in Nat
    OBVIOUS
  <2>2. ~ (y < x)
    BY <1>2, <2>1
  <2> QED BY <2>1, <2>2
<1> QED BY <1>3

\* A power of two counts the subsets of an interval, so it is a natural number.
LEMMA PowerNat == ASSUME NEW n \in Nat PROVE 2^n \in Nat
<1>1. IsFiniteSet(1 .. n) /\ Cardinality(1 .. n) = n
  BY FS_Interval
<1>2. IsFiniteSet(SUBSET (1 .. n)) /\ Cardinality(SUBSET (1 .. n)) = 2^n
  BY <1>1, FS_SUBSET
<1>3. Cardinality(SUBSET (1 .. n)) \in Nat
  BY <1>2, FS_CardinalityType
<1> QED BY <1>2, <1>3

\* Each power of two is twice the one before: half of the subsets of 1 .. n + 1
\* have n + 1 as a member.
LEMMA PowerStep == ASSUME NEW n \in Nat PROVE 2^(n + 1) = 2 * 2^n
<1> DEFINE A == SUBSET (1 .. n)
           B == {S \cup {n + 1} : S \in A}
           f == [S \in A |-> S \cup {n + 1}]
<1>1. IsFiniteSet(1 .. n) /\ Cardinality(1 .. n) = n
  BY FS_Interval
<1>2. IsFiniteSet(1 .. n + 1) /\ Cardinality(1 .. n + 1) = n + 1
  BY FS_Interval
<1>3. IsFiniteSet(A) /\ Cardinality(A) = 2^n
  BY <1>1, FS_SUBSET
<1>4. Cardinality(SUBSET (1 .. n + 1)) = 2^(n + 1)
  BY <1>2, FS_SUBSET
<1>5. SUBSET (1 .. n + 1) = A \cup B
  <2>1. ASSUME NEW S \in SUBSET (1 .. n + 1) PROVE S \in A \cup B
    <3>1. CASE n + 1 \in S
      <4>1. S \ {n + 1} \in A
        <5>1. \A x \in S : x \in 1 .. n + 1
          OBVIOUS
        <5>2. \A x \in S \ {n + 1} : x \in 1 .. n
          BY <5>1
        <5> QED BY <5>2
      <4>2. S = (S \ {n + 1}) \cup {n + 1}
        BY <3>1
      <4> QED BY <4>1, <4>2
    <3>2. CASE n + 1 \notin S
      <4>1. \A x \in S : x \in 1 .. n + 1 /\ x # n + 1
        BY <3>2
      <4>2. \A x \in S : x \in 1 .. n
        BY <4>1
      <4> QED BY <4>2
    <3> QED BY <3>1, <3>2
  <2>2. 1 .. n \subseteq 1 .. n + 1 /\ n + 1 \in 1 .. n + 1
    OBVIOUS
  <2>3. A \subseteq SUBSET (1 .. n + 1)
    BY <2>2
  <2>4. B \subseteq SUBSET (1 .. n + 1)
    BY <2>2
  <2> QED BY <2>1, <2>3, <2>4
<1>6. A \cap B = {}
  <2>1. n + 1 \notin 1 .. n
    OBVIOUS
  <2> QED BY <2>1
<1>7. f \in Bijection(A, B)
  <2>1. n + 1 \notin 1 .. n
    OBVIOUS
  <2>2. \A S, T \in A : f[S] = f[T] => S = T
    <3> SUFFICES ASSUME NEW S \in A, NEW T \in A, S \cup {n + 1} = T \cup {n + 1}
                 PROVE  S = T
      OBVIOUS
    <3>1. n + 1 \notin S /\ n + 1 \notin T
      BY <2>1
    <3> QED BY <3>1
  <2>3. f \in Injection(A, B)
    <3>1. f \in [A -> B] /\ DOMAIN f = A
      OBVIOUS
    <3> HIDE DEF f, A, B
    <3>2. IsInjective(f)
      BY <2>2, <3>1 DEF IsInjective
    <3> QED BY <3>1, <3>2 DEF Injection
  <2>4. \A T \in B : \E S \in A : f[S] = T
    OBVIOUS
  <2>5. f \in Surjection(A, B)
    BY <2>3, <2>4 DEF Surjection, Injection
  <2> QED BY <2>3, <2>5 DEF Bijection
<1>8. IsFiniteSet(B) /\ Cardinality(B) = 2^n
  <2> HIDE DEF A, B, f
  <2>1. ExistsBijection(A, B)
    BY <1>7 DEF ExistsBijection
  <2> QED BY <1>3, <2>1, FS_Bijection
<1>9. Cardinality(A \cup B) = 2^n + 2^n
  <2> HIDE DEF A, B
  <2>1. Cardinality(A \cup B) = Cardinality(A) + Cardinality(B) - Cardinality(A \cap B)
    BY <1>3, <1>8, FS_Union
  <2>2. Cardinality(A \cap B) = 0
    BY <1>6, FS_EmptySet
  <2>3. 2^n \in Nat
    BY PowerNat
  <2> QED BY <2>1, <2>2, <2>3, <1>3, <1>8
<1>10. 2^n \in Nat /\ 2^(n + 1) = 2^n + 2^n
  BY <1>4, <1>5, <1>9, PowerNat
<1>11. ASSUME NEW p \in Nat PROVE p + p = 2 * p
  OBVIOUS
<1> QED BY <1>10, <1>11

\* No power of two is zero: the empty set is a subset of any interval.
LEMMA PowerPositive == ASSUME NEW n \in Nat PROVE 2^n >= 1
<1>1. IsFiniteSet(1 .. n) /\ Cardinality(1 .. n) = n
  BY FS_Interval
<1>2. IsFiniteSet(SUBSET (1 .. n)) /\ Cardinality(SUBSET (1 .. n)) = 2^n
  BY <1>1, FS_SUBSET
<1>3. SUBSET (1 .. n) # {}
  OBVIOUS
<1>4. Cardinality(SUBSET (1 .. n)) # 0
  BY <1>2, <1>3, FS_EmptySet
<1> QED BY <1>2, <1>4, PowerNat

\* Shifts add up, by the least exponent for which they would not.
LEMMA PowerSum == ASSUME NEW a \in Nat, NEW b \in Nat PROVE 2^(a + b) = 2^a * 2^b
<1> DEFINE Bad == {n \in Nat : 2^(a + n) # 2^a * 2^n}
<1>1. SUFFICES ASSUME Bad # {} PROVE FALSE
  OBVIOUS
<1>2. PICK m \in Bad : \A y \in Bad : m <= y
  BY <1>1, LeastElement
<1>3. CASE m = 0
  <2>1. 2^a \in Nat
    BY PowerNat
  <2>2. 2^0 = 1 /\ a + 0 = a
    OBVIOUS
  <2>3. 2^a * 1 = 2^a
    BY <2>1
  <2> QED BY <1>2, <1>3, <2>2, <2>3
<1>4. CASE m # 0
  <2>1. m - 1 \in Nat /\ m - 1 \notin Bad
    BY <1>2, <1>4
  <2>2. 2^(a + (m - 1)) = 2^a * 2^(m - 1)
    BY <2>1
  <2>3. 2^((m - 1) + 1) = 2 * 2^(m - 1)
    BY <2>1, PowerStep
  <2>4. 2^((a + (m - 1)) + 1) = 2 * 2^(a + (m - 1))
    BY <2>1, PowerStep
  <2>5. (m - 1) + 1 = m /\ (a + (m - 1)) + 1 = a + m
    BY <1>2
  <2>6. 2^a \in Nat /\ 2^(m - 1) \in Nat
    BY PowerNat, <2>1
  <2>7. ASSUME NEW x \in Nat, NEW y \in Nat PROVE 2 * (x * y) = x * (2 * y)
    OBVIOUS
  <2>8. 2^(a + m) = 2^a * 2^m
    BY <2>2, <2>3, <2>4, <2>5, <2>6, <2>7
  <2> QED BY <1>2, <2>8
<1> QED BY <1>3, <1>4

-----------------------------------------------------------------------------
(* The arithmetic of backoffFor.                                           *)

\* Half the range of the integers, and the whole of it.
LEMMA Width == 2^(W - 1) \in Nat /\ 2^(W - 1) >= 1 /\ 2^W = 2 * 2^(W - 1)
<1>1. W - 1 \in Nat /\ (W - 1) + 1 = W
  BY WidthAssumption
<1> QED BY <1>1, PowerNat, PowerPositive, PowerStep

\* Cutting to W bits leaves small numbers alone and subtracts a multiple of
\* 2^W from the others.
LEMMA WrapFacts ==
    ASSUME NEW x \in Nat
    PROVE  /\ Wrap(x) \in Int
           /\ x < 2^(W - 1) => Wrap(x) = x
           /\ \E k \in Int : Wrap(x) = x - (2^W) * k
<1> DEFINE h == 2^(W - 1)
           c == 2 * h
<1>1. h \in Nat /\ h >= 1 /\ 2^W = c
  BY Width
<1>2. Wrap(x) = IF x % c >= h THEN (x % c) - c ELSE x % c
  BY DEF Wrap
<1> HIDE DEF h
<1>3. c \in Nat /\ c > 0
  BY <1>1
<1>4. PICK q \in Int, r \in Int : q = x \div c /\ r = x % c
  <2> HIDE DEF c
  <2> QED BY <1>3
<1>5. x = c * q + r /\ 0 <= r /\ r < c
  <2> HIDE DEF c
  <2> QED BY <1>3, <1>4
<1>6. x < h => r = x
  <2>1. SUFFICES ASSUME x < h PROVE r = x
    OBVIOUS
  <2>2. x \in 0 .. c - 1
    BY <2>1, <1>1
  <2> HIDE DEF c
  <2> QED BY <2>2, <1>3, <1>4
<1>7. Wrap(x) = IF r >= h THEN r - c ELSE r
  BY <1>2, <1>4
<1>8. Wrap(x) \in Int /\ (x < h => Wrap(x) = x)
  BY <1>1, <1>6, <1>7
<1>9. CASE r >= h
  <2>1. r - c = x - c * (q + 1)
    <3> HIDE DEF c
    <3>1. c * (q + 1) = c * q + c
      BY <1>3
    <3> DEFINE cq == c * q
    <3>2. cq \in Int
      BY <1>3
    <3> HIDE DEF cq
    <3>3. x = cq + r /\ c * (q + 1) = cq + c
      BY <1>5, <3>1 DEF cq
    <3> QED BY <3>2, <3>3, <1>3
  <2>2. Wrap(x) = x - (2^W) * (q + 1)
    BY <2>1, <1>7, <1>9, <1>1
  <2> QED BY <1>8, <2>2 DEF h
<1>10. CASE ~ (r >= h)
  <2>1. r = x - c * q
    <3> HIDE DEF c
    <3> DEFINE cq == c * q
    <3>1. cq \in Int /\ x = cq + r
      BY <1>3, <1>5
    <3> HIDE DEF cq
    <3>2. r = x - cq
      BY <3>1
    <3> QED BY <3>2 DEF cq
  <2>2. Wrap(x) = x - (2^W) * q
    BY <2>1, <1>7, <1>10, <1>1
  <2> QED BY <1>8, <2>2 DEF h
<1> QED BY <1>9, <1>10

\* A positive multiple of p is at least p.
LEMMA PositiveMultiple ==
    ASSUME NEW p \in Nat, NEW m \in Int, p >= 1, p * m > 0
    PROVE  p <= p * m
<1>1. m >= 1
  <2>1. SUFFICES ASSUME m <= 0 PROVE FALSE
    OBVIOUS
  <2>2. p * m <= 0
    BY <2>1
  <2>3. p * m \in Int
    OBVIOUS
  <2> QED BY <2>2, <2>3
<1> QED BY <1>1

\* Products grow with their factors.
LEMMA TimesMonotone ==
    ASSUME NEW a \in Nat, NEW b \in Nat, NEW c \in Nat, b <= c
    PROVE  a * b <= a * c
<1>1. PICK d \in Nat : c = b + d
  <2>1. c - b \in Nat /\ c = b + (c - b)
    OBVIOUS
  <2> QED BY <2>1
<1>2. a * c = a * b + a * d /\ a * d \in Nat /\ a * b \in Nat
  BY <1>1
<1> QED BY <1>2

\* Clamping hides every overflow of the shift: when initial * maxBackoff is
\* representable, the clamped backoff is the documented one.
LEMMA ClampedIsNominal ==
    ASSUME NEW e \in Nat, NEW i \in Nat, NEW c \in Nat, i >= 1, c >= 1,
           i * c < 2^(W - 1)
    PROVE  Clamped(e + 1, i, c) = IF i * 2^e > c THEN c ELSE i * 2^e
<1> DEFINE h == 2^(W - 1)
           p == 2^e
           x == i * p
           d == Shl(i, e)
<1>0. Clamped(e + 1, i, c) = IF d <= 0 \/ d > c THEN c ELSE d
  <2>1. (e + 1) - 1 = e
    OBVIOUS
  <2> QED BY <2>1 DEF Clamped
<1>1. h \in Nat /\ h >= 1 /\ 2^W = 2 * h
  BY Width
<1>2. p \in Nat /\ p >= 1
  BY PowerNat, PowerPositive
<1>3. W \in Nat
  BY WidthAssumption
<1>4. d = IF e >= W THEN 0 ELSE Wrap(x)
  BY DEF Shl
<1>5. c < h
  <2> HIDE DEF h
  <2>1. i * c < h
    BY DEF h
  <2>2. c * 1 <= c * i
    BY TimesMonotone
  <2> QED BY <2>1, <2>2, <1>1
<1>6. x \in Nat /\ x >= p /\ x >= i
  <2> HIDE DEF p
  <2>1. p * 1 <= p * i /\ i * 1 <= i * p
    BY <1>2, TimesMonotone
  <2> QED BY <1>2, <2>1
<1>7. CASE e >= W
  <2>1. PICK n \in Nat : e = W + n
    <3>1. e - W \in Nat /\ e = W + (e - W)
      BY <1>3, <1>7
    <3> QED BY <3>1
  <2>2. p = 2^W * 2^n /\ 2^n \in Nat /\ 2^n >= 1
    BY <2>1, <1>3, PowerSum, PowerNat, PowerPositive
  <2> HIDE DEF h, p
  <2>3. ASSUME NEW t \in Nat, t >= 1 PROVE 2 * h <= (2 * h) * t
    <3>1. (2 * h) * 1 <= (2 * h) * t
      BY <2>3, <1>1, TimesMonotone
    <3> QED BY <3>1, <1>1
  <2>4. p >= 2 * h
    BY <2>2, <2>3, <1>1
  <2>5. x > c
    <3> HIDE DEF x
    <3> QED BY <2>4, <1>1, <1>2, <1>5, <1>6
  <2>6. d = 0
    BY <1>4, <1>7
  <2> HIDE DEF x, d
  <2>7. Clamped(e + 1, i, c) = c
    BY <1>0, <2>6
  <2>8. (IF x > c THEN c ELSE x) = c
    BY <2>5
  <2> QED BY <2>7, <2>8 DEF x, p
<1>8. CASE e < W /\ x < h
  <2>1. d = x
    <3> HIDE DEF x, d
    <3>1. Wrap(x) = x
      BY <1>6, <1>8, WrapFacts
    <3> QED BY <3>1, <1>4, <1>3, <1>8
  <2>2. x > 0
    <3> HIDE DEF x, p
    <3> QED BY <1>6, <1>2
  <2> HIDE DEF x, d
  <2>3. Clamped(e + 1, i, c) = IF x > c THEN c ELSE x
    BY <1>0, <1>6, <2>1, <2>2
  <2> QED BY <2>3 DEF x, p
<1>9. CASE e < W /\ x >= h
  <2>1. PICK n \in Nat : W = e + n
    <3>1. W - e \in Nat /\ W = e + (W - e)
      BY <1>3, <1>9
    <3> QED BY <3>1
  <2>2. 2^W = p * 2^n /\ 2^n \in Nat
    BY <2>1, PowerSum, PowerNat
  <2>3. PICK k \in Int : Wrap(x) = x - (2^W) * k
    <3> HIDE DEF x
    <3> QED BY <1>6, WrapFacts
  <2>4. Wrap(x) \in Int
    <3> HIDE DEF x
    <3> QED BY <1>6, WrapFacts
  <2>5. PICK m \in Int : Wrap(x) = p * m
    <3> HIDE DEF p
    <3>1. ASSUME NEW t \in Nat PROVE i * p - (p * t) * k = p * (i - t * k)
      BY <1>2
    <3>2. Wrap(x) = p * (i - 2^n * k)
      BY <2>2, <2>3, <3>1
    <3>3. i - 2^n * k \in Int
      BY <2>2
    <3> QED BY <3>2, <3>3
  <2>6. d = Wrap(x)
    BY <1>4, <1>3, <1>9
  <2>7. d <= 0 \/ d > c
    <3>1. SUFFICES ASSUME 0 < d, d <= c PROVE FALSE
      <4> HIDE DEF d, x
      <4> QED BY <2>4, <2>6
    <3> HIDE DEF d, h, p
    <3>2. p <= p * m
      BY <3>1, <2>5, <2>6, <1>2, PositiveMultiple
    <3>3. p * m \in Int
      BY <1>2
    <3>4. p <= c
      BY <3>1, <3>2, <3>3, <2>5, <2>6, <1>2
    <3>5. i * p <= i * c
      BY <3>4, <1>2, TimesMonotone
    <3>6. i * c < h /\ i * c \in Nat
      BY DEF h
    <3> QED BY <3>5, <3>6, <1>9, <1>1, <1>6
  <2>8. Clamped(e + 1, i, c) = c
    <3> HIDE DEF d
    <3> QED BY <1>0, <2>7
  <2>9. x > c
    <3> HIDE DEF x, h
    <3> QED BY <1>9, <1>5, <1>1, <1>6
  <2> QED BY <2>8, <2>9
<1>10. e >= W \/ (e < W /\ x < h) \/ (e < W /\ x >= h)
  <2> HIDE DEF x, h
  <2> QED BY <1>3, <1>6, <1>1
<1> QED BY <1>7, <1>8, <1>9, <1>10

\* Each duration backoffFor may return is the clamped backoff within a quarter
\* and not above maxBackoff; there is none exactly when the backoff is below
\* two units.
LEMMA BackoffRange ==
    ASSUME NEW a \in Nat, NEW i \in Nat, NEW c \in Nat,
           Clamped(a, i, c) \in 1 .. c, c + c \div 4 < 2^(W - 1)
    PROVE  LET d == Clamped(a, i, c)
           IN  /\ BackoffFor(a, i, c) = {} => d < 2
               /\ \A s \in BackoffFor(a, i, c) :
                     /\ s \in Nat /\ s <= c
                     /\ d - d \div 4 <= s /\ s <= d + d \div 4
<1> DEFINE d == Clamped(a, i, c)
           h == 2^(W - 1)
           v(j) == LET s == Wrap(d - d \div 4 + j) IN IF s > c THEN c ELSE s
<1>1. BackoffFor(a, i, c) = {v(j) : j \in 0 .. (d \div 2) - 1}
  BY DEF BackoffFor, Jitter
<1>2. d \in 1 .. c /\ h \in Nat /\ c + c \div 4 < h
  BY Width
<1> HIDE DEF d, h
<1>3. BackoffFor(a, i, c) = {} => d < 2
  <2>1. SUFFICES ASSUME d >= 2 PROVE BackoffFor(a, i, c) # {}
    BY <1>2
  <2>2. 0 \in 0 .. (d \div 2) - 1
    BY <2>1, <1>2
  <2>3. v(0) \in BackoffFor(a, i, c)
    BY <2>2, <1>1
  <2> QED BY <2>3
<1>4. ASSUME NEW j \in 0 .. (d \div 2) - 1
      PROVE  /\ v(j) \in Nat /\ v(j) <= c
             /\ d - d \div 4 <= v(j) /\ v(j) <= d + d \div 4
  <2> DEFINE y == d - d \div 4 + j
  <2>1. y \in Nat /\ d - d \div 4 <= y /\ y <= d + d \div 4
    BY <1>2
  <2>2. y < h
    BY <1>2
  <2>3. d - d \div 4 <= c /\ d <= c /\ d - d \div 4 <= d + d \div 4
    BY <1>2
  <2>4. Wrap(y) = y
    <3> HIDE DEF y
    <3> QED BY <2>1, <2>2, WrapFacts DEF h
  <2>5. v(j) = IF y > c THEN c ELSE y
    BY <2>4
  <2>6. d \div 4 \in Nat
    BY <1>2
  <2> HIDE DEF v, y
  <2> QED BY <2>1, <2>3, <2>5, <2>6, <1>2
<1>5. \A s \in BackoffFor(a, i, c) :
        /\ s \in Nat /\ s <= c
        /\ d - d \div 4 <= s /\ s <= d + d \div 4
  <2> SUFFICES ASSUME NEW s \in BackoffFor(a, i, c)
               PROVE  /\ s \in Nat /\ s <= c
                      /\ d - d \div 4 <= s /\ s <= d + d \div 4
    OBVIOUS
  <2>1. PICK j \in 0 .. (d \div 2) - 1 : s = v(j)
    BY <1>1
  <2> HIDE DEF v
  <2> QED BY <2>1, <1>4
<1> QED BY <1>3, <1>5 DEF d

-----------------------------------------------------------------------------
(* The durations the loop sleeps.                                          *)

\* What backoffFor may return after the current attempt.
Choices == BackoffFor(attempt, opt.initial, opt.cap)

\* The call sleeps for a duration backoffFor returned, and panics when
\* backoffFor has none to return.
Backed ==
    /\ attempt >= 1
    /\ last # "panic"
    /\ pc = "sleep" => slept \in Choices
    /\ result = "panic" => pc = "done" /\ Choices = {}

\* The choices depend on the attempt and the configuration only.
LEMMA SameChoices == conf' = conf /\ attempt' = attempt => Choices' = Choices
<1> SUFFICES ASSUME conf' = conf, attempt' = attempt PROVE Choices' = Choices
  OBVIOUS
<1>1. opt' = opt
  BY DEF opt
<1> QED BY <1>1 DEF Choices

\* The call has not slept before its first step.
LEMMA InitBacked == Init => Backed
BY DEF Init, Backed

\* Every step keeps the duration slept among backoffFor's.
LEMMA NextBacked == IInv /\ Backed /\ [Next]_vars => Backed'
<1> SUFFICES ASSUME IInv, Backed, [Next]_vars PROVE Backed'
  OBVIOUS
<1>0. Typed
  BY DEF IInv
<1>1. CASE Begin \/ Check \/ Send \/ BreakerReject \/ WakeByCtx \/ Cancel \/ Tick \/ UNCHANGED vars
  <2>1. Choices' = Choices /\ attempt' = attempt
    BY <1>1, SameChoices
       DEF Begin, Check, Send, BreakerReject, WakeByCtx, Cancel, Tick, vars
  <2>2. last' \in {last, "503"}
    BY <1>1 DEF Begin, Check, Send, BreakerReject, WakeByCtx, Cancel, Tick, vars
  <2>3. pc' = "sleep" => pc = "sleep" /\ slept' = slept
    BY <1>1 DEF Begin, Check, Send, BreakerReject, WakeByCtx, Cancel, Tick, vars, Return
  <2>4. /\ result' \in {result, ctx}
        /\ result' = result => pc' = pc \/ pc # "done"
    BY <1>1 DEF Begin, Check, Send, BreakerReject, WakeByCtx, Cancel, Tick, vars, Return
  <2> QED BY <1>0, <2>1, <2>2, <2>3, <2>4 DEF Backed, Typed
<1>2. CASE Receive
  <2>1. Choices' = Choices
    BY <1>2, SameChoices DEF Receive
  <2>2. last' # "panic"
    BY <1>0, <1>2, OptionsAssumption DEF Receive, AllAnswers, Typed
  <2> QED BY <1>2, <2>1, <2>2 DEF Receive, Backed
<1>3. CASE Settle
  <2>1. Choices' = Choices /\ UNCHANGED <<attempt, last>> /\ pc = "settle"
    BY <1>3, SameChoices DEF Settle
  <2>2. CASE Return(last)
    BY <2>1, <2>2 DEF Backed, Return
  <2>3. CASE pc' = "sleep" /\ slept' \in Choices /\ result' = result
    BY <2>1, <2>3 DEF Backed
  <2> QED BY <1>3, <2>2, <2>3 DEF Settle, Choices
<1>4. CASE SettlePanic
  <2>1. Choices' = Choices /\ Choices = {} /\ UNCHANGED <<attempt, last>> /\ pc' = "done"
    BY <1>4, SameChoices DEF SettlePanic, Choices, Return
  <2> QED BY <2>1 DEF Backed
<1>5. CASE WakeByTimer
  <2>1. attempt' = attempt + 1 /\ pc = "sleep" /\ pc' = "check" /\ UNCHANGED <<last, result>>
    BY <1>5 DEF WakeByTimer
  <2> QED BY <1>0, <2>1 DEF Backed, Typed
<1> QED BY <1>1, <1>2, <1>3, <1>4, <1>5 DEF Next, Step

\* The durations, of every behaviour.
LEMMA BackedInvariance == Spec => [](IInv /\ Backed)
BY InitInv, NextInv, InitBacked, NextBacked, PTL DEF Spec

\* The options the loop runs with are positive; a single unit is the
\* configuration's own choice, never a default.
LEMMA OptFacts ==
    ASSUME Typed
    PROVE  /\ opt.initial \in Nat /\ opt.initial >= 1
           /\ opt.cap \in Nat /\ opt.cap >= 1
           /\ opt.initial = 1 => conf.initial = 1
           /\ opt.cap = 1 => conf.cap = 1
<1>1. /\ opt.initial = IF conf.initial > 0 THEN conf.initial ELSE DefaultInitialBackoff
      /\ opt.cap = IF conf.cap > 0 THEN conf.cap ELSE DefaultMaxBackoff
  BY DEF opt
<1> QED BY <1>1, OptionsAssumption DEF Typed

\* The loop's clamped backoff is the nominal one.
LEMMA LoopClamped ==
    ASSUME Typed, attempt >= 1, Fits
    PROVE  /\ Clamped(attempt, opt.initial, opt.cap) = Nominal
           /\ Nominal \in 1 .. opt.cap
           /\ Nominal = 1 => opt.initial = 1 \/ opt.cap = 1
<1> DEFINE e == attempt - 1
           i == opt.initial
           c == opt.cap
<1>1. e \in Nat /\ e + 1 = attempt
  BY DEF Typed
<1>2. i \in Nat /\ i >= 1 /\ c \in Nat /\ c >= 1
  BY OptFacts
<1>3. i * c < 2^(W - 1)
  BY DEF Fits
<1>4. Nominal = IF i * 2^e > c THEN c ELSE i * 2^e
  BY DEF Nominal
<1>5. 2^e \in Nat /\ 2^e >= 1
  BY <1>1, PowerNat, PowerPositive
<1> HIDE DEF e, i, c
<1>6. Clamped(e + 1, i, c) = IF i * 2^e > c THEN c ELSE i * 2^e
  BY <1>1, <1>2, <1>3, ClampedIsNominal
<1>7. i * 1 <= i * 2^e /\ i * 2^e \in Nat
  BY <1>2, <1>5, TimesMonotone
<1>8. Nominal \in 1 .. c /\ (Nominal = 1 => i = 1 \/ c = 1)
  BY <1>2, <1>4, <1>7
<1> QED BY <1>1, <1>4, <1>6, <1>8 DEF i, c

\* The backoff before each retry is the documented one within a quarter and
\* never above MaxBackoff, for every width and every number of attempts, also
\* after attempts whose shift overflows.
THEOREM Scheduled == Spec => []ScheduleKept
<1>1. IInv /\ Backed => ScheduleKept
  <2> SUFFICES ASSUME IInv, Backed, pc = "sleep", Fits
               PROVE  /\ slept <= opt.cap
                      /\ Nominal - Nominal \div 4 <= slept
                      /\ slept <= Nominal + Nominal \div 4
    BY DEF ScheduleKept
  <2>1. Typed /\ attempt >= 1 /\ attempt \in Nat
    BY DEF IInv, Backed, Typed
  <2>2. slept \in BackoffFor(attempt, opt.initial, opt.cap)
    BY DEF Backed, Choices
  <2>3. opt.cap + opt.cap \div 4 < 2^(W - 1)
    BY DEF Fits
  <2>4. Clamped(attempt, opt.initial, opt.cap) = Nominal /\ Nominal \in 1 .. opt.cap
    BY <2>1, LoopClamped
  <2> HIDE DEF Fits
  <2> QED BY <2>1, <2>2, <2>3, <2>4, OptFacts, BackoffRange
<1> QED BY <1>1, BackedInvariance, PTL

\* rand.Int63n panics only for a client whose own RetryConfig asks for a
\* backoff of a single unit, whatever the attempt.
THEOREM PanicsOnlyWhenTiny == Spec => []PanicOnlyWhenTiny
<1>1. IInv /\ Backed => PanicOnlyWhenTiny
  <2> SUFFICES ASSUME IInv, Backed, result = "panic", Fits
               PROVE  conf.initial = 1 \/ conf.cap = 1
    BY DEF PanicOnlyWhenTiny
  <2>1. Typed /\ attempt >= 1 /\ attempt \in Nat
    BY DEF IInv, Backed, Typed
  <2>2. BackoffFor(attempt, opt.initial, opt.cap) = {}
    BY DEF Backed, Choices
  <2>3. opt.cap + opt.cap \div 4 < 2^(W - 1)
    BY DEF Fits
  <2>4. /\ Clamped(attempt, opt.initial, opt.cap) = Nominal /\ Nominal \in 1 .. opt.cap
        /\ Nominal = 1 => opt.initial = 1 \/ opt.cap = 1
    BY <2>1, LoopClamped
  <2> HIDE DEF Fits
  <2>5. Nominal < 2
    BY <2>1, <2>2, <2>3, <2>4, OptFacts, BackoffRange
  <2>6. Nominal = 1
    BY <2>4, <2>5, <2>1, OptFacts
  <2> QED BY <2>1, <2>4, <2>6, OptFacts
<1> QED BY <1>1, BackedInvariance, PTL

-----------------------------------------------------------------------------
(* The program's numbers.                                                  *)

\* Durations count nanoseconds.
Millisecond == 1000000
Second == 1000 * Millisecond

\* A Duration has 63 bits for its magnitude.
LEMMA Power63 == 2^63 > (3 * Second) * (3 * Second)
<1>0. 2^0 = 1
  OBVIOUS
<1>1. 2^(0 + 1) = 2
  BY <1>0, PowerStep
<1>2. 2^(1 + 1) = 4
  BY <1>1, PowerStep
<1>3. 2^(2 + 1) = 8
  BY <1>2, PowerStep
<1>6. 2^(3 + 3) = 64
  BY <1>3, PowerSum, SMT
<1>12. 2^(6 + 6) = 4096
  BY <1>6, PowerSum, SMT
<1>15. 2^(12 + 3) = 32768
  BY <1>3, <1>12, PowerSum, SMT
<1>30. 2^(15 + 15) = 1073741824
  <2>1. 2^15 = 32768
    BY <1>15, SMT
  <2>2. 2^(15 + 15) = 2^15 * 2^15
    BY PowerSum
  <2> QED BY <2>1, <2>2, SMT
<1>60. 2^(30 + 30) = 1152921504606846976
  <2>1. 2^30 = 1073741824
    BY <1>30, SMT
  <2>2. 2^(30 + 30) = 2^30 * 2^30
    BY PowerSum
  <2> QED BY <2>1, <2>2, SMT
<1>63. 2^(60 + 3) = 9223372036854775808
  <2>1. 2^60 = 1152921504606846976 /\ 2^3 = 8
    BY <1>3, <1>60, SMT
  <2>2. 2^(60 + 3) = 2^60 * 2^3
    BY PowerSum
  <2> QED BY <2>1, <2>2, SMT
<1>64. 2^63 = 9223372036854775808
  BY <1>63, SMT
<1> QED BY <1>64, SMT DEF Second, Millisecond

\* Three seconds, and what their double is to their square.
LEMMA ThreeSeconds ==
    /\ 3 * Second \in Nat /\ 100 * Millisecond \in Nat /\ 2 * Second \in Nat
    /\ 100 * Millisecond <= 3 * Second /\ 2 * Second <= 3 * Second
    /\ 3 * Second + 3 * Second < (3 * Second) * (3 * Second)
<1>1. Millisecond = 1000000
  BY SMT DEF Millisecond
<1>2. Second = 1000000000
  BY <1>1, SMT DEF Second
<1>3. 3 * Second = 3000000000 /\ 2 * Second = 2000000000 /\ 100 * Millisecond = 100000000
  BY <1>1, <1>2, SMT
<1>4. /\ 3 * Second \in Nat /\ 100 * Millisecond \in Nat /\ 2 * Second \in Nat
      /\ 100 * Millisecond <= 3 * Second /\ 2 * Second <= 3 * Second
  BY <1>3, SMT
<1>5. ASSUME NEW m \in Nat, m >= 3 PROVE m + m < m * m
  <2>1. m * 3 <= m * m
    BY <1>5, TimesMonotone
  <2>2. m * m \in Nat
    BY <1>5
  <2> QED BY <1>5, <2>1, <2>2
<1>6. 3 * Second >= 3
  BY <1>3, SMT
<1> QED BY <1>4, <1>5, <1>6, Zenon

\* A RetryConfig whose backoffs are at most three seconds.
Moderate == conf.initial <= 3 * Second /\ conf.cap <= 3 * Second

\* With the program's int64 and its defaults of 100 ms and 2 s, Fits holds of
\* every RetryConfig that asks for at most three seconds or leaves the backoffs
\* out: such a client sleeps the documented schedule and meets the panic of
\* rand.Int63n only if it asks for a backoff of one nanosecond.
THEOREM SecondsFit ==
    ASSUME W = 64,
           DefaultInitialBackoff = 100 * Millisecond, DefaultMaxBackoff = 2 * Second
    PROVE  Spec => [](Moderate =>
                         /\ Fits
                         /\ pc = "sleep" => /\ slept <= opt.cap
                                            /\ Nominal - Nominal \div 4 <= slept
                                            /\ slept <= Nominal + Nominal \div 4
                         /\ result = "panic" => conf.initial = 1 \/ conf.cap = 1)
<1> DEFINE Safe == Moderate =>
                      /\ Fits
                      /\ pc = "sleep" => /\ slept <= opt.cap
                                         /\ Nominal - Nominal \div 4 <= slept
                                         /\ slept <= Nominal + Nominal \div 4
                      /\ result = "panic" => conf.initial = 1 \/ conf.cap = 1
<1>1. IInv /\ ScheduleKept /\ PanicOnlyWhenTiny => Safe
  <2> SUFFICES ASSUME IInv, Moderate PROVE Fits
    BY DEF ScheduleKept, PanicOnlyWhenTiny
  <2>1. Typed
    BY DEF IInv
  <2>2. /\ opt.initial = IF conf.initial > 0 THEN conf.initial ELSE DefaultInitialBackoff
        /\ opt.cap = IF conf.cap > 0 THEN conf.cap ELSE DefaultMaxBackoff
    BY DEF opt
  <2> DEFINE i == opt.initial
             c == opt.cap
             m == 3 * Second
             p == 2^(W - 1)
  <2>3. i \in Nat /\ c \in Nat /\ i <= m /\ c <= m
    BY <2>1, <2>2, ThreeSeconds DEF Typed, Moderate
  <2>4. m \in Nat /\ m + m < m * m
    BY ThreeSeconds, Zenon
  <2>5. 2^(W - 1) = 2^63
    <3>1. W - 1 = 63
      OBVIOUS
    <3> QED BY <3>1
  <2>6. m * m < p /\ p \in Nat
    BY <2>5, Power63, PowerNat
  <2> HIDE DEF i, c, m, p
  <2>7. i * c <= i * m /\ m * i <= m * m /\ m * i = i * m
    BY <2>3, <2>4, TimesMonotone
  <2>8. i * c \in Nat /\ i * m \in Nat /\ m * m \in Nat
    BY <2>3, <2>4
  <2>9. i * c < p
    BY <2>6, <2>7, <2>8
  <2>10. c + c \div 4 < p
    <3>1. c \div 4 \in Nat /\ c \div 4 <= c
      BY <2>3
    <3> QED BY <2>3, <2>4, <2>6, <2>8, <3>1
  <2>11. opt.initial * opt.cap < 2^(W - 1) /\ opt.cap + opt.cap \div 4 < 2^(W - 1)
    BY <2>9, <2>10, Zenon DEF i, c, p
  <2> QED BY <2>11, Zenon DEF Fits
<1> HIDE DEF Safe
<1>2. Spec => []Safe
  BY <1>1, Invariance, Scheduled, PanicsOnlyWhenTiny, PTL
<1> QED BY <1>2 DEF Safe

=============================================================================
