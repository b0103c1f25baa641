-------------------------- MODULE RateLimitProofs --------------------------
(***************************************************************************)
(* Proofs about RateLimit for every set of goroutines and keys and every   *)
(* rate and burst.  Quota is not inductive: it follows from what each      *)
(* key's limiter still holds (Funded), and that one limiter accounts for   *)
(* all of a key's admissions needs the mutex (Guarded, Bound).             *)
(* That RateLimit implements Admission also needs the converse, that a     *)
(* limiter holds no less than its key's admissions leave it (Tight).       *)
(***************************************************************************)
EXTENDS RateLimit, TLAPS

InMap(p) == pc[p] \in {"lookup", "insert", "unlock"}

\* Only the holder of bucket.mu is between Lock and Unlock.
Guarded == \A p \in Proc : InMap(p) => mu = p

\* What a goroutine holds at each point agrees with the map.
Bound ==
    /\ \A p \in Proc : pc[p] = "insert" => limiters[key[p]] = 0
    /\ \A p \in Proc : pc[p] \in {"unlock", "clock", "reserve"} =>
          ptr[p] # 0 /\ ptr[p] = limiters[key[p]]
    /\ \A j, k \in Key : limiters[j] = limiters[k] /\ limiters[j] # 0 => j = k

\* A key without a limiter has been granted nothing.
Unserved == \A k \in Key : limiters[k] = 0 => admits[k] = <<>>

LimiterOf(k) == heap[limiters[k]]
LimiterTime(k) == LimiterOf(k).last + skew[k]

\* Whatever the limiter still holds plus what it granted since the i-th
\* admission fits the capacity plus the refill since then.
Funded ==
    \A k \in Key : limiters[k] # 0 => \A i \in 1 .. Len(admits[k]) :
        LimiterOf(k).tokens + Cost * (Len(admits[k]) - i + 1)
            <= Capacity + (LimiterTime(k) - admits[k][i])

\* The limiter's clock stands at its last admission, and it has lost no more
\* than it granted.
Accounted ==
    \A k \in Key : limiters[k] # 0 =>
        /\ admits[k] # <<>> => LimiterTime(k) = admits[k][Len(admits[k])]
        /\ LimiterOf(k).tokens + Cost * Len(admits[k]) >= Capacity

\* Nor has it lost anything: a limiter that never granted is new, and one that
\* did holds exactly what its tightest window leaves it.
Tight ==
    \A k \in Key : limiters[k] # 0 =>
        \/ admits[k] = <<>> /\ LimiterOf(k).tokens = Capacity /\ LimiterOf(k).last = 0
        \/ \E i \in 1 .. Len(admits[k]) :
              LimiterOf(k).tokens + Cost * (Len(admits[k]) - i + 1)
                  = Capacity + (LimiterTime(k) - admits[k][i])

IInv == TypeOK /\ Guarded /\ Bound /\ Unserved /\ Funded /\ Accounted /\ Tight /\ Quota

-----------------------------------------------------------------------------
\* A full bucket holds a natural number of units.
LEMMA CapacityNat == Capacity \in Nat
BY CostAssumption, BurstAssumption DEF Capacity

\* Advancing a limiter never overfills it and never loses tokens.
LEMMA AdvanceBounds ==
    ASSUME NEW l \in Limiter, NEW t \in Nat
    PROVE  /\ Advance(l, t) \in 0 .. Capacity
           /\ Advance(l, t) >= l.tokens
           /\ t >= l.last => Advance(l, t) <= l.tokens + (t - l.last)
           /\ t < l.last => Advance(l, t) = l.tokens
BY CapacityNat DEF Limiter, Advance, Least

\* Turn-backs included, a limiter's time never decreases, and it refills at
\* most one unit per tick of that time.
LEMMA LimiterTimeAdvances ==
    ASSUME NEW l \in Limiter, NEW t \in Nat, NEW sk \in Nat
    PROVE  /\ TurnedBack(l, t) \in Nat
           /\ t + (sk + TurnedBack(l, t)) \in Nat
           /\ t + (sk + TurnedBack(l, t)) >= l.last + sk
           /\ Advance(l, t) - l.tokens <= (t + (sk + TurnedBack(l, t))) - (l.last + sk)
<1>1. l.last \in Nat /\ l.tokens \in Nat
  BY CapacityNat DEF Limiter
<1>2. CASE t < l.last
  BY <1>1, <1>2, AdvanceBounds DEF TurnedBack
<1>3. CASE ~ (t < l.last)
  BY <1>1, <1>3, AdvanceBounds, CapacityNat DEF TurnedBack
<1> QED BY <1>2, <1>3

\* A refill that does not fill the bucket is one unit per tick of that time.
LEMMA RefillIsExact ==
    ASSUME NEW l \in Limiter, NEW t \in Nat, NEW sk \in Nat, Advance(l, t) # Capacity
    PROVE  Advance(l, t) - l.tokens = (t + (sk + TurnedBack(l, t))) - (l.last + sk)
<1>1. l.last \in Nat /\ l.tokens \in Nat
  BY CapacityNat DEF Limiter
<1>2. CASE t < l.last
  BY <1>1, <1>2 DEF TurnedBack, Advance
<1>3. CASE ~ (t < l.last)
  BY <1>1, <1>3, CapacityNat DEF TurnedBack, Advance, Least
<1> QED BY <1>2, <1>3

\* What appending to a history keeps and adds.
LEMMA AppendFacts ==
    ASSUME NEW q \in Seq(Nat), NEW x \in Nat
    PROVE  /\ Append(q, x) \in Seq(Nat)
           /\ Len(Append(q, x)) = Len(q) + 1
           /\ Append(q, x)[Len(q) + 1] = x
           /\ \A i \in 1 .. Len(q) : Append(q, x)[i] = q[i] /\ q[i] \in Nat
OBVIOUS

\* The bookkeeping of one admission: adv - cost units are left, limiter time
\* goes from old to new.
LEMMA AdmissionArith ==
    ASSUME NEW tok \in Int, NEW adv \in Int, NEW cost \in Int, NEW spent \in Int,
           NEW cap \in Int, NEW old \in Int, NEW new \in Int, NEW at \in Int,
           tok + spent <= cap + (old - at), adv - tok <= new - old
    PROVE  (adv - cost) + (spent + cost) <= cap + (new - at)
OBVIOUS

\* The same where the refill is exact.
LEMMA ExactArith ==
    ASSUME NEW tok \in Int, NEW adv \in Int, NEW cost \in Int, NEW spent \in Int,
           NEW cap \in Int, NEW old \in Int, NEW new \in Int, NEW at \in Int,
           tok + spent = cap + (old - at), adv - tok = new - old
    PROVE  (adv - cost) + (spent + cost) = cap + (new - at)
OBVIOUS

\* Multiplication by a natural number keeps the order.
LEMMA TimesMonotone ==
    ASSUME NEW a \in Int, NEW b \in Int, NEW c \in Nat, a <= b
    PROVE  c * a <= c * b
<1> DEFINE d == b - a
<1>1. d \in Nat /\ b = a + d
  OBVIOUS
<1>2. c * d >= 0 /\ c * d \in Int
  BY <1>1
<1> HIDE DEF d
<1>3. c * (a + d) = c * a + c * d
  BY <1>1
<1> QED BY <1>1, <1>2, <1>3

\* A granted reservation leaves a limiter within its bounds.
LEMMA ReservedType ==
    ASSUME NEW l \in Limiter, NEW t \in Nat, Granted(l, t)
    PROVE  Reserved(l, t) \in Limiter
BY AdvanceBounds, CapacityNat, CostAssumption DEF Limiter, Granted, Reserved

\* newBucket's empty map satisfies the invariant.
LEMMA InitIInv == Init => IInv
<1> SUFFICES ASSUME Init PROVE IInv
  OBVIOUS
<1>1. TypeOK
  BY DEF Init, TypeOK, PCs
<1>2. Guarded /\ Bound /\ Unserved /\ Funded /\ Accounted /\ Tight /\ Quota
  BY DEF Init, Guarded, InMap, Bound, Unserved, Funded, Accounted, Tight, Quota
<1> QED BY <1>1, <1>2 DEF IInv

\* A goroutine that moves on stays at a point of ratelimit.Server or allow.
LEMMA MoveType ==
    ASSUME TypeOK, NEW p \in Proc, NEW c \in PCs, pc' = [pc EXCEPT ![p] = c]
    PROVE  pc' \in [Proc -> PCs]
<1>1. pc \in [Proc -> PCs]
  BY DEF TypeOK
<1> QED BY <1>1

-----------------------------------------------------------------------------
(* One lemma for the steps that leave the limiters alone, one for each of  *)
(* the two steps that change them.                                         *)

\* Steps that touch neither heap, map nor histories keep the accounting.
LEMMA FrameIInv ==
    ASSUME IInv, UNCHANGED <<limiters, heap, skew, admits>>
    PROVE  Unserved' /\ Funded' /\ Accounted' /\ Tight' /\ Quota'
<1>1. Unserved' /\ Funded' /\ Accounted' /\ Quota'
  BY DEF IInv, Unserved, Funded, Accounted, Quota, LimiterOf, LimiterTime
<1>2. Tight'
  BY DEF IInv, Tight, LimiterOf, LimiterTime
<1> QED BY <1>1, <1>2

\* Putting a new, full limiter into the map keeps the invariant.
LEMMA InsertIInv ==
    ASSUME IInv, NEW p \in Proc, Insert(p)
    PROVE  IInv'
<1> DEFINE k0 == key[p]
<1> DEFINE n == Len(heap) + 1
<1> USE DEF IInv
<1>1. k0 \in Key /\ limiters[k0] = 0 /\ admits[k0] = <<>> /\ n \in Nat \ {0}
  BY DEF TypeOK, Insert, Goto, Bound, Unserved
<1>2. /\ heap' = Append(heap, NewLimiter)
      /\ Len(heap') = n
      /\ heap'[n] = NewLimiter
      /\ \A i \in 1 .. Len(heap) : heap'[i] = heap[i]
      /\ heap' \in Seq(Limiter)
  <2>1. NewLimiter \in Limiter
    BY CapacityNat DEF NewLimiter, Limiter
  <2> QED BY <2>1 DEF Insert, TypeOK
<1>3. TypeOK'
  <2>1. pc' \in [Proc -> PCs]
    BY DEF TypeOK, Insert, Goto, PCs
  <2>2. n \in 0 .. n /\ 0 .. Len(heap) \subseteq 0 .. n
    BY <1>1
  <2>3. ptr' \in [Proc -> 0 .. n]
    BY <2>2 DEF TypeOK, Insert
  <2>4. limiters' \in [Key -> 0 .. n]
    BY <2>2 DEF TypeOK, Insert
  <2>5. UNCHANGED <<key, clk, reqs, mu, now, skew, admits>>
    BY DEF Insert
  <2> HIDE DEF n
  <2> QED BY <2>1, <2>3, <2>4, <2>5, <1>2 DEF TypeOK
<1>4. Guarded'
  BY DEF Guarded, InMap, Insert, Goto, TypeOK
<1>5. \A k \in Key : k # k0 => limiters'[k] = limiters[k] /\ limiters[k] \in 0 .. Len(heap)
  BY DEF Insert, TypeOK
<1>6. limiters'[k0] = n
  BY <1>1 DEF Insert, TypeOK
<1>7. Bound'
  <2>1. \A q \in Proc : q # p => pc'[q] = pc[q] /\ ptr'[q] = ptr[q] /\ key'[q] = key[q]
    BY DEF Insert, Goto, TypeOK
  <2>2. ptr'[p] = n /\ key'[p] = k0 /\ pc'[p] = "unlock"
    BY DEF Insert, Goto, TypeOK
  <2>3. \A q \in Proc : q # p => ~ InMap(q)
    BY DEF Guarded, InMap, Insert, Goto
  <2>4. \A q \in Proc : pc'[q] # "insert"
    BY <2>1, <2>2, <2>3 DEF InMap
  <2>5. \A q \in Proc : pc'[q] \in {"unlock", "clock", "reserve"} =>
             ptr'[q] # 0 /\ ptr'[q] = limiters'[key'[q]]
    <3> SUFFICES ASSUME NEW q \in Proc, pc'[q] \in {"unlock", "clock", "reserve"}
                 PROVE  ptr'[q] # 0 /\ ptr'[q] = limiters'[key'[q]]
      OBVIOUS
    <3>1. CASE q = p
      BY <3>1, <2>2, <1>6, <1>1
    <3>2. CASE q # p
      <4>1. pc[q] \in {"unlock", "clock", "reserve"} /\ ptr[q] # 0 /\ ptr[q] = limiters[key[q]]
        BY <3>2, <2>1 DEF Bound
      <4>2. key[q] \in Key /\ key[q] # k0
        BY <4>1, <1>1 DEF TypeOK
      <4> QED BY <3>2, <4>1, <4>2, <2>1, <1>5
    <3> QED BY <3>1, <3>2
  <2>6. \A j, k \in Key : limiters'[j] = limiters'[k] /\ limiters'[j] # 0 => j = k
    <3>2. \A j, k \in Key : limiters[j] = limiters[k] /\ limiters[j] # 0 => j = k
      BY DEF Bound
    <3>3. Len(heap) \in Nat
      BY DEF TypeOK
    <3> HIDE DEF IInv, k0
    <3>1. \A k \in Key : k # k0 => limiters'[k] # n
      BY <1>5, <3>3
    <3> HIDE DEF n
    <3> QED BY <3>1, <3>2, <1>5, <1>6
  <2> QED BY <2>4, <2>5, <2>6 DEF Bound
<1>8. admits' = admits /\ skew' = skew
  BY DEF Insert
<1>9. \A k \in Key : k # k0 /\ limiters[k] # 0 => heap'[limiters'[k]] = heap[limiters[k]]
  BY <1>2, <1>5
<1>10. Unserved'
  BY <1>1, <1>5, <1>6, <1>8 DEF Unserved
<1>11. Funded'
  <2> SUFFICES ASSUME NEW k \in Key, limiters'[k] # 0, NEW i \in 1 .. Len(admits'[k])
               PROVE  LimiterOf(k)'.tokens + Cost * (Len(admits'[k]) - i + 1)
                         <= Capacity + (LimiterTime(k)' - admits'[k][i])
    BY DEF Funded
  <2>1. k # k0
    BY <1>1, <1>8
  <2>2. limiters[k] # 0 /\ LimiterOf(k)' = LimiterOf(k) /\ LimiterTime(k)' = LimiterTime(k)
    BY <2>1, <1>5, <1>8, <1>9 DEF LimiterOf, LimiterTime
  <2> QED BY <2>2, <1>8 DEF Funded
<1>12. Accounted'
  <2> SUFFICES ASSUME NEW k \in Key, limiters'[k] # 0
               PROVE  /\ admits'[k] # <<>> => LimiterTime(k)' = admits'[k][Len(admits'[k])]
                      /\ LimiterOf(k)'.tokens + Cost * Len(admits'[k]) >= Capacity
    BY DEF Accounted
  <2>1. CASE k = k0
    <3>1. LimiterOf(k)' = NewLimiter
      BY <2>1, <1>2, <1>6 DEF LimiterOf
    <3> QED BY <3>1, <2>1, <1>1, <1>8, CapacityNat, CostAssumption DEF NewLimiter
  <2>2. CASE k # k0
    <3>1. limiters[k] # 0 /\ LimiterOf(k)' = LimiterOf(k) /\ LimiterTime(k)' = LimiterTime(k)
      BY <2>2, <1>5, <1>8, <1>9 DEF LimiterOf, LimiterTime
    <3> QED BY <3>1, <1>8 DEF Accounted
  <2> QED BY <2>1, <2>2
<1>13. Quota'
  BY <1>8 DEF Quota
<1>14. Tight'
  <2> SUFFICES ASSUME NEW k \in Key, limiters'[k] # 0
               PROVE  \/ /\ admits'[k] = <<>>
                         /\ LimiterOf(k)'.tokens = Capacity /\ LimiterOf(k)'.last = 0
                      \/ \E i \in 1 .. Len(admits'[k]) :
                            LimiterOf(k)'.tokens + Cost * (Len(admits'[k]) - i + 1)
                                = Capacity + (LimiterTime(k)' - admits'[k][i])
    BY DEF Tight
  <2>1. CASE k = k0
    <3>1. LimiterOf(k)' = NewLimiter
      BY <2>1, <1>2, <1>6 DEF LimiterOf
    <3> QED BY <3>1, <2>1, <1>1, <1>8 DEF NewLimiter
  <2>2. CASE k # k0
    <3>1. limiters[k] # 0 /\ LimiterOf(k)' = LimiterOf(k) /\ LimiterTime(k)' = LimiterTime(k)
      BY <2>2, <1>5, <1>8, <1>9 DEF LimiterOf, LimiterTime
    <3> QED BY <3>1, <1>8 DEF Tight
  <2> QED BY <2>1, <2>2
<1> QED BY <1>3, <1>4, <1>7, <1>10, <1>11, <1>12, <1>13, <1>14

\* Admitting a request, with a fresh or a stale clock reading, keeps it.
LEMMA AdmitIInv ==
    ASSUME IInv, NEW p \in Proc, Admit(p)
    PROVE  IInv'
<1>k. PICK k0 \in Key : k0 = key[p]
  BY DEF IInv, TypeOK
<1> DEFINE m == ptr[p]
<1> DEFINE l == heap[m]
<1> DEFINE t == clk[p]
<1> DEFINE s == skew[k0] + TurnedBack(l, t)
<1> DEFINE n == Len(admits[k0])
<1>0. TypeOK /\ Guarded /\ Bound /\ Unserved /\ Funded /\ Accounted /\ Tight /\ Quota
  BY DEF IInv
<1>1. /\ k0 \in Key /\ m # 0 /\ m = limiters[k0] /\ m \in 1 .. Len(heap)
      /\ t \in Nat /\ n \in Nat /\ skew[k0] \in Nat /\ admits[k0] \in Seq(Nat)
      /\ l \in Limiter /\ l.last \in Nat /\ l.tokens \in 0 .. Capacity
  <2>1. k0 \in Key /\ m \in 0 .. Len(heap) /\ t \in Nat /\ skew[k0] \in Nat /\ admits[k0] \in Seq(Nat)
    BY <1>0, <1>k DEF TypeOK
  <2>2. m # 0 /\ m = limiters[k0]
    BY <1>0, <1>k DEF Bound, Admit, Goto
  <2>3. l \in Limiter
    <3>1. heap \in Seq(Limiter)
      BY <1>0 DEF TypeOK
    <3> QED BY <3>1, <2>1, <2>2
  <2> QED BY <2>1, <2>2, <2>3, CapacityNat DEF Limiter
<1>3. Granted(l, t) /\ Advance(l, t) >= Cost /\ Advance(l, t) \in 0 .. Capacity
  BY <1>1, AdvanceBounds DEF Admit, Granted
<1>4. /\ heap' = [heap EXCEPT ![m] = Reserved(l, t)]
      /\ skew' = [skew EXCEPT ![k0] = s]
      /\ admits' = [admits EXCEPT ![k0] = Append(@, t + s)]
      /\ limiters' = limiters /\ key' = key /\ ptr' = ptr /\ clk' = clk
      /\ mu' = mu /\ reqs' = reqs /\ now' = now
      /\ pc[p] = "reserve" /\ pc' = [pc EXCEPT ![p] = "handler"]
  BY <1>k DEF Admit, Goto
<1> HIDE DEF m, l, t, s, n
<1>2. s \in Nat /\ t + s \in Nat
  <2>1. TurnedBack(l, t) \in Nat
    BY <1>1, LimiterTimeAdvances
  <2>2. s = skew[k0] + TurnedBack(l, t)
    BY DEF s
  <2>3. t \in Nat /\ skew[k0] \in Nat
    BY <1>1
  <2> QED BY <2>1, <2>2, <2>3
<1>5. /\ Len(heap') = Len(heap) /\ heap' \in Seq(Limiter)
      /\ heap'[m] = Reserved(l, t)
      /\ \A i \in 1 .. Len(heap) : i # m => heap'[i] = heap[i]
  BY <1>0, <1>1, <1>3, <1>4, ReservedType DEF TypeOK
<1>6. /\ admits'[k0] = Append(admits[k0], t + s)
      /\ admits'[k0] \in Seq(Nat)
      /\ Len(admits'[k0]) = n + 1
      /\ admits'[k0][n + 1] = t + s
      /\ \A i \in 1 .. n : admits'[k0][i] = admits[k0][i] /\ admits[k0][i] \in Nat
      /\ skew'[k0] = s
  <2>1. admits'[k0] = Append(admits[k0], t + s) /\ skew'[k0] = s
    BY <1>0, <1>1, <1>4 DEF TypeOK
  <2>2. /\ Append(admits[k0], t + s) \in Seq(Nat)
        /\ Len(Append(admits[k0], t + s)) = n + 1
        /\ Append(admits[k0], t + s)[n + 1] = t + s
        /\ \A i \in 1 .. n : /\ Append(admits[k0], t + s)[i] = admits[k0][i]
                            /\ admits[k0][i] \in Nat
    BY <1>1, <1>2, AppendFacts DEF n
  <2> QED BY <2>1, <2>2
<1>7. \A k \in Key : k # k0 =>
         /\ admits'[k] = admits[k] /\ skew'[k] = skew[k]
         /\ limiters[k] # 0 => LimiterOf(k)' = LimiterOf(k) /\ LimiterTime(k)' = LimiterTime(k)
  <2> SUFFICES ASSUME NEW k \in Key, k # k0
               PROVE  /\ admits'[k] = admits[k] /\ skew'[k] = skew[k]
                      /\ limiters[k] # 0 => LimiterOf(k)' = LimiterOf(k) /\ LimiterTime(k)' = LimiterTime(k)
    OBVIOUS
  <2>1. admits'[k] = admits[k] /\ skew'[k] = skew[k]
    BY <1>0, <1>1, <1>4 DEF TypeOK
  <2>2. limiters[k] # 0 => limiters[k] # m /\ limiters[k] \in 1 .. Len(heap)
    BY <1>0, <1>1 DEF Bound, TypeOK
  <2> QED BY <2>1, <2>2, <1>4, <1>5 DEF LimiterOf, LimiterTime
<1>8. /\ LimiterOf(k0)' = Reserved(l, t) /\ LimiterOf(k0) = l
      /\ LimiterOf(k0)'.tokens = Advance(l, t) - Cost
      /\ LimiterTime(k0)' = t + s
      /\ LimiterTime(k0) = l.last + skew[k0]
  <2>1. LimiterOf(k0)' = Reserved(l, t) /\ LimiterOf(k0) = l
    BY <1>1, <1>4, <1>5 DEF LimiterOf, l
  <2>2. Reserved(l, t).tokens = Advance(l, t) - Cost /\ Reserved(l, t).last = t
    BY DEF Reserved
  <2>3. LimiterTime(k0)' = LimiterOf(k0)'.last + skew'[k0]
    BY <1>4 DEF LimiterTime, LimiterOf
  <2> QED BY <2>1, <2>2, <2>3, <1>6 DEF LimiterTime
<1>9. Advance(l, t) - l.tokens <= (t + s) - (l.last + skew[k0]) /\ t + s >= l.last + skew[k0]
  BY <1>1, LimiterTimeAdvances DEF s
<1>10. TypeOK'
  BY <1>0, <1>2, <1>4, <1>5, <1>6, <1>1 DEF TypeOK, PCs
<1>11. Guarded'
  BY <1>0, <1>4 DEF Guarded, InMap, TypeOK
<1>12. Bound'
  BY <1>0, <1>4 DEF Bound, TypeOK
<1>13. Unserved'
  BY <1>0, <1>1, <1>4, <1>7 DEF Unserved
<1>14. \A i \in 1 .. n : l.tokens + Cost * (n - i + 1) <= Capacity + (LimiterTime(k0) - admits[k0][i])
  BY <1>0, <1>1, <1>8 DEF Funded, n
<1>15. \A i \in 1 .. n + 1 :
          LimiterOf(k0)'.tokens + Cost * ((n + 1) - i + 1)
              <= Capacity + (LimiterTime(k0)' - admits'[k0][i])
  <2> SUFFICES ASSUME NEW i \in 1 .. n + 1
               PROVE  LimiterOf(k0)'.tokens + Cost * ((n + 1) - i + 1)
                         <= Capacity + (LimiterTime(k0)' - admits'[k0][i])
    OBVIOUS
  <2>1. CASE i = n + 1
    BY <2>1, <1>1, <1>2, <1>3, <1>6, <1>8, CostAssumption, CapacityNat
  <2>2. CASE i # n + 1
    <3>1. i \in 1 .. n
      BY <2>2, <1>1
    <3>2. Cost * ((n + 1) - i + 1) = Cost * (n - i + 1) + Cost
      BY <3>1, <1>1, CostAssumption
    <3> DEFINE spent == Cost * (n - i + 1)
    <3>3. spent \in Int
      BY <3>1, <1>1, CostAssumption
    <3>4. l.tokens + spent <= Capacity + (LimiterTime(k0) - admits[k0][i])
      BY <3>1, <1>14
    <3> HIDE DEF spent
    <3>5. (Advance(l, t) - Cost) + (spent + Cost) <= Capacity + ((t + s) - admits[k0][i])
      <4>1. /\ l.tokens \in Int /\ Advance(l, t) \in Int /\ Capacity \in Int
            /\ l.last + skew[k0] \in Int /\ t + s \in Int /\ admits[k0][i] \in Int
        <5>1. l.tokens \in Int /\ Advance(l, t) \in Int /\ Capacity \in Int
          BY <1>1, <1>3, CapacityNat
        <5>2. l.last + skew[k0] \in Int /\ t + s \in Int
          BY <1>1, <1>2
        <5>3. admits[k0][i] \in Int
          BY <3>1, <1>6
        <5> QED BY <5>1, <5>2, <5>3
      <4>2. l.tokens + spent <= Capacity + ((l.last + skew[k0]) - admits[k0][i])
        BY <3>4, <1>8
      <4> QED BY <4>1, <4>2, <3>3, <1>9, CostAssumption, AdmissionArith
    <3> QED BY <3>1, <3>2, <3>5, <1>6, <1>8 DEF spent
  <2> QED BY <2>1, <2>2
<1>16. Funded'
  <2> SUFFICES ASSUME NEW k \in Key, limiters'[k] # 0, NEW i \in 1 .. Len(admits'[k])
               PROVE  LimiterOf(k)'.tokens + Cost * (Len(admits'[k]) - i + 1)
                         <= Capacity + (LimiterTime(k)' - admits'[k][i])
    BY DEF Funded
  <2>1. CASE k = k0
    BY <2>1, <1>6, <1>15
  <2>2. CASE k # k0
    BY <2>2, <1>0, <1>4, <1>7 DEF Funded
  <2> QED BY <2>1, <2>2
<1>17. Accounted'
  <2>1. l.tokens + Cost * n >= Capacity
    BY <1>0, <1>1, <1>8 DEF Accounted, n
  <2>2. Cost * (n + 1) = Cost * n + Cost /\ Cost * n \in Int
    BY <1>1, CostAssumption
  <2>3. Advance(l, t) >= l.tokens
    BY <1>1, AdvanceBounds
  <2>4. LimiterOf(k0)'.tokens + Cost * (n + 1) >= Capacity
    <3> DEFINE cn == Cost * n
    <3>1. l.tokens + cn >= Capacity /\ cn \in Int /\ Cost * (n + 1) = cn + Cost
      BY <2>1, <2>2
    <3>2. LimiterOf(k0)'.tokens = Advance(l, t) - Cost
      BY <1>8
    <3>3. Advance(l, t) \in Int /\ l.tokens \in Int /\ Cost \in Int /\ Capacity \in Int
      BY <1>1, <1>3, CostAssumption, CapacityNat
    <3> HIDE DEF cn
    <3> QED BY <3>1, <3>2, <3>3, <2>3
  <2> SUFFICES ASSUME NEW k \in Key, limiters'[k] # 0
               PROVE  /\ admits'[k] # <<>> => LimiterTime(k)' = admits'[k][Len(admits'[k])]
                      /\ LimiterOf(k)'.tokens + Cost * Len(admits'[k]) >= Capacity
    BY DEF Accounted
  <2>5. CASE k = k0
    BY <2>4, <2>5, <1>6, <1>8
  <2>6. CASE k # k0
    BY <2>6, <1>0, <1>4, <1>7 DEF Accounted
  <2> QED BY <2>5, <2>6
<1>18. Quota'
  <2> SUFFICES ASSUME NEW k \in Key,
                      NEW i \in 1 .. Len(admits'[k]), NEW j \in 1 .. Len(admits'[k]), i <= j
               PROVE  Cost * (j - i + 1) <= Capacity + (admits'[k][j] - admits'[k][i])
    BY DEF Quota
  <2>1. CASE k # k0
    BY <2>1, <1>0, <1>7 DEF Quota
  <2>2. CASE k = k0 /\ j # n + 1
    <3>1. i \in 1 .. n /\ j \in 1 .. n
      BY <2>2, <1>1, <1>6
    <3> QED BY <3>1, <2>2, <1>0, <1>6 DEF Quota, n
  <2>3. CASE k = k0 /\ j = n + 1
    <3>1. i \in 1 .. n + 1
      BY <2>3, <1>6
    <3>2. LimiterOf(k0)'.tokens + Cost * ((n + 1) - i + 1)
              <= Capacity + ((t + s) - admits'[k0][i])
      BY <3>1, <1>15, <1>8
    <3>3. LimiterOf(k0)'.tokens >= 0 /\ LimiterOf(k0)'.tokens \in Int
      BY <1>3, <1>8, CostAssumption, CapacityNat
    <3>4. admits'[k0][i] \in Int
      <4>1. admits'[k0] \in Seq(Nat) /\ Len(admits'[k0]) = n + 1
        BY <1>6
      <4> QED BY <4>1, <3>1
    <3> DEFINE spent == Cost * ((n + 1) - i + 1)
    <3>5. spent \in Int
      BY <3>1, <1>1, CostAssumption
    <3> HIDE DEF spent
    <3>6. LimiterOf(k0)'.tokens + spent <= Capacity + ((t + s) - admits'[k0][i])
      BY <3>2 DEF spent
    <3>7. spent <= Capacity + ((t + s) - admits'[k0][i])
      BY <3>3, <3>4, <3>5, <3>6, <1>2, CapacityNat
    <3> QED BY <3>7, <2>3, <1>6 DEF spent
  <2> QED BY <2>1, <2>2, <2>3
<1>19. \E i \in 1 .. n + 1 :
          LimiterOf(k0)'.tokens + Cost * ((n + 1) - i + 1)
              = Capacity + (LimiterTime(k0)' - admits'[k0][i])
  <2>1. CASE Advance(l, t) = Capacity
    <3>1. n + 1 \in 1 .. n + 1
      BY <1>1
    <3>2. Cost * ((n + 1) - (n + 1) + 1) = Cost
      BY <1>1, CostAssumption
    <3>3. LimiterOf(k0)'.tokens + Cost = Capacity + (LimiterTime(k0)' - admits'[k0][n + 1])
      BY <2>1, <1>2, <1>6, <1>8, CostAssumption, CapacityNat
    <3> QED BY <3>1, <3>2, <3>3
  <2>2. CASE Advance(l, t) # Capacity
    <3>1. Advance(l, t) - l.tokens = (t + s) - (l.last + skew[k0])
      BY <2>2, <1>1, RefillIsExact DEF s
    <3>2. l.tokens # Capacity
      <4>1. Advance(l, t) >= l.tokens
        BY <1>1, AdvanceBounds
      <4> QED BY <4>1, <2>2, <1>1, <1>3, CapacityNat
    <3>3. PICK i \in 1 .. n : l.tokens + Cost * (n - i + 1)
                                  = Capacity + (LimiterTime(k0) - admits[k0][i])
      BY <3>2, <1>0, <1>1, <1>8 DEF Tight, n
    <3>4. Cost * ((n + 1) - i + 1) = Cost * (n - i + 1) + Cost /\ i \in 1 .. n + 1
      BY <1>1, CostAssumption
    <3> DEFINE spent == Cost * (n - i + 1)
    <3>5. spent \in Int
      BY <1>1, CostAssumption
    <3>6. l.tokens + spent = Capacity + ((l.last + skew[k0]) - admits[k0][i])
      BY <3>3, <1>8
    <3> HIDE DEF spent
    <3>7. (Advance(l, t) - Cost) + (spent + Cost) = Capacity + ((t + s) - admits[k0][i])
      <4>1. l.tokens \in Int /\ Advance(l, t) \in Int /\ Capacity \in Int /\ Cost \in Int
        BY <1>1, <1>3, CapacityNat, CostAssumption
      <4>2. l.last + skew[k0] \in Int /\ t + s \in Int /\ admits[k0][i] \in Int
        <5>1. l.last + skew[k0] \in Int /\ t + s \in Int
          BY <1>1, <1>2
        <5>2. admits[k0][i] \in Int
          BY <1>6
        <5> QED BY <5>1, <5>2
      <4>3. PICK tok \in Int, adv \in Int, old \in Int, new \in Int, at \in Int :
                /\ tok = l.tokens /\ adv = Advance(l, t)
                /\ old = l.last + skew[k0] /\ new = t + s /\ at = admits[k0][i]
        BY <4>1, <4>2
      <4>4. tok + spent = Capacity + (old - at) /\ adv - tok = new - old
        BY <4>3, <3>1, <3>6
      <4>5. (adv - Cost) + (spent + Cost) = Capacity + (new - at)
        BY <4>1, <4>4, <3>5, ExactArith
      <4> QED BY <4>3, <4>5
    <3>8. LimiterOf(k0)'.tokens + Cost * ((n + 1) - i + 1)
              = Capacity + (LimiterTime(k0)' - admits'[k0][i])
      BY <3>4, <3>7, <1>6, <1>8 DEF spent
    <3> QED BY <3>4, <3>8
  <2> QED BY <2>1, <2>2
<1>20. Tight'
  <2> SUFFICES ASSUME NEW k \in Key, limiters'[k] # 0
               PROVE  \/ /\ admits'[k] = <<>>
                         /\ LimiterOf(k)'.tokens = Capacity /\ LimiterOf(k)'.last = 0
                      \/ \E i \in 1 .. Len(admits'[k]) :
                            LimiterOf(k)'.tokens + Cost * (Len(admits'[k]) - i + 1)
                                = Capacity + (LimiterTime(k)' - admits'[k][i])
    BY DEF Tight
  <2>1. CASE k = k0
    BY <2>1, <1>6, <1>19
  <2>2. CASE k # k0
    BY <2>2, <1>0, <1>4, <1>7 DEF Tight
  <2> QED BY <2>1, <2>2
<1> QED BY <1>10, <1>11, <1>12, <1>13, <1>16, <1>17, <1>18, <1>20 DEF IInv

\* Every step keeps the invariant.
LEMMA NextIInv == IInv /\ [Next]_vars => IInv'
<1> SUFFICES ASSUME IInv, [Next]_vars PROVE IInv'
  OBVIOUS
<1>0. TypeOK /\ Guarded /\ Bound
  BY DEF IInv
<1>1. ASSUME NEW p \in Proc, Skip(p) PROVE IInv'
  <2>1. TypeOK'
    <3>1. pc' \in [Proc -> PCs]
      BY <1>0, <1>1, MoveType DEF Skip, Goto, PCs
    <3>2. reqs' \in [Proc -> Nat]
      <4>1. reqs \in [Proc -> Nat] /\ reqs' = [reqs EXCEPT ![p] = reqs[p] + 1]
        BY <1>0, <1>1 DEF TypeOK, Skip
      <4> QED BY <4>1
    <3> QED BY <3>1, <3>2, <1>0, <1>1 DEF TypeOK, Skip
  <2>2. Guarded' /\ Bound'
    BY <1>0, <1>1 DEF TypeOK, Guarded, InMap, Bound, Skip, Goto
  <2> QED BY <1>1, <2>1, <2>2, FrameIInv DEF IInv, Skip
<1>2. ASSUME NEW p \in Proc, NEW k \in Key, Begin(p, k) PROVE IInv'
  <2>1. TypeOK'
    <3>1. pc' \in [Proc -> PCs]
      BY <1>0, <1>2, MoveType DEF Begin, Goto, PCs
    <3>2. key' \in [Proc -> Key]
      BY <1>0, <1>2 DEF TypeOK, Begin
    <3>3. reqs' \in [Proc -> Nat]
      <4>1. reqs \in [Proc -> Nat] /\ reqs' = [reqs EXCEPT ![p] = reqs[p] + 1]
        BY <1>0, <1>2 DEF TypeOK, Begin
      <4> QED BY <4>1
    <3> QED BY <3>1, <3>2, <3>3, <1>0, <1>2 DEF TypeOK, Begin
  <2>2. Guarded' /\ Bound'
    BY <1>0, <1>2 DEF TypeOK, Guarded, InMap, Bound, Begin, Goto
  <2> QED BY <1>2, <2>1, <2>2, FrameIInv DEF IInv, Begin
<1>3. ASSUME NEW p \in Proc, Lock(p) PROVE IInv'
  <2>1. TypeOK'
    <3>1. pc' \in [Proc -> PCs]
      BY <1>0, <1>3, MoveType DEF Lock, Goto, PCs
    <3> QED BY <3>1, <1>0, <1>3 DEF TypeOK, Lock
  <2>2. pc \in [Proc -> PCs]
    BY <1>0 DEF TypeOK
  <2>3. Guarded'
    BY <1>0, <1>3, <2>2, NoProcAssumption DEF Guarded, InMap, Lock, Goto
  <2>4. Bound'
    BY <1>0, <1>3, <2>2 DEF Bound, Lock, Goto
  <2> QED BY <1>3, <2>1, <2>3, <2>4, FrameIInv DEF IInv, Lock
<1>4. ASSUME NEW p \in Proc, Lookup(p) PROVE IInv'
  <2>1. TypeOK'
    <3>1. limiters[key[p]] \in 0 .. Len(heap)
      BY <1>0 DEF TypeOK
    <3>2. pc' \in [Proc -> PCs]
      <4>1. (IF limiters[key[p]] = 0 THEN "insert" ELSE "unlock") \in PCs
        BY DEF PCs
      <4> QED BY <4>1, <1>0, <1>4 DEF TypeOK, Lookup
    <3> QED BY <3>1, <3>2, <1>0, <1>4 DEF TypeOK, Lookup
  <2>2. Guarded' /\ Bound'
    BY <1>0, <1>4 DEF TypeOK, Guarded, InMap, Bound, Lookup
  <2> QED BY <1>4, <2>1, <2>2, FrameIInv DEF IInv, Lookup
<1>5. ASSUME NEW p \in Proc, Unlock(p) PROVE IInv'
  <2>1. TypeOK'
    <3>1. pc' \in [Proc -> PCs]
      BY <1>0, <1>5, MoveType DEF Unlock, Goto, PCs
    <3> QED BY <3>1, <1>0, <1>5 DEF TypeOK, Unlock
  <2>2. Guarded' /\ Bound'
    BY <1>0, <1>5 DEF TypeOK, Guarded, InMap, Bound, Unlock, Goto
  <2> QED BY <1>5, <2>1, <2>2, FrameIInv DEF IInv, Unlock
<1>6. ASSUME NEW p \in Proc, ReadClock(p) PROVE IInv'
  <2>1. TypeOK'
    <3>1. pc' \in [Proc -> PCs]
      BY <1>0, <1>6, MoveType DEF ReadClock, Goto, PCs
    <3>2. clk' \in [Proc -> Nat]
      BY <1>0, <1>6 DEF TypeOK, ReadClock
    <3> QED BY <3>1, <3>2, <1>0, <1>6 DEF TypeOK, ReadClock
  <2>2. Guarded' /\ Bound'
    BY <1>0, <1>6 DEF TypeOK, Guarded, InMap, Bound, ReadClock, Goto
  <2> QED BY <1>6, <2>1, <2>2, FrameIInv DEF IInv, ReadClock
<1>7. ASSUME NEW p \in Proc, Reject(p) PROVE IInv'
  <2>1. TypeOK'
    <3>1. pc' \in [Proc -> PCs]
      BY <1>0, <1>7, MoveType DEF Reject, Goto, PCs
    <3> QED BY <3>1, <1>0, <1>7 DEF TypeOK, Reject
  <2>2. Guarded' /\ Bound'
    BY <1>0, <1>7 DEF TypeOK, Guarded, InMap, Bound, Reject, Goto
  <2> QED BY <1>7, <2>1, <2>2, FrameIInv DEF IInv, Reject
<1>8. ASSUME NEW p \in Proc, Answer(p) PROVE IInv'
  <2>1. TypeOK'
    <3>1. pc' \in [Proc -> PCs]
      BY <1>0, <1>8, MoveType DEF Answer, PCs
    <3>2. ptr' \in [Proc -> 0 .. Len(heap)]
      BY <1>0, <1>8 DEF TypeOK, Answer
    <3>3. clk' \in [Proc -> Nat]
      BY <1>0, <1>8 DEF TypeOK, Answer
    <3> QED BY <3>1, <3>2, <3>3, <1>0, <1>8 DEF TypeOK, Answer
  <2>2. Guarded' /\ Bound'
    BY <1>0, <1>8 DEF TypeOK, Guarded, InMap, Bound, Answer
  <2> QED BY <1>8, <2>1, <2>2, FrameIInv DEF IInv, Answer
<1>9. CASE Tick
  <2>1. TypeOK' /\ Guarded' /\ Bound'
    BY <1>0, <1>9 DEF TypeOK, Guarded, InMap, Bound, Tick
  <2> QED BY <1>9, <2>1, FrameIInv DEF IInv, Tick
<1>10. CASE UNCHANGED vars
  <2>1. TypeOK' /\ Guarded' /\ Bound'
    BY <1>0, <1>10 DEF TypeOK, Guarded, InMap, Bound, vars
  <2> QED BY <1>10, <2>1, FrameIInv DEF IInv, vars
<1> QED BY <1>1, <1>2, <1>3, <1>4, <1>5, <1>6, <1>7, <1>8, <1>9, <1>10,
           InsertIInv, AdmitIInv DEF Next, Serve

-----------------------------------------------------------------------------
\* The invariant holds throughout every execution of the limiter.
THEOREM Invariance == Spec => []IInv
<1>1. Init => IInv
  BY InitIInv
<1>2. IInv /\ [Next]_vars => IInv'
  BY NextIInv
<1> QED BY <1>1, <1>2, PTL DEF Spec

\* Limiters keep their bounds and every pointer of ratelimit.go's bucket is
\* nil or valid, whatever the number of goroutines.
THEOREM TypeCorrect == Spec => []TypeOK
<1>1. IInv => TypeOK
  BY DEF IInv
<1> QED BY <1>1, Invariance, PTL

\* bucket.mu keeps the map of limiters to one goroutine at a time.
THEOREM MapIsExclusive == Spec => []MapExclusive
<1>1. IInv => MapExclusive
  BY DEF IInv, Guarded, InMap, MapExclusive
<1> QED BY <1>1, Invariance, PTL

\* Requests of one key always meet at one limiter, requests of two never do.
THEOREM LimiterIsUnique == Spec => []OneLimiterPerKey
<1>1. IInv => OneLimiterPerKey
  BY DEF IInv, Bound, OneLimiterPerKey
<1> QED BY <1>1, Invariance, PTL

\* The rate promise of WithRate(rps, burst) holds for every key and window.
THEOREM QuotaHolds == Spec => []Quota
<1>1. IInv => Quota
  BY DEF IInv
<1> QED BY <1>1, Invariance, PTL

\* ErrTooManyRequests is returned only to a key that used up its burst and was
\* served less than one refill ago.
THEOREM RejectionHasCause == Spec => RejectedWithCause
<1>1. ASSUME IInv, [Next]_vars, NEW p \in Proc, pc[p] = "reserve", pc'[p] = "limited"
      PROVE  LET k == key[p]
             IN  \/ Burst = 0
                 \/ /\ Len(admits[k]) >= Burst
                    /\ clk[p] + skew[k] < admits[k][Len(admits[k])] + Cost
  <2> DEFINE k0 == key[p]
  <2> DEFINE l == heap[ptr[p]]
  <2> DEFINE t == clk[p]
  <2> DEFINE n == Len(admits[k0])
  <2>1. TypeOK /\ Bound /\ Accounted
    BY <1>1 DEF IInv
  <2>2. ~ Granted(l, t)
    <3>1. pc \in [Proc -> PCs] /\ pc' # pc
      BY <1>1, <2>1 DEF TypeOK
    <3>2. PICK q \in Proc : Serve(q) \/ Skip(q) \/ \E k \in Key : Begin(q, k)
      BY <1>1, <3>1 DEF Next, Tick, vars
    <3>3. PICK c : pc' = [pc EXCEPT ![q] = c]
      BY <3>2 DEF Serve, Skip, Begin, Lock, Lookup, Insert, Unlock, ReadClock,
                  Admit, Reject, Answer, Goto
    <3>4. q = p /\ c = "limited"
      BY <1>1, <3>1, <3>3
    <3>5. Reject(p)
      BY <1>1, <3>1, <3>2, <3>4 DEF Serve, Skip, Begin, Lock, Lookup, Insert, Unlock,
                                    ReadClock, Admit, Answer, Goto
    <3> QED BY <3>5 DEF Reject
  <2>3. /\ k0 \in Key /\ t \in Nat /\ n \in Nat /\ skew[k0] \in Nat /\ admits[k0] \in Seq(Nat)
        /\ ptr[p] # 0 /\ ptr[p] = limiters[k0] /\ l \in Limiter
    <3>1. ptr[p] # 0 /\ ptr[p] = limiters[k0] /\ ptr[p] \in 0 .. Len(heap)
      BY <1>1, <2>1 DEF Bound, TypeOK
    <3> QED BY <3>1, <2>1 DEF TypeOK
  <2>4. /\ admits[k0] # <<>> => l.last + skew[k0] = admits[k0][n]
        /\ l.tokens + Cost * n >= Capacity
    BY <2>1, <2>3 DEF Accounted, LimiterTime, LimiterOf
  <2> HIDE DEF k0, l, t
  <2> SUFFICES ASSUME Burst # 0
               PROVE  n >= Burst /\ t + skew[k0] < admits[k0][n] + Cost
    BY DEF k0, t
  <2>5. Advance(l, t) < Cost /\ Advance(l, t) \in Nat
    <3>1. Advance(l, t) \in Int /\ Advance(l, t) >= 0
      <4>1. Advance(l, t) \in 0 .. Capacity
        BY <2>3, AdvanceBounds
      <4> QED BY <4>1, CapacityNat
    <3>2. Burst >= 1
      BY BurstAssumption
    <3>3. ~ (Advance(l, t) >= Cost)
      BY <2>2, <3>2 DEF Granted
    <3> QED BY <3>1, <3>3, CostAssumption
  <2>6. l.tokens \in Nat /\ l.last \in Nat /\ l.tokens < Cost
    BY <2>3, <2>5, AdvanceBounds, CapacityNat, CostAssumption DEF Limiter
  <2>7. n >= Burst
    <3>1. SUFFICES ASSUME n <= Burst - 1 PROVE FALSE
      BY <2>3, BurstAssumption
    <3>2. Cost * n <= Cost * (Burst - 1)
      <4> HIDE DEF n
      <4> QED BY <3>1, <2>3, BurstAssumption, CostAssumption, TimesMonotone
    <3>3. Cost * (Burst - 1) = Capacity - Cost
      BY BurstAssumption, CostAssumption DEF Capacity
    <3> DEFINE cn == Cost * n
    <3>4. cn \in Int
      BY <2>3, CostAssumption
    <3> HIDE DEF cn
    <3>5. cn <= Capacity - Cost /\ l.tokens + cn >= Capacity
      BY <3>2, <3>3, <2>4 DEF cn
    <3> QED BY <3>4, <3>5, <2>6, CapacityNat, CostAssumption
  <2>8. t < l.last + Cost
    <3>1. Capacity >= Cost
      BY BurstAssumption, CostAssumption DEF Capacity
    <3> QED BY <3>1, <2>3, <2>5, <2>6, CapacityNat, CostAssumption DEF Advance, Least
  <2>9. admits[k0] # <<>>
    BY <2>7, <2>3, BurstAssumption
  <2>10. l.last + skew[k0] = admits[k0][n]
    BY <2>4, <2>9
  <2> QED BY <2>7, <2>8, <2>10, <2>3, <2>6, CostAssumption
<1>2. IInv /\ [Next]_vars =>
        [\A p \in Proc : pc[p] = "reserve" /\ pc'[p] = "limited" =>
            LET k == key[p]
            IN  \/ Burst = 0
                \/ /\ Len(admits[k]) >= Burst
                   /\ clk[p] + skew[k] < admits[k][Len(admits[k])] + Cost]_vars
  BY <1>1
<1> QED BY <1>2, Invariance, PTL DEF RejectedWithCause, Spec

-----------------------------------------------------------------------------
(* The limiter implements Admission.  Its verdict is a function of the     *)
(* admissions of the request's own key: Funded gives one direction, Tight  *)
(* the other.                                                              *)

\* The reading a request decides with stands for the same time in both
\* specifications.
LEMMA SameTime ==
    ASSUME IInv, NEW p \in Proc, pc[p] = "reserve"
    PROVE  Promise!TimeOf(key[p], clk[p])
              = clk[p] + (skew[key[p]] + TurnedBack(heap[ptr[p]], clk[p]))
<1> DEFINE k0 == key[p]
<1> DEFINE l == heap[ptr[p]]
<1> DEFINE t == clk[p]
<1> DEFINE n == Len(admits[k0])
<1>0. TypeOK /\ Bound /\ Accounted /\ Tight
  BY DEF IInv
<1>1. /\ k0 \in Key /\ t \in Nat /\ skew[k0] \in Nat /\ admits[k0] \in Seq(Nat) /\ n \in Nat
      /\ ptr[p] # 0 /\ ptr[p] = limiters[k0] /\ l \in Limiter
  <2>1. ptr[p] # 0 /\ ptr[p] = limiters[k0] /\ ptr[p] \in 0 .. Len(heap)
    BY <1>0 DEF Bound, TypeOK
  <2> QED BY <2>1, <1>0 DEF TypeOK
<1>2. l = LimiterOf(k0) /\ l.last \in Nat /\ LimiterTime(k0) = l.last + skew[k0]
  BY <1>1 DEF LimiterOf, LimiterTime, Limiter
<1>3. n > 0 => admits[k0][n] = l.last + skew[k0]
  BY <1>0, <1>1, <1>2 DEF Accounted
<1>4. n = 0 => l.last = 0
  <2>1. \/ l.last = 0
        \/ \E i \in 1 .. n : TRUE
    BY <1>0, <1>1, <1>2 DEF Tight
  <2> QED BY <2>1, <1>1
<1>5. Promise!TimeOf(k0, t)
        = IF n > 0 /\ t + skew[k0] < admits[k0][n] THEN admits[k0][n] ELSE t + skew[k0]
  BY DEF Promise!TimeOf
<1> HIDE DEF k0, l, t, n
<1>6. Promise!TimeOf(k0, t) = t + (skew[k0] + TurnedBack(l, t))
  <2>1. CASE n = 0
    BY <2>1, <1>1, <1>2, <1>4, <1>5 DEF TurnedBack
  <2>2. CASE n > 0
    <3>1. Promise!TimeOf(k0, t) = IF t + skew[k0] < l.last + skew[k0]
                                  THEN l.last + skew[k0] ELSE t + skew[k0]
      BY <2>2, <1>3, <1>5
    <3>2. t \in Int /\ skew[k0] \in Int /\ l.last \in Int
      BY <1>1, <1>2
    <3>3. t + skew[k0] < l.last + skew[k0] <=> t < l.last
      BY <3>2
    <3>4. CASE t < l.last
      BY <3>1, <3>2, <3>3, <3>4 DEF TurnedBack
    <3>5. CASE ~ (t < l.last)
      BY <3>1, <3>2, <3>3, <3>5 DEF TurnedBack
    <3> QED BY <3>4, <3>5
  <2> QED BY <2>1, <2>2, <1>1
<1> QED BY <1>6 DEF k0, l, t

\* rate.Limiter has a token exactly when the key's own admissions leave room.
LEMMA SameVerdict ==
    ASSUME IInv, NEW p \in Proc, pc[p] = "reserve"
    PROVE  Granted(heap[ptr[p]], clk[p])
              <=> Promise!Permits(key[p], Promise!TimeOf(key[p], clk[p]))
<1> DEFINE k0 == key[p]
<1> DEFINE l == heap[ptr[p]]
<1> DEFINE t == clk[p]
<1> DEFINE n == Len(admits[k0])
<1> DEFINE T == t + (skew[k0] + TurnedBack(l, t))
<1>0. TypeOK /\ Bound /\ Funded /\ Tight
  BY DEF IInv
<1>1. /\ k0 \in Key /\ t \in Nat /\ skew[k0] \in Nat /\ admits[k0] \in Seq(Nat) /\ n \in Nat
      /\ ptr[p] # 0 /\ ptr[p] = limiters[k0] /\ l \in Limiter
  <2>1. ptr[p] # 0 /\ ptr[p] = limiters[k0] /\ ptr[p] \in 0 .. Len(heap)
    BY <1>0 DEF Bound, TypeOK
  <2> QED BY <2>1, <1>0 DEF TypeOK
<1>2. /\ l = LimiterOf(k0) /\ l.last \in Nat /\ l.tokens \in Nat
      /\ LimiterTime(k0) = l.last + skew[k0] /\ limiters[k0] # 0
  BY <1>1, CapacityNat DEF LimiterOf, LimiterTime, Limiter
<1>3. \A i \in 1 .. n : l.tokens + Cost * (n - i + 1)
                           <= Capacity + ((l.last + skew[k0]) - admits[k0][i])
  BY <1>0, <1>1, <1>2 DEF Funded
<1>4. \/ n = 0 /\ l.tokens = Capacity
      \/ \E i \in 1 .. n : l.tokens + Cost * (n - i + 1)
                              = Capacity + ((l.last + skew[k0]) - admits[k0][i])
  BY <1>0, <1>1, <1>2 DEF Tight
<1>5. Promise!Permits(k0, T) <=>
         /\ Burst >= 1
         /\ \A i \in 1 .. n : Cost * (n - i + 2) <= Capacity + (T - admits[k0][i])
  BY DEF Promise!Permits, Capacity
<1>6. /\ Advance(l, t) \in 0 .. Capacity /\ Advance(l, t) >= l.tokens
      /\ T \in Nat
      /\ Advance(l, t) - l.tokens <= T - (l.last + skew[k0])
  BY <1>1, AdvanceBounds, LimiterTimeAdvances
<1>7. Advance(l, t) # Capacity => Advance(l, t) - l.tokens = T - (l.last + skew[k0])
  BY <1>1, RefillIsExact
<1>8. \A i \in 1 .. n : /\ Cost * (n - i + 2) = Cost * (n - i + 1) + Cost
                        /\ Cost * (n - i + 1) \in Int /\ admits[k0][i] \in Int
  <2> SUFFICES ASSUME NEW i \in 1 .. n
               PROVE  /\ Cost * (n - i + 2) = Cost * (n - i + 1) + Cost
                      /\ Cost * (n - i + 1) \in Int /\ admits[k0][i] \in Int
    OBVIOUS
  <2>1. i \in Int /\ n \in Int /\ Cost \in Int
    BY <1>1, CostAssumption
  <2>2. admits[k0][i] \in Int
    BY <1>1
  <2> HIDE DEF n, k0
  <2> QED BY <2>1, <2>2
<1>9. /\ l.tokens \in Int /\ Advance(l, t) \in Int /\ Capacity \in Int /\ Cost \in Int
      /\ l.last + skew[k0] \in Int /\ T \in Int
  <2>1. l.last + skew[k0] \in Int /\ T \in Int
    <3> HIDE DEF T, l, k0
    <3> QED BY <1>1, <1>2, <1>6
  <2>2. l.tokens \in Int /\ Advance(l, t) \in Int /\ Capacity \in Int /\ Cost \in Int
    BY <1>2, <1>6, CapacityNat, CostAssumption
  <2> QED BY <2>1, <2>2
<1> HIDE DEF k0, l, t, n, T
<1>10. ASSUME Granted(l, t) PROVE Promise!Permits(k0, T)
  <2>1. Burst >= 1 /\ Advance(l, t) >= Cost
    BY <1>10 DEF Granted
  <2>2. ASSUME NEW i \in 1 .. n
        PROVE  Cost * (n - i + 2) <= Capacity + (T - admits[k0][i])
    <3> DEFINE spent == Cost * (n - i + 1)
    <3>1. Cost * (n - i + 2) = spent + Cost /\ spent \in Int /\ admits[k0][i] \in Int
      BY <1>8
    <3>2. l.tokens + spent <= Capacity + ((l.last + skew[k0]) - admits[k0][i])
      BY <1>3
    <3> HIDE DEF spent
    <3>3. (Advance(l, t) - Cost) + (spent + Cost) <= Capacity + (T - admits[k0][i])
      BY <3>1, <3>2, <1>6, <1>9, AdmissionArith
    <3>4. spent + Cost <= Capacity + (T - admits[k0][i])
      BY <3>1, <3>3, <2>1, <1>9
    <3> QED BY <3>1, <3>4
  <2> QED BY <2>1, <2>2, <1>5
<1>11. ASSUME Promise!Permits(k0, T) PROVE Granted(l, t)
  <2>1. Burst >= 1 /\ \A i \in 1 .. n : Cost * (n - i + 2) <= Capacity + (T - admits[k0][i])
    BY <1>11, <1>5
  <2>2. SUFFICES ASSUME Advance(l, t) < Cost PROVE FALSE
    BY <2>1, <1>9 DEF Granted
  <2>3. Capacity >= Cost
    BY <2>1, BurstAssumption, CostAssumption DEF Capacity
  <2>4. Advance(l, t) # Capacity /\ l.tokens # Capacity
    BY <2>2, <2>3, <1>6, <1>9
  <2>5. PICK i \in 1 .. n : l.tokens + Cost * (n - i + 1)
                               = Capacity + ((l.last + skew[k0]) - admits[k0][i])
    BY <2>4, <1>4
  <2> DEFINE spent == Cost * (n - i + 1)
  <2>6. Cost * (n - i + 2) = spent + Cost /\ spent \in Int /\ admits[k0][i] \in Int
    BY <1>8
  <2>7. l.tokens + spent = Capacity + ((l.last + skew[k0]) - admits[k0][i])
    BY <2>5
  <2> HIDE DEF spent
  <2>8. (Advance(l, t) - Cost) + (spent + Cost) = Capacity + (T - admits[k0][i])
    BY <2>4, <2>6, <2>7, <1>7, <1>9, ExactArith
  <2>9. spent + Cost <= Capacity + (T - admits[k0][i])
    BY <2>1, <2>6
  <2> QED BY <2>2, <2>6, <2>8, <2>9, <1>9
<1>12. Promise!TimeOf(k0, t) = T
  BY SameTime DEF k0, t, T, l
<1> QED BY <1>10, <1>11, <1>12 DEF k0, l, t

Phases == [q \in Proc |-> Phase(q)]

\* What a request's position means to Admission.
PhaseOf(c) == CASE c \in {"lock", "lookup", "insert", "unlock", "clock"} -> "asking"
                [] c = "reserve" -> "deciding"
                [] OTHER -> c

\* A goroutine that moves changes its own phase and nobody else's.
LEMMA PhaseMoves ==
    ASSUME TypeOK, NEW p \in Proc, NEW c \in PCs, NEW d \in PCs, pc[p] = c,
           pc' = [pc EXCEPT ![p] = d]
    PROVE  /\ Phases[p] = PhaseOf(c)
           /\ Phases' = [Phases EXCEPT ![p] = PhaseOf(d)]
<1>1. pc \in [Proc -> PCs]
  BY DEF TypeOK
<1>2. Phases = [q \in Proc |-> PhaseOf(pc[q])] /\ Phases' = [q \in Proc |-> PhaseOf(pc'[q])]
  BY DEF Phases, Phase, PhaseOf
<1>3. \A q \in Proc : pc'[q] = IF q = p THEN d ELSE pc[q]
  BY <1>1
<1>4. Phases' = [q \in Proc |-> IF q = p THEN PhaseOf(d) ELSE PhaseOf(pc[q])]
  BY <1>2, <1>3
<1> QED BY <1>2, <1>4

\* The positions between Lock and the clock reading are one phase.
LEMMA PhaseNames ==
    /\ \A c \in {"lock", "lookup", "insert", "unlock", "clock"} : PhaseOf(c) = "asking"
    /\ PhaseOf("lock") = "asking" /\ PhaseOf("clock") = "asking"
    /\ PhaseOf("reserve") = "deciding"
    /\ PhaseOf("idle") = "idle" /\ PhaseOf("handler") = "handler"
    /\ PhaseOf("limited") = "limited"
BY DEF PhaseOf

\* A step inside allow that keeps its phase is invisible to Admission.
LEMMA AskingOn ==
    ASSUME TypeOK, NEW p \in Proc,
           NEW c \in {"lock", "lookup", "insert", "unlock", "clock"},
           pc[p] \in {"lock", "lookup", "insert", "unlock", "clock"},
           pc' = [pc EXCEPT ![p] = c],
           UNCHANGED <<key, clk, now, skew, admits>>
    PROVE  UNCHANGED Promise!vars
<1>1. Phases[p] = "asking" /\ Phases' = [Phases EXCEPT ![p] = "asking"]
  <2>1. PhaseOf(pc[p]) = "asking" /\ PhaseOf(c) = "asking" /\ pc[p] \in PCs /\ c \in PCs
    BY PhaseNames DEF PCs
  <2> QED BY <2>1, PhaseMoves
<1>2. Phases' = Phases
  BY <1>1 DEF Phases
<1> QED BY <1>2 DEF Promise!vars, Phases

\* Every step of the limiter is a step of Admission or none.
LEMMA StepImplements == IInv /\ [Next]_vars => [Promise!Next]_(Promise!vars)
<1> SUFFICES ASSUME IInv, [Next]_vars PROVE Promise!Next \/ UNCHANGED Promise!vars
  OBVIOUS
<1>0. TypeOK /\ pc \in [Proc -> PCs]
  BY DEF IInv, TypeOK
<1>1. CASE Tick
  <2>1. Promise!Tick
    BY <1>1 DEF Tick, Promise!Tick, Phase
  <2> QED BY <2>1 DEF Promise!Next
<1>2. CASE UNCHANGED vars
  BY <1>2 DEF vars, Promise!vars, Phase
<1>3. ASSUME NEW p \in Proc, Skip(p) PROVE Promise!Next
  <2>1. Phases[p] = "idle" /\ Phases' = [Phases EXCEPT ![p] = "handler"]
    <3>1. pc[p] = "idle" /\ pc' = [pc EXCEPT ![p] = "handler"]
      BY <1>3 DEF Skip, Goto
    <3>2. "idle" \in PCs /\ "handler" \in PCs
      BY DEF PCs
    <3>3. Phases[p] = PhaseOf("idle") /\ Phases' = [Phases EXCEPT ![p] = PhaseOf("handler")]
      BY <1>0, <3>1, <3>2, PhaseMoves
    <3> QED BY <3>3, PhaseNames
  <2>2. Promise!Skip(p)
    BY <2>1, <1>3 DEF Skip, Promise!Skip, Promise!Move, Phases
  <2> QED BY <2>2 DEF Promise!Next
<1>4. ASSUME NEW p \in Proc, NEW k \in Key, Begin(p, k) PROVE Promise!Next
  <2>1. Phases[p] = "idle" /\ Phases' = [Phases EXCEPT ![p] = "asking"]
    <3>1. pc[p] = "idle" /\ pc' = [pc EXCEPT ![p] = "lock"]
      BY <1>4 DEF Begin, Goto
    <3>2. "idle" \in PCs /\ "lock" \in PCs
      BY DEF PCs
    <3>3. Phases[p] = PhaseOf("idle") /\ Phases' = [Phases EXCEPT ![p] = PhaseOf("lock")]
      BY <1>0, <3>1, <3>2, PhaseMoves
    <3> QED BY <3>3, PhaseNames
  <2>2. Promise!Ask(p, k)
    BY <2>1, <1>4 DEF Begin, Promise!Ask, Promise!Move, Phases
  <2> QED BY <2>2 DEF Promise!Next
<1>5. ASSUME NEW p \in Proc, Lock(p) \/ Insert(p) \/ Unlock(p) PROVE UNCHANGED Promise!vars
  BY <1>0, <1>5, AskingOn DEF Lock, Insert, Unlock, Goto
<1>6. ASSUME NEW p \in Proc, Lookup(p) PROVE UNCHANGED Promise!vars
  <2>1. pc' = [pc EXCEPT ![p] = "insert"] \/ pc' = [pc EXCEPT ![p] = "unlock"]
    BY <1>6 DEF Lookup
  <2> QED BY <1>0, <1>6, <2>1, AskingOn DEF Lookup
<1>7. ASSUME NEW p \in Proc, ReadClock(p) PROVE Promise!Next
  <2>1. Phases[p] = "asking" /\ Phases' = [Phases EXCEPT ![p] = "deciding"]
    <3>1. pc[p] = "clock" /\ pc' = [pc EXCEPT ![p] = "reserve"]
      BY <1>7 DEF ReadClock, Goto
    <3>2. "clock" \in PCs /\ "reserve" \in PCs
      BY DEF PCs
    <3>3. Phases[p] = PhaseOf("clock") /\ Phases' = [Phases EXCEPT ![p] = PhaseOf("reserve")]
      BY <1>0, <3>1, <3>2, PhaseMoves
    <3> QED BY <3>3, PhaseNames
  <2>2. Promise!Read(p)
    BY <2>1, <1>7 DEF ReadClock, Promise!Read, Promise!Move, Phases
  <2> QED BY <2>2 DEF Promise!Next, Promise!Serve
<1>8. ASSUME NEW p \in Proc, Reject(p) PROVE Promise!Next
  <2>1. Phases[p] = "deciding" /\ Phases' = [Phases EXCEPT ![p] = "limited"]
    <3>1. pc[p] = "reserve" /\ pc' = [pc EXCEPT ![p] = "limited"]
      BY <1>8 DEF Reject, Goto
    <3>2. "reserve" \in PCs /\ "limited" \in PCs
      BY DEF PCs
    <3>3. Phases[p] = PhaseOf("reserve") /\ Phases' = [Phases EXCEPT ![p] = PhaseOf("limited")]
      BY <1>0, <3>1, <3>2, PhaseMoves
    <3> QED BY <3>3, PhaseNames
  <2>2. ~ Promise!Permits(key[p], Promise!TimeOf(key[p], clk[p]))
    BY <1>8, SameVerdict DEF Reject, Goto
  <2>3. Promise!Refuse(p)
    BY <2>1, <2>2, <1>8 DEF Reject, Promise!Refuse, Promise!Move, Phases
  <2> QED BY <2>3 DEF Promise!Next, Promise!Serve
<1>9. ASSUME NEW p \in Proc, Admit(p) PROVE Promise!Next
  <2> DEFINE k0 == key[p]
  <2> DEFINE t == clk[p]
  <2> DEFINE s == skew[k0] + TurnedBack(heap[ptr[p]], t)
  <2>1. Phases[p] = "deciding" /\ Phases' = [Phases EXCEPT ![p] = "handler"]
    <3>1. pc[p] = "reserve" /\ pc' = [pc EXCEPT ![p] = "handler"]
      BY <1>9 DEF Admit, Goto
    <3>2. "reserve" \in PCs /\ "handler" \in PCs
      BY DEF PCs
    <3>3. Phases[p] = PhaseOf("reserve") /\ Phases' = [Phases EXCEPT ![p] = PhaseOf("handler")]
      BY <1>0, <3>1, <3>2, PhaseMoves
    <3> QED BY <3>3, PhaseNames
  <2>2. Promise!Permits(k0, Promise!TimeOf(k0, t)) /\ Promise!TimeOf(k0, t) = t + s
    BY <1>9, SameVerdict, SameTime DEF Admit, Goto
  <2>3. /\ skew' = [skew EXCEPT ![k0] = s] /\ admits' = [admits EXCEPT ![k0] = Append(@, t + s)]
        /\ UNCHANGED <<key, clk, now>>
    BY <1>9 DEF Admit
  <2>4. s = Promise!TimeOf(k0, t) - t
    <3>1. t \in Nat /\ skew[k0] \in Nat /\ TurnedBack(heap[ptr[p]], t) \in Nat
      <4>1. ptr[p] # 0 /\ ptr[p] \in 0 .. Len(heap) /\ heap \in Seq(Limiter)
        BY <1>0, <1>9 DEF IInv, Bound, TypeOK, Admit, Goto
      <4>2. t \in Nat /\ skew[k0] \in Nat
        BY <1>0 DEF TypeOK
      <4>3. heap[ptr[p]] \in Limiter
        BY <4>1
      <4> HIDE DEF t, k0
      <4> QED BY <4>2, <4>3, LimiterTimeAdvances
    <3> HIDE DEF t, k0
    <3> QED BY <3>1, <2>2
  <2>5. Promise!Admit(p)
    BY <2>1, <2>2, <2>3, <2>4 DEF Promise!Admit, Promise!Move, Phases
  <2> QED BY <2>5 DEF Promise!Next, Promise!Serve
<1>10. ASSUME NEW p \in Proc, Answer(p) PROVE Promise!Next
  <2>1. Phases[p] \in {"handler", "limited"} /\ Phases' = [Phases EXCEPT ![p] = "idle"]
    <3>1. PICK c \in {"handler", "limited"} : pc[p] = c /\ pc' = [pc EXCEPT ![p] = "idle"]
      BY <1>10 DEF Answer
    <3>2. c \in PCs /\ "idle" \in PCs /\ PhaseOf(c) = c
      BY PhaseNames DEF PCs
    <3>3. Phases[p] = PhaseOf(c) /\ Phases' = [Phases EXCEPT ![p] = PhaseOf("idle")]
      BY <1>0, <3>1, <3>2, PhaseMoves
    <3> QED BY <3>2, <3>3, PhaseNames
  <2>2. Promise!Answer(p)
    BY <2>1, <1>10 DEF Answer, Promise!Answer, Phases
  <2> QED BY <2>2 DEF Promise!Next, Promise!Serve
<1> QED BY <1>1, <1>2, <1>3, <1>4, <1>5, <1>6, <1>7, <1>8, <1>9, <1>10 DEF Next, Serve

\* bucket and rate.Limiter implement Admission: whichever goroutines race for
\* the mutex and the map and however old their clock readings are, requests
\* are admitted and refused exactly as their own key's admissions permit.
THEOREM ImplementsAdmission == Spec => Promise!Spec
<1>1. Init => Promise!Init
  <2> SUFFICES ASSUME Init PROVE Promise!Init
    OBVIOUS
  <2>1. [p \in Proc |-> Phase(p)] = [p \in Proc |-> "idle"]
    BY DEF Init, Phase
  <2>2. key \in [Proc -> Key]
    BY DEF Init
  <2> QED BY <2>1, <2>2 DEF Init, Promise!Init
<1>2. IInv /\ [Next]_vars => [Promise!Next]_(Promise!vars)
  BY StepImplements
<1> QED BY <1>1, <1>2, Invariance, PTL DEF Spec, Promise!Spec

=============================================================================
