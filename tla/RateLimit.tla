----------------------------- MODULE RateLimit -----------------------------
(***************************************************************************)
(* The inbound rate limiter of pkg/middleware/ratelimit: request           *)
(* goroutines that share one `bucket` (a mutex and a map from key to       *)
(* *rate.Limiter) and, through the map, one token bucket per key.          *)
(*                                                                         *)
(* Each goroutine steps through ratelimit.Server and bucket.allow one      *)
(* shared access at a time.  rate.Limiter is external; its Allow reads the *)
(* wall clock BEFORE it takes the limiter's own lock, so the reading may   *)
(* be older than the limiter's `last` when it is used (ReadClock and       *)
(* Reserve are separate steps).                                            *)
(*                                                                         *)
(* Units: one tick of the clock refills one unit, a request costs Cost     *)
(* units, a full bucket holds Burst * Cost units; rps > 0 is one token     *)
(* every Cost ticks.                                                       *)
(***************************************************************************)
EXTENDS Integers, Sequences, FiniteSets

CONSTANTS
    Proc,       \* goroutines serving requests
    NoProc,     \* the holder of a free mutex
    Key,        \* bucket keys the key function can return
    Cost,       \* ticks needed to refill one token
    Burst,      \* WithRate's burst
    MaxTime,    \* bound on the clock
    MaxReqs     \* bound on the requests one goroutine serves

ASSUME NoProcAssumption == NoProc \notin Proc
ASSUME CostAssumption == Cost \in Nat \ {0}
ASSUME BurstAssumption == Burst \in Nat
ASSUME BoundsAssumption == MaxTime \in Nat /\ MaxReqs \in Nat

VARIABLES
    pc,         \* where each goroutine is
    key,        \* local `key` of Server
    ptr,        \* local `l` of allow: index into heap, 0 is the nil pointer
    clk,        \* the limiter call's reading of time.Now()
    reqs,       \* requests each goroutine has started
    mu,         \* holder of bucket.mu
    limiters,   \* bucket.limiters: key -> index into heap, 0 when absent
    heap,       \* every rate.Limiter ever allocated
    now,        \* wall clock
    skew,       \* history: how far each key's limiter clock was turned back
    admits      \* history: limiter time of each admission of a key

vars == <<pc, key, ptr, clk, reqs, mu, limiters, heap, now, skew, admits>>

Capacity == Burst * Cost

Least(a, b) == IF a <= b THEN a ELSE b

-----------------------------------------------------------------------------
(* rate.Limiter (external).                                                *)

\* rate.NewLimiter(rps, burst): a full bucket whose last update is the zero time.
NewLimiter == [tokens |-> Capacity, last |-> 0]

\* A refill without its cap.
AdvanceUncapped(l, t) == IF t < l.last THEN l.tokens ELSE l.tokens + (t - l.last)

\* The tokens limiter l holds for a caller whose clock reads t: a reading older
\* than the last update counts as no elapsed time.
Advance(l, t) == IF t < l.last THEN l.tokens
                               ELSE Least(Capacity, l.tokens + (t - l.last))

\* A token handed out on the burst alone.
GrantedOnCredit(l, t) == Burst >= 1

\* A bucket that must hold more than a token.
GrantedStrictly(l, t) == Burst >= 1 /\ Advance(l, t) > Cost

\* Whether one token is there for the taking.
Granted(l, t) == Burst >= 1 /\ Advance(l, t) >= Cost

\* A granted reservation moves the limiter's clock to t, backwards too.
Reserved(l, t) == [tokens |-> Advance(l, t) - Cost, last |-> t]

\* History: by how much that turns the limiter's clock back.
TurnedBack(l, t) == IF t < l.last THEN l.last - t ELSE 0

-----------------------------------------------------------------------------
Init ==
    /\ pc = [p \in Proc |-> "idle"]
    /\ \E k \in Key : key = [p \in Proc |-> k]
    /\ ptr = [p \in Proc |-> 0]
    /\ clk = [p \in Proc |-> 0]
    /\ reqs = [p \in Proc |-> 0]
    /\ mu = NoProc
    /\ limiters = [k \in Key |-> 0]
    /\ heap = <<>>
    /\ now = 0
    /\ skew = [k \in Key |-> 0]
    /\ admits = [k \in Key |-> <<>>]

Goto(p, from, to) == pc[p] = from /\ pc' = [pc EXCEPT ![p] = to]

\* Server, an operation skipFn matches: the handler runs without a token.
Skip(p) ==
    /\ reqs[p] < MaxReqs
    /\ Goto(p, "idle", "handler")
    /\ reqs' = [reqs EXCEPT ![p] = @ + 1]
    /\ UNCHANGED <<key, ptr, clk, mu, limiters, heap, now, skew, admits>>

\* Server, any other operation: keyFn picks the bucket, allow is called.
Begin(p, k) ==
    /\ reqs[p] < MaxReqs
    /\ Goto(p, "idle", "lock")
    /\ key' = [key EXCEPT ![p] = k]
    /\ reqs' = [reqs EXCEPT ![p] = @ + 1]
    /\ UNCHANGED <<ptr, clk, mu, limiters, heap, now, skew, admits>>

\* allow without waiting for the mutex.
LockNoWait(p) ==
    /\ Goto(p, "lock", "lookup")
    /\ mu' = p
    /\ UNCHANGED <<key, ptr, clk, reqs, limiters, heap, now, skew, admits>>

\* allow: b.mu.Lock()
Lock(p) ==
    /\ Goto(p, "lock", "lookup")
    /\ mu = NoProc
    /\ mu' = p
    /\ UNCHANGED <<key, ptr, clk, reqs, limiters, heap, now, skew, admits>>

\* allow: l, ok := b.limiters[key]
Lookup(p) ==
    /\ pc[p] = "lookup"
    /\ ptr' = [ptr EXCEPT ![p] = limiters[key[p]]]
    /\ pc' = [pc EXCEPT ![p] = IF limiters[key[p]] = 0 THEN "insert" ELSE "unlock"]
    /\ UNCHANGED <<key, clk, reqs, mu, limiters, heap, now, skew, admits>>

\* allow with a limiter that never reaches the map.
InsertUnpublished(p) ==
    /\ Goto(p, "insert", "unlock")
    /\ heap' = Append(heap, NewLimiter)
    /\ ptr' = [ptr EXCEPT ![p] = Len(heap) + 1]
    /\ UNCHANGED <<key, clk, reqs, mu, limiters, now, skew, admits>>

\* allow: l = rate.NewLimiter(...); b.limiters[key] = l
Insert(p) ==
    /\ Goto(p, "insert", "unlock")
    /\ heap' = Append(heap, NewLimiter)
    /\ ptr' = [ptr EXCEPT ![p] = Len(heap) + 1]
    /\ limiters' = [limiters EXCEPT ![key[p]] = Len(heap) + 1]
    /\ UNCHANGED <<key, clk, reqs, mu, now, skew, admits>>

\* allow: b.mu.Unlock()
Unlock(p) ==
    /\ Goto(p, "unlock", "clock")
    /\ mu' = NoProc
    /\ UNCHANGED <<key, ptr, clk, reqs, limiters, heap, now, skew, admits>>

\* l.Allow(), first half: time.Now() is read outside every lock.
ReadClock(p) ==
    /\ Goto(p, "clock", "reserve")
    /\ clk' = [clk EXCEPT ![p] = now]
    /\ UNCHANGED <<key, ptr, reqs, mu, limiters, heap, now, skew, admits>>

\* l.Allow(), second half, a token is there: Server calls the handler.
\* The histories take the limiter's time as last + skew, which never decreases.
Admit(p) ==
    LET l == heap[ptr[p]]
        k == key[p]
        t == clk[p]
        s == skew[k] + TurnedBack(l, t)
    IN  /\ Goto(p, "reserve", "handler")
        /\ Granted(l, t)
        /\ heap' = [heap EXCEPT ![ptr[p]] = Reserved(l, t)]
        /\ skew' = [skew EXCEPT ![k] = s]
        /\ admits' = [admits EXCEPT ![k] = Append(@, t + s)]
        /\ UNCHANGED <<key, ptr, clk, reqs, mu, limiters, now>>

\* l.Allow(), second half, no token: Server returns ErrTooManyRequests.
Reject(p) ==
    /\ Goto(p, "reserve", "limited")
    /\ ~ Granted(heap[ptr[p]], clk[p])
    /\ UNCHANGED <<key, ptr, clk, reqs, mu, limiters, heap, now, skew, admits>>

\* The request is answered, by the handler or with ErrTooManyRequests, and the
\* call's locals are gone.
Answer(p) ==
    /\ pc[p] \in {"handler", "limited"}
    /\ pc' = [pc EXCEPT ![p] = "idle"]
    /\ ptr' = [ptr EXCEPT ![p] = 0]
    /\ clk' = [clk EXCEPT ![p] = 0]
    /\ UNCHANGED <<key, reqs, mu, limiters, heap, now, skew, admits>>

\* Time passes.
Tick ==
    /\ now < MaxTime
    /\ now' = now + 1
    /\ UNCHANGED <<pc, key, ptr, clk, reqs, mu, limiters, heap, skew, admits>>

\* The part of a request the goroutine runs by itself once it has begun.
Serve(p) == \/ Lock(p)   \/ Lookup(p)    \/ Insert(p) \/ Unlock(p)
            \/ ReadClock(p) \/ Admit(p) \/ Reject(p) \/ Answer(p)

Next ==
    \/ Tick
    \/ \E p \in Proc : \/ Serve(p)
                       \/ Skip(p)
                       \/ \E k \in Key : Begin(p, k)

\* Goroutines are scheduled; sync.Mutex hands the lock to a starving waiter.
Fairness == \A p \in Proc : WF_vars(Serve(p)) /\ SF_vars(Lock(p))

Spec == Init /\ [][Next]_vars

FairSpec == Spec /\ Fairness

-----------------------------------------------------------------------------
Limiter == [tokens : 0 .. Capacity, last : Nat]

PCs == {"idle", "lock", "lookup", "insert", "unlock", "clock", "reserve",
        "handler", "limited"}

\* Type invariant: no limiter ever holds more than its burst or a debt, and
\* every pointer a goroutine or the map holds is nil or points to a limiter.
TypeOK ==
    /\ pc \in [Proc -> PCs]
    /\ key \in [Proc -> Key]
    /\ ptr \in [Proc -> 0 .. Len(heap)]
    /\ clk \in [Proc -> Nat]
    /\ reqs \in [Proc -> Nat]
    /\ mu \in Proc \cup {NoProc}
    /\ limiters \in [Key -> 0 .. Len(heap)]
    /\ heap \in Seq(Limiter)
    /\ now \in Nat
    /\ skew \in [Key -> Nat]
    /\ admits \in [Key -> Seq(Nat)]

\* The map of bucket.limiters is read and written by one goroutine at a time
\* (a concurrent access is a fatal error of the Go runtime).
MapExclusive ==
    \A p, q \in Proc :
        pc[p] \in {"lookup", "insert", "unlock"} /\ pc[q] \in {"lookup", "insert", "unlock"}
            => p = q

\* bucket "lazy-creates a limiter per key": whoever is about to ask a limiter
\* asks the one the map holds for its key, and no two keys share one.
OneLimiterPerKey ==
    /\ \A p \in Proc : pc[p] \in {"clock", "reserve"} => ptr[p] # 0 /\ ptr[p] = limiters[key[p]]
    /\ \A j, k \in Key : limiters[j] = limiters[k] /\ limiters[j] # 0 => j = k

\* The promise of the middleware: whichever goroutines carry them, the
\* requests admitted for a key in any window fit the burst plus what the
\* window refills.  Time is the limiter's (wall clock plus the turn-backs).
Quota ==
    \A k \in Key : \A i, j \in 1 .. Len(admits[k]) :
        i <= j => Cost * (j - i + 1) <= Capacity + (admits[k][j] - admits[k][i])

\* A client is turned away only if its own key used up its burst and was
\* served less than one token's refill ago: never because of other keys,
\* a lost limiter or a limiter that starts empty.
RejectedWithCause ==
    [][\A p \in Proc : pc[p] = "reserve" /\ pc'[p] = "limited" =>
          LET k == key[p]
          IN  \/ Burst = 0
              \/ /\ Len(admits[k]) >= Burst
                 /\ clk[p] + skew[k] < admits[k][Len(admits[k])] + Cost]_vars

\* The states of a request that the promise knows about.
Phase(p) == CASE pc[p] \in {"lock", "lookup", "insert", "unlock", "clock"} -> "asking"
              [] pc[p] = "reserve" -> "deciding"
              [] OTHER -> pc[p]

Promise == INSTANCE Admission WITH
    state <- [p \in Proc |-> Phase(p)],
    late <- skew

\* bucket and rate.Limiter together implement the promise of the middleware:
\* every request gets its verdict, and the verdict depends on nothing but the
\* admissions of its own key, whichever goroutines race for the mutex and the
\* map and however old their clock readings are.
KeepsPromise == Promise!FairSpec

=============================================================================
