----------------------------- MODULE Admission -----------------------------
(***************************************************************************)
(* What pkg/middleware/ratelimit promises, without its mutex, its map and  *)
(* its token buckets: a request that asks is admitted exactly when its     *)
(* key's own history of admissions leaves room for one more, and gets its  *)
(* verdict.  RateLimit implements this specification.                      *)
(*                                                                         *)
(* A decision uses a clock reading taken at some moment since the request  *)
(* asked, which may be older than the key's last admission; then that      *)
(* admission's time counts, and the key's clock is late from there on.     *)
(***************************************************************************)
EXTENDS Integers, Sequences

CONSTANTS
    Proc,       \* requests in progress at one time
    Key,        \* keys that have a quota
    Cost,       \* ticks that pay for one admission
    Burst       \* admissions a key may have at once

VARIABLES
    state,      \* "idle", "asking", "deciding", "handler" or "limited"
    key,        \* the key the request asks for
    clk,        \* the clock reading its decision uses
    now,        \* wall clock
    late,       \* by how much the clock of each key was turned back
    admits      \* when each key was admitted, by its own clock

vars == <<state, key, clk, now, late, admits>>

Init ==
    /\ state = [p \in Proc |-> "idle"]
    /\ key \in [Proc -> Key]
    /\ clk = [p \in Proc |-> 0]
    /\ now = 0
    /\ late = [k \in Key |-> 0]
    /\ admits = [k \in Key |-> <<>>]

Move(p, from, to) == state[p] = from /\ state' = [state EXCEPT ![p] = to]

\* A request that needs no quota.
Skip(p) == Move(p, "idle", "handler") /\ UNCHANGED <<key, clk, now, late, admits>>

Ask(p, k) ==
    /\ Move(p, "idle", "asking")
    /\ key' = [key EXCEPT ![p] = k]
    /\ UNCHANGED <<clk, now, late, admits>>

Read(p) ==
    /\ Move(p, "asking", "deciding")
    /\ clk' = [clk EXCEPT ![p] = now]
    /\ UNCHANGED <<key, now, late, admits>>

\* The time a reading stands for on the clock of key k.
TimeOf(k, reading) ==
    LET t == reading + late[k]
        n == Len(admits[k])
    IN  IF n > 0 /\ t < admits[k][n] THEN admits[k][n] ELSE t

\* One more admission of k at time t keeps every window that ends there
\* within the burst plus what the window's length pays for.
Permits(k, t) ==
    /\ Burst >= 1
    /\ \A i \in 1 .. Len(admits[k]) :
          Cost * (Len(admits[k]) - i + 2) <= Burst * Cost + (t - admits[k][i])

Admit(p) ==
    LET k == key[p]
        t == TimeOf(k, clk[p])
    IN  /\ Move(p, "deciding", "handler")
        /\ Permits(k, t)
        /\ late' = [late EXCEPT ![k] = t - clk[p]]
        /\ admits' = [admits EXCEPT ![k] = Append(@, t)]
        /\ UNCHANGED <<key, clk, now>>

Refuse(p) ==
    /\ Move(p, "deciding", "limited")
    /\ ~ Permits(key[p], TimeOf(key[p], clk[p]))
    /\ UNCHANGED <<key, clk, now, late, admits>>

Answer(p) ==
    /\ state[p] \in {"handler", "limited"}
    /\ state' = [state EXCEPT ![p] = "idle"]
    /\ clk' = [clk EXCEPT ![p] = 0]
    /\ UNCHANGED <<key, now, late, admits>>

Tick == now' = now + 1 /\ UNCHANGED <<state, key, clk, late, admits>>

Serve(p) == Read(p) \/ Admit(p) \/ Refuse(p) \/ Answer(p)

Next ==
    \/ Tick
    \/ \E p \in Proc : Serve(p) \/ Skip(p) \/ \E k \in Key : Ask(p, k)

\* Every request gets its verdict and its answer.
Fairness == \A p \in Proc : WF_vars(Serve(p))

Spec == Init /\ [][Next]_vars

FairSpec == Spec /\ Fairness

=============================================================================
