------------------------------- MODULE Retry -------------------------------
(***************************************************************************)
(* One outbound call through pkg/middleware/retry, as pkg/client installs  *)
(* it: recovery > tracing > logid > retry > circuitbreaker > transport.    *)
(* The loop runs against a caller's context that may expire or be          *)
(* cancelled at any moment and a downstream that may answer anything.      *)
(*                                                                         *)
(* Time passes only while the call is blocked (in the transport or in      *)
(* sleepWithCtx); the transport and the breaker are external.              *)
(***************************************************************************)
EXTENDS Backoff

CONSTANTS
    MaxAttempts,    \* values of RetryConfig.MaxAttempts
    Initials,       \* values of RetryConfig.InitialBackoff, 0 when left out
    Caps,           \* values of RetryConfig.MaxBackoff, 0 when left out
    DefaultInitialBackoff,
    DefaultMaxBackoff,
    Deadline,       \* when the caller's context expires
    Answers         \* what the downstream may answer

\* Error classes DefaultRetryOn tells apart, and success.  "operr" is what
\* net.Dial and the connection return, failed lookups included; "dns" a bare
\* *net.DNSError that is no time-out.
AllAnswers == {"ok", "canceled", "deadline", "timeout", "operr", "dns",
               "503", "504", "429", "app"}

ASSUME OptionsAssumption ==
    /\ MaxAttempts \subseteq Int /\ Initials \subseteq Nat /\ Caps \subseteq Nat
    /\ DefaultInitialBackoff \in Nat \ {0, 1} /\ DefaultMaxBackoff \in Nat \ {0, 1}
    /\ Deadline \in Nat \ {0}
    /\ Answers \subseteq AllAnswers

VARIABLES
    conf,       \* the RetryConfig the client factory was given
    pc,         \* where the call is
    attempt,    \* the loop variable
    ctx,        \* the caller's context: "live", "canceled" or "deadline"
    now,        \* time since the call began
    wake,       \* when the current sleep's timer fires
    slept,      \* the last duration handed to sleepWithCtx
    last,       \* outcome of the last attempt
    sent,       \* attempts made
    started,    \* attempts that reached the downstream
    result      \* what the caller gets

vars == <<conf, pc, attempt, ctx, now, wake, slept, last, sent, started, result>>

\* New and NewHTTP hand on what is set; the middleware has defaults for the
\* rest.  (They install it for more than one attempt only; with at most one it
\* passes the call through.)
opt == [max |-> conf.max,
        initial |-> IF conf.initial > 0 THEN conf.initial ELSE DefaultInitialBackoff,
        cap |-> IF conf.cap > 0 THEN conf.cap ELSE DefaultMaxBackoff]

Init ==
    /\ conf \in [max : MaxAttempts, initial : Initials, cap : Caps]
    /\ pc = "begin"
    /\ attempt = 1
    /\ ctx = "live"
    /\ now = 0
    /\ wake = 0
    /\ slept = 0
    /\ last = "none"
    /\ sent = 0
    /\ started = 0
    /\ result = "none"

-----------------------------------------------------------------------------
\* DefaultRetryOn: network time-outs, connection errors and the kratos codes
\* 503, 504, 429; never the caller's own cancellation or deadline, and not a
\* bare DNS error, although the package comment lists DNS.
Retryable(err) == err \in {"timeout", "operr", "503", "504", "429"}

Return(r) == pc' = "done" /\ result' = r

\* Client: a limit of at most one attempt makes the middleware a pass-through.
Begin ==
    /\ pc = "begin"
    /\ pc' = IF opt.max <= 1 THEN "send" ELSE "check"
    /\ UNCHANGED <<conf, attempt, ctx, now, wake, slept, last, sent, started, result>>

\* A loop that returns the last error, nil before the first attempt.
CheckReturnsLastErr ==
    /\ pc = "check"
    /\ IF ctx # "live" THEN Return(IF last = "none" THEN "ok" ELSE last)
                       ELSE pc' = "send" /\ UNCHANGED result
    /\ UNCHANGED <<conf, attempt, ctx, now, wake, slept, last, sent, started>>

\* The loop without its context test.
CheckSkipped ==
    /\ pc = "check"
    /\ pc' = "send"
    /\ UNCHANGED <<conf, attempt, ctx, now, wake, slept, last, sent, started, result>>

\* Top of the loop: give up when the caller has, or when the loop is over.
Check ==
    /\ pc = "check"
    /\ IF ctx # "live" THEN Return(ctx) ELSE pc' = "send" /\ UNCHANGED result
    /\ UNCHANGED <<conf, attempt, ctx, now, wake, slept, last, sent, started>>

\* handler(ctx, req): the request goes to the downstream ...
Send ==
    /\ pc = "send"
    /\ pc' = "call"
    /\ sent' = sent + 1
    /\ started' = started + 1
    /\ UNCHANGED <<conf, attempt, ctx, now, wake, slept, last, result>>

\* ... or the circuit breaker refuses it with a 503 (external).
BreakerReject ==
    /\ pc = "send"
    /\ pc' = "settle"
    /\ sent' = sent + 1
    /\ last' = "503"
    /\ UNCHANGED <<conf, attempt, ctx, now, wake, slept, started, result>>

\* The transport returns: the downstream's answer, or the context's error.
Receive ==
    /\ pc = "call"
    /\ last' \in Answers \cup ({ctx} \ {"live"})
    /\ pc' = "settle"
    /\ UNCHANGED <<conf, attempt, ctx, now, wake, slept, sent, started, result>>

\* After an attempt: return, or break out of the loop, or back off.
Settle ==
    /\ pc = "settle"
    /\ \/ /\ opt.max <= 1 \/ last = "ok" \/ ~ Retryable(last) \/ attempt = opt.max
          /\ Return(last)
          /\ UNCHANGED <<wake, slept, attempt>>
       \/ /\ opt.max > 1 /\ last # "ok" /\ Retryable(last) /\ attempt # opt.max
          /\ \E d \in BackoffFor(attempt, opt.initial, opt.cap) :
                /\ slept' = d
                /\ wake' = now + d
                /\ pc' = "sleep"
          /\ UNCHANGED <<attempt, result>>
    /\ UNCHANGED <<conf, ctx, now, last, sent, started>>

\* rand.Int63n panics on a backoff below two units; the client chain's
\* recovery turns that into an error.
SettlePanic ==
    /\ pc = "settle"
    /\ opt.max > 1 /\ last # "ok" /\ Retryable(last) /\ attempt # opt.max
    /\ BackoffFor(attempt, opt.initial, opt.cap) = {}
    /\ Return("panic")
    /\ UNCHANGED <<conf, attempt, ctx, now, wake, slept, last, sent, started>>

-----------------------------------------------------------------------------
(* sleepWithCtx                                                            *)

TimerFired == now >= wake

\* A sleep that ignores its context.
SleepOverTimerOnly == TimerFired

\* Some case of the select is ready.
SleepOver == TimerFired \/ ctx # "live"

\* The timer case, and the loop's attempt++.
WakeByTimer ==
    /\ pc = "sleep"
    /\ TimerFired
    /\ attempt' = attempt + 1
    /\ pc' = "check"
    /\ UNCHANGED <<conf, ctx, now, wake, slept, last, sent, started, result>>

\* The ctx.Done() case with an unconditional <-t.C after t.Stop(): the stopped
\* timer of a sleep cut short never sends.
WakeByCtxDrains ==
    /\ pc = "sleep"
    /\ SleepOver /\ ctx # "live" /\ TimerFired
    /\ Return(ctx)
    /\ UNCHANGED <<conf, attempt, ctx, now, wake, slept, last, sent, started>>

\* The ctx.Done() case; when both are ready either may win.
WakeByCtx ==
    /\ pc = "sleep"
    /\ SleepOver /\ ctx # "live"
    /\ Return(ctx)
    /\ UNCHANGED <<conf, attempt, ctx, now, wake, slept, last, sent, started>>

-----------------------------------------------------------------------------
\* The caller gives up.
Cancel ==
    /\ ctx = "live"
    /\ pc # "done"
    /\ ctx' = "canceled"
    /\ UNCHANGED <<conf, pc, attempt, now, wake, slept, last, sent, started, result>>

\* Time passes while nothing that is blocked can proceed (the transport
\* returns as soon as its context is done).
Tick ==
    /\ \/ pc = "call" /\ ctx = "live"
       \/ pc = "sleep" /\ ~ SleepOver
    /\ now' = now + 1
    /\ ctx' = IF now' >= Deadline /\ ctx = "live" THEN "deadline" ELSE ctx
    /\ UNCHANGED <<conf, pc, attempt, wake, slept, last, sent, started, result>>

Step == Begin \/ Check \/ Send \/ BreakerReject \/ Receive \/ Settle \/ SettlePanic
            \/ WakeByTimer \/ WakeByCtx

Next == Step \/ Cancel \/ Tick

\* The goroutine is scheduled and time passes.
Fairness == WF_vars(Step) /\ WF_vars(Tick)

Spec == Init /\ [][Next]_vars

FairSpec == Spec /\ Fairness

-----------------------------------------------------------------------------
\* The caller gets the outcome of the last attempt or its own context's error,
\* and success exactly when the last attempt succeeded.
ResultFaithful ==
    pc = "done" =>
        /\ result \in {last} \cup ({ctx} \ {"live"}) \cup {"panic"}
        /\ result = "ok" <=> last = "ok"
        /\ result \in {"canceled", "deadline"} => result = last \/ ctx = result

\* The documented schedule, in unbounded arithmetic: after attempt N,
\* min(initial * 2^(N-1), MaxBackoff).
Nominal == LET d == opt.initial * 2^(attempt - 1) IN IF d > opt.cap THEN opt.cap ELSE d

\* Options whose backoffs, jitter included, fit a Duration once clamped.
Fits == opt.initial * opt.cap < 2^(W - 1) /\ opt.cap + opt.cap \div 4 < 2^(W - 1)

\* Each backoff is the documented one within a quarter and never above
\* MaxBackoff, also after attempts whose shift overflows.
ScheduleKept ==
    pc = "sleep" /\ Fits =>
        /\ slept <= opt.cap
        /\ Nominal - Nominal \div 4 <= slept /\ slept <= Nominal + Nominal \div 4

\* The panic of rand.Int63n is out of reach of a client whose RetryConfig has
\* no backoff of a single unit; leaving the backoffs out is safe.
PanicOnlyWhenTiny == result = "panic" /\ Fits => conf.initial = 1 \/ conf.cap = 1

\* What the package comment says the default predicate covers.
Documented == {"timeout", "operr", "dns", "503", "504", "429"}

\* A further attempt is made only for a live context, after an outcome the
\* package comment calls worth retrying (never the caller's own context error
\* or an application error), and within WithMaxAttempts, breaker refusals
\* included: the downstream executes the request no oftener.
RetryJustified ==
    [][/\ pc = "check" /\ pc' = "send" => ctx = "live"
       /\ sent' > sent =>
             /\ started' <= sent'
             /\ sent < IF opt.max <= 1 THEN 1 ELSE opt.max
             /\ sent > 0 => last \in Documented]_vars

\* sleepWithCtx returns on the caller's deadline or cancellation: the call
\* never holds its caller beyond the deadline.
NeverLate == now <= Deadline

\* Whatever the downstream does, the call returns.
CallReturns == <>(pc = "done")

=============================================================================
