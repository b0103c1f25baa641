---------------------------- MODULE RequestChain ----------------------------
(***************************************************************************)
(* The inbound path of a request: the middleware chain that                *)
(* pkg/runtime/server builds (defaultChain plus the caller's `extra`), the *)
(* middlewares of pkg/middleware, the service's handler, and the adapter   *)
(* wrapHandler that turns the chain's outcome into an HTTP response.       *)
(*                                                                         *)
(* A request runs in its connection goroutine ("conn"); the timeout        *)
(* middleware runs everything inside it in a second goroutine ("work") and *)
(* selects on a channel and a context.  A goroutine walks into the chain   *)
(* ("in"), back out with a code ("out"), or unwinds with a panic ("panic").*)
(* Handlers, the HTTP/gRPC transports and the clock are external.          *)
(***************************************************************************)
EXTENDS Integers, Sequences

CONSTANTS
    Request,        \* requests the server receives
    Kinds,          \* transports: subset of {"http", "grpc"}
    Op,             \* operations (routes) of the service
    Creds,          \* what the Authorization header turns out to be worth
    Extra,          \* the caller's `extra` middlewares, in order
    AuthSkip,       \* operations auth's SkipFn matches
    LimitSkip,      \* operations ratelimit's SkipFn matches
    TimeoutSkip,    \* operations timeout's SkipFn matches (all, when timeout <= 0)
    Outcomes,       \* what handlers may do: subset of {"ok", "HANDLER", "panic"}
    Burst           \* tokens of the (single) rate-limit bucket

ASSUME ExtraAssumption ==
    /\ Extra \in Seq({"auth", "ratelimit", "timeout"})
    /\ \A i, j \in DOMAIN Extra : Extra[i] = Extra[j] => i = j
ASSUME InputAssumption ==
    /\ Kinds \subseteq {"http", "grpc"}
    /\ Creds \subseteq {"none", "good", "bad", "nil", "infra"}
    /\ Outcomes \subseteq {"ok", "HANDLER", "panic"}
    /\ Burst \in Nat

\* The `extra` of kris-beta and of kris-gamma.
BetaExtra == <<"auth", "ratelimit">>
GammaExtra == <<"timeout">>

\* A plausible reordering: recovery as the last default middleware.
DefaultChainRecoveryLast == <<"tracing", "logid", "access", "metric", "recovery">>

\* A default chain someone dropped recovery from.
DefaultChainNoRecovery == <<"tracing", "logid", "access", "metric">>

\* The default chain, outermost first.
DefaultChain == <<"recovery", "tracing", "logid", "access", "metric">>

\* The caller's middlewares put around the default chain instead of inside it.
ChainExtraFirst == Extra \o DefaultChain

\* The caller's middlewares applied in reverse.
ChainExtraReversed == DefaultChain \o [i \in DOMAIN Extra |-> Extra[Len(Extra) + 1 - i]]

\* NewGRPCServer and NewBizHTTPServer append the caller's middlewares.
Chain == DefaultChain \o Extra

Inside == Len(Chain) + 1        \* the handler's position

Gor == {"conn", "work"}

VARIABLES
    th,         \* goroutines: position, phase and the code carried outwards
    req,        \* the request's transport, operation and credentials
    ch,         \* timeout's result channel of each request
    expired,    \* timeout's own deadline of the request has fired
    cancelled,  \* the context the server handed in is done (client gone, server deadline)
    tokens,     \* tokens left in the bucket
    sent,       \* what was written to the response, in order
    ran,        \* how each request's handler went: "no", "running" or its outcome
    lines,      \* access-log codes of each request
    counts,     \* kris_requests_total increments of each request, by code
    panics,     \* kris_panics_total increments of each request
    crashed     \* the process died of an unrecovered panic

vars == <<th, req, ch, expired, cancelled, tokens, sent, ran, lines, counts, panics, crashed>>

\* A goroutine: where it is, where its stack ends, which way it goes.
Idle == [at |-> 0, base |-> 0, ph |-> "idle", code |-> "none"]

Init ==
    /\ th = [r \in Request |-> [g \in Gor |-> Idle]]
    /\ req = [r \in Request |-> [kind |-> "none", op |-> "none", cred |-> "none"]]
    /\ ch = [r \in Request |-> <<>>]
    /\ expired = [r \in Request |-> FALSE]
    /\ cancelled = [r \in Request |-> FALSE]
    /\ tokens \in 0 .. Burst      \* earlier requests may have spent some
    /\ sent = [r \in Request |-> <<>>]
    /\ ran = [r \in Request |-> "no"]
    /\ lines = [r \in Request |-> <<>>]
    /\ counts = [r \in Request |-> <<>>]
    /\ panics = [r \in Request |-> 0]
    /\ crashed = FALSE

-----------------------------------------------------------------------------
(* A goroutine at a middleware.                                            *)

At(r, g, ph, name) ==
    /\ ~ crashed
    /\ th[r][g].ph = ph
    /\ th[r][g].at \in 1 .. Len(Chain)
    /\ Chain[th[r][g].at] = name

\* The goroutine calls the next handler.
Down(r, g) == th' = [th EXCEPT ![r][g].at = @ + 1]

\* The goroutine returns code from the middleware it is in.
Up(r, g, code) ==
    th' = [th EXCEPT ![r][g].at = @ - 1, ![r][g].ph = "out", ![r][g].code = code]

\* The goroutine's stack is empty.
AtBase(r, g, ph) == ~ crashed /\ th[r][g].ph = ph /\ th[r][g].at = th[r][g].base

-----------------------------------------------------------------------------
(* Into the chain.                                                         *)

\* The transport accepts a request and calls the chain.
Arrive(r, kind, op, cred) ==
    /\ ~ crashed
    /\ th[r]["conn"] = Idle
    /\ req' = [req EXCEPT ![r] = [kind |-> kind, op |-> op, cred |-> cred]]
    /\ th' = [th EXCEPT ![r]["conn"].at = 1, ![r]["conn"].ph = "in"]
    /\ UNCHANGED <<ch, expired, cancelled, tokens, sent, ran, lines, counts, panics, crashed>>

\* recovery, tracing, logid, access and metric only act after the handler.
PassIn(r, g) ==
    /\ \E name \in {"recovery", "tracing", "logid", "access", "metric"} : At(r, g, "in", name)
    /\ Down(r, g)
    /\ UNCHANGED <<req, ch, expired, cancelled, tokens, sent, ran, lines, counts, panics, crashed>>

\* auth without its `claims == nil` test.
AuthVerdictNilClaims(cred) == CASE cred \in {"good", "nil"} -> "ok"
                                [] cred = "infra" -> "VALIDATOR"
                                [] OTHER -> "UNAUTHORIZED"

\* auth.Server's answer to a credential: no token, a validator error that is
\* not a kratos error and nil claims are 401, a kratos error passes through.
AuthVerdict(cred) == CASE cred = "good" -> "ok"
                       [] cred = "infra" -> "VALIDATOR"
                       [] OTHER -> "UNAUTHORIZED"

AuthPass(r, g) ==
    /\ At(r, g, "in", "auth")
    /\ req[r].op \in AuthSkip \/ AuthVerdict(req[r].cred) = "ok"
    /\ Down(r, g)
    /\ UNCHANGED <<req, ch, expired, cancelled, tokens, sent, ran, lines, counts, panics, crashed>>

AuthReject(r, g) ==
    /\ At(r, g, "in", "auth")
    /\ req[r].op \notin AuthSkip
    /\ AuthVerdict(req[r].cred) # "ok"
    /\ Up(r, g, AuthVerdict(req[r].cred))
    /\ UNCHANGED <<req, ch, expired, cancelled, tokens, sent, ran, lines, counts, panics, crashed>>

\* ratelimit letting every request through.
LimitPassUnchecked(r, g) ==
    /\ At(r, g, "in", "ratelimit")
    /\ tokens' = IF req[r].op \in LimitSkip THEN tokens ELSE tokens - 1
    /\ Down(r, g)
    /\ UNCHANGED <<req, ch, expired, cancelled, sent, ran, lines, counts, panics, crashed>>

\* ratelimit.Server: a skipped operation takes no token.
LimitPass(r, g) ==
    /\ At(r, g, "in", "ratelimit")
    /\ \/ req[r].op \in LimitSkip /\ tokens' = tokens
       \/ req[r].op \notin LimitSkip /\ tokens > 0 /\ tokens' = tokens - 1
    /\ Down(r, g)
    /\ UNCHANGED <<req, ch, expired, cancelled, sent, ran, lines, counts, panics, crashed>>

LimitReject(r, g) ==
    /\ At(r, g, "in", "ratelimit")
    /\ req[r].op \notin LimitSkip
    /\ tokens = 0
    /\ Up(r, g, "RATE_LIMITED")
    /\ UNCHANGED <<req, ch, expired, cancelled, tokens, sent, ran, lines, counts, panics, crashed>>

\* timeout.Server, disabled or skipped: the handler runs in this goroutine.
TimeoutSkipped(r, g) ==
    /\ At(r, g, "in", "timeout")
    /\ req[r].op \in TimeoutSkip
    /\ Down(r, g)
    /\ UNCHANGED <<req, ch, expired, cancelled, tokens, sent, ran, lines, counts, panics, crashed>>

\* timeout.Server: start the worker goroutine, then wait in select.
TimeoutFork(r) ==
    /\ At(r, "conn", "in", "timeout")
    /\ req[r].op \notin TimeoutSkip
    /\ LET i == th[r]["conn"].at
       IN  th' = [th EXCEPT ![r]["conn"].ph = "select",
                            ![r]["work"] = [at |-> i + 1, base |-> i, ph |-> "in", code |-> "none"]]
    /\ UNCHANGED <<req, ch, expired, cancelled, tokens, sent, ran, lines, counts, panics, crashed>>

-----------------------------------------------------------------------------
(* The handler (external), in whichever goroutine reaches it.              *)

AtHandler(r, g) == ~ crashed /\ th[r][g].ph = "in" /\ th[r][g].at = Inside

HandlerStart(r, g) ==
    /\ AtHandler(r, g)
    /\ ran[r] = "no"
    /\ ran' = [ran EXCEPT ![r] = "running"]
    /\ UNCHANGED <<th, req, ch, expired, cancelled, tokens, sent, lines, counts, panics, crashed>>

\* A raw HTTP handler writes the response itself.
HandlerWrite(r, g, status) ==
    /\ AtHandler(r, g)
    /\ ran[r] = "running"
    /\ req[r].kind = "http"
    /\ ~ \E i \in DOMAIN sent[r] : sent[r][i] \in {"h200", "h500"}
    /\ sent' = [sent EXCEPT ![r] = Append(@, status)]
    /\ UNCHANGED <<th, req, ch, expired, cancelled, tokens, ran, lines, counts, panics, crashed>>

\* wrapHandler's kh returns nil whatever an HTTP handler wrote; a gRPC handler
\* returns a reply or an error.
HandlerReturn(r, g, code) ==
    /\ AtHandler(r, g)
    /\ ran[r] = "running"
    /\ req[r].kind = "http" => code = "ok"
    /\ ran' = [ran EXCEPT ![r] = code]
    /\ Up(r, g, code)
    /\ UNCHANGED <<req, ch, expired, cancelled, tokens, sent, lines, counts, panics, crashed>>

HandlerPanic(r, g) ==
    /\ AtHandler(r, g)
    /\ ran[r] = "running"
    /\ ran' = [ran EXCEPT ![r] = "panic"]
    /\ th' = [th EXCEPT ![r][g].at = @ - 1, ![r][g].ph = "panic"]
    /\ UNCHANGED <<req, ch, expired, cancelled, tokens, sent, lines, counts, panics, crashed>>

-----------------------------------------------------------------------------
(* Out of the chain.                                                       *)

Returning(r, g, name) == At(r, g, "out", name) /\ th[r][g].at > th[r][g].base

\* Middlewares that do nothing after the handler.
PassOut(r, g) ==
    /\ \E name \in {"recovery", "tracing", "logid", "auth", "ratelimit", "timeout"} :
          Returning(r, g, name)
    /\ Up(r, g, th[r][g].code)
    /\ UNCHANGED <<req, ch, expired, cancelled, tokens, sent, ran, lines, counts, panics, crashed>>

\* access.Server logs one line with the code it is handed.
AccessOut(r, g) ==
    /\ Returning(r, g, "access")
    /\ lines' = [lines EXCEPT ![r] = Append(@, th[r][g].code)]
    /\ Up(r, g, th[r][g].code)
    /\ UNCHANGED <<req, ch, expired, cancelled, tokens, sent, ran, counts, panics, crashed>>

\* metric.Server counts the request under the code it is handed.
MetricOut(r, g) ==
    /\ Returning(r, g, "metric")
    /\ counts' = [counts EXCEPT ![r] = Append(@, th[r][g].code)]
    /\ Up(r, g, th[r][g].code)
    /\ UNCHANGED <<req, ch, expired, cancelled, tokens, sent, ran, lines, panics, crashed>>

\* A panic unwinds through every frame that does not recover: access and
\* metric do their work after the call, not in a deferred function.
Unwind(r, g) ==
    /\ ~ crashed
    /\ th[r][g].ph = "panic"
    /\ th[r][g].at > th[r][g].base
    /\ Chain[th[r][g].at] # "recovery"
    /\ th' = [th EXCEPT ![r][g].at = @ - 1]
    /\ UNCHANGED <<req, ch, expired, cancelled, tokens, sent, ran, lines, counts, panics, crashed>>

\* recovery.Server counts the panic and returns ErrPanic.
Recover(r, g) ==
    /\ At(r, g, "panic", "recovery")
    /\ th[r][g].at > th[r][g].base
    /\ panics' = [panics EXCEPT ![r] = @ + 1]
    /\ Up(r, g, "PANIC")
    /\ UNCHANGED <<req, ch, expired, cancelled, tokens, sent, ran, lines, counts, crashed>>

\* A panic that reaches the end of a goroutine's stack ends the process, in
\* timeout's worker and in a gRPC call's goroutine; net/http recovers what is
\* left of one on an HTTP connection and closes that connection only.
Crash(r, g) ==
    /\ AtBase(r, g, "panic")
    /\ g = "work" \/ req[r].kind = "grpc"
    /\ crashed' = TRUE
    /\ UNCHANGED <<th, req, ch, expired, cancelled, tokens, sent, ran, lines, counts, panics>>

-----------------------------------------------------------------------------
(* The timeout middleware's select.                                        *)

ChanCap == 1        \* make(chan result, 1)

Exit(r, g) == th' = [th EXCEPT ![r][g].ph = "done"]

\* An unbuffered channel: the send needs a receiver in select.
WorkerSendUnbuffered(r) ==
    /\ AtBase(r, "work", "out")
    /\ th[r]["conn"].ph = "select"
    /\ ch' = [ch EXCEPT ![r] = Append(@, th[r]["work"].code)]
    /\ Exit(r, "work")
    /\ UNCHANGED <<req, expired, cancelled, tokens, sent, ran, lines, counts, panics, crashed>>

\* The worker publishes its result; the send blocks while the channel is full.
WorkerSend(r) ==
    /\ AtBase(r, "work", "out")
    /\ Len(ch[r]) < ChanCap
    /\ ch' = [ch EXCEPT ![r] = Append(@, th[r]["work"].code)]
    /\ Exit(r, "work")
    /\ UNCHANGED <<req, expired, cancelled, tokens, sent, ran, lines, counts, panics, crashed>>

Selecting(r) == ~ crashed /\ th[r]["conn"].ph = "select"

\* A receive that does not wait for the handler yields the zero result.
SelectResultNoWait(r) ==
    /\ Selecting(r)
    /\ ch' = [ch EXCEPT ![r] = <<>>]
    /\ Up(r, "conn", IF ch[r] = <<>> THEN "ok" ELSE Head(ch[r]))
    /\ UNCHANGED <<req, expired, cancelled, tokens, sent, ran, lines, counts, panics, crashed>>

\* case r := <-ch
SelectResult(r) ==
    /\ Selecting(r)
    /\ ch[r] # <<>>
    /\ ch' = [ch EXCEPT ![r] = Tail(@)]
    /\ Up(r, "conn", Head(ch[r]))
    /\ UNCHANGED <<req, expired, cancelled, tokens, sent, ran, lines, counts, panics, crashed>>

\* A context without the deadline.
CtxDoneParentOnly(r) == cancelled[r]

\* The derived context is done when its deadline fires or its parent is done.
CtxDone(r) == expired[r] \/ cancelled[r]

\* case <-ctx.Done(); ready cases are chosen at random.
SelectDone(r) ==
    /\ Selecting(r)
    /\ CtxDone(r)
    /\ Up(r, "conn", "DEADLINE_EXCEEDED")
    /\ UNCHANGED <<req, ch, expired, cancelled, tokens, sent, ran, lines, counts, panics, crashed>>

\* The timer of context.WithTimeout fires, unless cancel() came first.
DeadlineFires(r) ==
    /\ Selecting(r)
    /\ ~ expired[r]
    /\ expired' = [expired EXCEPT ![r] = TRUE]
    /\ UNCHANGED <<th, req, ch, cancelled, tokens, sent, ran, lines, counts, panics, crashed>>

\* The client goes away, or the server's own request deadline passes.
ParentCancel(r) ==
    /\ ~ crashed
    /\ th[r]["conn"].ph \notin {"idle", "done"}
    /\ ~ cancelled[r]
    /\ cancelled' = [cancelled EXCEPT ![r] = TRUE]
    /\ UNCHANGED <<th, req, ch, expired, tokens, sent, ran, lines, counts, panics, crashed>>

-----------------------------------------------------------------------------
\* wrapHandler without its error branch.
FinishSilently(r) ==
    /\ AtBase(r, "conn", "out")
    /\ LET code == th[r]["conn"].code
       IN  sent' = [sent EXCEPT ![r] = IF req[r].kind = "http"
                                       THEN @ ELSE Append(@, code)]
    /\ Exit(r, "conn")
    /\ UNCHANGED <<req, ch, expired, cancelled, tokens, ran, lines, counts, panics, crashed>>

\* The chain has returned to the transport: gRPC sends the reply or the error;
\* wrapHandler calls DefaultErrorEncoder on an error and adds nothing otherwise.
Finish(r) ==
    /\ AtBase(r, "conn", "out")
    /\ LET code == th[r]["conn"].code
       IN  sent' = [sent EXCEPT ![r] = IF req[r].kind = "http" /\ code = "ok"
                                       THEN @ ELSE Append(@, code)]
    /\ Exit(r, "conn")
    /\ UNCHANGED <<req, ch, expired, cancelled, tokens, ran, lines, counts, panics, crashed>>

\* The bucket refills (RateLimit models the limiter itself).
Refill ==
    /\ ~ crashed
    /\ tokens < Burst
    /\ tokens' = tokens + 1
    /\ UNCHANGED <<th, req, ch, expired, cancelled, sent, ran, lines, counts, panics, crashed>>

\* What goroutine g of request r does by itself, handler code aside.
Step(r, g) ==
    \/ PassIn(r, g) \/ AuthPass(r, g) \/ AuthReject(r, g)
    \/ LimitPass(r, g) \/ LimitReject(r, g) \/ TimeoutSkipped(r, g)
    \/ PassOut(r, g) \/ AccessOut(r, g) \/ MetricOut(r, g)
    \/ Unwind(r, g) \/ Recover(r, g) \/ Crash(r, g)
    \/ g = "conn" /\ (TimeoutFork(r) \/ SelectResult(r) \/ SelectDone(r) \/ Finish(r))
    \/ g = "work" /\ WorkerSend(r)

Handle(r, g) ==
    \/ HandlerStart(r, g)
    \/ \E status \in {"h200", "h500"} : HandlerWrite(r, g, status)
    \/ \E code \in Outcomes \ {"panic"} : HandlerReturn(r, g, code)
    \/ "panic" \in Outcomes /\ HandlerPanic(r, g)

Next ==
    \/ Refill
    \/ \E r \in Request :
          \/ \E kind \in Kinds, op \in Op, cred \in Creds : Arrive(r, kind, op, cred)
          \/ \E g \in Gor : Step(r, g) \/ Handle(r, g)
          \/ DeadlineFires(r)
          \/ ParentCancel(r)

\* Goroutines are scheduled and timers fire; handlers may never return.
Fairness ==
    \A r \in Request :
        /\ \A g \in Gor : WF_vars(Step(r, g))
        /\ WF_vars(DeadlineFires(r))

Spec == Init /\ [][Next]_vars

FairSpec == Spec /\ Fairness

-----------------------------------------------------------------------------
Codes == {"ok", "HANDLER", "UNAUTHORIZED", "VALIDATOR", "RATE_LIMITED",
          "DEADLINE_EXCEEDED", "PANIC"}

\* Type invariant.
TypeOK ==
    /\ th \in [Request -> [Gor ->
          [at : 0 .. Inside, base : 0 .. Len(Chain), code : Codes \cup {"none"},
           ph : {"idle", "in", "out", "panic", "select", "done"}]]]
    /\ req \in [Request -> [kind : Kinds \cup {"none"}, op : Op \cup {"none"},
                            cred : Creds \cup {"none"}]]
    /\ ch \in [Request -> Seq(Codes)]
    /\ expired \in [Request -> BOOLEAN]
    /\ cancelled \in [Request -> BOOLEAN]
    /\ tokens \in 0 .. Burst
    /\ sent \in [Request -> Seq(Codes \cup {"h200", "h500"})]
    /\ ran \in [Request -> {"no", "running", "ok", "HANDLER", "panic"}]
    /\ lines \in [Request -> Seq(Codes)]
    /\ counts \in [Request -> Seq(Codes)]
    /\ panics \in [Request -> Nat]
    /\ crashed \in BOOLEAN

Answered(r) == th[r]["conn"].ph = "done"

\* The code the chain returned for an answered request.
Code(r) == th[r]["conn"].code

Has(name) == \E i \in DOMAIN Extra : Extra[i] = name

Wrote(r) == \E i \in DOMAIN sent[r] : sent[r][i] \in {"h200", "h500"}

\* What the client takes the response for: its first write, or an implicit 200.
Succeeded(r) == sent[r] = <<>> \/ Head(sent[r]) \in {"ok", "h200"}

\* auth.Server: a handler runs only for a skipped operation or a request whose
\* token the validator accepted with claims.
HandlerAuthorised ==
    \A r \in Request : Has("auth") /\ ran[r] # "no" =>
        req[r].op \in AuthSkip \/ req[r].cred = "good"

\* A request is answered with the code of the thing that decided it: the
\* handler's own result only if that handler really finished with it.
AnswerHasCause ==
    \A r \in Request : Answered(r) =>
        CASE Code(r) \in {"ok", "HANDLER"} -> ran[r] = Code(r)
          [] Code(r) = "PANIC" -> ran[r] = "panic"
          [] Code(r) = "DEADLINE_EXCEEDED" -> CtxDone(r)
          [] OTHER -> ran[r] = "no"

\* metric and access and recovery together: every answered request is counted
\* exactly once, in kris_requests_total with one access line or in
\* kris_panics_total, and whatever a worker does later changes neither.
CountedOnce ==
    \A r \in Request : Answered(r) =>
        /\ Len(counts[r]) + panics[r] = 1
        /\ lines[r] = counts[r]

\* The default chain's order rationale: recovery is outermost so panics never
\* escape (a panic never takes the process down).
PanicsNeverEscape == ~ crashed

\* The default chain's order rationale: access and metric observe the final
\* code: a request logged as ok is a success to its client and no other is.
LogsFinalCode ==
    \A r \in Request : Answered(r) /\ lines[r] # <<>> =>
        (lines[r][1] = "ok" <=> Succeeded(r))

\* wrapHandler: an error never reaches an HTTP client as an empty 200, and
\* the error body follows a handler's own output only after a panic.
ErrorsSurface ==
    \A r \in Request : Answered(r) /\ req[r].kind = "http" /\ Code(r) # "ok" =>
        /\ sent[r] # <<>>
        /\ Wrote(r) => Code(r) = "PANIC"

\* A request that will be refused for its credentials takes no token (auth
\* comes before ratelimit in kris-beta): the bucket serves the others.
AnonymousSpendsNothing ==
    [][tokens' < tokens => \E r \in Request, g \in Gor :
          /\ At(r, g, "in", "ratelimit") /\ th'[r][g] # th[r][g]
          /\ req[r].op \in AuthSkip \/ req[r].cred = "good"]_vars

\* timeout.Server answers every request, even when its handler never returns.
TimeoutAnswers == \A r \in Request : th[r]["conn"].ph = "select" ~> Answered(r) \/ crashed

\* "buffered so a slow handler can still publish": a worker whose handler has
\* returned ends, also when nobody is left to receive its result.
WorkerEnds ==
    \A r \in Request : th[r]["work"].ph = "out" ~> th[r]["work"].ph = "done" \/ crashed

=============================================================================
