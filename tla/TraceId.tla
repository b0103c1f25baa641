------------------------------ MODULE TraceId ------------------------------
(***************************************************************************)
(* The trace id of a call that travels through a chain of services, by     *)
(* pkg/middleware/logid (header x-trace-id) and pkg/trace (OpenTelemetry,  *)
(* header traceparent).  Calls begin at a client outside or in a           *)
(* background job of the first service, and interleave.                    *)
(*                                                                         *)
(* kratos' tracing middleware is external: inbound it takes the trace of a *)
(* traceparent header, or begins one if trace.Init has set a provider (the *)
(* sampling ratio does not matter to ids); outbound it does the same with  *)
(* the trace in the context and sends it on.  It runs outside logid.       *)
(***************************************************************************)
EXTENDS Integers

CONSTANTS
    Call,       \* calls in flight
    Hops,       \* services in the calling chain
    Given       \* ids clients send in x-trace-id or traceparent: negative, or None
                \* for no header

ASSUME HopsAssumption == Hops \in Nat \ {0}

Services == 1 .. Hops

\* No header, no id in the context, no valid SpanContext.
None == 0

ASSUME GivenAssumption == \A id \in Given : id \in Int /\ id <= None

VARIABLES
    otel,       \* by service: trace.Init was called at its start
    at,         \* the service each call is at; 0 before it begins
    pc,         \* "wire", "logid", "handler", "send" or "done"
    wire,       \* headers on their way: x-trace-id and traceparent
    ctx,        \* the context: logid's value and the span's trace id
    seen,       \* by call and service: id in logs, id in the reply header
    fresh       \* ids generated so far (uuids and trace ids: 1, 2, ...)

vars == <<otel, at, pc, wire, ctx, seen, fresh>>

Bare == [id |-> None, span |-> None]

Unseen == [log |-> None, reply |-> None]

Init ==
    /\ otel \in [Services -> BOOLEAN]
    /\ at = [c \in Call |-> 0]
    /\ pc = [c \in Call |-> "idle"]
    /\ wire = [c \in Call |-> [xid |-> None, parent |-> None]]
    /\ ctx = [c \in Call |-> Bare]
    /\ seen = [c \in Call |-> [s \in Services |-> Unseen]]
    /\ fresh = 0

-----------------------------------------------------------------------------
\* logid.FromContext: the span's trace, then logid's own id, if any.
FromContext(x) == IF x.span # None THEN x.span ELSE x.id

\* The trace a tracing middleware goes on with: the one there is, or a new one
\* if the service has a provider; the second component counts the new ids.
Traced(span, s) ==
    IF span = None /\ otel[s] THEN <<fresh + 1, 1>> ELSE <<span, 0>>

-----------------------------------------------------------------------------
\* An outside client calls the first service, with either header or both.
ClientCalls(c, xid, parent) ==
    /\ pc[c] = "idle"
    /\ at' = [at EXCEPT ![c] = 1]
    /\ pc' = [pc EXCEPT ![c] = "wire"]
    /\ wire' = [wire EXCEPT ![c] = [xid |-> xid, parent |-> parent]]
    /\ UNCHANGED <<otel, ctx, seen, fresh>>

\* A background job of the first service: no inbound request, a bare context.
JobStarts(c) ==
    /\ pc[c] = "idle"
    /\ at' = [at EXCEPT ![c] = 1]
    /\ pc' = [pc EXCEPT ![c] = "handler"]
    /\ UNCHANGED <<otel, wire, ctx, seen, fresh>>

\* tracing.Server (external).
TracingServer(c) ==
    /\ pc[c] = "wire"
    /\ LET t == Traced(wire[c].parent, at[c])
       IN  /\ ctx' = [ctx EXCEPT ![c] = [id |-> None, span |-> t[1]]]
           /\ fresh' = fresh + t[2]
    /\ pc' = [pc EXCEPT ![c] = "logid"]
    /\ UNCHANGED <<otel, at, wire, seen>>

\* logid.Server with its new id made once, outside the handler.
LogidServerOneId(c) ==
    /\ pc[c] = "logid"
    /\ LET id == IF wire[c].xid = None THEN 1 ELSE wire[c].xid
       IN  /\ ctx' = [ctx EXCEPT ![c].id = id]
           /\ seen' = [seen EXCEPT ![c][at[c]] =
                          [log |-> FromContext(ctx'[c]), reply |-> id]]
    /\ pc' = [pc EXCEPT ![c] = "handler"]
    /\ UNCHANGED <<otel, at, wire, fresh>>

\* logid.Server losing the header.
LogidServerAlwaysNew(c) ==
    /\ pc[c] = "logid"
    /\ ctx' = [ctx EXCEPT ![c].id = fresh + 1]
    /\ fresh' = fresh + 1
    /\ seen' = [seen EXCEPT ![c][at[c]] =
                   [log |-> FromContext(ctx'[c]), reply |-> fresh + 1]]
    /\ pc' = [pc EXCEPT ![c] = "handler"]
    /\ UNCHANGED <<otel, at, wire>>

\* logid.Server: the header's id or a new one, into the context and the reply
\* header.  What the service logs from then on is FromContext.
LogidServer(c) ==
    /\ pc[c] = "logid"
    /\ LET new == wire[c].xid = None
           id == IF new THEN fresh + 1 ELSE wire[c].xid
       IN  /\ ctx' = [ctx EXCEPT ![c].id = id]
           /\ fresh' = IF new THEN fresh + 1 ELSE fresh
           /\ seen' = [seen EXCEPT ![c][at[c]] =
                          [log |-> FromContext(ctx'[c]), reply |-> id]]
    /\ pc' = [pc EXCEPT ![c] = "handler"]
    /\ UNCHANGED <<otel, at, wire>>

\* The handler calls the next service: tracing.Client (external) ...
TracingClient(c) ==
    /\ pc[c] = "handler"
    /\ at[c] < Hops
    /\ LET t == Traced(ctx[c].span, at[c])
       IN  /\ ctx' = [ctx EXCEPT ![c].span = t[1]]
           /\ wire' = [wire EXCEPT ![c] = [xid |-> None, parent |-> t[1]]]
           /\ fresh' = fresh + t[2]
    /\ pc' = [pc EXCEPT ![c] = "send"]
    /\ UNCHANGED <<otel, at, seen>>

\* ... then logid.Client, which sets the header unless there is no id at all.
LogidClient(c) ==
    /\ pc[c] = "send"
    /\ wire' = [wire EXCEPT ![c].xid = FromContext(ctx[c])]
    /\ at' = [at EXCEPT ![c] = @ + 1]
    /\ pc' = [pc EXCEPT ![c] = "wire"]
    /\ ctx' = [ctx EXCEPT ![c] = Bare]
    /\ UNCHANGED <<otel, seen, fresh>>

\* The handler answers without calling on.
Finish(c) ==
    /\ pc[c] = "handler"
    /\ pc' = [pc EXCEPT ![c] = "done"]
    /\ UNCHANGED <<otel, at, wire, ctx, seen, fresh>>

Next ==
    \E c \in Call :
        \/ \E xid, parent \in Given : ClientCalls(c, xid, parent)
        \/ JobStarts(c) \/ TracingServer(c) \/ LogidServer(c)
        \/ TracingClient(c) \/ LogidClient(c) \/ Finish(c)

Spec == Init /\ [][Next]_vars

-----------------------------------------------------------------------------
\* Calls that service s has served, past logid.Server.
Served(c, s) == seen[c][s] # Unseen

\* A service logs the id its caller logged, unless it is the first one on the
\* way with OpenTelemetry and so begins the trace.
TraceContinues ==
    \A c \in Call, s \in Services :
        s > 1 /\ Served(c, s) /\ Served(c, s - 1) =>
            \/ seen[c][s].log = seen[c][s - 1].log
            \/ otel[s] /\ \A r \in 1 .. s - 1 : ~ otel[r]

\* Two calls are told apart in every service's log, unless their clients chose
\* the same id.
CallsDistinct ==
    \A c, d \in Call : \A s, r \in Services :
        c # d /\ Served(c, s) /\ Served(d, r) /\ seen[c][s].log = seen[d][r].log
            => seen[c][s].log < None

=============================================================================
