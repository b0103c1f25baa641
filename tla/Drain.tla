------------------------------- MODULE Drain -------------------------------
(***************************************************************************)
(* Readiness and graceful shutdown: server.Drainer and the /readyz handler *)
(* of pkg/runtime/server, and the upstream connection of client.New, wired *)
(* into a kratos application the way the services' main functions do it.   *)
(*                                                                         *)
(* kratos.App (external): SIGTERM runs the BeforeStop hooks to their end,  *)
(* then stops every server; a server whose Start fails stops all servers   *)
(* at once, with no hook; Run returns when the servers and the hook have.  *)
(* Stopping a server waits for its calls in progress: it is assumed to     *)
(* end, and how long it takes is left out.  The load balancer (external)   *)
(* probes /readyz every Period, takes the pod out of rotation after        *)
(* Threshold failures in a row and back in after a success.  The gRPC      *)
(* channel (external) moves between its connectivity states on its own.    *)
(***************************************************************************)
EXTENDS Integers, Sequences

CONSTANTS
    Services,       \* the services checked, of the ones defined below
    Delay,          \* NewDrainer's delay (<= 0: no sleep)
    Period,         \* time between two probes
    Threshold,      \* failures in a row that take the pod out of rotation
    ProbeTime,      \* longest time a probe takes (each ping has a 2s context)
    MaxChanges,     \* bound on the changes of the channel's state
    MaxTime         \* bound on the clock

ASSUME TimingAssumption ==
    /\ Delay \in Int /\ MaxTime \in Nat /\ MaxChanges \in Nat
    /\ Period \in Nat \ {0} /\ Threshold \in Nat \ {0}
    /\ ProbeTime \in Nat /\ ProbeTime < Period

\* newApp of kris-alpha: the drainer's pinger is the only one.
KrisAlpha == [pingers |-> <<"drain">>, servers |-> {"grpc", "http", "sidecar"}]

\* main of kris-gamma: no drainer, and no pinger either when New failed.
KrisGamma == [pingers |-> <<"upstream">>, servers |-> {"grpc", "sidecar"}]
KrisGammaAlone == [KrisGamma EXCEPT !.pingers = <<>>]

\* Drainer's usage comment: its pinger first, the downstream's after it.
DrainerUsage == [KrisAlpha EXCEPT !.pingers = <<"drain", "upstream">>]

ASSUME ServicesAssumption ==
    Services \subseteq {KrisAlpha, KrisGamma, KrisGammaAlone, DrainerUsage}

VARIABLES
    now,        \* clock
    svc,        \* the service
    app,        \* "running", "hook" (in BeforeStop), "stopping", "exited"
    draining,   \* Drainer.draining
    stopAt,     \* when BeforeStop's timer fires
    up,         \* servers that accept connections
    failed,     \* a server's Start returned an error
    probe,      \* the /readyz request in progress
    nextProbe,  \* when the load balancer probes again
    fails,      \* failed probes in a row
    rotation,   \* the load balancer sends traffic to this pod
    conn,       \* connectivity state of the channel, "none" without one
    changes,    \* changes of conn so far
    since       \* when the channel became as usable as it is now

lb == <<nextProbe, fails, rotation>>
channel == <<conn, changes, since>>
vars == <<svc, now, app, draining, stopAt, up, failed, probe, lb, channel>>

Servers == svc.servers
Biz == Servers \ {"sidecar"}       \* servers that get traffic from clients
Wires(pinger) == \E i \in DOMAIN svc.pingers : svc.pingers[i] = pinger

\* A /readyz request: the pinger it is at (0: no request), allOK, when it
\* began and whether the drain had begun by then.
NoProbe == [at |-> 0, ok |-> TRUE, since |-> 0, late |-> FALSE]

\* client.New does not wait for the connection; its cleanup closes the channel.
Dial == IF Wires("upstream") THEN "connecting" ELSE "none"
Cleanup(c) == IF c = "none" THEN c ELSE "shutdown"

Init ==
    /\ svc \in Services
    /\ now = 0
    /\ app = "running"
    /\ draining = FALSE
    /\ stopAt = 0
    /\ up = Servers
    /\ failed = FALSE
    /\ probe = NoProbe
    /\ nextProbe \in 0 .. Period
    /\ fails = 0
    /\ rotation \in BOOLEAN
    /\ conn = Dial
    /\ changes = 0
    /\ since = 0

-----------------------------------------------------------------------------
(* The application.                                                        *)

\* SIGTERM: kratos calls Drainer.BeforeStop, which flips the flag and starts
\* its timer (none when delay <= 0), or nothing when no hook is registered.
\* Later signals are not read any more; one that comes while a server's
\* failure stops the others may be, select having both to choose from.
BeforeStop ==
    /\ app = "running"
    /\ app' = "hook"
    /\ draining' = Wires("drain")
    /\ stopAt' = IF Wires("drain") /\ Delay > 0 THEN now + Delay ELSE now
    /\ UNCHANGED <<svc, now, up, failed, probe, lb, channel>>

\* A hook that does not wait.
HookReturnsEarly ==
    /\ app = "hook"
    /\ app' = "stopping"
    /\ UNCHANGED <<svc, now, draining, stopAt, up, failed, probe, lb, channel>>

\* BeforeStop returns when its timer fires; kratos cancels the servers' context.
\* (The hook's own context is not cancelled before, by a failed server either.)
HookReturns ==
    /\ app = "hook"
    /\ now >= stopAt
    /\ app' = "stopping"
    /\ UNCHANGED <<svc, now, draining, stopAt, up, failed, probe, lb, channel>>

\* A server accepts no connection any more.
Down(s) ==
    /\ s \in up
    /\ up' = up \ {s}
    /\ probe' = IF s = "sidecar" THEN NoProbe ELSE probe

\* Each server stops in a goroutine of its own, in any order.
StopServer(s) ==
    /\ app = "stopping" \/ failed
    /\ Down(s)
    /\ UNCHANGED <<svc, now, app, draining, stopAt, failed, lb, channel>>

\* A server fails: the error group stops the others without any hook, also
\* in the middle of a drain.
ServerFails(s) ==
    /\ ~ failed /\ app \in {"running", "hook"}
    /\ failed' = TRUE
    /\ Down(s)
    /\ UNCHANGED <<svc, now, app, draining, stopAt, lb, channel>>

\* A main that forgets the cleanup client.New returned.
ExitNoCleanup ==
    /\ up = {}
    /\ app \in {"running", "stopping"}
    /\ app' = "exited"
    /\ UNCHANGED <<svc, now, draining, stopAt, up, failed, probe, lb, channel>>

\* app.Run has waited for every server and for a hook in progress; main ends:
\* with its deferred cleanup, or in Fatalf, which runs no deferred call.
Exit ==
    /\ up = {}
    /\ app \in {"running", "stopping"}
    /\ app' = "exited"
    /\ conn' = IF failed THEN conn ELSE Cleanup(conn)
    /\ UNCHANGED <<svc, now, draining, stopAt, up, failed, probe, lb, changes, since>>

-----------------------------------------------------------------------------
(* The upstream channel.                                                   *)

\* A pinger that calls a channel healthy until it is shut down.
ConnOKUnlessShut(c) == c # "shutdown"

\* The test of kris-gamma's pinger, conn.GetState().
ConnOK(c) == c \in {"none", "ready", "idle"}

\* Transitions of a gRPC channel under the balancer kratos installs, which
\* leaves a transient failure only with a connection or for lack of calls.
Channel == {<<"connecting", "ready">>, <<"connecting", "transient">>, <<"ready", "idle">>,
            <<"idle", "connecting">>, <<"transient", "ready">>, <<"transient", "idle">>}

\* A call goes out on the connection there is, or on one it opens.
Usable(c) == c \in {"none", "ready", "idle"}

ConnChanges ==
    /\ app # "exited" /\ changes < MaxChanges
    /\ \E t \in Channel :
          /\ t[1] = conn
          /\ conn' = t[2]
          /\ since' = IF Usable(conn) = Usable(conn') THEN since ELSE now
    /\ changes' = changes + 1
    /\ UNCHANGED <<svc, now, app, draining, stopAt, up, failed, probe, lb>>

-----------------------------------------------------------------------------
(* /readyz                                                                 *)

ProbeDue == now >= nextProbe /\ probe = NoProbe

ProbeBegins ==
    /\ ProbeDue
    /\ "sidecar" \in up
    /\ probe' = [at |-> 1, ok |-> TRUE, since |-> now, late |-> draining]
    /\ nextProbe' = now + Period
    /\ UNCHANGED <<svc, now, app, draining, stopAt, up, failed, fails, rotation, channel>>

\* A failed probe; Threshold of them in a row end the rotation.
Fail ==
    /\ fails' = IF fails < Threshold THEN fails + 1 ELSE fails
    /\ rotation' = (rotation /\ fails' < Threshold)

\* The sidecar is gone: the probe's connection is refused.
ProbeRefused ==
    /\ ProbeDue
    /\ "sidecar" \notin up
    /\ nextProbe' = now + Period
    /\ Fail
    /\ UNCHANGED <<svc, now, app, draining, stopAt, up, failed, probe, channel>>

\* What pinger number i answers: the flag or the channel's state, as it is now.
PingOK(i) == IF svc.pingers[i] = "drain" THEN ~ draining ELSE ConnOK(conn)

\* A loop that keeps only the last pinger's answer.
PingLastWins ==
    /\ probe.at \in DOMAIN svc.pingers
    /\ probe' = [probe EXCEPT !.at = @ + 1, !.ok = PingOK(probe.at)]
    /\ UNCHANGED <<svc, now, app, draining, stopAt, up, failed, lb, channel>>

\* readyHandler's loop: any failing pinger clears allOK.
Ping ==
    /\ probe.at \in DOMAIN svc.pingers
    /\ probe' = [probe EXCEPT !.at = @ + 1, !.ok = @ /\ PingOK(probe.at)]
    /\ UNCHANGED <<svc, now, app, draining, stopAt, up, failed, lb, channel>>

\* The handler answers 200 or 503, the load balancer draws its conclusion.
Reply ==
    /\ probe.at = Len(svc.pingers) + 1
    /\ IF probe.ok THEN fails' = 0 /\ rotation' = TRUE ELSE Fail
    /\ probe' = NoProbe
    /\ UNCHANGED <<svc, now, app, draining, stopAt, up, failed, nextProbe, channel>>

-----------------------------------------------------------------------------
\* The application has something to do that takes no time.
StopDue ==
    \/ app = "hook" /\ now >= stopAt
    \/ (app = "stopping" \/ failed) /\ up # {}
    \/ app \in {"running", "stopping"} /\ up = {}

\* Time passes unless something that takes no time is due.
Tick ==
    /\ now < MaxTime
    /\ ~ StopDue
    /\ ~ ProbeDue
    /\ probe # NoProbe => now < probe.since + ProbeTime
    /\ now' = now + 1
    /\ UNCHANGED <<svc, app, draining, stopAt, up, failed, probe, lb, channel>>

Stop == HookReturns \/ Exit \/ \E s \in Servers : StopServer(s)

Next == \/ BeforeStop \/ Stop \/ ConnChanges \/ Tick
        \/ \E s \in Servers : ServerFails(s)
        \/ ProbeBegins \/ ProbeRefused \/ Ping \/ Reply

\* The application's goroutines and the handler run, time passes.
Fairness == WF_vars(Stop) /\ WF_vars(Ping \/ Reply) /\ WF_vars(ProbeBegins \/ ProbeRefused)
                /\ WF_vars(Tick)

Spec == Init /\ [][Next]_vars

FairSpec == Spec /\ Fairness

-----------------------------------------------------------------------------
\* A delay that leaves the load balancer its Threshold failing
\* probes after one that was under way when the drain began.
SafeDelay == Delay > Threshold * Period + ProbeTime

\* The Drainer's promise: the load balancer has de-registered the pod before
\* the servers it sends traffic to stop (a failing server aside).
DrainedBeforeStop ==
    Wires("drain") /\ SafeDelay /\ ~ failed /\ ~ (Biz \subseteq up) => ~ rotation

\* A /readyz request that begins after BeforeStop never answers ready, however
\* its other pingers do; one that began before may still do so.
NoLateReady ==
    Wires("drain") /\ probe.late /\ probe.at = Len(svc.pingers) + 1 => ~ probe.ok

\* How long the channel has been usable, or not.
Lasted == now - since

\* The load balancer follows the upstream: a channel unusable for
\* Threshold probes and one in progress has cost the pod its traffic, one
\* usable for a probe has brought it back, unless the pod is ending or a
\* server of it has failed.
RotationFollowsUpstream ==
    /\ ~ Usable(conn) /\ app # "exited" /\ ~ failed /\ Lasted > Threshold * Period + ProbeTime => ~ rotation
    /\ Usable(conn) /\ app = "running" /\ ~ failed /\ Lasted > Period + ProbeTime => rotation

\* Once SIGTERM has arrived, and a bound on the clock that lets the hook's
\* timer fire, main ends, also when a server fails during the drain; and it
\* ends with the upstream channel closed unless a failure led it to Fatalf.
Stops ==
    app = "hook" /\ stopAt <= MaxTime
        ~> app = "exited" /\ (conn \in {"none", "shutdown"} \/ failed)

=============================================================================
