---------------------------- MODULE DrainProofs ----------------------------
(***************************************************************************)
(* Proofs about Drain for every delay, probe period, threshold and bound   *)
(* on the clock, and every selection of the services.                      *)
(*                                                                         *)
(* The three properties are about time: after so long, so many probes have *)
(* failed.  The invariant bounds, at every moment, when the probe that     *)
(* ends the rotation (or brings it back) will begin: with f failures so    *)
(* far the one in progress, or the next, is followed by Threshold - f - 1  *)
(* more, a Period apart.  One probe that saw the world before it changed   *)
(* may still answer the other way; that one began before the change.       *)
(***************************************************************************)
EXTENDS Drain, TLAPS

\* The time between the next failing probe and the one that reaches Threshold.
Left(f) == (Threshold - f - 1) * Period

\* The time Threshold probes take.
AllProbes == Threshold * Period

Typed ==
    /\ svc \in Services /\ up \subseteq Servers
    /\ now \in Nat /\ stopAt \in Int /\ nextProbe \in Int /\ since \in Nat
    /\ fails \in 0 .. Threshold
    /\ probe \in [at : Nat, ok : BOOLEAN, since : Nat, late : BOOLEAN]
    /\ app \in {"running", "hook", "stopping", "exited"}
    /\ draining \in BOOLEAN /\ failed \in BOOLEAN /\ rotation \in BOOLEAN
    /\ conn \in {"none", "connecting", "ready", "transient", "idle", "shutdown"}

\* Probes begin on time and end within ProbeTime.
Clock ==
    /\ probe.at = 0 => probe = NoProbe /\ now <= nextProbe
    /\ probe.at > 0 =>
          /\ probe.since <= now /\ now <= probe.since + ProbeTime
          /\ nextProbe = probe.since + Period
          /\ "sidecar" \in up /\ probe.at <= Len(svc.pingers) + 1
    /\ nextProbe <= now + Period
    /\ since <= now
    /\ rotation => fails < Threshold

\* What has happened in each phase of the application.
Life ==
    /\ draining => Wires("drain") /\ app # "running"
    /\ app \in {"hook", "stopping"} /\ Wires("drain") => draining
    /\ app \in {"running", "hook"} /\ ~ failed => up = Servers
    /\ app = "stopping" => now >= stopAt
    /\ app = "exited" => up = {}
    /\ app = "exited" /\ ~ failed => now >= stopAt /\ (Wires("drain") => draining)
    /\ conn = "none" <=> ~ Wires("upstream")
    /\ conn = "shutdown" => app = "exited"

\* A request that began after BeforeStop is refused by the drainer's pinger.
Refused ==
    /\ probe.late => draining
    /\ \A i \in DOMAIN svc.pingers :
          svc.pingers[i] = "drain" /\ probe.late /\ i < probe.at => ~ probe.ok

\* The drain began at stopAt - Delay.
DrainEnds ==
    SafeDelay /\ draining /\ ~ failed =>
        /\ probe.at > 0 /\ ~ probe.late => probe.since <= stopAt - Delay
        /\ rotation /\ probe.at > 0 /\ probe.late =>
              probe.since + Left(fails) <= (stopAt - Delay) + AllProbes
        /\ rotation /\ probe.at = 0 => nextProbe + Left(fails) <= (stopAt - Delay) + AllProbes

\* The request fails, or has yet to ask about the upstream.
Doomed ==
    ~ probe.ok \/ ~ \E i \in DOMAIN svc.pingers : svc.pingers[i] = "upstream" /\ i < probe.at

\* An unusable channel ends the rotation.
OutageEnds ==
    ~ Usable(conn) /\ app # "exited" /\ ~ failed =>
        /\ "sidecar" \in up =>
              /\ probe.at > 0 /\ ~ Doomed => probe.since <= since
              /\ rotation /\ probe.at > 0 /\ Doomed => probe.since + Left(fails) <= since + AllProbes
              /\ rotation /\ probe.at = 0 => nextProbe + Left(fails) <= since + AllProbes
        /\ "sidecar" \notin up => (rotation => now <= since + AllProbes + ProbeTime)

\* A usable channel brings it back.
ReturnEnds ==
    Usable(conn) /\ app = "running" /\ ~ failed =>
        /\ probe.at > 0 /\ ~ probe.ok => probe.since <= since
        /\ ~ rotation /\ probe.at > 0 => probe.since <= since + Period
        /\ ~ rotation /\ probe.at = 0 => nextProbe <= since + Period

IInv == Typed /\ Clock /\ Life /\ Refused /\ DrainEnds /\ OutageEnds /\ ReturnEnds

-----------------------------------------------------------------------------
(* The services and the times.                                             *)

\* What the services have in common: a sidecar, and pingers of two kinds.
LEMMA ServiceFacts ==
    ASSUME svc \in Services
    PROVE  /\ Len(svc.pingers) \in Nat /\ DOMAIN svc.pingers = 1 .. Len(svc.pingers)
           /\ \A i \in DOMAIN svc.pingers : svc.pingers[i] \in {"drain", "upstream"}
           /\ "sidecar" \in Servers
<1>1. CASE svc = KrisAlpha
  BY <1>1 DEF KrisAlpha, Servers
<1>2. CASE svc = KrisGamma
  BY <1>2 DEF KrisGamma, Servers
<1>3. CASE svc = KrisGammaAlone
  BY <1>3 DEF KrisGammaAlone, KrisGamma, Servers
<1>4. CASE svc = DrainerUsage
  BY <1>4 DEF DrainerUsage, KrisAlpha, Servers
<1> QED BY <1>1, <1>2, <1>3, <1>4, ServicesAssumption

\* One failure more is one Period less.
LEMMA LeftFacts ==
    /\ AllProbes \in Nat /\ Left(0) = AllProbes - Period
    /\ \A f \in 0 .. Threshold : f < Threshold => Left(f) \in Nat /\ Left(f) <= AllProbes - Period
    /\ \A f \in 0 .. Threshold : f + 1 < Threshold => Left(f + 1) = Left(f) - Period
<1>0. Threshold \in Nat \ {0} /\ Period \in Nat \ {0}
  BY TimingAssumption
<1>1. AllProbes \in Nat
  BY <1>0 DEF AllProbes
<1>2. ASSUME NEW f \in 0 .. Threshold
      PROVE  Left(f) = AllProbes - f * Period - Period /\ f * Period \in Nat
  BY <1>0 DEF Left, AllProbes
<1>3. Left(0) = AllProbes - Period
  <2>1. 0 * Period = 0 /\ 0 \in 0 .. Threshold
    BY <1>0
  <2> QED BY <1>0, <1>1, <1>2, <2>1
<1>4. ASSUME NEW f \in 0 .. Threshold, f < Threshold
      PROVE  Left(f) \in Nat /\ Left(f) <= AllProbes - Period
  <2>1. Threshold - f - 1 \in Nat
    BY <1>0, <1>4
  <2>2. Left(f) \in Nat
    BY <1>0, <2>1 DEF Left
  <2> QED BY <1>0, <1>1, <1>2, <2>2
<1>5. ASSUME NEW f \in 0 .. Threshold, f + 1 < Threshold
      PROVE  Left(f + 1) = Left(f) - Period
  <2>1. f + 1 \in 0 .. Threshold /\ (f + 1) * Period = f * Period + Period
    BY <1>0, <1>5
  <2> QED BY <1>0, <1>1, <1>2, <2>1
<1> QED BY <1>1, <1>3, <1>4, <1>5

\* What the invariant says of the time that has passed.
LEMMA TimeBounds ==
    ASSUME IInv
    PROVE  /\ SafeDelay /\ draining /\ ~ failed /\ now >= stopAt =>
                 ~ rotation /\ (probe.at > 0 => probe.late)
           /\ ~ Usable(conn) /\ app # "exited" /\ ~ failed /\ rotation =>
                 now <= since + AllProbes + ProbeTime
           /\ Usable(conn) /\ app = "running" /\ ~ failed /\ ~ rotation =>
                 now <= since + Period + ProbeTime
<1>0. Typed /\ Clock /\ DrainEnds /\ OutageEnds /\ ReturnEnds
  BY DEF IInv
<1>1. /\ Threshold \in Nat \ {0} /\ Period \in Nat \ {0} /\ ProbeTime \in Nat
      /\ Delay \in Int /\ AllProbes \in Nat
      /\ rotation => Left(fails) \in Nat
      /\ probe.at \in Nat /\ probe.since \in Nat
  BY <1>0, TimingAssumption, LeftFacts DEF Typed, Clock
<1>2. SafeDelay => Delay > AllProbes + ProbeTime
  BY DEF SafeDelay, AllProbes
<1>3. ASSUME SafeDelay, draining, ~ failed, now >= stopAt
      PROVE  ~ rotation /\ (probe.at > 0 => probe.late)
  BY <1>0, <1>1, <1>2, <1>3 DEF Typed, Clock, DrainEnds
<1>4. ASSUME ~ Usable(conn), app # "exited", ~ failed, rotation
      PROVE  now <= since + AllProbes + ProbeTime
  BY <1>0, <1>1, <1>4 DEF Typed, Clock, OutageEnds
<1>5. ASSUME Usable(conn), app = "running", ~ failed, ~ rotation
      PROVE  now <= since + Period + ProbeTime
  BY <1>0, <1>1, <1>5 DEF Typed, Clock, ReturnEnds
<1> QED BY <1>3, <1>4, <1>5

-----------------------------------------------------------------------------
(* The steps.                                                              *)

\* SIGTERM: the drain begins.
LEMMA BeforeStopInv ==
    ASSUME IInv, BeforeStop
    PROVE  IInv'
<1>0. Typed /\ Clock /\ Life /\ Refused /\ DrainEnds /\ OutageEnds /\ ReturnEnds
  BY DEF IInv
<1>t. /\ Threshold \in Nat \ {0} /\ Period \in Nat \ {0} /\ ProbeTime \in Nat
      /\ ProbeTime < Period /\ Delay \in Int
  BY TimingAssumption
<1>a. /\ app = "running" /\ app' = "hook" /\ draining' = Wires("drain")
      /\ stopAt' = IF Wires("drain") /\ Delay > 0 THEN now + Delay ELSE now
      /\ UNCHANGED <<svc, now, up, failed, probe, lb, channel>>
  BY DEF BeforeStop
<1>u. UNCHANGED <<svc, now, up, failed, probe, nextProbe, fails, rotation, conn, changes, since>>
  BY <1>a DEF lb, channel
<1>1. Typed'
  <2>1. draining' \in BOOLEAN
    BY <1>a DEF Wires
  <2>2. stopAt' \in Int
    BY <1>0, <1>t, <1>a DEF Typed
  <2> QED BY <1>0, <1>a, <1>u, <2>1, <2>2 DEF Typed, Servers
<1>2. Clock'
  BY <1>0, <1>t, <1>a, <1>u DEF Clock, Typed
<1>3. Life'
  BY <1>0, <1>t, <1>a, <1>u DEF Life, Typed, Wires, Servers
<1>4. Refused'
  <2>1. ~ probe.late
    BY <1>0, <1>a DEF Refused, Life
  <2> QED BY <1>0, <1>u, <2>1 DEF Refused
<1>5. DrainEnds'
  <2> SUFFICES ASSUME SafeDelay, Wires("drain")
               PROVE  /\ probe.at > 0 => probe.since <= stopAt' - Delay
                      /\ probe.at > 0 => ~ probe.late
                      /\ rotation /\ probe.at = 0 =>
                            nextProbe + Left(fails) <= (stopAt' - Delay) + AllProbes
    BY <1>0, <1>a, <1>u DEF DrainEnds, SafeDelay
  <2>1. stopAt' - Delay = now
    <3>1. AllProbes \in Nat /\ Delay > AllProbes + ProbeTime
      BY LeftFacts DEF SafeDelay, AllProbes
    <3> QED BY <1>0, <1>t, <1>a, <3>1 DEF Typed
  <2>2. ~ probe.late
    BY <1>0, <1>a DEF Refused, Life
  <2>3. rotation => Left(fails) \in Nat /\ Left(fails) <= AllProbes - Period /\ AllProbes \in Nat
    BY <1>0, LeftFacts DEF Clock, Typed
  <2> QED BY <1>0, <1>t, <2>1, <2>2, <2>3 DEF Clock, Typed
<1>6. OutageEnds'
  BY <1>0, <1>t, <1>a, <1>u DEF OutageEnds, Typed, Clock, Doomed, Usable
<1>7. ReturnEnds'
  BY <1>0, <1>t, <1>a, <1>u DEF ReturnEnds, Typed, Clock, Usable
<1> QED BY <1>1, <1>2, <1>3, <1>4, <1>5, <1>6, <1>7 DEF IInv

\* BeforeStop returns.
LEMMA HookReturnsInv ==
    ASSUME IInv, HookReturns
    PROVE  IInv'
<1>0. Typed /\ Clock /\ Life /\ Refused /\ DrainEnds /\ OutageEnds /\ ReturnEnds
  BY DEF IInv
<1>t. /\ Threshold \in Nat \ {0} /\ Period \in Nat \ {0} /\ ProbeTime \in Nat
      /\ ProbeTime < Period /\ Delay \in Int
  BY TimingAssumption
<1>a. /\ app = "hook" /\ now >= stopAt /\ app' = "stopping"
      /\ UNCHANGED <<svc, now, draining, stopAt, up, failed, probe, nextProbe, fails, rotation,
                     conn, changes, since>>
  BY DEF HookReturns, lb, channel
<1>1. Typed'
  BY <1>0, <1>t, <1>a DEF Typed, Servers
<1>2. Clock'
  BY <1>0, <1>t, <1>a DEF Clock, Typed
<1>3. Life'
  BY <1>0, <1>t, <1>a DEF Life, Typed, Wires, Servers
<1>4. Refused'
  BY <1>0, <1>t, <1>a DEF Refused, Typed, Clock
<1>5. DrainEnds'
  BY <1>0, <1>t, <1>a DEF DrainEnds, Typed, Clock, SafeDelay
<1>6. OutageEnds'
  BY <1>0, <1>t, <1>a DEF OutageEnds, Typed, Clock, Doomed, Usable
<1>7. ReturnEnds'
  BY <1>0, <1>t, <1>a DEF ReturnEnds, Typed, Clock, Usable
<1> QED BY <1>1, <1>2, <1>3, <1>4, <1>5, <1>6, <1>7 DEF IInv

\* A server goes down, when the application stops or because a server failed.
LEMMA DownInv ==
    ASSUME IInv, NEW s \in Servers, Down(s),
           app = "stopping" \/ failed', failed => failed', failed' \in BOOLEAN,
           UNCHANGED <<svc, now, app, draining, stopAt, lb, channel>>
    PROVE  IInv'
<1>0. Typed /\ Clock /\ Life /\ Refused /\ DrainEnds /\ OutageEnds /\ ReturnEnds
  BY DEF IInv
<1>t. /\ Threshold \in Nat \ {0} /\ Period \in Nat \ {0} /\ ProbeTime \in Nat
      /\ ProbeTime < Period /\ Delay \in Int
  BY TimingAssumption
<1>a. /\ s \in up /\ up' = up \ {s} /\ probe' = IF s = "sidecar" THEN NoProbe ELSE probe
      /\ UNCHANGED <<svc, now, app, draining, stopAt, nextProbe, fails, rotation,
                     conn, changes, since>>
  BY DEF Down, lb, channel
<1>n. /\ NoProbe.at = 0 /\ ~ NoProbe.late
      /\ NoProbe \in [at : Nat, ok : BOOLEAN, since : Nat, late : BOOLEAN]
  BY DEF NoProbe
<1>1. Typed'
  BY <1>0, <1>t, <1>a, <1>n DEF Typed, Servers
<1>2. Clock'
  BY <1>0, <1>t, <1>a, <1>n DEF Clock, Typed
<1>3. Life'
  BY <1>0, <1>t, <1>a DEF Life, Typed, Wires, Servers
<1>4. Refused'
  BY <1>0, <1>t, <1>a, <1>n DEF Refused, Typed, Clock
<1>5. DrainEnds'
  <2>1. SafeDelay /\ draining /\ ~ failed' => ~ rotation /\ (probe.at > 0 => probe.late)
    BY <1>0, TimeBounds DEF Life
  <2> QED BY <1>0, <1>a, <1>n, <2>1 DEF DrainEnds, SafeDelay
<1>6. OutageEnds'
  <2>1. ~ Usable(conn) /\ app # "exited" /\ ~ failed /\ rotation => now <= since + AllProbes + ProbeTime
    BY TimeBounds
  <2> QED BY <1>0, <1>a, <1>n, <2>1 DEF OutageEnds, Doomed, Usable
<1>7. ReturnEnds'
  BY <1>0, <1>t, <1>a DEF ReturnEnds, Typed, Clock, Usable
<1> QED BY <1>1, <1>2, <1>3, <1>4, <1>5, <1>6, <1>7 DEF IInv

\* main ends.
LEMMA ExitInv ==
    ASSUME IInv, Exit
    PROVE  IInv'
<1>0. Typed /\ Clock /\ Life /\ Refused /\ DrainEnds /\ OutageEnds /\ ReturnEnds
  BY DEF IInv
<1>t. /\ Threshold \in Nat \ {0} /\ Period \in Nat \ {0} /\ ProbeTime \in Nat
      /\ ProbeTime < Period /\ Delay \in Int
  BY TimingAssumption
<1>a. /\ up = {} /\ app \in {"running", "stopping"} /\ app' = "exited"
      /\ conn' = IF failed THEN conn ELSE Cleanup(conn)
      /\ UNCHANGED <<svc, now, draining, stopAt, up, failed, probe, nextProbe, fails, rotation,
                     changes, since>>
  BY DEF Exit, lb
<1>1. Typed'
  BY <1>0, <1>a DEF Typed, Servers, Cleanup
<1>2. Clock'
  BY <1>0, <1>t, <1>a DEF Clock, Typed
<1>3. Life'
  <2>1. ~ failed => app = "stopping"
    BY <1>0, <1>a, ServiceFacts DEF Life, Typed
  <2>2. conn' = "none" <=> conn = "none"
    BY <1>a DEF Cleanup
  <2> QED BY <1>0, <1>a, <2>1, <2>2 DEF Life, Wires
<1>4. Refused'
  BY <1>0, <1>t, <1>a DEF Refused, Typed, Clock
<1>5. DrainEnds'
  BY <1>0, <1>t, <1>a DEF DrainEnds, Typed, Clock, SafeDelay
<1>6. OutageEnds'
  BY <1>0, <1>t, <1>a DEF OutageEnds, Typed, Clock, Doomed, Usable
<1>7. ReturnEnds'
  BY <1>0, <1>t, <1>a DEF ReturnEnds, Typed, Clock, Usable
<1> QED BY <1>1, <1>2, <1>3, <1>4, <1>5, <1>6, <1>7 DEF IInv

\* The channel changes its state.
LEMMA ConnChangesInv ==
    ASSUME IInv, ConnChanges
    PROVE  IInv'
<1>0. Typed /\ Clock /\ Life /\ Refused /\ DrainEnds /\ OutageEnds /\ ReturnEnds
  BY DEF IInv
<1>t. /\ Threshold \in Nat \ {0} /\ Period \in Nat \ {0} /\ ProbeTime \in Nat
      /\ ProbeTime < Period /\ Delay \in Int
  BY TimingAssumption
<1>a. /\ app # "exited"
      /\ \E t \in Channel : t[1] = conn /\ conn' = t[2]
      /\ since' = IF Usable(conn) = Usable(conn') THEN since ELSE now
      /\ UNCHANGED <<svc, now, app, draining, stopAt, up, failed, probe, nextProbe, fails, rotation>>
  BY DEF ConnChanges, lb
<1>c. conn # "none" /\ conn' \in {"connecting", "ready", "transient", "idle"}
  BY <1>a DEF Channel
<1>1. Typed'
  BY <1>0, <1>a, <1>c DEF Typed, Servers
<1>2. Clock'
  BY <1>0, <1>t, <1>a DEF Clock, Typed
<1>3. Life'
  BY <1>0, <1>a, <1>c DEF Life, Wires, Servers
<1>4. Refused'
  BY <1>0, <1>t, <1>a DEF Refused, Typed, Clock
<1>5. DrainEnds'
  BY <1>0, <1>t, <1>a DEF DrainEnds, Typed, Clock, SafeDelay
<1>6. OutageEnds'
  <2>1. CASE Usable(conn) = Usable(conn')
    BY <1>0, <1>a, <2>1 DEF OutageEnds, Doomed
  <2>2. CASE Usable(conn) # Usable(conn')
    <3>1. since' = now /\ (rotation => Left(fails) \in Nat /\ Left(fails) <= AllProbes - Period)
          /\ AllProbes \in Nat
      BY <1>0, <1>a, <2>2, LeftFacts DEF Clock, Typed
    <3> QED BY <1>0, <1>t, <1>a, <3>1 DEF OutageEnds, Clock, Typed
  <2> QED BY <2>1, <2>2
<1>7. ReturnEnds'
  <2>1. CASE Usable(conn) = Usable(conn')
    BY <1>0, <1>a, <2>1 DEF ReturnEnds
  <2>2. CASE Usable(conn) # Usable(conn')
    <3>1. since' = now
      BY <1>a, <2>2
    <3>2. probe.at \in Nat /\ probe.since \in Nat /\ now \in Nat
      BY <1>0 DEF Typed
    <3>3. probe.at > 0 => probe.since <= since' /\ probe.since <= since' + Period
      BY <1>0, <1>t, <3>1, <3>2 DEF Clock
    <3>4. nextProbe <= since' + Period
      BY <1>0, <3>1 DEF Clock
    <3> QED BY <1>a, <3>3, <3>4 DEF ReturnEnds
  <2> QED BY <2>1, <2>2
<1> QED BY <1>1, <1>2, <1>3, <1>4, <1>5, <1>6, <1>7 DEF IInv

\* A probe begins, when it is due.
LEMMA ProbeBeginsInv ==
    ASSUME IInv, ProbeBegins
    PROVE  IInv'
<1>0. Typed /\ Clock /\ Life /\ Refused /\ DrainEnds /\ OutageEnds /\ ReturnEnds
  BY DEF IInv
<1>t. /\ Threshold \in Nat \ {0} /\ Period \in Nat \ {0} /\ ProbeTime \in Nat
      /\ ProbeTime < Period /\ Delay \in Int
  BY TimingAssumption
<1>a. /\ now >= nextProbe /\ probe = NoProbe /\ "sidecar" \in up
      /\ probe' = [at |-> 1, ok |-> TRUE, since |-> now, late |-> draining]
      /\ nextProbe' = now + Period
      /\ UNCHANGED <<svc, now, app, draining, stopAt, up, failed, fails, rotation, conn, changes, since>>
  BY DEF ProbeBegins, ProbeDue, channel
<1>n. /\ probe.at = 0 /\ now = nextProbe
      /\ probe'.at = 1 /\ probe'.ok = TRUE /\ probe'.since = now /\ probe'.late = draining
  BY <1>0, <1>a DEF NoProbe, Clock, Typed
<1>1. Typed'
  BY <1>0, <1>t, <1>a, <1>n DEF Typed, Servers
<1>2. Clock'
  BY <1>0, <1>t, <1>a, <1>n, ServiceFacts DEF Clock, Typed
<1>3. Life'
  BY <1>0, <1>t, <1>a DEF Life, Typed, Wires, Servers
<1>4. Refused'
  BY <1>0, <1>n, <1>a, ServiceFacts DEF Refused, Typed
<1>5. DrainEnds'
  BY <1>0, <1>t, <1>a, <1>n DEF DrainEnds, Typed, Clock, SafeDelay
<1>6. OutageEnds'
  BY <1>0, <1>t, <1>a, <1>n, ServiceFacts DEF OutageEnds, Typed, Clock, Doomed, Usable
<1>7. ReturnEnds'
  BY <1>0, <1>t, <1>a, <1>n DEF ReturnEnds, Typed, Clock, Usable
<1> QED BY <1>1, <1>2, <1>3, <1>4, <1>5, <1>6, <1>7 DEF IInv

\* A failed probe brings the end of the rotation one step closer.
LEMMA FailFacts ==
    ASSUME Typed, Fail
    PROVE  /\ fails' \in 0 .. Threshold /\ rotation' \in BOOLEAN
           /\ rotation' => rotation /\ fails' = fails + 1 /\ fails' < Threshold
<1>1. fails' \in 0 .. Threshold
  BY TimingAssumption DEF Typed, Fail
<1>2. rotation' \in BOOLEAN /\ (rotation' => rotation /\ fails' < Threshold)
  BY DEF Fail
<1>3. fails' < Threshold => fails' = fails + 1
  BY TimingAssumption DEF Typed, Fail
<1> QED BY <1>1, <1>2, <1>3

\* A probe is refused: the sidecar is gone.
LEMMA ProbeRefusedInv ==
    ASSUME IInv, ProbeRefused
    PROVE  IInv'
<1>0. Typed /\ Clock /\ Life /\ Refused /\ DrainEnds /\ OutageEnds /\ ReturnEnds
  BY DEF IInv
<1>t. /\ Threshold \in Nat \ {0} /\ Period \in Nat \ {0} /\ ProbeTime \in Nat
      /\ ProbeTime < Period /\ Delay \in Int
  BY TimingAssumption
<1>a. /\ now >= nextProbe /\ probe = NoProbe /\ "sidecar" \notin up
      /\ nextProbe' = now + Period /\ Fail
      /\ UNCHANGED <<svc, now, app, draining, stopAt, up, failed, probe, conn, changes, since>>
  BY DEF ProbeRefused, ProbeDue, channel
<1>n. /\ fails' \in 0 .. Threshold /\ rotation' \in BOOLEAN
      /\ rotation' => rotation /\ fails' = fails + 1 /\ fails' < Threshold
      /\ probe.at = 0 /\ up # Servers
  BY <1>0, <1>a, FailFacts, ServiceFacts DEF NoProbe, Typed
<1>1. Typed'
  BY <1>0, <1>t, <1>a, <1>n DEF Typed, Servers
<1>2. Clock'
  BY <1>0, <1>t, <1>a, <1>n DEF Clock, Typed
<1>3. Life'
  BY <1>0, <1>t, <1>a DEF Life, Typed, Wires, Servers
<1>4. Refused'
  BY <1>0, <1>t, <1>a DEF Refused, Typed, Clock
<1>5. DrainEnds'
  <2>1. SafeDelay /\ draining /\ ~ failed => ~ rotation
    BY <1>0, <1>n, TimeBounds DEF Life, Typed
  <2> QED BY <1>a, <1>n, <2>1 DEF DrainEnds, SafeDelay
<1>6. OutageEnds'
  BY <1>0, <1>a, <1>n DEF OutageEnds
<1>7. ReturnEnds'
  BY <1>0, <1>a, <1>n DEF ReturnEnds, Life
<1> QED BY <1>1, <1>2, <1>3, <1>4, <1>5, <1>6, <1>7 DEF IInv

\* readyHandler asks the next pinger.
LEMMA PingInv ==
    ASSUME IInv, Ping
    PROVE  IInv'
<1>0. Typed /\ Clock /\ Life /\ Refused /\ DrainEnds /\ OutageEnds /\ ReturnEnds
  BY DEF IInv
<1>t. /\ Threshold \in Nat \ {0} /\ Period \in Nat \ {0} /\ ProbeTime \in Nat
      /\ ProbeTime < Period /\ Delay \in Int
  BY TimingAssumption
<1>a. /\ probe.at \in DOMAIN svc.pingers
      /\ probe' = [probe EXCEPT !.at = @ + 1, !.ok = @ /\ PingOK(probe.at)]
      /\ UNCHANGED <<svc, now, app, draining, stopAt, up, failed, nextProbe, fails, rotation,
                     conn, changes, since>>
  BY DEF Ping, lb, channel
<1>n. /\ probe' \in [at : Nat, ok : BOOLEAN, since : Nat, late : BOOLEAN]
      /\ probe'.at = probe.at + 1 /\ probe'.since = probe.since /\ probe'.late = probe.late
      /\ probe'.ok <=> probe.ok /\ PingOK(probe.at)
      /\ probe.at \in Nat /\ probe.at > 0 /\ probe.at + 1 > 0 /\ probe.at + 1 # 0
      /\ probe.at + 1 <= Len(svc.pingers) + 1
  <2>1. probe.at \in 1 .. Len(svc.pingers) /\ Len(svc.pingers) \in Nat
    BY <1>0, <1>a, ServiceFacts DEF Typed
  <2>2. probe \in [at : Nat, ok : BOOLEAN, since : Nat, late : BOOLEAN]
    BY <1>0 DEF Typed
  <2> DEFINE b == probe.ok /\ PingOK(probe.at)
  <2>3. b \in BOOLEAN /\ probe.at + 1 \in Nat
    BY <2>1
  <2>4. probe' = [probe EXCEPT !.at = @ + 1, !.ok = b]
    BY <1>a, <2>2
  <2>5. probe'.ok = b
    BY <2>2, <2>4
  <2>6. probe'.ok <=> probe.ok /\ PingOK(probe.at)
    BY <2>5
  <2> HIDE DEF b
  <2>7. /\ probe' \in [at : Nat, ok : BOOLEAN, since : Nat, late : BOOLEAN]
        /\ probe'.at = probe.at + 1 /\ probe'.since = probe.since /\ probe'.late = probe.late
    BY <2>2, <2>3, <2>4
  <2>8. /\ probe.at \in Nat /\ probe.at > 0 /\ probe.at + 1 > 0 /\ probe.at + 1 # 0
        /\ probe.at + 1 <= Len(svc.pingers) + 1
    BY <2>1
  <2> QED BY <2>6, <2>7, <2>8, Zenon
<1>1. Typed'
  BY <1>0, <1>t, <1>a, <1>n DEF Typed, Servers
<1>2. Clock'
  BY <1>0, <1>t, <1>a, <1>n DEF Clock, Typed
<1>3. Life'
  BY <1>0, <1>t, <1>a DEF Life, Typed, Wires, Servers
<1>4. Refused'
  <2> SUFFICES ASSUME NEW i \in DOMAIN svc.pingers, svc.pingers[i] = "drain", probe.late,
                      i < probe.at + 1, probe'.ok
               PROVE  FALSE
    BY <1>0, <1>a, <1>n DEF Refused
  <2>1. probe.ok /\ PingOK(probe.at) /\ draining
    BY <1>0, <1>n DEF Refused
  <2>2. i < probe.at \/ i = probe.at
    BY <1>n, ServiceFacts, <1>0 DEF Typed
  <2> QED BY <1>0, <2>1, <2>2 DEF Refused, PingOK
<1>5. DrainEnds'
  BY <1>0, <1>a, <1>n DEF DrainEnds, SafeDelay
<1>6. OutageEnds'
  <2> SUFFICES ASSUME ~ Usable(conn), app # "exited", ~ failed
               PROVE  /\ ~ Doomed' => probe.since <= since
                      /\ rotation /\ Doomed' => probe.since + Left(fails) <= since + AllProbes
    BY <1>0, <1>a, <1>n DEF OutageEnds, Clock, Usable
  <2>1. /\ ~ Doomed => probe.since <= since
        /\ rotation /\ Doomed => probe.since + Left(fails) <= since + AllProbes
    BY <1>0, <1>n DEF OutageEnds, Clock
  <2>2. ~ Doomed' => ~ Doomed
    <3> SUFFICES ASSUME NEW i \in DOMAIN svc.pingers, svc.pingers[i] = "upstream",
                        i < probe.at + 1, probe'.ok
                 PROVE  ~ Doomed
      BY <1>a, <1>n DEF Doomed
    <3>1. probe.ok /\ PingOK(probe.at)
      BY <1>n
    <3>2. i < probe.at \/ i = probe.at
      BY <1>0, <1>n, ServiceFacts DEF Typed
    <3>3. i # probe.at
      BY <3>1 DEF PingOK, ConnOK, Usable
    <3> QED BY <3>1, <3>2, <3>3 DEF Doomed
  <2>3. rotation => Left(fails) \in Nat /\ Left(fails) <= AllProbes - Period /\ AllProbes \in Nat
    BY <1>0, LeftFacts DEF Clock, Typed
  <2>4. probe.since \in Nat /\ since \in Nat
    BY <1>0 DEF Typed
  <2> QED BY <1>t, <2>1, <2>2, <2>3, <2>4
<1>7. ReturnEnds'
  <2> SUFFICES ASSUME Usable(conn), app = "running", ~ failed
               PROVE  /\ ~ probe'.ok => probe.since <= since
                      /\ ~ rotation => probe.since <= since + Period
    BY <1>a, <1>n DEF ReturnEnds
  <2>1. PingOK(probe.at)
    BY <1>0, <1>a, ServiceFacts DEF PingOK, ConnOK, Usable, Life, Typed
  <2> QED BY <1>0, <1>n, <2>1 DEF ReturnEnds
<1> QED BY <1>1, <1>2, <1>3, <1>4, <1>5, <1>6, <1>7 DEF IInv

\* The load balancer gets its answer.
LEMMA ReplyInv ==
    ASSUME IInv, Reply
    PROVE  IInv'
<1>0. Typed /\ Clock /\ Life /\ Refused /\ DrainEnds /\ OutageEnds /\ ReturnEnds
  BY DEF IInv
<1>t. /\ Threshold \in Nat \ {0} /\ Period \in Nat \ {0} /\ ProbeTime \in Nat
      /\ ProbeTime < Period /\ Delay \in Int
  BY TimingAssumption
<1>a. /\ probe.at = Len(svc.pingers) + 1 /\ probe' = NoProbe
      /\ \/ probe.ok /\ fails' = 0 /\ rotation' = TRUE
         \/ ~ probe.ok /\ Fail
      /\ UNCHANGED <<svc, now, app, draining, stopAt, up, failed, nextProbe, conn, changes, since>>
  BY DEF Reply, channel
<1>n. /\ NoProbe.at = 0 /\ ~ NoProbe.late
      /\ NoProbe \in [at : Nat, ok : BOOLEAN, since : Nat, late : BOOLEAN]
  BY DEF NoProbe
<1>f. /\ fails' \in 0 .. Threshold /\ rotation' \in BOOLEAN
      /\ rotation' => fails' < Threshold
      /\ ~ probe.ok /\ rotation' => rotation /\ fails' = fails + 1
  <2>1. CASE probe.ok
    <3>1. fails' = 0 /\ rotation' = TRUE
      BY <1>a, <2>1
    <3> QED BY <1>t, <2>1, <3>1
  <2>2. CASE ~ probe.ok
    <3>1. Fail
      BY <1>a, <2>2
    <3> QED BY <1>0, <3>1, FailFacts
  <2> QED BY <2>1, <2>2
<1>p. /\ probe.at > 0 /\ probe.at # 0 /\ "sidecar" \in up
      /\ probe.since \in Nat /\ nextProbe = probe.since + Period
      /\ now <= probe.since + ProbeTime
      /\ \A i \in DOMAIN svc.pingers : i < probe.at
  <2>1. Len(svc.pingers) \in Nat /\ DOMAIN svc.pingers = 1 .. Len(svc.pingers)
    BY <1>0, ServiceFacts DEF Typed
  <2>2. probe.at > 0 /\ probe.at # 0 /\ \A i \in DOMAIN svc.pingers : i < probe.at
    BY <1>a, <2>1
  <2> QED BY <1>0, <2>2 DEF Clock, Typed
<1>q. /\ AllProbes \in Nat /\ Left(0) = AllProbes - Period
      /\ rotation => Left(fails) \in Nat /\ Left(fails) <= AllProbes - Period
      /\ ~ probe.ok /\ rotation' => Left(fails + 1) = Left(fails) - Period
  BY <1>0, <1>f, LeftFacts DEF Clock, Typed
<1>1. Typed'
  BY <1>0, <1>t, <1>a, <1>n, <1>f DEF Typed, Servers
<1>2. Clock'
  BY <1>0, <1>t, <1>a, <1>n, <1>f, <1>p DEF Clock, Typed
<1>3. Life'
  BY <1>0, <1>t, <1>a DEF Life, Typed, Wires, Servers
<1>4. Refused'
  BY <1>0, <1>t, <1>a, <1>n DEF Refused, Typed, Clock
<1>5. DrainEnds'
  <2> SUFFICES ASSUME SafeDelay, draining, ~ failed, rotation'
               PROVE  nextProbe + Left(fails') <= (stopAt - Delay) + AllProbes
    BY <1>0, <1>a, <1>n DEF DrainEnds, SafeDelay
  <2>1. CASE probe.ok
    <3>1. ~ probe.late
      BY <1>0, <1>a, <1>p, <2>1 DEF Refused, Life, Wires
    <3>2. probe.since <= stopAt - Delay
      BY <1>0, <1>p, <3>1 DEF DrainEnds
    <3>3. fails' = 0 /\ stopAt \in Int /\ since \in Nat
      BY <1>0, <1>a, <2>1 DEF Typed
    <3> QED BY <1>t, <1>p, <1>q, <3>2, <3>3
  <2>2. CASE ~ probe.ok
    <3>1. rotation /\ fails' = fails + 1 /\ Left(fails') = Left(fails) - Period
      BY <1>f, <1>q, <2>2
    <3>2. CASE probe.late
      <4>1. probe.since + Left(fails) <= (stopAt - Delay) + AllProbes
        BY <1>0, <1>p, <3>1, <3>2 DEF DrainEnds
      <4> QED BY <1>0, <1>t, <1>p, <1>q, <3>1, <4>1 DEF Typed
    <3>3. CASE ~ probe.late
      <4>1. probe.since <= stopAt - Delay
        BY <1>0, <1>p, <3>3 DEF DrainEnds
      <4> QED BY <1>0, <1>t, <1>p, <1>q, <3>1, <4>1 DEF Typed
    <3> QED BY <3>2, <3>3
  <2> QED BY <2>1, <2>2
<1>6. OutageEnds'
  <2> SUFFICES ASSUME ~ Usable(conn), app # "exited", ~ failed, rotation'
               PROVE  nextProbe + Left(fails') <= since + AllProbes
    BY <1>a, <1>n, <1>p DEF OutageEnds
  <2>1. CASE probe.ok
    <3>1. ~ Doomed
      BY <1>0, <1>a, <1>p, <2>1 DEF Doomed, Life, Wires, Usable
    <3>2. probe.since <= since
      BY <1>0, <1>p, <3>1 DEF OutageEnds
    <3>3. fails' = 0 /\ stopAt \in Int /\ since \in Nat
      BY <1>0, <1>a, <2>1 DEF Typed
    <3> QED BY <1>t, <1>p, <1>q, <3>2, <3>3
  <2>2. CASE ~ probe.ok
    <3>1. rotation /\ fails' = fails + 1 /\ Left(fails') = Left(fails) - Period
      BY <1>f, <1>q, <2>2
    <3>2. probe.since + Left(fails) <= since + AllProbes
      BY <1>0, <1>p, <2>2, <3>1 DEF OutageEnds, Doomed
    <3> QED BY <1>0, <1>t, <1>p, <1>q, <3>1, <3>2 DEF Typed
  <2> QED BY <2>1, <2>2
<1>7. ReturnEnds'
  <2> SUFFICES ASSUME Usable(conn), app = "running", ~ failed, ~ rotation'
               PROVE  nextProbe <= since + Period
    BY <1>a, <1>n DEF ReturnEnds
  <2>1. ~ probe.ok
    BY <1>a
  <2>2. probe.since <= since
    BY <1>0, <1>p, <2>1 DEF ReturnEnds
  <2> QED BY <1>0, <1>t, <1>p, <2>2 DEF Typed
<1> QED BY <1>1, <1>2, <1>3, <1>4, <1>5, <1>6, <1>7 DEF IInv

\* Time passes.
LEMMA TickInv ==
    ASSUME IInv, Tick
    PROVE  IInv'
<1>0. Typed /\ Clock /\ Life /\ Refused /\ DrainEnds /\ OutageEnds /\ ReturnEnds
  BY DEF IInv
<1>t. /\ Threshold \in Nat \ {0} /\ Period \in Nat \ {0} /\ ProbeTime \in Nat
      /\ ProbeTime < Period /\ Delay \in Int
  BY TimingAssumption
<1>a. /\ ~ StopDue
      /\ ~ (now >= nextProbe /\ probe = NoProbe)
      /\ probe # NoProbe => now < probe.since + ProbeTime
      /\ now' = now + 1
      /\ UNCHANGED <<svc, app, draining, stopAt, up, failed, probe, nextProbe, fails, rotation,
                     conn, changes, since>>
  BY DEF Tick, ProbeDue, lb, channel
<1>1. Typed'
  BY <1>0, <1>t, <1>a DEF Typed, Servers
<1>2. Clock'
  <2>1. probe.at > 0 => probe # NoProbe
    BY DEF NoProbe
  <2> QED BY <1>0, <1>t, <1>a, <2>1 DEF Clock, Typed
<1>3. Life'
  BY <1>0, <1>t, <1>a DEF Life, Typed, Wires, Servers
<1>4. Refused'
  BY <1>0, <1>a DEF Refused
<1>5. DrainEnds'
  BY <1>0, <1>a DEF DrainEnds, SafeDelay
<1>6. OutageEnds'
  <2>1. app # "exited" /\ ~ failed => "sidecar" \in up
    BY <1>0, <1>a, ServiceFacts DEF Life, Typed, StopDue
  <2> QED BY <1>0, <1>a, <2>1 DEF OutageEnds, Doomed, Usable
<1>7. ReturnEnds'
  BY <1>0, <1>a DEF ReturnEnds, Usable
<1> QED BY <1>1, <1>2, <1>3, <1>4, <1>5, <1>6, <1>7 DEF IInv

-----------------------------------------------------------------------------
(* The invariant holds.                                                    *)

\* The application before its first probe.
LEMMA InitInv == Init => IInv
<1> SUFFICES ASSUME Init PROVE IInv
  OBVIOUS
<1>t. /\ Threshold \in Nat \ {0} /\ Period \in Nat \ {0} /\ ProbeTime \in Nat
      /\ ProbeTime < Period /\ Delay \in Int
  BY TimingAssumption
<1>a. /\ svc \in Services /\ now = 0 /\ app = "running" /\ draining = FALSE /\ stopAt = 0
      /\ up = Servers /\ failed = FALSE /\ probe = NoProbe /\ nextProbe \in 0 .. Period
      /\ fails = 0 /\ rotation \in BOOLEAN /\ conn = Dial /\ since = 0
  BY DEF Init
<1>n. /\ NoProbe.at = 0 /\ ~ NoProbe.late
      /\ NoProbe \in [at : Nat, ok : BOOLEAN, since : Nat, late : BOOLEAN]
  BY DEF NoProbe
<1>d. conn \in {"none", "connecting"} /\ (conn = "none" <=> ~ Wires("upstream"))
  BY <1>a DEF Dial
<1>1. Typed
  <2>1. /\ now \in Nat /\ stopAt \in Int /\ nextProbe \in Int /\ since \in Nat
        /\ fails \in 0 .. Threshold
    BY <1>t, <1>a
  <2>2. /\ draining \in BOOLEAN /\ failed \in BOOLEAN /\ rotation \in BOOLEAN
        /\ probe \in [at : Nat, ok : BOOLEAN, since : Nat, late : BOOLEAN]
    BY <1>a, <1>n
  <2> QED BY <1>a, <1>d, <2>1, <2>2 DEF Typed
<1>2. Clock
  BY <1>t, <1>a, <1>n DEF Clock
<1>3. Life
  BY <1>a, <1>d DEF Life
<1>4. Refused /\ DrainEnds
  BY <1>a, <1>n DEF Refused, DrainEnds
<1>5. OutageEnds
  <2>1. Left(0) = AllProbes - Period /\ AllProbes \in Nat
    BY LeftFacts
  <2>2. "sidecar" \in up
    BY <1>a, ServiceFacts
  <2> QED BY <1>t, <1>a, <1>n, <2>1, <2>2 DEF OutageEnds
<1>6. ReturnEnds
  BY <1>t, <1>a, <1>n DEF ReturnEnds
<1> QED BY <1>1, <1>2, <1>3, <1>4, <1>5, <1>6 DEF IInv

\* Every step of the application, of the channel, of a probe and of the clock
\* preserves it.
LEMMA NextInv == IInv /\ [Next]_vars => IInv'
<1> SUFFICES ASSUME IInv, [Next]_vars PROVE IInv'
  OBVIOUS
<1>1. ASSUME NEW s \in Servers, StopServer(s) PROVE IInv'
  <2>1. /\ (app = "stopping" \/ failed) /\ Down(s)
        /\ UNCHANGED <<svc, now, app, draining, stopAt, failed, lb, channel>>
    BY <1>1 DEF StopServer
  <2>2. Down(s) /\ (app = "stopping" \/ failed') /\ (failed => failed') /\ failed' \in BOOLEAN
    BY <1>1, <2>1 DEF StopServer, IInv, Typed
  <2> QED BY <2>1, <2>2, DownInv
<1>2. ASSUME NEW s \in Servers, ServerFails(s) PROVE IInv'
  BY <1>2, DownInv DEF ServerFails
<1>3. CASE UNCHANGED vars
  <2>1. UNCHANGED <<svc, now, app, draining, stopAt, up, failed, probe, nextProbe, fails, rotation,
                    conn, changes, since>>
    BY <1>3 DEF vars, lb, channel
  <2>2. Typed' /\ Clock'
    BY <2>1 DEF IInv, Typed, Clock, Servers
  <2>3. Life' /\ Refused'
    BY <2>1 DEF IInv, Life, Refused, Servers, Wires
  <2>4. DrainEnds' /\ OutageEnds' /\ ReturnEnds'
    BY <2>1 DEF IInv, DrainEnds, OutageEnds, ReturnEnds, Doomed, Usable, SafeDelay
  <2> QED BY <2>2, <2>3, <2>4 DEF IInv
<1> QED BY <1>1, <1>2, <1>3, BeforeStopInv, HookReturnsInv, ExitInv, ConnChangesInv, TickInv,
           ProbeBeginsInv, ProbeRefusedInv, PingInv, ReplyInv
        DEF Next, Stop

\* The invariant, of every behaviour.
LEMMA Invariance == Spec => []IInv
BY InitInv, NextInv, PTL DEF Spec

-----------------------------------------------------------------------------
\* A readiness request that begins after SIGTERM is never answered ready,
\* whatever the other pingers say.
THEOREM LateRequestsRefused == Spec => []NoLateReady
<1>1. IInv => NoLateReady
  <2> SUFFICES ASSUME IInv, Wires("drain"), probe.late, probe.at = Len(svc.pingers) + 1
               PROVE  ~ probe.ok
    BY DEF NoLateReady
  <2>1. PICK i \in DOMAIN svc.pingers : svc.pingers[i] = "drain"
    BY DEF Wires
  <2>2. i < probe.at
    BY ServiceFacts DEF IInv, Typed
  <2> QED BY <2>1, <2>2 DEF IInv, Refused
<1> QED BY <1>1, Invariance, PTL

\* With a delay of Threshold periods and a probe, the load balancer has taken
\* the pod out of rotation before a server that gets its traffic stops.
THEOREM DrainSuffices == Spec => []DrainedBeforeStop
<1>1. IInv => DrainedBeforeStop
  <2> SUFFICES ASSUME IInv, Wires("drain"), SafeDelay, ~ failed, ~ (Biz \subseteq up)
               PROVE  ~ rotation
    BY DEF DrainedBeforeStop
  <2>1. up # Servers
    BY DEF Biz
  <2>2. now >= stopAt /\ draining
    BY <2>1 DEF IInv, Life, Typed
  <2> QED BY <2>2, TimeBounds
<1> QED BY <1>1, Invariance, PTL

\* The rotation follows the upstream channel within Threshold probes down and
\* within one probe up.
THEOREM RotationTracks == Spec => []RotationFollowsUpstream
<1>1. IInv => RotationFollowsUpstream
  <2> SUFFICES ASSUME IInv PROVE RotationFollowsUpstream
    OBVIOUS
  <2>0. /\ now \in Nat /\ since \in Nat /\ AllProbes \in Nat /\ ProbeTime \in Nat /\ Period \in Nat
    BY TimingAssumption, LeftFacts DEF IInv, Typed
  <2>1. ASSUME ~ Usable(conn), app # "exited", ~ failed, Lasted > Threshold * Period + ProbeTime
        PROVE  ~ rotation
    <3>1. now - since > AllProbes + ProbeTime
      BY <2>1 DEF Lasted, AllProbes
    <3>2. ~ (now <= since + AllProbes + ProbeTime)
      BY <2>0, <3>1
    <3> QED BY <2>1, <3>2, TimeBounds
  <2>2. ASSUME Usable(conn), app = "running", ~ failed, Lasted > Period + ProbeTime
        PROVE  rotation
    <3>1. ~ (now <= since + Period + ProbeTime)
      BY <2>0, <2>2 DEF Lasted
    <3> QED BY <2>2, <3>1, TimeBounds
  <2> QED BY <2>1, <2>2 DEF RotationFollowsUpstream
<1> QED BY <1>1, Invariance, PTL

=============================================================================
