--------------------------- MODULE TraceIdProofs ---------------------------
(***************************************************************************)
(* Proofs about TraceId for every number of calls and services, whichever  *)
(* services have OpenTelemetry.  That a service logs its caller's id       *)
(* follows from what the headers and the context of a call carry at each   *)
(* point of logid and the tracing middleware (Carried); that calls are     *)
(* told apart, from the positive ids a call uses being its own (Owned).    *)
(***************************************************************************)
EXTENDS TraceId, TLAPS

Typed ==
    /\ otel \in [Services -> BOOLEAN]
    /\ at \in [Call -> 0 .. Hops]
    /\ pc \in [Call -> {"idle", "wire", "logid", "handler", "send", "done"}]
    /\ wire \in [Call -> [xid : Int, parent : Int]]
    /\ ctx \in [Call -> [id : Int, span : Int]]
    /\ seen \in [Call -> [Services -> [log : Int, reply : Int]]]
    /\ fresh \in Nat

\* No service before s has OpenTelemetry.
Untraced(s) == \A r \in Services : r < s => ~ otel[r]

\* A call has been served at most where it has been.
Placed(c) ==
    /\ pc[c] = "idle" => at[c] = 0 /\ ctx[c] = Bare
    /\ pc[c] # "idle" => at[c] >= 1
    /\ \A s \in Services : s > at[c] => seen[c][s] = Unseen
    /\ pc[c] \in {"wire", "logid"} => seen[c][at[c]] = Unseen
    /\ pc[c] = "send" => at[c] < Hops
    /\ \A s \in Services : seen[c][s] # Unseen => seen[c][s].log # None

\* The id the caller of call c's current service logged, if it was served there.
FromCaller(c, id) ==
    at[c] > 1 /\ seen[c][at[c] - 1] # Unseen => id = seen[c][at[c] - 1].log

\* What headers and context carry, point by point.
Carried(c) ==
    /\ pc[c] = "wire" =>
          /\ FromCaller(c, wire[c].xid)
          /\ wire[c].parent # None => FromCaller(c, wire[c].parent)
          /\ wire[c].parent = None => Untraced(at[c])
    /\ pc[c] = "logid" =>
          /\ FromCaller(c, wire[c].xid)
          /\ ctx[c].span # None =>
                FromCaller(c, ctx[c].span) \/ (otel[at[c]] /\ Untraced(at[c]))
          /\ ctx[c].span = None => Untraced(at[c] + 1)
    /\ pc[c] = "handler" =>
          /\ seen[c][at[c]] # Unseen =>
                /\ FromContext(ctx[c]) = seen[c][at[c]].log
                /\ ctx[c].span = None => ~ otel[at[c]]
          /\ ctx[c].span = None => Untraced(at[c])
    /\ pc[c] = "send" =>
          /\ seen[c][at[c]] # Unseen => FromContext(ctx[c]) = seen[c][at[c]].log
          /\ wire[c].parent = ctx[c].span
          /\ ctx[c].span = None => Untraced(at[c] + 1)

\* TraceContinues for one call.
Continues(c) ==
    \A s \in Services :
        s > 1 /\ Served(c, s) /\ Served(c, s - 1) =>
            \/ seen[c][s].log = seen[c][s - 1].log
            \/ otel[s] /\ Untraced(s)

\* The ids a call has used or may still use.
Ids(c) == {wire[c].xid, wire[c].parent, ctx[c].id, ctx[c].span}
              \cup {seen[c][s].log : s \in Services}

\* Generated ids are counted, and no two calls share one.
Owned ==
    /\ \A c \in Call : \A x \in Ids(c) : x <= fresh
    /\ \A c, d \in Call : c # d => \A x \in Ids(c) : x \in Ids(d) => x <= None

Coherent(c) == Placed(c) /\ Carried(c) /\ Continues(c)

IInv == Typed /\ Owned /\ \A c \in Call : Coherent(c)

-----------------------------------------------------------------------------
\* Only call c moves.
Alone(c) ==
    /\ otel' = otel
    /\ \A d \in Call : d # c => /\ at'[d] = at[d] /\ pc'[d] = pc[d] /\ wire'[d] = wire[d]
                                /\ ctx'[d] = ctx[d] /\ seen'[d] = seen[d]

\* What does not move stays coherent.
LEMMA Still ==
    ASSUME NEW d \in Call, Coherent(d), otel' = otel, at'[d] = at[d], pc'[d] = pc[d],
           wire'[d] = wire[d], ctx'[d] = ctx[d], seen'[d] = seen[d]
    PROVE  Coherent(d)'
<1>1. Placed(d)'
  BY DEF Coherent, Placed
<1>2. Carried(d)'
  BY DEF Coherent, Carried, FromCaller, Untraced
<1>3. Continues(d)'
  BY DEF Coherent, Continues, Served, Untraced
<1> QED BY <1>1, <1>2, <1>3 DEF Coherent

\* A step of call c keeps the invariant if it leaves c coherent and any new id
\* c uses is either the client's or the one generated in the step.
LEMMA StepOf ==
    ASSUME IInv, NEW c \in Call, Typed', Alone(c), Coherent(c)',
           fresh' \in {fresh, fresh + 1},
           \A x \in Ids(c)' : x \in Ids(c) \/ x <= None \/ (x = fresh + 1 /\ fresh' = fresh + 1)
    PROVE  IInv'
<1>1. \A d \in Call : Coherent(d)'
  BY Still DEF IInv, Alone
<1>2. \A d \in Call : d # c => Ids(d)' = Ids(d)
  BY DEF Alone, Ids
<1>3. fresh \in Nat /\ \A d \in Call : \A x \in Ids(d) : x \in Int
  <2> SUFFICES ASSUME NEW d \in Call, NEW x \in Ids(d) PROVE fresh \in Nat /\ x \in Int
    BY DEF IInv, Typed
  <2> QED BY DEF IInv, Typed, Ids
<1>4. /\ \A d \in Call : \A x \in Ids(d) : x <= fresh
      /\ \A d, e \in Call : d # e => \A x \in Ids(d) : x \in Ids(e) => x <= None
  BY DEF IInv, Owned
<1>5. \A x \in Ids(c)' : x \in Int
  BY DEF Typed, Ids
<1>6. \A d \in Call : \A x \in Ids(d)' : x <= fresh'
  <2> SUFFICES ASSUME NEW d \in Call, NEW x \in Ids(d)' PROVE x <= fresh'
    OBVIOUS
  <2>1. CASE d # c
    BY <2>1, <1>2, <1>3, <1>4
  <2>2. CASE d = c
    BY <2>2, <1>3, <1>4, <1>5 DEF None
  <2> QED BY <2>1, <2>2
<1>7. \A d \in Call : d # c => \A x \in Ids(c)' : x \in Ids(d)' => x <= None
  <2> SUFFICES ASSUME NEW d \in Call, d # c, NEW x \in Ids(c)', x \in Ids(d)'
               PROVE  x <= None
    OBVIOUS
  <2>1. x \in Ids(d)
    BY <1>2
  <2>2. x # fresh + 1
    BY <2>1, <1>3, <1>4
  <2> QED BY <2>1, <2>2, <1>4
<1>8. \A d, e \in Call : d # e => \A x \in Ids(d)' : x \in Ids(e)' => x <= None
  <2> SUFFICES ASSUME NEW d \in Call, NEW e \in Call, d # e, NEW x \in Ids(d)', x \in Ids(e)'
               PROVE  x <= None
    OBVIOUS
  <2>1. CASE d = c
    BY <2>1, <1>7
  <2>2. CASE e = c
    BY <2>2, <1>7
  <2>3. CASE d # c /\ e # c
    BY <2>3, <1>2, <1>4
  <2> QED BY <2>1, <2>2, <2>3
<1> QED BY <1>1, <1>6, <1>8 DEF IInv, Owned

\* Services and their numbers.
LEMMA Numbers ==
    /\ Hops \in Nat \ {0} /\ 1 \in Services /\ 1 \in 0 .. Hops /\ None = 0
    /\ \A s \in Services : s \in Int /\ s >= 1 /\ s <= Hops
    /\ \A s \in 0 .. Hops : s \in Int /\ s >= 0 /\ s <= Hops
    /\ \A s \in Int : s >= 1 /\ s <= Hops => s \in Services
BY HopsAssumption DEF Services, None

\* Before the first call everything is in order.
LEMMA InitInv == Init => IInv
<1> SUFFICES ASSUME Init PROVE IInv
  OBVIOUS
<1>1. Typed
  BY Numbers DEF Init, Typed, Bare, Unseen
<1>2. ASSUME NEW c \in Call PROVE Coherent(c) /\ Ids(c) = {None}
  <2>1. /\ at[c] = 0 /\ pc[c] = "idle" /\ wire[c] = [xid |-> None, parent |-> None]
        /\ ctx[c] = Bare /\ \A s \in Services : seen[c][s] = Unseen
    BY DEF Init
  <2>2. Placed(c) /\ Carried(c) /\ Continues(c)
    BY <2>1, Numbers DEF Placed, Carried, Continues, Served
  <2>3. Ids(c) = {None}
    BY <2>1, Numbers DEF Ids, Bare, Unseen
  <2> QED BY <2>2, <2>3 DEF Coherent
<1>3. Owned
  BY <1>2 DEF Owned, Init, None
<1> QED BY <1>1, <1>2, <1>3 DEF IInv

\* A client's call arrives with ids of its own or none.
LEMMA ClientCallsInv ==
    ASSUME IInv, NEW c \in Call, NEW xid \in Given, NEW parent \in Given,
           ClientCalls(c, xid, parent)
    PROVE  IInv'
<1>0. Typed /\ Placed(c) /\ Continues(c)
  BY DEF IInv, Coherent
<1>1. xid \in Int /\ xid <= None /\ parent \in Int /\ parent <= None
  BY GivenAssumption
<1>2. /\ pc[c] = "idle" /\ at' = [at EXCEPT ![c] = 1] /\ pc' = [pc EXCEPT ![c] = "wire"]
      /\ wire' = [wire EXCEPT ![c] = [xid |-> xid, parent |-> parent]]
      /\ otel' = otel /\ ctx' = ctx /\ seen' = seen /\ fresh' = fresh
  BY DEF ClientCalls
<1>3. Typed'
  BY <1>0, <1>1, <1>2, Numbers DEF Typed
<1>4. /\ at'[c] = 1 /\ pc'[c] = "wire" /\ wire'[c] = [xid |-> xid, parent |-> parent] /\ Alone(c)
  BY <1>0, <1>2 DEF Typed, Alone
<1>5. \A s \in Services : seen[c][s] = Unseen
  BY <1>0, <1>2, Numbers DEF Placed
<1>6. Placed(c)'
  BY <1>2, <1>4, <1>5, Numbers DEF Placed
<1>7. Carried(c)'
  BY <1>2, <1>4, Numbers DEF Carried, FromCaller, Untraced
<1>8. Continues(c)'
  BY <1>2, <1>5 DEF Continues, Served
<1>9. \A x \in Ids(c)' : x \in Ids(c) \/ x <= None
  BY <1>1, <1>2, <1>4, Numbers DEF Ids
<1> QED BY <1>2, <1>3, <1>4, <1>6, <1>7, <1>8, <1>9, StepOf DEF Coherent

\* A background job has a bare context.
LEMMA JobStartsInv ==
    ASSUME IInv, NEW c \in Call, JobStarts(c)
    PROVE  IInv'
<1>0. Typed /\ Placed(c) /\ Continues(c)
  BY DEF IInv, Coherent
<1>2. /\ pc[c] = "idle" /\ at' = [at EXCEPT ![c] = 1] /\ pc' = [pc EXCEPT ![c] = "handler"]
      /\ otel' = otel /\ wire' = wire /\ ctx' = ctx /\ seen' = seen /\ fresh' = fresh
  BY DEF JobStarts
<1>3. Typed'
  BY <1>0, <1>2, Numbers DEF Typed
<1>4. at'[c] = 1 /\ pc'[c] = "handler" /\ Alone(c)
  BY <1>0, <1>2 DEF Typed, Alone
<1>5. ctx[c] = Bare /\ \A s \in Services : seen[c][s] = Unseen
  BY <1>0, <1>2, Numbers DEF Placed
<1>6. Placed(c)'
  BY <1>2, <1>4, <1>5, Numbers DEF Placed
<1>7. Carried(c)'
  BY <1>2, <1>4, <1>5, Numbers DEF Carried, Untraced
<1>8. Continues(c)'
  BY <1>2, <1>5 DEF Continues, Served
<1>9. Ids(c)' = Ids(c)
  BY <1>2 DEF Ids
<1> QED BY <1>2, <1>3, <1>4, <1>6, <1>7, <1>8, <1>9, StepOf DEF Coherent

\* The end of a call changes nothing it carries.
LEMMA FinishInv ==
    ASSUME IInv, NEW c \in Call, Finish(c)
    PROVE  IInv'
<1>0. Typed /\ Placed(c) /\ Continues(c)
  BY DEF IInv, Coherent
<1>2. /\ pc[c] = "handler" /\ pc' = [pc EXCEPT ![c] = "done"]
      /\ at' = at /\ otel' = otel /\ wire' = wire /\ ctx' = ctx /\ seen' = seen /\ fresh' = fresh
  BY DEF Finish
<1>3. Typed'
  BY <1>0, <1>2 DEF Typed
<1>4. pc'[c] = "done" /\ Alone(c)
  BY <1>0, <1>2 DEF Typed, Alone
<1>6. Placed(c)'
  BY <1>0, <1>2, <1>4 DEF Placed
<1>7. Carried(c)'
  BY <1>4 DEF Carried
<1>8. Continues(c)'
  BY <1>0, <1>2 DEF Continues, Served, Untraced
<1>9. Ids(c)' = Ids(c)
  BY <1>2 DEF Ids
<1> QED BY <1>2, <1>3, <1>4, <1>6, <1>7, <1>8, <1>9, StepOf DEF Coherent

\* What a tracing middleware goes on with, and the ids it generates.
LEMMA TracedFacts ==
    ASSUME Typed, NEW span \in Int, NEW s \in Services
    PROVE  /\ Traced(span, s)[1] \in Int /\ fresh + Traced(span, s)[2] \in {fresh, fresh + 1}
           /\ \/ Traced(span, s)[1] = span /\ (span = None => ~ otel[s])
                                           /\ fresh + Traced(span, s)[2] = fresh
              \/ /\ span = None /\ otel[s] /\ Traced(span, s)[1] = fresh + 1
                 /\ fresh + Traced(span, s)[2] = fresh + 1
BY DEF Typed, Traced

\* tracing.Server goes on with the caller's trace, or begins one if there is
\* none and the service has OpenTelemetry.
LEMMA TracingServerInv ==
    ASSUME IInv, NEW c \in Call, TracingServer(c)
    PROVE  IInv'
<1> DEFINE t == Traced(wire[c].parent, at[c])
<1>0. Typed /\ Placed(c) /\ Carried(c) /\ Continues(c)
  BY DEF IInv, Coherent
<1>1. /\ pc[c] = "wire" /\ ctx' = [ctx EXCEPT ![c] = [id |-> None, span |-> t[1]]]
      /\ fresh' = fresh + t[2] /\ pc' = [pc EXCEPT ![c] = "logid"]
      /\ otel' = otel /\ at' = at /\ wire' = wire /\ seen' = seen
  BY DEF TracingServer
<1>2. wire[c].parent \in Int /\ at[c] \in Services /\ at[c] \in Int /\ fresh \in Nat
  BY <1>0, <1>1, Numbers DEF Typed, Placed
<1>3. /\ t[1] \in Int /\ fresh' \in {fresh, fresh + 1}
      /\ \/ t[1] = wire[c].parent /\ (wire[c].parent = None => ~ otel[at[c]]) /\ fresh' = fresh
         \/ wire[c].parent = None /\ otel[at[c]] /\ t[1] = fresh + 1 /\ fresh' = fresh + 1
  BY <1>0, <1>1, <1>2, TracedFacts
<1>11. PICK u \in Int : u = t[1]
  BY <1>3
<1>10. /\ pc[c] = "wire" /\ ctx' = [ctx EXCEPT ![c] = [id |-> None, span |-> u]]
       /\ pc' = [pc EXCEPT ![c] = "logid"]
       /\ otel' = otel /\ at' = at /\ wire' = wire /\ seen' = seen
  BY <1>1, <1>11
<1>12. /\ fresh' \in {fresh, fresh + 1}
       /\ \/ u = wire[c].parent /\ (wire[c].parent = None => ~ otel[at[c]]) /\ fresh' = fresh
          \/ wire[c].parent = None /\ otel[at[c]] /\ u = fresh + 1 /\ fresh' = fresh + 1
  BY <1>3, <1>11
<1> HIDE DEF t
<1>4. Typed'
  <2>1. [id |-> None, span |-> u] \in [id : Int, span : Int] /\ fresh' \in Nat
    BY <1>2, <1>12, Numbers
  <2> QED BY <1>0, <1>10, <2>1 DEF Typed
<1>5. pc'[c] = "logid" /\ ctx'[c] = [id |-> None, span |-> u] /\ Alone(c)
  BY <1>0, <1>10 DEF Typed, Alone
<1>6. Placed(c)'
  BY <1>0, <1>10, <1>5 DEF Placed
<1>7. Carried(c)'
  <2>1. /\ FromCaller(c, wire[c].xid)
        /\ wire[c].parent # None => FromCaller(c, wire[c].parent)
        /\ wire[c].parent = None => Untraced(at[c])
    BY <1>0, <1>1 DEF Carried
  <2>2. u = None => wire[c].parent = None /\ ~ otel[at[c]]
    BY <1>2, <1>12, Numbers
  <2>3. u = None => Untraced(at[c] + 1)
    BY <2>1, <2>2, <1>2, Numbers DEF Untraced
  <2>4. u # None => FromCaller(c, u) \/ (otel[at[c]] /\ Untraced(at[c]))
    BY <2>1, <1>12
  <2>5. /\ FromCaller(c, wire[c].xid)'
        /\ u # None => FromCaller(c, u)' \/ (otel[at[c]] /\ Untraced(at[c]))'
        /\ u = None => Untraced(at[c] + 1)'
    <3>1. FromCaller(c, wire[c].xid)'
      BY <2>1, <1>1 DEF FromCaller
    <3>2. u # None => FromCaller(c, u)' \/ (otel[at[c]] /\ Untraced(at[c]))'
      BY <2>4, <1>1 DEF FromCaller, Untraced
    <3>3. u = None => Untraced(at[c] + 1)'
      BY <2>3, <1>1 DEF Untraced
    <3> QED BY <3>1, <3>2, <3>3
  <2> QED BY <2>5, <1>10, <1>5 DEF Carried, FromCaller
<1>8. Continues(c)'
  BY <1>0, <1>1 DEF Continues, Served, Untraced
<1>9. \A x \in Ids(c)' : x \in Ids(c) \/ x <= None \/ (x = fresh + 1 /\ fresh' = fresh + 1)
  BY <1>10, <1>12, <1>5, Numbers DEF Ids
<1> QED BY <1>12, <1>4, <1>5, <1>6, <1>7, <1>8, <1>9, StepOf DEF Coherent

\* logid.Server takes the header's id or a new one; what the service logs is
\* its caller's id unless it began the trace.
LEMMA LogidServerInv ==
    ASSUME IInv, NEW c \in Call, LogidServer(c)
    PROVE  IInv'
<1> DEFINE new == wire[c].xid = None
<1> DEFINE i == IF new THEN fresh + 1 ELSE wire[c].xid
<1> DEFINE x0 == [id |-> i, span |-> ctx[c].span]
<1> DEFINE s0 == [log |-> FromContext(x0), reply |-> i]
<1> DEFINE a == at[c]
<1>0. Typed /\ Placed(c) /\ Carried(c) /\ Continues(c)
  BY DEF IInv, Coherent
<1>1. /\ pc[c] = "logid" /\ ctx' = [ctx EXCEPT ![c].id = i]
      /\ fresh' = IF new THEN fresh + 1 ELSE fresh
      /\ seen' = [seen EXCEPT ![c][a] = [log |-> FromContext(ctx'[c]), reply |-> i]]
      /\ pc' = [pc EXCEPT ![c] = "handler"]
      /\ otel' = otel /\ at' = at /\ wire' = wire
  BY DEF LogidServer
<1>2. /\ wire[c].xid \in Int /\ ctx[c].span \in Int /\ a \in Services /\ a \in Int /\ a >= 1
      /\ fresh \in Nat
  BY <1>0, <1>1, Numbers DEF Typed, Placed
<1>3. i \in Int /\ i # None /\ fresh' \in {fresh, fresh + 1} /\ fresh' \in Nat
  BY <1>1, <1>2, Numbers
<1>4. ctx'[c] = x0
  <2>1. ctx[c] \in [id : Int, span : Int] /\ ctx'[c] = [ctx[c] EXCEPT !.id = i]
    BY <1>0, <1>1 DEF Typed
  <2> QED BY <2>1
<1>5. /\ pc'[c] = "handler" /\ seen'[c] = [seen[c] EXCEPT ![a] = s0] /\ Alone(c)
      /\ seen' = [seen EXCEPT ![c] = [seen[c] EXCEPT ![a] = s0]]
      /\ ctx' = [ctx EXCEPT ![c] = x0]
  <2>1. seen' = [seen EXCEPT ![c] = [seen[c] EXCEPT ![a] = s0]]
    BY <1>0, <1>1, <1>4 DEF Typed
  <2>2. ctx' = [ctx EXCEPT ![c] = x0]
    BY <1>0, <1>1, <1>4 DEF Typed
  <2> HIDE DEF s0, x0, i, new
  <2> QED BY <2>1, <2>2, <1>0, <1>1 DEF Typed, Alone
<1>6. /\ s0.log = FromContext(x0) /\ x0.span = ctx[c].span /\ x0.id = i
      /\ s0 \in [log : Int, reply : Int] /\ x0 \in [id : Int, span : Int]
      /\ s0.log # None /\ s0 # Unseen
      /\ s0.log = IF ctx[c].span # None THEN ctx[c].span ELSE i
  BY <1>2, <1>3 DEF FromContext, Unseen
<1>7. /\ i = wire[c].xid \/ (wire[c].xid = None /\ i = fresh + 1 /\ fresh' = fresh + 1)
      /\ wire[c].xid # None => i = wire[c].xid
  BY <1>1
<1> HIDE DEF s0, x0, i, new
<1>8. /\ seen'[c][a] = s0 /\ \A s \in Services : s # a => seen'[c][s] = seen[c][s]
      /\ seen[c] \in [Services -> [log : Int, reply : Int]]
  BY <1>0, <1>2, <1>5 DEF Typed
<1>9. Typed'
  <2>1. [seen[c] EXCEPT ![a] = s0] \in [Services -> [log : Int, reply : Int]]
    BY <1>6, <1>8
  <2>2. seen' \in [Call -> [Services -> [log : Int, reply : Int]]]
    BY <2>1, <1>0, <1>5 DEF Typed
  <2>3. ctx' \in [Call -> [id : Int, span : Int]]
    BY <1>0, <1>5, <1>6 DEF Typed
  <2>4. pc' \in [Call -> {"idle", "wire", "logid", "handler", "send", "done"}]
    BY <1>0, <1>1 DEF Typed
  <2> QED BY <2>2, <2>3, <2>4, <1>0, <1>1, <1>3 DEF Typed
<1>10. Placed(c)'
  BY <1>0, <1>1, <1>2, <1>5, <1>6, <1>8, Numbers DEF Placed
<1>11. /\ FromCaller(c, wire[c].xid)
       /\ ctx[c].span # None => FromCaller(c, ctx[c].span) \/ (otel[a] /\ Untraced(a))
       /\ ctx[c].span = None => Untraced(a + 1)
  BY <1>0, <1>1 DEF Carried
<1>12. ctx[c].span = None => ~ otel[a] /\ Untraced(a)
  BY <1>11, <1>2, Numbers DEF Untraced
<1>13. Carried(c)'
  BY <1>1, <1>4, <1>5, <1>6, <1>8, <1>12 DEF Carried, Untraced
<1>14. Continues(c)'
  <2> SUFFICES ASSUME NEW s \in Services, s > 1, seen'[c][s] # Unseen, seen'[c][s - 1] # Unseen
               PROVE  seen'[c][s].log = seen'[c][s - 1].log \/ (otel[s] /\ Untraced(s))
    BY <1>1 DEF Continues, Served, Untraced
  <2>1. s \in Int /\ s - 1 \in Services
    BY Numbers
  <2>2. CASE s = a
    <3>1. seen[c][a - 1] # Unseen /\ seen'[c][a - 1] = seen[c][a - 1] /\ a > 1
      BY <2>1, <2>2, <1>8, <1>2
    <3>2. seen[c][a - 1].log # None
      BY <3>1, <2>1, <2>2, <1>0 DEF Placed
    <3>3. wire[c].xid = seen[c][a - 1].log /\ i = wire[c].xid
      BY <3>1, <3>2, <1>7, <1>11 DEF FromCaller
    <3>4. CASE ctx[c].span = None
      BY <3>1, <3>3, <3>4, <2>2, <1>6, <1>8
    <3>5. CASE ctx[c].span # None
      BY <3>1, <3>5, <2>2, <1>6, <1>8, <1>11 DEF FromCaller
    <3> QED BY <3>4, <3>5
  <2>3. CASE s # a
    <3>1. s <= a /\ s - 1 # a
      BY <2>1, <2>3, <1>0, <1>2, <1>8, Numbers DEF Placed
    <3> QED BY <2>1, <2>3, <3>1, <1>0, <1>8 DEF Continues, Served
  <2> QED BY <2>2, <2>3
<1>15. \A x \in Ids(c)' : x \in Ids(c) \/ x <= None \/ (x = fresh + 1 /\ fresh' = fresh + 1)
  <2> SUFFICES ASSUME NEW x \in Ids(c)'
               PROVE  x \in Ids(c) \/ (x = fresh + 1 /\ fresh' = fresh + 1)
    OBVIOUS
  <2>1. \/ x \in {wire[c].xid, wire[c].parent, i, ctx[c].span}
        \/ \E s \in Services : x = seen'[c][s].log
    BY <1>1, <1>4, <1>6 DEF Ids
  <2>2. i \in Ids(c) \/ (i = fresh + 1 /\ fresh' = fresh + 1)
    BY <1>7 DEF Ids
  <2>3. ASSUME NEW s \in Services, x = seen'[c][s].log
        PROVE  x \in Ids(c) \/ x = i
    BY <2>3, <1>6, <1>8 DEF Ids
  <2> QED BY <2>1, <2>2, <2>3 DEF Ids
<1> QED BY <1>3, <1>5, <1>9, <1>10, <1>13, <1>14, <1>15, StepOf DEF Coherent

\* tracing.Client sends the context's trace on, or begins one for a job.
LEMMA TracingClientInv ==
    ASSUME IInv, NEW c \in Call, TracingClient(c)
    PROVE  IInv'
<1> DEFINE t == Traced(ctx[c].span, at[c])
<1>0. Typed /\ Placed(c) /\ Carried(c) /\ Continues(c)
  BY DEF IInv, Coherent
<1>1. /\ pc[c] = "handler" /\ at[c] < Hops /\ ctx' = [ctx EXCEPT ![c].span = t[1]]
      /\ wire' = [wire EXCEPT ![c] = [xid |-> None, parent |-> t[1]]]
      /\ fresh' = fresh + t[2] /\ pc' = [pc EXCEPT ![c] = "send"]
      /\ otel' = otel /\ at' = at /\ seen' = seen
  BY DEF TracingClient
<1>2. /\ ctx[c].span \in Int /\ ctx[c].id \in Int /\ ctx[c] \in [id : Int, span : Int]
      /\ at[c] \in Services /\ at[c] \in Int /\ fresh \in Nat
  BY <1>0, <1>1, Numbers DEF Typed, Placed
<1>3. /\ t[1] \in Int /\ fresh' \in {fresh, fresh + 1}
      /\ \/ t[1] = ctx[c].span /\ (ctx[c].span = None => ~ otel[at[c]]) /\ fresh' = fresh
         \/ ctx[c].span = None /\ otel[at[c]] /\ t[1] = fresh + 1 /\ fresh' = fresh + 1
  BY <1>0, <1>1, <1>2, TracedFacts
<1>4. PICK u \in Int : u = t[1]
  BY <1>3
<1>5. PICK x0 \in [id : Int, span : Int] : x0 = [id |-> ctx[c].id, span |-> u]
  BY <1>2
<1>6. ctx'[c] = x0 /\ ctx' = [ctx EXCEPT ![c] = x0]
  <2>1. ctx' = [ctx EXCEPT ![c] = [ctx[c] EXCEPT !.span = u]]
    BY <1>1, <1>4
  <2>2. [ctx[c] EXCEPT !.span = u] = x0
    BY <1>2, <1>5
  <2> QED BY <2>1, <2>2, <1>0 DEF Typed
<1>7. /\ wire' = [wire EXCEPT ![c] = [xid |-> None, parent |-> u]]
      /\ pc' = [pc EXCEPT ![c] = "send"] /\ otel' = otel /\ at' = at /\ seen' = seen
  BY <1>1, <1>4
<1>8. \/ u = ctx[c].span /\ (ctx[c].span = None => ~ otel[at[c]]) /\ fresh' = fresh
      \/ ctx[c].span = None /\ otel[at[c]] /\ u = fresh + 1 /\ fresh' = fresh + 1
  BY <1>3, <1>4
<1> HIDE DEF t
<1>9. pc'[c] = "send" /\ wire'[c] = [xid |-> None, parent |-> u] /\ Alone(c)
  BY <1>0, <1>6, <1>7 DEF Typed, Alone
<1>10. Typed'
  <2>1. wire' \in [Call -> [xid : Int, parent : Int]] /\ ctx' \in [Call -> [id : Int, span : Int]]
    BY <1>0, <1>6, <1>7, Numbers DEF Typed
  <2>2. fresh' \in Nat
    BY <1>2, <1>3
  <2> QED BY <2>1, <2>2, <1>0, <1>7 DEF Typed
<1>11. Placed(c)'
  BY <1>0, <1>1, <1>7, <1>9 DEF Placed
<1>12. /\ seen[c][at[c]] # Unseen => /\ FromContext(ctx[c]) = seen[c][at[c]].log
                                     /\ ctx[c].span = None => ~ otel[at[c]]
       /\ ctx[c].span = None => Untraced(at[c])
  BY <1>0, <1>1 DEF Carried
<1>13. Carried(c)'
  <2>1. seen[c][at[c]] # Unseen => FromContext(x0) = seen[c][at[c]].log
    <3>1. CASE u = ctx[c].span
      BY <3>1, <1>5, <1>12 DEF FromContext
    <3>2. CASE u # ctx[c].span
      BY <3>2, <1>8, <1>12
    <3> QED BY <3>1, <3>2
  <2>2. u = None => Untraced(at[c] + 1)
    <3>1. u = None => ctx[c].span = None /\ ~ otel[at[c]]
      BY <1>2, <1>8, Numbers
    <3> QED BY <3>1, <1>12, <1>2, Numbers DEF Untraced
  <2>3. x0.span = u
    BY <1>5
  <2> QED BY <2>1, <2>2, <2>3, <1>6, <1>7, <1>9 DEF Carried, Untraced
<1>14. Continues(c)'
  BY <1>0, <1>7 DEF Continues, Served, Untraced
<1>15. \A x \in Ids(c)' : x \in Ids(c) \/ x <= None \/ (x = fresh + 1 /\ fresh' = fresh + 1)
  <2>1. x0.span = u /\ x0.id = ctx[c].id
    BY <1>5
  <2> QED BY <2>1, <1>6, <1>7, <1>8, <1>9, Numbers DEF Ids
<1> QED BY <1>3, <1>9, <1>10, <1>11, <1>13, <1>14, <1>15, StepOf DEF Coherent

\* logid.Client sends what the service logs.
LEMMA LogidClientInv ==
    ASSUME IInv, NEW c \in Call, LogidClient(c)
    PROVE  IInv'
<1> DEFINE a == at[c]
<1>0. Typed /\ Placed(c) /\ Carried(c) /\ Continues(c)
  BY DEF IInv, Coherent
<1>1. /\ pc[c] = "send" /\ wire' = [wire EXCEPT ![c].xid = FromContext(ctx[c])]
      /\ at' = [at EXCEPT ![c] = a + 1] /\ pc' = [pc EXCEPT ![c] = "wire"]
      /\ ctx' = [ctx EXCEPT ![c] = Bare] /\ otel' = otel /\ seen' = seen /\ fresh' = fresh
  BY DEF LogidClient
<1>2. /\ wire[c] \in [xid : Int, parent : Int] /\ ctx[c] \in [id : Int, span : Int]
      /\ a \in Services /\ a \in Int /\ a + 1 \in Services /\ a + 1 \in 0 .. Hops
  BY <1>0, <1>1, Numbers DEF Typed, Placed
<1>3. PICK i \in Int : i = FromContext(ctx[c])
  BY <1>2 DEF FromContext
<1>4. PICK w \in [xid : Int, parent : Int] : w = [xid |-> i, parent |-> wire[c].parent]
  BY <1>2
<1>5. wire' = [wire EXCEPT ![c] = w] /\ wire'[c] = w
  <2>1. wire' = [wire EXCEPT ![c] = [wire[c] EXCEPT !.xid = i]]
    BY <1>1, <1>3
  <2>2. [wire[c] EXCEPT !.xid = i] = w
    BY <1>2, <1>4
  <2> QED BY <2>1, <2>2, <1>0 DEF Typed
<1>6. at'[c] = a + 1 /\ pc'[c] = "wire" /\ ctx'[c] = Bare /\ Alone(c)
  BY <1>0, <1>1, <1>5 DEF Typed, Alone
<1>7. Typed'
  <2>1. Bare \in [id : Int, span : Int]
    BY Numbers DEF Bare
  <2> QED BY <2>1, <1>0, <1>1, <1>2, <1>5 DEF Typed
<1>8. Placed(c)'
  <2>1. \A s \in Services : s > a + 1 => s > a
    BY <1>2, Numbers
  <2>2. a + 1 > a /\ a + 1 >= 1
    BY <1>2, Numbers
  <2> QED BY <2>1, <2>2, <1>0, <1>1, <1>2, <1>6 DEF Placed
<1>9. /\ seen[c][a] # Unseen => i = seen[c][a].log
      /\ wire[c].parent = ctx[c].span
      /\ ctx[c].span = None => Untraced(a + 1)
  BY <1>0, <1>1, <1>3 DEF Carried
<1>10. Carried(c)'
  <2>1. ctx[c].span # None => i = ctx[c].span
    BY <1>3 DEF FromContext
  <2>2. (a + 1) - 1 = a
    BY <1>2
  <2>3. w.xid = i /\ w.parent = ctx[c].span
    BY <1>4, <1>9
  <2> QED BY <2>1, <2>2, <2>3, <1>1, <1>5, <1>6, <1>9 DEF Carried, FromCaller, Untraced
<1>11. Continues(c)'
  BY <1>0, <1>1 DEF Continues, Served, Untraced
<1>12. \A x \in Ids(c)' : x \in Ids(c) \/ x <= None
  <2>1. i \in {ctx[c].span, ctx[c].id}
    BY <1>3 DEF FromContext
  <2>2. w.xid = i /\ w.parent = wire[c].parent /\ Bare.id = None /\ Bare.span = None
    BY <1>4 DEF Bare
  <2> QED BY <2>1, <2>2, <1>1, <1>5, <1>6, Numbers DEF Ids
<1> QED BY <1>1, <1>6, <1>7, <1>8, <1>10, <1>11, <1>12, StepOf DEF Coherent

-----------------------------------------------------------------------------
\* The invariant holds throughout every execution.
THEOREM Invariance == Spec => []IInv
<1>1. Init => IInv
  BY InitInv
<1>2. IInv /\ [Next]_vars => IInv'
  <2> SUFFICES ASSUME IInv, [Next]_vars PROVE IInv'
    OBVIOUS
  <2>1. CASE Next
    BY <2>1, ClientCallsInv, JobStartsInv, TracingServerInv, LogidServerInv, TracingClientInv,
       LogidClientInv, FinishInv DEF Next
  <2>2. CASE UNCHANGED vars
    <3>1. Typed' /\ Owned'
      BY <2>2 DEF IInv, Typed, Owned, Ids, vars
    <3>2. \A d \in Call : Coherent(d)'
      BY <2>2, Still DEF IInv, vars
    <3> QED BY <3>1, <3>2 DEF IInv
  <2> QED BY <2>1, <2>2
<1> QED BY <1>1, <1>2, PTL DEF Spec

\* Whichever services have OpenTelemetry, a service logs the id its caller
\* logged, unless it is the first on the way that begins a trace.
THEOREM Continuity == Spec => []TraceContinues
<1>1. IInv => TraceContinues
  <2> SUFFICES ASSUME IInv, NEW c \in Call, NEW s \in Services,
                      s > 1, Served(c, s), Served(c, s - 1)
               PROVE  \/ seen[c][s].log = seen[c][s - 1].log
                      \/ otel[s] /\ \A r \in 1 .. s - 1 : ~ otel[r]
    BY DEF TraceContinues
  <2>1. seen[c][s].log = seen[c][s - 1].log \/ (otel[s] /\ Untraced(s))
    BY DEF IInv, Coherent, Continues
  <2>2. \A r \in 1 .. s - 1 : r \in Services /\ r < s
    BY Numbers
  <2> QED BY <2>1, <2>2 DEF Untraced
<1> QED BY <1>1, Invariance, PTL

\* Ids that were generated are never logged for two calls, in any two services.
THEOREM Distinct == Spec => []CallsDistinct
<1>1. IInv => CallsDistinct
  <2> SUFFICES ASSUME IInv, NEW c \in Call, NEW d \in Call, NEW s \in Services,
                      NEW r \in Services, c # d, Served(c, s), Served(d, r),
                      seen[c][s].log = seen[d][r].log
               PROVE  seen[c][s].log < None
    BY DEF CallsDistinct
  <2>1. seen[c][s].log \in Ids(c) /\ seen[c][s].log \in Ids(d)
    BY DEF Ids
  <2>2. seen[c][s].log <= None
    BY <2>1 DEF IInv, Owned
  <2>3. seen[c][s].log # None /\ seen[c][s].log \in Int
    BY DEF IInv, Typed, Coherent, Placed, Served
  <2> QED BY <2>2, <2>3, Numbers
<1> QED BY <1>1, Invariance, PTL

=============================================================================
