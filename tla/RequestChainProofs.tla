------------------------- MODULE RequestChainProofs -------------------------
(***************************************************************************)
(* Proofs about RequestChain for every set of requests and every chain     *)
(* that a server can be built with: the default chain and any `extra`.     *)
(*                                                                         *)
(* The properties speak of answered requests.  The invariant follows a     *)
(* request there: where its two goroutines can be (Shape), what became of  *)
(* the handler on the way (Outcome, Handover), who was let past auth       *)
(* (Clearance), what is counted at each point (Account) and what is        *)
(* written (Response).                                                     *)
(***************************************************************************)
EXTENDS RequestChain, SequenceTheorems, TLAPS

N == Len(Chain)

Goroutine == [at : 0 .. Inside, base : 0 .. N, code : Codes \cup {"none"},
              ph : {"idle", "in", "out", "panic", "select", "done"}]

Conn(r) == th[r]["conn"]
Work(r) == th[r]["work"]

\* A goroutine stays on its part of the chain, and the connection's goroutine
\* does not go on before it has the worker's result or the context is done.
Shape(r) ==
    /\ Conn(r).base = 0
    /\ Conn(r).ph = "idle" => Conn(r).at = 0 /\ Work(r).ph = "idle"
    /\ Conn(r).ph = "in" => Conn(r).at >= 1 /\ Work(r).ph = "idle"
    /\ Conn(r).ph = "out" => Conn(r).at <= N
    /\ Conn(r).ph = "panic" => Conn(r).at \in 1 .. N /\ Work(r).ph = "idle"
    /\ Conn(r).ph = "select" => Conn(r).at \in 6 .. N /\ Work(r).ph # "idle"
    /\ Work(r).ph # "select"
    /\ Work(r).ph # "idle" => Work(r).base \in 6 .. N /\ Chain[Work(r).base] = "timeout"
    /\ Work(r).ph = "in" => Work(r).at > Work(r).base
    /\ Work(r).ph \in {"out", "panic"} => Work(r).at \in Work(r).base .. N

\* The goroutine the handler runs in.
Carrier(r) == IF Work(r).ph = "idle" THEN Conn(r) ELSE Work(r)

\* The code is the handler's own, or a middleware's that did not call it.
Decided(r, code) ==
    \/ code \in {"ok", "HANDLER"} /\ ran[r] = code
    \/ code = "PANIC" /\ ran[r] = "panic"
    \/ code \in {"UNAUTHORIZED", "VALIDATOR", "RATE_LIMITED"} /\ ran[r] = "no"

\* What the carrier's direction says of the handler.
Outcome(r) ==
    /\ Carrier(r).ph = "idle" => ran[r] = "no"
    /\ Carrier(r).ph = "in" => ran[r] = "no" \/ (ran[r] = "running" /\ Carrier(r).at = Inside)
    /\ Carrier(r).ph = "panic" => ran[r] = "panic"
    /\ Carrier(r).ph \in {"out", "done"} => Decided(r, Carrier(r).code)

\* The channel holds the worker's result, and the connection's goroutine
\* returned that or gave up.
Handover(r) ==
    /\ ch[r] # <<>> => Work(r).ph = "done" /\ ch[r] = <<Work(r).code>>
    /\ Work(r).ph # "idle" /\ Conn(r).ph \in {"out", "done"} =>
          \/ Conn(r).code = "DEADLINE_EXCEEDED" /\ CtxDone(r)
          \/ Work(r).ph = "done" /\ Conn(r).code = Work(r).code

Cleared(r) == req[r].op \in AuthSkip \/ req[r].cred = "good"

\* Nobody is past auth, and no handler runs, unless auth let the request through.
Clearance(r) ==
    \A j \in 1 .. N : Chain[j] = "auth" =>
        /\ \A g \in Gor : th[r][g].ph = "in" /\ th[r][g].at > j => Cleared(r)
        /\ ran[r] # "no" => Cleared(r)

Uncounted(r) == counts[r] = <<>> /\ lines[r] = <<>> /\ panics[r] = 0

\* One line and one count under the code, or one panic.
Settled(r) ==
    \/ counts[r] = <<Conn(r).code>> /\ lines[r] = <<Conn(r).code>> /\ panics[r] = 0
    \/ counts[r] = <<>> /\ lines[r] = <<>> /\ panics[r] = 1 /\ Conn(r).code = "PANIC"

\* On the way out metric counts at position 5 and access logs at position 4.
Account(r) ==
    /\ Conn(r).ph \in {"idle", "in", "select", "panic"} => Uncounted(r)
    /\ Conn(r).ph = "out" /\ Conn(r).at >= 5 => Uncounted(r)
    /\ Conn(r).ph = "out" /\ Conn(r).at = 4 =>
          counts[r] = <<Conn(r).code>> /\ lines[r] = <<>> /\ panics[r] = 0
    /\ Conn(r).ph = "out" /\ Conn(r).at \in 1 .. 3 =>
          counts[r] = <<Conn(r).code>> /\ lines[r] = <<Conn(r).code>> /\ panics[r] = 0
    /\ Conn(r).ph = "out" /\ Conn(r).at = 0 => Settled(r)
    /\ Conn(r).ph = "done" => Settled(r)

\* Only a handler that ran has written, and an error has been written by the end.
Response(r) ==
    /\ Conn(r).ph = "idle" => sent[r] = <<>>
    /\ req[r].kind = "http" => ran[r] # "HANDLER"
    /\ req[r].kind # "http" =>
          sent[r] = IF Conn(r).ph = "done" THEN <<Conn(r).code>> ELSE <<>>
    /\ Wrote(r) => ran[r] # "no"
    /\ Conn(r).ph = "done" /\ Conn(r).code # "ok" => sent[r] # <<>>
    /\ Conn(r).ph \in {"out", "done"} => Conn(r).code \in Codes
    /\ Work(r).ph \in {"out", "done"} => Work(r).code \in Codes

ReqInv(r) ==
    /\ Shape(r) /\ Outcome(r) /\ Handover(r)
    /\ Clearance(r) /\ Account(r) /\ Response(r)

IInv == TypeOK /\ \A r \in Request : ReqInv(r)

-----------------------------------------------------------------------------
(* The chain.                                                              *)

\* The default chain is in front, with recovery first, and only the caller's
\* middlewares are behind it.
LEMMA ChainFacts ==
    /\ N \in Nat /\ N >= 5 /\ Inside = N + 1 /\ Len(Chain) = N
    /\ Chain[1] = "recovery" /\ Chain[2] = "tracing" /\ Chain[3] = "logid"
    /\ Chain[4] = "access" /\ Chain[5] = "metric"
    /\ \A i \in 6 .. N : Chain[i] \in {"auth", "ratelimit", "timeout"} /\ Chain[i] = Extra[i - 5]
    /\ N = 5 + Len(Extra)
    /\ \A i \in DOMAIN Extra : i + 5 \in 6 .. N /\ Chain[i + 5] = Extra[i]
<1>1. Extra \in Seq({"auth", "ratelimit", "timeout"})
  BY ExtraAssumption
<1> DEFINE Name == {"recovery", "tracing", "logid", "access", "metric",
                    "auth", "ratelimit", "timeout"}
<1>2. Len(DefaultChain) = 5 /\ DefaultChain \in Seq(Name)
  <2>1. Len(DefaultChain) = 5
    BY DEF DefaultChain
  <2>2. DefaultChain \in Seq(Name)
    BY DEF DefaultChain
  <2> QED BY <2>1, <2>2
<1>3. Extra \in Seq(Name)
  <2>1. Len(Extra) \in Nat /\ DOMAIN Extra = 1 .. Len(Extra)
    BY <1>1
  <2>2. \A i \in 1 .. Len(Extra) : Extra[i] \in Name
    BY <1>1
  <2>3. Extra = [i \in 1 .. Len(Extra) |-> Extra[i]]
    BY <1>1, <2>1
  <2> QED BY <2>1, <2>2, <2>3
<1> HIDE DEF Name
<1>c. /\ Len(Chain) = 5 + Len(Extra) /\ Len(Extra) \in Nat
      /\ \A i \in 1 .. 5 + Len(Extra) :
            Chain[i] = IF i <= 5 THEN DefaultChain[i] ELSE Extra[i - 5]
  <2>1. /\ Len(DefaultChain \o Extra) = Len(DefaultChain) + Len(Extra)
        /\ \A i \in 1 .. Len(DefaultChain) + Len(Extra) :
              (DefaultChain \o Extra)[i] =
                  IF i <= Len(DefaultChain) THEN DefaultChain[i] ELSE Extra[i - Len(DefaultChain)]
    BY <1>2, <1>3, ConcatProperties, Zenon
  <2>2. Len(Extra) \in Nat
    BY <1>1
  <2> QED BY <1>2, <2>1, <2>2, Zenon DEF Chain
<1>4. N = 5 + Len(Extra) /\ Len(Extra) \in Nat
  BY <1>c DEF N
<1>5. \A i \in 1 .. 5 : Chain[i] = DefaultChain[i]
  BY <1>c
<1>6. \A i \in 6 .. N : Chain[i] = Extra[i - 5] /\ i - 5 \in 1 .. Len(Extra)
  BY <1>c, <1>4
<1>7. \A i \in DOMAIN Extra : i + 5 \in 6 .. N /\ (i + 5) - 5 = i
  BY <1>1, <1>4
<1>8. \A i \in 6 .. N : Chain[i] \in {"auth", "ratelimit", "timeout"}
  BY <1>1, <1>6
<1>9. \A i \in DOMAIN Extra : Chain[i + 5] = Extra[i]
  BY <1>6, <1>7
<1> QED BY <1>4, <1>5, <1>6, <1>7, <1>8, <1>9 DEF N, Inside, DefaultChain

\* How much of the chain is the caller's.
LEMMA ExtraLength == N = 5 + Len(Extra) /\ Len(Extra) \in Nat /\ DOMAIN Extra = 1 .. Len(Extra)
<1>1. Len(Extra) \in Nat /\ DOMAIN Extra = 1 .. Len(Extra)
  BY ExtraAssumption
<1> QED BY <1>1, ChainFacts

\* Each default middleware is in one place.
LEMMA Positions ==
    ASSUME NEW i \in 1 .. N
    PROVE  /\ Chain[i] = "recovery" => i = 1
           /\ Chain[i] = "access" => i = 4
           /\ Chain[i] = "metric" => i = 5
           /\ Chain[i] \in {"auth", "ratelimit", "timeout"} => i \in 6 .. N
<1>1. i = 1 \/ i = 2 \/ i = 3 \/ i = 4 \/ i = 5 \/ i \in 6 .. N
  BY ChainFacts
<1>2. CASE i \in 6 .. N
  BY <1>2, ChainFacts
<1> QED BY <1>1, <1>2, ChainFacts

-----------------------------------------------------------------------------
(* Steps of one goroutine.                                                 *)

\* A step that gives goroutine g of request r the state t.
Becomes(r, g, t) == th' = [th EXCEPT ![r][g] = t]

LEMMA BecomesFacts ==
    ASSUME TypeOK, NEW r \in Request, NEW g \in Gor, NEW t \in Goroutine, Becomes(r, g, t)
    PROVE  /\ th' \in [Request -> [Gor -> Goroutine]]
           /\ th'[r][g] = t
           /\ \A h \in Gor \ {g} : th'[r][h] = th[r][h]
           /\ \A q \in Request \ {r} : th'[q] = th[q]
BY DEF TypeOK, Becomes, Goroutine, N

\* Calling the next handler.
LEMMA DownFacts ==
    ASSUME TypeOK, NEW r \in Request, NEW g \in Gor, Down(r, g), th[r][g].at < Inside
    PROVE  /\ th' \in [Request -> [Gor -> Goroutine]]
           /\ th'[r][g].at = th[r][g].at + 1 /\ th'[r][g].base = th[r][g].base
           /\ th'[r][g].ph = th[r][g].ph /\ th'[r][g].code = th[r][g].code
           /\ \A h \in Gor \ {g} : th'[r][h] = th[r][h]
           /\ \A q \in Request \ {r} : th'[q] = th[q]
<1> DEFINE t == [th[r][g] EXCEPT !.at = @ + 1]
<1>0. th[r][g] \in Goroutine
  BY DEF TypeOK, Goroutine, N
<1>1. t \in Goroutine
  <2>1. th[r][g].at + 1 \in 0 .. Inside
    BY <1>0, ChainFacts DEF Goroutine
  <2> QED BY <1>0, <2>1 DEF Goroutine
<1>2. Becomes(r, g, t)
  BY DEF Down, Becomes, TypeOK
<1>3. t.at = th[r][g].at + 1 /\ t.base = th[r][g].base /\ t.ph = th[r][g].ph /\ t.code = th[r][g].code
  BY <1>0 DEF Goroutine
<1> HIDE DEF t
<1> QED BY <1>1, <1>2, <1>3, BecomesFacts

\* Returning a code.
LEMMA UpFacts ==
    ASSUME TypeOK, NEW r \in Request, NEW g \in Gor, NEW c \in Codes, Up(r, g, c), th[r][g].at > 0
    PROVE  /\ th' \in [Request -> [Gor -> Goroutine]]
           /\ th'[r][g].at = th[r][g].at - 1 /\ th'[r][g].base = th[r][g].base
           /\ th'[r][g].ph = "out" /\ th'[r][g].code = c
           /\ \A h \in Gor \ {g} : th'[r][h] = th[r][h]
           /\ \A q \in Request \ {r} : th'[q] = th[q]
<1> DEFINE t == [th[r][g] EXCEPT !.at = @ - 1, !.ph = "out", !.code = c]
<1>0. th[r][g] \in Goroutine
  BY DEF TypeOK, Goroutine, N
<1>1. t \in Goroutine
  <2>1. th[r][g].at - 1 \in 0 .. Inside
    BY <1>0, ChainFacts DEF Goroutine
  <2> QED BY <1>0, <2>1 DEF Goroutine
<1>2. Becomes(r, g, t)
  BY DEF Up, Becomes, TypeOK
<1>3. t.at = th[r][g].at - 1 /\ t.base = th[r][g].base /\ t.ph = "out" /\ t.code = c
  BY <1>0 DEF Goroutine
<1> HIDE DEF t
<1> QED BY <1>1, <1>2, <1>3, BecomesFacts

\* What a step leaves alone: everything that belongs to other requests.
Elsewhere(r) ==
    \A q \in Request \ {r} :
        /\ th'[q] = th[q] /\ req'[q] = req[q] /\ ch'[q] = ch[q]
        /\ expired'[q] = expired[q] /\ cancelled'[q] = cancelled[q]
        /\ sent'[q] = sent[q] /\ ran'[q] = ran[q] /\ lines'[q] = lines[q]
        /\ counts'[q] = counts[q] /\ panics'[q] = panics[q]

\* The invariant of a request depends on nothing else.
LEMMA FrameReqInv ==
    ASSUME IInv, NEW r \in Request, Elsewhere(r), TypeOK', ReqInv(r)'
    PROVE  IInv'
<1> SUFFICES ASSUME NEW q \in Request \ {r} PROVE ReqInv(q)'
  BY DEF IInv
<1>1. ReqInv(q)
  BY DEF IInv
<1>2. Conn(q)' = Conn(q) /\ Work(q)' = Work(q)
  BY DEF Elsewhere, Conn, Work
<1>3. Shape(q)' /\ Handover(q)' /\ Account(q)'
  BY <1>1, <1>2 DEF Elsewhere, ReqInv, Shape, Handover, Account, Uncounted, Settled, CtxDone
<1>4. Outcome(q)'
  BY <1>1, <1>2 DEF Elsewhere, ReqInv, Outcome, Carrier, Decided
<1>5. Clearance(q)' /\ Response(q)'
  BY <1>1, <1>2 DEF Elsewhere, ReqInv, Clearance, Cleared, Response, Wrote
<1> QED BY <1>3, <1>4, <1>5 DEF ReqInv

\* A goroutine calls the next handler from a middleware other than auth, or
\* from auth with a request that may pass.
LEMMA DownInv ==
    ASSUME IInv, NEW r \in Request, NEW g \in Gor, Down(r, g),
           th[r][g].ph = "in", th[r][g].at \in 1 .. N,
           Chain[th[r][g].at] = "auth" => Cleared(r),
           UNCHANGED <<req, ch, expired, cancelled, sent, ran, lines, counts, panics>>,
           tokens' \in 0 .. Burst, crashed' \in BOOLEAN
    PROVE  IInv'
<1>0. TypeOK /\ ReqInv(r)
  BY DEF IInv
<1>1. /\ th' \in [Request -> [Gor -> Goroutine]]
      /\ th'[r][g].at = th[r][g].at + 1 /\ th'[r][g].base = th[r][g].base
      /\ th'[r][g].ph = th[r][g].ph /\ th'[r][g].code = th[r][g].code
      /\ \A h \in Gor \ {g} : th'[r][h] = th[r][h]
      /\ \A q \in Request \ {r} : th'[q] = th[q]
  BY <1>0, DownFacts, ChainFacts
<1>2. TypeOK'
  BY <1>0, <1>1 DEF TypeOK, Goroutine, N
<1>3. Elsewhere(r)
  BY <1>1 DEF Elsewhere
<1>s. Shape(r) /\ Outcome(r) /\ Handover(r) /\ Clearance(r) /\ Account(r) /\ Response(r)
  BY <1>0 DEF ReqInv
<1>t. th[r][g].at \in Nat /\ th[r][g].base \in Nat
  BY <1>0 DEF TypeOK
<1>5. Shape(r)'
  <2>1. CASE g = "conn"
    BY <1>s, <1>t, <1>1, <2>1 DEF Shape, Conn, Work, Gor
  <2>2. CASE g = "work"
    BY <1>s, <1>t, <1>1, <2>2 DEF Shape, Conn, Work, Gor
  <2> QED BY <2>1, <2>2 DEF Gor
<1>6. Outcome(r)'
  BY <1>s, <1>t, <1>1, ChainFacts DEF Shape, Outcome, Carrier, Decided, Conn, Work, Gor
<1>7. Handover(r)'
  BY <1>s, <1>t, <1>1 DEF Shape, Handover, CtxDone, Conn, Work, Gor
<1>8. Clearance(r)'
  <2> SUFFICES ASSUME NEW j \in 1 .. N, Chain[j] = "auth"
               PROVE  /\ \A h \in Gor : th'[r][h].ph = "in" /\ th'[r][h].at > j => Cleared(r)
                      /\ ran[r] # "no" => Cleared(r)
    BY DEF Clearance, Cleared
  <2>1. th[r][g].at + 1 > j => th[r][g].at > j \/ th[r][g].at = j
    BY <1>t
  <2> QED BY <1>s, <1>1, <2>1 DEF Clearance
<1>9. Account(r)'
  BY <1>s, <1>t, <1>1 DEF Account, Uncounted, Settled, Conn, Work, Gor
<1>10. Response(r)'
  BY <1>s, <1>t, <1>1 DEF Response, Wrote, Conn, Work, Gor
<1> QED BY <1>2, <1>3, <1>5, <1>6, <1>7, <1>8, <1>9, <1>10, FrameReqInv DEF ReqInv

\* Panicking, or unwinding one frame further.
LEMMA PanicFacts ==
    ASSUME TypeOK, NEW r \in Request, NEW g \in Gor, th[r][g].at > 0,
           \/ th' = [th EXCEPT ![r][g].at = @ - 1, ![r][g].ph = "panic"]
           \/ th' = [th EXCEPT ![r][g].at = @ - 1] /\ th[r][g].ph = "panic"
    PROVE  /\ th' \in [Request -> [Gor -> Goroutine]]
           /\ th'[r][g].at = th[r][g].at - 1 /\ th'[r][g].base = th[r][g].base
           /\ th'[r][g].ph = "panic" /\ th'[r][g].code = th[r][g].code
           /\ \A h \in Gor \ {g} : th'[r][h] = th[r][h]
           /\ \A q \in Request \ {r} : th'[q] = th[q]
<1> DEFINE t == [th[r][g] EXCEPT !.at = @ - 1, !.ph = "panic"]
<1>0. th[r][g] \in Goroutine
  BY DEF TypeOK, Goroutine, N
<1>1. t \in Goroutine
  <2>1. th[r][g].at - 1 \in 0 .. Inside
    BY <1>0, ChainFacts DEF Goroutine
  <2> QED BY <1>0, <2>1 DEF Goroutine
<1>2. Becomes(r, g, t)
  <2>1. CASE th' = [th EXCEPT ![r][g].at = @ - 1, ![r][g].ph = "panic"]
    BY <2>1 DEF Becomes, TypeOK
  <2>2. CASE th' = [th EXCEPT ![r][g].at = @ - 1] /\ th[r][g].ph = "panic"
    <3>1. t = [th[r][g] EXCEPT !.at = @ - 1]
      BY <1>0, <2>2 DEF Goroutine
    <3> QED BY <2>2, <3>1 DEF Becomes, TypeOK
  <2> QED BY <2>1, <2>2
<1>3. t.at = th[r][g].at - 1 /\ t.base = th[r][g].base /\ t.ph = "panic" /\ t.code = th[r][g].code
  BY <1>0 DEF Goroutine
<1> HIDE DEF t
<1> QED BY <1>1, <1>2, <1>3, BecomesFacts

\* A middleware of the caller's refuses the request.
LEMMA RefuseInv ==
    ASSUME IInv, NEW r \in Request, NEW g \in Gor,
           NEW c \in {"UNAUTHORIZED", "VALIDATOR", "RATE_LIMITED"}, Up(r, g, c),
           th[r][g].ph = "in", th[r][g].at \in 6 .. N,
           UNCHANGED <<req, ch, expired, cancelled, tokens, sent, ran, lines, counts, panics, crashed>>
    PROVE  IInv'
<1>0. TypeOK /\ ReqInv(r)
  BY DEF IInv
<1>s. Shape(r) /\ Outcome(r) /\ Handover(r) /\ Clearance(r) /\ Account(r) /\ Response(r)
  BY <1>0 DEF ReqInv
<1>t. th[r][g].at \in Nat /\ th[r][g].base \in Nat /\ N \in Nat /\ N >= 5
  BY <1>0, ChainFacts DEF TypeOK
<1>c. c \in Codes /\ th[r][g].at > 0
  BY <1>t DEF Codes
<1>1. /\ th' \in [Request -> [Gor -> Goroutine]]
      /\ th'[r][g].at = th[r][g].at - 1 /\ th'[r][g].base = th[r][g].base
      /\ th'[r][g].ph = "out" /\ th'[r][g].code = c
      /\ \A h \in Gor \ {g} : th'[r][h] = th[r][h]
      /\ \A q \in Request \ {r} : th'[q] = th[q]
  BY <1>0, <1>c, <1>t, UpFacts
<1>2. TypeOK'
  BY <1>0, <1>1 DEF TypeOK, Goroutine, N
<1>3. Elsewhere(r)
  BY <1>1 DEF Elsewhere
<1>5. Shape(r)'
  <2>1. CASE g = "conn"
    BY <1>s, <1>t, <1>1, <2>1 DEF Shape, Conn, Work, Gor
  <2>2. CASE g = "work"
    BY <1>s, <1>t, <1>1, <2>2 DEF Shape, Conn, Work, Gor
  <2> QED BY <2>1, <2>2 DEF Gor
<1>6. Outcome(r)'
  <2>1. CASE g = "conn"
    BY <1>s, <1>t, <1>1, <2>1, ChainFacts DEF Shape, Outcome, Carrier, Decided, Conn, Work, Gor
  <2>2. CASE g = "work"
    BY <1>s, <1>t, <1>1, <2>2, ChainFacts DEF Shape, Outcome, Carrier, Decided, Conn, Work, Gor
  <2> QED BY <2>1, <2>2 DEF Gor
<1>7. Handover(r)'
  <2>1. CASE g = "conn"
    BY <1>s, <1>t, <1>1, <2>1 DEF Shape, Handover, CtxDone, Conn, Work, Gor
  <2>2. CASE g = "work"
    BY <1>s, <1>t, <1>1, <2>2 DEF Shape, Handover, CtxDone, Conn, Work, Gor
  <2> QED BY <2>1, <2>2 DEF Gor
<1>8. Clearance(r)'
  BY <1>s, <1>t, <1>1 DEF Clearance, Cleared, Gor
<1>9. Account(r)'
  <2>1. CASE g = "conn"
    BY <1>s, <1>t, <1>1, <2>1 DEF Shape, Account, Uncounted, Settled, Conn, Work, Gor
  <2>2. CASE g = "work"
    BY <1>s, <1>t, <1>1, <2>2 DEF Shape, Account, Uncounted, Settled, Conn, Work, Gor
  <2> QED BY <2>1, <2>2 DEF Gor
<1>10. Response(r)'
  BY <1>s, <1>t, <1>1, <1>c DEF Shape, Response, Wrote, Conn, Work, Gor
<1> QED BY <1>2, <1>3, <1>5, <1>6, <1>7, <1>8, <1>9, <1>10, FrameReqInv DEF ReqInv

\* The handler returns.
LEMMA HandlerReturnInv ==
    ASSUME IInv, NEW r \in Request, NEW g \in Gor, NEW c \in Outcomes \ {"panic"},
           HandlerReturn(r, g, c)
    PROVE  IInv'
<1>0. TypeOK /\ ReqInv(r)
  BY DEF IInv
<1>s. Shape(r) /\ Outcome(r) /\ Handover(r) /\ Clearance(r) /\ Account(r) /\ Response(r)
  BY <1>0 DEF ReqInv
<1>t. th[r][g].at \in Nat /\ th[r][g].base \in Nat /\ N \in Nat /\ N >= 5
  BY <1>0, ChainFacts DEF TypeOK
<1>a. /\ th[r][g].ph = "in" /\ th[r][g].at = N + 1
      /\ Up(r, g, c) /\ ran[r] = "running" /\ ran' = [ran EXCEPT ![r] = c]
      /\ req[r].kind = "http" => c = "ok"
      /\ UNCHANGED <<req, ch, expired, cancelled, tokens, sent, lines, counts, panics, crashed>>
  BY ChainFacts DEF HandlerReturn, AtHandler
<1>c. c \in Codes /\ c \in {"ok", "HANDLER"} /\ th[r][g].at > 0
  BY <1>a, <1>t, InputAssumption DEF Codes
<1>1. /\ th' \in [Request -> [Gor -> Goroutine]]
      /\ th'[r][g].at = th[r][g].at - 1 /\ th'[r][g].base = th[r][g].base
      /\ th'[r][g].ph = "out" /\ th'[r][g].code = c
      /\ \A h \in Gor \ {g} : th'[r][h] = th[r][h]
      /\ \A q \in Request \ {r} : th'[q] = th[q]
  BY <1>0, <1>a, <1>c, UpFacts
<1>r. ran'[r] = c /\ \A q \in Request \ {r} : ran'[q] = ran[q]
  BY <1>0, <1>a DEF TypeOK
<1>2. TypeOK'
  BY <1>0, <1>1, <1>a, <1>c DEF TypeOK, Goroutine, N
<1>3. Elsewhere(r)
  BY <1>1, <1>a, <1>r DEF Elsewhere
<1>5. Shape(r)'
  <2>1. CASE g = "conn"
    BY <1>s, <1>t, <1>1, <2>1, <1>a DEF Shape, Conn, Work, Gor
  <2>2. CASE g = "work"
    BY <1>s, <1>t, <1>1, <2>2, <1>a DEF Shape, Conn, Work, Gor
  <2> QED BY <2>1, <2>2 DEF Gor
<1>6. Outcome(r)'
  <2>1. CASE g = "conn"
    BY <1>s, <1>t, <1>1, <2>1, <1>a, <1>c, <1>r DEF Shape, Outcome, Carrier, Decided, Conn, Work, Gor
  <2>2. CASE g = "work"
    BY <1>s, <1>t, <1>1, <2>2, <1>a, <1>c, <1>r DEF Shape, Outcome, Carrier, Decided, Conn, Work, Gor
  <2> QED BY <2>1, <2>2 DEF Gor
<1>7. Handover(r)'
  <2>1. CASE g = "conn"
    BY <1>s, <1>t, <1>1, <2>1, <1>a DEF Shape, Handover, CtxDone, Conn, Work, Gor
  <2>2. CASE g = "work"
    BY <1>s, <1>t, <1>1, <2>2, <1>a DEF Shape, Handover, CtxDone, Conn, Work, Gor
  <2> QED BY <2>1, <2>2 DEF Gor
<1>8. Clearance(r)'
  BY <1>s, <1>t, <1>1, <1>a, <1>r, ChainFacts DEF Clearance, Cleared, Gor
<1>9. Account(r)'
  <2>1. CASE g = "conn"
    BY <1>s, <1>t, <1>1, <2>1, <1>a DEF Shape, Account, Uncounted, Settled, Conn, Work, Gor
  <2>2. CASE g = "work"
    BY <1>s, <1>t, <1>1, <2>2, <1>a DEF Shape, Account, Uncounted, Settled, Conn, Work, Gor
  <2> QED BY <2>1, <2>2 DEF Gor
<1>10. Response(r)'
  BY <1>s, <1>t, <1>1, <1>a, <1>c, <1>r DEF Shape, Response, Wrote, Conn, Work, Gor
<1> QED BY <1>2, <1>3, <1>5, <1>6, <1>7, <1>8, <1>9, <1>10, FrameReqInv DEF ReqInv

\* The handler panics.
LEMMA HandlerPanicInv ==
    ASSUME IInv, NEW r \in Request, NEW g \in Gor, HandlerPanic(r, g)
    PROVE  IInv'
<1>0. TypeOK /\ ReqInv(r)
  BY DEF IInv
<1>s. Shape(r) /\ Outcome(r) /\ Handover(r) /\ Clearance(r) /\ Account(r) /\ Response(r)
  BY <1>0 DEF ReqInv
<1>t. th[r][g].at \in Nat /\ th[r][g].base \in Nat /\ N \in Nat /\ N >= 5
  BY <1>0, ChainFacts DEF TypeOK
<1>a. /\ th[r][g].ph = "in" /\ th[r][g].at = N + 1
      /\ th' = [th EXCEPT ![r][g].at = @ - 1, ![r][g].ph = "panic"]
      /\ ran[r] = "running" /\ ran' = [ran EXCEPT ![r] = "panic"]
      /\ UNCHANGED <<req, ch, expired, cancelled, tokens, sent, lines, counts, panics, crashed>>
  BY ChainFacts DEF HandlerPanic, AtHandler
<1>1. /\ th' \in [Request -> [Gor -> Goroutine]]
      /\ th'[r][g].at = th[r][g].at - 1 /\ th'[r][g].base = th[r][g].base
      /\ th'[r][g].ph = "panic" /\ th'[r][g].code = th[r][g].code
      /\ \A h \in Gor \ {g} : th'[r][h] = th[r][h]
      /\ \A q \in Request \ {r} : th'[q] = th[q]
  <2>1. th[r][g].at > 0
    BY <1>a, <1>t
  <2> QED BY <1>0, <1>a, <2>1, PanicFacts
<1>r. ran'[r] = "panic" /\ \A q \in Request \ {r} : ran'[q] = ran[q]
  BY <1>0, <1>a DEF TypeOK
<1>2. TypeOK'
  BY <1>0, <1>1, <1>a DEF TypeOK, Goroutine, N
<1>3. Elsewhere(r)
  BY <1>1, <1>a, <1>r DEF Elsewhere
<1>5. Shape(r)'
  <2>1. CASE g = "conn"
    BY <1>s, <1>t, <1>1, <2>1, <1>a DEF Shape, Conn, Work, Gor
  <2>2. CASE g = "work"
    BY <1>s, <1>t, <1>1, <2>2, <1>a DEF Shape, Conn, Work, Gor
  <2> QED BY <2>1, <2>2 DEF Gor
<1>6. Outcome(r)'
  <2>1. CASE g = "conn"
    BY <1>s, <1>t, <1>1, <2>1, <1>a, <1>r DEF Shape, Outcome, Carrier, Decided, Conn, Work, Gor
  <2>2. CASE g = "work"
    BY <1>s, <1>t, <1>1, <2>2, <1>a, <1>r DEF Shape, Outcome, Carrier, Decided, Conn, Work, Gor
  <2> QED BY <2>1, <2>2 DEF Gor
<1>7. Handover(r)'
  <2>1. CASE g = "conn"
    BY <1>s, <1>t, <1>1, <2>1, <1>a DEF Shape, Handover, CtxDone, Conn, Work, Gor
  <2>2. CASE g = "work"
    BY <1>s, <1>t, <1>1, <2>2, <1>a DEF Shape, Handover, CtxDone, Conn, Work, Gor
  <2> QED BY <2>1, <2>2 DEF Gor
<1>8. Clearance(r)'
  BY <1>s, <1>t, <1>1, <1>a, <1>r, ChainFacts DEF Clearance, Cleared, Gor
<1>9. Account(r)'
  <2>1. CASE g = "conn"
    BY <1>s, <1>t, <1>1, <2>1, <1>a DEF Shape, Account, Uncounted, Settled, Conn, Work, Gor
  <2>2. CASE g = "work"
    BY <1>s, <1>t, <1>1, <2>2, <1>a DEF Shape, Account, Uncounted, Settled, Conn, Work, Gor
  <2> QED BY <2>1, <2>2 DEF Gor
<1>10. Response(r)'
  BY <1>s, <1>t, <1>1, <1>a, <1>r DEF Shape, Response, Wrote, Conn, Work, Gor
<1> QED BY <1>2, <1>3, <1>5, <1>6, <1>7, <1>8, <1>9, <1>10, FrameReqInv DEF ReqInv

\* A code passes a middleware that does nothing on the way out.
LEMMA PassOutInv ==
    ASSUME IInv, NEW r \in Request, NEW g \in Gor, PassOut(r, g)
    PROVE  IInv'
<1> DEFINE c == th[r][g].code
<1>0. TypeOK /\ ReqInv(r)
  BY DEF IInv
<1>s. Shape(r) /\ Outcome(r) /\ Handover(r) /\ Clearance(r) /\ Account(r) /\ Response(r)
  BY <1>0 DEF ReqInv
<1>t. th[r][g].at \in Nat /\ th[r][g].base \in Nat /\ N \in Nat /\ N >= 5
  BY <1>0, ChainFacts DEF TypeOK
<1>a. /\ th[r][g].ph = "out" /\ th[r][g].at > th[r][g].base /\ th[r][g].at \in 1 .. N
      /\ Chain[th[r][g].at] \notin {"access", "metric"}
      /\ Up(r, g, c)
      /\ UNCHANGED <<req, ch, expired, cancelled, tokens, sent, ran, lines, counts, panics, crashed>>
  BY DEF PassOut, Returning, At, N
<1>c. c \in Codes /\ c = th[r][g].code /\ th[r][g].at > 0 /\ th[r][g].at <= N
  BY <1>a, <1>s, <1>t DEF Response, Shape, Conn, Work, Gor
<1>d. th[r][g].at \notin {4, 5}
  BY <1>a, ChainFacts
<1> HIDE DEF c
<1>1. /\ th' \in [Request -> [Gor -> Goroutine]]
      /\ th'[r][g].at = th[r][g].at - 1 /\ th'[r][g].base = th[r][g].base
      /\ th'[r][g].ph = "out" /\ th'[r][g].code = c
      /\ \A h \in Gor \ {g} : th'[r][h] = th[r][h]
      /\ \A q \in Request \ {r} : th'[q] = th[q]
  BY <1>0, <1>a, <1>c, UpFacts
<1>2. TypeOK'
  BY <1>0, <1>1, <1>a DEF TypeOK, Goroutine, N
<1>3. Elsewhere(r)
  BY <1>1, <1>a DEF Elsewhere
<1>5. Shape(r)'
  <2>1. CASE g = "conn"
    BY <1>s, <1>t, <1>1, <2>1, <1>a DEF Shape, Conn, Work, Gor
  <2>2. CASE g = "work"
    BY <1>s, <1>t, <1>1, <2>2, <1>a DEF Shape, Conn, Work, Gor
  <2> QED BY <2>1, <2>2 DEF Gor
<1>6. Outcome(r)'
  <2>1. CASE g = "conn"
    BY <1>s, <1>t, <1>1, <2>1, <1>a, <1>c DEF Shape, Outcome, Carrier, Decided, Conn, Work, Gor
  <2>2. CASE g = "work"
    BY <1>s, <1>t, <1>1, <2>2, <1>a, <1>c DEF Shape, Outcome, Carrier, Decided, Conn, Work, Gor
  <2> QED BY <2>1, <2>2 DEF Gor
<1>7. Handover(r)'
  <2>1. CASE g = "conn"
    BY <1>s, <1>t, <1>1, <2>1, <1>a, <1>c DEF Shape, Handover, CtxDone, Conn, Work, Gor
  <2>2. CASE g = "work"
    BY <1>s, <1>t, <1>1, <2>2, <1>a, <1>c DEF Shape, Handover, CtxDone, Conn, Work, Gor
  <2> QED BY <2>1, <2>2 DEF Gor
<1>8. Clearance(r)'
  BY <1>s, <1>t, <1>1, <1>a DEF Clearance, Cleared, Gor
<1>9. Account(r)'
  <2>1. CASE g = "conn"
    <3>1. CASE th[r][g].at \in 1 .. 3
      BY <1>s, <1>t, <1>1, <2>1, <3>1, <1>a, <1>c DEF Account, Uncounted, Settled, Conn
    <3>2. CASE th[r][g].at > 5
      <4>1. Uncounted(r) /\ Conn(r)'.at >= 5 /\ Conn(r)'.ph = "out"
        BY <1>s, <1>t, <1>1, <2>1, <3>2, <1>a DEF Account, Conn
      <4> QED BY <4>1, <1>a DEF Account, Uncounted
    <3> QED BY <3>1, <3>2, <1>a, <1>d, <1>t
  <2>2. CASE g = "work"
    BY <1>s, <1>t, <1>1, <2>2, <1>a, <1>c, <1>d DEF Shape, Account, Uncounted, Settled, Conn, Work, Gor
  <2> QED BY <2>1, <2>2 DEF Gor
<1>10. Response(r)'
  BY <1>s, <1>t, <1>1, <1>a, <1>c DEF Shape, Response, Wrote, Conn, Work, Gor
<1> QED BY <1>2, <1>3, <1>5, <1>6, <1>7, <1>8, <1>9, <1>10, FrameReqInv DEF ReqInv

\* Access logs the code, in the connection's goroutine.
LEMMA AccessOutInv ==
    ASSUME IInv, NEW r \in Request, NEW g \in Gor, AccessOut(r, g)
    PROVE  IInv'
<1> DEFINE c == th[r][g].code
<1>0. TypeOK /\ ReqInv(r)
  BY DEF IInv
<1>s. Shape(r) /\ Outcome(r) /\ Handover(r) /\ Clearance(r) /\ Account(r) /\ Response(r)
  BY <1>0 DEF ReqInv
<1>t. th[r][g].at \in Nat /\ th[r][g].base \in Nat /\ N \in Nat /\ N >= 5
  BY <1>0, ChainFacts DEF TypeOK
<1>a. /\ th[r][g].ph = "out" /\ th[r][g].at > th[r][g].base /\ th[r][g].at \in 1 .. N
      /\ Chain[th[r][g].at] = "access"
      /\ Up(r, g, c)
      /\ lines' = [lines EXCEPT ![r] = Append(@, c)]
      /\ UNCHANGED <<req, ch, expired, cancelled, tokens, sent, ran, counts, panics, crashed>>
  BY DEF AccessOut, Returning, At, N
<1>c. c \in Codes /\ c = th[r][g].code /\ th[r][g].at > 0 /\ th[r][g].at <= N
  BY <1>a, <1>s, <1>t DEF Response, Shape, Conn, Work, Gor
<1>d. th[r][g].at = 4 /\ g = "conn"
  <2>1. th[r][g].at = 4
    <3>1. th[r][g].at \in 1 .. N /\ Chain[th[r][g].at] = "access"
      BY <1>a
    <3> QED BY <3>1, Positions
  <2> QED BY <1>a, <1>s, <2>1 DEF Shape, Work, Gor
<1> HIDE DEF c
<1>1. /\ th' \in [Request -> [Gor -> Goroutine]]
      /\ th'[r][g].at = th[r][g].at - 1 /\ th'[r][g].base = th[r][g].base
      /\ th'[r][g].ph = "out" /\ th'[r][g].code = c
      /\ \A h \in Gor \ {g} : th'[r][h] = th[r][h]
      /\ \A q \in Request \ {r} : th'[q] = th[q]
  BY <1>0, <1>a, <1>c, UpFacts
<1>l. /\ lines' \in [Request -> Seq(Codes)]
      /\ lines[r] = <<>> /\ lines'[r] = <<c>>
      /\ \A q \in Request \ {r} : lines'[q] = lines[q]
  <2>1. lines[r] = <<>>
    BY <1>a, <1>d, <1>s DEF Account, Uncounted, Conn
  <2>2. Append(lines[r], c) = <<c>> /\ <<c>> \in Seq(Codes)
    BY <2>1, <1>c
  <2> QED BY <1>0, <1>a, <2>1, <2>2 DEF TypeOK
<1>2. TypeOK'
  BY <1>0, <1>1, <1>a, <1>l DEF TypeOK, Goroutine, N
<1>3. Elsewhere(r)
  BY <1>1, <1>a, <1>l DEF Elsewhere
<1>5. Shape(r)'
  BY <1>s, <1>t, <1>1, <1>a, <1>d DEF Shape, Conn, Work, Gor
<1>6. Outcome(r)'
  BY <1>s, <1>t, <1>1, <1>a, <1>c, <1>d DEF Shape, Outcome, Carrier, Decided, Conn, Work, Gor
<1>7. Handover(r)'
  BY <1>s, <1>t, <1>1, <1>a, <1>c, <1>d DEF Shape, Handover, CtxDone, Conn, Work, Gor
<1>8. Clearance(r)'
  BY <1>s, <1>t, <1>1, <1>a DEF Clearance, Cleared, Gor
<1>9. Account(r)'
  BY <1>s, <1>t, <1>1, <1>a, <1>c, <1>d, <1>l DEF Shape, Account, Uncounted, Settled, Conn, Work, Gor
<1>10. Response(r)'
  BY <1>s, <1>t, <1>1, <1>a, <1>c, <1>d DEF Shape, Response, Wrote, Conn, Work, Gor
<1> QED BY <1>2, <1>3, <1>5, <1>6, <1>7, <1>8, <1>9, <1>10, FrameReqInv DEF ReqInv

\* Metric counts the code, in the connection's goroutine.
LEMMA MetricOutInv ==
    ASSUME IInv, NEW r \in Request, NEW g \in Gor, MetricOut(r, g)
    PROVE  IInv'
<1> DEFINE c == th[r][g].code
<1>0. TypeOK /\ ReqInv(r)
  BY DEF IInv
<1>s. Shape(r) /\ Outcome(r) /\ Handover(r) /\ Clearance(r) /\ Account(r) /\ Response(r)
  BY <1>0 DEF ReqInv
<1>t. th[r][g].at \in Nat /\ th[r][g].base \in Nat /\ N \in Nat /\ N >= 5
  BY <1>0, ChainFacts DEF TypeOK
<1>a. /\ th[r][g].ph = "out" /\ th[r][g].at > th[r][g].base /\ th[r][g].at \in 1 .. N
      /\ Chain[th[r][g].at] = "metric"
      /\ Up(r, g, c)
      /\ counts' = [counts EXCEPT ![r] = Append(@, c)]
      /\ UNCHANGED <<req, ch, expired, cancelled, tokens, sent, ran, lines, panics, crashed>>
  BY DEF MetricOut, Returning, At, N
<1>c. c \in Codes /\ c = th[r][g].code /\ th[r][g].at > 0 /\ th[r][g].at <= N
  BY <1>a, <1>s, <1>t DEF Response, Shape, Conn, Work, Gor
<1>d. th[r][g].at = 5 /\ g = "conn"
  <2>1. th[r][g].at = 5
    <3>1. th[r][g].at \in 1 .. N /\ Chain[th[r][g].at] = "metric"
      BY <1>a
    <3> QED BY <3>1, Positions
  <2> QED BY <1>a, <1>s, <2>1 DEF Shape, Work, Gor
<1> HIDE DEF c
<1>1. /\ th' \in [Request -> [Gor -> Goroutine]]
      /\ th'[r][g].at = th[r][g].at - 1 /\ th'[r][g].base = th[r][g].base
      /\ th'[r][g].ph = "out" /\ th'[r][g].code = c
      /\ \A h \in Gor \ {g} : th'[r][h] = th[r][h]
      /\ \A q \in Request \ {r} : th'[q] = th[q]
  BY <1>0, <1>a, <1>c, UpFacts
<1>l. /\ counts' \in [Request -> Seq(Codes)]
      /\ counts[r] = <<>> /\ counts'[r] = <<c>>
      /\ \A q \in Request \ {r} : counts'[q] = counts[q]
  <2>1. counts[r] = <<>>
    BY <1>a, <1>d, <1>s DEF Account, Uncounted, Conn
  <2>2. Append(counts[r], c) = <<c>> /\ <<c>> \in Seq(Codes)
    BY <2>1, <1>c
  <2> QED BY <1>0, <1>a, <2>1, <2>2 DEF TypeOK
<1>2. TypeOK'
  BY <1>0, <1>1, <1>a, <1>l DEF TypeOK, Goroutine, N
<1>3. Elsewhere(r)
  BY <1>1, <1>a, <1>l DEF Elsewhere
<1>5. Shape(r)'
  BY <1>s, <1>t, <1>1, <1>a, <1>d DEF Shape, Conn, Work, Gor
<1>6. Outcome(r)'
  BY <1>s, <1>t, <1>1, <1>a, <1>c, <1>d DEF Shape, Outcome, Carrier, Decided, Conn, Work, Gor
<1>7. Handover(r)'
  BY <1>s, <1>t, <1>1, <1>a, <1>c, <1>d DEF Shape, Handover, CtxDone, Conn, Work, Gor
<1>8. Clearance(r)'
  BY <1>s, <1>t, <1>1, <1>a DEF Clearance, Cleared, Gor
<1>9. Account(r)'
  BY <1>s, <1>t, <1>1, <1>a, <1>c, <1>d, <1>l DEF Shape, Account, Uncounted, Settled, Conn, Work, Gor
<1>10. Response(r)'
  BY <1>s, <1>t, <1>1, <1>a, <1>c, <1>d DEF Shape, Response, Wrote, Conn, Work, Gor
<1> QED BY <1>2, <1>3, <1>5, <1>6, <1>7, <1>8, <1>9, <1>10, FrameReqInv DEF ReqInv

\* A panic unwinds a frame that does not recover.
LEMMA UnwindInv ==
    ASSUME IInv, NEW r \in Request, NEW g \in Gor, Unwind(r, g)
    PROVE  IInv'
<1>0. TypeOK /\ ReqInv(r)
  BY DEF IInv
<1>s. Shape(r) /\ Outcome(r) /\ Handover(r) /\ Clearance(r) /\ Account(r) /\ Response(r)
  BY <1>0 DEF ReqInv
<1>t. th[r][g].at \in Nat /\ th[r][g].base \in Nat /\ N \in Nat /\ N >= 5
  BY <1>0, ChainFacts DEF TypeOK
<1>a. /\ th[r][g].ph = "panic" /\ th[r][g].at > th[r][g].base /\ Chain[th[r][g].at] # "recovery"
      /\ th' = [th EXCEPT ![r][g].at = @ - 1]
      /\ UNCHANGED <<req, ch, expired, cancelled, tokens, sent, ran, lines, counts, panics, crashed>>
  BY DEF Unwind
<1>d. th[r][g].at > 1
  BY <1>a, <1>t, ChainFacts
<1>1. /\ th' \in [Request -> [Gor -> Goroutine]]
      /\ th'[r][g].at = th[r][g].at - 1 /\ th'[r][g].base = th[r][g].base
      /\ th'[r][g].ph = "panic" /\ th'[r][g].code = th[r][g].code
      /\ \A h \in Gor \ {g} : th'[r][h] = th[r][h]
      /\ \A q \in Request \ {r} : th'[q] = th[q]
  <2>1. th[r][g].at > 0
    BY <1>d, <1>t
  <2> QED BY <1>0, <1>a, <2>1, PanicFacts
<1>2. TypeOK'
  BY <1>0, <1>1, <1>a DEF TypeOK, Goroutine, N
<1>3. Elsewhere(r)
  BY <1>1, <1>a DEF Elsewhere
<1>5. Shape(r)'
  <2>1. CASE g = "conn"
    BY <1>s, <1>t, <1>1, <2>1, <1>a, <1>d DEF Shape, Conn, Work, Gor
  <2>2. CASE g = "work"
    BY <1>s, <1>t, <1>1, <2>2, <1>a, <1>d DEF Shape, Conn, Work, Gor
  <2> QED BY <2>1, <2>2 DEF Gor
<1>6. Outcome(r)'
  <2>1. CASE g = "conn"
    BY <1>s, <1>t, <1>1, <2>1, <1>a DEF Shape, Outcome, Carrier, Decided, Conn, Work, Gor
  <2>2. CASE g = "work"
    BY <1>s, <1>t, <1>1, <2>2, <1>a DEF Shape, Outcome, Carrier, Decided, Conn, Work, Gor
  <2> QED BY <2>1, <2>2 DEF Gor
<1>7. Handover(r)'
  <2>1. CASE g = "conn"
    BY <1>s, <1>t, <1>1, <2>1, <1>a DEF Shape, Handover, CtxDone, Conn, Work, Gor
  <2>2. CASE g = "work"
    BY <1>s, <1>t, <1>1, <2>2, <1>a DEF Shape, Handover, CtxDone, Conn, Work, Gor
  <2> QED BY <2>1, <2>2 DEF Gor
<1>8. Clearance(r)'
  BY <1>s, <1>t, <1>1, <1>a DEF Clearance, Cleared, Gor
<1>9. Account(r)'
  <2>1. CASE g = "conn"
    BY <1>s, <1>t, <1>1, <2>1, <1>a DEF Shape, Account, Uncounted, Settled, Conn, Work, Gor
  <2>2. CASE g = "work"
    BY <1>s, <1>t, <1>1, <2>2, <1>a DEF Shape, Account, Uncounted, Settled, Conn, Work, Gor
  <2> QED BY <2>1, <2>2 DEF Gor
<1>10. Response(r)'
  BY <1>s, <1>t, <1>1, <1>a DEF Shape, Response, Wrote, Conn, Work, Gor
<1> QED BY <1>2, <1>3, <1>5, <1>6, <1>7, <1>8, <1>9, <1>10, FrameReqInv DEF ReqInv

\* recovery ends a panic, in the connection's goroutine.
LEMMA RecoverInv ==
    ASSUME IInv, NEW r \in Request, NEW g \in Gor, Recover(r, g)
    PROVE  IInv'
<1> DEFINE c == "PANIC"
<1>0. TypeOK /\ ReqInv(r)
  BY DEF IInv
<1>s. Shape(r) /\ Outcome(r) /\ Handover(r) /\ Clearance(r) /\ Account(r) /\ Response(r)
  BY <1>0 DEF ReqInv
<1>t. th[r][g].at \in Nat /\ th[r][g].base \in Nat /\ N \in Nat /\ N >= 5
  BY <1>0, ChainFacts DEF TypeOK
<1>a. /\ th[r][g].ph = "panic" /\ th[r][g].at > th[r][g].base /\ th[r][g].at \in 1 .. N
      /\ Chain[th[r][g].at] = "recovery"
      /\ Up(r, g, c)
      /\ panics' = [panics EXCEPT ![r] = @ + 1]
      /\ UNCHANGED <<req, ch, expired, cancelled, tokens, sent, ran, lines, counts, crashed>>
  BY DEF Recover, At, N
<1>c. c \in Codes /\ th[r][g].at > 0
  BY <1>a, <1>t DEF Codes
<1>d. th[r][g].at = 1 /\ g = "conn"
  <2>1. th[r][g].at = 1
    <3>1. th[r][g].at \in 1 .. N /\ Chain[th[r][g].at] = "recovery"
      BY <1>a
    <3> QED BY <3>1, Positions
  <2> QED BY <1>a, <1>s, <2>1 DEF Shape, Work, Gor
<1>1. /\ th' \in [Request -> [Gor -> Goroutine]]
      /\ th'[r][g].at = th[r][g].at - 1 /\ th'[r][g].base = th[r][g].base
      /\ th'[r][g].ph = "out" /\ th'[r][g].code = c
      /\ \A h \in Gor \ {g} : th'[r][h] = th[r][h]
      /\ \A q \in Request \ {r} : th'[q] = th[q]
  BY <1>0, <1>a, <1>c, UpFacts
<1>l. /\ panics' \in [Request -> Nat] /\ panics'[r] = 1
      /\ \A q \in Request \ {r} : panics'[q] = panics[q]
  <2>1. panics[r] = 0
    BY <1>a, <1>d, <1>s DEF Account, Uncounted, Conn
  <2> QED BY <1>0, <1>a, <2>1 DEF TypeOK
<1>2. TypeOK'
  BY <1>0, <1>1, <1>a, <1>l DEF TypeOK, Goroutine, N
<1>3. Elsewhere(r)
  BY <1>1, <1>a, <1>l DEF Elsewhere
<1>5. Shape(r)'
  BY <1>s, <1>t, <1>1, <1>a, <1>d DEF Shape, Conn, Work, Gor
<1>6. Outcome(r)'
  BY <1>s, <1>t, <1>1, <1>a, <1>d DEF Shape, Outcome, Carrier, Decided, Conn, Work, Gor
<1>7. Handover(r)'
  BY <1>s, <1>t, <1>1, <1>a, <1>d DEF Shape, Handover, CtxDone, Conn, Work, Gor
<1>8. Clearance(r)'
  BY <1>s, <1>t, <1>1, <1>a DEF Clearance, Cleared, Gor
<1>9. Account(r)'
  BY <1>s, <1>t, <1>1, <1>a, <1>d, <1>l DEF Shape, Account, Uncounted, Settled, Conn, Work, Gor
<1>10. Response(r)'
  BY <1>s, <1>t, <1>1, <1>a, <1>c, <1>d DEF Shape, Response, Wrote, Conn, Work, Gor
<1> QED BY <1>2, <1>3, <1>5, <1>6, <1>7, <1>8, <1>9, <1>10, FrameReqInv DEF ReqInv

\* Leaving with the phase "done".
LEMMA ExitFacts ==
    ASSUME TypeOK, NEW r \in Request, NEW g \in Gor, Exit(r, g)
    PROVE  /\ th' \in [Request -> [Gor -> Goroutine]]
           /\ th'[r][g].at = th[r][g].at /\ th'[r][g].base = th[r][g].base
           /\ th'[r][g].ph = "done" /\ th'[r][g].code = th[r][g].code
           /\ \A h \in Gor \ {g} : th'[r][h] = th[r][h]
           /\ \A q \in Request \ {r} : th'[q] = th[q]
<1> DEFINE t == [th[r][g] EXCEPT !.ph = "done"]
<1>0. th[r][g] \in Goroutine
  BY DEF TypeOK, Goroutine, N
<1>1. t \in Goroutine
  BY <1>0 DEF Goroutine
<1>2. Becomes(r, g, t)
  BY DEF Exit, Becomes, TypeOK
<1>3. t.at = th[r][g].at /\ t.base = th[r][g].base /\ t.ph = "done" /\ t.code = th[r][g].code
  BY <1>0 DEF Goroutine
<1> HIDE DEF t
<1> QED BY <1>1, <1>2, <1>3, BecomesFacts

\* A request arrives.
LEMMA ArriveInv ==
    ASSUME IInv, NEW r \in Request, NEW kind \in Kinds, NEW op \in Op, NEW cred \in Creds,
           Arrive(r, kind, op, cred)
    PROVE  IInv'
<1>0. TypeOK /\ ReqInv(r)
  BY DEF IInv
<1>s. Shape(r) /\ Outcome(r) /\ Handover(r) /\ Clearance(r) /\ Account(r) /\ Response(r)
  BY <1>0 DEF ReqInv
<1>t. \A h \in Gor : th[r][h].at \in Nat /\ th[r][h].base \in Nat /\ N \in Nat /\ N >= 5
  BY <1>0, ChainFacts DEF TypeOK
<1>a. /\ th[r]["conn"] = Idle
      /\ req' = [req EXCEPT ![r] = [kind |-> kind, op |-> op, cred |-> cred]]
      /\ th' = [th EXCEPT ![r]["conn"].at = 1, ![r]["conn"].ph = "in"]
      /\ UNCHANGED <<ch, expired, cancelled, tokens, sent, ran, lines, counts, panics, crashed>>
  BY DEF Arrive
<1>1. /\ th' \in [Request -> [Gor -> Goroutine]]
      /\ th'[r]["conn"].at = 1 /\ th'[r]["conn"].base = 0
      /\ th'[r]["conn"].ph = "in"
      /\ th'[r]["work"] = th[r]["work"]
      /\ \A q \in Request \ {r} : th'[q] = th[q]
  <2> DEFINE t == [th[r]["conn"] EXCEPT !.at = 1, !.ph = "in"]
  <2>1. th[r]["conn"] \in Goroutine /\ "conn" \in Gor /\ "work" \in Gor \ {"conn"}
    BY <1>0 DEF TypeOK, Goroutine, N, Gor
  <2>2. t \in Goroutine
    <3>1. 1 \in 0 .. Inside
      BY ChainFacts
    <3> QED BY <2>1, <3>1 DEF Goroutine
  <2>3. Becomes(r, "conn", t)
    BY <1>0, <1>a, <2>1 DEF Becomes, TypeOK
  <2>4. t.at = 1 /\ t.base = 0 /\ t.ph = "in"
    BY <1>a DEF Idle
  <2> HIDE DEF t
  <2> QED BY <1>0, <2>1, <2>2, <2>3, <2>4, BecomesFacts
<1>i. Conn(r).ph = "idle" /\ Conn(r).at = 0
  BY <1>a DEF Idle, Conn
<1>q. /\ req' \in [Request -> [kind : Kinds \cup {"none"}, op : Op \cup {"none"}, cred : Creds \cup {"none"}]]
      /\ \A q \in Request \ {r} : req'[q] = req[q]
  BY <1>0, <1>a DEF TypeOK
<1>w. Work(r).ph = "idle" /\ ran[r] = "no" /\ sent[r] = <<>>
  BY <1>s, <1>i DEF Shape, Outcome, Carrier, Response
<1>2. TypeOK'
  BY <1>0, <1>1, <1>a, <1>q DEF TypeOK, Goroutine, N
<1>3. Elsewhere(r)
  BY <1>1, <1>a, <1>q DEF Elsewhere
<1>5. Shape(r)'
  BY <1>1, <1>w, ChainFacts DEF Shape, Conn, Work
<1>6. Outcome(r)'
  BY <1>1, <1>a, <1>w DEF Outcome, Carrier, Conn, Work
<1>7. Handover(r)'
  BY <1>s, <1>1, <1>a, <1>w DEF Handover, Conn, Work
<1>8. Clearance(r)'
  BY <1>1, <1>a, <1>w, Positions DEF Clearance, Gor, Work
<1>9. Account(r)'
  BY <1>s, <1>1, <1>a, <1>i DEF Account, Uncounted, Conn
<1>10. Response(r)'
  BY <1>1, <1>a, <1>w DEF Response, Wrote, Conn, Work
<1> QED BY <1>2, <1>3, <1>5, <1>6, <1>7, <1>8, <1>9, <1>10, FrameReqInv DEF ReqInv

\* timeout starts its worker.
LEMMA TimeoutForkInv ==
    ASSUME IInv, NEW r \in Request, TimeoutFork(r)
    PROVE  IInv'
<1> DEFINE i == th[r]["conn"].at
<1>0. TypeOK /\ ReqInv(r)
  BY DEF IInv
<1>s. Shape(r) /\ Outcome(r) /\ Handover(r) /\ Clearance(r) /\ Account(r) /\ Response(r)
  BY <1>0 DEF ReqInv
<1>t. \A h \in Gor : th[r][h].at \in Nat /\ th[r][h].base \in Nat /\ N \in Nat /\ N >= 5
  BY <1>0, ChainFacts DEF TypeOK
<1>a. /\ th[r]["conn"].ph = "in" /\ i \in 1 .. N /\ Chain[i] = "timeout"
      /\ th' = [th EXCEPT ![r]["conn"].ph = "select",
                          ![r]["work"] = [at |-> i + 1, base |-> i, ph |-> "in", code |-> "none"]]
      /\ UNCHANGED <<req, ch, expired, cancelled, tokens, sent, ran, lines, counts, panics, crashed>>
  BY DEF TimeoutFork, At, N
<1>b. i \in 6 .. N
  BY <1>a, Positions
<1>1. /\ th' \in [Request -> [Gor -> Goroutine]]
      /\ th'[r]["conn"].at = i /\ th'[r]["conn"].base = th[r]["conn"].base
      /\ th'[r]["conn"].ph = "select" /\ th'[r]["conn"].code = th[r]["conn"].code
      /\ th'[r]["work"].at = i + 1 /\ th'[r]["work"].base = i
      /\ th'[r]["work"].ph = "in"
      /\ \A q \in Request \ {r} : th'[q] = th[q]
  <2> DEFINE t == [th[r]["conn"] EXCEPT !.ph = "select"]
  <2> DEFINE u == [at |-> i + 1, base |-> i, ph |-> "in", code |-> "none"]
  <2>1. th[r]["conn"] \in Goroutine
    BY <1>0 DEF TypeOK, Goroutine, N, Gor
  <2>2. t \in Goroutine /\ u \in Goroutine
    <3>1. i + 1 \in 0 .. Inside /\ i \in 0 .. N
      BY <1>b, ChainFacts
    <3>2. t \in Goroutine
      BY <2>1 DEF Goroutine
    <3>3. u \in Goroutine
      BY <3>1 DEF Goroutine
    <3> QED BY <3>2, <3>3
  <2>3. t.at = i /\ t.base = th[r]["conn"].base /\ t.ph = "select" /\ t.code = th[r]["conn"].code
    BY <2>1 DEF Goroutine
  <2>4. u.at = i + 1 /\ u.base = i /\ u.ph = "in"
    OBVIOUS
  <2>5. th' = [th EXCEPT ![r]["conn"] = t, ![r]["work"] = u]
    BY <1>0, <1>a DEF TypeOK, Gor
  <2> HIDE DEF t, u
  <2>6. /\ th' \in [Request -> [Gor -> Goroutine]] /\ th'[r]["conn"] = t /\ th'[r]["work"] = u
        /\ \A q \in Request \ {r} : th'[q] = th[q]
    <3> DEFINE b == [th[r] EXCEPT !["conn"] = t, !["work"] = u]
    <3>1. th \in [Request -> [Gor -> Goroutine]]
      BY <1>0 DEF TypeOK, Goroutine, N
    <3>2. b \in [Gor -> Goroutine] /\ b["conn"] = t /\ b["work"] = u
      BY <2>2, <3>1 DEF Gor
    <3>3. th' = [th EXCEPT ![r] = b]
      BY <2>5, <3>1
    <3> HIDE DEF b
    <3> QED BY <3>1, <3>2, <3>3
  <2> QED BY <2>3, <2>4, <2>6
<1>w. Work(r).ph = "idle" /\ ran[r] = "no" /\ ch[r] = <<>>
  BY <1>s, <1>a, ChainFacts DEF Shape, Outcome, Carrier, Handover, Conn, Work
<1> HIDE DEF i
<1>2. TypeOK'
  BY <1>0, <1>1, <1>a DEF TypeOK, Goroutine, N
<1>3. Elsewhere(r)
  BY <1>1, <1>a DEF Elsewhere
<1>5. Shape(r)'
  BY <1>s, <1>t, <1>1, <1>a, <1>b DEF Shape, Conn, Work
<1>6. Outcome(r)'
  BY <1>1, <1>a, <1>w DEF Outcome, Carrier, Conn, Work
<1>7. Handover(r)'
  BY <1>1, <1>a, <1>w DEF Handover, Conn, Work
<1>8. Clearance(r)'
  <2> SUFFICES ASSUME NEW j \in 1 .. N, Chain[j] = "auth", i + 1 > j
               PROVE  Cleared(r)
    BY <1>1, <1>a, <1>w DEF Clearance, Cleared, Gor
  <2>1. i > j
    BY <1>a, <1>b
  <2> QED BY <1>s, <1>a, <2>1 DEF Clearance, Gor, i
<1>9. Account(r)'
  BY <1>s, <1>1, <1>a DEF Account, Uncounted, Conn
<1>10. Response(r)'
  BY <1>s, <1>1, <1>a, <1>w DEF Response, Wrote, Conn, Work
<1> QED BY <1>2, <1>3, <1>5, <1>6, <1>7, <1>8, <1>9, <1>10, FrameReqInv DEF ReqInv

-----------------------------------------------------------------------------
(* The handler starts and writes.                                          *)

\* The goroutine at the handler carries the request, and auth is behind it.
LEMMA AtHandlerFacts ==
    ASSUME IInv, NEW r \in Request, NEW g \in Gor, AtHandler(r, g)
    PROVE  /\ Carrier(r).ph = "in" /\ Carrier(r).at = Inside
           /\ Conn(r).ph # "idle"
           /\ \A j \in 1 .. N : Chain[j] = "auth" => Cleared(r)
<1>0. TypeOK /\ Shape(r) /\ Clearance(r)
  BY DEF IInv, ReqInv
<1>1. th[r][g].ph = "in" /\ th[r][g].at = Inside /\ Inside = N + 1 /\ N \in Nat
  BY ChainFacts DEF AtHandler
<1>2. Carrier(r).ph = "in" /\ Carrier(r).at = Inside /\ Conn(r).ph # "idle"
  <2>1. CASE g = "conn"
    BY <1>0, <1>1, <2>1 DEF Shape, Carrier, Conn, Work
  <2>2. CASE g = "work"
    BY <1>0, <1>1, <2>2 DEF Shape, Carrier, Conn, Work
  <2> QED BY <2>1, <2>2 DEF Gor
<1>3. ASSUME NEW j \in 1 .. N, Chain[j] = "auth" PROVE Cleared(r)
  <2>1. th[r][g].at > j
    BY <1>1
  <2> QED BY <1>0, <1>1, <1>3, <2>1 DEF Clearance
<1> QED BY <1>2, <1>3

\* The handler starts.
LEMMA HandlerStartInv ==
    ASSUME IInv, NEW r \in Request, NEW g \in Gor, HandlerStart(r, g)
    PROVE  IInv'
<1>0. TypeOK /\ ReqInv(r)
  BY DEF IInv
<1>s. Shape(r) /\ Outcome(r) /\ Handover(r) /\ Clearance(r) /\ Account(r) /\ Response(r)
  BY <1>0 DEF ReqInv
<1>t. \A h \in Gor : th[r][h].at \in Nat /\ th[r][h].base \in Nat /\ N \in Nat /\ N >= 5
  BY <1>0, ChainFacts DEF TypeOK
<1>a. /\ AtHandler(r, g) /\ ran[r] = "no" /\ ran' = [ran EXCEPT ![r] = "running"]
      /\ UNCHANGED <<th, req, ch, expired, cancelled, tokens, sent, lines, counts, panics, crashed>>
  BY DEF HandlerStart
<1>h. /\ Carrier(r).ph = "in" /\ Carrier(r).at = Inside
      /\ \A j \in 1 .. N : Chain[j] = "auth" => Cleared(r)
  BY <1>a, AtHandlerFacts
<1>r. ran'[r] = "running" /\ \A q \in Request \ {r} : ran'[q] = ran[q]
  BY <1>0, <1>a DEF TypeOK
<1>2. TypeOK'
  BY <1>0, <1>a DEF TypeOK
<1>3. Elsewhere(r)
  BY <1>a, <1>r DEF Elsewhere
<1>5. Shape(r)'
  BY <1>s, <1>a DEF Shape, Conn, Work
<1>6. Outcome(r)'
  <2>1. Carrier(r)' = Carrier(r)
    BY <1>a DEF Carrier, Conn, Work
  <2> QED BY <1>h, <1>r, <2>1 DEF Outcome
<1>7. Handover(r)'
  BY <1>s, <1>a DEF Shape, Handover, CtxDone, Conn, Work
<1>8. Clearance(r)'
  BY <1>s, <1>a, <1>h, <1>r DEF Clearance, Cleared, Gor
<1>9. Account(r)'
  BY <1>s, <1>a DEF Account, Uncounted, Settled, Conn, Work
<1>10. Response(r)'
  BY <1>s, <1>a, <1>r DEF Shape, Response, Wrote, Conn, Work
<1> QED BY <1>2, <1>3, <1>5, <1>6, <1>7, <1>8, <1>9, <1>10, FrameReqInv DEF ReqInv

\* The handler writes its response.
LEMMA HandlerWriteInv ==
    ASSUME IInv, NEW r \in Request, NEW g \in Gor, NEW status \in {"h200", "h500"},
           HandlerWrite(r, g, status)
    PROVE  IInv'
<1>0. TypeOK /\ ReqInv(r)
  BY DEF IInv
<1>s. Shape(r) /\ Outcome(r) /\ Handover(r) /\ Clearance(r) /\ Account(r) /\ Response(r)
  BY <1>0 DEF ReqInv
<1>t. \A h \in Gor : th[r][h].at \in Nat /\ th[r][h].base \in Nat /\ N \in Nat /\ N >= 5
  BY <1>0, ChainFacts DEF TypeOK
<1>a. /\ AtHandler(r, g) /\ ran[r] = "running" /\ req[r].kind = "http"
      /\ sent' = [sent EXCEPT ![r] = Append(@, status)]
      /\ UNCHANGED <<th, req, ch, expired, cancelled, tokens, ran, lines, counts, panics, crashed>>
  BY DEF HandlerWrite
<1>h. Conn(r).ph # "idle"
  BY <1>a, AtHandlerFacts
<1>w. /\ sent' \in [Request -> Seq(Codes \cup {"h200", "h500"})] /\ sent'[r] # <<>>
      /\ \A q \in Request \ {r} : sent'[q] = sent[q]
  <2>1. sent \in [Request -> Seq(Codes \cup {"h200", "h500"})]
    BY <1>0 DEF TypeOK
  <2>2. Append(sent[r], status) \in Seq(Codes \cup {"h200", "h500"}) /\ Append(sent[r], status) # <<>>
    <3>1. sent[r] \in Seq(Codes \cup {"h200", "h500"}) /\ status \in Codes \cup {"h200", "h500"}
      BY <2>1
    <3> QED BY <3>1, AppendProperties
  <2> QED BY <1>a, <2>1, <2>2
<1>2. TypeOK'
  BY <1>0, <1>a, <1>w DEF TypeOK
<1>3. Elsewhere(r)
  BY <1>a, <1>w DEF Elsewhere
<1>5. Shape(r)'
  BY <1>s, <1>a DEF Shape, Conn, Work
<1>6. Outcome(r)'
  BY <1>s, <1>a DEF Shape, Outcome, Carrier, Decided, Conn, Work
<1>7. Handover(r)'
  BY <1>s, <1>a DEF Shape, Handover, CtxDone, Conn, Work
<1>8. Clearance(r)'
  BY <1>s, <1>a DEF Clearance, Cleared, Gor
<1>9. Account(r)'
  BY <1>s, <1>a DEF Account, Uncounted, Settled, Conn, Work
<1>10. Response(r)'
  BY <1>s, <1>a, <1>h, <1>w DEF Shape, Response, Wrote, Conn, Work
<1> QED BY <1>2, <1>3, <1>5, <1>6, <1>7, <1>8, <1>9, <1>10, FrameReqInv DEF ReqInv

-----------------------------------------------------------------------------
(* The worker's result and the select.                                     *)

\* The worker publishes its result.
LEMMA WorkerSendInv ==
    ASSUME IInv, NEW r \in Request, WorkerSend(r)
    PROVE  IInv'
<1> DEFINE c == th[r]["work"].code
<1>0. TypeOK /\ ReqInv(r)
  BY DEF IInv
<1>s. Shape(r) /\ Outcome(r) /\ Handover(r) /\ Clearance(r) /\ Account(r) /\ Response(r)
  BY <1>0 DEF ReqInv
<1>t. \A h \in Gor : th[r][h].at \in Nat /\ th[r][h].base \in Nat /\ N \in Nat /\ N >= 5
  BY <1>0, ChainFacts DEF TypeOK
<1>a. /\ th[r]["work"].ph = "out" /\ Exit(r, "work")
      /\ ch' = [ch EXCEPT ![r] = Append(@, c)]
      /\ UNCHANGED <<req, expired, cancelled, tokens, sent, ran, lines, counts, panics, crashed>>
  BY DEF WorkerSend, AtBase
<1>g. "conn" \in Gor \ {"work"} /\ "work" \in Gor
  BY DEF Gor
<1>1. /\ th' \in [Request -> [Gor -> Goroutine]]
      /\ th'[r]["work"].at = th[r]["work"].at /\ th'[r]["work"].base = th[r]["work"].base
      /\ th'[r]["work"].ph = "done" /\ th'[r]["work"].code = c
      /\ th'[r]["conn"] = th[r]["conn"]
      /\ \A q \in Request \ {r} : th'[q] = th[q]
  BY <1>0, <1>a, <1>g, ExitFacts
<1>c. c \in Codes /\ c = th[r]["work"].code
  BY <1>s, <1>a DEF Response, Work
<1> HIDE DEF c
<1>l. /\ ch' \in [Request -> Seq(Codes)] /\ ch'[r] = <<c>>
      /\ \A q \in Request \ {r} : ch'[q] = ch[q]
  <2>1. ch[r] = <<>>
    BY <1>s, <1>a DEF Handover, Work
  <2>2. Append(ch[r], c) = <<c>> /\ <<c>> \in Seq(Codes)
    BY <2>1, <1>c
  <2> QED BY <1>0, <1>a, <2>2 DEF TypeOK
<1>2. TypeOK'
  BY <1>0, <1>1, <1>a, <1>l DEF TypeOK, Goroutine, N
<1>3. Elsewhere(r)
  BY <1>1, <1>a, <1>l DEF Elsewhere
<1>5. Shape(r)'
  BY <1>s, <1>1, <1>a DEF Shape, Conn, Work
<1>6. Outcome(r)'
  BY <1>s, <1>1, <1>a, <1>c DEF Shape, Outcome, Carrier, Decided, Conn, Work
<1>7. Handover(r)'
  BY <1>s, <1>1, <1>a, <1>c, <1>l DEF Shape, Handover, CtxDone, Conn, Work
<1>8. Clearance(r)'
  BY <1>s, <1>1, <1>a DEF Clearance, Cleared, Gor
<1>9. Account(r)'
  BY <1>s, <1>1, <1>a DEF Account, Uncounted, Settled, Conn, Work
<1>10. Response(r)'
  BY <1>s, <1>1, <1>a, <1>c DEF Shape, Response, Wrote, Conn, Work
<1> QED BY <1>2, <1>3, <1>5, <1>6, <1>7, <1>8, <1>9, <1>10, FrameReqInv DEF ReqInv

\* The connection's goroutine takes the worker's result.
LEMMA SelectResultInv ==
    ASSUME IInv, NEW r \in Request, SelectResult(r)
    PROVE  IInv'
<1> DEFINE c == Head(ch[r])
<1>0. TypeOK /\ ReqInv(r)
  BY DEF IInv
<1>s. Shape(r) /\ Outcome(r) /\ Handover(r) /\ Clearance(r) /\ Account(r) /\ Response(r)
  BY <1>0 DEF ReqInv
<1>t. \A h \in Gor : th[r][h].at \in Nat /\ th[r][h].base \in Nat /\ N \in Nat /\ N >= 5
  BY <1>0, ChainFacts DEF TypeOK
<1>a. /\ th[r]["conn"].ph = "select" /\ Up(r, "conn", c)
      /\ ch[r] # <<>> /\ ch' = [ch EXCEPT ![r] = Tail(@)]
      /\ UNCHANGED <<req, expired, cancelled, tokens, sent, ran, lines, counts, panics, crashed>>
  BY DEF SelectResult, Selecting
<1>g. "work" \in Gor \ {"conn"} /\ "conn" \in Gor
  BY DEF Gor
<1>w. th[r]["work"].ph = "done" /\ ch[r] = <<th[r]["work"].code>>
  BY <1>s, <1>a DEF Handover, Work
<1>c. c \in Codes /\ c = th[r]["work"].code
  <2>1. th[r]["work"].code \in Codes
    BY <1>s, <1>w DEF Response, Work
  <2> QED BY <1>w, <2>1
<1>l. /\ ch' \in [Request -> Seq(Codes)] /\ ch'[r] = <<>>
      /\ \A q \in Request \ {r} : ch'[q] = ch[q]
  <2>1. Tail(ch[r]) = <<>> /\ <<>> \in Seq(Codes)
    BY <1>w
  <2> QED BY <1>0, <1>a, <2>1 DEF TypeOK
<1>d. th[r]["conn"].at \in 6 .. N /\ th[r]["conn"].at > 0
  BY <1>s, <1>a DEF Shape, Conn
<1> HIDE DEF c
<1>1. /\ th' \in [Request -> [Gor -> Goroutine]]
      /\ th'[r]["conn"].at = th[r]["conn"].at - 1 /\ th'[r]["conn"].base = th[r]["conn"].base
      /\ th'[r]["conn"].ph = "out" /\ th'[r]["conn"].code = c
      /\ th'[r]["work"] = th[r]["work"]
      /\ \A q \in Request \ {r} : th'[q] = th[q]
  BY <1>0, <1>a, <1>c, <1>d, <1>g, UpFacts
<1>2. TypeOK'
  BY <1>0, <1>1, <1>a, <1>l DEF TypeOK, Goroutine, N
<1>3. Elsewhere(r)
  BY <1>1, <1>a, <1>l DEF Elsewhere
<1>5. Shape(r)'
  BY <1>s, <1>1, <1>a, <1>d, <1>t, <1>g DEF Shape, Conn, Work
<1>6. Outcome(r)'
  BY <1>s, <1>1, <1>a, <1>w DEF Shape, Outcome, Carrier, Decided, Conn, Work
<1>7. Handover(r)'
  BY <1>s, <1>1, <1>a, <1>c, <1>l, <1>w DEF Shape, Handover, CtxDone, Conn, Work
<1>8. Clearance(r)'
  BY <1>s, <1>1, <1>a DEF Clearance, Cleared, Gor
<1>9. Account(r)'
  BY <1>s, <1>1, <1>a, <1>d DEF Account, Uncounted, Settled, Conn, Work
<1>10. Response(r)'
  BY <1>s, <1>1, <1>a, <1>c DEF Shape, Response, Wrote, Conn, Work
<1> QED BY <1>2, <1>3, <1>5, <1>6, <1>7, <1>8, <1>9, <1>10, FrameReqInv DEF ReqInv

\* The context is done first.
LEMMA SelectDoneInv ==
    ASSUME IInv, NEW r \in Request, SelectDone(r)
    PROVE  IInv'
<1> DEFINE c == "DEADLINE_EXCEEDED"
<1>0. TypeOK /\ ReqInv(r)
  BY DEF IInv
<1>s. Shape(r) /\ Outcome(r) /\ Handover(r) /\ Clearance(r) /\ Account(r) /\ Response(r)
  BY <1>0 DEF ReqInv
<1>t. \A h \in Gor : th[r][h].at \in Nat /\ th[r][h].base \in Nat /\ N \in Nat /\ N >= 5
  BY <1>0, ChainFacts DEF TypeOK
<1>a. /\ th[r]["conn"].ph = "select" /\ Up(r, "conn", c)
      /\ CtxDone(r)
      /\ UNCHANGED <<req, ch, expired, cancelled, tokens, sent, ran, lines, counts, panics, crashed>>
  BY DEF SelectDone, Selecting
<1>g. "work" \in Gor \ {"conn"} /\ "conn" \in Gor
  BY DEF Gor
<1>c. c \in Codes /\ c = "DEADLINE_EXCEEDED"
  BY DEF Codes
<1>w. th[r]["work"].ph # "idle"
  BY <1>s, <1>a DEF Shape, Conn, Work
<1>d. th[r]["conn"].at \in 6 .. N /\ th[r]["conn"].at > 0
  BY <1>s, <1>a DEF Shape, Conn
<1> HIDE DEF c
<1>1. /\ th' \in [Request -> [Gor -> Goroutine]]
      /\ th'[r]["conn"].at = th[r]["conn"].at - 1 /\ th'[r]["conn"].base = th[r]["conn"].base
      /\ th'[r]["conn"].ph = "out" /\ th'[r]["conn"].code = c
      /\ th'[r]["work"] = th[r]["work"]
      /\ \A q \in Request \ {r} : th'[q] = th[q]
  BY <1>0, <1>a, <1>c, <1>d, <1>g, UpFacts
<1>2. TypeOK'
  BY <1>0, <1>1, <1>a DEF TypeOK, Goroutine, N
<1>3. Elsewhere(r)
  BY <1>1, <1>a DEF Elsewhere
<1>5. Shape(r)'
  BY <1>s, <1>1, <1>a, <1>d, <1>t, <1>g DEF Shape, Conn, Work
<1>6. Outcome(r)'
  BY <1>s, <1>1, <1>a, <1>w DEF Shape, Outcome, Carrier, Decided, Conn, Work
<1>7. Handover(r)'
  BY <1>s, <1>1, <1>a, <1>c, <1>w DEF Shape, Handover, CtxDone, Conn, Work
<1>8. Clearance(r)'
  BY <1>s, <1>1, <1>a DEF Clearance, Cleared, Gor
<1>9. Account(r)'
  BY <1>s, <1>1, <1>a, <1>d DEF Account, Uncounted, Settled, Conn, Work
<1>10. Response(r)'
  BY <1>s, <1>1, <1>a, <1>c DEF Shape, Response, Wrote, Conn, Work
<1> QED BY <1>2, <1>3, <1>5, <1>6, <1>7, <1>8, <1>9, <1>10, FrameReqInv DEF ReqInv

\* The chain returns to the transport.
LEMMA FinishInv ==
    ASSUME IInv, NEW r \in Request, Finish(r)
    PROVE  IInv'
<1> DEFINE c == th[r]["conn"].code
<1> DEFINE s == IF req[r].kind = "http" /\ c = "ok" THEN sent[r] ELSE Append(sent[r], c)
<1>0. TypeOK /\ ReqInv(r)
  BY DEF IInv
<1>s. Shape(r) /\ Outcome(r) /\ Handover(r) /\ Clearance(r) /\ Account(r) /\ Response(r)
  BY <1>0 DEF ReqInv
<1>t. \A h \in Gor : th[r][h].at \in Nat /\ th[r][h].base \in Nat /\ N \in Nat /\ N >= 5
  BY <1>0, ChainFacts DEF TypeOK
<1>a. /\ th[r]["conn"].ph = "out" /\ th[r]["conn"].at = th[r]["conn"].base /\ Exit(r, "conn")
      /\ sent' = [sent EXCEPT ![r] = s]
      /\ UNCHANGED <<req, ch, expired, cancelled, tokens, ran, lines, counts, panics, crashed>>
  BY DEF Finish, AtBase
<1>g. "work" \in Gor \ {"conn"} /\ "conn" \in Gor
  BY DEF Gor
<1>1. /\ th' \in [Request -> [Gor -> Goroutine]]
      /\ th'[r]["conn"].at = th[r]["conn"].at /\ th'[r]["conn"].base = th[r]["conn"].base
      /\ th'[r]["conn"].ph = "done" /\ th'[r]["conn"].code = c
      /\ th'[r]["work"] = th[r]["work"]
      /\ \A q \in Request \ {r} : th'[q] = th[q]
  BY <1>0, <1>a, <1>g, ExitFacts
<1>c. c \in Codes /\ c = th[r]["conn"].code
  BY <1>s, <1>a DEF Response, Conn
<1>d. th[r]["conn"].at = 0
  BY <1>s, <1>a DEF Shape, Conn
<1>l. /\ s \in Seq(Codes \cup {"h200", "h500"})
      /\ c # "ok" => s # <<>>
      /\ req[r].kind # "http" => s = <<c>>
      /\ Wrote(r)' => Wrote(r)
  <2>1. sent[r] \in Seq(Codes \cup {"h200", "h500"})
    BY <1>0 DEF TypeOK
  <2>2. Append(sent[r], c) \in Seq(Codes \cup {"h200", "h500"}) /\ Append(sent[r], c) # <<>>
    BY <2>1, <1>c
  <2>3. req[r].kind # "http" => s = <<c>>
    <3>1. req[r].kind # "http" => sent[r] = <<>>
      BY <1>s, <1>a DEF Response, Conn
    <3>2. sent[r] = <<>> => Append(sent[r], c) = <<c>>
      BY <1>c
    <3> QED BY <3>1, <3>2
  <2>4. sent'[r] = s
    BY <1>0, <1>a DEF TypeOK
  <2>5. ASSUME NEW k \in DOMAIN Append(sent[r], c), Append(sent[r], c)[k] \in {"h200", "h500"}
        PROVE  Wrote(r)
    <3>1. k \in DOMAIN sent[r] /\ Append(sent[r], c)[k] = sent[r][k]
      BY <2>1, <2>5, <1>c DEF Codes
    <3> QED BY <2>5, <3>1 DEF Wrote
  <2>6. Wrote(r)' => Wrote(r)
    BY <2>4, <2>5 DEF Wrote
  <2> QED BY <2>1, <2>2, <2>3, <2>6
<1> HIDE DEF c, s
<1>w. /\ sent' \in [Request -> Seq(Codes \cup {"h200", "h500"})] /\ sent'[r] = s
      /\ \A q \in Request \ {r} : sent'[q] = sent[q]
  BY <1>0, <1>a, <1>l DEF TypeOK
<1>2. TypeOK'
  BY <1>0, <1>1, <1>a, <1>w DEF TypeOK, Goroutine, N
<1>3. Elsewhere(r)
  BY <1>1, <1>a, <1>w DEF Elsewhere
<1>5. Shape(r)'
  BY <1>s, <1>1, <1>a DEF Shape, Conn, Work
<1>6. Outcome(r)'
  BY <1>s, <1>1, <1>a, <1>c DEF Shape, Outcome, Carrier, Decided, Conn, Work
<1>7. Handover(r)'
  BY <1>s, <1>1, <1>a, <1>c DEF Shape, Handover, CtxDone, Conn, Work
<1>8. Clearance(r)'
  BY <1>s, <1>1, <1>a DEF Clearance, Cleared, Gor
<1>9. Account(r)'
  BY <1>s, <1>1, <1>a, <1>c, <1>d DEF Account, Uncounted, Settled, Conn, Work
<1>10. Response(r)'
  <2>1. Wrote(r)' => ran[r] # "no"
    BY <1>s, <1>l DEF Response
  <2> QED BY <1>s, <1>1, <1>a, <1>c, <1>l, <1>w, <2>1 DEF Response, Conn, Work
<1> QED BY <1>2, <1>3, <1>5, <1>6, <1>7, <1>8, <1>9, <1>10, FrameReqInv DEF ReqInv

\* The deadline fires or the parent context ends.
LEMMA ContextInv ==
    ASSUME IInv, NEW r \in Request, DeadlineFires(r) \/ ParentCancel(r)
    PROVE  IInv'
<1>0. TypeOK /\ ReqInv(r)
  BY DEF IInv
<1>s. Shape(r) /\ Outcome(r) /\ Handover(r) /\ Clearance(r) /\ Account(r) /\ Response(r)
  BY <1>0 DEF ReqInv
<1>t. \A h \in Gor : th[r][h].at \in Nat /\ th[r][h].base \in Nat /\ N \in Nat /\ N >= 5
  BY <1>0, ChainFacts DEF TypeOK
<1>a. /\ UNCHANGED <<th, req, ch, tokens, sent, ran, lines, counts, panics, crashed>>
      /\ expired' \in [Request -> BOOLEAN] /\ cancelled' \in [Request -> BOOLEAN]
      /\ CtxDone(r) => CtxDone(r)'
      /\ \A q \in Request \ {r} : expired'[q] = expired[q] /\ cancelled'[q] = cancelled[q]
  BY <1>0 DEF DeadlineFires, ParentCancel, TypeOK, CtxDone
<1>2. TypeOK'
  BY <1>0, <1>a DEF TypeOK
<1>3. Elsewhere(r)
  BY <1>a DEF Elsewhere
<1>5. Shape(r)'
  BY <1>s, <1>a DEF Shape, Conn, Work
<1>6. Outcome(r)'
  BY <1>s, <1>a DEF Shape, Outcome, Carrier, Decided, Conn, Work
<1>7. Handover(r)'
  BY <1>s, <1>a DEF Handover, Conn, Work
<1>8. Clearance(r)'
  BY <1>s, <1>a DEF Clearance, Cleared, Gor
<1>9. Account(r)'
  BY <1>s, <1>a DEF Account, Uncounted, Settled, Conn, Work
<1>10. Response(r)'
  BY <1>s, <1>a DEF Shape, Response, Wrote, Conn, Work
<1> QED BY <1>2, <1>3, <1>5, <1>6, <1>7, <1>8, <1>9, <1>10, FrameReqInv DEF ReqInv

\* A step that changes at most the bucket and the process's own fate.
LEMMA UntouchedInv ==
    ASSUME IInv, tokens' \in 0 .. Burst, crashed' \in BOOLEAN,
           UNCHANGED <<th, req, ch, expired, cancelled, sent, ran, lines, counts, panics>>
    PROVE  IInv'
<1>1. TypeOK'
  BY DEF IInv, TypeOK
<1>2. ASSUME NEW r \in Request PROVE ReqInv(r)'
  <2>1. ReqInv(r) /\ Conn(r)' = Conn(r) /\ Work(r)' = Work(r)
    BY DEF IInv, Conn, Work
  <2>2. Shape(r)' /\ Handover(r)' /\ Account(r)'
    BY <2>1 DEF ReqInv, Shape, Handover, Account, Uncounted, Settled, CtxDone
  <2>3. Outcome(r)'
    BY <2>1 DEF ReqInv, Outcome, Carrier, Decided
  <2>4. Clearance(r)' /\ Response(r)'
    BY <2>1 DEF ReqInv, Clearance, Cleared, Response, Wrote
  <2> QED BY <2>2, <2>3, <2>4 DEF ReqInv
<1> QED BY <1>1, <1>2 DEF IInv

-----------------------------------------------------------------------------
(* The invariant holds.                                                    *)

\* Before any request has arrived.
LEMMA InitInv == Init => IInv
<1> SUFFICES ASSUME Init PROVE IInv
  OBVIOUS
<1>1. Idle \in Goroutine
  BY ChainFacts DEF Idle, Goroutine
<1>2. TypeOK
  <2>1. th \in [Request -> [Gor -> Goroutine]]
    BY <1>1 DEF Init
  <2>2. crashed \in BOOLEAN /\ tokens \in 0 .. Burst
    BY DEF Init
  <2>3. /\ req \in [Request -> [kind : Kinds \cup {"none"}, op : Op \cup {"none"},
                                 cred : Creds \cup {"none"}]]
        /\ expired \in [Request -> BOOLEAN] /\ cancelled \in [Request -> BOOLEAN]
        /\ ran \in [Request -> {"no", "running", "ok", "HANDLER", "panic"}]
        /\ panics \in [Request -> Nat]
    BY DEF Init
  <2>4. /\ ch \in [Request -> Seq(Codes)] /\ lines \in [Request -> Seq(Codes)]
        /\ counts \in [Request -> Seq(Codes)]
        /\ sent \in [Request -> Seq(Codes \cup {"h200", "h500"})]
    BY DEF Init
  <2> QED BY <2>1, <2>2, <2>3, <2>4 DEF TypeOK, Goroutine, N
<1>3. ASSUME NEW r \in Request PROVE ReqInv(r)
  <2>1. /\ Conn(r) = Idle /\ Work(r) = Idle /\ \A g \in Gor : th[r][g] = Idle
        /\ ch[r] = <<>> /\ sent[r] = <<>> /\ ran[r] = "no"
        /\ lines[r] = <<>> /\ counts[r] = <<>> /\ panics[r] = 0 /\ req[r].kind = "none"
    BY DEF Init, Conn, Work, Gor
  <2>2. Shape(r) /\ Outcome(r) /\ Handover(r) /\ Account(r)
    BY <2>1 DEF Idle, Shape, Outcome, Carrier, Handover, Account, Uncounted
  <2>3. Clearance(r)
    BY <2>1 DEF Idle, Clearance
  <2>4. Response(r)
    BY <2>1 DEF Idle, Response, Wrote
  <2> QED BY <2>2, <2>3, <2>4 DEF ReqInv
<1> QED BY <1>2, <1>3 DEF IInv

\* A goroutine's own steps.
LEMMA StepInv ==
    ASSUME IInv, NEW r \in Request, NEW g \in Gor, Step(r, g)
    PROVE  IInv'
<1>0. TypeOK /\ ReqInv(r)
  BY DEF IInv
<1>1. CASE PassIn(r, g)
  <2>1. /\ th[r][g].ph = "in" /\ th[r][g].at \in 1 .. N /\ Chain[th[r][g].at] # "auth" /\ Down(r, g)
        /\ UNCHANGED <<req, ch, expired, cancelled, tokens, sent, ran, lines, counts, panics, crashed>>
    BY <1>1 DEF PassIn, At, N
  <2>2. tokens' \in 0 .. Burst /\ crashed' \in BOOLEAN
    BY <1>0, <2>1 DEF TypeOK
  <2> QED BY <2>1, <2>2, DownInv
<1>2. CASE AuthPass(r, g)
  <2>1. /\ th[r][g].ph = "in" /\ th[r][g].at \in 1 .. N /\ Down(r, g)
        /\ req[r].op \in AuthSkip \/ AuthVerdict(req[r].cred) = "ok"
        /\ UNCHANGED <<req, ch, expired, cancelled, tokens, sent, ran, lines, counts, panics, crashed>>
    BY <1>2 DEF AuthPass, At, N
  <2>2. Cleared(r)
    BY <2>1 DEF Cleared, AuthVerdict
  <2>3. tokens' \in 0 .. Burst /\ crashed' \in BOOLEAN
    BY <1>0, <2>1 DEF TypeOK
  <2> QED BY <2>1, <2>2, <2>3, DownInv
<1>3. CASE AuthReject(r, g)
  <2>1. /\ th[r][g].ph = "in" /\ th[r][g].at \in 1 .. N /\ Chain[th[r][g].at] = "auth"
        /\ AuthVerdict(req[r].cred) # "ok" /\ Up(r, g, AuthVerdict(req[r].cred))
        /\ UNCHANGED <<req, ch, expired, cancelled, tokens, sent, ran, lines, counts, panics, crashed>>
    BY <1>3 DEF AuthReject, At, N
  <2>2. AuthVerdict(req[r].cred) \in {"UNAUTHORIZED", "VALIDATOR", "RATE_LIMITED"}
    BY <2>1 DEF AuthVerdict
  <2>3. th[r][g].at \in 6 .. N
    BY <2>1, Positions
  <2> QED BY <2>1, <2>2, <2>3, RefuseInv
<1>4. CASE LimitPass(r, g)
  <2>1. /\ th[r][g].ph = "in" /\ th[r][g].at \in 1 .. N /\ Chain[th[r][g].at] # "auth" /\ Down(r, g)
        /\ UNCHANGED <<req, ch, expired, cancelled, sent, ran, lines, counts, panics, crashed>>
        /\ tokens' = tokens \/ (tokens > 0 /\ tokens' = tokens - 1)
    BY <1>4 DEF LimitPass, At, N
  <2>2. tokens' \in 0 .. Burst /\ crashed' \in BOOLEAN
    BY <1>0, <2>1, InputAssumption DEF TypeOK
  <2> QED BY <2>1, <2>2, DownInv
<1>5. CASE LimitReject(r, g)
  <2>1. /\ th[r][g].ph = "in" /\ th[r][g].at \in 1 .. N /\ Chain[th[r][g].at] = "ratelimit"
        /\ Up(r, g, "RATE_LIMITED")
        /\ UNCHANGED <<req, ch, expired, cancelled, tokens, sent, ran, lines, counts, panics, crashed>>
    BY <1>5 DEF LimitReject, At, N
  <2>2. th[r][g].at \in 6 .. N
    BY <2>1, Positions
  <2> QED BY <2>1, <2>2, RefuseInv
<1>6. CASE TimeoutSkipped(r, g)
  <2>1. /\ th[r][g].ph = "in" /\ th[r][g].at \in 1 .. N /\ Chain[th[r][g].at] # "auth" /\ Down(r, g)
        /\ UNCHANGED <<req, ch, expired, cancelled, tokens, sent, ran, lines, counts, panics, crashed>>
    BY <1>6 DEF TimeoutSkipped, At, N
  <2>2. tokens' \in 0 .. Burst /\ crashed' \in BOOLEAN
    BY <1>0, <2>1 DEF TypeOK
  <2> QED BY <2>1, <2>2, DownInv
<1>7. CASE PassOut(r, g) \/ AccessOut(r, g) \/ MetricOut(r, g) \/ Unwind(r, g) \/ Recover(r, g)
  BY <1>7, PassOutInv, AccessOutInv, MetricOutInv, UnwindInv, RecoverInv
<1>8. CASE Crash(r, g)
  <2>1. /\ crashed' = TRUE
        /\ UNCHANGED <<th, req, ch, expired, cancelled, tokens, sent, ran, lines, counts, panics>>
    BY <1>8 DEF Crash
  <2>2. tokens' \in 0 .. Burst /\ crashed' \in BOOLEAN
    BY <1>0, <2>1 DEF TypeOK
  <2> QED BY <2>1, <2>2, UntouchedInv
<1>9. CASE TimeoutFork(r) \/ SelectResult(r) \/ SelectDone(r) \/ Finish(r) \/ WorkerSend(r)
  BY <1>9, TimeoutForkInv, SelectResultInv, SelectDoneInv, FinishInv, WorkerSendInv
<1> QED BY <1>1, <1>2, <1>3, <1>4, <1>5, <1>6, <1>7, <1>8, <1>9 DEF Step

\* Every step of the system preserves the invariant.
LEMMA NextInv == IInv /\ [Next]_vars => IInv'
<1> SUFFICES ASSUME IInv, [Next]_vars PROVE IInv'
  OBVIOUS
<1>0. TypeOK
  BY DEF IInv
<1>1. CASE Refill
  <2>1. /\ tokens' = tokens + 1 /\ tokens < Burst
        /\ UNCHANGED <<th, req, ch, expired, cancelled, sent, ran, lines, counts, panics, crashed>>
    BY <1>1 DEF Refill
  <2>2. tokens' \in 0 .. Burst /\ crashed' \in BOOLEAN
    BY <1>0, <2>1, InputAssumption DEF TypeOK
  <2> QED BY <2>1, <2>2, UntouchedInv
<1>2. ASSUME NEW r \in Request, NEW kind \in Kinds, NEW op \in Op, NEW cred \in Creds,
             Arrive(r, kind, op, cred)
      PROVE  IInv'
  BY <1>2, ArriveInv
<1>3. ASSUME NEW r \in Request, NEW g \in Gor, Step(r, g) PROVE IInv'
  BY <1>3, StepInv
<1>4. ASSUME NEW r \in Request, NEW g \in Gor, Handle(r, g) PROVE IInv'
  <2>1. CASE HandlerStart(r, g)
    BY <2>1, HandlerStartInv
  <2>2. ASSUME NEW status \in {"h200", "h500"}, HandlerWrite(r, g, status) PROVE IInv'
    BY <2>2, HandlerWriteInv
  <2>3. ASSUME NEW code \in Outcomes \ {"panic"}, HandlerReturn(r, g, code) PROVE IInv'
    BY <2>3, HandlerReturnInv
  <2>4. CASE HandlerPanic(r, g)
    BY <2>4, HandlerPanicInv
  <2> QED BY <1>4, <2>1, <2>2, <2>3, <2>4 DEF Handle
<1>5. ASSUME NEW r \in Request, DeadlineFires(r) \/ ParentCancel(r) PROVE IInv'
  BY <1>5, ContextInv
<1>6. CASE UNCHANGED vars
  <2>1. UNCHANGED <<th, req, ch, expired, cancelled, tokens, sent, ran, lines, counts, panics, crashed>>
    BY <1>6 DEF vars
  <2>2. tokens' \in 0 .. Burst /\ crashed' \in BOOLEAN
    BY <1>0, <2>1 DEF TypeOK
  <2> QED BY <2>1, <2>2, UntouchedInv
<1> QED BY <1>1, <1>2, <1>3, <1>4, <1>5, <1>6 DEF Next

\* The invariant, of every behaviour.
LEMMA Invariance == Spec => []IInv
BY InitInv, NextInv, PTL DEF Spec

-----------------------------------------------------------------------------
(* What it says of every chain.                                            *)

\* The state keeps its type, whatever the caller's middlewares and handlers do.
THEOREM TypeCorrect == Spec => []TypeOK
<1>1. IInv => TypeOK
  BY DEF IInv
<1> QED BY <1>1, Invariance, PTL

\* auth.Server, wherever the caller puts it: a handler runs only for a skipped
\* operation or an accepted token.
THEOREM Authorised == Spec => []HandlerAuthorised
<1>1. IInv => HandlerAuthorised
  <2> SUFFICES ASSUME IInv, NEW r \in Request, Has("auth"), ran[r] # "no" PROVE Cleared(r)
    BY DEF HandlerAuthorised, Cleared
  <2>1. PICK i \in DOMAIN Extra : Extra[i] = "auth"
    BY DEF Has
  <2>2. i + 5 \in 1 .. N /\ Chain[i + 5] = "auth"
    BY <2>1, ChainFacts
  <2>3. Clearance(r)
    BY DEF IInv, ReqInv
  <2> QED BY <2>2, <2>3 DEF Clearance
<1> QED BY <1>1, Invariance, PTL

\* An answer's code is what the chain really met: the handler's own result, its
\* panic, a done context, or a refusal before the handler ran.
THEOREM Caused == Spec => []AnswerHasCause
<1>1. IInv => AnswerHasCause
  <2> SUFFICES ASSUME IInv, NEW r \in Request, Conn(r).ph = "done"
               PROVE  CASE Conn(r).code \in {"ok", "HANDLER"} -> ran[r] = Conn(r).code
                        [] Conn(r).code = "PANIC" -> ran[r] = "panic"
                        [] Conn(r).code = "DEADLINE_EXCEEDED" -> CtxDone(r)
                        [] OTHER -> ran[r] = "no"
    BY DEF AnswerHasCause, Answered, Code, Conn
  <2>1. Outcome(r) /\ Handover(r)
    BY DEF IInv, ReqInv
  <2>2. \/ Conn(r).code = "DEADLINE_EXCEEDED" /\ CtxDone(r)
        \/ Decided(r, Conn(r).code)
    BY <2>1 DEF Outcome, Handover, Carrier
  <2> QED BY <2>2 DEF Decided
<1> QED BY <1>1, Invariance, PTL

\* An answered request is counted once: by metric and access, or by recovery.
THEOREM Counted == Spec => []CountedOnce
<1>1. IInv => CountedOnce
  <2> SUFFICES ASSUME IInv, NEW r \in Request, Conn(r).ph = "done"
               PROVE  Len(counts[r]) + panics[r] = 1 /\ lines[r] = counts[r]
    BY DEF CountedOnce, Answered, Conn
  <2>1. Settled(r)
    BY DEF IInv, ReqInv, Account
  <2>2. CASE counts[r] = <<Conn(r).code>> /\ lines[r] = <<Conn(r).code>> /\ panics[r] = 0
    BY <2>2
  <2>3. CASE counts[r] = <<>> /\ lines[r] = <<>> /\ panics[r] = 1
    BY <2>3
  <2> QED BY <2>1, <2>2, <2>3 DEF Settled
<1> QED BY <1>1, Invariance, PTL

-----------------------------------------------------------------------------
(* What cannot happen to an answered request.                              *)

\* Nothing a step does changes the answer of r or its accounts; only the
\* handler of an HTTP request that timeout gave up on may still be writing.
Final(r) ==
    /\ Conn(r)' = Conn(r) /\ req'[r] = req[r]
    /\ counts'[r] = counts[r] /\ lines'[r] = lines[r] /\ panics'[r] = panics[r]
    /\ sent'[r] = sent[r] \/ (req[r].kind = "http" /\ Work(r).ph = "in")

\* Only the goroutine that moves changes, and it is not one that has ended.
LEMMA MoveKeepsConn ==
    ASSUME TypeOK, NEW r \in Request, Answered(r), NEW q \in Request, NEW g \in Gor,
           th[q][g].ph # "done",
           \/ Down(q, g) \/ (\E c : Up(q, g, c)) \/ Exit(q, g) \/ UNCHANGED th
           \/ th' = [th EXCEPT ![q][g].at = @ - 1, ![q][g].ph = "panic"]
           \/ th' = [th EXCEPT ![q][g].at = @ - 1]
    PROVE  Conn(r)' = Conn(r)
<1>1. q # r \/ g # "conn"
  BY DEF Answered
<1>2. /\ \A p \in Request : th[p] \in [Gor -> Goroutine]
      /\ th \in [Request -> [Gor -> Goroutine]] /\ "conn" \in Gor
  BY DEF TypeOK, Goroutine, N, Gor
<1>3. ASSUME NEW t, Becomes(q, g, t) PROVE Conn(r)' = Conn(r)
  BY <1>1, <1>2, <1>3 DEF Becomes, Conn
<1>4. CASE Down(q, g)
  <2>1. Becomes(q, g, [th[q][g] EXCEPT !.at = @ + 1])
    BY <1>2, <1>4 DEF Down, Becomes
  <2> QED BY <1>3, <2>1
<1>5. ASSUME NEW c, Up(q, g, c) PROVE Conn(r)' = Conn(r)
  BY <1>1, <1>2, <1>5 DEF Up, Conn, Gor
<1>6. CASE Exit(q, g)
  <2>1. Becomes(q, g, [th[q][g] EXCEPT !.ph = "done"])
    BY <1>2, <1>6 DEF Exit, Becomes
  <2> QED BY <1>3, <2>1
<1>7. CASE th' = [th EXCEPT ![q][g].at = @ - 1, ![q][g].ph = "panic"]
  <2>1. Becomes(q, g, [th[q][g] EXCEPT !.at = @ - 1, !.ph = "panic"])
    BY <1>2, <1>7 DEF Becomes
  <2> QED BY <1>3, <2>1
<1>8. CASE th' = [th EXCEPT ![q][g].at = @ - 1]
  <2>1. Becomes(q, g, [th[q][g] EXCEPT !.at = @ - 1])
    BY <1>2, <1>8 DEF Becomes
  <2> QED BY <1>3, <2>1
<1>9. CASE UNCHANGED th
  BY <1>9 DEF Conn
<1> QED BY <1>4, <1>5, <1>6, <1>7, <1>8, <1>9

\* The worker of an answered request is inside timeout, where recovery, access
\* and metric are not.
LEMMA WorkerInside ==
    ASSUME IInv, NEW r \in Request, Answered(r), NEW g \in Gor,
           th[r][g].ph \in {"out", "panic"}, th[r][g].at \in 1 .. N, th[r][g].at > th[r][g].base
    PROVE  Chain[th[r][g].at] \notin {"recovery", "access", "metric"}
<1>1. g = "work" /\ Shape(r)
  BY DEF Answered, Gor, IInv, ReqInv
<1>2. th[r][g].base \in 6 .. N /\ N \in Nat
  BY <1>1, ChainFacts DEF Shape, Work
<1>3. th[r][g].at \in 6 .. N
  BY <1>2
<1> QED BY <1>3, ChainFacts

\* The chain's own steps.
LEMMA StepFinal ==
    ASSUME IInv, NEW r \in Request, Answered(r), NEW q \in Request, NEW g \in Gor, Step(q, g)
    PROVE  Final(r)
<1>0. TypeOK
  BY DEF IInv
<1>1. CASE PassIn(q, g) \/ AuthPass(q, g) \/ AuthReject(q, g) \/ LimitPass(q, g)
           \/ LimitReject(q, g) \/ TimeoutSkipped(q, g)
  <2>1. /\ th[q][g].ph = "in" /\ (Down(q, g) \/ \E c : Up(q, g, c))
        /\ UNCHANGED <<req, sent, lines, counts, panics>>
    BY <1>1 DEF PassIn, AuthPass, AuthReject, LimitPass, LimitReject, TimeoutSkipped, At
  <2>2. Conn(r)' = Conn(r)
    BY <1>0, <2>1, MoveKeepsConn
  <2> QED BY <2>1, <2>2 DEF Final
<1>2. CASE PassOut(q, g) \/ Unwind(q, g) \/ Crash(q, g)
  <2>1. /\ th[q][g].ph \in {"out", "panic"}
        /\ (\E c : Up(q, g, c)) \/ th' = [th EXCEPT ![q][g].at = @ - 1] \/ UNCHANGED th
        /\ UNCHANGED <<req, sent, lines, counts, panics>>
    BY <1>2 DEF PassOut, Unwind, Crash, Returning, At, AtBase
  <2>2. Conn(r)' = Conn(r)
    BY <1>0, <2>1, MoveKeepsConn
  <2> QED BY <2>1, <2>2 DEF Final
<1>3. CASE AccessOut(q, g) \/ MetricOut(q, g) \/ Recover(q, g)
  <2>1. /\ th[q][g].ph \in {"out", "panic"} /\ th[q][g].at \in 1 .. N /\ th[q][g].at > th[q][g].base
        /\ Chain[th[q][g].at] \in {"recovery", "access", "metric"} /\ \E c : Up(q, g, c)
        /\ UNCHANGED <<req, sent>>
    BY <1>3 DEF AccessOut, MetricOut, Recover, Returning, At, N
  <2>2. Conn(r)' = Conn(r)
    BY <1>0, <2>1, MoveKeepsConn
  <2>3. q # r
    BY <2>1, WorkerInside
  <2>4. counts'[r] = counts[r] /\ lines'[r] = lines[r] /\ panics'[r] = panics[r]
    BY <1>0, <1>3, <2>3 DEF AccessOut, MetricOut, Recover, TypeOK
  <2> QED BY <2>1, <2>2, <2>4 DEF Final
<1>4. CASE TimeoutFork(q)
  <2>1. /\ q # r
        /\ UNCHANGED <<req, sent, lines, counts, panics>>
    BY <1>4 DEF TimeoutFork, At, Answered
  <2>2. th'[r] = th[r]
    BY <1>0, <1>4, <2>1 DEF TimeoutFork, TypeOK
  <2> QED BY <2>1, <2>2 DEF Final, Conn
<1>5. CASE SelectResult(q) \/ SelectDone(q)
  <2>1. /\ th[q]["conn"].ph = "select" /\ (\E c : Up(q, "conn", c)) /\ "conn" \in Gor
        /\ UNCHANGED <<req, sent, lines, counts, panics>>
    BY <1>5 DEF SelectResult, SelectDone, Selecting, Gor
  <2>2. Conn(r)' = Conn(r)
    BY <1>0, <2>1, MoveKeepsConn
  <2> QED BY <2>1, <2>2 DEF Final
<1>6. CASE Finish(q)
  <2>1. /\ th[q]["conn"].ph = "out" /\ Exit(q, "conn") /\ "conn" \in Gor /\ q # r
        /\ UNCHANGED <<req, lines, counts, panics>>
    BY <1>6 DEF Finish, AtBase, Gor, Answered
  <2>2. Conn(r)' = Conn(r)
    BY <1>0, <2>1, MoveKeepsConn
  <2>3. sent'[r] = sent[r]
    BY <1>0, <1>6, <2>1 DEF Finish, TypeOK
  <2> QED BY <2>1, <2>2, <2>3 DEF Final
<1>7. CASE WorkerSend(q)
  <2>1. /\ th[q]["work"].ph = "out" /\ Exit(q, "work") /\ "work" \in Gor
        /\ UNCHANGED <<req, sent, lines, counts, panics>>
    BY <1>7 DEF WorkerSend, AtBase, Gor
  <2>2. Conn(r)' = Conn(r)
    BY <1>0, <2>1, MoveKeepsConn
  <2> QED BY <2>1, <2>2 DEF Final
<1> QED BY <1>1, <1>2, <1>3, <1>4, <1>5, <1>6, <1>7 DEF Step

\* The handler's steps.
LEMMA HandleFinal ==
    ASSUME IInv, NEW r \in Request, Answered(r), NEW q \in Request, NEW g \in Gor, Handle(q, g)
    PROVE  Final(r)
<1>0. TypeOK
  BY DEF IInv
<1>1. th[q][g].ph = "in" /\ (q = r => g = "work")
  BY DEF Handle, HandlerStart, HandlerWrite, HandlerReturn, HandlerPanic, AtHandler, Answered, Gor
<1>2. UNCHANGED <<req, lines, counts, panics>>
  BY DEF Handle, HandlerStart, HandlerWrite, HandlerReturn, HandlerPanic
<1>3. \/ UNCHANGED th \/ (\E c : Up(q, g, c))
      \/ th' = [th EXCEPT ![q][g].at = @ - 1, ![q][g].ph = "panic"]
  BY DEF Handle, HandlerStart, HandlerWrite, HandlerReturn, HandlerPanic
<1>4. Conn(r)' = Conn(r)
  BY <1>0, <1>1, <1>3, MoveKeepsConn
<1>5. sent'[r] = sent[r] \/ (req[r].kind = "http" /\ Work(r).ph = "in")
  <2>1. ASSUME NEW status \in {"h200", "h500"}, HandlerWrite(q, g, status)
        PROVE  sent'[r] = sent[r] \/ (req[r].kind = "http" /\ Work(r).ph = "in")
    <3>1. req[q].kind = "http" /\ sent' = [sent EXCEPT ![q] = Append(@, status)]
      BY <2>1 DEF HandlerWrite
    <3> QED BY <1>0, <1>1, <3>1 DEF TypeOK, Work
  <2> QED BY <2>1 DEF Handle, HandlerStart, HandlerReturn, HandlerPanic
<1> QED BY <1>2, <1>4, <1>5 DEF Final

\* An answer stands: once a request is answered, nothing its abandoned worker
\* or another request does changes the code it was answered with, its line, its
\* counts or what the client got, in every chain; only the handler of a raw
\* HTTP request that timeout gave up on can still write to the response.
THEOREM AnswerStands == Spec => [][\A r \in Request : Answered(r) => Final(r)]_vars
<1> DEFINE Stands == \A r \in Request : Answered(r) => Final(r)
<1>1. IInv /\ [Next]_vars => [Stands]_vars
  <2> SUFFICES ASSUME IInv, Next, NEW r \in Request, Answered(r) PROVE Final(r)
    OBVIOUS
  <2>0. TypeOK
    BY DEF IInv
  <2>1. CASE Refill
    BY <2>1 DEF Refill, Final, Conn
  <2>2. ASSUME NEW q \in Request, NEW kind \in Kinds, NEW op \in Op, NEW cred \in Creds,
               Arrive(q, kind, op, cred)
        PROVE  Final(r)
    <3>1. q # r /\ UNCHANGED <<sent, lines, counts, panics>>
      BY <2>2 DEF Arrive, Answered, Idle
    <3>2. th'[r] = th[r] /\ req'[r] = req[r]
      BY <2>0, <2>2, <3>1 DEF Arrive, TypeOK
    <3> QED BY <3>1, <3>2 DEF Final, Conn
  <2>3. ASSUME NEW q \in Request, NEW g \in Gor, Step(q, g) \/ Handle(q, g) PROVE Final(r)
    BY <2>3, StepFinal, HandleFinal
  <2>4. ASSUME NEW q \in Request, DeadlineFires(q) \/ ParentCancel(q) PROVE Final(r)
    BY <2>4 DEF DeadlineFires, ParentCancel, Final, Conn
  <2> QED BY <2>1, <2>2, <2>3, <2>4 DEF Next
<1> HIDE DEF Stands
<1>2. Spec => [][Stands]_vars
  BY <1>1, Invariance, PTL DEF Spec
<1> QED BY <1>2 DEF Stands

-----------------------------------------------------------------------------
(* What it says of the chains that leave something out.                    *)

\* Without timeout no worker exists.
LEMMA NoWorker ==
    ASSUME IInv, ~ Has("timeout"), NEW r \in Request
    PROVE  Work(r).ph = "idle"
<1>1. Shape(r)
  BY DEF IInv, ReqInv
<1>2. ASSUME Work(r).ph # "idle" PROVE FALSE
  <2>1. Work(r).base \in 6 .. N /\ Chain[Work(r).base] = "timeout"
    BY <1>1, <1>2 DEF Shape
  <2>2. Extra[Work(r).base - 5] = "timeout" /\ Work(r).base - 5 \in DOMAIN Extra
    <3>1. N = 5 + Len(Extra) /\ Len(Extra) \in Nat /\ DOMAIN Extra = 1 .. Len(Extra)
      BY ExtraLength
    <3> QED BY <2>1, <3>1, ChainFacts
  <2> QED BY <2>2 DEF Has
<1> QED BY <1>2

\* Only a crash ends the process, and only ratelimit takes a token.
LEMMA StepFrame ==
    ASSUME NEW r \in Request, NEW g \in Gor, Step(r, g) \/ Handle(r, g)
    PROVE  (crashed' = crashed \/ Crash(r, g)) /\ (tokens' = tokens \/ LimitPass(r, g))
<1>1. CASE PassIn(r, g) \/ AuthPass(r, g) \/ AuthReject(r, g) \/ LimitReject(r, g)
           \/ TimeoutSkipped(r, g)
  BY <1>1 DEF PassIn, AuthPass, AuthReject, LimitReject, TimeoutSkipped
<1>2. CASE PassOut(r, g) \/ AccessOut(r, g) \/ MetricOut(r, g) \/ Unwind(r, g) \/ Recover(r, g)
  BY <1>2 DEF PassOut, AccessOut, MetricOut, Unwind, Recover
<1>3. CASE TimeoutFork(r) \/ SelectResult(r) \/ SelectDone(r) \/ Finish(r) \/ WorkerSend(r)
  BY <1>3 DEF TimeoutFork, SelectResult, SelectDone, Finish, WorkerSend
<1>4. CASE LimitPass(r, g) \/ Crash(r, g)
  BY <1>4 DEF LimitPass, Crash
<1>5. CASE Handle(r, g)
  BY <1>5 DEF Handle, HandlerStart, HandlerWrite, HandlerReturn, HandlerPanic
<1> QED BY <1>1, <1>2, <1>3, <1>4, <1>5 DEF Step

\* Nothing else does either.
LEMMA OtherFrame ==
    ASSUME NEW r \in Request,
           \/ \E kind \in Kinds, op \in Op, cred \in Creds : Arrive(r, kind, op, cred)
           \/ DeadlineFires(r) \/ ParentCancel(r)
    PROVE  crashed' = crashed /\ tokens' = tokens
BY DEF Arrive, DeadlineFires, ParentCancel

\* recovery.Server is outermost: without a goroutine of timeout's, a handler's
\* panic never takes the process down.
THEOREM PanicsContained == ~ Has("timeout") => (Spec => []PanicsNeverEscape)
<1> SUFFICES ASSUME ~ Has("timeout") PROVE Spec => []PanicsNeverEscape
  OBVIOUS
<1>1. Init => PanicsNeverEscape
  BY DEF Init, PanicsNeverEscape
<1>2. IInv /\ PanicsNeverEscape /\ [Next]_vars => PanicsNeverEscape'
  <2> SUFFICES ASSUME IInv, ~ crashed, [Next]_vars PROVE crashed' = FALSE
    BY DEF PanicsNeverEscape
  <2>1. ASSUME NEW r \in Request, NEW g \in Gor, Crash(r, g) PROVE FALSE
    <3>1. th[r][g].ph = "panic" /\ th[r][g].at = th[r][g].base
      BY <2>1 DEF Crash, AtBase
    <3>2. Shape(r) /\ Work(r).ph = "idle"
      BY NoWorker DEF IInv, ReqInv
    <3> QED BY <3>1, <3>2 DEF Shape, Conn, Work, Gor
  <2>2. crashed' = crashed
    <3>1. CASE Refill
      BY <3>1 DEF Refill
    <3>2. CASE UNCHANGED vars
      BY <3>2 DEF vars
    <3> QED BY <2>1, <3>1, <3>2, StepFrame, OtherFrame DEF Next
  <2>3. crashed \in BOOLEAN
    BY DEF IInv, TypeOK
  <2> QED BY <2>2, <2>3
<1> QED BY <1>1, <1>2, Invariance, PTL DEF Spec

\* wrapHandler: without timeout an error reaches the HTTP client as an error,
\* and only a panic's error body follows the handler's own output.
THEOREM ErrorsReachTheClient == ~ Has("timeout") => (Spec => []ErrorsSurface)
<1> SUFFICES ASSUME ~ Has("timeout") PROVE Spec => []ErrorsSurface
  OBVIOUS
<1>1. IInv => ErrorsSurface
  <2> SUFFICES ASSUME IInv, NEW r \in Request, Conn(r).ph = "done", req[r].kind = "http",
                      Conn(r).code # "ok"
               PROVE  sent[r] # <<>> /\ (Wrote(r) => Conn(r).code = "PANIC")
    BY DEF ErrorsSurface, Answered, Code, Conn
  <2>1. Outcome(r) /\ Response(r) /\ Work(r).ph = "idle"
    BY NoWorker DEF IInv, ReqInv
  <2>2. Decided(r, Conn(r).code)
    BY <2>1 DEF Outcome, Carrier
  <2> QED BY <2>1, <2>2 DEF Response, Decided
<1> QED BY <1>1, Invariance, PTL

\* A gRPC server's access line says ok exactly when the client got a reply.
THEOREM LogsTheAnswer == Kinds \subseteq {"grpc"} => (Spec => []LogsFinalCode)
<1> SUFFICES ASSUME Kinds \subseteq {"grpc"} PROVE Spec => []LogsFinalCode
  OBVIOUS
<1>1. IInv => LogsFinalCode
  <2> SUFFICES ASSUME IInv, NEW r \in Request, Conn(r).ph = "done", lines[r] # <<>>
               PROVE  lines[r][1] = "ok" <=> Succeeded(r)
    BY DEF LogsFinalCode, Answered, Conn
  <2>1. Settled(r) /\ Response(r)
    BY DEF IInv, ReqInv, Account
  <2>2. req[r].kind # "http"
    BY DEF IInv, TypeOK
  <2>3. sent[r] = <<Conn(r).code>> /\ Conn(r).code \in Codes
    BY <2>1, <2>2 DEF Response
  <2>4. lines[r] = <<Conn(r).code>>
    BY <2>1 DEF Settled
  <2>5. lines[r][1] = Conn(r).code /\ Head(sent[r]) = Conn(r).code /\ sent[r] # <<>>
    BY <2>3, <2>4
  <2> QED BY <2>3, <2>5 DEF Succeeded, Codes
<1> QED BY <1>1, Invariance, PTL

\* Wherever ratelimit is, auth is somewhere before it.
AuthBeforeLimit ==
    \A i \in DOMAIN Extra : Extra[i] = "ratelimit" =>
        \E j \in DOMAIN Extra : j < i /\ Extra[j] = "auth"

\* With auth before ratelimit, a request that auth refuses takes no token.
THEOREM OnlyClearedSpend == AuthBeforeLimit => (Spec => AnonymousSpendsNothing)
<1> SUFFICES ASSUME AuthBeforeLimit PROVE Spec => AnonymousSpendsNothing
  OBVIOUS
<1> DEFINE Spends == tokens' < tokens => \E r \in Request, g \in Gor :
                        /\ At(r, g, "in", "ratelimit") /\ th'[r][g] # th[r][g]
                        /\ req[r].op \in AuthSkip \/ req[r].cred = "good"
<1>1. IInv /\ [Next]_vars => [Spends]_vars
  <2> SUFFICES ASSUME IInv, Next, tokens' < tokens
               PROVE  \E r \in Request, g \in Gor :
                        /\ At(r, g, "in", "ratelimit") /\ th'[r][g] # th[r][g]
                        /\ req[r].op \in AuthSkip \/ req[r].cred = "good"
    OBVIOUS
  <2>0. TypeOK /\ tokens \in Nat /\ ~ tokens < tokens /\ ~ tokens + 1 < tokens
    BY InputAssumption DEF IInv, TypeOK
  <2>1. PICK r \in Request, g \in Gor : LimitPass(r, g)
    <3>1. CASE Refill
      BY <2>0, <3>1 DEF Refill
    <3> QED BY <2>0, <3>1, StepFrame, OtherFrame DEF Next
  <2>2. /\ At(r, g, "in", "ratelimit") /\ Down(r, g) /\ th[r][g].ph = "in"
        /\ th[r][g].at \in 1 .. N /\ Chain[th[r][g].at] = "ratelimit"
    BY <2>1 DEF LimitPass, At, N
  <2>3. th'[r][g] # th[r][g]
    <3>1. th[r][g].at < Inside /\ th[r][g].at \in Nat
      BY <2>2, ChainFacts
    <3>2. th'[r][g].at = th[r][g].at + 1
      BY <2>0, <2>2, <3>1, DownFacts
    <3> QED BY <3>1, <3>2
  <2>4. Cleared(r)
    <3>1. th[r][g].at \in 6 .. N
      BY <2>2, Positions
    <3>2. N = 5 + Len(Extra) /\ Len(Extra) \in Nat /\ DOMAIN Extra = 1 .. Len(Extra)
      BY ExtraLength
    <3>3. th[r][g].at - 5 \in DOMAIN Extra /\ Extra[th[r][g].at - 5] = "ratelimit"
      BY <2>2, <3>1, <3>2, ChainFacts
    <3>4. PICK j \in DOMAIN Extra : j < th[r][g].at - 5 /\ Extra[j] = "auth"
      BY <3>3 DEF AuthBeforeLimit
    <3>5. j + 5 \in 1 .. N /\ Chain[j + 5] = "auth" /\ th[r][g].at > j + 5
      BY <3>1, <3>2, <3>4, ChainFacts
    <3>6. Clearance(r)
      BY DEF IInv, ReqInv
    <3> QED BY <2>2, <3>5, <3>6 DEF Clearance
  <2> QED BY <2>2, <2>3, <2>4 DEF Cleared
<1> HIDE DEF Spends
<1>2. Spec => [][Spends]_vars
  BY <1>1, Invariance, PTL DEF Spec
<1> QED BY <1>2 DEF Spends, AnonymousSpendsNothing

\* The two conditions are those of kris-beta's chain.
LEMMA BetaConditions ==
    ASSUME Extra = BetaExtra
    PROVE  ~ Has("timeout") /\ AuthBeforeLimit
<1>1. DOMAIN BetaExtra = {1, 2} /\ BetaExtra[1] = "auth" /\ BetaExtra[2] = "ratelimit"
  BY DEF BetaExtra
<1> QED BY <1>1 DEF Has, AuthBeforeLimit

=============================================================================
