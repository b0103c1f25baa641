----------------------------- MODULE CorsProofs -----------------------------
(***************************************************************************)
(* Proofs about Cors for every set of origins and every policy.  What the  *)
(* shared cache keeps is always what the filter would say again (Honest),  *)
(* so what a page may see of it depends on the policy, the page and the    *)
(* client it was made for alone.                                           *)
(***************************************************************************)
EXTENDS Cors, TLAPS

States == {"idle", "asked", "refused", "sending", "done", "unseen"}

Typed ==
    /\ policy \in [any : BOOLEAN, origins : SUBSET Origin, listed : SUBSET Guarded,
                   credentials : BOOLEAN]
    /\ got \in [page : Origin \cup {NoOrigin}, seen : {"nothing", "response", "error"},
                for : Origin \cup {NoOrigin}, credentials : BOOLEAN]
    /\ write \in [page : Origin \cup {NoOrigin}, needs : SUBSET Guarded,
                  credentials : BOOLEAN, st : States]
    /\ write.st # "idle" => write.page \in Origin

\* Every cached response carries the headers of the client it was made for.
Honest == \A e \in cache : e.for \in Origin \cup {NoOrigin} /\ e.headers = HeadersFor(e.for)

\* The half of ForeignKeptOut about writes: the answer is for the pages the
\* policy names, and without an approval only simple requests go out.
WritesPermitted ==
    /\ write.st = "done" => Permitted(write.page)
    /\ write.st \in {"sending", "unseen"} /\ write.needs # {} => Permitted(write.page)

IInv == Typed /\ Honest /\ WritesPermitted /\ ReadsDecided

-----------------------------------------------------------------------------
\* Without the wildcard the filter names the origin and says Vary.
LEMMA NamedOrigin ==
    ASSUME NEW o, o # NoOrigin, originAllowed(o), ~ (policy.any /\ ~ policy.credentials)
    PROVE  /\ HeadersFor(o).vary /\ HeadersFor(o).allow = o
           /\ HeadersFor(o).credentials = policy.credentials
<1>1. ~ (policy.any /\ ~ policy.credentials) = TRUE
  OBVIOUS
<1>2. HeadersFor(o) = [allow |-> IF policy.any /\ ~ policy.credentials THEN "*" ELSE o,
                       vary |-> ~ (policy.any /\ ~ policy.credentials),
                       credentials |-> policy.credentials]
  BY Zenon DEF HeadersFor
<1>3. HeadersFor(o) = [allow |-> o, vary |-> TRUE, credentials |-> policy.credentials]
  BY <1>1, <1>2, Zenon
<1> QED BY <1>3

\* A browser shows a page a response the cache may serve it exactly if the
\* policy allows the page, its credentials and the client it was made for.
LEMMA AcceptsExactly ==
    ASSUME NEW o \in Origin, NEW e, e.for \in Origin \cup {NoOrigin},
           e.headers = HeadersFor(e.for), Serves(e, o), Typed,
           NEW credentials \in BOOLEAN
    PROVE  Accepts(o, e.headers, credentials) <=>
             /\ Permitted(o) /\ (credentials => policy.credentials)
             /\ e.for # NoOrigin /\ Permitted(e.for)
<1>1. CASE e.for = NoOrigin \/ ~ Permitted(e.for)
  <2>1. e.headers.allow = "none"
    BY <1>1 DEF HeadersFor, Bare, originAllowed, Permitted
  <2> QED BY <1>1, <2>1, NoHeaderAssumption DEF Accepts
<1>2. CASE e.for # NoOrigin /\ Permitted(e.for) /\ policy.any /\ ~ policy.credentials
  <2>1. e.headers.allow = "*" /\ ~ e.headers.credentials
    BY <1>2 DEF HeadersFor, originAllowed, Permitted
  <2> QED BY <1>2, <2>1 DEF Accepts, Permitted
<1>3. CASE e.for # NoOrigin /\ Permitted(e.for) /\ ~ (policy.any /\ ~ policy.credentials)
  <2>1. /\ e.headers.vary /\ e.headers.allow = e.for
        /\ e.headers.credentials = policy.credentials
    BY <1>3, NamedOrigin DEF originAllowed, Permitted
  <2>2. e.for = o
    BY <2>1 DEF Serves
  <2>3. CASE o = "*"
    <3>1. Accepts(o, e.headers, credentials) <=> (credentials => policy.credentials)
      BY <2>1, <2>2, <2>3 DEF Accepts
    <3> QED BY <1>3, <2>2, <3>1
  <2>4. CASE o # "*"
    <3>1. Accepts(o, e.headers, credentials) <=> (credentials => policy.credentials)
      BY <2>1, <2>2, <2>4 DEF Accepts
    <3> QED BY <1>3, <2>2, <3>1
  <2> QED BY <2>3, <2>4
<1> QED BY <1>1, <1>2, <1>3

\* Delivering a response to a page keeps what pages are shown.
LEMMA DeliverInv ==
    ASSUME IInv, NEW o \in Origin, NEW e, e.for \in Origin \cup {NoOrigin},
           e.headers = HeadersFor(e.for), Serves(e, o),
           NEW credentials \in BOOLEAN, Deliver(o, e, credentials),
           policy' = policy, write' = write
    PROVE  Typed' /\ WritesPermitted' /\ ReadsDecided'
<1> DEFINE v == IF Accepts(o, e.headers, credentials) THEN "response" ELSE "error"
<1>1. /\ got' = [page |-> o, for |-> e.for, credentials |-> credentials, seen |-> v]
      /\ v \in {"nothing", "response", "error"}
      /\ v = "response" <=> Accepts(o, e.headers, credentials)
  BY DEF Deliver
<1>2. \A p : Permitted(p)' <=> Permitted(p)
  BY DEF Permitted
<1>3. Accepts(o, e.headers, credentials) <=>
         /\ Permitted(o) /\ (credentials => policy.credentials)
         /\ e.for # NoOrigin /\ Permitted(e.for)
  BY AcceptsExactly DEF IInv
<1> HIDE DEF v
<1>4. Typed'
  BY <1>1 DEF IInv, Typed
<1>5. ReadsDecided'
  <2>1. /\ got'.page = o /\ got'.for = e.for /\ got'.credentials = credentials
        /\ got'.seen = v
    BY <1>1
  <2>2. /\ Permitted(got.page)' <=> Permitted(o)
        /\ Permitted(got.for)' <=> Permitted(e.for)
    BY <1>2, <2>1 DEF Permitted
  <2> QED BY <1>1, <1>3, <2>1, <2>2 DEF ReadsDecided
<1>6. WritesPermitted'
  BY DEF IInv, WritesPermitted, Permitted
<1> QED BY <1>4, <1>5, <1>6

\* Steps that only change the cache or a write keep what pages have seen.
LEMMA ReadsFrame ==
    ASSUME IInv, policy' = policy, got' = got
    PROVE  ReadsDecided'
BY DEF IInv, ReadsDecided, Permitted

\* A write moves on only where the policy names its page, or it is simple.
LEMMA WriteMoves ==
    ASSUME IInv, NEW o \in Origin, NEW needs \in SUBSET Guarded, NEW credentials \in BOOLEAN,
           NEW s \in States,
           write' = [page |-> o, needs |-> needs, credentials |-> credentials, st |-> s],
           s = "done" => Permitted(o),
           s \in {"sending", "unseen"} /\ needs # {} => Permitted(o),
           UNCHANGED <<policy, cache, got>>
    PROVE  IInv'
<1>0. /\ write'.page = o /\ write'.needs = needs /\ write'.st = s
      /\ write' \in [page : Origin \cup {NoOrigin}, needs : SUBSET Guarded,
                     credentials : BOOLEAN, st : States]
  OBVIOUS
<1>1. Typed'
  BY <1>0 DEF IInv, Typed
<1>2. Honest'
  BY DEF IInv, Honest, HeadersFor, originAllowed
<1>3. WritesPermitted'
  BY <1>0 DEF WritesPermitted, Permitted
<1> QED BY <1>1, <1>2, <1>3, ReadsFrame DEF IInv

\* The same, for a step of the write in progress.
LEMMA WriteSteps ==
    ASSUME IInv, write.st # "idle", NEW s \in States, write' = [write EXCEPT !.st = s],
           s = "done" => Permitted(write.page),
           s \in {"sending", "unseen"} /\ write.needs # {} => Permitted(write.page),
           UNCHANGED <<policy, cache, got>>
    PROVE  IInv'
<1>1. /\ write.page \in Origin /\ write.needs \in SUBSET Guarded /\ write.credentials \in BOOLEAN
      /\ write' = [page |-> write.page, needs |-> write.needs,
                   credentials |-> write.credentials, st |-> s]
  BY DEF IInv, Typed
<1> QED BY <1>1, WriteMoves

\* Every policy New can be given starts in order.
LEMMA InitInv == Init => IInv
<1> SUFFICES ASSUME Init PROVE IInv
  OBVIOUS
<1>1. Typed
  BY DEF Init, Typed, States
<1>2. Honest /\ WritesPermitted /\ ReadsDecided
  BY DEF Init, Honest, WritesPermitted, ReadsDecided
<1> QED BY <1>1, <1>2 DEF IInv

\* Every step of the pages, the browsers and the cache keeps the invariant.
LEMMA NextInv == IInv /\ [Next]_vars => IInv'
<1> SUFFICES ASSUME IInv, [Next]_vars PROVE IInv'
  OBVIOUS
<1>0. Typed /\ Honest /\ WritesPermitted
  BY DEF IInv
<1>1. ASSUME policy' = policy PROVE \A o : HeadersFor(o)' = HeadersFor(o)
  BY <1>1 DEF HeadersFor, originAllowed
<1>2. ASSUME NEW o \in Origin, NEW credentials \in BOOLEAN, GetFromService(o, credentials)
      PROVE  IInv'
  <2> DEFINE e == [headers |-> HeadersFor(o), for |-> o]
  <2>1. e.for = o /\ e.headers = HeadersFor(e.for) /\ Serves(e, o)
    BY DEF Serves
  <2>2. /\ Deliver(o, e, credentials) /\ policy' = policy /\ write' = write
        /\ cache' = cache \/ cache' = cache \cup {e}
    BY <1>2 DEF GetFromService
  <2>3. Honest'
    BY <2>1, <2>2, <1>0, <1>1 DEF Honest
  <2> HIDE DEF e
  <2> QED BY <2>1, <2>2, <2>3, DeliverInv DEF IInv
<1>3. CASE GetDirectly
  <2>1. Honest'
    BY <1>0, <1>1, <1>3 DEF GetDirectly, Honest
  <2>2. Typed' /\ WritesPermitted'
    BY <1>0, <1>3 DEF GetDirectly, Typed, WritesPermitted, Permitted
  <2> QED BY <1>3, <2>1, <2>2, ReadsFrame DEF IInv, GetDirectly
<1>4. ASSUME NEW o \in Origin, NEW credentials \in BOOLEAN, NEW e \in cache,
             GetFromCache(o, e, credentials)
      PROVE  IInv'
  <2>1. /\ Deliver(o, e, credentials) /\ Serves(e, o)
        /\ policy' = policy /\ write' = write /\ cache' = cache
    BY <1>4 DEF GetFromCache
  <2>2. e.for \in Origin \cup {NoOrigin} /\ e.headers = HeadersFor(e.for)
    BY <1>0 DEF Honest
  <2>3. Honest'
    BY <2>1, <1>0, <1>1 DEF Honest
  <2> QED BY <2>1, <2>2, <2>3, DeliverInv DEF IInv
<1>5. ASSUME NEW e \in cache, Evict(e) PROVE IInv'
  <2>1. Honest'
    BY <1>0, <1>1, <1>5 DEF Evict, Honest
  <2>2. Typed' /\ WritesPermitted'
    BY <1>0, <1>5 DEF Evict, Typed, WritesPermitted, Permitted
  <2> QED BY <1>5, <2>1, <2>2, ReadsFrame DEF IInv, Evict
<1>6. ASSUME NEW o \in Origin, NEW credentials \in BOOLEAN, NEW needs \in SUBSET Guarded,
             PageWrites(o, needs, credentials)
      PROVE  IInv'
  <2>1. PICK s : s = IF needs = {} \/ Approved(o, needs, credentials) THEN "sending" ELSE "asked"
    OBVIOUS
  <2>2. /\ write' = [page |-> o, needs |-> needs, credentials |-> credentials, st |-> s]
        /\ UNCHANGED <<policy, cache, got>>
    BY <1>6, <2>1 DEF PageWrites
  <2>3. s \in States /\ s # "done" /\ s # "unseen"
    BY <2>1 DEF States
  <2>4. s = "sending" /\ needs # {} => Permitted(o)
    BY <1>0, <2>1 DEF Approved, WritesPermitted
  <2> QED BY <2>2, <2>3, <2>4, WriteMoves
<1>7. CASE Preflight
  <2>1. PICK s : s = IF /\ ShortCircuits(write.page) /\ write.needs \subseteq policy.listed
                        /\ Accepts(write.page, HeadersFor(write.page), write.credentials)
                     THEN "sending" ELSE "refused"
    OBVIOUS
  <2>2. /\ write' = [write EXCEPT !.st = s] /\ write.st # "idle"
        /\ UNCHANGED <<policy, cache, got>>
    BY <1>7, <2>1 DEF Preflight
  <2>3. s \in States /\ s # "done" /\ s # "unseen"
    BY <2>1 DEF States
  <2>4. s = "sending" => Permitted(write.page)
    BY <2>1 DEF ShortCircuits, originAllowed, Permitted
  <2> QED BY <2>2, <2>3, <2>4, WriteSteps
<1>8. CASE Write
  <2> DEFINE e == [headers |-> HeadersFor(write.page), for |-> write.page]
  <2>1. PICK s : s = IF Accepts(write.page, HeadersFor(write.page), write.credentials)
                     THEN "done" ELSE "unseen"
    OBVIOUS
  <2>2. /\ write' = [write EXCEPT !.st = s] /\ write.st # "idle" /\ write.st = "sending"
        /\ UNCHANGED <<policy, cache, got>>
    BY <1>8, <2>1 DEF Write
  <2>3. s \in States /\ s # "sending"
    BY <2>1 DEF States
  <2>4. s = "done" => Permitted(write.page)
    <3>1. /\ e.for = write.page /\ e.headers = HeadersFor(e.for) /\ Serves(e, write.page)
          /\ write.page \in Origin /\ write.credentials \in BOOLEAN
      BY <1>0, <2>2 DEF Serves, Typed
    <3>2. s = "done" => Accepts(write.page, e.headers, write.credentials)
      BY <2>1
    <3> HIDE DEF e
    <3> QED BY <1>0, <3>1, <3>2, AcceptsExactly
  <2>5. write.needs # {} => Permitted(write.page)
    BY <1>0, <2>2 DEF WritesPermitted
  <2> QED BY <2>2, <2>3, <2>4, <2>5, WriteSteps
<1>9. CASE ApprovalExpires
  <2>1. PICK s : s = "idle"
    OBVIOUS
  <2>2. /\ write' = [write EXCEPT !.st = s] /\ write.st # "idle"
        /\ UNCHANGED <<policy, cache, got>>
    BY <1>9, <2>1 DEF ApprovalExpires
  <2>3. s \in States /\ s \notin {"done", "sending", "unseen"}
    BY <2>1 DEF States
  <2> QED BY <2>2, <2>3, WriteSteps
<1>10. CASE UNCHANGED vars
  <2>1. Honest' /\ Typed' /\ WritesPermitted'
    BY <1>0, <1>1, <1>10 DEF Honest, Typed, WritesPermitted, Permitted, vars
  <2> QED BY <1>10, <2>1, ReadsFrame DEF IInv, vars
<1> QED BY <1>2, <1>3, <1>4, <1>5, <1>6, <1>7, <1>8, <1>9, <1>10 DEF Next

-----------------------------------------------------------------------------
\* The invariant holds throughout every execution.
THEOREM Invariance == Spec => []IInv
<1>1. Init => IInv
  BY InitInv
<1>2. IInv /\ [Next]_vars => IInv'
  BY NextInv
<1> QED BY <1>1, <1>2, PTL DEF Spec

\* Whatever the policy and the cache, a page the policy does not name sees no
\* response to a read or a write, and of its writes only the simple ones,
\* which need no preflight, pass the filter.
THEOREM KeptOut == Spec => []ForeignKeptOut
<1>1. IInv => ForeignKeptOut
  BY DEF IInv, WritesPermitted, ReadsDecided, ForeignKeptOut
<1> QED BY <1>1, Invariance, PTL

\* With a shared cache in between a page is shown a response exactly if the
\* policy allows the page and its credentials and the response was made for
\* an allowed page: one made for a client without an Origin or for a foreign
\* page fails the allowed page that is served it.
THEOREM ReadsAreDecided == Spec => []ReadsDecided
<1>1. IInv => ReadsDecided
  BY DEF IInv
<1> QED BY <1>1, Invariance, PTL

=============================================================================
