-------------------------------- MODULE Cors --------------------------------
(***************************************************************************)
(* The CORS filter of pkg/middleware/cors, which kris-beta puts in front   *)
(* of its chain, between web pages of several origins and a shared HTTP    *)
(* cache on one side and the service's handlers on the other.              *)
(*                                                                         *)
(* Browsers and the cache are external: a browser hands a response to the  *)
(* page only if its Access-Control headers allow it, sends a write with a  *)
(* method or header out of the ordinary only after an approved preflight,  *)
(* remembers the approval for a while, and sends a simple write (a plain   *)
(* POST) without asking; the cache may keep a response to a GET and serves *)
(* it to whoever its Vary header allows.  The filter keeps no state, so    *)
(* one read and one write at a time meet everything it can do.             *)
(***************************************************************************)
CONSTANTS
    Origin,     \* origins of pages that call the service
    NoOrigin,   \* a request without the header (same origin, or no browser)
    Guarded     \* methods and headers a browser sends only with an approval

ASSUME NoOriginAssumption == NoOrigin \notin Origin
ASSUME NoHeaderAssumption == "none" \notin Origin

VARIABLES
    policy,     \* the options New was given
    cache,      \* responses the shared cache holds, with the origin each was made for
    got,        \* the last response to a GET: the page, what it was shown and of whose
    write       \* the last write: waiting for its preflight ("asked"), "refused",
                \* "sending", or past the filter in the chain: with an answer the
                \* page may see ("done", the browser remembers an approval) or "unseen"

vars == <<policy, cache, got, write>>

\* No Access-Control headers.
Bare == [allow |-> "none", vary |-> FALSE, credentials |-> FALSE]

\* New applies its options: any origin, a set of origins, the methods and
\* headers listed, credentials.
Init ==
    /\ policy \in [any : BOOLEAN, origins : SUBSET Origin, listed : SUBSET Guarded,
                   credentials : BOOLEAN]
    /\ cache = {}
    /\ got = [page |-> NoOrigin, seen |-> "nothing", for |-> NoOrigin, credentials |-> FALSE]
    /\ write = [page |-> NoOrigin, needs |-> {}, credentials |-> FALSE, st |-> "idle"]

-----------------------------------------------------------------------------
(* The filter.                                                             *)

\* originAllowed with the membership test gone.
originAllowedAlways(origin) == TRUE

\* options.originAllowed
originAllowed(origin) == policy.any \/ origin \in policy.origins

\* Headers without Vary.
HeadersNoVary(origin) ==
    IF origin = NoOrigin \/ ~ originAllowed(origin) THEN Bare
    ELSE [allow |-> IF policy.any /\ ~ policy.credentials THEN "*" ELSE origin,
          vary |-> FALSE,
          credentials |-> policy.credentials]

\* The headers the filter adds: none without an Origin or for one that is not
\* allowed; the wildcard only without credentials; else, any origin with
\* credentials included, the request's own origin and Vary.
HeadersFor(origin) ==
    LET wildcard == policy.any /\ ~ policy.credentials
    IN  IF origin = NoOrigin \/ ~ originAllowed(origin) THEN Bare
        ELSE [allow |-> IF wildcard THEN "*" ELSE origin,
              vary |-> ~ wildcard,
              credentials |-> policy.credentials]

\* A filter that calls the next handler for a preflight too.
ShortCircuitsNever(origin) == FALSE

\* OPTIONS with Access-Control-Request-Method is answered here, with 204 and
\* Allow-Methods, for an allowed origin; any other goes on to the chain,
\* whose auth refuses it and which names no method in any case.
ShortCircuits(origin) == origin # NoOrigin /\ originAllowed(origin)

-----------------------------------------------------------------------------
(* Browsers and the cache (external).                                      *)

\* The browser lets the page of origin see a response.
Accepts(origin, h, credentials) ==
    \/ h.allow = "*" /\ ~ credentials
    \/ h.allow = origin /\ (credentials => h.credentials)

\* The cache may answer a request of origin with response e.
Serves(e, origin) == e.headers.vary => e.for = origin

\* A page is shown a response to its GET, or an error.
Deliver(o, e, credentials) ==
    got' = [page |-> o, for |-> e.for, credentials |-> credentials,
            seen |-> IF Accepts(o, e.headers, credentials) THEN "response" ELSE "error"]

\* A page GETs a resource and the request reaches the filter, which lets the
\* handler answer it; the cache may keep the answer.
GetFromService(o, credentials) ==
    LET e == [headers |-> HeadersFor(o), for |-> o]
    IN  /\ Deliver(o, e, credentials)
        /\ cache' \in {cache, cache \cup {e}}
        /\ UNCHANGED <<policy, write>>

\* A GET without an Origin header, which the filter does not touch.
GetDirectly ==
    /\ cache' = cache \cup {[headers |-> HeadersFor(NoOrigin), for |-> NoOrigin]}
    /\ UNCHANGED <<policy, got, write>>

\* The cache answers a page's GET.
GetFromCache(o, e, credentials) ==
    /\ e \in cache
    /\ Serves(e, o)
    /\ Deliver(o, e, credentials)
    /\ UNCHANGED <<policy, cache, write>>

\* The browser has the approval of an earlier write of the page.
Approved(o, needs, credentials) ==
    /\ write.st = "done" /\ write.page = o /\ write.credentials = credentials
    /\ needs \subseteq write.needs

\* A page writes: a simple request goes out as it is, one with guarded methods
\* or headers needs an approval.
PageWrites(o, needs, credentials) ==
    /\ write.st \notin {"asked", "sending"}
    /\ write' = [page |-> o, needs |-> needs, credentials |-> credentials,
                 st |-> IF needs = {} \/ Approved(o, needs, credentials)
                        THEN "sending" ELSE "asked"]
    /\ UNCHANGED <<policy, cache, got>>

\* The preflight: the filter's own answer lists the methods and headers the
\* browser may send; an answer of the chain lists none.
Preflight ==
    /\ write.st = "asked"
    /\ write' = [write EXCEPT !.st =
          IF /\ ShortCircuits(write.page) /\ write.needs \subseteq policy.listed
             /\ Accepts(write.page, HeadersFor(write.page), write.credentials)
          THEN "sending" ELSE "refused"]
    /\ UNCHANGED <<policy, cache, got>>

\* The write itself passes the filter, whoever sends it, and the chain runs;
\* the answer's headers decide whether the page sees it.
Write ==
    /\ write.st = "sending"
    /\ write' = [write EXCEPT !.st =
          IF Accepts(write.page, HeadersFor(write.page), write.credentials)
          THEN "done" ELSE "unseen"]
    /\ UNCHANGED <<policy, cache, got>>

\* Access-Control-Max-Age has passed.
ApprovalExpires ==
    /\ write.st = "done"
    /\ write' = [write EXCEPT !.st = "idle"]
    /\ UNCHANGED <<policy, cache, got>>

Evict(e) ==
    /\ e \in cache
    /\ cache' = cache \ {e}
    /\ UNCHANGED <<policy, got, write>>

Next ==
    \/ GetDirectly \/ Preflight \/ Write \/ ApprovalExpires
    \/ \E e \in cache : Evict(e)
    \/ \E o \in Origin, credentials \in BOOLEAN :
          \/ GetFromService(o, credentials)
          \/ \E needs \in SUBSET Guarded : PageWrites(o, needs, credentials)
          \/ \E e \in cache : GetFromCache(o, e, credentials)

Spec == Init /\ [][Next]_vars

\* Browsers send the requests they owe their pages.
FairSpec == Spec /\ WF_vars(Preflight) /\ WF_vars(Write)

-----------------------------------------------------------------------------
Permitted(o) == policy.any \/ o \in policy.origins

\* cors.New, "disallowed origins pass through without CORS headers (browsers
\* reject)": a page the policy does not name never sees a response, not even
\* one the cache kept from an allowed page.  Its requests do pass through: a
\* simple write of it runs the handler, unseen; one that needs a preflight
\* never gets that far.
ForeignKeptOut ==
    /\ got.seen = "response" => Permitted(got.page)
    /\ write.st = "done" => Permitted(write.page)
    /\ write.st \in {"sending", "unseen"} /\ write.needs # {} => Permitted(write.page)

\* New's reason to be a filter: a preflight never fails on the middlewares
\* behind it, so what an allowed page writes, with methods and headers the
\* policy lists and credentials only if it has them, runs and is answered.
WritesGetThrough ==
    /\ write.st \in {"asked", "sending"}
    /\ Permitted(write.page)
    /\ write.needs \subseteq policy.listed
    /\ write.credentials => policy.credentials
    ~> write.st = "done"

\* A page is shown a response exactly if the policy names its origin and
\* covers its credentials and the response was made for a page the policy
\* names.  Vary keeps responses made for allowed pages apart; the ones made
\* for clients without an Origin and for foreign pages have no Vary, and an
\* allowed page that gets one from the cache is shown an error.
ReadsDecided ==
    got.seen # "nothing" =>
        (got.seen = "response" <=>
            /\ Permitted(got.page)
            /\ got.credentials => policy.credentials
            /\ got.for # NoOrigin /\ Permitted(got.for))

=============================================================================
