---------------------------- MODULE PoolMetrics ----------------------------
(***************************************************************************)
(* The life of the connection pools of pkg/data (NewMySQL, NewRedis,       *)
(* NewMongo and their cleanup functions) against the process-wide metrics: *)
(* the registry that /metrics scrapes while SQL and Redis pools come and   *)
(* go, and the event counters of the Mongo pools.                          *)
(*                                                                         *)
(* The prometheus registry is external: it identifies a collector by the   *)
(* descriptors Describe sends (names and constant labels, not the variable *)
(* label `name`), refuses to register one it already has, unregisters      *)
(* whichever collector has the identity it is given, and collects outside  *)
(* its lock from a snapshot of its collectors.  The Mongo driver is        *)
(* external too: it tells the pool monitor of every connection and every   *)
(* checkout, and Disconnect closes what is open without waiting for ever   *)
(* for the connections that are lent.                                      *)
(***************************************************************************)
EXTENDS Integers, FiniteSetsExt

CONSTANTS
    Pool,           \* calls of NewMySQL, NewRedis and NewMongo
    Kind,           \* "sql", "redis" or "mongo", by pool
    Name,           \* cfg.Name, by pool; "" when the caller left it out
    MaxConns,       \* bound on the connections made for one label
    MaxCheckouts    \* bound on the checkouts begun under one label

ASSUME PoolAssumption ==
    /\ IsFiniteSet(Pool)
    /\ Kind \in [Pool -> {"sql", "redis", "mongo"}]
    /\ Name \in [Pool -> STRING]
    /\ MaxConns \in Nat /\ MaxCheckouts \in Nat

VARIABLES
    st,         \* where each pool's constructor or cleanup is
    open,       \* pools whose handle holds connections
    registry,   \* pools whose collector is registered
    scrape,     \* collectors the scrape in progress has yet to collect
    series,     \* pools the scrape in progress has reported
    scraping,   \* a scrape is in progress
    conns,      \* a Mongo pool's connections: live, lent out, asked for
    counter     \* metric.Mongo*, by label and event

metrics == <<registry, scrape, series, scraping>>
mongo == <<conns, counter>>
vars == <<st, open, metrics, mongo>>

\* The constructors' default for the label.
Label(p) == IF Name[p] = "" THEN "default" ELSE Name[p]

Mongo == {p \in Pool : Kind[p] = "mongo"}
Labels == {Label(p) : p \in Mongo}

\* The driver's events the monitor counts.
Event == {"created", "closed", "started", "failed", "succeeded", "returned"}

Init ==
    /\ st = [p \in Pool |-> "new"]
    /\ open = {}
    /\ registry = {}
    /\ scrape = {}
    /\ series = {}
    /\ scraping = FALSE
    /\ conns = [p \in Mongo |-> [live |-> 0, lent |-> 0, asked |-> 0]]
    /\ counter = [l \in Labels |-> [e \in Event |-> 0]]

-----------------------------------------------------------------------------
(* The collectors.                                                         *)

\* A collector whose descriptors differ from pool to pool.
IdentityPerPool(p) == p

\* What Describe identifies a collector by: the descriptors of its kind.
Identity(p) == Kind[p]

\* registry.Unregister: the collector with p's identity goes, whose ever it is.
Unregistered(p) == {q \in registry : Identity(q) # Identity(p)}

-----------------------------------------------------------------------------
(* NewMySQL, NewRedis and NewMongo.                                        *)

Goto(p, from, to) == st[p] = from /\ st' = [st EXCEPT ![p] = to]

\* An error type the monitor's switch forgets.
mongoEventHandlerNoFailed(p, e, n) ==
    counter' = IF e = "failed" THEN counter ELSE [counter EXCEPT ![Label(p)][e] = @ + n]

\* The monitor counts n events of a type; reasons are left out.
mongoEventHandler(p, e, n) == counter' = [counter EXCEPT ![Label(p)][e] = @ + n]

\* Close, or Disconnect, which closes what connections a Mongo pool has.
CloseHandle(p) ==
    /\ open' = open \ {p}
    /\ IF p \in Mongo
       THEN /\ conns' = [conns EXCEPT ![p].live = 0]
            /\ mongoEventHandler(p, "closed", conns[p].live)
       ELSE UNCHANGED mongo

\* An empty DSN, Addr or URI, or sql.Open or mongo.Connect refuses it.
Refuse(p) ==
    /\ Goto(p, "new", "failed")
    /\ UNCHANGED <<open, metrics, mongo>>

Open(p) ==
    /\ Goto(p, "new", "opened")
    /\ open' = open \cup {p}
    /\ UNCHANGED <<metrics, mongo>>

\* The ping fails and the handle is left to the garbage collector.
PingFailsUnclosed(p) ==
    /\ Goto(p, "opened", "failed")
    /\ UNCHANGED <<open, metrics, mongo>>

\* The startup ping fails: close and return the error.
PingFails(p) ==
    /\ Goto(p, "opened", "failed")
    /\ CloseHandle(p)
    /\ UNCHANGED metrics

\* NewMongo has no collector to register and returns.
PingSucceeds(p) ==
    /\ Goto(p, "opened", IF p \in Mongo THEN "up" ELSE "pinged")
    /\ UNCHANGED <<open, metrics, mongo>>

\* prometheus.Register; a collision is logged and the pool is returned anyway.
Register(p) ==
    /\ Goto(p, "pinged", "up")
    /\ registry' = IF \E q \in registry : Identity(q) = Identity(p)
                   THEN registry ELSE registry \cup {p}
    /\ UNCHANGED <<open, scrape, series, scraping, mongo>>

\* cleanup: prometheus.Unregister(collector) ...
CleanupUnregister(p) ==
    /\ p \notin Mongo
    /\ Goto(p, "up", "closing")
    /\ registry' = Unregistered(p)
    /\ UNCHANGED <<open, scrape, series, scraping, mongo>>

\* ... then Close or Disconnect, whose error is only logged.
CleanupClose(p) ==
    /\ Goto(p, IF p \in Mongo THEN "up" ELSE "closing", "closed")
    /\ CloseHandle(p)
    /\ UNCHANGED metrics

-----------------------------------------------------------------------------
(* The Mongo driver's pool, and the monitor it calls.                      *)

\* Somebody asks for a connection, of a pool that is closed even.
CheckoutStarts(p) ==
    /\ st[p] \in {"opened", "up", "closed"}
    /\ counter[Label(p)]["started"] < MaxCheckouts
    /\ conns' = [conns EXCEPT ![p].asked = @ + 1]
    /\ mongoEventHandler(p, "started", 1)

CheckoutFails(p) ==
    /\ conns[p].asked > 0
    /\ conns' = [conns EXCEPT ![p].asked = @ - 1]
    /\ mongoEventHandler(p, "failed", 1)

CheckoutSucceeds(p) ==
    /\ conns[p].asked > 0 /\ conns[p].live > conns[p].lent
    /\ conns' = [conns EXCEPT ![p].asked = @ - 1, ![p].lent = @ + 1]
    /\ mongoEventHandler(p, "succeeded", 1)

\* A connection comes back, after its pool was closed perhaps.
CheckIn(p) ==
    /\ conns[p].lent > 0
    /\ conns' = [conns EXCEPT ![p].lent = @ - 1]
    /\ mongoEventHandler(p, "returned", 1)

Connect(p) ==
    /\ p \in open /\ conns[p].asked > 0
    /\ counter[Label(p)]["created"] < MaxConns
    /\ conns' = [conns EXCEPT ![p].live = @ + 1]
    /\ mongoEventHandler(p, "created", 1)

\* An idle or broken connection is dropped.
Drop(p) ==
    /\ conns[p].live > conns[p].lent
    /\ conns' = [conns EXCEPT ![p].live = @ - 1]
    /\ mongoEventHandler(p, "closed", 1)

Driver(p) ==
    /\ \/ CheckoutStarts(p) \/ CheckoutFails(p) \/ CheckoutSucceeds(p)
       \/ CheckIn(p) \/ Connect(p) \/ Drop(p)
    /\ UNCHANGED <<st, open, metrics>>

-----------------------------------------------------------------------------
(* A scrape of /metrics.                                                   *)

Gather ==
    /\ ~ scraping
    /\ scraping' = TRUE
    /\ scrape' = registry
    /\ series' = {}
    /\ UNCHANGED <<st, open, registry, mongo>>

\* Collect samples the pool's statistics under its label.
Collect(p) ==
    /\ scraping
    /\ p \in scrape
    /\ scrape' = scrape \ {p}
    /\ series' = series \cup {p}
    /\ UNCHANGED <<st, open, registry, scraping, mongo>>

Expose ==
    /\ scraping
    /\ scrape = {}
    /\ scraping' = FALSE
    /\ UNCHANGED <<st, open, registry, scrape, series, mongo>>

Next ==
    \/ Gather \/ Expose
    \/ \E p \in Pool :
          \/ Refuse(p) \/ Open(p) \/ PingFails(p) \/ PingSucceeds(p) \/ Register(p)
          \/ CleanupUnregister(p) \/ CleanupClose(p) \/ Collect(p)
    \/ \E p \in Mongo : Driver(p)

Spec == Init /\ [][Next]_vars

-----------------------------------------------------------------------------
\* However pools of one kind take each other's place in the registry, a scrape
\* never starts on a pool that is closed, and a constructor that reports an
\* error or a cleanup that is through leaves neither an open handle nor a connection.
NothingLeaks ==
    /\ registry \subseteq open
    /\ \A p \in Pool : st[p] \in {"failed", "closed"} => p \notin open
    /\ \A p \in Mongo \ open : conns[p].live = 0

\* Two collectors never report under the same metric and label, which would
\* make the registry fail the whole scrape.
NoDuplicateSeries ==
    \A p, q \in series \cup scrape : Kind[p] = Kind[q] /\ Label(p) = Label(q) => p = q

\* The connections open, the checkouts waiting and the connections lent that
\* the counters of a label imply are the ones its pools have between them,
\* through failed pings and cleanups that overtake lent connections.
MongoCountersExact ==
    \A l \in Labels :
        LET pools == {p \in Mongo : Label(p) = l}
            Of(f) == MapThenSumSet(LAMBDA p : conns[p][f], pools)
            c == counter[l]
        IN  /\ c["created"] - c["closed"] = Of("live")
            /\ c["started"] - c["failed"] - c["succeeded"] = Of("asked")
            /\ c["succeeded"] - c["returned"] = Of("lent")

\* metric/db.go: each metric is keyed by `name` so a process with multiple
\* connection pools can disambiguate them: a pool that is up and whose label
\* no other pool has is registered.
PoolsDisambiguated ==
    \A p \in Pool :
        st[p] = "up" /\ (\A q \in Pool \ {p} : Label(q) # Label(p)) => p \in registry

=============================================================================
