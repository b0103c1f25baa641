--------------------------- MODULE StartupProofs ---------------------------
(***************************************************************************)
(* Proofs about what a service does before it serves: PoolMetrics, for     *)
(* every finite set of pools, of every kind and under every name, and      *)
(* ConfigLoader, for any search paths.                                     *)
(*                                                                         *)
(* A pool's cleanup may unregister the collector of another pool of its    *)
(* kind, so that the registry does not follow the pools.  What holds all   *)
(* the same: a registered collector's pool is up, and no two collectors of *)
(* a kind are registered, or in one scrape.  The event counters of a label *)
(* are compared with sums over its pools: changing one pool's part changes *)
(* the sum by as much, by induction over the subsets of the pools.         *)
(*                                                                         *)
(* Load's layers are read in a fixed order, so what the key is after each  *)
(* is a function of the environment and the files.                         *)
(***************************************************************************)
EXTENDS PoolMetrics, ConfigLoader, FiniteSetTheorems, WellFoundedInduction, TLAPS

\* The type of the state, the counters left aside.
Typed ==
    /\ st \in [Pool -> {"new", "opened", "failed", "pinged", "up", "closing", "closed"}]
    /\ open \subseteq Pool /\ registry \subseteq Pool
    /\ scrape \subseteq Pool /\ series \subseteq Pool
    /\ conns \in [Mongo -> [live : Int, lent : Nat, asked : Int]]

\* At most one collector of each kind.
OnePerKind(S) == \A p, q \in S : Kind[p] = Kind[q] => p = q

IInv ==
    /\ Typed
    /\ \A p \in Pool : p \in open <=> st[p] \in {"opened", "pinged", "up", "closing"}
    /\ \A p \in Mongo : st[p] \notin {"pinged", "closing"}
    /\ \A p \in registry : st[p] = "up" /\ p \notin Mongo
    /\ \A p \in Mongo \ open : conns[p].live = 0
    /\ OnePerKind(registry)
    /\ OnePerKind(series \cup scrape)

-----------------------------------------------------------------------------
\* Closing a handle leaves the pool without connections and the others alone.
LEMMA CloseHandleFacts ==
    ASSUME IInv, NEW p \in Pool, CloseHandle(p)
    PROVE  /\ open' = open \ {p}
           /\ conns' \in [Mongo -> [live : Int, lent : Nat, asked : Int]]
           /\ p \in Mongo => conns'[p].live = 0
           /\ \A q \in Mongo \ {p} : conns'[q] = conns[q]
<1>1. CASE p \in Mongo
  <2>1. conns' = [conns EXCEPT ![p].live = 0] /\ open' = open \ {p}
    BY <1>1 DEF CloseHandle
  <2> QED BY <1>1, <2>1 DEF IInv, Typed
<1>2. CASE p \notin Mongo
  BY <1>2 DEF CloseHandle, mongo, IInv, Typed
<1> QED BY <1>1, <1>2

\* What a pool's driver does leaves a closed pool without connections.
LEMMA DriverFacts ==
    ASSUME IInv, NEW p \in Mongo, Driver(p)
    PROVE  /\ conns' \in [Mongo -> [live : Int, lent : Nat, asked : Int]]
           /\ \A q \in Mongo \ open : conns'[q].live = 0
<1>0. conns \in [Mongo -> [live : Int, lent : Nat, asked : Int]]
  BY DEF IInv, Typed
<1>1. p \notin open => conns[p].live = 0
  BY DEF IInv
<1>2. \A q \in Mongo \ open : conns[q].live = 0
  BY DEF IInv
<1>3. CASE CheckoutStarts(p)
  <2>1. conns' = [conns EXCEPT ![p].asked = @ + 1]
    BY <1>3 DEF CheckoutStarts
  <2> QED BY <1>0, <1>2, <2>1
<1>4. CASE CheckoutFails(p)
  <2>1. conns' = [conns EXCEPT ![p].asked = @ - 1]
    BY <1>4 DEF CheckoutFails
  <2> QED BY <1>0, <1>2, <2>1
<1>5. CASE CheckoutSucceeds(p)
  <2>1. conns' = [conns EXCEPT ![p].asked = @ - 1, ![p].lent = @ + 1]
    BY <1>5 DEF CheckoutSucceeds
  <2> QED BY <1>0, <1>2, <2>1
<1>6. CASE CheckIn(p)
  <2>1. conns' = [conns EXCEPT ![p].lent = @ - 1] /\ conns[p].lent > 0
    BY <1>6 DEF CheckIn
  <2> QED BY <1>0, <1>2, <2>1
<1>7. CASE Connect(p)
  <2>1. conns' = [conns EXCEPT ![p].live = @ + 1] /\ p \in open
    BY <1>7 DEF Connect
  <2> QED BY <1>0, <1>2, <2>1
<1>8. CASE Drop(p)
  <2>1. conns' = [conns EXCEPT ![p].live = @ - 1] /\ conns[p].live > conns[p].lent
    BY <1>8 DEF Drop
  <2>2. p \in open
    BY <1>0, <1>1, <2>1
  <2> QED BY <1>0, <1>2, <2>1, <2>2
<1> QED BY <1>3, <1>4, <1>5, <1>6, <1>7, <1>8 DEF Driver

\* The constructors before anything is open.
LEMMA InitInv == Init => IInv
<1> SUFFICES ASSUME Init PROVE IInv
  OBVIOUS
<1>1. Typed
  BY DEF Init, Typed
<1>2. \A p \in Mongo : conns[p].live = 0
  BY DEF Init
<1> QED BY <1>1, <1>2 DEF Init, IInv, OnePerKind, Mongo

\* Every step of a constructor, a cleanup, a driver or a scrape preserves it.
LEMMA NextInv == IInv /\ [Next]_vars => IInv'
<1> SUFFICES ASSUME IInv, [Next]_vars PROVE IInv'
  OBVIOUS
<1> USE DEF Goto
<1>1. CASE Gather
  BY <1>1 DEF Gather, IInv, Typed, OnePerKind, mongo
<1>2. CASE Expose
  BY <1>2 DEF Expose, IInv, Typed, OnePerKind, mongo
<1>3. ASSUME NEW p \in Pool, Refuse(p) PROVE IInv'
  BY <1>3 DEF Refuse, IInv, Typed, OnePerKind, metrics, mongo
<1>4. ASSUME NEW p \in Pool, Open(p) PROVE IInv'
  BY <1>4 DEF Open, IInv, Typed, OnePerKind, metrics, mongo
<1>5. ASSUME NEW p \in Pool, PingFails(p) PROVE IInv'
  <2>1. /\ open' = open \ {p}
        /\ conns' \in [Mongo -> [live : Int, lent : Nat, asked : Int]]
        /\ p \in Mongo => conns'[p].live = 0
        /\ \A q \in Mongo \ {p} : conns'[q] = conns[q]
    BY <1>5, CloseHandleFacts DEF PingFails
  <2> QED BY <1>5, <2>1 DEF PingFails, IInv, Typed, OnePerKind, metrics
<1>6. ASSUME NEW p \in Pool, PingSucceeds(p) PROVE IInv'
  BY <1>6 DEF PingSucceeds, IInv, Typed, OnePerKind, metrics, mongo
<1>7. ASSUME NEW p \in Pool, Register(p) PROVE IInv'
  <2>1. p \notin Mongo
    BY <1>7 DEF Register, IInv
  <2> QED BY <1>7, <2>1 DEF Register, Identity, IInv, Typed, OnePerKind, mongo
<1>8. ASSUME NEW p \in Pool, CleanupUnregister(p) PROVE IInv'
  BY <1>8 DEF CleanupUnregister, Unregistered, Identity, IInv, Typed, OnePerKind, mongo
<1>9. ASSUME NEW p \in Pool, CleanupClose(p) PROVE IInv'
  <2>1. /\ open' = open \ {p}
        /\ conns' \in [Mongo -> [live : Int, lent : Nat, asked : Int]]
        /\ p \in Mongo => conns'[p].live = 0
        /\ \A q \in Mongo \ {p} : conns'[q] = conns[q]
    BY <1>9, CloseHandleFacts DEF CleanupClose
  <2> QED BY <1>9, <2>1 DEF CleanupClose, IInv, Typed, OnePerKind, metrics
<1>10. ASSUME NEW p \in Pool, Collect(p) PROVE IInv'
  BY <1>10 DEF Collect, IInv, Typed, OnePerKind, mongo
<1>11. ASSUME NEW p \in Mongo, Driver(p) PROVE IInv'
  <2>1. /\ conns' \in [Mongo -> [live : Int, lent : Nat, asked : Int]]
        /\ \A q \in Mongo \ open : conns'[q].live = 0
    BY <1>11, DriverFacts
  <2> QED BY <1>11, <2>1 DEF Driver, IInv, Typed, OnePerKind, metrics
<1>12. CASE UNCHANGED vars
  BY <1>12 DEF vars, IInv, Typed, OnePerKind, metrics, mongo
<1> QED BY <1>1, <1>2, <1>3, <1>4, <1>5, <1>6, <1>7, <1>8, <1>9, <1>10, <1>11, <1>12 DEF Next

\* The invariant, of every behaviour.
LEMMA Invariance == Spec => []IInv
BY InitInv, NextInv, PTL DEF Spec

-----------------------------------------------------------------------------
\* A scrape never starts on a closed pool, and neither a constructor that
\* failed nor a cleanup that is through leaves a handle or a connection open.
THEOREM NoLeak == Spec => []NothingLeaks
<1>1. IInv => NothingLeaks
  BY DEF IInv, Typed, NothingLeaks
<1> QED BY <1>1, Invariance, PTL

\* No scrape holds two collectors of a metric and a label, whatever the pools
\* are called and in whichever order they come and go.
THEOREM SeriesDistinct == Spec => []NoDuplicateSeries
<1>1. IInv => NoDuplicateSeries
  BY DEF IInv, OnePerKind, NoDuplicateSeries
<1> QED BY <1>1, Invariance, PTL

-----------------------------------------------------------------------------
(* Sums over the pools of a label.                                         *)

\* The sum MongoCountersExact takes, and the element its fold takes out of a set.
Total(c, f, S) == MapThenSumSet(LAMBDA p : c[p][f], S)
Some(s) == CHOOSE x \in s : TRUE

\* The equation a fold over S solves.
Folds(g, c, f, S) ==
    g = [s \in SUBSET S |-> IF s = {} THEN 0 ELSE c[Some(s)][f] + g[s \ {Some(s)}]]

\* A set of subsets of a finite set S that holds the empty one, and each one that it
\* holds without its first element, holds them all.
LEMMA SubsetInduction ==
    ASSUME NEW S, IsFiniteSet(S), NEW Good, {} \in Good,
           \A s \in SUBSET S : s # {} /\ s \ {Some(s)} \in Good => s \in Good
    PROVE  SUBSET S \subseteq Good
<1> DEFINE Bad == (SUBSET S) \ Good
           R == StrictSubsetOrdering(S)
<1>1. SUFFICES ASSUME Bad # {} PROVE FALSE
  OBVIOUS
<1>2. IsWellFoundedOn(R, SUBSET S)
  BY FS_StrictSubsetOrderingWellFounded, FS_FiniteSubsetsOfFinite
<1>3. PICK m \in Bad : \A y \in Bad : ~ (<<y, m>> \in R)
  <2>1. Bad \subseteq SUBSET S
    OBVIOUS
  <2> HIDE DEF Bad, R
  <2> QED BY <1>1, <1>2, <2>1, WFMin
<1>4. m # {} /\ m \in SUBSET S
  OBVIOUS
<1>5. Some(m) \in m
  BY <1>4 DEF Some
<1>6. m \ {Some(m)} \in SUBSET S /\ m \ {Some(m)} \subseteq m /\ m \ {Some(m)} # m
  BY <1>4, <1>5
<1>7. <<m \ {Some(m)}, m>> \in R
  <2> DEFINE y == m \ {Some(m)}
  <2>1. y \in SUBSET S /\ y \subseteq m /\ y # m
    BY <1>6
  <2> HIDE DEF y
  <2>2. <<y, m>> \in R
    BY <1>4, <2>1 DEF StrictSubsetOrdering
  <2> QED BY <2>2 DEF y
<1>8. m \ {Some(m)} \in Good
  BY <1>3, <1>6, <1>7
<1> QED BY <1>3, <1>4, <1>8

\* The equation has a solution: one that is right for the sets of at most n
\* elements gives one for those of at most n + 1.
LEMMA FoldExists ==
    ASSUME NEW S, IsFiniteSet(S), NEW c, NEW f, \A p \in S : c[p][f] \in Int
    PROVE  \E g : Folds(g, c, f, S)
<1> DEFINE E(g, s) == IF s = {} THEN 0 ELSE c[Some(s)][f] + g[s \ {Some(s)}]
           Right(g, T) == \A s \in SUBSET S :
                             Cardinality(s) <= Cardinality(T) => g[s] = E(g, s)
           Good == {T \in SUBSET S : \E g \in [SUBSET S -> Int] : Right(g, T)}
<1>0. \A s \in SUBSET S : IsFiniteSet(s) /\ Cardinality(s) \in Nat
  BY FS_Subset, FS_CardinalityType
<1>1. \A s \in SUBSET S : s # {} => /\ Some(s) \in s /\ s \ {Some(s)} \in SUBSET S
                                    /\ Cardinality(s \ {Some(s)}) = Cardinality(s) - 1
  <2> SUFFICES ASSUME NEW s \in SUBSET S, s # {}
               PROVE  /\ Some(s) \in s /\ s \ {Some(s)} \in SUBSET S
                      /\ Cardinality(s \ {Some(s)}) = Cardinality(s) - 1
    OBVIOUS
  <2>1. Some(s) \in s
    BY DEF Some
  <2>2. IsFiniteSet(s)
    BY <1>0
  <2> QED BY <2>1, <2>2, FS_RemoveElement
<1>2. {} \in Good
  <2> DEFINE g == [s \in SUBSET S |-> 0]
  <2>1. \A s \in SUBSET S : Cardinality(s) <= Cardinality({}) => s = {}
    BY <1>0, FS_EmptySet
  <2>2. g \in [SUBSET S -> Int] /\ \A s \in SUBSET S : s = {} => g[s] = E(g, s)
    OBVIOUS
  <2>3. Right(g, {})
    BY <2>1, <2>2
  <2> QED BY <2>2, <2>3
<1>3. ASSUME NEW T \in SUBSET S, T # {}, T \ {Some(T)} \in Good PROVE T \in Good
  <2> DEFINE U == T \ {Some(T)}
  <2>1. PICK g \in [SUBSET S -> Int] : Right(g, U)
    BY <1>3
  <2>2. U \in SUBSET S /\ Cardinality(U) = Cardinality(T) - 1 /\ Cardinality(T) \in Nat
    BY <1>0, <1>1, <1>3
  <2> DEFINE h == [s \in SUBSET S |-> IF Cardinality(s) <= Cardinality(U) THEN g[s] ELSE E(g, s)]
  <2> HIDE DEF U
  <2>3. h \in [SUBSET S -> Int]
    <3>1. ASSUME NEW s \in SUBSET S PROVE E(g, s) \in Int
      <4>1. CASE s = {}
        BY <4>1
      <4>2. CASE s # {}
        <5>1. c[Some(s)][f] \in Int /\ g[s \ {Some(s)}] \in Int
          BY <4>2, <1>1
        <5> QED BY <4>2, <5>1
      <4> QED BY <4>1, <4>2
    <3> HIDE DEF E
    <3> QED BY <3>1
  <2>4. ASSUME NEW s \in SUBSET S, Cardinality(s) <= Cardinality(T) PROVE h[s] = E(h, s)
    <3>1. h[s] = E(g, s)
      <4>1. CASE Cardinality(s) <= Cardinality(U)
        <5>1. h[s] = g[s]
          BY <4>1
        <5> QED BY <2>1, <4>1, <5>1
      <4>2. CASE ~ (Cardinality(s) <= Cardinality(U))
        BY <4>2
      <4> QED BY <4>1, <4>2
    <3>2. E(g, s) = E(h, s)
      <4>1. CASE s = {}
        BY <4>1
      <4>2. CASE s # {}
        <5> DEFINE r == s \ {Some(s)}
        <5>1. r \in SUBSET S /\ Cardinality(r) <= Cardinality(U)
          BY <1>0, <1>1, <2>2, <2>4, <4>2
        <5> HIDE DEF r
        <5>2. h[r] = g[r]
          BY <5>1
        <5> QED BY <4>2, <5>2 DEF r
      <4> QED BY <4>1, <4>2
    <3> QED BY <3>1, <3>2
  <2> HIDE DEF h, E
  <2>5. Right(h, T)
    BY <2>4
  <2> QED BY <2>3, <2>5
<1>4. S \in Good
  <2> HIDE DEF Good
  <2>1. SUBSET S \subseteq Good
    BY <1>2, <1>3, SubsetInduction
  <2> QED BY <2>1
<1>5. PICK g \in [SUBSET S -> Int] : Right(g, S)
  BY <1>4
<1>6. \A s \in SUBSET S : g[s] = E(g, s)
  <2> HIDE DEF E
  <2> QED BY <1>5, FS_Subset
<1>7. g = [s \in SUBSET S |-> E(g, s)]
  <2> HIDE DEF E
  <2> QED BY <1>6
<1> QED BY <1>7 DEF Folds

\* The total is the value at S of a solution, and every value of a solution
\* is an integer.
LEMMA TotalFolds ==
    ASSUME NEW S, IsFiniteSet(S), NEW c, NEW f, \A p \in S : c[p][f] \in Int
    PROVE  \E g \in [SUBSET S -> Int] : Folds(g, c, f, S) /\ Total(c, f, S) = g[S]
<1> DEFINE g == CHOOSE h : Folds(h, c, f, S)
<1>1. Folds(g, c, f, S)
  BY FoldExists
<1>2. Total(c, f, S) = g[S]
  BY DEF Total, MapThenSumSet, MapThenFoldSet, Folds, Some
<1> HIDE DEF g
<1> DEFINE Good == {s \in SUBSET S : g[s] \in Int}
<1>3. /\ DOMAIN g = SUBSET S
      /\ \A s \in SUBSET S : g[s] = IF s = {} THEN 0 ELSE c[Some(s)][f] + g[s \ {Some(s)}]
  BY <1>1 DEF Folds
<1>4. {} \in Good
  <2>1. {} \in SUBSET S
    OBVIOUS
  <2>2. g[{}] = 0
    BY <1>3, <2>1
  <2> QED BY <2>1, <2>2
<1>5. ASSUME NEW s \in SUBSET S, s # {}, s \ {Some(s)} \in Good PROVE s \in Good
  <2>1. Some(s) \in s
    BY <1>5 DEF Some
  <2>2. c[Some(s)][f] \in Int /\ g[s \ {Some(s)}] \in Int
    BY <1>5, <2>1
  <2> QED BY <1>3, <1>5, <2>2
<1>6. SUBSET S \subseteq Good
  <2> HIDE DEF Good
  <2> QED BY <1>4, <1>5, SubsetInduction
<1>7. g \in [SUBSET S -> Int]
  <2>1. g = [s \in SUBSET S |-> g[s]]
    BY <1>1 DEF Folds
  <2> QED BY <1>6, <2>1
<1> QED BY <1>1, <1>2, <1>7

\* A total of zeros is zero.
LEMMA TotalZero ==
    ASSUME NEW S, IsFiniteSet(S), NEW c, NEW f, \A p \in S : c[p][f] = 0
    PROVE  Total(c, f, S) = 0
<1>0. \A p \in S : c[p][f] \in Int
  OBVIOUS
<1>1. PICK g \in [SUBSET S -> Int] : Folds(g, c, f, S) /\ Total(c, f, S) = g[S]
  BY <1>0, TotalFolds
<1> DEFINE Good == {s \in SUBSET S : g[s] = 0}
<1>2. \A s \in SUBSET S : g[s] = IF s = {} THEN 0 ELSE c[Some(s)][f] + g[s \ {Some(s)}]
  BY <1>1 DEF Folds
<1>3. {} \in Good
  BY <1>2
<1>4. ASSUME NEW s \in SUBSET S, s # {}, s \ {Some(s)} \in Good PROVE s \in Good
  <2>1. Some(s) \in s
    BY <1>4 DEF Some
  <2>2. c[Some(s)][f] = 0 /\ g[s \ {Some(s)}] = 0
    BY <1>4, <2>1
  <2> QED BY <1>2, <1>4, <2>2
<1>5. SUBSET S \subseteq Good
  <2> HIDE DEF Good
  <2> QED BY <1>3, <1>4, SubsetInduction
<1> QED BY <1>1, <1>5

\* Changing one summand changes the total by as much, and by nothing when it
\* is not a summand.
LEMMA TotalChange ==
    ASSUME NEW S, IsFiniteSet(S), NEW c, NEW b, NEW f, NEW p, NEW d \in Int,
           \A q \in S : c[q][f] \in Int /\ b[q][f] = c[q][f] + (IF q = p THEN d ELSE 0)
    PROVE  /\ Total(c, f, S) \in Int
           /\ Total(b, f, S) = Total(c, f, S) + (IF p \in S THEN d ELSE 0)
<1>0. \A q \in S : b[q][f] \in Int
  <2> SUFFICES ASSUME NEW q \in S PROVE b[q][f] \in Int
    OBVIOUS
  <2>1. c[q][f] \in Int /\ b[q][f] = c[q][f] + (IF q = p THEN d ELSE 0)
    OBVIOUS
  <2> QED BY <2>1
<1>1. PICK g \in [SUBSET S -> Int] : Folds(g, c, f, S) /\ Total(c, f, S) = g[S]
  BY TotalFolds
<1>2. PICK h \in [SUBSET S -> Int] : Folds(h, b, f, S) /\ Total(b, f, S) = h[S]
  BY <1>0, TotalFolds
<1>3. \A s \in SUBSET S : g[s] = IF s = {} THEN 0 ELSE c[Some(s)][f] + g[s \ {Some(s)}]
  BY <1>1 DEF Folds
<1>4. \A s \in SUBSET S : h[s] = IF s = {} THEN 0 ELSE b[Some(s)][f] + h[s \ {Some(s)}]
  BY <1>2 DEF Folds
<1> DEFINE Good == {s \in SUBSET S : h[s] = g[s] + (IF p \in s THEN d ELSE 0)}
<1>5. {} \in Good
  <2>1. {} \in SUBSET S
    OBVIOUS
  <2>2. g[{}] = 0 /\ h[{}] = 0
    BY <1>3, <1>4, <2>1
  <2> QED BY <2>1, <2>2
<1>6. ASSUME NEW s \in SUBSET S, s # {}, s \ {Some(s)} \in Good PROVE s \in Good
  <2> DEFINE x == Some(s)
             r == s \ {x}
             y == c[x][f]
             z == b[x][f]
  <2>1. x \in s /\ x \in S
    BY <1>6 DEF Some
  <2>2. y \in Int /\ z = y + (IF x = p THEN d ELSE 0)
    BY <2>1
  <2>3. r \in SUBSET S /\ g[r] \in Int /\ h[r] = g[r] + (IF p \in r THEN d ELSE 0)
    BY <1>6
  <2>4. g[s] = y + g[r] /\ h[s] = z + h[r]
    BY <1>3, <1>4, <1>6
  <2>5. p \in r <=> p \in s /\ x # p
    BY <2>1
  <2> HIDE DEF x, r, y, z
  <2>6. h[s] = g[s] + (IF p \in s THEN d ELSE 0)
    <3>1. CASE x = p
      BY <3>1, <2>1, <2>2, <2>3, <2>4, <2>5
    <3>2. CASE x # p
      <4>1. z = y /\ (p \in r <=> p \in s)
        BY <3>2, <2>2, <2>5
      <4> QED BY <4>1, <2>2, <2>3, <2>4
    <3> QED BY <3>1, <3>2
  <2> QED BY <2>6
<1>7. SUBSET S \subseteq Good
  <2> HIDE DEF Good
  <2> QED BY <1>5, <1>6, SubsetInduction
<1>8. h[S] = g[S] + (IF p \in S THEN d ELSE 0)
  BY <1>7
<1> QED BY <1>1, <1>2, <1>8

-----------------------------------------------------------------------------
(* The counters.                                                           *)

\* The Mongo pools that count under a label.
PoolsOf(l) == {p \in Mongo : Label(p) = l}

\* MongoCountersExact of any connections c and counters k.
Exact(c, k) ==
    \A l \in Labels :
        /\ k[l]["created"] - k[l]["closed"] = Total(c, "live", PoolsOf(l))
        /\ k[l]["started"] - k[l]["failed"] - k[l]["succeeded"] = Total(c, "asked", PoolsOf(l))
        /\ k[l]["succeeded"] - k[l]["returned"] = Total(c, "lent", PoolsOf(l))

Connections == [Mongo -> [live : Int, lent : Nat, asked : Int]]
Counters == [Labels -> [Event -> Int]]

\* The property in those terms, before and after a step.
LEMMA ExactForm ==
    /\ MongoCountersExact <=> Exact(conns, counter)
    /\ MongoCountersExact' <=> Exact(conns', counter')
<1>1. MongoCountersExact <=> Exact(conns, counter)
  BY DEF MongoCountersExact, Exact, Total, PoolsOf
<1>2. MongoCountersExact' <=> Exact(conns', counter')
  BY DEF MongoCountersExact, Exact, Total, PoolsOf, MapThenSumSet, MapThenFoldSet
<1> QED BY <1>1, <1>2

\* The pools of a label are finitely many.
LEMMA PoolsFinite == ASSUME NEW l PROVE IsFiniteSet(PoolsOf(l))
<1>1. PoolsOf(l) \in SUBSET Pool
  BY DEF PoolsOf, Mongo
<1> QED BY <1>1, PoolAssumption, FS_Subset

\* From c to b, pool p has dl more connections open, da more checkouts waiting
\* and dn more connections lent.
ConnsMove(b, c, p, dl, da, dn) ==
    \A q \in Mongo :
        /\ b[q]["live"] = c[q]["live"] + (IF q = p THEN dl ELSE 0)
        /\ b[q]["asked"] = c[q]["asked"] + (IF q = p THEN da ELSE 0)
        /\ b[q]["lent"] = c[q]["lent"] + (IF q = p THEN dn ELSE 0)

\* From k to m, the counters of p's label imply as much.
CountersMove(m, k, p, dl, da, dn) ==
    \A l \in Labels :
        /\ m[l]["created"] - m[l]["closed"]
              = k[l]["created"] - k[l]["closed"] + (IF l = Label(p) THEN dl ELSE 0)
        /\ m[l]["started"] - m[l]["failed"] - m[l]["succeeded"]
              = k[l]["started"] - k[l]["failed"] - k[l]["succeeded"]
                  + (IF l = Label(p) THEN da ELSE 0)
        /\ m[l]["succeeded"] - m[l]["returned"]
              = k[l]["succeeded"] - k[l]["returned"] + (IF l = Label(p) THEN dn ELSE 0)

\* A step that changes one pool's connections and its label's counters by the
\* same amounts keeps them exact.
LEMMA ExactStep ==
    ASSUME NEW p \in Mongo, NEW c \in Connections, NEW b \in Connections,
           NEW k \in Counters, NEW m \in Counters,
           NEW dl \in Int, NEW da \in Int, NEW dn \in Int,
           ConnsMove(b, c, p, dl, da, dn), CountersMove(m, k, p, dl, da, dn),
           Exact(c, k)
    PROVE  Exact(b, m)
<1> SUFFICES ASSUME NEW l \in Labels
             PROVE  /\ m[l]["created"] - m[l]["closed"] = Total(b, "live", PoolsOf(l))
                    /\ m[l]["started"] - m[l]["failed"] - m[l]["succeeded"]
                          = Total(b, "asked", PoolsOf(l))
                    /\ m[l]["succeeded"] - m[l]["returned"] = Total(b, "lent", PoolsOf(l))
  BY DEF Exact
<1> DEFINE S == PoolsOf(l)
<1>1. IsFiniteSet(S) /\ S \subseteq Mongo /\ (p \in S <=> l = Label(p))
  BY PoolsFinite DEF PoolsOf
<1>2. \A q \in Mongo : c[q]["live"] \in Int /\ c[q]["asked"] \in Int /\ c[q]["lent"] \in Int
  BY DEF Connections
<1> HIDE DEF S
<1>3. Total(b, "live", S) = Total(c, "live", S) + (IF p \in S THEN dl ELSE 0)
  <2>1. \A q \in S : c[q]["live"] \in Int /\ b[q]["live"] = c[q]["live"] + (IF q = p THEN dl ELSE 0)
    BY <1>1, <1>2 DEF ConnsMove
  <2> QED BY <1>1, <2>1, TotalChange
<1>4. Total(b, "asked", S) = Total(c, "asked", S) + (IF p \in S THEN da ELSE 0)
  <2>1. \A q \in S : c[q]["asked"] \in Int /\ b[q]["asked"] = c[q]["asked"] + (IF q = p THEN da ELSE 0)
    BY <1>1, <1>2 DEF ConnsMove
  <2> QED BY <1>1, <2>1, TotalChange
<1>5. Total(b, "lent", S) = Total(c, "lent", S) + (IF p \in S THEN dn ELSE 0)
  <2>1. \A q \in S : c[q]["lent"] \in Int /\ b[q]["lent"] = c[q]["lent"] + (IF q = p THEN dn ELSE 0)
    BY <1>1, <1>2 DEF ConnsMove
  <2> QED BY <1>1, <2>1, TotalChange
<1>6. /\ k[l]["created"] - k[l]["closed"] = Total(c, "live", S)
      /\ k[l]["started"] - k[l]["failed"] - k[l]["succeeded"] = Total(c, "asked", S)
      /\ k[l]["succeeded"] - k[l]["returned"] = Total(c, "lent", S)
  BY DEF Exact, S
<1> QED BY <1>1, <1>3, <1>4, <1>5, <1>6 DEF S, CountersMove

\* The monitor adds to one counter of one label.
LEMMA EventCounted ==
    ASSUME counter \in Counters, NEW p \in Mongo, NEW e \in Event, NEW n \in Int,
           mongoEventHandler(p, e, n)
    PROVE  /\ counter' \in Counters
           /\ \A l \in Labels, x \in Event :
                 counter'[l][x] = counter[l][x] + (IF l = Label(p) /\ x = e THEN n ELSE 0)
<1>1. counter' = [counter EXCEPT ![Label(p)][e] = @ + n]
  BY DEF mongoEventHandler
<1>2. Label(p) \in Labels
  BY DEF Labels
<1>3. \A l \in Labels, x \in Event : counter[l][x] \in Int
  BY DEF Counters
<1>4. counter' \in Counters
  BY <1>1, <1>2, <1>3 DEF Counters
<1>5. ASSUME NEW l \in Labels, NEW x \in Event
      PROVE  counter'[l][x] = counter[l][x] + (IF l = Label(p) /\ x = e THEN n ELSE 0)
  BY <1>1, <1>2, <1>3 DEF Counters
<1> QED BY <1>4, <1>5

\* What n events of a type say of the connections open, the checkouts waiting
\* and the connections lent.
Opened(e, n) == IF e = "created" THEN n ELSE IF e = "closed" THEN -n ELSE 0
Asked(e, n) == IF e = "started" THEN n ELSE IF e \in {"failed", "succeeded"} THEN -n ELSE 0
Lent(e, n) == IF e = "succeeded" THEN n ELSE IF e = "returned" THEN -n ELSE 0

\* The counters follow a pool that changes as the events it reports say.
LEMMA EventExact ==
    ASSUME conns \in Connections, conns' \in Connections, counter \in Counters,
           MongoCountersExact, NEW p \in Mongo, NEW e \in Event, NEW n \in Int,
           mongoEventHandler(p, e, n),
           ConnsMove(conns', conns, p, Opened(e, n), Asked(e, n), Lent(e, n))
    PROVE  counter' \in Counters /\ MongoCountersExact'
<1>1. /\ counter' \in Counters
      /\ \A l \in Labels, x \in Event :
            counter'[l][x] = counter[l][x] + (IF l = Label(p) /\ x = e THEN n ELSE 0)
  BY EventCounted
<1>2. \A l \in Labels, x \in Event : counter[l][x] \in Int
  BY DEF Counters
<1>3. Opened(e, n) \in Int /\ Asked(e, n) \in Int /\ Lent(e, n) \in Int
  BY DEF Opened, Asked, Lent
<1> DEFINE k == counter
           m == counter'
<1>4. ASSUME NEW l \in Labels
      PROVE  /\ m[l]["created"] - m[l]["closed"]
                   = k[l]["created"] - k[l]["closed"] + (IF l = Label(p) THEN Opened(e, n) ELSE 0)
             /\ m[l]["started"] - m[l]["failed"] - m[l]["succeeded"]
                   = k[l]["started"] - k[l]["failed"] - k[l]["succeeded"]
                       + (IF l = Label(p) THEN Asked(e, n) ELSE 0)
             /\ m[l]["succeeded"] - m[l]["returned"]
                   = k[l]["succeeded"] - k[l]["returned"] + (IF l = Label(p) THEN Lent(e, n) ELSE 0)
  <2>1. \A x \in {"created", "closed", "started", "failed", "succeeded", "returned"} :
          /\ k[l][x] \in Int
          /\ m[l][x] = k[l][x] + (IF l = Label(p) /\ x = e THEN n ELSE 0)
    BY <1>1, <1>2 DEF Event
  <2>2. e \in {"created", "closed", "started", "failed", "succeeded", "returned"}
    BY DEF Event
  <2> HIDE DEF k, m
  <2>3. CASE l # Label(p)
    BY <2>1, <2>3
  <2>4. CASE l = Label(p)
    BY <2>1, <2>2, <2>4 DEF Opened, Asked, Lent
  <2> QED BY <2>3, <2>4
<1>5. CountersMove(m, k, p, Opened(e, n), Asked(e, n), Lent(e, n))
  BY <1>4 DEF CountersMove
<1>6. Exact(conns', m)
  <2>1. m \in Counters /\ Exact(conns, k)
    BY <1>1, ExactForm
  <2> QED BY <1>3, <1>5, <2>1, ExactStep
<1> QED BY <1>1, <1>6, ExactForm

\* What a driver does to a pool's connections it tells the monitor.
LEMMA DriverExact ==
    ASSUME IInv, counter \in Counters, MongoCountersExact, NEW p \in Mongo, Driver(p)
    PROVE  counter' \in Counters /\ MongoCountersExact'
<1>0. conns \in Connections /\ conns' \in Connections
  BY DriverFacts DEF IInv, Typed, Connections
<1>1. PICK e \in Event :
        /\ mongoEventHandler(p, e, 1)
        /\ ConnsMove(conns', conns, p, Opened(e, 1), Asked(e, 1), Lent(e, 1))
  <2>1. CASE CheckoutStarts(p)
    <3>1. "started" \in Event /\ mongoEventHandler(p, "started", 1)
      BY <2>1 DEF CheckoutStarts, Event
    <3>2. ConnsMove(conns', conns, p, Opened("started", 1), Asked("started", 1), Lent("started", 1))
      BY <1>0, <2>1 DEF CheckoutStarts, Connections, ConnsMove, Opened, Asked, Lent
    <3> QED BY <3>1, <3>2
  <2>2. CASE CheckoutFails(p)
    <3>1. "failed" \in Event /\ mongoEventHandler(p, "failed", 1)
      BY <2>2 DEF CheckoutFails, Event
    <3>2. ConnsMove(conns', conns, p, Opened("failed", 1), Asked("failed", 1), Lent("failed", 1))
      BY <1>0, <2>2 DEF CheckoutFails, Connections, ConnsMove, Opened, Asked, Lent
    <3> QED BY <3>1, <3>2
  <2>3. CASE CheckoutSucceeds(p)
    <3>1. "succeeded" \in Event /\ mongoEventHandler(p, "succeeded", 1)
      BY <2>3 DEF CheckoutSucceeds, Event
    <3>2. ConnsMove(conns', conns, p, Opened("succeeded", 1), Asked("succeeded", 1), Lent("succeeded", 1))
      BY <1>0, <2>3 DEF CheckoutSucceeds, Connections, ConnsMove, Opened, Asked, Lent
    <3> QED BY <3>1, <3>2
  <2>4. CASE CheckIn(p)
    <3>1. "returned" \in Event /\ mongoEventHandler(p, "returned", 1)
      BY <2>4 DEF CheckIn, Event
    <3>2. ConnsMove(conns', conns, p, Opened("returned", 1), Asked("returned", 1), Lent("returned", 1))
      BY <1>0, <2>4 DEF CheckIn, Connections, ConnsMove, Opened, Asked, Lent
    <3> QED BY <3>1, <3>2
  <2>5. CASE Connect(p)
    <3>1. "created" \in Event /\ mongoEventHandler(p, "created", 1)
      BY <2>5 DEF Connect, Event
    <3>2. ConnsMove(conns', conns, p, Opened("created", 1), Asked("created", 1), Lent("created", 1))
      BY <1>0, <2>5 DEF Connect, Connections, ConnsMove, Opened, Asked, Lent
    <3> QED BY <3>1, <3>2
  <2>6. CASE Drop(p)
    <3>1. "closed" \in Event /\ mongoEventHandler(p, "closed", 1)
      BY <2>6 DEF Drop, Event
    <3>2. ConnsMove(conns', conns, p, Opened("closed", 1), Asked("closed", 1), Lent("closed", 1))
      BY <1>0, <2>6 DEF Drop, Connections, ConnsMove, Opened, Asked, Lent
    <3> QED BY <3>1, <3>2
  <2> QED BY <2>1, <2>2, <2>3, <2>4, <2>5, <2>6 DEF Driver
<1> QED BY <1>0, <1>1, EventExact

\* Closing a pool reports each connection it closes.
LEMMA CloseExact ==
    ASSUME IInv, counter \in Counters, MongoCountersExact, NEW p \in Pool, CloseHandle(p)
    PROVE  counter' \in Counters /\ MongoCountersExact'
<1>0. conns \in Connections /\ conns' \in Connections
  BY CloseHandleFacts DEF IInv, Typed, Connections
<1>1. CASE p \in Mongo
  <2> DEFINE n == conns[p]["live"]
  <2>1. conns' = [conns EXCEPT ![p].live = 0] /\ mongoEventHandler(p, "closed", conns[p].live)
    BY <1>1 DEF CloseHandle
  <2>2. n \in Int /\ n = conns[p].live
    BY <1>0, <1>1 DEF Connections
  <2>3. ConnsMove(conns', conns, p, Opened("closed", n), Asked("closed", n), Lent("closed", n))
    BY <1>0, <1>1, <2>1, <2>2 DEF Connections, ConnsMove, Opened, Asked, Lent
  <2>4. "closed" \in Event /\ mongoEventHandler(p, "closed", n)
    BY <2>1, <2>2 DEF Event
  <2> HIDE DEF n
  <2> QED BY <1>0, <1>1, <2>2, <2>3, <2>4, EventExact
<1>2. CASE p \notin Mongo
  <2>1. conns' = conns /\ counter' = counter
    BY <1>2 DEF CloseHandle, mongo
  <2> QED BY <2>1, ExactForm
<1> QED BY <1>1, <1>2

\* No connection and no event at the start.
LEMMA InitExact == Init => counter \in Counters /\ MongoCountersExact
<1> SUFFICES ASSUME Init PROVE counter \in Counters /\ MongoCountersExact
  OBVIOUS
<1>1. counter = [l \in Labels |-> [e \in Event |-> 0]]
  BY DEF Init
<1>2. counter \in Counters
  BY <1>1 DEF Counters
<1>3. \A l \in Labels, e \in {"created", "closed", "started", "failed", "succeeded", "returned"} :
        counter[l][e] = 0
  BY <1>1 DEF Event
<1>4. \A p \in Mongo : conns[p]["live"] = 0 /\ conns[p]["asked"] = 0 /\ conns[p]["lent"] = 0
  BY DEF Init
<1>5. ASSUME NEW l \in Labels
      PROVE  /\ Total(conns, "live", PoolsOf(l)) = 0
             /\ Total(conns, "asked", PoolsOf(l)) = 0
             /\ Total(conns, "lent", PoolsOf(l)) = 0
  <2> DEFINE S == PoolsOf(l)
  <2>1. IsFiniteSet(S) /\ S \subseteq Mongo
    BY PoolsFinite DEF PoolsOf
  <2> HIDE DEF S
  <2>2. \A p \in S : conns[p]["live"] = 0 /\ conns[p]["asked"] = 0 /\ conns[p]["lent"] = 0
    BY <1>4, <2>1
  <2>3. Total(conns, "live", S) = 0 /\ Total(conns, "asked", S) = 0 /\ Total(conns, "lent", S) = 0
    BY <2>1, <2>2, TotalZero
  <2> QED BY <2>3 DEF S
<1>6. Exact(conns, counter)
  BY <1>3, <1>5 DEF Exact
<1> QED BY <1>2, <1>6, ExactForm

\* Every step of a constructor, a cleanup, a driver or a scrape keeps the
\* counters exact.
LEMMA NextExact ==
    IInv /\ counter \in Counters /\ MongoCountersExact /\ [Next]_vars
        => counter' \in Counters /\ MongoCountersExact'
<1> SUFFICES ASSUME IInv, counter \in Counters, MongoCountersExact, [Next]_vars
             PROVE  counter' \in Counters /\ MongoCountersExact'
  OBVIOUS
<1>1. CASE UNCHANGED mongo
  <2>1. conns' = conns /\ counter' = counter
    BY <1>1 DEF mongo
  <2> QED BY <2>1, ExactForm
<1>2. ASSUME NEW p \in Pool, PingFails(p) \/ CleanupClose(p)
      PROVE  counter' \in Counters /\ MongoCountersExact'
  <2>1. CloseHandle(p)
    BY <1>2 DEF PingFails, CleanupClose
  <2> QED BY <2>1, CloseExact
<1>3. ASSUME NEW p \in Mongo, Driver(p)
      PROVE  counter' \in Counters /\ MongoCountersExact'
  BY <1>3, DriverExact
<1>4. ASSUME NEW p \in Pool,
             Refuse(p) \/ Open(p) \/ PingSucceeds(p) \/ Register(p)
                \/ CleanupUnregister(p) \/ Collect(p)
      PROVE  UNCHANGED mongo
  BY <1>4 DEF Refuse, Open, PingSucceeds, Register, CleanupUnregister, Collect
<1>5. CASE Gather \/ Expose \/ UNCHANGED vars
  <2>1. UNCHANGED mongo
    BY <1>5 DEF Gather, Expose, vars
  <2> QED BY <1>1, <2>1
<1> QED BY <1>1, <1>2, <1>3, <1>4, <1>5 DEF Next

\* The connections open, the checkouts waiting and the connections lent that
\* a label's counters imply are the ones its pools have between them, for any
\* number of pools under any names.
THEOREM CountersExact == Spec => []MongoCountersExact
<1> DEFINE J == counter \in Counters /\ MongoCountersExact
<1>1. Init => J
  BY InitExact
<1>2. IInv /\ J /\ [Next]_vars => J'
  <2> SUFFICES ASSUME IInv, J, [Next]_vars PROVE J'
    OBVIOUS
  <2>1. Counters' = Counters
    BY DEF Counters, Labels, Mongo, Event, Label
  <2> QED BY <2>1, NextExact
<1>3. J => MongoCountersExact
  OBVIOUS
<1> HIDE DEF J
<1> QED BY <1>1, <1>2, <1>3, Invariance, PTL DEF Spec

-----------------------------------------------------------------------------
(* ConfigLoader.                                                           *)

\* A non-empty set of naturals has a least element.
LEMMA LeastElement ==
    ASSUME NEW T, T \subseteq Nat, T # {}
    PROVE  \E x \in T : \A y \in T : x <= y
<1> DEFINE R == {ss \in Nat \X Nat : ss[1] < ss[2]}
<1>1. IsWellFoundedOn(R, Nat)
  BY NatLessThanWellFounded DEF OpToRel
<1>2. PICK x \in T : \A y \in T : ~ (<<y, x>> \in R)
  <2> HIDE DEF R
  <2> QED BY <1>1, WFMin
<1>3. \A y \in T : x <= y
  <2> SUFFICES ASSUME NEW y \in T PROVE x <= y
    OBVIOUS
  <2>1. x \in Nat /\ y \in Nat
    OBVIOUS
  <2>2. ~ (y < x)
    BY <1>2, <2>1
  <2> QED BY <2>1, <2>2
<1> QED BY <1>3

\* findFile finds a file that is there, and none nearer is.
LEMMA FindFileFacts ==
    ASSUME NEW n
    PROVE  LET i == FindFile(n)
           IN  i # 0 => /\ i \in DOMAIN Dirs /\ Present(i, n)
                        /\ \A k \in 1 .. i - 1 : ~ Present(k, n)
<1> DEFINE T == {i \in DOMAIN Dirs : Present(i, n)}
           Q(i) == Present(i, n) /\ \A j \in 1 .. i - 1 : ~ Present(j, n)
<1>1. DOMAIN Dirs = 1 .. Len(Dirs) /\ Len(Dirs) \in Nat
  BY InputsAssumption
<1>2. CASE T = {}
  BY <1>2 DEF FindFile
<1>3. CASE T # {}
  <2>1. PICK x \in T : \A y \in T : x <= y
    <3>1. T \subseteq Nat
      BY <1>1
    <3> HIDE DEF T
    <3> QED BY <1>3, <3>1, LeastElement
  <2>2. x \in DOMAIN Dirs /\ x \in Nat
    BY <1>1
  <2>3. ASSUME NEW j \in 1 .. x - 1 PROVE ~ Present(j, n)
    <3>1. j \in DOMAIN Dirs /\ ~ (x <= j)
      BY <1>1, <2>2
    <3> QED BY <2>1, <3>1
  <2>4. \E i \in DOMAIN Dirs : Q(i)
    BY <2>2, <2>3
  <2> DEFINE f == CHOOSE i \in DOMAIN Dirs : Q(i)
  <2>5. FindFile(n) = f
    BY <1>3 DEF FindFile
  <2>6. f \in DOMAIN Dirs /\ Q(f)
    <3> HIDE DEF Q
    <3> QED BY <2>4
  <2> QED BY <2>5, <2>6
<1> QED BY <1>2, <1>3

\* A value from a file is neither empty nor from the environment.
LEMMA ValuesDiffer ==
    /\ Unset # Empty /\ Unset # FromEnv
    /\ \A d, n : FromFile(d, n) \notin {Unset, Empty, FromEnv}
    /\ \A d, n, b, m : FromFile(d, n) = FromFile(b, m) => d = b /\ n = m
<1>1. Unset # Empty /\ Unset # FromEnv
  BY DEF Unset, Empty, FromEnv
<1>2. ASSUME NEW d, NEW n
      PROVE  FromFile(d, n) \notin {Unset, Empty, FromEnv}
  BY DEF FromFile, Unset, Empty, FromEnv
<1>3. ASSUME NEW d, NEW n, NEW b, NEW m, FromFile(d, n) = FromFile(b, m)
      PROVE  d = b /\ n = m
  BY <1>3 DEF FromFile
<1> QED BY <1>1, <1>2, <1>3

\* The layers by number.
LEMMA LayerFacts ==
    /\ Len(Layers) = 3
    /\ Layers[1] = ".env.global"
    /\ Layers[2] = ".env.example"
    /\ Layers[3] = ".env"
    /\ Names = {".env.global", ".env.example", ".env"}
BY DEF Layers, Names

\* The file a layer is read from can be read, if there is one.
Readable(n) ==
    FindFile(n) # 0 => Content(FindFile(n), n) # "unreadable"

\* The key after the layers before the given one, by the order they are read in.
After(k) ==
    LET e2 == Merge(env0, Provides(".env.global"))
        e3 == Merge(e2, Provides(".env.example"))
        e4 == Merge(e3, Provides(".env"))
    IN  IF k = 1 THEN env0 ELSE IF k = 2 THEN e2 ELSE IF k = 3 THEN e3 ELSE e4

\* Load has merged the layers before the one it is at, all readable.
ConfigInv ==
    /\ layer \in {1, 2, 3, 4}
    /\ status \in {"loading", "loaded", "error", "started", "refused"}
    /\ status \in {"loaded", "started", "refused"} => layer = 4
    /\ env0 \in {Unset, Empty, FromEnv}
    /\ env = After(layer)
    /\ layer > 1 => Readable(".env.global")
    /\ layer > 2 => Readable(".env.example")
    /\ layer > 3 => Readable(".env")
    /\ status = "started" => env \notin {Unset, Empty}
    /\ status = "refused" => env \in {Unset, Empty}

\* Reading a layer merges what it provides.
LEMMA LayerMerged ==
    ASSUME NEW n, NEW old
    PROVE  (IF FindFile(n) # 0 /\ Content(FindFile(n), n) \in {"empty", "value"}
            THEN Merge(old, Parsed(FindFile(n), n)) ELSE old)
               = Merge(old, Provides(n))
BY DEF Merge, Provides

\* The files and the environment the process was given stay as they are.
LEMMA SameInputs ==
    ASSUME files' = files, env0' = env0
    PROVE  /\ \A k : After(k)' = After(k)
           /\ \A n : Readable(n)' = Readable(n)
<1>1. ASSUME NEW n PROVE /\ FindFile(n)' = FindFile(n)
                         /\ Provides(n)' = Provides(n)
                         /\ Readable(n)' = Readable(n)
  <2>1. FindFile(n)' = FindFile(n)
    BY DEF FindFile, Present, Content
  <2>2. Provides(n)' = Provides(n)
    BY <2>1 DEF Provides, Parsed, Content
  <2>3. Readable(n)' = Readable(n)
    BY <2>1 DEF Readable, Content
  <2> QED BY <2>1, <2>2, <2>3
<1>2. ASSUME NEW k PROVE After(k)' = After(k)
  BY <1>1 DEF After, Merge
<1> QED BY <1>1, <1>2

\* Load before it reads anything.
LEMMA ConfigInit == LoadInit => ConfigInv
BY DEF LoadInit, ConfigInv, After

\* Every step of Load and MustGetSecret preserves it.
LEMMA ConfigNext == ConfigInv /\ [LoadNext]_loadVars => ConfigInv'
<1> SUFFICES ASSUME ConfigInv, [LoadNext]_loadVars PROVE ConfigInv'
  OBVIOUS
<1>0. files' = files /\ env0' = env0
  BY DEF LoadNext, LoadLayer, Loaded, MustGetSecret, loadVars
<1>1. /\ \A k : After(k)' = After(k)
      /\ \A n : Readable(n)' = Readable(n)
  BY <1>0, SameInputs
<1>2. CASE LoadLayer
  <2> DEFINE n == Layers[layer]
             i == FindFile(n)
  <2>1. status = "loading" /\ layer \in {1, 2, 3}
    BY <1>2, LayerFacts DEF LoadLayer, ConfigInv
  <2>2. CASE i # 0 /\ Content(i, n) = "unreadable"
    <3>1. status' = "error" /\ env' = env /\ layer' = layer
      BY <1>2, <2>2 DEF LoadLayer
    <3> QED BY <1>0, <1>1, <3>1 DEF ConfigInv
  <2>3. CASE ~ (i # 0 /\ Content(i, n) = "unreadable")
    <3>1. /\ layer' = layer + 1 /\ status' = status
          /\ env' = IF i # 0 /\ Content(i, n) \in {"empty", "value"}
                    THEN Merge(env, Parsed(i, n)) ELSE env
      BY <1>2, <2>3 DEF LoadLayer
    <3>2. env' = Merge(env, Provides(n))
      BY <3>1, LayerMerged
    <3>3. Readable(n)
      BY <2>3 DEF Readable
    <3> HIDE DEF i
    <3>4. CASE layer = 1
      <4>1. n = ".env.global"
        BY <3>4, LayerFacts
      <4>2. env' = After(2)
        BY <3>2, <3>4, <4>1 DEF ConfigInv, After
      <4> QED BY <1>0, <1>1, <2>1, <3>1, <3>3, <3>4, <4>1, <4>2 DEF ConfigInv
    <3>5. CASE layer = 2
      <4>1. n = ".env.example"
        BY <3>5, LayerFacts
      <4>2. env' = After(3)
        BY <3>2, <3>5, <4>1 DEF ConfigInv, After
      <4> QED BY <1>0, <1>1, <2>1, <3>1, <3>3, <3>5, <4>1, <4>2 DEF ConfigInv
    <3>6. CASE layer = 3
      <4>1. n = ".env"
        BY <3>6, LayerFacts
      <4>2. env' = After(4)
        BY <3>2, <3>6, <4>1 DEF ConfigInv, After
      <4> QED BY <1>0, <1>1, <2>1, <3>1, <3>3, <3>6, <4>1, <4>2 DEF ConfigInv
    <3> QED BY <2>1, <3>4, <3>5, <3>6
  <2> QED BY <2>2, <2>3
<1>3. CASE Loaded
  <2>1. /\ status' = "loaded" /\ env' = env /\ layer' = layer
        /\ status = "loading" /\ layer = 4
    BY <1>3, LayerFacts DEF Loaded, ConfigInv
  <2> QED BY <1>0, <1>1, <2>1 DEF ConfigInv
<1>4. CASE MustGetSecret
  <2>1. /\ status = "loaded" /\ env' = env /\ layer' = layer
        /\ status' = IF env \in {Unset, Empty} THEN "refused" ELSE "started"
    BY <1>4, ValuesDiffer DEF MustGetSecret, Getenv
  <2> QED BY <1>0, <1>1, <2>1 DEF ConfigInv
<1>5. CASE UNCHANGED loadVars
  <2>1. env' = env /\ layer' = layer /\ status' = status
    BY <1>5 DEF loadVars
  <2> QED BY <1>0, <1>1, <2>1 DEF ConfigInv
<1> QED BY <1>2, <1>3, <1>4, <1>5 DEF LoadNext

\* The invariant, of every Load.
LEMMA ConfigInvariance == LoadSpec => []ConfigInv
BY ConfigInit, ConfigNext, PTL DEF LoadSpec

\* What a layer provides is unset, empty or from the nearest of its files.
LEMMA ProvidesFacts ==
    ASSUME NEW n
    PROVE  \/ Provides(n) \in {Unset, Empty}
           \/ /\ FindFile(n) \in DOMAIN Dirs
              /\ Provides(n) = FromFile(Dirs[FindFile(n)], n)
              /\ \A k \in 1 .. FindFile(n) - 1 : ~ Present(k, n)
<1> DEFINE i == FindFile(n)
<1>1. \/ Provides(n) \in {Unset, Empty}
      \/ i # 0 /\ Provides(n) = FromFile(Dirs[i], n)
  BY DEF Provides, Parsed
<1>2. i # 0 => i \in DOMAIN Dirs /\ \A k \in 1 .. i - 1 : ~ Present(k, n)
  BY FindFileFacts
<1> QED BY <1>1, <1>2

\* A successful Load has passed over no broken layer, leaves no key unset that
\* a layer mentions and takes each value from the nearest file of its layer,
\* for any search paths, repeated ones included.
THEOREM NothingIsMissed == LoadSpec => []NothingMissed
<1>1. ConfigInv => NothingMissed
  <2> SUFFICES ASSUME ConfigInv, status \in {"loaded", "started", "refused"}
               PROVE  /\ \A n \in Names : Readable(n)
                      /\ env = Unset => \A n \in Names : Provides(n) = Unset
                      /\ \A n \in Names, j \in DOMAIN Dirs :
                            env = FromFile(Dirs[j], n) =>
                                \E i \in DOMAIN Dirs :
                                    /\ Dirs[i] = Dirs[j]
                                    /\ \A k \in 1 .. i - 1 : ~ Present(k, n)
    BY DEF NothingMissed, Readable
  <2>1. \A n \in Names : Readable(n)
    BY LayerFacts DEF ConfigInv
  <2>2. env = After(4) /\ env0 \in {Unset, Empty, FromEnv}
    BY DEF ConfigInv
  <2>3. env = Unset => \A n \in Names : Provides(n) = Unset
    BY <2>2, LayerFacts DEF After, Merge
  <2>4. env = env0 \/ \E n \in Names : env = Provides(n)
    BY <2>2, LayerFacts DEF After, Merge
  <2>5. ASSUME NEW n \in Names, NEW j \in DOMAIN Dirs, env = FromFile(Dirs[j], n)
        PROVE  \E i \in DOMAIN Dirs :
                  /\ Dirs[i] = Dirs[j]
                  /\ \A k \in 1 .. i - 1 : ~ Present(k, n)
    <3>1. env # env0
      BY <2>2, <2>5, ValuesDiffer
    <3>2. PICK m \in Names : env = Provides(m)
      BY <2>4, <3>1
    <3>3. env \notin {Unset, Empty}
      BY <2>5, ValuesDiffer
    <3>4. /\ FindFile(m) \in DOMAIN Dirs
          /\ env = FromFile(Dirs[FindFile(m)], m)
          /\ \A k \in 1 .. FindFile(m) - 1 : ~ Present(k, m)
      BY <3>2, <3>3, ProvidesFacts
    <3>5. m = n /\ Dirs[FindFile(m)] = Dirs[j]
      <4>1. FromFile(Dirs[FindFile(m)], m) = FromFile(Dirs[j], n)
        BY <2>5, <3>4
      <4> QED BY <4>1, ValuesDiffer
    <3> QED BY <3>4, <3>5
  <2> QED BY <2>1, <2>3, <2>5
<1> QED BY <1>1, ConfigInvariance, PTL

\* The deployment's own variable decides alone, a service that started has a
\* value some source gives, and one that refused has none or a source that says
\* KEY=.
THEOREM SecretDecided == LoadSpec => []SecretDecision
<1>1. ConfigInv => SecretDecision
  <2> SUFFICES ASSUME ConfigInv, status \in {"started", "refused"}
               PROVE  /\ env0 # Unset => (status = "started" <=> env0 # Empty) /\ env = env0
                      /\ status = "started" =>
                            \E k \in DOMAIN Sources : Sources[k] \notin {Unset, Empty}
                      /\ status = "refused" =>
                            \/ \A k \in DOMAIN Sources : Sources[k] = Unset
                            \/ \E k \in DOMAIN Sources : Sources[k] = Empty
    BY DEF SecretDecision
  <2> DEFINE G == Provides(".env.global")
             X == Provides(".env.example")
             E == Provides(".env")
             U == Unset
             None == {Unset, Empty}
             S == Sources
  <2>1. /\ env = After(4)
        /\ status = "started" <=> env \notin None
    BY DEF ConfigInv
  <2>2. env = IF env0 # U THEN env0 ELSE IF G # U THEN G ELSE IF X # U THEN X ELSE E
    BY <2>1 DEF After, Merge
  <2>3. DOMAIN S = 1 .. 4 /\ S[1] = env0 /\ S[2] = E /\ S[3] = G /\ S[4] = X
    BY DEF Sources
  <2> HIDE DEF G, X, E, S
  <2>4. env0 # U => (status = "started" <=> env0 # Empty) /\ env = env0
    BY <2>1, <2>2
  <2>5. env \in {S[1], S[2], S[3], S[4]}
    BY <2>2, <2>3
  <2>6. \A k \in {1, 2, 3, 4} : k \in DOMAIN S
    BY <2>3
  <2>7. status = "started" => \E k \in DOMAIN S : S[k] \notin None
    BY <2>1, <2>5, <2>6
  <2>8. ASSUME status = "refused"
        PROVE  (\A k \in DOMAIN S : S[k] = U) \/ \E k \in DOMAIN S : S[k] = Empty
    <3>1. env = Empty \/ env = U
      BY <2>1, <2>8
    <3>2. CASE env = Empty
      BY <2>5, <2>6, <3>2
    <3>3. CASE env = U
      <4>1. env0 = U /\ G = U /\ X = U /\ E = U
        BY <2>2, <3>3
      <4>2. \A k \in DOMAIN S : k \in {1, 2, 3, 4}
        BY <2>3
      <4> QED BY <2>3, <4>1, <4>2
    <3> QED BY <3>1, <3>2, <3>3
  <2> QED BY <2>4, <2>7, <2>8 DEF S
<1> QED BY <1>1, ConfigInvariance, PTL

=============================================================================
