--------------------------- MODULE MCPoolMetrics ---------------------------
(***************************************************************************)
(* Instances of PoolMetrics for TLC.                                       *)
(***************************************************************************)
EXTENDS PoolMetrics, TLC

CONSTANTS p1, p2, p3, p4, p5

\* Two SQL pools, a Redis pool and two Mongo pools, all unnamed.
UnnamedPools == {p1, p2, p3, p4, p5}
UnnamedKind == [p \in UnnamedPools |->
    CASE p \in {p1, p2} -> "sql" [] p = p3 -> "redis" [] OTHER -> "mongo"]
UnnamedName == [p \in UnnamedPools |-> ""]

\* Pools of one kind may be exchanged.
UnnamedSymmetry == {f @@ g : f \in Permutations({p1, p2}), g \in Permutations({p4, p5})}

\* Two SQL pools with names of their own.
NamedPools == {p1, p2}
NamedKind == [p \in NamedPools |-> "sql"]
NamedName == [p \in NamedPools |-> IF p = p1 THEN "orders" ELSE "users"]

=============================================================================
