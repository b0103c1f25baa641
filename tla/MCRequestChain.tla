--------------------------- MODULE MCRequestChain ---------------------------
(***************************************************************************)
(* Instances of RequestChain for TLC: the chains of kris-beta and          *)
(* kris-gamma, and one that uses every middleware.                         *)
(***************************************************************************)
EXTENDS RequestChain, TLC

\* Every middleware of the repository in one chain.
FullExtra == <<"timeout", "auth", "ratelimit">>

Symmetry == Permutations(Request)

=============================================================================
