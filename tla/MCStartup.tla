------------------------------ MODULE MCStartup ------------------------------
(***************************************************************************)
(* The boot of a service as docs/secrets.md writes it, for TLC: Load,      *)
(* MustGetSecret for the pool's DSN and only then the constructors of      *)
(* pkg/data.                                                               *)
(***************************************************************************)
EXTENDS MCConfigLoader, MCPoolMetrics

\* "Production never sees a .env": the secret is in the environment.
Production == env0 = FromEnv /\ \A f \in DOMAIN files : files[f] = "missing"

BootInit == LoadInit /\ Init

\* A service that got its secret opens its pools.  Bound: the pools, which do
\* not depend on the files, are followed in the production environment.
BootNext ==
    \/ LoadNext /\ UNCHANGED vars
    \/ status = "started" /\ Production /\ Next /\ UNCHANGED loadVars

BootSpec == BootInit /\ [][BootNext]_<<loadVars, vars>>

=============================================================================
