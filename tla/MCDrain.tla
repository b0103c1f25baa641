------------------------------ MODULE MCDrain ------------------------------
(***************************************************************************)
(* Instances of Drain for TLC.                                             *)
(***************************************************************************)
EXTENDS Drain

\* What the repository builds and what Drainer's comment recommends.
AllServices == {KrisAlpha, KrisGamma, KrisGammaAlone, DrainerUsage}

=============================================================================
