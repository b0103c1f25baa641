---------------------------- MODULE MCRateLimit ----------------------------
(***************************************************************************)
(* An instance of RateLimit for TLC.                                       *)
(***************************************************************************)
EXTENDS RateLimit

=============================================================================
