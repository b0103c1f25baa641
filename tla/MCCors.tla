------------------------------- MODULE MCCors -------------------------------
(***************************************************************************)
(* Cors for TLC; the cfg gives every constant its value.                   *)
(***************************************************************************)
EXTENDS Cors

=============================================================================
