------------------------------ MODULE MCRetry ------------------------------
(***************************************************************************)
(* Retry for TLC; the cfg gives every constant its value.                  *)
(***************************************************************************)
EXTENDS Retry

=============================================================================
