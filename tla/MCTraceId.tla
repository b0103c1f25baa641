----------------------------- MODULE MCTraceId -----------------------------
(***************************************************************************)
(* Inputs of TraceId for TLC.                                              *)
(***************************************************************************)
EXTENDS TraceId, TLC

\* A client that sends no id, or ids of its own choice.
ClientIds == {0, -1, -2}

Symmetry == Permutations(Call)

=============================================================================
