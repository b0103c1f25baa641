------------------------------- MODULE MCPage -------------------------------
(***************************************************************************)
(* Page for TLC, with numbers of W bits.                                   *)
(***************************************************************************)
EXTENDS Page

\* Page sizes below, at and above every boundary, and every page number.
MCSizes == {-1, 0, 1, 2, MaxPageSize, MaxPageSize + 1, MaxInt}
MCNumbers == -1 .. MaxInt

=============================================================================
