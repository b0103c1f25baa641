--------------------------- MODULE MCConfigLoader ---------------------------
(***************************************************************************)
(* ConfigLoader for TLC with NewLoader's search paths: the service         *)
(* directory, the project root and the service directory's parent, which   *)
(* is the project root again.                                              *)
(***************************************************************************)
EXTENDS ConfigLoader

SearchPaths == <<"service", "root", "root">>

=============================================================================
