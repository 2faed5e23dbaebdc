--------------------------- MODULE MCConfigStore ---------------------------
(* Instances of ConfigStore for TLC. *)
EXTENDS ConfigStore

CONSTANTS d1, s1, s2
=============================================================================
