----------------------------- MODULE MCNetLists -----------------------------
(* Instances of NetLists for TLC.                                          *)
EXTENDS NetLists
=============================================================================
