---------------------------- MODULE MCBlockList ----------------------------
(* Instances of BlockList for TLC.                                         *)
EXTENDS BlockList, TLC

CONSTANTS u1, u2, d1, d2

\* Two lists that share a domain.
MCLists == (u1 :> {d1, d2}) @@ (u2 :> {d2})
=============================================================================
