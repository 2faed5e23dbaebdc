----------------------------- MODULE MCRouting -----------------------------
(* Instances of Routing for TLC. *)
EXTENDS Routing, TLC

MCTtl      == {200, 1500, 86400}
MCPause    == {1200}
MCSymmetry == Permutations(Client) \cup Permutations(Name)
=============================================================================
