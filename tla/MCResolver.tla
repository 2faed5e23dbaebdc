----------------------------- MODULE MCResolver -----------------------------
(* Instances of Resolver for TLC. *)
EXTENDS Resolver, TLC

CONSTANTS n1, n2, a1

MCPlain   == <<"udp">>
MCMixed   == <<"other:port", "bare", "tls", "doh">>

MCQueries == Permutations(Query)
MCNames   == Permutations(Name)
MCBoth    == MCQueries \cup MCNames
=============================================================================
