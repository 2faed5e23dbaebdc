---------------------------- MODULE MCRuleAdmin ----------------------------
(* Instances of RuleAdmin for TLC.  Names are sequences of labels. *)
EXTENDS RuleAdmin, TLC

CONSTANTS com, ex, www, c1, c2

MCLabel == {com, ex, www}

MCCom == <<ex, com>>
MCWww == <<www, ex, com>>

MCKey(n, d) == [name |-> n, dot |-> d]

\* A domain; a suffix with its dot and without; one of three labels.
MCDomains  == {MCKey(MCCom, FALSE)}
MCSuffixes == {MCKey(MCCom, TRUE), MCKey(MCCom, FALSE), MCKey(MCWww, TRUE)}

\* The names of the rules, one below both, and one beside.
MCAsked == {MCCom, MCWww, <<www, www, ex, com>>, <<www, com>>}

MCClients == Permutations(Client)

\* Bounds: behaviours are followed while one of the endpoints, which in this
\* instance share nothing, has neither rules nor requests, and while the keys that
\* are apart are of one name.
MCNoRules == [domain |-> {}, suffix |-> {}]

MCUnused(ep) ==
  /\ \A c \in Client : job[c] = None \/ job[c].at # ep
  /\ \A a \in apart : a[1] # ep
  /\ RulesAt(ep) = MCNoRules
  /\ (IF ep = Root THEN disk.root ELSE disk.lists[ep]) = MCNoRules

MCBound ==
  /\ \E ep \in Endpoint : MCUnused(ep)
  /\ \A a, b \in apart : a[2].name = b[2].name
=============================================================================
