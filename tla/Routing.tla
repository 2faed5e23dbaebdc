------------------------------ MODULE Routing ------------------------------
(***************************************************************************)
(* From a question to the ipset: ServeDNS, normalizeTTL, shouldProcess,    *)
(* processAnswers, the lifetimes that resolver and cacheResponse give to   *)
(* answers (internal/dns/handler.go), and the timeouts of the set's        *)
(* elements (internal/ipset).                                              *)
(*                                                                         *)
(* There is one list, one query type and one address in an answer; how a   *)
(* name matches the rules is in RuleAdmin, how an answer is found in       *)
(* Resolver.  Times are seconds that remain.                               *)
(***************************************************************************)
EXTENDS Integers

CONSTANTS
  Name,      \* names that are asked for
  Address,   \* what their records hold
  Routable,  \* those the list has a set for: IPv6 ones if it enables IPv6
  Client,    \* a client, and the goroutine that serves it
  Ttl,       \* TTLs of records
  Timeout,   \* dns.timeout of the configuration
  NoSoa,     \* the first authority record is not a SOA
  Pause,     \* lengths of time that pass
  None       \* no address, no entry

ASSUME RoutingAssumption ==
  /\ Routable \subseteq Address /\ None \notin Address /\ None \notin Name
  /\ Ttl \subseteq Nat /\ Timeout \in Nat /\ NoSoa \notin Ttl
  /\ Pause \subseteq Nat \ {0}

VARIABLES
  rules,    \* names that listDomainCaches matches
  cache,    \* dnsCache: an address with its TTL, or None for NXDOMAIN
  left,     \* the time each element has left in the set; 0 if absent
  pc,       \* where each client's question is
  asked,    \* its name, or None
  answer,   \* the address the client uses, or is about to
  ttl,      \* the TTL of the answer on its way
  use,      \* how long the client still uses its answer
  \* history, read by no guard of the code
  sure,     \* clients whose answer must be routed
  idle      \* time since each address answered a question under a rule

question == <<pc, asked, answer, ttl>>
vars     == <<rules, cache, left, question, use, sure, idle>>

Hour == 3600

\* Variant: no upper limit.
normalizeTTLUnbounded(t) ==
  LET effective == IF t <= 0 THEN 3600 ELSE IF t < 180 THEN 900 ELSE t
  IN  IF effective < 300 THEN 300 ELSE effective

\* Variant: no lower limit.
normalizeTTLFloorless(t) ==
  LET effective == IF t <= 0 THEN 3600 ELSE IF t < 180 THEN 900 ELSE t
  IN  IF effective > 3600 THEN 3600 ELSE effective

normalizeTTL(t) ==
  LET effective == IF t <= 0 THEN 3600 ELSE IF t < 180 THEN 900 ELSE t
  IN  IF effective < 300 THEN 300 ELSE IF effective > 3600 THEN 3600 ELSE effective

Lesser(s, t) == IF s <= t THEN s ELSE t

\* The TTL of a negative answer: of its SOA, or else dns.timeout.
NegativeTTL(soa) ==
  IF soa # NoSoa THEN soa ELSE IF Timeout = 0 THEN 300 ELSE Timeout

Phase == {"idle", "lookup", "ask", "check", "add", "write"}
Entry == [addr : Address \cup {None}, ttl : Ttl \cup {0}, left : Nat]

TypeOK ==
  /\ rules \subseteq Name
  /\ cache \in [Name -> Entry \cup {None}]
  /\ \A n \in Name : cache[n] # None => cache[n].left <= Hour
  /\ left \in [Address -> Nat]
  /\ pc \in [Client -> Phase]
  /\ asked \in [Client -> Name \cup {None}]
  /\ answer \in [Client -> Address \cup {None}]
  /\ ttl \in [Client -> Ttl \cup {0}]
  /\ use \in [Client -> Nat] /\ \A c \in Client : use[c] <= Hour
  /\ sure \subseteq Client
  /\ idle \in [Address -> Nat] /\ \A a \in Address : idle[a] <= Hour

Init ==
  /\ rules \in SUBSET Name
  /\ cache = [n \in Name |-> None]
  /\ left = [a \in Address |-> 0]
  /\ pc = [c \in Client |-> "idle"]
  /\ asked = [c \in Client |-> None]
  /\ answer = [c \in Client |-> None]
  /\ ttl = [c \in Client |-> 0] /\ use = [c \in Client |-> 0]
  /\ sure = {}
  /\ idle = [a \in Address |-> Hour]

-----------------------------------------------------------------------------
(* ServeDNS and resolver.                                                  *)

Goto(c, from, to) == pc[c] = from /\ pc' = [pc EXCEPT ![c] = to]

\* The questions of Q are over, and the clients of D have no use for an address.
Ends(Q, D) ==
  /\ asked' = [c \in Client |-> IF c \in Q THEN None ELSE asked[c]]
  /\ ttl' = [c \in Client |-> IF c \in Q THEN 0 ELSE ttl[c]]
  /\ answer' = [c \in Client |-> IF c \in D THEN None ELSE answer[c]]
  /\ sure' = sure \ D

\* The client gives up its earlier answer when it asks again.
Asks(c, n) ==
  /\ asked' = [asked EXCEPT ![c] = n]
  /\ answer' = [answer EXCEPT ![c] = None]
  /\ ttl' = [ttl EXCEPT ![c] = 0] /\ use' = [use EXCEPT ![c] = 0]
  /\ sure' = IF n \in rules THEN sure \cup {c} ELSE sure \ {c}
  /\ UNCHANGED <<rules, cache, left, idle>>

Ask(c, n) == Goto(c, "idle", "lookup") /\ Asks(c, n)

\* IsBlocked matches (BlockList says when): the reply is 0.0.0.0.
AskBlocked(c) ==
  /\ Goto(c, "idle", "idle")
  /\ use' = [use EXCEPT ![c] = 0]
  /\ Ends({}, {c})
  /\ UNCHANGED <<rules, cache, left, idle>>

\* The records of the answer, or none, with the TTL they were fetched with.
Answers(c, a, t) ==
  /\ answer' = [answer EXCEPT ![c] = a]
  /\ ttl' = [ttl EXCEPT ![c] = t]
  /\ UNCHANGED <<rules, left, asked, use, sure, idle>>

\* Variant: what comes from the cache is not looked at again.
HitUnprocessed(c) ==
  /\ Goto(c, "lookup", "write")
  /\ LET e == cache[asked[c]]
     IN  e # None /\ Answers(c, e.addr, e.ttl)
  /\ UNCHANGED cache

Hit(c) ==
  /\ Goto(c, "lookup", "check")
  /\ LET e == cache[asked[c]]
     IN  e # None /\ Answers(c, e.addr, e.ttl)
  /\ UNCHANGED cache

Miss(c) ==
  /\ Goto(c, "lookup", "ask")
  /\ cache[asked[c]] = None
  /\ UNCHANGED <<rules, cache, left, asked, answer, ttl, use, sure, idle>>

\* cacheResponse: the entry lives as long as the shortest TTL of its records;
\* other is that of the CNAMEs, if any.
Positive(c, a, t, other) ==
  /\ Goto(c, "ask", "check")
  /\ cache' = [cache EXCEPT ![asked[c]] =
                 [addr |-> a, ttl |-> t, left |-> normalizeTTL(Lesser(t, other))]]
  /\ Answers(c, a, t)

Negative(c, soa) ==
  /\ Goto(c, "ask", "check")
  /\ cache' = [cache EXCEPT ![asked[c]] =
                 [addr |-> None, ttl |-> 0, left |-> normalizeTTL(NegativeTTL(soa))]]
  /\ Answers(c, None, 0)

\* No server answered, or without records: nothing is cached.
Nothing(c) ==
  /\ Goto(c, "ask", "check")
  /\ Answers(c, None, 0)
  /\ UNCHANGED cache

-----------------------------------------------------------------------------
(* shouldProcess, processAnswers and the reply.                            *)

\* Variant: names that no rule matches are processed, too.
CheckNothing(n) == TRUE

InList(n) == n \in rules

Check(c) ==
  /\ Goto(c, "check", IF InList(asked[c]) THEN "add" ELSE "write")
  /\ UNCHANGED <<rules, cache, left, asked, answer, ttl, use, sure, idle>>

\* How long a client that has, or is about to get, its answer may use it: for
\* the TTL of the record, of which the first hour counts.
Claim(c) ==
  CASE pc[c] = "idle"  -> use[c]
    [] pc[c] = "write" -> Lesser(ttl[c], Hour)
    [] OTHER           -> 0

\* A rule still matches, and the set takes the address, over the timeout that
\* it may have already.  Nothing is owed any more to the clients whose use of
\* the address is thereby cut short.
Add(c) ==
  /\ Goto(c, "add", "write")
  /\ InList(asked[c]) /\ answer[c] \in Routable
  /\ LET a == answer[c]
         t == normalizeTTL(ttl[c])
     IN  /\ left' = [left EXCEPT ![a] = t]
         /\ sure' = {d \in sure : answer[d] = a => Claim(d) <= t}
         /\ idle' = IF asked[c] \in rules THEN [idle EXCEPT ![a] = 0] ELSE idle
  /\ UNCHANGED <<rules, cache, asked, answer, ttl, use>>

\* There is no such set or rule any more, no address, or AddElement fails.
AddNothing(c) ==
  /\ Goto(c, "add", "write")
  /\ sure' = sure \ {c}
  /\ UNCHANGED <<rules, cache, left, asked, answer, ttl, use, idle>>

\* The goroutine of the question ends here.
Write(c) ==
  /\ Goto(c, "write", "idle")
  /\ use' = [use EXCEPT ![c] = Claim(c)]
  /\ Ends({c}, {d \in Client : d = c /\ Claim(c) = 0})
  /\ UNCHANGED <<rules, cache, left, idle>>

-----------------------------------------------------------------------------
(* Around it.                                                              *)

AddRule(n) ==
  /\ rules' = rules \cup {n}
  /\ UNCHANGED <<cache, left, question, use, sure, idle>>

\* By a request, or because fastcache drops it.
DropRule(n) ==
  /\ rules' = rules \ {n}
  /\ sure' = {c \in sure : pc[c] = "idle" \/ asked[c] # n}
  /\ UNCHANGED <<cache, left, question, use, idle>>

\* fastcache drops an answer.
Evict(n) ==
  /\ cache' = [cache EXCEPT ![n] = None]
  /\ UNCHANGED <<rules, left, question, use, sure, idle>>

\* The caches are built anew; the set and the clients are still there, but
\* the questions under way are lost.
Restart ==
  /\ rules' \in {R \in SUBSET Name : rules \subseteq R}
  /\ cache' = [n \in Name |-> None]
  /\ pc' = [c \in Client |-> "idle"]
  /\ LET Q == {c \in Client : pc[c] # "idle"} IN Ends(Q, Q)
  /\ UNCHANGED <<left, use, idle>>

After(t, d) == IF t > d THEN t - d ELSE 0

\* Only waiting for an upstream server takes time.  An entry is expired when
\* its lifetime is exceeded, an element when it is reached.
Elapse(d) ==
  /\ \A c \in Client : pc[c] \in {"idle", "ask"}
  /\ cache' = [n \in Name |->
                 IF cache[n] = None \/ cache[n].left < d THEN None
                 ELSE [cache[n] EXCEPT !.left = @ - d]]
  /\ left' = [a \in Address |-> After(left[a], d)]
  /\ use' = [c \in Client |-> After(use[c], d)]
  /\ idle' = [a \in Address |-> Lesser(idle[a] + d, Hour)]
  /\ Ends({}, {c \in Client : pc[c] = "idle" /\ use'[c] = 0})
  /\ UNCHANGED <<rules, pc>>

Serve(c) ==
  \/ Hit(c) \/ Miss(c) \/ Nothing(c)
  \/ \E a \in Address, t, other \in Ttl : Positive(c, a, t, other)
  \/ \E soa \in Ttl \cup {NoSoa} : Negative(c, soa)
  \/ Check(c) \/ Add(c) \/ AddNothing(c) \/ Write(c)

Next ==
  \/ \E c \in Client : Serve(c) \/ AskBlocked(c) \/ \E n \in Name : Ask(c, n)
  \/ \E n \in Name : AddRule(n) \/ DropRule(n) \/ Evict(n)
  \/ Restart
  \/ \E d \in Pause : Elapse(d)

Spec == Init /\ [][Next]_vars

-----------------------------------------------------------------------------
(* Properties.                                                             *)

\* A client finds its address in the set for as long as it uses it, within the
\* first hour: the address came there before the client had it, and no policy
\* for short TTLs, no answer from the cache, no eviction and no restart lets
\* it run out.  Excused are a rule that came or went during the question, a
\* failed AddElement, and a later answer with the same address and a shorter
\* TTL (see Add).
RoutedWhileUsed ==
  \A c \in sure : answer[c] # None => left[answer[c]] >= Claim(c)

\* An address is in the set only within an hour of a question under a rule
\* that was answered with it: after a rule is removed its addresses drain.
DrainsInAnHour == \A a \in Address : left[a] + idle[a] <= Hour

\* Every entry of the cache and every element of the set begins with a
\* lifetime between five minutes and an hour.
LifetimesBounded ==
  [][/\ \A n \in Name :
          cache'[n] \notin {None, cache[n]} =>
            \/ cache[n] # None /\ cache'[n].left < cache[n].left
            \/ cache'[n].left \in 300 .. Hour
     /\ \A a \in Address : left'[a] <= left[a] \/ left'[a] \in 300 .. Hour]_vars
=============================================================================
