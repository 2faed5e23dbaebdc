------------------------------ MODULE Resolver ------------------------------
(***************************************************************************)
(* Answering DNS questions: resolver, getFromCache and cacheResponse of    *)
(* internal/dns/handler.go over internal/cache/dns_cache.go, with one      *)
(* goroutine per question.  The recursion along CNAME records is the chain *)
(* of the names it has reached; unwinding it stores one entry per name.    *)
(*                                                                         *)
(* Time is counted in ticks of the shortest lifetime of a cache entry.     *)
(* normalizeTTL gives every entry a lifetime between MinTTL and MaxTTL     *)
(* (module Routing), whatever the TTLs of its records.                     *)
(***************************************************************************)
EXTENDS Upstreams, SequencesExt, FiniteSets

CONSTANTS
  Name,        \* domain names, for one query type
  Address,     \* what an A or AAAA record holds
  NxDomain,    \* the answer of an upstream server: no such name
  NoData,      \* ...: the name exists, without records of the type
  None,        \* no cache entry
  Query,       \* goroutines that serve questions
  Configured,  \* the sequence of upstream servers
  MaxDepth,    \* CNAMEs followed (10 in the code)
  MinTTL, MaxTTL,
  MaxTime,     \* bound: ticks
  MaxChanges   \* bound: changes of the upstream data and evictions

ASSUME ResolverAssumption ==
  /\ Configured \in Seq(Scheme) /\ MaxDepth \in Nat
  /\ MinTTL \in Nat /\ MaxTTL \in Nat /\ MinTTL <= MaxTTL
  /\ MaxTime \in Nat /\ MaxChanges \in Nat
  /\ Name \cap Address = {}
  /\ {NxDomain, NoData} \cap (Name \cup Address) = {}

\* A record, and when it was fetched; data that is a name makes it a CNAME.
Record == [owner : Name, data : Name \cup Address, at : Nat]

VARIABLES
  zone,     \* what the upstream servers know
  now,      \* the clock
  cache,    \* dnsCache
  pc,       \* where each goroutine is
  chain,    \* the question and the CNAME targets reached from it
  found,    \* the CNAME records between them
  server,   \* the upstream server to be tried, in sorted order
  result,   \* the records and the code that the recursion returns
  \* history, read by no guard of the code
  tried,    \* the places of the servers that have failed in this lookup
  existed,  \* names that an upstream server has confirmed
  denied,   \* names that it has called NXDOMAIN
  changes

query   == <<pc, chain, found, server, tried, result>>
ghost   == <<existed, denied, changes>>
vars    == <<zone, now, cache, query, ghost>>

Rcode == {"success", "nxdomain", "servfail"}
Local == {"lookup", "delete", "store", "return"}

-----------------------------------------------------------------------------
Servers == Len(Configured)
Sorted  == SortServers(Configured)

CanAnswer(q) == server[q] <= Servers /\ Reachable(Sorted[server[q]])

-----------------------------------------------------------------------------
TypeOK ==
  /\ zone \in [Name -> Name \cup Address \cup {NxDomain, NoData}]
  /\ now \in Nat
  /\ \A n \in Name :
       cache[n] # None => cache[n].expire \in Nat /\ cache[n].rrs \in Seq(Record)
  /\ \A q \in Query :
       /\ pc[q] \in {"idle", "ask", "replied"} \cup Local
       /\ chain[q] \in Seq(Name) /\ Len(chain[q]) <= MaxDepth + 2
       /\ found[q] \in Seq(Record)
       /\ pc[q] \notin {"idle", "replied"} => Len(chain[q]) = Len(found[q]) + 1
       /\ server[q] \in 1 .. Servers + 1 /\ tried[q] \in Seq(1 .. Servers)
       /\ result[q].rrs \in Seq(Record) /\ result[q].rcode \in Rcode
  /\ existed \subseteq Name /\ denied \subseteq Name

Nothing == [rrs |-> <<>>, rcode |-> "success"]

Init ==
  /\ zone \in [Name -> Name \cup Address \cup {NxDomain, NoData}]
  /\ now = 0
  /\ cache = [n \in Name |-> None]
  /\ pc = [q \in Query |-> "idle"]
  /\ chain = [q \in Query |-> <<>>] /\ found = [q \in Query |-> <<>>]
  /\ server = [q \in Query |-> 1] /\ tried = [q \in Query |-> <<>>]
  /\ result = [q \in Query |-> Nothing]
  /\ existed = {} /\ denied = {} /\ changes = 0

-----------------------------------------------------------------------------
Goto(q, from, to) == pc[q] = from /\ pc' = [pc EXCEPT ![q] = to]

Returns(q, rrs, rcode) ==
  result' = [result EXCEPT ![q] = [rrs |-> rrs, rcode |-> rcode]]

\* ServeDNS hands the question over.
Ask(q, n) ==
  /\ pc[q] \in {"idle", "replied"}
  /\ pc' = [pc EXCEPT ![q] = "lookup"]
  /\ chain' = [chain EXCEPT ![q] = <<n>>]
  /\ found' = [found EXCEPT ![q] = <<>>]
  /\ result' = [result EXCEPT ![q] = Nothing]
  /\ UNCHANGED <<zone, now, cache, server, tried, ghost>>

\* Variant: the depth of the recursion is not checked.
AnyDepth(q) == FALSE

TooDeep(q) == Len(chain[q]) > MaxDepth + 1

Expired(e) == now > e.expire

LookupTooDeep(q) ==
  /\ Goto(q, "lookup", "return")
  /\ TooDeep(q)
  /\ Returns(q, <<>>, "servfail")
  /\ UNCHANGED <<zone, now, cache, chain, found, server, tried, ghost>>

\* An entry without records is a hit as well, with the code of success.
LookupHit(q) ==
  /\ Goto(q, "lookup", "return")
  /\ ~TooDeep(q)
  /\ LET e == cache[Last(chain[q])]
     IN  e # None /\ ~Expired(e) /\ Returns(q, e.rrs, "success")
  /\ UNCHANGED <<zone, now, cache, chain, found, server, tried, ghost>>

\* A miss; the entry of an expired key is deleted in a step of its own.
LookupMiss(q) ==
  /\ pc[q] = "lookup" /\ ~TooDeep(q)
  /\ LET e == cache[Last(chain[q])]
     IN  /\ e # None => Expired(e)
         /\ pc' = [pc EXCEPT ![q] = IF e = None THEN "ask" ELSE "delete"]
  /\ UNCHANGED <<zone, now, cache, chain, found, server, tried, result, ghost>>

DeleteExpired(q) ==
  /\ Goto(q, "delete", "ask")
  /\ cache' = [cache EXCEPT ![Last(chain[q])] = None]
  /\ UNCHANGED <<zone, now, chain, found, server, tried, result, ghost>>

\* A timeout, an error, or a code other than success and NXDOMAIN.
ServerFails(q) ==
  /\ pc[q] = "ask" /\ server[q] <= Servers
  /\ server' = [server EXCEPT ![q] = @ + 1]
  /\ tried' = [tried EXCEPT ![q] = Append(@, server[q])]
  /\ UNCHANGED <<zone, now, cache, pc, chain, found, result, ghost>>

\* Variant: the recursion goes on with the server that gave the CNAME.
SameServer(q) ==
  /\ UNCHANGED server
  /\ tried' = [tried EXCEPT ![q] = <<>>]

\* Every level of the recursion begins with the first server.
AllOver(q) ==
  /\ server' = [server EXCEPT ![q] = 1]
  /\ tried' = [tried EXCEPT ![q] = <<>>]

\* Variant: when every server has failed the name is looked up once more.
AllFailedAgain(q) ==
  /\ Goto(q, "ask", "lookup")
  /\ server[q] > Servers
  /\ AllOver(q)
  /\ UNCHANGED <<zone, now, cache, chain, found, result, ghost>>

AllFailed(q) ==
  /\ Goto(q, "ask", "return")
  /\ server[q] > Servers
  /\ Returns(q, <<>>, "servfail")
  /\ AllOver(q)
  /\ UNCHANGED <<zone, now, cache, chain, found, ghost>>

AnswerNxDomain(q) ==
  /\ Goto(q, "ask", "store")
  /\ CanAnswer(q) /\ zone[Last(chain[q])] = NxDomain
  /\ Returns(q, <<>>, "nxdomain")
  /\ denied' = denied \cup {Last(chain[q])}
  /\ AllOver(q)
  /\ UNCHANGED <<zone, now, cache, chain, found, existed, changes>>

\* Variant: an answer without records is cached like the others.
StoreEmpty(q) == "store"

\* An answer without records is not cached.
AfterNoData(q) == "return"

AnswerNoData(q) ==
  /\ Goto(q, "ask", AfterNoData(q))
  /\ CanAnswer(q) /\ zone[Last(chain[q])] = NoData
  /\ Returns(q, <<>>, "success")
  /\ existed' = existed \cup {Last(chain[q])}
  /\ AllOver(q)
  /\ UNCHANGED <<zone, now, cache, chain, found, denied, changes>>

AnswerAddress(q) ==
  /\ Goto(q, "ask", "store")
  /\ LET n == Last(chain[q])
     IN  /\ CanAnswer(q) /\ zone[n] \in Address
         /\ Returns(q, <<[owner |-> n, data |-> zone[n], at |-> now]>>, "success")
         /\ existed' = existed \cup {n}
  /\ AllOver(q)
  /\ UNCHANGED <<zone, now, cache, chain, found, denied, changes>>

\* Variant: the target takes the place of the question, at no greater depth.
FollowInPlace(q) ==
  /\ Goto(q, "ask", "lookup")
  /\ LET n == Last(chain[q])
     IN  /\ CanAnswer(q) /\ zone[n] \in Name
         /\ chain' = [chain EXCEPT ![q] = <<zone[n]>>]
         /\ existed' = existed \cup {n}
  /\ AllOver(q)
  /\ UNCHANGED <<zone, now, cache, found, result, denied, changes>>

\* The rest of an answer with a CNAME is thrown away and the target resolved.
AnswerCname(q) ==
  /\ Goto(q, "ask", "lookup")
  /\ LET n == Last(chain[q])
     IN  /\ CanAnswer(q) /\ zone[n] \in Name
         /\ chain' = [chain EXCEPT ![q] = Append(@, zone[n])]
         /\ found' = [found EXCEPT ![q] =
                        Append(@, [owner |-> n, data |-> zone[n], at |-> now])]
         /\ existed' = existed \cup {n}
  /\ AllOver(q)
  /\ UNCHANGED <<zone, now, cache, result, denied, changes>>

\* Variant: every entry is stored under the question.
KeyQuestion(q) == Head(chain[q])

KeyOf(q) == Last(chain[q])

\* Variant: the lifetime is not limited.
AnyLifetime == MinTTL .. 2 * MaxTTL

Lifetime == MinTTL .. MaxTTL

\* dnsCache.Set
Store(q) ==
  /\ Goto(q, "store", "return")
  /\ \E ttl \in Lifetime :
       cache' = [cache EXCEPT ![KeyOf(q)] =
                   [expire |-> now + ttl, rrs |-> result[q].rrs]]
  /\ UNCHANGED <<zone, now, chain, found, server, tried, result, ghost>>

\* A level of the recursion returns: its records follow the CNAME, and the
\* whole is cached if it was a success.
Unwind(q) ==
  /\ pc[q] = "return" /\ Len(chain[q]) > 1
  /\ pc' = [pc EXCEPT ![q] =
              IF result[q].rcode = "success" THEN "store" ELSE "return"]
  /\ chain' = [chain EXCEPT ![q] = Front(@)]
  /\ found' = [found EXCEPT ![q] = Front(@)]
  /\ Returns(q, <<Last(found[q])>> \o result[q].rrs, result[q].rcode)
  /\ UNCHANGED <<zone, now, cache, server, tried, ghost>>

\* Of a reply its code is of interest.
Reply(q) ==
  /\ Goto(q, "return", "replied")
  /\ Len(chain[q]) = 1
  /\ Returns(q, <<>>, result[q].rcode)
  /\ UNCHANGED <<zone, now, cache, chain, found, server, tried, ghost>>

-----------------------------------------------------------------------------
\* Only waiting for an upstream server takes time.
Tick ==
  /\ now < MaxTime
  /\ \A q \in Query : pc[q] \notin Local
  /\ now' = now + 1
  /\ UNCHANGED <<zone, cache, query, ghost>>

\* fastcache drops an entry.
Evict(n) ==
  /\ changes < MaxChanges /\ cache[n] # None
  /\ cache' = [cache EXCEPT ![n] = None]
  /\ changes' = changes + 1
  /\ UNCHANGED <<zone, now, query, existed, denied>>

Publish(n, v) ==
  /\ changes < MaxChanges /\ zone[n] # v
  /\ zone' = [zone EXCEPT ![n] = v]
  /\ changes' = changes + 1
  /\ UNCHANGED <<now, cache, query, existed, denied>>

Resolve(q) ==
  \/ LookupTooDeep(q) \/ LookupHit(q) \/ LookupMiss(q) \/ DeleteExpired(q)
  \/ ServerFails(q) \/ AllFailed(q)
  \/ AnswerNxDomain(q) \/ AnswerNoData(q) \/ AnswerAddress(q) \/ AnswerCname(q)
  \/ Store(q) \/ Unwind(q) \/ Reply(q)

Next ==
  \/ \E q \in Query : Resolve(q) \/ \E n \in Name : Ask(q, n)
  \/ Tick \/ \E n \in Name : Evict(n)
  \/ \E n \in Name, v \in Name \cup Address \cup {NxDomain, NoData} : Publish(n, v)

Spec == Init /\ [][Next]_vars

(***************************************************************************)
(* A goroutine is run, and an exchange with a server ends within the       *)
(* configured timeout, if only with an error.                              *)
(***************************************************************************)
FairSpec == Spec /\ \A q \in Query : WF_vars(Resolve(q))

-----------------------------------------------------------------------------
(* Properties.                                                             *)

Live(n) == cache[n] # None /\ ~Expired(cache[n])

\* The records of an entry, and those on their way to it, are a chain of CNAMEs
\* that begins at its own name: unwinding files each part of a chain under the
\* right name, whatever other goroutines store and drop in between.
Chained(n, rrs) ==
  /\ rrs # <<>> => rrs[1].owner = n
  /\ \A i \in 1 .. Len(rrs) - 1 : rrs[i].data = rrs[i + 1].owner

AnswersChained ==
  /\ \A n \in Name : cache[n] # None => Chained(n, cache[n].rrs)
  /\ \A q \in Query :
       pc[q] \in {"store", "return"} => Chained(Last(chain[q]), result[q].rrs)

\* An address is served for at most MaxTTL per record of its answer after it
\* was fetched: only the CNAMEs before it can renew the lifetime, once each.
ServedAge ==
  \A n \in Name :
    cache[n] # None /\ cache[n].rrs # <<>> =>
      LET rrs == cache[n].rrs
      IN  Last(rrs).data \in Address =>
            cache[n].expire <= Last(rrs).at + MaxTTL * Len(rrs)

\* An entry without records stands for an NXDOMAIN of an upstream server for
\* this very name: neither a failure nor an empty answer gets into the
\* negative cache.
NegativeHonest ==
  \A n \in Name : Live(n) /\ cache[n].rrs = <<>> => n \in denied

\* Every question is answered: failing servers and CNAME loops included.
QuestionsAnswered ==
  \A q \in Query : pc[q] = "lookup" ~> pc[q] = "replied"

\* A bound on the steps that a goroutine still has to take: on the way down one
\* per server and two for the cache at each level, and two per level to come back.
StepsFrom(at, depth, next) ==
  LET below == (MaxDepth + 2 - depth) * (Servers + 3) + 2 * MaxDepth + 5
  IN  CASE at = "lookup" -> below + Servers + 2
        [] at = "delete" -> below + Servers + 1
        [] at = "ask"    -> below + Servers + 1 - next
        [] at = "store"  -> 2 * depth
        [] at = "return" -> 2 * depth - 1
        [] OTHER         -> 0

StepsLeft(q) == StepsFrom(pc[q], Len(chain[q]), server[q])

\* Each step of a goroutine brings it nearer to its reply, whatever the upstream
\* data, the cache and the other goroutines do meanwhile: no loop of CNAMEs, no
\* failing server and no entry that others delete makes it begin anew.
StepsRunOut ==
  [][\A q \in Query : Resolve(q) => StepsLeft(q)' \in 0 .. StepsLeft(q) - 1]_vars

\* A reply without an error means that some server has confirmed the name.
\* README.md: NXDOMAIN answers are cached.
SuccessConfirmed ==
  \A q \in Query :
    pc[q] = "replied" /\ result[q].rcode = "success" => Head(chain[q]) \in existed

\* A server is asked only after all servers with a more secure protocol have
\* failed in the same lookup.  README.md: DoH, DoT, TCP, UDP in this order.
EncryptedFirst ==
  LET Before(s, p) == Cardinality({i \in 1 .. Len(s) : Priority(s[i]) < p})
      Names(t)     == [i \in 1 .. Len(t) |-> Sorted[t[i]]]
  IN  \A q \in Query :
        pc[q] = "ask" /\ server[q] <= Servers =>
          LET p == Priority(Sorted[server[q]])
          IN  Before(Names(tried[q]), p) = Before(Configured, p)
=============================================================================
