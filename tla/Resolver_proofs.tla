-------------------------- MODULE Resolver_proofs --------------------------
(***************************************************************************)
(* Proofs about Resolver, for any names, servers, goroutines and bounds.   *)
(* Liveness needs fairness: QuestionsAnswered is left to TLC, and its safe *)
(* half proved, that no goroutine can take steps for ever (StepsRunOut).   *)
(***************************************************************************)
EXTENDS Resolver, Upstreams_proofs

EntryType == [expire : Nat, rrs : Seq(Record)]
Busy == {"ask"} \cup Local

Types ==
  /\ zone \in [Name -> Name \cup Address \cup {NxDomain, NoData}]
  /\ now \in Nat
  /\ cache \in [Name -> {None} \cup EntryType]
  /\ pc \in [Query -> {"idle", "replied"} \cup Busy]
  /\ chain \in [Query -> Seq(Name)] /\ found \in [Query -> Seq(Record)]
  /\ server \in [Query -> 1 .. Servers + 1]
  /\ tried \in [Query -> Seq(1 .. Servers)]
  /\ result \in [Query -> [rrs : Seq(Record), rcode : Rcode]]
  /\ existed \subseteq Name /\ denied \subseteq Name

\* The CNAMEs found lead along the chain.
Leads(ch, fd) ==
  /\ Len(ch) = Len(fd) + 1
  /\ \A i \in 1 .. Len(fd) : fd[i].owner = ch[i] /\ fd[i].data = ch[i + 1]

\* Time t is at most MaxTTL per record, of k records, after the address at the
\* end of rrs was fetched.
Within(rrs, t, k) ==
  rrs # <<>> /\ Last(rrs).data \in Address => t <= Last(rrs).at + MaxTTL * k

\* What a goroutine holds: its way is consistent, its result belongs to the last
\* name of the way, is empty and about to be stored only after an NXDOMAIN, and
\* has used up the lifetimes of the entries it came from, one per record.
QueryInv(q) ==
  /\ Len(chain[q]) <= MaxDepth + 2
  /\ pc[q] \in {"delete", "ask"} => Len(chain[q]) <= MaxDepth + 1
  /\ pc[q] \in Busy => Leads(chain[q], found[q])
  /\ pc[q] \in {"store", "return"} => Chained(Last(chain[q]), result[q].rrs)
  /\ pc[q] = "store" =>
       /\ result[q].rrs = <<>> => Last(chain[q]) \in denied
       /\ Within(result[q].rrs, now, Len(result[q].rrs) - 1)
  /\ pc[q] = "return" => Within(result[q].rrs, now, Len(result[q].rrs))

EntryInv(n) ==
  cache[n] # None =>
    /\ Chained(n, cache[n].rrs)
    /\ cache[n].rrs = <<>> => n \in denied
    /\ Within(cache[n].rrs, cache[n].expire, Len(cache[n].rrs))

ResolverInv ==
  Types /\ (\A q \in Query : QueryInv(q)) /\ (\A n \in Name : EntryInv(n))

-----------------------------------------------------------------------------
(* Sequences.                                                              *)

\* A sequence with elements has a last one.
LEMMA LastFacts ==
  ASSUME NEW S, NEW s \in Seq(S), Len(s) # 0
  PROVE  Last(s) \in S /\ Last(s) = s[Len(s)]
  BY LenProperties, ElementOfSeq DEF Last

LEMMA LastRecord ==
  ASSUME NEW rrs \in Seq(Record), rrs # <<>>
  PROVE  Last(rrs) \in Record /\ Last(rrs).at \in Nat
<1>1. Len(rrs) # 0
  BY EmptySeq
<1>2. Last(rrs) \in Record
  BY <1>1, LastFacts
<1> QED BY <1>2 DEF Record

\* What is left of a sequence without its last element.
LEMMA FrontFacts ==
  ASSUME NEW S, NEW s \in Seq(S), Len(s) # 0
  PROVE  /\ Front(s) \in Seq(S) /\ Len(Front(s)) = Len(s) - 1
         /\ \A i \in 1 .. Len(s) - 1 : Front(s)[i] = s[i]
<1>1. Len(s) \in Nat /\ Len(s) - 1 \in Int /\ 1 \in Int
  BY LenProperties
<1>2. \A i \in 1 .. Len(s) - 1 : s[i] \in S
  BY <1>1, ElementOfSeq
<1>3. /\ Front(s) \in Seq(S)
      /\ Len(Front(s)) = IF 1 <= Len(s) - 1 THEN Len(s) - 1 - 1 + 1 ELSE 0
      /\ \A i \in 1 .. Len(s) - 1 - 1 + 1 : Front(s)[i] = s[1 + i - 1]
  BY <1>1, <1>2, SubSeqProperties DEF Front
<1>4. Len(Front(s)) = Len(s) - 1
  <2>1. CASE Len(s) = 1
    BY <1>3, <2>1
  <2>2. CASE Len(s) # 1
    <3>1. \A n \in Nat : n # 0 /\ n # 1 => 1 <= n - 1 /\ n - 1 - 1 + 1 = n - 1
      OBVIOUS
    <3>2. 1 <= Len(s) - 1 /\ Len(s) - 1 - 1 + 1 = Len(s) - 1
      BY <1>1, <2>2, <3>1
    <3> QED BY <1>3, <3>2
  <2> QED BY <2>1, <2>2
<1>5. ASSUME NEW i \in 1 .. Len(s) - 1 PROVE Front(s)[i] = s[i]
  <2>1. i \in 1 .. Len(s) - 1 - 1 + 1 /\ 1 + i - 1 = i
    BY <1>1
  <2> QED BY <1>3, <2>1
<1> QED BY <1>3, <1>4, <1>5

\* A record before a sequence: the length, the first and the last.
LEMMA PrependFacts ==
  ASSUME NEW S, NEW e \in S, NEW s \in Seq(S)
  PROVE  LET t == <<e>> \o s
         IN  /\ t \in Seq(S) /\ Len(t) = Len(s) + 1 /\ t # <<>> /\ t[1] = e
             /\ \A i \in 1 .. Len(s) : t[i + 1] = s[i]
<1>1. <<e>> \in Seq(S) /\ Len(<<e>>) = 1 /\ <<e>>[1] = e /\ Len(s) \in Nat
  BY LenProperties
<1>2. /\ <<e>> \o s \in Seq(S) /\ Len(<<e>> \o s) = 1 + Len(s)
      /\ \A i \in 1 .. 1 + Len(s) :
           (<<e>> \o s)[i] = IF i <= 1 THEN <<e>>[i] ELSE s[i - 1]
  BY <1>1, ConcatProperties
<1>3. ASSUME NEW i \in 1 .. Len(s) PROVE (<<e>> \o s)[i + 1] = s[i]
  <2>1. i + 1 \in 1 .. 1 + Len(s) /\ ~(i + 1 <= 1) /\ i + 1 - 1 = i
    BY <1>1
  <2> QED BY <1>2, <2>1
<1>4. (<<e>> \o s)[1] = e
  <2>1. 1 \in 1 .. 1 + Len(s)
    BY <1>1
  <2> QED BY <1>1, <1>2, <2>1
<1>5. <<e>> \o s # <<>>
  BY <1>1, <1>2, EmptySeq
<1> QED BY <1>1, <1>2, <1>3, <1>4, <1>5

\* Putting the CNAME in front makes a chain of it that begins one name earlier.
LEMMA PrependChained ==
  ASSUME NEW r \in Record, NEW rrs \in Seq(Record), Chained(r.data, rrs)
  PROVE  Chained(r.owner, <<r>> \o rrs)
<1> DEFINE t == <<r>> \o rrs
<1>1. /\ t \in Seq(Record) /\ Len(t) = Len(rrs) + 1 /\ t[1] = r
      /\ \A i \in 1 .. Len(rrs) : t[i + 1] = rrs[i]
  BY PrependFacts
<1>2. Len(rrs) \in Nat
  BY LenProperties
<1>3. ASSUME NEW i \in 1 .. Len(t) - 1 PROVE t[i].data = t[i + 1].owner
  <2>1. CASE i = 1
    <3>1. rrs # <<>> /\ 1 \in 1 .. Len(rrs)
      BY <1>1, <1>2, EmptySeq
    <3>2. t[2] = rrs[1] /\ rrs[1].owner = r.data
      BY <1>1, <3>1 DEF Chained
    <3> QED BY <1>1, <2>1, <3>2
  <2>2. CASE i # 1
    <3>1. i \in 1 .. Len(rrs) /\ i - 1 \in 1 .. Len(rrs) - 1 /\ i - 1 + 1 = i
          /\ i - 1 \in 1 .. Len(rrs)
      BY <1>1, <1>2, <2>2
    <3>2. t[i + 1] = rrs[i] /\ t[i] = rrs[i - 1]
      BY <1>1, <3>1
    <3>3. rrs[i - 1].data = rrs[i].owner
      BY <3>1 DEF Chained
    <3> QED BY <3>2, <3>3
  <2> QED BY <2>1, <2>2
<1> HIDE DEF t
<1>4. Chained(r.owner, t)
  BY <1>1, <1>3 DEF Chained
<1> QED BY <1>4 DEF t

\* ... and leaves the address at its end alone, with a record more to count.
LEMMA PrependWithin ==
  ASSUME NEW r \in Record, NEW rrs \in Seq(Record), NEW t, NEW k,
         r.data \in Name, Within(rrs, t, k)
  PROVE  Within(<<r>> \o rrs, t, k)
<1> DEFINE s == <<r>> \o rrs
<1>1. /\ Len(s) = Len(rrs) + 1 /\ s[1] = r
      /\ \A i \in 1 .. Len(rrs) : s[i + 1] = rrs[i]
  BY PrependFacts
<1>2. Len(rrs) \in Nat
  BY LenProperties
<1> HIDE DEF s
<1>3. CASE rrs = <<>>
  <2>1. Last(s) = r
    BY <1>1, <1>3, EmptySeq DEF Last
  <2>2. Within(s, t, k)
    BY <2>1, ResolverAssumption DEF Within
  <2> QED BY <2>2 DEF s
<1>4. CASE rrs # <<>>
  <2>1. Len(rrs) \in 1 .. Len(rrs)
    BY <1>2, <1>4, EmptySeq
  <2>2. Last(s) = Last(rrs)
    BY <1>1, <2>1 DEF Last
  <2>3. Within(s, t, k)
    BY <1>4, <2>2 DEF Within
  <2> QED BY <2>3 DEF s
<1> QED BY <1>3, <1>4

-----------------------------------------------------------------------------
(* The steps.                                                              *)

LEMMA InitResolverInv ==
  ASSUME Init
  PROVE  ResolverInv
<1>1. Servers \in Nat
  BY ResolverAssumption, LenProperties DEF Servers
<1>2. <<>> \in Seq(Name) /\ <<>> \in Seq(Record) /\ <<>> \in Seq(1 .. Servers)
  BY EmptySeq
<1>3. Types
  BY <1>1, <1>2 DEF Init, Types, Nothing, Rcode
<1>4. \A q \in Query : QueryInv(q)
  BY ResolverAssumption, EmptySeq DEF Init, QueryInv, Busy, Local
<1>5. \A n \in Name : EntryInv(n)
  BY DEF Init, EntryInv
<1> QED BY <1>3, <1>4, <1>5 DEF ResolverInv

\* A step of goroutine q leaves what the others hold alone.
LEMMA StepKeeps ==
  ASSUME ResolverInv, Types', NEW q \in Query, now' = now, denied \subseteq denied',
         \A r \in Query \ {q} :
           /\ pc'[r] = pc[r] /\ chain'[r] = chain[r]
           /\ found'[r] = found[r] /\ result'[r] = result[r],
         QueryInv(q)', \A n \in Name : EntryInv(n)'
  PROVE  ResolverInv'
<1>1. ASSUME NEW r \in Query \ {q} PROVE QueryInv(r)'
  <2>1. /\ pc'[r] = pc[r] /\ chain'[r] = chain[r]
        /\ found'[r] = found[r] /\ result'[r] = result[r]
    OBVIOUS
  <2>2. QueryInv(r)
    BY DEF ResolverInv
  <2>3. /\ Len(chain[r])' <= MaxDepth + 2
        /\ pc'[r] \in {"delete", "ask"} => Len(chain[r])' <= MaxDepth + 1
    BY <2>1, <2>2 DEF QueryInv
  <2>4. pc'[r] \in Busy => Leads(chain[r], found[r])'
    BY <2>1, <2>2 DEF QueryInv, Leads
  <2>5. pc'[r] \in {"store", "return"} => Chained(Last(chain[r]), result[r].rrs)'
    BY <2>1, <2>2 DEF QueryInv, Chained
  <2>6. pc'[r] = "store" =>
          /\ result'[r].rrs = <<>> => Last(chain'[r]) \in denied'
          /\ Within(result[r].rrs, now, Len(result[r].rrs) - 1)'
    BY <2>1, <2>2 DEF QueryInv, Within
  <2>7. pc'[r] = "return" => Within(result[r].rrs, now, Len(result[r].rrs))'
    BY <2>1, <2>2 DEF QueryInv, Within
  <2> QED BY <2>3, <2>4, <2>5, <2>6, <2>7 DEF QueryInv
<1> QED BY <1>1 DEF ResolverInv

\* Names only ever become denied.
LEMMA EntriesKept ==
  ASSUME ResolverInv, NEW n \in Name, cache'[n] = cache[n], denied \subseteq denied'
  PROVE  EntryInv(n)'
  BY DEF ResolverInv, EntryInv, Chained, Within

LEMMA AskInv ==
  ASSUME ResolverInv, NEW q \in Query, NEW n \in Name, Ask(q, n)
  PROVE  ResolverInv'
<1>1. <<n>> \in Seq(Name) /\ <<>> \in Seq(Record) /\ Len(<<n>>) = 1 /\ Len(<<>>) = 0
  BY EmptySeq
<1>2. Types'
  BY <1>1 DEF ResolverInv, Types, Ask, ghost, Busy, Local, Nothing, Rcode
<1>3. /\ pc'[q] = "lookup" /\ chain'[q] = <<n>> /\ found'[q] = <<>>
      /\ UNCHANGED <<now, cache, denied>>
  BY DEF ResolverInv, Types, Ask, ghost
<1>4. QueryInv(q)'
  BY <1>1, <1>3, ResolverAssumption DEF QueryInv, Leads
<1>5. \A m \in Name : EntryInv(m)'
  BY <1>3, EntriesKept
<1>6. \A r \in Query \ {q} :
        /\ pc'[r] = pc[r] /\ chain'[r] = chain[r]
        /\ found'[r] = found[r] /\ result'[r] = result[r]
  BY DEF ResolverInv, Types, Ask
<1> QED BY <1>2, <1>3, <1>4, <1>5, <1>6, StepKeeps

\* The steps of q that only move it along its way: the chain, what was found and
\* the cache stay.
Stays(q) ==
  /\ pc' = [pc EXCEPT ![q] = pc'[q]] /\ result' = [result EXCEPT ![q] = result'[q]]
  /\ UNCHANGED <<now, chain, found>> /\ denied \subseteq denied'

LEMMA StaysInv ==
  ASSUME ResolverInv, Types', NEW q \in Query, Stays(q), pc[q] \in Busy,
         pc'[q] \in {"delete", "ask"} => Len(chain[q]) <= MaxDepth + 1,
         pc'[q] \in {"store", "return"} =>
           Chained(Last(chain[q]), result'[q].rrs),
         pc'[q] = "store" =>
           /\ result'[q].rrs = <<>> => Last(chain[q]) \in denied'
           /\ Within(result'[q].rrs, now, Len(result'[q].rrs) - 1),
         pc'[q] = "return" => Within(result'[q].rrs, now, Len(result'[q].rrs)),
         \A n \in Name : EntryInv(n)'
  PROVE  ResolverInv'
<1>1. QueryInv(q)
  BY DEF ResolverInv
<1>2. QueryInv(q)'
  BY <1>1 DEF QueryInv, Leads, Stays, Chained, Within
<1>3. \A r \in Query \ {q} :
        /\ pc'[r] = pc[r] /\ chain'[r] = chain[r]
        /\ found'[r] = found[r] /\ result'[r] = result[r]
  BY DEF ResolverInv, Types, Stays
<1> QED BY <1>2, <1>3, StepKeeps DEF Stays

\* On its way a goroutine has reached a name.
LEMMA Reached ==
  ASSUME ResolverInv, NEW q \in Query, pc[q] \in Busy
  PROVE  /\ chain[q] \in Seq(Name) /\ Len(chain[q]) \in Nat /\ Len(chain[q]) # 0
         /\ Last(chain[q]) \in Name /\ Last(chain[q]) = chain[q][Len(chain[q])]
<1>1. chain[q] \in Seq(Name) /\ found[q] \in Seq(Record) /\ Leads(chain[q], found[q])
  BY DEF ResolverInv, Types, QueryInv
<1>2. Len(chain[q]) \in Nat /\ Len(chain[q]) # 0
  BY <1>1, LenProperties DEF Leads
<1> QED BY <1>1, <1>2, LastFacts

LEMMA LookupTooDeepInv ==
  ASSUME ResolverInv, NEW q \in Query, LookupTooDeep(q)
  PROVE  ResolverInv'
<1>1. Types'
  BY EmptySeq DEF ResolverInv, Types, LookupTooDeep, Goto, Returns, ghost, Busy, Local, Rcode
<1>2. /\ Stays(q) /\ pc[q] = "lookup" /\ pc'[q] = "return" /\ result'[q].rrs = <<>>
      /\ cache' = cache
  BY DEF ResolverInv, Types, LookupTooDeep, Goto, Returns, ghost, Stays
<1>3. Chained(Last(chain[q]), <<>>) /\ Within(<<>>, now, Len(<<>>))
  BY EmptySeq DEF Chained, Within
<1>4. \A n \in Name : EntryInv(n)'
  BY <1>2, EntriesKept DEF Stays
<1> QED BY <1>1, <1>2, <1>3, <1>4, StaysInv DEF Busy, Local

LEMMA LookupHitInv ==
  ASSUME ResolverInv, NEW q \in Query, LookupHit(q)
  PROVE  ResolverInv'
<1> DEFINE n == Last(chain[q])
<1>1. n \in Name
  BY Reached DEF LookupHit, Goto, Busy, Local
<1>2. /\ cache[n] # None /\ ~(now > cache[n].expire) /\ EntryInv(n)
      /\ cache[n].expire \in Nat /\ cache[n].rrs \in Seq(Record)
  BY <1>1 DEF LookupHit, Expired, ResolverInv, Types, EntryType
<1>3. Types'
  BY <1>2 DEF ResolverInv, Types, LookupHit, Goto, Returns, ghost, Busy, Local, Rcode
<1>4. /\ Stays(q) /\ pc[q] = "lookup" /\ pc'[q] = "return"
      /\ result'[q].rrs = cache[n].rrs /\ cache' = cache
  BY DEF ResolverInv, Types, LookupHit, Goto, Returns, ghost, Stays
<1>5. Chained(n, cache[n].rrs)
  BY <1>2 DEF EntryInv
<1>6. Within(cache[n].rrs, now, Len(cache[n].rrs))
  <2>1. now \in Nat /\ Len(cache[n].rrs) \in Nat
    BY <1>2, LenProperties DEF ResolverInv, Types
  <2>2. SUFFICES ASSUME cache[n].rrs # <<>>, Last(cache[n].rrs).data \in Address
                 PROVE  now <= Last(cache[n].rrs).at + MaxTTL * Len(cache[n].rrs)
    BY DEF Within
  <2>3. Last(cache[n].rrs).at \in Nat
    BY <1>2, <2>2, LastRecord
  <2>4. cache[n].expire <= Last(cache[n].rrs).at + MaxTTL * Len(cache[n].rrs)
    BY <1>2, <2>2 DEF EntryInv, Within
  <2>5. \A t, x, y \in Nat : ~(t > x) /\ x <= y => t <= y
    OBVIOUS
  <2>6. Last(cache[n].rrs).at + MaxTTL * Len(cache[n].rrs) \in Nat
    <3>1. \A a, b, k \in Nat : a + b * k \in Nat
      OBVIOUS
    <3> QED BY <2>1, <2>3, <3>1, ResolverAssumption
  <2> QED BY <1>2, <2>1, <2>4, <2>5, <2>6
<1>7. \A m \in Name : EntryInv(m)'
  BY <1>4, EntriesKept DEF Stays
<1> QED BY <1>3, <1>4, <1>5, <1>6, <1>7, StaysInv DEF Busy, Local

LEMMA LookupMissInv ==
  ASSUME ResolverInv, NEW q \in Query, LookupMiss(q)
  PROVE  ResolverInv'
<1>1. Types'
  BY DEF ResolverInv, Types, LookupMiss, ghost, Busy, Local
<1>2. /\ Stays(q) /\ pc[q] = "lookup" /\ pc'[q] \in {"ask", "delete"}
      /\ cache' = cache /\ ~TooDeep(q)
  BY DEF ResolverInv, Types, LookupMiss, ghost, Stays
<1>3. Len(chain[q]) <= MaxDepth + 1
  BY <1>2, Reached, ResolverAssumption DEF TooDeep, Busy, Local
<1>4. \A n \in Name : EntryInv(n)'
  BY <1>2, EntriesKept DEF Stays
<1> QED BY <1>1, <1>2, <1>3, <1>4, StaysInv DEF Busy, Local

LEMMA DeleteExpiredInv ==
  ASSUME ResolverInv, NEW q \in Query, DeleteExpired(q)
  PROVE  ResolverInv'
<1>1. Types'
  BY DEF ResolverInv, Types, DeleteExpired, Goto, ghost, Busy, Local
<1>2. /\ Stays(q) /\ pc[q] = "delete" /\ pc'[q] = "ask"
      /\ \A n \in Name : cache'[n] = cache[n] \/ cache'[n] = None
  BY DEF ResolverInv, Types, DeleteExpired, Goto, ghost, Stays
<1>3. Len(chain[q]) <= MaxDepth + 1
  BY <1>2 DEF ResolverInv, QueryInv
<1>4. ASSUME NEW n \in Name PROVE EntryInv(n)'
  BY <1>2, EntriesKept DEF Stays, EntryInv
<1> QED BY <1>1, <1>2, <1>3, <1>4, StaysInv DEF Busy, Local

LEMMA ServerFailsInv ==
  ASSUME ResolverInv, NEW q \in Query, ServerFails(q)
  PROVE  ResolverInv'
<1>1. /\ server[q] \in 1 .. Servers + 1 /\ server[q] <= Servers /\ Servers \in Nat
      /\ tried[q] \in Seq(1 .. Servers)
  BY ResolverAssumption, LenProperties DEF ResolverInv, Types, ServerFails, Servers
<1>2. server[q] + 1 \in 1 .. Servers + 1 /\ Append(tried[q], server[q]) \in Seq(1 .. Servers)
  BY <1>1, AppendProperties
<1>3. Types'
  BY <1>2 DEF ResolverInv, Types, ServerFails, ghost
<1>4. /\ Stays(q) /\ pc[q] = "ask" /\ pc'[q] = "ask" /\ cache' = cache
  BY DEF ResolverInv, Types, ServerFails, ghost, Stays
<1>5. Len(chain[q]) <= MaxDepth + 1
  BY <1>4 DEF ResolverInv, QueryInv
<1>6. \A n \in Name : EntryInv(n)'
  BY <1>4, EntriesKept DEF Stays
<1> QED BY <1>3, <1>4, <1>5, <1>6, StaysInv DEF Busy

\* With a last attempt the servers are tried from the first again.
LEMMA AllOverTypes ==
  ASSUME Types, NEW q \in Query, AllOver(q)
  PROVE  /\ server' \in [Query -> 1 .. Servers + 1]
         /\ tried' \in [Query -> Seq(1 .. Servers)]
<1>1. Servers \in Nat /\ <<>> \in Seq(1 .. Servers)
  BY ResolverAssumption, LenProperties, EmptySeq DEF Servers
<1> QED BY <1>1 DEF Types, AllOver

LEMMA AllFailedInv ==
  ASSUME ResolverInv, NEW q \in Query, AllFailed(q)
  PROVE  ResolverInv'
<1>1. /\ server' \in [Query -> 1 .. Servers + 1]
      /\ tried' \in [Query -> Seq(1 .. Servers)]
  BY AllOverTypes DEF AllFailed, ResolverInv
<1>2. Types'
  BY <1>1, EmptySeq DEF ResolverInv, Types, AllFailed, Goto, Returns, ghost, Busy, Local, Rcode
<1>3. /\ Stays(q) /\ pc[q] = "ask" /\ pc'[q] = "return" /\ result'[q].rrs = <<>>
      /\ cache' = cache
  BY DEF ResolverInv, Types, AllFailed, Goto, Returns, ghost, Stays
<1>4. Chained(Last(chain[q]), <<>>) /\ Within(<<>>, now, Len(<<>>))
  BY EmptySeq DEF Chained, Within
<1>5. \A n \in Name : EntryInv(n)'
  BY <1>3, EntriesKept DEF Stays
<1> QED BY <1>2, <1>3, <1>4, <1>5, StaysInv DEF Busy, Local

LEMMA AnswerNxDomainInv ==
  ASSUME ResolverInv, NEW q \in Query, AnswerNxDomain(q)
  PROVE  ResolverInv'
<1>1. /\ server' \in [Query -> 1 .. Servers + 1]
      /\ tried' \in [Query -> Seq(1 .. Servers)]
  BY AllOverTypes DEF AnswerNxDomain, ResolverInv
<1>2. Last(chain[q]) \in Name
  BY Reached DEF AnswerNxDomain, Goto, Busy
<1>3. Types'
  BY <1>1, <1>2, EmptySeq
  DEF ResolverInv, Types, AnswerNxDomain, Goto, Returns, Busy, Local, Rcode
<1>4. /\ Stays(q) /\ pc[q] = "ask" /\ pc'[q] = "store" /\ result'[q].rrs = <<>>
      /\ Last(chain[q]) \in denied' /\ cache' = cache
  BY DEF ResolverInv, Types, AnswerNxDomain, Goto, Returns, Stays
<1>5. Chained(Last(chain[q]), <<>>) /\ Within(<<>>, now, Len(<<>>) - 1)
  BY EmptySeq DEF Chained, Within
<1>6. \A n \in Name : EntryInv(n)'
  BY <1>4, EntriesKept DEF Stays
<1> QED BY <1>3, <1>4, <1>5, <1>6, StaysInv DEF Busy, Local

LEMMA AnswerNoDataInv ==
  ASSUME ResolverInv, NEW q \in Query, AnswerNoData(q)
  PROVE  ResolverInv'
<1>1. /\ server' \in [Query -> 1 .. Servers + 1]
      /\ tried' \in [Query -> Seq(1 .. Servers)]
  BY AllOverTypes DEF AnswerNoData, ResolverInv
<1>2. Last(chain[q]) \in Name
  BY Reached DEF AnswerNoData, Goto, Busy
<1>3. Types'
  BY <1>1, <1>2, EmptySeq
  DEF ResolverInv, Types, AnswerNoData, AfterNoData, Goto, Returns, Busy, Local, Rcode
<1>4. /\ Stays(q) /\ pc[q] = "ask" /\ pc'[q] = "return" /\ result'[q].rrs = <<>>
      /\ cache' = cache
  BY DEF ResolverInv, Types, AnswerNoData, AfterNoData, Goto, Returns, Stays
<1>5. Chained(Last(chain[q]), <<>>) /\ Within(<<>>, now, Len(<<>>))
  BY EmptySeq DEF Chained, Within
<1>6. \A n \in Name : EntryInv(n)'
  BY <1>4, EntriesKept DEF Stays
<1> QED BY <1>3, <1>4, <1>5, <1>6, StaysInv DEF Busy, Local

\* A new answer of one record.
LEMMA OneRecord ==
  ASSUME NEW r \in Record
  PROVE  /\ <<r>> \in Seq(Record) /\ <<r>> # <<>> /\ Len(<<r>>) = 1
         /\ Chained(r.owner, <<r>>) /\ Within(<<r>>, r.at, 0)
<1>1. <<r>> \in Seq(Record) /\ <<r>> # <<>> /\ Len(<<r>>) = 1 /\ <<r>>[1] = r
  OBVIOUS
<1>2. Chained(r.owner, <<r>>)
  BY <1>1 DEF Chained
<1>3. Last(<<r>>) = r /\ r.at \in Nat /\ MaxTTL * 0 = 0
  BY <1>1, ResolverAssumption DEF Last, Record
<1> QED BY <1>1, <1>2, <1>3 DEF Within

LEMMA AnswerAddressInv ==
  ASSUME ResolverInv, NEW q \in Query, AnswerAddress(q)
  PROVE  ResolverInv'
<1> DEFINE n == Last(chain[q])
           r == [owner |-> n, data |-> zone[n], at |-> now]
<1>1. /\ server' \in [Query -> 1 .. Servers + 1]
      /\ tried' \in [Query -> Seq(1 .. Servers)]
  BY AllOverTypes DEF AnswerAddress, ResolverInv
<1>2. n \in Name
  BY Reached DEF AnswerAddress, Goto, Busy
<1>3. r \in Record /\ r.owner = n /\ r.at = now
  BY <1>2 DEF AnswerAddress, Record, ResolverInv, Types
<1>4. /\ pc' = [pc EXCEPT ![q] = "store"] /\ pc[q] = "ask"
      /\ result' = [result EXCEPT ![q] = [rrs |-> <<r>>, rcode |-> "success"]]
      /\ existed' = existed \cup {n}
      /\ UNCHANGED <<zone, now, cache, chain, found, denied>>
  BY DEF AnswerAddress, Goto, Returns
<1> HIDE DEF r
<1>5. /\ <<r>> \in Seq(Record) /\ <<r>> # <<>> /\ Chained(n, <<r>>)
      /\ Within(<<r>>, now, Len(<<r>>) - 1)
  BY <1>3, OneRecord
<1> HIDE DEF n
<1>6. Types'
  BY <1>1, <1>2, <1>4, <1>5 DEF ResolverInv, Types, Busy, Local, Rcode
<1>7. Stays(q) /\ pc'[q] = "store" /\ result'[q].rrs = <<r>>
  BY <1>4 DEF ResolverInv, Types, Stays
<1>8. \A m \in Name : EntryInv(m)'
  BY <1>4, EntriesKept
<1> QED BY <1>4, <1>5, <1>6, <1>7, <1>8, StaysInv DEF Busy, n

LEMMA AnswerCnameInv ==
  ASSUME ResolverInv, NEW q \in Query, AnswerCname(q)
  PROVE  ResolverInv'
<1> DEFINE n == Last(chain[q])
           r == [owner |-> n, data |-> zone[n], at |-> now]
           ch == Append(chain[q], zone[n])
           fd == Append(found[q], r)
<1>1. /\ server' \in [Query -> 1 .. Servers + 1]
      /\ tried' \in [Query -> Seq(1 .. Servers)]
  BY AllOverTypes DEF AnswerCname, ResolverInv
<1>2. /\ n \in Name /\ n = chain[q][Len(chain[q])]
      /\ chain[q] \in Seq(Name) /\ Len(chain[q]) \in Nat
  BY Reached DEF AnswerCname, Goto, Busy
<1>3. /\ pc' = [pc EXCEPT ![q] = "lookup"] /\ pc[q] = "ask" /\ zone[n] \in Name
      /\ chain' = [chain EXCEPT ![q] = ch] /\ found' = [found EXCEPT ![q] = fd]
      /\ existed' = existed \cup {n}
      /\ UNCHANGED <<zone, now, cache, result, denied>>
  BY DEF AnswerCname, Goto
<1>4. r \in Record /\ r.owner = n /\ r.data = zone[n]
  BY <1>2, <1>3 DEF Record, ResolverInv, Types
<1>5. found[q] \in Seq(Record) /\ Len(found[q]) \in Nat
  BY LenProperties DEF ResolverInv, Types
<1>6. /\ Len(chain[q]) <= MaxDepth + 1 /\ Len(chain[q]) = Len(found[q]) + 1
      /\ \A i \in 1 .. Len(found[q]) :
           found[q][i].owner = chain[q][i] /\ found[q][i].data = chain[q][i + 1]
  BY <1>3 DEF ResolverInv, QueryInv, Leads, Busy
<1> HIDE DEF r
<1>7. /\ ch \in Seq(Name) /\ Len(ch) = Len(chain[q]) + 1
      /\ \A i \in 1 .. Len(chain[q]) : ch[i] = chain[q][i]
      /\ ch[Len(chain[q]) + 1] = zone[n]
  BY <1>2, <1>3, AppendProperties
<1>8. /\ fd \in Seq(Record) /\ Len(fd) = Len(found[q]) + 1
      /\ \A i \in 1 .. Len(found[q]) : fd[i] = found[q][i]
      /\ fd[Len(found[q]) + 1] = r
  BY <1>4, <1>5, AppendProperties
<1> HIDE DEF ch, fd, n
<1>9. ASSUME NEW i \in 1 .. Len(fd) PROVE fd[i].owner = ch[i] /\ fd[i].data = ch[i + 1]
  <2>1. CASE i = Len(found[q]) + 1
    <3>1. fd[i] = r /\ ch[i] = n /\ ch[i + 1] = zone[n]
      BY <1>2, <1>5, <1>6, <1>7, <1>8, <2>1
    <3> QED BY <1>4, <3>1
  <2>2. CASE i # Len(found[q]) + 1
    <3>1. i \in 1 .. Len(found[q]) /\ i \in 1 .. Len(chain[q]) /\ i + 1 \in 1 .. Len(chain[q])
      BY <1>5, <1>6, <1>8, <2>2
    <3> QED BY <1>6, <1>7, <1>8, <3>1
  <2> QED BY <2>1, <2>2
<1>10. Leads(ch, fd) /\ Len(ch) <= MaxDepth + 2
  BY <1>2, <1>5, <1>6, <1>7, <1>8, <1>9, ResolverAssumption DEF Leads
<1>11. Types'
  BY <1>1, <1>2, <1>3, <1>7, <1>8 DEF ResolverInv, Types, Busy, Local
<1>12. pc'[q] = "lookup" /\ chain'[q] = ch /\ found'[q] = fd
  BY <1>3 DEF ResolverInv, Types
<1>13. QueryInv(q)'
  BY <1>10, <1>12 DEF QueryInv, Leads
<1>14. \A m \in Name : EntryInv(m)'
  BY <1>3, EntriesKept
<1>15. \A s \in Query \ {q} :
         /\ pc'[s] = pc[s] /\ chain'[s] = chain[s]
         /\ found'[s] = found[s] /\ result'[s] = result[s]
  BY <1>3 DEF ResolverInv, Types
<1> QED BY <1>3, <1>11, <1>13, <1>14, <1>15, StepKeeps

\* The lifetime of the new entry counts from now.
LEMMA StoreInv ==
  ASSUME ResolverInv, NEW q \in Query, Store(q)
  PROVE  ResolverInv'
<1> DEFINE n == Last(chain[q])
           rrs == result[q].rrs
<1>1. PICK ttl \in Lifetime :
        cache' = [cache EXCEPT ![n] = [expire |-> now + ttl, rrs |-> rrs]]
  BY DEF Store, KeyOf
<1>2. ttl \in Nat /\ ttl <= MaxTTL /\ now \in Nat
  BY ResolverAssumption DEF Lifetime, ResolverInv, Types
<1>3. /\ pc' = [pc EXCEPT ![q] = "return"] /\ pc[q] = "store"
      /\ UNCHANGED <<zone, now, chain, found, server, tried, result, existed, denied>>
  BY DEF Store, Goto, ghost
<1>4. n \in Name
  BY <1>3, Reached DEF Busy, Local
<1>5. rrs \in Seq(Record) /\ Len(rrs) \in Nat
  BY LenProperties DEF ResolverInv, Types
<1>6. /\ Chained(n, rrs)
      /\ rrs = <<>> => n \in denied
      /\ Within(rrs, now, Len(rrs) - 1)
  BY <1>3 DEF ResolverInv, QueryInv
<1> HIDE DEF n, rrs
<1>7. Within(rrs, now + ttl, Len(rrs)) /\ Within(rrs, now, Len(rrs))
  <2>1. SUFFICES ASSUME rrs # <<>>, Last(rrs).data \in Address
                 PROVE  /\ now + ttl <= Last(rrs).at + MaxTTL * Len(rrs)
                        /\ now <= Last(rrs).at + MaxTTL * Len(rrs)
    BY DEF Within
  <2>2. now <= Last(rrs).at + MaxTTL * (Len(rrs) - 1) /\ Last(rrs).at \in Nat
    BY <1>5, <1>6, <2>1, LastRecord DEF Within
  <2>3. /\ MaxTTL * (Len(rrs) - 1) = MaxTTL * Len(rrs) - MaxTTL
        /\ MaxTTL * Len(rrs) \in Nat
    BY <1>5, ResolverAssumption
  <2> QED BY <1>2, <2>2, <2>3, ResolverAssumption
<1>8. Types'
  BY <1>1, <1>2, <1>3, <1>4, <1>5 DEF ResolverInv, Types, EntryType, Busy, Local
<1>9. Stays(q) /\ pc'[q] = "return" /\ result'[q].rrs = rrs
  BY <1>3 DEF ResolverInv, Types, Stays, rrs
<1>10. ASSUME NEW m \in Name PROVE EntryInv(m)'
  <2>1. CASE m = n
    <3>1. cache'[n].expire = now + ttl /\ cache'[n].rrs = rrs
      BY <1>1, <1>4 DEF ResolverInv, Types
    <3> QED BY <1>3, <1>6, <1>7, <2>1, <3>1 DEF EntryInv, Chained, Within
  <2>2. CASE m # n
    BY <1>1, <1>3, <2>2, EntriesKept DEF ResolverInv, Types
  <2> QED BY <2>1, <2>2
<1> QED BY <1>3, <1>6, <1>7, <1>8, <1>9, <1>10, StaysInv DEF Busy, Local, n

LEMMA UnwindInv ==
  ASSUME ResolverInv, NEW q \in Query, Unwind(q)
  PROVE  ResolverInv'
<1> DEFINE ch == Front(chain[q])
           fd == Front(found[q])
           r  == Last(found[q])
           rrs == result[q].rrs
           t  == <<r>> \o rrs
<1>1. /\ pc[q] = "return" /\ Len(chain[q]) > 1
      /\ pc' = [pc EXCEPT ![q] =
                  IF result[q].rcode = "success" THEN "store" ELSE "return"]
      /\ chain' = [chain EXCEPT ![q] = ch] /\ found' = [found EXCEPT ![q] = fd]
      /\ result' = [result EXCEPT ![q] = [rrs |-> t, rcode |-> result[q].rcode]]
      /\ UNCHANGED <<zone, now, cache, server, tried, existed, denied>>
  BY DEF Unwind, Returns, ghost
<1>2. /\ chain[q] \in Seq(Name) /\ Len(chain[q]) \in Nat
      /\ Last(chain[q]) = chain[q][Len(chain[q])]
  BY <1>1, Reached DEF Busy, Local
<1>3. /\ found[q] \in Seq(Record) /\ Len(found[q]) \in Nat
      /\ rrs \in Seq(Record) /\ Len(rrs) \in Nat /\ result[q].rcode \in Rcode
  BY LenProperties DEF ResolverInv, Types
<1>4. /\ Len(chain[q]) <= MaxDepth + 2 /\ Len(chain[q]) = Len(found[q]) + 1
      /\ \A i \in 1 .. Len(found[q]) :
           found[q][i].owner = chain[q][i] /\ found[q][i].data = chain[q][i + 1]
      /\ Chained(Last(chain[q]), rrs) /\ Within(rrs, now, Len(rrs))
  BY <1>1 DEF ResolverInv, QueryInv, Leads, Busy, Local
<1>5. Len(found[q]) # 0 /\ Len(chain[q]) # 0 /\ Len(found[q]) \in 1 .. Len(found[q])
  BY <1>1, <1>2, <1>3, <1>4
<1>6. /\ r \in Record /\ r = found[q][Len(found[q])]
      /\ fd \in Seq(Record) /\ Len(fd) = Len(found[q]) - 1
      /\ \A i \in 1 .. Len(found[q]) - 1 : fd[i] = found[q][i]
  BY <1>3, <1>5, LastFacts, FrontFacts
<1>7. /\ ch \in Seq(Name) /\ Len(ch) = Len(chain[q]) - 1
      /\ \A i \in 1 .. Len(chain[q]) - 1 : ch[i] = chain[q][i]
  BY <1>2, <1>5, FrontFacts
<1> HIDE DEF ch, fd, r, t, rrs
<1>8. r.owner = Last(ch) /\ r.data = Last(chain[q]) /\ r.data \in Name
  <2>1. r.owner = chain[q][Len(found[q])] /\ r.data = chain[q][Len(found[q]) + 1]
    BY <1>4, <1>5, <1>6
  <2>2. Len(ch) = Len(found[q]) /\ Last(ch) = ch[Len(ch)]
    BY <1>3, <1>4, <1>7 DEF Last
  <2>3. ch[Len(found[q])] = chain[q][Len(found[q])]
    BY <1>3, <1>4, <1>5, <1>7
  <2>4. r.data = Last(chain[q]) /\ Last(chain[q]) \in Name
    BY <1>1, <1>2, <1>4, <2>1, Reached DEF Busy, Local
  <2> QED BY <2>1, <2>2, <2>3, <2>4
<1>9. /\ t \in Seq(Record) /\ t # <<>> /\ Len(t) - 1 = Len(rrs)
      /\ Len(t) = Len(rrs) + 1
  BY <1>3, <1>6, PrependFacts DEF t
<1>10. Chained(Last(ch), t) /\ Within(t, now, Len(t) - 1)
  BY <1>3, <1>4, <1>6, <1>8, <1>9, PrependChained, PrependWithin DEF t
<1>11. Within(t, now, Len(t))
  <2>1. SUFFICES ASSUME t # <<>>, Last(t).data \in Address
                 PROVE  now <= Last(t).at + MaxTTL * Len(t)
    BY DEF Within
  <2>2. now <= Last(t).at + MaxTTL * (Len(t) - 1) /\ Last(t).at \in Nat
        /\ now \in Nat
    BY <1>9, <1>10, <2>1, LastRecord DEF Within, ResolverInv, Types
  <2>3. /\ MaxTTL * (Len(t) - 1) = MaxTTL * Len(t) - MaxTTL
        /\ MaxTTL * Len(t) \in Nat
    BY <1>3, <1>9, ResolverAssumption
  <2> QED BY <2>2, <2>3, ResolverAssumption
<1>12. Leads(ch, fd)
  <2>1. ASSUME NEW i \in 1 .. Len(fd) PROVE fd[i].owner = ch[i] /\ fd[i].data = ch[i + 1]
    <3>1. /\ i \in 1 .. Len(found[q]) /\ i \in 1 .. Len(found[q]) - 1
          /\ i \in 1 .. Len(chain[q]) - 1 /\ i + 1 \in 1 .. Len(chain[q]) - 1
      BY <1>3, <1>4, <1>6
    <3> QED BY <1>4, <1>6, <1>7, <3>1
  <2>2. Len(ch) = Len(fd) + 1
    BY <1>3, <1>4, <1>6, <1>7
  <2> QED BY <2>1, <2>2 DEF Leads
<1>13. Len(ch) <= MaxDepth + 2
  BY <1>2, <1>4, <1>7, ResolverAssumption
<1>14. Types'
  BY <1>1, <1>3, <1>6, <1>7, <1>9 DEF ResolverInv, Types, Busy, Local
<1>15. /\ pc'[q] \in {"store", "return"} /\ chain'[q] = ch /\ found'[q] = fd
       /\ result'[q].rrs = t
  BY <1>1 DEF ResolverInv, Types
<1>16. QueryInv(q)'
  BY <1>1, <1>9, <1>10, <1>11, <1>12, <1>13, <1>15 DEF QueryInv, Leads, Chained, Within
<1>17. \A m \in Name : EntryInv(m)'
  BY <1>1, EntriesKept
<1>18. \A s \in Query \ {q} :
         /\ pc'[s] = pc[s] /\ chain'[s] = chain[s]
         /\ found'[s] = found[s] /\ result'[s] = result[s]
  BY <1>1 DEF ResolverInv, Types
<1> QED BY <1>1, <1>14, <1>16, <1>17, <1>18, StepKeeps

LEMMA ReplyInv ==
  ASSUME ResolverInv, NEW q \in Query, Reply(q)
  PROVE  ResolverInv'
<1>1. Types'
  BY EmptySeq DEF ResolverInv, Types, Reply, Goto, Returns, ghost, Busy, Local
<1>2. /\ Stays(q) /\ pc[q] = "return" /\ pc'[q] = "replied" /\ cache' = cache
  BY DEF ResolverInv, Types, Reply, Goto, Returns, ghost, Stays
<1>3. \A n \in Name : EntryInv(n)'
  BY <1>2, EntriesKept DEF Stays
<1> QED BY <1>1, <1>2, <1>3, StaysInv DEF Busy, Local

\* Time passes when no goroutine has anything in hand.
LEMMA TickInv ==
  ASSUME ResolverInv, Tick
  PROVE  ResolverInv'
<1>1. Types'
  BY DEF ResolverInv, Types, Tick, query, ghost
<1>2. /\ UNCHANGED <<cache, pc, chain, found, result, denied>>
      /\ \A q \in Query : pc[q] \notin Local
  BY DEF Tick, query, ghost
<1>3. ASSUME NEW q \in Query PROVE QueryInv(q)'
  <2>1. QueryInv(q) /\ pc[q] \notin {"store", "return"}
    BY <1>2 DEF ResolverInv, Local
  <2> QED BY <1>2, <2>1 DEF QueryInv, Leads
<1>4. \A n \in Name : EntryInv(n)'
  BY <1>2, EntriesKept
<1> QED BY <1>1, <1>3, <1>4 DEF ResolverInv

\* The rest of the world does not touch the goroutines.
LEMMA OutsideInv ==
  ASSUME ResolverInv,
         UNCHANGED vars \/ (\E n \in Name : Evict(n))
         \/ \E n \in Name, v \in Name \cup Address \cup {NxDomain, NoData} : Publish(n, v)
  PROVE  ResolverInv'
<1>1. /\ UNCHANGED <<now, pc, chain, found, server, tried, result, existed, denied>>
      /\ \A n \in Name : cache'[n] = cache[n] \/ cache'[n] = None
  BY DEF ResolverInv, Types, Evict, Publish, query, ghost, vars
<1>2. /\ zone' \in [Name -> Name \cup Address \cup {NxDomain, NoData}]
      /\ cache' \in [Name -> {None} \cup EntryType]
  BY DEF ResolverInv, Types, Evict, Publish, vars
<1>3. Types'
  BY <1>1, <1>2 DEF ResolverInv, Types
<1>4. \A q \in Query : QueryInv(q)'
  BY <1>1 DEF ResolverInv, QueryInv, Leads, Chained, Within
<1>5. ASSUME NEW n \in Name PROVE EntryInv(n)'
  BY <1>1, EntriesKept DEF EntryInv
<1> QED BY <1>3, <1>4, <1>5 DEF ResolverInv

-----------------------------------------------------------------------------
(* The theorems.                                                           *)

\* The invariant of the resolver: what every goroutine and every entry of the
\* cache holds.
THEOREM ResolverInvariant == Spec => []ResolverInv
<1>1. Init => ResolverInv
  BY InitResolverInv
<1>2. ResolverInv /\ [Next]_vars => ResolverInv'
  <2> SUFFICES ASSUME ResolverInv, [Next]_vars PROVE ResolverInv'
    OBVIOUS
  <2>1. CASE \E q \in Query : Resolve(q)
    BY <2>1, LookupTooDeepInv, LookupHitInv, LookupMissInv, DeleteExpiredInv,
       ServerFailsInv, AllFailedInv, AnswerNxDomainInv, AnswerNoDataInv,
       AnswerAddressInv, AnswerCnameInv, StoreInv, UnwindInv, ReplyInv DEF Resolve
  <2>2. CASE \E q \in Query, n \in Name : Ask(q, n)
    BY <2>2, AskInv
  <2>3. CASE Tick
    BY <2>3, TickInv
  <2>4. CASE \/ UNCHANGED vars \/ \E n \in Name : Evict(n)
             \/ \E n \in Name, v \in Name \cup Address \cup {NxDomain, NoData} : Publish(n, v)
    BY <2>4, OutsideInv
  <2> QED BY <2>1, <2>2, <2>3, <2>4 DEF Next
<1> QED BY <1>1, <1>2, PTL DEF Spec

\* Every variable has its type; a goroutine never goes more than a CNAME deeper
\* than allowed.
THEOREM TypeCorrect == Spec => []TypeOK
<1>1. ResolverInv => TypeOK
  <2> SUFFICES ASSUME ResolverInv PROVE TypeOK
    OBVIOUS
  <2>1. ASSUME NEW q \in Query
        PROVE  /\ pc[q] \in {"idle", "ask", "replied"} \cup Local
               /\ chain[q] \in Seq(Name) /\ Len(chain[q]) <= MaxDepth + 2
               /\ found[q] \in Seq(Record)
               /\ pc[q] \notin {"idle", "replied"} => Len(chain[q]) = Len(found[q]) + 1
               /\ server[q] \in 1 .. Servers + 1 /\ tried[q] \in Seq(1 .. Servers)
               /\ result[q].rrs \in Seq(Record) /\ result[q].rcode \in Rcode
    BY DEF ResolverInv, Types, QueryInv, Leads, Busy
  <2>2. ASSUME NEW n \in Name, cache[n] # None
        PROVE  cache[n].expire \in Nat /\ cache[n].rrs \in Seq(Record)
    BY <2>2 DEF ResolverInv, Types, EntryType
  <2> QED BY <2>1, <2>2 DEF ResolverInv, Types, TypeOK
<1> QED BY <1>1, ResolverInvariant, PTL

\* Each part of a CNAME chain is filed under the name it begins with, and so is
\* a result on its way: unwinding never mixes names up.
THEOREM ChainedAnswers == Spec => []AnswersChained
<1>1. ResolverInv => AnswersChained
  BY DEF ResolverInv, QueryInv, EntryInv, AnswersChained
<1> QED BY <1>1, ResolverInvariant, PTL

\* The cached age of an address is limited by the number of records before it,
\* whatever the TTLs and however entries are renewed.
THEOREM AgeOfAnswers == Spec => []ServedAge
<1>1. ResolverInv => ServedAge
  BY DEF ResolverInv, EntryInv, Within, ServedAge
<1> QED BY <1>1, ResolverInvariant, PTL

\* The negative cache only repeats what an upstream server said of the name.
THEOREM HonestNegatives == Spec => []NegativeHonest
<1>1. ResolverInv => NegativeHonest
  BY DEF ResolverInv, EntryInv, NegativeHonest, Live
<1> QED BY <1>1, ResolverInvariant, PTL

-----------------------------------------------------------------------------
(* The servers that have been tried.                                       *)

\* Each lookup asks the servers in their order, from the first one on, and no
\* goroutine that does not ask has begun to.
InOrder(q) ==
  /\ pc[q] # "ask" => server[q] = 1
  /\ tried[q] = [k \in 1 .. server[q] - 1 |-> k]

OrderInv == ResolverInv /\ \A q \in Query : InOrder(q)

\* The first place, after none.
LEMMA BeginInOrder == <<>> = [k \in 1 .. 1 - 1 |-> k]
  OBVIOUS

\* A failed server is one more that has been tried.
LEMMA FailInOrder ==
  ASSUME OrderInv, NEW q \in Query, ServerFails(q)
  PROVE  InOrder(q)'
<1> DEFINE s == server[q]
           t == tried[q]
<1>1. /\ s \in Nat /\ s >= 1 /\ t \in Seq(1 .. Servers) /\ s \in 1 .. Servers
      /\ t = [k \in 1 .. s - 1 |-> k]
  BY ResolverAssumption, LenProperties
  DEF OrderInv, InOrder, ResolverInv, Types, ServerFails, Servers
<1>2. server'[q] = s + 1 /\ tried'[q] = Append(t, s) /\ pc'[q] = "ask"
  BY DEF OrderInv, ResolverInv, Types, ServerFails
<1> HIDE DEF s, t
<1>3. Len(t) = s - 1
  <2>1. DOMAIN t = 1 .. s - 1 /\ DOMAIN t = 1 .. Len(t) /\ Len(t) \in Nat
    BY <1>1, LenProperties
  <2> QED BY <1>1, <2>1
<1>4. /\ Append(t, s) \in Seq(1 .. Servers) /\ Len(Append(t, s)) = s
      /\ \A k \in 1 .. s - 1 : Append(t, s)[k] = t[k]
      /\ Append(t, s)[s] = s
  <2>1. s - 1 + 1 = s
    BY <1>1
  <2> QED BY <1>1, <1>3, <2>1, AppendProperties
<1>5. Append(t, s) = [k \in 1 .. s |-> k]
  <2>1. Append(t, s) = [k \in 1 .. Len(Append(t, s)) |-> Append(t, s)[k]]
    BY <1>4, LenProperties
  <2>2. ASSUME NEW k \in 1 .. s PROVE Append(t, s)[k] = k
    <3>1. CASE k = s
      BY <1>4, <3>1
    <3>2. CASE k # s
      <4>1. k \in 1 .. s - 1
        BY <1>1, <3>2
      <4> QED BY <1>1, <1>4, <4>1
    <3> QED BY <3>1, <3>2
  <2> QED BY <1>4, <2>1, <2>2
<1>6. server'[q] - 1 = s
  BY <1>1, <1>2
<1>7. tried'[q] = [k \in 1 .. server'[q] - 1 |-> k]
  BY <1>2, <1>5, <1>6, Zenon
<1> QED BY <1>2, <1>7, Zenon DEF InOrder

\* The other steps begin all over or leave the servers alone.
LEMMA StepInOrder ==
  ASSUME OrderInv, [Next]_vars, NEW q \in Query
  PROVE  InOrder(q)'
<1>1. InOrder(q) /\ pc \in [Query -> {"idle", "replied"} \cup Busy]
      /\ server \in [Query -> 1 .. Servers + 1] /\ tried \in [Query -> Seq(1 .. Servers)]
  BY DEF OrderInv, ResolverInv, Types
<1>2. ASSUME NEW r \in Query, Resolve(r) PROVE InOrder(q)'
  <2>1. CASE ServerFails(r)
    <3>1. CASE r = q
      BY <2>1, <3>1, FailInOrder
    <3>2. CASE r # q
      BY <1>1, <2>1, <3>2 DEF ServerFails, InOrder
    <3> QED BY <3>1, <3>2
  <2>2. CASE AllFailed(r) \/ AnswerNxDomain(r) \/ AnswerNoData(r)
             \/ AnswerAddress(r) \/ AnswerCname(r)
    <3>1. AllOver(r) /\ \A s \in Query \ {r} : pc'[s] = pc[s]
      BY <1>1, <2>2 DEF AllFailed, AnswerNxDomain, AnswerNoData, AnswerAddress,
                        AnswerCname, Goto
    <3>2. CASE r = q
      BY <1>1, <3>1, <3>2, BeginInOrder DEF AllOver, InOrder
    <3>3. CASE r # q
      BY <1>1, <3>1, <3>3 DEF AllOver, InOrder
    <3> QED BY <3>2, <3>3
  <2>3. CASE LookupTooDeep(r) \/ LookupHit(r) \/ LookupMiss(r) \/ DeleteExpired(r)
             \/ Store(r) \/ Unwind(r) \/ Reply(r)
    <3>1. /\ UNCHANGED <<server, tried>> /\ pc[r] # "ask"
          /\ \A s \in Query \ {r} : pc'[s] = pc[s]
      BY <1>1, <2>3 DEF LookupTooDeep, LookupHit, LookupMiss, DeleteExpired, Store,
                        Unwind, Reply, Goto
    <3> QED BY <1>1, <3>1 DEF InOrder
  <2> QED BY <1>2, <2>1, <2>2, <2>3 DEF Resolve
<1>3. ASSUME NEW r \in Query, NEW n \in Name, Ask(r, n) PROVE InOrder(q)'
  BY <1>1, <1>3 DEF Ask, InOrder
<1>4. ASSUME \/ Tick \/ UNCHANGED vars \/ \E n \in Name : Evict(n)
             \/ \E n \in Name, v \in Name \cup Address \cup {NxDomain, NoData} : Publish(n, v)
      PROVE  InOrder(q)'
  <2>1. UNCHANGED <<pc, server, tried>>
    BY <1>4 DEF Tick, Evict, Publish, vars, query
  <2> QED BY <1>1, <2>1 DEF InOrder
<1> QED BY <1>2, <1>3, <1>4 DEF Next

\* Every lookup has tried exactly the servers before the one it is about to ask.
THEOREM OrderInvariant == Spec => []OrderInv
<1>1. Init => \A q \in Query : InOrder(q)
  BY BeginInOrder DEF Init, InOrder
<1>2. Init => OrderInv
  BY <1>1, InitResolverInv DEF OrderInv
<1>3. OrderInv /\ ResolverInv' /\ [Next]_vars => OrderInv'
  <2> SUFFICES ASSUME OrderInv, ResolverInv', [Next]_vars PROVE OrderInv'
    OBVIOUS
  <2>1. \A q \in Query : InOrder(q)'
    BY StepInOrder
  <2> QED BY <2>1 DEF OrderInv
<1> QED BY <1>2, <1>3, ResolverInvariant, PTL DEF Spec
\* The configured servers, sorted: the theorem on sortServers, for them.
LEMMA ConfiguredSorted ==
  /\ Servers \in Nat /\ Configured \in ServerList(Servers)
  /\ \E f : Rearranged(Servers, Sorted, Configured, f, 1)
  /\ \A a \in 1 .. Servers : \A b \in a .. Servers :
       Priority(Sorted[a]) <= Priority(Sorted[b])
<1>1. Servers \in Nat /\ Configured \in ServerList(Servers)
  BY ResolverAssumption, LenProperties DEF Servers, ServerList
<1> QED BY <1>1, ServersSorted DEF Sorted

\* When the server at place s is asked, the ones tried before are all those with a
\* better protocol, and perhaps some with its own.
LEMMA BetterBefore ==
  ASSUME NEW s \in 1 .. Servers, NEW p, p = Priority(Sorted[s])
  PROVE  Better(s - 1, Sorted, p) = Better(Servers, Sorted, p)
<1>1. ASSUME NEW i \in 1 .. Servers, Priority(Sorted[i]) < p PROVE i \in 1 .. s - 1
  <2>1. SUFFICES ASSUME s <= i PROVE FALSE
    BY ConfiguredSorted
  <2>2. i \in s .. Servers
    BY <2>1, ConfiguredSorted
  <2>3. p <= Priority(Sorted[i])
    BY <2>2, ConfiguredSorted
  <2>4. p \in 0 .. 99 /\ Priority(Sorted[i]) \in 0 .. 99
    BY PriorityType
  <2> QED BY <1>1, <2>3, <2>4
<1>2. \A i \in 1 .. s - 1 : i \in 1 .. Servers
  BY ConfiguredSorted
<1> QED BY <1>1, <1>2 DEF Better

\* No server is asked while one with a more secure protocol has not failed in the
\* same lookup, for any configured list: what sortServers and the failover of
\* resolver are for.
THEOREM EncryptedOrder == Spec => []EncryptedFirst
<1> DEFINE Before(s, p) == Cardinality({i \in 1 .. Len(s) : Priority(s[i]) < p})
           Names(t)     == [i \in 1 .. Len(t) |-> Sorted[t[i]]]
<1>1. ASSUME OrderInv, NEW q \in Query, pc[q] = "ask", server[q] <= Servers,
             NEW p, p = Priority(Sorted[server[q]])
      PROVE  Before(Names(tried[q]), p) = Before(Configured, p)
  <2> DEFINE s == server[q]
             t == tried[q]
  <2>1. s \in 1 .. Servers /\ t \in Seq(1 .. Servers) /\ t = [k \in 1 .. s - 1 |-> k]
    BY <1>1, ConfiguredSorted DEF OrderInv, ResolverInv, Types, InOrder
  <2>2. s \in Nat /\ s >= 1 /\ p = Priority(Sorted[s])
    BY <1>1, <2>1, ConfiguredSorted
  <2> HIDE DEF s, t
  <2>3. Len(t) = s - 1
    <3>1. DOMAIN t = 1 .. s - 1 /\ DOMAIN t = 1 .. Len(t) /\ Len(t) \in Nat
      BY <2>1, LenProperties
    <3> QED BY <2>2, <3>1
  <2>4. Names(t) = [k \in 1 .. s - 1 |-> Sorted[k]]
    BY <2>1, <2>3
  <2>5. Len(Names(t)) = s - 1
    BY <2>2, <2>4
  <2>6. Before(Names(t), p) = Cardinality(Better(s - 1, Sorted, p))
    <3>1. {i \in 1 .. Len(Names(t)) : Priority(Names(t)[i]) < p} = Better(s - 1, Sorted, p)
      BY <2>4, <2>5 DEF Better
    <3> QED BY <3>1, Zenon
  <2>7. Better(s - 1, Sorted, p) = Better(Servers, Sorted, p)
    BY <2>1, <2>2, BetterBefore
  <2>8. PICK f : Rearranged(Servers, Sorted, Configured, f, 1)
    BY ConfiguredSorted
  <2>9. Cardinality(Better(Servers, Sorted, p)) = Cardinality(Better(Servers, Configured, p))
    BY <2>8, ConfiguredSorted, BetterKept
  <2>10. Before(Configured, p) = Cardinality(Better(Servers, Configured, p))
    BY Zenon DEF Better, Servers
  <2> QED BY <2>6, <2>7, <2>9, <2>10 DEF t
<1> HIDE DEF Before, Names
<1>2. OrderInv => EncryptedFirst
  BY <1>1 DEF EncryptedFirst, Before, Names
<1> QED BY <1>2, OrderInvariant, PTL

-----------------------------------------------------------------------------
(* The steps that are left.                                                *)

Below(depth) == (MaxDepth + 2 - depth) * (Servers + 3) + 2 * MaxDepth + 5

LEMMA StepsFromFacts ==
  ASSUME NEW depth, NEW next
  PROVE  /\ StepsFrom("lookup", depth, next) = Below(depth) + Servers + 2
         /\ StepsFrom("delete", depth, next) = Below(depth) + Servers + 1
         /\ StepsFrom("ask", depth, next) = Below(depth) + Servers + 1 - next
         /\ StepsFrom("store", depth, next) = 2 * depth
         /\ StepsFrom("return", depth, next) = 2 * depth - 1
         /\ StepsFrom("replied", depth, next) = 0
  BY Zenon DEF StepsFrom, Below

\* Going a level down costs what it takes to ask every server there, and there
\* is always enough left to come back.
LEMMA BelowFacts ==
  ASSUME NEW depth \in 1 .. MaxDepth + 2
  PROVE  /\ Below(depth) \in Nat /\ Below(depth) >= 2 * depth + 1
         /\ depth <= MaxDepth + 1 => Below(depth) = Below(depth + 1) + Servers + 3
<1>1. MaxDepth \in Nat /\ Servers \in Nat
  BY ResolverAssumption, ConfiguredSorted
<1> DEFINE k == MaxDepth + 2 - depth
<1>2. k \in Nat /\ Servers + 3 \in Nat
  BY <1>1
<1>3. k * (Servers + 3) \in Nat
  BY <1>2
<1>4. Below(depth) \in Nat /\ Below(depth) >= 2 * depth + 1
  BY <1>1, <1>3 DEF Below
<1>5. ASSUME depth <= MaxDepth + 1
      PROVE  Below(depth) = Below(depth + 1) + Servers + 3
  <2>1. MaxDepth + 2 - (depth + 1) = k - 1
    BY <1>1
  <2>2. (k - 1) * (Servers + 3) = k * (Servers + 3) - (Servers + 3)
    BY <1>1, <1>2
  <2> QED BY <1>1, <1>3, <2>1, <2>2 DEF Below
<1> QED BY <1>4, <1>5

\* Less than what is below is less than all.
LEMMA StepsFewer ==
  ASSUME NEW b \in Nat, NEW v \in Nat, NEW s \in 1 .. v + 1, NEW t \in Nat, t < b
  PROVE  t \in 0 .. (b + v + 1 - s) - 1
<1>1. v + 1 - s \in Nat
  OBVIOUS
<1>2. t <= b + (v + 1 - s) - 1
  BY <1>1
<1> QED BY <1>1, <1>2

\* Every step of a goroutine leaves it fewer.
LEMMA StepNearer ==
  ASSUME OrderInv, NEW q \in Query, Resolve(q)
  PROVE  StepsLeft(q)' \in 0 .. StepsLeft(q) - 1
<1> DEFINE d == Len(chain[q])
           s == server[q]
<1>1. /\ pc \in [Query -> {"idle", "replied"} \cup Busy] /\ chain \in [Query -> Seq(Name)]
      /\ server \in [Query -> 1 .. Servers + 1]
      /\ MaxDepth \in Nat /\ Servers \in Nat
      /\ pc[q] # "ask" => s = 1
  BY ResolverAssumption, ConfiguredSorted DEF OrderInv, ResolverInv, Types, InOrder
<1>2. pc[q] \in Busy
  BY DEF Resolve, LookupTooDeep, LookupHit, LookupMiss, DeleteExpired, ServerFails,
         AllFailed, AnswerNxDomain, AnswerNoData, AnswerAddress, AnswerCname, Store,
         Unwind, Reply, Goto, Busy, Local
<1>3. /\ d \in 1 .. MaxDepth + 2 /\ chain[q] \in Seq(Name)
      /\ pc[q] \in {"delete", "ask"} => d <= MaxDepth + 1
  BY <1>1, <1>2, Reached DEF OrderInv, ResolverInv, QueryInv
<1>4. s \in 1 .. Servers + 1
  BY <1>1
<1>5. /\ Below(d) \in Nat /\ Below(d) >= 2 * d + 1
      /\ d <= MaxDepth + 1 => Below(d) = Below(d + 1) + Servers + 3
  BY <1>3, BelowFacts
<1>6. CASE LookupTooDeep(q) \/ LookupHit(q)
  <2>1. pc[q] = "lookup" /\ pc'[q] = "return" /\ chain' = chain
    BY <1>1, <1>6 DEF LookupTooDeep, LookupHit, Goto
  <2>2. StepsLeft(q) = Below(d) + Servers + 2 /\ StepsLeft(q)' = 2 * d - 1
    BY <2>1, StepsFromFacts DEF StepsLeft
  <2> QED BY <1>1, <1>3, <1>5, <2>2
<1>7. CASE LookupMiss(q)
  <2>1. /\ pc[q] = "lookup" /\ pc'[q] \in {"ask", "delete"} /\ chain' = chain
        /\ server' = server /\ s = 1
    BY <1>1, <1>7 DEF LookupMiss
  <2>2. /\ StepsLeft(q) = Below(d) + Servers + 2
        /\ StepsLeft(q)' \in {Below(d) + Servers + 1, Below(d) + Servers + 1 - 1}
    BY <2>1, StepsFromFacts DEF StepsLeft
  <2> QED BY <1>1, <1>5, <2>2
<1>8. CASE DeleteExpired(q)
  <2>1. /\ pc[q] = "delete" /\ pc'[q] = "ask" /\ chain' = chain /\ server' = server
        /\ s = 1
    BY <1>1, <1>8 DEF DeleteExpired, Goto
  <2>2. /\ StepsLeft(q) = Below(d) + Servers + 1
        /\ StepsLeft(q)' = Below(d) + Servers + 1 - 1
    BY <2>1, StepsFromFacts DEF StepsLeft
  <2> QED BY <1>1, <1>5, <2>2
<1>9. CASE ServerFails(q)
  <2>1. /\ pc[q] = "ask" /\ pc'[q] = "ask" /\ chain' = chain /\ s <= Servers
        /\ server'[q] = s + 1
    BY <1>1, <1>9 DEF ServerFails
  <2>2. /\ StepsLeft(q) = Below(d) + Servers + 1 - s
        /\ StepsLeft(q)' = Below(d) + Servers + 1 - (s + 1)
    BY <2>1, StepsFromFacts DEF StepsLeft
  <2> QED BY <1>1, <1>4, <1>5, <2>1, <2>2
<1>10. CASE AllFailed(q) \/ AnswerNxDomain(q) \/ AnswerNoData(q) \/ AnswerAddress(q)
  <2>1. pc[q] = "ask" /\ pc'[q] \in {"store", "return"} /\ chain' = chain
    BY <1>1, <1>10 DEF AllFailed, AnswerNxDomain, AnswerNoData, AnswerAddress,
                       AfterNoData, Goto
  <2>2. /\ StepsLeft(q) = Below(d) + Servers + 1 - s
        /\ StepsLeft(q)' \in {2 * d, 2 * d - 1}
    BY <2>1, StepsFromFacts DEF StepsLeft
  <2>3. StepsLeft(q)' \in Nat /\ StepsLeft(q)' < Below(d)
    BY <1>3, <1>5, <2>2
  <2> QED BY <1>1, <1>4, <1>5, <2>2, <2>3, StepsFewer
<1>11. CASE AnswerCname(q)
  <2>1. pc[q] = "ask" /\ pc'[q] = "lookup" /\ d <= MaxDepth + 1
    BY <1>1, <1>3, <1>11 DEF AnswerCname, Goto
  <2>2. /\ chain'[q] = Append(chain[q], zone[Last(chain[q])])
        /\ zone[Last(chain[q])] \in Name
    BY <1>1, <1>11 DEF AnswerCname
  <2>3. Len(chain'[q]) = d + 1
    BY <1>3, <2>2, AppendProperties
  <2>4. /\ StepsLeft(q) = Below(d) + Servers + 1 - s
        /\ StepsLeft(q)' = Below(d + 1) + Servers + 2
    BY <2>1, <2>3, StepsFromFacts DEF StepsLeft
  <2>5. d + 1 \in 1 .. MaxDepth + 2
    BY <1>1, <1>3, <2>1
  <2>6. Below(d + 1) \in Nat
    BY <2>5, BelowFacts
  <2>7. StepsLeft(q)' \in Nat /\ StepsLeft(q)' < Below(d)
    <3>1. \A b, v \in Nat : b + v + 2 \in Nat /\ b + v + 2 < b + v + 3
      OBVIOUS
    <3>2. Below(d) = Below(d + 1) + Servers + 3
      BY <1>5, <2>1
    <3> QED BY <1>1, <2>4, <2>6, <3>1, <3>2
  <2> QED BY <1>1, <1>4, <1>5, <2>4, <2>7, StepsFewer
<1>12. CASE Store(q)
  <2>1. pc[q] = "store" /\ pc'[q] = "return" /\ chain' = chain
    BY <1>1, <1>12 DEF Store, Goto
  <2>2. StepsLeft(q) = 2 * d /\ StepsLeft(q)' = 2 * d - 1
    BY <2>1, StepsFromFacts DEF StepsLeft
  <2> QED BY <1>3, <2>2
<1>13. CASE Unwind(q)
  <2>1. /\ pc[q] = "return" /\ pc'[q] \in {"store", "return"} /\ d > 1
        /\ chain'[q] = Front(chain[q])
    BY <1>1, <1>13 DEF Unwind
  <2>2. Len(chain'[q]) = d - 1
    BY <1>3, <2>1, FrontFacts
  <2>3. /\ StepsLeft(q) = 2 * d - 1
        /\ StepsLeft(q)' \in {2 * (d - 1), 2 * (d - 1) - 1}
    BY <2>1, <2>2, StepsFromFacts DEF StepsLeft
  <2> QED BY <1>3, <2>1, <2>3
<1>14. CASE Reply(q)
  <2>1. pc[q] = "return" /\ pc'[q] = "replied" /\ d = 1
    BY <1>1, <1>14 DEF Reply, Goto
  <2>2. StepsLeft(q) = 2 * d - 1 /\ StepsLeft(q)' = 0
    BY <2>1, StepsFromFacts DEF StepsLeft
  <2> QED BY <2>1, <2>2
<1> QED BY <1>6, <1>7, <1>8, <1>9, <1>10, <1>11, <1>12, <1>13, <1>14 DEF Resolve

\* No goroutine takes more than (MaxDepth + 2) * (Servers + 3) + 2 * MaxDepth + 4
\* steps from a question to its reply, whatever the others and the upstream servers
\* do: the part of QuestionsAnswered that needs no fairness.
THEOREM StepsBounded == Spec => StepsRunOut
<1>1. OrderInv /\ [Next]_vars
        => [\A q \in Query : Resolve(q) => StepsLeft(q)' \in 0 .. StepsLeft(q) - 1]_vars
  BY StepNearer
<1> QED BY <1>1, OrderInvariant, PTL DEF Spec, StepsRunOut
=============================================================================
