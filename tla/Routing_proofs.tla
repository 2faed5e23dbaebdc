--------------------------- MODULE Routing_proofs ---------------------------
(***************************************************************************)
(* Proofs about Routing, for any names, addresses, clients, TTLs and       *)
(* lengths of time.                                                        *)
(***************************************************************************)
EXTENDS Routing, TLAPS

\* While its answer is sought, a rule matches the name of a client whose answer
\* must be routed.
SureMatches ==
  \A c \in sure : pc[c] \in {"lookup", "ask", "check", "add"} => asked[c] \in rules

\* A question under way has a name.
NameInHand == \A c \in Client : pc[c] # "idle" => asked[c] \in Name

RouteInv ==
  TypeOK /\ NameInHand /\ SureMatches /\ RoutedWhileUsed /\ DrainsInAnHour

-----------------------------------------------------------------------------
\* normalizeTTL stays between five minutes and an hour and shortens nothing
\* below the hour.
LEMMA Normalized ==
  ASSUME NEW t \in Nat
  PROVE  /\ normalizeTTL(t) \in Nat
         /\ 300 <= normalizeTTL(t) /\ normalizeTTL(t) <= 3600
         /\ Lesser(t, 3600) <= normalizeTTL(t)
         /\ Lesser(t, 3600) \in Nat /\ Lesser(t, 3600) <= 3600
  BY DEF normalizeTTL, Lesser

\* An entry that is stored has a lifetime within the bounds.
LEMMA Stored ==
  ASSUME NEW t \in Ttl, NEW other \in Ttl, NEW soa \in Ttl \cup {NoSoa},
         NEW u \in {Lesser(t, other), NegativeTTL(soa)}
  PROVE  /\ normalizeTTL(u) \in Nat
         /\ 300 <= normalizeTTL(u) /\ normalizeTTL(u) <= Hour
<1>1. t \in Nat /\ other \in Nat
  BY RoutingAssumption
<1>2. Lesser(t, other) \in Nat
  BY <1>1 DEF Lesser
<1>3. NegativeTTL(soa) \in Nat
  <2>1. CASE soa = NoSoa
    BY <2>1, RoutingAssumption DEF NegativeTTL
  <2>2. CASE soa \in Ttl
    BY <2>2, RoutingAssumption DEF NegativeTTL
  <2> QED BY <2>1, <2>2
<1>4. u \in Nat
  BY <1>2, <1>3
<1> QED BY <1>4, Normalized DEF Hour

\* The times of a client and of an element are numbers.
LEMMA ClientTimes ==
  ASSUME TypeOK, NEW c \in Client
  PROVE  ttl[c] \in Nat /\ use[c] \in Nat /\ use[c] <= 3600
<1>1. ttl[c] \in Ttl \cup {0}
  BY DEF TypeOK
<1>2. ttl[c] \in Nat
  <2>1. \A t \in Ttl \cup {0} : t \in Nat
    BY RoutingAssumption
  <2> QED BY <1>1, <2>1
<1>3. use[c] \in Nat /\ use[c] <= 3600
  BY DEF TypeOK, Hour
<1> QED BY <1>2, <1>3

LEMMA ElementTimes ==
  ASSUME TypeOK, NEW a \in Address
  PROVE  left[a] \in Nat /\ idle[a] \in Nat /\ idle[a] <= 3600
  BY DEF TypeOK, Hour

LEMMA ClaimType ==
  ASSUME TypeOK, NEW c \in Client
  PROVE  Claim(c) \in Nat /\ Claim(c) <= 3600
<1>1. ttl[c] \in Nat /\ use[c] \in Nat /\ use[c] <= 3600
  BY ClientTimes
<1> QED BY <1>1 DEF Claim, Lesser, Hour

LEMMA InitRouteInv == Init => RouteInv
<1> SUFFICES ASSUME Init PROVE RouteInv
  OBVIOUS
<1>1. TypeOK
  BY DEF Init, TypeOK, Phase, Hour
<1>2. NameInHand /\ SureMatches /\ RoutedWhileUsed /\ DrainsInAnHour
  BY DEF Init, NameInHand, SureMatches, RoutedWhileUsed, DrainsInAnHour, Hour
<1> QED BY <1>1, <1>2 DEF RouteInv

\* A question begins: the client has no answer.
LEMMA AskInv ==
  ASSUME RouteInv, NEW c \in Client,
         (\E n \in Name : Ask(c, n)) \/ AskBlocked(c)
  PROVE  RouteInv'
<1>1. TypeOK'
  <2>1. CASE \E n \in Name : Ask(c, n)
    BY <2>1 DEF RouteInv, TypeOK, Ask, Asks, Goto, Phase, Hour
  <2>2. CASE AskBlocked(c)
    BY <2>2 DEF RouteInv, TypeOK, AskBlocked, Ends, Goto, Phase, Hour
  <2> QED BY <2>1, <2>2
<1>2. NameInHand' /\ SureMatches' /\ DrainsInAnHour'
  BY DEF RouteInv, TypeOK, NameInHand, SureMatches, DrainsInAnHour, Ask, Asks,
     AskBlocked, Ends, Goto
<1>3. RoutedWhileUsed'
  BY DEF RouteInv, TypeOK, RoutedWhileUsed, Claim, Ask, Asks, AskBlocked, Ends, Goto
<1> QED BY <1>1, <1>2, <1>3 DEF RouteInv

\* The lookup and the upstream servers: the cache gets a bounded entry, the
\* client its answer, and the set nothing.
LEMMA ResolveInv ==
  ASSUME RouteInv, NEW c \in Client,
         \/ Hit(c) \/ Miss(c) \/ Nothing(c)
         \/ \E a \in Address, t, other \in Ttl : Positive(c, a, t, other)
         \/ \E soa \in Ttl \cup {NoSoa} : Negative(c, soa)
  PROVE  RouteInv'
<1>1. /\ pc[c] \in {"lookup", "ask"}
      /\ \E p \in {"ask", "check"} : pc' = [pc EXCEPT ![c] = p]
      /\ UNCHANGED <<rules, left, asked, use, sure, idle>>
      /\ \E a \in Address \cup {None}, t \in Ttl \cup {0} :
           answer' = [answer EXCEPT ![c] = a] /\ ttl' = [ttl EXCEPT ![c] = t]
  <2>1. CASE Hit(c)
    <3>1. cache[asked[c]] \in Entry
      BY <2>1 DEF Hit, RouteInv, TypeOK, NameInHand, Goto
    <3> QED BY <2>1, <3>1 DEF Hit, Answers, Goto, Entry
  <2>2. CASE Miss(c)
    BY <2>2 DEF Miss, Goto, RouteInv, TypeOK
  <2>3. CASE Nothing(c)
    BY <2>3 DEF Nothing, Answers, Goto
  <2>4. ASSUME NEW a \in Address, NEW t \in Ttl, NEW other \in Ttl,
               Positive(c, a, t, other)
        PROVE  <1>1!:
    BY <2>4 DEF Positive, Answers, Goto
  <2>5. ASSUME NEW soa \in Ttl \cup {NoSoa}, Negative(c, soa)
        PROVE  <1>1!:
    BY <2>5 DEF Negative, Answers, Goto
  <2> QED BY <2>1, <2>2, <2>3, <2>4, <2>5
<1>2. /\ cache' \in [Name -> Entry \cup {None}]
      /\ \A n \in Name : cache'[n] # None => cache'[n].left <= Hour
  <2>1. CASE Hit(c) \/ Miss(c) \/ Nothing(c)
    BY <2>1 DEF Hit, Miss, Nothing, RouteInv, TypeOK
  <2>2. ASSUME NEW e \in Entry, e.left <= Hour, cache' = [cache EXCEPT ![asked[c]] = e]
        PROVE  <1>2!:
    BY <2>2 DEF RouteInv, TypeOK
  <2>3. ASSUME NEW a \in Address, NEW t \in Ttl, NEW other \in Ttl,
               Positive(c, a, t, other)
        PROVE  <1>2!:
    <3> DEFINE u == normalizeTTL(Lesser(t, other))
    <3>1. u \in Nat /\ u <= Hour
      BY Stored
    <3>2. [addr |-> a, ttl |-> t, left |-> u] \in Entry
      BY <3>1 DEF Entry
    <3> QED BY <2>2, <2>3, <3>1, <3>2 DEF Positive
  <2>4. ASSUME NEW soa \in Ttl \cup {NoSoa}, Negative(c, soa)
        PROVE  <1>2!:
    <3> DEFINE u == normalizeTTL(NegativeTTL(soa))
    <3>1. u \in Nat /\ u <= Hour
      <4>1. CASE Ttl = {}
        BY <4>1, RoutingAssumption DEF NegativeTTL, normalizeTTL, Hour
      <4>2. CASE Ttl # {}
        BY <4>2, Stored
      <4> QED BY <4>1, <4>2
    <3>2. [addr |-> None, ttl |-> 0, left |-> u] \in Entry
      BY <3>1 DEF Entry
    <3> QED BY <2>2, <2>4, <3>1, <3>2 DEF Negative
  <2> QED BY <2>1, <2>3, <2>4
<1>3. TypeOK'
  BY <1>1, <1>2 DEF RouteInv, TypeOK, Phase
<1>4. NameInHand' /\ SureMatches' /\ DrainsInAnHour'
  BY <1>1 DEF RouteInv, TypeOK, NameInHand, SureMatches, DrainsInAnHour
<1>5. RoutedWhileUsed'
  <2> SUFFICES ASSUME NEW d \in sure, (answer[d] # None)'
               PROVE  (left[answer[d]] >= Claim(d))'
    BY <1>1 DEF RoutedWhileUsed
  <2>1. CASE d = c
    <3>1. Claim(d)' = 0
      BY <1>1, <2>1 DEF Claim, RouteInv, TypeOK
    <3>2. left[answer[d]]' \in Nat
      BY <1>3 DEF RouteInv, TypeOK
    <3> QED BY <3>1, <3>2
  <2>2. CASE d # c
    BY <1>1, <2>2 DEF Claim, RouteInv, RoutedWhileUsed, TypeOK
  <2> QED BY <2>1, <2>2
<1> QED BY <1>3, <1>4, <1>5 DEF RouteInv

LEMMA CheckInv ==
  ASSUME RouteInv, NEW c \in Client, Check(c)
  PROVE  RouteInv'
<1>1. TypeOK'
  BY DEF RouteInv, TypeOK, Check, Goto, Phase
<1>2. NameInHand' /\ SureMatches' /\ DrainsInAnHour'
  BY DEF RouteInv, TypeOK, NameInHand, SureMatches, DrainsInAnHour, Check, Goto
<1>3. RoutedWhileUsed'
  <2> SUFFICES ASSUME NEW d \in sure, answer[d] # None
               PROVE  left[answer[d]] >= Claim(d)'
    BY DEF RoutedWhileUsed, Check
  <2>1. CASE d = c
    <3>1. pc'[d] = "add"
      BY <2>1 DEF Check, Goto, InList, RouteInv, SureMatches, TypeOK
    <3>2. Claim(d)' = 0
      BY <3>1 DEF Claim
    <3> QED BY <3>2 DEF RouteInv, TypeOK
  <2>2. CASE d # c
    BY <2>2 DEF Claim, RouteInv, RoutedWhileUsed, TypeOK, Check, Goto
  <2> QED BY <2>1, <2>2
<1> QED BY <1>1, <1>2, <1>3 DEF RouteInv

\* The set gets the address: for at least as long as the client may use it.
LEMMA AddInv ==
  ASSUME RouteInv, NEW c \in Client, Add(c)
  PROVE  RouteInv'
<1> DEFINE a == answer[c]
           t == normalizeTTL(ttl[c])
<1>1. /\ a \in Address
      /\ ttl[c] \in Nat
      /\ t \in Nat /\ t <= 3600 /\ Lesser(ttl[c], 3600) <= t
      /\ Lesser(ttl[c], 3600) \in Nat
  <2>1. ttl[c] \in Nat
    BY ClientTimes DEF RouteInv
  <2>2. answer[c] \in Address
    BY RoutingAssumption DEF Add
  <2> QED BY <2>1, <2>2, Normalized
<1>2. /\ pc[c] = "add" /\ pc' = [pc EXCEPT ![c] = "write"]
      /\ asked[c] \in rules
      /\ left' = [left EXCEPT ![a] = t]
      /\ sure' = {d \in sure : answer[d] = a => Claim(d) <= t}
      /\ idle' = [idle EXCEPT ![a] = 0]
      /\ UNCHANGED <<rules, cache, asked, answer, ttl, use>>
  BY DEF Add, Goto, InList
<1> HIDE DEF a, t
<1>3. TypeOK'
  BY <1>1, <1>2 DEF RouteInv, TypeOK, Phase, Hour
<1>4. NameInHand' /\ SureMatches'
  BY <1>2 DEF RouteInv, TypeOK, NameInHand, SureMatches
<1>5. DrainsInAnHour'
  BY <1>1, <1>2 DEF RouteInv, TypeOK, DrainsInAnHour, Hour
<1>6. RoutedWhileUsed'
  <2> SUFFICES ASSUME NEW d \in sure', answer[d] # None
               PROVE  left'[answer[d]] >= Claim(d)'
    BY <1>2 DEF RoutedWhileUsed
  <2>1. d \in sure /\ d \in Client
    BY <1>2 DEF RouteInv, TypeOK
  <2>2. answer[d] \in Address
    BY <2>1 DEF RouteInv, TypeOK
  <2>3. CASE d = c
    <3>1. Claim(d)' = Lesser(ttl[c], Hour)
      BY <1>2, <2>3 DEF Claim, RouteInv, TypeOK
    <3>2. left'[answer[d]] = t
      BY <1>1, <1>2, <2>3 DEF RouteInv, TypeOK, a
    <3> QED BY <1>1, <3>1, <3>2 DEF Hour
  <2>4. CASE d # c
    <3>1. Claim(d)' = Claim(d)
      BY <1>2, <2>1, <2>4 DEF Claim, RouteInv, TypeOK
    <3>2. CASE answer[d] = a
      <4>1. left'[answer[d]] = t /\ Claim(d) <= t
        BY <1>1, <1>2, <3>2 DEF RouteInv, TypeOK
      <4>2. Claim(d) \in Nat
        BY <2>1, ClaimType DEF RouteInv
      <4> QED BY <1>1, <3>1, <4>1, <4>2 DEF Hour
    <3>3. CASE answer[d] # a
      <4>1. left'[answer[d]] = left[answer[d]]
        BY <1>2, <2>2, <3>3 DEF RouteInv, TypeOK
      <4> QED BY <2>1, <3>1, <4>1 DEF RouteInv, RoutedWhileUsed
    <3> QED BY <3>2, <3>3
  <2> QED BY <2>3, <2>4
<1> QED BY <1>3, <1>4, <1>5, <1>6 DEF RouteInv

LEMMA ReplyInv ==
  ASSUME RouteInv, NEW c \in Client, AddNothing(c) \/ Write(c)
  PROVE  RouteInv'
<1>1. Claim(c) \in Nat /\ Claim(c) <= Hour
  BY ClaimType DEF RouteInv, Hour
<1>2. TypeOK'
  <2>1. CASE AddNothing(c)
    BY <2>1 DEF RouteInv, TypeOK, AddNothing, Goto, Phase
  <2>2. CASE Write(c)
    BY <1>1, <2>2 DEF RouteInv, TypeOK, Write, Ends, Goto, Phase
  <2> QED BY <2>1, <2>2
<1>3. NameInHand' /\ SureMatches' /\ DrainsInAnHour'
  BY DEF RouteInv, TypeOK, NameInHand, SureMatches, DrainsInAnHour, AddNothing,
     Write, Ends, Goto
<1>4. RoutedWhileUsed'
  <2>1. CASE AddNothing(c)
    BY <2>1 DEF Claim, RouteInv, TypeOK, RoutedWhileUsed, AddNothing, Goto
  <2>2. CASE Write(c)
    <3>1. Claim(c)' = Claim(c)
      <4>1. pc'[c] = "idle" /\ use'[c] = Claim(c)
        BY <2>2 DEF Write, Goto, RouteInv, TypeOK
      <4> QED BY <4>1 DEF Claim
    <3>2. \A d \in Client \ {c} : Claim(d)' = Claim(d)
      BY <2>2 DEF Claim, RouteInv, TypeOK, Write, Ends, Goto
    <3>3. \A d \in sure' : d \in sure /\ (answer'[d] # None => answer'[d] = answer[d])
      BY <2>2 DEF Write, Ends, RouteInv, TypeOK
    <3> QED BY <2>2, <3>1, <3>2, <3>3 DEF RouteInv, TypeOK, RoutedWhileUsed, Write
  <2> QED BY <2>1, <2>2
<1> QED BY <1>2, <1>3, <1>4 DEF RouteInv

\* Rules and evictions.
LEMMA AroundInv ==
  ASSUME RouteInv, NEW n \in Name,
         AddRule(n) \/ DropRule(n) \/ Evict(n)
  PROVE  RouteInv'
<1>1. CASE AddRule(n)
  BY <1>1 DEF RouteInv, TypeOK, NameInHand, SureMatches, RoutedWhileUsed, Claim,
     DrainsInAnHour, AddRule, question
<1>2. CASE DropRule(n)
  BY <1>2 DEF RouteInv, TypeOK, NameInHand, SureMatches, RoutedWhileUsed, Claim,
     DrainsInAnHour, DropRule, question
<1>3. CASE Evict(n)
  BY <1>3 DEF RouteInv, TypeOK, NameInHand, SureMatches, RoutedWhileUsed, Claim,
     DrainsInAnHour, Evict, question
<1> QED BY <1>1, <1>2, <1>3

\* A restart ends the questions under way.
LEMMA RestartInv ==
  ASSUME RouteInv, Restart
  PROVE  RouteInv'
<1>1. TypeOK'
  BY DEF RouteInv, TypeOK, Restart, Ends, Phase
<1>2. NameInHand' /\ SureMatches' /\ DrainsInAnHour'
  BY DEF RouteInv, TypeOK, NameInHand, SureMatches, DrainsInAnHour, Restart, Ends
<1>3. RoutedWhileUsed'
  BY DEF RouteInv, TypeOK, RoutedWhileUsed, Claim, Restart, Ends
<1> QED BY <1>1, <1>2, <1>3 DEF RouteInv

\* Time passes alike for the set and for the clients.
LEMMA ElapseInv ==
  ASSUME RouteInv, NEW d \in Pause, Elapse(d)
  PROVE  RouteInv'
<1>1. d \in Nat \ {0}
  BY RoutingAssumption
<1>2. ASSUME NEW a \in Address
      PROVE  /\ left'[a] = After(left[a], d) /\ left'[a] \in Nat
             /\ idle'[a] = Lesser(idle[a] + d, 3600)
             /\ idle'[a] \in Nat /\ idle'[a] <= 3600
  <2>1. left[a] \in Nat /\ idle[a] \in Nat
    BY ElementTimes DEF RouteInv
  <2>2. left'[a] = After(left[a], d) /\ idle'[a] = Lesser(idle[a] + d, 3600)
    BY DEF Elapse, Hour
  <2> QED BY <1>1, <2>1, <2>2 DEF After, Lesser
<1>3. ASSUME NEW c \in Client
      PROVE  /\ use'[c] = After(use[c], d)
             /\ use'[c] \in Nat /\ use'[c] <= 3600
  <2>1. use[c] \in Nat /\ use[c] <= 3600
    BY ClientTimes DEF RouteInv
  <2>2. use'[c] = After(use[c], d)
    BY DEF Elapse
  <2> QED BY <1>1, <2>1, <2>2 DEF After
<1>4. /\ left' \in [Address -> Nat] /\ idle' \in [Address -> Nat]
      /\ use' \in [Client -> Nat]
  BY <1>2, <1>3 DEF Elapse
<1>5. /\ cache' \in [Name -> Entry \cup {None}]
      /\ \A n \in Name : cache'[n] # None => cache'[n].left <= Hour
  <2>1. ASSUME NEW n \in Name, cache[n] # None, ~(cache[n].left < d)
        PROVE  /\ [cache[n] EXCEPT !.left = @ - d] \in Entry
               /\ [cache[n] EXCEPT !.left = @ - d].left <= Hour
    <3>1. cache[n] \in Entry /\ cache[n].left <= 3600
      BY <2>1 DEF RouteInv, TypeOK, Hour
    <3>2. cache[n].left \in Nat
      BY <3>1 DEF Entry
    <3>3. cache[n].left - d \in Nat /\ cache[n].left - d <= 3600
      BY <1>1, <2>1, <3>1, <3>2
    <3> QED BY <3>1, <3>3 DEF Entry, Hour
  <2> QED BY <2>1 DEF Elapse
<1>6. TypeOK'
  BY <1>2, <1>3, <1>4, <1>5 DEF RouteInv, TypeOK, Elapse, Ends, Hour
<1>7. NameInHand' /\ SureMatches'
  BY DEF RouteInv, TypeOK, NameInHand, SureMatches, Elapse, Ends
<1>8. DrainsInAnHour'
  <2> SUFFICES ASSUME NEW a \in Address PROVE left'[a] + idle'[a] <= 3600
    BY DEF DrainsInAnHour, Hour
  <2>1. /\ left[a] \in Nat /\ idle[a] \in Nat /\ idle[a] <= 3600
        /\ left[a] + idle[a] <= 3600
    BY ElementTimes DEF RouteInv, DrainsInAnHour, Hour
  <2> QED BY <1>1, <1>2, <2>1 DEF After, Lesser
<1>9. RoutedWhileUsed'
  <2> SUFFICES ASSUME NEW c \in sure', answer'[c] # None
               PROVE  left'[answer'[c]] >= Claim(c)'
    BY DEF RoutedWhileUsed
  <2>1. /\ c \in sure /\ c \in Client /\ answer'[c] = answer[c]
        /\ pc'[c] = pc[c] /\ pc[c] \in {"idle", "ask"}
    BY DEF RouteInv, TypeOK, Elapse, Ends
  <2>2. answer[c] \in Address /\ left[answer[c]] >= Claim(c)
    BY <2>1 DEF RouteInv, TypeOK, RoutedWhileUsed
  <2>3. CASE pc[c] = "idle"
    <3>1. Claim(c) = use[c] /\ Claim(c)' = use'[c]
      BY <2>1, <2>3 DEF Claim
    <3>2. use[c] \in Nat /\ left[answer[c]] \in Nat
      BY <2>1, <2>2, ClientTimes, ElementTimes DEF RouteInv
    <3> QED BY <1>1, <1>2, <1>3, <2>1, <2>2, <3>1, <3>2 DEF After
  <2>4. CASE pc[c] = "ask"
    <3>1. Claim(c)' = 0
      BY <2>1, <2>4 DEF Claim
    <3> QED BY <1>2, <2>1, <2>2, <3>1
  <2> QED BY <2>1, <2>3, <2>4
<1> QED BY <1>6, <1>7, <1>8, <1>9 DEF RouteInv

-----------------------------------------------------------------------------
\* The inductive invariant of Routing.
THEOREM RouteInvariant == Spec => []RouteInv
<1>1. RouteInv /\ [Next]_vars => RouteInv'
  <2> SUFFICES ASSUME RouteInv, [Next]_vars PROVE RouteInv'
    OBVIOUS
  <2>1. CASE UNCHANGED vars
    BY <2>1 DEF vars, question, RouteInv, TypeOK, NameInHand, SureMatches,
       RoutedWhileUsed, DrainsInAnHour, Claim
  <2>2. ASSUME NEW c \in Client, Serve(c) PROVE RouteInv'
    BY <2>2, ResolveInv, CheckInv, AddInv, ReplyInv DEF Serve
  <2> QED BY <2>1, <2>2, AskInv, AroundInv, RestartInv, ElapseInv DEF Next
<1> QED BY InitRouteInv, <1>1, PTL DEF Spec

\* The variables keep their types; in particular no entry of the cache lives
\* longer than an hour.
THEOREM TypeCorrect == Spec => []TypeOK
  BY RouteInvariant, PTL DEF RouteInv

LEMMA WithinHour ==
  ASSUME NEW u \in Nat, 300 <= u, u <= Hour
  PROVE  u \in 300 .. Hour
  BY DEF Hour

\* Whatever begins in the cache or in the set does so with a lifetime between
\* five minutes and an hour.
THEOREM Bounded == Spec => LifetimesBounded
<1> DEFINE Begin(n) == cache'[n] \notin {None, cache[n]} =>
                         \/ cache[n] # None /\ cache'[n].left < cache[n].left
                         \/ cache'[n].left \in 300 .. Hour
           Added(a) == left'[a] <= left[a] \/ left'[a] \in 300 .. Hour
           Step == (\A n \in Name : Begin(n)) /\ (\A a \in Address : Added(a))
<1>1. RouteInv /\ [Next]_vars => [Step]_vars
  <2> SUFFICES ASSUME RouteInv, Next PROVE Step
    OBVIOUS
  <2>1. CASE UNCHANGED <<cache, left>>
    BY <2>1, ElementTimes DEF RouteInv
  <2>2. ASSUME NEW m \in Name \cup {None}, NEW e, e.left \in 300 .. Hour, UNCHANGED left,
               cache' = [cache EXCEPT ![m] = e]
        PROVE  Step
    <3>1. \A n \in Name : cache'[n] = cache[n] \/ cache'[n] = e
      BY <2>2 DEF RouteInv, TypeOK
    <3>2. \A a \in Address : left'[a] <= left[a]
      BY <2>2, ElementTimes DEF RouteInv
    <3> QED BY <2>2, <3>1, <3>2
  <2>3. ASSUME NEW c \in Client, NEW a \in Address, NEW t \in Ttl, NEW other \in Ttl,
               Positive(c, a, t, other)
        PROVE  Step
    <3> DEFINE u == normalizeTTL(Lesser(t, other))
               e == [addr |-> a, ttl |-> t, left |-> u]
    <3>1. u \in Nat /\ 300 <= u /\ u <= Hour
      BY Stored
    <3>2. e.left \in 300 .. Hour
      BY <3>1, WithinHour
    <3>3. UNCHANGED left /\ cache' = [cache EXCEPT ![asked[c]] = e] /\ asked[c] \in Name \cup {None}
      BY <2>3 DEF Positive, Answers, RouteInv, TypeOK
    <3> HIDE DEF e
    <3> QED BY <2>2, <3>2, <3>3
  <2>4. ASSUME NEW c \in Client, NEW soa \in Ttl \cup {NoSoa}, Negative(c, soa)
        PROVE  Step
    <3> DEFINE u == normalizeTTL(NegativeTTL(soa))
               e == [addr |-> None, ttl |-> 0, left |-> u]
    <3>1. u \in Nat /\ 300 <= u /\ u <= Hour
      <4>1. CASE Ttl = {}
        BY <4>1, RoutingAssumption DEF NegativeTTL, normalizeTTL, Hour
      <4>2. CASE Ttl # {}
        BY <4>2, Stored
      <4> QED BY <4>1, <4>2
    <3>2. e.left \in 300 .. Hour
      BY <3>1, WithinHour
    <3>3. UNCHANGED left /\ cache' = [cache EXCEPT ![asked[c]] = e] /\ asked[c] \in Name \cup {None}
      BY <2>4 DEF Negative, Answers, RouteInv, TypeOK
    <3> HIDE DEF e
    <3> QED BY <2>2, <3>2, <3>3
  <2>5. ASSUME NEW c \in Client, Add(c)
        PROVE  Step
    <3>1. ttl[c] \in Nat
      BY ClientTimes DEF RouteInv
    <3>2. normalizeTTL(ttl[c]) \in 300 .. Hour
      <4>1. /\ normalizeTTL(ttl[c]) \in Nat
            /\ 300 <= normalizeTTL(ttl[c]) /\ normalizeTTL(ttl[c]) <= 3600
        BY <3>1, Normalized
      <4>2. normalizeTTL(ttl[c]) <= Hour
        BY <4>1 DEF Hour
      <4> QED BY <4>1, <4>2, WithinHour
    <3>3. \A a \in Address : left'[a] = left[a] \/ left'[a] = normalizeTTL(ttl[c])
      BY <2>5 DEF Add, RouteInv, TypeOK
    <3>4. \A a \in Address : Added(a)
      BY <3>2, <3>3, ElementTimes DEF RouteInv
    <3> QED BY <2>5, <3>4 DEF Add
  <2>6. ASSUME NEW n \in Name, Evict(n)
        PROVE  Step
    <3>1. \A m \in Name : cache'[m] \in {None, cache[m]}
      BY <2>6 DEF Evict, RouteInv, TypeOK
    <3>2. \A a \in Address : left'[a] <= left[a]
      BY <2>6, ElementTimes DEF Evict, RouteInv
    <3> QED BY <3>1, <3>2
  <2>7. CASE Restart
    <3>1. \A m \in Name : cache'[m] = None
      BY <2>7 DEF Restart
    <3>2. \A a \in Address : left'[a] <= left[a]
      BY <2>7, ElementTimes DEF Restart, RouteInv
    <3> QED BY <3>1, <3>2
  <2>8. ASSUME NEW d \in Pause, Elapse(d)
        PROVE  Step
    <3>1. d \in Nat \ {0}
      BY RoutingAssumption
    <3>2. ASSUME NEW n \in Name, cache'[n] # None
          PROVE  cache[n] # None /\ cache'[n].left < cache[n].left
      <4>1. cache[n] # None /\ cache'[n] = [cache[n] EXCEPT !.left = @ - d]
        BY <2>8, <3>2 DEF Elapse
      <4>2. cache[n] \in Entry
        BY <4>1 DEF RouteInv, TypeOK
      <4>3. cache'[n].left = cache[n].left - d /\ cache[n].left \in Nat
        BY <4>1, <4>2 DEF Entry
      <4> QED BY <3>1, <4>1, <4>3
    <3>3. ASSUME NEW a \in Address PROVE left'[a] <= left[a]
      <4>1. left[a] \in Nat /\ left'[a] = After(left[a], d)
        BY <2>8, ElementTimes DEF Elapse, RouteInv
      <4> QED BY <3>1, <4>1 DEF After
    <3> QED BY <3>2, <3>3
  <2>9. Next => \/ UNCHANGED <<cache, left>> \/ Restart
                \/ \E c \in Client : Add(c)
                \/ \E c \in Client, a \in Address, t, other \in Ttl : Positive(c, a, t, other)
                \/ \E c \in Client, soa \in Ttl \cup {NoSoa} : Negative(c, soa)
                \/ \E n \in Name : Evict(n)
                \/ \E d \in Pause : Elapse(d)
    BY DEF Next, Serve, Ask, Asks, AskBlocked, Hit, Miss, Nothing, Answers, Check,
       AddNothing, Write, AddRule, DropRule
  <2> QED BY <2>1, <2>3, <2>4, <2>5, <2>6, <2>7, <2>8, <2>9
<1> QED BY <1>1, RouteInvariant, PTL DEF Spec, LifetimesBounded

\* A client finds its address in the set during the first hour of its use, which
\* is all of it if the TTL is no longer, unless a later answer with a shorter TTL
\* has overwritten the timeout of the element (see RoutedWhileUsed and Add).
THEOREM Used == Spec => []RoutedWhileUsed
  BY RouteInvariant, PTL DEF RouteInv

\* The addresses of a removed rule leave the set within an hour.
THEOREM Drained == Spec => []DrainsInAnHour
  BY RouteInvariant, PTL DEF RouteInv
=============================================================================
