-------------------------- MODULE RuleAdmin_proofs --------------------------
(***************************************************************************)
(* Proofs about RuleAdmin, for any rules, lists and clients.               *)
(***************************************************************************)
EXTENDS RuleAdmin, SequenceTheorems, TLAPS

\* A request that is not idle has a job, with a line when it is inside one.
InHand ==
  \A c \in Client :
    /\ pc[c] # "idle" => job[c] \in Job
    /\ pc[c] \in Inside => job[c].line \in Lines(job[c].kind)
    /\ pc[c] \in {"cache", "cfg"} => job[c].at = Root
    /\ pc[c] \in {"has", "put", "drop"} => job[c].at \in List
    /\ pc[c] \in {"has", "put"} => job[c].op = "add"
    /\ pc[c] = "drop" => job[c].op = "remove"

TypeInv == TypeOK /\ InHand

-----------------------------------------------------------------------------
(* Types.                                                                  *)

\* Lines are keys, and so is what is stored for them.
LEMMA KeyTypes ==
  /\ \A kind \in Kind : Lines(kind) \subseteq Line
  /\ Line \subseteq Key
  /\ \A kind \in Kind : \A k \in Line : Stored(kind, k) \in Key
  BY DEF Kind, Lines, Line, Key, Stored

LEMMA KeysType ==
  ASSUME NEW j \in Job, j.line \in Line
  PROVE  Subject(j) \in Key /\ Subject(j) \in Keys(j) /\ Keys(j) \subseteq Key
  BY KeyTypes DEF Job, Subject, Keys

LEMMA BuiltType ==
  ASSUME NEW r \in Rules
  PROVE  Built(r) \subseteq Key
  BY KeyTypes DEF Built, Rules, Kind

LEMMA EditedType ==
  ASSUME NEW r \in Rules, NEW j \in Job, j.line \in Line
  PROVE  Edited(r, j) \in Rules
  BY DEF Rules, Job, Kind, Edited, Change

\* The configuration keeps its type, whichever copy of the rules is edited.
LEMMA ConfigOpType ==
  ASSUME TypeOK, NEW j \in Job, j.line \in Line, ConfigOp(j)
  PROVE  root' \in Rules /\ lists' \in [List -> Rules]
<1>1. CASE j.at = Root \/ Legacy
  BY <1>1, EditedType DEF ConfigOp, TypeOK
<1>2. CASE ~(j.at = Root \/ Legacy)
  <2>1. j.at \in List
    BY <1>2, RuleAssumption DEF Job
  <2>2. lists' = [lists EXCEPT ![j.at] = Edited(lists[j.at], j)] /\ root' = root
    BY <1>2 DEF ConfigOp
  <2>3. Edited(lists[j.at], j) \in Rules
    BY <2>1, EditedType DEF TypeOK
  <2> QED BY <2>1, <2>2, <2>3 DEF TypeOK
<1> QED BY <1>1, <1>2

LEMMA InitType ==
  ASSUME Init
  PROVE  TypeInv
<1>1. TypeOK
  BY DEF Init, TypeOK, Rules
<1>2. InHand
  BY DEF Init, InHand, Inside
<1> QED BY <1>1, <1>2 DEF TypeInv

\* The steps of client c change nobody else's job.
Others(c) ==
  \A d \in Client \ {c} : pc'[d] = pc[d] /\ job'[d] = job[d]

LEMMA HandKept ==
  ASSUME TypeInv, NEW c \in Client, Others(c),
         /\ pc'[c] # "idle" => job'[c] \in Job
         /\ pc'[c] \in Inside => job'[c].line \in Lines(job'[c].kind)
         /\ pc'[c] \in {"cache", "cfg"} => job'[c].at = Root
         /\ pc'[c] \in {"has", "put", "drop"} => job'[c].at \in List
         /\ pc'[c] \in {"has", "put"} => job'[c].op = "add"
         /\ pc'[c] = "drop" => job'[c].op = "remove"
  PROVE  InHand'
<1>1. ASSUME NEW d \in Client
      PROVE  /\ pc'[d] # "idle" => job'[d] \in Job
             /\ pc'[d] \in Inside => job'[d].line \in Lines(job'[d].kind)
             /\ pc'[d] \in {"cache", "cfg"} => job'[d].at = Root
             /\ pc'[d] \in {"has", "put", "drop"} => job'[d].at \in List
             /\ pc'[d] \in {"has", "put"} => job'[d].op = "add"
             /\ pc'[d] = "drop" => job'[d].op = "remove"
  <2>1. CASE d = c
    BY <2>1
  <2>2. CASE d # c
    <3>1. pc'[d] = pc[d] /\ job'[d] = job[d]
      BY <2>2 DEF Others
    <3> QED BY <3>1 DEF TypeInv, InHand
  <2> QED BY <2>1, <2>2
<1> QED BY <1>1 DEF InHand, Lines

LEMMA SubmitType ==
  ASSUME TypeInv, NEW c \in Client, Submit(c)
  PROVE  TypeInv' /\ Others(c)
<1>1. PICK ep \in Endpoint, kind \in Kind, op \in Op :
        job' = [job EXCEPT ![c] = [at |-> ep, kind |-> kind, op |-> op, line |-> None]]
  BY DEF Submit
<1>2. [at |-> ep, kind |-> kind, op |-> op, line |-> None] \in Job
  BY DEF Job
<1>3. /\ TypeOK' /\ Others(c) /\ pc'[c] = "line" /\ job'[c] \in Job
  BY <1>1, <1>2 DEF Submit, TypeInv, TypeOK, Others, cfg
<1> QED BY <1>3, HandKept DEF TypeInv, Inside

\* A line is taken in hand.
LEMMA TakeType ==
  ASSUME TypeInv, NEW c \in Client, NEW k \in Line, Take(c, k)
  PROVE  /\ job' \in [Client -> {None} \cup Job] /\ job'[c] \in Job
         /\ job'[c].line = k /\ k \in Lines(job'[c].kind)
         /\ job'[c].at = job[c].at /\ job'[c].op = job[c].op
         /\ job'[c].kind = job[c].kind /\ pc[c] = "line" /\ job[c] \in Job
         /\ \A d \in Client \ {c} : job'[d] = job[d]
         /\ apart' \subseteq Endpoint \X Key
<1>1. pc[c] = "line" /\ job[c] \in Job /\ k \in Lines(job[c].kind)
  BY DEF Take, Turn, TypeInv, InHand
<1>2. [job[c] EXCEPT !.line = k] \in Job
  BY <1>1 DEF Job
<1>3. apart' \subseteq Endpoint \X Key
  <2>1. PICK j : j = [job[c] EXCEPT !.line = k]
    OBVIOUS
  <2>2. j.at \in Endpoint /\ Keys(j) \subseteq Key
    BY <1>2, <2>1, KeysType DEF Job
  <2>3. apart' \subseteq apart \cup ({j.at} \X Keys(j))
    BY <2>1 DEF Take
  <2> QED BY <2>2, <2>3 DEF TypeInv, TypeOK
<1> QED BY <1>1, <1>2, <1>3 DEF Take, TypeInv, TypeOK, Job

\* A line is done.
LEMMA DoneType ==
  ASSUME TypeInv, NEW c \in Client, pc[c] \in Inside, Done(c)
  PROVE  /\ pc' \in [Client -> {"idle", "line"} \cup Inside]
         /\ job' \in [Client -> {None} \cup Job] /\ job'[c] \in Job
         /\ pc'[c] = "line" /\ Others(c) /\ InHand' /\ apart' = apart
<1>1. job[c] \in Job
  BY DEF TypeInv, InHand, Inside
<1>2. [job[c] EXCEPT !.line = None] \in Job
  BY <1>1 DEF Job
<1>3. /\ pc' \in [Client -> {"idle", "line"} \cup Inside]
      /\ job' \in [Client -> {None} \cup Job] /\ job'[c] \in Job
      /\ pc'[c] = "line" /\ Others(c)
  BY <1>2 DEF Done, TypeInv, TypeOK, Others
<1>4. apart' = apart
  BY DEF Done
<1> QED BY <1>3, <1>4, HandKept DEF Inside

LEMMA CheckType ==
  ASSUME TypeInv, NEW c \in Client, NEW k \in Line, Check(c, k)
  PROVE  TypeInv' /\ Others(c)
<1>1. /\ pc' = [pc EXCEPT ![c] = "cache"] /\ job[c].at = Root /\ Take(c, k)
      /\ UNCHANGED <<root, lists, disk, global, caches>>
  BY DEF Check, cfg
<1>2. TypeOK' /\ Others(c) /\ pc'[c] = "cache" /\ InHand'
  <2>1. TypeOK' /\ Others(c) /\ pc'[c] = "cache"
    BY <1>1, TakeType DEF TypeInv, TypeOK, Others, Inside
  <2> QED BY <1>1, <2>1, TakeType, HandKept
<1> QED BY <1>2 DEF TypeInv

LEMMA RootCacheType ==
  ASSUME TypeInv, NEW c \in Client, RootCache(c)
  PROVE  TypeInv' /\ Others(c)
<1>1. /\ pc[c] = "cache" /\ pc' = [pc EXCEPT ![c] = "cfg"]
      /\ UNCHANGED <<root, lists, disk, caches, job, apart>>
  BY DEF RootCache, cfg
<1>2. /\ job[c] \in Job /\ job[c].line \in Lines(job[c].kind) /\ job[c].at = Root
  BY <1>1 DEF TypeInv, InHand, Inside
<1>3. job[c].kind \in Kind /\ job[c].line \in Line
  BY <1>2, KeyTypes DEF Job
<1>4. Stored(job[c].kind, job[c].line) \in Key
  BY <1>3, KeyTypes
<1>5. global' \in SUBSET Key
  BY <1>4 DEF RootCache, TypeInv, TypeOK
<1>6. TypeOK' /\ Others(c) /\ pc'[c] = "cfg" /\ job'[c] = job[c]
  BY <1>1, <1>5 DEF TypeInv, TypeOK, Others, Inside
<1> QED BY <1>2, <1>6, HandKept DEF TypeInv

LEMMA RootConfigType ==
  ASSUME TypeInv, NEW c \in Client, RootConfig(c)
  PROVE  TypeInv' /\ Others(c)
<1>1. job[c] \in Job /\ job[c].line \in Line
  BY KeyTypes DEF RootConfig, TypeInv, InHand, Inside, Job
<1>2. root' \in Rules /\ lists' \in [List -> Rules]
  BY <1>1, ConfigOpType DEF RootConfig, TypeInv
<1> QED BY <1>2, DoneType DEF RootConfig, TypeInv, TypeOK, Inside

LEMMA ListConfigType ==
  ASSUME TypeInv, NEW c \in Client, NEW k \in Line, ListConfig(c, k)
  PROVE  TypeInv' /\ Others(c)
<1>1. /\ Take(c, k) /\ job[c].at \in List /\ ConfigOp(job'[c])
      /\ pc' = [pc EXCEPT ![c] = IF job[c].op = "add" THEN "has" ELSE "drop"]
      /\ UNCHANGED <<disk, global, caches>>
  BY DEF ListConfig
<1>2. root' \in Rules /\ lists' \in [List -> Rules]
  BY <1>1, TakeType, ConfigOpType DEF TypeInv
<1>3. /\ TypeOK' /\ Others(c)
      /\ pc'[c] = IF job[c].op = "add" THEN "has" ELSE "drop"
  BY <1>1, <1>2, TakeType DEF TypeInv, TypeOK, Others, Inside
<1>4. job[c].op \in {"add", "remove"}
  BY <1>1, TakeType DEF Job, Op
<1> QED BY <1>1, <1>3, <1>4, TakeType, HandKept DEF TypeInv

LEMMA ListHasType ==
  ASSUME TypeInv, NEW c \in Client, ListHas(c)
  PROVE  TypeInv' /\ Others(c)
<1>1. pc[c] = "has" /\ UNCHANGED <<root, lists, disk, global, caches>>
  BY DEF ListHas, cfg
<1>2. CASE Done(c)
  BY <1>1, <1>2, DoneType DEF TypeInv, TypeOK, Inside
<1>3. CASE pc' = [pc EXCEPT ![c] = "put"] /\ UNCHANGED <<job, apart>>
  <2>1. TypeOK' /\ Others(c) /\ pc'[c] = "put" /\ job'[c] = job[c]
    BY <1>1, <1>3 DEF TypeInv, TypeOK, Others, Inside
  <2>2. /\ job[c] \in Job /\ job[c].line \in Lines(job[c].kind)
        /\ job[c].at \in List /\ job[c].op = "add"
    BY <1>1 DEF TypeInv, InHand, Inside
  <2> QED BY <2>1, <2>2, HandKept DEF TypeInv
<1> QED BY <1>2, <1>3 DEF ListHas

LEMMA ListPutType ==
  ASSUME TypeInv, NEW c \in Client, ListPut(c)
  PROVE  TypeInv' /\ Others(c)
<1>1. /\ job[c] \in Job /\ job[c].line \in Lines(job[c].kind) /\ job[c].at \in List
  BY DEF ListPut, TypeInv, InHand, Inside
<1>2. Stored(job[c].kind, job[c].line) \in Key
  BY <1>1, KeyTypes DEF Job
<1>3. caches' \in [List -> SUBSET Key]
  BY <1>1, <1>2 DEF ListPut, TypeInv, TypeOK
<1> QED BY <1>3, DoneType DEF ListPut, TypeInv, TypeOK, Inside, cfg

LEMMA ListDropType ==
  ASSUME TypeInv, NEW c \in Client, ListDrop(c)
  PROVE  TypeInv' /\ Others(c)
<1>1. caches' \in [List -> SUBSET Key]
  BY DEF ListDrop, TypeInv, TypeOK
<1> QED BY <1>1, DoneType DEF ListDrop, TypeInv, TypeOK, Inside, cfg

LEMMA SaveType ==
  ASSUME TypeInv, NEW c \in Client, Save(c)
  PROVE  TypeInv' /\ Others(c)
<1>1. TypeOK' /\ Others(c) /\ pc'[c] = "idle"
  BY DEF Save, TypeInv, TypeOK, Others, cfg
<1> QED BY <1>1, HandKept DEF TypeInv, Inside

LEMMA RestartType ==
  ASSUME TypeInv, Restart
  PROVE  TypeInv'
<1>1. disk.root \in Rules /\ disk.lists \in [List -> Rules]
  BY DEF TypeInv, TypeOK
<1>2. global' \in SUBSET Key
  BY <1>1, BuiltType DEF Restart, Load
<1>3. caches' \in [List -> SUBSET Key]
  BY <1>1, BuiltType DEF Restart, Load
<1>4. TypeOK'
  BY <1>1, <1>2, <1>3 DEF Restart, Load, TypeInv, TypeOK
<1>5. InHand'
  BY DEF Restart, InHand, Inside
<1> QED BY <1>4, <1>5 DEF TypeInv

\* Every step keeps the types, and a step of a client leaves the other jobs.
LEMMA NextType ==
  ASSUME TypeInv, [Next]_vars
  PROVE  TypeInv'
<1>1. CASE \E c \in Client :
             \/ Submit(c) \/ RootCache(c) \/ RootConfig(c)
             \/ ListHas(c) \/ ListPut(c) \/ ListDrop(c) \/ Save(c)
  BY <1>1, SubmitType, RootCacheType, RootConfigType, ListHasType, ListPutType,
     ListDropType, SaveType
<1>2. CASE \E c \in Client, k \in Line : Check(c, k) \/ ListConfig(c, k)
  BY <1>2, CheckType, ListConfigType
<1>3. CASE UNCHANGED vars \/ \E c \in Client, k \in Line : Exists(c, k) \/ NotFound(c, k)
  BY <1>3 DEF Exists, NotFound, vars, cfg, TypeInv, TypeOK, InHand, Lines
<1>4. CASE Restart
  BY <1>4, RestartType
<1> QED BY <1>1, <1>2, <1>3, <1>4 DEF Next

\* Every variable has its type, in either mode and whatever the requests.
THEOREM TypeCorrect == Spec => []TypeOK
<1>1. Init => TypeInv
  BY InitType
<1>2. TypeInv /\ [Next]_vars => TypeInv'
  BY NextType
<1>3. TypeInv => TypeOK
  BY DEF TypeInv
<1> QED BY <1>1, <1>2, <1>3, PTL DEF Spec

-----------------------------------------------------------------------------
(***************************************************************************)
(* The copies agree on every settled key, whatever lines are sent.         *)
(***************************************************************************)

\* In the legacy configuration the root rules are also those of the only list,
\* but the endpoints of either change a cache of their own.  Only one kind of
\* endpoint must then be used.
ListsOnly == Legacy => Endpoint \subseteq List
RootOnly  == Legacy => Endpoint \subseteq {Root}

\* Of keys with a dot only those with at most two labels are ever looked for.
Sought(x) == x.dot => LastTwo(x.name) = x.name

\* The requests in the middle of a key that is not apart add a rule for it, or
\* remove one and the same, by the key that is stored.
OneWay ==
  \A ep \in {Root} \cup List, x \in Key, c, d \in Client :
    <<ep, x>> \notin apart /\ Working(c, ep, x) /\ Working(d, ep, x)
    => /\ job[c].op = job[d].op /\ ~Respelt(job[c])
       /\ job[c].op = "remove" =>
            job[c].kind = job[d].kind /\ job[c].line = job[d].line

\* A settled key is in both copies or in neither.
RootAgrees ==
  RootOnly => \A x \in Key :
    Settled(Root, x) => (x \in Built(root) <=> x \in global)

ListAgrees ==
  ListsOnly => \A i \in List, x \in Key :
    Sought(x) /\ Settled(i, x) => (x \in Built(RulesOf(i)) <=> x \in caches[i])

\* Half way, the copy that is changed first has already been changed: once the
\* last request has left domainCache behind, in the case of a root rule.
Past(x) == \A d \in Client : pc[d] = "cache" => x \notin Keys(job[d])

RootHalf ==
  \A c \in Client :
    pc[c] = "cfg" /\ <<Root, Subject(job[c])>> \notin apart /\ Past(Subject(job[c]))
    => (job[c].op = "add" <=> Subject(job[c]) \in global)

\* What is removed by a root endpoint is the only rule of its key.
Only(r, j) ==
  \A kind \in Kind : \A k \in r[kind] :
    Stored(kind, k) = Subject(j) => kind = j.kind /\ k = j.line

RootOnce ==
  RootOnly => \A c \in Client :
    pc[c] \in {"cache", "cfg"} /\ job[c].op = "remove"
      /\ <<Root, Subject(job[c])>> \notin apart
    => Only(root, job[c])

ListHalf ==
  ListsOnly => \A c \in Client :
    pc[c] \in {"has", "put", "drop"} /\ <<job[c].at, Subject(job[c])>> \notin apart
    => (job[c].op = "add" <=> Subject(job[c]) \in Built(RulesOf(job[c].at)))

RuleInv ==
  /\ TypeInv /\ OneWay
  /\ RootAgrees /\ RootHalf /\ RootOnce
  /\ ListAgrees /\ ListHalf

-----------------------------------------------------------------------------
(* Keys.                                                                   *)

LEMMA InBuilt ==
  ASSUME NEW r, NEW x
  PROVE  x \in Built(r) <=> \E kind \in Kind : \E k \in r[kind] : x = Stored(kind, k)
  BY DEF Built, Kind

\* An edit concerns its own line only.
LEMMA EditedRules ==
  ASSUME NEW r \in Rules, NEW j \in Job, j.line \in Line,
         NEW kind \in Kind, NEW k
  PROVE  k \in Edited(r, j)[kind] <=>
           IF kind = j.kind /\ k = j.line THEN j.op = "add" ELSE k \in r[kind]
<1>1. j.kind \in {"domain", "suffix"} /\ j.op \in {"add", "remove"}
  BY DEF Job, Kind, Op
<1>2. CASE kind = j.kind
  <2>1. Edited(r, j)[kind] = Change(r[kind], j.op, j.line)
    BY <1>1, <1>2 DEF Edited, Rules, Kind
  <2> QED BY <1>1, <1>2, <2>1 DEF Change
<1>3. CASE kind # j.kind
  BY <1>1, <1>3 DEF Edited, Rules, Kind
<1> QED BY <1>2, <1>3

\* And its own key; a remove takes that away if the rule was the only one of it.
LEMMA EditedKeys ==
  ASSUME NEW r \in Rules, NEW j \in Job, j.line \in Line
  PROVE  /\ \A x : x # Subject(j) => (x \in Built(Edited(r, j)) <=> x \in Built(r))
         /\ j.op = "add" => Subject(j) \in Built(Edited(r, j))
         /\ j.op = "remove" /\ Only(r, j) => Subject(j) \notin Built(Edited(r, j))
<1> DEFINE e == Edited(r, j)
<1>1. j.kind \in Kind /\ j.op \in {"add", "remove"}
  BY DEF Job, Op
<1>2. \A kind \in Kind : \A k : k \in e[kind] <=>
        IF kind = j.kind /\ k = j.line THEN j.op = "add" ELSE k \in r[kind]
  BY EditedRules
<1>3. \A x : x \in Built(e) <=> \E kind \in Kind : \E k \in e[kind] : x = Stored(kind, k)
  BY InBuilt
<1>4. \A x : x \in Built(r) <=> \E kind \in Kind : \E k \in r[kind] : x = Stored(kind, k)
  BY InBuilt
<1> HIDE DEF e
<1>5. ASSUME NEW x, x # Subject(j)
      PROVE  x \in Built(e) <=> x \in Built(r)
  <2>1. \A kind \in Kind : \A k : x = Stored(kind, k) => (k \in e[kind] <=> k \in r[kind])
    BY <1>2, <1>5 DEF Subject
  <2> QED BY <1>3, <1>4, <2>1
<1>6. ASSUME j.op = "add"
      PROVE  Subject(j) \in Built(e)
  <2>1. j.line \in e[j.kind]
    BY <1>1, <1>2, <1>6
  <2> QED BY <1>1, <1>3, <2>1 DEF Subject
<1>7. ASSUME j.op = "remove", Only(r, j)
      PROVE  Subject(j) \notin Built(e)
  <2>1. ASSUME NEW kind \in Kind, NEW k \in e[kind], Subject(j) = Stored(kind, k)
        PROVE  FALSE
    <3>1. ~(kind = j.kind /\ k = j.line) /\ k \in r[kind]
      BY <1>2, <1>7, <2>1
    <3> QED BY <1>7, <2>1, <3>1 DEF Only
  <2> QED BY <1>3, <2>1
<1> QED BY <1>5, <1>6, <1>7 DEF e

\* What is looked for with a line is the key under which it is stored.
LEMMA HasKey ==
  ASSUME NEW kind \in Kind, NEW k \in Line, Sought(Stored(kind, k)), NEW cache
  PROVE  Has(cache, kind, k) <=> Stored(kind, k) \in cache
<1>1. CASE kind = "suffix"
  <2>1. Stored(kind, k) = [name |-> k.name, dot |-> TRUE]
    BY <1>1 DEF Stored, Dotted
  <2>2. LastTwo(k.name) = k.name
    BY <2>1 DEF Sought
  <2> QED BY <1>1, <2>1, <2>2 DEF Has
<1>2. CASE kind # "suffix"
  BY <1>2 DEF Has, Stored
<1> QED BY <1>1, <1>2

\* Unless it is respelt, a request changes the key of its rule and no other.
LEMMA OneKey ==
  ASSUME NEW j \in Job, ~Respelt(j)
  PROVE  Keys(j) = {Subject(j)} /\ (j.op = "remove" => j.line = Subject(j))
  BY DEF Respelt, Keys

LEMMA LastTwoLength ==
  ASSUME NEW n \in Seq(Label)
  PROVE  Len(n) \in Nat /\ Len(LastTwo(n)) = IF Len(n) >= 2 THEN 2 ELSE Len(n)
<1>1. Len(n) \in Nat
  BY LenProperties
<1>2. CASE Len(n) > 2
  <2>1. Len(n) - 1 \in Int /\ Len(n) \in Int
    BY <1>1
  <2>2. \A i \in Len(n) - 1 .. Len(n) : n[i] \in Label
    BY <1>1, <1>2, ElementOfSeq
  <2>3. Len(SubSeq(n, Len(n) - 1, Len(n))) =
          IF Len(n) - 1 <= Len(n) THEN Len(n) - (Len(n) - 1) + 1 ELSE 0
    BY <2>1, <2>2, SubSeqProperties
  <2> QED BY <1>1, <1>2, <2>3 DEF LastTwo
<1>3. CASE ~(Len(n) > 2)
  <2>1. LastTwo(n) = n
    BY <1>3 DEF LastTwo
  <2>2. Len(n) = IF Len(n) >= 2 THEN 2 ELSE Len(n)
    <3>1. ASSUME NEW m \in Nat, ~(m > 2)
          PROVE  m = IF m >= 2 THEN 2 ELSE m
      BY <3>1
    <3> QED BY <1>1, <1>3, <3>1
  <2> QED BY <1>1, <2>1, <2>2
<1> QED BY <1>2, <1>3

\* The last two labels of a name are the last two of themselves.
LEMMA LastTwoTwice ==
  ASSUME NEW n \in Seq(Label)
  PROVE  LastTwo(LastTwo(n)) = LastTwo(n)
<1> DEFINE m == LastTwo(n)
<1>1. Len(n) \in Nat /\ Len(m) = IF Len(n) >= 2 THEN 2 ELSE Len(n)
  BY LastTwoLength
<1> HIDE DEF m
<1>2. ~(Len(m) > 2)
  BY <1>1
<1>3. LastTwo(m) = m
  BY <1>2 DEF LastTwo
<1> QED BY <1>3 DEF m

\* Two sets of keys that agree on the keys of a name both match it or neither.
LEMMA SameMatches ==
  ASSUME NEW S, NEW T, NEW n,
         Own(n) \in S <=> Own(n) \in T, Parent(n) \in S <=> Parent(n) \in T
  PROVE  Matches(S, n) <=> Matches(T, n)
  BY DEF Matches, Has, Own, Parent

\* The keys of a name are sought.
LEMMA KeysSought ==
  ASSUME NEW n \in Seq(Label)
  PROVE  Sought(Own(n)) /\ Sought(Parent(n))
  BY LastTwoTwice DEF Sought, Own, Parent

-----------------------------------------------------------------------------
(* The steps.                                                              *)

LEMMA InitRule ==
  ASSUME Init
  PROVE  RuleInv
<1>1. TypeInv
  BY InitType
<1>2. OneWay /\ RootHalf /\ RootOnce /\ ListHalf
  BY DEF Init, OneWay, RootHalf, RootOnce, ListHalf, Working, Inside
<1>3. RootAgrees /\ ListAgrees
  BY DEF Init, RootAgrees, ListAgrees, Built, RulesOf
<1> QED BY <1>1, <1>2, <1>3 DEF RuleInv

\* What the requests other than that of client c have in hand they keep.
LEMMA WorkingKept ==
  ASSUME NEW c \in Client, Others(c), NEW d \in Client \ {c}
  PROVE  /\ \A ep, x : Working(d, ep, x)' <=> Working(d, ep, x)
         /\ pc'[d] = pc[d] /\ job'[d] = job[d]
  BY DEF Others, Working, Keys, Subject

\* A key that is settled after a step is settled before it, if the step does not
\* let it go and the client of the step was not in the middle of it.
LEMMA SettledBefore ==
  ASSUME NEW c \in Client, Others(c), NEW ep, NEW x, Settled(ep, x)',
         <<ep, x>> \in apart => <<ep, x>> \in apart', ~Working(c, ep, x)
  PROVE  Settled(ep, x)
<1>1. \A d \in Client \ {c} : ~Working(d, ep, x)
  BY WorkingKept DEF Settled
<1> QED BY <1>1 DEF Settled

\* What a request in the middle of a line has in hand.
LEMMA Hand ==
  ASSUME TypeInv, NEW c \in Client, pc[c] \in Inside
  PROVE  /\ job[c] \in Job /\ job[c].line \in Line /\ job[c].kind \in Kind
         /\ job[c].op \in {"add", "remove"} /\ job[c].at \in {Root} \cup List
         /\ Subject(job[c]) \in Key /\ Subject(job[c]) \in Keys(job[c])
         /\ Keys(job[c]) \subseteq Key
         /\ Working(c, job[c].at, Subject(job[c]))
<1>1. job[c] \in Job /\ job[c].line \in Lines(job[c].kind)
  BY DEF TypeInv, InHand, Inside
<1>2. job[c].kind \in Kind /\ job[c].op \in Op /\ job[c].at \in Endpoint
  BY <1>1 DEF Job
<1>3. job[c].line \in Line
  BY <1>1, <1>2, KeyTypes
<1>4. /\ Subject(job[c]) \in Key /\ Subject(job[c]) \in Keys(job[c])
      /\ Keys(job[c]) \subseteq Key
  BY <1>1, <1>3, KeysType
<1> QED BY <1>1, <1>2, <1>3, <1>4, RuleAssumption DEF Working, Op

\* A request in the middle of a key that is not apart has no other key in hand.
LEMMA Exact ==
  ASSUME RuleInv, NEW c \in Client, NEW ep \in {Root} \cup List, NEW x \in Key,
         <<ep, x>> \notin apart, Working(c, ep, x)
  PROVE  /\ job[c].at = ep /\ Subject(job[c]) = x /\ Keys(job[c]) = {x}
         /\ job[c].op = "remove" => job[c].line = x
<1>1. ~Respelt(job[c])
  BY DEF RuleInv, OneWay
<1>2. pc[c] \in Inside /\ job[c].at = ep /\ x \in Keys(job[c])
  BY DEF Working
<1>3. job[c] \in Job
  BY <1>2, Hand DEF RuleInv
<1> QED BY <1>1, <1>2, <1>3, OneKey

\* The copies as they are before and after a step.
LEMMA SameBuilt ==
  /\ \A i \in List : root' = root /\ lists' = lists => RulesOf(i)' = RulesOf(i)
  /\ root' = root => Built(root)' = Built(root)
  /\ \A i \in List : RulesOf(i)' = RulesOf(i) => Built(RulesOf(i))' = Built(RulesOf(i))
  BY DEF RulesOf, Built

\* A step outside of any line.
LEMMA CalmRule ==
  ASSUME RuleInv, TypeInv', NEW c \in Client, Others(c),
         pc[c] \notin Inside, pc'[c] \notin Inside,
         UNCHANGED <<root, lists, global, caches, apart>>
  PROVE  RuleInv'
<1>1. \A d \in Client : pc'[d] \in Inside \/ pc[d] \in Inside =>
        pc'[d] = pc[d] /\ job'[d] = job[d]
  BY DEF Others
<1>2. \A d \in Client : \A ep, x : Working(d, ep, x)' <=> Working(d, ep, x)
  BY <1>1 DEF Working, Keys, Subject
<1>3. OneWay'
  BY <1>1, <1>2 DEF RuleInv, OneWay, Working, Respelt, Subject
<1>4. \A x : Past(x)' <=> Past(x)
  BY <1>1 DEF Past, Inside, Keys, Subject
<1>5. RootHalf'
  BY <1>1, <1>4 DEF RuleInv, RootHalf, Inside, Subject
<1>6. RootOnce'
  BY <1>1 DEF RuleInv, RootOnce, Inside, Subject, Only
<1>7. ListHalf'
  BY <1>1 DEF RuleInv, ListHalf, Inside, Subject, Built, RulesOf
<1>8. \A ep, x : Settled(ep, x)' <=> Settled(ep, x)
  BY <1>2 DEF Settled
<1>9. RootAgrees' /\ ListAgrees'
  BY <1>8 DEF RuleInv, RootAgrees, ListAgrees, Built, RulesOf, Sought
<1> QED BY <1>3, <1>5, <1>6, <1>7, <1>9 DEF RuleInv

\* A key that is not apart after a line has been taken is not that of the line,
\* or nobody is against the line, which is then not misread.
LEMMA TakeApart ==
  ASSUME TypeInv, NEW c \in Client, NEW k \in Line, Take(c, k),
         NEW j, j = [job[c] EXCEPT !.line = k]
  PROVE  /\ \A ep, x : ep # j.at \/ x \notin Keys(j) =>
              (<<ep, x>> \in apart' <=> <<ep, x>> \in apart)
         /\ \A x \in Keys(j) : <<j.at, x>> \notin apart' =>
              /\ x = Subject(j) /\ ~Misread(j)
              /\ \A d \in Client : ~Against(d, j)
<1> DEFINE touched == {j.at} \X Keys(j)
<1>1. apart' = IF Misread(j) \/ \E d \in Client : Against(d, j)
               THEN apart \cup touched ELSE apart \ touched
  BY DEF Take
<1>2. \A ep, x : <<ep, x>> \in touched <=> ep = j.at /\ x \in Keys(j)
  OBVIOUS
<1> HIDE DEF touched
<1>3. CASE Misread(j) \/ \E d \in Client : Against(d, j)
  BY <1>1, <1>2, <1>3
<1>4. CASE ~Misread(j) /\ ~ \E d \in Client : Against(d, j)
  <2>1. \A x \in Keys(j) : x = Subject(j)
    BY <1>4 DEF Misread, Respelt, Keys
  <2> QED BY <1>1, <1>2, <1>4, <2>1
<1> QED BY <1>3, <1>4

\* What a request takes in hand, and who else has the same key in hand.
LEMMA TakeMeets ==
  ASSUME RuleInv, NEW c \in Client, NEW k \in Line, Take(c, k), Others(c),
         NEW j, j = [job[c] EXCEPT !.line = k]
  PROVE  /\ job'[c] = j /\ j \in Job /\ j.line = k /\ j.at = job[c].at
         /\ j.op = job[c].op /\ j.kind = job[c].kind /\ j.op \in {"add", "remove"}
         /\ Subject(j) \in Keys(j) /\ Keys(j) \subseteq Key
         /\ \A x \in Keys(j) : <<j.at, x>> \notin apart' =>
              /\ x = Subject(j) /\ ~Misread(j)
              /\ \A d \in Client \ {c} : Working(d, j.at, x)' =>
                   /\ job'[d].op = j.op
                   /\ j.op = "remove" => job'[d].kind = j.kind /\ job'[d].line = k
<1>1. pc[c] = "line" /\ job[c] \in Job /\ job' = [job EXCEPT ![c] = j]
  BY TakeType DEF RuleInv, Take
<1>2. j \in Job
  BY <1>1 DEF Job
<1>3. job'[c] = j /\ j.line = k /\ j.at = job[c].at /\ j.op = job[c].op
      /\ j.kind = job[c].kind /\ j.op \in {"add", "remove"}
  BY <1>1, <1>2 DEF RuleInv, TypeInv, TypeOK, Job, Op
<1>4. Subject(j) \in Keys(j) /\ Keys(j) \subseteq Key
  BY <1>2, <1>3, KeysType
<1>5. ASSUME NEW x \in Keys(j), <<j.at, x>> \notin apart'
      PROVE  /\ x = Subject(j) /\ ~Misread(j)
             /\ \A d \in Client \ {c} : Working(d, j.at, x)' =>
                  /\ job'[d].op = j.op
                  /\ j.op = "remove" => job'[d].kind = j.kind /\ job'[d].line = k
  <2>1. x = Subject(j) /\ ~Misread(j) /\ \A d \in Client : ~Against(d, j)
    BY <1>5, TakeApart DEF RuleInv
  <2>2. ASSUME NEW d \in Client \ {c}, Working(d, j.at, x)'
        PROVE  /\ job'[d].op = j.op
               /\ j.op = "remove" => job'[d].kind = j.kind /\ job'[d].line = k
    <3>1. Working(d, j.at, x) /\ job'[d] = job[d]
      BY <2>2, WorkingKept
    <3> QED BY <1>3, <2>1, <3>1 DEF Against
  <2> QED BY <2>1, <2>2
<1> QED BY <1>2, <1>3, <1>4, <1>5

\* Taking a line leaves the requests for every key that is not apart in accord.
LEMMA TakeOneWay ==
  ASSUME RuleInv, NEW c \in Client, NEW k \in Line, Take(c, k), Others(c)
  PROVE  OneWay'
<1>1. PICK j : j = [job[c] EXCEPT !.line = k]
  OBVIOUS
<1>2. /\ job'[c] = j /\ j.line = k /\ j.op \in {"add", "remove"}
      /\ \A x \in Keys(j) : <<j.at, x>> \notin apart' =>
           /\ x = Subject(j) /\ ~Misread(j)
           /\ \A d \in Client \ {c} : Working(d, j.at, x)' =>
                /\ job'[d].op = j.op
                /\ j.op = "remove" => job'[d].kind = j.kind /\ job'[d].line = k
  BY <1>1, TakeMeets
<1>3. \A ep, x : ep # j.at \/ x \notin Keys(j) =>
        (<<ep, x>> \in apart' <=> <<ep, x>> \in apart)
  BY <1>1, TakeApart DEF RuleInv
<1>4. \A a : Respelt(a)' <=> Respelt(a)
  OBVIOUS
<1>5. ASSUME NEW ep \in {Root} \cup List, NEW x \in Key, <<ep, x>> \notin apart',
             NEW a \in Client, NEW b \in Client, Working(a, ep, x)', Working(b, ep, x)'
      PROVE  /\ job'[a].op = job'[b].op /\ ~Respelt(job'[a])
             /\ job'[a].op = "remove" =>
                  job'[a].kind = job'[b].kind /\ job'[a].line = job'[b].line
  <2>1. CASE ep = j.at /\ x \in Keys(j)
    <3>1. /\ x = Subject(j) /\ ~Respelt(j)
          /\ \A d \in Client \ {c} : Working(d, ep, x)' =>
               /\ job'[d].op = j.op
               /\ j.op = "remove" => job'[d].kind = j.kind /\ job'[d].line = k
      BY <1>2, <1>5, <2>1 DEF Misread
    <3>2. \A d \in Client : Working(d, ep, x)' =>
            /\ job'[d].op = j.op /\ ~Respelt(job'[d])
            /\ j.op = "remove" => job'[d].kind = j.kind /\ job'[d].line = k
      BY <1>2, <3>1 DEF Respelt, Subject
    <3> QED BY <1>5, <3>2
  <2>2. CASE ep # j.at \/ x \notin Keys(j)
    <3>1. a # c /\ b # c
      BY <1>2, <1>5, <2>2 DEF Working, Keys, Subject
    <3>2. <<ep, x>> \notin apart
      BY <1>3, <1>5, <2>2
    <3>3. Working(a, ep, x) /\ Working(b, ep, x) /\ job'[a] = job[a] /\ job'[b] = job[b]
      BY <1>5, <3>1, WorkingKept
    <3> QED BY <3>2, <3>3 DEF RuleInv, OneWay
  <2> QED BY <2>1, <2>2
<1> QED BY <1>5 DEF OneWay, Respelt, Subject

\* Going on with a line, or leaving it, too.
LEMMA OnOneWay ==
  ASSUME RuleInv, NEW c \in Client, Others(c), UNCHANGED apart,
         pc[c] \in Inside, pc'[c] \in Inside => job'[c] = job[c]
  PROVE  OneWay'
<1>1. \A d \in Client : \A ep, x :
        Working(d, ep, x)' => Working(d, ep, x) /\ job'[d] = job[d]
  BY DEF Others, Working, Keys, Subject
<1> QED BY <1>1 DEF RuleInv, OneWay, Respelt, Subject

\* The endpoints of a list do not touch the global rules.
LEMMA RootKept ==
  ASSUME RuleInv, NEW c \in Client, Others(c), UNCHANGED global,
         RootOnly => root' = root,
         pc[c] \notin {"cache", "cfg"}, pc'[c] \notin {"cache", "cfg"},
         \A x : <<Root, x>> \in apart' <=> <<Root, x>> \in apart
  PROVE  RootAgrees' /\ RootHalf' /\ RootOnce'
<1>1. \A x : ~Working(c, Root, x)
  BY RuleAssumption DEF Working, Inside, RuleInv, TypeInv, InHand
<1>2. RootAgrees'
  <2>1. \A x : Settled(Root, x)' => Settled(Root, x)
    BY <1>1, SettledBefore
  <2> QED BY <2>1 DEF RuleInv, RootAgrees, Built
<1>3. \A d \in Client : pc'[d] \in {"cache", "cfg"} \/ pc[d] \in {"cache", "cfg"} =>
        pc'[d] = pc[d] /\ job'[d] = job[d]
  BY DEF Others
<1>4. \A x : Past(x)' => Past(x)
  BY <1>3 DEF Past, Keys, Subject
<1>5. RootHalf'
  BY <1>3, <1>4 DEF RuleInv, RootHalf, Subject
<1>6. RootOnce'
  BY <1>3 DEF RuleInv, RootOnce, Subject, Only
<1> QED BY <1>2, <1>5, <1>6

\* The root endpoints do not touch the lists.
LEMMA ListsKept ==
  ASSUME RuleInv, NEW c \in Client, Others(c), UNCHANGED caches,
         ListsOnly => \A i \in List : RulesOf(i)' = RulesOf(i),
         pc[c] \notin {"has", "put", "drop"}, pc'[c] \notin {"has", "put", "drop"},
         \A i \in List : \A x : <<i, x>> \in apart' <=> <<i, x>> \in apart
  PROVE  ListAgrees' /\ ListHalf'
<1>1. \A i \in List : \A x : ~Working(c, i, x)
  BY RuleAssumption DEF Working, Inside, RuleInv, TypeInv, InHand
<1>2. ListAgrees'
  <2>1. \A i \in List : \A x : Settled(i, x)' => Settled(i, x)
    BY <1>1, SettledBefore
  <2>2. ListsOnly => \A i \in List : Built(RulesOf(i))' = Built(RulesOf(i))
    BY SameBuilt
  <2> QED BY <2>1, <2>2 DEF RuleInv, ListAgrees, Sought
<1>3. \A d \in Client :
        pc'[d] \in {"has", "put", "drop"} =>
          pc'[d] = pc[d] /\ job'[d] = job[d] /\ job[d].at \in List
  BY DEF Others, RuleInv, TypeInv, InHand
<1>4. ASSUME ListsOnly, NEW d \in Client, pc'[d] \in {"has", "put", "drop"},
             (<<job[d].at, Subject(job[d])>> \notin apart)'
      PROVE  (job[d].op = "add" <=> Subject(job[d]) \in Built(RulesOf(job[d].at)))'
  <2>1. PICK a \in List : a = job[d].at
    BY <1>3, <1>4
  <2>2. /\ pc'[d] = pc[d] /\ job'[d] = job[d] /\ Subject(job[d])' = Subject(job[d])
    BY <1>3, <1>4 DEF Subject
  <2>3. RulesOf(job[d].at)' = RulesOf(a)' /\ RulesOf(a)' = RulesOf(a)
    BY <1>4, <2>1, <2>2 DEF RulesOf
  <2>4. Built(RulesOf(job[d].at))' = Built(RulesOf(a))
    BY <2>3 DEF Built
  <2>5. <<a, Subject(job[d])>> \notin apart
    BY <1>3, <1>4, <2>1, <2>2
  <2>6. job[d].op = "add" <=> Subject(job[d]) \in Built(RulesOf(a))
    BY <1>4, <2>1, <2>2, <2>5 DEF RuleInv, ListHalf
  <2> QED BY <2>2, <2>4, <2>6
<1>5. ListHalf'
  BY <1>4 DEF ListHalf
<1> QED BY <1>2, <1>5

LEMMA CheckRule ==
  ASSUME RuleInv, NEW c \in Client, NEW k \in Line, Check(c, k)
  PROVE  RuleInv'
<1>0. PICK j : j = [job[c] EXCEPT !.line = k]
  OBVIOUS
<1>1. TypeInv' /\ Others(c)
  BY CheckType DEF RuleInv
<1>2. OneWay'
  BY <1>1, TakeOneWay DEF Check
<1>3. /\ pc[c] = "line" /\ pc'[c] = "cache" /\ job[c].at = Root /\ Take(c, k)
      /\ UNCHANGED <<root, lists, disk, global, caches>>
  BY DEF Check, Take, Turn, RuleInv, TypeInv, TypeOK, cfg
<1>4. /\ job'[c] = j /\ j.at = Root /\ j.line = k /\ Subject(j) \in Keys(j)
      /\ \A x \in Keys(j) : <<Root, x>> \notin apart' =>
           /\ x = Subject(j) /\ ~Misread(j)
           /\ \A d \in Client \ {c} : Working(d, Root, x)' =>
                /\ job'[d].op = j.op
                /\ j.op = "remove" => job'[d].kind = j.kind /\ job'[d].line = k
  BY <1>0, <1>1, <1>3, TakeMeets
<1>5. \A ep, x : ep # Root \/ x \notin Keys(j) =>
        (<<ep, x>> \in apart' <=> <<ep, x>> \in apart)
  BY <1>0, <1>3, <1>4, TakeApart DEF RuleInv
<1>6. RootAgrees'
  <2>1. ASSUME RootOnly, NEW x \in Key, Settled(Root, x)'
        PROVE  x \in Built(root) <=> x \in global
    <3>1. x \notin Keys(j)
      BY <1>3, <1>4, <2>1 DEF Settled, Working, Inside, Keys, Subject
    <3>2. ~Working(c, Root, x)
      BY <1>3 DEF Working, Inside
    <3>3. Settled(Root, x)
      BY <1>1, <1>5, <2>1, <3>1, <3>2, SettledBefore
    <3> QED BY <2>1, <3>3 DEF RuleInv, RootAgrees
  <2> QED BY <1>3, <2>1, SameBuilt DEF RootAgrees
<1>7. \A d \in Client \ {c} : pc'[d] = pc[d] /\ job'[d] = job[d]
  BY <1>1 DEF Others
<1>8. RootHalf'
  <2>1. ASSUME NEW d \in Client, pc'[d] = "cfg",
               <<Root, Subject(job'[d])>> \notin apart', Past(Subject(job[d]))'
        PROVE  job'[d].op = "add" <=> Subject(job'[d]) \in global
    <3>1. d # c /\ pc[d] = "cfg" /\ job'[d] = job[d]
      BY <1>3, <1>7, <2>1
    <3> DEFINE x == Subject(job[d])
    <3>2. PICK y : y = x
      OBVIOUS
    <3>3. Past(y)'
      BY <2>1, <3>1, <3>2 DEF Subject
    <3>4. y \notin Keys(j)
      BY <1>3, <1>4, <3>3 DEF Past, Keys, Subject
    <3>5. Past(y)
      BY <1>3, <1>7, <3>3 DEF Past, Keys, Subject
    <3>6. <<Root, y>> \notin apart
      BY <1>5, <2>1, <3>1, <3>2, <3>4 DEF Subject
    <3> QED BY <3>1, <3>2, <3>5, <3>6 DEF RuleInv, RootHalf, Subject
  <2> QED BY <1>3, <2>1 DEF RootHalf, Subject
<1>9. RootOnce'
  <2>1. ASSUME RootOnly, NEW d \in Client, pc'[d] \in {"cache", "cfg"},
               job'[d].op = "remove", <<Root, Subject(job'[d])>> \notin apart'
        PROVE  Only(root, job'[d])
    <3>1. CASE d = c
      <4>1. ~Misread(j) /\ j.op = "remove"
        BY <1>4, <2>1, <3>1
      <4> QED BY <1>4, <3>1, <4>1 DEF Misread, Shared, RulesAt, Only
    <3>2. CASE d # c
      <4>1. pc[d] \in {"cache", "cfg"} /\ job'[d] = job[d] /\ job[d].op = "remove"
        BY <1>7, <2>1, <3>2
      <4>2. CASE Subject(job[d]) \in Keys(j)
        <5>1. Working(d, Root, Subject(job[d]))
          BY <4>1, Hand DEF RuleInv, TypeInv, InHand, Inside
        <5>2. Working(d, Root, Subject(job[d]))'
          BY <1>1, <3>2, <5>1, WorkingKept, <4>1 DEF Subject
        <5>3. /\ Subject(job[d]) = Subject(j) /\ ~Misread(j)
              /\ job[d].op = j.op /\ job[d].kind = j.kind /\ job[d].line = k
          <6>1. PICK y : y = Subject(job[d])
            OBVIOUS
          <6>2. Working(d, Root, y)'
            BY <4>1, <5>1, <6>1, <1>1, <3>2, WorkingKept
          <6>3. y \in Keys(j) /\ <<Root, y>> \notin apart'
            BY <2>1, <4>1, <4>2, <6>1
          <6> QED BY <1>4, <3>2, <4>1, <6>1, <6>2, <6>3
        <5> QED BY <1>4, <4>1, <5>3 DEF Misread, Shared, RulesAt, Only
      <4>3. CASE Subject(job[d]) \notin Keys(j)
        <5>1. <<Root, Subject(job[d])>> \notin apart
          BY <1>5, <2>1, <4>1, <4>3
        <5> QED BY <2>1, <4>1, <5>1 DEF RuleInv, RootOnce
      <4> QED BY <4>2, <4>3
    <3> QED BY <3>1, <3>2
  <2> QED BY <1>3, <2>1 DEF RootOnce, Only, Subject
<1>10. ListAgrees' /\ ListHalf'
  <2>1. \A i \in List : \A x : <<i, x>> \in apart' <=> <<i, x>> \in apart
    BY <1>5, RuleAssumption
  <2> QED BY <1>1, <1>3, <2>1, ListsKept DEF RulesOf
<1> QED BY <1>1, <1>2, <1>6, <1>8, <1>9, <1>10 DEF RuleInv

LEMMA RootCacheRule ==
  ASSUME RuleInv, NEW c \in Client, RootCache(c)
  PROVE  RuleInv'
<1>0. PICK j : j = job[c]
  OBVIOUS
<1>1. TypeInv' /\ Others(c)
  BY RootCacheType DEF RuleInv
<1>2. /\ pc[c] = "cache" /\ pc'[c] = "cfg" /\ job' = job
      /\ UNCHANGED <<root, lists, disk, caches, apart>>
  BY DEF RootCache, RuleInv, TypeInv, TypeOK, cfg
<1>3. /\ j.op \in {"add", "remove"} /\ j.at = Root
      /\ Subject(j) \in Key /\ Subject(j) \in Keys(j) /\ j.line \in Line
      /\ Working(c, Root, Subject(j))
  BY <1>0, <1>2, Hand DEF RuleInv, TypeInv, InHand, Inside
<1>4. global' = IF j.op = "add" THEN global \cup {Subject(j)} ELSE global \ {j.line}
  BY <1>0 DEF RootCache, Subject
<1>5. \A x : x \notin Keys(j) => (x \in global' <=> x \in global)
  BY <1>3, <1>4 DEF Keys
<1>6. OneWay'
  BY <1>1, <1>2, OnOneWay DEF Inside
<1>7. ListAgrees' /\ ListHalf'
  BY <1>1, <1>2, ListsKept DEF RulesOf
<1>8. \A d \in Client, x \in Key : Working(d, Root, x)' <=> Working(d, Root, x)
  BY <1>1, <1>2 DEF Working, Others, Inside, Keys, Subject
<1>9. RootAgrees'
  <2>1. ASSUME RootOnly, NEW x \in Key, Settled(Root, x)'
        PROVE  x \in Built(root) <=> x \in global'
    <3>1. Settled(Root, x)
      BY <1>2, <1>8, <2>1 DEF Settled
    <3>2. x \notin Keys(j)
      BY <1>0, <1>2, <1>3, <3>1 DEF Settled, Working, Inside
    <3> QED BY <1>5, <2>1, <3>1, <3>2 DEF RuleInv, RootAgrees
  <2> QED BY <1>2, <2>1, SameBuilt DEF RootAgrees
<1>10. RootHalf'
  <2>1. ASSUME NEW d \in Client, NEW x, x = Subject(job[d]), pc'[d] = "cfg",
               <<Root, x>> \notin apart, Past(x)'
        PROVE  job[d].op = "add" <=> x \in global'
    <3>1. x \in Key /\ Working(d, Root, x)
      BY <1>1, <1>2, <2>1, Hand DEF Others, Inside, RuleInv, TypeInv, InHand
    <3>2. CASE x \in Keys(j)
      <4>1. Working(c, Root, x)
        BY <1>0, <1>2, <1>3, <3>2 DEF Working, Inside
      <4>2. x = Subject(j) /\ Keys(j) = {x} /\ (j.op = "remove" => j.line = x)
        BY <1>0, <2>1, <3>1, <4>1, Exact
      <4>3. job[d].op = j.op
        BY <1>0, <2>1, <3>1, <4>1 DEF RuleInv, OneWay
      <4> QED BY <1>3, <1>4, <4>2, <4>3
    <3>3. CASE x \notin Keys(j)
      <4>1. d # c /\ pc[d] = "cfg"
        BY <1>0, <1>1, <1>3, <2>1, <3>3 DEF Others
      <4>2. Past(x)
        BY <1>0, <1>1, <1>2, <2>1, <3>3 DEF Past, Others, Keys, Subject
      <4>3. job[d].op = "add" <=> x \in global
        BY <2>1, <4>1, <4>2 DEF RuleInv, RootHalf
      <4> QED BY <1>5, <3>3, <4>3
    <3> QED BY <3>2, <3>3
  <2>2. ASSUME NEW d \in Client, pc'[d] = "cfg",
               <<Root, Subject(job[d])>> \notin apart, Past(Subject(job[d]))'
        PROVE  job[d].op = "add" <=> Subject(job[d]) \in global'
    <3>1. PICK x : x = Subject(job[d])
      OBVIOUS
    <3>2. Past(x)'
      BY <1>2, <2>2, <3>1 DEF Past, Subject, Keys
    <3> QED BY <2>1, <2>2, <3>1, <3>2
  <2> QED BY <1>2, <2>2 DEF RootHalf, Subject
<1>11. RootOnce'
  <2>1. \A d \in Client : pc'[d] \in {"cache", "cfg"} => pc[d] \in {"cache", "cfg"}
    BY <1>1, <1>2 DEF Others
  <2> QED BY <1>2, <2>1 DEF RuleInv, RootOnce, Only, Subject
<1> QED BY <1>1, <1>6, <1>7, <1>9, <1>10, <1>11 DEF RuleInv

LEMMA RootConfigRule ==
  ASSUME RuleInv, NEW c \in Client, RootConfig(c)
  PROVE  RuleInv'
<1>0. PICK j : j = job[c]
  OBVIOUS
<1>1. TypeInv' /\ Others(c)
  BY RootConfigType DEF RuleInv
<1>2. /\ pc[c] = "cfg" /\ pc'[c] = "line" /\ apart' = apart
      /\ UNCHANGED <<lists, disk, global, caches>> /\ root' = Edited(root, j)
  BY <1>0 DEF RootConfig, Done, ConfigOp, RuleInv, TypeInv, TypeOK, InHand
<1>3. /\ j \in Job /\ j.at = Root /\ j.line \in Line /\ j.op \in {"add", "remove"}
      /\ Subject(j) \in Key /\ Subject(j) \in Keys(j)
      /\ Working(c, Root, Subject(j)) /\ root \in Rules
  BY <1>0, <1>2, Hand DEF RuleInv, TypeInv, TypeOK, InHand, Inside
<1>4. /\ \A x : x # Subject(j) => (x \in Built(root') <=> x \in Built(root))
      /\ j.op = "add" => Subject(j) \in Built(root')
      /\ j.op = "remove" /\ Only(root, j) => Subject(j) \notin Built(root')
  BY <1>2, <1>3, EditedKeys
<1>5. OneWay'
  BY <1>1, <1>2, OnOneWay DEF Inside
<1>6. ListAgrees' /\ ListHalf'
  <2>1. ListsOnly => ~Legacy
    BY <1>3, RuleAssumption DEF ListsOnly, Job
  <2>2. ListsOnly => \A i \in List : RulesOf(i)' = RulesOf(i)
    BY <1>2, <2>1 DEF RulesOf
  <2> QED BY <1>1, <1>2, <2>2, ListsKept
<1>7. RootAgrees'
  <2>1. ASSUME RootOnly, NEW x \in Key, Settled(Root, x)'
        PROVE  x \in Built(root') <=> x \in global
    <3>1. CASE Working(c, Root, x)
      <4>1. <<Root, x>> \notin apart
        BY <1>2, <2>1 DEF Settled
      <4>2. x = Subject(j) /\ Keys(j) = {x}
        BY <1>0, <2>1, <3>1, <4>1, Exact
      <4>3. \A d \in Client \ {c} : ~Working(d, Root, x)
        BY <1>1, <2>1, WorkingKept DEF Settled
      <4>4. Past(x)
        BY <1>2, <4>3 DEF Past, Working, Inside, RuleInv, TypeInv, InHand
      <4>5. j.op = "add" <=> x \in global
        BY <1>0, <1>2, <4>1, <4>2, <4>4 DEF RuleInv, RootHalf
      <4>6. j.op = "remove" => Only(root, j)
        BY <1>0, <1>2, <2>1, <4>1, <4>2 DEF RuleInv, RootOnce
      <4> QED BY <1>3, <1>4, <4>2, <4>5, <4>6
    <3>2. CASE ~Working(c, Root, x)
      <4>1. x # Subject(j)
        BY <1>3, <3>2
      <4>2. Settled(Root, x)
        BY <1>1, <1>2, <2>1, <3>2, SettledBefore
      <4>3. x \in Built(root) <=> x \in global
        BY <2>1, <4>2 DEF RuleInv, RootAgrees
      <4> QED BY <1>4, <4>1, <4>3
    <3> QED BY <3>1, <3>2
  <2> QED BY <1>2, <2>1 DEF RootAgrees, Built
<1>8. \A d \in Client : pc'[d] \in {"cache", "cfg"} =>
        d # c /\ pc'[d] = pc[d] /\ job'[d] = job[d]
  BY <1>1, <1>2 DEF Others
<1>9. RootHalf'
  <2>1. \A x : Past(x)' => Past(x)
    BY <1>1, <1>2 DEF Past, Others, Keys, Subject
  <2> QED BY <1>2, <1>8, <2>1 DEF RuleInv, RootHalf, Subject
<1>10. RootOnce'
  <2>1. ASSUME RootOnly, NEW d \in Client, pc'[d] \in {"cache", "cfg"},
               job[d].op = "remove", <<Root, Subject(job[d])>> \notin apart
        PROVE  Only(root', job[d])
    <3>1. d # c /\ pc[d] \in {"cache", "cfg"}
      BY <1>8, <2>1
    <3>2. Only(root, job[d])
      BY <2>1, <3>1 DEF RuleInv, RootOnce
    <3>3. \A kind \in Kind : \A k : k \in root'[kind] <=>
            IF kind = j.kind /\ k = j.line THEN j.op = "add" ELSE k \in root[kind]
      BY <1>2, <1>3, EditedRules
    <3>4. Subject(job[d]) = Subject(j) => j.op = "remove"
      <4>1. Working(d, Root, Subject(job[d]))
        BY <3>1, Hand DEF RuleInv, TypeInv, InHand, Inside
      <4> QED BY <1>0, <1>3, <2>1, <4>1 DEF RuleInv, OneWay
    <3>5. ASSUME NEW kind \in Kind, NEW k \in root'[kind],
                 Stored(kind, k) = Subject(job[d])
          PROVE  k \in root[kind]
      BY <3>3, <3>4, <3>5 DEF Subject
    <3> QED BY <3>2, <3>5 DEF Only
  <2> QED BY <1>2, <1>8, <2>1 DEF RootOnce, Subject, Only
<1> QED BY <1>1, <1>5, <1>6, <1>7, <1>9, <1>10 DEF RuleInv


LEMMA ListConfigRule ==
  ASSUME RuleInv, NEW c \in Client, NEW k \in Line, ListConfig(c, k)
  PROVE  RuleInv'
<1>0. PICK j : j = [job[c] EXCEPT !.line = k]
  OBVIOUS
<1>1. TypeInv' /\ Others(c)
  BY ListConfigType DEF RuleInv
<1>2. PICK i \in List : i = job[c].at
  BY DEF ListConfig
<1>3. /\ pc[c] = "line" /\ pc'[c] \in {"has", "drop"} /\ Take(c, k) /\ i # Root
      /\ UNCHANGED <<disk, global, caches>>
  BY <1>2, RuleAssumption DEF ListConfig, Take, Turn, RuleInv, TypeInv, TypeOK
<1>4. /\ job'[c] = j /\ j \in Job /\ j.line = k /\ j.at = i /\ i \in Endpoint
      /\ j.op \in {"add", "remove"}
      /\ Subject(j) \in Keys(j) /\ Keys(j) \subseteq Key
      /\ \A x \in Keys(j) : <<i, x>> \notin apart' =>
           /\ x = Subject(j) /\ ~Misread(j)
           /\ \A d \in Client \ {c} : Working(d, i, x)' => job'[d].op = j.op
  BY <1>0, <1>1, <1>2, <1>3, TakeMeets DEF Job
<1>5. \A ep, x : ep # i \/ x \notin Keys(j) =>
        (<<ep, x>> \in apart' <=> <<ep, x>> \in apart)
  <2>1. TypeInv /\ Take(c, k) /\ j.at = i
    BY <1>3, <1>4 DEF RuleInv
  <2> QED BY <1>0, <2>1, TakeApart
<1>6. PICK old \in Rules : old = RulesOf(i)
  <2>1. root \in Rules /\ lists[i] \in Rules
    BY DEF RuleInv, TypeInv, TypeOK
  <2>2. RulesOf(i) \in Rules
    BY <2>1 DEF RulesOf
  <2> QED BY <2>2
<1>7. PICK new : new = Edited(old, j)
  OBVIOUS
<1>8. /\ root' = IF Legacy THEN new ELSE root
      /\ \A a \in List : lists'[a] = IF ~Legacy /\ a = i THEN new ELSE lists[a]
  BY <1>3, <1>4, <1>6, <1>7 DEF ListConfig, ConfigOp, RulesOf, RuleInv, TypeInv, TypeOK
<1>9. \A a \in List : RulesOf(a)' = IF a = i THEN new ELSE RulesOf(a)
  BY <1>8, RuleAssumption DEF RulesOf
<1>10. \A a \in List : Built(RulesOf(a))' = Built(IF a = i THEN new ELSE RulesOf(a))
  BY <1>9 DEF Built
<1>11. /\ \A x : x # Subject(j) => (x \in Built(new) <=> x \in Built(old))
       /\ j.op = "add" => Subject(j) \in Built(new)
       /\ j.op = "remove" /\ Only(old, j) => Subject(j) \notin Built(new)
  BY <1>4, <1>7, EditedKeys
<1>12. ~Misread(j) /\ j.op = "remove" => Only(old, j)
  BY <1>3, <1>4, <1>6 DEF Misread, Shared, RulesAt, Only
<1>13. OneWay'
  BY <1>1, <1>3, TakeOneWay
<1>14. RootAgrees' /\ RootHalf' /\ RootOnce'
  <2>1. RootOnly => root' = root
    BY <1>3, <1>4, <1>8 DEF RootOnly
  <2>2. \A x : <<Root, x>> \in apart' <=> <<Root, x>> \in apart
    BY <1>3, <1>5
  <2> QED BY <1>1, <1>3, <2>1, <2>2, RootKept
<1>15. ListAgrees'
  <2>1. ASSUME ListsOnly, NEW a \in List, NEW x \in Key, Sought(x), Settled(a, x)'
        PROVE  x \in Built(RulesOf(a))' <=> x \in caches[a]
    <3>1. a # i \/ x \notin Keys(j)
      BY <1>3, <1>4, <2>1 DEF Settled, Working, Inside, Keys, Subject
    <3>2. ~Working(c, a, x)
      BY <1>3 DEF Working, Inside
    <3>3. Settled(a, x)
      BY <1>1, <1>5, <2>1, <3>1, <3>2, SettledBefore
    <3>4. x \in Built(RulesOf(a)) <=> x \in caches[a]
      BY <2>1, <3>3 DEF RuleInv, ListAgrees
    <3>5. a = i => x # Subject(j)
      BY <1>4, <3>1
    <3> QED BY <1>6, <1>10, <1>11, <3>4, <3>5
  <2> QED BY <1>3, <2>1 DEF ListAgrees, Sought
<1>16. \A d \in Client \ {c} : pc'[d] = pc[d] /\ job'[d] = job[d]
  BY <1>1 DEF Others
<1>17. ASSUME ListsOnly, NEW d \in Client, pc'[d] \in {"has", "put", "drop"},
              NEW a \in List, NEW x, a = job'[d].at, x = Subject(job'[d]),
              <<a, x>> \notin apart'
       PROVE  job'[d].op = "add" <=> x \in Built(IF a = i THEN new ELSE RulesOf(a))
  <2>1. CASE a = i /\ x \in Keys(j)
    <3>1. x = Subject(j) /\ ~Misread(j)
      BY <1>4, <1>17, <2>1
    <3>2. job'[d].op = j.op
      <4>1. CASE d # c
        <5>1. x \in Keys(job[d]) /\ pc[d] \in Inside /\ job[d].at = i
          BY <1>16, <1>17, <2>1, <4>1 DEF Keys, Inside
        <5>2. Working(d, i, x)
          BY <5>1 DEF Working
        <5>3. Working(d, i, x)'
          BY <1>1, <4>1, <5>2, WorkingKept
        <5> QED BY <1>4, <1>17, <2>1, <4>1, <5>3
      <4> QED BY <1>4, <4>1
    <3> QED BY <1>4, <1>11, <1>12, <2>1, <3>1, <3>2
  <2>2. CASE ~(a = i /\ x \in Keys(j))
    <3>1. d # c
      BY <1>4, <1>17, <2>2
    <3>2. /\ pc[d] \in {"has", "put", "drop"} /\ job'[d] = job[d]
          /\ <<a, x>> \notin apart
      BY <1>5, <1>16, <1>17, <2>2, <3>1
    <3>3. job[d].op = "add" <=> x \in Built(RulesOf(a))
      BY <1>17, <3>2 DEF RuleInv, ListHalf
    <3>4. a = i => x # Subject(j)
      BY <1>4, <2>2
    <3> QED BY <1>6, <1>11, <3>2, <3>3, <3>4
  <2> QED BY <2>1, <2>2
<1>18. ListHalf'
  <2>1. ASSUME ListsOnly, NEW d \in Client, pc'[d] \in {"has", "put", "drop"},
               (<<job[d].at, Subject(job[d])>> \notin apart)'
        PROVE  (job[d].op = "add" <=> Subject(job[d]) \in Built(RulesOf(job[d].at)))'
    <3>1. PICK a \in List : a = job'[d].at
      BY <1>1, <2>1 DEF TypeInv, InHand
    <3>2. PICK x : x = Subject(job[d])'
      OBVIOUS
    <3>3. Subject(job[d])' = Subject(job'[d])
      BY DEF Subject
    <3>4. Built(RulesOf(job[d].at))' = Built(RulesOf(a))'
      BY <3>1 DEF RulesOf, Built
    <3>5. job'[d].op = "add" <=> x \in Built(RulesOf(a))'
      BY <1>10, <1>17, <2>1, <3>1, <3>2, <3>3
    <3> QED BY <3>2, <3>4, <3>5
  <2> QED BY <2>1 DEF ListHalf
<1> QED BY <1>1, <1>13, <1>14, <1>15, <1>18 DEF RuleInv

\* A step inside a line of a list that leaves the configuration alone and, of the
\* caches, changes at most the keys of the line in the cache of that list.
LEMMA ListStepRule ==
  ASSUME RuleInv, TypeInv', NEW c \in Client, Others(c),
         pc[c] \in {"has", "put", "drop"}, pc'[c] \in {"line", "put"},
         pc'[c] = "put" => job'[c] = job[c],
         UNCHANGED <<root, lists, disk, global, apart>>,
         \A i \in List, x \in Key :
           i # job[c].at \/ x \notin Keys(job[c]) => (x \in caches'[i] <=> x \in caches[i]),
         pc'[c] = "line" /\ ~Respelt(job[c]) /\ Sought(Subject(job[c])) =>
           (Subject(job[c]) \in caches'[job[c].at] <=> job[c].op = "add")
  PROVE  RuleInv'
<1>1. OneWay'
  BY OnOneWay DEF Inside
<1>2. RootAgrees' /\ RootHalf' /\ RootOnce'
  BY RootKept
<1>3. ListAgrees'
  <2>1. ASSUME ListsOnly, NEW i \in List, NEW x \in Key, Sought(x), Settled(i, x)'
        PROVE  x \in Built(RulesOf(i)) <=> x \in caches'[i]
    <3>1. CASE Working(c, i, x)
      <4>1. <<i, x>> \notin apart
        BY <2>1 DEF Settled
      <4>2. job[c].at = i /\ Subject(job[c]) = x /\ Keys(job[c]) = {x}
        BY <3>1, <4>1, Exact
      <4>3. ~Respelt(job[c])
        BY <3>1, <4>1 DEF RuleInv, OneWay
      <4>4. pc'[c] = "line"
        BY <2>1, <4>2 DEF Settled, Working, Inside, Keys, Subject
      <4>5. job[c].op = "add" <=> x \in Built(RulesOf(i))
        BY <2>1, <4>1, <4>2 DEF RuleInv, ListHalf
      <4> QED BY <2>1, <4>2, <4>3, <4>4, <4>5
    <3>2. CASE ~Working(c, i, x)
      <4>1. Settled(i, x)
        BY <2>1, <3>2, SettledBefore
      <4>2. x \in Built(RulesOf(i)) <=> x \in caches[i]
        BY <2>1, <4>1 DEF RuleInv, ListAgrees
      <4>3. i # job[c].at \/ x \notin Keys(job[c])
        BY <3>2 DEF Working, Inside
      <4> QED BY <4>2, <4>3
    <3> QED BY <3>1, <3>2
  <2> QED BY <2>1 DEF ListAgrees, Built, RulesOf, Sought
<1>4. ListHalf'
  <2>1. \A d \in Client : pc'[d] \in {"has", "put", "drop"} =>
          pc[d] \in {"has", "put", "drop"} /\ job'[d] = job[d]
    BY DEF Others
  <2> QED BY <2>1 DEF RuleInv, ListHalf, Built, RulesOf, Subject
<1> QED BY <1>1, <1>2, <1>3, <1>4 DEF RuleInv

\* What a request inside a line of a list does, and to which cache.
LEMMA ListHand ==
  ASSUME RuleInv, NEW c \in Client, pc[c] \in {"has", "put", "drop"}
  PROVE  /\ job[c].kind \in Kind /\ job[c].line \in Line /\ job[c].at \in List
         /\ Keys(job[c]) \subseteq Key /\ Subject(job[c]) \in Keys(job[c])
         /\ job[c].op = IF pc[c] = "drop" THEN "remove" ELSE "add"
         /\ job[c].op = "remove" => job[c].line \in Keys(job[c])
<1>1. pc[c] \in Inside
  BY DEF Inside
<1> QED BY <1>1, Hand DEF RuleInv, TypeInv, InHand, Keys

LEMMA ListHasRule ==
  ASSUME RuleInv, NEW c \in Client, ListHas(c)
  PROVE  RuleInv'
<1>1. TypeInv' /\ Others(c)
  BY ListHasType DEF RuleInv
<1>2. pc[c] = "has" /\ UNCHANGED <<root, lists, disk, global, caches, apart>>
  BY DEF ListHas, Done, cfg
<1>3. CASE Has(caches[job[c].at], job[c].kind, job[c].line) /\ Done(c)
  <2>1. pc'[c] = "line"
    BY <1>3 DEF Done, RuleInv, TypeInv, TypeOK
  <2>2. Sought(Subject(job[c])) =>
          (Subject(job[c]) \in caches[job[c].at] <=> job[c].op = "add")
    BY <1>2, <1>3, ListHand, HasKey DEF Subject
  <2> QED BY <1>1, <1>2, <2>1, <2>2, ListStepRule
<1>4. CASE pc' = [pc EXCEPT ![c] = "put"] /\ UNCHANGED <<job, apart>>
  <2>1. pc'[c] = "put" /\ job'[c] = job[c]
    BY <1>4 DEF RuleInv, TypeInv, TypeOK
  <2> QED BY <1>1, <1>2, <2>1, ListStepRule
<1> QED BY <1>3, <1>4 DEF ListHas

LEMMA ListPutRule ==
  ASSUME RuleInv, NEW c \in Client, ListPut(c)
  PROVE  RuleInv'
<1>1. TypeInv' /\ Others(c)
  BY ListPutType DEF RuleInv
<1>2. pc[c] = "put" /\ pc'[c] = "line" /\ UNCHANGED <<root, lists, disk, global, apart>>
  BY DEF ListPut, Done, cfg, RuleInv, TypeInv, TypeOK
<1>3. caches' = [caches EXCEPT ![job[c].at] = @ \cup {Subject(job[c])}]
  BY DEF ListPut, Subject
<1>4. /\ \A i \in List, x \in Key :
           i # job[c].at \/ x \notin Keys(job[c]) => (x \in caches'[i] <=> x \in caches[i])
      /\ Subject(job[c]) \in caches'[job[c].at]
  BY <1>2, <1>3, ListHand DEF RuleInv, TypeInv, TypeOK
<1>5. job[c].op = "add"
  BY <1>2, ListHand
<1> QED BY <1>1, <1>2, <1>4, <1>5, ListStepRule

LEMMA ListDropRule ==
  ASSUME RuleInv, NEW c \in Client, ListDrop(c)
  PROVE  RuleInv'
<1>1. TypeInv' /\ Others(c)
  BY ListDropType DEF RuleInv
<1>2. pc[c] = "drop" /\ pc'[c] = "line" /\ UNCHANGED <<root, lists, disk, global, apart>>
  BY DEF ListDrop, Done, cfg, RuleInv, TypeInv, TypeOK
<1>3. caches' = [caches EXCEPT ![job[c].at] = @ \ {job[c].line}]
  BY DEF ListDrop
<1>4. job[c].op = "remove" /\ job[c].line \in Keys(job[c])
  BY <1>2, ListHand
<1>5. /\ \A i \in List, x \in Key :
           i # job[c].at \/ x \notin Keys(job[c]) => (x \in caches'[i] <=> x \in caches[i])
      /\ job[c].line \notin caches'[job[c].at]
  BY <1>2, <1>3, <1>4, ListHand DEF RuleInv, TypeInv, TypeOK
<1>6. ~Respelt(job[c]) => job[c].line = Subject(job[c])
  BY <1>4 DEF Respelt
<1> QED BY <1>1, <1>2, <1>4, <1>5, <1>6, ListStepRule

\* A start builds every cache from the rules that it reads.
LEMMA RestartRule ==
  ASSUME RuleInv, Restart
  PROVE  RuleInv'
<1>1. TypeInv'
  BY RestartType DEF RuleInv
<1>2. RootAgrees'
  BY DEF Restart, Load, RootAgrees
<1>3. ListAgrees'
  <2>1. ASSUME NEW i \in List
        PROVE  caches'[i] = Built(RulesOf(i))'
    <3>1. RulesOf(i)' = IF Legacy THEN disk.root ELSE disk.lists[i]
      BY DEF Restart, Load, RulesOf
    <3> QED BY <3>1 DEF Restart, Load, Built
  <2> QED BY <2>1 DEF ListAgrees
<1>4. OneWay' /\ RootHalf' /\ RootOnce' /\ ListHalf'
  BY DEF Restart, OneWay, RootHalf, RootOnce, ListHalf, Working, Inside
<1> QED BY <1>1, <1>2, <1>3, <1>4 DEF RuleInv

LEMMA NextRule ==
  ASSUME RuleInv, [Next]_vars
  PROVE  RuleInv'
<1>1. CASE \E c \in Client : Submit(c) \/ Save(c)
  <2>1. PICK c \in Client : Submit(c) \/ Save(c)
    BY <1>1
  <2>2. TypeInv' /\ Others(c)
    BY <2>1, SubmitType, SaveType DEF RuleInv
  <2>3. /\ pc[c] \notin Inside /\ pc'[c] \notin Inside
        /\ UNCHANGED <<root, lists, global, caches, apart>>
    BY <2>1 DEF Submit, Save, cfg, RuleInv, TypeInv, TypeOK, Inside
  <2> QED BY <2>2, <2>3, CalmRule
<1>2. CASE \E c \in Client : \/ RootCache(c) \/ RootConfig(c)
                             \/ ListHas(c) \/ ListPut(c) \/ ListDrop(c)
  BY <1>2, RootCacheRule, RootConfigRule, ListHasRule, ListPutRule, ListDropRule
<1>3. CASE \E c \in Client, k \in Line : Check(c, k) \/ ListConfig(c, k)
  BY <1>3, CheckRule, ListConfigRule
<1>4. CASE UNCHANGED vars \/ \E c \in Client, k \in Line : Exists(c, k) \/ NotFound(c, k)
  <2>1. UNCHANGED vars /\ TypeInv'
    BY <1>4, NextType DEF Exists, NotFound, RuleInv, Next
  <2>2. \A c \in Client : \A ep, x : Working(c, ep, x)' <=> Working(c, ep, x)
    BY <2>1 DEF vars, Working, Keys, Subject
  <2>3. OneWay'
    BY <2>1, <2>2 DEF vars, RuleInv, OneWay, Respelt, Subject
  <2>4. \A ep, x : Settled(ep, x)' <=> Settled(ep, x)
    BY <2>1, <2>2 DEF vars, Settled
  <2>5. RootAgrees' /\ ListAgrees'
    BY <2>1, <2>4
    DEF vars, cfg, RuleInv, RootAgrees, ListAgrees, Built, RulesOf, Sought
  <2>6. RootHalf' /\ RootOnce'
    BY <2>1 DEF vars, cfg, RuleInv, RootHalf, RootOnce, Past, Keys, Subject, Only
  <2>7. ListHalf'
    BY <2>1 DEF vars, cfg, RuleInv, ListHalf, Built, RulesOf, Subject
  <2> QED BY <2>1, <2>3, <2>5, <2>6, <2>7 DEF RuleInv
<1>5. CASE Restart
  BY <1>5, RestartRule
<1> QED BY <1>1, <1>2, <1>3, <1>4, <1>5 DEF Next

\* The invariant of the three copies, for any lines in any spelling.
THEOREM RulesAgree == Spec => []RuleInv
<1>1. Init => RuleInv
  BY InitRule
<1>2. RuleInv /\ [Next]_vars => RuleInv'
  BY NextRule
<1> QED BY <1>1, <1>2, PTL DEF Spec

-----------------------------------------------------------------------------
(* What the rules stand for.                                               *)

\* A suffix of two labels stands for the names whose last two they are.
LEMMA BelowTwo ==
  ASSUME NEW n \in Seq(Label), NEW m, Len(m) = 2
  PROVE  Below(n, m) <=> Len(n) >= 2 /\ LastTwo(n) = m
<1>1. Len(n) \in Nat
  BY LenProperties
<1>2. Below(n, m) <=> Len(n) >= 2 /\ SubSeq(n, Len(n) - 1, Len(n)) = m
  <2>1. Len(n) - Len(m) + 1 = Len(n) - 1
    BY <1>1
  <2> QED BY <1>1, <2>1 DEF Below
<1>3. CASE Len(n) > 2
  BY <1>1, <1>2, <1>3 DEF LastTwo
<1>4. CASE Len(n) = 2
  <2>1. SubSeq(n, Len(n) - 1, Len(n)) = SubSeq(n, 1, Len(n)) /\ LastTwo(n) = n
    BY <1>4 DEF LastTwo
  <2>2. SubSeq(n, 1, Len(n)) = n
    BY SubSeqFull
  <2> QED BY <1>2, <1>4, <2>1, <2>2
<1>5. CASE Len(n) < 2
  BY <1>1, <1>2, <1>5
<1>6. Len(n) > 2 \/ Len(n) = 2 \/ Len(n) < 2
  <2>1. \A l \in Nat : l > 2 \/ l = 2 \/ l < 2
    OBVIOUS
  <2> QED BY <1>1, <2>1
<1> QED BY <1>3, <1>4, <1>5, <1>6

\* A cache that run has built from a set of rules matches the names that these
\* cover: DomainCache, with its own key for a suffix and its last two labels of a
\* name, does what the rules of the configuration mean.
THEOREM MatchesMeaning ==
  ASSUME NEW r \in Rules, NEW n \in Seq(Label)
  PROVE  Matches(Built(r), n) <=> Covers(r, n)
<1>1. r.domain \subseteq Line /\ r.suffix \subseteq Line
  BY DEF Rules
<1>2. \A k \in Line : k = [name |-> k.name, dot |-> k.dot] /\ k.dot \in BOOLEAN
  BY RuleAssumption
<1>3. \A x : x \in Built(r) <=>
        x \in r.domain \/ \E k \in r.suffix : x = [name |-> k.name, dot |-> TRUE]
  BY DEF Built, Stored, Dotted
<1>4. Own(n) \in Built(r) <=> Own(n) \in r.domain
  <2>1. \A k : Own(n) # [name |-> k.name, dot |-> TRUE]
    BY DEF Own
  <2> QED BY <1>3, <2>1
<1>5. Parent(n) \in Built(r) <=>
        \E k \in r.suffix \cup {d \in r.domain : d.dot} : k.name = LastTwo(n)
  <2>1. \A k : Parent(n) = [name |-> k.name, dot |-> TRUE] <=> k.name = LastTwo(n)
    BY DEF Parent
  <2>2. \A k \in r.domain : Parent(n) = k <=> k.dot /\ k.name = LastTwo(n)
    <3>1. ASSUME NEW k \in r.domain
          PROVE  Parent(n) = k <=> k.dot /\ k.name = LastTwo(n)
      <4>1. k = [name |-> k.name, dot |-> k.dot] /\ k.dot \in BOOLEAN
        BY <1>1, <1>2, <3>1
      <4>2. Parent(n) = [name |-> LastTwo(n), dot |-> TRUE]
        BY DEF Parent
      <4> QED BY <4>1, <4>2
    <3> QED BY <3>1
  <2>3. Parent(n) \in Built(r) <=>
          \/ \E k \in r.domain : k.dot /\ k.name = LastTwo(n)
          \/ \E k \in r.suffix : k.name = LastTwo(n)
    <3>1. Parent(n) \in r.domain <=> \E k \in r.domain : Parent(n) = k
      OBVIOUS
    <3>2. Parent(n) \in r.domain <=> \E k \in r.domain : k.dot /\ k.name = LastTwo(n)
      BY <2>2, <3>1
    <3>3. (\E k \in r.suffix : Parent(n) = [name |-> k.name, dot |-> TRUE])
            <=> \E k \in r.suffix : k.name = LastTwo(n)
      BY <2>1
    <3> QED BY <1>3, <3>2, <3>3
  <2> QED BY <2>3
<1>6. Len(n) \in Nat /\ Len(LastTwo(n)) = IF Len(n) >= 2 THEN 2 ELSE Len(n)
  BY LastTwoLength
<1>7. Len(n) >= 2 <=> Len(LastTwo(n)) = 2
  BY <1>6
<1>8. \A m : (Len(m) = 2 /\ Below(n, m)) <=> (Len(n) >= 2 /\ m = LastTwo(n))
  BY <1>7, BelowTwo
<1>9. Matches(Built(r), n) <=>
        Own(n) \in Built(r) \/ (Len(n) >= 2 /\ Parent(n) \in Built(r))
  BY DEF Matches, Has, Own, Parent
<1>10. Covers(r, n) <=>
        Own(n) \in r.domain \/
        \E k \in r.suffix \cup {d \in r.domain : d.dot} :
          Len(n) >= 2 /\ k.name = LastTwo(n)
  BY <1>8 DEF Covers
<1> QED BY <1>4, <1>5, <1>9, <1>10

\* Every list routes the names that its own rules cover, and no others, for the
\* names whose rules are settled, whatever lines have been sent in whatever
\* spelling; in the legacy configuration, as long as /domains and /suffixes,
\* which then change the same rules but another cache, are not used.
THEOREM RoutingAsConfigured ==
  ASSUME ListsOnly
  PROVE  Spec => []RoutingMatchesConfig
<1>1. RuleInv => RoutingMatchesConfig
  <2> SUFFICES ASSUME RuleInv, NEW i \in List, NEW n \in Asked,
                      Settled(i, Own(n)), Settled(i, Parent(n))
               PROVE  Routed(n, i) <=> Covers(RulesOf(i), n)
    BY DEF RoutingMatchesConfig
  <2>1. n \in Seq(Label) /\ RulesOf(i) \in Rules
    BY RuleAssumption DEF RuleInv, TypeInv, TypeOK, RulesOf
  <2>2. Routed(n, i) <=> Matches(caches[i], n)
    BY DEF Routed, ShouldProcess
  <2>3. ASSUME NEW x \in {Own(n), Parent(n)}
        PROVE  x \in Built(RulesOf(i)) <=> x \in caches[i]
    <3>1. Sought(x) /\ Settled(i, x)
      BY <2>1, <2>3, KeysSought
    <3>2. CASE x \in Key
      BY <3>1, <3>2 DEF RuleInv, ListAgrees
    <3>3. CASE x \notin Key
      BY <2>1, <3>3, BuiltType DEF RuleInv, TypeInv, TypeOK
    <3> QED BY <3>2, <3>3
  <2>4. Matches(caches[i], n) <=> Matches(Built(RulesOf(i)), n)
    BY <2>3, SameMatches
  <2> QED BY <2>1, <2>2, <2>4, MatchesMeaning
<1> QED BY <1>1, RulesAgree, PTL

\* "exist" and "not found" are said of what the configuration has and has not, in
\* whatever spelling; in the legacy configuration, as long as those are the only
\* endpoints used.
THEOREM AnswersTruthful ==
  ASSUME RootOnly
  PROVE  Spec => []AnswersTrue
<1>1. RuleInv => AnswersTrue
  <2> SUFFICES ASSUME RuleInv, NEW c \in Client, NEW k \in Line,
                      Turn(c, k), Settled(Root, Stored(job[c].kind, k)),
                      job[c].kind = "suffix" => Len(k.name) <= 2
               PROVE  Known(c, k) <=> Stored(job[c].kind, k) \in Built(root)
    BY DEF AnswersTrue
  <2>1. PICK kind \in Kind : kind = job[c].kind
    BY DEF Turn, RuleInv, TypeInv, InHand, Job
  <2>2. k.name \in Seq(Label) /\ Stored(kind, k) \in Key
    BY KeyTypes, RuleAssumption
  <2>3. Stored(kind, k) \in global <=> Stored(kind, k) \in Built(root)
    BY <2>1, <2>2 DEF RuleInv, RootAgrees
  <2>4. Has(global, kind, k) <=> Stored(kind, k) \in global
    <3>1. CASE kind = "suffix"
      <4>1. Len(k.name) \in Nat /\ Len(k.name) <= 2
        BY <2>1, <2>2, <3>1, LenProperties
      <4>2. LastTwo(k.name) = k.name
        BY <4>1 DEF LastTwo
      <4>3. Stored(kind, k) = [name |-> k.name, dot |-> TRUE]
        BY <3>1 DEF Stored, Dotted
      <4> QED BY <3>1, <4>2, <4>3 DEF Has
    <3>2. CASE kind # "suffix"
      BY <3>2 DEF Has, Stored
    <3> QED BY <3>1, <3>2
  <2> QED BY <2>1, <2>3, <2>4 DEF Known
<1> QED BY <1>1, RulesAgree, PTL
=============================================================================
