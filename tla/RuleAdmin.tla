----------------------------- MODULE RuleAdmin -----------------------------
(***************************************************************************)
(* The routing rules and their three copies: the Config in memory, the     *)
(* DomainCaches that the DNS handler consults, and config.json.            *)
(* internal/api/handlers.go changes the first two line by line, with no    *)
(* lock over both; run in cmd/dns-box/main.go builds the caches from the   *)
(* file when the program starts; internal/dns/handler.go matches a         *)
(* question against the caches.                                            *)
(*                                                                         *)
(* A name is its sequence of labels.  A key, which is what a line of a     *)
(* request, a rule and a cache entry are, is a name with or without a      *)
(* leading dot.  SaveConfig is one step here, as ConfigStore justifies.    *)
(***************************************************************************)
EXTENDS Naturals, Sequences

CONSTANTS
  Label,       \* what names consist of
  DomainLine,  \* lines that clients send to the domain endpoints
  SuffixLine,  \* lines that clients send to the suffix endpoints
  Asked,       \* names that DNS clients ask for
  List,        \* indexes of GetIPSetLists()
  Legacy,      \* ipset.lists is empty: ipv4name names the only list
  Root,        \* the endpoints /domains and /suffixes
  Endpoint,    \* the endpoints in use: Root or /ipset/{list} for a list
  Client,      \* requests in progress at a time
  None         \* no request, or no line of it

Line == DomainLine \cup SuffixLine
Dotted(k) == [name |-> k.name, dot |-> TRUE]
Key  == Line \cup {Dotted(k) : k \in Line}

Rules == [domain : SUBSET Line, suffix : SUBSET Line]

ASSUME RuleAssumption ==
  /\ \A k \in Line : /\ k = [name |-> k.name, dot |-> k.dot]
                     /\ k.name \in Seq(Label) /\ k.dot \in BOOLEAN
  /\ Asked \subseteq Seq(Label)
  /\ Legacy \in BOOLEAN
  /\ Root \notin List /\ None \notin Line
  /\ Legacy => \A i, j \in List : i = j
  /\ Endpoint \subseteq {Root} \cup List

VARIABLES
  root,    \* cfg.Rules
  lists,   \* cfg.IPSet.Lists[i].Rules
  disk,    \* both of them in config.json
  global,  \* domainCache
  caches,  \* listDomainCaches
  pc,      \* where each request is
  job,     \* its endpoint, operation and current line
  apart    \* history only: the keys <<endpoint, key>> whose rules were last
           \* changed in a way in which cache and Config may come apart

cfg  == <<root, lists>>
vars == <<cfg, disk, global, caches, pc, job, apart>>

Kind == {"domain", "suffix"}
Op   == {"add", "remove"}
Job  == [at : Endpoint, kind : Kind, op : Op, line : {None} \cup Line]

\* In the middle of a line.
Inside == {"cache", "cfg", "has", "put", "drop"}

Lines(kind) == IF kind = "domain" THEN DomainLine ELSE SuffixLine

-----------------------------------------------------------------------------
(* DomainCache.                                                            *)

\* Variant: a suffix is stored without its dot.
StoredBare(kind, k) == IF kind = "suffix" THEN [k EXCEPT !.dot = FALSE] ELSE k

\* Add and AddSuffix.
Stored(kind, k) == IF kind = "suffix" THEN Dotted(k) ELSE k

LastTwo(n) == IF Len(n) > 2 THEN SubSeq(n, Len(n) - 1, Len(n)) ELSE n

\* Contains and ContainsSuffix.
Has(cache, kind, k) ==
  IF kind = "suffix" THEN [name |-> LastTwo(k.name), dot |-> TRUE] \in cache
                     ELSE k \in cache

\* isDomainInList, and shouldProcess for one cache: the name itself, or any
\* tail of it with two labels or more.
Matches(cache, n) ==
  \/ Has(cache, "domain", [name |-> n, dot |-> FALSE])
  \/ Len(n) >= 2 /\ Has(cache, "suffix", [name |-> n, dot |-> FALSE])

ShouldProcess(n) == Matches(global, n) \/ \E i \in List : Matches(caches[i], n)

\* processAnswers puts the addresses of n into the set of list i.
Routed(n, i) == ShouldProcess(n) /\ Matches(caches[i], n)

\* What run puts into a cache for a set of rules.
Built(r) == {Stored("domain", k) : k \in r.domain}
              \cup {Stored("suffix", k) : k \in r.suffix}

-----------------------------------------------------------------------------
(* Config.                                                                 *)

\* GetIPSetLists()[i].Rules
RulesOf(i) == IF Legacy THEN root ELSE lists[i]

TypeOK ==
  /\ root \in Rules /\ lists \in [List -> Rules]
  /\ disk \in [root : Rules, lists : [List -> Rules]]
  /\ global \in SUBSET Key /\ caches \in [List -> SUBSET Key]
  /\ pc \in [Client -> {"idle", "line"} \cup Inside]
  /\ job \in [Client -> {None} \cup Job]
  /\ apart \subseteq Endpoint \X Key

Change(S, op, k) == IF op = "add" THEN S \cup {k} ELSE S \ {k}

Edited(r, j) == [r EXCEPT ![j.kind] = Change(@, j.op, j.line)]

\* The rules that endpoint ep edits.
RulesAt(ep) == IF ep = Root THEN root ELSE RulesOf(ep)

\* AddDomain ... RemoveSuffixFromList: in legacy mode the only list shares
\* the root rules.
ConfigOp(j) ==
  IF j.at = Root \/ Legacy
    THEN root' = Edited(root, j) /\ UNCHANGED lists
    ELSE lists' = [lists EXCEPT ![j.at] = Edited(@, j)] /\ UNCHANGED root

Load(f) ==
  /\ root' = f.root /\ lists' = f.lists
  /\ global' = Built(f.root)
  /\ caches' = [i \in List |-> Built(IF Legacy THEN f.root ELSE f.lists[i])]

Init ==
  /\ root = [domain |-> {}, suffix |-> {}]
  /\ lists = [i \in List |-> root]
  /\ disk = [root |-> root, lists |-> lists]
  /\ global = {} /\ caches = [i \in List |-> {}]
  /\ pc = [c \in Client |-> "idle"]
  /\ job = [c \in Client |-> None]
  /\ apart = {}

-----------------------------------------------------------------------------
(* A request.                                                              *)

Submit(c) ==
  /\ pc[c] = "idle"
  /\ pc' = [pc EXCEPT ![c] = "line"]
  /\ \E ep \in Endpoint, kind \in Kind, op \in Op :
       job' = [job EXCEPT ![c] =
                 [at |-> ep, kind |-> kind, op |-> op, line |-> None]]
  /\ UNCHANGED <<cfg, disk, global, caches, apart>>

\* The key under which run stores the rule of a request, and the keys that the
\* request changes: Remove deletes the line as it is written.
Subject(j) == Stored(j.kind, j.line)
Keys(j)    == {Subject(j)} \cup (IF j.op = "remove" THEN {j.line} ELSE {})

\* Request c is in the middle of a line that changes key x of endpoint ep.
Working(c, ep, x) == pc[c] \in Inside /\ job[c].at = ep /\ x \in Keys(job[c])

\* A remove that does not name the key that is stored.
Respelt(j) == j.op = "remove" /\ j.line # Subject(j)

\* The Config has another rule that is stored under the key of j.
Shared(j) ==
  \E kind \in Kind : \E k \in RulesAt(j.at)[kind] :
    Stored(kind, k) = Subject(j) /\ (kind # j.kind \/ k # j.line)

\* A remove that does not take the same from the Config and from the cache.
Misread(j) == Respelt(j) \/ (j.op = "remove" /\ Shared(j))

\* Request d is in the middle of a rule that is stored under the key of j, and
\* does the opposite or removes another rule.
Against(d, j) ==
  /\ Working(d, j.at, Subject(j))
  /\ \/ job[d].op # j.op
     \/ j.op = "remove" /\ (job[d].kind # j.kind \/ job[d].line # j.line)

\* The body may have k as its next line.
Turn(c, k) == pc[c] = "line" /\ k \in Lines(job[c].kind)

\* Nothing keeps two requests from one rule.  The history notes the keys of a
\* line that is misread or meets a request against it, and lets those of any
\* other line go.
Take(c, k) ==
  LET j       == [job[c] EXCEPT !.line = k]
      touched == {j.at} \X Keys(j)
  IN /\ Turn(c, k)
     /\ job' = [job EXCEPT ![c] = j]
     /\ apart' = IF Misread(j) \/ \E d \in Client : Against(d, j)
                 THEN apart \cup touched ELSE apart \ touched

\* On to the next line.
Done(c) ==
  /\ pc' = [pc EXCEPT ![c] = "line"]
  /\ job' = [job EXCEPT ![c].line = None]
  /\ UNCHANGED apart

\* The test with which addDomains ... removeSuffixes begin.
Known(c, k) == Has(global, job[c].kind, k)

\* addDomains and addSuffixes: "exist".
Exists(c, k) ==
  /\ Turn(c, k) /\ job[c].at = Root /\ job[c].op = "add"
  /\ Known(c, k)
  /\ UNCHANGED vars

\* removeDomains and removeSuffixes: "not found".
NotFound(c, k) ==
  /\ Turn(c, k) /\ job[c].at = Root /\ job[c].op = "remove"
  /\ ~Known(c, k)
  /\ UNCHANGED vars

Check(c, k) ==
  /\ Take(c, k) /\ job[c].at = Root
  /\ Known(c, k) <=> job[c].op = "remove"
  /\ pc' = [pc EXCEPT ![c] = "cache"]
  /\ UNCHANGED <<cfg, disk, global, caches>>

\* Remove deletes the key as it is written.
RootCache(c) ==
  /\ pc[c] = "cache"
  /\ global' = IF job[c].op = "add"
                 THEN global \cup {Stored(job[c].kind, job[c].line)}
                 ELSE global \ {job[c].line}
  /\ pc' = [pc EXCEPT ![c] = "cfg"]
  /\ UNCHANGED <<cfg, disk, caches, job, apart>>

\* Variant: the configuration only ever grows.
RootConfigKeeps(c) ==
  /\ pc[c] = "cfg"
  /\ ConfigOp([job[c] EXCEPT !.op = "add"])
  /\ Done(c)
  /\ UNCHANGED <<disk, global, caches>>

RootConfig(c) ==
  /\ pc[c] = "cfg"
  /\ ConfigOp(job[c])
  /\ Done(c)
  /\ UNCHANGED <<disk, global, caches>>

\* addListDomains ... removeListSuffixes change the configuration first.
ListConfig(c, k) ==
  /\ Take(c, k)
  /\ job[c].at \in List
  /\ ConfigOp(job'[c])
  /\ pc' = [pc EXCEPT ![c] = IF job[c].op = "add" THEN "has" ELSE "drop"]
  /\ UNCHANGED <<disk, global, caches>>

ListHas(c) ==
  /\ pc[c] = "has"
  /\ IF Has(caches[job[c].at], job[c].kind, job[c].line)
       THEN Done(c)
       ELSE pc' = [pc EXCEPT ![c] = "put"] /\ UNCHANGED <<job, apart>>
  /\ UNCHANGED <<cfg, disk, global, caches>>

ListPut(c) ==
  /\ pc[c] = "put"
  /\ caches' = [caches EXCEPT ![job[c].at] =
                  @ \cup {Stored(job[c].kind, job[c].line)}]
  /\ Done(c)
  /\ UNCHANGED <<cfg, disk, global>>

\* Variant: the cache of the first list is used for every list.
ListDropWrong(c) ==
  /\ pc[c] = "drop"
  /\ caches' = [caches EXCEPT ![CHOOSE i \in List : TRUE] = @ \ {job[c].line}]
  /\ Done(c)
  /\ UNCHANGED <<cfg, disk, global>>

ListDrop(c) ==
  /\ pc[c] = "drop"
  /\ caches' = [caches EXCEPT ![job[c].at] = @ \ {job[c].line}]
  /\ Done(c)
  /\ UNCHANGED <<cfg, disk, global>>

\* SaveConfig and the answer; an error leaves the file as it was.
Save(c) ==
  /\ pc[c] = "line"
  /\ pc' = [pc EXCEPT ![c] = "idle"]
  /\ job' = [job EXCEPT ![c] = None]
  /\ disk' \in {disk, [root |-> root, lists |-> lists]}
  /\ UNCHANGED <<cfg, global, caches, apart>>

\* The program stops at any moment and starts again.
Restart ==
  /\ Load(disk)
  /\ pc' = [c \in Client |-> "idle"] /\ job' = [c \in Client |-> None]
  /\ apart' = {}
  /\ UNCHANGED disk

Next ==
  \/ \E c \in Client :
       \/ Submit(c) \/ RootCache(c) \/ RootConfig(c)
       \/ ListHas(c) \/ ListPut(c) \/ ListDrop(c) \/ Save(c)
       \/ \E k \in Line :
            Exists(c, k) \/ NotFound(c, k) \/ Check(c, k) \/ ListConfig(c, k)
  \/ Restart

Spec == Init /\ [][Next]_vars

-----------------------------------------------------------------------------
(* Properties.                                                             *)

\* No request is in the middle of a rule that is stored under x, and since the
\* last change of one, cache and Config have had no cause to differ in it.
Settled(ep, x) ==
  <<ep, x>> \notin apart /\ \A c \in Client : ~Working(c, ep, x)

\* The two keys that decide about a name.
Own(n)    == [name |-> n, dot |-> FALSE]
Parent(n) == [name |-> LastTwo(n), dot |-> TRUE]

\* n is the name m or lies below it.
Below(n, m) ==
  Len(m) <= Len(n) /\ SubSeq(n, Len(n) - Len(m) + 1, Len(n)) = m

\* What the rules of a list stand for: a domain for itself; a suffix of two
\* labels, written with its dot or without, for the name after the dot and all
\* names below it, as README.md:208 says and not as :215 does; a suffix of
\* another length for nothing, where :208 makes no difference.  A domain that
\* is written with a dot is a suffix.
Covers(r, n) ==
  \/ Own(n) \in r.domain
  \/ \E k \in r.suffix \cup {d \in r.domain : d.dot} :
       Len(k.name) = 2 /\ Below(n, k.name)

\* What the resolver routes is what the configuration says: the addresses of a
\* name go to exactly those lists whose own rules cover it, as soon as the rules
\* for the name are settled and whatever goes on with the others.  So a restart
\* changes nothing, a removed rule stops working at once, and with lists
\* configured the rules of /domains and /suffixes route nothing.
RoutingMatchesConfig ==
  \A i \in List, n \in Asked :
    Settled(i, Own(n)) /\ Settled(i, Parent(n)) =>
      (Routed(n, i) <=> Covers(RulesOf(i), n))

\* The answers "exist" and "not found" of /domains and /suffixes are true of
\* the configuration, in whichever spelling it has the rule: a settled one that
\* is reported as missing does not come back with the next start, and a request
\* that was told "exist" needs no repetition.  Of suffixes with three labels or
\* more it is not claimed: ContainsSuffix looks for their last two.
AnswersTrue ==
  \A c \in Client : \A k \in Line :
    LET kind == job[c].kind IN
    /\ Turn(c, k) /\ job[c].at = Root /\ Settled(Root, Stored(kind, k))
    /\ kind = "suffix" => Len(k.name) <= 2
    => (Known(c, k) <=> Stored(kind, k) \in Built(root))
=============================================================================
