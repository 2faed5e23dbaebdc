----------------------------- MODULE BlockList -----------------------------
(***************************************************************************)
(* The lists of blocked domains: the refresh goroutine of                  *)
(* internal/blocklist/blocklist.go and the two handlers that change the    *)
(* URLs (internal/api/handlers.go).  Neither b.urls nor b.blockedDomains   *)
(* is guarded by a lock, and the handlers read cfg.BlockList.URLs without  *)
(* mu.  (When the block list is disabled there is no goroutine and the     *)
(* handlers only change the configuration.)  A restart begins anew from    *)
(* the URLs of config.json, which is ConfigStore's subject.                *)
(*                                                                         *)
(* A slice is three words in memory.  A goroutine that reads one while     *)
(* another writes it can see the array of one list with the length of the  *)
(* other.  A length beyond the array yields either an empty path, which    *)
(* cannot be opened, or a fault, which ends the process and the behaviour. *)
(***************************************************************************)
EXTENDS Naturals, FiniteSets

CONSTANTS
  URL,      \* sources of lists, remote or local
  Domain,   \* the domains they may carry
  Lists,    \* what each carries in the second field of its lines
  Client,   \* goroutines of the API server
  None      \* no request

ASSUME ListsAssumption ==
  /\ Lists \in [URL -> SUBSET Domain]
  /\ None \notin [add : BOOLEAN, url : URL]
  /\ IsFiniteSet(URL)

VARIABLES
  cfgURLs,   \* cfg.BlockList.URLs
  pc,        \* where each client's handler is
  job,       \* what it has still to change in the configuration
  handed,    \* the list it passes to UpdateURLs
  urls,      \* b.urls
  signal,    \* a token is in forceUpdate
  phase,     \* where the refresh goroutine is
  todo,      \* the URLs its loop has still to read
  gathered,  \* newBlockedDomains
  blocked,   \* blockedDomains
  \* history, read by no guard of the code
  cur,       \* the URLs the running refresh set out to read
  missed,    \* those it has failed to read completely
  base,      \* cur of the last refresh that was published
  gaps,      \* missed of that refresh
  raced      \* requests have overlapped since the last one that began alone

request == <<pc, job, handed, raced>>
refresh == <<phase, todo, gathered, blocked, cur, missed, base, gaps>>
vars    == <<cfgURLs, request, urls, signal, refresh>>

Job == [add : BOOLEAN, url : URL]

TypeOK ==
  /\ cfgURLs \in SUBSET URL /\ urls \in SUBSET URL /\ signal \in BOOLEAN
  /\ pc \in [Client -> {"idle", "change", "read", "update", "force"}]
  /\ job \in [Client -> Job \cup {None}]
  /\ handed \in [Client -> SUBSET URL]
  /\ phase \in {"begin", "load", "wait", "stopped"}
  /\ todo \in SUBSET URL /\ cur \in SUBSET URL /\ base \in SUBSET URL
  /\ missed \in SUBSET URL /\ gaps \in SUBSET URL
  /\ gathered \in SUBSET Domain /\ blocked \in SUBSET Domain
  /\ raced \in BOOLEAN

\* NewBlockList and Start: the first refresh is not waited for.
Init ==
  /\ cfgURLs \in SUBSET URL /\ urls = cfgURLs /\ signal = FALSE
  /\ pc = [c \in Client |-> "idle"]
  /\ job = [c \in Client |-> None]
  /\ handed = [c \in Client |-> {}]
  /\ phase = "begin" /\ todo = {} /\ gathered = {} /\ blocked = {}
  /\ cur = {} /\ missed = {} /\ base = {} /\ gaps = {}
  /\ raced = FALSE

-----------------------------------------------------------------------------
(* Slices read while they are written.                                     *)

Min2(m, n) == IF m <= n THEN m ELSE n

\* The array of A with the length of B.
Torn(A, B) ==
  {S \in SUBSET A :
     Cardinality(S) = Min2(Cardinality(A), Cardinality(B))}

\* What a read of a slice that holds A returns while those of W are written.
SliceRead(A, W) == {A} \cup UNION {Torn(A, B) \cup Torn(B, A) : B \in W}

-----------------------------------------------------------------------------
(* addBlocklistURL and removeBlocklistURL.                                 *)

Window == {"change", "read", "update", "force"}

Goto(c, from, to) ==
  /\ pc[c] = from
  /\ pc' = [pc EXCEPT ![c] = to]

Begin(c, j) ==
  /\ Goto(c, "idle", "change")
  /\ job' = [job EXCEPT ![c] = j]
  /\ raced' = \E d \in Client : pc[d] \in Window
  /\ UNCHANGED <<cfgURLs, handed, urls, signal, refresh>>

\* AddBlockListURL appends unless present, RemoveBlockListURL filters.
Applied(A, j) == IF j.add THEN A \cup {j.url} ELSE A \ {j.url}

Change(c) ==
  /\ Goto(c, "change", "read")
  /\ cfgURLs' = Applied(cfgURLs, job[c])
  /\ job' = [job EXCEPT ![c] = None]
  /\ UNCHANGED <<handed, raced, urls, signal, refresh>>

\* The lists that other requests are about to store in the configuration.
Changing(c) ==
  {Applied(cfgURLs, job[d]) : d \in {d \in Client \ {c} : pc[d] = "change"}}

ReadURLs(c) ==
  /\ Goto(c, "read", "update")
  /\ \E A \in SliceRead(cfgURLs, Changing(c)) :
       handed' = [handed EXCEPT ![c] = A]
  /\ UNCHANGED <<cfgURLs, job, raced, urls, signal, refresh>>

UpdateURLs(c) ==
  /\ Goto(c, "update", "force")
  /\ urls' = handed[c]
  /\ UNCHANGED <<cfgURLs, job, handed, raced, signal, refresh>>

\* Two handlers write b.urls at the same time and leave it torn.
UpdateTogether(c, d) ==
  /\ c # d /\ pc[c] = "update" /\ pc[d] = "update"
  /\ pc' = [pc EXCEPT ![c] = "force", ![d] = "force"]
  /\ urls' \in Torn(handed[c], handed[d])
  /\ UNCHANGED <<cfgURLs, job, handed, raced, signal, refresh>>

\* The request that is answered leaves nothing behind.
Answered(c) ==
  /\ pc[c] = "force"
  /\ pc' = [pc EXCEPT ![c] = "idle"]
  /\ handed' = [handed EXCEPT ![c] = {}]
  /\ UNCHANGED job

\* Variant: forceUpdate has no buffer.
ForceUnbuffered(c) ==
  /\ Answered(c)
  /\ signal' = (signal \/ phase = "wait")
  /\ UNCHANGED <<cfgURLs, raced, urls, refresh>>

\* ForceRefresh: one token fits, a second one is dropped.  SaveConfig and the
\* answer follow, and touch nothing of this.
ForceRefresh(c) ==
  /\ Answered(c)
  /\ signal' = TRUE
  /\ UNCHANGED <<cfgURLs, raced, urls, refresh>>

Handler(c) ==
  \/ Change(c) \/ ReadURLs(c) \/ UpdateURLs(c) \/ ForceRefresh(c)
  \/ \E d \in Client : UpdateTogether(c, d)

-----------------------------------------------------------------------------
(* The refresh goroutine.                                                  *)

\* Variant: the live set is emptied and filled in place.
StartRefreshInPlace ==
  /\ phase' = "load"
  /\ cur' = urls /\ todo' = urls
  /\ gathered' = {} /\ missed' = {} /\ blocked' = {}
  /\ UNCHANGED <<base, gaps>>

\* updateLists evaluates b.urls once, when its loop begins.
StartRefresh ==
  /\ phase' = "load"
  /\ cur' \in SliceRead(urls, {handed[c] : c \in {c \in Client : pc[c] = "update"}})
  /\ todo' = cur'
  /\ gathered' = {} /\ missed' = {}
  /\ UNCHANGED <<blocked, base, gaps>>

First ==
  /\ phase = "begin" /\ StartRefresh
  /\ UNCHANGED <<cfgURLs, request, urls, signal>>

\* select takes any case that is ready.
OnSignal ==
  /\ phase = "wait" /\ signal /\ signal' = FALSE /\ StartRefresh
  /\ UNCHANGED <<cfgURLs, request, urls>>

OnTick ==
  /\ phase = "wait" /\ StartRefresh
  /\ UNCHANGED <<cfgURLs, request, urls, signal>>

OnDone ==
  /\ phase = "wait" /\ phase' = "stopped"
  /\ UNCHANGED <<cfgURLs, request, urls, signal, todo, gathered, blocked, cur,
                 missed, base, gaps>>

\* Variant: the first field of a line is taken, the address.
LoadAddress(u) ==
  /\ phase = "load" /\ u \in todo
  /\ todo' = todo \ {u}
  /\ gathered' = gathered \cup {None}
  /\ UNCHANGED <<cfgURLs, request, urls, signal, phase, blocked,
                 cur, missed, base, gaps>>

\* A list is read to its end.
Load(u) ==
  /\ phase = "load" /\ u \in todo
  /\ todo' = todo \ {u}
  /\ gathered' = gathered \cup Lists[u]
  /\ UNCHANGED <<cfgURLs, request, urls, signal, phase, blocked,
                 cur, missed, base, gaps>>

\* Variant: a refresh that fails to read a list starts over.
LoadFailsStartsOver(u) ==
  /\ phase = "load" /\ u \in todo /\ phase' = "begin"
  /\ todo' = {} /\ gathered' = {} /\ cur' = {} /\ missed' = {}
  /\ UNCHANGED <<cfgURLs, request, urls, signal, blocked, base, gaps>>

\* It cannot be had at all, or the reader stops with an error: what came
\* before the error stays.
LoadFails(u) ==
  /\ phase = "load" /\ u \in todo
  /\ todo' = todo \ {u}
  /\ \E part \in SUBSET Lists[u] : gathered' = gathered \cup part
  /\ missed' = missed \cup {u}
  /\ UNCHANGED <<cfgURLs, request, urls, signal, phase, blocked,
                 cur, base, gaps>>

\* The new set takes the place of the old one in one assignment.
Publish ==
  /\ phase = "load" /\ todo = {} /\ phase' = "wait"
  /\ blocked' = gathered /\ gathered' = {}
  /\ base' = cur /\ gaps' = missed /\ cur' = {} /\ missed' = {}
  /\ UNCHANGED <<cfgURLs, request, urls, signal, todo>>

Refresher ==
  \/ First \/ OnSignal \/ Publish
  \/ \E u \in URL : Load(u) \/ LoadFails(u)

-----------------------------------------------------------------------------
Next ==
  \/ \E c \in Client, j \in Job : Begin(c, j)
  \/ \E c \in Client : Handler(c)
  \/ Refresher \/ OnTick \/ OnDone

Spec == Init /\ [][Next]_vars

(***************************************************************************)
(* A handler and the refresh goroutine go on when they can: a download     *)
(* ends within the ten seconds of the HTTP client, with or without the     *)
(* list.  The ticker is not counted on: it fires once in refresh_hours;    *)
(* nor is the end of ctx.                                                  *)
(***************************************************************************)
FairSpec ==
  /\ Spec /\ WF_vars(Refresher)
  /\ \A c \in Client : WF_vars(Handler(c))

-----------------------------------------------------------------------------
(* Properties.                                                             *)

\* Nothing is under way: no handler is between its change and its signal, no
\* signal waits, and the refresh goroutine sleeps.
Quiet ==
  /\ phase = "wait" /\ ~signal
  /\ \A c \in Client : pc[c] \notin Window

\* Once everything has come to rest, the blocked domains are those of the
\* list that UpdateURLs was last given, although a refresh may have been
\* running when it changed, and unless requests overlapped this is the list
\* of the configuration.
LatestListsInForce ==
  Quiet => base = urls /\ (~raced => urls = cfgURLs)

\* At every moment, also while a refresh is running or has lost some of its
\* lists, a question is judged by one complete refresh: everything on a list
\* it read to the end is blocked, and nothing that is on none of its lists.
OneRefreshInForce ==
  /\ \A u \in base \ gaps : Lists[u] \subseteq blocked
  /\ blocked \subseteq UNION {Lists[u] : u \in base}

\* What the refresh goroutine has still to do for the signals given so far: a
\* step per list of the refresh it is in, and a whole refresh if a token waits.
RefreshWork ==
  LET All == Cardinality(URL)
  IN  (IF signal THEN All + 2 ELSE 0)
        + (IF phase = "begin" THEN All + 2
           ELSE IF phase = "load" THEN Cardinality(todo) + 1 ELSE 0)

\* However many requests were coalesced into the token, and whatever lists
\* cannot be had, each step of the refresh goroutine other than one for the
\* ticker leaves it less to do: no failed download makes it begin anew.
RefreshRunsOut ==
  [][Refresher => RefreshWork' \in 0 .. RefreshWork - 1]_vars

\* When the requests stop, the lists in force come to be those last handed to
\* UpdateURLs, and stay so, without the ticker and whatever downloads fail,
\* unless the service is stopped.
ListsConverge ==
  <>[](\A c \in Client : pc[c] = "idle")
    => <>[](base = urls \/ phase = "stopped")
=============================================================================
