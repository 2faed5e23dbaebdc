-------------------------- MODULE BlockList_proofs --------------------------
(***************************************************************************)
(* Proofs about BlockList, for any set of URLs, domains and clients and    *)
(* any contents of the lists.                                              *)
(***************************************************************************)
EXTENDS BlockList, FiniteSetTheorems, TLAPS

\* A refresh that no signal and no handler is about to repeat works on, or
\* has published, the URLs of b.urls.
Current ==
  ~signal /\ (\A c \in Client : pc[c] \notin {"update", "force"}) =>
    /\ phase = "load" => cur = urls
    /\ phase = "wait" => base = urls

\* Requests that do not overlap hand on the configuration unchanged.
Alone ==
  ~raced =>
    /\ \A c, d \in Client : pc[c] \in Window /\ pc[d] \in Window => c = d
    /\ \A c \in Client : pc[c] = "update" => handed[c] = cfgURLs
    /\ (\A c \in Client : pc[c] \notin {"change", "read", "update"}) =>
         urls = cfgURLs

\* The set under construction holds what the loop has read so far.
Gathering ==
  phase = "load" =>
    /\ \A u \in cur \ (todo \cup missed) : Lists[u] \subseteq gathered
    /\ gathered \subseteq UNION {Lists[u] : u \in cur}
    /\ todo \subseteq cur

\* A handler that is to change the configuration has a job.
Asked == \A c \in Client : pc[c] = "change" => job[c] \in Job

ListInv ==
  TypeOK /\ Asked /\ Current /\ Alone /\ Gathering /\ OneRefreshInForce

-----------------------------------------------------------------------------
(* Slices.                                                                 *)

\* A slice that nobody writes is read as it is.
LEMMA UndisturbedRead == \A A : SliceRead(A, {}) = {A}
  BY DEF SliceRead

\* Whatever is read of a slice of URLs is a set of URLs.
LEMMA ReadType ==
  ASSUME NEW A \in SUBSET URL, NEW W \in SUBSET SUBSET URL
  PROVE  SliceRead(A, W) \subseteq SUBSET URL
  BY DEF SliceRead, Torn

LEMMA TornType ==
  ASSUME NEW A \in SUBSET URL, NEW B
  PROVE  Torn(A, B) \subseteq SUBSET URL
  BY DEF Torn

-----------------------------------------------------------------------------
LEMMA InitListInv == Init => ListInv
  BY DEF Init, ListInv, TypeOK, Current, Alone, Gathering, OneRefreshInForce,
         Window, Asked

LEMMA BeginInv ==
  ASSUME ListInv, NEW c \in Client, NEW j \in Job, Begin(c, j)
  PROVE  ListInv'
<1>1. TypeOK'
  BY DEF ListInv, TypeOK, Begin, Goto, Answered, refresh
<1>2. Asked'
  BY DEF ListInv, TypeOK, Asked, Begin, Goto, Answered, refresh
<1>3. Current'
  BY DEF ListInv, TypeOK, Current, Begin, Goto, Answered, refresh
<1>4. Alone'
  BY DEF ListInv, TypeOK, Alone, Begin, Goto, Answered, Window
<1>5. (Gathering /\ OneRefreshInForce)'
  BY DEF ListInv, Gathering, OneRefreshInForce, Begin, refresh
<1> QED BY <1>1, <1>2, <1>3, <1>4, <1>5 DEF ListInv

LEMMA ChangeInv ==
  ASSUME ListInv, NEW c \in Client, Change(c)
  PROVE  ListInv'
<1>a. Applied(cfgURLs, job[c]) \in SUBSET URL
  BY DEF ListInv, TypeOK, Asked, Change, Goto, Applied, Job
<1>1. TypeOK'
  BY <1>a DEF ListInv, TypeOK, Change, Goto, Answered, refresh
<1>2. Asked'
  BY DEF ListInv, TypeOK, Asked, Change, Goto, Answered, refresh
<1>3. Current'
  BY DEF ListInv, TypeOK, Current, Change, Goto, Answered, refresh
<1>4. Alone'
  BY DEF ListInv, TypeOK, Alone, Change, Goto, Answered, Window
<1>5. (Gathering /\ OneRefreshInForce)'
  BY DEF ListInv, Gathering, OneRefreshInForce, Change, refresh
<1> QED BY <1>1, <1>2, <1>3, <1>4, <1>5 DEF ListInv

LEMMA ReadURLsInv ==
  ASSUME ListInv, NEW c \in Client, ReadURLs(c)
  PROVE  ListInv'
<1>a. PICK A \in SliceRead(cfgURLs, Changing(c)) :
        A \in SUBSET URL /\ handed' = [handed EXCEPT ![c] = A]
  <2>1. Changing(c) \subseteq SUBSET URL
    BY DEF ListInv, TypeOK, Asked, Changing, Applied, Job
  <2> QED BY <2>1, ReadType DEF ListInv, TypeOK, ReadURLs
<1>b. ~raced => A = cfgURLs
  <2>1. ~raced => Changing(c) = {}
    BY DEF ListInv, Alone, ReadURLs, Goto, Changing, Window
  <2> QED BY <2>1, <1>a, UndisturbedRead
<1>1. TypeOK'
  BY <1>a DEF ListInv, TypeOK, ReadURLs, Goto, Answered, refresh
<1>2. Asked'
  BY DEF ListInv, TypeOK, Asked, ReadURLs, Goto, Answered, refresh
<1>3. Current'
  BY <1>a, <1>b DEF ListInv, TypeOK, Current, ReadURLs, Goto, Answered, refresh
<1>4. Alone'
  BY <1>a, <1>b DEF ListInv, TypeOK, Alone, ReadURLs, Goto, Answered, Window
<1>5. (Gathering /\ OneRefreshInForce)'
  BY DEF ListInv, Gathering, OneRefreshInForce, ReadURLs, refresh
<1> QED BY <1>1, <1>2, <1>3, <1>4, <1>5 DEF ListInv

LEMMA UpdateURLsInv ==
  ASSUME ListInv, NEW c \in Client, UpdateURLs(c)
  PROVE  ListInv'
<1>1. TypeOK'
  BY DEF ListInv, TypeOK, UpdateURLs, Goto, Answered, refresh
<1>2. Asked'
  BY DEF ListInv, TypeOK, Asked, UpdateURLs, Goto, Answered, refresh
<1>3. Current'
  BY DEF ListInv, TypeOK, Current, UpdateURLs, Goto, Answered, refresh
<1>4. Alone'
  BY DEF ListInv, TypeOK, Alone, UpdateURLs, Goto, Answered, Window
<1>5. (Gathering /\ OneRefreshInForce)'
  BY DEF ListInv, Gathering, OneRefreshInForce, UpdateURLs, refresh
<1> QED BY <1>1, <1>2, <1>3, <1>4, <1>5 DEF ListInv

LEMMA UpdateTogetherInv ==
  ASSUME ListInv, NEW c \in Client, NEW d \in Client, UpdateTogether(c, d)
  PROVE  ListInv'
<1>1. TypeOK'
  BY TornType DEF ListInv, TypeOK, UpdateTogether, Goto, Answered, refresh
<1>2. Asked'
  BY DEF ListInv, TypeOK, Asked, UpdateTogether, Goto, Answered, refresh
<1>3. Current'
  BY DEF ListInv, TypeOK, Current, UpdateTogether, Goto, Answered, refresh
<1>4. Alone'
  BY DEF ListInv, TypeOK, Alone, UpdateTogether, Goto, Answered, Window
<1>5. (Gathering /\ OneRefreshInForce)'
  BY DEF ListInv, Gathering, OneRefreshInForce, UpdateTogether, refresh
<1> QED BY <1>1, <1>2, <1>3, <1>4, <1>5 DEF ListInv

LEMMA ForceRefreshInv ==
  ASSUME ListInv, NEW c \in Client, ForceRefresh(c)
  PROVE  ListInv'
<1>1. TypeOK'
  BY DEF ListInv, TypeOK, ForceRefresh, Goto, Answered, refresh
<1>2. Asked'
  BY DEF ListInv, TypeOK, Asked, ForceRefresh, Goto, Answered, refresh
<1>3. Current'
  BY DEF ListInv, TypeOK, Current, ForceRefresh, Goto, Answered, refresh
<1>4. Alone'
  BY DEF ListInv, TypeOK, Alone, ForceRefresh, Goto, Answered, Window
<1>5. (Gathering /\ OneRefreshInForce)'
  BY DEF ListInv, Gathering, OneRefreshInForce, ForceRefresh, refresh
<1> QED BY <1>1, <1>2, <1>3, <1>4, <1>5 DEF ListInv

-----------------------------------------------------------------------------
(* The refresh goroutine.                                                  *)

\* A refresh reads b.urls as it is unless a handler is writing it, and that
\* handler has its signal still to send.
LEMMA StartRefreshInv ==
  ASSUME ListInv, StartRefresh, phase \in {"begin", "wait"},
         UNCHANGED <<cfgURLs, request, urls>>, signal' \in BOOLEAN
  PROVE  ListInv'
<1> DEFINE Written == {handed[c] : c \in {c \in Client : pc[c] = "update"}}
<1>1. cur' \in SUBSET URL
  <2>1. Written \subseteq SUBSET URL
    BY DEF ListInv, TypeOK
  <2> QED BY <2>1, ReadType DEF ListInv, TypeOK, StartRefresh
<1>2. (\A c \in Client : pc[c] # "update") => cur' = urls
  <2>1. (\A c \in Client : pc[c] # "update") => Written = {}
    OBVIOUS
  <2> QED BY <2>1, UndisturbedRead DEF StartRefresh
<1>3. TypeOK'
  BY <1>1 DEF ListInv, TypeOK, StartRefresh, request
<1>4. Current'
  BY <1>2 DEF Current, StartRefresh, request
<1>5. (Asked /\ Alone /\ Gathering /\ OneRefreshInForce)'
  BY DEF ListInv, Asked, Alone, Gathering, OneRefreshInForce, StartRefresh, request
<1> QED BY <1>3, <1>4, <1>5 DEF ListInv

LEMMA WakeInv ==
  ASSUME ListInv, First \/ OnSignal \/ OnTick
  PROVE  ListInv'
<1>1. CASE First
  BY <1>1, StartRefreshInv DEF First, ListInv, TypeOK
<1>2. CASE OnSignal
  BY <1>2, StartRefreshInv DEF OnSignal
<1>3. CASE OnTick
  BY <1>3, StartRefreshInv DEF OnTick, ListInv, TypeOK
<1> QED BY <1>1, <1>2, <1>3

LEMMA OnDoneInv ==
  ASSUME ListInv, OnDone
  PROVE  ListInv'
  BY DEF OnDone, ListInv, TypeOK, Asked, Current, Alone, Gathering,
         OneRefreshInForce, request

LEMMA LoadInv ==
  ASSUME ListInv, NEW u \in URL, Load(u) \/ LoadFails(u)
  PROVE  ListInv'
<1>1. /\ phase = "load" /\ phase' = "load" /\ u \in todo
      /\ todo' = todo \ {u}
      /\ gathered \subseteq gathered'
      /\ gathered' \subseteq gathered \cup Lists[u]
      /\ \/ Lists[u] \subseteq gathered' /\ missed' = missed
         \/ missed' = missed \cup {u}
      /\ UNCHANGED <<cfgURLs, request, urls, signal, blocked, cur, base, gaps>>
  BY DEF Load, LoadFails
<1>2. Lists[u] \subseteq Domain
  BY ListsAssumption
<1>3. TypeOK'
  BY <1>1, <1>2 DEF ListInv, TypeOK, request
<1>4. (Asked /\ Current /\ Alone /\ OneRefreshInForce)'
  BY <1>1 DEF ListInv, Asked, Current, Alone, OneRefreshInForce, request
<1>5. Gathering'
  BY <1>1 DEF ListInv, Gathering
<1> QED BY <1>3, <1>4, <1>5 DEF ListInv

LEMMA PublishInv ==
  ASSUME ListInv, Publish
  PROVE  ListInv'
<1>1. TypeOK'
  BY DEF ListInv, TypeOK, Publish, request
<1>2. (Asked /\ Current /\ Alone)'
  BY DEF ListInv, Asked, Current, Alone, Publish, request
<1>3. (Gathering /\ OneRefreshInForce)'
  BY DEF ListInv, Gathering, OneRefreshInForce, Publish
<1> QED BY <1>1, <1>2, <1>3 DEF ListInv

-----------------------------------------------------------------------------
\* What the two invariants rest on holds in every reachable state.
THEOREM ListInvariant == Spec => []ListInv
<1>1. ListInv /\ [Next]_vars => ListInv'
  <2> SUFFICES ASSUME ListInv, [Next]_vars PROVE ListInv'
    OBVIOUS
  <2>1. CASE \E c \in Client, j \in Job : Begin(c, j)
    BY <2>1, BeginInv
  <2>2. CASE \E c \in Client : Handler(c)
    BY <2>2, ChangeInv, ReadURLsInv, UpdateURLsInv, ForceRefreshInv,
       UpdateTogetherInv DEF Handler
  <2>3. CASE Refresher
    BY <2>3, WakeInv, PublishInv, LoadInv DEF Refresher
  <2>4. CASE OnTick \/ OnDone
    BY <2>4, WakeInv, OnDoneInv
  <2>5. CASE UNCHANGED vars
    BY <2>5 DEF vars, request, refresh, ListInv, TypeOK, Asked, Current, Alone,
                Gathering, OneRefreshInForce
  <2> QED BY <2>1, <2>2, <2>3, <2>4, <2>5 DEF Next
<1> QED BY InitListInv, <1>1, PTL DEF Spec

\* The variables keep their types.
THEOREM TypeCorrect == Spec => []TypeOK
  BY ListInvariant, PTL DEF ListInv

\* Once no signal and no handler is on its way to the refresh goroutine, the
\* lists in force are those last handed to UpdateURLs, and those of the
\* configuration if requests did not overlap.
THEOREM InForce == Spec => []LatestListsInForce
<1>1. ListInv => LatestListsInForce
  BY DEF ListInv, Current, Alone, LatestListsInForce, Quiet, Window
<1> QED BY <1>1, ListInvariant, PTL

\* A question is never judged by half a refresh.
THEOREM OneRefresh == Spec => []OneRefreshInForce
  BY ListInvariant, PTL DEF ListInv

-----------------------------------------------------------------------------
\* Lists of URLs are finite, and no longer than that of all of them.
LEMMA ListSize ==
  ASSUME NEW A \in SUBSET URL
  PROVE  /\ IsFiniteSet(A)
         /\ Cardinality(A) \in Nat /\ Cardinality(URL) \in Nat
         /\ Cardinality(A) <= Cardinality(URL)
  BY ListsAssumption, FS_Subset, FS_CardinalityType

LEMMA ListShrinks ==
  ASSUME NEW A \in SUBSET URL, NEW u \in A
  PROVE  Cardinality(A) = Cardinality(A \ {u}) + 1
<1>1. IsFiniteSet(A) /\ Cardinality(A) \in Nat
  BY ListSize
<1>2. Cardinality(A \ {u}) = Cardinality(A) - 1
  BY <1>1, FS_RemoveElement
<1> QED BY <1>1, <1>2

\* The cases of RefreshWork.
LEMMA WorkFacts ==
  ASSUME TypeOK
  PROVE  /\ phase = "begin" => RefreshWork = (IF signal THEN Cardinality(URL) + 2 ELSE 0)
                                               + (Cardinality(URL) + 2)
         /\ phase = "load"  => RefreshWork = (IF signal THEN Cardinality(URL) + 2 ELSE 0)
                                               + (Cardinality(todo) + 1)
         /\ phase = "wait"  => RefreshWork = (IF signal THEN Cardinality(URL) + 2 ELSE 0) + 0
  BY DEF RefreshWork

\* One step of the refresh goroutine is that much less to do.
LEMMA RefreshWorkFalls ==
  ASSUME ListInv, ListInv', Refresher
  PROVE  RefreshWork' \in 0 .. RefreshWork - 1
<1> DEFINE All == Cardinality(URL)
           Due(s) == IF s THEN All + 2 ELSE 0
<1>1. /\ TypeOK /\ TypeOK'
      /\ All \in Nat /\ Cardinality(todo) \in Nat /\ Cardinality(todo') \in Nat
      /\ Cardinality(todo') <= All
  BY ListSize DEF ListInv, TypeOK
<1>2. Due(signal) \in Nat /\ Due(TRUE) = All + 2 /\ Due(FALSE) = 0
  BY <1>1
<1>3. /\ phase = "begin" => RefreshWork = Due(signal) + (All + 2)
      /\ phase = "load"  => RefreshWork = Due(signal) + (Cardinality(todo) + 1)
      /\ phase = "wait"  => RefreshWork = Due(signal) + 0
  BY <1>1, WorkFacts
<1>4. /\ phase' = "load" => RefreshWork' = Due(signal') + (Cardinality(todo') + 1)
      /\ phase' = "wait" => RefreshWork' = Due(signal') + 0
  BY <1>1, WorkFacts DEF RefreshWork
<1> HIDE DEF All, Due
<1>5. CASE First
  <2>1. phase = "begin" /\ phase' = "load" /\ signal' = signal
    BY <1>5 DEF First, StartRefresh
  <2> QED BY <1>1, <1>2, <1>3, <1>4, <2>1
<1>6. CASE OnSignal
  <2>1. phase = "wait" /\ phase' = "load" /\ signal = TRUE /\ signal' = FALSE
    BY <1>1, <1>6 DEF OnSignal, StartRefresh, TypeOK
  <2>2. Due(signal) = All + 2 /\ Due(signal') = 0
    BY <1>2, <2>1
  <2>3. RefreshWork = All + 2 + 0 /\ RefreshWork' = 0 + (Cardinality(todo') + 1)
    BY <1>3, <1>4, <2>1, <2>2
  <2> QED BY <1>1, <2>3
<1>7. CASE Publish
  <2>1. phase = "load" /\ phase' = "wait" /\ signal' = signal
    BY <1>7 DEF Publish
  <2> QED BY <1>1, <1>2, <1>3, <1>4, <2>1
<1>8. CASE \E u \in URL : Load(u) \/ LoadFails(u)
  <2>1. PICK u \in todo : /\ phase = "load" /\ phase' = "load" /\ signal' = signal
                          /\ todo' = todo \ {u}
    BY <1>8 DEF Load, LoadFails
  <2>2. Cardinality(todo) = Cardinality(todo') + 1
    BY <1>1, <2>1, ListShrinks DEF TypeOK
  <2> QED BY <1>1, <1>2, <1>3, <1>4, <2>1, <2>2
<1> QED BY <1>5, <1>6, <1>7, <1>8 DEF Refresher

\* However many lists there are and whichever fail, the refresh goroutine comes
\* to rest after so many steps, if no request and no tick gives it new work: the
\* safe half of ListsConverge, whose other half is InForce.
THEOREM RunsOut == Spec => RefreshRunsOut
<1>1. ListInv /\ ListInv' /\ [Next]_vars
        => [Refresher => RefreshWork' \in 0 .. RefreshWork - 1]_vars
  BY RefreshWorkFalls
<1> QED BY <1>1, ListInvariant, PTL DEF Spec, RefreshRunsOut
=============================================================================
