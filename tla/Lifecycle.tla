----------------------------- MODULE Lifecycle -----------------------------
(***************************************************************************)
(* How dns-box starts and stops: run() in cmd/dns-box/main.go, the DNS     *)
(* servers of internal/dns/server.go and the API server of                 *)
(* internal/api/server.go.  Each is a goroutine of its own, and nothing    *)
(* waits for one to be up before the next one starts or ctx is cancelled.  *)
(* What a request changes is reduced to an entry of its own, a save to the *)
(* step that AtomicConfig shows it to be.  The libraries miekg/dns and     *)
(* net/http are external: Listen, Drain and the two Shutdowns are what     *)
(* server.go relies on.                                                    *)
(***************************************************************************)
EXTENDS Naturals, FiniteSets

CONSTANTS
  Addr,          \* cfg.Server.Address; run needs at least one
  Request,       \* requests that change the configuration
  MaxQuestions   \* bound: questions in flight on one address

ASSUME LifecycleAssumption ==
  /\ Addr # {} /\ IsFiniteSet(Addr)
  /\ MaxQuestions \in Nat

VARIABLES
  proc,       \* "running", "exited" by returning from main, or "panicked"
  main,       \* where run is
  cancelled,  \* ctx is done
  server,     \* each DNS server
  watcher,    \* the goroutine that shuts it down
  counted,    \* the addresses the WaitGroup counts
  questions,  \* questions each server is working on
  api,        \* the HTTP server
  request,    \* where the handler of each request is
  mem,        \* the requests whose change is in memory
  disk,       \* those whose change is in config.json
  \* history, read by no guard of the code
  early,      \* ctx was done before every DNS server listened or had failed
  failed      \* a save has failed

dnsState == <<server, watcher, counted, questions>>
config   == <<mem, disk, failed>>
vars     == <<proc, main, cancelled, dnsState, api, request, config, early>>

Position == {"dns", "api", "wait", "save", "dnsstop", "apistop", "drain", "end"}

TypeOK ==
  /\ proc \in {"running", "exited", "panicked"}
  /\ main \in Position
  /\ cancelled \in BOOLEAN /\ early \in BOOLEAN /\ failed \in BOOLEAN
  /\ server \in [Addr -> {"none", "created", "listening", "draining", "over"}]
  /\ watcher \in [Addr -> {"none", "waiting", "done"}]
  /\ counted = {a \in Addr : server[a] \in {"created", "listening", "draining"}}
  /\ questions \in [Addr -> 0..MaxQuestions]
  /\ api \in {"none", "made", "listening", "closing"}
  /\ request \in [Request -> {"new", "change", "save", "answered"}]
  /\ mem \in SUBSET Request /\ disk \in SUBSET mem

Init ==
  /\ proc = "running" /\ main = "dns" /\ cancelled = FALSE
  /\ server = [a \in Addr |-> "none"]
  /\ watcher = [a \in Addr |-> "none"]
  /\ counted = {}
  /\ questions = [a \in Addr |-> 0]
  /\ api = "none"
  /\ request = [r \in Request |-> "new"]
  /\ mem = {} /\ disk = {} /\ early = FALSE /\ failed = FALSE

-----------------------------------------------------------------------------
(* run.                                                                    *)

At(from, to) ==
  /\ proc = "running" /\ main = from /\ main' = to

\* go dnsServer.Start, then go apiServer.Start; the goroutines run when they
\* are scheduled.
Launch ==
  /\ At("dns", "api") \/ At("api", "wait")
  /\ UNCHANGED <<proc, cancelled, dnsState, api, request, config, early>>

\* SIGINT, SIGTERM, or the test's cancel: at any time.
Cancel ==
  /\ proc = "running" /\ ~cancelled /\ cancelled' = TRUE
  /\ early' = \E a \in Addr : server[a] \in {"none", "created"}
  /\ UNCHANGED <<proc, main, dnsState, api, request, config>>

Done ==
  /\ cancelled /\ At("wait", "save")
  /\ UNCHANGED <<proc, cancelled, dnsState, api, request, config, early>>

\* SaveConfig writes what is in memory, or fails.
Save ==
  \/ disk' = mem /\ UNCHANGED failed
  \/ UNCHANGED disk /\ failed' = TRUE

ShutdownSave ==
  /\ At("save", "dnsstop")
  /\ Save
  /\ UNCHANGED <<proc, cancelled, dnsState, api, request, mem, early>>

\* Stop of the DNS server only waits for its WaitGroup.
DNSStop ==
  /\ At("dnsstop", "apistop")
  /\ counted = {}
  /\ UNCHANGED <<proc, cancelled, dnsState, api, request, config, early>>

Panic == proc' = "panicked"

\* Stop of the API server: http.Server.Shutdown, which admits no further
\* request; a panic if Start has not yet made the http.Server.
APIStop ==
  /\ At("apistop", "drain")
  /\ IF api = "none"
       THEN Panic /\ UNCHANGED api
       ELSE api' = "closing" /\ UNCHANGED proc
  /\ UNCHANGED <<cancelled, dnsState, request, config, early>>

Active == {r \in Request : request[r] \in {"change", "save"}}

\* Variant: the timeout of Shutdown is logged.
DrainedOrLate ==
  /\ At("drain", "end")
  /\ proc' = "exited"
  /\ UNCHANGED <<cancelled, dnsState, api, request, config, early>>

\* Shutdown returns when no request is active; run and main return.
Drained ==
  /\ At("drain", "end")
  /\ Active = {}
  /\ proc' = "exited"
  /\ UNCHANGED <<cancelled, dnsState, api, request, config, early>>

\* Its five seconds, or what is left of the fifteen, are over.
DrainTimeout ==
  /\ At("drain", "end")
  /\ Active # {}
  /\ Panic
  /\ UNCHANGED <<cancelled, dnsState, api, request, config, early>>

-----------------------------------------------------------------------------
(* The DNS servers.                                                        *)

Server(a, from, to) ==
  /\ proc = "running" /\ server[a] = from
  /\ server' = [server EXCEPT ![a] = to]

\* Variant: one watcher for all servers, which knows the first one only.
StartServerUnwatched(a) ==
  /\ main # "dns" /\ Server(a, "none", "created")
  /\ counted' = counted \cup {a}
  /\ watcher' = [watcher EXCEPT ![a] = IF counted = {} THEN "waiting" ELSE @]
  /\ UNCHANGED <<main, proc, cancelled, questions, api, request, config, early>>

\* Start adds to the WaitGroup for one address and starts its goroutine,
\* which starts the watcher and calls ListenAndServe.
StartServer(a) ==
  /\ main # "dns" /\ Server(a, "none", "created")
  /\ counted' = counted \cup {a}
  /\ watcher' = [watcher EXCEPT ![a] = "waiting"]
  /\ UNCHANGED <<main, proc, cancelled, questions, api, request, config, early>>

Listen(a) ==
  /\ Server(a, "created", "listening")
  /\ UNCHANGED <<main, proc, cancelled, watcher, counted, questions, api,
                 request, config, early>>

\* Variant: wg.Done is called at the end only, not deferred.
ListenFailsUncounted(a) ==
  /\ Server(a, "created", "over")
  /\ UNCHANGED <<main, proc, cancelled, watcher, counted, questions, api,
                 request, config, early>>

\* The address cannot be bound: an error is printed, and wg.Done.
ListenFails(a) ==
  /\ Server(a, "created", "over")
  /\ counted' = counted \ {a}
  /\ UNCHANGED <<main, proc, cancelled, watcher, questions, api, request,
                 config, early>>

\* Variant: the watcher shuts down a dns.Server other than the one that listens.
WatchOther(a) ==
  /\ proc = "running" /\ cancelled /\ watcher[a] = "waiting"
  /\ watcher' = [watcher EXCEPT ![a] = "done"]
  /\ UNCHANGED <<main, proc, cancelled, server, counted, questions, api,
                 request, config, early>>

\* The watcher calls Shutdown once; a server that does not listen yet answers
\* with an error, which nobody reads.
Watch(a) ==
  /\ proc = "running" /\ cancelled /\ watcher[a] = "waiting"
  /\ watcher' = [watcher EXCEPT ![a] = "done"]
  /\ server' = [server EXCEPT ![a] = IF @ = "listening" THEN "draining" ELSE @]
  /\ UNCHANGED <<main, proc, cancelled, counted, questions, api, request, config,
                 early>>

Question(a) ==
  /\ proc = "running" /\ server[a] = "listening"
  /\ questions[a] < MaxQuestions
  /\ questions' = [questions EXCEPT ![a] = @ + 1]
  /\ UNCHANGED <<main, proc, cancelled, server, watcher, counted, api, request,
                 config, early>>

Answer(a) ==
  /\ proc = "running" /\ questions[a] > 0
  /\ questions' = [questions EXCEPT ![a] = @ - 1]
  /\ UNCHANGED <<main, proc, cancelled, server, watcher, counted, api, request,
                 config, early>>

\* ListenAndServe returns once the last question is answered; wg.Done.
Drain(a) ==
  /\ Server(a, "draining", "over")
  /\ questions[a] = 0
  /\ counted' = counted \ {a}
  /\ UNCHANGED <<main, proc, cancelled, watcher, questions, api, request, config,
                 early>>

-----------------------------------------------------------------------------
(* The API server.                                                         *)

API(from, to) == proc = "running" /\ api = from /\ api' = to

APIStart ==
  /\ main \notin {"dns", "api"} /\ API("none", "made")
  /\ UNCHANGED <<main, proc, cancelled, dnsState, request, config, early>>

APIListen ==
  /\ API("made", "listening")
  /\ UNCHANGED <<main, proc, cancelled, dnsState, request, config, early>>

\* Port 8090 is taken: a panic.
APIListenFails ==
  /\ API("made", "made") /\ Panic
  /\ UNCHANGED <<main, cancelled, dnsState, request, config, early>>

Handling(r, from, to) ==
  /\ proc = "running" /\ request[r] = from
  /\ request' = [request EXCEPT ![r] = to]

Accept(r) ==
  /\ api = "listening" /\ Handling(r, "new", "change")
  /\ UNCHANGED <<main, proc, cancelled, dnsState, api, config, early>>

Change(r) ==
  /\ Handling(r, "change", "save")
  /\ mem' = mem \cup {r}
  /\ UNCHANGED <<main, proc, cancelled, dnsState, api, disk, early, failed>>

RequestSave(r) ==
  /\ Handling(r, "save", "answered")
  /\ Save
  /\ UNCHANGED <<main, proc, cancelled, dnsState, api, mem, early>>

-----------------------------------------------------------------------------
Run == Launch \/ Done \/ ShutdownSave \/ DNSStop \/ APIStop

Drainage == Drained \/ DrainTimeout

Serve(a) == Listen(a) \/ ListenFails(a) \/ Answer(a) \/ Drain(a)

HTTP == APIStart \/ APIListen \/ APIListenFails

Handler(r) == Change(r) \/ RequestSave(r)

Next ==
  \/ Run \/ Drainage \/ Cancel \/ HTTP
  \/ \E a \in Addr : StartServer(a) \/ Watch(a) \/ Serve(a) \/ Question(a)
  \/ \E r \in Request : Accept(r) \/ Handler(r)

Spec == Init /\ [][Next]_vars

(***************************************************************************)
(* Goroutines that can go on are scheduled: a question is answered, or     *)
(* given up, within the timeouts of its upstreams, and a request within    *)
(* those of SaveConfig.  Nothing obliges a client to ask or a signal to    *)
(* come.                                                                   *)
(***************************************************************************)
FairSpec ==
  /\ Spec /\ WF_vars(Run \/ Drainage) /\ WF_vars(HTTP)
  /\ \A a \in Addr : WF_vars(StartServer(a)) /\ WF_vars(Watch(a)) /\ WF_vars(Serve(a))
  /\ \A r \in Request : WF_vars(Handler(r))

-----------------------------------------------------------------------------
(* Properties.                                                             *)

\* When the program ends by returning from run, it abandons nothing: no
\* request is active, what the requests changed, also those that arrived
\* after run's own save, is in config.json unless a save has failed, and, if
\* the servers were up when ctx was cancelled, every accepted question has
\* been answered.
GracefulExit ==
  proc = "exited" =>
    /\ Active = {}
    /\ failed \/ disk = mem
    /\ early \/ \A a \in Addr : server[a] = "over" /\ questions[a] = 0

\* Stop of the DNS server, which waits without looking at its context, waits
\* for nothing that has itself nothing to wait for: once a signal has come to
\* servers that were up, each one still counted either answers its last
\* questions or has a watcher that has yet to call Shutdown.
StopWaitsForWatched ==
  cancelled /\ ~early =>
    \A a \in counted : \/ server[a] = "draining"
                       \/ server[a] = "listening" /\ watcher[a] = "waiting"

\* A signal that comes when every DNS server listens, or has failed to, ends
\* the program.  (After an earlier one a server that was not yet
\* listening keeps running, and run waits for it for ever.)
ShutdownEnds == (cancelled /\ ~early) ~> (proc # "running")
=============================================================================
