-------------------------- MODULE Lifecycle_proofs --------------------------
(***************************************************************************)
(* Proofs about Lifecycle, for any number of addresses and requests.       *)
(***************************************************************************)
EXTENDS Lifecycle, TLAPS

\* Only a server that takes questions, or is answering its last ones, has any.
IdleUnlessUp ==
  \A a \in Addr :
    server[a] \in {"none", "created", "over"} => questions[a] = 0

\* run leaves its wait with ctx done, and the DNS servers with all of them over.
Passed ==
  /\ main \in {"save", "dnsstop", "apistop", "drain", "end"} => cancelled
  /\ cancelled /\ ~early =>
       \A a \in Addr : server[a] \notin {"none", "created"}
  /\ main \in {"apistop", "drain", "end"} /\ ~early =>
       \A a \in Addr : server[a] = "over"

\* A server that still has to be shut down has its watcher, unless the signal
\* came too early for it.
Watched ==
  \A a \in Addr :
    server[a] \in {"created", "listening"} /\ ~(cancelled /\ early) =>
      watcher[a] = "waiting"

\* A change that is not in config.json is about to be saved, or a save failed.
Pending == failed \/ mem \ disk \subseteq {r \in Request : request[r] = "save"}

Exit == proc = "exited" => main = "end" /\ Active = {}

ExitInv == TypeOK /\ IdleUnlessUp /\ Passed /\ Watched /\ Pending /\ Exit

-----------------------------------------------------------------------------
LEMMA InitExitInv == Init => ExitInv
<1> SUFFICES ASSUME Init PROVE ExitInv
  OBVIOUS
<1>1. 0 \in 0..MaxQuestions
  BY LifecycleAssumption
<1>2. TypeOK
  <2>1. counted = {a \in Addr : server[a] \in {"created", "listening", "draining"}}
    BY DEF Init
  <2> QED BY <1>1, <2>1 DEF Init, TypeOK, Position
<1> QED BY <1>2 DEF Init, ExitInv, IdleUnlessUp, Passed, Watched, Pending, Exit

\* The steps of run: they leave the servers and the requests alone.
LEMMA RunInv ==
  ASSUME ExitInv, Run \/ Drainage
  PROVE  ExitInv'
<1>1. CASE Launch
  BY <1>1 DEF Launch, At, ExitInv, TypeOK, Position, IdleUnlessUp, Passed, Watched,
     Pending, Exit, Active, dnsState, config
<1>2. CASE Done
  BY <1>2 DEF Done, At, ExitInv, TypeOK, Position, IdleUnlessUp, Passed, Watched,
     Pending, Exit, Active, dnsState, config
<1>3. CASE ShutdownSave
  BY <1>3 DEF ShutdownSave, Save, At, ExitInv, TypeOK, Position, IdleUnlessUp,
     Passed, Watched, Pending, Exit, Active, dnsState
<1>4. CASE DNSStop
  BY <1>4 DEF DNSStop, At, ExitInv, TypeOK, Position, IdleUnlessUp, Passed, Watched,
     Pending, Exit, Active, dnsState, config
<1>5. CASE APIStop
  BY <1>5 DEF APIStop, Panic, At, ExitInv, TypeOK, Position, IdleUnlessUp,
     Passed, Watched, Pending, Exit, Active, dnsState, config
<1>6. CASE Drainage
  BY <1>6 DEF Drainage, Drained, DrainTimeout, Panic, At, ExitInv, TypeOK,
     Position, IdleUnlessUp, Passed, Watched, Pending, Exit, Active, dnsState, config
<1> QED BY <1>1, <1>2, <1>3, <1>4, <1>5, <1>6 DEF Run

LEMMA CancelInv ==
  ASSUME ExitInv, Cancel
  PROVE  ExitInv'
  BY DEF Cancel, ExitInv, TypeOK, Position, IdleUnlessUp, Passed, Watched, Pending,
     Exit, Active, dnsState, config

\* A server that is started or bound later than ctx is done makes it early,
\* so that only servers on their way down move when it is not.
LEMMA ServerInv ==
  ASSUME ExitInv, NEW a \in Addr,
         StartServer(a) \/ Watch(a) \/ Serve(a) \/ Question(a)
  PROVE  ExitInv'
<1>1. CASE StartServer(a)
  BY <1>1 DEF StartServer, Server, ExitInv, TypeOK, Position, IdleUnlessUp,
     Passed, Watched, Pending, Exit, Active, config
<1>2. CASE Listen(a)
  BY <1>2 DEF Listen, Server, ExitInv, TypeOK, Position, IdleUnlessUp,
     Passed, Watched, Pending, Exit, Active, config
<1>3. CASE ListenFails(a)
  BY <1>3 DEF ListenFails, Server, ExitInv, TypeOK, Position, IdleUnlessUp,
     Passed, Watched, Pending, Exit, Active, config
<1>4. CASE Watch(a)
  BY <1>4 DEF Watch, ExitInv, TypeOK, Position, IdleUnlessUp, Passed, Watched, Pending,
     Exit, Active, config
<1>5. CASE Question(a)
  BY <1>5, LifecycleAssumption DEF Question, ExitInv, TypeOK, Position,
     IdleUnlessUp, Passed, Watched, Pending, Exit, Active, config
<1>6. CASE Answer(a)
  BY <1>6, LifecycleAssumption DEF Answer, ExitInv, TypeOK, Position,
     IdleUnlessUp, Passed, Watched, Pending, Exit, Active, config
<1>7. CASE Drain(a)
  BY <1>7 DEF Drain, Server, ExitInv, TypeOK, Position, IdleUnlessUp, Passed, Watched,
     Pending, Exit, Active, config
<1> QED BY <1>1, <1>2, <1>3, <1>4, <1>5, <1>6, <1>7 DEF Serve

LEMMA HTTPInv ==
  ASSUME ExitInv, HTTP
  PROVE  ExitInv'
  BY DEF HTTP, APIStart, APIListen, APIListenFails, API, Panic, ExitInv, TypeOK,
     Position, IdleUnlessUp, Passed, Watched, Pending, Exit, Active, dnsState, config

\* A request is accepted and worked on only while the program runs.
LEMMA RequestInv ==
  ASSUME ExitInv, NEW r \in Request, Accept(r) \/ Handler(r)
  PROVE  ExitInv'
<1>1. CASE Accept(r)
  BY <1>1 DEF Accept, Handling, ExitInv, TypeOK, Position, IdleUnlessUp, Passed, Watched,
     Pending, Exit, dnsState, config
<1>2. CASE Change(r)
  BY <1>2 DEF Change, Handling, ExitInv, TypeOK, Position, IdleUnlessUp, Passed, Watched,
     Pending, Exit, dnsState
<1>3. CASE RequestSave(r)
  <2>1. /\ proc = "running" /\ request[r] = "save"
        /\ request' = [request EXCEPT ![r] = "answered"]
        /\ UNCHANGED <<main, proc, cancelled, dnsState, api, mem, early>>
        /\ \/ disk' = mem /\ failed' = failed
           \/ disk' = disk /\ failed' = TRUE
    BY <1>3 DEF RequestSave, Save, Handling
  <2>2. TypeOK'
    <3>1. request' \in [Request -> {"new", "change", "save", "answered"}]
      BY <2>1 DEF ExitInv, TypeOK
    <3>2. mem' \in SUBSET Request /\ disk' \in SUBSET mem' /\ failed' \in BOOLEAN
      BY <2>1 DEF ExitInv, TypeOK
    <3>3. UNCHANGED <<proc, main, cancelled, server, watcher, counted, questions, api, early>>
      BY <2>1 DEF dnsState
    <3> QED BY <3>1, <3>2, <3>3 DEF ExitInv, TypeOK
  <2>3. (IdleUnlessUp /\ Passed /\ Watched /\ Exit)'
    BY <2>1 DEF ExitInv, IdleUnlessUp, Passed, Watched, Exit, dnsState
  <2>4. Pending'
    BY <2>1 DEF ExitInv, TypeOK, Pending
  <2> QED BY <2>2, <2>3, <2>4 DEF ExitInv
<1> QED BY <1>1, <1>2, <1>3 DEF Handler

-----------------------------------------------------------------------------
\* The strengthening of GracefulExit holds in every reachable state.
THEOREM ExitInvariant == Spec => []ExitInv
<1>1. ExitInv /\ [Next]_vars => ExitInv'
  <2> SUFFICES ASSUME ExitInv, [Next]_vars PROVE ExitInv'
    OBVIOUS
  <2>1. CASE UNCHANGED vars
    BY <2>1 DEF vars, dnsState, config, ExitInv, TypeOK, IdleUnlessUp, Passed, Watched,
       Pending, Exit, Active
  <2> QED BY <2>1, RunInv, CancelInv, ServerInv, HTTPInv, RequestInv DEF Next
<1> QED BY InitExitInv, <1>1, PTL DEF Spec

\* The variables keep their types, and the WaitGroup counts exactly the
\* servers that have been started and are not over.
THEOREM TypeCorrect == Spec => []TypeOK
  BY ExitInvariant, PTL DEF ExitInv

\* After a signal to servers that were up, Stop waits for none that nobody
\* shuts down: the safe half of ShutdownEnds, and the reason for it.
THEOREM StopWaits == Spec => []StopWaitsForWatched
<1>1. ExitInv => StopWaitsForWatched
  BY DEF ExitInv, TypeOK, Passed, Watched, StopWaitsForWatched
<1> QED BY <1>1, ExitInvariant, PTL

\* The program does not return from run over active requests, unsaved changes
\* or, once its servers were up, unanswered questions.
THEOREM Graceful == Spec => []GracefulExit
<1>1. ExitInv => GracefulExit
  BY DEF ExitInv, TypeOK, IdleUnlessUp, Passed, Watched, Pending, Exit, Active,
     GracefulExit
<1> QED BY <1>1, ExitInvariant, PTL
=============================================================================
