------------------------------ MODULE SyncCall ------------------------------
(***************************************************************************)
(* The synchronous start of the SDK (setSyncCallTimeout, which Asr::init   *)
(* calls) as the relay uses it: the main thread starts the first request,  *)
(* and the callbacks of a failed one start new requests on the work        *)
(* threads that make them. NlsEventNetWork::start holds one mutex for all  *)
(* requests, _mtxThread, from its first line until its wait for the first  *)
(* event of the request has ended; a work thread that waits, for the mutex *)
(* or for the event, delivers no event of the requests dealt to it.        *)
(*                                                                         *)
(* A thread is in a start, and a work thread in an event that it delivers, *)
(* whose callback may have called the start; the start goes first. Kept:   *)
(* the mutex, the dealing of requests, the condition variable that has no  *)
(* predicate, the timeout and the error code of the node. Abstracted: the  *)
(* connection (module Node has it); time, so that a timeout may come at    *)
(* any moment of a wait. A wait does not end without cause.                *)
(***************************************************************************)
EXTENDS Integers

CONSTANTS workThreadsNumber,  \* as startWorkThread is told
          MaxFaults,          \* bound: failures of requests
          MaxRequests         \* bound: requests; a failure that is reported
                              \* makes two callbacks, each starts a request

ASSUME SyncCallAssumption ==
  /\ workThreadsNumber \in Nat \ {0}
  /\ MaxFaults \in Nat /\ MaxRequests \in Nat

Requests == 1..MaxRequests
Workers == 0..(workThreadsNumber - 1)
Main == workThreadsNumber
Threads == Workers \cup {Main}
None == -1

\* Where a request is, the results of start, a start and an event of a request
\* with the point reached. An event is hidden while the SDK mends the request
\* by itself.
Phases == {"none", "created", "invoked", "launched", "started", "closed"}
Results == {"none", "ok", "failed", "timeout"}
Events == {"Started", "TaskFailed", "Close"}
Starts == [r : Requests, at : {"lock", "invoked", "wait", "woken"}]
Deliveries == [ev : Events, r : Requests, at : {"signal", "callback", "after"},
               hidden : BOOLEAN]
NoStart == [r |-> None, at |-> "none"]
NoEvent == [ev |-> "none", r |-> None, at |-> "none", hidden |-> FALSE]

\* lock     the thread that holds _mtxThread
\* next     _currentCpuNumber
\* created  the number of requests
\* start    the start that each thread is in, and event the event
\* thread   the work thread that each request is dealt to
\* caller   the thread that starts it
\* phase    how far it is
\* err      _nodeErrCode
\* heard    a result of it was signalled
\* result   what its start returned
\* faults   failures so far
VARIABLES lock, next, created, start, event, thread, caller, phase, err, heard,
          result, faults

reqVars == <<thread, caller, phase, err, heard, result>>
vars == <<lock, next, created, start, event, reqVars, faults>>

Init ==
  /\ lock = None /\ next = 0 /\ created = 0 /\ faults = 0
  /\ start = [t \in Threads |-> NoStart]
  /\ event = [t \in Threads |-> NoEvent]
  /\ thread = [r \in Requests |-> None]
  /\ caller = [r \in Requests |-> None]
  /\ phase = [r \in Requests |-> "none"]
  /\ err = [r \in Requests |-> "ok"]
  /\ heard = [r \in Requests |-> FALSE]
  /\ result = [r \in Requests |-> "none"]

-----------------------------------------------------------------------------
\* Asr::start: a new request, whose start is then called.
NewRequest(t) ==
  /\ created < MaxRequests
  /\ created' = created + 1
  /\ caller' = [caller EXCEPT ![created + 1] = t]
  /\ phase' = [phase EXCEPT ![created + 1] = "created"]
  /\ start' = [start EXCEPT ![t] = [r |-> created + 1, at |-> "lock"]]

\* Relayer::init starts the first one on the main thread.
FirstStart ==
  /\ created = 0
  /\ NewRequest(Main)
  /\ UNCHANGED <<lock, next, event, thread, err, heard, result, faults>>

\* (variant: the number wraps one too late)
AfterNext_Late == (next + 1) % (workThreadsNumber + 1)

\* selectThreadNumber: the threads are taken in turn.
AfterNext == (next + 1) % workThreadsNumber

\* NlsEventNetWork::start up to event_active: the request is dealt to a work
\* thread, which may launch it from now on.
StartLocks(t) ==
  /\ start[t].at = "lock" /\ lock = None
  /\ lock' = t
  /\ thread' = [thread EXCEPT ![start[t].r] = next]
  /\ next' = AfterNext
  /\ phase' = [phase EXCEPT ![start[t].r] = "invoked"]
  /\ start' = [start EXCEPT ![t].at = "invoked"]
  /\ UNCHANGED <<created, event, caller, err, heard, result, faults>>

\* waitInvokeFinish: a signal sent before this moment is lost.
StartWaits(t) ==
  /\ start[t].at = "invoked"
  /\ start' = [start EXCEPT ![t].at = "wait"]
  /\ UNCHANGED <<lock, next, created, event, reqVars, faults>>

\* (variant: pthread_cond_wait, which has no timeout)
StartTimesOut_Never(t) == start[t].at = "wait" /\ FALSE /\ UNCHANGED vars

\* The timeout: InvokeTimeout is the error code of the node from now on.
StartTimesOut(t) ==
  /\ start[t].at = "wait"
  /\ err' = [err EXCEPT ![start[t].r] = "timeout"]
  /\ start' = [start EXCEPT ![t].at = "woken"]
  /\ UNCHANGED <<lock, next, created, event, thread, caller, phase, heard,
                 result, faults>>

\* start returns the error code of the node.
StartReturns(t) ==
  /\ start[t].at = "woken"
  /\ result' = [result EXCEPT ![start[t].r] = err[start[t].r]]
  /\ lock' = None
  /\ start' = [start EXCEPT ![t] = NoStart]
  /\ UNCHANGED <<next, created, event, thread, caller, phase, err, heard,
                 faults>>

-----------------------------------------------------------------------------
\* The libevent loop of a work thread takes up an event of a request that is
\* dealt to it when it has nothing else to do.
Free(r) ==
  /\ thread[r] # None
  /\ start[thread[r]] = NoStart /\ event[thread[r]] = NoEvent

Deliver(ev, r, hidden) ==
  event' = [event EXCEPT ![thread[r]] =
              [ev |-> ev, r |-> r, at |-> "signal", hidden |-> hidden]]

\* launchEventCallback, with what leads to the first answer.
Launch(r) ==
  /\ phase[r] = "invoked" /\ Free(r)
  /\ phase' = [phase EXCEPT ![r] = "launched"]
  /\ UNCHANGED <<lock, next, created, start, event, thread, caller, err, heard,
                 result, faults>>

Started(r) ==
  /\ phase[r] = "launched" /\ Free(r)
  /\ Deliver("Started", r, FALSE)
  /\ UNCHANGED <<lock, next, created, start, reqVars, faults>>

\* The request fails: found by the SDK (handlerEvent sets the error code) or
\* reported by the gateway (parseFrame does not), and mended unseen or not.
Fails(r) ==
  /\ phase[r] \in {"launched", "started"} /\ Free(r)
  /\ faults < MaxFaults /\ faults' = faults + 1
  /\ \E hidden \in BOOLEAN : Deliver("TaskFailed", r, hidden)
  /\ \E code \in {"failed", err[r]} : err' = [err EXCEPT ![r] = code]
  /\ UNCHANGED <<lock, next, created, start, thread, caller, phase, heard,
                 result>>

-----------------------------------------------------------------------------
\* The event of thread t is at this point, and no start of its callback runs.
At(t, at) == event[t].at = at /\ start[t] = NoStart

\* (variant: one condition variable for all requests)
Signal_Shared(t) ==
  /\ At(t, "signal")
  /\ IF event[t].ev = "TaskFailed" THEN UNCHANGED <<start, heard>>
     ELSE /\ start' = [u \in Threads |->
               IF start[u].at = "wait" THEN [start[u] EXCEPT !.at = "woken"]
               ELSE start[u]]
          /\ heard' = [heard EXCEPT ![event[t].r] = TRUE]
  /\ event' = [event EXCEPT ![t].at = "callback"]
  /\ UNCHANGED <<lock, next, created, thread, caller, phase, err, result,
                 faults>>

\* sendFinishCondSignal: Started and Close wake the thread that waits for this
\* request, when there is one; TaskFailed does not.
Signal(t) ==
  /\ At(t, "signal")
  /\ IF event[t].ev = "TaskFailed" THEN UNCHANGED <<start, heard>>
     ELSE /\ start' = [u \in Threads |->
               IF start[u].at = "wait" /\ start[u].r = event[t].r
               THEN [start[u] EXCEPT !.at = "woken"] ELSE start[u]]
          /\ heard' = [heard EXCEPT ![event[t].r] = TRUE]
  /\ event' = [event EXCEPT ![t].at = "callback"]
  /\ UNCHANGED <<lock, next, created, thread, caller, phase, err, result,
                 faults>>

\* The relay's callbacks: onTaskFailed and onChannelClosed start a request.
Callback(t) ==
  /\ At(t, "callback")
  /\ event' = [event EXCEPT ![t].at = "after"]
  /\ IF event[t].ev = "Started" \/ event[t].hidden
     THEN UNCHANGED <<created, caller, phase, start>> ELSE NewRequest(t)
  /\ UNCHANGED <<lock, next, thread, err, heard, result, faults>>

\* After the callback: TaskFailed is followed by Close; a request that is
\* mended is launched again.
After(t) ==
  /\ At(t, "after")
  /\ IF event[t].ev = "TaskFailed"
     THEN /\ event' = [event EXCEPT ![t].ev = "Close", ![t].at = "signal"]
          /\ UNCHANGED phase
     ELSE /\ event' = [event EXCEPT ![t] = NoEvent]
          /\ phase' = [phase EXCEPT ![event[t].r] =
               IF event[t].ev = "Started" THEN "started"
               ELSE IF event[t].hidden THEN "invoked" ELSE "closed"]
  /\ UNCHANGED <<lock, next, created, start, thread, caller, err, heard, result,
                 faults>>

-----------------------------------------------------------------------------
\* What a thread does by itself, but for getting the mutex.
Runs(t) ==
  \/ StartWaits(t) \/ StartTimesOut(t) \/ StartReturns(t)
  \/ Signal(t) \/ Callback(t) \/ After(t)

Next ==
  \/ FirstStart
  \/ \E t \in Threads : StartLocks(t) \/ Runs(t)
  \/ \E r \in Requests : Launch(r) \/ Started(r) \/ Fails(r)

Spec == Init /\ [][Next]_vars

\* Threads run, and a wait that nothing ends times out; a free mutex is taken by
\* some thread that waits for it; the loop of a work thread takes up what is
\* ready, and the gateway answers.
Fairness ==
  /\ WF_vars(FirstStart)
  /\ \A t \in Threads : WF_vars(Runs(t))
  /\ WF_vars(\E t \in Threads : StartLocks(t))
  /\ \A w \in Workers :
       WF_vars(\E r \in Requests : thread[r] = w /\ (Launch(r) \/ Started(r)))

FairSpec == Spec /\ Fairness

-----------------------------------------------------------------------------
TypeOK ==
  /\ lock \in Threads \cup {None} /\ next \in Workers
  /\ created \in 0..MaxRequests /\ faults \in 0..MaxFaults
  /\ start \in [Threads -> Starts \cup {NoStart}]
  /\ event \in [Threads -> Deliveries \cup {NoEvent}]
  /\ thread \in [Requests -> Workers \cup {None}]
  /\ caller \in [Requests -> Threads \cup {None}]
  /\ phase \in [Requests -> Phases]
  /\ err \in [Requests -> Results \ {"none"}]
  /\ heard \in [Requests -> BOOLEAN] /\ result \in [Requests -> Results]

\* A start that returns 0 has heard of its own request: Started or Close was
\* signalled, though the wait looks at nothing but that it was woken.
SuccessHeard == \A r \in Requests : result[r] = "ok" => heard[r]

\* A request that a callback starts, and that is dealt to the very thread the
\* callback runs on, is never answered while start waits: it always returns a
\* timeout, and the request is launched only after that.
SelfWaits ==
  \A r \in Requests :
    caller[r] # None /\ caller[r] = thread[r] =>
      /\ result[r] \in {"none", "timeout"}
      /\ phase[r] \notin {"created", "invoked"} => result[r] = "timeout"

\* Whoever waits for whom, for the mutex inside a callback or for an event of
\* one's own thread: when failures stop, every start has returned, every thread
\* is back in its loop and every request started or reported closed.
Settles ==
  <>[](/\ \A t \in Threads : start[t] = NoStart /\ event[t] = NoEvent
       /\ \A r \in 1..created : /\ result[r] # "none"
                                /\ phase[r] \in {"started", "closed"})
=============================================================================
