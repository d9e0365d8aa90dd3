--------------------------- MODULE SyncCallProofs ---------------------------
(***************************************************************************)
(* Proofs about SyncCall, for any number of work threads, of failures and  *)
(* of requests. They rest on SyncCallAssumption only.                      *)
(***************************************************************************)
EXTENDS SyncCall, TLAPS

Early == {"none", "created"}

\* A start belongs to the request that its thread made, and has no result yet;
\* before the mutex the request is dealt to no thread.
StartShape ==
  \A t \in Threads :
    start[t] # NoStart =>
      /\ start[t].r =< created
      /\ caller[start[t].r] = t
      /\ result[start[t].r] = "none"
      /\ start[t].at = "lock" => phase[start[t].r] = "created"
      /\ start[t].at # "lock" => phase[start[t].r] \notin Early

\* An event is delivered by the thread of its request, after the launch.
EventShape ==
  \A t \in Threads :
    event[t] # NoEvent => /\ thread[event[t].r] = t
                          /\ phase[event[t].r] \in {"launched", "started"}

\* Requests come one after the other; one that is not invoked has no thread.
Fresh ==
  \A r \in Requests :
    /\ r > created => phase[r] = "none" /\ result[r] = "none"
    /\ phase[r] \in Early <=> thread[r] = None

\* A request that is dealt to its own caller's thread: start has timed out, or
\* keeps that thread from launching it.
OwnThread(r) ==
  \/ result[r] = "timeout"
  \/ /\ result[r] = "none" /\ phase[r] = "invoked"
     /\ start[thread[r]] # NoStart /\ start[thread[r]].r = r
     /\ start[thread[r]].at = "woken" => err[r] = "timeout"
Own ==
  \A r \in Requests : thread[r] # None /\ caller[r] = thread[r] => OwnThread(r)

\* Whoever was woken without a timeout has heard of the request.
WokenHeard ==
  \A t \in Threads :
    start[t].at = "woken" /\ err[start[t].r] = "ok" => heard[start[t].r]

Shape == StartShape /\ EventShape /\ Fresh
IInv == TypeOK /\ Shape /\ Own /\ WokenHeard /\ SuccessHeard

-----------------------------------------------------------------------------
USE SyncCallAssumption

\* An event that is at some point is the delivery of one, and no other start of
\* that thread is under way.
LEMMA Delivering ==
  ASSUME TypeOK, NEW t \in Threads, NEW at \in {"signal", "callback", "after"},
         At(t, at)
  PROVE  /\ event[t] \in Deliveries /\ event[t] # NoEvent
         /\ event[t].r \in Requests /\ event[t].ev \in Events
         /\ event[t].hidden \in BOOLEAN /\ start[t] = NoStart
  BY DEF TypeOK, At, Deliveries, NoEvent

\* A delivery that goes on is a delivery.
LEMMA GoesOn ==
  ASSUME NEW e \in Deliveries, NEW at \in {"signal", "callback", "after"},
         NEW ev \in Events
  PROVE  /\ [e EXCEPT !.at = at] \in Deliveries
         /\ [e EXCEPT !.ev = ev, !.at = at] \in Deliveries
         /\ [e EXCEPT !.at = at].r = e.r
         /\ [e EXCEPT !.ev = ev, !.at = at].r = e.r
         /\ [e EXCEPT !.at = at] # NoEvent
         /\ [e EXCEPT !.ev = ev, !.at = at] # NoEvent
  BY DEF Deliveries, NoEvent, Events

\* So is a start.
LEMMA StartGoesOn ==
  ASSUME NEW e \in Starts, NEW at \in {"lock", "invoked", "wait", "woken"}
  PROVE  /\ [e EXCEPT !.at = at] \in Starts
         /\ [e EXCEPT !.at = at].r = e.r /\ [e EXCEPT !.at = at].at = at
         /\ [e EXCEPT !.at = at] # NoStart
  BY DEF Starts, NoStart

LEMMA InitHolds == Init => IInv
  BY DEF Init, IInv, TypeOK, Shape, StartShape, EventShape, Fresh, Own,
         WokenHeard, SuccessHeard, Early, Requests, Workers, Main, Threads, None,
          NoStart, NoEvent,
         Phases, Results, Events, Starts, Deliveries

\* NewRequest: a request of which nothing is known yet.
LEMMA NewKeeps ==
  ASSUME IInv, NEW t \in Threads, start[t] = NoStart, NewRequest(t),
         event' \in [Threads -> Deliveries \cup {NoEvent}],
         \A u \in Threads : event'[u] # NoEvent =>
           event[u] # NoEvent /\ event'[u].r = event[u].r,
         UNCHANGED <<lock, next, thread, err, heard, result, faults>>
  PROVE  IInv'
<1> USE DEF IInv, Shape
<1> DEFINE new == created + 1
<1>a. /\ new \in Requests /\ created' = new /\ created \in Nat
      /\ caller' = [caller EXCEPT ![new] = t]
      /\ phase' = [phase EXCEPT ![new] = "created"]
      /\ start' = [start EXCEPT ![t] = [r |-> new, at |-> "lock"]]
      /\ [r |-> new, at |-> "lock"] \in Starts
      /\ [r |-> new, at |-> "lock"] # NoStart
  BY DEF NewRequest, TypeOK, Requests, Starts, NoStart
<1>b. phase[new] = "none" /\ result[new] = "none" /\ thread[new] = None
  BY <1>a DEF Fresh, Early, TypeOK
<1>1. TypeOK'
  <2>1. created' \in 0..MaxRequests
    BY <1>a DEF NewRequest, TypeOK
  <2>2. caller' \in [Requests -> Threads \cup {None}]
    BY <1>a DEF TypeOK
  <2>3. phase' \in [Requests -> Phases]
    BY <1>a DEF TypeOK, Phases
  <2>4. start' \in [Threads -> Starts \cup {NoStart}]
    BY <1>a DEF TypeOK
  <2> QED BY <2>1, <2>2, <2>3, <2>4 DEF TypeOK
<1>2. StartShape'
  <2> SUFFICES ASSUME NEW u \in Threads, start'[u] # NoStart
               PROVE  /\ start'[u].r =< created'
                      /\ caller'[start'[u].r] = u
                      /\ result[start'[u].r] = "none"
                      /\ start'[u].at = "lock" => phase'[start'[u].r] = "created"
                      /\ start'[u].at # "lock" => phase'[start'[u].r] \notin Early
    BY DEF StartShape
  <2>1. CASE u = t
    BY <1>a, <1>b, <2>1 DEF TypeOK
  <2>2. CASE u # t
    <3>1. start'[u] = start[u] /\ start[u] \in Starts
      BY <1>a, <2>2 DEF TypeOK
    <3>2. start[u].r \in Requests /\ start[u].r =< created
      BY <3>1 DEF StartShape, Starts
    <3>3. start[u].r # new
      BY <1>a, <3>2 DEF Requests
    <3>4. /\ caller'[start[u].r] = caller[start[u].r]
          /\ phase'[start[u].r] = phase[start[u].r]
      BY <1>a, <3>2, <3>3 DEF TypeOK
    <3>5. start[u].r =< created'
      BY <1>a, <3>2 DEF Requests
    <3> QED BY <3>1, <3>4, <3>5 DEF StartShape
  <2> QED BY <2>1, <2>2
<1>3. EventShape'
  <2> SUFFICES ASSUME NEW u \in Threads, event'[u] # NoEvent
               PROVE  /\ thread[event'[u].r] = u
                      /\ phase'[event'[u].r] \in {"launched", "started"}
    BY DEF EventShape
  <2>1. event[u] # NoEvent /\ event'[u].r = event[u].r
    OBVIOUS
  <2>2. phase[event[u].r] \in {"launched", "started"} /\ thread[event[u].r] = u
    BY <2>1 DEF EventShape
  <2>3. event[u].r \in Requests
    BY <2>1 DEF TypeOK, Deliveries
  <2> QED BY <1>a, <1>b, <2>1, <2>2, <2>3 DEF TypeOK
<1>4. Fresh'
  <2> SUFFICES ASSUME NEW r \in Requests
               PROVE  /\ r > created' => phase'[r] = "none" /\ result[r] = "none"
                      /\ phase'[r] \in Early <=> thread[r] = None
    BY DEF Fresh
  <2>1. CASE r = new
    BY <1>a, <1>b, <2>1 DEF TypeOK, Early, Requests
  <2>2. CASE r # new
    <3>1. phase'[r] = phase[r]
      BY <1>a, <2>2 DEF TypeOK
    <3> QED BY <1>a, <3>1 DEF Fresh, Requests
  <2> QED BY <2>1, <2>2
<1>5. Own'
  <2> SUFFICES ASSUME NEW r \in Requests, thread[r] # None,
                      caller'[r] = thread[r]
               PROVE  OwnThread(r)'
    BY DEF Own
  <2>1. r # new /\ caller'[r] = caller[r] /\ phase'[r] = phase[r]
    BY <1>a, <1>b DEF TypeOK
  <2>2. OwnThread(r)
    BY <2>1 DEF Own
  <2>3. thread[r] \in Threads
    BY DEF TypeOK, Threads
  <2>4. CASE result[r] = "timeout"
    BY <2>4 DEF OwnThread
  <2>5. CASE result[r] # "timeout"
    <3>1. start[thread[r]] # NoStart
      BY <2>2, <2>5 DEF OwnThread
    <3>2. start'[thread[r]] = start[thread[r]]
      BY <1>a, <2>3, <3>1 DEF TypeOK
    <3> QED BY <2>1, <2>2, <2>5, <3>2 DEF OwnThread
  <2> QED BY <2>4, <2>5
<1>6. WokenHeard'
  <2> SUFFICES ASSUME NEW u \in Threads, start'[u].at = "woken",
                      err[start'[u].r] = "ok"
               PROVE  heard[start'[u].r]
    BY DEF WokenHeard
  <2>1. start'[u] = start[u]
    BY <1>a DEF TypeOK
  <2> QED BY <2>1 DEF WokenHeard
<1>7. SuccessHeard'
  BY DEF SuccessHeard
<1> QED BY <1>1, <1>2, <1>3, <1>4, <1>5, <1>6, <1>7

\* FirstStart: Relayer::init's first start: no start can be under way.
LEMMA FirstStartKeeps ==
  ASSUME IInv, FirstStart
  PROVE  IInv'
<1>1. Main \in Threads
  BY DEF Threads
<1>2. start[Main] = NoStart
  <2>1. start[Main] \in Starts \cup {NoStart}
    BY <1>1 DEF IInv, TypeOK
  <2>2. start[Main] # NoStart => start[Main].r =< 0
    BY <1>1 DEF IInv, Shape, StartShape, FirstStart
  <2> QED BY <2>1, <2>2 DEF Starts, Requests
<1>3. /\ NewRequest(Main) /\ event' = event
      /\ UNCHANGED <<lock, next, thread, err, heard, result, faults>>
  BY DEF FirstStart
<1> QED BY <1>1, <1>2, <1>3, NewKeeps DEF IInv, TypeOK

\* StartLocks: start takes the mutex and deals the request out.
LEMMA StartLocksKeeps ==
  ASSUME IInv, NEW t \in Threads, StartLocks(t)
  PROVE  IInv'
<1> DEFINE q == start[t].r
<1>1. /\ TypeOK /\ StartShape /\ EventShape /\ Fresh
      /\ Own /\ WokenHeard /\ SuccessHeard
  BY DEF IInv, Shape
<1>2. /\ start[t] \in Starts /\ start[t] # NoStart /\ start[t].at = "lock"
      /\ q \in Requests /\ caller[q] = t /\ q =< created
      /\ phase[q] = "created" /\ thread[q] = None /\ result[q] = "none"
  BY <1>1 DEF StartLocks, TypeOK, Starts, NoStart, StartShape, Fresh, Early
<1>3. /\ next \in Workers /\ next' \in Workers
      /\ Workers \subseteq Threads /\ None \notin Threads
  BY <1>1 DEF StartLocks, AfterNext, TypeOK, Workers, Threads, Main, None
<1>4. /\ start' = [start EXCEPT ![t] = [@ EXCEPT !.at = "invoked"]]
      /\ thread' = [thread EXCEPT ![q] = next]
      /\ phase' = [phase EXCEPT ![q] = "invoked"]
      /\ lock' = t
      /\ UNCHANGED <<created, event, caller, err, heard, result, faults>>
  BY DEF StartLocks
<1>5. LET e == [start[t] EXCEPT !.at = "invoked"]
      IN  e \in Starts /\ e.r = q /\ e.at = "invoked" /\ e # NoStart
  BY <1>2, StartGoesOn
<1>6. /\ start' \in [Threads -> Starts \cup {NoStart}]
      /\ start'[t] # NoStart /\ start'[t].r = q /\ start'[t].at = "invoked"
      /\ \A u \in Threads : u # t => start'[u] = start[u]
  BY <1>1, <1>4, <1>5 DEF TypeOK
<1>7. /\ thread' \in [Requests -> Workers \cup {None}] /\ thread'[q] = next
      /\ phase' \in [Requests -> Phases] /\ phase'[q] = "invoked"
      /\ \A r \in Requests :
           r # q => thread'[r] = thread[r] /\ phase'[r] = phase[r]
  BY <1>1, <1>2, <1>3, <1>4 DEF TypeOK, Phases
<1>8. \A u \in Threads : u # t /\ start[u] # NoStart =>
        start[u].r \in Requests /\ start[u].r # q
  BY <1>1, <1>2 DEF TypeOK, Starts, StartShape
<1>9. TypeOK'
  BY <1>1, <1>3, <1>4, <1>6, <1>7 DEF TypeOK
<1>10. StartShape'
  BY <1>1, <1>2, <1>4, <1>6, <1>7, <1>8 DEF StartShape, Early
<1>11. EventShape'
  <2>1. \A u \in Threads : event[u] # NoEvent =>
          event[u].r \in Requests /\ event[u].r # q
    BY <1>1, <1>2 DEF TypeOK, Deliveries, EventShape
  <2> QED BY <1>1, <1>4, <1>7, <2>1 DEF EventShape
<1>12. Fresh'
  <2>1. next # None
    BY <1>3
  <2> QED BY <1>1, <1>2, <1>4, <1>7, <2>1
          DEF Fresh, Early, TypeOK, Requests
<1>13. Own'
  <2> SUFFICES ASSUME NEW r \in Requests, thread'[r] # None,
                      caller[r] = thread'[r]
               PROVE  OwnThread(r)'
    BY <1>4 DEF Own
  <2>1. CASE r = q
    BY <1>2, <1>4, <1>6, <1>7, <2>1 DEF OwnThread
  <2>2. CASE r # q
    <3>1. OwnThread(r) /\ thread'[r] = thread[r] /\ phase'[r] = phase[r]
      BY <1>1, <1>7, <2>2 DEF Own
    <3>2. thread[r] \in Threads
      BY <1>1, <1>3, <3>1 DEF TypeOK
    <3>3. thread[r] = t => result[r] = "timeout"
      BY <2>2, <3>1 DEF OwnThread
    <3> QED BY <1>4, <1>6, <3>1, <3>2, <3>3 DEF OwnThread
  <2> QED BY <2>1, <2>2
<1>14. WokenHeard'
  BY <1>1, <1>4, <1>6 DEF WokenHeard
<1>15. SuccessHeard'
  BY <1>1, <1>4 DEF SuccessHeard
<1> QED BY <1>9, <1>10, <1>11, <1>12, <1>13, <1>14, <1>15 DEF IInv, Shape

\* StartWaits: start begins to wait.
LEMMA StartWaitsKeeps ==
  ASSUME IInv, NEW t \in Threads, StartWaits(t)
  PROVE  IInv'
<1> USE DEF StartWaits, reqVars, IInv, Shape, TypeOK,
            Requests, Workers, Main, Threads, None, NoStart, NoEvent
<1>a. start[t] \in Starts
  BY DEF StartWaits, TypeOK
<1>b. [start[t] EXCEPT !.at = "wait"] \in Starts
  BY <1>a, StartGoesOn
<1>1. TypeOK'
  BY <1>b DEF Phases, Results, Events, Starts, Deliveries
<1>2. StartShape'
  BY DEF Phases, Results, Events, Starts, Deliveries, StartShape, Fresh, Early
<1>3. EventShape'
  BY DEF Phases, Results, Events, Starts, Deliveries, EventShape, StartShape,
         Fresh, Early
<1>4. Fresh'
  BY DEF Phases, Results, Events, Starts, Deliveries, Fresh, StartShape,
         EventShape, Early
<1>5. Own'
  BY DEF Phases, Results, Events, Starts, Deliveries, Own, OwnThread,
         StartShape, EventShape, Fresh, Early
<1>6. WokenHeard'
  BY DEF Phases, Results, Events, Starts, Deliveries, WokenHeard, StartShape
<1>7. SuccessHeard'
  BY DEF Phases, Results, Events, Starts, Deliveries, SuccessHeard, WokenHeard
<1> QED BY <1>1, <1>2, <1>3, <1>4, <1>5, <1>6, <1>7

\* StartTimesOut: the wait times out.
LEMMA StartTimesOutKeeps ==
  ASSUME IInv, NEW t \in Threads, StartTimesOut(t)
  PROVE  IInv'
<1> USE DEF StartTimesOut, reqVars, IInv, Shape, TypeOK,
            Requests, Workers, Main, Threads, None, NoStart, NoEvent
<1>1. TypeOK'
  BY DEF Phases, Results, Events, Starts, Deliveries
<1>2. StartShape'
  BY DEF Phases, Results, Events, Starts, Deliveries, StartShape, Fresh, Early
<1>3. EventShape'
  BY DEF Phases, Results, Events, Starts, Deliveries, EventShape, StartShape,
         Fresh, Early
<1>4. Fresh'
  BY DEF Phases, Results, Events, Starts, Deliveries, Fresh, StartShape,
         EventShape, Early
<1>5. Own'
  BY DEF Phases, Results, Events, Starts, Deliveries, Own, OwnThread,
         StartShape, EventShape, Fresh, Early
<1>6. WokenHeard'
  BY DEF Phases, Results, Events, Starts, Deliveries, WokenHeard, StartShape
<1>7. SuccessHeard'
  BY DEF Phases, Results, Events, Starts, Deliveries, SuccessHeard, WokenHeard
<1> QED BY <1>1, <1>2, <1>3, <1>4, <1>5, <1>6, <1>7

\* StartReturns: start returns the error code.
LEMMA StartReturnsKeeps ==
  ASSUME IInv, NEW t \in Threads, StartReturns(t)
  PROVE  IInv'
<1> USE DEF StartReturns, reqVars, IInv, Shape, TypeOK,
            Requests, Workers, Main, Threads, None, NoStart, NoEvent
<1>1. TypeOK'
  BY DEF Phases, Results, Events, Starts, Deliveries
<1>2. StartShape'
  BY DEF Phases, Results, Events, Starts, Deliveries, StartShape, Fresh, Early
<1>3. EventShape'
  BY DEF Phases, Results, Events, Starts, Deliveries, EventShape, StartShape,
         Fresh, Early
<1>4. Fresh'
  BY DEF Phases, Results, Events, Starts, Deliveries, Fresh, StartShape,
         EventShape, Early
<1>5. Own'
  BY DEF Phases, Results, Events, Starts, Deliveries, Own, OwnThread,
         StartShape, EventShape, Fresh, Early
<1>6. WokenHeard'
  BY DEF Phases, Results, Events, Starts, Deliveries, WokenHeard, StartShape
<1>7. SuccessHeard'
  BY DEF Phases, Results, Events, Starts, Deliveries, SuccessHeard, WokenHeard
<1> QED BY <1>1, <1>2, <1>3, <1>4, <1>5, <1>6, <1>7

\* Launch: a request is launched on a thread that is free.
LEMMA LaunchKeeps ==
  ASSUME IInv, NEW r \in Requests, Launch(r)
  PROVE  IInv'
<1> USE DEF Launch, Free, reqVars, IInv, Shape, TypeOK,
            Requests, Workers, Main, Threads, None, NoStart, NoEvent
<1>1. TypeOK'
  BY DEF Phases, Results, Events, Starts, Deliveries
<1>2. StartShape'
  BY DEF Phases, Results, Events, Starts, Deliveries, StartShape, Fresh, Early
<1>3. EventShape'
  BY DEF Phases, Results, Events, Starts, Deliveries, EventShape, StartShape,
         Fresh, Early
<1>4. Fresh'
  BY DEF Phases, Results, Events, Starts, Deliveries, Fresh, StartShape,
         EventShape, Early
<1>5. Own'
  BY DEF Phases, Results, Events, Starts, Deliveries, Own, OwnThread,
         StartShape, EventShape, Fresh, Early
<1>6. WokenHeard'
  BY DEF Phases, Results, Events, Starts, Deliveries, WokenHeard, StartShape
<1>7. SuccessHeard'
  BY DEF Phases, Results, Events, Starts, Deliveries, SuccessHeard, WokenHeard
<1> QED BY <1>1, <1>2, <1>3, <1>4, <1>5, <1>6, <1>7

\* Started: the gateway has answered.
LEMMA StartedKeeps ==
  ASSUME IInv, NEW r \in Requests, Started(r)
  PROVE  IInv'
<1> USE DEF Started, Free, Deliver, reqVars, IInv, Shape, TypeOK,
            Requests, Workers, Main, Threads, None, NoStart, NoEvent
<1>1. TypeOK'
  BY DEF Phases, Results, Events, Starts, Deliveries
<1>2. StartShape'
  BY DEF Phases, Results, Events, Starts, Deliveries, StartShape, Fresh, Early
<1>3. EventShape'
  BY DEF Phases, Results, Events, Starts, Deliveries, EventShape, StartShape,
         Fresh, Early
<1>4. Fresh'
  BY DEF Phases, Results, Events, Starts, Deliveries, Fresh, StartShape,
         EventShape, Early
<1>5. Own'
  BY DEF Phases, Results, Events, Starts, Deliveries, Own, OwnThread,
         StartShape, EventShape, Fresh, Early
<1>6. WokenHeard'
  BY DEF Phases, Results, Events, Starts, Deliveries, WokenHeard, StartShape
<1>7. SuccessHeard'
  BY DEF Phases, Results, Events, Starts, Deliveries, SuccessHeard, WokenHeard
<1> QED BY <1>1, <1>2, <1>3, <1>4, <1>5, <1>6, <1>7

\* Fails: a request fails.
LEMMA FailsKeeps ==
  ASSUME IInv, NEW r \in Requests, Fails(r)
  PROVE  IInv'
<1> USE DEF IInv, Shape, Requests, Workers, Main, Threads, None, NoStart, NoEvent
<1>a. thread[r] \in Workers
  BY DEF Fails, Free, TypeOK
<1>b. event' \in [Threads -> Deliveries \cup {NoEvent}]
  BY <1>a DEF Fails, Deliver, TypeOK, Deliveries, Events
<1>c. err' \in [Requests -> Results \ {"none"}]
  BY DEF Fails, TypeOK, Results
<1> USE DEF Fails, Free, Deliver, reqVars, TypeOK
<1>1. TypeOK'
  BY <1>b, <1>c DEF Phases, Results, Events, Starts, Deliveries
<1>2. StartShape'
  BY DEF Phases, Results, Events, Starts, Deliveries, StartShape, Fresh, Early
<1>3. EventShape'
  BY DEF Phases, Results, Events, Starts, Deliveries, EventShape, StartShape,
         Fresh, Early
<1>4. Fresh'
  BY DEF Phases, Results, Events, Starts, Deliveries, Fresh, StartShape,
         EventShape, Early
<1>5. Own'
  BY DEF Phases, Results, Events, Starts, Deliveries, Own, OwnThread,
         StartShape, EventShape, Fresh, Early
<1>6. WokenHeard'
  BY DEF Phases, Results, Events, Starts, Deliveries, WokenHeard, StartShape
<1>7. SuccessHeard'
  BY DEF Phases, Results, Events, Starts, Deliveries, SuccessHeard, WokenHeard
<1> QED BY <1>1, <1>2, <1>3, <1>4, <1>5, <1>6, <1>7

\* Signal: the start of the event's own request is woken.
LEMMA SignalKeeps ==
  ASSUME IInv, NEW t \in Threads, Signal(t)
  PROVE  IInv'
<1> USE DEF IInv, Shape
<1> DEFINE q == event[t].r
<1>a. At(t, "signal")
  BY DEF Signal
<1>b. /\ event[t] \in Deliveries /\ event[t] # NoEvent
      /\ q \in Requests /\ start[t] = NoStart
  BY <1>a, Delivering
<1>c. /\ event' = [event EXCEPT ![t].at = "callback"]
      /\ UNCHANGED <<lock, next, created, thread, caller, phase, err, result,
                     faults>>
      /\ heard' \in [Requests -> BOOLEAN]
      /\ \A r \in Requests : heard[r] => heard'[r]
  BY <1>b DEF Signal, TypeOK
\* What becomes of a start: it is woken, or it stays.
<1>d. /\ start' \in [Threads -> Starts \cup {NoStart}]
      /\ \A u \in Threads :
           \/ start'[u] = start[u]
           \/ /\ start[u].at = "wait" /\ start[u].r = q /\ start[u] \in Starts
              /\ start'[u] \in Starts /\ start'[u] # NoStart
              /\ start'[u].r = q /\ start'[u].at = "woken" /\ heard'[q]
  <2>1. CASE event[t].ev = "TaskFailed"
    BY <2>1 DEF Signal, TypeOK
  <2>2. CASE event[t].ev # "TaskFailed"
    <3>1. start' = [u \in Threads |->
               IF start[u].at = "wait" /\ start[u].r = q
               THEN [start[u] EXCEPT !.at = "woken"] ELSE start[u]]
      BY <2>2 DEF Signal
    <3>2. heard'[q]
      BY <2>2, <1>b DEF Signal, TypeOK
    <3>3. ASSUME NEW u \in Threads
          PROVE  \/ start'[u] = start[u] /\ start[u] \in Starts \cup {NoStart}
                 \/ /\ start[u].at = "wait" /\ start[u].r = q
                    /\ start[u] \in Starts
                    /\ start'[u] \in Starts /\ start'[u] # NoStart
                    /\ start'[u].r = q /\ start'[u].at = "woken"
      <4>1. start[u] \in Starts \cup {NoStart}
        BY DEF TypeOK
      <4>2. CASE start[u].at = "wait" /\ start[u].r = q
        <5>1. start[u] \in Starts
          BY <4>1, <4>2 DEF NoStart
        <5>2. start'[u] = [start[u] EXCEPT !.at = "woken"]
          BY <3>1, <4>2
        <5>3. /\ [start[u] EXCEPT !.at = "woken"] \in Starts
              /\ [start[u] EXCEPT !.at = "woken"].r = start[u].r
              /\ [start[u] EXCEPT !.at = "woken"].at = "woken"
              /\ [start[u] EXCEPT !.at = "woken"] # NoStart
          BY <5>1, StartGoesOn
        <5> QED BY <4>2, <5>1, <5>2, <5>3
      <4>3. CASE ~(start[u].at = "wait" /\ start[u].r = q)
        BY <3>1, <4>1, <4>3
      <4> QED BY <4>2, <4>3
    <3>4. \A u \in Threads : start'[u] \in Starts \cup {NoStart}
      BY <3>3
    <3>5. start' \in [Threads -> Starts \cup {NoStart}]
      BY <3>1, <3>4
    <3> QED BY <3>2, <3>3, <3>5
  <2> QED BY <2>1, <2>2
<1>e. /\ event' \in [Threads -> Deliveries \cup {NoEvent}]
      /\ \A u \in Threads : event'[u] # NoEvent =>
           event[u] # NoEvent /\ event'[u].r = event[u].r
  <2>1. [event[t] EXCEPT !.at = "callback"] \in Deliveries
    BY <1>b, GoesOn DEF Deliveries
  <2>a. event'[t] = [event[t] EXCEPT !.at = "callback"]
    BY <1>c DEF TypeOK
  <2>b. [event[t] EXCEPT !.at = "callback"].r = event[t].r
    BY <1>b DEF Deliveries
  <2>2. /\ event'[t] = [event[t] EXCEPT !.at = "callback"]
        /\ event'[t].r = event[t].r
    BY <2>a, <2>b
  <2>3. \A u \in Threads : u # t => event'[u] = event[u]
    BY <1>c DEF TypeOK
  <2> QED BY <1>b, <1>c, <2>1, <2>2, <2>3 DEF TypeOK
<1>1. TypeOK'
  BY <1>c, <1>d, <1>e DEF TypeOK
<1>2. StartShape'
  BY <1>c, <1>d DEF StartShape, NoStart
<1>3. EventShape'
  BY <1>c, <1>e DEF EventShape
<1>4. Fresh'
  BY <1>c DEF Fresh
\* The start of a request of one's own thread is not what is woken: such a
\* request is not launched, and has no event.
<1>5. Own'
  <2> SUFFICES ASSUME NEW r \in Requests, thread[r] # None,
                      caller[r] = thread[r]
               PROVE  OwnThread(r)'
    BY <1>c DEF Own
  <2>1. OwnThread(r)
    BY DEF Own
  <2>2. phase[q] \in {"launched", "started"}
    BY <1>b DEF EventShape
  <2>3. thread[r] \in Threads
    BY DEF TypeOK, Threads
  <2> QED BY <1>c, <1>d, <2>1, <2>2, <2>3 DEF OwnThread
<1>6. WokenHeard'
  <2> SUFFICES ASSUME NEW u \in Threads, start'[u].at = "woken",
                      err[start'[u].r] = "ok"
               PROVE  heard'[start'[u].r]
    BY <1>c DEF WokenHeard
  <2>1. start[u] \in Starts \cup {NoStart}
    BY DEF TypeOK
  <2>2. CASE start'[u] = start[u]
    BY <1>c, <2>1, <2>2 DEF WokenHeard, Starts, NoStart
  <2>3. CASE start'[u] # start[u]
    BY <1>d, <2>3
  <2> QED BY <2>2, <2>3
<1>7. SuccessHeard'
  BY <1>c DEF SuccessHeard
<1> QED BY <1>1, <1>2, <1>3, <1>4, <1>5, <1>6, <1>7

\* Callback: the relay starts a request inside a callback.
LEMMA CallbackKeeps ==
  ASSUME IInv, NEW t \in Threads, Callback(t)
  PROVE  IInv'
<1> USE DEF IInv, Shape
<1>a. At(t, "callback")
  BY DEF Callback
<1>b. event[t] \in Deliveries /\ event[t] # NoEvent /\ start[t] = NoStart
  BY <1>a, Delivering
<1>c. /\ event' = [event EXCEPT ![t].at = "after"]
      /\ UNCHANGED <<lock, next, thread, err, heard, result, faults>>
  BY DEF Callback
<1>e. /\ event' \in [Threads -> Deliveries \cup {NoEvent}]
      /\ \A u \in Threads : event'[u] # NoEvent =>
           event[u] # NoEvent /\ event'[u].r = event[u].r
  <2>1. [event[t] EXCEPT !.at = "after"] \in Deliveries
    BY <1>b, GoesOn DEF Deliveries
  <2>a. event'[t] = [event[t] EXCEPT !.at = "after"]
    BY <1>c DEF TypeOK
  <2>b. [event[t] EXCEPT !.at = "after"].r = event[t].r
    BY <1>b DEF Deliveries
  <2>2. event'[t] = [event[t] EXCEPT !.at = "after"] /\ event'[t].r = event[t].r
    BY <2>a, <2>b
  <2>3. \A u \in Threads : u # t => event'[u] = event[u]
    BY <1>c DEF TypeOK
  <2> QED BY <1>b, <1>c, <2>1, <2>2, <2>3 DEF TypeOK
<1>1. CASE event[t].ev = "Started" \/ event[t].hidden
  <2>1. UNCHANGED <<created, caller, phase, start>>
    BY <1>1 DEF Callback
  <2>2. TypeOK'
    BY <1>c, <1>e, <2>1 DEF TypeOK
  <2>3. EventShape'
    BY <1>c, <1>e, <2>1 DEF EventShape
  <2>4. StartShape' /\ Fresh' /\ WokenHeard' /\ SuccessHeard'
    BY <1>c, <2>1 DEF StartShape, Fresh, WokenHeard, SuccessHeard
  <2>5. Own'
    BY <1>c, <2>1 DEF Own, OwnThread
  <2> QED BY <2>2, <2>3, <2>4, <2>5
<1>2. CASE ~(event[t].ev = "Started" \/ event[t].hidden)
  <2>1. NewRequest(t)
    BY <1>2 DEF Callback
  <2> QED BY <1>b, <1>c, <1>e, <2>1, NewKeeps
<1> QED BY <1>1, <1>2

\* After: the event is over.
LEMMA AfterKeeps ==
  ASSUME IInv, NEW t \in Threads, After(t)
  PROVE  IInv'
<1> USE DEF IInv, Shape
<1> DEFINE q == event[t].r
<1>a. At(t, "after")
  BY DEF After
<1>b. /\ event[t] \in Deliveries /\ event[t] # NoEvent
      /\ q \in Requests /\ start[t] = NoStart
  BY <1>a, Delivering
<1>c. UNCHANGED <<lock, next, created, start, thread, caller, err, heard, result,
                 faults>>
  BY DEF After
<1>d. thread[q] = t /\ phase[q] \in {"launched", "started"}
  BY <1>b DEF EventShape
<1>1. CASE event[t].ev = "TaskFailed"
  <2>1. /\ event' = [event EXCEPT ![t].ev = "Close", ![t].at = "signal"]
        /\ phase' = phase
    BY <1>1 DEF After
  <2>2. [event[t] EXCEPT !.ev = "Close", !.at = "signal"] \in Deliveries
    BY <1>b, GoesOn DEF Events
  <2>3. event'[t] = [event[t] EXCEPT !.ev = "Close", !.at = "signal"]
    BY <2>1 DEF TypeOK
  <2>4. event'[t].r = q
    BY <1>b, <2>3, GoesOn DEF Events
  <2>5. \A u \in Threads : u # t => event'[u] = event[u]
    BY <2>1 DEF TypeOK
  <2>6. event' \in [Threads -> Deliveries \cup {NoEvent}]
    BY <2>1, <2>2, <2>3, <2>5 DEF TypeOK
  <2>7. TypeOK'
    BY <1>c, <2>1, <2>6 DEF TypeOK
  <2>8. EventShape'
    BY <1>c, <1>d, <2>1, <2>4, <2>5 DEF EventShape
  <2>9. StartShape' /\ Fresh' /\ WokenHeard' /\ SuccessHeard'
    BY <1>c, <2>1 DEF StartShape, Fresh, WokenHeard, SuccessHeard
  <2>10. Own'
    BY <1>c, <2>1 DEF Own, OwnThread
  <2> QED BY <2>7, <2>8, <2>9, <2>10
<1>2. CASE event[t].ev # "TaskFailed"
  <2>1. event' = [event EXCEPT ![t] = NoEvent]
    BY <1>2 DEF After
  <2>2. PICK p \in {"started", "invoked", "closed"} :
          phase' = [phase EXCEPT ![q] = p]
    BY <1>2 DEF After
  <2>3. TypeOK'
    BY <1>b, <1>c, <2>1, <2>2 DEF TypeOK, Phases
  <2>4. StartShape'
    <3> SUFFICES ASSUME NEW u \in Threads, start[u] # NoStart
                 PROVE  /\ start[u].r =< created
                        /\ caller[start[u].r] = u
                        /\ result[start[u].r] = "none"
                        /\ start[u].at = "lock" => phase'[start[u].r] = "created"
                        /\ start[u].at # "lock" => phase'[start[u].r] \notin Early
      BY <1>c DEF StartShape
    <3>1. start[u].r \in Requests
      BY DEF TypeOK, Starts
    <3> QED BY <1>b, <1>d, <2>2, <3>1 DEF StartShape, TypeOK, Early
  <2>5. EventShape'
    <3> SUFFICES ASSUME NEW u \in Threads, event'[u] # NoEvent
                 PROVE  /\ thread[event'[u].r] = u
                        /\ phase'[event'[u].r] \in {"launched", "started"}
      BY <1>c DEF EventShape
    <3>1. u # t /\ event'[u] = event[u]
      BY <2>1 DEF TypeOK
    <3>2. event[u].r \in Requests /\ thread[event[u].r] = u
      BY <3>1 DEF TypeOK, Deliveries, EventShape
    <3>3. event[u].r # q
      BY <1>d, <3>1, <3>2
    <3> QED BY <1>b, <2>2, <3>1, <3>2, <3>3 DEF EventShape, TypeOK
  <2>6. Fresh'
    BY <1>b, <1>c, <1>d, <2>2 DEF Fresh, Early, TypeOK
  <2>7. Own'
    <3> SUFFICES ASSUME NEW r \in Requests, thread[r] # None,
                        caller[r] = thread[r]
                 PROVE  OwnThread(r)'
      BY <1>c DEF Own
    <3>1. OwnThread(r)
      BY DEF Own
    <3>2. CASE r = q
      BY <1>c, <1>d, <3>1, <3>2 DEF OwnThread
    <3>3. CASE r # q
      <4>1. phase'[r] = phase[r]
        BY <1>b, <2>2, <3>3 DEF TypeOK
      <4> QED BY <1>c, <3>1, <4>1 DEF OwnThread
    <3> QED BY <3>2, <3>3
  <2>8. WokenHeard' /\ SuccessHeard'
    BY <1>c DEF WokenHeard, SuccessHeard
  <2> QED BY <2>3, <2>4, <2>5, <2>6, <2>7, <2>8
<1> QED BY <1>1, <1>2

-----------------------------------------------------------------------------
LEMMA StepKeeps == IInv /\ [Next]_vars => IInv'
<1> SUFFICES ASSUME IInv, [Next]_vars PROVE IInv'
  OBVIOUS
<1>1. CASE FirstStart
  BY <1>1, FirstStartKeeps
<1>2. ASSUME NEW t \in Threads, StartLocks(t) PROVE IInv'
  BY <1>2, StartLocksKeeps
<1>3. ASSUME NEW t \in Threads, Runs(t) PROVE IInv'
  BY <1>3, StartWaitsKeeps, StartTimesOutKeeps, StartReturnsKeeps, SignalKeeps,
     CallbackKeeps, AfterKeeps DEF Runs
<1>4. ASSUME NEW r \in Requests, Launch(r) \/ Started(r) \/ Fails(r) PROVE IInv'
  BY <1>4, LaunchKeeps, StartedKeeps, FailsKeeps
<1>5. CASE UNCHANGED vars
  BY <1>5 DEF vars, reqVars, IInv, TypeOK, Shape, StartShape, EventShape, Fresh,
              Own, OwnThread, WokenHeard, SuccessHeard
<1> QED BY <1>1, <1>2, <1>3, <1>4, <1>5 DEF Next

LEMMA Inductive == Spec => []IInv
  BY InitHolds, StepKeeps, PTL DEF Spec

\* Types: whatever the numbers of threads, failures and requests, every request
\* is dealt to a work thread that exists (selectThreadNumber).
THEOREM TypeCorrect == Spec => []TypeOK
<1>1. IInv => TypeOK
  BY DEF IInv
<1> QED BY <1>1, Inductive, PTL

\* A start that returns 0 has heard of its own request (waitInvokeFinish and
\* sendFinishCondSignal), although signals may be lost and a wait has no
\* predicate.
THEOREM SuccessIsHeard == Spec => []SuccessHeard
<1>1. IInv => SuccessHeard
  BY DEF IInv
<1> QED BY <1>1, Inductive, PTL

\* A request dealt to the thread whose callback starts it never gets an answer
\* in time: its start returns a timeout, and it is launched after that.
THEOREM OwnThreadTimesOut == Spec => []SelfWaits
<1>1. IInv => SelfWaits
  BY DEF IInv, Own, OwnThread, SelfWaits
<1> QED BY <1>1, Inductive, PTL
=============================================================================
