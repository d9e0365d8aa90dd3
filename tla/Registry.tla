------------------------------ MODULE Registry ------------------------------
(***************************************************************************)
(* The registry of requests (NlsNodeManager) and the ways in which a       *)
(* request comes to its end: NlsClientImpl::releaseRequest, called by      *)
(* several threads of the user, and WorkThread::destroyConnectNode on the  *)
(* work thread, while the work thread also runs event callbacks.           *)
(*                                                                         *)
(* One address is enough, since the registry is a map from addresses: the  *)
(* allocator may give it to a new request as soon as the old one is        *)
(* deleted, and a thread works on what it finds there. A request is known  *)
(* by the uuid of its node, its number here. Each call of NlsNodeManager   *)
(* is one step, under its mutex; between the calls the threads interleave. *)
(* A thread that uses the address when nothing lives there is "wild": its  *)
(* behaviour is undefined, and it takes no further part. Left out: what a  *)
(* callback does with the connection (module Node), the thread of a system *)
(* DNS, more than one client.                                              *)
(***************************************************************************)
EXTENDS Integers

CONSTANTS Users,        \* threads that create and release requests
          Worker,       \* the work thread
          MaxRequests,  \* bound: requests created
          Uses          \* what may happen in a behaviour

\* destroys: the work thread gives requests up by destroyConnectNode; late:
\* waits may time out, for the guard (2 s) and for a callback (1 s); reuse: an
\* address is given to another request after the first.
ASSUME RegistryAssumption ==
  /\ Worker \notin Users /\ MaxRequests \in Nat
  /\ Uses \subseteq [destroys : BOOLEAN, late : BOOLEAN, reuse : BOOLEAN]

Threads == Users \cup {Worker}
Uuids == 1..MaxRequests
None == 0                \* nothing lives at the address; no entry for it
Points == {"idle", "check0", "guard", "check1", "events", "destroyed", "remove",
           "delete", "unguard", "flag", "work", "destroy", "signal", "wild"}

\* object     the request that lives at the address
\* instance   its node knows the client: it was started
\* events     its node has events of libevent
\* isDestroy, inCallback  _isDestroy and _inEventCallbackNode of its node
\* entry      the uuid that the registry has for the address
\* made       requests created so far
\* asked      the users that have released the object
\* guard      the threads in _mtxReleaseRequestGuard, one at most
\* pc         where each thread is
\* found      checkRequestExist of destroyConnectNode returned Success
\* twice      something was deleted that did not live
\* use        what may happen in this behaviour
VARIABLES object, instance, events, isDestroy, inCallback, entry, made, asked,
          guard, pc, found, twice, use

nodeVars == <<instance, events, isDestroy, inCallback, asked>>
vars == <<object, nodeVars, entry, made, guard, pc, found, twice, use>>

Init ==
  /\ object = None /\ entry = None /\ made = 0 /\ asked = {}
  /\ instance = FALSE /\ events = FALSE
  /\ isDestroy = FALSE /\ inCallback = FALSE
  /\ guard = {} /\ pc = [t \in Threads |-> "idle"]
  /\ found = FALSE /\ twice = FALSE /\ use \in Uses

\* A step to a point; one that uses the request needs a request to be there.
Go(t, to) == pc' = [pc EXCEPT ![t] = to]
GoUsing(t, to) == Go(t, IF object = None THEN "wild" ELSE to)

\* checkRequestExist, checkNodeExist and checkRequestWithInstance: the registry
\* has an entry, and its uuid is that of the object.
Exists == entry # None /\ entry = object

-----------------------------------------------------------------------------
\* createTranscriberRequestImpl with addRequestIntoInfoWithInstance, where
\* nothing lives. An entry that is still there of a request that has run makes
\* it delete the new request and return NULL.
Create ==
  /\ object = None /\ made < MaxRequests /\ (made = 0 \/ use.reuse)
  /\ made' = made + 1
  /\ IF entry = None THEN object' = made + 1 /\ entry' = made + 1
     ELSE UNCHANGED <<object, entry>>
  /\ instance' = FALSE /\ events' = FALSE /\ isDestroy' = FALSE
  /\ inCallback' = FALSE /\ asked' = {}
  /\ UNCHANGED <<guard, pc, found, twice, use>>

\* NlsEventNetWork::start: setInstance and the launch event.
Start ==
  /\ object # None /\ asked = {} /\ ~instance
  /\ instance' = TRUE /\ events' = TRUE
  /\ UNCHANGED <<object, isDestroy, inCallback, asked, entry, made, guard, pc,
                 found, twice, use>>

-----------------------------------------------------------------------------
\* releaseTranscriberRequestImpl: checkRequestWithInstance and a cancel. Each
\* user may release a request, once.
Release(u) ==
  /\ u \in Users /\ pc[u] = "idle"
  /\ object # None /\ u \notin asked
  /\ asked' = asked \cup {u}
  /\ Go(u, IF Exists THEN "check0" ELSE "idle")
  /\ UNCHANGED <<object, instance, events, isDestroy, inCallback, entry, made,
                 guard, found, twice, use>>

\* releaseRequest up to the guard: getConnectNode, checkRequestExist.
Check0(u) ==
  /\ pc[u] = "check0"
  /\ GoUsing(u, IF Exists THEN "guard" ELSE "idle")
  /\ UNCHANGED <<object, nodeVars, entry, made, guard, found, twice, use>>

\* (variant: a guard that was not got in time is taken for got)
TakeGuard_Anyway(t) ==
  /\ pc[t] = "guard"
  /\ \/ (t = Worker \/ (object # None /\ instance)) /\ guard' = guard \cup {t}
     \/ t \in Users /\ ~(object # None /\ instance) /\ UNCHANGED guard
  /\ IF t = Worker THEN Go(t, "check1") ELSE GoUsing(t, "check1")
  /\ UNCHANGED <<object, nodeVars, entry, made, found, twice, use>>

\* MUTEX_TRY_LOCK: the guard is got, or not in time and the release goes on
\* without it. releaseRequest knows the guard from the node, and for a request
\* that was never started does without it.
TakeGuard(t) ==
  /\ pc[t] = "guard"
  /\ \/ /\ t = Worker \/ (object # None /\ instance)
        /\ guard = {} /\ guard' = {t}
     \/ /\ (t \in Users /\ ~(object # None /\ instance))
             \/ (use.late /\ guard # {})
        /\ UNCHANGED guard
  /\ IF t = Worker THEN Go(t, "check1") ELSE GoUsing(t, "check1")
  /\ UNCHANGED <<object, nodeVars, entry, made, found, twice, use>>

Check1(u) ==
  /\ u \in Users /\ pc[u] = "check1"
  /\ Go(u, IF Exists THEN "events" ELSE "unguard")
  /\ UNCHANGED <<object, nodeVars, entry, made, guard, found, twice, use>>

\* (variant: the wait for the callback has no timeout)
DelAllEvents_Waits(u) ==
  /\ pc[u] = "events" /\ ~inCallback
  /\ events' = FALSE
  /\ GoUsing(u, "destroyed")
  /\ UNCHANGED <<object, instance, isDestroy, inCallback, asked, entry, made,
                 guard, found, twice, use>>

\* delAllEvents with waitEventCallback before and after: until the callback that
\* runs has signalled its end, or for a second.
DelAllEvents(u) ==
  /\ pc[u] = "events"
  /\ ~inCallback \/ use.late
  /\ events' = FALSE
  /\ GoUsing(u, "destroyed")
  /\ UNCHANGED <<object, instance, isDestroy, inCallback, asked, entry, made,
                 guard, found, twice, use>>

\* updateDestroyStatus, whose answer releaseRequest does not look at.
SetDestroy(u) ==
  /\ pc[u] = "destroyed"
  /\ isDestroy' = TRUE
  /\ GoUsing(u, "remove")
  /\ UNCHANGED <<object, instance, events, inCallback, asked, entry, made,
                 guard, found, twice, use>>

\* (variant: deleted whatever removeRequestFromInfo says)
Remove_Anyway(u) ==
  /\ u \in Users /\ pc[u] = "remove"
  /\ entry' = None
  /\ Go(u, "delete")
  /\ UNCHANGED <<object, nodeVars, made, guard, found, twice, use>>

\* removeRequestFromInfo: only who finds the entry goes on to delete.
Remove(u) ==
  /\ u \in Users /\ pc[u] = "remove"
  /\ entry' = None
  /\ Go(u, IF entry = None THEN "unguard" ELSE "delete")
  /\ UNCHANGED <<object, nodeVars, made, guard, found, twice, use>>

\* delete request, and with it the node. On the work thread destroyConnectNode
\* and the callback around it then go on with the node that is no more.
Delete(t) ==
  /\ pc[t] = "delete"
  /\ object' = None /\ twice' = (twice \/ object = None)
  /\ Go(t, IF t = Worker THEN "wild" ELSE "unguard")
  /\ guard' = IF t = Worker THEN guard \ {t} ELSE guard
  /\ UNCHANGED <<nodeVars, entry, made, found, use>>

Unguard(t) ==
  /\ pc[t] = "unguard"
  /\ guard' = guard \ {t}
  /\ Go(t, IF t = Worker THEN "signal" ELSE "idle")
  /\ UNCHANGED <<object, nodeVars, entry, made, found, twice, use>>

-----------------------------------------------------------------------------
\* An event callback: checkNodeExist, and only then the flag that a release
\* waits for; at the end the flag is taken back and signalled.
Event ==
  /\ pc[Worker] = "idle" /\ events /\ object # None
  /\ Go(Worker, IF Exists THEN "flag" ELSE "idle")
  /\ UNCHANGED <<object, nodeVars, entry, made, guard, found, twice, use>>

Flag ==
  /\ pc[Worker] = "flag"
  /\ inCallback' = TRUE
  /\ GoUsing(Worker, "work")
  /\ UNCHANGED <<object, instance, events, isDestroy, asked, entry, made, guard,
                 found, twice, use>>

Work ==
  /\ pc[Worker] = "work"
  /\ \/ GoUsing(Worker, "signal")
     \/ use.destroys /\ GoUsing(Worker, "destroy")
  /\ UNCHANGED <<object, nodeVars, entry, made, guard, found, twice, use>>

Signal ==
  /\ pc[Worker] = "signal"
  /\ inCallback' = FALSE
  /\ GoUsing(Worker, "idle")
  /\ UNCHANGED <<object, instance, events, isDestroy, asked, entry, made, guard,
                 found, twice, use>>

\* destroyConnectNode: the first time it only marks the node.
Destroy ==
  /\ pc[Worker] = "destroy"
  /\ isDestroy' = TRUE
  /\ GoUsing(Worker, IF isDestroy THEN "guard" ELSE "signal")
  /\ UNCHANGED <<object, instance, events, inCallback, asked, entry, made,
                 guard, found, twice, use>>

DestroyCheck ==
  /\ pc[Worker] = "check1"
  /\ found' = Exists
  /\ Go(Worker, IF entry = None THEN "unguard" ELSE "remove")
  /\ UNCHANGED <<object, nodeVars, entry, made, guard, twice, use>>

\* Here the answer of removeRequestFromInfo is not looked at.
DestroyRemove ==
  /\ pc[Worker] = "remove"
  /\ entry' = None
  /\ Go(Worker, IF found THEN "delete" ELSE "unguard")
  /\ UNCHANGED <<object, nodeVars, made, guard, found, twice, use>>

-----------------------------------------------------------------------------
Releasing(u) ==
  \/ Check0(u) \/ Check1(u) \/ DelAllEvents(u) \/ SetDestroy(u) \/ Remove(u)
Working == Flag \/ Work \/ Signal \/ Destroy \/ DestroyCheck \/ DestroyRemove
Ending(t) == TakeGuard(t) \/ Delete(t) \/ Unguard(t)

Next ==
  \/ Create \/ Start \/ Event \/ Working
  \/ \E u \in Users : Release(u) \/ Releasing(u)
  \/ \E t \in Threads : Ending(t)

Spec == Init /\ [][Next]_vars

\* Threads run; a guard that is let go is got, or the wait for it times out.
FairSpec ==
  /\ Spec /\ WF_vars(Working \/ Ending(Worker))
  /\ \A u \in Users : WF_vars(Releasing(u) \/ Ending(u))

-----------------------------------------------------------------------------
TypeOK ==
  /\ object \in Uuids \cup {None} /\ entry \in Uuids \cup {None}
  /\ made \in 0..MaxRequests /\ asked \subseteq Users
  /\ {instance, events, isDestroy, inCallback, found, twice} \subseteq BOOLEAN
  /\ guard \in {{}} \cup {{t} : t \in Threads}
  /\ pc \in [Threads -> Points] /\ use \in Uses

\* Where destroyConnectNode ends requests too, what is promised rests on the
\* guard. It fails when the guard is not got in time, and when the address has
\* a new request by then, since a thread that took no guard for the old one,
\* which was never started, goes on with the new: nothing is promised there.
Guarded == use.destroys => ~use.late /\ ~use.reuse

\* What the registry knows is alive, whoever releases what and when: an entry
\* goes before its request does. So the checks of a request read no freed memory,
\* and a new request never finds an entry at its address: create does not
\* return NULL.
EntryAlive == Guarded /\ entry # None => object = entry

\* Nothing is deleted twice: by users that release one request at the same time,
\* even if the guard is not got, nor by a user and destroyConnectNode under it.
DeletedOnce == Guarded => ~twice

\* Every release ends: a release that holds the guard and waits for a callback,
\* and a callback that waits for the guard, do not wait for each other for ever,
\* as long as the waits have their timeouts.
ReleaseEnds ==
  \A u \in Users : use.late /\ pc[u] # "idle" ~> pc[u] \in {"idle", "wild"}
=============================================================================
