--------------------------- MODULE RegistryProofs ---------------------------
(***************************************************************************)
(* Proofs about the registry of requests, for any set of users, number of  *)
(* requests and ways of use: the types, that an entry is alive, and that   *)
(* nothing is deleted twice.                                               *)
(***************************************************************************)
EXTENDS Registry, TLAPS

\* Between the guard and its end.
Inside == {"check1", "events", "destroyed", "remove", "delete", "unguard"}

\* Who is to delete the request has taken its entry out, and is alone with it.
Deleter ==
  \A t \in Threads :
    pc[t] = "delete" =>
      /\ entry = None /\ object # None
      /\ \A v \in Threads : pc[v] = "delete" => v = t

\* Without destroyConnectNode the work thread ends no request.
NoDestroyer ==
  ~use.destroys => pc[Worker] \in {"idle", "flag", "work", "signal", "wild"}

\* With it there is one request in all. The work thread does nothing for it
\* before it is started, and nobody that releases it goes back to its start.
OneStart ==
  use.destroys =>
    /\ ~instance => ~events /\ pc[Worker] = "idle"
    /\ made = 0 => object = None /\ asked = {} /\ ~instance
    /\ \A u \in Users : pc[u] # "idle" => u \in asked

\* Once the request is started, who is inside has the guard; so the entry that
\* destroyConnectNode has seen is still there when it removes it.
InGuard ==
  use.destroys =>
    /\ instance => \A t \in Threads : pc[t] \in Inside => guard = {t}
    /\ pc[Worker] = "remove" => entry # None

IInv ==
  /\ TypeOK
  /\ Guarded => /\ EntryAlive /\ DeletedOnce /\ Deleter
                /\ NoDestroyer /\ OneStart /\ InGuard

-----------------------------------------------------------------------------
USE RegistryAssumption

\* createTranscriberRequestImpl: a request at a free address.
LEMMA CreateKeeps ==
  ASSUME IInv, Create
  PROVE  IInv'
<1> USE DEF IInv, Create, Go, GoUsing, Threads, nodeVars, None
<1>1. TypeOK'
  <2>1. made \in Nat /\ made' \in 0..MaxRequests /\ made + 1 \in Uuids
    BY DEF TypeOK, Uuids
  <2>2. object' \in Uuids \cup {None} /\ entry' \in Uuids \cup {None}
    BY <2>1 DEF TypeOK
  <2> QED BY <2>1, <2>2 DEF TypeOK
<1> SUFFICES ASSUME Guarded
             PROVE  /\ EntryAlive' /\ DeletedOnce' /\ Deleter'
                    /\ NoDestroyer' /\ OneStart' /\ InGuard'
  BY <1>1 DEF Guarded
<1>2. EntryAlive' /\ DeletedOnce'
  BY DEF TypeOK, EntryAlive, DeletedOnce, Guarded, Deleter
<1>3. Deleter'
  BY DEF TypeOK, EntryAlive, Guarded, Deleter, InGuard, OneStart, Inside
<1>4. NoDestroyer'
  BY DEF TypeOK, NoDestroyer
<1>5. OneStart'
  BY DEF TypeOK, OneStart, Guarded
<1>6. InGuard'
  BY DEF TypeOK, InGuard, OneStart, Inside, Guarded
<1> QED BY <1>2, <1>3, <1>4, <1>5, <1>6

\* start: nobody has released the request, so nobody is inside.
LEMMA StartKeeps ==
  ASSUME IInv, Start
  PROVE  IInv'
<1> USE DEF IInv, Start, Go, GoUsing, Threads, nodeVars, None
<1>1. TypeOK'
  BY DEF TypeOK, Points, Uuids
<1> SUFFICES ASSUME Guarded
             PROVE  /\ EntryAlive' /\ DeletedOnce' /\ Deleter'
                    /\ NoDestroyer' /\ OneStart' /\ InGuard'
  BY <1>1 DEF Guarded
<1>2. EntryAlive' /\ DeletedOnce'
  BY DEF TypeOK, EntryAlive, DeletedOnce, Guarded, Deleter
<1>3. Deleter'
  BY DEF TypeOK, EntryAlive, Guarded, Deleter, InGuard, OneStart, Inside
<1>4. NoDestroyer'
  BY DEF TypeOK, NoDestroyer
<1>5. OneStart'
  BY DEF TypeOK, OneStart, Guarded
<1>6. InGuard'
  BY DEF TypeOK, InGuard, OneStart, Inside, Guarded
<1> QED BY <1>2, <1>3, <1>4, <1>5, <1>6

\* releaseTranscriberRequestImpl.
LEMMA ReleaseKeeps ==
  ASSUME IInv, NEW u \in Users, Release(u)
  PROVE  IInv'
<1> USE DEF IInv, Release, Go, GoUsing, Threads, nodeVars, None
<1>1. TypeOK'
  BY DEF TypeOK, Points, Uuids
<1> SUFFICES ASSUME Guarded
             PROVE  /\ EntryAlive' /\ DeletedOnce' /\ Deleter'
                    /\ NoDestroyer' /\ OneStart' /\ InGuard'
  BY <1>1 DEF Guarded
<1>2. EntryAlive' /\ DeletedOnce'
  BY DEF TypeOK, EntryAlive, DeletedOnce, Guarded, Deleter
<1>3. Deleter'
  BY DEF TypeOK, EntryAlive, Guarded, Deleter, InGuard, OneStart, Inside
<1>4. NoDestroyer'
  BY DEF TypeOK, NoDestroyer
<1>5. OneStart'
  BY DEF TypeOK, OneStart, Guarded
<1>6. InGuard'
  BY DEF TypeOK, InGuard, OneStart, Inside, Guarded
<1> QED BY <1>2, <1>3, <1>4, <1>5, <1>6

\* The first check of releaseRequest.
LEMMA Check0Keeps ==
  ASSUME IInv, NEW u \in Users, Check0(u)
  PROVE  IInv'
<1> USE DEF IInv, Check0, Go, GoUsing, Threads, nodeVars, None
<1>1. TypeOK'
  BY DEF TypeOK, Points, Uuids
<1> SUFFICES ASSUME Guarded
             PROVE  /\ EntryAlive' /\ DeletedOnce' /\ Deleter'
                    /\ NoDestroyer' /\ OneStart' /\ InGuard'
  BY <1>1 DEF Guarded
<1>2. EntryAlive' /\ DeletedOnce'
  BY DEF TypeOK, EntryAlive, DeletedOnce, Guarded, Deleter
<1>3. Deleter'
  BY DEF TypeOK, EntryAlive, Guarded, Deleter, InGuard, OneStart, Inside
<1>4. NoDestroyer'
  BY DEF TypeOK, NoDestroyer
<1>5. OneStart'
  BY DEF TypeOK, OneStart, Guarded
<1>6. InGuard'
  BY DEF TypeOK, InGuard, OneStart, Inside, Guarded
<1> QED BY <1>2, <1>3, <1>4, <1>5, <1>6

\* The guard: with destroyConnectNode about it is got, or the request was never
\* started, or is gone.
LEMMA TakeGuardKeeps ==
  ASSUME IInv, NEW t \in Threads, TakeGuard(t)
  PROVE  IInv'
<1> USE DEF IInv, TakeGuard, Go, GoUsing, Threads, nodeVars, None
<1>1. TypeOK'
  BY DEF TypeOK, Points, Uuids
<1> SUFFICES ASSUME Guarded
             PROVE  /\ EntryAlive' /\ DeletedOnce' /\ Deleter'
                    /\ NoDestroyer' /\ OneStart' /\ InGuard'
  BY <1>1 DEF Guarded
<1>2. EntryAlive' /\ DeletedOnce'
  BY DEF TypeOK, EntryAlive, DeletedOnce, Guarded, Deleter
<1>3. Deleter'
  BY DEF TypeOK, EntryAlive, Guarded, Deleter, InGuard, OneStart, Inside
<1>4. NoDestroyer'
  BY DEF TypeOK, NoDestroyer
<1>5. OneStart'
  BY DEF TypeOK, OneStart, Guarded
<1>6. InGuard'
  BY DEF TypeOK, InGuard, OneStart, Inside, Guarded
<1> QED BY <1>2, <1>3, <1>4, <1>5, <1>6

\* The second check of releaseRequest.
LEMMA Check1Keeps ==
  ASSUME IInv, NEW u \in Users, Check1(u)
  PROVE  IInv'
<1> USE DEF IInv, Check1, Go, GoUsing, Threads, nodeVars, None
<1>1. TypeOK'
  BY DEF TypeOK, Points, Uuids
<1> SUFFICES ASSUME Guarded
             PROVE  /\ EntryAlive' /\ DeletedOnce' /\ Deleter'
                    /\ NoDestroyer' /\ OneStart' /\ InGuard'
  BY <1>1 DEF Guarded
<1>2. EntryAlive' /\ DeletedOnce'
  BY DEF TypeOK, EntryAlive, DeletedOnce, Guarded, Deleter
<1>3. Deleter'
  BY DEF TypeOK, EntryAlive, Guarded, Deleter, InGuard, OneStart, Inside
<1>4. NoDestroyer'
  BY DEF TypeOK, NoDestroyer
<1>5. OneStart'
  BY DEF TypeOK, OneStart, Guarded
<1>6. InGuard'
  BY DEF TypeOK, InGuard, OneStart, Inside, Guarded
<1> QED BY <1>2, <1>3, <1>4, <1>5, <1>6

\* delAllEvents.
LEMMA DelAllEventsKeeps ==
  ASSUME IInv, NEW u \in Users, DelAllEvents(u)
  PROVE  IInv'
<1> USE DEF IInv, DelAllEvents, Go, GoUsing, Threads, nodeVars, None
<1>1. TypeOK'
  BY DEF TypeOK, Points, Uuids
<1> SUFFICES ASSUME Guarded
             PROVE  /\ EntryAlive' /\ DeletedOnce' /\ Deleter'
                    /\ NoDestroyer' /\ OneStart' /\ InGuard'
  BY <1>1 DEF Guarded
<1>2. EntryAlive' /\ DeletedOnce'
  BY DEF TypeOK, EntryAlive, DeletedOnce, Guarded, Deleter
<1>3. Deleter'
  BY DEF TypeOK, EntryAlive, Guarded, Deleter, InGuard, OneStart, Inside
<1>4. NoDestroyer'
  BY DEF TypeOK, NoDestroyer
<1>5. OneStart'
  BY DEF TypeOK, OneStart, Guarded
<1>6. InGuard'
  BY DEF TypeOK, InGuard, OneStart, Inside, Guarded
<1> QED BY <1>2, <1>3, <1>4, <1>5, <1>6

\* updateDestroyStatus.
LEMMA SetDestroyKeeps ==
  ASSUME IInv, NEW u \in Users, SetDestroy(u)
  PROVE  IInv'
<1> USE DEF IInv, SetDestroy, Go, GoUsing, Threads, nodeVars, None
<1>1. TypeOK'
  BY DEF TypeOK, Points, Uuids
<1> SUFFICES ASSUME Guarded
             PROVE  /\ EntryAlive' /\ DeletedOnce' /\ Deleter'
                    /\ NoDestroyer' /\ OneStart' /\ InGuard'
  BY <1>1 DEF Guarded
<1>2. EntryAlive' /\ DeletedOnce'
  BY DEF TypeOK, EntryAlive, DeletedOnce, Guarded, Deleter
<1>3. Deleter'
  BY DEF TypeOK, EntryAlive, Guarded, Deleter, InGuard, OneStart, Inside
<1>4. NoDestroyer'
  BY DEF TypeOK, NoDestroyer
<1>5. OneStart'
  BY DEF TypeOK, OneStart, Guarded
<1>6. InGuard'
  BY DEF TypeOK, InGuard, OneStart, Inside, Guarded
<1> QED BY <1>2, <1>3, <1>4, <1>5, <1>6

\* removeRequestFromInfo: an entry that is there has a live request, and nobody
\* else is about to delete it.
LEMMA RemoveKeeps ==
  ASSUME IInv, NEW u \in Users, Remove(u)
  PROVE  IInv'
<1> USE DEF IInv, Remove, Go, GoUsing, Threads, nodeVars, None
<1>1. TypeOK'
  BY DEF TypeOK, Points, Uuids
<1> SUFFICES ASSUME Guarded
             PROVE  /\ EntryAlive' /\ DeletedOnce' /\ Deleter'
                    /\ NoDestroyer' /\ OneStart' /\ InGuard'
  BY <1>1 DEF Guarded
<1>2. EntryAlive' /\ DeletedOnce'
  BY DEF TypeOK, EntryAlive, DeletedOnce, Guarded, Deleter
<1>3. Deleter'
  BY DEF TypeOK, EntryAlive, Guarded, Deleter, InGuard, OneStart, Inside
<1>4. NoDestroyer'
  BY DEF TypeOK, NoDestroyer
<1>5. OneStart'
  BY DEF TypeOK, OneStart, Guarded
<1>6. InGuard'
  BY DEF TypeOK, InGuard, OneStart, Inside, Guarded
<1> QED BY <1>2, <1>3, <1>4, <1>5, <1>6

\* delete request.
LEMMA DeleteKeeps ==
  ASSUME IInv, NEW t \in Threads, Delete(t)
  PROVE  IInv'
<1> USE DEF IInv, Delete, Go, GoUsing, Threads, nodeVars, None
<1>1. TypeOK'
  BY DEF TypeOK, Points, Uuids
<1> SUFFICES ASSUME Guarded
             PROVE  /\ EntryAlive' /\ DeletedOnce' /\ Deleter'
                    /\ NoDestroyer' /\ OneStart' /\ InGuard'
  BY <1>1 DEF Guarded
<1>2. EntryAlive' /\ DeletedOnce'
  BY DEF TypeOK, EntryAlive, DeletedOnce, Guarded, Deleter
<1>3. Deleter'
  BY DEF TypeOK, EntryAlive, Guarded, Deleter, InGuard, OneStart, Inside
<1>4. NoDestroyer'
  BY DEF TypeOK, NoDestroyer
<1>5. OneStart'
  BY DEF TypeOK, OneStart, Guarded
<1>6. InGuard'
  BY DEF TypeOK, InGuard, OneStart, Inside, Guarded
<1> QED BY <1>2, <1>3, <1>4, <1>5, <1>6

\* The guard is let go.
LEMMA UnguardKeeps ==
  ASSUME IInv, NEW t \in Threads, Unguard(t)
  PROVE  IInv'
<1> USE DEF IInv, Unguard, Go, GoUsing, Threads, nodeVars, None
<1>1. TypeOK'
  BY DEF TypeOK, Points, Uuids
<1> SUFFICES ASSUME Guarded
             PROVE  /\ EntryAlive' /\ DeletedOnce' /\ Deleter'
                    /\ NoDestroyer' /\ OneStart' /\ InGuard'
  BY <1>1 DEF Guarded
<1>2. EntryAlive' /\ DeletedOnce'
  BY DEF TypeOK, EntryAlive, DeletedOnce, Guarded, Deleter
<1>3. Deleter'
  BY DEF TypeOK, EntryAlive, Guarded, Deleter, InGuard, OneStart, Inside
<1>4. NoDestroyer'
  BY DEF TypeOK, NoDestroyer
<1>5. OneStart'
  BY DEF TypeOK, OneStart, Guarded
<1>6. InGuard'
  BY DEF TypeOK, InGuard, OneStart, Inside, Guarded
<1> QED BY <1>2, <1>3, <1>4, <1>5, <1>6

\* An event callback begins.
LEMMA EventKeeps ==
  ASSUME IInv, Event
  PROVE  IInv'
<1> USE DEF IInv, Event, Go, GoUsing, Threads, nodeVars, None
<1>1. TypeOK'
  BY DEF TypeOK, Points, Uuids
<1> SUFFICES ASSUME Guarded
             PROVE  /\ EntryAlive' /\ DeletedOnce' /\ Deleter'
                    /\ NoDestroyer' /\ OneStart' /\ InGuard'
  BY <1>1 DEF Guarded
<1>2. EntryAlive' /\ DeletedOnce'
  BY DEF TypeOK, EntryAlive, DeletedOnce, Guarded, Deleter
<1>3. Deleter'
  BY DEF TypeOK, EntryAlive, Guarded, Deleter, InGuard, OneStart, Inside
<1>4. NoDestroyer'
  BY DEF TypeOK, NoDestroyer
<1>5. OneStart'
  BY DEF TypeOK, OneStart, Guarded
<1>6. InGuard'
  BY DEF TypeOK, InGuard, OneStart, Inside, Guarded
<1> QED BY <1>2, <1>3, <1>4, <1>5, <1>6

\* It raises its flag.
LEMMA FlagKeeps ==
  ASSUME IInv, Flag
  PROVE  IInv'
<1> USE DEF IInv, Flag, Go, GoUsing, Threads, nodeVars, None
<1>1. TypeOK'
  BY DEF TypeOK, Points, Uuids
<1> SUFFICES ASSUME Guarded
             PROVE  /\ EntryAlive' /\ DeletedOnce' /\ Deleter'
                    /\ NoDestroyer' /\ OneStart' /\ InGuard'
  BY <1>1 DEF Guarded
<1>2. EntryAlive' /\ DeletedOnce'
  BY DEF TypeOK, EntryAlive, DeletedOnce, Guarded, Deleter
<1>3. Deleter'
  BY DEF TypeOK, EntryAlive, Guarded, Deleter, InGuard, OneStart, Inside
<1>4. NoDestroyer'
  BY DEF TypeOK, NoDestroyer
<1>5. OneStart'
  BY DEF TypeOK, OneStart, Guarded
<1>6. InGuard'
  BY DEF TypeOK, InGuard, OneStart, Inside, Guarded
<1> QED BY <1>2, <1>3, <1>4, <1>5, <1>6

\* It does its work, and may come to destroyConnectNode.
LEMMA WorkKeeps ==
  ASSUME IInv, Work
  PROVE  IInv'
<1> USE DEF IInv, Work, Go, GoUsing, Threads, nodeVars, None
<1>1. TypeOK'
  BY DEF TypeOK, Points, Uuids
<1> SUFFICES ASSUME Guarded
             PROVE  /\ EntryAlive' /\ DeletedOnce' /\ Deleter'
                    /\ NoDestroyer' /\ OneStart' /\ InGuard'
  BY <1>1 DEF Guarded
<1>2. EntryAlive' /\ DeletedOnce'
  BY DEF TypeOK, EntryAlive, DeletedOnce, Guarded, Deleter
<1>3. Deleter'
  BY DEF TypeOK, EntryAlive, Guarded, Deleter, InGuard, OneStart, Inside
<1>4. NoDestroyer'
  BY DEF TypeOK, NoDestroyer
<1>5. OneStart'
  BY DEF TypeOK, OneStart, Guarded
<1>6. InGuard'
  BY DEF TypeOK, InGuard, OneStart, Inside, Guarded
<1> QED BY <1>2, <1>3, <1>4, <1>5, <1>6

\* It ends.
LEMMA SignalKeeps ==
  ASSUME IInv, Signal
  PROVE  IInv'
<1> USE DEF IInv, Signal, Go, GoUsing, Threads, nodeVars, None
<1>1. TypeOK'
  BY DEF TypeOK, Points, Uuids
<1> SUFFICES ASSUME Guarded
             PROVE  /\ EntryAlive' /\ DeletedOnce' /\ Deleter'
                    /\ NoDestroyer' /\ OneStart' /\ InGuard'
  BY <1>1 DEF Guarded
<1>2. EntryAlive' /\ DeletedOnce'
  BY DEF TypeOK, EntryAlive, DeletedOnce, Guarded, Deleter
<1>3. Deleter'
  BY DEF TypeOK, EntryAlive, Guarded, Deleter, InGuard, OneStart, Inside
<1>4. NoDestroyer'
  BY DEF TypeOK, NoDestroyer
<1>5. OneStart'
  BY DEF TypeOK, OneStart, Guarded
<1>6. InGuard'
  BY DEF TypeOK, InGuard, OneStart, Inside, Guarded
<1> QED BY <1>2, <1>3, <1>4, <1>5, <1>6

\* destroyConnectNode up to the guard.
LEMMA DestroyKeeps ==
  ASSUME IInv, Destroy
  PROVE  IInv'
<1> USE DEF IInv, Destroy, Go, GoUsing, Threads, nodeVars, None
<1>1. TypeOK'
  BY DEF TypeOK, Points, Uuids
<1> SUFFICES ASSUME Guarded
             PROVE  /\ EntryAlive' /\ DeletedOnce' /\ Deleter'
                    /\ NoDestroyer' /\ OneStart' /\ InGuard'
  BY <1>1 DEF Guarded
<1>2. EntryAlive' /\ DeletedOnce'
  BY DEF TypeOK, EntryAlive, DeletedOnce, Guarded, Deleter
<1>3. Deleter'
  BY DEF TypeOK, EntryAlive, Guarded, Deleter, InGuard, OneStart, Inside
<1>4. NoDestroyer'
  BY DEF TypeOK, NoDestroyer
<1>5. OneStart'
  BY DEF TypeOK, OneStart, Guarded
<1>6. InGuard'
  BY DEF TypeOK, InGuard, OneStart, Inside, Guarded
<1> QED BY <1>2, <1>3, <1>4, <1>5, <1>6

\* Its check.
LEMMA DestroyCheckKeeps ==
  ASSUME IInv, DestroyCheck
  PROVE  IInv'
<1> USE DEF IInv, DestroyCheck, Go, GoUsing, Threads, nodeVars, None
<1>1. TypeOK'
  BY DEF TypeOK, Points, Exists
<1> SUFFICES ASSUME Guarded
             PROVE  /\ EntryAlive' /\ DeletedOnce' /\ Deleter'
                    /\ NoDestroyer' /\ OneStart' /\ InGuard'
  BY <1>1 DEF Guarded
<1>2. EntryAlive' /\ DeletedOnce'
  BY DEF TypeOK, EntryAlive, DeletedOnce, Guarded, Deleter
<1>3. Deleter'
  BY DEF TypeOK, EntryAlive, Guarded, Deleter, InGuard, OneStart, Inside
<1>4. NoDestroyer'
  BY DEF TypeOK, NoDestroyer
<1>5. OneStart'
  BY DEF TypeOK, OneStart, Guarded
<1>6. InGuard'
  BY DEF TypeOK, InGuard, OneStart, Inside, Guarded
<1> QED BY <1>2, <1>3, <1>4, <1>5, <1>6

\* Its removal: it has the guard, so the entry it has seen is there.
LEMMA DestroyRemoveKeeps ==
  ASSUME IInv, DestroyRemove
  PROVE  IInv'
<1> USE DEF IInv, DestroyRemove, Go, GoUsing, Threads, nodeVars, None
<1>1. TypeOK'
  BY DEF TypeOK, Points, Uuids
<1> SUFFICES ASSUME Guarded
             PROVE  /\ EntryAlive' /\ DeletedOnce' /\ Deleter'
                    /\ NoDestroyer' /\ OneStart' /\ InGuard'
  BY <1>1 DEF Guarded
<1>2. EntryAlive' /\ DeletedOnce'
  BY DEF TypeOK, EntryAlive, DeletedOnce, Guarded, Deleter
<1>3. Deleter'
  <2>1. use.destroys /\ instance
    BY DEF TypeOK, NoDestroyer, OneStart
  <2>2. \A v \in Threads : v # Worker => pc[v] \notin Inside
    BY <2>1 DEF InGuard, Inside
  <2>3. object # None
    BY <2>1 DEF InGuard, EntryAlive
  <2>4. \A v \in Threads : v # Worker => pc'[v] # "delete"
    BY <2>2 DEF TypeOK, Inside
  <2> QED BY <2>3, <2>4 DEF Deleter
<1>4. NoDestroyer'
  BY DEF TypeOK, NoDestroyer
<1>5. OneStart'
  BY DEF TypeOK, OneStart, Guarded
<1>6. InGuard'
  BY DEF TypeOK, InGuard, OneStart, Inside, Guarded
<1> QED BY <1>2, <1>3, <1>4, <1>5, <1>6

\* Every step keeps the invariant.
LEMMA StepKeeps == IInv /\ [Next]_vars => IInv'
<1> SUFFICES ASSUME IInv, [Next]_vars PROVE IInv'
  OBVIOUS
<1>1. CASE UNCHANGED vars
  BY <1>1 DEF vars, nodeVars, IInv, TypeOK, Guarded, EntryAlive, DeletedOnce,
              Deleter, NoDestroyer, OneStart, InGuard
<1>2. CASE Create \/ Start \/ Event
  BY <1>2, CreateKeeps, StartKeeps, EventKeeps
<1>3. CASE Working
  BY <1>3, FlagKeeps, WorkKeeps, SignalKeeps, DestroyKeeps, DestroyCheckKeeps,
     DestroyRemoveKeeps DEF Working
<1>4. ASSUME NEW u \in Users, Release(u) \/ Releasing(u) PROVE IInv'
  BY <1>4, ReleaseKeeps, Check0Keeps, Check1Keeps, DelAllEventsKeeps,
     SetDestroyKeeps, RemoveKeeps DEF Releasing
<1>5. ASSUME NEW t \in Threads, Ending(t) PROVE IInv'
  BY <1>5, TakeGuardKeeps, DeleteKeeps, UnguardKeeps DEF Ending
<1> QED BY <1>1, <1>2, <1>3, <1>4, <1>5 DEF Next

\* The invariant holds throughout.
LEMMA Invariance == Spec => []IInv
<1>1. Init => IInv
  <2> SUFFICES ASSUME Init PROVE IInv
    OBVIOUS
  <2>1. TypeOK
    <3>1. pc \in [Threads -> Points]
      BY DEF Init, Points
    <3>2. made \in 0..MaxRequests /\ asked \subseteq Users
      BY DEF Init
    <3>3. {instance, events, isDestroy, inCallback, found, twice}
            \subseteq BOOLEAN
      BY DEF Init
    <3> QED BY <3>1, <3>2, <3>3 DEF Init, TypeOK
  <2> QED BY <2>1 DEF Init, IInv, Guarded, EntryAlive, DeletedOnce, Deleter,
                      NoDestroyer, OneStart, InGuard, Inside, Threads, None
<1> QED BY <1>1, StepKeeps, PTL DEF Spec

\* The types of the state, of which one matters: at most one thread is in the
\* guard of releaseRequest, whoever waits for it and times out.
THEOREM TypeCorrect == Spec => []TypeOK
<1>1. IInv => TypeOK
  BY DEF IInv
<1> QED BY <1>1, Invariance, PTL

\* What NlsNodeManager knows is alive, for any number of users that release
\* requests at the same time and whichever waits time out.
THEOREM EntriesAlive == Spec => []EntryAlive
<1>1. IInv => EntryAlive
  BY DEF IInv, EntryAlive
<1> QED BY <1>1, Invariance, PTL

\* releaseRequest, on any number of threads, and destroyConnectNode under the
\* guard delete no request twice.
THEOREM NothingDeletedTwice == Spec => []DeletedOnce
<1>1. IInv => DeletedOnce
  BY DEF IInv, DeletedOnce
<1> QED BY <1>1, Invariance, PTL
=============================================================================
