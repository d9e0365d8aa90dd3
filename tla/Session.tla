------------------------------ MODULE Session ------------------------------
(***************************************************************************)
(* What the user of a request is told, seen from outside: the callbacks of *)
(* a session, each made by one of the SDK's reporters. Every reporter on   *)
(* its own tells a word of the form Started* (TaskFailed | Completed)?     *)
(* Close and is silent after its Close, until the next start.              *)
(***************************************************************************)
EXTENDS Integers, Sequences

CONSTANT Reporters

VARIABLE told

After(ev) ==
  CASE ev = "none" -> {"Started", "TaskFailed", "Close"}
    [] ev = "Started" -> {"Started", "TaskFailed", "Completed", "Close"}
    [] ev \in {"TaskFailed", "Completed"} -> {"Close"}
    [] OTHER -> {}

\* The last event that this reporter has told.
Last(r) ==
  LET Mine == {i \in DOMAIN told : told[i].by = r}
  IN  IF Mine = {} THEN "none"
      ELSE told[CHOOSE i \in Mine : \A j \in Mine : j =< i].ev

Init == told = <<>>

\* A session is begun on a new request, or when some reporter has closed it.
Begin ==
  /\ told = <<>> \/ \E i \in DOMAIN told : told[i].ev = "Close"
  /\ told' = <<>>

Tell(r) ==
  \E ev \in After(Last(r)) : told' = Append(told, [ev |-> ev, by |-> r])

Next == Begin \/ \E r \in Reporters : Tell(r)

Spec == Init /\ [][Next]_told
=============================================================================
