------------------------------- MODULE MCNode -------------------------------
(* One request on small instances, used in one way or another.               *)
EXTENDS Node

Use(continued, long, stops, cancels, nstarts, nsends, nfaults) ==
  [continued |-> continued, long |-> long, stops |-> stops,
   cancels |-> cancels, starts |-> nstarts, sends |-> nsends,
   faults |-> nfaults]

\* A session with audio and a stop, and one that is mended; two sessions on one
\* connection with stop and cancel, and two that are mended, where the work
\* thread alone reports.
Sessions == {Use(FALSE, TRUE, TRUE, FALSE, 1, 2, 4),
             Use(TRUE, FALSE, FALSE, TRUE, 1, 0, 6),
             Use(FALSE, TRUE, TRUE, TRUE, 2, 0, 3),
             Use(TRUE, TRUE, FALSE, TRUE, 2, 0, 8)}

\* As the relay uses a request: it lets the SDK mend it and never stops it.
RelayUse == {Use(TRUE, TRUE, FALSE, FALSE, 1, 0, 4)}
RelaySends == {Use(TRUE, TRUE, FALSE, FALSE, 1, 1, 6)}

\* A session that is cancelled while its failure is told.
CancelUse == {Use(FALSE, FALSE, FALSE, TRUE, 1, 1, 1)}
=============================================================================
