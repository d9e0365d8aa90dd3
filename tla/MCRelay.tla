----------------------------- MODULE MCRelay -----------------------------
(* Relay with packets of 100 ms, for TLC. *)
EXTENDS Relay

\* A stream that begins at time 0 and one that does not, with one fault at
\* most, and a short one with two, whose restarts may meet.
const_Inputs == {[pts |-> 0, packets |-> 3, faults |-> 1],
                 [pts |-> 100, packets |-> 3, faults |-> 1],
                 [pts |-> 100, packets |-> 1, faults |-> 2]}
==========================================================================
