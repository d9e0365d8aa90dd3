----------------------------- MODULE MCDelayer -----------------------------
(* Delayer with a delay of one second, for TLC. *)
EXTENDS Delayer

\* Three packets of 700 ms and one more cross the limit of 2000 ms, seven of
\* them cross it several times.
const_Durations == {300, 700}

\* A replacement at the start of the stream, one of a single instant, one
\* whose end is before its start, one over everything.
const_Windows == {<<0, 0>>, <<700, 700>>, <<900, 300>>, <<0, 5000>>}
=============================================================================
