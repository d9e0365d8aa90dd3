----------------------------- MODULE DelayLine -----------------------------
(***************************************************************************)
(* What the delay buffer of the relay promises, whatever its               *)
(* implementation: packets leave in the order they came, each leaves only  *)
(* when more than LimitMs of stream (both streams added up) has come after *)
(* it, and a packet can be redacted (its audio replaced by silence) only   *)
(* as long as it has not left.                                             *)
(*                                                                         *)
(* A packet is a record with at least the fields                           *)
(*   stream  the elementary stream it belongs to                           *)
(*   dur     its duration in ms                                            *)
(*   at      for each stream the ms received once this packet has come     *)
(***************************************************************************)
EXTENDS Integers, Sequences

CONSTANTS LimitMs       \* what must follow a packet before it may leave

VARIABLES accepted,     \* every packet that came, in order of arrival
          released,     \* how many of them have left
          redacted      \* the positions in accepted of the redacted packets

lineVars == <<accepted, released, redacted>>

\* The ms of stream received when packet p was the newest.
Received(p) == p.at["audio"] + p.at["video"]

\* The ms of stream in the packets that come after position i.
FollowingMs(i) == Received(accepted[Len(accepted)]) - Received(accepted[i])

Held == (released + 1) .. Len(accepted)

Init == /\ accepted = <<>>
        /\ released = 0
        /\ redacted = {}

\* p comes in; its arrival mark continues the one of the packet before it.
Accept(p) ==
  /\ accepted' = Append(accepted, p)
  /\ Received(p) =
       p.dur + (IF accepted = <<>> THEN 0
                ELSE Received(accepted[Len(accepted)]))
  /\ UNCHANGED <<released, redacted>>

\* The oldest held packet leaves.
Release ==
  /\ released < Len(accepted)
  /\ FollowingMs(released + 1) > LimitMs
  /\ released' = released + 1
  /\ UNCHANGED <<accepted, redacted>>

\* Some held audio packets are replaced by silence.
Redact(S) ==
  /\ S \subseteq {i \in Held : accepted[i].stream = "audio"}
  /\ redacted' = redacted \cup S
  /\ UNCHANGED <<accepted, released>>

Next ==
  \/ accepted' # <<>> /\ Accept(accepted'[Len(accepted')])
  \/ Release
  \/ Redact(redacted' \ redacted)

Spec == Init /\ [][Next]_lineVars
=============================================================================
