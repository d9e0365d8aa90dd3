------------------------------ MODULE Delayer ------------------------------
(***************************************************************************)
(* class Delayer: the list of packets between the input and the output of  *)
(* the relay. The reader thread pushes packets and, still holding m_mutex, *)
(* writes out the packets that are old enough; the speech recogniser's     *)
(* threads replace packets of the list in place.                           *)
(*                                                                         *)
(* pc is the reader's place inside a push: outside one ("idle", m_mutex is *)
(* free), at the if of flush ("flush"), at the head of its loop ("drain"), *)
(* or gone: "exited" by exit(-1), "undefined" by front() on an empty list. *)
(* m_mutex is held exactly while pc is "flush" or "drain".                 *)
(*                                                                         *)
(* clock, input, written and headers are the world outside the class: how  *)
(* much of each stream has come, the packets pushed, the packets given to  *)
(* av_interleaved_write_frame, the calls of avformat_write_header.         *)
(***************************************************************************)
EXTENDS Integers, Sequences

CONSTANTS DelaySec,     \* m_deley_sec, from --delay
          Durations,    \* the packet durations in ms that the input has
          Skew,         \* how far (ms) the input lets one stream run ahead
          Windows,      \* the <<start, end>> pairs replacements are asked for
          MaxPackets,   \* bound: packets pushed
          IntMax        \* the largest int

Stream == {"audio", "video"}
PcValues == {"idle", "flush", "drain", "exited", "undefined"}

\* (variant: a single delay for both streams)
LimitMs_OneStream == DelaySec * 1000

\* m_deley_sec*1000*2
LimitMs == DelaySec * 1000 * 2

\* Packets long enough to make the int total overflow are not in the input.
\* The delay is what atoi makes of the argument of --delay, unchecked.
ASSUME DelayerAssumption ==
  /\ DelaySec \in Int
  /\ Durations \subseteq Nat
  /\ Skew \in Nat
  /\ Windows \subseteq Int \X Int
  /\ MaxPackets \in Nat
  /\ IntMax \in Nat
  /\ \A d, e \in Durations : d <= IntMax /\ LimitMs + d + e <= IntMax

VARIABLES m_av_packet, m_total_deley_ms, m_handshake_done, pc,
          clock, input, written, headers

vars == <<m_av_packet, m_total_deley_ms, m_handshake_done, pc,
          clock, input, written, headers>>

Packet == [stream : Stream, pts : Nat, dur : Durations,
           at : [Stream -> Nat], muted : BOOLEAN]

Init ==
  /\ m_av_packet = <<>>
  /\ m_total_deley_ms = 0
  /\ m_handshake_done = FALSE
  /\ pc = "idle"
  /\ clock = [s \in Stream |-> 0]
  /\ input = <<>>
  /\ written = <<>>
  /\ headers = 0

-----------------------------------------------------------------------------
\* The assignment of a wider integer to an int.
ToInt(x) == IF x > IntMax THEN x - 2 * (IntMax + 1) ELSE x

\* The input is interleaved: neither stream runs ahead by more than Skew.
Interleaved(c) ==
  /\ c["audio"] - c["video"] <= Skew
  /\ c["video"] - c["audio"] <= Skew

\* A packet of stream s lasting d comes in and the lock is taken.
Push(s, d) ==
  LET c == [clock EXCEPT ![s] = @ + d]
      p == [stream |-> s, pts |-> clock[s], dur |-> d, at |-> c,
            muted |-> FALSE]
  IN /\ pc = "idle"
     /\ Len(input) < MaxPackets
     /\ Interleaved(c)
     /\ m_av_packet' = Append(m_av_packet, p)
     /\ m_total_deley_ms' = ToInt(m_total_deley_ms + d)
     /\ pc' = "flush"
     /\ clock' = c
     /\ input' = Append(input, p)
     /\ UNCHANGED <<m_handshake_done, written, headers>>

pushVideoFrame == \E d \in Durations : Push("video", d)
pushAudioFrame == \E d \in Durations : Push("audio", d)

-----------------------------------------------------------------------------
\* flush: the if around the loop.
FlushStart ==
  /\ pc = "flush"
  /\ pc' = IF m_total_deley_ms > LimitMs THEN "drain" ELSE "idle"
  /\ UNCHANGED <<m_av_packet, m_total_deley_ms, m_handshake_done,
                 clock, input, written, headers>>

\* (variant: the front is not taken off before the comparison)
FrontIsOld_Inclusive ==
  /\ m_av_packet # <<>>
  /\ m_total_deley_ms > LimitMs

\* The oldest packet can go: more than the limit would remain without it.
FrontIsOld ==
  /\ m_av_packet # <<>>
  /\ m_total_deley_ms - Head(m_av_packet).dur > LimitMs

\* (variant: the success is not remembered)
FlushHandshake_Forgets ==
  /\ pc = "drain"
  /\ FrontIsOld
  /\ m_handshake_done = FALSE
  /\ headers' = headers + 1
  /\ m_handshake_done' \in BOOLEAN
  /\ UNCHANGED <<m_av_packet, m_total_deley_ms, pc, clock, input, written>>

\* The first write opens the output and sends the stream header; a failure
\* of either ends the process, with every packet still in the list.
FlushHandshake ==
  /\ pc = "drain"
  /\ FrontIsOld
  /\ m_handshake_done = FALSE
  /\ \/ /\ m_handshake_done' = TRUE
        /\ headers' = headers + 1
        /\ pc' = pc
     \/ /\ pc' = "exited"
        /\ UNCHANGED <<m_handshake_done, headers>>
  /\ UNCHANGED <<m_av_packet, m_total_deley_ms, clock, input, written>>

\* (variant: the packet stays in the list)
FlushWrite_NoPop ==
  /\ pc = "drain"
  /\ FrontIsOld
  /\ m_handshake_done = TRUE
  /\ m_total_deley_ms' = ToInt(m_total_deley_ms - Head(m_av_packet).dur)
  /\ written' = Append(written, Head(m_av_packet))
  /\ UNCHANGED <<m_av_packet, m_handshake_done, pc, clock, input, headers>>

\* (variant: the front is read again after the pop)
FlushWrite_NextDuration ==
  /\ pc = "drain"
  /\ FrontIsOld
  /\ m_handshake_done = TRUE
  /\ m_av_packet' = Tail(m_av_packet)
  /\ m_total_deley_ms' =
       ToInt(m_total_deley_ms
             - (IF Tail(m_av_packet) = <<>> THEN 0 ELSE m_av_packet[2].dur))
  /\ written' = Append(written, Head(m_av_packet))
  /\ UNCHANGED <<m_handshake_done, pc, clock, input, headers>>

\* (variant: the total is not reduced)
FlushWrite_KeepsTotal ==
  /\ pc = "drain"
  /\ FrontIsOld
  /\ m_handshake_done = TRUE
  /\ m_av_packet' = Tail(m_av_packet)
  /\ written' = Append(written, Head(m_av_packet))
  /\ UNCHANGED <<m_total_deley_ms, m_handshake_done, pc, clock, input,
                 headers>>

\* (variant: one packet for each push)
FlushWrite_Once ==
  /\ pc = "drain"
  /\ FrontIsOld
  /\ m_handshake_done = TRUE
  /\ m_av_packet' = Tail(m_av_packet)
  /\ m_total_deley_ms' = ToInt(m_total_deley_ms - Head(m_av_packet).dur)
  /\ written' = Append(written, Head(m_av_packet))
  /\ pc' = "idle"
  /\ UNCHANGED <<m_handshake_done, clock, input, headers>>

FlushWrite ==
  /\ pc = "drain"
  /\ FrontIsOld
  /\ m_handshake_done = TRUE
  /\ m_av_packet' = Tail(m_av_packet)
  /\ m_total_deley_ms' = ToInt(m_total_deley_ms - Head(m_av_packet).dur)
  /\ written' = Append(written, Head(m_av_packet))
  /\ UNCHANGED <<m_handshake_done, pc, clock, input, headers>>

\* (variant: the loop ends on the condition of the if)
FlushEnd_IfCondition ==
  /\ pc = "drain"
  /\ m_total_deley_ms <= LimitMs
  /\ pc' = "idle"
  /\ UNCHANGED <<m_av_packet, m_total_deley_ms, m_handshake_done,
                 clock, input, written, headers>>

\* The break of the loop releases the lock. On an empty list front() comes
\* first, and is undefined.
FlushEnd ==
  /\ pc = "drain"
  /\ ~FrontIsOld
  /\ pc' = IF m_av_packet = <<>> THEN "undefined" ELSE "idle"
  /\ UNCHANGED <<m_av_packet, m_total_deley_ms, m_handshake_done,
                 clock, input, written, headers>>

flush == FlushStart \/ FlushHandshake \/ FlushWrite \/ FlushEnd

-----------------------------------------------------------------------------
\* (variant: the new packet's duration is left at 0)
replaceAudioToMute_NoDuration(p) == [p EXCEPT !.muted = TRUE, !.dur = 0]

\* Replacer::replaceAudioToMute when it works: silence of the same length at
\* the same place of the same stream.
replaceAudioToMute(p) == [p EXCEPT !.muted = TRUE]

\* The places of the list that the loop of replaceAudioPacket sends through
\* the replacer.
InWindow(start, end) ==
  {i \in DOMAIN m_av_packet :
     /\ m_av_packet[i].stream = "audio"
     /\ m_av_packet[i].pts >= start - 200
     /\ m_av_packet[i].pts <= end}

\* Asked for by a recogniser thread while it holds m_mutex; for each packet
\* the replacer may fail, and then returns the packet as it was.
replaceAudioPacket(start, end) ==
  /\ pc = "idle"
  /\ \E done \in SUBSET InWindow(start, end) :
       m_av_packet' = [i \in DOMAIN m_av_packet |->
                         IF i \in done
                         THEN replaceAudioToMute(m_av_packet[i])
                         ELSE m_av_packet[i]]
  /\ UNCHANGED <<m_total_deley_ms, m_handshake_done, pc,
                 clock, input, written, headers>>

-----------------------------------------------------------------------------
Next ==
  \/ pushVideoFrame
  \/ pushAudioFrame
  \/ flush
  \/ \E w \in Windows : replaceAudioPacket(w[1], w[2])

Spec == Init /\ [][Next]_vars

\* The reader leaves flush if opening and writing the output return.
FairSpec == Spec /\ WF_vars(flush)
-----------------------------------------------------------------------------
(* Properties *)

LineOf(p) == [p EXCEPT !.muted = FALSE]
LastOf(s) == s[Len(s)]

\* What has come by the mark c, both streams together, and what had come when
\* the last packet written did.
Received(c) == c["audio"] + c["video"]
WrittenMs == IF written = <<>> THEN 0 ELSE Received(LastOf(written).at)

\* The type invariant.
TypeOK ==
  /\ m_av_packet \in Seq(Packet)
  /\ m_total_deley_ms \in Int
  /\ m_handshake_done \in BOOLEAN
  /\ pc \in PcValues
  /\ clock \in [Stream -> Nat]
  /\ input \in Seq(Packet)
  /\ written \in Seq(Packet)
  /\ headers \in Nat

\* No packet is lost, doubled or overtaken between the pushes and the
\* writes, whatever is replaced meanwhile (push_back, pop_front and the
\* in-place assignment of replaceAudioPacket).
InOrder ==
  /\ Len(written) + Len(m_av_packet) = Len(input)
  /\ \A i \in DOMAIN written : LineOf(written[i]) = input[i]
  /\ \A i \in DOMAIN m_av_packet :
       LineOf(m_av_packet[i]) = input[Len(written) + i]

\* m_total_deley_ms, kept by += and -= on either side, is what has come since
\* the last packet written: it never wraps, and replaced packets keep their
\* share of it.
TotalIsHeld == m_total_deley_ms = Received(clock) - WrittenMs

\* flush never asks an empty list for its front: the loop stops in time
\* although nothing in it looks at the size of the list. That takes a delay
\* that is not negative: with "--delay -1" the first push writes its packet and
\* then takes the front of nothing.
NoFrontOfEmpty == DelaySec >= 0 => pc # "undefined"

\* When the lock is free no packet waits that flush should have written, so
\* the list never holds more than the limit and one packet.
NothingOverdue ==
  (pc = "idle" /\ m_av_packet # <<>>) =>
    m_total_deley_ms - m_av_packet[1].dur <= LimitMs

\* What --delay is for: when an audio packet goes out, the recogniser has
\* been given more than the delay (less the input's skew) of the audio after
\* it. m_total_deley_ms adds both streams up, so flush only sees twice the
\* delay of stream; that half of it is audio rests on the interleaving.
AudioLead ==
  \A i \in DOMAIN written :
    clock["audio"] - written[i].at["audio"] > DelaySec * 1000 - Skew

\* The stream header is sent once, and before any packet.
HeaderFirst ==
  /\ headers <= 1
  /\ written # <<>> => headers = 1

\* A push always gives m_mutex back, unless the process exits in it (or the
\* delay is negative, see NoFrontOfEmpty).
PushReturns ==
  DelaySec >= 0 /\ pc \in {"flush", "drain"} ~> pc \in {"idle", "exited"}

-----------------------------------------------------------------------------
(* The delay line that the class implements. *)

Redacted ==
  {i \in DOMAIN written : written[i].muted} \cup
  {Len(written) + i : i \in {j \in DOMAIN m_av_packet : m_av_packet[j].muted}}

Line == INSTANCE DelayLine
          WITH accepted <- input, released <- Len(written),
               redacted <- Redacted

\* Every step of the class is a step of the delay line, or none.
ImplementsLine == Line!Spec
=============================================================================
