--------------------------- MODULE DelayerProofs ---------------------------
(***************************************************************************)
(* Proofs about Delayer for every delay, every set of durations and every  *)
(* skew: the invariants that MCDelayer checks on a small instance, and the *)
(* refinement of DelayLine.                                                *)
(***************************************************************************)
EXTENDS Delayer, TLAPS

\* The arrival marks of the packets pushed: each adds its duration to the
\* mark before it, and the last one is the clock.
MarkBefore(i) == IF i = 1 THEN 0 ELSE Received(input[i - 1].at)

Marks ==
  /\ \A i \in DOMAIN input :
       /\ Received(input[i].at) = input[i].dur + MarkBefore(i)
       /\ Interleaved(input[i].at)
       /\ input[i].muted = FALSE
  /\ Interleaved(clock)
  /\ Received(clock) = IF input = <<>> THEN 0
                       ELSE Received(input[Len(input)].at)

\* What keeps the loop of flush on a list that is not empty, and the total
\* within an int.
Bounded ==
  /\ m_total_deley_ms <= IntMax
  /\ DelaySec >= 0 /\ pc \in {"flush", "drain"} => m_av_packet # <<>>

\* Both streams together are more than twice the delay ahead of every packet
\* written.
StreamLead ==
  \A i \in DOMAIN written :
    Received(clock) - Received(written[i].at) > LimitMs

Header ==
  /\ headers = IF m_handshake_done = TRUE THEN 1 ELSE 0
  /\ written # <<>> => m_handshake_done = TRUE

\* The inductive invariant.
IInv ==
  /\ TypeOK
  /\ InOrder
  /\ Marks
  /\ TotalIsHeld
  /\ Bounded
  /\ NoFrontOfEmpty
  /\ NothingOverdue
  /\ StreamLead
  /\ Header

-----------------------------------------------------------------------------
(* Lemmas about packets and the list *)

LEMMA Constants ==
  /\ DelaySec \in Int
  /\ Durations \subseteq Nat
  /\ Skew \in Nat
  /\ IntMax \in Nat
  /\ LimitMs \in Int
  /\ DelaySec >= 0 => LimitMs >= 0
  /\ \A d, e \in Durations : d <= IntMax /\ LimitMs + d + e <= IntMax
  BY DelayerAssumption DEF DelayerAssumption, LimitMs

\* Forgetting whether a packet is muted forgets nothing else.
LEMMA LineOfFields ==
  ASSUME NEW p \in Packet
  PROVE  /\ LineOf(p) \in Packet
         /\ LineOf(p).stream = p.stream
         /\ LineOf(p).pts = p.pts
         /\ LineOf(p).dur = p.dur
         /\ LineOf(p).at = p.at
         /\ p.muted = FALSE => LineOf(p) = p
  BY DEF LineOf, Packet, Stream

\* A replaced packet is the same packet, muted.
LEMMA MutedFields ==
  ASSUME NEW p \in Packet
  PROVE  /\ replaceAudioToMute(p) \in Packet
         /\ replaceAudioToMute(p).dur = p.dur
         /\ replaceAudioToMute(p).stream = p.stream
         /\ LineOf(replaceAudioToMute(p)) = LineOf(p)
         /\ replaceAudioToMute(p).muted = TRUE
  BY DEF LineOf, Packet, replaceAudioToMute

\* Within the int, the assignment keeps the value.
LEMMA ToIntKeeps ==
  ASSUME NEW x \in Int, x <= IntMax
  PROVE  ToInt(x) = x
  BY Constants DEF ToInt

\* A sequence written as a function.
LEMMA FunctionIsSeq ==
  ASSUME NEW S, NEW n \in Nat, NEW f \in [1 .. n -> S]
  PROVE  f \in Seq(S) /\ Len(f) = n
  OBVIOUS

\* Replacing packets changes nothing of the list but the muted flags of
\* audio packets, and sets those.
LEMMA ListAfterReplace ==
  ASSUME TypeOK, NEW start, NEW end, replaceAudioPacket(start, end)
  PROVE  /\ m_av_packet' \in Seq(Packet)
         /\ Len(m_av_packet') = Len(m_av_packet)
         /\ \A i \in DOMAIN m_av_packet :
              /\ m_av_packet'[i].dur = m_av_packet[i].dur
              /\ LineOf(m_av_packet'[i]) = LineOf(m_av_packet[i])
              /\ \/ m_av_packet'[i] = m_av_packet[i]
                 \/ /\ m_av_packet[i].stream = "audio"
                    /\ m_av_packet'[i].muted = TRUE
  <1> PICK done \in SUBSET InWindow(start, end) :
        m_av_packet' = [i \in DOMAIN m_av_packet |->
                          IF i \in done THEN replaceAudioToMute(m_av_packet[i])
                          ELSE m_av_packet[i]]
    BY DEF replaceAudioPacket
  <1>1. Len(m_av_packet) \in Nat /\ DOMAIN m_av_packet = 1 .. Len(m_av_packet)
    BY DEF TypeOK
  <1>2. \A i \in DOMAIN m_av_packet : m_av_packet[i] \in Packet
    BY DEF TypeOK
  <1>3. m_av_packet' \in [1 .. Len(m_av_packet) -> Packet]
    BY <1>1, <1>2, MutedFields
  <1>4. \A i \in done : m_av_packet[i].stream = "audio"
    BY DEF InWindow
  <1> QED
    BY <1>1, <1>2, <1>3, <1>4, MutedFields, FunctionIsSeq

\* The total without the oldest packet is what came after that packet.
LEMMA TotalWithoutFront ==
  ASSUME TypeOK, InOrder, Marks, TotalIsHeld, m_av_packet # <<>>
  PROVE  /\ m_av_packet[1] \in Packet
         /\ m_av_packet[1].dur \in Nat
         /\ Len(written) + 1 \in DOMAIN input
         /\ LineOf(m_av_packet[1]) = input[Len(written) + 1]
         /\ m_av_packet[1].at = input[Len(written) + 1].at
         /\ m_total_deley_ms - m_av_packet[1].dur
              = Received(clock) - Received(m_av_packet[1].at)
  <1> DEFINE n == Len(written)
             p == m_av_packet[1]
             q == input[n + 1]
  <1>1. /\ Len(m_av_packet) \in Nat \ {0}
        /\ Len(written) \in Nat
        /\ Len(input) \in Nat
        /\ 1 \in DOMAIN m_av_packet
        /\ p \in Packet
    BY DEF TypeOK
  <1>2. n + 1 \in DOMAIN input
    BY <1>1 DEF TypeOK, InOrder
  <1>3. LineOf(p) = q
    BY <1>1 DEF InOrder
  <1>4. p.at = q.at /\ p.dur = q.dur /\ p.dur \in Nat /\ p.at \in [Stream -> Nat]
    BY <1>1, <1>3, LineOfFields, Constants DEF Packet
  <1>5. Received(q.at) = q.dur + MarkBefore(n + 1)
    BY <1>2 DEF Marks
  <1>6. MarkBefore(n + 1) = WrittenMs
    <2>1. CASE written = <<>>
      BY <2>1, <1>1 DEF MarkBefore, WrittenMs
    <2>2. CASE written # <<>>
      <3>1. n \in DOMAIN written /\ n # 0 /\ written[n] \in Packet
        BY <2>2, <1>1 DEF TypeOK
      <3>2. LineOf(written[n]) = input[n]
        BY <3>1 DEF InOrder
      <3>3. written[n].at = input[n].at
        BY <3>1, <3>2, LineOfFields
      <3>4. MarkBefore(n + 1) = Received(input[n].at)
        BY <3>1, <1>1 DEF MarkBefore
      <3> QED
        BY <2>2, <3>3, <3>4 DEF LastOf, WrittenMs
    <2> QED
      BY <2>1, <2>2
  <1>7. /\ Received(clock) \in Int
        /\ Received(p.at) \in Int
        /\ MarkBefore(n + 1) \in Int
    <2>1. Received(clock) \in Int /\ Received(p.at) \in Int
      BY <1>4 DEF TypeOK, Received, Stream
    <2>2. CASE written = <<>>
      BY <2>1, <2>2, <1>6 DEF WrittenMs
    <2>3. CASE written # <<>>
      <3>1. written[n] \in Packet
        BY <2>3, <1>1 DEF TypeOK
      <3>2. Received(written[n].at) \in Int
        BY <3>1 DEF Packet, Received, Stream
      <3> QED
        BY <2>1, <2>3, <3>2, <1>6 DEF LastOf, WrittenMs
    <2> QED
      BY <2>2, <2>3
  <1>8. m_total_deley_ms = Received(clock) - MarkBefore(n + 1)
    BY <1>6 DEF TotalIsHeld
  <1> QED
    BY <1>1, <1>2, <1>3, <1>4, <1>5, <1>7, <1>8

-----------------------------------------------------------------------------
(* The type invariant *)

\* The constructor gives every member its type.
LEMMA InitTypeOK == Init => TypeOK
  <1> SUFFICES ASSUME Init PROVE TypeOK
    OBVIOUS
  <1>1. m_handshake_done \in BOOLEAN
    BY DEF Init
  <1>2. /\ m_av_packet \in Seq(Packet)
        /\ input \in Seq(Packet)
        /\ written \in Seq(Packet)
        /\ clock \in [Stream -> Nat]
    BY DEF Init
  <1>3. m_total_deley_ms \in Int /\ headers \in Nat /\ pc \in PcValues
    BY DEF Init, PcValues
  <1> QED
    BY <1>1, <1>2, <1>3 DEF TypeOK

\* Each operation keeps the types.
LEMMA NextTypeOK ==
  ASSUME TypeOK, [Next]_vars
  PROVE  TypeOK'
  <1>1. ASSUME NEW s \in Stream, NEW d \in Durations, Push(s, d)
        PROVE  TypeOK'
    <2> DEFINE c == [clock EXCEPT ![s] = @ + d]
               p == [stream |-> s, pts |-> clock[s], dur |-> d, at |-> c,
                     muted |-> FALSE]
    <2>1. clock[s] \in Nat /\ d \in Nat
      BY Constants DEF TypeOK
    <2>2. c \in [Stream -> Nat]
      BY <2>1 DEF TypeOK
    <2>3. p \in Packet
      BY <2>1, <2>2 DEF Packet
    <2>4. m_av_packet' \in Seq(Packet) /\ input' \in Seq(Packet)
      BY <1>1, <2>3 DEF Push, TypeOK
    <2>5. m_total_deley_ms' \in Int
      BY <1>1, <2>1, Constants DEF Push, TypeOK, ToInt
    <2> QED
      BY <1>1, <2>2, <2>4, <2>5 DEF Push, TypeOK, PcValues
  <1>2. CASE FlushStart
    BY <1>2 DEF FlushStart, TypeOK, PcValues
  <1>3. CASE FlushHandshake
    <2>1. m_handshake_done' \in BOOLEAN
      BY <1>3 DEF FlushHandshake, TypeOK
    <2>2. headers' \in Nat /\ pc' \in PcValues
      BY <1>3 DEF FlushHandshake, TypeOK, PcValues
    <2> QED
      BY <1>3, <2>1, <2>2 DEF FlushHandshake, TypeOK
  <1>4. CASE FlushWrite
    <2>a. m_av_packet # <<>>
      BY <1>4 DEF FlushWrite, FrontIsOld
    <2>b. Head(m_av_packet) \in Packet
      BY <2>a DEF TypeOK
    <2>c. Head(m_av_packet).dur \in Nat
      BY <2>b, Constants DEF Packet
    <2>1. /\ m_av_packet # <<>>
          /\ Head(m_av_packet) \in Packet
          /\ Head(m_av_packet).dur \in Nat
      BY <2>a, <2>b, <2>c
    <2>2. m_av_packet' \in Seq(Packet) /\ written' \in Seq(Packet)
      BY <1>4, <2>1 DEF FlushWrite, TypeOK
    <2>3. m_total_deley_ms' \in Int
      BY <1>4, <2>1, Constants DEF FlushWrite, TypeOK, ToInt
    <2> QED
      BY <1>4, <2>2, <2>3 DEF FlushWrite, TypeOK
  <1>5. CASE FlushEnd
    BY <1>5 DEF FlushEnd, TypeOK, PcValues
  <1>6. ASSUME NEW start \in Int, NEW end \in Int,
               replaceAudioPacket(start, end)
        PROVE  TypeOK'
    <2>1. m_av_packet' \in Seq(Packet)
      BY <1>6, ListAfterReplace
    <2> QED
      BY <1>6, <2>1 DEF replaceAudioPacket, TypeOK
  <1>7. CASE UNCHANGED vars
    BY <1>7 DEF vars, TypeOK
  <1> QED
    BY <1>1, <1>2, <1>3, <1>4, <1>5, <1>6, <1>7, DelayerAssumption
    DEF Next, pushVideoFrame, pushAudioFrame, flush, Stream,
        DelayerAssumption

\* Every variable keeps its type, a packet's duration among those of the
\* input included, whatever is pushed, written or replaced.
THEOREM TypeCorrect == Spec => []TypeOK
  <1> QED
    BY InitTypeOK, NextTypeOK, PTL DEF Spec

-----------------------------------------------------------------------------
(* The inductive invariant *)

\* The constructor's state satisfies the invariant.
LEMMA InitIInv == Init => IInv
  <1> SUFFICES ASSUME Init PROVE IInv
    OBVIOUS
  <1>1. TypeOK
    BY InitTypeOK
  <1>2. clock["audio"] = 0 /\ clock["video"] = 0
    BY DEF Init, Stream
  <1>3. InOrder /\ Marks /\ TotalIsHeld /\ StreamLead
    BY <1>2, Constants
    DEF Init, InOrder, Marks, TotalIsHeld, StreamLead, Received, WrittenMs,
        Interleaved
  <1>4. Bounded /\ NoFrontOfEmpty /\ NothingOverdue
    BY Constants DEF Init, Bounded, NoFrontOfEmpty, NothingOverdue
  <1>5. Header
    BY DEF Init, Header
  <1> QED
    BY <1>1, <1>3, <1>4, <1>5 DEF IInv

\* With the lock free, a packet of any duration still fits the int.
LEMMA RoomForOne ==
  ASSUME IInv, pc = "idle", NEW d \in Durations
  PROVE  m_total_deley_ms + d <= IntMax
  <1>1. CASE m_av_packet = <<>>
    <2>1. Len(written) = Len(input) /\ Len(written) \in Nat
      BY <1>1 DEF IInv, InOrder, TypeOK
    <2>2. Received(clock) = WrittenMs
      <3>1. CASE written = <<>>
        BY <2>1, <3>1 DEF IInv, Marks, WrittenMs, TypeOK
      <3>2. CASE written # <<>>
        <4>1. Len(written) \in DOMAIN written /\ input # <<>>
              /\ LastOf(written) \in Packet
          BY <2>1, <3>2 DEF IInv, TypeOK, LastOf
        <4>2. LineOf(LastOf(written)) = input[Len(input)]
          BY <2>1, <4>1 DEF IInv, InOrder, LastOf
        <4>3. LastOf(written).at = input[Len(input)].at
          BY <4>1, <4>2, LineOfFields
        <4> QED
          BY <4>1, <4>3, <3>2 DEF IInv, Marks, WrittenMs
      <3> QED
        BY <3>1, <3>2
    <2>3. Received(clock) \in Int
      BY DEF IInv, TypeOK, Received, Stream
    <2>4. m_total_deley_ms = 0
      BY <2>2, <2>3 DEF IInv, TotalIsHeld
    <2> QED
      BY <2>4, Constants
  <1>2. CASE m_av_packet # <<>>
    <2>1. m_av_packet[1] \in Packet
      BY <1>2 DEF IInv, TypeOK
    <2>2. m_av_packet[1].dur \in Durations
      BY <2>1 DEF Packet
    <2>3. m_total_deley_ms - m_av_packet[1].dur <= LimitMs
      BY <1>2 DEF IInv, NothingOverdue
    <2>4. m_total_deley_ms \in Int
      BY DEF IInv, TypeOK
    <2>5. LimitMs + m_av_packet[1].dur + d <= IntMax
      BY <2>2, Constants
    <2>6. m_av_packet[1].dur \in Nat /\ d \in Nat
      BY <2>2, Constants
    <2> QED
      BY <2>3, <2>4, <2>5, <2>6, Constants
  <1> QED
    BY <1>1, <1>2

\* A push keeps the invariant.
LEMMA PushIInv ==
  ASSUME IInv, NEW s \in Stream, NEW d \in Durations, Push(s, d), TypeOK'
  PROVE  IInv'
  <1> DEFINE c == [clock EXCEPT ![s] = @ + d]
             p == [stream |-> s, pts |-> clock[s], dur |-> d, at |-> c,
                   muted |-> FALSE]
             n == Len(input)
  <1>a. input \in Seq(Packet) /\ m_av_packet \in Seq(Packet)
        /\ written \in Seq(Packet) /\ clock \in [Stream -> Nat]
    BY DEF IInv, TypeOK
  <1>b. Len(written) + Len(m_av_packet) = Len(input)
    BY DEF IInv, InOrder
  <1>c. input' \in Seq(Packet) /\ m_av_packet' \in Seq(Packet)
    BY TypeOK' DEF TypeOK
  <1>1. /\ input' = Append(input, p)
        /\ m_av_packet' = Append(m_av_packet, p)
        /\ clock' = c
        /\ Interleaved(c)
        /\ pc = "idle" /\ pc' = "flush"
        /\ m_total_deley_ms' = ToInt(m_total_deley_ms + d)
        /\ UNCHANGED <<m_handshake_done, written, headers>>
    BY DEF Push
  <1>2. /\ Len(input) \in Nat /\ Len(m_av_packet) \in Nat
        /\ Len(written) \in Nat
        /\ d \in Nat /\ clock["audio"] \in Nat /\ clock["video"] \in Nat
        /\ m_total_deley_ms \in Int
    BY Constants DEF IInv, TypeOK, Stream
  <1>3. Received(c) = Received(clock) + d /\ Received(clock) \in Nat
    BY <1>2 DEF IInv, TypeOK, Stream, Received
  <1>4. p \in Packet
    BY <1>2 DEF IInv, TypeOK, Stream, Packet
  <1>5. /\ Len(input') = n + 1 /\ input'[n + 1] = p
        /\ \A i \in 1 .. n : input'[i] = input[i]
        /\ input' # <<>>
    BY <1>a, <1>1, <1>2, <1>4
  <1>6. /\ Len(m_av_packet') = Len(m_av_packet) + 1
        /\ m_av_packet'[Len(m_av_packet) + 1] = p
        /\ \A i \in 1 .. Len(m_av_packet) : m_av_packet'[i] = m_av_packet[i]
        /\ m_av_packet' # <<>>
    BY <1>a, <1>1, <1>2, <1>4
  <1>7. InOrder'
    <2>1. Len(written') + Len(m_av_packet') = Len(input')
      BY <1>b, <1>1, <1>2, <1>5, <1>6
    <2>2. ASSUME NEW i \in DOMAIN written'
          PROVE  LineOf(written'[i]) = input'[i]
      <3>1. i \in DOMAIN written /\ i \in 1 .. n
        BY <1>a, <1>b, <1>1, <1>2
      <3> QED
        BY <1>1, <3>1, <1>5 DEF IInv, InOrder
    <2>3. ASSUME NEW i \in DOMAIN m_av_packet'
          PROVE  LineOf(m_av_packet'[i]) = input'[Len(written') + i]
      <3>1. i \in 1 .. Len(m_av_packet) + 1
        BY <1>6, <1>c
      <3>2. CASE i = Len(m_av_packet) + 1
        <4>1. Len(written') + i = n + 1
          BY <3>2, <1>b, <1>1, <1>2
        <4> QED
          BY <3>2, <4>1, <1>5, <1>6, <1>4, LineOfFields
      <3>3. CASE i \in 1 .. Len(m_av_packet)
        <4>1. /\ i \in DOMAIN m_av_packet
              /\ Len(written) + i \in 1 .. n
          BY <3>3, <1>a, <1>b, <1>2
        <4> QED
          BY <3>3, <4>1, <1>1, <1>5, <1>6 DEF IInv, InOrder
      <3> QED
        BY <3>1, <3>2, <3>3, <1>2
    <2> QED
      BY <2>1, <2>2, <2>3 DEF InOrder
  <1>8. Marks'
    <2>1. ASSUME NEW i \in DOMAIN input'
          PROVE  /\ Received(input'[i].at) = input'[i].dur + MarkBefore(i)'
                 /\ Interleaved(input'[i].at)
                 /\ input'[i].muted = FALSE
      <3>1. i \in 1 .. n + 1
        BY <1>5, <1>c
      <3>2. CASE i = n + 1
        <4>1. MarkBefore(i)' = Received(clock)
          <5>1. CASE n = 0
            <6>1. input = <<>>
              BY <5>1, <1>a
            <6>2. Received(clock) = 0
              BY <6>1 DEF IInv, Marks
            <6> QED
              BY <5>1, <3>2, <6>2 DEF MarkBefore
          <5>2. CASE n # 0
            <6>1. i # 1 /\ i - 1 = n /\ n \in 1 .. n /\ input # <<>>
              BY <5>2, <3>2, <1>2, <1>a
            <6>2. Received(clock) = Received(input[n].at)
              BY <6>1 DEF IInv, Marks
            <6> QED
              BY <6>1, <6>2, <1>5 DEF MarkBefore
          <5> QED
            BY <5>1, <5>2
        <4> QED
          BY <3>2, <4>1, <1>1, <1>3, <1>5, <1>2
      <3>3. CASE i \in 1 .. n
        <4>1. MarkBefore(i)' = MarkBefore(i)
          <5>1. CASE i = 1
            BY <5>1 DEF MarkBefore
          <5>2. CASE i # 1
            <6>1. i - 1 \in 1 .. n
              BY <3>3, <5>2, <1>2
            <6> QED
              BY <5>2, <6>1, <1>5 DEF MarkBefore
          <5> QED
            BY <5>1, <5>2
        <4>2. i \in DOMAIN input
          BY <3>3, <1>a
        <4>3. /\ Received(input[i].at) = input[i].dur + MarkBefore(i)
              /\ Interleaved(input[i].at)
              /\ input[i].muted = FALSE
          BY <4>2 DEF IInv, Marks
        <4>4. input'[i] = input[i]
          BY <3>3, <1>5
        <4> QED
          BY <4>1, <4>3, <4>4
      <3>4. i = n + 1 \/ i \in 1 .. n
        BY <3>1, <1>2
      <3> QED
        BY <3>2, <3>3, <3>4
    <2>2. Received(clock') = Received(input'[Len(input')].at)
      BY <1>1, <1>5
    <2> QED
      BY <2>1, <2>2, <1>1, <1>5 DEF Marks
  <1>9. m_total_deley_ms' = m_total_deley_ms + d /\ m_total_deley_ms' <= IntMax
    BY <1>1, <1>2, RoomForOne, ToIntKeeps
  <1>10. WrittenMs' = WrittenMs
    BY <1>1 DEF WrittenMs, LastOf
  <1>11. TotalIsHeld'
    <2>1. m_total_deley_ms = Received(clock) - WrittenMs
      BY DEF IInv, TotalIsHeld
    <2>2. WrittenMs \in Int
      <3>1. CASE written = <<>>
        BY <3>1 DEF WrittenMs
      <3>2. CASE written # <<>>
        <4>1. LastOf(written) \in Packet
          BY <3>2 DEF IInv, TypeOK, LastOf
        <4> QED
          BY <3>2, <4>1 DEF WrittenMs, Received, Packet, Stream
      <3> QED
        BY <3>1, <3>2
    <2> QED
      BY <2>1, <2>2, <1>1, <1>2, <1>3, <1>9, <1>10 DEF TotalIsHeld
  <1>12. Bounded' /\ NoFrontOfEmpty' /\ NothingOverdue'
    BY <1>1, <1>6, <1>9 DEF Bounded, NoFrontOfEmpty, NothingOverdue
  <1>13. StreamLead'
    <2> SUFFICES ASSUME NEW i \in DOMAIN written
                 PROVE  Received(c) - Received(written[i].at) > LimitMs
      BY <1>1 DEF StreamLead
    <2>1. Received(clock) - Received(written[i].at) > LimitMs
      BY DEF IInv, StreamLead
    <2>2. written[i] \in Packet
      BY DEF IInv, TypeOK
    <2>3. Received(written[i].at) \in Int
      BY <2>2 DEF Received, Packet, Stream
    <2> QED
      BY <2>1, <2>3, <1>2, <1>3, Constants
  <1>14. Header'
    BY <1>1 DEF IInv, Header
  <1> QED
    BY <1>7, <1>8, <1>11, <1>12, <1>13, <1>14, TypeOK' DEF IInv

\* What a flush that leaves the list alone keeps.
LEMMA FlushStartIInv ==
  ASSUME IInv, FlushStart, TypeOK'
  PROVE  IInv'
  <1>1. /\ pc' = IF m_total_deley_ms > LimitMs THEN "drain" ELSE "idle"
        /\ UNCHANGED <<m_av_packet, m_total_deley_ms, m_handshake_done, clock,
                       input, written, headers>>
        /\ pc = "flush"
    BY DEF FlushStart
  <1>2. InOrder' /\ Marks' /\ StreamLead'
    BY <1>1 DEF IInv, InOrder, Marks, MarkBefore, StreamLead
  <1>3. TotalIsHeld'
    BY <1>1 DEF IInv, TotalIsHeld, WrittenMs, LastOf
  <1>4. Header'
    BY <1>1 DEF IInv, Header
  <1>5. Bounded' /\ NoFrontOfEmpty'
    BY <1>1 DEF IInv, Bounded, NoFrontOfEmpty
  <1>6. NothingOverdue'
    <2> SUFFICES ASSUME pc' = "idle", m_av_packet # <<>>
                 PROVE  m_total_deley_ms - m_av_packet[1].dur <= LimitMs
      BY <1>1 DEF NothingOverdue
    <2>1. ~(m_total_deley_ms > LimitMs)
      BY <1>1
    <2>2. m_av_packet[1] \in Packet /\ m_total_deley_ms \in Int
      BY DEF IInv, TypeOK
    <2>3. m_av_packet[1].dur \in Nat
      BY <2>2, Constants DEF Packet
    <2> QED
      BY <2>1, <2>2, <2>3, Constants
  <1> QED
    BY <1>2, <1>3, <1>4, <1>5, <1>6, TypeOK' DEF IInv

\* Opening the output and sending the header keep the invariant.
LEMMA FlushHandshakeIInv ==
  ASSUME IInv, FlushHandshake, TypeOK'
  PROVE  IInv'
  <1>1. /\ UNCHANGED <<m_av_packet, m_total_deley_ms, clock, input, written>>
        /\ pc = "drain"
        /\ pc' = "drain" \/ pc' = "exited"
        /\ m_av_packet # <<>>
    BY DEF FlushHandshake, FrontIsOld
  <1>2. InOrder' /\ Marks' /\ StreamLead'
    BY <1>1 DEF IInv, InOrder, Marks, MarkBefore, StreamLead
  <1>3. TotalIsHeld'
    BY <1>1 DEF IInv, TotalIsHeld, WrittenMs, LastOf
  <1>4. Header'
    <2>1. CASE m_handshake_done' = TRUE /\ headers' = headers + 1
      <3>1. headers = 0
        BY DEF IInv, Header, FlushHandshake
      <3> QED
        BY <2>1, <3>1 DEF Header
    <2>2. CASE UNCHANGED <<m_handshake_done, headers>>
      BY <1>1, <2>2 DEF IInv, Header
    <2> QED
      BY <2>1, <2>2 DEF FlushHandshake
  <1>5. Bounded' /\ NoFrontOfEmpty' /\ NothingOverdue'
    BY <1>1 DEF IInv, Bounded, NoFrontOfEmpty, NothingOverdue
  <1> QED
    BY <1>2, <1>3, <1>4, <1>5, TypeOK' DEF IInv

\* Writing the oldest packet keeps the invariant; above all the list is not
\* emptied, and the packet written is far enough behind the input.
LEMMA FlushWriteIInv ==
  ASSUME IInv, FlushWrite, TypeOK'
  PROVE  IInv'
  <1> DEFINE p == m_av_packet[1]
             n == Len(written)
             k == Len(m_av_packet)
  <1>0. TypeOK /\ InOrder /\ Marks /\ TotalIsHeld
    BY DEF IInv
  <1>a. input \in Seq(Packet) /\ m_av_packet \in Seq(Packet)
        /\ written \in Seq(Packet) /\ clock \in [Stream -> Nat]
        /\ m_total_deley_ms \in Int
    BY DEF IInv, TypeOK
  <1>b. n + k = Len(input)
    BY DEF IInv, InOrder
  <1>c. written' \in Seq(Packet) /\ m_av_packet' \in Seq(Packet)
    BY TypeOK' DEF TypeOK
  <1>1. /\ m_av_packet # <<>>
        /\ m_av_packet' = Tail(m_av_packet)
        /\ written' = Append(written, Head(m_av_packet))
        /\ m_total_deley_ms' = ToInt(m_total_deley_ms - Head(m_av_packet).dur)
        /\ m_total_deley_ms - Head(m_av_packet).dur > LimitMs
        /\ UNCHANGED <<m_handshake_done, pc, clock, input, headers>>
        /\ pc = "drain"
        /\ m_handshake_done = TRUE
    BY DEF FlushWrite, FrontIsOld
  <1>2. Head(m_av_packet) = p /\ k \in Nat \ {0} /\ n \in Nat
    BY <1>a, <1>1
  <1>3. /\ p \in Packet /\ p.dur \in Nat
        /\ n + 1 \in DOMAIN input
        /\ LineOf(p) = input[n + 1]
        /\ p.at = input[n + 1].at
        /\ m_total_deley_ms - p.dur = Received(clock) - Received(p.at)
    BY <1>0, <1>1, TotalWithoutFront
  <1>4. /\ Len(written') = n + 1
        /\ written'[n + 1] = p
        /\ \A i \in 1 .. n : written'[i] = written[i]
        /\ written' # <<>>
    BY <1>a, <1>1, <1>2, <1>3
  <1>5. /\ Len(m_av_packet') = k - 1
        /\ \A i \in 1 .. k - 1 : m_av_packet'[i] = m_av_packet[i + 1]
    BY <1>a, <1>1, <1>2
  <1>6. InOrder'
    <2>1. Len(written') + Len(m_av_packet') = Len(input')
      BY <1>b, <1>1, <1>2, <1>4, <1>5
    <2>2. ASSUME NEW i \in DOMAIN written'
          PROVE  LineOf(written'[i]) = input'[i]
      <3>1. i = n + 1 \/ i \in 1 .. n
        BY <1>c, <1>2, <1>4
      <3>2. CASE i = n + 1
        BY <3>2, <1>1, <1>3, <1>4
      <3>3. CASE i \in 1 .. n
        <4>1. i \in DOMAIN written
          BY <3>3, <1>a
        <4>2. LineOf(written[i]) = input[i]
          BY <4>1, <1>0 DEF InOrder
        <4> QED
          BY <3>3, <4>2, <1>1, <1>4
      <3> QED
        BY <3>1, <3>2, <3>3
    <2>3. ASSUME NEW i \in DOMAIN m_av_packet'
          PROVE  LineOf(m_av_packet'[i]) = input'[Len(written') + i]
      <3>1. /\ i \in 1 .. k - 1
            /\ i + 1 \in DOMAIN m_av_packet
            /\ Len(written') + i = n + (i + 1)
        BY <1>a, <1>c, <1>2, <1>4, <1>5
      <3>2. LineOf(m_av_packet[i + 1]) = input[n + (i + 1)]
        BY <3>1, <1>0 DEF InOrder
      <3> QED
        BY <3>1, <3>2, <1>1, <1>5
    <2> QED
      BY <2>1, <2>2, <2>3 DEF InOrder
  <1>7. Marks'
    BY <1>0, <1>1 DEF Marks, MarkBefore
  <1>8. m_total_deley_ms' = m_total_deley_ms - p.dur
        /\ m_total_deley_ms' <= IntMax
    <2>1. m_total_deley_ms <= IntMax
      BY DEF IInv, Bounded
    <2>2. m_total_deley_ms - p.dur \in Int /\ m_total_deley_ms - p.dur <= IntMax
      BY <2>1, <1>a, <1>3, Constants
    <2> QED
      BY <2>2, <1>1, <1>2, ToIntKeeps
  <1>9. WrittenMs' = Received(p.at)
    BY <1>4 DEF WrittenMs, LastOf
  <1>10. TotalIsHeld'
    BY <1>1, <1>3, <1>8, <1>9 DEF TotalIsHeld
  <1>11. Received(clock) - Received(p.at) > LimitMs
    BY <1>1, <1>2, <1>3
  <1>12. DelaySec >= 0 => m_av_packet' # <<>>
    <2> SUFFICES ASSUME DelaySec >= 0, m_av_packet' = <<>>
                 PROVE  FALSE
      OBVIOUS
    <2>0. Len(m_av_packet') = 0
      OBVIOUS
    <2>a. Len(m_av_packet') = k - 1
      BY <1>5
    <2>b. k = 1
      BY <2>0, <2>a, <1>2
    <2>1. n + 1 = Len(input)
      BY <2>b, <1>b
    <2>2. input # <<>>
      BY <2>1, <1>2
    <2>3. Received(clock) = Received(p.at)
      <3>1. Received(clock) = Received(input[n + 1].at)
        BY <2>1, <2>2, <1>0 DEF Marks
      <3> QED
        BY <3>1, <1>3
    <2>4. Received(p.at) \in Int
      BY <1>3 DEF Received, Packet, Stream
    <2> QED
      BY <2>3, <2>4, <1>11, Constants
  <1>13. Bounded' /\ NoFrontOfEmpty' /\ NothingOverdue'
    <2>1. Bounded'
      BY <1>1, <1>8, <1>12 DEF Bounded
    <2> QED
      BY <2>1, <1>1 DEF NoFrontOfEmpty, NothingOverdue
  <1>14. StreamLead'
    <2> SUFFICES ASSUME NEW i \in DOMAIN written'
                 PROVE  Received(clock) - Received(written'[i].at) > LimitMs
      BY <1>1 DEF StreamLead
    <2>1. i = n + 1 \/ i \in 1 .. n
      BY <1>c, <1>2, <1>4
    <2>2. CASE i = n + 1
      BY <2>2, <1>4, <1>11
    <2>3. CASE i \in 1 .. n
      <3>1. i \in DOMAIN written
        BY <2>3, <1>a
      <3>2. Received(clock) - Received(written[i].at) > LimitMs
        BY <3>1 DEF IInv, StreamLead
      <3> QED
        BY <2>3, <3>2, <1>4
    <2> QED
      BY <2>1, <2>2, <2>3
  <1>15. Header'
    BY <1>1 DEF IInv, Header
  <1> QED
    BY <1>6, <1>7, <1>10, <1>13, <1>14, <1>15, TypeOK' DEF IInv

\* Leaving the loop keeps the invariant: what is left is not overdue.
LEMMA FlushEndIInv ==
  ASSUME IInv, FlushEnd, TypeOK'
  PROVE  IInv'
  <1>1. /\ UNCHANGED <<m_av_packet, m_total_deley_ms, m_handshake_done, clock,
                       input, written, headers>>
        /\ pc = "drain"
        /\ ~FrontIsOld
        /\ pc' = IF m_av_packet = <<>> THEN "undefined" ELSE "idle"
    BY DEF FlushEnd
  <1>2. InOrder' /\ Marks' /\ StreamLead'
    BY <1>1 DEF IInv, InOrder, Marks, MarkBefore, StreamLead
  <1>3. TotalIsHeld'
    BY <1>1 DEF IInv, TotalIsHeld, WrittenMs, LastOf
  <1>4. Header'
    BY <1>1 DEF IInv, Header
  <1>5. DelaySec >= 0 => m_av_packet # <<>> /\ pc' = "idle"
    BY <1>1 DEF IInv, Bounded
  <1>6. Bounded' /\ NoFrontOfEmpty'
    BY <1>1, <1>5 DEF IInv, Bounded, NoFrontOfEmpty
  <1>7. NothingOverdue'
    <2> SUFFICES ASSUME m_av_packet # <<>>
                 PROVE  m_total_deley_ms - m_av_packet[1].dur <= LimitMs
      BY <1>1 DEF NothingOverdue
    <2>1. ~(m_total_deley_ms - m_av_packet[1].dur > LimitMs)
      BY <1>1 DEF FrontIsOld, IInv, TypeOK
    <2>2. m_av_packet[1] \in Packet /\ m_total_deley_ms \in Int
      BY DEF IInv, TypeOK
    <2>3. m_av_packet[1].dur \in Nat
      BY <2>2, Constants DEF Packet
    <2> QED
      BY <2>1, <2>2, <2>3, Constants
  <1> QED
    BY <1>2, <1>3, <1>4, <1>6, <1>7, TypeOK' DEF IInv

\* Replacing packets keeps the invariant: durations and places are those of
\* the packets replaced.
LEMMA ReplaceIInv ==
  ASSUME IInv, NEW start, NEW end, replaceAudioPacket(start, end), TypeOK'
  PROVE  IInv'
  <1>1. /\ pc = "idle"
        /\ UNCHANGED <<m_total_deley_ms, m_handshake_done, pc, clock, input,
                       written, headers>>
    BY DEF replaceAudioPacket
  <1>a. m_av_packet \in Seq(Packet) /\ m_av_packet' \in Seq(Packet)
    BY TypeOK' DEF IInv, TypeOK
  <1>2. /\ Len(m_av_packet') = Len(m_av_packet)
        /\ \A i \in DOMAIN m_av_packet :
             /\ m_av_packet'[i].dur = m_av_packet[i].dur
             /\ LineOf(m_av_packet'[i]) = LineOf(m_av_packet[i])
    BY ListAfterReplace DEF IInv
  <1>3. DOMAIN m_av_packet' = DOMAIN m_av_packet
    BY <1>a, <1>2
  <1>4. InOrder'
    BY <1>1, <1>2, <1>3 DEF IInv, InOrder
  <1>5. Marks' /\ StreamLead'
    BY <1>1 DEF IInv, Marks, MarkBefore, StreamLead
  <1>6. TotalIsHeld'
    BY <1>1 DEF IInv, TotalIsHeld, WrittenMs, LastOf
  <1>7. Header'
    BY <1>1 DEF IInv, Header
  <1>8. Bounded' /\ NoFrontOfEmpty'
    BY <1>1 DEF IInv, Bounded, NoFrontOfEmpty
  <1>9. NothingOverdue'
    <2> SUFFICES ASSUME m_av_packet' # <<>>
                 PROVE  m_total_deley_ms - m_av_packet'[1].dur <= LimitMs
      BY <1>1 DEF NothingOverdue
    <2>1. m_av_packet # <<>> /\ 1 \in DOMAIN m_av_packet
      BY <1>a, <1>2
    <2> QED
      BY <2>1, <1>1, <1>2 DEF IInv, NothingOverdue
  <1> QED
    BY <1>4, <1>5, <1>6, <1>7, <1>8, <1>9, TypeOK' DEF IInv

\* Every step keeps the invariant.
LEMMA NextIInv ==
  ASSUME IInv, [Next]_vars
  PROVE  IInv'
  <1>0. TypeOK'
    BY NextTypeOK DEF IInv
  <1>1. CASE pushVideoFrame
    BY <1>0, <1>1, PushIInv DEF pushVideoFrame, Stream
  <1>2. CASE pushAudioFrame
    BY <1>0, <1>2, PushIInv DEF pushAudioFrame, Stream
  <1>3. CASE flush
    BY <1>0, <1>3, FlushStartIInv, FlushHandshakeIInv, FlushWriteIInv,
       FlushEndIInv DEF flush
  <1>4. CASE \E w \in Windows : replaceAudioPacket(w[1], w[2])
    BY <1>0, <1>4, ReplaceIInv
  <1>5. CASE UNCHANGED vars
    <2>1. InOrder' /\ Marks' /\ StreamLead' /\ Header'
      BY <1>5
      DEF vars, IInv, InOrder, Marks, MarkBefore, StreamLead, Header
    <2>2. TotalIsHeld' /\ Bounded' /\ NoFrontOfEmpty' /\ NothingOverdue'
      BY <1>5
      DEF vars, IInv, TotalIsHeld, WrittenMs, LastOf, Bounded, NoFrontOfEmpty,
          NothingOverdue
    <2> QED
      BY <1>0, <2>1, <2>2 DEF IInv
  <1> QED
    BY <1>1, <1>2, <1>3, <1>4, <1>5 DEF Next

\* The conjunction of the invariants is one.
LEMMA Inductive == Spec => []IInv
  <1> QED
    BY InitIInv, NextIInv, PTL DEF Spec

\* No packet is lost, doubled or overtaken by any sequence of pushes, writes
\* and replacements.
THEOREM OrderKept == Spec => []InOrder
  <1> QED
    BY Inductive, PTL DEF IInv

\* m_total_deley_ms is what has come since the last packet written: no
\* sequence of operations makes it drift or overflow.
THEOREM TotalIsExact == Spec => []TotalIsHeld
  <1> QED
    BY Inductive, PTL DEF IInv

\* flush never calls front() on an empty list, if the delay is not negative.
\* main does not check that: with a negative one flush does.
THEOREM FrontAlwaysThere == Spec => []NoFrontOfEmpty
  <1> QED
    BY Inductive, PTL DEF IInv

\* Between two pushes flush owes the output nothing.
THEOREM FlushIsThorough == Spec => []NothingOverdue
  <1> QED
    BY Inductive, PTL DEF IInv

\* The header is sent once and first.
THEOREM HeaderComesFirst == Spec => []HeaderFirst
  <1>1. IInv => HeaderFirst
    BY DEF IInv, Header, HeaderFirst
  <1> QED
    BY Inductive, <1>1, PTL

\* For every packet written the recogniser has been given more audio after
\* it than the delay less the skew of the input.
THEOREM LeadKept == Spec => []AudioLead
  <1>1. ASSUME IInv
        PROVE  AudioLead
    <2> SUFFICES ASSUME NEW i \in DOMAIN written
                 PROVE  clock["audio"] - written[i].at["audio"]
                          > DelaySec * 1000 - Skew
      BY DEF AudioLead
    <2>1. /\ clock["audio"] \in Nat /\ clock["video"] \in Nat
          /\ written[i] \in Packet
          /\ i \in DOMAIN input
      BY <1>1 DEF IInv, TypeOK, InOrder, Stream
    <2>2. written[i].at["audio"] \in Nat /\ written[i].at["video"] \in Nat
      BY <2>1 DEF Packet, Stream
    <2>3. Received(clock) - Received(written[i].at) > LimitMs
      BY <1>1 DEF IInv, StreamLead
    <2>4. Interleaved(clock) /\ Interleaved(written[i].at)
      <3>1. LineOf(written[i]) = input[i]
        BY <1>1 DEF IInv, InOrder
      <3>2. input[i].at = written[i].at
        BY <2>1, <3>1, LineOfFields
      <3> QED
        BY <1>1, <2>1, <3>2 DEF IInv, Marks
    <2> DEFINE x == clock["audio"] - written[i].at["audio"]
               y == clock["video"] - written[i].at["video"]
    <2>5. x + y > DelaySec * 1000 * 2
      BY <2>1, <2>2, <2>3 DEF Received, LimitMs
    <2>6. y - x <= 2 * Skew
      BY <2>1, <2>2, <2>4, Constants DEF Interleaved
    <2>7. x \in Int /\ y \in Int
      BY <2>1, <2>2
    <2> HIDE DEF x, y
    <2>8. x > DelaySec * 1000 - Skew
      BY <2>5, <2>6, <2>7, Constants
    <2> QED
      BY <2>8 DEF x
  <1> QED
    BY Inductive, <1>1, PTL

-----------------------------------------------------------------------------
(* The refinement of DelayLine *)

\* The redacted positions, one packet at a time.
LEMMA RedactedAt ==
  \A x : x \in Redacted <=>
           \/ x \in DOMAIN written /\ written[x].muted
           \/ \E j \in DOMAIN m_av_packet :
                m_av_packet[j].muted /\ x = Len(written) + j
  BY DEF Redacted

\* The empty list is the empty line.
LEMMA InitLine == Init => Line!Init
  <1> SUFFICES ASSUME Init PROVE Line!Init
    OBVIOUS
  <1>1. input = <<>> /\ Len(written) = 0
    BY DEF Init
  <1>2. Redacted = {}
    BY DEF Init, Redacted
  <1> QED
    BY <1>1, <1>2 DEF Line!Init

\* A push accepts its packet.
LEMMA PushLine ==
  ASSUME IInv, NEW s \in Stream, NEW d \in Durations, Push(s, d), TypeOK'
  PROVE  Line!Next
  <1> DEFINE c == [clock EXCEPT ![s] = @ + d]
             p == [stream |-> s, pts |-> clock[s], dur |-> d, at |-> c,
                   muted |-> FALSE]
             n == Len(input)
  <1>a. /\ input \in Seq(Packet) /\ input' \in Seq(Packet)
        /\ m_av_packet \in Seq(Packet) /\ m_av_packet' \in Seq(Packet)
        /\ p \in Packet
    <2>1. clock[s] \in Nat /\ c \in [Stream -> Nat]
      BY Constants DEF IInv, TypeOK
    <2> QED
      BY <2>1, TypeOK' DEF IInv, TypeOK, Packet
  <1>1. /\ input' = Append(input, p)
        /\ m_av_packet' = Append(m_av_packet, p)
        /\ UNCHANGED written
    BY DEF Push
  <1>2. /\ Len(input') = n + 1 /\ input'[n + 1] = p /\ n \in Nat
        /\ \A i \in 1 .. n : input'[i] = input[i]
    BY <1>a, <1>1
  <1>3. p.at = c /\ p.dur = d
    OBVIOUS
  <1>5. Received(c) = d + Received(clock)
    <2>1. clock["audio"] \in Nat /\ clock["video"] \in Nat /\ d \in Nat
          /\ clock \in [Stream -> Nat]
      BY Constants DEF IInv, TypeOK, Stream
    <2> QED
      BY <2>1 DEF Received, Stream
  <1>6. Received(clock) = IF input = <<>> THEN 0
                          ELSE Received(input[Len(input)].at)
    BY DEF IInv, Marks
  <1>7. Redacted' = Redacted
    <2>1. \A j : j \in DOMAIN m_av_packet' /\ m_av_packet'[j].muted
                 <=> j \in DOMAIN m_av_packet /\ m_av_packet[j].muted
      <3>1. /\ Len(m_av_packet') = Len(m_av_packet) + 1
            /\ m_av_packet'[Len(m_av_packet) + 1] = p
            /\ \A i \in 1 .. Len(m_av_packet) :
                 m_av_packet'[i] = m_av_packet[i]
            /\ Len(m_av_packet) \in Nat
        BY <1>a, <1>1
      <3>2. /\ DOMAIN m_av_packet' = DOMAIN m_av_packet
                                       \cup {Len(m_av_packet) + 1}
            /\ Len(m_av_packet) + 1 \notin DOMAIN m_av_packet
            /\ DOMAIN m_av_packet = 1 .. Len(m_av_packet)
        BY <1>a, <3>1
      <3>3. p.muted = FALSE
        OBVIOUS
      <3> QED
        BY <3>1, <3>2, <3>3
    <2> QED
      BY <2>1, <1>1 DEF Redacted
  <1>8. Line!Accept(p)
    <2>1. Line!Received(p) =
            p.dur + (IF input = <<>> THEN 0
                     ELSE Line!Received(input[Len(input)]))
      BY <1>3, <1>5, <1>6 DEF Line!Received, Received
    <2> QED
      BY <2>1, <1>1, <1>7 DEF Line!Accept
  <1>9. input' # <<>> /\ input'[Len(input')] = p
    BY <1>a, <1>2
  <1> QED
    BY <1>8, <1>9 DEF Line!Next

\* Writing the oldest packet releases it, muted or not.
LEMMA WriteLine ==
  ASSUME IInv, FlushWrite, TypeOK'
  PROVE  Line!Next
  <1> DEFINE p == m_av_packet[1]
             n == Len(written)
             k == Len(m_av_packet)
  <1>a. /\ input \in Seq(Packet) /\ m_av_packet \in Seq(Packet)
        /\ written \in Seq(Packet) /\ written' \in Seq(Packet)
        /\ m_av_packet' \in Seq(Packet)
    BY TypeOK' DEF IInv, TypeOK
  <1>b. n + k = Len(input)
    BY DEF IInv, InOrder
  <1>1. /\ m_av_packet # <<>>
        /\ m_av_packet' = Tail(m_av_packet)
        /\ written' = Append(written, Head(m_av_packet))
        /\ m_total_deley_ms - Head(m_av_packet).dur > LimitMs
        /\ UNCHANGED input
    BY DEF FlushWrite, FrontIsOld
  <1>2. Head(m_av_packet) = p /\ k \in Nat \ {0} /\ n \in Nat
    BY <1>a, <1>1
  <1>3. /\ p \in Packet
        /\ p.at = input[n + 1].at
        /\ m_total_deley_ms - p.dur = Received(clock) - Received(p.at)
    BY <1>1, TotalWithoutFront DEF IInv
  <1>4. /\ Len(written') = n + 1
        /\ written'[n + 1] = p
        /\ \A i \in 1 .. n : written'[i] = written[i]
    BY <1>a, <1>1, <1>2, <1>3
  <1>5. /\ Len(m_av_packet') = k - 1
        /\ \A i \in 1 .. k - 1 : m_av_packet'[i] = m_av_packet[i + 1]
    BY <1>a, <1>1, <1>2
  <1>6. input # <<>> /\ Len(written) < Len(input)
    BY <1>a, <1>b, <1>2
  <1>7. Line!FollowingMs(n + 1) > LimitMs
    <2>1. Received(clock) = Received(input[Len(input)].at)
      BY <1>6 DEF IInv, Marks
    <2>2. Received(clock) - Received(input[n + 1].at) > LimitMs
      BY <1>1, <1>2, <1>3
    <2> QED
      BY <2>1, <2>2 DEF Line!FollowingMs, Line!Received, Received
  <1>8. Redacted' = Redacted
    <2>1. /\ DOMAIN written' = DOMAIN written \cup {n + 1}
          /\ n + 1 \notin DOMAIN written
          /\ DOMAIN written = 1 .. n
      BY <1>a, <1>2, <1>4
    <2>2. DOMAIN m_av_packet' = 1 .. k - 1 /\ DOMAIN m_av_packet = 1 .. k
      BY <1>a, <1>2, <1>5
    <2>3. ASSUME NEW x
          PROVE  x \in Redacted' <=> x \in Redacted
      <3>1. ASSUME x \in Redacted'
            PROVE  x \in Redacted
        <4>1. CASE x \in DOMAIN written' /\ written'[x].muted
          <5>1. CASE x = n + 1
            <6>1. 1 \in DOMAIN m_av_packet /\ p.muted
              BY <4>1, <5>1, <1>4, <1>2, <2>2
            <6> QED
              BY <5>1, <6>1 DEF Redacted
          <5>2. CASE x \in DOMAIN written
            BY <4>1, <5>2, <1>4, <2>1 DEF Redacted
          <5> QED
            BY <4>1, <5>1, <5>2, <2>1
        <4>2. CASE \E j \in DOMAIN m_av_packet' :
                     m_av_packet'[j].muted /\ x = Len(written') + j
          <5> PICK j \in DOMAIN m_av_packet' :
                m_av_packet'[j].muted /\ x = Len(written') + j
            BY <4>2
          <5>0. j \in 1 .. k - 1 /\ x = n + 1 + j
            BY <2>2, <1>4
          <5>1. j + 1 \in DOMAIN m_av_packet /\ x = n + (j + 1)
                /\ m_av_packet'[j] = m_av_packet[j + 1]
            BY <5>0, <2>2, <1>2, <1>5
          <5> QED
            BY <5>1 DEF Redacted
        <4> QED
          BY <3>1, <4>1, <4>2 DEF Redacted
      <3>2. ASSUME x \in Redacted
            PROVE  x \in Redacted'
        <4>1. CASE x \in DOMAIN written /\ written[x].muted
          BY <4>1, <1>4, <2>1 DEF Redacted
        <4>2. CASE \E j \in DOMAIN m_av_packet :
                     m_av_packet[j].muted /\ x = n + j
          <5> PICK j \in DOMAIN m_av_packet :
                m_av_packet[j].muted /\ x = n + j
            BY <4>2
          <5>1. CASE j = 1
            BY <5>1, <1>4, <2>1 DEF Redacted
          <5>2. CASE j # 1
            <6>1. j - 1 \in DOMAIN m_av_packet' /\ x = Len(written') + (j - 1)
                  /\ m_av_packet'[j - 1] = m_av_packet[j]
              BY <5>2, <2>2, <1>2, <1>4, <1>5
            <6> QED
              BY <6>1 DEF Redacted
          <5> QED
            BY <5>1, <5>2
        <4> QED
          BY <3>2, <4>1, <4>2 DEF Redacted
      <3> QED
        BY <3>1, <3>2
    <2> QED
      BY <2>3
  <1>9. Line!Release
    BY <1>1, <1>4, <1>6, <1>7, <1>8 DEF Line!Release
  <1> QED
    BY <1>9 DEF Line!Next

\* Replacing packets redacts them where they are held.
LEMMA ReplaceLine ==
  ASSUME IInv, NEW start, NEW end, replaceAudioPacket(start, end), TypeOK'
  PROVE  Line!Next
  <1> DEFINE n == Len(written)
  <1>a. /\ input \in Seq(Packet) /\ m_av_packet \in Seq(Packet)
        /\ written \in Seq(Packet) /\ m_av_packet' \in Seq(Packet)
        /\ n \in Nat
    BY TypeOK' DEF IInv, TypeOK
  <1>1. UNCHANGED <<input, written>>
    BY DEF replaceAudioPacket
  <1>2. /\ Len(m_av_packet') = Len(m_av_packet)
        /\ \A i \in DOMAIN m_av_packet :
             \/ m_av_packet'[i] = m_av_packet[i]
             \/ /\ m_av_packet[i].stream = "audio"
                /\ m_av_packet'[i].muted = TRUE
    BY ListAfterReplace DEF IInv
  <1>3. DOMAIN m_av_packet' = DOMAIN m_av_packet
    BY <1>a, <1>2
  <1>4. Redacted \subseteq Redacted'
    BY <1>1, <1>2, <1>3 DEF Redacted
  <1>5. ASSUME NEW x \in Redacted' \ Redacted
        PROVE  x \in n + 1 .. Len(input) /\ input[x].stream = "audio"
    <2>1. PICK j \in DOMAIN m_av_packet :
            x = n + j /\ m_av_packet'[j].muted
      BY <1>1, <1>3 DEF Redacted
    <2>2. ~m_av_packet[j].muted
      BY <2>1 DEF Redacted
    <2>3. m_av_packet[j].stream = "audio"
      BY <2>1, <2>2, <1>2
    <2>4. LineOf(m_av_packet[j]) = input[x] /\ n + Len(m_av_packet) = Len(input)
      BY <2>1 DEF IInv, InOrder
    <2>5. m_av_packet[j] \in Packet
      BY <1>a
    <2>6. input[x].stream = "audio"
      BY <2>3, <2>4, <2>5, LineOfFields
    <2>7. x \in n + 1 .. Len(input)
      BY <1>a, <2>1, <2>4
    <2> QED
      BY <2>6, <2>7
  <1>6. Line!Redact(Redacted' \ Redacted)
    BY <1>1, <1>4, <1>5 DEF Line!Redact, Line!Held
  <1> QED
    BY <1>6 DEF Line!Next

\* Every step of the class is a step of the delay line, or leaves it alone.
LEMMA NextLine ==
  ASSUME IInv, [Next]_vars
  PROVE  [Line!Next]_Line!lineVars
  <1>0. TypeOK'
    BY NextTypeOK DEF IInv
  <1>1. CASE pushVideoFrame
    BY <1>0, <1>1, PushLine DEF pushVideoFrame, Stream
  <1>2. CASE pushAudioFrame
    BY <1>0, <1>2, PushLine DEF pushAudioFrame, Stream
  <1>3. CASE FlushStart \/ FlushHandshake \/ FlushEnd
    <2>1. UNCHANGED <<m_av_packet, input, written>>
      BY <1>3 DEF FlushStart, FlushHandshake, FlushEnd
    <2> QED
      BY <2>1 DEF Line!lineVars, Redacted
  <1>4. CASE FlushWrite
    BY <1>0, <1>4, WriteLine
  <1>5. CASE \E w \in Windows : replaceAudioPacket(w[1], w[2])
    BY <1>0, <1>5, ReplaceLine
  <1>6. CASE UNCHANGED vars
    BY <1>6 DEF vars, Line!lineVars, Redacted
  <1> QED
    BY <1>1, <1>2, <1>3, <1>4, <1>5, <1>6 DEF Next, flush

\* The class is a delay line: it releases in order and not too early, and
\* redacts only audio that it still holds.
THEOREM Refinement == Spec => ImplementsLine
  <1> QED
    BY InitLine, NextLine, Inductive, PTL DEF Spec, ImplementsLine, Line!Spec
=============================================================================
