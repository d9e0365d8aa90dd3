---------------------------- MODULE RelayProofs ----------------------------
(***************************************************************************)
(* Proofs about Relay, for packets of any length up to half the margin,    *)
(* any delay, input, number of threads, of faults and of sessions. They    *)
(* rest on RelayAssumption only.                                           *)
(***************************************************************************)
EXTENDS Relay, TLAPS

\* The reader: it is somewhere in the input, and in a callback only while its
\* send has not returned.
Place ==
  /\ pc # "read" => pushed < input.packets
  /\ call[Main].at # "none" => pc = "calling"
  /\ call[Main].at \notin InSentence

\* The word that a callback deals with; silence was heard after it.
Word ==
  \A a \in Actor :
    call[a].at \in InSentence =>
      /\ call[a].word \in 1..(Len(heard[call[a].s]) - 1)
      /\ heard[call[a].s][call[a].word] \in reported

\* Sessions come one after the other, and the reader moves on with them.
Order ==
  /\ \A s \in Session : heard[s] # <<>> => s <= created
  /\ (pc = "send" /\ req # Null) =>
       \A s \in Session : heard[s] # <<>> => s <= req

\* What was heard was sent.
Behind ==
  \A s \in Session : \A i \in DOMAIN heard[s] : heard[s][i] <= Processed

\* While m_request is the first session nobody else is used, and no restart
\* has come as far as its request.
Alone ==
  m_request = 1 =>
    /\ req = 1
    /\ \A a \in Actor :
         call[a].at \notin {"created", "lock", "wait", "done", "closing"}

\* The first session hears what comes after the packet that was taken first,
\* but for as many packets as are lost.
Holes ==
  FirstUse =>
    /\ first = 0 => heard[1] = <<>>
    /\ first # 0 => /\ first <= Processed
                    /\ Len(heard[1]) <= Processed - first + 1
                    /\ \A i \in DOMAIN heard[1] :
                         /\ first - 1 + i <= heard[1][i]
                         /\ heard[1][i] <= Processed - Len(heard[1]) + i

\* By how much the time base may be late: a stream that begins at time 0 has
\* its base set by the second packet that is taken.
Late == IF input.pts = 0 THEN PktMs + Lost * PktMs ELSE 0

\* The time base b is right for the first session, or late.
Near(b) == Pts(first) <= b /\ b <= Pts(first) + Late

\* The reader is between the first packet taken and its base.
Unset == pc = "test" /\ sent /\ first = Pkt /\ m_first_audio_pts = 0

\* The base while the first session is in use.
FirstBase ==
  FirstUse =>
    /\ first = 0 => m_first_audio_pts = 0 /\ ~(pc = "test" /\ sent)
    /\ first # 0 => Unset \/ Near(m_first_audio_pts)
    /\ m_first_audio_pts = 0 =>
         Len(heard[1]) <= IF pc = "test" /\ sent /\ first # Pkt THEN 2 ELSE 1

\* The base that a callback has read in the first session.
FirstWord ==
  FirstUse =>
    \A a \in Actor : call[a].at \in {"replace", "locked"} =>
                       first # 0 /\ Near(call[a].base)

IInv == /\ TypeOK /\ Place /\ Word /\ Order /\ Behind /\ InOrder /\ Alone
        /\ Holes /\ FirstBase /\ FirstWord /\ MutedInTime /\ OnlyAround

-----------------------------------------------------------------------------
(* Presentation times. *)

\* The assumption without the inputs, which are a set of records.
LEMMA Numbers ==
  /\ PktMs \in 20..100
  /\ SilenceMs \in Nat /\ SilenceMs > 0
  /\ Threads \in Nat \ {0}
  /\ MaxPackets \in Nat
  /\ MaxSessions \in Nat \ {0}
  BY RelayAssumption

LEMMA InputShape ==
  ASSUME TypeOK
  PROVE  /\ input.pts \in Nat
         /\ input.packets \in 0..MaxPackets
         /\ input.faults \in 0..MaxFailures
  BY RelayAssumption DEF TypeOK

\* There are no more faults than the bound.
LEMMA FaultCounts ==
  ASSUME TypeOK, Fault
  PROVE  failures' \in 0..MaxFailures
  BY InputShape, RelayAssumption DEF TypeOK, Fault

LEMMA PtsNat ==
  ASSUME TypeOK, NEW k \in Nat, k >= 1
  PROVE  Pts(k) \in Nat
<1>1. PktMs \in Nat /\ input.pts \in Nat
  BY RelayAssumption DEF TypeOK
<1>2. (k - 1) * PktMs \in Nat
  BY <1>1
<1> QED
  BY <1>1, <1>2 DEF Pts

\* Packets n apart in the stream are n packet lengths apart in time.
LEMMA PtsLater ==
  ASSUME TypeOK, NEW k \in Nat, NEW n \in Nat
  PROVE  Pts(k + n) = Pts(k) + n * PktMs
<1>1. PktMs \in Nat /\ input.pts \in Nat
  BY RelayAssumption DEF TypeOK
<1>2. (k + n - 1) * PktMs = (k - 1) * PktMs + n * PktMs
  BY <1>1
<1> DEFINE x == (k - 1) * PktMs
           y == n * PktMs
<1>3. x \in Int /\ y \in Int
  BY <1>1
<1> HIDE DEF x, y
<1>4. input.pts + (x + y) = (input.pts + x) + y
  BY <1>1, <1>3
<1> QED
  BY <1>2, <1>4 DEF Pts, x, y

LEMMA MoreMs ==
  ASSUME NEW m \in Nat, NEW n \in Nat, m <= n
  PROVE  /\ m * PktMs \in Nat /\ n * PktMs \in Nat
         /\ m * PktMs <= n * PktMs
<1>1. PktMs \in Nat
  BY RelayAssumption
<1>2. n * PktMs = m * PktMs + (n - m) * PktMs
  BY <1>1
<1>3. m * PktMs \in Nat /\ n * PktMs \in Nat /\ (n - m) * PktMs \in Nat
  BY <1>1
<1> QED
  BY <1>2, <1>3

-----------------------------------------------------------------------------
(* The threads and their callbacks. *)

LEMMA Actors ==
  /\ Main \in Actor
  /\ \A a \in Worker : a \in Actor /\ a # Main
BY RelayAssumption DEF Main, Worker, Actor

LEMMA GoesOn ==
  ASSUME TypeOK, NEW a \in Actor, NEW step \in CallSteps, Goes(a, step)
  PROVE  /\ call' \in [Actor -> Calls]
         /\ call'[a].at = step
         /\ call'[a].ev = call[a].ev /\ call'[a].s = call[a].s
         /\ call'[a].word = call[a].word /\ call'[a].base = call[a].base
         /\ \A b \in Actor : b # a => call'[b] = call[b]
<1>1. call \in [Actor -> Calls]
  BY DEF TypeOK
<1>2. call' = [call EXCEPT ![a] = [call[a] EXCEPT !.at = step]]
  BY DEF Goes
<1> QED
  BY <1>1, <1>2 DEF Calls

LEMMA Told ==
  ASSUME TypeOK, NEW a \in Actor, NEW event \in {"TaskFailed", "Close"},
         NEW s \in Session, Tells(a, event, s)
  PROVE  /\ call' \in [Actor -> Calls]
         /\ call'[a].at = "begin"
         /\ \A b \in Actor : b # a => call'[b] = call[b]
         /\ m_first_audio_pts' = 0
<1>1. call \in [Actor -> Calls]
  BY DEF TypeOK
<1> DEFINE c == [NoCall EXCEPT !.at = "begin", !.ev = event, !.s = s]
<1>2. call' = [call EXCEPT ![a] = c]
  BY DEF Tells
<1>3. NoCall \in Calls
  BY RelayAssumption DEF NoCall, Calls, CallSteps, Session
<1>4. c \in Calls /\ c.at = "begin"
  BY <1>3 DEF Calls, CallSteps, InRestart
<1> HIDE DEF c
<1> QED
  BY <1>1, <1>2, <1>4 DEF Tells

\* A step, by the action that makes it.
SessionSteps(s) ==
  \/ SendStart(s)
  \/ onTranscriptionStarted(s)
  \/ Mends(s)
  \/ Reconnects(s)
  \/ onSentenceEnd(s)
  \/ onTaskFailed(s)
  \/ onChannelClosed(s)

ActorSteps(a) ==
  \/ RpcReturns(a)
  \/ getTimeBase(a)
  \/ LockBuffer(a)
  \/ replaceAudioPacket(a)
  \/ CreateRequest(a)
  \/ CallStart(a)
  \/ StartLocks(a)
  \/ StartReturns(a)
  \/ CallbackEnds(a)
  \/ ClosesAfter(a)

LEMMA ByAction ==
  Next => \/ ReadFrame \/ SendAudio \/ SetBase \/ PushAudio
          \/ \E s \in Session : SessionSteps(s)
          \/ \E a \in Actor : ActorSteps(a)
BY DEF Next, Reader, Callback, Connection, SessionSteps, ActorSteps

\* What sendAudio does, as far as the reader and the sessions' hearing are
\* concerned.
LEMMA SendCases ==
  ASSUME TypeOK, Place, SendAudio
  PROVE  /\ pc = "send" /\ Pkt \in Packet
         /\ UNCHANGED <<input, m_request, created, req, pushed, written,
                        muted, reported, missed>>
         /\ \/ /\ pc' = "test" /\ sent' \in BOOLEAN
               /\ first' = IF first = 0 /\ sent' THEN Pkt ELSE first
               /\ UNCHANGED <<m_first_audio_pts, call>>
               /\ \/ heard' = heard
                  \/ req # Null /\ sent' /\ Hears
            \/ /\ pc' = "calling" /\ req \in Session
               /\ Tells(Main, "TaskFailed", req)
               /\ UNCHANGED <<heard, sent, first>>
            \/ /\ UNCHANGED <<pc, sent, first, heard, m_first_audio_pts, call>>
<1>1. pc = "send" /\ Pkt \in Packet
  BY RelayAssumption DEF SendAudio, Place, TypeOK, Pkt, Packet
<1>2. UNCHANGED <<input, m_request, created, req, pushed, written,
                  muted, reported, missed>>
  BY DEF SendAudio, requestVars, bufferVars, muteVars
<1>0. req # Null => req \in Session
  BY RelayAssumption DEF TypeOK, Session, Null
<1>3. CASE SendTaken
  BY <1>1, <1>2, <1>3 DEF SendTaken, SendReturns
<1>4. CASE SendRefused
  <2>1. recon[req] \in BOOLEAN
    BY <1>0, <1>4 DEF SendRefused, TypeOK
  <2> QED
    BY <1>1, <1>2, <1>4, <2>1 DEF SendRefused, SendReturns
<1>5. CASE SendMends
  BY <1>1, <1>2, <1>5 DEF SendMends, SendReturns
<1>6. CASE SendFails
  <2>1. req \in Session
    BY <1>0, <1>6 DEF SendFails
  <2> QED
    BY <1>1, <1>2, <1>6, <2>1 DEF SendFails
<1>7. CASE SendNull
  BY <1>1, <1>2, <1>7 DEF SendNull, SendReturns
<1> QED
  BY <1>3, <1>4, <1>5, <1>6, <1>7 DEF SendAudio

-----------------------------------------------------------------------------
(* The invariant holds at the start and in every step. *)

LEMMA InitInv == Init => IInv
<1> SUFFICES ASSUME Init PROVE IInv
  OBVIOUS
<1>1. 1 \in Session /\ \A s \in Session : s \in Int /\ s >= 1
  BY RelayAssumption DEF Session
<1>2. \A s \in Session : heard[s] = <<>>
  BY DEF Init
<1>3. \A a \in Actor : call[a].at = "none"
  BY DEF Init, NoCall
<1>4. TypeOK
  <2>1. NoCall \in Calls
    BY <1>1, RelayAssumption DEF NoCall, Calls, CallSteps
  <2>2. 0 \in Worker /\ next \in Worker
    BY RelayAssumption DEF Init, Worker, AfterNext
  <2>3. /\ call \in [Actor -> Calls] /\ node \in [Session -> NodeStatus]
        /\ thread \in [Session -> Worker \cup {-1}]
        /\ heard \in [Session -> Seq(Packet)]
        /\ recon \in [Session -> BOOLEAN] /\ mended \in [Session -> BOOLEAN]
    BY <2>1, <2>2 DEF Init, NodeStatus
  <2>4. /\ created \in Session /\ failures \in 0..MaxFailures
        /\ req \in 0..created /\ first \in 0..MaxPackets
        /\ pushed \in 0..MaxPackets /\ written \in 0..pushed
    BY <1>1, RelayAssumption DEF Init
  <2> QED
    BY <2>2, <2>3, <2>4 DEF Init, TypeOK
<1>5. Place /\ Word /\ Order
  BY <1>2, <1>3, Actors DEF Init, Place, Word, Order, InSentence
<1>6. Behind /\ InOrder
  BY <1>2 DEF Behind, InOrder
<1>7. Alone
  BY <1>3 DEF Init, Alone
<1>8. Holes /\ FirstBase /\ FirstWord
  BY <1>1, <1>2, <1>3 DEF Init, Holes, FirstBase, FirstWord
<1>9. MutedInTime /\ OnlyAround
  BY DEF Init, MutedInTime, OnlyAround
<1> QED
  BY <1>4, <1>5, <1>6, <1>7, <1>8, <1>9 DEF IInv

\* A packet more that a session heard.
LEMMA HearsOne ==
  ASSUME TypeOK, Hears, Pkt \in Packet, req # Null
  PROVE  /\ req \in Session
         /\ heard' \in [Session -> Seq(Packet)]
         /\ heard'[req] = Append(heard[req], Pkt)
         /\ \A s \in Session : s # req => heard'[s] = heard[s]
<1>1. req \in Session
  BY RelayAssumption DEF TypeOK, Session, Null
<1>2. heard \in [Session -> Seq(Packet)] /\ heard[req] \in Seq(Packet)
  BY <1>1 DEF TypeOK
<1>3. Append(heard[req], Pkt) \in Seq(Packet)
  BY <1>2
<1> QED
  BY <1>1, <1>2, <1>3 DEF Hears

\* What a session heard stays, and may be followed by more.
LEMMA HeardStays ==
  ASSUME TypeOK, \/ heard' = heard
                 \/ Hears /\ Pkt \in Packet /\ req # Null,
         NEW s \in Session
  PROVE  /\ Len(heard[s]) \in Nat /\ Len(heard'[s]) \in Nat
         /\ Len(heard[s]) <= Len(heard'[s])
         /\ \A i \in DOMAIN heard[s] : heard'[s][i] = heard[s][i]
<1>1. heard[s] \in Seq(Packet)
  BY DEF TypeOK
<1>2. CASE heard' = heard
  BY <1>1, <1>2
<1>3. CASE Hears /\ Pkt \in Packet /\ req # Null
  <2>1. heard'[s] \in {heard[s], Append(heard[s], Pkt)}
    BY <1>3, HearsOne
  <2>2. Len(Append(heard[s], Pkt)) = Len(heard[s]) + 1
        /\ \A i \in DOMAIN heard[s] : Append(heard[s], Pkt)[i] = heard[s][i]
    BY <1>1, <1>3
  <2> QED
    BY <1>1, <2>1, <2>2
<1> QED
  BY <1>2, <1>3

LEMMA ReaderTypes ==
  ASSUME IInv, ReadFrame \/ SendAudio \/ SetBase \/ PushAudio
  PROVE  TypeOK'
<1>0. TypeOK /\ Place
  BY DEF IInv
<1>1. /\ created \in Nat /\ pushed \in Nat /\ written \in Nat
      /\ MaxPackets \in Nat /\ pushed <= MaxPackets
  BY <1>0, RelayAssumption DEF TypeOK, Session
<1>2. CASE ReadFrame
  <2>1. req' \in 0..created
    BY <1>0, <1>1, <1>2 DEF ReadFrame, TypeOK, Null
  <2> QED
    BY <1>0, <1>2, <2>1 DEF TypeOK, ReadFrame, requestVars, sessionVars,
         bufferVars, muteVars
<1>3. CASE SendAudio
  <2>1. /\ pc' \in {"read", "send", "test", "push", "calling"}
        /\ sent' \in BOOLEAN /\ first' \in 0..MaxPackets
        /\ m_first_audio_pts' \in Nat
    BY <1>0, <1>3, SendCases DEF TypeOK, Packet, Tells
  <2>2. heard' \in [Session -> Seq(Packet)]
    BY <1>0, <1>3, SendCases, HearsOne DEF TypeOK
  <2>3. call' \in [Actor -> Calls]
    BY <1>0, <1>3, SendCases, Told, Actors DEF TypeOK
  <2>4. /\ failures' \in 0..MaxFailures /\ crashed' \in BOOLEAN
        /\ thread' = thread /\ next' = next
        /\ node' \in [Session -> NodeStatus]
        /\ recon' \in [Session -> BOOLEAN] /\ mended' \in [Session -> BOOLEAN]
    <3>2. CASE SendMends
      <4>1. failures' \in 0..MaxFailures
        BY <1>0, <3>2, FaultCounts DEF SendMends, TypeOK
      <4> QED
        BY <1>0, <3>2, <4>1 DEF SendMends, TypeOK, NodeStatus
    <3>3. CASE SendFails
      <4>1. failures' \in 0..MaxFailures
        BY <1>0, <3>3, FaultCounts DEF SendFails, TypeOK
      <4> QED
        BY <1>0, <3>3, <4>1 DEF SendFails, TypeOK, sessionVars
    <3>4. CASE SendTaken \/ SendRefused \/ SendNull
      BY <1>0, <3>4 DEF SendTaken, SendRefused, SendNull, TypeOK, sessionVars
    <3> QED
      BY <1>3, <3>2, <3>3, <3>4 DEF SendAudio
  <2>5. UNCHANGED <<input, m_request, created, req, pushed, written,
                    muted, reported, missed>>
    BY <1>0, <1>3, SendCases
  <2> QED
    BY <1>0, <2>1, <2>2, <2>3, <2>4, <2>5 DEF TypeOK
<1>4. CASE SetBase
  <2>1. Pts(Pkt) \in Nat
    BY <1>0, <1>1, PtsNat DEF Pkt
  <2> QED
    BY <1>0, <1>4, <2>1 DEF TypeOK, SetBase, requestVars, sessionVars,
         bufferVars, muteVars
<1>5. CASE PushAudio
  <2>1. pushed' = pushed + 1 /\ pushed < input.packets
        /\ written' \in written..(pushed + 1)
    BY <1>0, <1>5 DEF PushAudio, Place
  <2>2. pushed' \in 0..MaxPackets /\ written' \in 0..pushed'
    BY <1>0, <1>1, <2>1, InputShape
  <2>3. 1..pushed \subseteq 1..pushed'
    BY <1>1, <2>1
  <2> QED
    BY <1>0, <1>5, <2>2, <2>3 DEF TypeOK, PushAudio, requestVars, sessionVars,
         muteVars
<1> QED
  BY <1>2, <1>3, <1>4, <1>5

LEMMA SessionTypes ==
  ASSUME IInv, NEW s \in Session, SessionSteps(s)
  PROVE  TypeOK'
<1>0. TypeOK
  BY DEF IInv
<1>2. CASE SendStart(s) \/ onTranscriptionStarted(s)
  BY <1>0, <1>2 DEF TypeOK, SendStart, onTranscriptionStarted, NodeStatus,
       requestVars, readerVars, bufferVars, muteVars
<1>3. CASE Mends(s)
  <2>1. failures' \in 0..MaxFailures
    BY <1>0, <1>3, FaultCounts DEF Mends, TypeOK
  <2> QED
    BY <1>0, <1>3, <2>1 DEF TypeOK, Mends, NodeStatus, requestVars,
         readerVars, bufferVars, muteVars
<1>4. CASE Reconnects(s)
  <2>1. failures' \in 0..MaxFailures
    BY <1>0, <1>4, FaultCounts DEF Reconnects, TypeOK
  <2>2. node' \in [Session -> NodeStatus]
    BY <1>0, <1>4 DEF Reconnects, TypeOK, NodeStatus
  <2> QED
    BY <1>0, <1>4, <2>1, <2>2 DEF TypeOK, Reconnects, requestVars,
         readerVars, bufferVars, muteVars
<1>5. CASE onSentenceEnd(s)
  <2>1. PICK i \in DOMAIN heard[s] :
          /\ heard[s][i] \in Bad
          /\ call' = [call EXCEPT ![thread[s]] =
                        [NoCall EXCEPT !.at = "sendSentence", !.s = s,
                                       !.word = i]]
          /\ reported' = reported \cup {heard[s][i]}
    BY <1>5 DEF onSentenceEnd
  <2>2. i \in Nat
    BY <1>0 DEF TypeOK
  <2>3. [NoCall EXCEPT !.at = "sendSentence", !.s = s, !.word = i] \in Calls
    <3>1. NoCall \in Calls
      BY RelayAssumption DEF NoCall, Calls, CallSteps, Session
    <3> QED
      BY <2>2, <3>1 DEF Calls, CallSteps, InSentence
  <2>4. call' \in [Actor -> Calls]
    BY <1>0, <2>1, <2>3 DEF TypeOK
  <2> QED
    BY <1>0, <1>5, <2>1, <2>4 DEF TypeOK, onSentenceEnd, requestVars,
         sessionVars, readerVars, bufferVars
<1>6. CASE onTaskFailed(s)
  <2>1. failures' \in 0..MaxFailures
    BY <1>0, <1>6, FaultCounts DEF onTaskFailed, TypeOK
  <2>2. thread[s] \in Actor /\ Tells(thread[s], "TaskFailed", s)
    BY <1>6, Actors DEF onTaskFailed, ThreadFree
  <2>3. call' \in [Actor -> Calls] /\ m_first_audio_pts' \in Nat
    BY <1>0, <2>2, Told
  <2>4. recon' \in [Session -> BOOLEAN]
    BY <1>0, <1>6 DEF onTaskFailed, TypeOK
  <2> QED
    BY <1>0, <1>6, <2>1, <2>3, <2>4 DEF TypeOK, onTaskFailed, requestVars,
         readerVars, bufferVars, muteVars
<1>7. CASE onChannelClosed(s)
  <2>1. failures' \in 0..MaxFailures
    BY <1>0, <1>7, FaultCounts DEF onChannelClosed, TypeOK
  <2>2. thread[s] \in Actor /\ Tells(thread[s], "Close", s)
    BY <1>7, Actors DEF onChannelClosed, ThreadFree
  <2>3. call' \in [Actor -> Calls] /\ m_first_audio_pts' \in Nat
    BY <1>0, <2>2, Told
  <2> QED
    BY <1>0, <1>7, <2>1, <2>3 DEF TypeOK, onChannelClosed, requestVars,
         sessionVars, readerVars, bufferVars, muteVars
<1> QED
  BY <1>2, <1>3, <1>4, <1>5, <1>6, <1>7 DEF SessionSteps

LEMMA ActorTypes ==
  ASSUME IInv, NEW a \in Actor, ActorSteps(a)
  PROVE  TypeOK'
<1>0. TypeOK /\ Word
  BY DEF IInv
<1>1. /\ failures \in Nat /\ MaxFailures \in Nat /\ created \in Nat
      /\ created <= MaxSessions /\ MaxSessions \in Nat /\ created >= 1
      /\ pushed \in Nat /\ written \in Nat
  BY <1>0, RelayAssumption DEF TypeOK, Session
<1>2. CASE RpcReturns(a)
  <2>1. PICK step \in CallSteps : Goes(a, step)
    BY <1>2 DEF RpcReturns, CallSteps, InSentence
  <2>2. call' \in [Actor -> Calls]
    BY <1>0, <2>1, GoesOn
  <2> QED
    BY <1>0, <1>2, <2>2 DEF TypeOK, RpcReturns, requestVars, sessionVars,
         readerVars, bufferVars, muteVars
<1>3. CASE getTimeBase(a)
  <2>1. [call[a] EXCEPT !.at = "replace", !.base = m_first_audio_pts]
          \in Calls
    BY <1>0 DEF TypeOK, Calls, CallSteps, InSentence
  <2>2. call' \in [Actor -> Calls]
    BY <1>0, <1>3, <2>1 DEF getTimeBase, TypeOK
  <2> QED
    BY <1>0, <1>3, <2>2 DEF TypeOK, getTimeBase, requestVars, sessionVars,
         readerVars, bufferVars, muteVars
<1>4. CASE LockBuffer(a)
  <2>1. call' \in [Actor -> Calls]
    BY <1>0, <1>4, GoesOn DEF LockBuffer, CallSteps, InSentence
  <2> QED
    BY <1>0, <1>4, <2>1 DEF TypeOK, LockBuffer, requestVars, sessionVars,
         readerVars, bufferVars, muteVars
<1>5. CASE replaceAudioPacket(a)
  <2>1. call' \in [Actor -> Calls]
    BY <1>0, <1>5, GoesOn DEF replaceAudioPacket, CallSteps, InSentence
  <2>2. PICK d : muted' = muted \cup Window(a, d)
    BY <1>5 DEF replaceAudioPacket
  <2>3. muted' \subseteq 1..pushed
    <3>1. Window(a, d) \subseteq (written + 1)..pushed
      BY DEF Window
    <3>2. (written + 1)..pushed \subseteq 1..pushed
      BY <1>1
    <3> QED
      BY <1>0, <2>2, <3>1, <3>2 DEF TypeOK
  <2>4. heard[call[a].s][call[a].word] \in reported
    BY <1>0, <1>5 DEF Word, replaceAudioPacket, InSentence
  <2>5. missed' \subseteq reported
    BY <1>0, <1>5, <2>4 DEF replaceAudioPacket, TypeOK
  <2> QED
    BY <1>0, <1>5, <2>1, <2>3, <2>5 DEF TypeOK, replaceAudioPacket,
         requestVars, sessionVars, readerVars, bufferVars
<1>6. CASE CreateRequest(a)
  <2>1. PICK step \in CallSteps : Goes(a, step)
    BY <1>6 DEF CreateRequest, CallSteps, InRestart
  <2>2. call' \in [Actor -> Calls]
    BY <1>0, <2>1, GoesOn
  <2>3. /\ created' \in Session /\ m_request' \in {Null, created'}
        /\ created' \in {created, created + 1}
    BY <1>0, <1>1, <1>6 DEF CreateRequest, TypeOK, Session
  <2>4. req \in 0..created'
    BY <1>0, <1>1, <2>3 DEF TypeOK
  <2>5. node' \in [Session -> NodeStatus]
    BY <1>0, <1>6 DEF CreateRequest, TypeOK, NodeStatus
  <2>6. failures' \in 0..MaxFailures
    BY <1>0, <1>6, FaultCounts DEF CreateRequest, TypeOK
  <2> QED
    BY <1>0, <1>6, <2>2, <2>3, <2>4, <2>5, <2>6
       DEF TypeOK, CreateRequest, readerVars, bufferVars, muteVars
<1>7. CASE CallStart(a)
  <2>1. m_request \in 0..MaxSessions
    BY <1>0, <1>1 DEF TypeOK, Null
  <2>2. [call[a] EXCEPT !.at = "lock", !.r = m_request] \in Calls
    BY <1>0, <2>1 DEF TypeOK, Calls, CallSteps, InRestart
  <2>3. call' \in [Actor -> Calls] /\ crashed' \in BOOLEAN
    BY <1>0, <1>7, <2>2 DEF CallStart, TypeOK
  <2> QED
    BY <1>0, <1>7, <2>3 DEF TypeOK, CallStart, requestVars, sessionVars,
         readerVars, bufferVars, muteVars
<1>8. CASE StartLocks(a)
  <2>1. PICK step \in CallSteps : Goes(a, step)
    BY <1>8 DEF StartLocks, CallSteps, InRestart
  <2>2. call' \in [Actor -> Calls]
    BY <1>0, <2>1, GoesOn
  <2>3. AfterNext(next) \in Worker
    BY <1>0, RelayAssumption DEF AfterNext, Worker, TypeOK
  <2>4. /\ node' \in [Session -> NodeStatus]
        /\ mended' \in [Session -> BOOLEAN]
        /\ thread' \in [Session -> Worker \cup {-1}]
        /\ next' \in Worker
    <3>1. /\ node' \in {[node EXCEPT ![call[a].r] = "starting"], node,
                        [node EXCEPT ![call[a].r] = "created"]}
          /\ mended' \in {mended, [mended EXCEPT ![call[a].r] = TRUE]}
          /\ thread' \in {thread, [thread EXCEPT ![call[a].r] = next]}
          /\ next' \in {next, AfterNext(next)}
      BY <1>8 DEF StartLocks
    <3>2. node' \in [Session -> NodeStatus]
      BY <1>0, <3>1 DEF TypeOK, NodeStatus
    <3>3. mended' \in [Session -> BOOLEAN]
      BY <1>0, <3>1 DEF TypeOK
    <3>4. thread' \in [Session -> Worker \cup {-1}]
      BY <1>0, <3>1 DEF TypeOK
    <3> QED
      BY <1>0, <2>3, <3>1, <3>2, <3>3, <3>4 DEF TypeOK
  <2> QED
    BY <1>0, <1>8, <2>2, <2>4 DEF TypeOK, StartLocks, requestVars,
         readerVars, bufferVars, muteVars
<1>9. CASE StartReturns(a)
  <2>1. call' \in [Actor -> Calls]
    BY <1>0, <1>9, GoesOn DEF StartReturns, CallSteps, InRestart
  <2> QED
    BY <1>0, <1>9, <2>1 DEF TypeOK, StartReturns, requestVars, sessionVars,
         readerVars, bufferVars, muteVars
<1>10. CASE CallbackEnds(a)
  <2>1. PICK step \in CallSteps : Goes(a, step)
    BY <1>10 DEF CallbackEnds, CallSteps
  <2>2. call' \in [Actor -> Calls]
    BY <1>0, <2>1, GoesOn
  <2>3. call[a].s \in Session
    BY <1>0 DEF TypeOK, Calls
  <2>4. /\ node' \in [Session -> NodeStatus]
        /\ pc' \in {"read", "send", "test", "push", "calling"}
        /\ sent' \in BOOLEAN
    BY <1>0, <1>10, <2>3 DEF CallbackEnds, TypeOK, NodeStatus
  <2> QED
    BY <1>0, <1>10, <2>2, <2>4 DEF TypeOK, CallbackEnds, requestVars,
         bufferVars, muteVars
<1>11. CASE ClosesAfter(a)
  <2>1. call[a].s \in Session
    BY <1>0 DEF TypeOK, Calls
  <2>2. call' \in [Actor -> Calls] /\ m_first_audio_pts' \in Nat
    BY <1>0, <1>11, <2>1, GoesOn, Told DEF ClosesAfter, CallSteps, TypeOK
  <2>3. /\ pc' \in {"read", "send", "test", "push", "calling"}
        /\ sent' \in BOOLEAN
    BY <1>0, <1>11, <2>1 DEF ClosesAfter, TypeOK
  <2> QED
    BY <1>0, <1>11, <2>2, <2>3 DEF TypeOK, ClosesAfter, requestVars,
         sessionVars, bufferVars, muteVars
<1> QED
  BY <1>2, <1>3, <1>4, <1>5, <1>6, <1>7, <1>8, <1>9, <1>10, <1>11
     DEF ActorSteps

LEMMA TypeStep == IInv /\ Next => TypeOK'
BY ByAction, ReaderTypes, SessionTypes, ActorTypes

-----------------------------------------------------------------------------
(* What the steps of the sessions and of the callbacks leave alone. *)

LEMMA SessionEffect ==
  ASSUME IInv, NEW s \in Session, SessionSteps(s)
  PROVE  /\ UNCHANGED <<input, m_request, created, heard, pc, req, sent,
                        first, pushed, written, muted, missed>>
         /\ mended[1] => mended'[1]
         /\ \/ UNCHANGED <<call, m_first_audio_pts, reported>>
            \/ /\ thread[s] \in Worker /\ call[thread[s]].at = "none"
               /\ UNCHANGED <<m_first_audio_pts>>
               /\ \E i \in 1..(Len(heard[s]) - 1) :
                    /\ call' = [call EXCEPT ![thread[s]] =
                                  [NoCall EXCEPT !.at = "sendSentence",
                                                 !.s = s, !.word = i]]
                    /\ reported' = reported \cup {heard[s][i]}
            \/ /\ thread[s] \in Worker /\ call[thread[s]].at = "none"
               /\ \E e \in {"TaskFailed", "Close"} : Tells(thread[s], e, s)
               /\ UNCHANGED <<reported>>
<1>0. TypeOK /\ mended \in [Session -> BOOLEAN] /\ 1 \in Session
  BY Numbers DEF IInv, TypeOK, Session
<1>1. UNCHANGED <<input, m_request, created, heard, pc, req, sent,
                  first, pushed, written, muted, missed>>
  BY DEF SessionSteps, SendStart, onTranscriptionStarted, Mends, Reconnects,
         onSentenceEnd, onTaskFailed, onChannelClosed, requestVars,
         readerVars, bufferVars, muteVars
<1>2. mended[1] => mended'[1]
  BY <1>0 DEF SessionSteps, SendStart, onTranscriptionStarted, Mends,
         Reconnects, onSentenceEnd, onTaskFailed, onChannelClosed, sessionVars
<1>3. CASE SendStart(s) \/ onTranscriptionStarted(s) \/ Mends(s)
             \/ Reconnects(s)
  BY <1>1, <1>2, <1>3 DEF SendStart, onTranscriptionStarted, Mends,
     Reconnects, muteVars
<1>4. CASE onSentenceEnd(s)
  <2>1. PICK i \in DOMAIN heard[s] :
          /\ (Len(heard[s]) - i) * PktMs >= SilenceMs
          /\ call' = [call EXCEPT ![thread[s]] =
                        [NoCall EXCEPT !.at = "sendSentence", !.s = s,
                                       !.word = i]]
          /\ reported' = reported \cup {heard[s][i]}
    BY <1>4 DEF onSentenceEnd
  <2>2. heard[s] \in Seq(Packet)
    BY <1>0 DEF TypeOK
  <2>3. i # Len(heard[s])
    <3>1. i = Len(heard[s]) => (Len(heard[s]) - i) * PktMs = 0
      BY <2>2, RelayAssumption
    <3> QED
      BY <2>1, <3>1, RelayAssumption
  <2>4. i \in 1..(Len(heard[s]) - 1)
    BY <2>2, <2>3
  <2> QED
    BY <1>1, <1>2, <1>4, <2>1, <2>4 DEF onSentenceEnd, ThreadFree
<1>5. CASE onTaskFailed(s) \/ onChannelClosed(s)
  <2>1. /\ thread[s] \in Worker /\ call[thread[s]].at = "none"
        /\ UNCHANGED <<reported>>
    BY <1>5 DEF onTaskFailed, onChannelClosed, ThreadFree, muteVars
  <2>2. \E e \in {"TaskFailed", "Close"} : Tells(thread[s], e, s)
    BY <1>5 DEF onTaskFailed, onChannelClosed
  <2> QED
    BY <1>1, <1>2, <2>1, <2>2
<1> QED
  BY <1>3, <1>4, <1>5 DEF SessionSteps

LEMMA ActorEffect ==
  ASSUME IInv, NEW a \in Actor, ActorSteps(a)
  PROVE  /\ UNCHANGED <<input, heard, req, first, pushed, written,
                        reported>>
         /\ \A b \in Actor : b # a => call'[b] = call[b]
         /\ call[a].at # "none"
         /\ call'[a].at \in InSentence =>
              /\ call[a].at \in InSentence
              /\ call'[a].s = call[a].s /\ call'[a].word = call[a].word
         /\ \/ UNCHANGED <<pc, sent>> /\ (a = Main => call'[a].at # "none")
            \/ a = Main /\ pc' = "test" /\ call'[a].at = "none"
         /\ m_request' # m_request => /\ CreateRequest(a)
                                      /\ m_request' \in {Null, created + 1}
         /\ created' \in {created, created + 1}
         /\ replaceAudioPacket(a) \/ UNCHANGED <<muted, missed>>
         /\ mended[1] => mended'[1]
<1>0. /\ TypeOK /\ mended \in [Session -> BOOLEAN] /\ call[a] \in Calls
      /\ call \in [Actor -> Calls] /\ call[a].s \in Session
  BY DEF IInv, TypeOK, Calls
<1>s. 1 \in Session
  BY RelayAssumption DEF Session
<1>1. a = Main => call[a].at \notin InSentence
  <2>1. Place
    BY DEF IInv
  <2> QED
    BY <2>1, Actors DEF Place, InSentence
<1>2. CASE RpcReturns(a) \/ getTimeBase(a) \/ LockBuffer(a)
             \/ replaceAudioPacket(a)
  <2>1. call[a].at \in InSentence /\ a # Main
    BY <1>1, <1>2 DEF RpcReturns, getTimeBase, LockBuffer,
       replaceAudioPacket, InSentence
  <2>2. /\ \A b \in Actor : b # a => call'[b] = call[b]
        /\ call'[a].s = call[a].s /\ call'[a].word = call[a].word
    <3>1. CASE getTimeBase(a)
      BY <1>0, <3>1 DEF getTimeBase, Calls
    <3>2. CASE ~getTimeBase(a)
      <4>1. PICK step \in CallSteps : Goes(a, step)
        BY <1>2, <3>2 DEF RpcReturns, LockBuffer, replaceAudioPacket,
           CallSteps, InSentence
      <4> QED
        BY <1>0, <4>1, GoesOn
    <3> QED
      BY <3>1, <3>2
  <2>3. /\ UNCHANGED <<input, heard, pc, req, sent, first, pushed,
                       written, reported, m_request, created, mended>>
        /\ replaceAudioPacket(a) \/ UNCHANGED <<muted, missed>>
    BY <1>2 DEF RpcReturns, getTimeBase, LockBuffer, replaceAudioPacket,
       requestVars, readerVars, sessionVars, bufferVars, muteVars
  <2> QED
    BY <2>1, <2>2, <2>3 DEF InSentence
<1>3. CASE CreateRequest(a) \/ CallStart(a) \/ StartLocks(a)
             \/ StartReturns(a)
  <2>1. call[a].at # "none"
    BY <1>3 DEF CreateRequest, CallStart, StartLocks, StartReturns
  <2>2. /\ \A b \in Actor : b # a => call'[b] = call[b]
        /\ call'[a].at \notin InSentence \cup {"none"}
    <3>1. CASE CallStart(a)
      BY <1>0, <3>1 DEF CallStart, Calls, InSentence
    <3>2. CASE ~CallStart(a)
      <4>1. PICK step \in InRestart : Goes(a, step)
        BY <1>3, <3>2 DEF CreateRequest, StartLocks, StartReturns, InRestart
      <4> QED
        BY <1>0, <4>1, GoesOn DEF CallSteps, InRestart, InSentence
    <3> QED
      BY <3>1, <3>2
  <2>3. UNCHANGED <<input, heard, pc, req, sent, first, pushed, written,
                    reported, muted, missed>>
    BY <1>3 DEF CreateRequest, CallStart, StartLocks, StartReturns,
       requestVars, readerVars, sessionVars, bufferVars, muteVars
  <2>4. /\ m_request' # m_request => /\ CreateRequest(a)
                                     /\ m_request' \in {Null, created + 1}
        /\ created' \in {created, created + 1}
    BY <1>3 DEF CreateRequest, CallStart, StartLocks, StartReturns,
       requestVars
  <2>5. mended[1] => mended'[1]
    BY <1>0, <1>s, <1>3 DEF CreateRequest, CallStart, StartLocks, StartReturns,
       sessionVars
  <2> QED
    BY <2>1, <2>2, <2>3, <2>4, <2>5
<1>4. CASE CallbackEnds(a) \/ ClosesAfter(a)
  <2>1. call[a].at \in {"done", "closing"}
    BY <1>4 DEF CallbackEnds, ClosesAfter
  <2>2. PICK step \in {"closing", "none", "begin"} :
          /\ call'[a].at = step
          /\ \A b \in Actor : b # a => call'[b] = call[b]
          /\ \/ UNCHANGED <<pc, sent>> /\ (a = Main => step # "none")
             \/ a = Main /\ pc' = "test" /\ step = "none"
    <3>1. CASE ClosesAfter(a) /\ node[call[a].s] # "closed"
      BY <1>0, <3>1, Told DEF ClosesAfter
    <3>2. CASE ~(ClosesAfter(a) /\ node[call[a].s] # "closed")
      <4>1. PICK step \in {"closing", "none"} :
              /\ Goes(a, step)
              /\ \/ UNCHANGED <<pc, sent>> /\ (a = Main => step # "none")
                 \/ a = Main /\ pc' = "test" /\ step = "none"
        BY <1>4, <3>2 DEF ClosesAfter, CallbackEnds
      <4> QED
        BY <1>0, <4>1, GoesOn DEF CallSteps
    <3> QED
      BY <3>1, <3>2
  <2>3. UNCHANGED <<input, heard, req, first, pushed, written, reported,
                    muted, missed, m_request, created, mended>>
    BY <1>4 DEF CallbackEnds, ClosesAfter, requestVars, sessionVars,
       bufferVars, muteVars
  <2> QED
    BY <2>1, <2>2, <2>3 DEF InSentence
<1> QED
  BY <1>2, <1>3, <1>4 DEF ActorSteps

\* The reader's own part of a step.
LEMMA ReaderEffect ==
  ASSUME IInv, ReadFrame \/ SetBase \/ PushAudio
  PROVE  /\ UNCHANGED <<input, m_request, created, mended, call, heard,
                        first, muted, reported, missed>>
         /\ \/ /\ pc = "read" /\ pushed < input.packets
               /\ pc' \in {"send", "push"}
               /\ req' \in {req, m_request}
               /\ pc' = "send" => req' = m_request
               /\ UNCHANGED <<m_first_audio_pts, pushed, written>>
            \/ /\ pc = "test" /\ pc' = "push"
               /\ m_first_audio_pts' = IF m_first_audio_pts = 0 /\ sent
                                       THEN Pts(Pkt)
                                       ELSE m_first_audio_pts
               /\ UNCHANGED <<req, sent, pushed, written>>
            \/ /\ pc = "push" /\ pc' = "read" /\ pushed' = pushed + 1
               /\ \A a \in Actor : call[a].at # "locked"
               /\ UNCHANGED <<m_first_audio_pts, req, sent>>
BY DEF ReadFrame, SetBase, PushAudio, MutexFree, requestVars, sessionVars,
       bufferVars, muteVars

LEMMA PlaceStep == IInv /\ Next => Place'
<1> SUFFICES ASSUME IInv, Next PROVE Place'
  OBVIOUS
<1>0. TypeOK /\ Place
  BY DEF IInv
<1>1. CASE ReadFrame \/ SetBase \/ PushAudio
  BY <1>0, <1>1, ReaderEffect DEF Place
<1>2. CASE SendAudio
  <2>1. CASE call' = call
    BY <1>0, <1>2, <2>1, SendCases DEF Place
  <2>2. CASE pc' = "calling" /\ req \in Session
             /\ Tells(Main, "TaskFailed", req)
    BY <1>0, <1>2, <2>2, SendCases, Actors, Told DEF Place, InSentence
  <2> QED
    BY <1>0, <1>2, <2>1, <2>2, SendCases
<1>3. CASE \E s \in Session : SessionSteps(s)
  <2>1. PICK s \in Session : SessionSteps(s)
    BY <1>3
  <2>2. pc' = pc /\ pushed' = pushed /\ input' = input
    BY <2>1, SessionEffect
  <2>3. call'[Main] = call[Main]
    <3>1. thread[s] \in Worker /\ (\E e \in {"TaskFailed", "Close"} :
                                     Tells(thread[s], e, s))
            => call'[Main] = call[Main]
      BY <1>0, Told, Actors
    <3>2. \A c : (thread[s] \in Worker /\ call' = [call EXCEPT ![thread[s]] = c])
                  => call'[Main] = call[Main]
      BY <1>0, Actors DEF TypeOK
    <3> QED
      BY <2>1, <3>1, <3>2, SessionEffect
  <2> QED
    BY <1>0, <2>2, <2>3 DEF Place
<1>4. CASE \E a \in Actor : ActorSteps(a)
  BY <1>0, <1>4, ActorEffect, Actors DEF Place
<1> QED
  BY <1>1, <1>2, <1>3, <1>4, ByAction

LEMMA WordStep == IInv /\ Next => Word'
<1> SUFFICES ASSUME IInv, Next PROVE Word'
  OBVIOUS
<1>0. TypeOK /\ Place /\ Word
  BY DEF IInv
<1>1. ASSUME NEW a \in Actor, call[a].at \in InSentence,
             reported \subseteq reported',
             \/ heard' = heard
             \/ Hears /\ Pkt \in Packet /\ req # Null
      PROVE  /\ call[a].word \in 1..(Len(heard'[call[a].s]) - 1)
             /\ heard'[call[a].s][call[a].word] \in reported'
  <2>1. call[a].s \in Session
    BY <1>0 DEF TypeOK, Calls
  <2>2. /\ call[a].word \in 1..(Len(heard[call[a].s]) - 1)
        /\ heard[call[a].s][call[a].word] \in reported
    BY <1>0, <1>1 DEF Word
  <2>3. heard[call[a].s] \in Seq(Packet)
    BY <1>0, <2>1 DEF TypeOK
  <2>4. call[a].word \in DOMAIN heard[call[a].s]
    BY <2>2, <2>3
  <2> QED
    BY <1>0, <1>1, <2>1, <2>2, <2>4, HeardStays
<1>2. CASE ReadFrame \/ SetBase \/ PushAudio
  BY <1>0, <1>1, <1>2, ReaderEffect DEF Word
<1>3. CASE SendAudio
  <2>1. reported' = reported /\ (\/ heard' = heard
                                 \/ Hears /\ Pkt \in Packet /\ req # Null)
    BY <1>0, <1>3, SendCases
  <2>2. \A a \in Actor : call'[a].at \in InSentence => call'[a] = call[a]
    BY <1>0, <1>3, SendCases, Told, Actors DEF InSentence
  <2> QED
    BY <1>1, <2>1, <2>2 DEF Word
<1>4. CASE \E s \in Session : SessionSteps(s)
  <2>1. PICK s \in Session : SessionSteps(s)
    BY <1>4
  <2>2. heard' = heard
    BY <2>1, SessionEffect
  <2>3. CASE call' = call /\ reported' = reported
    BY <1>1, <2>2, <2>3 DEF Word
  <2>4. CASE \E i \in 1..(Len(heard[s]) - 1) :
               /\ call' = [call EXCEPT ![thread[s]] =
                             [NoCall EXCEPT !.at = "sendSentence",
                                            !.s = s, !.word = i]]
               /\ reported' = reported \cup {heard[s][i]}
    <3>1. PICK i \in 1..(Len(heard[s]) - 1) :
               /\ call' = [call EXCEPT ![thread[s]] =
                             [NoCall EXCEPT !.at = "sendSentence",
                                            !.s = s, !.word = i]]
               /\ reported' = reported \cup {heard[s][i]}
      BY <2>4
    <3> DEFINE c == [NoCall EXCEPT !.at = "sendSentence", !.s = s, !.word = i]
    <3>2. c.s = s /\ c.word = i
      BY DEF NoCall
    <3>3. call' = [call EXCEPT ![thread[s]] = c]
      BY <3>1
    <3> HIDE DEF c
    <3>4. \A a \in Actor : a # thread[s] => call'[a] = call[a]
      BY <1>0, <3>3 DEF TypeOK
    <3>5. thread[s] \in Actor => call'[thread[s]] = c
      BY <1>0, <3>3 DEF TypeOK
    <3> QED
      BY <1>1, <2>2, <3>1, <3>2, <3>4, <3>5 DEF Word
  <2>5. CASE /\ thread[s] \in Worker
             /\ \E e \in {"TaskFailed", "Close"} : Tells(thread[s], e, s)
             /\ UNCHANGED <<reported>>
    <3>1. \A a \in Actor : call'[a].at \in InSentence => call'[a] = call[a]
      BY <1>0, <2>5, Told, Actors DEF InSentence
    <3> QED
      BY <1>1, <2>2, <2>5, <3>1 DEF Word
  <2> QED
    BY <2>1, <2>3, <2>4, <2>5, SessionEffect
<1>5. CASE \E a \in Actor : ActorSteps(a)
  <2>1. PICK a \in Actor : ActorSteps(a)
    BY <1>5
  <2>2. /\ heard' = heard /\ reported' = reported
        /\ \A b \in Actor :
             call'[b].at \in InSentence =>
               /\ call[b].at \in InSentence
               /\ call'[b].s = call[b].s /\ call'[b].word = call[b].word
    BY <2>1, ActorEffect
  <2> QED
    BY <1>1, <2>2 DEF Word
<1> QED
  BY <1>2, <1>3, <1>4, <1>5, ByAction

LEMMA OrderStep == IInv /\ Next => Order'
<1> SUFFICES ASSUME IInv, Next PROVE Order'
  OBVIOUS
<1>0. TypeOK /\ Place /\ Order
  BY DEF IInv
<1>1. created \in Nat /\ req \in Nat /\ req <= created
  BY <1>0, RelayAssumption DEF TypeOK, Session
<1>2. CASE ReadFrame \/ SetBase \/ PushAudio
  <2>1. pc' = "send" => req' = m_request
    BY <1>2, ReaderEffect
  <2>2. m_request \in {Null, created}
    BY <1>0 DEF TypeOK
  <2> QED
    BY <1>0, <1>2, <2>1, <2>2, ReaderEffect DEF Order
<1>3. CASE SendAudio
  <2>1. pc = "send" /\ req' = req /\ created' = created
    BY <1>0, <1>3, SendCases
  <2>2. CASE heard' = heard
    BY <1>0, <2>1, <2>2 DEF Order
  <2>3. CASE pc' = "test" /\ req # Null /\ Hears /\ Pkt \in Packet
    <3>1. ASSUME NEW s \in Session, heard'[s] # <<>>
          PROVE  s <= created
      BY <1>0, <1>1, <2>3, <3>1, HearsOne DEF Order
    <3> QED
      BY <2>1, <2>3, <3>1 DEF Order
  <2> QED
    BY <1>0, <1>3, <2>2, <2>3, SendCases
<1>4. CASE (\E s \in Session : SessionSteps(s))
             \/ \E a \in Actor : ActorSteps(a)
  <2>1. /\ heard' = heard /\ req' = req /\ created' \in {created, created + 1}
        /\ pc' = "send" => pc = "send"
    BY <1>4, SessionEffect, ActorEffect
  <2> QED
    BY <1>0, <1>1, <2>1 DEF Order, Session
<1> QED
  BY <1>2, <1>3, <1>4, ByAction

\* How far the reader is never goes back.
LEMMA ProcessedGrows ==
  ASSUME IInv, Next
  PROVE  /\ Processed \in Nat /\ Processed' \in Nat
         /\ Processed <= Processed' /\ Processed' <= Processed + 1
         /\ SendAudio => Processed' \in {pushed, Pkt} /\ Processed = pushed
         /\ SendAudio /\ heard' # heard => Processed' = Pkt
         /\ SendAudio /\ first' # first => Processed' = Pkt
<1>0. /\ TypeOK /\ Place /\ pushed \in Nat
      /\ SendAudio => pc = "send"
  BY RelayAssumption DEF IInv, TypeOK, SendAudio
<1>1. CASE ReadFrame \/ SetBase \/ PushAudio
  <2>1. pc # "send" /\ heard' = heard /\ first' = first
    BY <1>1, ReaderEffect
  <2>2. /\ Processed \in Nat
        /\ Processed' = Processed \/ Processed' = Processed + 1
    <3>1. CASE /\ pushed' = pushed
               /\ pc = "read" \/ (pc = "test" /\ pc' = "push")
      BY <1>0, <3>1 DEF Processed
    <3>2. CASE pc = "push" /\ pc' = "read" /\ pushed' = pushed + 1
      BY <1>0, <3>2 DEF Processed
    <3> QED
      BY <1>1, <3>1, <3>2, ReaderEffect
  <2> QED
    BY <1>0, <2>1, <2>2
<1>2. CASE SendAudio
  BY <1>0, <1>2, SendCases DEF Processed, Pkt
<1>3. CASE \E s \in Session : SessionSteps(s)
  <2>1. pc' = pc /\ pushed' = pushed /\ heard' = heard /\ first' = first
    BY <1>3, SessionEffect
  <2> QED
    BY <1>0, <2>1 DEF Processed
<1>4. CASE \E a \in Actor : ActorSteps(a)
  <2>1. /\ pushed' = pushed /\ heard' = heard /\ first' = first
        /\ pc' = pc \/ (pc = "calling" /\ pc' = "test")
    BY <1>0, <1>4, ActorEffect DEF Place
  <2> QED
    BY <1>0, <2>1 DEF Processed
<1> QED
  BY <1>1, <1>2, <1>3, <1>4, ByAction

LEMMA HeardNat ==
  ASSUME TypeOK
  PROVE  \A s \in Session : /\ heard[s] \in Seq(Packet)
                            /\ \A i \in DOMAIN heard[s] :
                                 heard[s][i] \in Packet /\ heard[s][i] \in Nat
<1>1. \A s \in Session : heard[s] \in Seq(Packet)
  BY DEF TypeOK
<1>2. \A x \in Packet : x \in Nat
  BY RelayAssumption DEF Packet
<1> QED
  BY <1>1, <1>2

\* Who hears anything is given the packet that the reader is at.
LEMMA OnlySendHears ==
  ASSUME IInv, Next
  PROVE  \/ heard' = heard
         \/ SendAudio /\ Hears /\ Pkt \in Packet /\ req # Null /\ sent'
<1>0. TypeOK /\ Place
  BY DEF IInv
<1> QED
  BY <1>0, ByAction, ReaderEffect, SendCases, SessionEffect, ActorEffect

LEMMA BehindStep == IInv /\ Next => Behind'
<1> SUFFICES ASSUME IInv, Next PROVE Behind'
  OBVIOUS
<1>0. TypeOK /\ Behind /\ pushed \in Nat
  BY RelayAssumption DEF IInv, TypeOK
<1>1. Processed \in Nat /\ Processed' \in Nat /\ Processed <= Processed'
  BY ProcessedGrows
<1>2. CASE heard' = heard
  <2>1. \A s \in Session : \A i \in DOMAIN heard[s] : heard[s][i] \in Nat
    BY <1>0, HeardNat
  <2> QED
    BY <1>0, <1>1, <1>2, <2>1 DEF Behind
<1>3. CASE SendAudio /\ Hears /\ Pkt \in Packet /\ req # Null
  <2>1. Processed' = Pkt
    <3>1. heard' # heard
      BY <1>0, <1>3, HearsOne DEF TypeOK
    <3> QED
      BY <1>3, <3>1, ProcessedGrows
  <2>2. ASSUME NEW s \in Session, NEW i \in DOMAIN heard'[s]
        PROVE  heard'[s][i] <= Pkt
    <3>1. heard[s] \in Seq(Packet) /\ Pkt = pushed + 1
      BY <1>0 DEF TypeOK, Pkt
    <3>2. \A j \in DOMAIN heard[s] : heard[s][j] <= Pkt
      BY <1>0, <1>1, <2>1, <3>1, HeardNat DEF Behind
    <3>3. heard'[s] \in {heard[s], Append(heard[s], Pkt)}
      BY <1>0, <1>3, HearsOne
    <3>4. \A j \in DOMAIN Append(heard[s], Pkt) :
            \/ /\ j \in DOMAIN heard[s]
               /\ Append(heard[s], Pkt)[j] = heard[s][j]
            \/ Append(heard[s], Pkt)[j] = Pkt
      BY <1>3, <3>1
    <3>5. CASE heard'[s] = heard[s]
      BY <3>2, <3>5
    <3>6. CASE heard'[s] = Append(heard[s], Pkt)
      BY <1>0, <3>1, <3>2, <3>4, <3>6
    <3> QED
      BY <3>3, <3>5, <3>6
  <2> QED
    BY <2>1, <2>2 DEF Behind
<1> QED
  BY <1>2, <1>3, OnlySendHears

LEMMA InOrderStep == IInv /\ Next => InOrder'
<1> SUFFICES ASSUME IInv, Next PROVE InOrder'
  OBVIOUS
<1>0. TypeOK /\ Place /\ Behind /\ InOrder /\ Order /\ pushed \in Nat
  BY RelayAssumption DEF IInv, TypeOK
<1>1. CASE heard' = heard
  BY <1>0, <1>1 DEF InOrder
<1>2. CASE SendAudio /\ Hears /\ Pkt \in Packet /\ req # Null
  <2>1. /\ req \in Session /\ heard'[req] = Append(heard[req], Pkt)
        /\ \A s \in Session : s # req => heard'[s] = heard[s]
    BY <1>0, <1>2, HearsOne
  <2>2. pc = "send" /\ Pkt = pushed + 1
    BY <1>2 DEF SendAudio, Pkt
  <2>3. \A s \in Session : \A i \in DOMAIN heard[s] : heard[s][i] < Pkt
    <3>1. \A s \in Session : \A i \in DOMAIN heard[s] : heard[s][i] \in Nat
      BY <1>0, HeardNat
    <3> QED
      BY <1>0, <2>2, <3>1 DEF Behind, Processed
  <2>4. \A s \in Session : s > req => heard[s] = <<>>
    BY <1>0, <1>2, <2>1, <2>2 DEF Order, Session
  <2>5. /\ heard[req] \in Seq(Packet)
        /\ \A s \in Session : heard[s] \in Seq(Packet)
    BY <1>0, <2>1 DEF TypeOK
  <2>6. /\ DOMAIN heard'[req] = 1..(Len(heard[req]) + 1)
        /\ DOMAIN heard[req] = 1..Len(heard[req])
        /\ heard'[req][Len(heard[req]) + 1] = Pkt
        /\ \A i \in DOMAIN heard[req] : heard'[req][i] = heard[req][i]
        /\ Len(heard[req]) \in Nat
    BY <1>2, <2>1, <2>5
  <2>7. ASSUME NEW s \in Session, NEW t \in Session,
               NEW i \in DOMAIN heard'[s], NEW j \in DOMAIN heard'[t],
               s < t \/ (s = t /\ i < j)
        PROVE  heard'[s][i] < heard'[t][j]
    <3>1. CASE s # req /\ t # req
      BY <1>0, <2>1, <2>7, <3>1 DEF InOrder
    <3>2. CASE s = req /\ t = req
      <4>1. i \in DOMAIN heard[req]
        BY <2>6, <2>7, <3>2 DEF Session
      <4> QED
        BY <1>0, <2>3, <2>6, <2>7, <3>2, <4>1 DEF InOrder
    <3>3. CASE s # req /\ t = req
      BY <1>0, <2>1, <2>3, <2>6, <2>7, <3>3 DEF InOrder
    <3>4. CASE s = req /\ t # req
      BY <2>1, <2>4, <2>7, <3>4
    <3> QED
      BY <3>1, <3>2, <3>3, <3>4
  <2> QED
    BY <2>7 DEF InOrder
<1> QED
  BY <1>1, <1>2, OnlySendHears

\* m_request never becomes the first session again.
LEMMA FromFirst ==
  ASSUME IInv, Next, m_request' = 1
  PROVE  m_request = 1
<1>0. TypeOK /\ Place
  BY DEF IInv
<1>1. created \in Nat /\ created >= 1
  BY <1>0, RelayAssumption DEF TypeOK, Session
<1>2. \A a \in Actor : ActorSteps(a) => m_request' = m_request
  BY <1>1, ActorEffect DEF Null
<1> QED
  BY <1>0, <1>2, ByAction, ReaderEffect, SendCases, SessionEffect

LEMMA AloneStep == IInv /\ Next => Alone'
<1> SUFFICES ASSUME IInv, Next, m_request' = 1
             PROVE  /\ req' = 1
                    /\ \A a \in Actor : call'[a].at \notin
                         {"created", "lock", "wait", "done", "closing"}
  BY DEF Alone
<1>0. TypeOK /\ Place /\ Alone
  BY DEF IInv
<1>1. m_request = 1
  BY FromFirst
<1>2. /\ req = 1
      /\ \A a \in Actor : call[a].at \notin
           {"created", "lock", "wait", "done", "closing"}
  BY <1>0, <1>1 DEF Alone
<1>3. CASE ReadFrame \/ SetBase \/ PushAudio
  BY <1>1, <1>2, <1>3, ReaderEffect
<1>4. CASE SendAudio
  BY <1>0, <1>2, <1>4, SendCases, Told, Actors
<1>5. CASE \E s \in Session : SessionSteps(s)
  <2>1. PICK s \in Session : SessionSteps(s)
    BY <1>5
  <2>2. CASE call' = call
    BY <1>2, <2>1, <2>2, SessionEffect
  <2>3. CASE /\ thread[s] \in Worker
             /\ \E e \in {"TaskFailed", "Close"} : Tells(thread[s], e, s)
    <3>1. \A a \in Actor : call'[a].at = "begin" \/ call'[a] = call[a]
      BY <1>0, <2>3, Told, Actors
    <3> QED
      BY <1>2, <2>1, <3>1, SessionEffect
  <2>4. CASE \E i \in 1..(Len(heard[s]) - 1) :
               call' = [call EXCEPT ![thread[s]] =
                          [NoCall EXCEPT !.at = "sendSentence",
                                         !.s = s, !.word = i]]
    <3>1. PICK i \in 1..(Len(heard[s]) - 1) :
               call' = [call EXCEPT ![thread[s]] =
                          [NoCall EXCEPT !.at = "sendSentence",
                                         !.s = s, !.word = i]]
      BY <2>4
    <3> DEFINE c == [NoCall EXCEPT !.at = "sendSentence", !.s = s, !.word = i]
    <3>2. c.at = "sendSentence"
      BY DEF NoCall
    <3>3. call' = [call EXCEPT ![thread[s]] = c]
      BY <3>1
    <3> HIDE DEF c
    <3>4. \A a \in Actor : call'[a] = c \/ call'[a] = call[a]
      BY <1>0, <3>3 DEF TypeOK
    <3> QED
      BY <1>2, <2>1, <3>2, <3>4, SessionEffect
  <2> QED
    BY <2>1, <2>2, <2>3, <2>4, SessionEffect
<1>6. CASE \E a \in Actor : ActorSteps(a)
  <2>1. PICK a \in Actor : ActorSteps(a)
    BY <1>6
  <2>2. call[a].at \notin {"created", "lock", "wait", "done", "closing"}
    BY <1>2
  <2>3. RpcReturns(a) \/ getTimeBase(a) \/ LockBuffer(a)
          \/ replaceAudioPacket(a) \/ CreateRequest(a)
    BY <2>1, <2>2 DEF ActorSteps, CallStart, StartLocks, StartReturns,
       CallbackEnds, ClosesAfter
  <2>4. ~CreateRequest(a)
    <3>1. created \in Nat /\ created >= 1
      BY <1>0, RelayAssumption DEF TypeOK, Session
    <3> QED
      BY <1>1, <3>1 DEF CreateRequest, Null
  <2>5. call'[a].at \in InSentence \cup {"none"}
    <3>1. CASE getTimeBase(a)
      <4>1. call[a] \in Calls
        BY <1>0 DEF TypeOK
      <4> QED
        BY <1>0, <3>1, <4>1 DEF getTimeBase, TypeOK, Calls, InSentence
    <3>2. CASE ~getTimeBase(a)
      <4>1. PICK step \in InSentence \cup {"none"} : Goes(a, step)
        BY <2>3, <2>4, <3>2 DEF RpcReturns, LockBuffer, replaceAudioPacket,
           InSentence
      <4> QED
        BY <1>0, <4>1, GoesOn DEF CallSteps
    <3> QED
      BY <3>1, <3>2
  <2> QED
    BY <1>2, <2>1, <2>5, ActorEffect DEF InSentence
<1> QED
  BY <1>3, <1>4, <1>5, <1>6, ByAction

\* A step that leaves the first session in use: it was in use before, and only
\* the reader's own steps change what the mute is reckoned from.
LEMMA QuietStep ==
  ASSUME IInv, Next, FirstUse'
  PROVE  /\ FirstUse /\ req = 1 /\ 1 \in Session
         /\ mended[1] => mended'[1]
         /\ \/ ReadFrame \/ SetBase \/ PushAudio
            \/ SendAudio /\ pc' # "calling"
            \/ /\ UNCHANGED <<input, m_first_audio_pts, heard, pc, sent,
                              first, pushed, written>>
               /\ \/ \E s \in Session : SessionSteps(s)
                  \/ \E a \in Actor :
                       \/ RpcReturns(a)
                       \/ getTimeBase(a)
                       \/ LockBuffer(a)
                       \/ replaceAudioPacket(a)
<1>0. TypeOK /\ Place /\ Alone /\ 1 \in Session
  BY RelayAssumption DEF IInv, Session
<1>1. m_request = 1
  BY FromFirst DEF FirstUse
<1>2. /\ req = 1
      /\ \A a \in Actor : call[a].at \notin
           {"created", "lock", "wait", "done", "closing"}
  BY <1>0, <1>1 DEF Alone
<1>3. \A a \in Actor : call'[a].at # "begin"
  BY DEF FirstUse
<1>4. CASE ReadFrame \/ SetBase \/ PushAudio
  <2>1. FirstUse
    BY <1>1, <1>3, <1>4, ReaderEffect DEF FirstUse
  <2> QED
    BY <1>0, <1>2, <1>4, <2>1, ReaderEffect
<1>5. CASE SendAudio
  <2>1. pc' # "calling" /\ call' = call
    BY <1>0, <1>3, <1>5, SendCases, Told, Actors
  <2>2. FirstUse
    BY <1>1, <1>3, <2>1 DEF FirstUse
  <2>3. mended[1] => mended'[1]
    BY <1>0, <1>5 DEF SendAudio, SendTaken, SendRefused, SendMends, SendFails,
       SendNull, sessionVars, TypeOK
  <2> QED
    BY <1>0, <1>2, <1>5, <2>1, <2>2, <2>3
<1>6. CASE \E s \in Session : SessionSteps(s)
  <2>1. PICK s \in Session : SessionSteps(s)
    BY <1>6
  <2>2. ~ /\ thread[s] \in Worker
          /\ \E e \in {"TaskFailed", "Close"} : Tells(thread[s], e, s)
    BY <1>0, <1>3, Told, Actors
  <2>3. m_first_audio_pts' = m_first_audio_pts
    BY <2>1, <2>2, SessionEffect
  <2>4. ASSUME NEW a \in Actor, call[a].at = "begin"
        PROVE  FALSE
    <3>1. call'[a] = call[a]
      BY <1>0, <2>1, <2>2, <2>4, SessionEffect DEF TypeOK
    <3> QED
      BY <1>3, <2>4, <3>1
  <2>5. FirstUse
    BY <1>1, <2>4 DEF FirstUse
  <2> QED
    BY <1>0, <1>2, <2>1, <2>3, <2>5, SessionEffect
<1>7. CASE \E a \in Actor : ActorSteps(a)
  <2>1. PICK a \in Actor : ActorSteps(a)
    BY <1>7
  <2>2. created \in Nat /\ created >= 1 /\ m_request' = 1
    BY <1>0, RelayAssumption DEF TypeOK, Session, FirstUse
  <2>3. RpcReturns(a) \/ getTimeBase(a) \/ LockBuffer(a)
          \/ replaceAudioPacket(a)
    BY <1>2, <2>1, <2>2 DEF ActorSteps, CallStart, StartLocks, StartReturns,
       CallbackEnds, ClosesAfter, CreateRequest, Null
  <2>4. call[a].at # "begin"
    BY <2>3 DEF RpcReturns, getTimeBase, LockBuffer, replaceAudioPacket
  <2>5. FirstUse
    BY <1>1, <1>3, <2>1, <2>4, ActorEffect DEF FirstUse
  <2>6. UNCHANGED <<input, m_first_audio_pts, heard, pc, sent, first,
                    pushed, written>>
    BY <2>3 DEF RpcReturns, getTimeBase, LockBuffer, replaceAudioPacket,
       readerVars, bufferVars
  <2> QED
    BY <1>0, <1>2, <2>1, <2>3, <2>5, <2>6, ActorEffect
<1> QED
  BY <1>4, <1>5, <1>6, <1>7, ByAction

-----------------------------------------------------------------------------
(* The first session's clock. *)

\* What the first session hears in a step that leaves it in use.
LEMMA FirstHears ==
  ASSUME IInv, Next, FirstUse'
  PROVE  /\ heard[1] \in Seq(Packet) /\ Len(heard[1]) \in Nat
         /\ \/ heard'[1] = heard[1]
            \/ /\ SendAudio /\ sent' /\ Processed' = Pkt
               /\ heard'[1] = Append(heard[1], Pkt)
               /\ Len(heard'[1]) = Len(heard[1]) + 1
               /\ heard'[1][Len(heard[1]) + 1] = Pkt
               /\ \A i \in 1..Len(heard[1]) : heard'[1][i] = heard[1][i]
<1>0. TypeOK /\ req = 1 /\ 1 \in Session
  BY QuietStep DEF IInv
<1>1. heard[1] \in Seq(Packet) /\ Len(heard[1]) \in Nat
  BY <1>0 DEF TypeOK
<1>2. CASE heard' = heard
  BY <1>1, <1>2
<1>3. CASE SendAudio /\ Hears /\ Pkt \in Packet /\ req # Null /\ sent'
  <2>1. heard'[1] = Append(heard[1], Pkt)
    BY <1>0, <1>3, HearsOne
  <2>2. heard' # heard
    BY <1>1, <1>3, <2>1
  <2>3. Processed' = Pkt
    BY <1>3, <2>2, ProcessedGrows
  <2> QED
    BY <1>1, <1>3, <2>1, <2>3
<1> QED
  BY <1>2, <1>3, OnlySendHears

\* What is taken first in such a step.
LEMMA FirstTaken ==
  ASSUME IInv, Next, FirstUse'
  PROVE  /\ first \in Nat
         /\ \/ first' = first
            \/ /\ SendAudio /\ sent' /\ Processed' = Pkt
               /\ first = 0 /\ first' = Pkt
         /\ SendAudio => /\ pc = "send" /\ pc' \in {"send", "test"}
                         /\ m_first_audio_pts' = m_first_audio_pts
                         /\ first = 0 /\ first' = 0 /\ pc' = "test" => ~sent'
                         /\ UNCHANGED <<input, pushed>>
<1>0. TypeOK /\ Place /\ first \in Nat
  BY RelayAssumption DEF IInv, TypeOK
<1>1. CASE ~SendAudio
  <2>1. first' = first
    BY <1>0, <1>1, ByAction, ReaderEffect, SessionEffect, ActorEffect
  <2> QED
    BY <1>0, <1>1, <2>1
<1>2. CASE SendAudio
  <2>1. pc' # "calling"
    <3>1. Tells(Main, "TaskFailed", req) /\ req \in Session
            => call'[Main].at = "begin"
      BY <1>0, Told, Actors
    <3> QED
      BY <1>0, <1>2, <3>1, SendCases, Actors DEF FirstUse
  <2>2. Pkt \in Nat /\ Pkt # 0
    BY <1>0, RelayAssumption DEF Pkt, TypeOK
  <2> QED
    BY <1>0, <1>2, <2>1, <2>2, SendCases, ProcessedGrows
<1> QED
  BY <1>1, <1>2

LEMMA HolesStep == IInv /\ Next => Holes'
<1> SUFFICES ASSUME IInv, Next, FirstUse'
             PROVE  Holes'
  BY DEF Holes
<1>0. TypeOK /\ Holes /\ FirstUse /\ pushed \in Nat
  BY QuietStep, RelayAssumption DEF IInv, TypeOK
<1> DEFINE n == Len(heard[1])
<1>1. n \in Nat /\ heard[1] \in Seq(Packet)
  BY FirstHears
<1>2. /\ Processed \in Nat /\ Processed' \in Nat /\ Processed <= Processed'
      /\ SendAudio => Processed = pushed
      /\ Pkt = pushed + 1
  BY ProcessedGrows DEF Pkt
<1>3. \A i \in 1..n : heard[1][i] \in Nat
  BY <1>0, <1>1, HeardNat, QuietStep
<1>4. CASE first = 0
  <2>1. heard[1] = <<>> /\ n = 0
    BY <1>0, <1>4 DEF Holes
  <2>2. CASE first' = 0
    <3>1. heard'[1] = heard[1]
      BY <1>4, <2>2, FirstHears, FirstTaken, SendCases, <1>0 DEF IInv
    <3> QED
      BY <2>1, <2>2, <3>1 DEF Holes
  <2>3. CASE first' = Pkt /\ Processed' = Pkt
    <3>1. CASE heard'[1] = heard[1]
      BY <1>2, <2>1, <2>3, <3>1 DEF Holes
    <3>2. CASE heard'[1] # heard[1]
      <4>1. /\ Len(heard'[1]) = 1 /\ heard'[1][1] = Pkt
            /\ DOMAIN heard'[1] = {1}
        BY <1>1, <2>1, <3>2, FirstHears
      <4>2. Pkt \in Nat /\ Pkt > 0
        BY <1>0, <1>2
      <4> DEFINE q == Processed'
                 k == heard'[1]
      <4>3. q = Pkt /\ Len(k) = 1 /\ k[1] = Pkt /\ DOMAIN k = {1}
        BY <2>3, <4>1
      <4> HIDE DEF q, k
      <4>4. /\ Pkt <= q /\ Len(k) <= q - Pkt + 1
            /\ \A i \in DOMAIN k : /\ Pkt - 1 + i <= k[i]
                                  /\ k[i] <= q - Len(k) + i
        BY <4>2, <4>3
      <4> QED
        BY <2>3, <4>2, <4>4 DEF Holes, q, k
    <3> QED
      BY <3>1, <3>2
  <2> QED
    BY <1>4, <2>2, <2>3, FirstTaken
<1>5. CASE first # 0
  <2>1. first \in Nat /\ first' = first
    BY <1>5, FirstTaken
  <2>2. /\ first <= Processed /\ n <= Processed - first + 1
        /\ \A i \in 1..n : /\ first - 1 + i <= heard[1][i]
                           /\ heard[1][i] <= Processed - n + i
    BY <1>0, <1>1, <1>5 DEF Holes
  <2> DEFINE p == Processed
             q == Processed'
             h == heard[1]
             k == heard'[1]
  <2>3. CASE k = h
    <3>1. p \in Nat /\ q \in Nat /\ p <= q
      BY <1>2
    <3>2. /\ first <= p /\ n <= p - first + 1
          /\ \A i \in 1..n : h[i] \in Nat /\ first - 1 + i <= h[i]
                             /\ h[i] <= p - n + i
      BY <1>3, <2>2
    <3> HIDE DEF p, q, n, h
    <3>3. first <= q /\ n <= q - first + 1
      BY <1>1, <2>1, <3>1, <3>2
    <3>4. ASSUME NEW i \in 1..n
          PROVE  first - 1 + i <= h[i] /\ h[i] <= q - n + i
      BY <1>1, <2>1, <3>1, <3>2
    <3>5. DOMAIN h = 1..n /\ Len(h) = n
      BY <1>1 DEF n, h
    <3> QED
      BY <1>5, <2>1, <2>3, <3>3, <3>4, <3>5 DEF Holes, q, k
  <2>4. CASE k # h
    <3>1. /\ p \in Nat /\ q = p + 1 /\ q = Pkt
          /\ k = Append(h, Pkt) /\ Len(k) = n + 1 /\ k[n + 1] = Pkt
          /\ \A i \in 1..n : k[i] = h[i]
      BY <1>2, <2>4, FirstHears
    <3>2. /\ first <= p /\ n <= p - first + 1
          /\ \A i \in 1..n : h[i] \in Nat /\ first - 1 + i <= h[i]
                             /\ h[i] <= p - n + i
      BY <1>3, <2>2
    <3>3. DOMAIN k = 1..(n + 1)
      BY <1>1, <3>1
    <3> HIDE DEF p, q, n, h, k
    <3>4. first <= q /\ n + 1 <= q - first + 1
      BY <1>1, <2>1, <3>1, <3>2
    <3>5. ASSUME NEW i \in 1..n
          PROVE  first - 1 + i <= k[i] /\ k[i] <= q - (n + 1) + i
      BY <1>1, <2>1, <3>1, <3>2
    <3>6. /\ first - 1 + (n + 1) <= k[n + 1]
          /\ k[n + 1] <= q - (n + 1) + (n + 1)
      BY <1>1, <2>1, <3>1, <3>2
    <3>7. \A i \in 1..(n + 1) : i \in 1..n \/ i = n + 1
      BY <1>1
    <3> QED
      BY <1>5, <2>1, <3>1, <3>3, <3>4, <3>5, <3>6, <3>7 DEF Holes, q, k
  <2> QED
    BY <2>3, <2>4
<1> QED
  BY <1>4, <1>5

\* Nothing that is lost is found again.
LEMMA LostGrows ==
  ASSUME IInv, Next, FirstUse'
  PROVE  /\ Lost \in Nat /\ Lost' \in Nat /\ Lost <= Lost'
         /\ Lost * PktMs \in Nat /\ Lost' * PktMs \in Nat
         /\ Lost * PktMs <= Lost' * PktMs
<1>0. TypeOK /\ Holes /\ FirstUse /\ Holes' /\ pushed \in Nat
  BY QuietStep, HolesStep, Numbers, InputShape DEF IInv, TypeOK
<1>1. /\ Len(heard[1]) \in Nat
      /\ \/ heard'[1] = heard[1]
         \/ /\ Len(heard'[1]) = Len(heard[1]) + 1
            /\ SendAudio /\ Processed' = Pkt
  BY FirstHears
<1>2. /\ Processed \in Nat /\ Processed' \in Nat /\ Processed <= Processed'
      /\ SendAudio => Processed = pushed
      /\ Pkt = pushed + 1
  BY ProcessedGrows DEF Pkt
<1>3. first \in Nat /\ first' \in Nat /\ (first' = first \/ first = 0)
  BY <1>2, <1>0, FirstTaken
<1>4. Lost \in Nat
  BY <1>0, <1>1, <1>2, <1>3 DEF Lost, Holes
<1>5. Lost' \in Nat
  BY <1>0, <1>1, <1>2, <1>3 DEF Lost, Holes
<1>6. Lost <= Lost'
  <2>1. CASE first = 0
    BY <1>5, <2>1 DEF Lost
  <2>2. CASE first # 0
    <3> DEFINE n == Len(heard[1])
               m == Len(heard'[1])
               p == Processed
               q == Processed'
    <3>1. (m = n /\ p <= q) \/ (m = n + 1 /\ q = p + 1)
      BY <1>1, <1>2
    <3>2. n \in Nat /\ m \in Nat /\ p \in Nat /\ q \in Nat
      BY <1>1, <1>2
    <3>3. Lost = p - first + 1 - n /\ Lost' = q - first + 1 - m
      BY <1>3, <2>2 DEF Lost
    <3> HIDE DEF n, m, p, q
    <3> QED
      BY <1>3, <3>1, <3>2, <3>3
  <2> QED
    BY <2>1, <2>2
<1> QED
  BY <1>4, <1>5, <1>6, MoreMs

\* A time base that is near stays near.
LEMMA NearStays ==
  ASSUME IInv, Next, FirstUse', first' = first, first # 0
  PROVE  /\ \A b \in Nat : Near(b) => /\ Pts(first)' <= b
                                      /\ b <= Pts(first)' + Late'
         /\ Late \in Nat /\ Late' \in Nat /\ Late <= Late'
         /\ Pts(first)' = Pts(first) /\ Pts(first) \in Nat
<1>0. TypeOK /\ first \in Nat /\ PktMs \in Nat
  BY RelayAssumption DEF IInv, TypeOK
<1>1. input' = input
  BY <1>0, ByAction, ReaderEffect, SendCases, SessionEffect, ActorEffect
     DEF IInv
<1>2. Pts(first)' = Pts(first) /\ Pts(first) \in Nat
  BY <1>0, <1>1, PtsNat DEF Pts
<1> DEFINE l == Lost * PktMs
           m == Lost' * PktMs
<1>3. l \in Nat /\ m \in Nat /\ l <= m
  BY LostGrows
<1>4. /\ Late = IF input.pts = 0 THEN PktMs + l ELSE 0
      /\ Late' = IF input.pts = 0 THEN PktMs + m ELSE 0
  BY <1>1 DEF Late
<1> HIDE DEF l, m
<1>5. Late \in Nat /\ Late' \in Nat /\ Late <= Late'
  BY <1>0, <1>3, <1>4
<1> DEFINE x == Pts(first)
           y == Late
           z == Late'
<1>6. ASSUME NEW b \in Nat, Near(b)
      PROVE  x <= b /\ b <= x + z
  <2>1. x <= b /\ b <= x + y /\ x \in Nat
    BY <1>2, <1>6 DEF Near
  <2>2. y \in Nat /\ z \in Nat /\ y <= z
    BY <1>5
  <2> HIDE DEF x, y, z
  <2> QED
    BY <2>1, <2>2
<1> QED
  BY <1>2, <1>5, <1>6

LEMMA FirstBaseStep == IInv /\ Next => FirstBase'
<1> SUFFICES ASSUME IInv, Next, FirstUse'
             PROVE  FirstBase'
  BY DEF FirstBase
<1> DEFINE n == Len(heard[1])
<1>0. /\ TypeOK /\ Holes /\ Holes' /\ FirstBase /\ FirstUse /\ pushed \in Nat
      /\ PktMs \in Nat /\ PktMs > 0 /\ input.pts \in Nat
      /\ m_first_audio_pts \in Nat
  BY QuietStep, HolesStep, Numbers, InputShape DEF IInv, TypeOK
<1>1. /\ n \in Nat /\ first \in Nat /\ Pkt = pushed + 1 /\ Pkt \in Nat
  BY <1>0, FirstHears, FirstTaken DEF Pkt
<1>2. CASE SendAudio
  <2>1. /\ pc = "send" /\ pc' \in {"send", "test"} /\ pushed' = pushed
        /\ m_first_audio_pts' = m_first_audio_pts /\ Pkt' = Pkt
        /\ first = 0 /\ first' = 0 /\ pc' = "test" => ~sent'
    BY <1>2, FirstTaken DEF Pkt
  <2>2. CASE first = 0
    <3>1. n = 0 /\ m_first_audio_pts = 0
      BY <1>0, <2>2 DEF Holes, FirstBase
    <3>2. Len(heard'[1]) <= 1
      BY <3>1, FirstHears
    <3>3. CASE first' = 0
      BY <2>1, <2>2, <3>1, <3>2, <3>3 DEF FirstBase
    <3>4. CASE first' = Pkt /\ sent' /\ pc' = "test"
      BY <1>0, <1>1, <2>1, <3>1, <3>2, <3>4 DEF FirstBase, Unset
    <3>5. first' = 0 \/ (first' = Pkt /\ sent' /\ pc' = "test")
      BY <1>0, <1>1, <1>2, <2>2, FirstTaken, SendCases DEF IInv
    <3> QED
      BY <3>3, <3>4, <3>5
  <2>3. CASE first # 0
    <3>1. first' = first /\ Near(m_first_audio_pts)
      BY <1>0, <2>1, <2>3, FirstTaken DEF FirstBase, Unset
    <3>2. Near(m_first_audio_pts)'
      BY <1>0, <2>1, <2>3, <3>1, NearStays DEF Near
    <3>3. m_first_audio_pts = 0 => n <= 1
      BY <1>0, <2>1 DEF FirstBase
    <3>4. first' # Pkt'
      BY <1>0, <1>1, <2>1, <2>3, <3>1 DEF Holes, Processed
    <3>5. m_first_audio_pts' = 0 =>
            Len(heard'[1]) <= IF pc' = "test" /\ sent' THEN 2 ELSE 1
      <4>1. CASE heard'[1] = heard[1]
        BY <1>1, <2>1, <3>3, <4>1
      <4>2. CASE heard'[1] # heard[1]
        <5>1. sent' /\ pc' = "test" /\ Len(heard'[1]) = n + 1
          BY <1>0, <1>2, <4>2, FirstHears, SendCases DEF IInv
        <5> QED
          BY <1>1, <2>1, <3>3, <5>1
      <4> QED
        BY <4>1, <4>2
    <3> QED
      BY <2>3, <3>1, <3>2, <3>4, <3>5 DEF FirstBase
  <2> QED
    BY <2>2, <2>3
<1>3. CASE SetBase
  <2>1. /\ pc = "test" /\ pc' = "push" /\ pushed' = pushed /\ sent' = sent
        /\ first' = first /\ heard' = heard /\ input' = input
        /\ m_first_audio_pts' = IF m_first_audio_pts = 0 /\ sent
                                THEN Pts(Pkt) ELSE m_first_audio_pts
    BY <1>3 DEF SetBase, readerVars, bufferVars
  <2>2. CASE first = 0
    <3>1. ~sent /\ m_first_audio_pts = 0
      BY <1>0, <2>1, <2>2 DEF FirstBase
    <3>2. n = 0
      BY <1>0, <2>2 DEF Holes
    <3> QED
      BY <2>1, <2>2, <3>1, <3>2 DEF FirstBase
  <2>3. CASE first # 0 /\ m_first_audio_pts' = m_first_audio_pts
             /\ ~(m_first_audio_pts = 0 /\ sent)
    <3>1. Near(m_first_audio_pts)
      BY <1>0, <2>3 DEF FirstBase, Unset
    <3>2. Near(m_first_audio_pts)'
      BY <1>0, <2>1, <2>3, <3>1, NearStays DEF Near
    <3>3. m_first_audio_pts = 0 => n <= 1
      BY <1>0, <2>3 DEF FirstBase
    <3> QED
      BY <2>1, <2>3, <3>2, <3>3 DEF FirstBase
  <2>4. CASE first # 0 /\ m_first_audio_pts = 0 /\ sent
    <3>1. m_first_audio_pts' = Pts(Pkt)
      BY <2>1, <2>4
    <3>2. /\ first <= Pkt /\ n <= Pkt - first + 1
      BY <1>0, <2>1, <2>4, <1>1 DEF Holes, Processed
    <3>3. Pts(first) \in Nat /\ Pts(Pkt) \in Nat
      BY <1>0, <1>1, <2>4, PtsNat
    <3>4. Pts(Pkt) = 0 => n <= 1
      <4>1. SUFFICES ASSUME Pts(Pkt) = 0 PROVE n <= 1
        OBVIOUS
      <4>2. (Pkt - 1) * PktMs = 0
        <5> DEFINE x == (Pkt - 1) * PktMs
        <5>1. x \in Nat /\ input.pts + x = 0
          BY <1>0, <1>1, <4>1 DEF Pts
        <5> HIDE DEF x
        <5>2. x = 0
          BY <1>0, <5>1
        <5> QED
          BY <5>2 DEF x
      <4>3. Pkt = 1
        BY <1>0, <1>1, <4>2
      <4> QED
        BY <1>1, <2>4, <3>2, <4>3
    <3>5. Near(m_first_audio_pts)'
      <4>1. CASE first = Pkt
        BY <2>1, <2>4, <3>1, <3>3, <4>1, NearStays DEF Near
      <4>2. CASE first # Pkt
        <5>1. Near(0) /\ n <= 2
          BY <1>0, <2>1, <2>4, <4>2 DEF FirstBase, Unset
        <5>2. Pts(first) = 0
          BY <3>3, <5>1 DEF Near
        <5>3. input.pts = 0
          <6>1. (first - 1) * PktMs \in Nat
            BY <1>0, <1>1, <2>4
          <6> DEFINE x == (first - 1) * PktMs
          <6>2. input.pts + x = 0 /\ x \in Nat
            BY <5>2, <6>1 DEF Pts
          <6> HIDE DEF x
          <6> QED
            BY <1>0, <6>2
        <5>4. first = 1
          <6>1. (first - 1) * PktMs = 0
            BY <1>0, <1>1, <5>2, <5>3 DEF Pts
          <6> QED
            BY <1>0, <1>1, <2>4, <6>1
        <5>5. Lost = Pkt - n
          BY <1>1, <2>1, <5>4 DEF Lost, Processed
        <5>6. Lost \in Nat /\ Pkt - 1 <= Lost + 1
          BY <1>1, <5>1, <5>5, LostGrows
        <5>7. (Pkt - 1) * PktMs <= (Lost + 1) * PktMs
          BY <1>0, <1>1, <5>6, MoreMs
        <5>8. (Lost + 1) * PktMs = PktMs + Lost * PktMs
          BY <1>0, <5>6
        <5>9. Pts(Pkt) = (Pkt - 1) * PktMs
          BY <1>0, <1>1, <5>3 DEF Pts
        <5>10. Pts(Pkt) <= Late
          BY <5>3, <5>7, <5>8, <5>9 DEF Late
        <5>11. Late \in Nat /\ Late' \in Nat /\ Late <= Late'
               /\ Pts(first)' = Pts(first)
          BY <2>1, <2>4, NearStays
        <5>12. 0 <= Pts(Pkt) /\ Pts(Pkt) <= Late'
          BY <3>3, <5>10, <5>11
        <5> QED
          BY <3>1, <5>2, <5>11, <5>12 DEF Near
      <4> QED
        BY <4>1, <4>2
    <3> QED
      BY <2>1, <2>4, <3>1, <3>4, <3>5 DEF FirstBase
  <2> QED
    BY <2>1, <2>2, <2>3, <2>4
<1>4. CASE ~SendAudio /\ ~SetBase
  <2>1. /\ heard' = heard /\ first' = first
        /\ m_first_audio_pts' = m_first_audio_pts
        /\ \/ pc' = pc /\ pushed' = pushed /\ sent' = sent
           \/ pc' # "test" /\ pc # "test"
    BY <1>4, QuietStep, ReaderEffect DEF ReadFrame, PushAudio
  <2>2. ~(pc = "test" /\ sent) => ~(pc' = "test" /\ sent')
    BY <2>1
  <2>3. CASE first = 0
    BY <1>0, <2>1, <2>2, <2>3 DEF FirstBase, Pkt, Holes
  <2>4. CASE first # 0
    <3>1. Near(m_first_audio_pts) => Near(m_first_audio_pts)'
      BY <1>0, <2>1, <2>4, NearStays DEF Near
    <3>2. Unset => Unset'
      BY <2>1 DEF Unset, Pkt
    <3>3. m_first_audio_pts' = 0 =>
            Len(heard'[1]) <= IF pc' = "test" /\ sent' /\ first' # Pkt'
                              THEN 2 ELSE 1
      BY <1>0, <2>1 DEF FirstBase, Pkt
    <3> QED
      BY <1>0, <2>1, <2>4, <3>1, <3>2, <3>3 DEF FirstBase
  <2> QED
    BY <2>3, <2>4
<1> QED
  BY <1>2, <1>3, <1>4

\* While the first session is in use nobody else has said a word.
LEMMA FirstSpeaks ==
  ASSUME TypeOK, Order, Word, FirstUse,
         NEW a \in Actor, call[a].at \in InSentence
  PROVE  /\ call[a].s = 1 /\ 1 \in Session /\ heard[1] \in Seq(Packet)
         /\ call[a].word \in 1..(Len(heard[1]) - 1)
         /\ heard[1][call[a].word] \in reported
<1>1. call[a].s \in Session /\ 1 \in Session
  BY RelayAssumption DEF TypeOK, Calls, Session
<1>2. /\ call[a].word \in 1..(Len(heard[call[a].s]) - 1)
      /\ heard[call[a].s][call[a].word] \in reported
  BY DEF Word
<1>3. heard[call[a].s] \in Seq(Packet)
  BY <1>1 DEF TypeOK
<1>4. heard[call[a].s] # <<>>
  BY <1>2, <1>3
<1>5. created = 1
  BY DEF FirstUse, TypeOK, Null
<1>6. call[a].s = 1
  BY <1>1, <1>4, <1>5 DEF Order, Session
<1> QED
  BY <1>1, <1>2, <1>3, <1>6

\* The callbacks' own part of a step in which the first session is in use.
LEMMA QuietCalls ==
  ASSUME IInv, Next, FirstUse',
         NEW a \in Actor, call'[a].at \in {"replace", "locked"}
  PROVE  \/ /\ call[a].at \in {"replace", "locked"}
            /\ call'[a].base = call[a].base
         \/ /\ call[a].at = "getTimeBase"
            /\ call'[a].base = m_first_audio_pts
<1>0. TypeOK /\ Place
  BY DEF IInv
<1>1. CASE ReadFrame \/ SetBase \/ PushAudio
  BY <1>1, ReaderEffect
<1>2. CASE SendAudio
  BY <1>0, <1>2, SendCases, Told, Actors
<1>3. CASE \E s \in Session : SessionSteps(s)
  <2>1. PICK s \in Session : SessionSteps(s)
    BY <1>3
  <2>2. CASE call' = call
    BY <2>2
  <2>3. CASE thread[s] \in Worker
             /\ \E e \in {"TaskFailed", "Close"} : Tells(thread[s], e, s)
    BY <1>0, <2>3, Told, Actors
  <2>4. CASE \E i \in 1..(Len(heard[s]) - 1) :
               call' = [call EXCEPT ![thread[s]] =
                          [NoCall EXCEPT !.at = "sendSentence",
                                         !.s = s, !.word = i]]
    <3>1. PICK i \in 1..(Len(heard[s]) - 1) :
               call' = [call EXCEPT ![thread[s]] =
                          [NoCall EXCEPT !.at = "sendSentence",
                                         !.s = s, !.word = i]]
      BY <2>4
    <3> DEFINE c == [NoCall EXCEPT !.at = "sendSentence", !.s = s, !.word = i]
    <3>2. c.at = "sendSentence"
      BY DEF NoCall
    <3>3. call' = [call EXCEPT ![thread[s]] = c]
      BY <3>1
    <3> HIDE DEF c
    <3>4. call'[a] = c \/ call'[a] = call[a]
      BY <1>0, <3>3 DEF TypeOK
    <3> QED
      BY <3>2, <3>4
  <2> QED
    BY <2>1, <2>2, <2>3, <2>4, SessionEffect
<1>4. CASE \E b \in Actor : RpcReturns(b) \/ getTimeBase(b)
                              \/ LockBuffer(b) \/ replaceAudioPacket(b)
  <2>1. PICK b \in Actor : RpcReturns(b) \/ getTimeBase(b) \/ LockBuffer(b)
                             \/ replaceAudioPacket(b)
    BY <1>4
  <2>2. CASE a # b
    BY <2>1, <2>2, ActorEffect DEF ActorSteps
  <2>3. CASE a = b /\ getTimeBase(a)
    <3>1. call \in [Actor -> Calls] /\ call[a] \in Calls
      BY <1>0 DEF TypeOK
    <3> QED
      BY <2>3, <3>1 DEF getTimeBase, Calls
  <2>4. CASE a = b /\ ~getTimeBase(a)
    <3>1. PICK step \in CallSteps :
            /\ Goes(a, step)
            /\ step \in {"replace", "locked"} => call[a].at = "replace"
      BY <2>1, <2>4 DEF RpcReturns, LockBuffer, replaceAudioPacket,
         CallSteps, InSentence
    <3> QED
      BY <1>0, <3>1, GoesOn
  <2> QED
    BY <2>1, <2>2, <2>3, <2>4
<1> QED
  BY <1>1, <1>2, <1>3, <1>4, QuietStep

LEMMA FirstWordStep == IInv /\ Next => FirstWord'
<1> SUFFICES ASSUME IInv, Next, FirstUse',
                    NEW a \in Actor, call'[a].at \in {"replace", "locked"}
             PROVE  first' # 0 /\ Near(call[a].base)'
  BY DEF FirstWord
<1>0. /\ TypeOK /\ Holes /\ FirstBase /\ FirstWord /\ FirstUse /\ Word
      /\ Order /\ first \in Nat /\ call[a] \in Calls
      /\ m_first_audio_pts \in Nat /\ call[a].base \in Nat
  BY QuietStep, FirstTaken DEF IInv, TypeOK, Calls
<1>1. first # 0 => first' = first
  BY FirstTaken
<1>2. CASE call[a].at \in {"replace", "locked"}
             /\ call'[a].base = call[a].base
  <2>1. first # 0 /\ Near(call[a].base)
    BY <1>0, <1>2 DEF FirstWord
  <2> QED
    BY <1>0, <1>1, <1>2, <2>1, NearStays DEF Near
<1>3. CASE call[a].at = "getTimeBase"
             /\ call'[a].base = m_first_audio_pts
  <2>1. /\ call[a].word \in 1..(Len(heard[1]) - 1)
        /\ heard[1] \in Seq(Packet)
    BY <1>0, <1>3, FirstSpeaks DEF InSentence
  <2>2. Len(heard[1]) >= 2 /\ Len(heard[1]) \in Nat
    BY <2>1
  <2>3. first # 0
    BY <1>0, <2>2 DEF Holes
  <2>4. ~Unset
    <3>1. Len(heard[1]) <= Processed - first + 1
      BY <1>0, <2>3 DEF Holes
    <3>2. Unset => Processed = first
      BY DEF Unset, Processed, Pkt
    <3> QED
      BY <1>0, <2>2, <3>1, <3>2
  <2>5. Near(m_first_audio_pts)
    BY <1>0, <2>3, <2>4 DEF FirstBase
  <2> QED
    BY <1>0, <1>1, <1>3, <2>3, <2>5, NearStays DEF Near
<1> QED
  BY <1>2, <1>3, QuietCalls

\* Where a word is in the stream, and where the window for it is.
LEMMA WindowIsRight ==
  ASSUME IInv, FirstUse, ~mended[1], Lost \in Nat, Lost * PktMs \in Nat,
         NEW a \in Actor, call[a].at = "locked",
         NEW w, w = heard[1][call[a].word],
         NEW k \in Packet
  PROVE  /\ w \in Packet
         /\ k \in Window(a, 0) =>
              /\ Pts(w) - Margin - Lost * PktMs <= Pts(k)
              /\ Pts(k) <= Pts(w) + PktMs
                             + (IF input.pts = 0 THEN (1 + Lost) * PktMs
                                ELSE 0)
         /\ (w \in (written + 1)..pushed /\ Lost <= 1) => w \in Window(a, 0)
<1> DEFINE i == call[a].word
           n == Len(heard[1])
           p == Pts(first)
           b == call[a].base
           j == w - (first - 1 + i)
           x == (i - 1) * PktMs
           y == j * PktMs
           z == Lost * PktMs
           e == IF input.pts = 0 THEN (1 + Lost) * PktMs ELSE 0
<1>0. TypeOK /\ Holes /\ Order /\ Word /\ FirstWord
  BY DEF IInv
<1>1. /\ i \in 1..(n - 1) /\ heard[1] \in Seq(Packet) /\ 1 \in Session
  BY <1>0, FirstSpeaks DEF InSentence
<1>2. /\ n \in Nat /\ i \in Nat /\ i >= 1 /\ i \in DOMAIN heard[1]
      /\ first \in Nat /\ w \in Packet /\ w \in Nat
      /\ PktMs \in Nat /\ PktMs <= 100 /\ input.pts \in Nat
      /\ b \in Nat
  <2>1. n \in Nat /\ i \in Nat /\ i >= 1 /\ i \in DOMAIN heard[1]
    BY <1>1
  <2>2. w \in Packet /\ w \in Nat
    BY <1>0, <1>1, <2>1, HeardNat
  <2>3. first \in Nat /\ input.pts \in Nat /\ b \in Nat
    BY <1>0, Numbers, InputShape DEF TypeOK, Calls
  <2> QED
    BY <2>1, <2>2, <2>3, Numbers
<1>3. first # 0 /\ Near(b)
  BY <1>0 DEF FirstWord
<1>4. /\ first - 1 + i <= w
      /\ w <= Processed - n + i
  BY <1>0, <1>2, <1>3 DEF Holes
<1>5. Lost = Processed - first + 1 - n
  BY <1>3 DEF Lost
<1>6. Processed \in Nat
  BY <1>0, RelayAssumption DEF Processed, TypeOK
<1>7. j \in Nat /\ j <= Lost /\ w = (first + (i - 1)) + j
  <2> DEFINE q == Processed
  <2>1. /\ q \in Nat /\ first - 1 + i <= w /\ w <= q - n + i
        /\ Lost = q - first + 1 - n
    BY <1>4, <1>5, <1>6
  <2>2. first \in Nat /\ i \in Nat /\ n \in Nat /\ w \in Nat
    BY <1>2
  <2> HIDE DEF q, i, n
  <2> QED
    BY <2>1, <2>2
<1>8. y \in Nat /\ y <= z
  BY <1>7, MoreMs
<1>9. i - 1 \in Nat /\ x \in Nat
  <2>1. i - 1 \in Nat
    BY <1>2
  <2> HIDE DEF i
  <2> QED
    BY <1>2, <2>1
<1>10. Pts(w) = p + x + y /\ p \in Nat
  <2>1. Pts(first + (i - 1)) = p + x
    BY <1>0, <1>2, <1>9, PtsLater
  <2>2. first + (i - 1) \in Nat
    BY <1>2
  <2>3. Pts((first + (i - 1)) + j) = Pts(first + (i - 1)) + y
    BY <1>0, <1>7, <2>2, PtsLater
  <2>4. p \in Nat
    BY <1>0, <1>2, <1>3, PtsNat
  <2> QED
    BY <1>7, <2>1, <2>3, <2>4
<1>11. e \in Nat /\ p <= b /\ b <= p + e
  <2>1. (1 + Lost) * PktMs = PktMs + z
    BY <1>2
  <2>2. e = Late
    BY <2>1 DEF Late
  <2>3. p <= b /\ b <= p + Late
    BY <1>3 DEF Near
  <2>4. PktMs + z \in Nat
    BY <1>2
  <2> QED
    BY <2>1, <2>2, <2>3, <2>4
<1>12. Lost <= 1 => z <= 100 /\ e <= 200
  <2>1. SUFFICES ASSUME Lost <= 1 PROVE z <= 100 /\ e <= 200
    OBVIOUS
  <2>2. z <= 1 * PktMs /\ (1 + Lost) * PktMs <= 2 * PktMs
    BY <2>1, MoreMs
  <2> QED
    BY <1>2, <2>2
<1>13. Pts(k) \in Nat
  <2>1. k \in Nat /\ k >= 1
    BY RelayAssumption DEF Packet
  <2> QED
    BY <1>0, <2>1, PtsNat
<1>14. /\ (call[a].word + 0 - 1) * PktMs = x
       /\ (call[a].word + 0) * PktMs = x + PktMs
  BY <1>2
<1>15. z \in Nat
  OBVIOUS
<1>16. /\ k \in Window(a, 0) => /\ b + x - Margin <= Pts(k)
                                /\ Pts(k) <= b + (x + PktMs)
       /\ (/\ w \in (written + 1)..pushed
           /\ b + x - Margin <= Pts(w)
           /\ Pts(w) <= b + (x + PktMs))
            => w \in Window(a, 0)
  BY <1>14 DEF Window
<1> DEFINE u == Pts(w)
           v == Pts(k)
<1>17. ASSUME k \in Window(a, 0)
       PROVE  u - Margin - z <= v /\ v <= u + PktMs + e
  <2>1. b + x - Margin <= v /\ v <= b + (x + PktMs)
    BY <1>16, <1>17
  <2>2. u = p + x + y /\ p \in Nat /\ v \in Nat
    BY <1>10, <1>13
  <2> HIDE DEF i, n, p, b, j, x, y, z, e, u, v
  <2> QED
    BY <1>2, <1>8, <1>9, <1>11, <1>15, <2>1, <2>2 DEF Margin
<1>18. ASSUME Lost <= 1
       PROVE  b + x - Margin <= u /\ u <= b + (x + PktMs)
  <2>1. u = p + x + y /\ p \in Nat /\ z <= PktMs
    BY <1>2, <1>10, <1>18, MoreMs
  <2>2. e <= 200
    BY <1>12, <1>18
  <2> HIDE DEF i, n, p, b, j, x, y, z, e, u, v
  <2> QED
    BY <1>2, <1>8, <1>9, <1>11, <1>15, <2>1, <2>2 DEF Margin
<1> QED
  BY <1>2, <1>16, <1>17, <1>18

\* replaceAudioPacket apart, nothing is muted or missed.
LEMMA OnlyReplaces ==
  ASSUME IInv, Next
  PROVE  /\ reported \subseteq reported' /\ input' = input
         /\ \/ UNCHANGED <<muted, missed>>
            \/ \E a \in Actor : /\ replaceAudioPacket(a)
                                /\ UNCHANGED <<reported, first, heard, pc,
                                               pushed>>
<1>0. TypeOK /\ Place
  BY DEF IInv
<1>1. CASE ReadFrame \/ SetBase \/ PushAudio
  BY <1>1, ReaderEffect
<1>2. CASE SendAudio
  BY <1>0, <1>2, SendCases
<1>3. CASE \E s \in Session : SessionSteps(s)
  BY <1>3, SessionEffect
<1>4. CASE \E a \in Actor : ActorSteps(a)
  <2>1. PICK a \in Actor : ActorSteps(a)
    BY <1>4
  <2>2. CASE replaceAudioPacket(a)
    <3>1. UNCHANGED <<reported, first, heard, pc, pushed, input>>
      BY <2>2 DEF replaceAudioPacket, readerVars, bufferVars
    <3> QED
      BY <2>2, <3>1
  <2>3. CASE UNCHANGED <<muted, missed>>
    BY <2>1, <2>3, ActorEffect
  <2> QED
    BY <2>1, <2>2, <2>3, ActorEffect
<1> QED
  BY <1>1, <1>2, <1>3, <1>4, ByAction

LEMMA MuteStep == IInv /\ Next => MutedInTime' /\ OnlyAround'
<1> SUFFICES ASSUME IInv, Next, FirstUse', ~mended'[1]
             PROVE  /\ Lost' <= 1 => missed' = {}
                    /\ OnlyAround'
  BY DEF MutedInTime, OnlyAround
<1>0. /\ TypeOK /\ FirstUse /\ ~mended[1] /\ MutedInTime /\ OnlyAround
      /\ Order /\ Word /\ TypeOK'
  BY QuietStep, TypeStep DEF IInv
<1>1. /\ Lost \in Nat /\ Lost' \in Nat /\ Lost <= Lost'
      /\ Lost * PktMs \in Nat /\ Lost' * PktMs \in Nat
      /\ Lost * PktMs <= Lost' * PktMs
      /\ PktMs \in Nat
  BY LostGrows, RelayAssumption
<1>2. \A k : Pts(k)' = Pts(k)
  BY OnlyReplaces DEF Pts
<1> DEFINE Around(w, k, l, m) ==
             /\ Pts(w) - Margin - l <= Pts(k)
             /\ Pts(k) <= Pts(w) + PktMs
                            + (IF input.pts = 0 THEN m ELSE 0)
<1>3. \A k \in muted : \E w \in reported :
         Around(w, k, Lost * PktMs, (1 + Lost) * PktMs)
  BY <1>0 DEF OnlyAround
<1>4. ASSUME NEW k \in muted
      PROVE  \E w \in reported' :
               Around(w, k, Lost' * PktMs, (1 + Lost') * PktMs)
  <2>1. PICK w \in reported : Around(w, k, Lost * PktMs, (1 + Lost) * PktMs)
    BY <1>3, <1>4
  <2>2. w \in Nat /\ w >= 1 /\ k \in Nat /\ k >= 1
    BY <1>0, <1>4, RelayAssumption DEF TypeOK
  <2>3. Pts(w) \in Nat /\ Pts(k) \in Nat
    BY <1>0, <2>2, PtsNat
  <2> DEFINE u == Pts(w)
             v == Pts(k)
             l == Lost * PktMs
             m == Lost' * PktMs
             c == (1 + Lost) * PktMs
             d == (1 + Lost') * PktMs
  <2>4. c = PktMs + l /\ d = PktMs + m
    BY <1>1
  <2>5. l \in Nat /\ m \in Nat /\ l <= m /\ PktMs \in Nat
    BY <1>1
  <2>6. /\ u - Margin - l <= v
        /\ v <= u + PktMs + (IF input.pts = 0 THEN c ELSE 0)
    BY <2>1
  <2>7. u \in Nat /\ v \in Nat
    BY <2>3
  <2> HIDE DEF u, v, l, m, c, d
  <2>8. /\ u - Margin - m <= v
        /\ v <= u + PktMs + (IF input.pts = 0 THEN d ELSE 0)
    BY <2>4, <2>5, <2>6, <2>7 DEF Margin
  <2> QED
    BY <2>8, OnlyReplaces DEF u, v, m, d
<1>5. CASE UNCHANGED <<muted, missed>>
  <2>1. Lost' <= 1 => missed' = {}
    BY <1>0, <1>1, <1>5 DEF MutedInTime
  <2>2. \A k \in muted' : \E w \in reported' :
          Around(w, k, Lost' * PktMs, (1 + Lost') * PktMs)
    BY <1>4, <1>5
  <2> QED
    BY <1>2, <2>1, <2>2, OnlyReplaces DEF OnlyAround
<1>6. CASE \E a \in Actor : replaceAudioPacket(a)
                             /\ UNCHANGED <<reported, first, heard, pc, pushed>>
  <2>1. PICK a \in Actor : replaceAudioPacket(a)
                             /\ UNCHANGED <<reported, first, heard, pc, pushed>>
    BY <1>6
  <2>2. call[a].at = "locked" /\ call[a].s = 1
    BY <1>0, <2>1, FirstSpeaks DEF replaceAudioPacket, InSentence
  <2> DEFINE w == heard[1][call[a].word]
  <2>3. /\ muted' = muted \cup Window(a, 0)
        /\ missed' = missed \cup
             ({w} \cap (((written + 1)..pushed) \ muted'))
    BY <1>0, <2>1, <2>2 DEF replaceAudioPacket, Drift
  <2>4. w \in reported
    BY <1>0, <2>2, FirstSpeaks DEF InSentence
  <2>5. Lost' = Lost
    BY <2>1 DEF Lost, Processed
  <2>6. w \in Packet
    BY <1>0, <2>4, RelayAssumption DEF TypeOK, Packet
  <2>7. Lost' <= 1 => missed' = {}
    <3>1. (w \in (written + 1)..pushed /\ Lost <= 1) => w \in Window(a, 0)
      BY <1>0, <1>1, <2>2, <2>6, WindowIsRight
    <3> QED
      BY <1>0, <2>3, <2>5, <3>1 DEF MutedInTime
  <2>8. \A k \in Window(a, 0) :
          Around(w, k, Lost * PktMs, (1 + Lost) * PktMs)
    <3>1. Window(a, 0) \subseteq Packet
      <4>1. Window(a, 0) \subseteq (written + 1)..pushed
        BY DEF Window
      <4>2. (written + 1)..pushed \subseteq Packet
        BY <1>0, RelayAssumption DEF TypeOK, Packet
      <4> QED
        BY <4>1, <4>2
    <3> QED
      BY <1>0, <1>1, <2>2, <3>1, WindowIsRight
  <2>9. \A k \in muted' : \E x \in reported' :
          Around(x, k, Lost' * PktMs, (1 + Lost') * PktMs)
    BY <1>4, <2>1, <2>3, <2>4, <2>5, <2>8
  <2> QED
    BY <1>2, <2>7, <2>9, OnlyReplaces DEF OnlyAround
<1> QED
  BY <1>5, <1>6, OnlyReplaces

LEMMA NextInv == IInv /\ [Next]_vars => IInv'
<1> SUFFICES ASSUME IInv, [Next]_vars PROVE IInv'
  OBVIOUS
<1>1. CASE Next
  BY <1>1, TypeStep, PlaceStep, WordStep, OrderStep, BehindStep, InOrderStep,
     AloneStep, HolesStep, FirstBaseStep, FirstWordStep, MuteStep DEF IInv
<1>2. CASE UNCHANGED vars
  <2> USE <1>2 DEF vars, requestVars, sessionVars, readerVars, bufferVars,
          muteVars
  <2>1. TypeOK' /\ Place' /\ Word' /\ Order'
    BY DEF IInv, TypeOK, Place, Word, Order
  <2>2. Behind' /\ InOrder' /\ Alone'
    BY DEF IInv, Behind, Processed, InOrder, Alone
  <2>3. Holes' /\ FirstBase' /\ FirstWord'
    BY DEF IInv, Holes, FirstBase, FirstWord, FirstUse, Processed, Unset, Near,
           Late, Lost, Pts, Pkt
  <2>4. MutedInTime' /\ OnlyAround'
    BY DEF IInv, MutedInTime, OnlyAround, FirstUse, Lost, Processed, Pts
  <2> QED
    BY <2>1, <2>2, <2>3, <2>4 DEF IInv
<1> QED
  BY <1>1, <1>2

-----------------------------------------------------------------------------
(* The theorems. *)

LEMMA Invariance == Spec => []IInv
<1>1. Init => IInv
  BY InitInv
<1>2. IInv /\ [Next]_vars => IInv'
  BY NextInv
<1> QED
  BY <1>1, <1>2, PTL DEF Spec

\* Type correctness: whatever fails, and however the restarts of several
\* sessions interleave, every request is dealt to a work thread that exists,
\* and the reader's copy of m_request is a request or NULL.
THEOREM TypeCorrect == Spec => []TypeOK
<1>1. IInv => TypeOK
  BY DEF IInv
<1> QED
  BY <1>1, Invariance, PTL

\* For every number of sessions, threads and faults: what a session hears is
\* a subsequence of the stream, and the sessions hear it one after the other,
\* although m_request is replaced by any thread and a send may be refused,
\* lost, hidden or answered by a callback on the reader's own thread.
THEOREM SessionsInOrder == Spec => []InOrder
<1>1. IInv => InOrder
  BY DEF IInv
<1> QED
  BY <1>1, Invariance, PTL

\* For every packet length from a frame's to half of replaceAudioPacket's
\* margin, every delay, input and interleaving: while the first session is in
\* use and not mended, a bad word reported while its packet is in the buffer is
\* muted, if at most one packet was lost of those from the first that sendAudio
\* said it took.
THEOREM FirstSessionMutes == Spec => []MutedInTime
<1>1. IInv => MutedInTime
  BY DEF IInv
<1> QED
  BY <1>1, Invariance, PTL

\* However many packets are lost: while the first session is in use and not
\* mended, what replaceAudioPacket silences is within its margin of a reported
\* word, but for the length of what was lost.
THEOREM FirstSessionSpares == Spec => []OnlyAround
<1>1. IInv => OnlyAround
  BY DEF IInv
<1> QED
  BY <1>1, Invariance, PTL
=============================================================================
