------------------------------- MODULE Relay -------------------------------
(***************************************************************************)
(* The relay around its delay buffer: the reader of Relayer::startProcess, *)
(* which sends the audio to the speech recogniser and then pushes it, and  *)
(* the callbacks of class Asr, which mute what the recogniser reports and  *)
(* start a new recognition when one fails or is closed.                    *)
(*                                                                         *)
(* A session is one SpeechTranscriberRequest with its connection; they are *)
(* numbered in the order in which m_request gets them, and none is ever    *)
(* released. The callbacks run on real threads: those of a session on the  *)
(* work thread it was dealt to, and, when a send of the reader fails, also *)
(* on the reader's own thread, which then starts the new session itself.   *)
(*                                                                         *)
(* Of the SDK the module keeps what sendAudio, start and the callbacks let *)
(* the relay see: the status of a session, whether the SDK says that it is *)
(* reconnecting (recon), and the mutex that NlsEventNetWork::start holds   *)
(* while it waits. How connections fail and are mended is module Node. The *)
(* two events of a failure, TaskFailed and Close, are both told or both    *)
(* hidden here. A packet is heard whole or not at all. Video is left out,  *)
(* and of the delay buffer only its guarantee for audio is kept (AudioLead *)
(* in Delayer): a packet leaves when more than Lead ms followed it.        *)
(***************************************************************************)
EXTENDS Integers, Sequences, FiniteSets

CONSTANTS PktMs,        \* ms of audio in a packet
          Inputs,       \* the ways the outside may go: the first packet's
                        \* presentation time, how many packets there are, and
                        \* how many faults of the network, the recogniser and
                        \* of the creation of requests there may be
          Lead,         \* ms of audio that must follow a packet for it to go
          SilenceMs,    \* m_max_sentence_silence_ms
          Threads,      \* the number of work threads of the SDK
          Bad,          \* the packets with a word of the dictionary in them
          MaxPackets,   \* bound: packets in the input
          MaxFailures,  \* bound: faults
          MaxSessions,  \* bound: requests in all
          MaxDrift      \* bound: packets by which the clock of a session
                        \* that was mended is off

\* replaceAudioPacket begins this much before the word.
Margin == 200

\* A packet is no shorter than a frame of the SDK's encoder, 20 ms, so that
\* sendAudio returns more than 0 for the first one too.
ASSUME RelayAssumption ==
  /\ PktMs \in 20..100
  /\ Inputs \subseteq [pts : Nat, packets : 0..MaxPackets,
                        faults : 0..MaxFailures]
  /\ Lead \in Nat
  /\ SilenceMs \in Nat
  /\ SilenceMs > 0
  /\ Threads \in Nat \ {0}
  /\ MaxPackets \in Nat
  /\ MaxFailures \in Nat
  /\ MaxSessions \in Nat \ {0}
  /\ Bad \subseteq 1..MaxPackets
  /\ MaxDrift \in Nat

Packet == 1..MaxPackets

Session == 1..MaxSessions

\* m_request is NULL.
Null == 0

\* The work threads, and the reader's.
Worker == 0..(Threads - 1)
Main == Threads
Actor == Worker \cup {Main}

\* A request before start, asked for, in use, between two connections of the
\* SDK's own, left for good by the SDK, failed, and closed.
NodeStatus == {"none", "created", "starting", "started", "mending", "silent",
               "failed", "closed"}

\* What the callback of a thread is at: the steps of onSentenceEnd, those of
\* onTaskFailed and onChannelClosed, and "closing" between the two.
InSentence == {"sendSentence", "getTimeBase", "replace", "locked",
               "sendHitWord"}
InRestart == {"begin", "created", "lock", "wait", "done"}
CallSteps == {"none", "closing"} \cup InSentence \cup InRestart

\* at    the step of the callback
\* ev    the event it is told of
\* s     the session that tells it
\* r     the request that a restart starts
\* word  the place of the word in what the session heard
\* base  the time base that was read
Calls == [at : CallSteps, ev : {"Sentence", "TaskFailed", "Close"},
          s : Session, r : 0..MaxSessions, word : Nat, base : Nat]

\* input      which of Inputs it is
\* created    how many requests there have been
\* node, recon, mended, thread  for each session its status, whether its
\*            _reconnection.state is other than NoReconnection, whether it
\*            ever was on a second connection, and its work thread or -1
\* next       the thread that is dealt next
\* call       for each thread its callback
\* heard      for each session the packets that it took, in order
\* pc, req, sent  the reader's place, and its copy of m_request, and whether
\*            sendAudio returned more than 0
\* first      the first packet for which it did, or 0
\* pushed, written  how many packets the delay buffer got and gave
\* muted      the packets replaced by silence
\* reported, missed  the bad packets that the recogniser reported, and those
\*            that were still in the buffer and left as they were
\* crashed    a member of NULL was used
VARIABLES input, m_request, m_first_audio_pts, created, failures,
          node, recon, mended, thread, next, call, heard, pc, req, sent,
          first, pushed, written, muted, reported, missed, crashed

requestVars == <<m_request, created>>
sessionVars == <<node, recon, mended, thread, next>>
readerVars == <<pc, req, sent, first>>
bufferVars == <<pushed, written>>
muteVars == <<muted, reported, missed>>
vars == <<input, requestVars, m_first_audio_pts, failures, sessionVars,
          call, heard, readerVars, bufferVars, muteVars, crashed>>

NoCall == [at |-> "none", ev |-> "Sentence", s |-> 1, r |-> 0, word |-> 0,
           base |-> 0]

\* (variant: the number of threads is compared too late)
AfterNext_Late(n) == IF n = Threads THEN 0 ELSE n + 1

\* selectThreadNumber deals the threads out in turn.
AfterNext(n) == IF n + 1 = Threads THEN 0 ELSE n + 1

\* Relayer::init has started the first session.
Init ==
  /\ input \in Inputs
  /\ m_request = 1
  /\ m_first_audio_pts = 0
  /\ created = 1
  /\ failures = 0
  /\ node = [s \in Session |-> IF s = 1 THEN "starting" ELSE "none"]
  /\ recon = [s \in Session |-> FALSE]
  /\ mended = [s \in Session |-> FALSE]
  /\ thread = [s \in Session |-> IF s = 1 THEN 0 ELSE -1]
  /\ next = AfterNext(0)
  /\ call = [a \in Actor |-> NoCall]
  /\ heard = [s \in Session |-> <<>>]
  /\ pc = "read"
  /\ req = 1
  /\ sent = FALSE
  /\ first = 0
  /\ pushed = 0
  /\ written = 0
  /\ muted = {}
  /\ reported = {}
  /\ missed = {}
  /\ crashed = FALSE

Pts(k) == input.pts + (k - 1) * PktMs

\* The packet the reader is at.
Pkt == pushed + 1

\* (variant: m_mutex is held around the call of the business server)
MutexFree_AroundRpc ==
  \A a \in Actor : call[a].at \notin {"locked", "sendSentence", "sendHitWord"}

\* Delayer's m_mutex is free.
MutexFree == \A a \in Actor : call[a].at # "locked"

\* _mtxThread is free: nobody is between its lock and unlock in start.
ThreadMutexFree == \A a \in Actor : call[a].at # "wait"

\* A thread runs one callback at a time.
ThreadFree(s) == thread[s] \in Worker /\ call[thread[s]].at = "none"

\* The network, the recogniser or the memory fails.
Fault == failures < input.faults /\ failures' = failures + 1

Goes(a, step) == call' = [call EXCEPT ![a].at = step]

\* A thread tells a session's event, and the callback's first line has reset
\* the time base.
Tells(a, event, s) ==
  /\ call' = [call EXCEPT ![a] = [NoCall EXCEPT !.at = "begin", !.ev = event,
                                                !.s = s]]
  /\ m_first_audio_pts' = 0

-----------------------------------------------------------------------------
(* The reader: startProcess with sendAudio and pushAudioFrame. *)

\* An audio packet is read and decoded, and m_request is loaded, or the
\* decoder or the resampler refuses it.
ReadFrame ==
  /\ pc = "read"
  /\ pushed < input.packets
  /\ \/ pc' = "send" /\ req' = m_request /\ UNCHANGED sent
     \/ pc' = "push" /\ sent' = FALSE /\ UNCHANGED req
  /\ UNCHANGED <<input, requestVars, m_first_audio_pts, failures,
                 sessionVars, call, heard, first, bufferVars, muteVars,
                 crashed>>

\* sendAudio returns, with more than 0 or not.
SendReturns(ok) ==
  /\ sent' = ok
  /\ first' = IF first = 0 /\ ok THEN Pkt ELSE first
  /\ pc' = "test"

Hears == heard' = [heard EXCEPT ![req] = Append(@, Pkt)]

\* The session takes the packet.
SendTaken ==
  /\ req # Null /\ node[req] = "started"
  /\ Hears
  /\ SendReturns(TRUE)
  /\ UNCHANGED <<m_first_audio_pts, failures, sessionVars, call, crashed>>

\* It does not: the session is not started (if starting, the SDK has waited
\* half a second), too much is waiting in its evbuffer, or the encoder fails.
\* While the SDK reconnects, and that is also from every start command to the
\* event of the start, it says that the packet was taken.
SendRefused ==
  /\ req # Null
  /\ SendReturns(recon[req])
  /\ UNCHANGED <<m_first_audio_pts, failures, sessionVars, call, heard,
                 crashed>>

\* (variant: a packet whose send failed is sent again)
SendMends_Again ==
  /\ req # Null /\ node[req] = "started"
  /\ Fault
  /\ node' = [node EXCEPT ![req] = "mending"]
  /\ recon' = [recon EXCEPT ![req] = TRUE]
  /\ mended' = [mended EXCEPT ![req] = TRUE]
  /\ Hears \/ UNCHANGED heard
  /\ UNCHANGED <<m_first_audio_pts, thread, next, call, pc, sent, first,
                 crashed>>

\* The socket fails and the SDK hides it; the packet may be heard later.
SendMends ==
  /\ req # Null /\ node[req] = "started"
  /\ Fault
  /\ node' = [node EXCEPT ![req] = "mending"]
  /\ recon' = [recon EXCEPT ![req] = TRUE]
  /\ mended' = [mended EXCEPT ![req] = TRUE]
  /\ Hears \/ UNCHANGED heard
  /\ SendReturns(TRUE)
  /\ UNCHANGED <<m_first_audio_pts, thread, next, call, crashed>>

\* The socket fails and the callback of TaskFailed runs, in sendAudio.
SendFails ==
  /\ req # Null /\ node[req] = "started"
  /\ Fault
  /\ Tells(Main, "TaskFailed", req)
  /\ pc' = "calling"
  /\ UNCHANGED <<sessionVars, heard, sent, first, crashed>>

\* m_request was NULL: a call of a member of NULL, which may be caught by the
\* SDK's check of its argument.
SendNull ==
  /\ req = Null
  /\ \/ SendReturns(FALSE) /\ UNCHANGED crashed
     \/ crashed' = TRUE /\ UNCHANGED <<pc, sent, first>>
  /\ UNCHANGED <<m_first_audio_pts, failures, sessionVars, call, heard>>

\* SpeechTranscriberRequest::sendAudio.
SendAudio ==
  /\ pc = "send"
  /\ SendTaken \/ SendRefused \/ SendMends \/ SendFails \/ SendNull
  /\ UNCHANGED <<input, requestVars, req, bufferVars, muteVars>>

\* The first packet taken since the reset is where the recogniser's time 0
\* is, and 0 stands for "not known yet".
SetBase ==
  /\ pc = "test"
  /\ m_first_audio_pts' = IF m_first_audio_pts = 0 /\ sent
                          THEN Pts(Pkt)
                          ELSE m_first_audio_pts
  /\ pc' = "push"
  /\ UNCHANGED <<input, requestVars, failures, sessionVars, call, heard,
                 req, sent, first, bufferVars, muteVars, crashed>>

\* The packet goes into the delay buffer; some of those that may leave do.
PushAudio ==
  /\ pc = "push"
  /\ MutexFree
  /\ pushed' = pushed + 1
  /\ \E w \in written..pushed' :
       /\ w > written => (pushed' - w) * PktMs > Lead
       /\ written' = w
  /\ pc' = "read"
  /\ UNCHANGED <<input, requestVars, m_first_audio_pts, failures,
                 sessionVars, call, heard, req, sent, first, muteVars,
                 crashed>>

-----------------------------------------------------------------------------
(* The connections. *)

\* The start command goes out: addCmdDataBuffer marks every session as one
\* that reconnects.
SendStart(s) ==
  /\ node[s] = "starting" /\ ~recon[s]
  /\ ThreadFree(s)
  /\ recon' = [recon EXCEPT ![s] = TRUE]
  /\ UNCHANGED <<input, requestVars, m_first_audio_pts, failures, node,
                 mended, thread, next, call, heard, readerVars, bufferVars,
                 muteVars, crashed>>

\* onTranscriptionStarted only prints; the status is set after it, and the
\* reconnection is over.
onTranscriptionStarted(s) ==
  /\ node[s] = "starting" /\ recon[s]
  /\ ThreadFree(s)
  /\ node' = [node EXCEPT ![s] = "started"]
  /\ recon' = [recon EXCEPT ![s] = FALSE]
  /\ UNCHANGED <<input, requestVars, m_first_audio_pts, failures, mended,
                 thread, next, call, heard, readerVars, bufferVars, muteVars,
                 crashed>>

\* A failure is hidden, and the SDK's timer for another connection runs.
Mends(s) ==
  /\ node[s] \in {"starting", "started"}
  /\ ThreadFree(s)
  /\ Fault
  /\ node' = [node EXCEPT ![s] = "mending"]
  /\ recon' = [recon EXCEPT ![s] = TRUE]
  /\ mended' = [mended EXCEPT ![s] = TRUE]
  /\ UNCHANGED <<input, requestVars, m_first_audio_pts, thread, next,
                 call, heard, readerVars, bufferVars, muteVars, crashed>>

\* The other connection is made and its start command sent, or it cannot be
\* made: that failure is hidden too, and nothing is left to run.
Reconnects(s) ==
  /\ node[s] = "mending"
  /\ ThreadFree(s)
  /\ \/ node' = [node EXCEPT ![s] = "starting"] /\ UNCHANGED failures
     \/ node' = [node EXCEPT ![s] = "silent"] /\ Fault
  /\ UNCHANGED <<input, requestVars, m_first_audio_pts, recon, mended,
                 thread, next, call, heard, readerVars, bufferVars, muteVars,
                 crashed>>

-----------------------------------------------------------------------------
(* onSentenceEnd. *)

\* A sentence ends, with silence after it, and its word at place i of what
\* the session heard is one of the dictionary's: sendSentence is called. The
\* loop over a sentence's further words is that of sentences one after the
\* other; sentences without such a word leave no trace.
onSentenceEnd(s) ==
  /\ node[s] = "started"
  /\ ThreadFree(s)
  /\ \E i \in DOMAIN heard[s] :
       /\ heard[s][i] \in Bad \ reported
       /\ (Len(heard[s]) - i) * PktMs >= SilenceMs
       /\ call' = [call EXCEPT ![thread[s]] =
                     [NoCall EXCEPT !.at = "sendSentence", !.s = s,
                                    !.word = i]]
       /\ reported' = reported \cup {heard[s][i]}
  /\ UNCHANGED <<input, requestVars, m_first_audio_pts, failures,
                 sessionVars, heard, readerVars, bufferVars, muted, missed,
                 crashed>>

\* The business server answers, or there is none.
RpcReturns(a) ==
  /\ \/ call[a].at = "sendSentence" /\ Goes(a, "getTimeBase")
     \/ call[a].at = "sendHitWord" /\ Goes(a, "none")
  /\ UNCHANGED <<input, requestVars, m_first_audio_pts, failures,
                 sessionVars, heard, readerVars, bufferVars, muteVars,
                 crashed>>

getTimeBase(a) ==
  /\ call[a].at = "getTimeBase"
  /\ call' = [call EXCEPT ![a] = [@ EXCEPT !.at = "replace",
                                           !.base = m_first_audio_pts]]
  /\ UNCHANGED <<input, requestVars, m_first_audio_pts, failures,
                 sessionVars, heard, readerVars, bufferVars, muteVars,
                 crashed>>

LockBuffer(a) ==
  /\ call[a].at = "replace"
  /\ MutexFree
  /\ Goes(a, "locked")
  /\ UNCHANGED <<input, requestVars, m_first_audio_pts, failures,
                 sessionVars, heard, readerVars, bufferVars, muteVars,
                 crashed>>

\* (variant: no margin before the word)
Window_NoMargin(a, d) ==
  {k \in (written + 1)..pushed :
     /\ Pts(k) >= call[a].base + (call[a].word + d - 1) * PktMs
     /\ Pts(k) <= call[a].base + (call[a].word + d) * PktMs}

\* (variant: a margin after the word like the one before it)
Window_BothMargins(a, d) ==
  {k \in (written + 1)..pushed :
     /\ Pts(k) >= call[a].base + (call[a].word + d - 1) * PktMs - Margin
     /\ Pts(k) <= call[a].base + (call[a].word + d) * PktMs + Margin}

\* The packets of the buffer that replaceAudioPacket silences, for a word
\* that ends where its packet does on a clock that is d packets off.
Window(a, d) ==
  {k \in (written + 1)..pushed :
     /\ Pts(k) >= call[a].base + (call[a].word + d - 1) * PktMs - Margin
     /\ Pts(k) <= call[a].base + (call[a].word + d) * PktMs}

\* The recogniser's clock is what it heard. That of a session on its second
\* connection goes on from the time of day at the interruption.
Drift(s) == IF mended[s] THEN (-MaxDrift)..MaxDrift ELSE {0}

replaceAudioPacket(a) ==
  /\ call[a].at = "locked"
  /\ \E d \in Drift(call[a].s) : muted' = muted \cup Window(a, d)
  /\ missed' = missed \cup
       ({heard[call[a].s][call[a].word]} \cap
          (((written + 1)..pushed) \ muted'))
  /\ Goes(a, "sendHitWord")
  /\ UNCHANGED <<input, requestVars, m_first_audio_pts, failures,
                 sessionVars, heard, readerVars, bufferVars, reported,
                 crashed>>

-----------------------------------------------------------------------------
(* onTaskFailed and onChannelClosed, told by a session's work thread or, for
   a send that failed, by the reader's (SendFails). *)

\* A failure that is not hidden: it is not worth a reconnection, or there
\* were too many.
onTaskFailed(s) ==
  /\ node[s] \in {"starting", "started"}
  /\ ThreadFree(s)
  /\ Fault
  /\ Tells(thread[s], "TaskFailed", s)
  /\ \E b \in {recon[s], FALSE} : recon' = [recon EXCEPT ![s] = b]
  /\ UNCHANGED <<input, requestVars, node, mended, thread, next, heard,
                 readerVars, bufferVars, muteVars, crashed>>

\* Alone, after a frame that the SDK cannot read.
onChannelClosed(s) ==
  /\ node[s] \in {"starting", "started"}
  /\ ThreadFree(s)
  /\ Fault
  /\ Tells(thread[s], "Close", s)
  /\ UNCHANGED <<input, requestVars, sessionVars, heard, readerVars,
                 bufferVars, muteVars, crashed>>

\* After onTaskFailed, unless another thread has told it.
ClosesAfter(a) ==
  /\ call[a].at = "closing"
  /\ IF node[call[a].s] # "closed"
     THEN Tells(a, "Close", call[a].s) /\ UNCHANGED <<pc, sent>>
     ELSE /\ Goes(a, "none")
          /\ IF a = Main
             THEN pc' = "test" /\ sent' = recon[call[a].s]
             ELSE UNCHANGED <<pc, sent>>
          /\ UNCHANGED m_first_audio_pts
  /\ UNCHANGED <<input, requestVars, failures, sessionVars, heard, req,
                 first, bufferVars, muteVars, crashed>>

\* (variant: the old request is kept)
CreateRequest_Kept(a) ==
  /\ call[a].at = "begin"
  /\ \/ /\ created < MaxSessions
        /\ created' = created + 1
        /\ node' = [node EXCEPT ![created + 1] = "created"]
        /\ Goes(a, "created")
        /\ UNCHANGED <<m_request, failures>>
     \/ /\ Fault
        /\ m_request' = Null
        /\ Goes(a, "done")
        /\ UNCHANGED <<created, node>>
  /\ UNCHANGED <<input, m_first_audio_pts, recon, mended, thread, next,
                 heard, readerVars, bufferVars, muteVars, crashed>>

\* Asr::start, once a token has come or not: m_request gets a new request in
\* place of the old one, or NULL, and then start is over.
CreateRequest(a) ==
  /\ call[a].at = "begin"
  /\ \/ /\ created < MaxSessions
        /\ created' = created + 1
        /\ m_request' = created + 1
        /\ node' = [node EXCEPT ![created + 1] = "created"]
        /\ Goes(a, "created")
        /\ UNCHANGED failures
     \/ /\ Fault
        /\ m_request' = Null
        /\ Goes(a, "done")
        /\ UNCHANGED <<created, node>>
  /\ UNCHANGED <<input, m_first_audio_pts, recon, mended, thread, next,
                 heard, readerVars, bufferVars, muteVars, crashed>>

\* The members of m_request are called, and start: another callback may have
\* put another request there, or NULL.
CallStart(a) ==
  /\ call[a].at = "created"
  /\ IF m_request = Null
     THEN crashed' = TRUE /\ UNCHANGED call
     ELSE /\ call' = [call EXCEPT ![a] = [@ EXCEPT !.at = "lock",
                                                   !.r = m_request]]
          /\ UNCHANGED crashed
  /\ UNCHANGED <<input, requestVars, m_first_audio_pts, failures,
                 sessionVars, heard, readerVars, bufferVars, muteVars>>

\* NlsEventNetWork::start. A new request is dealt to a thread. A closed one
\* is started again where it was, for its connection is a "long" one. One in
\* use is let be, and one that failed is refused; both return at once.
StartLocks(a) ==
  /\ call[a].at = "lock"
  /\ ThreadMutexFree
  /\ LET r == call[a].r
     IN \/ /\ node[r] = "created" /\ thread[r] = -1
           /\ thread' = [thread EXCEPT ![r] = next]
           /\ next' = AfterNext(next)
           /\ node' = [node EXCEPT ![r] = "starting"]
           /\ Goes(a, "wait")
           /\ UNCHANGED mended
        \/ /\ node[r] \in {"created", "closed", "silent", "mending"}
           /\ thread[r] # -1
           /\ node' = [node EXCEPT ![r] = "starting"]
           /\ mended' = [mended EXCEPT ![r] = TRUE]
           /\ Goes(a, "wait")
           /\ UNCHANGED <<thread, next>>
        \/ /\ node[r] \in {"starting", "started", "mending"}
           /\ Goes(a, "done")
           /\ UNCHANGED <<node, mended, thread, next>>
        \/ /\ node[r] = "failed"
           /\ node' = [node EXCEPT ![r] = "created"]
           /\ Goes(a, "done")
           /\ UNCHANGED <<mended, thread, next>>
  /\ UNCHANGED <<input, requestVars, m_first_audio_pts, failures, recon,
                 heard, readerVars, bufferVars, muteVars, crashed>>

\* (variant: after a start that timed out the old request is put back)
StartReturns_PutsBack(a) ==
  /\ call[a].at = "wait"
  /\ Goes(a, "done")
  /\ m_request' \in {m_request, call[a].s}
  /\ UNCHANGED <<input, created, m_first_audio_pts, failures,
                 sessionVars, heard, readerVars, bufferVars, muteVars,
                 crashed>>

\* (variant: the wait has no deadline)
StartReturns_Waits(a) ==
  /\ call[a].at = "wait"
  /\ node[call[a].r] # "starting"
  /\ Goes(a, "done")
  /\ UNCHANGED <<input, requestVars, m_first_audio_pts, failures,
                 sessionVars, heard, readerVars, bufferVars, muteVars,
                 crashed>>

\* An event of the new session is signalled, or ten seconds are over.
StartReturns(a) ==
  /\ call[a].at = "wait"
  /\ Goes(a, "done")
  /\ UNCHANGED <<input, requestVars, m_first_audio_pts, failures,
                 sessionVars, heard, readerVars, bufferVars, muteVars,
                 crashed>>

\* The callback returns and the SDK sets the status: after TaskFailed if the
\* recogniser reported it, and not if the connection failed; always after
\* Close, with which also the reader's send returns.
CallbackEnds(a) ==
  /\ call[a].at = "done"
  /\ LET s == call[a].s
     IN \/ /\ call[a].ev = "TaskFailed"
           /\ \E n \in {node[s]} \cup (IF a = Main THEN {} ELSE {"failed"}) :
                node' = [node EXCEPT ![s] = n]
           /\ Goes(a, "closing")
           /\ UNCHANGED <<pc, sent>>
        \/ /\ call[a].ev = "Close"
           /\ node' = [node EXCEPT ![s] = "closed"]
           /\ Goes(a, "none")
           /\ IF a = Main
              THEN pc' = "test" /\ sent' = recon[s]
              ELSE UNCHANGED <<pc, sent>>
  /\ UNCHANGED <<input, requestVars, m_first_audio_pts, failures, recon,
                 mended, thread, next, heard, req, first, bufferVars,
                 muteVars, crashed>>

-----------------------------------------------------------------------------
Reader == ReadFrame \/ SendAudio \/ SetBase \/ PushAudio

\* What a thread's callback does once begun, the business server's part
\* apart.
Callback(a) ==
  \/ getTimeBase(a)
  \/ LockBuffer(a)
  \/ replaceAudioPacket(a)
  \/ CreateRequest(a)
  \/ CallStart(a)
  \/ StartLocks(a)
  \/ StartReturns(a)
  \/ CallbackEnds(a)
  \/ ClosesAfter(a)

\* The SDK goes on with the sessions that were asked for.
Connection(s) ==
  SendStart(s) \/ onTranscriptionStarted(s) \/ Reconnects(s)

Next ==
  /\ ~crashed
  /\ \/ Reader
     \/ \E s \in Session :
          \/ Connection(s)
          \/ Mends(s)
          \/ onSentenceEnd(s)
          \/ onTaskFailed(s)
          \/ onChannelClosed(s)
     \/ \E a \in Actor : Callback(a) \/ RpcReturns(a)

Spec == Init /\ [][Next]_vars

\* The threads run, and the SDK goes on with a connection that did not fail.
\* The business server owes nothing: its calls have no deadline.
FairSpec ==
  /\ Spec
  /\ WF_vars(~crashed /\ Reader)
  /\ \A a \in Actor : WF_vars(~crashed /\ Callback(a))
  /\ \A s \in Session : WF_vars(~crashed /\ Connection(s))
-----------------------------------------------------------------------------
(* Properties *)

\* The type invariant. A request is dealt to a work thread that exists.
TypeOK ==
  /\ input \in Inputs
  /\ created \in Session
  /\ m_request \in {Null, created}
  /\ m_first_audio_pts \in Nat
  /\ failures \in 0..MaxFailures
  /\ node \in [Session -> NodeStatus]
  /\ recon \in [Session -> BOOLEAN]
  /\ mended \in [Session -> BOOLEAN]
  /\ thread \in [Session -> Worker \cup {-1}]
  /\ next \in Worker
  /\ call \in [Actor -> Calls]
  /\ heard \in [Session -> Seq(Packet)]
  /\ pc \in {"read", "send", "test", "push", "calling"}
  /\ req \in 0..created
  /\ sent \in BOOLEAN
  /\ first \in 0..MaxPackets
  /\ pushed \in 0..MaxPackets
  /\ written \in 0..pushed
  /\ muted \subseteq 1..pushed
  /\ reported \subseteq Bad
  /\ missed \subseteq reported
  /\ crashed \in BOOLEAN

\* No session is given a packet after a later one or twice, and none a packet
\* after a session that came later had one: m_request is replaced by callbacks
\* of any thread, the reader's own included, and a session may be closed,
\* started again and mended meanwhile.
InOrder ==
  \A s, t \in Session : \A i \in DOMAIN heard[s], j \in DOMAIN heard[t] :
    (s < t \/ (s = t /\ i < j)) => heard[s][i] < heard[t][j]

\* The first session is in use: no failure of it was told yet.
FirstUse == m_request = 1 /\ \A a \in Actor : call[a].at # "begin"

\* How many packets sendAudio is over with.
Processed == IF pc \in {"read", "send"} THEN pushed ELSE pushed + 1

\* How many packets the first session did not hear, from the one on that
\* sendAudio said it took first.
Lost == IF first = 0 THEN 0 ELSE Processed - first + 1 - Len(heard[1])

\* In the first session, if it is not mended, every bad word that is reported
\* while its packet is in the delay buffer is muted although one packet was
\* lost before it: refused with success before the session had started, so
\* that it is the time base nonetheless, or later by the decoder, the encoder
\* or a full evbuffer. So also when the stream begins at time 0, which
\* m_first_audio_pts takes for unknown, and whatever the reader does during
\* the callback.
MutedInTime == (FirstUse /\ ~mended[1] /\ Lost <= 1) => missed = {}

\* In the first session, if it is not mended, silence reaches no further than
\* the margin before a reported word and a packet's length after it, but for
\* one packet's length for every packet lost, and for one more after the word
\* if the stream begins at time 0.
OnlyAround ==
  (FirstUse /\ ~mended[1]) =>
    \A k \in muted : \E w \in reported :
      /\ Pts(w) - Margin - Lost * PktMs <= Pts(k)
      /\ Pts(k) <= Pts(w) + PktMs
                     + (IF input.pts = 0 THEN (1 + Lost) * PktMs ELSE 0)

\* The stream goes on whatever becomes of the sessions, even if the business
\* server never answers and if the reader itself has to start a session behind
\* the starts of others: no callback holds m_mutex while it waits, and who
\* holds _mtxThread waits no longer than the call's timeout.
ReaderGoesOn == <>(pushed = input.packets \/ crashed)

\* When no restart is under way the current request is one that was started
\* and that no callback was told the end of, or NULL. Each callback puts its
\* own request into m_request and starts what it finds there, so that some are
\* started twice, or again after their end, and some never.
NeverLeft ==
  (\A a \in Actor : call[a].at \notin InRestart \cup {"closing"}) =>
    m_request = Null \/ node[m_request] \in {"starting", "started", "mending",
                                             "silent"}

\* However failures and restarts of several sessions interleave, once they
\* are over the current request is a session that takes audio, but for a
\* request that could not be created, a session that the SDK has silently
\* given up, and a work thread that the business server keeps.
Recovers ==
  []<>(\/ m_request = Null \/ crashed
       \/ node[m_request] \in {"started", "silent"}
       \/ \E a \in Worker : call[a].at \in {"sendSentence", "sendHitWord"})

\* The SDK's documentation: once onTaskFailed is reported sendAudio returns
\* a negative value.
NoAudioAfterFailure ==
  [][\A a \in Actor :
       (call[a].ev = "TaskFailed" /\ call[a].at \in InRestart) =>
         heard'[call[a].s] = heard[call[a].s]]_vars
=============================================================================
