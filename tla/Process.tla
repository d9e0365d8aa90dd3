------------------------------ MODULE Process ------------------------------
(***************************************************************************)
(* The relay as a process: main from its arguments to its end, with the    *)
(* reader's calls of the recogniser's decoder (Asr::sendAudio), a work     *)
(* thread of the SDK whose callbacks mute packets through the replacer's   *)
(* decoder and encoder, and the destructors at the end of the input.       *)
(*                                                                         *)
(* A codec of FFmpeg holds the inputs it was given: latency of them before *)
(* it gives something out, one output for an input or none. It takes no    *)
(* input (EAGAIN) when it has something to give, so that not both calls    *)
(* are refused. A loop that answers EAGAIN by the same call again is where *)
(* it was: here, a step that is not enabled.                               *)
(*                                                                         *)
(* Packets are audio packets of one length, by number; the buffer holds    *)
(* MaxHeld of them (module Delayer has the real rule). One work thread and *)
(* one session at a time (module Relay has the restarts that overlap).     *)
(***************************************************************************)
EXTENDS Integers, Sequences, SequencesExt, FiniteSetsExt

CONSTANTS Argvs,        \* argument lists of the process
          Latencies,    \* inputs a codec may hold before its first output
          MaxHeld,      \* packets the delay buffer holds
          MaxPackets,   \* bound: audio packets of the input
          MaxFaults,    \* bound: errors of codecs
          MaxHits,      \* bound: sentences with a word to mute
          TryCount      \* try_count of ~WorkThread

ASSUME ProcessAssumption ==
  /\ Latencies \subseteq Nat /\ MaxHeld \in Nat /\ MaxPackets \in Nat
  /\ MaxFaults \in Nat /\ MaxHits \in Nat /\ TryCount \in Nat

Codecs == {"asr", "dec", "enc"}
Muting == {"send", "receive", "encode", "fetch"}

\* main       where the main thread is; "hung" and "undefined" are ends too
\* work       where the work thread is
\* held       what each codec holds, and latency how much it may
\* dry        the codecs that refuse the input given again, or give nothing for
\*            it, however often the loop gives it
\* n          packets read
\* heard      the packets whose sound was given to the recogniser, in order
\* list       the packets in the buffer, and written how many have left it
\* mute       the packets that the callback still has to replace
\* session    the request: "made" until its launch, "listed" in _nodeList of
\*            its thread, "ended" when destroyConnectNode took it out
\* tries      try_count
\* freed      what the destructors have freed
\* faults, hits  errors of codecs and sentences to mute so far
VARIABLES main, work, held, latency, dry, n, heard, list, written, mute, session,
          tries, freed, faults, hits

codecVars == <<held, latency, dry, faults>>
bufferVars == <<list, written>>
inputVars == <<n, heard, bufferVars>>
muteVars == <<mute, hits>>
endVars == <<tries, freed>>
vars == <<main, work, codecVars, inputVars, muteVars, session, endVars>>

-----------------------------------------------------------------------------
\* parse_argv: an option takes the next argument for its value, whatever it is.
ValueOptions == {"--in", "--out", "--delay"}
TakeArg(seen, a) ==
  IF seen.option # "none"
  THEN [option |-> "none",
        given |-> IF a = "" THEN seen.given \ {seen.option}
                  ELSE seen.given \cup {seen.option}]
  ELSE [seen EXCEPT !.option = IF a \in ValueOptions THEN a ELSE @]
parse_argv(argv) ==
  LET seen == FoldLeft(TakeArg, [option |-> "none", given |-> {}], argv)
  IN  seen.option = "none" /\ {"--in", "--out"} \subseteq seen.given

Init ==
  /\ \E argv \in Argvs : main = IF parse_argv(argv) THEN "init" ELSE "exit"
  /\ work = "idle" /\ held = [c \in Codecs |-> <<>>]
  /\ latency \in [Codecs -> Latencies] /\ dry = {}
  /\ n = 0 /\ heard = <<>> /\ list = <<>> /\ written = 0 /\ mute = {}
  /\ session = "none" /\ tries = TryCount /\ freed = {} /\ faults = 0
  /\ hits = 0

\* Relayer::init up to m_asr->start(): any of its calls may fail, and main then
\* returns, through ~Relayer. With start a session is made.
RelayerInit ==
  /\ main = "init"
  /\ \/ main' = "read" /\ session' = "made"
     \/ main' = "trailer" /\ UNCHANGED session
  /\ UNCHANGED <<work, codecVars, inputVars, muteVars, endVars>>

-----------------------------------------------------------------------------
\* The calls of libavcodec.
Accepts(c) == Len(held[c]) =< latency[c]
Ready(c) == Len(held[c]) > latency[c]
Feed(c, x) == held' \in {held, [held EXCEPT ![c] = Append(@, x)]}
Draw(c) == held' = [held EXCEPT ![c] = Tail(@)]
Fault == faults < MaxFaults /\ faults' = faults + 1

\* After EAGAIN the same input x is given again. What comes of that is ignored:
\* a codec that has refused it once with another error will do so for ever.
FeedAgain(c, x) ==
  /\ ~Ready(c) /\ c \notin dry
  /\ \/ Feed(c, x) /\ UNCHANGED <<dry, faults>>
     \/ dry' = dry \cup {c} /\ Fault /\ UNCHANGED held
MutexFree == work \notin Muting

\* av_read_frame
ReadFrame ==
  /\ main = "read"
  /\ \/ n < MaxPackets /\ n' = n + 1 /\ main' = "send"
     \/ main' = "trailer" /\ UNCHANGED n
  /\ UNCHANGED <<work, codecVars, heard, bufferVars, muteVars, session, endVars>>

\* Asr::sendAudio, its first loop: a packet that the decoder refuses is not heard,
\* nor is one that nothing comes of.
SendPacket ==
  /\ main = "send"
  /\ \/ Accepts("asr") /\ Feed("asr", n) /\ main' = "receive" /\ UNCHANGED faults
     \/ Fault /\ main' = "push" /\ UNCHANGED held
  /\ UNCHANGED <<work, latency, dry, inputVars, muteVars, session, endVars>>

\* (variant: after EAGAIN the packet is not sent again)
ReceiveAgain_Only == main = "receive" /\ ~Ready("asr") /\ UNCHANGED vars

\* The second loop, where nothing has come out yet: the packet is sent again.
ReceiveAgain ==
  /\ main = "receive" /\ FeedAgain("asr", n)
  /\ UNCHANGED <<main, work, latency, inputVars, muteVars, session, endVars>>

\* (variant: after an error, what the last frame left in m_pr_ctx is sent)
ReceiveFrame_Stale ==
  /\ main = "receive" /\ Ready("asr") /\ Draw("asr")
  /\ \/ heard' = Append(heard, Head(held["asr"])) /\ UNCHANGED faults
     \/ Fault /\ heard # <<>> /\ heard' = Append(heard, Last(heard))
  /\ main' = "push"
  /\ UNCHANGED <<work, latency, dry, n, bufferVars, muteVars, session, endVars>>

\* A frame is resampled and given to the recogniser; a frame that cannot be
\* decoded or resampled is lost. startProcess goes on in either case.
ReceiveFrame ==
  /\ main = "receive" /\ Ready("asr") /\ Draw("asr")
  /\ \/ heard' = Append(heard, Head(held["asr"])) /\ UNCHANGED faults
     \/ Fault /\ UNCHANGED heard
  /\ main' = "push"
  /\ UNCHANGED <<work, latency, dry, n, bufferVars, muteVars, session, endVars>>

\* pushAudioFrame, under m_mutex, with the packet that may then leave.
PushAudioFrame ==
  /\ main = "push" /\ MutexFree
  /\ LET all == Append(list, n)
     IN IF Len(all) > MaxHeld THEN list' = Tail(all) /\ written' = written + 1
        ELSE list' = all /\ UNCHANGED written
  /\ main' = "read"
  /\ UNCHANGED <<work, codecVars, n, heard, muteVars, session, endVars>>

-----------------------------------------------------------------------------
\* The work thread is at w, of a process that lives.
At(w) == work = w /\ main \notin {"init", "exit", "undefined"}

\* launchEventCallback puts the request into _nodeList.
Launch ==
  /\ At("idle") /\ session = "made"
  /\ session' = "listed"
  /\ UNCHANGED <<main, work, codecVars, inputVars, muteVars, endVars>>

\* onSentenceEnd with a hit: replaceAudioPacket locks m_mutex and goes through
\* the packets of a window.
SentenceEnd ==
  /\ At("idle") /\ session = "listed"
  /\ hits < MaxHits /\ hits' = hits + 1
  /\ \E lo, hi \in 1..MaxPackets :
       /\ {i \in ToSet(list) : lo =< i /\ i =< hi} # {}
       /\ mute' = {i \in ToSet(list) : lo =< i /\ i =< hi}
  /\ work' = "send"
  /\ UNCHANGED <<main, codecVars, inputVars, session, endVars>>

\* replaceAudioToMute is over for the first packet, replaced or put back as it
\* was: the next one, or m_mutex is let go.
MuteNext ==
  /\ mute' = mute \ {Min(mute)}
  /\ work' = IF mute' = {} THEN "idle" ELSE "send"

\* Its four loops: to the decoder, from it, to the encoder and from it. An error
\* ends it; where nothing has come out the input is given once more.
MuteSends ==
  /\ \/ At("send") /\ Accepts("dec") /\ Feed("dec", Min(mute))
        /\ work' = "receive"
     \/ At("encode") /\ Accepts("enc") /\ Feed("enc", Min(mute))
        /\ work' = "fetch"
  /\ UNCHANGED <<main, latency, dry, faults, inputVars, muteVars, session,
                 endVars>>
MuteAgain ==
  /\ \/ At("receive") /\ FeedAgain("dec", Min(mute))
     \/ At("fetch") /\ FeedAgain("enc", Min(mute))
  /\ UNCHANGED <<main, work, latency, inputVars, muteVars, session, endVars>>
MuteReceives ==
  /\ \/ At("receive") /\ Ready("dec") /\ Draw("dec")
        /\ work' = "encode" /\ UNCHANGED mute
     \/ At("fetch") /\ Ready("enc") /\ Draw("enc") /\ MuteNext
  /\ UNCHANGED <<main, latency, dry, faults, inputVars, session, endVars, hits>>
MuteFails ==
  /\ \/ At("send") /\ UNCHANGED held
     \/ At("encode") /\ UNCHANGED held
     \/ At("receive") /\ Ready("dec") /\ Draw("dec")
     \/ At("fetch") /\ Ready("enc") /\ Draw("enc")
  /\ Fault /\ MuteNext
  /\ UNCHANGED <<main, latency, dry, inputVars, hits, session, endVars>>

\* onTaskFailed and onChannelClosed call Asr::start, which asks for the client
\* and waits for _mtxNlsClient while releaseInstance has it. After the callbacks
\* destroyConnectNode takes the old request out of the list.
Releasing == main \in {"destroy", "join", "hung"}
SessionFails ==
  /\ At("idle") /\ session = "listed"
  /\ work' = "restart"
  /\ UNCHANGED <<main, codecVars, inputVars, muteVars, session, endVars>>
Restart ==
  /\ At("restart") /\ ~Releasing
  /\ session' = "made" /\ work' = "idle"
  /\ UNCHANGED <<main, codecVars, inputVars, muteVars, endVars>>

\* A reconnection that fails unseen ends without a callback (module Node).
SessionGone ==
  /\ At("idle") /\ session = "listed"
  /\ session' = "ended"
  /\ UNCHANGED <<main, work, codecVars, inputVars, muteVars, endVars>>

-----------------------------------------------------------------------------
\* ~Relayer: the trailer belongs to an output that was opened, which the first
\* packet that leaves the buffer does; without it av_write_trailer is undefined.
\* The packets in the buffer are not written.
WriteTrailer ==
  /\ main = "trailer"
  /\ main' = IF written = 0 THEN "undefined" ELSE "release"
  /\ freed' = freed \cup {"output"}
  /\ UNCHANGED <<work, codecVars, inputVars, muteVars, session, tries>>

\* (variant: ~Asr only deletes the request)
ReleaseInstance_Not ==
  /\ main = "release"
  /\ main' = "request"
  /\ UNCHANGED <<work, codecVars, inputVars, muteVars, session, endVars>>

\* ~Asr: releaseInstance takes _mtxNlsClient and destroys the work threads.
ReleaseInstance ==
  /\ main = "release"
  /\ main' = "destroy"
  /\ UNCHANGED <<work, codecVars, inputVars, muteVars, session, endVars>>

Listed == session = "listed"

\* (variant: the loop goes on for as long as there are requests)
DestroyThread_Endless ==
  /\ main = "destroy" /\ (Listed => tries > 0)
  /\ tries' = tries - 2 /\ main' = IF Listed THEN "destroy" ELSE "join"
  /\ UNCHANGED <<work, codecVars, inputVars, muteVars, session, freed>>

\* ~WorkThread, once around its loop: a request that runs is left, try_count is
\* taken down twice, and the last time the list is emptied by force.
DestroyThread ==
  /\ main = "destroy" /\ (Listed => tries > 0)
  /\ IF Listed /\ tries - 1 > 0 THEN tries' = tries - 2 /\ UNCHANGED main
     ELSE tries' = tries - 1 /\ main' = "join"
  /\ UNCHANGED <<work, codecVars, inputVars, muteVars, session, freed>>

\* The request is taken out of the list, and deleted with _mtxList locked:
\* ~ConnectNode calls freeListNode, which locks _mtxList, a mutex that the same
\* thread cannot lock twice.
ForceDestroy ==
  /\ main = "destroy" /\ Listed /\ tries =< 0
  /\ main' = "hung" /\ session' = "ended"
  /\ UNCHANGED <<work, codecVars, inputVars, muteVars, endVars>>

\* event_base_loopbreak and pthread_join: the callback that runs ends first.
JoinThread ==
  /\ main = "join" /\ work = "idle"
  /\ work' = "gone" /\ main' = "request"
  /\ UNCHANGED <<codecVars, inputVars, muteVars, session, endVars>>

\* delete m_request uses the work thread that was deleted: undefined, or it goes
\* well; then the members of Asr and of Relayer are freed, the buffer too.
DeleteRequest ==
  /\ main = "request"
  /\ \/ main' = "exit" /\ freed' = freed \cup {"asr", "delayer"}
     \/ main' = "undefined" /\ UNCHANGED freed
  /\ UNCHANGED <<work, codecVars, inputVars, muteVars, session, tries>>

-----------------------------------------------------------------------------
Reading ==
  \/ ReadFrame \/ SendPacket \/ ReceiveAgain \/ ReceiveFrame \/ PushAudioFrame
Ending ==
  \/ WriteTrailer \/ ReleaseInstance \/ DestroyThread \/ ForceDestroy
  \/ JoinThread \/ DeleteRequest
Main == RelayerInit \/ Reading \/ Ending
Callbacks ==
  \/ SentenceEnd \/ MuteSends \/ MuteAgain \/ MuteReceives \/ MuteFails
  \/ SessionFails \/ Restart \/ SessionGone \/ Launch

Next == Main \/ Callbacks

Spec == Init /\ [][Next]_vars

\* Threads run. Nothing makes a session fail or the recogniser find a word.
FairSpec ==
  /\ Spec /\ WF_vars(Main)
  /\ WF_vars(Launch \/ Restart \/ MuteSends \/ MuteAgain \/ MuteReceives)

-----------------------------------------------------------------------------
TypeOK ==
  /\ main \in {"init", "read", "send", "receive", "push", "trailer", "release",
               "destroy", "join", "request", "exit", "hung", "undefined"}
  /\ work \in Muting \cup {"idle", "restart", "gone"}
  /\ latency \in [Codecs -> Latencies] /\ dry \subseteq Codecs
  /\ held \in [Codecs -> Seq(1..MaxPackets)]
  /\ n \in 0..MaxPackets /\ heard \in Seq(1..n) /\ list \in Seq(1..n)
  /\ written \in 0..n /\ mute \subseteq 1..n
  /\ session \in {"none", "made", "listed", "ended"} /\ tries \in -1..TryCount
  /\ freed \subseteq {"output", "asr", "delayer"} /\ faults \in 0..MaxFaults
  /\ hits \in 0..MaxHits

\* The recogniser's clock runs ahead of the sound by no more packets than the
\* decoder holds, although a packet may be given to the decoder several times
\* and packets may be refused or lost: so the window of a word is late by no
\* more, which the margin of replaceAudioPacket makes good.
ClockAhead ==
  \A i \in DOMAIN heard :
    /\ heard[i] >= i - latency["asr"]
    /\ i > 1 => heard[i] >= heard[i - 1]

\* The loops around libavcodec end, in sendAudio and, with m_mutex held, in
\* replaceAudioToMute: none of them waits for an output that nobody fetches, so
\* the reader comes to its next packet; unless the input that a loop gives again
\* is refused or nothing ever comes of it, which no loop looks at.
CallsEnd ==
  LET muting == dry \cap {"dec", "enc"} # {}
  IN  /\ main \in {"send", "receive"} ~> main = "push" \/ "asr" \in dry
      /\ main = "push" ~> main = "read" \/ muting
      /\ work \in Muting ~> work \notin Muting \/ main = "undefined" \/ muting

\* No callback runs any more when what callbacks use is freed: ~Asr waits for
\* the work threads before the members go.
NoUseAfterEnd == work \notin {"idle", "gone"} => "delayer" \notin freed

\* ~WorkThread comes out of its loop: after the last try every request that is
\* left is destroyed by force.
DestroyEnds == main = "destroy" ~> main = "join"
=============================================================================
