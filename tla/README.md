# A TLA+ model of rtmp_relay

`rtmp_relay` reads a live stream, holds it back for a few seconds, sends its
audio to a speech recogniser meanwhile, and replaces by silence the audio
packets in which the recogniser heard a word of a dictionary, before they are
written to the output. This directory holds a model of it in TLA+, the TLC
configurations that check the model on small instances, and proofs of what the
model promises for every value of its constants.

Paths below are those of the repository; the SDK is the copy of the
Alibaba NLS C++ SDK under `alibabacloud-nls-cpp-sdk/nlsCppSdk`.

## 1. The system

### Components

| component | state | operations |
|---|---|---|
| **Command line** (`main.cpp`) | the options | `parse_argv`, then `Relayer::init` and `startProcess` |
| **Reader** (`processor/relayer.cpp`, class `Relayer`) | input and output contexts, the parts below | `init`; `startProcess`, the only loop of the main thread: read a packet, audio to `Asr::sendAudio`, both streams to the delay buffer; the destructor closes the output |
| **Delay buffer** (`processor/delayer.cpp`, class `Delayer`) | `m_av_packet`, `m_total_deley_ms`, `m_handshake_done`, all under `m_mutex` | `pushVideoFrame`, `pushAudioFrame` with `flush`; `replaceAudioPacket` |
| **Replacer** (`processor/replacer.cpp`) | a decoder and an encoder of FFmpeg | `replaceAudioToMute`: decode, clear, encode one packet |
| **Recogniser front end** (`processor/asr.cpp`, class `Asr`) | `m_request`, `m_first_audio_pts`, the token, the decoder and resampler | `sendAudio` on the main thread; the callbacks `onSentenceEnd`, `onTaskFailed`, `onChannelClosed` on the SDK's threads; `start` on both |
| **Dictionary and search** (`censor/dictionary.cpp`, `Asr::hitDict`, `utils/utils.cpp`) | `m_data_map` | `loadFromFile`; `hitDict` for each sentence |
| **Business client** (`grpc/biz_client.cpp`) | a gRPC stub | `sendSentence`, `sendHitWords`: blocking calls without a deadline |
| **SDK, connection of a request** (`transport/connectNode.cpp`) | work and exit status, reconnection state, buffers of audio and of commands | frames of the server and socket errors to callbacks, status changes, close, cancel, destroy, reconnect |
| **SDK, request operations** (`transport/nlsEventNetWork.cpp`, `framework/item/iNlsRequest.cpp`) | the static `_mtxThread`, the number of the thread that is next | `start`, `stop`, `cancel`, `sendAudio`, `selectThreadNumber`, the wait for a synchronous call |
| **SDK, registry and client** (`transport/nodeManager.cpp`, `framework/common/nlsClientImpl.cpp`) | which requests and nodes exist and in which state | add, check, remove, release |
| **SDK, work threads** (`event/workThread.cpp`) | an event loop each, their nodes | DNS, connecting with retries and timers, reading, writing, launching, destroying |
| **SDK, rest** | | WebSocket frames, TLS, Opus, JSON, parameters, tokens |

### How they interact

The *main thread* runs `startProcess`. For an audio packet it decodes it, calls
`m_request->sendAudio`, may set `m_first_audio_pts`, and then takes the mutex
of the delay buffer to push the packet and to write what is old enough.

The *work threads* of the SDK (three of them, `asr.cpp:91`) run the callbacks.
`onSentenceEnd` calls the business server, searches the sentence, reads
`m_first_audio_pts`, translates the recogniser's times into presentation times
and takes the mutex to replace packets; then it calls the server once more.
`onTaskFailed` and `onChannelClosed` reset `m_first_audio_pts` and call
`Asr::start`, which overwrites `m_request`. Neither variable has a lock.

Inside the SDK a request has one `ConnectNode`, whose fields are shared by the
work thread that the request is dealt to and by every thread that calls
`start`, `stop`, `cancel` or `sendAudio`. The work thread runs libevent: what
happens next is what is armed. A registry (`NlsNodeManager`) is asked before a
request or a node is used. `start` waits for the first event of its request
(`setSyncCallTimeout`, `asr.cpp:90`) under a mutex that all requests share.

At the end of the input `main` returns through the destructors: the trailer,
`NlsClient::releaseInstance` with the end of the work threads, then the rest.

### What is hard

1. *The time base.* The recogniser counts from the first packet it accepted.
   The relay notes that packet's pts after `sendAudio` has returned, with 0 for
   "not yet", which is also the pts of the first packet of most streams.
   Callbacks read and reset the same variable.
2. *Restarts.* A failure has two callbacks, each of which starts a session. The
   session that failed still takes audio while its callback runs.
3. *The delay.* `flush` compares a sum over both streams with twice the delay;
   the margin for a mute is what that leaves of the audio. The list and the
   running total have to agree, since `front()` is called unchecked.
4. *Two threads on one list* that is changed in place while it is drained.
5. *Blocking calls in callbacks*: the business server, the start of a session.
6. *Matching words by counting bytes* through a word list.
7. *A connection that is mended unseen*: retries, rounds of retries and
   reconnections share counters, timers and buffers, and a failure may be found
   by two threads.
8. *Synchronous calls without a predicate*, made on the very threads that must
   deliver what they wait for.
9. *Objects checked and then used* while another thread releases them.
10. *Loops around codecs* that answer `EAGAIN` by the same call, with a mutex
    held.
11. *The end of the process* while callbacks run.

`PROJECT.json` lists every hazard at its line with the property that covers it.

### What makes each component correct

- *Delay buffer:* nothing lost, doubled or overtaken; the total is what the list
  holds; `front()` is defined; nothing overdue stays; an audio packet leaves
  only after the delay's worth of audio; one header before any packet; a push
  ends; it implements a delay line.
- *Search:* each segment spans the recogniser's words that the hit touches; no
  occurrence survives untouched; the search ends.
- *Reader, front end, sessions:* the sessions hear the stream in order; a
  reported word that is still in the buffer is muted although a packet was
  lost; little else is; no session stops the reader; the current request is one
  that was started, and takes audio again after failures.
- *Connection of a request:* it never sleeps for good; commands reach the
  gateway in order; tries are bounded; no socket is lost; each thread tells the
  user a legal sequence of events, and after a cancel at most what it had
  decided on; a start is answered. That mending is bounded holds only while one
  thread reports failures.
- *Synchronous start:* success means that the request was heard of; nobody waits
  for ever, whichever thread calls it.
- *Registry:* an entry is alive; nothing is deleted twice; a release ends.
- *Process:* the recogniser's clock follows the sound; the loops around the
  codecs end while the codec answers as it should; no callback outlives what it
  uses.

## 2. The modules

| module | models | proofs |
|---|---|---|
| `DelayLine` | the abstract delay line: accept, release, redact | |
| `Delayer` | class `Delayer` with the reader inside `flush` | `DelayerProofs` |
| `HitDict` | `Dictionary::loadFromFile`, `removeSpaces`, `Asr::hitDict` | `HitDictProofs` |
| `Relay` | the reader and the callbacks of all sessions around the buffer | `RelayProofs` |
| `SyncCall` | `NlsEventNetWork::start` as a synchronous call, from `main` and from callbacks | `SyncCallProofs` |
| `Session` | the abstract session: what the user of a request is told | |
| `Node` | one request with its `ConnectNode`: work thread, callers, reconnection | `NodeProofs`, `NodeSafetyProofs` |
| `Registry` | `NlsNodeManager`, `releaseRequest` and `destroyConnectNode` | `RegistryProofs` |
| `Process` | `main` from its arguments to its destructors, with the codecs | `ProcessProofs` |

The modules named `MC...` give the constants their values for TLC. `Relay` takes
from the modules below it what a user of them sees: `Delayer`'s `AudioLead`,
`HitDict`'s windows, `Node`'s order of callbacks and status changes with its
hidden failures, and `SyncCall`'s start that may end by a timeout.
The definitions marked "(variant: ...)" are the same operations with a slip in
them; `PROJECT.json` pairs each with the property that notices it. No
specification uses them.

### Delayer

The variables with the code's names are the members of the class. `pc` is the
reader's place in a push, and says who holds `m_mutex`: a replacement is
possible only when it is free, and so one action. A push is `Push` (lock,
`push_back`, `+=`), `FlushStart` (the `if`), then turns of the loop:
`FlushHandshake`, `FlushWrite`, `FlushEnd`. A failed handshake is `exit(-1)`;
`front()` of an empty list is `pc = "undefined"`. The total is an `int`
(`ToInt`). The replacer may fail on any packet, and then leaves it as it is.
`clock`, `input`, `written` and `headers` are the outside world, kept to state
the properties. The input is interleaved: FFmpeg gives the packets of a live
stream so that neither stream runs ahead by more than `Skew`.

`DelaySec` is an integer and not a natural number, because `main.cpp:76` takes
`atoi` of the argument unchecked. With a negative one the limit is negative, the
loop writes the one packet it has, finds 0 still above the limit and takes
`front()` of the empty list. `NoFrontOfEmpty` and `PushReturns` therefore say
"if the delay is not negative"; the other properties do not need to.

`DelayLine` promises less than the class does and all its users need: order,
that a packet leaves only when more than the limit has followed it, and that
only what has not left is redacted. `ImplementsLine` is the refinement, with
the packets written as `released` and the silenced ones as `redacted`.

### HitDict

Text is a sequence of bytes. A word of the recogniser's list is the interval of
the sentence's bytes it covers (`from`, `to`) and its times; the code sees its
length only, `to - from`, and the properties know which bytes it was. `FindHit` is
one success of `std::string::find`, `WalkBefore` and `WalkInside` are the two
branches of the inner loop, `WalkEnd` its end and the `push_back`.
`HitDictAssumption` says that no line of the dictionary is empty, as in
`dict.txt` (an empty one makes the search endless), and that the word
list is the sentence without its spaces: the relay asks for neither punctuation
nor rewritten numbers (`asr.cpp:239-241`).

### Relay

A *session* is one request with its connection. All sessions ever started stay,
because `m_request` is overwritten and not released. `node[s]` is the status of
its connection, `recon[s]` whether the SDK says that it is reconnecting,
`mended[s]` whether it ever was on a second connection, `heard[s]` the packets it
took. `call[a]` is the callback that a thread runs: a work thread (`Worker`), or
the reader's own (`Main`), which runs callbacks when a send of its fails.

Per packet the reader makes four steps, `ReadFrame` (with the load of
`m_request`, or the error of a codec), `SendAudio`, `SetBase`, `PushAudio`, and
the steps of callbacks fall between any two of them. A send has five ends:

- `SendTaken`, in a started session;
- `SendRefused`: not started yet, too much in the `evbuffer`
  (`connectNode.cpp:1172`), or the encoder fails. It is reported as taken while
  `recon[s]` (`iNlsRequest.cpp:91-99`), and that is not only so while the SDK
  mends a connection but from each start command to its started event
  (`connectNode.cpp:1287`, `1846`). The time base may then be that of a packet
  which nobody heard, although the header says that a failure returns a
  negative value (`speechTranscriberRequest.h:346`);
- `SendMends`: the socket fails and the SDK hides it;
- `SendFails`: the socket fails and `TaskFailed` and `Close` are told inside
  `sendAudio`, on the reader's thread (`connectNode.cpp:1207-1209`), which then
  runs `Asr::start` twice, with `_mtxThread` and the wait, before the packet gets
  into the buffer;
- `SendNull`: a restart whose request could not be created left `m_request`
  NULL (`asr.cpp:200-203`). The SDK may notice or the process may crash.

A callback of a sentence is `onSentenceEnd`, `RpcReturns`, `getTimeBase`,
`LockBuffer`, `replaceAudioPacket`, `RpcReturns`. One of a failure is
`onTaskFailed` (or `SendFails`), `CreateRequest` (which replaces `m_request`, by
NULL if the registry refuses), `CallStart` (which starts what is in `m_request`
then: another thread may have been there in between), `StartLocks` (the mutex,
and what `NlsEventNetWork::start` does for the status that it finds: deal a new
request out, start a closed one again, leave one in use, refuse a failed one),
`StartReturns`, and `CallbackEnds` (status changed only now,
`connectNode.cpp:1859`); then `ClosesAfter` tells `Close`, with the same.
`onChannelClosed` comes alone after a frame that cannot be read. Sessions are
dealt out to the threads in turn and a thread runs one callback at a time. That
`start()` inside a callback may end by its timeout, as it must when the new
session has the same thread, is in `StartReturns`, which waits for nothing.

A connection is `SendStart` and `onTranscriptionStarted`; `Mends` is a failure
that is hidden, `Reconnects` what the SDK makes of it: a new connection, or, as
run `node_silent` shows, nothing (`"silent"`).

What the module abstracts: a packet is its number and `Pts(k)` its time; a word
is a packet of `Bad`; its times are those of its packet counted from the first
packet the session took, and up to `MaxDrift` packets off once the session was
mended, since the SDK then goes on from the time of day; of the delay buffer
only the audio and only `AudioLead` remain, and of its mutex that nothing else
enters while a callback is `"locked"`. A sentence with several words is several
sentences, which allows every order that the loop does. The two events of a
failure are both told or both hidden; a packet is heard whole or not at all; the
request for a token, before `CreateRequest`, returns. A crash ends the model.

What is *not* promised, and so not stated. After a restart the windows may be
anywhere: `MutedInTime` and `OnlyAround` are about the first session until its
first failure is told. In a session that was mended the clock has no bound. Of
the packets lost in a session each makes the windows earlier by its length; one
is within the margin of 200 ms, and `MutedInTime` is not stated for more, while
`OnlyAround` gives the error for any number. And a failed task has two callbacks
(`asr.cpp:12-28`) each of which starts a session: one of the two is left running
without audio until the server ends it, when the same happens again, or, when
two threads restart at once, is never started. `NeverLeft` and `Recovers` are
about the one in `m_request`.

### Node and Session

`status` is the `ConnectStatus`, `exit` the `ExitStatus`, `recon` the
reconnection's state and count, `cmd` and `audio` the two output buffers;
`armed` is the set of libevent's events that may fire. A handler is a list of
steps in `todo` of its thread: the work thread's, and that of the one caller
that sends audio and stops. `start` and `cancel` come at any time, also from
inside a callback. A step is as much as the code does without a look at a field
that another thread writes, so that an event for the user is `Check` (the exit
status), `Tell` (the callback, or its suppression by
`ignoreCallbackWhenReconnecting`) and `AfterClose`/`AfterOther` (what is set
behind it); a frame of the gateway is `ReadStarted`, `ReadCompleted`,
`ReadTaskFailed` or `ReadDirty` with `SetStarted` and `SetEnded`. A round of
connecting is `Launch`, `DnsConnect`, `Resolved`, `Connect`, `ConnectReady`,
`SslWaits`/`SslEnds` and `NodeRequestProcess`; failures go back by `Again` or
end in `Report`, `Close` and `Destroy`.
The gateway is `peer`: it takes each command in its place, and of one out of
place it can make nothing (`"lost"`).

A way to use the request is a record of `Uses`: whether the SDK mends
(`setEnableContinued`), whether a connection outlives its session, which calls
are made, and the bounds on sessions, sends and network failures.

`Session` lets each reporter tell `Started* (TaskFailed | Completed)? Close` and
nothing after its `Close`. It has one reporter for each thread, since that is
what the code gives: a failing send of the caller and a failure that the work
thread reads may each be reported, and the user may see two `Close`.

What is *not* promised, and so not stated. For the second session on a request
only `TriesBounded`, `NoSocketLost` and `OneLateCallback` are
(`FirstOnly` restricts the others), because the caller may still be closing the
first when the user, told of its `Close` by the work thread, starts again; that
`Close` then falls into the second session. With reconnection, or in a second
session, a command that could not be sent stays in the buffer and is the first
thing that the next connection gets, before its handshake; `InOrder` is
stated without.

`TriesBounded`, `NoSocketLost`, `NeverDeaf` and `TellsSession` are stated for
the uses that are `Orderly`: one session without reconnection, with any sends;
or no sends, and if the SDK mends, one session or several on one connection that
are never stopped. In other uses two threads may report the failure of one
connection, and TLC shows what follows when the guard is taken out:

- Audio is sent and the SDK mends, as the relay does. A send fails in
  `sendAudio` on the caller's thread while the work thread finds the failure
  too. Both make `TaskFailed` and `Close`; one failure is hidden and counted,
  and the `Close` of the other is told, which resets the count of
  reconnections, so that a session is mended more than `max_try_count` times:
  this is run `node_mends`. That `Close` also resets `_retryConnectCount` while
  the reconnection dials, which then makes more than `RetryConnectCount` tries;
  and a late `disconnectProcess` of the caller closes the socket of the new
  connection, with the session open and nothing that reads.
- Audio is sent and a second session follows. The caller's `Close` of the first
  session resets the count of connects of the second.
- The SDK mends a second session and the request is stopped, or the connection
  does not outlive a session and a start is refused while a reconnection is due
  (`StartRefused` sets the status to `NodeCreated`, from which the next start is
  accepted). Launch and reconnection are then both armed and both dial, so that
  the bounds are exceeded and a socket is overwritten.

The relay's own use is of the first kind, and what `node` and the theorems say
of reconnection (`NeverDeaf`, `TriesBounded`, `MendingBoundedAlone`) covers it
only until a send of audio fails.

`TriesBounded` counts the tries of a launch, each with an address and a socket
of its own. Within a try `connectEventCallback` calls `connect` again on the same
socket when `SO_ERROR` is set (`workThread.cpp:526-531`), and may then wait for
the socket again (`411-416`); neither the code nor `attempts` counts that, and
nothing bounds it. In the model it is the second part of `ConnectReady`, and the
faults bound it. `Push` may refuse a packet, as `addAudioDataBuffer` does when
the `evbuffer` is full; what that does to the relay is in `Relay`.

### SyncCall

`start[t]` is the `NlsEventNetWork::start` that thread t is in and `event[t]`
the event whose callback it runs; a callback's start goes first. `lock` is
`_mtxThread`, held from `StartLocks` to `StartReturns`. `StartWaits` is the
moment from which a signal is heard, `Signal` wakes who waits for this request
and is lost otherwise. `Fails` leaves the node's error code alone in the case
of a failure that the gateway reports: `parseFrame` does not set it, so that a
start may return 0 for a session that was refused, and `SuccessHeard` says only
that it was told.

### Registry

The registry is a map from addresses, and one address is enough for what the
threads do to one another; a request is known by the uuid of its node. `entry`
is what the registry has and `object` what lives there. A thread that uses the
address when nothing lives there is at `"wild"` and does no more; that the code
can come there (a callback checked and then used a node which a release deleted
after its one second of waiting) is no property here, and neither is what
`destroyConnectNode` goes on with after its `delete`. `EntryAlive` and
`DeletedOnce` exclude (`Guarded`) that `destroyConnectNode` ends requests and the
guard cannot be relied on: it was not got within its two seconds and the release
goes on without it, or the address has a new request while a thread goes on that
took no guard for the old one. `destroyConnectNode` does not look at what
`removeRequestFromInfo` answers, so that both may then delete the request.

### Process

`main` is the place of the main thread and `work` that of a work thread. A codec
holds `latency` inputs before it gives one out, and refuses input when it has
output, as libavcodec does. A loop that answers `EAGAIN` by the same call is a
step that is not enabled; the loops that then give the input once more are
`ReceiveAgain` and `MuteAgain`. The code ignores what comes of that
(`asr.cpp:340`, `replacer.cpp:185`, `236`): an input that is then refused with
another error, such as a short frame after a short frame, or of which nothing
ever comes, is given again for ever, in the replacer with `m_mutex` held. The
codec is then `dry` (`FeedAgain`) and the loop has no end; `CallsEnd` is about
codecs that are not.

The end is `WriteTrailer` (undefined when nothing was ever written, since the
header is the first packet's), `ReleaseInstance`, `DestroyThread` for a turn of
the loop in `~WorkThread`, `ForceDestroy`, `JoinThread` and `DeleteRequest`,
which uses the work thread that was just deleted and may do anything.
`ForceDestroy` takes the request out of the list and stops in its destructor, as
below. A callback that restarts a session while `releaseInstance` has
`_mtxNlsClient` waits for it, and `JoinThread` waits for the callback
(`nlsClient.cpp:63`): the model stops there too.

## 3. The runs

| run | checks | bounds |
|---|---|---|
| `delayer` | `TypeOK`, `InOrder`, `TotalIsHeld`, `NoFrontOfEmpty`, `NothingOverdue`, `AudioLead`, `HeaderFirst`, `ImplementsLine`, `PushReturns` | 7 packets of 300 or 700 ms, delay 1 s, skew 700 ms, `IntMax` = 3400; 112,639 states |
| `hitdict` | `TypeOK`, `SegmentsExact`, `NoneIntact`, `Terminates` | all sentences of up to 4 bytes over two letters, with a space anywhere, cut in every way; 4 dictionaries; 72,286 states |
| `relay` | `TypeOK`, `InOrder`, `MutedInTime`, `OnlyAround`, `NeverLeft`, `ReaderGoesOn`, `Recovers` | 2 work threads and the reader's; 3 packets, 1 fault, first pts 0 or 100, and 1 packet, 2 faults; 5 sessions; 698,733 states |
| `relay_failed` | `NoAudioAfterFailure`, which fails | as `relay` |
| `node` | `TypeOK`, `NeverDeaf`, `InOrder`, `TriesBounded`, `NoSocketLost`, `OneLateCallback`, `TellsSession`, `StartAnswered` | four uses, 2 tries in a round, 1 reconnection, up to 2 sessions, 2 sends, 3 to 8 network failures; 290,354 states |
| `node_silent` | `Answered`, which fails | as the relay uses a request, 4 failures |
| `node_mends` | `MendsBounded`, which fails | as the relay uses a request, with a send, 6 failures |
| `node_cancel` | `CancelSilences`, which fails | one session, one send, 1 failure, a cancel |
| `synccall` | `TypeOK`, `SuccessHeard`, `SelfWaits`, `Settles` | 2 work threads, 2 failures, 5 requests; 120,428 states |
| `registry` | `TypeOK`, `EntryAlive`, `DeletedOnce`, `ReleaseEnds` | 2 users, the work thread, 3 requests at one address, in each of 8 ways; 183,168 states |
| `process` | `TypeOK`, `ClockAhead`, `NoUseAfterEnd`, `CallsEnd` | 4 packets, a buffer of 2, codecs that hold 0 or 2, 1 error, 2 hits; 232,773 states |
| `process_end` | `DestroyEnds`, which fails | as `process` |

**Bounds.** In `delayer`, three packets of 700 ms and one more cross the limit,
and seven packets cross it several times, with more than one packet written in
a push; `IntMax` is the least value that `DelayerAssumption` admits, so that an
unbalanced total would wrap. In `hitdict` four bytes are enough for a word that
overlaps itself, for hits that begin or end inside a recogniser's word, and for
a word inside another; `MaxBytes` is the bound.

In `relay`, `MaxPackets`, `MaxFailures`, `MaxSessions` and `MaxDrift` are
bounds, and `Inputs` says which of them go together. Three packets with a delay
of one let a bad packet leave unmuted, be muted, be lost before the session
starts with its time as the base, or be in the buffer in a later session; the
first pts is 0 in some behaviours and 100 in others, for the two meanings of 0.
With two faults the restarts of two threads meet, those of the reader's failed
send included, while it has its one packet in hand. A failure costs two
sessions, so `MaxSessions` is one and two for each failure, and a restart is
never held up by the bound.

In `node`, two tries in a round and one reconnection (4 and 4 in the code)
are enough for a retry, for a round that is given up, for a reconnection that
succeeds and for one that fails; eight failures exhaust both twice. The four
uses of `node` are chosen so that each brings its own behaviour, and all are
`Orderly`: a caller's sends against
the work thread, a mended session with cancel, two sessions on one connection,
two that are mended. `NodeAssumption` says what the constants are. In
`synccall` two threads are the hard case, since the second request of a failure
is dealt to the thread of the first or back to its own; five requests are one
and two for each failure. In `registry` two users release one request at the
same time, and the third request has an address that was used twice; the uses
are who may end a request, whether waits time out and whether addresses come
back, in all combinations. In `process` the buffer
is shorter than the input, so that packets are written before, during and after
a mute; latencies differ between the three codecs; `TryCount` is even, as 500 is
(the loop takes it down by two, and its parity decides how it ends).

**Deadlock** is not checked: the input ends, a sentence's search ends, sessions
end, requests are released, the process may exit. Where waiting for ever is the
question, a liveness property asks it (`Settles`, `ReleaseEnds`, `CallsEnd`).

**Fairness.** `delayer`: the reader goes on inside a push, if the output's open
and write return (`WF(flush)`). Nothing is assumed of pushes or replacements.
`hitdict`: the thread runs. `relay`: until a crash the reader runs
(`WF(Reader)`), a thread finishes what it began (`WF(Callback(a))`; the wait for
a new session ends by its timeout at the latest), and the SDK goes on with a
connection that was asked for (`WF(Connection(s))`), to a started session or,
when it mends, to a new connection or to nothing. Not assumed is that a session
starts, or ends visibly, nor that the business server answers: `RpcReturns` has
no fairness, since the calls have no deadline. That is why `Recovers` excuses a
thread that hangs there and a session that is `"silent"`, while `ReaderGoesOn`
needs no excuse but the crash. `node`: both threads run; libevent fires an event
that is ready or has timed out; a TLS handshake that goes on ends some time
(`SF(SslEnds)`, since `SslWaits` and the timer alternate with it); the gateway
answers a command or the connection breaks. Nothing makes a user call stop,
cancel or send. `synccall`: threads run, a wait times out (10 s), a free mutex is
taken by somebody (not by everybody, and `Settles` does not need it), the loop
of a work thread takes up what is ready. `registry`: threads run, and the waits
of the uses with `late` time out. `process`: `main` and what a work thread has
begun go on; no session need fail and no word be found.

### The five properties that fail

`NoAudioAfterFailure` is what the SDK's demo says of `onTaskFailed`: from then
on `sendAudio` returns a negative value
(`demo/Linux/speechTranscriberDemo.cpp:816-817`). The status changes only after
the callback, and the relay's callback resets the time base and then waits for
a new session. A packet that the reader sends meanwhile goes to the old session
with success and becomes the new time base; the new session's windows are then
early by the length of the restart. That is why `MutedInTime` and `OnlyAround`
are stated for the first session.

`Answered` is what the SDK's header says of `start`: a started event or
`TaskFailed` (`speechTranscriberRequest.h:303`). With `setEnableContinued(true)`
(`asr.cpp:227`) a failure is hidden and a reconnection armed. Until the
reconnection sends its start command its state is `TriggerReconnection`; when
its connects fail before, that state hides the failure again, and a new
reconnection is armed only in `WillReconnect` (`connectNode.cpp:3494`,
`3571-3585`). Nothing is armed and nothing reported, and the relay, which
restarts a task from its callbacks, goes on without recognition.

`MendsBounded` is the limit of the record of a node's reconnection, `enum {
max_try_count = 4, ... }` (`connectNode.h:222-225`): no more than that many
failures in a row are hidden. In the relay's use, which sends audio on a session
that the SDK mends (`asr.cpp:227`, `330`), two threads may report the failure of
one connection. One failure is hidden and counted; the `Close` of the other is
told, and what follows it arms the reconnection and sets `reconnected_count` to
0 (`connectNode.cpp:1959-1963`). The run has the limit 1 and a session that is
mended twice. `MendingBoundedAlone` is the bound for failures that only the work
thread reports.

`CancelSilences` is what the header says of `cancel`: no callback after it
(`speechTranscriberRequest.h:328`). `handlerEvent` looks at the exit status and
calls the user later, with no lock over both (`connectNode.cpp:1980`, `2035`). A
cancel that comes in between returns, and the callback follows. One such
callback for each thread is all: `OneLateCallback`, in `node`.

`DestroyEnds` is the third step in the comment on `~WorkThread`: beyond the
limit of tries all requests are destroyed by force and the list emptied
(`workThread.cpp:189`), and then the thread is joined. The relay never stops its
session, so the limit is reached at the end of the input. The request is taken
out of the list, and `delete request` is called with `_mtxList` locked; through
`~ConnectNode` (`connectNode.cpp:221`) the same thread locks it again
(`workThread.cpp:241`). The destructor does not return and the process does not
end.

## 4. The proofs

All theorems hold for every value of the constants that the named assumption of
the module admits: any delay, durations, skew, windows and number of packets
(`DelayerAssumption`: a total of the limit and two packets fits the `int`), any
dictionary and results (`HitDictAssumption`), any packet length from the 20 ms
of the SDK's frame to half of the 200 ms margin, any first pts, delay, number of
threads, faults and sessions (`RelayAssumption`), any number of work threads,
failures and requests (`SyncCallAssumption`), any set of users, requests and
ways of use (`RegistryAssumption`), any arguments, input, latencies, buffer and
errors (`ProcessAssumption`), any counts of connects and reconnections and any
set of uses (`NodeAssumption`).

**`DelayerProofs`.** The inductive invariant adds to the properties that every
packet's arrival mark continues the one before it and keeps within the skew
(`Marks`), that inside a push the list is not empty, if the delay is not
negative, and the total never above the `int` (`Bounded`), that more than the limit of both streams together has
followed each packet written (`StreamLead`, from which `AudioLead` follows with
the skew), and that the header was written when the handshake is done
(`Header`). `TotalIsHeld` is what ties the total to the list: were the list to
run empty in the loop, the total would be 0, and if the delay is not negative
the loop stops before `front()` is taken of nothing. That condition is in
`NoFrontOfEmpty` itself, since the program does not check the delay. The
theorems are `TypeCorrect`, `OrderKept`, `TotalIsExact`, `FrontAlwaysThere`,
`FlushIsThorough`, `HeaderComesFirst`, `LeadKept` and `Refinement`: each step of
`Delayer` maps to a step of `DelayLine` or to a stutter.

**`HitDictProofs`.** The invariant says of the inner loop where the cursor is:
`cnt` is the end of the words walked so far, `start` belongs to the word that
holds the first byte of the hit, `prev_end` to the last walked (`Walk`); and of
the outer loop that every occurrence before `end_pos`, and every one of a word
already dealt with, is touched (`Search`). The theorems are `CursorsInRange`
(the types), `ReportsAreExact` and `SearchIsComplete`.

**`RelayProofs`.** The invariant is in parts. `Place` says where the reader is:
in a callback only while its send has not returned. `Order`: a session that was
not created has heard nothing, and the reader's copy of `m_request` is no older
than any that has; `Behind`: what was heard was sent before. These two carry
`InOrder`. The rest is about the first session while it is in use. `Alone`:
as long as `m_request` is the first request no restart has come further than
its callback's first line, so that nobody else is used. `Holes` is what is true
of what a session hears when packets may be refused or lost: between the first
packet that `sendAudio` said it took and the one the reader is at, the i-th
packet heard has at least i - 1 before it and leaves as many behind it as were
heard later, so that the place of a word in what was heard differs from its
place in the stream by no more than `Lost`. `FirstBase` says that the base is 0
until it is set, and then that of the first packet taken, or later by at most
the packets lost and one if the stream begins at time 0 (`Near`, `Late`);
`Unset` is the moment between the send and the assignment. `Word` says that
silence followed the word that a callback deals with, so that at least two
packets were heard and the base is set; `FirstWord` carries that into the base
the callback has read. The window follows: each packet lost makes it earlier by
a packet's length, one of which the margin covers. No lemma assumes that a
packet is heard because `sendAudio` said so. The theorems are `TypeCorrect`,
`SessionsInOrder`, `FirstSessionMutes` and `FirstSessionSpares`.

**`SyncCallProofs`.** `SuccessHeard` is not inductive: that a start returns 0
rests on who woke it. The invariant adds the shape of starts, events and
requests (`Shape`: the thread in a start is the caller of its request, whose
result is open; an event is on the thread that its request is dealt to; a
request that is not invoked has no thread), that a start which was woken and did
not time out has heard of its request (`WokenHeard`), and that a request dealt
to its own caller's thread has timed out or keeps that thread in its start,
where no event of it can be delivered (`Own`). The theorems are `TypeCorrect`,
`SuccessIsHeard` and `OwnThreadTimesOut`.

**`RegistryProofs`.** That an entry is alive rests on who is to delete it:
`Deleter` says that this thread has taken the entry out, that the request lives,
and that it is alone. For users this follows from `Remove`, which looks at the
answer. For `destroyConnectNode`, which does not, the invariant needs the guard:
once the request is started, whoever is between the guard and its end has it
(`InGuard`), and nobody that went in without it, before the start, is still
there (`OneStart`). The theorems are `TypeCorrect`, `EntriesAlive` and
`NothingDeletedTwice`.

**`ProcessProofs`.** `ClockAhead` speaks of what was heard; the invariant adds
what the decoder still holds (`Clock`): it follows what was heard in order and
would not be too early if it came next, because less was heard than read while
the reader is with a packet, and the decoder takes an input only when it holds no
more than its latency. `Stock` (every packet read is in the buffer or has left)
and `Turns` carry the types, `Ended` says that the destructors come to the
members only after the work thread's end. The theorems are `TypeCorrect`,
`ClockStays` and `CallbacksOver`.

**`NodeProofs`.** What happens next to a node is in `todo`, what is left of a
handler, and no property of it is inductive without knowing what can be there.
`WorkRest(e, r)` says which steps r may follow the step e on the work thread,
`CallRest` on the caller's (a `TaskFailed` is followed by a `Close`, with the
close of the socket before or after it; what is set behind a callback follows
it; an unlock ends a stop). `Planned`, that both lists are such, is inductive,
because the rest of such a list is one again. With the types it is `Sound`, and
there is one lemma for each action (`LaunchStep`, `TellFields`, ...) that says
what the step was, what comes next and that `Sound` holds again; the other
proofs use these and do not look into lists. `Quiet` says that a callback which
is late was decided on before the cancel, so that the thread is no longer at
`"tell"`, and what follows it is a look at the exit status. The theorems are
`TypeCorrect` and `CancelLeavesOne`, for every use.

**`NodeSafetyProofs`.** It says what the status, the socket, what is armed, the
buffer, the gateway and the next step have to do with one another. Two kinds of
use need two invariants. `Once` is for one session without reconnection, where
the caller may send, stop and report while the work thread does the same
(`Plain`). Until the launch the node is as it was made (`BeforeLaunch`); while
it dials it does one thing or waits for one event, the caller has nothing to do,
and the tries made are those counted (`DialPhase`); after that the socket is
read (`Sock`, `Heard`); what the gateway has had, what is in the buffer and
what is done next agree (`Opening`, `Running`). `Lone` is for uses where no audio
is sent (`Alone`), with any number of sessions and reconnections. Between
sessions a connection may stay open, and `Resting` says that nothing of the old
session is then under way; `Dialling` says what the socket is while it dials, so
that a connect finds it closed, and that no launch or reconnection is due
besides; `Sending`, what may be in the buffer; `Mended` ties the reconnections
made to the count: where one is due, the count is one ahead and within the
maximum, and after the last `Close` none is due; `Listening` carries `NeverDeaf`
through a reconnection. `Unmended` says that without the setting nothing is
mended. `Orders` is all of it, each part under its kind of use, and
`OrderlyUses` that an orderly use is of one of the kinds. The theorems are
`CommandsInOrder`, `TriesStayBounded`, `MendingBoundedAlone`, `SocketsKept` and
`NodeHears`. `MendingBoundedAlone` has its condition in its statement: the use
is orderly and sends no audio. Before they were proved `Once`, `Lone` and `Unmended` were checked
with TLC on the uses of `MCNode` and on more of their kinds, which is how the
uses that are not orderly were found.

**Only model-checked:** the liveness properties (`PushReturns`, `Terminates`,
`ReaderGoesOn`, `Recovers`, `StartAnswered`, `Settles`, `ReleaseEnds`,
`CallsEnd`), which need fairness and `ENABLED`; the refinement `TellsSession`;
and the five properties that fail; and `NeverLeft` of `Relay`, whose proof would
need what every start that is under way may find in `m_request`.

## 5. What is not modelled

*Of the relay:* video in `Relay` (it is in `Delayer`); several words in one
`onSentenceEnd` as one callback; a codec that gives several frames for a packet;
the parameters of the resampler; the token and the torn reads of `m_expireTime`
and of the pointer to the business client. A frame that the decoder loses makes
every later window of the session early, and `ClockAhead` bounds the clock in
the other direction only; the code has nothing that would bound it here.

*Of the SDK:* the waits of a synchronous stop and cancel, and wake-ups of a
condition variable without cause; a stop before the launch, after which no event
comes; the wake-word, dialogue and text-to-speech commands, `stControl`,
`sendText`, `sendPing` and `sendFlush`, which the relay does not call; the
recording of timestamps; the thread of a system DNS lookup and what the address
cache holds (it may be used or not); the VIP server; results in mid-session, which
change no state of the node. An end of file on a long connection between two
sessions leaves the read event armed and ready (`workThread.cpp:1311-1317`): the
node stays as it is and the loop turns; no session is affected, and it is left
out.

*For good:* byte formats, WebSocket framing, TLS, Opus, JSON and the setters of
parameters hold no state that a property is about; the token service is one HTTP
request; the other features of the SDK (recogniser, synthesiser, dialogue) are
not used by the relay; the demos, the C# wrapper, generated gRPC code and
`test/test.c` are no part of it. Most of the repository's lines are these.

## 6. Plan

The system's parts that hold state are modelled. What is worth doing next, in
this order:

1. `NeverLeft`: the invariant has to say, for each thread in a restart, what the
   others may have put into `m_request` since and which of them will start it.
2. `TellsSession`: that each thread tells `Started`, one end and one `Close` in
   this order needs, on top of `Once` and `Lone`, what `told` says of each thread
   beside its list. The steps of `Session` are then those of `Tell`.
3. How far the windows are off after a restart or in a mended session, as a
   bound that depends on the length of the restart.
4. Uses that are not `Orderly`: which bounds do hold when two threads report a
   failure, for the relay's own use first.
