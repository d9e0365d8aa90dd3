-------------------------- MODULE NodeSafetyProofs --------------------------
(***************************************************************************)
(* What a session does and what it never does, for the uses of a request   *)
(* that are Orderly: commands in order, connects and reconnections bounded,*)
(* no socket lost, nothing deaf. Two invariants carry it, on top of Sound  *)
(* of NodeProofs: Once, of a single session without automatic reconnection,*)
(* where the caller's thread may send audio and stop and so report; and    *)
(* Lone, of uses where the work thread reports, with any number of sessions*)
(* and of reconnections. Each is kept by each action; the lemma of an      *)
(* action first says what is seen of the lists before and after, what the  *)
(* action leaves alone and what it does, and then takes the parts of the   *)
(* invariant one by one. Steps are seen by their heads: Now(t) is the step *)
(* that t takes next, Closing and Ending what is left after it.            *)
(***************************************************************************)
EXTENDS NodeProofs

-----------------------------------------------------------------------------
\* What the next step says of the list that it begins.
ViewOf(q, c) ==
  /\ First(q).op \in Single \cup Told \cup {"none", "reconnect", "close", "set"}
  /\ First(q).op \in Single \cup {"none", "reconnect"} => ~HasClose(q)
  /\ First(q).op = "set" =>
       First(q).ev \in {"Started", "TaskFailed", "Completed"}
  /\ First(q).op \in {"set"} \cup Told
       /\ First(q).ev \in {"Started", "Completed"} => ~HasClose(q)
  /\ First(q).op = "set" /\ First(q).ev = "TaskFailed" => HasClose(q)
  /\ First(q).op = "close" => HasClose(q)
  /\ First(q).op \in Told => First(q).ev \in UserEvents
  /\ First(q).op = "check" => First(q).ev \in {"TaskFailed", "Close"}
  /\ First(c).op
       \in Told \cup {"none", "push", "control", "disconnect", "unlock"}
  /\ First(c).op \in Told => First(c).ev \in {"TaskFailed", "Close"}

LEMMA ShortClose ==
  /\ \A x : ~Closes(x) => ~HasClose(<<x>>)
  /\ \A x, y : ~Closes(x) /\ ~Closes(y) => ~HasClose(<<x, y>>)
  /\ ~HasClose(<<>>)
<1>1. ASSUME NEW x, ~Closes(x) PROVE ~HasClose(<<x>>)
  <2>1. Len(<<x>>) = 1 /\ <<x>>[1] = x
    OBVIOUS
  <2> QED
    BY <1>1, <2>1 DEF HasClose
<1>2. ASSUME NEW x, NEW y, ~Closes(x), ~Closes(y) PROVE ~HasClose(<<x, y>>)
  <2>1. Len(<<x, y>>) = 2 /\ <<x, y>>[1] = x /\ <<x, y>>[2] = y
    OBVIOUS
  <2>2. \A i \in 1..2 : i = 1 \/ i = 2
    OBVIOUS
  <2> QED
    BY <1>2, <2>1, <2>2 DEF HasClose
<1>3. ~HasClose(<<>>)
  BY DEF HasClose
<1> QED
  BY <1>1, <1>2, <1>3

\* The caller's list, too, begins with one of few steps.
CallHead(c) ==
  c # <<>> =>
    /\ Head(c).op \in Told \cup {"push", "control", "disconnect", "unlock"}
    /\ Head(c).op \in Told => Head(c).ev \in {"TaskFailed", "Close"}

LEMMA ListView ==
  ASSUME NEW q \in Seq(StepType), NEW c \in Seq(StepType),
         WorkList(q), CallHead(c)
  PROVE  ViewOf(q, c)
<1> DEFINE e == First(q)  d == First(c)
<1>1. /\ q = <<>> => e = Step("none") /\ ~HasClose(q)
      /\ c = <<>> => d = Step("none")
  BY ShortClose DEF First
<1>2. ASSUME q # <<>>
      PROVE  /\ e \in StepType /\ e = Head(q) /\ WorkRest(e, Tail(q))
             /\ HasClose(q) <=> Closes(e) \/ HasClose(Tail(q))
  BY <1>2, HasCloseRec, HeadTailProperties DEF First, WorkList
<1>4. /\ ~HasClose(<<>>) /\ ~HasClose(<<Step("dns")>>)
      /\ ~HasClose(<<FlushFrame>>) /\ ~HasClose(<<Set("Started")>>)
      /\ ~HasClose(<<Set("Started"), FlushFrame>>)
      /\ ~HasClose(<<Set("Completed")>>)
  BY ShortClose, Fields DEF Closes
<1> HIDE DEF e, d
<1>6. ASSUME q # <<>>, e.op \in Single \cup {"reconnect"} PROVE ~HasClose(q)
  <2>1. Tail(q) = <<>> \/ Tail(q) = <<Step("dns")>>
    BY <1>2, <1>6 DEF WorkRest
  <2>2. ~Closes(e)
    BY <1>6 DEF Closes, Single
  <2> QED
    BY <1>2, <1>4, <1>6, <2>1, <2>2
<1>7. ASSUME q # <<>>, e.op \in {"set"} \cup Told,
             e.ev \in {"Started", "Completed"}
      PROVE  ~HasClose(q)
  <2>1. \/ Tail(q) = <<>> \/ Tail(q) = <<FlushFrame>>
        \/ Tail(q) = <<Set("Started")>> \/ Tail(q) = <<Set("Completed")>>
        \/ Tail(q) = <<Set("Started"), FlushFrame>>
    BY <1>2, <1>7 DEF WorkRest
  <2>2. ~Closes(e)
    BY <1>7 DEF Closes, Told
  <2> QED
    BY <1>2, <1>4, <1>7, <2>1, <2>2
<1>8. ASSUME q # <<>>
      PROVE  /\ e.op \in Single \cup Told \cup {"reconnect", "close", "set"}
             /\ e.op = "set" => e.ev \in {"Started", "TaskFailed", "Completed"}
             /\ e.op \in Told => e.ev \in UserEvents
             /\ e.op = "check" => e.ev \in {"TaskFailed", "Close"}
  BY <1>2, <1>8 DEF WorkRest, StepType, Ops, Single, Told
<1>9. /\ d.op \in Told \cup {"none", "push", "control", "disconnect", "unlock"}
      /\ d.op \in Told => d.ev \in {"TaskFailed", "Close"}
  <2>1. CASE c = <<>>
    BY <1>1, <2>1, Fields DEF Told
  <2>2. CASE c # <<>>
    BY <2>2 DEF CallHead, d, First
  <2> QED
    BY <2>1, <2>2
<1>10. CASE q # <<>>
  <2>1. /\ e.op \in Single \cup Told \cup {"reconnect", "close", "set"}
        /\ e.op = "set" => e.ev \in {"Started", "TaskFailed", "Completed"}
        /\ e.op \in Told => e.ev \in UserEvents
        /\ e.op = "check" => e.ev \in {"TaskFailed", "Close"}
    BY <1>8, <1>10
  <2>2. e.op # "none"
    BY <2>1 DEF Single, Told
  <2>3. e.op \in Single \cup {"reconnect"} => ~HasClose(q)
    BY <1>6, <1>10
  <2>4. /\ e.op \in {"set"} \cup Told
        /\ e.ev \in {"Started", "Completed"}
        => ~HasClose(q)
    BY <1>7, <1>10
  <2>5. e.op = "close" \/ (e.op = "set" /\ e.ev = "TaskFailed") => HasClose(q)
    BY <1>2, <1>10 DEF Closes
  <2> QED
    BY <1>9, <2>1, <2>2, <2>3, <2>4, <2>5 DEF ViewOf, e, d
<1>11. CASE q = <<>>
  <2>1. e.op = "none" /\ ~HasClose(q)
    BY <1>1, <1>11, StepOps
  <2> QED
    BY <1>9, <2>1 DEF ViewOf, e, d, Single, Told
<1> QED
  BY <1>10, <1>11

\* What is seen of the two lists by their next steps.
View ==
  /\ Now("work").op
       \in Single \cup Told \cup {"none", "reconnect", "close", "set"}
  /\ Now("work").op \in Single \cup {"none", "reconnect"} => ~Closing
  /\ Now("work").op = "set" =>
       Now("work").ev \in {"Started", "TaskFailed", "Completed"}
  /\ Now("work").op \in {"set"} \cup Told
       /\ Now("work").ev \in {"Started", "Completed"} => ~Closing
  /\ Now("work").op = "set" /\ Now("work").ev = "TaskFailed" => Closing
  /\ Now("work").op = "close" => Closing
  /\ Now("work").op \in Told => Now("work").ev \in UserEvents
  /\ Now("work").op = "check" => Now("work").ev \in {"TaskFailed", "Close"}
  /\ Now("caller").op
       \in Told \cup {"none", "push", "control", "disconnect", "unlock"}
  /\ Now("caller").op \in Told => Now("caller").ev \in {"TaskFailed", "Close"}

LEMMA Views ==
  /\ Sound => View
  /\ Sound' => View'
<1>1. ASSUME Sound PROVE View
  <2>1. /\ todo["work"] \in Seq(StepType) /\ todo["caller"] \in Seq(StepType)
        /\ WorkList(todo["work"])
    BY <1>1 DEF Sound, TypeOK, Planned, Threads
  <2>2. CallHead(todo["caller"])
    BY <1>1 DEF Sound, Planned, CallList, CallRest, CallHead
  <2>3. ViewOf(todo["work"], todo["caller"])
    BY <2>1, <2>2, ListView
  <2> QED
    BY <2>3 DEF View, ViewOf, Now, Closing
<1>2. ASSUME Sound' PROVE View'
  <2>1. /\ todo'["work"] \in Seq(StepType) /\ todo'["caller"] \in Seq(StepType)
        /\ WorkList(todo'["work"])
    BY <1>2, TypeSplit DEF Sound, Planned, WorkList, WorkRest, Threads
  <2>2. CallHead(todo'["caller"])
    BY <1>2 DEF Sound, Planned, CallList, CallRest, CallHead
  <2>3. ViewOf(todo'["work"], todo'["caller"])
    BY <2>1, <2>2, ListView
  <2> QED
    BY <2>3 DEF View, ViewOf, Now, Closing, First, HasClose
<1> QED
  BY <1>1, <1>2

-----------------------------------------------------------------------------
\* One session without automatic reconnection, whoever reports in it.
Plain == FirstOnly /\ ~use.continued

\* Until it is launched the node is as it was made.
Unlaunched == status \in {"Created", "Invoking"}
BeforeLaunch ==
  /\ status = "Created" <=> starts = 0
  /\ status = "Created" => exit = "Invalid" /\ armed = {}
  /\ status = "Invoking" => armed = {"launch"}
  /\ Unlaunched =>
       /\ Now("work").op = "none" /\ Now("caller").op = "none"
       /\ ~fd /\ ~connected /\ retry = 0 /\ attempts = 0 /\ ~isStop
       /\ cmd = <<>> /\ peer = "none"
  /\ "launch" \in armed => status = "Invoking"
  /\ "reconnect" \notin armed
  /\ recon.state \notin {"WillReconnect", "TriggerReconnection"}

\* While the node dials it has one thing to do, or one event to wait for, and
\* its connects are counted; the socket is there when a connect has made it.
DialStatus == {"Invoked", "Connecting", "Connected"}
DialOps == {"dns", "connect", "ssl", "reconnect"}
Dials == {"dns", "connect", "timer"}
Fails(t) == Now(t).op \in Told /\ Now(t).ev \in {"TaskFailed", "Close"}

DialPhase ==
  /\ status \in DialStatus =>
       /\ Now("caller").op = "none" /\ cmd = <<>> /\ peer = "none"
       /\ ~isStop /\ ~Closing
       /\ \/ Now("work").op \in DialOps \cup {"none"}
          \/ Now("work").op = "destroy" /\ exit = "Cancel"
          \/ /\ Fails("work") /\ ~fd
             /\ Now("work").ev = "Close" => Coming.op \in {"none", "destroy"}
       /\ armed # {} => Now("work").op = "none" /\ status # "Invoked"
       /\ Now("work").op \in {"connect", "ssl"} => status # "Invoked"
       /\ armed \in {{}, {"dns"}, {"connect"}, {"timer"}}
       /\ Now("work").op \in {"dns", "connect"} \/ "dns" \in armed =>
            ~fd /\ ~connected
       /\ Now("work").op = "ssl" \/ "connect" \in armed \/ "timer" \in armed =>
            fd
       /\ Now("work").op \in DialOps \/ armed # {} => attempts = retry
  /\ Now("work").op \in DialOps => status \in DialStatus
  /\ armed \cap Dials # {} => status \in DialStatus
  /\ attempts =< RetryConnectCount

\* The socket, and whether it is read.
OpenStatus == {"Handshaked", "Starting", "Started"}
FrameOf(ev) ==
  Now("work").op \in {"tell", "after", "set"} /\ Now("work").ev = ev
Begun ==
  \/ status \in {"Started", "Completed"} \/ isStop
  \/ Now("caller").op # "none" \/ Now("work").op \in {"flush", "control"}
  \/ peer \in {"running", "stopping", "failed"}
Sock ==
  /\ connected => fd
  /\ ~fd => peer = "none"
  /\ fd /\ status \notin DialStatus => peer # "none"
  /\ fd /\ status \notin DialStatus \cup {"Handshaking"} => "read" \in armed
  /\ isStop => exit # "Invalid"
\* The handshake and the start: what the gateway has heard, what waits in the
\* buffer and what the work thread does next agree.
Opening ==
  /\ status = "Handshaking" =>
       Now("work").op = "request" /\ fd /\ peer = "fresh" /\ armed = {}
  /\ peer \in {"fresh", "shaking", "starting"} \/ (peer = "open" /\ ~isStop) =>
       ~Begun
  /\ peer = "fresh" /\ ~Closing =>
       \/ status = "Handshaking" /\ cmd = <<>>
       \/ /\ status = "Handshaked" /\ cmd = <<"shake">>
          /\ Now("work").op \in {"none", "request"}
  /\ peer = "shaking" => cmd = <<>>
  /\ peer = "shaking" /\ ~Closing =>
       status = "Handshaked" /\ Now("work").op = "none"
  /\ peer = "open" /\ ~isStop /\ ~Closing =>
       \/ status = "Handshaked" /\ cmd = <<>> /\ Now("work").op = "start"
       \/ /\ status = "Starting" /\ cmd = <<"start">>
          /\ Now("work").op \in {"none", "request"}
  /\ peer = "starting" => cmd = <<>>
  /\ peer = "starting" /\ ~Closing =>
       status = "Starting" /\ Now("work").op = "none"
  /\ Now("work").op = "start" =>
       peer = "open" /\ ~isStop /\ status = "Handshaked"
  /\ FrameOf("Started") => /\ peer = "running" /\ ~isStop /\ status = "Starting"
                          /\ Now("caller").op = "none"
  /\ FrameOf("Completed") => isStop
  /\ peer \in {"shaking", "starting"} => "write" \notin armed
  /\ Now("work").op \in {"request", "start"} /\ peer \in {"fresh", "open"}
       /\ ~isStop => "write" \notin armed
\* The gateway refused the start, and the node does not know yet.
Doomed ==
  /\ status = "Starting" /\ peer = "failed" /\ ~isStop
  /\ Now("caller").op = "none" /\ Now("work").ev = "TaskFailed"
  /\ \/ Now("work").op = "set"
     \/ Now("work").op \in {"tell", "after"} /\ Coming = Set("TaskFailed")
\* Once the session has begun nothing but a stop is sent.
Running ==
  /\ peer # "lost"
  /\ Begun /\ ~FrameOf("Started") =>
       status \in {"Started", "Failed", "Completed", "Closed"} \/ Doomed
  /\ Begun /\ ~isStop => cmd = <<>> /\ peer \in {"running", "failed", "none"}
  /\ Begun => peer \in {"running", "failed", "none", "stopping", "open"}
  /\ Begun => status \notin DialStatus
  /\ Begun => status \notin {"Handshaking", "Handshaked"}
\* A session in progress is heard of, or its failure is under way.
Heard ==
  /\ status \in OpenStatus /\ ~fd /\ exit # "Cancel" =>
       \/ Fails("caller")
       \/ Fails("work") /\ ~Closing
  /\ exit # "Cancel" /\ Now("work").op = "none" =>
       (status \in {"Connecting", "Connected"} => armed # {})
  /\ exit # "Cancel" /\ Ending =>
       (Now("work").op \in {"close", "destroy", "respond"} => status = "Closed")

Once == BeforeLaunch /\ DialPhase /\ Sock /\ Opening /\ Running /\ Heard
\* What the gateway makes of the commands in their order.
LEMMA Hears ==
  /\ Append(<<>>, "shake") = <<"shake">> /\ Append(<<>>, "start") = <<"start">>
  /\ Append(<<>>, "stop") = <<"stop">>
  /\ <<"shake">> # <<>> /\ <<"start">> # <<>> /\ <<"stop">> # <<>>
  /\ Hear("fresh", <<"shake">>) = "shaking"
  /\ Hear("open", <<"start">>) = "starting"
  /\ Hear("running", <<"stop">>) = "stopping"
  /\ Hear("failed", <<"stop">>) = "failed"
BY DEF Hear

-----------------------------------------------------------------------------
\* Each action keeps Once.
LEMMA StartOnce ==
  ASSUME Sound, Plain, Once, Start
  PROVE  Once'
<1>1. Sound' /\ View /\ View'
  BY Views, StartStep
<1>2. UNCHANGED <<exit, isStop, connected, fd, cmd, peer, retry, recon,
                  attempts, use>>
  BY AtWork, AtCaller, NodeAssumption
     DEF Start, MayStart, FirstOnly, Once, BeforeLaunch, Plain, sockVars,
     bufVars, exitVars, reconVars, histVars, boundVars, Sound, TypeOK
<1>3. /\ status = "Created" /\ starts = 0
      /\ status' = "Invoking" /\ armed' = armed \cup {"launch"}
      /\ starts' = 1
      /\ WorkSame /\ CallSame
  <2>1. starts \in Nat /\ use.starts = 1 /\ starts < 1
    BY UseTyped, TypeSplit DEF Sound, FieldsOK, Start, MayStart, Plain,
       FirstOnly
  <2>2. starts = 0 /\ status = "Created" /\ starts' = 1
    BY <2>1 DEF Start, Once, BeforeLaunch
  <2> QED
    BY <1>1, <2>2, StartStep DEF Start
<1>4. BeforeLaunch'
  BY <1>1, <1>2, <1>3
     DEF Once, BeforeLaunch, Unlaunched, WorkSame, CallSame
<1>5. DialPhase'
  BY <1>1, <1>2, <1>3
     DEF Once, DialPhase, DialStatus, DialOps, Dials, Fails, Told, WorkSame,
     CallSame, BeforeLaunch
<1>6. Sock'
  BY <1>1, <1>2, <1>3
     DEF Once, Sock, DialStatus, WorkSame, CallSame
<1>7. Opening'
  BY <1>1, <1>2, <1>3
     DEF Once, Opening, Begun, FrameOf, DialStatus, WorkSame, CallSame
<1>8. Running'
  BY <1>1, <1>2, <1>3
     DEF Once, Running, Begun, FrameOf, Doomed, DialStatus, WorkSame, CallSame
<1>9. Heard'
  BY <1>1, <1>2, <1>3
     DEF Once, Heard, OpenStatus, Fails, DialStatus, Told, WorkSame, CallSame
<1> QED
  BY <1>4, <1>5, <1>6, <1>7, <1>8, <1>9 DEF Once

LEMMA CancelOnce ==
  ASSUME Sound, Plain, Once, Cancel
  PROVE  Once'
<1>1. Sound' /\ View /\ View'
  BY Views, CancelStep, Statuses
<1>2. UNCHANGED <<status, isStop, connected, fd, armed, cmd, peer, retry, recon,
                  attempts, starts, use>>
  BY DEF Cancel, Busy, sockVars, bufVars, exitVars, reconVars, histVars,
     boundVars
<1>3. /\ status # "Created" /\ exit' = "Cancel"
      /\ WorkSame /\ CallSame
  BY <1>1, CancelStep, Statuses
     DEF Cancel, Busy
<1>4. BeforeLaunch'
  BY <1>1, <1>2, <1>3
     DEF Once, BeforeLaunch, Unlaunched, WorkSame, CallSame
<1>5. DialPhase'
  BY <1>1, <1>2, <1>3
     DEF Once, DialPhase, DialStatus, DialOps, Dials, Fails, Told, WorkSame,
     CallSame, BeforeLaunch
<1>6. Sock'
  BY <1>1, <1>2, <1>3
     DEF Once, Sock, DialStatus, WorkSame, CallSame
<1>7. Opening'
  BY <1>1, <1>2, <1>3
     DEF Once, Opening, Begun, FrameOf, DialStatus, WorkSame, CallSame
<1>8. Running'
  BY <1>1, <1>2, <1>3
     DEF Once, Running, Begun, FrameOf, Doomed, DialStatus, WorkSame, CallSame
<1>9. Heard'
  BY <1>1, <1>2, <1>3
     DEF Once, Heard, OpenStatus, Fails, DialStatus, Told, WorkSame, CallSame
<1> QED
  BY <1>4, <1>5, <1>6, <1>7, <1>8, <1>9 DEF Once

LEMMA StopOnce ==
  ASSUME Sound, Plain, Once, Stop
  PROVE  Once'
<1>1. Sound' /\ View /\ View'
  BY Views, StopStep, Statuses, StepOps
<1>2. UNCHANGED <<status, isStop, connected, fd, armed, cmd, peer, retry, recon,
                  attempts, starts, use>>
  BY DEF Stop, Busy, sockVars, bufVars, exitVars, reconVars, histVars, boundVars
<1>3. /\ exit = "Invalid" /\ exit' = "Stopping"
      /\ status # "Created"
      /\ WorkSame /\ Now("caller").op = "none"
      /\ \/ Now("caller").op' = "none"
         \/ status = "Started" /\ Now("caller").op' = "control"
  BY <1>1, StopStep, Statuses, StepOps
     DEF Stop, Busy
<1>4. BeforeLaunch'
  BY <1>1, <1>2, <1>3
     DEF Once, BeforeLaunch, Unlaunched, WorkSame
<1>5. DialPhase'
  BY <1>1, <1>2, <1>3
     DEF Once, DialPhase, DialStatus, DialOps, Dials, Fails, Told, WorkSame,
     BeforeLaunch
<1>6. Sock'
  BY <1>1, <1>2, <1>3
     DEF Once, Sock, DialStatus, WorkSame
<1>7. Opening'
  BY <1>1, <1>2, <1>3
     DEF Once, Opening, Begun, FrameOf, DialStatus, WorkSame
<1>8. Running'
  BY <1>1, <1>2, <1>3
     DEF Once, Running, Begun, FrameOf, Doomed, DialStatus, WorkSame
<1>9. Heard'
  BY <1>1, <1>2, <1>3
     DEF Once, Heard, OpenStatus, Fails, DialStatus, Told, WorkSame
<1> QED
  BY <1>4, <1>5, <1>6, <1>7, <1>8, <1>9 DEF Once

LEMMA SendAudioOnce ==
  ASSUME Sound, Plain, Once, SendAudio
  PROVE  Once'
<1>1. Sound' /\ View /\ View'
  BY Views, SendAudioStep, StepOps
<1>2. UNCHANGED <<status, exit, isStop, connected, fd, armed, cmd, peer, retry,
                  recon, attempts, starts, use>>
  BY DEF SendAudio, sockVars, bufVars, exitVars, reconVars, histVars, boundVars
<1>3. /\ status = "Started"
      /\ WorkSame /\ Now("caller").op = "none" /\ Now("caller").op' = "push"
  BY <1>1, SendAudioStep, StepOps
     DEF SendAudio
<1>4. BeforeLaunch'
  BY <1>1, <1>2, <1>3
     DEF Once, BeforeLaunch, Unlaunched, WorkSame
<1>5. DialPhase'
  BY <1>1, <1>2, <1>3
     DEF Once, DialPhase, DialStatus, DialOps, Dials, Fails, Told, WorkSame,
     BeforeLaunch
<1>6. Sock'
  BY <1>1, <1>2, <1>3
     DEF Once, Sock, DialStatus, WorkSame
<1>7. Opening'
  BY <1>1, <1>2, <1>3
     DEF Once, Opening, Begun, FrameOf, DialStatus, WorkSame
<1>8. Running'
  BY <1>1, <1>2, <1>3
     DEF Once, Running, Begun, FrameOf, Doomed, DialStatus, WorkSame
<1>9. Heard'
  BY <1>1, <1>2, <1>3
     DEF Once, Heard, OpenStatus, Fails, DialStatus, Told, WorkSame
<1> QED
  BY <1>4, <1>5, <1>6, <1>7, <1>8, <1>9 DEF Once

LEMMA UnlockOnce ==
  ASSUME Sound, Plain, Once, Unlock
  PROVE  Once'
<1>1. Sound' /\ View /\ View'
  BY Views, UnlockStep, StepOps
<1>2. UNCHANGED <<status, exit, isStop, connected, fd, armed, cmd, peer, retry,
                  recon, attempts, starts, use>>
  BY DEF Unlock, sockVars, bufVars, exitVars, reconVars, histVars, boundVars
<1>3. /\ WorkSame /\ Now("caller").op = "unlock" /\ Now("caller").op' = "none"
  BY <1>1, UnlockStep, StepOps
     DEF Unlock
<1>4. BeforeLaunch'
  BY <1>1, <1>2, <1>3
     DEF Once, BeforeLaunch, Unlaunched, WorkSame
<1>5. DialPhase'
  BY <1>1, <1>2, <1>3
     DEF Once, DialPhase, DialStatus, DialOps, Dials, Fails, Told, WorkSame,
     BeforeLaunch
<1>6. Sock'
  BY <1>1, <1>2, <1>3
     DEF Once, Sock, DialStatus, WorkSame
<1>7. Opening'
  BY <1>1, <1>2, <1>3
     DEF Once, Opening, Begun, FrameOf, DialStatus, WorkSame
<1>8. Running'
  BY <1>1, <1>2, <1>3
     DEF Once, Running, Begun, FrameOf, Doomed, DialStatus, WorkSame
<1>9. Heard'
  BY <1>1, <1>2, <1>3
     DEF Once, Heard, OpenStatus, Fails, DialStatus, Told, WorkSame
<1> QED
  BY <1>4, <1>5, <1>6, <1>7, <1>8, <1>9 DEF Once

LEMMA LaunchOnce ==
  ASSUME Sound, Plain, Once, NEW e, Launch(e)
  PROVE  Once'
<1>1. Sound' /\ View /\ View'
  BY Views, LaunchStep, AtWork, StepOps
<1>2. UNCHANGED <<exit, isStop, connected, fd, cmd, peer, retry, recon, starts,
                  use>>
  BY DEF Launch, sockVars, bufVars, exitVars, reconVars, histVars, boundVars
<1>3. /\ e = "launch" /\ "launch" \in armed /\ status = "Invoking"
      /\ armed' = armed \ {"launch"} /\ status' = "Invoked" /\ attempts' = 0
      /\ CallSame /\ Now("work").op = "none"
      /\ WorkSame \/ Now("work").op' = "dns"
  <2>1. e \in {"launch", "reconnect"} /\ e \in armed /\ Now("work").op = "none"
    BY AtWork DEF Launch
  <2>2. /\ e = "launch" /\ "launch" \in armed /\ status = "Invoking"
        /\ attempts = 0
    BY <2>1 DEF Once, BeforeLaunch, Unlaunched
  <2> QED
    BY <1>1, <2>1, <2>2, LaunchStep, StepOps DEF Launch
<1>4. BeforeLaunch'
  BY <1>1, <1>2, <1>3
     DEF Once, BeforeLaunch, Unlaunched, WorkSame, CallSame
<1>5. DialPhase'
  BY <1>1, <1>2, <1>3
     DEF Once, BeforeLaunch, DialPhase, Sock, Opening, Running, Heard, View,
     Told, Single, DialStatus, DialOps, Dials, Fails, FrameOf, Begun, Doomed,
     OpenStatus, Unlaunched, WorkSame, CallSame, WorkDone, CallDone, Closes,
     Breaks, UserEvents
<1>6. Sock'
  BY <1>1, <1>2, <1>3
     DEF Once, Sock, DialStatus, WorkSame, CallSame
<1>7. Opening'
  BY <1>1, <1>2, <1>3
     DEF Once, BeforeLaunch, DialPhase, Sock, Opening, Running, Heard, View,
     FrameOf, Begun, Doomed, OpenStatus, Unlaunched, WorkSame
<1>8. Running'
  BY <1>1, <1>2, <1>3
     DEF Once, Running, Begun, FrameOf, Doomed, DialStatus, WorkSame, CallSame
<1>9. Heard'
  BY <1>1, <1>2, <1>3
     DEF Once, Heard, OpenStatus, Fails, DialStatus, Told, WorkSame, CallSame
<1> QED
  BY <1>4, <1>5, <1>6, <1>7, <1>8, <1>9 DEF Once

LEMMA DnsConnectOnce ==
  ASSUME Sound, Plain, Once, DnsConnect
  PROVE  Once'
<1>1. Sound' /\ View /\ View'
  BY Views, DnsConnectStep, StepOps
<1>2. UNCHANGED <<exit, isStop, connected, fd, cmd, peer, recon, starts, use>>
  BY DEF DnsConnect, CheckConnectCount, sockVars, bufVars, exitVars, reconVars,
     histVars, boundVars
<1>3. /\ status' = "Connecting" /\ retry < RetryConnectCount
      /\ retry' = retry + 1 /\ attempts' = attempts + 1
      /\ CallSame /\ Now("work").op = "dns"
      /\ \/ Now("work").op' = "connect" /\ armed' = armed
         \/ Now("work").op' = "none" /\ armed' = armed \cup {"dns"}
  <2>1. /\ status' = "Connecting" /\ retry < RetryConnectCount
        /\ retry' = retry + 1 /\ attempts' = attempts + 1
    BY DEF DnsConnect, CheckConnectCount
  <2>2. /\ CallSame /\ Now("work").op = "dns"
        /\ \/ Now("work")' = Step("connect") /\ armed' = armed
           \/ Now("work")' = Step("none") /\ armed' = armed \cup {"dns"}
    BY <1>1, DnsConnectStep
  <2> QED
    BY <2>1, <2>2, StepOps
<1>10. retry \in Nat /\ RetryConnectCount \in Nat /\ attempts \in Nat
  BY TypeSplit, NodeAssumption DEF Sound, FieldsOK
<1>4. BeforeLaunch'
  BY <1>1, <1>2, <1>3, <1>10
     DEF Once, BeforeLaunch, Unlaunched, CallSame
<1>5. DialPhase'
  BY <1>1, <1>2, <1>3, <1>10
     DEF Once, BeforeLaunch, DialPhase, Sock, Opening, Running, Heard, View,
     Told, Single, DialStatus, DialOps, Dials, Fails, CallSame, WorkDone,
     CallDone, Closes, Breaks, UserEvents
<1>6. Sock'
  BY <1>1, <1>2, <1>3, <1>10
     DEF Once, Sock, DialStatus, CallSame
<1>7. Opening'
  BY <1>1, <1>2, <1>3, <1>10
     DEF Once, BeforeLaunch, DialPhase, Sock, Opening, Running, Heard, View,
     Told, Single, DialStatus, DialOps, Dials, Fails, FrameOf, Begun, Doomed,
     OpenStatus, Unlaunched, WorkSame
<1>8. Running'
  BY <1>1, <1>2, <1>3, <1>10
     DEF Once, BeforeLaunch, DialPhase, Sock, Opening, Running, Heard, View,
     Told, Single, DialStatus, DialOps, Dials, Fails, FrameOf, Begun, Doomed,
     OpenStatus, Unlaunched, WorkSame, CallSame, WorkDone, CallDone, Closes,
     Breaks, UserEvents
<1>9. Heard'
  BY <1>1, <1>2, <1>3, <1>10
     DEF Once, Heard, OpenStatus, Fails, DialStatus, Told, CallSame
<1> QED
  BY <1>4, <1>5, <1>6, <1>7, <1>8, <1>9 DEF Once

LEMMA DnsGivesUpOnce ==
  ASSUME Sound, Plain, Once, DnsGivesUp
  PROVE  Once'
<1>1. Sound' /\ View /\ View'
  BY Views, DnsGivesUpStep, Fields
<1>2. UNCHANGED <<status, exit, isStop, connected, fd, armed, cmd, peer, recon,
                  attempts, starts, use>>
  BY DEF DnsGivesUp, sockVars, bufVars, exitVars, reconVars, histVars, boundVars
<1>3. /\ retry' = 0 /\ CallSame /\ Now("work").op = "dns"
      /\ Now("work").op' = "check" /\ Now("work").ev' = "TaskFailed"
      /\ ~Closing'
  <2>1. /\ CheckFailed(TRUE).op = "check"
        /\ CheckFailed(TRUE).ev = "TaskFailed"
    BY DEF CheckFailed, Event
  <2> QED
    BY <1>1, <2>1, DnsGivesUpStep DEF DnsGivesUp
<1>10. RetryConnectCount \in Nat
  BY NodeAssumption
<1>4. BeforeLaunch'
  BY <1>1, <1>2, <1>3, <1>10
     DEF Once, BeforeLaunch, Unlaunched, CallSame
<1>5. DialPhase'
  BY <1>1, <1>2, <1>3, <1>10
     DEF Once, DialPhase, DialStatus, DialOps, Dials, Fails, Told, CallSame,
     BeforeLaunch
<1>6. Sock'
  BY <1>1, <1>2, <1>3, <1>10
     DEF Once, Sock, DialStatus, CallSame
<1>7. Opening'
  BY <1>1, <1>2, <1>3, <1>10
     DEF Once, BeforeLaunch, DialPhase, Sock, Opening, Running, Heard, View,
     Told, Single, DialStatus, DialOps, Dials, Fails, FrameOf, Begun, Doomed,
     OpenStatus, Unlaunched, WorkSame
<1>8. Running'
  BY <1>1, <1>2, <1>3, <1>10
     DEF Once, Running, Begun, FrameOf, Doomed, DialStatus, CallSame
<1>9. Heard'
  BY <1>1, <1>2, <1>3, <1>10
     DEF Once, Heard, OpenStatus, Fails, DialStatus, Told, CallSame
<1> QED
  BY <1>4, <1>5, <1>6, <1>7, <1>8, <1>9 DEF Once

LEMMA DnsCancelledOnce ==
  ASSUME Sound, Plain, Once, DnsCancelled
  PROVE  Once'
<1>1. Sound' /\ View /\ View'
  BY Views, DnsCancelledStep, StepOps
<1>2. UNCHANGED <<status, exit, isStop, connected, fd, armed, cmd, peer, retry,
                  recon, attempts, starts, use>>
  BY DEF DnsCancelled, sockVars, bufVars, exitVars, reconVars, histVars,
     boundVars
<1>3. /\ exit = "Cancel" /\ CallSame /\ Now("work").op = "dns"
      /\ Now("work").op' = "destroy"
  BY <1>1, DnsCancelledStep, StepOps
     DEF DnsCancelled
<1>4. BeforeLaunch'
  BY <1>1, <1>2, <1>3
     DEF Once, BeforeLaunch, Unlaunched, CallSame
<1>5. DialPhase'
  BY <1>1, <1>2, <1>3
     DEF Once, BeforeLaunch, DialPhase, Sock, Opening, Running, Heard, View,
     Told, Single, DialStatus, DialOps, Dials, Fails, CallSame, WorkDone,
     CallDone, Closes, Breaks, UserEvents
<1>6. Sock'
  BY <1>1, <1>2, <1>3
     DEF Once, Sock, DialStatus, CallSame
<1>7. Opening'
  BY <1>1, <1>2, <1>3
     DEF Once, BeforeLaunch, DialPhase, Sock, Opening, Running, Heard, View,
     Told, Single, DialStatus, DialOps, Dials, Fails, FrameOf, Begun, Doomed,
     OpenStatus, Unlaunched, WorkSame
<1>8. Running'
  BY <1>1, <1>2, <1>3
     DEF Once, Running, Begun, FrameOf, Doomed, DialStatus, CallSame
<1>9. Heard'
  BY <1>1, <1>2, <1>3
     DEF Once, Heard, OpenStatus, Fails, DialStatus, Told, CallSame
<1> QED
  BY <1>4, <1>5, <1>6, <1>7, <1>8, <1>9 DEF Once

LEMMA ResolvedOnce ==
  ASSUME Sound, Plain, Once, Resolved
  PROVE  Once'
<1>1. Sound' /\ View /\ View'
  BY Views, ResolvedStep, AtWork, StepOps
<1>2. UNCHANGED <<exit, isStop, connected, fd, cmd, peer, retry, recon,
                  attempts, starts, use>>
  BY DEF Resolved, sockVars, bufVars, exitVars, reconVars, histVars, boundVars
<1>3. /\ "dns" \in armed /\ armed' = armed \ {"dns"}
      /\ CallSame /\ Now("work").op = "none"
      /\ \/ Now("work").op' = "connect" /\ status' = status
         \/ Now("work").op' = "dns" /\ status' = "Connecting"
  <2>1. "dns" \in armed /\ armed' = armed \ {"dns"}
    BY AtWork DEF Resolved
  <2>2. /\ CallSame /\ Now("work").op = "none"
        /\ \/ Now("work")' = Step("connect") /\ status' = status
           \/ Now("work")' = Step("dns") /\ status' = "Connecting"
    BY <1>1, ResolvedStep
  <2> QED
    BY <2>1, <2>2, StepOps
<1>4. BeforeLaunch'
  BY <1>1, <1>2, <1>3
     DEF Once, BeforeLaunch, Unlaunched, CallSame
<1>5. DialPhase'
  BY <1>1, <1>2, <1>3
     DEF Once, BeforeLaunch, DialPhase, Sock, Opening, Running, Heard, View,
     Told, Single, DialStatus, DialOps, Dials, Fails, CallSame, WorkDone,
     CallDone, Closes, Breaks, UserEvents
<1>6. Sock'
  BY <1>1, <1>2, <1>3
     DEF Once, Sock, DialStatus, CallSame
<1>7. Opening'
  BY <1>1, <1>2, <1>3
     DEF Once, BeforeLaunch, DialPhase, Sock, Opening, Running, Heard, View,
     Told, Single, DialStatus, DialOps, Dials, Fails, FrameOf, Begun, Doomed,
     OpenStatus, Unlaunched, WorkSame
<1>8. Running'
  BY <1>1, <1>2, <1>3
     DEF Once, BeforeLaunch, DialPhase, Sock, Opening, Running, Heard, View,
     Told, Single, DialStatus, DialOps, Dials, Fails, FrameOf, Begun, Doomed,
     OpenStatus, Unlaunched, WorkSame, CallSame, WorkDone, CallDone, Closes,
     Breaks, UserEvents
<1>9. Heard'
  BY <1>1, <1>2, <1>3
     DEF Once, Heard, OpenStatus, Fails, DialStatus, Told, CallSame
<1> QED
  BY <1>4, <1>5, <1>6, <1>7, <1>8, <1>9 DEF Once

LEMMA ConnectOnce ==
  ASSUME Sound, Plain, Once, Connect
  PROVE  Once'
<1>1. Sound' /\ View /\ View'
  BY Views, ConnectStep, StepOps
<1>2. UNCHANGED <<exit, isStop, cmd, retry, recon, attempts, starts, use>>
  BY DEF Connect, sockVars, bufVars, exitVars, reconVars, histVars, boundVars
<1>3. /\ CallSame /\ Now("work").op = "connect"
      /\ \/ /\ fd' = TRUE /\ peer' = "none" /\ Now("work").op' = "none"
            /\ armed' = (armed \ {"read", "write"}) \cup {"connect"}
            /\ status' = status /\ connected' = connected
         \/ /\ fd' = TRUE /\ peer' = "none" /\ Now("work").op' = "ssl"
            /\ armed' = armed \ {"read", "write", "connect"}
            /\ status' = "Connected" /\ connected' = TRUE
         \/ /\ Now("work").op' = "reconnect"
            /\ UNCHANGED <<status, connected, fd, armed, peer>>
  BY <1>1, ConnectStep, StepOps
     DEF Connect
<1>10. armed = {}
  BY <1>3 DEF Once, DialPhase, DialOps
<1>11. /\ armed' \in {{}, {"connect"}}
       /\ armed' # {} => Now("work").op' = "none" /\ fd'
       /\ "dns" \notin armed' /\ "timer" \notin armed'
  BY <1>3, <1>10
<1>4. BeforeLaunch'
  BY <1>1, <1>2, <1>3, <1>10, <1>11
     DEF Once, BeforeLaunch, Unlaunched, CallSame
<1>5. DialPhase'
  BY <1>1, <1>2, <1>3, <1>10, <1>11
     DEF Once, BeforeLaunch, DialPhase, Sock, Opening, Running, Heard, View,
     Told, Single, DialStatus, DialOps, Dials, Fails, CallSame, WorkDone,
     CallDone, Closes, Breaks, UserEvents
<1>6. Sock'
  BY <1>1, <1>2, <1>3, <1>10, <1>11
     DEF Once, BeforeLaunch, DialPhase, Sock, Opening, Running, Heard, View,
     Told, Single, DialStatus, DialOps, Dials, Fails
<1>7. Opening'
  BY <1>1, <1>2, <1>3, <1>10, <1>11
     DEF Once, BeforeLaunch, DialPhase, Sock, Opening, Running, Heard, View,
     FrameOf, Begun, Doomed, OpenStatus, Unlaunched, WorkSame
<1>8. Running'
  BY <1>1, <1>2, <1>3, <1>10, <1>11
     DEF Once, BeforeLaunch, DialPhase, Sock, Opening, Running, Heard, View,
     Told, Single, DialStatus, DialOps, Dials, Fails, FrameOf, Begun, Doomed,
     OpenStatus, Unlaunched, WorkSame, CallSame, WorkDone, CallDone, Closes,
     Breaks, UserEvents
<1>9. Heard'
  BY <1>1, <1>2, <1>3, <1>10, <1>11
     DEF Once, Heard, OpenStatus, Fails, DialStatus, Told, CallSame
<1> QED
  BY <1>4, <1>5, <1>6, <1>7, <1>8, <1>9 DEF Once

LEMMA ConnectReadyOnce ==
  ASSUME Sound, Plain, Once, NEW e, ConnectReady(e)
  PROVE  Once'
<1>1. Sound' /\ View /\ View'
  BY Views, ConnectReadyStep, StepOps
<1>2. UNCHANGED <<exit, isStop, fd, cmd, peer, retry, recon, attempts, starts,
                  use>>
  BY ReadUnchanged
     DEF ConnectReady, sockVars, bufVars, exitVars, reconVars, histVars,
     boundVars
<1>3. /\ e \in {"connect", "timer"} /\ e \in armed
      /\ CallSame /\ Now("work").op = "none"
      /\ \/ /\ status = "Connecting" /\ fd /\ status' = "Connected"
            /\ connected' = TRUE /\ Now("work").op' = "ssl"
            /\ armed' = armed \ {e}
         \/ /\ status = "Connecting" /\ fd /\ WorkSame
            /\ UNCHANGED <<status, connected>>
            /\ armed' = (armed \ {e}) \cup {"connect"}
         \/ /\ status = "Connected" /\ fd /\ Now("work").op' = "ssl"
            /\ UNCHANGED <<status, connected>> /\ armed' = armed \ {e}
         \/ /\ status \notin {"Connecting", "Connected"} /\ WorkSame
            /\ UNCHANGED <<status, connected>> /\ armed' = armed \ {e}
         \/ /\ Now("work").op' = "reconnect"
            /\ UNCHANGED <<status, connected>> /\ armed' = armed \ {e}
  BY <1>1, ConnectReadyStep, StepOps
     DEF ConnectReady
<1>4. BeforeLaunch'
  BY <1>1, <1>2, <1>3
     DEF Once, BeforeLaunch, Unlaunched, WorkSame, CallSame
<1>5. DialPhase'
  <2>1. /\ status \in DialStatus /\ armed = {e} /\ fd /\ attempts = retry
        /\ status # "Invoked"
    <3>1. e \in armed /\ e \in {"connect", "timer"} /\ DialPhase
      BY <1>3 DEF Once
    <3>2. status \in DialStatus
      BY <3>1 DEF DialPhase, Dials
    <3>3. armed = {e}
      BY <3>1, <3>2 DEF DialPhase
    <3> QED
      BY <3>1, <3>2, <3>3 DEF DialPhase
  <2>2. \/ armed' = {} /\ Now("work").op' \in DialOps
        \/ armed' = {"connect"} /\ Now("work").op' = "none"
    BY <1>3, <2>1 DEF WorkSame, DialOps, DialStatus
  <2>3. status' \in DialStatus
    BY <1>3, <2>1 DEF DialStatus
  <2>4. /\ Now("caller").op' = "none" /\ cmd' = <<>> /\ peer' = "none"
        /\ ~isStop' /\ ~Closing' /\ attempts' =< RetryConnectCount
    BY <1>1, <1>2, <1>3, <2>1, <2>2
       DEF Once, DialPhase, CallSame, WorkSame, View, DialOps, Single
  <2>5. Now("work").op' \notin {"dns", "connect"} /\ status' # "Invoked"
    BY <1>3, <2>1 DEF Once, DialPhase, DialStatus, WorkSame
  <2> QED
    BY <1>2, <2>1, <2>2, <2>3, <2>4, <2>5 DEF DialPhase, DialOps, Dials
<1>6. Sock'
  BY <1>1, <1>2, <1>3
     DEF Once, Sock, DialStatus, WorkSame, CallSame
<1>7. Opening'
  BY <1>1, <1>2, <1>3
     DEF Once, BeforeLaunch, DialPhase, Sock, Opening, Running, Heard, View,
     Told, Single, DialStatus, DialOps, Dials, Fails, FrameOf, Begun, Doomed,
     OpenStatus, Unlaunched, WorkSame
<1>8. Running'
  BY <1>1, <1>2, <1>3
     DEF Once, Running, Begun, FrameOf, Doomed, DialStatus, WorkSame, CallSame
<1>9. Heard'
  BY <1>1, <1>2, <1>3
     DEF Once, Heard, OpenStatus, Fails, DialStatus, Told, WorkSame, CallSame
<1> QED
  BY <1>4, <1>5, <1>6, <1>7, <1>8, <1>9 DEF Once

LEMMA SslWaitsOnce ==
  ASSUME Sound, Plain, Once, SslWaits
  PROVE  Once'
<1>1. Sound' /\ View /\ View'
  BY Views, SslWaitsStep, StepOps
<1>2. UNCHANGED <<status, exit, isStop, connected, fd, cmd, peer, retry, recon,
                  attempts, starts, use>>
  BY DEF SslWaits, sockVars, bufVars, exitVars, reconVars, histVars, boundVars
<1>3. /\ CallSame /\ Now("work").op = "ssl" /\ Now("work").op' = "none"
      /\ armed' = armed \cup {"connect"} \/ armed' = armed \cup {"timer"}
  BY <1>1, SslWaitsStep, StepOps
     DEF SslWaits
<1>10. armed = {}
  BY <1>3 DEF Once, DialPhase, DialOps
<1>11. armed' \in {{"connect"}, {"timer"}}
  BY <1>3, <1>10
<1>4. BeforeLaunch'
  BY <1>1, <1>2, <1>3, <1>10, <1>11
     DEF Once, BeforeLaunch, Unlaunched, CallSame
<1>5. DialPhase'
  BY <1>1, <1>2, <1>3, <1>10, <1>11
     DEF Once, BeforeLaunch, DialPhase, Sock, Opening, Running, Heard, View,
     Told, Single, DialStatus, DialOps, Dials, Fails, CallSame, WorkDone,
     CallDone, Closes, Breaks, UserEvents
<1>6. Sock'
  BY <1>1, <1>2, <1>3, <1>10, <1>11
     DEF Once, Sock, DialStatus, CallSame
<1>7. Opening'
  BY <1>1, <1>2, <1>3, <1>10, <1>11
     DEF Once, BeforeLaunch, DialPhase, Sock, Opening, Running, Heard, View,
     FrameOf, Begun, Doomed, OpenStatus, Unlaunched, WorkSame
<1>8. Running'
  BY <1>1, <1>2, <1>3, <1>10, <1>11
     DEF Once, Running, Begun, FrameOf, Doomed, DialStatus, CallSame
<1>9. Heard'
  BY <1>1, <1>2, <1>3, <1>10, <1>11
     DEF Once, Heard, OpenStatus, Fails, DialStatus, Told, CallSame
<1> QED
  BY <1>4, <1>5, <1>6, <1>7, <1>8, <1>9 DEF Once

LEMMA SslEndsOnce ==
  ASSUME Sound, Plain, Once, SslEnds
  PROVE  Once'
<1>1. Sound' /\ View /\ View'
  BY Views, SslEndsStep, StepOps
<1>2. UNCHANGED <<exit, isStop, connected, fd, armed, cmd, retry, recon,
                  attempts, starts, use>>
  BY DEF SslEnds, sockVars, bufVars, exitVars, reconVars, histVars, boundVars
<1>3. /\ CallSame /\ Now("work").op = "ssl"
      /\ \/ /\ status' = "Handshaking" /\ peer' = "fresh"
            /\ Now("work").op' = "request"
         \/ /\ Now("work").op' = "reconnect"
            /\ UNCHANGED <<status, peer>>
  BY <1>1, SslEndsStep, StepOps
     DEF SslEnds
<1>4. BeforeLaunch'
  BY <1>1, <1>2, <1>3
     DEF Once, BeforeLaunch, Unlaunched, CallSame
<1>5. DialPhase'
  BY <1>1, <1>2, <1>3
     DEF Once, BeforeLaunch, DialPhase, Sock, Opening, Running, Heard, View,
     Told, Single, DialStatus, DialOps, Dials, Fails, CallSame, WorkDone,
     CallDone, Closes, Breaks, UserEvents
<1>6. Sock'
  BY <1>1, <1>2, <1>3
     DEF Once, BeforeLaunch, DialPhase, Sock, Opening, Running, Heard, View,
     Told, Single, DialStatus, DialOps, Dials, Fails
<1>7. Opening'
  BY <1>1, <1>2, <1>3
     DEF Once, BeforeLaunch, DialPhase, Sock, Opening, Running, Heard, View,
     Told, Single, DialStatus, DialOps, Dials, Fails, FrameOf, Begun, Doomed,
     OpenStatus, Unlaunched, WorkSame, CallSame, WorkDone, CallDone, Closes,
     Breaks, UserEvents
<1>8. Running'
  BY <1>1, <1>2, <1>3
     DEF Once, BeforeLaunch, DialPhase, Sock, Opening, Running, Heard, View,
     Told, Single, DialStatus, DialOps, Dials, Fails, FrameOf, Begun, Doomed,
     OpenStatus, Unlaunched, WorkSame, CallSame, WorkDone, CallDone, Closes,
     Breaks, UserEvents
<1>9. Heard'
  BY <1>1, <1>2, <1>3
     DEF Once, Heard, OpenStatus, Fails, DialStatus, Told, CallSame
<1> QED
  BY <1>4, <1>5, <1>6, <1>7, <1>8, <1>9 DEF Once

LEMMA RequestOnce ==
  ASSUME Sound, Plain, Once, NodeRequestProcess
  PROVE  Once'
<1>1. Sound' /\ View /\ View'
  BY Views, RequestStep, StepOps, Fields
<1>2. UNCHANGED <<exit, isStop, connected, fd, retry, recon, attempts, starts,
                  use>>
  BY DEF NodeRequestProcess, sockVars, bufVars, exitVars, reconVars, histVars,
     boundVars
<1>3. /\ CallSame /\ Now("work").op = "request"
      /\ \/ /\ status = "Handshaking" /\ status' = "Handshaked"
            /\ \/ /\ fd /\ cmd' = <<>>
                  /\ peer' = Hear(peer, Append(cmd, "shake"))
                  /\ armed' = armed \cup {"read"} /\ Now("work").op' = "none"
               \/ /\ fd /\ cmd' = Append(cmd, "shake") /\ peer' = peer
                  /\ armed' = armed \cup {"read", "write"}
                  /\ Now("work").op' = "none"
               \/ /\ cmd' = Append(cmd, "shake") /\ peer' = peer
                  /\ armed' = armed \cup {"read"} /\ Breaks'
                  /\ Now("work").op' = "check" /\ Now("work").ev' = "TaskFailed"
         \/ /\ status \in {"Handshaked", "Starting"} /\ status' = status
            /\ \/ /\ cmd = <<>> /\ Now("work").op' = "none"
                  /\ UNCHANGED <<cmd, peer, armed>>
               \/ /\ cmd # <<>> /\ fd /\ cmd' = <<>> /\ peer' = Hear(peer, cmd)
                  /\ armed' = armed /\ Now("work").op' = "none"
               \/ /\ cmd # <<>> /\ fd /\ cmd' = cmd /\ peer' = peer
                  /\ armed' = armed \cup {"write"} /\ Now("work").op' = "none"
               \/ /\ cmd # <<>> /\ cmd' = cmd /\ peer' = peer
                  /\ armed' = armed /\ Breaks'
                  /\ Now("work").op' = "check" /\ Now("work").ev' = "TaskFailed"
         \/ /\ status = "Started" /\ Now("work").op' = "flush"
            /\ UNCHANGED <<status, cmd, peer, armed>>
         \/ /\ status
                  \notin {"Handshaking", "Handshaked", "Starting", "Started"}
            /\ UNCHANGED <<status, cmd, peer, armed>> /\ Breaks'
            /\ Now("work").op' = "check" /\ Now("work").ev' = "TaskFailed"
  <2>1. \A m : CheckFailed(m).op = "check" /\ CheckFailed(m).ev = "TaskFailed"
    BY Fields
  <2> QED
    BY <1>1, <2>1, RequestStep, StepOps
<1>10. fd \in BOOLEAN /\ peer \in PeerStates /\ ~Closing
  BY <1>1, <1>3, TypeSplit DEF Sound, FieldsOK, View, Single
<1>11. /\ status = "Handshaking" => fd /\ peer = "fresh" /\ cmd = <<>>
       /\ status \in {"Handshaked", "Starting"} /\ cmd # <<>> /\ fd =>
            \/ status = "Handshaked" /\ peer = "fresh" /\ cmd = <<"shake">>
            \/ /\ status = "Starting" /\ peer = "open" /\ ~isStop
               /\ cmd = <<"start">>
  BY <1>3, <1>10 DEF Once, Sock, Opening, Running, Begun, Doomed, FrameOf,
     DialStatus, PeerStates
<1>4. BeforeLaunch'
  BY <1>1, <1>2, <1>3, <1>10, <1>11, Hears
     DEF Once, BeforeLaunch, Unlaunched, CallSame, Breaks
<1>5. DialPhase'
  BY <1>1, <1>2, <1>3, <1>10, <1>11, Hears
     DEF Once, DialPhase, DialStatus, DialOps, Dials, Fails, Told, CallSame,
     Breaks, BeforeLaunch
<1>6. Sock'
  BY <1>1, <1>2, <1>3, <1>10, <1>11, Hears
     DEF Once, Sock, DialStatus, CallSame, Breaks
<1>7. Opening'
  BY <1>1, <1>2, <1>3, <1>10, <1>11, Hears
     DEF Once, Opening, Begun, FrameOf, DialStatus, CallSame, Breaks
<1>8. Running'
  BY <1>1, <1>2, <1>3, <1>10, <1>11, Hears
     DEF Once, Running, Begun, FrameOf, Doomed, DialStatus, CallSame, Breaks
<1>9. Heard'
  BY <1>1, <1>2, <1>3, <1>10, <1>11, Hears
     DEF Once, Heard, OpenStatus, Fails, DialStatus, Told, CallSame, Breaks
<1> QED
  BY <1>4, <1>5, <1>6, <1>7, <1>8, <1>9 DEF Once

LEMMA SendStartOnce ==
  ASSUME Sound, Plain, Once, SendStart
  PROVE  Once'
<1>1. Sound' /\ View /\ View'
  BY Views, SendStartStep, StepOps, Fields
<1>2. UNCHANGED <<exit, isStop, connected, fd, retry, attempts, starts, use>>
  BY DEF SendStart, TypeOK, ReconFields, sockVars, bufVars, exitVars, reconVars,
     histVars, boundVars
<1>3. /\ CallSame /\ Now("work").op = "start"
      /\ status' = "Starting" /\ recon'.state = "NewReconnectionStarting"
      /\ \/ /\ fd /\ cmd' = <<>> /\ peer' = Hear(peer, Append(cmd, "start"))
            /\ armed' = armed /\ Now("work").op' = "none"
         \/ /\ fd /\ cmd' = Append(cmd, "start") /\ peer' = peer
            /\ armed' = armed \cup {"write"} /\ Now("work").op' = "none"
         \/ /\ cmd' = Append(cmd, "start") /\ peer' = peer
            /\ armed' = armed /\ Breaks'
            /\ \/ Now("work").op' = "check" /\ Now("work").ev' = "TaskFailed"
               \/ Now("work").op' = "close"
  <2>1. \A m : CheckFailed(m).op = "check" /\ CheckFailed(m).ev = "TaskFailed"
    BY Fields
  <2>2. recon'.state = "NewReconnectionStarting"
    BY TypeSplit DEF SendStart, Sound, FieldsOK
  <2> QED
    BY <1>1, <2>1, <2>2, SendStartStep, StepOps DEF SendStart
<1>10. /\ peer = "open" /\ ~isStop /\ status = "Handshaked"
       /\ cmd = <<>> /\ ~Closing
  BY <1>1, <1>3 DEF View, Single, Once, Opening
<1>4. BeforeLaunch'
  BY <1>1, <1>2, <1>3, <1>10, Hears
     DEF Once, BeforeLaunch, Unlaunched, CallSame, Breaks
<1>5. DialPhase'
  BY <1>1, <1>2, <1>3, <1>10, Hears
     DEF Once, DialPhase, DialStatus, DialOps, Dials, Fails, Told, CallSame,
     Breaks, BeforeLaunch
<1>6. Sock'
  BY <1>1, <1>2, <1>3, <1>10, Hears
     DEF Once, Sock, DialStatus, CallSame, Breaks
<1>7. Opening'
  BY <1>1, <1>2, <1>3, <1>10, Hears
     DEF Once, Opening, Begun, FrameOf, DialStatus, CallSame, Breaks
<1>8. Running'
  BY <1>1, <1>2, <1>3, <1>10, Hears
     DEF Once, Running, Begun, FrameOf, Doomed, DialStatus, CallSame, Breaks
<1>9. Heard'
  BY <1>1, <1>2, <1>3, <1>10, Hears
     DEF Once, Heard, OpenStatus, Fails, DialStatus, Told, CallSame, Breaks
<1> QED
  BY <1>4, <1>5, <1>6, <1>7, <1>8, <1>9 DEF Once

LEMMA ReadCancelledOnce ==
  ASSUME Sound, Plain, Once, ReadCancelled
  PROVE  Once'
<1>1. Sound' /\ View /\ View'
  BY Views, ReadCancelledStep, StepOps
<1>2. UNCHANGED <<status, exit, isStop, connected, fd, armed, cmd, peer, retry,
                  recon, attempts, starts, use>>
  BY ReadUnchanged
     DEF ReadCancelled, sockVars, bufVars, exitVars, reconVars, histVars,
     boundVars
<1>3. /\ CallSame /\ Now("work").op = "none" /\ "read" \in armed /\ fd
      /\ exit = "Cancel" /\ Now("work").op' = "close" /\ Closing'
  BY <1>1, ReadCancelledStep, StepOps
     DEF ReadCancelled
<1>4. BeforeLaunch'
  BY <1>1, <1>2, <1>3
     DEF Once, BeforeLaunch, Unlaunched, CallSame
<1>5. DialPhase'
  BY <1>1, <1>2, <1>3
     DEF Once, DialPhase, DialStatus, DialOps, Dials, Fails, Told, CallSame,
     BeforeLaunch
<1>6. Sock'
  BY <1>1, <1>2, <1>3
     DEF Once, Sock, DialStatus, CallSame
<1>7. Opening'
  BY <1>1, <1>2, <1>3
     DEF Once, Opening, Begun, FrameOf, DialStatus, CallSame
<1>8. Running'
  BY <1>1, <1>2, <1>3
     DEF Once, Running, Begun, FrameOf, Doomed, DialStatus, CallSame
<1>9. Heard'
  BY <1>1, <1>2, <1>3
     DEF Once, Heard, OpenStatus, Fails, DialStatus, Told, CallSame
<1> QED
  BY <1>4, <1>5, <1>6, <1>7, <1>8, <1>9 DEF Once

LEMMA GatewayResponseOnce ==
  ASSUME Sound, Plain, Once, GatewayResponse
  PROVE  Once'
<1>1. Sound' /\ View /\ View'
  BY Views, ReadUnchanged, Statuses, GatewayResponseStep
<1>2. UNCHANGED <<status, exit, isStop, connected, fd, armed, cmd, retry, recon,
                  attempts, starts, use>>
  BY ReadUnchanged
     DEF GatewayResponse, sockVars, bufVars, exitVars, reconVars, histVars,
     boundVars
<1>3. /\ CallSame /\ Now("work").op = "none" /\ "read" \in armed /\ fd
      /\ status \in {"Handshaking", "Handshaked"} /\ peer = "shaking"
      /\ peer' = "open" /\ Now("work").op' = "start"
  BY <1>1, ReadUnchanged, Statuses, GatewayResponseStep
     DEF GatewayResponse
<1>4. BeforeLaunch'
  BY <1>1, <1>2, <1>3
     DEF Once, BeforeLaunch, Unlaunched, CallSame
<1>5. DialPhase'
  BY <1>1, <1>2, <1>3
     DEF Once, DialPhase, DialStatus, DialOps, Dials, Fails, Told, CallSame,
     BeforeLaunch
<1>6. Sock'
  BY <1>1, <1>2, <1>3
     DEF Once, Sock, DialStatus, CallSame
<1>7. Opening'
  BY <1>1, <1>2, <1>3
     DEF Once, Opening, Begun, FrameOf, DialStatus, CallSame
<1>8. Running'
  BY <1>1, <1>2, <1>3
     DEF Once, Running, Begun, FrameOf, Doomed, DialStatus, CallSame
<1>9. Heard'
  BY <1>1, <1>2, <1>3
     DEF Once, Heard, OpenStatus, Fails, DialStatus, Told, CallSame
<1> QED
  BY <1>4, <1>5, <1>6, <1>7, <1>8, <1>9 DEF Once

LEMMA ReadStartedOnce ==
  ASSUME Sound, Plain, Once, ReadStarted
  PROVE  Once'
<1>1. Sound' /\ View /\ View'
  BY Views, ReadUnchanged, Statuses, ReadStartedStep
<1>2. UNCHANGED <<status, exit, isStop, connected, fd, armed, cmd, retry, recon,
                  attempts, starts, use>>
  BY ReadUnchanged
     DEF ReadStarted, FrameStatus, sockVars, bufVars, exitVars, reconVars,
     histVars, boundVars
<1>3. /\ CallSame /\ Now("work").op = "none" /\ "read" \in armed /\ fd
      /\ status \in {"Starting", "Started", "Connecting"}
      /\ peer = "starting" /\ peer' = "running"
      /\ Now("work").op' = "tell" /\ Now("work").ev' = "Started"
  BY <1>1, ReadUnchanged, Statuses, ReadStartedStep
     DEF ReadStarted, FrameStatus
<1>4. BeforeLaunch'
  BY <1>1, <1>2, <1>3
     DEF Once, BeforeLaunch, Unlaunched, CallSame
<1>5. DialPhase'
  BY <1>1, <1>2, <1>3
     DEF Once, DialPhase, DialStatus, DialOps, Dials, Fails, Told, CallSame,
     BeforeLaunch
<1>6. Sock'
  BY <1>1, <1>2, <1>3
     DEF Once, Sock, DialStatus, CallSame
<1>7. Opening'
  BY <1>1, <1>2, <1>3
     DEF Once, BeforeLaunch, DialPhase, Sock, Opening, Running, Heard, View,
     FrameOf, Begun, Doomed, OpenStatus, Unlaunched, WorkSame, CallSame,
     WorkDone, CallDone, Closes, Breaks, UserEvents
<1>8. Running'
  BY <1>1, <1>2, <1>3
     DEF Once, BeforeLaunch, DialPhase, Sock, Opening, Running, Heard, View,
     FrameOf, Begun, Doomed, OpenStatus, Unlaunched, WorkSame
<1>9. Heard'
  BY <1>1, <1>2, <1>3
     DEF Once, Heard, OpenStatus, Fails, DialStatus, Told, CallSame
<1> QED
  BY <1>4, <1>5, <1>6, <1>7, <1>8, <1>9 DEF Once

LEMMA ReadCompletedOnce ==
  ASSUME Sound, Plain, Once, ReadCompleted
  PROVE  Once'
<1>1. Sound' /\ View /\ View'
  BY Views, ReadUnchanged, Statuses, ReadCompletedStep
<1>2. UNCHANGED <<status, exit, isStop, connected, fd, armed, cmd, retry, recon,
                  attempts, starts, use>>
  BY ReadUnchanged
     DEF ReadCompleted, FrameStatus, sockVars, bufVars, exitVars, reconVars,
     histVars, boundVars
<1>3. /\ CallSame /\ Now("work").op = "none" /\ "read" \in armed /\ fd
      /\ status \in {"Starting", "Started", "Connecting"}
      /\ peer = "stopping" /\ peer' = "open"
      /\ Now("work").op' = "tell" /\ Now("work").ev' = "Completed"
  BY <1>1, ReadUnchanged, Statuses, ReadCompletedStep
     DEF ReadCompleted, FrameStatus
<1>4. BeforeLaunch'
  BY <1>1, <1>2, <1>3
     DEF Once, BeforeLaunch, Unlaunched, CallSame
<1>5. DialPhase'
  BY <1>1, <1>2, <1>3
     DEF Once, DialPhase, DialStatus, DialOps, Dials, Fails, Told, CallSame,
     BeforeLaunch
<1>6. Sock'
  BY <1>1, <1>2, <1>3
     DEF Once, Sock, DialStatus, CallSame
<1>7. Opening'
  BY <1>1, <1>2, <1>3
     DEF Once, BeforeLaunch, DialPhase, Sock, Opening, Running, Heard, View,
     FrameOf, Begun, Doomed, OpenStatus, Unlaunched, WorkSame
<1>8. Running'
  BY <1>1, <1>2, <1>3
     DEF Once, Running, Begun, FrameOf, Doomed, DialStatus, CallSame
<1>9. Heard'
  BY <1>1, <1>2, <1>3
     DEF Once, Heard, OpenStatus, Fails, DialStatus, Told, CallSame
<1> QED
  BY <1>4, <1>5, <1>6, <1>7, <1>8, <1>9 DEF Once

LEMMA ReadTaskFailedOnce ==
  ASSUME Sound, Plain, Once, ReadTaskFailed
  PROVE  Once'
<1>1. Sound' /\ View /\ View'
  BY Views, ReadUnchanged, Statuses, ReadTaskFailedStep
<1>2. UNCHANGED <<status, exit, isStop, connected, fd, armed, cmd, retry, recon,
                  attempts, starts, use>>
  BY ReadUnchanged
     DEF ReadTaskFailed, FrameStatus, sockVars, bufVars, exitVars, reconVars,
     histVars, boundVars
<1>3. /\ CallSame /\ Now("work").op = "none" /\ "read" \in armed /\ fd
      /\ status \in {"Starting", "Started", "Connecting"}
      /\ peer \in {"starting", "running", "stopping", "lost"}
      /\ peer' = "failed" /\ Breaks'
      /\ Now("work").op' = "tell" /\ Now("work").ev' = "TaskFailed"
      /\ Coming' = Set("TaskFailed")
  BY <1>1, ReadUnchanged, Statuses, ReadTaskFailedStep
     DEF ReadTaskFailed, FrameStatus
<1>4. BeforeLaunch'
  BY <1>1, <1>2, <1>3, StepOps
     DEF Once, BeforeLaunch, Unlaunched, CallSame, Breaks
<1>5. DialPhase'
  BY <1>1, <1>2, <1>3, StepOps
     DEF Once, DialPhase, DialStatus, DialOps, Dials, Fails, Told, CallSame,
     Breaks, BeforeLaunch
<1>6. Sock'
  BY <1>1, <1>2, <1>3, StepOps
     DEF Once, Sock, DialStatus, CallSame, Breaks
<1>7. Opening'
  BY <1>1, <1>2, <1>3, StepOps
     DEF Once, Opening, Begun, FrameOf, DialStatus, CallSame, Breaks
<1>8. Running'
  BY <1>1, <1>2, <1>3, StepOps
     DEF Once, BeforeLaunch, DialPhase, Sock, Opening, Running, Heard, View,
     FrameOf, Begun, Doomed, OpenStatus, Unlaunched, WorkSame, CallSame,
     WorkDone, CallDone, Closes, Breaks, UserEvents
<1>9. Heard'
  BY <1>1, <1>2, <1>3, StepOps
     DEF Once, Heard, OpenStatus, Fails, DialStatus, Told, CallSame, Breaks
<1> QED
  BY <1>4, <1>5, <1>6, <1>7, <1>8, <1>9 DEF Once

LEMMA ReadDirtyOnce ==
  ASSUME Sound, Plain, Once, ReadDirty
  PROVE  Once'
<1>1. Sound' /\ View /\ View'
  BY Views, ReadUnchanged, Statuses, ReadDirtyStep, Fields
<1>2. UNCHANGED <<status, exit, isStop, connected, fd, armed, cmd, peer, retry,
                  recon, attempts, starts, use>>
  BY ReadUnchanged
     DEF ReadDirty, FrameStatus, sockVars, bufVars, exitVars, reconVars,
     histVars, boundVars
<1>3. /\ CallSame /\ Now("work").op = "none" /\ "read" \in armed /\ fd
      /\ status \in {"Starting", "Started", "Connecting"}
      /\ Breaks' /\ Now("work").op' = "check" /\ Now("work").ev' = "TaskFailed"
  <2>1. \A m : CheckFailed(m).op = "check" /\ CheckFailed(m).ev = "TaskFailed"
    BY Fields
  <2>2. /\ Now("work").op = "none" /\ "read" \in armed /\ fd
        /\ status \in {"Starting", "Started", "Connecting"}
    BY AtWork, ReadUnchanged DEF ReadDirty, FrameStatus
  <2> QED
    BY <1>1, <2>1, <2>2, ReadDirtyStep
<1>4. BeforeLaunch'
  BY <1>1, <1>2, <1>3
     DEF Once, BeforeLaunch, Unlaunched, CallSame, Breaks
<1>5. DialPhase'
  BY <1>1, <1>2, <1>3
     DEF Once, DialPhase, DialStatus, DialOps, Dials, Fails, Told, CallSame,
     Breaks, BeforeLaunch
<1>6. Sock'
  BY <1>1, <1>2, <1>3
     DEF Once, Sock, DialStatus, CallSame, Breaks
<1>7. Opening'
  BY <1>1, <1>2, <1>3
     DEF Once, Opening, Begun, FrameOf, DialStatus, CallSame, Breaks
<1>8. Running'
  BY <1>1, <1>2, <1>3
     DEF Once, Running, Begun, FrameOf, Doomed, DialStatus, CallSame, Breaks
<1>9. Heard'
  BY <1>1, <1>2, <1>3
     DEF Once, Heard, OpenStatus, Fails, DialStatus, Told, CallSame, Breaks
<1> QED
  BY <1>4, <1>5, <1>6, <1>7, <1>8, <1>9 DEF Once

LEMMA ReadFailsOnce ==
  ASSUME Sound, Plain, Once, ReadFails
  PROVE  Once'
<1>1. Sound' /\ View /\ View'
  BY Views, ReadUnchanged, Statuses, ReadFailsStep, StepOps
<1>2. UNCHANGED <<status, exit, isStop, connected, fd, armed, cmd, peer, retry,
                  recon, attempts, starts, use>>
  BY ReadUnchanged
     DEF ReadFails, sockVars, bufVars, exitVars, reconVars, histVars, boundVars
<1>3. /\ CallSame /\ Now("work").op = "none" /\ "read" \in armed /\ fd
      /\ status # "Closed" /\ Breaks' /\ Now("work").op' = "close"
  BY <1>1, ReadUnchanged, Statuses, ReadFailsStep, StepOps
     DEF ReadFails
<1>4. BeforeLaunch'
  BY <1>1, <1>2, <1>3
     DEF Once, BeforeLaunch, Unlaunched, CallSame, Breaks
<1>5. DialPhase'
  BY <1>1, <1>2, <1>3
     DEF Once, DialPhase, DialStatus, DialOps, Dials, Fails, Told, CallSame,
     Breaks, BeforeLaunch
<1>6. Sock'
  BY <1>1, <1>2, <1>3
     DEF Once, Sock, DialStatus, CallSame, Breaks
<1>7. Opening'
  BY <1>1, <1>2, <1>3
     DEF Once, Opening, Begun, FrameOf, DialStatus, CallSame, Breaks
<1>8. Running'
  BY <1>1, <1>2, <1>3
     DEF Once, Running, Begun, FrameOf, Doomed, DialStatus, CallSame, Breaks
<1>9. Heard'
  BY <1>1, <1>2, <1>3
     DEF Once, Heard, OpenStatus, Fails, DialStatus, Told, CallSame, Breaks
<1> QED
  BY <1>4, <1>5, <1>6, <1>7, <1>8, <1>9 DEF Once

LEMMA RespondOnce ==
  ASSUME Sound, Plain, Once, Respond
  PROVE  Once'
<1>1. Sound' /\ View /\ View'
  BY Views, RespondStep, StepOps
<1>2. UNCHANGED <<status, exit, isStop, connected, fd, armed, cmd, peer, retry,
                  recon, attempts, starts, use>>
  BY DEF Respond, sockVars, bufVars, exitVars, reconVars, histVars, boundVars
<1>3. /\ CallSame /\ Now("work").op = "respond"
      /\ \/ status = "Closed" /\ Now("work").op' = "none"
         \/ /\ status # "Closed" /\ Now("work").op' = "close"
            /\ Breaks'
  BY <1>1, RespondStep, StepOps
     DEF Respond
<1>4. BeforeLaunch'
  BY <1>1, <1>2, <1>3
     DEF Once, BeforeLaunch, Unlaunched, CallSame, Breaks
<1>5. DialPhase'
  BY <1>1, <1>2, <1>3
     DEF Once, DialPhase, DialStatus, DialOps, Dials, Fails, Told, CallSame,
     Breaks, BeforeLaunch
<1>6. Sock'
  BY <1>1, <1>2, <1>3
     DEF Once, Sock, DialStatus, CallSame, Breaks
<1>7. Opening'
  BY <1>1, <1>2, <1>3
     DEF Once, BeforeLaunch, DialPhase, Sock, Opening, Running, Heard, View,
     Told, Single, DialStatus, DialOps, Dials, Fails, FrameOf, Begun, Doomed,
     OpenStatus, Unlaunched, WorkSame
<1>8. Running'
  BY <1>1, <1>2, <1>3
     DEF Once, Running, Begun, FrameOf, Doomed, DialStatus, CallSame, Breaks
<1>9. Heard'
  BY <1>1, <1>2, <1>3
     DEF Once, Heard, OpenStatus, Fails, DialStatus, Told, CallSame, Breaks
<1> QED
  BY <1>4, <1>5, <1>6, <1>7, <1>8, <1>9 DEF Once

LEMMA WriteOnce ==
  ASSUME Sound, Plain, Once, Write
  PROVE  Once'
<1>1. Sound' /\ View /\ View'
  BY Views, WriteStep, StepOps
<1>2. UNCHANGED <<status, exit, isStop, connected, fd, cmd, peer, retry, recon,
                  attempts, starts, use>>
  BY DEF Write, sockVars, bufVars, exitVars, reconVars, histVars, boundVars
<1>3. /\ CallSame /\ Now("work").op = "none"
      /\ "write" \in armed /\ armed' = armed \ {"write"}
      /\ \/ exit = "Cancel" /\ Now("work").op' = "close" /\ Closing'
         \/ exit # "Cancel" /\ Now("work").op' = "close" /\ Breaks'
         \/ fd /\ Now("work").op' = "request"
  <2>1. "write" \in armed /\ armed' = armed \ {"write"}
    BY AtWork DEF Write
  <2>2. /\ CallSame /\ Now("work").op = "none"
        /\ \/ exit = "Cancel" /\ Now("work")' = Step("close") /\ Closing'
           \/ exit # "Cancel" /\ Now("work")' = Step("close") /\ Breaks'
           \/ fd /\ Now("work")' = Step("request")
    BY <1>1, WriteStep
  <2> QED
    BY <2>1, <2>2, StepOps
<1>4. BeforeLaunch'
  BY <1>1, <1>2, <1>3
     DEF Once, BeforeLaunch, Unlaunched, CallSame, Breaks
<1>5. DialPhase'
  BY <1>1, <1>2, <1>3
     DEF Once, DialPhase, DialStatus, DialOps, Dials, Fails, Told, CallSame,
     Breaks, BeforeLaunch
<1>6. Sock'
  BY <1>1, <1>2, <1>3
     DEF Once, Sock, DialStatus, CallSame, Breaks
<1>7. Opening'
  BY <1>1, <1>2, <1>3
     DEF Once, BeforeLaunch, DialPhase, Sock, Opening, Running, Heard, View,
     FrameOf, Begun, Doomed, OpenStatus, Unlaunched, WorkSame, CallSame,
     WorkDone, CallDone, Closes, Breaks, UserEvents
<1>8. Running'
  BY <1>1, <1>2, <1>3
     DEF Once, Running, Begun, FrameOf, Doomed, DialStatus, CallSame, Breaks
<1>9. Heard'
  BY <1>1, <1>2, <1>3
     DEF Once, Heard, OpenStatus, Fails, DialStatus, Told, CallSame, Breaks
<1> QED
  BY <1>4, <1>5, <1>6, <1>7, <1>8, <1>9 DEF Once

LEMMA PushOnce ==
  ASSUME Sound, Plain, Once, Push
  PROVE  Once'
<1>1. Sound' /\ View /\ View'
  BY Views, PushStep
<1>2. UNCHANGED <<status, exit, isStop, connected, fd, cmd, peer, retry, recon,
                  attempts, starts, use>>
  BY DEF Push, sockVars, bufVars, exitVars, reconVars, histVars, boundVars
<1>3. /\ WorkSame /\ Now("caller").op = "push"
      /\ armed' = armed \/ armed' = armed \cup {"write"}
      /\ Now("caller").op' \in {"none", "control", "disconnect"}
  BY <1>1, PushStep
     DEF Push
<1>4. BeforeLaunch'
  BY <1>1, <1>2, <1>3
     DEF Once, BeforeLaunch, Unlaunched, WorkSame
<1>5. DialPhase'
  BY <1>1, <1>2, <1>3
     DEF Once, DialPhase, DialStatus, DialOps, Dials, Fails, Told, WorkSame,
     BeforeLaunch
<1>6. Sock'
  BY <1>1, <1>2, <1>3
     DEF Once, Sock, DialStatus, WorkSame
<1>7. Opening'
  BY <1>1, <1>2, <1>3
     DEF Once, Opening, Begun, FrameOf, DialStatus, WorkSame
<1>8. Running'
  BY <1>1, <1>2, <1>3
     DEF Once, Running, Begun, FrameOf, Doomed, DialStatus, WorkSame
<1>9. Heard'
  BY <1>1, <1>2, <1>3
     DEF Once, Heard, OpenStatus, Fails, DialStatus, Told, WorkSame
<1> QED
  BY <1>4, <1>5, <1>6, <1>7, <1>8, <1>9 DEF Once

LEMMA FlushOnce ==
  ASSUME Sound, Plain, Once, Flush
  PROVE  Once'
<1>1. Sound' /\ View /\ View'
  BY Views, FlushStep, StepOps, Fields
<1>2. UNCHANGED <<status, exit, isStop, connected, fd, cmd, peer, retry, recon,
                  attempts, starts, use>>
  BY DEF Flush, sockVars, bufVars, exitVars, reconVars, histVars, boundVars
<1>3. /\ CallSame /\ Now("work").op = "flush"
      /\ armed' = armed \/ armed' = armed \cup {"write"}
      /\ \/ Now("work").op' \in {"none", "control"}
         \/ /\ Breaks'
            /\ \/ Now("work").op' = "check" /\ Now("work").ev' = "TaskFailed"
               \/ Now("work").op' = "close"
  <2>1. \A m : CheckFailed(m).op = "check" /\ CheckFailed(m).ev = "TaskFailed"
    BY Fields
  <2> QED
    BY <1>1, <2>1, FlushStep, StepOps DEF Flush
<1>4. BeforeLaunch'
  BY <1>1, <1>2, <1>3
     DEF Once, BeforeLaunch, Unlaunched, CallSame, Breaks
<1>5. DialPhase'
  BY <1>1, <1>2, <1>3
     DEF Once, DialPhase, DialStatus, DialOps, Dials, Fails, Told, CallSame,
     Breaks, BeforeLaunch
<1>6. Sock'
  BY <1>1, <1>2, <1>3
     DEF Once, Sock, DialStatus, CallSame, Breaks
<1>7. Opening'
  BY <1>1, <1>2, <1>3
     DEF Once, Opening, Begun, FrameOf, DialStatus, CallSame, Breaks
<1>8. Running'
  BY <1>1, <1>2, <1>3
     DEF Once, Running, Begun, FrameOf, Doomed, DialStatus, CallSame, Breaks
<1>9. Heard'
  BY <1>1, <1>2, <1>3
     DEF Once, BeforeLaunch, DialPhase, Sock, Opening, Running, Heard, View,
     Told, Single, DialStatus, DialOps, Dials, Fails, CallSame, WorkDone,
     CallDone, Closes, Breaks, UserEvents
<1> QED
  BY <1>4, <1>5, <1>6, <1>7, <1>8, <1>9 DEF Once

LEMMA WorkControlOnce ==
  ASSUME Sound, Plain, Once, Control("work")
  PROVE  Once'
<1>1. Sound' /\ View /\ View'
  BY Views, WorkControlStep, StepOps, Fields
<1>2. UNCHANGED <<status, exit, connected, fd, retry, recon, attempts, starts,
                  use>>
  BY DEF Control, sockVars, bufVars, exitVars, reconVars, histVars, boundVars
<1>3. /\ CallSame /\ Now("work").op = "control"
      /\ isStop' = (isStop \/ exit = "Stopping")
      /\ \/ /\ Directive = <<>> /\ UNCHANGED <<cmd, peer, armed>>
            /\ Now("work").op' = "none"
         \/ /\ Directive # <<>> /\ fd /\ cmd' = <<>>
            /\ peer' = Hear(peer, Directive) /\ armed' = armed
            /\ Now("work").op' = "none"
         \/ /\ Directive # <<>> /\ fd /\ cmd' = Directive /\ peer' = peer
            /\ armed' = armed \cup {"write"}
            /\ Now("work").op' = "none"
         \/ /\ Directive # <<>> /\ cmd' = Directive /\ peer' = peer
            /\ armed' = armed /\ Breaks'
            /\ \/ Now("work").op' = "check" /\ Now("work").ev' = "TaskFailed"
               \/ Now("work").op' = "close"
  <2>1. \A m : CheckFailed(m).op = "check" /\ CheckFailed(m).ev = "TaskFailed"
    BY Fields
  <2>2. isStop' = (isStop \/ exit = "Stopping")
    BY DEF Control
  <2> QED
    BY <1>1, <2>1, <2>2, WorkControlStep, StepOps
<1>10. /\ Directive # <<>> =>
            /\ Directive = <<"stop">> /\ exit = "Stopping" /\ ~isStop
            /\ peer \in {"running", "failed", "none"}
            /\ fd => peer \in {"running", "failed"}
       /\ Directive = <<>> => isStop' = isStop
  <2>1. /\ Begun /\ ~FrameOf("Started") /\ status \notin DialStatus
        /\ fd \in BOOLEAN /\ isStop \in BOOLEAN
    BY <1>3, TypeSplit DEF Sound, FieldsOK, Begun, FrameOf, Once, Opening,
       Running
  <2>2. /\ ~isStop => cmd = <<>> /\ peer \in {"running", "failed", "none"}
        /\ fd => peer # "none"
        /\ exit = "Invalid" => ~isStop
    BY <2>1 DEF Once, Sock, Running
  <2> QED
    BY <1>3, <2>1, <2>2, Hears DEF Directive
<1>4. BeforeLaunch'
  BY <1>1, <1>2, <1>3, <1>10, Hears
     DEF Once, BeforeLaunch, Unlaunched, CallSame, Breaks
<1>5. DialPhase'
  BY <1>1, <1>2, <1>3, <1>10, Hears
     DEF Once, DialPhase, DialStatus, DialOps, Dials, Fails, Told, CallSame,
     Breaks, BeforeLaunch
<1>6. Sock'
  BY <1>1, <1>2, <1>3, <1>10, Hears
     DEF Once, Sock, DialStatus, CallSame, Breaks
<1>7. Opening'
  BY <1>1, <1>2, <1>3, <1>10, Hears
     DEF Once, Opening, Begun, FrameOf, DialStatus, CallSame, Breaks
<1>8. Running'
  BY <1>1, <1>2, <1>3, <1>10, Hears
     DEF Once, Running, Begun, FrameOf, Doomed, DialStatus, CallSame, Breaks
<1>9. Heard'
  BY <1>1, <1>2, <1>3, <1>10, Hears
     DEF Once, BeforeLaunch, DialPhase, Sock, Opening, Running, Heard, View,
     Told, Single, DialStatus, DialOps, Dials, Fails, CallSame, WorkDone,
     CallDone, Closes, Breaks, UserEvents
<1> QED
  BY <1>4, <1>5, <1>6, <1>7, <1>8, <1>9 DEF Once

LEMMA CallControlOnce ==
  ASSUME Sound, Plain, Once, Control("caller")
  PROVE  Once'
<1>1. Sound' /\ View /\ View'
  BY Views, CallControlStep, StepOps, Fields
<1>2. UNCHANGED <<status, exit, connected, fd, retry, recon, attempts, starts,
                  use>>
  BY DEF Control, sockVars, bufVars, exitVars, reconVars, histVars, boundVars
<1>3. /\ WorkSame /\ Now("caller").op = "control"
      /\ isStop' = (isStop \/ exit = "Stopping")
      /\ \/ /\ Directive = <<>> /\ UNCHANGED <<cmd, peer, armed>>
            /\ Now("caller").op' \in {"none", "unlock"}
         \/ /\ Directive # <<>> /\ fd /\ cmd' = <<>>
            /\ peer' = Hear(peer, Directive) /\ armed' = armed
            /\ Now("caller").op' \in {"none", "unlock"}
         \/ /\ Directive # <<>> /\ fd /\ cmd' = Directive /\ peer' = peer
            /\ armed' = armed \cup {"write"}
            /\ Now("caller").op' \in {"none", "unlock"}
         \/ /\ Directive # <<>> /\ cmd' = Directive /\ peer' = peer
            /\ armed' = armed /\ Now("caller").op' = "disconnect"
  BY <1>1, CallControlStep, StepOps, Fields
     DEF Control
<1>10. /\ Directive # <<>> =>
            /\ Directive = <<"stop">> /\ exit = "Stopping" /\ ~isStop
            /\ peer \in {"running", "failed", "none"}
            /\ fd => peer \in {"running", "failed"}
       /\ Directive = <<>> => isStop' = isStop
  <2>1. /\ Begun /\ ~FrameOf("Started") /\ status \notin DialStatus
        /\ fd \in BOOLEAN /\ isStop \in BOOLEAN
    BY <1>3, TypeSplit DEF Sound, FieldsOK, Begun, FrameOf, Once, Opening,
       Running
  <2>2. /\ ~isStop => cmd = <<>> /\ peer \in {"running", "failed", "none"}
        /\ fd => peer # "none"
        /\ exit = "Invalid" => ~isStop
    BY <2>1 DEF Once, Sock, Running
  <2> QED
    BY <1>3, <2>1, <2>2, Hears DEF Directive
<1>4. BeforeLaunch'
  BY <1>1, <1>2, <1>3, <1>10, Hears
     DEF Once, BeforeLaunch, Unlaunched, WorkSame
<1>5. DialPhase'
  BY <1>1, <1>2, <1>3, <1>10, Hears
     DEF Once, DialPhase, DialStatus, DialOps, Dials, Fails, Told, WorkSame,
     BeforeLaunch
<1>6. Sock'
  BY <1>1, <1>2, <1>3, <1>10, Hears
     DEF Once, Sock, DialStatus, WorkSame
<1>7. Opening'
  BY <1>1, <1>2, <1>3, <1>10, Hears
     DEF Once, Opening, Begun, FrameOf, DialStatus, WorkSame
<1>8. Running'
  BY <1>1, <1>2, <1>3, <1>10, Hears
     DEF Once, Running, Begun, FrameOf, Doomed, DialStatus, WorkSame
<1>9. Heard'
  BY <1>1, <1>2, <1>3, <1>10, Hears
     DEF Once, Heard, OpenStatus, Fails, DialStatus, Told, WorkSame
<1> QED
  BY <1>4, <1>5, <1>6, <1>7, <1>8, <1>9 DEF Once

LEMMA WorkCheckOnce ==
  ASSUME Sound, Plain, Once, Check("work")
  PROVE  Once'
<1>1. Sound' /\ View /\ View'
  BY Views, WorkCheckStep
<1>2. UNCHANGED <<status, exit, isStop, connected, fd, armed, cmd, peer, retry,
                  recon, attempts, starts, use>>
  BY DEF Check, sockVars, bufVars, exitVars, reconVars, histVars, boundVars
<1>3. /\ CallSame /\ Now("work").op = "check"
      /\ \/ (exit = "Cancel" \/ status = "Closed") /\ WorkDone
         \/ /\ exit # "Cancel" /\ status # "Closed" /\ (Closing' <=> Closing)
            /\ Coming' = Coming /\ Coming.op # "set"
            /\ Now("work").op' = "tell" /\ Now("work").ev' = Now("work").ev
  BY <1>1, WorkCheckStep
     DEF Check
<1>4. BeforeLaunch'
  BY <1>1, <1>2, <1>3, StepOps
     DEF Once, BeforeLaunch, Unlaunched, CallSame, WorkDone
<1>5. DialPhase'
  BY <1>1, <1>2, <1>3, StepOps
     DEF Once, BeforeLaunch, DialPhase, Sock, Opening, Running, Heard, View,
     Told, Single, DialStatus, DialOps, Dials, Fails, CallSame, WorkDone,
     CallDone, Closes, Breaks, UserEvents
<1>6. Sock'
  BY <1>1, <1>2, <1>3, StepOps
     DEF Once, Sock, DialStatus, CallSame, WorkDone
<1>7. Opening'
  BY <1>1, <1>2, <1>3, StepOps
     DEF Once, BeforeLaunch, DialPhase, Sock, Opening, Running, Heard, View,
     FrameOf, Begun, Doomed, OpenStatus, Unlaunched, WorkSame, CallSame,
     WorkDone, CallDone, Closes, Breaks, UserEvents
<1>8. Running'
  BY <1>1, <1>2, <1>3, StepOps
     DEF Once, BeforeLaunch, DialPhase, Sock, Opening, Running, Heard, View,
     FrameOf, Begun, Doomed, OpenStatus, Unlaunched, WorkSame, CallSame,
     WorkDone, CallDone, Closes, Breaks, UserEvents
<1>9. Heard'
  BY <1>1, <1>2, <1>3, StepOps
     DEF Once, Heard, OpenStatus, Fails, DialStatus, Told, CallSame, WorkDone
<1> QED
  BY <1>4, <1>5, <1>6, <1>7, <1>8, <1>9 DEF Once

LEMMA CallCheckOnce ==
  ASSUME Sound, Plain, Once, Check("caller")
  PROVE  Once'
<1>1. Sound' /\ View /\ View'
  BY Views, CallCheckStep
<1>2. UNCHANGED <<status, exit, isStop, connected, fd, armed, cmd, peer, retry,
                  recon, attempts, starts, use>>
  BY DEF Check, sockVars, bufVars, exitVars, reconVars, histVars, boundVars
<1>3. /\ WorkSame /\ Now("caller").op = "check"
      /\ \/ (exit = "Cancel" \/ status = "Closed") /\ CallDone
         \/ /\ exit # "Cancel" /\ status # "Closed"
            /\ Now("caller").op' = "tell"
            /\ Now("caller").ev' = Now("caller").ev
  BY <1>1, CallCheckStep
     DEF Check
<1>4. BeforeLaunch'
  BY <1>1, <1>2, <1>3, StepOps
     DEF Once, BeforeLaunch, Unlaunched, WorkSame, CallDone
<1>5. DialPhase'
  BY <1>1, <1>2, <1>3, StepOps
     DEF Once, DialPhase, DialStatus, DialOps, Dials, Fails, Told, WorkSame,
     CallDone, BeforeLaunch
<1>6. Sock'
  BY <1>1, <1>2, <1>3, StepOps
     DEF Once, Sock, DialStatus, WorkSame, CallDone
<1>7. Opening'
  BY <1>1, <1>2, <1>3, StepOps
     DEF Once, Opening, Begun, FrameOf, DialStatus, WorkSame, CallDone
<1>8. Running'
  BY <1>1, <1>2, <1>3, StepOps
     DEF Once, Running, Begun, FrameOf, Doomed, DialStatus, WorkSame, CallDone
<1>9. Heard'
  BY <1>1, <1>2, <1>3, StepOps
     DEF Once, Heard, OpenStatus, Fails, DialStatus, Told, WorkSame, CallDone
<1> QED
  BY <1>4, <1>5, <1>6, <1>7, <1>8, <1>9 DEF Once

LEMMA WorkTellOnce ==
  ASSUME Sound, Plain, Once, Tell("work")
  PROVE  Once'
<1>1. Sound' /\ View /\ View'
  BY Views, WorkTellStep
<1>2. UNCHANGED <<status, exit, isStop, connected, fd, armed, cmd, peer, retry,
                  recon, attempts, starts, use>>
  BY AtWork, AtCaller, NodeAssumption
     DEF Tell, Noted, Mending, Once, BeforeLaunch, Plain, sockVars, bufVars,
     exitVars, reconVars, histVars, boundVars, Sound, TypeOK
<1>3. /\ CallSame /\ Now("work").op = "tell"
      /\ (Closing' <=> Closing) /\ Now("work").op' = "after"
      /\ Now("work").ev' = Now("work").ev
      /\ Coming' = Coming
  BY <1>1, WorkTellStep
     DEF Tell, Noted, Mending
<1>4. BeforeLaunch'
  BY <1>1, <1>2, <1>3, StepOps
     DEF Once, BeforeLaunch, Unlaunched, CallSame
<1>5. DialPhase'
  BY <1>1, <1>2, <1>3, StepOps
     DEF Once, DialPhase, DialStatus, DialOps, Dials, Fails, Told, CallSame,
     BeforeLaunch
<1>6. Sock'
  BY <1>1, <1>2, <1>3, StepOps
     DEF Once, Sock, DialStatus, CallSame
<1>7. Opening'
  BY <1>1, <1>2, <1>3, StepOps
     DEF Once, Opening, Begun, FrameOf, DialStatus, CallSame
<1>8. Running'
  BY <1>1, <1>2, <1>3, StepOps
     DEF Once, Running, Begun, FrameOf, Doomed, DialStatus, CallSame
<1>9. Heard'
  BY <1>1, <1>2, <1>3, StepOps
     DEF Once, Heard, OpenStatus, Fails, DialStatus, Told, CallSame
<1> QED
  BY <1>4, <1>5, <1>6, <1>7, <1>8, <1>9 DEF Once

LEMMA CallTellOnce ==
  ASSUME Sound, Plain, Once, Tell("caller")
  PROVE  Once'
<1>1. Sound' /\ View /\ View'
  BY Views, CallTellStep
<1>2. UNCHANGED <<status, exit, isStop, connected, fd, armed, cmd, peer, retry,
                  recon, attempts, starts, use>>
  BY AtWork, AtCaller, NodeAssumption
     DEF Tell, Noted, Mending, Once, BeforeLaunch, Plain, sockVars, bufVars,
     exitVars, reconVars, histVars, boundVars, Sound, TypeOK
<1>3. /\ WorkSame /\ Now("caller").op = "tell"
      /\ Now("caller").op' = "after" /\ Now("caller").ev' = Now("caller").ev
  BY <1>1, CallTellStep
     DEF Tell, Noted, Mending
<1>4. BeforeLaunch'
  BY <1>1, <1>2, <1>3
     DEF Once, BeforeLaunch, Unlaunched, WorkSame
<1>5. DialPhase'
  BY <1>1, <1>2, <1>3
     DEF Once, DialPhase, DialStatus, DialOps, Dials, Fails, Told, WorkSame,
     BeforeLaunch
<1>6. Sock'
  BY <1>1, <1>2, <1>3
     DEF Once, Sock, DialStatus, WorkSame
<1>7. Opening'
  BY <1>1, <1>2, <1>3
     DEF Once, Opening, Begun, FrameOf, DialStatus, WorkSame
<1>8. Running'
  BY <1>1, <1>2, <1>3
     DEF Once, Running, Begun, FrameOf, Doomed, DialStatus, WorkSame
<1>9. Heard'
  BY <1>1, <1>2, <1>3
     DEF Once, Heard, OpenStatus, Fails, DialStatus, Told, WorkSame
<1> QED
  BY <1>4, <1>5, <1>6, <1>7, <1>8, <1>9 DEF Once

LEMMA WorkAfterCloseOnce ==
  ASSUME Sound, Plain, Once, AfterClose("work")
  PROVE  Once'
<1>1. Sound' /\ View /\ View'
  BY Views, WorkAfterCloseStep
<1>2. UNCHANGED <<exit, isStop, connected, fd, armed, cmd, peer, attempts,
                  starts, use>>
  BY AtWork, AtCaller, NodeAssumption
     DEF AfterClose, Once, BeforeLaunch, Plain, sockVars, bufVars, exitVars,
     reconVars, histVars, boundVars, Sound, TypeOK
<1>3. /\ CallSame /\ WorkDone
      /\ Now("work").op = "after" /\ Now("work").ev = "Close"
      /\ status' = "Closed" /\ retry' = 0 /\ recon'.state = recon.state
  BY <1>1, WorkAfterCloseStep, AtWork, AtCaller, UseTyped, TypeSplit
     DEF AfterClose, Once, BeforeLaunch, Plain, sockVars, bufVars, exitVars,
     reconVars, histVars, boundVars, Sound, TypeOK
<1>4. BeforeLaunch'
  BY <1>1, <1>2, <1>3, StepOps
     DEF Once, BeforeLaunch, Unlaunched, CallSame, WorkDone
<1>5. DialPhase'
  BY <1>1, <1>2, <1>3, StepOps
     DEF Once, DialPhase, DialStatus, DialOps, Dials, Fails, Told, CallSame,
     WorkDone, BeforeLaunch
<1>6. Sock'
  BY <1>1, <1>2, <1>3, StepOps
     DEF Once, BeforeLaunch, DialPhase, Sock, Opening, Running, Heard, View,
     Told, Single, DialStatus, DialOps, Dials, Fails
<1>7. Opening'
  BY <1>1, <1>2, <1>3, StepOps
     DEF Once, BeforeLaunch, DialPhase, Sock, Opening, Running, Heard, View,
     FrameOf, Begun, Doomed, OpenStatus, Unlaunched, WorkSame, CallSame,
     WorkDone, CallDone, Closes, Breaks, UserEvents
<1>8. Running'
  BY <1>1, <1>2, <1>3, StepOps
     DEF Once, BeforeLaunch, DialPhase, Sock, Opening, Running, Heard, View,
     Told, Single, DialStatus, DialOps, Dials, Fails, FrameOf, Begun, Doomed,
     OpenStatus, Unlaunched, WorkSame, CallSame, WorkDone, CallDone, Closes,
     Breaks, UserEvents
<1>9. Heard'
  BY <1>1, <1>2, <1>3, StepOps
     DEF Once, Heard, OpenStatus, Fails, DialStatus, Told, CallSame, WorkDone
<1> QED
  BY <1>4, <1>5, <1>6, <1>7, <1>8, <1>9 DEF Once

LEMMA CallAfterCloseOnce ==
  ASSUME Sound, Plain, Once, AfterClose("caller")
  PROVE  Once'
<1>1. Sound' /\ View /\ View'
  BY Views, CallAfterCloseStep
<1>2. UNCHANGED <<exit, isStop, connected, fd, armed, cmd, peer, attempts,
                  starts, use>>
  BY AtWork, AtCaller, NodeAssumption
     DEF AfterClose, Once, BeforeLaunch, Plain, sockVars, bufVars, exitVars,
     reconVars, histVars, boundVars, Sound, TypeOK
<1>3. /\ CallDone
      /\ Now("caller").op = "after" /\ Now("caller").ev = "Close"
      /\ status' = "Closed" /\ retry' = 0 /\ recon'.state = recon.state
  BY <1>1, CallAfterCloseStep, AtWork, AtCaller, UseTyped, TypeSplit
     DEF AfterClose, Once, BeforeLaunch, Plain, sockVars, bufVars, exitVars,
     reconVars, histVars, boundVars, Sound, TypeOK
<1>4. BeforeLaunch'
  BY <1>1, <1>2, <1>3, StepOps
     DEF Once, BeforeLaunch, Unlaunched, CallDone
<1>5. DialPhase'
  BY <1>1, <1>2, <1>3, StepOps
     DEF Once, BeforeLaunch, DialPhase, Sock, Opening, Running, Heard, View,
     Told, Single, DialStatus, DialOps, Dials, Fails, FrameOf, Begun, Doomed,
     OpenStatus, Unlaunched, WorkSame, CallSame, WorkDone, CallDone, Closes,
     Breaks, UserEvents
<1>6. Sock'
  BY <1>1, <1>2, <1>3, StepOps
     DEF Once, BeforeLaunch, DialPhase, Sock, Opening, Running, Heard, View,
     FrameOf, Begun, Doomed, OpenStatus, Unlaunched, WorkSame
<1>7. Opening'
  BY <1>1, <1>2, <1>3, StepOps
     DEF Once, BeforeLaunch, DialPhase, Sock, Opening, Running, Heard, View,
     FrameOf, Begun, Doomed, OpenStatus, Unlaunched, WorkSame, CallSame,
     WorkDone, CallDone, Closes, Breaks, UserEvents
<1>8. Running'
  BY <1>1, <1>2, <1>3, StepOps
     DEF Once, Running, Begun, FrameOf, Doomed, DialStatus, CallDone
<1>9. Heard'
  BY <1>1, <1>2, <1>3, StepOps
     DEF Once, Heard, OpenStatus, Fails, DialStatus, Told, CallDone
<1> QED
  BY <1>4, <1>5, <1>6, <1>7, <1>8, <1>9 DEF Once

LEMMA WorkAfterOtherOnce ==
  ASSUME Sound, Plain, Once, AfterOther("work")
  PROVE  Once'
<1>1. Sound' /\ View /\ View'
  BY Views, WorkAfterOtherStep
<1>2. UNCHANGED <<status, exit, isStop, connected, fd, armed, cmd, peer, retry,
                  recon, attempts, starts, use>>
  BY DEF AfterOther, sockVars, bufVars, exitVars, reconVars, histVars, boundVars
<1>3. /\ CallSame /\ WorkDone
      /\ Now("work").op = "after"
      /\ Now("work").ev \in {"Started", "TaskFailed", "Completed"}
  BY <1>1, WorkAfterOtherStep
     DEF AfterOther
<1>4. BeforeLaunch'
  BY <1>1, <1>2, <1>3, StepOps
     DEF Once, BeforeLaunch, Unlaunched, CallSame, WorkDone
<1>5. DialPhase'
  BY <1>1, <1>2, <1>3, StepOps
     DEF Once, BeforeLaunch, DialPhase, Sock, Opening, Running, Heard, View,
     Told, Single, DialStatus, DialOps, Dials, Fails, CallSame, WorkDone,
     CallDone, Closes, Breaks, UserEvents
<1>6. Sock'
  BY <1>1, <1>2, <1>3, StepOps
     DEF Once, Sock, DialStatus, CallSame, WorkDone
<1>7. Opening'
  BY <1>1, <1>2, <1>3, StepOps
     DEF Once, BeforeLaunch, DialPhase, Sock, Opening, Running, Heard, View,
     FrameOf, Begun, Doomed, OpenStatus, Unlaunched, WorkSame, CallSame,
     WorkDone, CallDone, Closes, Breaks, UserEvents
<1>8. Running'
  BY <1>1, <1>2, <1>3, StepOps
     DEF Once, BeforeLaunch, DialPhase, Sock, Opening, Running, Heard, View,
     Told, Single, DialStatus, DialOps, Dials, Fails, FrameOf, Begun, Doomed,
     OpenStatus, Unlaunched, WorkSame, CallSame, WorkDone, CallDone, Closes,
     Breaks, UserEvents
<1>9. Heard'
  BY <1>1, <1>2, <1>3, StepOps
     DEF Once, BeforeLaunch, DialPhase, Sock, Opening, Running, Heard, View,
     Told, Single, DialStatus, DialOps, Dials, Fails, CallSame, WorkDone,
     CallDone, Closes, Breaks, UserEvents
<1> QED
  BY <1>4, <1>5, <1>6, <1>7, <1>8, <1>9 DEF Once

LEMMA CallAfterOtherOnce ==
  ASSUME Sound, Plain, Once, AfterOther("caller")
  PROVE  Once'
<1>1. Sound' /\ View /\ View'
  BY Views, CallAfterOtherStep
<1>2. UNCHANGED <<status, exit, isStop, connected, fd, armed, cmd, peer, retry,
                  recon, attempts, starts, use>>
  BY DEF AfterOther, sockVars, bufVars, exitVars, reconVars, histVars, boundVars
<1>3. /\ CallDone
      /\ Now("caller").op = "after" /\ Now("caller").ev = "TaskFailed"
  BY <1>1, CallAfterOtherStep
     DEF AfterOther
<1>4. BeforeLaunch'
  BY <1>1, <1>2, <1>3, StepOps
     DEF Once, BeforeLaunch, Unlaunched, CallDone
<1>5. DialPhase'
  BY <1>1, <1>2, <1>3, StepOps
     DEF Once, BeforeLaunch, DialPhase, Sock, Opening, Running, Heard, View,
     FrameOf, Begun, Doomed, OpenStatus, Unlaunched, WorkSame, CallSame,
     WorkDone, CallDone, Closes, Breaks, UserEvents
<1>6. Sock'
  BY <1>1, <1>2, <1>3, StepOps
     DEF Once, Sock, DialStatus, CallDone
<1>7. Opening'
  BY <1>1, <1>2, <1>3, StepOps
     DEF Once, BeforeLaunch, DialPhase, Sock, Opening, Running, Heard, View,
     FrameOf, Begun, Doomed, OpenStatus, Unlaunched, WorkSame, CallSame,
     WorkDone, CallDone, Closes, Breaks, UserEvents
<1>8. Running'
  BY <1>1, <1>2, <1>3, StepOps
     DEF Once, BeforeLaunch, DialPhase, Sock, Opening, Running, Heard, View,
     FrameOf, Begun, Doomed, OpenStatus, Unlaunched, WorkSame
<1>9. Heard'
  BY <1>1, <1>2, <1>3, StepOps
     DEF Once, BeforeLaunch, DialPhase, Sock, Opening, Running, Heard, View,
     Told, Single, DialStatus, DialOps, Dials, Fails, FrameOf, Begun, Doomed,
     OpenStatus, Unlaunched, WorkSame, CallSame, WorkDone, CallDone, Closes,
     Breaks, UserEvents
<1> QED
  BY <1>4, <1>5, <1>6, <1>7, <1>8, <1>9 DEF Once

LEMMA SetStartedOnce ==
  ASSUME Sound, Plain, Once, SetStarted
  PROVE  Once'
<1>1. Sound' /\ View /\ View'
  BY Views, SetStartedStep
<1>2. UNCHANGED <<exit, isStop, connected, fd, armed, cmd, peer, retry,
                  attempts, starts, use>>
  BY DEF SetStarted, TypeOK, ReconFields, sockVars, bufVars, exitVars,
     reconVars, histVars, boundVars
<1>3. /\ CallSame /\ Now("work").op = "set"
      /\ Now("work").ev = "Started" /\ (Closing' <=> Closing)
      /\ status' = "Started" /\ recon'.state = "NoReconnection"
      /\ Now("work").op' \in {"none", "flush"}
  BY <1>1, SetStartedStep
     DEF SetStarted, TypeOK, ReconFields
<1>4. BeforeLaunch'
  BY <1>1, <1>2, <1>3
     DEF Once, BeforeLaunch, Unlaunched, CallSame
<1>5. DialPhase'
  BY <1>1, <1>2, <1>3
     DEF Once, DialPhase, DialStatus, DialOps, Dials, Fails, Told, CallSame,
     BeforeLaunch
<1>6. Sock'
  BY <1>1, <1>2, <1>3
     DEF Once, BeforeLaunch, DialPhase, Sock, Opening, Running, Heard, View,
     Told, Single, DialStatus, DialOps, Dials, Fails
<1>7. Opening'
  BY <1>1, <1>2, <1>3
     DEF Once, Opening, Begun, FrameOf, DialStatus, CallSame
<1>8. Running'
  BY <1>1, <1>2, <1>3
     DEF Once, BeforeLaunch, DialPhase, Sock, Opening, Running, Heard, View,
     Told, Single, DialStatus, DialOps, Dials, Fails, FrameOf, Begun, Doomed,
     OpenStatus, Unlaunched, WorkSame
<1>9. Heard'
  BY <1>1, <1>2, <1>3
     DEF Once, BeforeLaunch, DialPhase, Sock, Opening, Running, Heard, View,
     FrameOf, Begun, Doomed, OpenStatus, Unlaunched, WorkSame
<1> QED
  BY <1>4, <1>5, <1>6, <1>7, <1>8, <1>9 DEF Once

LEMMA SetEndedOnce ==
  ASSUME Sound, Plain, Once, SetEnded
  PROVE  Once'
<1>1. Sound' /\ View /\ View'
  BY Views, SetEndedStep, StepOps, Fields
<1>2. UNCHANGED <<exit, isStop, connected, fd, armed, cmd, peer, retry, recon,
                  attempts, starts, use>>
  BY DEF SetEnded, sockVars, bufVars, exitVars, reconVars, histVars, boundVars
<1>3. /\ CallSame /\ Now("work").op = "set"
      /\ Now("work").ev \in {"TaskFailed", "Completed"}
      /\ status' = IF Now("work").ev = "TaskFailed" THEN "Failed"
                   ELSE "Completed"
      /\ IF Now("work").ev = "TaskFailed" \/ ~use.long
           THEN Now("work").op' = "close" /\ Breaks'
           ELSE Now("work").op' = "check" /\ Now("work").ev' = "Close"
  BY <1>1, SetEndedStep, StepOps, Fields
     DEF SetEnded
<1>4. BeforeLaunch'
  BY <1>1, <1>2, <1>3, StepOps
     DEF Once, BeforeLaunch, Unlaunched, CallSame, Breaks
<1>5. DialPhase'
  BY <1>1, <1>2, <1>3, StepOps
     DEF Once, DialPhase, DialStatus, DialOps, Dials, Fails, Told, CallSame,
     Breaks, BeforeLaunch
<1>6. Sock'
  BY <1>1, <1>2, <1>3, StepOps
     DEF Once, BeforeLaunch, DialPhase, Sock, Opening, Running, Heard, View,
     Told, Single, DialStatus, DialOps, Dials, Fails
<1>7. Opening'
  BY <1>1, <1>2, <1>3, StepOps
     DEF Once, Opening, Begun, FrameOf, DialStatus, CallSame, Breaks
<1>8. Running'
  BY <1>1, <1>2, <1>3, StepOps
     DEF Once, BeforeLaunch, DialPhase, Sock, Opening, Running, Heard, View,
     Told, Single, DialStatus, DialOps, Dials, Fails, FrameOf, Begun, Doomed,
     OpenStatus, Unlaunched, WorkSame, CallSame, WorkDone, CallDone, Closes,
     Breaks, UserEvents
<1>9. Heard'
  BY <1>1, <1>2, <1>3, StepOps
     DEF Once, Heard, OpenStatus, Fails, DialStatus, Told, CallSame, Breaks
<1> QED
  BY <1>4, <1>5, <1>6, <1>7, <1>8, <1>9 DEF Once

LEMMA CloseOnce ==
  ASSUME Sound, Plain, Once, Close
  PROVE  Once'
<1>1. Sound' /\ View /\ View'
  BY Views, CloseStep
<1>2. UNCHANGED <<status, exit, isStop, cmd, retry, recon, attempts, starts,
                  use>>
  BY DEF Close, sockVars, bufVars, exitVars, reconVars, histVars, boundVars
<1>3. /\ CallSame /\ WorkDone /\ Now("work").op = "close"
      /\ ~fd' /\ ~connected' /\ peer' = "none"
      /\ armed' = armed \cap {"reconnect", "dns"}
  BY <1>1, CloseStep
     DEF Close
<1>4. BeforeLaunch'
  BY <1>1, <1>2, <1>3, StepOps
     DEF Once, BeforeLaunch, Unlaunched, CallSame, WorkDone
<1>5. DialPhase'
  BY <1>1, <1>2, <1>3, StepOps
     DEF Once, DialPhase, DialStatus, DialOps, Dials, Fails, Told, CallSame,
     WorkDone, BeforeLaunch
<1>6. Sock'
  BY <1>1, <1>2, <1>3, StepOps
     DEF Once, Sock, DialStatus, CallSame, WorkDone
<1>7. Opening'
  BY <1>1, <1>2, <1>3, StepOps
     DEF Once, Opening, Begun, FrameOf, DialStatus, CallSame, WorkDone
<1>8. Running'
  BY <1>1, <1>2, <1>3, StepOps
     DEF Once, Running, Begun, FrameOf, Doomed, DialStatus, CallSame, WorkDone
<1>9. Heard'
  BY <1>1, <1>2, <1>3, StepOps
     DEF Once, Heard, OpenStatus, Fails, DialStatus, Told, CallSame, WorkDone
<1> QED
  BY <1>4, <1>5, <1>6, <1>7, <1>8, <1>9 DEF Once

LEMMA WorkDisconnectOnce ==
  ASSUME Sound, Plain, Once, Disconnect("work")
  PROVE  Once'
<1>1. Sound' /\ View /\ View'
  BY Views, WorkDisconnectStep, StepOps
<1>2. UNCHANGED <<exit, isStop, armed, cmd, retry, recon, attempts, starts,
                  use>>
  BY DEF Disconnect, sockVars, bufVars, exitVars, reconVars, histVars, boundVars
<1>3. /\ CallSame /\ Now("work").op = "reconnect" /\ Now("work").op' = "dns"
      /\ ~fd' /\ ~connected' /\ peer' = "none" /\ status' = "Connecting"
  BY <1>1, WorkDisconnectStep, StepOps
     DEF Disconnect
<1>4. BeforeLaunch'
  BY <1>1, <1>2, <1>3
     DEF Once, BeforeLaunch, Unlaunched, CallSame
<1>5. DialPhase'
  BY <1>1, <1>2, <1>3
     DEF Once, BeforeLaunch, DialPhase, Sock, Opening, Running, Heard, View,
     Told, Single, DialStatus, DialOps, Dials, Fails, CallSame, WorkDone,
     CallDone, Closes, Breaks, UserEvents
<1>6. Sock'
  BY <1>1, <1>2, <1>3
     DEF Once, Sock, DialStatus, CallSame
<1>7. Opening'
  BY <1>1, <1>2, <1>3
     DEF Once, Opening, Begun, FrameOf, DialStatus, CallSame
<1>8. Running'
  BY <1>1, <1>2, <1>3
     DEF Once, BeforeLaunch, DialPhase, Sock, Opening, Running, Heard, View,
     Told, Single, DialStatus, DialOps, Dials, Fails, FrameOf, Begun, Doomed,
     OpenStatus, Unlaunched, WorkSame, CallSame, WorkDone, CallDone, Closes,
     Breaks, UserEvents
<1>9. Heard'
  BY <1>1, <1>2, <1>3
     DEF Once, Heard, OpenStatus, Fails, DialStatus, Told, CallSame
<1> QED
  BY <1>4, <1>5, <1>6, <1>7, <1>8, <1>9 DEF Once

LEMMA CallDisconnectOnce ==
  ASSUME Sound, Plain, Once, Disconnect("caller")
  PROVE  Once'
<1>1. Sound' /\ View /\ View'
  BY Views, CallDisconnectStep
<1>2. UNCHANGED <<status, exit, isStop, armed, cmd, retry, recon, attempts,
                  starts, use>>
  BY <1>1, CallDisconnectStep DEF Disconnect, exitVars, histVars, boundVars,
     reconVars
<1>3. /\ CallDone /\ Now("caller").op = "disconnect"
      /\ ~fd' /\ ~connected' /\ peer' = "none"
  BY <1>1, CallDisconnectStep DEF Disconnect
<1>4. BeforeLaunch'
  BY <1>1, <1>2, <1>3
     DEF Once, BeforeLaunch, Unlaunched, CallDone
<1>5. DialPhase'
  BY <1>1, <1>2, <1>3
     DEF Once, BeforeLaunch, DialPhase, Sock, Opening, Running, Heard, View,
     FrameOf, Begun, Doomed, OpenStatus, Unlaunched, WorkSame, CallSame,
     WorkDone, CallDone, Closes, Breaks, UserEvents
<1>6. Sock'
  BY <1>1, <1>2, <1>3
     DEF Once, Sock, DialStatus, CallDone
<1>7. Opening'
  BY <1>1, <1>2, <1>3
     DEF Once, BeforeLaunch, DialPhase, Sock, Opening, Running, Heard, View,
     FrameOf, Begun, Doomed, OpenStatus, Unlaunched, WorkSame, CallSame,
     WorkDone, CallDone, Closes, Breaks, UserEvents
<1>8. Running'
  BY <1>1, <1>2, <1>3
     DEF Once, BeforeLaunch, DialPhase, Sock, Opening, Running, Heard, View,
     FrameOf, Begun, Doomed, OpenStatus, Unlaunched, WorkSame
<1>9. Heard'
  BY <1>1, <1>2, <1>3
     DEF Once, BeforeLaunch, DialPhase, Sock, Opening, Running, Heard, View,
     Told, Single, DialStatus, DialOps, Dials, Fails, FrameOf, Begun, Doomed,
     OpenStatus, Unlaunched, WorkSame, CallSame, WorkDone, CallDone, Closes,
     Breaks, UserEvents
<1> QED
  BY <1>4, <1>5, <1>6, <1>7, <1>8, <1>9 DEF Once

LEMMA DestroyOnce ==
  ASSUME Sound, Plain, Once, Destroy
  PROVE  Once'
<1>1. Sound' /\ View /\ View'
  BY Views, DestroyStep, StepOps
<1>2. UNCHANGED <<status, exit, isStop, connected, fd, armed, cmd, peer, retry,
                  recon, attempts, starts, use>>
  BY DEF Destroy, sockVars, bufVars, exitVars, reconVars, histVars, boundVars
<1>3. /\ CallSame /\ WorkDone
      /\ Now("work").op = "destroy" /\ Now("work").op' = "none"
  BY <1>1, DestroyStep, StepOps
     DEF Destroy
<1>4. BeforeLaunch'
  BY <1>1, <1>2, <1>3
     DEF Once, BeforeLaunch, Unlaunched, CallSame, WorkDone
<1>5. DialPhase'
  BY <1>1, <1>2, <1>3
     DEF Once, BeforeLaunch, DialPhase, Sock, Opening, Running, Heard, View,
     Told, Single, DialStatus, DialOps, Dials, Fails, CallSame, WorkDone,
     CallDone, Closes, Breaks, UserEvents
<1>6. Sock'
  BY <1>1, <1>2, <1>3
     DEF Once, Sock, DialStatus, CallSame, WorkDone
<1>7. Opening'
  BY <1>1, <1>2, <1>3
     DEF Once, BeforeLaunch, DialPhase, Sock, Opening, Running, Heard, View,
     Told, Single, DialStatus, DialOps, Dials, Fails, FrameOf, Begun, Doomed,
     OpenStatus, Unlaunched, WorkSame
<1>8. Running'
  BY <1>1, <1>2, <1>3
     DEF Once, Running, Begun, FrameOf, Doomed, DialStatus, CallSame, WorkDone
<1>9. Heard'
  BY <1>1, <1>2, <1>3
     DEF Once, BeforeLaunch, DialPhase, Sock, Opening, Running, Heard, View,
     Told, Single, DialStatus, DialOps, Dials, Fails, CallSame, WorkDone,
     CallDone, Closes, Breaks, UserEvents
<1> QED
  BY <1>4, <1>5, <1>6, <1>7, <1>8, <1>9 DEF Once

\* The two ways to begin again are not taken.
\* A single session is not started a second time, and dials no connection that
\* is open already.
LEMMA NoOtherStart ==
  ASSUME Sound, Plain, Once
  PROVE  ~StartRefused /\ ~DnsConnected
<1>1. ASSUME StartRefused PROVE FALSE
  <2>1. starts \in Nat /\ use.starts = 1 /\ starts < 1
    BY <1>1, UseTyped, TypeSplit
       DEF Sound, FieldsOK, StartRefused, MayStart, Plain, FirstOnly
  <2>2. status = "Created" /\ exit = "Invalid"
    BY <2>1 DEF Once, BeforeLaunch
  <2> QED
    BY <1>1, <2>2 DEF StartRefused, Startable
<1>2. ASSUME DnsConnected PROVE FALSE
  <2>1. Now("work").op = "dns" /\ connected
    BY <1>2, DnsConnectedStep DEF DnsConnected
  <2> QED
    BY <2>1 DEF Once, DialPhase, DialOps
<1> QED
  BY <1>1, <1>2

-----------------------------------------------------------------------------
LEMMA OnceInit ==
  ASSUME Init
  PROVE  Once
<1>1. /\ Now("work") = Step("none") /\ Now("caller") = Step("none")
      /\ ~Closing
  BY ShortClose DEF Init, Threads, Now, First, Closing
<1>2. BeforeLaunch
  BY <1>1, StepOps DEF Init, BeforeLaunch, Unlaunched
<1>3. DialPhase
  BY <1>1, StepOps, NodeAssumption
     DEF Init, DialPhase, DialStatus, DialOps, Dials
<1>4. Sock
  BY <1>1, StepOps DEF Init, Sock
<1>5. Opening
  BY <1>1, StepOps DEF Init, Opening, FrameOf
<1>6. Running
  BY <1>1, StepOps DEF Init, Running, Begun
<1>7. Heard
  BY <1>1, StepOps DEF Init, Heard, OpenStatus
<1> QED
  BY <1>2, <1>3, <1>4, <1>5, <1>6, <1>7 DEF Once

LEMMA OnceNext ==
  ASSUME Sound, Plain, Once, [Next]_vars
  PROVE  Once'
<1>1. CASE UNCHANGED vars
  <2>1. /\ Now("work")' = Now("work") /\ Now("caller")' = Now("caller")
        /\ Coming' = Coming /\ Closing' = Closing /\ Ending' = Ending
    BY <1>1 DEF vars, Now, First, Coming, Closing, HasClose, Ending, Ends
  <2>2. BeforeLaunch' /\ DialPhase'
    BY <1>1, <2>1 DEF vars, sockVars, bufVars, exitVars, reconVars, histVars,
       boundVars, Once, BeforeLaunch, DialPhase, Unlaunched, Begun, Doomed,
       FrameOf, Fails
  <2>3. Sock' /\ Opening'
    BY <1>1, <2>1 DEF vars, sockVars, bufVars, exitVars, reconVars, histVars,
       boundVars, Once, Sock, Opening, Unlaunched, Begun, Doomed, FrameOf, Fails
  <2>4. Running' /\ Heard'
    BY <1>1, <2>1 DEF vars, sockVars, bufVars, exitVars, reconVars, histVars,
       boundVars, Once, Running, Heard, Unlaunched, Begun, Doomed, FrameOf,
       Fails
  <2> QED
    BY <2>2, <2>3, <2>4 DEF Once
<1>2. CASE UserNext
  BY <1>2, NoOtherStart, StartOnce, StopOnce, CancelOnce, SendAudioOnce
     DEF UserNext
<1>3. CASE EventNext
  BY <1>3, LaunchOnce, ConnectReadyOnce, ResolvedOnce, WriteOnce,
     ReadCancelledOnce, GatewayResponseOnce, ReadStartedOnce,
     ReadCompletedOnce, ReadTaskFailedOnce, ReadDirtyOnce, ReadFailsOnce
     DEF EventNext
<1>4. CASE WorkNext
  BY <1>4, NoOtherStart, DnsConnectOnce, DnsGivesUpOnce, DnsCancelledOnce,
     ConnectOnce, SslWaitsOnce, SslEndsOnce, RequestOnce, SendStartOnce,
     FlushOnce, SetStartedOnce, SetEndedOnce, CloseOnce, DestroyOnce,
     RespondOnce DEF WorkNext
<1>5. CASE Push \/ Unlock
  BY <1>5, PushOnce, UnlockOnce
<1>6. ASSUME ThreadNext("work") PROVE Once'
  BY <1>6, WorkControlOnce, WorkCheckOnce, WorkTellOnce, WorkAfterCloseOnce,
     WorkAfterOtherOnce, WorkDisconnectOnce DEF ThreadNext
<1>7. ASSUME ThreadNext("caller") PROVE Once'
  BY <1>7, CallControlOnce, CallCheckOnce, CallTellOnce, CallAfterCloseOnce,
     CallAfterOtherOnce, CallDisconnectOnce DEF ThreadNext
<1> QED
  BY <1>1, <1>2, <1>3, <1>4, <1>5, <1>6, <1>7 DEF Next, Threads

\* The uses do not change.
LEMMA UseKept ==
  ASSUME [Next]_vars
  PROVE  use' = use
<1>1. CASE UserNext
  BY <1>1 DEF UserNext, Start, StartRefused, Stop, Cancel, SendAudio, boundVars
<1>2. CASE EventNext
  BY <1>2 DEF EventNext, Launch, ConnectReady, Resolved, Write, ReadCancelled,
     GatewayResponse, ReadStarted, ReadCompleted, ReadTaskFailed, ReadDirty,
     ReadFails, Read, boundVars
<1>3. CASE WorkNext
  BY <1>3 DEF WorkNext, DnsConnected, DnsConnect, DnsGivesUp, DnsCancelled,
     Connect, SslWaits, SslEnds, NodeRequestProcess, SendStart, Flush,
     SetStarted, SetEnded, Close, Destroy, Respond, boundVars
<1>4. CASE Push \/ Unlock
  BY <1>4 DEF Push, Unlock, boundVars
<1>5. ASSUME NEW t \in Threads, ThreadNext(t) PROVE use' = use
  BY <1>5 DEF ThreadNext, Control, Check, Tell, AfterClose, AfterOther,
     Disconnect, boundVars
<1>6. CASE UNCHANGED vars
  BY <1>6 DEF vars, boundVars
<1> QED
  BY <1>1, <1>2, <1>3, <1>4, <1>5, <1>6 DEF Next

\* Without automatic reconnection the commands of a first session reach the
\* gateway in an order that it can make something of: _cmdEvBuffer never holds
\* two, nor one out of its turn, when nlsSendFrame sends it (InOrder).
THEOREM CommandsInOrder == Spec => []InOrder
<1>1. Init => Sound /\ (Plain => Once)
  BY SoundInit, OnceInit
<1>2. Sound /\ (Plain => Once) /\ [Next]_vars => Sound' /\ (Plain => Once)'
  <2> SUFFICES ASSUME Sound, Plain => Once, [Next]_vars, Plain'
               PROVE  Once'
    BY SoundNext
  <2>1. Plain
    BY UseKept DEF Plain, FirstOnly
  <2> QED
    BY <2>1, OnceNext
<1>3. Plain /\ Once => InOrder
  BY DEF Plain, Once, Running, InOrder
<1>4. (Plain => Once) => InOrder
  BY <1>3 DEF Plain, InOrder
<1> QED
  BY <1>1, <1>2, <1>4, PTL DEF Spec

-----------------------------------------------------------------------------
\* Uses in which only the work thread reports failures, but for those of a stop.
Alone == Orderly /\ use.sends = 0

\* A launch, or a reconnection, is due; the node waits to be connected, it
\* dials; a refused start bars the dial; the session is over; the node rests,
\* with no session or one not launched yet; no connection is half made.

LaunchDue == "launch" \in armed
MendDue == "reconnect" \in armed
Waits == armed \cap Dials
Dialing == Waits # {} \/ Now("work").op \in DialOps
Barred == status = "Created" /\ exit # "Invalid"
Over == \/ status \in {"Failed", "Completed", "Closed"}
        \/ status = "Created" /\ exit = "Invalid"
Rest == LaunchDue \/ Over
OpenOk == ~fd \/ (use.long /\ connected)
\* What the gateway is at before the session, and when it owes an answer.
Early == {"fresh", "shaking", "starting"}
Busied == Early \cup {"stopping"}
\* The caller's stop is not sent yet.
Held == Now("caller").op = "control" /\ ~isStop
Midway == {"Handshaking", "Handshaked", "Starting"}

\* The flags agree, and before the first launch the node is as it was made.
Calm ==
  /\ ~audio
  /\ exit = "Stopping" => use.stops
  /\ Now("caller").op # "none" => exit = "Stopping"
  /\ isStop => exit # "Invalid"
  /\ ~use.continued =>
       recon.state \notin {"WillReconnect", "TriggerReconnection"} /\ ~MendDue
  /\ connected => fd
  /\ ~fd => peer = "none"
  /\ "write" \in armed => connected
  /\ starts = 0 => status = "Created" /\ exit = "Invalid" /\ armed = {}
  /\ starts = 0 \/ (FirstOnly /\ LaunchDue) =>
       /\ Now("work").op = "none" /\ Now("caller").op = "none"
       /\ armed \subseteq {"launch"} /\ ~fd
       /\ recon.state = "NoReconnection" /\ mends = 0 /\ told = <<>>
       /\ status \in {"Created", "Invoking"}
\* While it dials, nothing else is under way, and of the socket there is what
\* the step needs.
Dialling ==
  /\ Dialing =>
       /\ Now("caller").op = "none" /\ ~LaunchDue /\ ~MendDue
       /\ "write" \notin armed /\ ~Closing
       /\ status \in DialStatus \/ Barred
       /\ attempts =< retry
       /\ "read" \in armed /\ fd => Now("work").op = "dns"
  /\ Waits # {} => /\ Now("work").op = "none"
                   /\ Waits \in {{"dns"}, {"connect"}, {"timer"}}
                   /\ status # "Invoked"
  /\ "dns" \in armed => ~fd
  /\ "connect" \in armed => fd /\ (status = "Connected" => connected)
  /\ "dns" \in armed \/ Now("work").op = "connect" => status # "Connected"
  /\ "timer" \in armed => fd /\ connected
  /\ Now("work").op = "dns" =>
       OpenOk /\ (fd => peer \notin Busied /\ status \in {"Invoked", "Created"})
  /\ Now("work").op = "connect" => ~fd
  /\ Now("work").op \in {"connect", "ssl", "reconnect"} => status # "Invoked"
  /\ Now("work").op = "ssl" => fd /\ connected
  /\ fd /\ ~connected =>
       \/ "connect" \in armed \/ Now("work").op = "reconnect"
       \/ /\ Barred /\ Now("work").op = "none"
          /\ Now("caller").op = "none" /\ armed = {}
  /\ attempts =< RetryConnectCount
\* Between sessions nothing of the last one is left that could disturb the next.
Resting ==
  /\ Rest => /\ Now("work").op # "start"
             /\ ~FrameOf("Started") /\ ~FrameOf("Completed")
  /\ LaunchDue =>
       status \in {"Created", "Invoking", "Failed", "Completed", "Closed"}
  /\ MendDue => Over /\ ~LaunchDue
  /\ Rest /\ ~Closing => OpenOk
  /\ Rest /\ ~Closing /\ fd =>
       /\ "write" \notin armed /\ peer \notin Busied
       /\ Now("work").op \notin {"request", "flush", "control"} /\ ~Held
  /\ Fails("work") /\ ~Closing => OpenOk
  /\ Fails("work") /\ ~Closing /\ fd =>
       "write" \notin armed /\ peer \notin Busied /\ ~Held /\ status # "Started"
  /\ Now("caller").op \in Told => ~fd
\* What may wait in the buffer, and for which answer.
Sending ==
  /\ Now("work").op = "start" =>
       /\ "write" \notin armed /\ Now("caller").op = "none" /\ fd
       /\ status # "Started" /\ peer \notin Busied
  /\ Now("work").op = "request" /\ status \in Midway => "write" \notin armed
  /\ status = "Handshaking" =>
       Now("work").op = "request" /\ peer = "fresh" /\ fd
  /\ peer \in {"shaking", "starting", "stopping"} /\ ~Closing =>
       "write" \notin armed /\ cmd = <<>>
  /\ peer = "stopping" /\ ~Closing => isStop
  /\ FrameOf("Started") =>
       /\ "write" \notin armed /\ cmd = <<>> /\ Now("caller").op = "none" /\ fd
       /\ status # "Started" /\ peer \notin Early
  /\ FrameOf("Completed") =>
       /\ "write" \notin armed /\ isStop
       /\ Now("caller").op \in {"none", "control", "unlock"}
       /\ peer \notin Busied
  /\ status = "Started" /\ ~isStop => "write" \notin armed /\ cmd = <<>>
  /\ status \in {"Handshaked", "Starting"} /\ cmd = <<"stop">> => isStop
  /\ Now("work").op \in {"flush", "control"} /\ ~isStop => "write" \notin armed
  /\ Held => "write" \notin armed
  /\ Now("caller").op = "disconnect" =>
       "write" \notin armed /\ isStop /\ cmd # <<>>
  /\ Now("caller").op # "none" =>
       /\ status \in {"Started", "Failed", "Completed", "Closed", "Invoked"}
       /\ Now("work").op # "start"
  /\ \/ status = "Started" \/ Now("caller").op # "none"
     \/ Now("work").op \in {"flush", "control"}
     => Closing \/ peer \notin Early

\* The reconnections are counted, and after the end of the session none comes.
Unstopped == use.stops => exit = "Invalid"
WillMend == recon.state \in {"WillReconnect", "TriggerReconnection"}
EndTold == /\ Now("work").op = "after" /\ Now("work").ev = "Close"
           /\ ~Now("work").flag
Settled == /\ Now("work").op \in {"none", "close", "destroy", "respond"}
           /\ status = "Closed" /\ Ending
Mended ==
  /\ mends =< max_try_count
  /\ Unstopped =>
       /\ Now("caller").op = "none"
       /\ recon.state = "WillReconnect" \/ MendDue =>
            mends < recon.count /\ recon.count =< max_try_count
       /\ mends =< recon.count \/ SessionOver
       /\ SessionOver =>
            ~MendDue /\ ~LaunchDue /\ ~WillMend /\ (EndTold \/ Settled)
       /\ MendDue => Settled /\ recon.state # "WillReconnect"
       /\ LaunchDue =>
            \/ EndTold
            \/ Now("work").op \in {"none", "close", "destroy", "respond"}
       /\ EndTold => ~MendDue /\ ~WillMend /\ (SessionOver \/ mends = 0)
\* A first session that is mended: what it waits for is armed, or its failure
\* is being told.
Listening ==
  /\ status = "Created" => starts = 0
  /\ status = "Invoking" => LaunchDue
  /\ status \in {"Connecting", "Connected"} /\ exit # "Cancel" =>
       (Dialing \/ Fails("work")) /\ ~Closing
  /\ fd /\ ~(Dialing /\ Now("work").op # "dns") /\ status # "Handshaking" =>
       "read" \in armed
  /\ status \in OpenStatus /\ ~fd /\ exit # "Cancel" =>
       Fails("caller") \/ (Fails("work") /\ ~Closing)
  /\ exit # "Cancel" /\ Ending =>
       (Now("work").op \in {"close", "destroy", "respond"} => status = "Closed")
Lone ==
  /\ Calm /\ Dialling /\ Resting /\ Sending
  /\ use.continued => Mended
  /\ use.continued /\ FirstOnly => Listening

\* What more is seen of the lists: after an end no failure is told, and a stop
\* is held until its steps are done.
EndView == Ending => Now("work").op \in {"none", "close", "destroy", "respond"}
IdleView == Now("work").op = "none" => Ending /\ ~Closing

LEMMA EndHeads ==
  ASSUME NEW q \in Ends
  PROVE  First(q).op \in {"none", "close", "destroy", "respond"}
<1>1. \/ q = <<>> \/ q = <<Step("close")>>
      \/ q = <<Step("close"), Step("destroy")>>
      \/ q = <<Step("destroy")>> \/ q = <<Step("respond")>>
  BY DEF Ends
<1>2. q # <<>> => First(q) \in {Step("close"), Step("destroy"), Step("respond")}
  BY <1>1, Lists DEF First
<1>3. q = <<>> => First(q) = Step("none")
  BY DEF First
<1> QED
  BY <1>2, <1>3, Fields

LEMMA EndViews ==
  /\ EndView /\ EndView'
  /\ Sound => IdleView
  /\ Sound' => IdleView'
<1>1. EndView
  BY EndHeads DEF EndView, Ending, Now
<1>2. EndView'
  <2>1. Ending' => todo'["work"] \in Ends
    BY DEF Ending, Ends
  <2>2. Now("work")' = First(todo'["work"])
    BY DEF Now, First
  <2> QED
    BY <2>1, <2>2, EndHeads DEF EndView
<1>3. Sound => IdleView
  BY IdleWork DEF Sound, IdleView
<1>4. Sound' => IdleView'
  <2>1. ASSUME Sound', Now("work")'.op = "none" PROVE todo'["work"] = <<>>
    BY <2>1, TypeSplit, NowNone DEF Sound, Now, First, Threads
  <2>2. <<>> \in Ends /\ ~HasClose(<<>>)
    BY ShortClose DEF Ends
  <2> QED
    BY <2>1, <2>2 DEF IdleView, Ending, Ends, Closing, HasClose
<1> QED
  BY <1>1, <1>2, <1>3, <1>4

\* Where no audio is sent the caller only stops, and holds the lock meanwhile.
LEMMA CallRestLocked ==
  ASSUME NEW e, NEW r, CallRest(e, r), use.sends = 0, e.op # "unlock"
  PROVE  /\ e.op # "push"
         /\ \/ r = <<Step("unlock")>> \/ r = <<CheckClose, Step("unlock")>>
            \/ \E m \in BOOLEAN :
                 r = <<CheckFailed(m), CheckClose, Step("unlock")>>
BY DEF CallRest, Told

LEMMA LockAtEnd ==
  ASSUME NEW q \in Seq(StepType), q # <<>>,
         \/ Head(q).op = "unlock"
         \/ \E a, b : \/ Tail(q) = <<Step("unlock")>>
                      \/ Tail(q) = <<a, Step("unlock")>>
                      \/ Tail(q) = <<a, b, Step("unlock")>>
  PROVE  \E i \in DOMAIN q : q[i].op = "unlock"
<1>1. /\ Len(q) \in Nat /\ Len(q) >= 1 /\ DOMAIN q = 1..Len(q) /\ Head(q) = q[1]
      /\ Len(Tail(q)) = Len(q) - 1
      /\ \A i \in 1..Len(Tail(q)) : Tail(q)[i] = q[i + 1]
  BY EmptySeq, HeadTailProperties, LenProperties
<1>2. Step("unlock").op = "unlock"
  BY Fields
<1>3. CASE Head(q).op = "unlock"
  <2>1. 1 \in DOMAIN q
    BY <1>1
  <2> QED
    BY <1>1, <1>3, <2>1
<1>4. ASSUME NEW i \in Nat \ {0}, Len(Tail(q)) = i, Tail(q)[i] = Step("unlock")
      PROVE  \E j \in DOMAIN q : q[j].op = "unlock"
  <2>1. i + 1 \in DOMAIN q /\ q[i + 1] = Step("unlock")
    BY <1>1, <1>4
  <2> QED
    BY <2>1, <1>2
<1>5. ASSUME NEW a, NEW b,
             \/ Tail(q) = <<Step("unlock")>> \/ Tail(q) = <<a, Step("unlock")>>
             \/ Tail(q) = <<a, b, Step("unlock")>>
      PROVE  \E j \in DOMAIN q : q[j].op = "unlock"
  <2> DEFINE r == Tail(q)  d == Step("unlock")
  <2>2. \A i \in Nat \ {0} : Len(r) = i /\ r[i] = d
          => \E j \in DOMAIN q : q[j].op = "unlock"
    BY <1>4
  <2>3. 1 \in Nat \ {0} /\ 2 \in Nat \ {0} /\ 3 \in Nat \ {0}
    OBVIOUS
  <2>4. r = <<d>> \/ r = <<a, d>> \/ r = <<a, b, d>>
    BY <1>5
  <2> HIDE DEF r, d
  <2>5. \/ Len(r) = 1 /\ r[1] = d
        \/ Len(r) = 2 /\ r[2] = d
        \/ Len(r) = 3 /\ r[3] = d
    BY <2>4
  <2> QED
    BY <2>2, <2>3, <2>5
<1> QED
  BY <1>3, <1>5

LEMMA Locks ==
  ASSUME Sound, use.sends = 0
  PROVE  /\ Now("caller").op # "none" => Locked
         /\ Now("caller").op # "push"
<1>1. todo["caller"] \in Seq(StepType) /\ CallList(todo["caller"])
  BY DEF Sound, TypeOK, Planned, Threads
<1>2. CASE todo["caller"] = <<>>
  <2>1. Now("caller").op = "none"
    BY <1>2, Fields DEF Now, First
  <2> QED
    BY <2>1
<1>3. CASE todo["caller"] # <<>>
  <2>1. /\ CallRest(Head(todo["caller"]), Tail(todo["caller"]))
        /\ Now("caller") = Head(todo["caller"])
    BY <1>1, <1>3 DEF CallList, Now, First
  <2>2. \/ Head(todo["caller"]).op = "unlock"
        \/ \E a, b : \/ Tail(todo["caller"]) = <<Step("unlock")>>
                     \/ Tail(todo["caller"]) = <<a, Step("unlock")>>
                     \/ Tail(todo["caller"]) = <<a, b, Step("unlock")>>
    BY <2>1, CallRestLocked
  <2>3. Locked
    BY <1>1, <1>3, <2>2, LockAtEnd DEF Locked
  <2> QED
    BY <2>1, <2>3, CallRestLocked
<1> QED
  BY <1>2, <1>3

\* What the gateway makes of a command, whatever else waits with it.
LEMMA HearsAny ==
  ASSUME NEW c \in Seq({"shake", "start", "stop"})
  PROVE  /\ \A p, q : /\ Hear(p, q) \in {"shaking", "starting", "stopping",
                                         "failed", "lost"}
                      /\ Hear(p, q) = "shaking" => p = "fresh"
                      /\ Hear(p, q) = "starting" =>
                           p = "open" /\ q = <<"start">>
                      /\ Hear(p, q) = "stopping" => q = <<"stop">>
         /\ Append(c, "shake") # <<>> /\ Append(c, "shake") # <<"stop">>
         /\ Append(c, "start") # <<>> /\ Append(c, "start") # <<"stop">>
         /\ Append(c, "stop") # <<>> /\ Append(c, "stop") # <<"start">>
         /\ \A p : Hear(p, Append(c, "stop")) \in {"stopping", "failed", "lost"}
         /\ \A p :
              Hear(p, Append(c, "start")) \in {"starting", "failed", "lost"}
         /\ \A p : Hear(p, Append(c, "shake")) \in {"shaking", "failed", "lost"}
<1>1. \A p, q : /\ Hear(p, q) \in {"shaking", "starting", "stopping",
                                   "failed", "lost"}
                /\ Hear(p, q) = "shaking" => p = "fresh" /\ q = <<"shake">>
                /\ Hear(p, q) = "starting" => p = "open" /\ q = <<"start">>
                /\ Hear(p, q) = "stopping" => q = <<"stop">>
  BY DEF Hear
<1>2. \A x \in {"shake", "start", "stop"} :
        /\ Len(Append(c, x)) = Len(c) + 1
        /\ Append(c, x)[Len(c) + 1] = x /\ Len(c) \in Nat
  BY AppendProperties
<1>3. ASSUME NEW x \in {"shake", "start", "stop"}, NEW y, Append(c, x) = <<y>>
      PROVE  x = y
  <2>1. Len(<<y>>) = 1 /\ <<y>>[1] = y
    OBVIOUS
  <2>2. Len(c) + 1 = 1 /\ Append(c, x)[1] = x
    BY <1>2, <1>3, <2>1
  <2> QED
    BY <1>3, <2>1, <2>2
<1>4. \A x \in {"shake", "start", "stop"} : Append(c, x) # <<>>
  <2>1. Len(<<>>) = 0
    OBVIOUS
  <2> QED
    BY <1>2, <2>1
<1>5. /\ Append(c, "shake") # <<"stop">> /\ Append(c, "start") # <<"stop">>
      /\ Append(c, "stop") # <<"start">> /\ Append(c, "stop") # <<"shake">>
      /\ Append(c, "start") # <<"shake">> /\ Append(c, "shake") # <<"start">>
  BY <1>3
<1> QED
  BY <1>1, <1>4, <1>5

\* What of the session over is kept.
LEMMA OverKept ==
  /\ told' = told => (SessionOver' <=> SessionOver)
  /\ told' = <<>> => ~SessionOver'
  /\ \A x :
       told \in Seq([ev : UserEvents, by : Threads]) /\ told' = Append(told, x)
       => (SessionOver' <=> SessionOver \/ x.ev = "Close")
<1>1. told' = told => (SessionOver' <=> SessionOver)
  BY DEF SessionOver
<1>2. told' = <<>> => ~SessionOver'
  BY DEF SessionOver
<1>3. ASSUME NEW x, told \in Seq([ev : UserEvents, by : Threads]),
             told' = Append(told, x)
      PROVE  SessionOver' <=> SessionOver \/ x.ev = "Close"
  <2>1. /\ Len(told) \in Nat /\ DOMAIN told = 1..Len(told)
        /\ DOMAIN told' = 1..(Len(told) + 1)
        /\ told'[Len(told) + 1] = x
        /\ \A i \in 1..Len(told) : told'[i] = told[i]
    BY <1>3
  <2>2. ASSUME SessionOver' PROVE SessionOver \/ x.ev = "Close"
    BY <2>1, <2>2 DEF SessionOver
  <2>3. ASSUME SessionOver PROVE SessionOver'
    BY <2>1, <2>3 DEF SessionOver
  <2>4. ASSUME x.ev = "Close" PROVE SessionOver'
    <3>1. Len(told) + 1 \in DOMAIN told'
      BY <2>1
    <3> QED
      BY <2>1, <2>4, <3>1 DEF SessionOver
  <2> QED
    BY <2>2, <2>3, <2>4
<1> QED
  BY <1>1, <1>2, <1>3

\* The ways in which an event is told, by what becomes of the reconnection.
TellCase(t) ==
  \/ /\ recon' = recon /\ ~Now(t).flag'
     /\ SessionOver' <=> SessionOver \/ Now(t).ev = "Close"
     /\ \/ ~use.continued \/ Now(t).ev \in {"Started", "Completed"}
        \/ recon.state \notin {"WillReconnect", "TriggerReconnection"}
  \/ /\ recon' = recon /\ Now(t).flag' = TRUE /\ use.continued
     /\ told' = told /\ (SessionOver' <=> SessionOver)
     /\ Now(t).ev \in {"TaskFailed", "Close"}
     /\ recon.count =< max_try_count
  \/ /\ recon'.state = "WillReconnect" /\ Now(t).flag' = TRUE /\ use.continued
     /\ recon'.count = recon.count + 1 /\ recon'.count =< max_try_count
     /\ told' = told /\ (SessionOver' <=> SessionOver)
     /\ Now(t).ev = "TaskFailed"
  \/ /\ recon'.state = "NoReconnection" /\ ~Now(t).flag' /\ use.continued
     /\ recon'.count \in {recon.count, recon.count + 1}
     /\ SessionOver' <=> SessionOver \/ Now(t).ev = "Close"
     /\ Now(t).ev \in {"TaskFailed", "Close"}

LEMMA TellCases ==
  ASSUME Sound, NEW t \in Threads, Tell(t)
  PROVE  TellCase(t)
<1> DEFINE e == Now(t)
<1>1. /\ e = Head(todo[t]) /\ e \in StepType /\ Hidden(e) \in BOOLEAN
  BY TellFields
<1>7. e.ev \in UserEvents
  BY Views, <1>1, TellFields DEF View, Told, UserEvents, Threads
<1>2. /\ recon' = IF Mending(e) /\ ~Hidden(e)
                    THEN [Noted(e) EXCEPT !.state = "NoReconnection"]
                    ELSE Noted(e)
      /\ told' = IF Hidden(e) THEN told
                 ELSE Append(told, [ev |-> e.ev, by |-> t])
      /\ Now(t).flag' = Hidden(e)
  BY <1>1, WorkTellStep, CallTellStep DEF Tell, Threads
<1>3. /\ recon.state \in ReconnectionState /\ recon.count \in Nat
      /\ recon = [state |-> recon.state, count |-> recon.count]
      /\ told \in Seq([ev : UserEvents, by : Threads])
      /\ use.continued \in BOOLEAN /\ max_try_count \in Nat
  BY TypeSplit, UseTyped DEF Sound, FieldsOK
<1>4. /\ ~Hidden(e) => (SessionOver' <=> SessionOver \/ e.ev = "Close")
      /\ Hidden(e) => (SessionOver' <=> SessionOver)
  <2>1. [ev |-> e.ev, by |-> t].ev = e.ev
    OBVIOUS
  <2> QED
    BY <1>2, <1>3, <2>1, OverKept
<1> HIDE DEF e
<1>5. CASE Noted(e) = recon
  <2>1. CASE Mending(e)
    <3>1. CASE Hidden(e)
      BY <1>2, <1>3, <1>4, <1>5, <2>1, <3>1 DEF TellCase, Mending, Hidden, e
    <3>2. CASE ~Hidden(e)
      <4>1. /\ recon'.state = "NoReconnection" /\ recon'.count = recon.count
            /\ Now(t).flag' = FALSE
        BY <1>1, <1>2, <1>3, <1>5, <2>1, <3>2
      <4> QED
        BY <1>4, <2>1, <3>2, <4>1 DEF TellCase, Mending, e
    <3> QED
      BY <1>1, <3>1, <3>2
  <2>2. CASE ~Mending(e)
    BY <1>2, <1>4, <1>5, <1>7, <2>2 DEF TellCase, Mending, Hidden, UserEvents, e
  <2> QED
    BY <2>1, <2>2
<1>6. CASE /\ use.continued /\ e.ev = "TaskFailed"
           /\ Noted(e) = [state |-> "WillReconnect", count |-> recon.count + 1]
  <2>1. /\ Mending(e) /\ Noted(e).state = "WillReconnect"
        /\ Noted(e).count = recon.count + 1
    BY <1>6 DEF Mending
  <2>2. CASE Hidden(e)
    BY <1>2, <1>4, <1>6, <2>1, <2>2 DEF TellCase, Hidden, e
  <2>3. CASE ~Hidden(e)
    <3>1. /\ recon'.state = "NoReconnection" /\ Now(t).flag' = FALSE
          /\ recon'.count = recon.count + 1
      BY <1>1, <1>2, <1>3, <1>6, <2>1, <2>3
    <3> QED
      BY <1>4, <1>6, <2>3, <3>1 DEF TellCase, e
  <2> QED
    BY <2>2, <2>3
<1> QED
  BY <1>5, <1>6 DEF Noted

\* What is known of the uses.
LoneUse ==
  /\ use.sends = 0 /\ (use.continued => FirstOnly \/ (use.long /\ ~use.stops))
  /\ use.continued \in BOOLEAN /\ use.long \in BOOLEAN /\ use.stops \in BOOLEAN
  /\ RetryConnectCount \in Nat \ {0} /\ max_try_count \in Nat
  /\ attempts \in Nat /\ mends \in Nat /\ recon.count \in Nat
  /\ retry \in Nat /\ starts \in Nat /\ (Now("caller").op # "none" => Locked)
  /\ Now("caller").op # "push"

LEMMA LoneUses ==
  ASSUME Sound, Alone
  PROVE  LoneUse
<1>1. FieldsOK
  BY TypeSplit DEF Sound
<1>2. /\ use.sends = 0
      /\ use.continued => FirstOnly \/ (use.long /\ ~use.stops)
  BY <1>1 DEF Alone, Orderly
<1> QED
  BY <1>1, <1>2, UseTyped, Locks DEF LoneUse, FieldsOK

-----------------------------------------------------------------------------
\* Each action keeps Lone.
LEMMA StartAlone ==
  ASSUME Sound, Alone, Lone, Start
  PROVE  Lone'
<1>1. /\ Sound' /\ View /\ View' /\ EndView /\ EndView' /\ IdleView
      /\ IdleView' /\ FieldsOK /\ FieldsOK' /\ LoneUse
  BY Views, EndViews, TypeSplit, LoneUses, StartStep
     DEF Sound
<1>2. UNCHANGED <<connected, fd, cmd, peer, retry, recon, attempts, audio, use>>
  BY <1>1
     DEF Start, MayStart, Startable, sockVars, bufVars, exitVars, reconVars,
     histVars, boundVars
<1>3. /\ status' = "Invoking" /\ armed' = armed \cup {"launch"}
      /\ starts < use.starts /\ starts' = starts + 1 /\ told' = <<>>
      /\ mends' = 0
      /\ Now("caller").op = "none" /\ (starts = 0 \/ SessionOver)
      /\ \/ /\ status = "Created" /\ exit = "Invalid" /\ exit' = exit
            /\ isStop' = isStop
         \/ /\ status = "Closed" /\ use.long
            /\ exit' = "Invalid" /\ isStop' = FALSE
      /\ WorkSame /\ CallSame
  BY <1>1, StartStep, AtWork, AtCaller, Statuses, StepOps
     DEF Start, MayStart, Startable, LoneUse, Lone, Calm, FieldsOK
<1>20. ~SessionOver'
  BY <1>3, OverKept
<1>4. Calm'
  <2>1. FirstOnly => starts = 0
    BY <1>1, <1>3 DEF FirstOnly, LoneUse
  <2> QED
    BY <1>1, <1>2, <1>3, <2>1
       DEF Lone, Calm, LaunchDue, MendDue, FirstOnly, WorkSame, CallSame, Busy,
       FieldsOK, LoneUse
<1>5. Dialling'
  BY <1>1, <1>2, <1>3
     DEF Lone, Dialling, Dialing, Waits, Dials, DialOps, LaunchDue, MendDue,
     DialStatus, Barred, OpenOk, Busied, Early, WorkSame, CallSame
<1>6. Resting'
  <2>1. starts = 0 => /\ status = "Created" /\ exit = "Invalid" /\ ~MendDue
                     /\ Now("work").op = "none" /\ Now("caller").op = "none"
    BY DEF Lone, Calm, MendDue
  <2>2. ~MendDue
    <3>1. CASE ~use.continued
      BY <3>1 DEF Lone, Calm
    <3>2. CASE use.continued /\ FirstOnly
      BY <1>1, <1>3, <2>1, <3>2 DEF LoneUse, FirstOnly
    <3>3. CASE use.continued /\ ~FirstOnly
      BY <1>1, <1>3, <2>1, <3>3 DEF Lone, Mended, LoneUse, Unstopped
    <3> QED
      BY <3>1, <3>2, <3>3
  <2>3. Over /\ LaunchDue' /\ ~MendDue'
    BY <1>3, <2>1, <2>2 DEF Over, LaunchDue, MendDue
  <2> QED
    BY <1>1, <1>2, <1>3, <2>2, <2>3
       DEF Lone, Resting, Rest, OpenOk, Early, Busied, Held, Fails, Told,
       FrameOf, WorkSame, CallSame
<1>7. Sending'
  BY <1>1, <1>2, <1>3
     DEF Lone, Calm, Dialling, Resting, Sending, LaunchDue, MendDue, Waits,
     Dialing, Barred, Over, Rest, OpenOk, Early, Busied, Midway, Held, Dials,
     DialOps, DialStatus, Fails, Told, FrameOf, Single, WorkSame, CallSame,
     View, FieldsOK
<1>8. use.continued' => Mended'
  BY <1>1, <1>2, <1>3, <1>20
     DEF Lone, Calm, Dialling, Resting, Sending, Mended, Listening, LaunchDue,
     MendDue, Waits, Dialing, Barred, Over, Rest, OpenOk, Early, Busied, Midway,
     Held, Dials, DialOps, DialStatus, Fails, Told, FrameOf, Unstopped,
     WillMend, EndTold, Settled, EndView, IdleView, Single, WorkSame, CallSame,
     View, FieldsOK, FirstOnly, LoneUse, OpenStatus
<1>9. use.continued' /\ FirstOnly' => Listening'
  BY <1>1, <1>2, <1>3
     DEF Lone, Listening, FirstOnly, LaunchDue, Dialing, Waits, OpenStatus,
     WorkSame, CallSame, View, FieldsOK, Single, Calm, Dialling
<1> QED
  BY <1>4, <1>5, <1>6, <1>7, <1>8, <1>9 DEF Lone

LEMMA StartRefusedAlone ==
  ASSUME Sound, Alone, Lone, StartRefused
  PROVE  Lone'
<1>1. /\ Sound' /\ View /\ View' /\ EndView /\ EndView' /\ IdleView
      /\ IdleView' /\ FieldsOK /\ FieldsOK' /\ LoneUse
  BY Views, EndViews, TypeSplit, LoneUses, StartRefusedStep, Statuses
     DEF Sound
<1>2. UNCHANGED <<exit, isStop, connected, fd, armed, cmd, peer, retry, recon,
                  attempts, starts, audio, told, mends, use>>
  BY <1>1
     DEF StartRefused, MayStart, Startable, sockVars, bufVars, exitVars,
     reconVars, histVars, boundVars
<1>3. /\ status' = "Created" /\ starts < use.starts
      /\ Now("caller").op = "none" /\ (starts = 0 \/ SessionOver)
      /\ ~(status = "Created" /\ exit = "Invalid")
      /\ ~(status = "Closed" /\ use.long)
      /\ \/ exit # "Invalid"
         \/ status \in {"Created", "Failed", "Completed", "Closed"}
      /\ WorkSame /\ CallSame
  BY <1>1, StartRefusedStep, Statuses, AtWork, AtCaller, StepOps
     DEF StartRefused, MayStart, Startable, LoneUse, Lone, Calm, FieldsOK
<1>4. SessionOver' <=> SessionOver
  BY <1>2, OverKept
<1>5. Calm'
  BY <1>1, <1>2, <1>3, <1>4
     DEF Lone, Calm, FirstOnly, LaunchDue, MendDue, WorkSame, CallSame
<1>6. Dialling'
  BY <1>1, <1>2, <1>3, <1>4
     DEF Lone, Dialling, Dialing, Waits, Dials, DialOps, LaunchDue, MendDue,
     DialStatus, Barred, OpenOk, Busied, Early, WorkSame, CallSame
<1>7. Resting'
  BY SMTT(30), <1>1, <1>2, <1>3, <1>4
     DEF Lone, Calm, Dialling, Resting, Sending, Mended, Listening, LaunchDue,
     MendDue, Waits, Dialing, Barred, Over, Rest, OpenOk, Early, Busied, Midway,
     Held, Dials, DialOps, DialStatus, Fails, Told, FrameOf, Single, WorkSame,
     CallSame, View, FieldsOK, LoneUse, FirstOnly, Unstopped, WillMend, EndTold,
     Settled, EndView, IdleView, OpenStatus
<1>8. Sending'
  BY <1>1, <1>2, <1>3, <1>4
     DEF Lone, Sending, Busied, Early, Midway, FrameOf, Held, WorkSame, CallSame
<1>9. use.continued' => Mended'
  BY <1>1, <1>2, <1>3, <1>4
     DEF Lone, Calm, Dialling, Resting, Sending, Mended, Listening, LaunchDue,
     MendDue, Waits, Dialing, DialOps, DialStatus, Fails, Told, FrameOf,
     Unstopped, WillMend, EndTold, Settled, EndView, IdleView, Single, WorkSame,
     CallSame, View, FieldsOK, FirstOnly, LoneUse, OpenStatus
<1>10. use.continued' /\ FirstOnly' => Listening'
  BY <1>1, <1>2, <1>3, <1>4
     DEF Lone, Listening, FirstOnly, LaunchDue, Dialing, Waits, FieldsOK,
     Single, Calm, Dialling
<1> QED
  BY <1>5, <1>6, <1>7, <1>8, <1>9, <1>10 DEF Lone

LEMMA CancelAlone ==
  ASSUME Sound, Alone, Lone, Cancel
  PROVE  Lone'
<1>1. /\ Sound' /\ View /\ View' /\ EndView /\ EndView' /\ IdleView
      /\ IdleView' /\ FieldsOK /\ FieldsOK' /\ LoneUse
  BY Views, EndViews, TypeSplit, LoneUses, CancelStep, Statuses
     DEF Sound
<1>2. UNCHANGED <<status, isStop, connected, fd, armed, cmd, peer, retry, recon,
                  attempts, starts, audio, told, mends, use>>
  BY <1>1
     DEF Cancel, Busy, sockVars, bufVars, exitVars, reconVars, histVars,
     boundVars
<1>3. /\ exit' = "Cancel" /\ Now("caller").op = "none"
      /\ status \in Busy \cup {"Failed", "Completed"}
      /\ WorkSame /\ CallSame
  BY <1>1, CancelStep, Statuses, AtWork, AtCaller, StepOps
     DEF Cancel, Busy, LoneUse, Lone, Calm, FieldsOK
<1>4. SessionOver' <=> SessionOver
  BY <1>2, OverKept
<1>5. Calm'
  BY <1>1, <1>2, <1>3, <1>4
     DEF Lone, Calm, LaunchDue, MendDue, FirstOnly, WorkSame, CallSame, Busy,
     FieldsOK, LoneUse
<1>6. Dialling'
  BY <1>1, <1>2, <1>3, <1>4
     DEF Lone, Dialling, Dialing, Waits, Dials, DialOps, LaunchDue, MendDue,
     DialStatus, Barred, OpenOk, Busied, Early, WorkSame, CallSame
<1>7. Resting'
  BY <1>1, <1>2, <1>3, <1>4
     DEF Lone, Calm, Dialling, Resting, Sending, Mended, Listening, LaunchDue,
     MendDue, Waits, Dialing, Barred, Over, Rest, OpenOk, Early, Busied, Midway,
     Held, Dials, DialOps, DialStatus, Fails, Told, FrameOf, Single, WorkSame,
     CallSame, View, FieldsOK, LoneUse, FirstOnly, Unstopped, WillMend, EndTold,
     Settled, EndView, IdleView, OpenStatus
<1>8. Sending'
  BY <1>1, <1>2, <1>3, <1>4
     DEF Lone, Sending, Busied, Early, Midway, FrameOf, Held, WorkSame, CallSame
<1>9. use.continued' => Mended'
  BY <1>1, <1>2, <1>3, <1>4
     DEF Lone, Mended, Unstopped, MendDue, LaunchDue, WillMend, EndTold,
     Settled, WorkSame, CallSame
<1>10. use.continued' /\ FirstOnly' => Listening'
  BY <1>1, <1>2, <1>3, <1>4
     DEF Lone, Listening, FirstOnly, LaunchDue, Dialing, Waits, Dials, DialOps,
     Fails, Told, OpenStatus, WorkSame, CallSame
<1> QED
  BY <1>5, <1>6, <1>7, <1>8, <1>9, <1>10 DEF Lone

LEMMA StopAlone ==
  ASSUME Sound, Alone, Lone, Stop
  PROVE  Lone'
<1>1. /\ Sound' /\ View /\ View' /\ EndView /\ EndView' /\ IdleView
      /\ IdleView' /\ FieldsOK /\ FieldsOK' /\ LoneUse
  BY Views, EndViews, TypeSplit, LoneUses, StopStep, Statuses, StepOps
     DEF Sound
<1>2. UNCHANGED <<status, isStop, connected, fd, armed, cmd, peer, retry, recon,
                  attempts, starts, audio, told, mends, use>>
  BY <1>1
     DEF Stop, Busy, sockVars, bufVars, exitVars, reconVars, histVars, boundVars
<1>3. /\ exit = "Invalid" /\ exit' = "Stopping" /\ use.stops
      /\ status \in Busy
      /\ WorkSame /\ Now("caller").op = "none"
      /\ \/ Now("caller").op' = "none"
         \/ status = "Started" /\ Now("caller").op' = "control"
  BY <1>1, StopStep, Statuses, StepOps
     DEF Stop, Busy
<1>4. SessionOver' <=> SessionOver
  BY <1>2, OverKept
<1>5. Calm'
  BY <1>1, <1>2, <1>3, <1>4
     DEF Lone, Calm, LaunchDue, MendDue, FirstOnly, WorkSame, CallSame, Busy,
     FieldsOK, LoneUse
<1>6. Dialling'
  BY <1>1, <1>2, <1>3, <1>4
     DEF Lone, Dialling, Dialing, Waits, Dials, DialOps, LaunchDue, MendDue,
     DialStatus, Barred, OpenOk, Busied, Early, WorkSame
<1>7. Resting'
  <2>1. ~Over /\ ~Over' /\ (Closing' <=> Closing)
        /\ (OpenOk' <=> OpenOk) /\ (LaunchDue' <=> LaunchDue)
        /\ (MendDue' <=> MendDue) /\ Now("work")' = Now("work")
    BY <1>2, <1>3 DEF Over, Busy, WorkSame, OpenOk, LaunchDue, MendDue
  <2>2. /\ Fails("work")' <=> Fails("work")
        /\ \A ev \in {"Started", "Completed"} : FrameOf(ev)' <=> FrameOf(ev)
    BY <2>1 DEF Fails, FrameOf
  <2>3. Held' => status = "Started"
    BY <1>3 DEF Held
  <2>4. Now("caller").op' \notin Told
    BY <1>3 DEF Told
  <2> QED
    BY <1>2, <2>1, <2>2, <2>3, <2>4 DEF Lone, Resting, Rest
<1>8. Sending'
  BY <1>1, <1>2, <1>3, <1>4
     DEF Lone, Sending, Busied, Early, Midway, FrameOf, Held, WorkSame
<1>9. use.continued' => Mended'
  BY <1>1, <1>2, <1>3, <1>4
     DEF Lone, Mended, Unstopped, MendDue, LaunchDue, WillMend, EndTold,
     Settled, WorkSame
<1>10. use.continued' /\ FirstOnly' => Listening'
  BY <1>1, <1>2, <1>3, <1>4
     DEF Lone, Listening, FirstOnly, LaunchDue, Dialing, Waits, Dials, DialOps,
     Fails, Told, OpenStatus, WorkSame
<1> QED
  BY <1>5, <1>6, <1>7, <1>8, <1>9, <1>10 DEF Lone

LEMMA UnlockAlone ==
  ASSUME Sound, Alone, Lone, Unlock
  PROVE  Lone'
<1>1. /\ Sound' /\ View /\ View' /\ EndView /\ EndView' /\ IdleView
      /\ IdleView' /\ FieldsOK /\ FieldsOK' /\ LoneUse
  BY Views, EndViews, TypeSplit, LoneUses, UnlockStep, StepOps
     DEF Sound
<1>2. UNCHANGED <<status, exit, isStop, connected, fd, armed, cmd, peer, retry,
                  recon, attempts, starts, audio, told, mends, use>>
  BY <1>1
     DEF Unlock, sockVars, bufVars, exitVars, reconVars, histVars, boundVars
<1>3. /\ WorkSame /\ Now("caller").op = "unlock" /\ Now("caller").op' = "none"
  BY <1>1, UnlockStep, StepOps
     DEF Unlock
<1>4. SessionOver' <=> SessionOver
  BY <1>2, OverKept
<1>5. Calm'
  BY <1>1, <1>2, <1>3, <1>4
     DEF Lone, Calm, FirstOnly, LaunchDue, MendDue, WorkSame
<1>6. Dialling'
  BY <1>1, <1>2, <1>3, <1>4
     DEF Lone, Dialling, Dialing, Waits, Dials, DialOps, LaunchDue, MendDue,
     DialStatus, Barred, OpenOk, Busied, Early, WorkSame
<1>7. Resting'
  BY <1>1, <1>2, <1>3, <1>4
     DEF Lone, Resting, Rest, LaunchDue, Over, FrameOf, MendDue, OpenOk, Busied,
     Early, Held, Fails, Told, WorkSame
<1>8. Sending'
  BY <1>1, <1>2, <1>3, <1>4
     DEF Lone, Sending, Busied, Early, Midway, FrameOf, Held, WorkSame
<1>9. use.continued' => Mended'
  BY <1>1, <1>2, <1>3, <1>4
     DEF Lone, Mended, Unstopped, MendDue, LaunchDue, WillMend, EndTold,
     Settled, WorkSame
<1>10. use.continued' /\ FirstOnly' => Listening'
  BY <1>1, <1>2, <1>3, <1>4
     DEF Lone, Listening, FirstOnly, LaunchDue, Dialing, Waits, Dials, DialOps,
     Fails, Told, OpenStatus, WorkSame
<1> QED
  BY <1>5, <1>6, <1>7, <1>8, <1>9, <1>10 DEF Lone

LEMMA LaunchAlone ==
  ASSUME Sound, Alone, Lone, NEW e, Launch(e)
  PROVE  Lone'
<1>1. /\ Sound' /\ View /\ View' /\ EndView /\ EndView' /\ IdleView
      /\ IdleView' /\ FieldsOK /\ FieldsOK' /\ LoneUse
  BY Views, EndViews, TypeSplit, LoneUses, LaunchStep, AtWork, StepOps
     DEF Sound
<1>2. UNCHANGED <<exit, isStop, connected, fd, cmd, peer, retry, recon, starts,
                  audio, told, use>>
  BY <1>1
     DEF Launch, sockVars, bufVars, exitVars, reconVars, histVars, boundVars
<1>3. /\ e \in {"launch", "reconnect"} /\ e \in armed
      /\ armed' = armed \ {e} /\ status' = "Invoked"
      /\ CallSame /\ Now("work").op = "none"
      /\ \/ /\ exit \in {"Cancel", "Stopping"} /\ WorkSame
            /\ attempts' = attempts /\ mends' = mends
         \/ /\ exit = "Invalid" /\ Now("work").op' = "dns" /\ attempts' = 0
            /\ mends' = IF e = "reconnect" THEN mends + 1 ELSE mends
  <2>1. /\ e \in {"launch", "reconnect"} /\ e \in armed
        /\ armed' = armed \ {e} /\ status' = "Invoked"
    BY DEF Launch, Fires
  <2>2. CASE exit \in {"Cancel", "Stopping"}
    <3>1. attempts' = attempts /\ mends' = mends
      BY <2>2 DEF Launch
    <3> QED
      BY <1>1, <2>1, <2>2, <3>1, LaunchStep
  <2>3. CASE exit = "Invalid"
    <3>1. /\ attempts' = 0
          /\ mends' = IF e = "reconnect" THEN mends + 1 ELSE mends
      BY <2>3 DEF Launch
    <3> QED
      BY <1>1, <2>1, <2>3, <3>1, LaunchStep, StepOps
  <2> QED
    BY <1>1, <2>2, <2>3 DEF FieldsOK
<1>4. SessionOver' <=> SessionOver
  BY <1>2, OverKept
<1>5. Calm'
  BY <1>1, <1>2, <1>3, <1>4
     DEF Lone, Calm, FirstOnly, LaunchDue, MendDue, WorkSame, CallSame
<1>6. Dialling'
  BY SMTT(30), <1>1, <1>2, <1>3, <1>4
     DEF Lone, Calm, Dialling, Resting, Sending, Mended, Listening, LaunchDue,
     MendDue, Waits, Dialing, Barred, Over, Rest, OpenOk, Early, Busied, Midway,
     Held, Dials, DialOps, DialStatus, Fails, Told, FrameOf, Single, WorkSame,
     CallSame, View, FieldsOK, LoneUse, FirstOnly, Unstopped, WillMend, EndTold,
     Settled, EndView, IdleView, OpenStatus
<1>7. Resting'
  BY <1>1, <1>2, <1>3, <1>4
     DEF Lone, Resting, Rest, LaunchDue, Over, FrameOf, MendDue, OpenOk, Busied,
     Early, Held, Fails, Told, WorkSame, CallSame
<1>8. Sending'
  BY <1>1, <1>2, <1>3, <1>4
     DEF Lone, Sending, Busied, Early, Midway, FrameOf, Held, WorkSame,
     CallSame, View, FieldsOK, Single
<1>9. use.continued' => Mended'
  <2> SUFFICES ASSUME use.continued' PROVE Mended'
    OBVIOUS
  <2>1. Mended /\ use.continued /\ (MendDue => ~LaunchDue)
    BY <1>2 DEF Lone, Resting
  <2>2. /\ e = "reconnect" => MendDue
        /\ e = "launch" => LaunchDue
        /\ ~MendDue' /\ ~LaunchDue'
    BY <1>3, <2>1 DEF MendDue, LaunchDue
  <2>3. Unstopped => ~SessionOver
    BY <1>3, <2>1, <2>2 DEF Mended
  <2>4. ~EndTold'
    BY <1>3, StepOps DEF EndTold, WorkSame
  <2>5. Unstopped' <=> Unstopped
    BY <1>2 DEF Unstopped
  <2>6. exit = "Invalid" => Unstopped
    BY DEF Unstopped
  <2>7. CASE mends' = mends
    BY <1>1, <1>2, <1>3, <1>4, <2>1, <2>2, <2>3, <2>4, <2>5, <2>7
       DEF Mended, WillMend, CallSame, LoneUse
  <2>8. CASE exit = "Invalid" /\ e = "reconnect" /\ mends' = mends + 1
    BY <1>1, <1>2, <1>3, <1>4, <2>1, <2>2, <2>3, <2>4, <2>5, <2>6, <2>8
       DEF Mended, WillMend, CallSame, LoneUse
  <2> QED
    BY <1>3, <2>7, <2>8
<1>10. use.continued' /\ FirstOnly' => Listening'
  BY <1>1, <1>2, <1>3, <1>4
     DEF Lone, Calm, Dialling, Resting, Sending, Listening, LaunchDue, MendDue,
     Waits, Held, Dials, DialOps, DialStatus, Fails, Told, FrameOf, FirstOnly,
     OpenStatus, EndView, IdleView, Single, WorkSame, CallSame, View, FieldsOK
<1> QED
  BY <1>5, <1>6, <1>7, <1>8, <1>9, <1>10 DEF Lone

LEMMA DnsConnectedAlone ==
  ASSUME Sound, Alone, Lone, DnsConnected
  PROVE  Lone'
<1>1. /\ Sound' /\ View /\ View' /\ EndView /\ EndView' /\ IdleView
      /\ IdleView' /\ FieldsOK /\ FieldsOK' /\ LoneUse
  BY Views, EndViews, TypeSplit, LoneUses, DnsConnectedStep, StepOps
     DEF Sound
<1>2. UNCHANGED <<status, exit, isStop, connected, fd, armed, cmd, peer, retry,
                  recon, attempts, starts, audio, told, mends, use>>
  BY <1>1
     DEF DnsConnected, sockVars, bufVars, exitVars, reconVars, histVars,
     boundVars
<1>3. /\ exit # "Cancel" /\ use.long /\ connected
      /\ CallSame /\ Now("work").op = "dns" /\ Now("work").op' = "start"
  BY <1>1, DnsConnectedStep, StepOps
     DEF DnsConnected
<1>4. SessionOver' <=> SessionOver
  BY <1>2, OverKept
<1>5. Calm'
  BY <1>1, <1>2, <1>3, <1>4
     DEF Lone, Calm, FirstOnly, LaunchDue, MendDue, CallSame
<1>6. Dialling'
  BY <1>1, <1>2, <1>3, <1>4
     DEF Lone, Dialling, Dialing, Waits, Dials, DialOps, LaunchDue, MendDue,
     DialStatus, Barred, OpenOk, Busied, Early, CallSame
<1>7. Resting'
  BY <1>1, <1>2, <1>3, <1>4
     DEF Lone, Calm, Dialling, Resting, Sending, LaunchDue, MendDue, Waits,
     Dialing, Barred, Over, Rest, OpenOk, Early, Busied, Midway, Held, Dials,
     DialOps, DialStatus, Fails, Told, FrameOf, Single, CallSame, View, FieldsOK
<1>8. Sending'
  BY <1>1, <1>2, <1>3, <1>4
     DEF Lone, Calm, Dialling, Resting, Sending, LaunchDue, MendDue, Waits,
     Dialing, Barred, Over, Rest, OpenOk, Early, Busied, Midway, Held, Dials,
     DialOps, DialStatus, Fails, Told, FrameOf, Single, CallSame, View, FieldsOK
<1>9. use.continued' => Mended'
  BY <1>1, <1>2, <1>3, <1>4
     DEF Lone, Mended, Unstopped, MendDue, LaunchDue, WillMend, EndTold,
     Settled, CallSame
<1>10. use.continued' /\ FirstOnly' => Listening'
  BY <1>1, <1>2, <1>3, <1>4
     DEF Lone, Listening, FirstOnly, LaunchDue, Dialing, FieldsOK, Single, Calm,
     Dialling
<1> QED
  BY <1>5, <1>6, <1>7, <1>8, <1>9, <1>10 DEF Lone

LEMMA DnsConnectAlone ==
  ASSUME Sound, Alone, Lone, DnsConnect
  PROVE  Lone'
<1>1. /\ Sound' /\ View /\ View' /\ EndView /\ EndView' /\ IdleView
      /\ IdleView' /\ FieldsOK /\ FieldsOK' /\ LoneUse
  BY Views, EndViews, TypeSplit, LoneUses, DnsConnectStep, StepOps
     DEF Sound
<1>2. UNCHANGED <<exit, isStop, connected, fd, cmd, peer, recon, starts, audio,
                  told, mends, use>>
  BY <1>1
     DEF DnsConnect, CheckConnectCount, sockVars, bufVars, exitVars, reconVars,
     histVars, boundVars
<1>3. /\ status' = "Connecting" /\ retry < RetryConnectCount
      /\ retry' = retry + 1 /\ attempts' = attempts + 1
      /\ CallSame /\ Now("work").op = "dns"
      /\ \/ Now("work").op' = "connect" /\ armed' = armed
         \/ Now("work").op' = "none" /\ armed' = armed \cup {"dns"}
      /\ ~(use.long /\ connected)
  <2>1. /\ status' = "Connecting" /\ retry < RetryConnectCount
        /\ retry' = retry + 1 /\ attempts' = attempts + 1
        /\ ~(use.long /\ connected)
    BY DEF DnsConnect, CheckConnectCount
  <2>2. /\ CallSame /\ Now("work").op = "dns"
        /\ \/ Now("work")' = Step("connect") /\ armed' = armed
           \/ Now("work")' = Step("none") /\ armed' = armed \cup {"dns"}
    BY <1>1, DnsConnectStep
  <2> QED
    BY <2>1, <2>2, StepOps
<1>4. SessionOver' <=> SessionOver
  BY <1>2, OverKept
<1>20. /\ Waits = {} /\ "dns" \notin armed
       /\ "connect" \notin armed /\ "timer" \notin armed
  BY <1>3 DEF Lone, Dialling, Waits, Dials
<1>21. /\ Waits' = {} \/ (Waits' = {"dns"} /\ Now("work").op' = "none")
       /\ "connect" \notin armed' /\ "timer" \notin armed'
       /\ "write" \in armed' => "write" \in armed
       /\ "launch" \in armed' => "launch" \in armed
       /\ "reconnect" \in armed' => "reconnect" \in armed
  BY <1>3, <1>20 DEF Waits, Dials
<1>5. Calm'
  BY <1>1, <1>2, <1>3, <1>4
     DEF Lone, Calm, FirstOnly, LaunchDue, MendDue, CallSame
<1>6. Dialling'
  <2>1. ~fd
    BY <1>3 DEF Lone, Dialling, OpenOk
  <2>2. /\ Now("caller").op = "none" /\ ~LaunchDue /\ ~MendDue
        /\ "write" \notin armed /\ ~Closing /\ attempts =< retry
        /\ attempts =< RetryConnectCount
    BY <1>3 DEF Lone, Dialling, Dialing, DialOps
  <2>3. /\ Now("caller").op' = "none" /\ ~LaunchDue' /\ ~MendDue'
        /\ "write" \notin armed' /\ attempts' =< retry'
        /\ attempts' =< RetryConnectCount /\ ~fd'
    BY <1>1, <1>2, <1>3, <1>21, <2>1, <2>2
       DEF LaunchDue, MendDue, CallSame, LoneUse
  <2>4. ~Closing'
    BY <1>1, <1>3 DEF View, Single
  <2> QED
    BY <1>3, <1>21, <2>1, <2>3, <2>4 DEF Dialling, Dialing, DialOps, DialStatus
<1>7. Resting'
  BY <1>1, <1>2, <1>3, <1>4
     DEF Lone, Resting, Rest, LaunchDue, Over, FrameOf, MendDue, OpenOk, Busied,
     Early, Held, Fails, Dialling, Dialing, Waits, Dials, DialOps
<1>8. Sending'
  BY <1>1, <1>2, <1>3, <1>4
     DEF Lone, Calm, Dialling, Resting, Sending, LaunchDue, MendDue, Waits,
     Dialing, Barred, Over, Rest, OpenOk, Early, Busied, Midway, Held, Dials,
     DialOps, DialStatus, Fails, Told, FrameOf, Single, CallSame, View, FieldsOK
<1>9. use.continued' => Mended'
  BY <1>1, <1>2, <1>3, <1>4
     DEF Lone, Mended, Unstopped, MendDue, LaunchDue, WillMend, EndTold,
     Settled, CallSame
<1>10. use.continued' /\ FirstOnly' => Listening'
  BY <1>1, <1>2, <1>3, <1>4
     DEF Lone, Listening, FirstOnly, LaunchDue, Dialing, Waits, Dials, DialOps,
     Fails, Told, OpenStatus, CallSame, View, FieldsOK, Single
<1> QED
  BY <1>5, <1>6, <1>7, <1>8, <1>9, <1>10 DEF Lone

LEMMA DnsGivesUpAlone ==
  ASSUME Sound, Alone, Lone, DnsGivesUp
  PROVE  Lone'
<1>1. /\ Sound' /\ View /\ View' /\ EndView /\ EndView' /\ IdleView
      /\ IdleView' /\ FieldsOK /\ FieldsOK' /\ LoneUse
  BY Views, EndViews, TypeSplit, LoneUses, DnsGivesUpStep, Fields
     DEF Sound
<1>2. UNCHANGED <<status, exit, isStop, connected, fd, armed, cmd, peer, recon,
                  attempts, starts, audio, told, mends, use>>
  BY <1>1
     DEF DnsGivesUp, sockVars, bufVars, exitVars, reconVars, histVars, boundVars
<1>3. /\ retry' = 0 /\ CallSame /\ Now("work").op = "dns"
      /\ Now("work").op' = "check" /\ Now("work").ev' = "TaskFailed"
      /\ ~Closing'
      /\ ~(use.long /\ connected)
  <2>1. /\ CheckFailed(TRUE).op = "check"
        /\ CheckFailed(TRUE).ev = "TaskFailed"
    BY DEF CheckFailed, Event
  <2> QED
    BY <1>1, <2>1, DnsGivesUpStep DEF DnsGivesUp
<1>4. SessionOver' <=> SessionOver
  BY <1>2, OverKept
<1>5. Calm'
  BY <1>1, <1>2, <1>3, <1>4
     DEF Lone, Calm, FirstOnly, LaunchDue, MendDue, CallSame
<1>6. Dialling'
  BY <1>1, <1>2, <1>3, <1>4
     DEF Lone, Dialling, Dialing, Waits, Dials, DialOps, LaunchDue, MendDue,
     DialStatus, Barred, OpenOk, Busied, Early, CallSame
<1>7. Resting'
  BY <1>1, <1>2, <1>3, <1>4
     DEF Lone, Resting, Rest, LaunchDue, Over, FrameOf, MendDue, OpenOk, Busied,
     Early, Held, Fails, Dialling, Dialing, Waits, Dials, DialOps
<1>8. Sending'
  BY <1>1, <1>2, <1>3, <1>4
     DEF Lone, Sending, Busied, Early, Midway, FrameOf, Held, CallSame, View,
     FieldsOK, Single
<1>9. use.continued' => Mended'
  BY <1>1, <1>2, <1>3, <1>4
     DEF Lone, Mended, Unstopped, MendDue, LaunchDue, WillMend, EndTold,
     Settled, CallSame
<1>10. use.continued' /\ FirstOnly' => Listening'
  BY <1>1, <1>2, <1>3, <1>4
     DEF Lone, Listening, FirstOnly, LaunchDue, Dialing, Waits, Dials, DialOps,
     Fails, Told, OpenStatus, CallSame
<1> QED
  BY <1>5, <1>6, <1>7, <1>8, <1>9, <1>10 DEF Lone

LEMMA DnsCancelledAlone ==
  ASSUME Sound, Alone, Lone, DnsCancelled
  PROVE  Lone'
<1>1. /\ Sound' /\ View /\ View' /\ EndView /\ EndView' /\ IdleView
      /\ IdleView' /\ FieldsOK /\ FieldsOK' /\ LoneUse
  BY Views, EndViews, TypeSplit, LoneUses, DnsCancelledStep, StepOps
     DEF Sound
<1>2. UNCHANGED <<status, exit, isStop, connected, fd, armed, cmd, peer, retry,
                  recon, attempts, starts, audio, told, mends, use>>
  BY <1>1
     DEF DnsCancelled, sockVars, bufVars, exitVars, reconVars, histVars,
     boundVars
<1>3. /\ exit = "Cancel" /\ CallSame /\ Now("work").op = "dns"
      /\ Now("work").op' = "destroy"
  BY <1>1, DnsCancelledStep, StepOps
     DEF DnsCancelled
<1>4. SessionOver' <=> SessionOver
  BY <1>2, OverKept
<1>5. Calm'
  BY <1>1, <1>2, <1>3, <1>4
     DEF Lone, Calm, FirstOnly, LaunchDue, MendDue, CallSame
<1>6. Dialling'
  BY <1>1, <1>2, <1>3, <1>4
     DEF Lone, Dialling, Dialing, Waits, Dials, DialOps, LaunchDue, MendDue,
     DialStatus, Barred, OpenOk, Busied, Early, CallSame
<1>7. Resting'
  BY <1>1, <1>2, <1>3, <1>4
     DEF Lone, Resting, Rest, LaunchDue, Over, FrameOf, MendDue, OpenOk, Busied,
     Early, Held, Fails, Told, CallSame, View, FieldsOK, Single
<1>8. Sending'
  BY <1>1, <1>2, <1>3, <1>4
     DEF Lone, Sending, Busied, Early, Midway, FrameOf, Held, CallSame, View,
     FieldsOK, Single
<1>9. use.continued' => Mended'
  BY <1>1, <1>2, <1>3, <1>4
     DEF Lone, Mended, Unstopped, MendDue, LaunchDue, WillMend, EndTold,
     Settled, CallSame
<1>10. use.continued' /\ FirstOnly' => Listening'
  BY <1>1, <1>2, <1>3, <1>4
     DEF Lone, Listening, FirstOnly, LaunchDue, Dialing, Waits, Dials, DialOps,
     Fails, Told, OpenStatus, CallSame
<1> QED
  BY <1>5, <1>6, <1>7, <1>8, <1>9, <1>10 DEF Lone

LEMMA ResolvedAlone ==
  ASSUME Sound, Alone, Lone, Resolved
  PROVE  Lone'
<1>1. /\ Sound' /\ View /\ View' /\ EndView /\ EndView' /\ IdleView
      /\ IdleView' /\ FieldsOK /\ FieldsOK' /\ LoneUse
  BY Views, EndViews, TypeSplit, LoneUses, ResolvedStep, AtWork, StepOps
     DEF Sound
<1>2. UNCHANGED <<exit, isStop, connected, fd, cmd, peer, retry, recon,
                  attempts, starts, audio, told, mends, use>>
  BY <1>1
     DEF Resolved, sockVars, bufVars, exitVars, reconVars, histVars, boundVars
<1>3. /\ "dns" \in armed /\ armed' = armed \ {"dns"}
      /\ CallSame /\ Now("work").op = "none"
      /\ \/ Now("work").op' = "connect" /\ status' = status
         \/ Now("work").op' = "dns" /\ status' = "Connecting"
  <2>1. "dns" \in armed /\ armed' = armed \ {"dns"}
    BY AtWork DEF Resolved
  <2>2. /\ CallSame /\ Now("work").op = "none"
        /\ \/ Now("work")' = Step("connect") /\ status' = status
           \/ Now("work")' = Step("dns") /\ status' = "Connecting"
    BY <1>1, ResolvedStep
  <2> QED
    BY <2>1, <2>2, StepOps
<1>4. SessionOver' <=> SessionOver
  BY <1>2, OverKept
<1>5. Calm'
  BY <1>1, <1>2, <1>3, <1>4
     DEF Lone, Calm, FirstOnly, LaunchDue, MendDue, CallSame
<1>6. Dialling'
  BY <1>1, <1>2, <1>3, <1>4
     DEF Lone, Dialling, Dialing, Waits, Dials, DialOps, LaunchDue, MendDue,
     DialStatus, Barred, OpenOk, Busied, Early, CallSame, View, FieldsOK, Single
<1>7. Resting'
  BY <1>1, <1>2, <1>3, <1>4
     DEF Lone, Resting, Rest, LaunchDue, Over, FrameOf, MendDue, OpenOk, Busied,
     Early, Held, Fails, Dialling, Dialing, Waits, Dials, DialOps
<1>8. Sending'
  BY <1>1, <1>2, <1>3, <1>4
     DEF Lone, Calm, Dialling, Resting, Sending, LaunchDue, MendDue, Waits,
     Dialing, Barred, Over, Rest, OpenOk, Early, Busied, Midway, Held, Dials,
     DialOps, DialStatus, Fails, Told, FrameOf, Single, CallSame, View, FieldsOK
<1>9. use.continued' => Mended'
  BY <1>1, <1>2, <1>3, <1>4
     DEF Lone, Calm, Dialling, Resting, Mended, LaunchDue, MendDue, Waits,
     Dialing, Barred, Over, Rest, OpenOk, Early, Busied, Midway, Held, Dials,
     DialOps, DialStatus, Fails, Told, FrameOf, Unstopped, WillMend, EndTold,
     Settled, EndView, IdleView, Single, CallSame, View, FieldsOK, LoneUse
<1>10. use.continued' /\ FirstOnly' => Listening'
  BY <1>1, <1>2, <1>3, <1>4
     DEF Lone, Listening, FirstOnly, LaunchDue, Dialing, Waits, Dials, DialOps,
     Fails, Told, OpenStatus, CallSame, View, FieldsOK, Single, Calm, Dialling
<1> QED
  BY <1>5, <1>6, <1>7, <1>8, <1>9, <1>10 DEF Lone

LEMMA ConnectAlone ==
  ASSUME Sound, Alone, Lone, Connect
  PROVE  Lone'
<1>1. /\ Sound' /\ View /\ View' /\ EndView /\ EndView' /\ IdleView
      /\ IdleView' /\ FieldsOK /\ FieldsOK' /\ LoneUse
  BY Views, EndViews, TypeSplit, LoneUses, ConnectStep, StepOps
     DEF Sound
<1>2. UNCHANGED <<exit, isStop, cmd, retry, recon, attempts, starts, audio,
                  told, mends, use>>
  BY <1>1
     DEF Connect, sockVars, bufVars, exitVars, reconVars, histVars, boundVars
<1>3. /\ CallSame /\ Now("work").op = "connect"
      /\ \/ /\ fd' = TRUE /\ peer' = "none" /\ Now("work").op' = "none"
            /\ armed' = (armed \ {"read", "write"}) \cup {"connect"}
            /\ status' = status /\ connected' = connected
         \/ /\ fd' = TRUE /\ peer' = "none" /\ Now("work").op' = "ssl"
            /\ armed' = armed \ {"read", "write", "connect"}
            /\ status' = "Connected" /\ connected' = TRUE
         \/ /\ Now("work").op' = "reconnect"
            /\ UNCHANGED <<status, connected, fd, armed, peer>>
  BY <1>1, ConnectStep, StepOps
     DEF Connect
<1>4. SessionOver' <=> SessionOver
  BY <1>2, OverKept
<1>20. /\ Waits = {} /\ "dns" \notin armed
       /\ "connect" \notin armed /\ "timer" \notin armed
  BY <1>3 DEF Lone, Dialling, Waits, Dials
<1>21. /\ \/ Waits' = {}
          \/ /\ Waits' = {"connect"} /\ Now("work").op' = "none"
             /\ "read" \notin armed' /\ fd'
       /\ "dns" \notin armed' /\ "timer" \notin armed'
       /\ "connect" \in armed' => Waits' = {"connect"}
       /\ "read" \in armed' => Now("work").op' = "reconnect"
       /\ "write" \in armed' => "write" \in armed
       /\ "launch" \in armed' => "launch" \in armed
       /\ "reconnect" \in armed' => "reconnect" \in armed
       /\ Now("work").op' = "none" => "connect" \in armed'
  BY <1>3, <1>20 DEF Waits, Dials
<1>5. Calm'
  BY <1>1, <1>2, <1>3, <1>4
     DEF Lone, Calm, FirstOnly, LaunchDue, MendDue, CallSame
<1>6. Dialling'
  BY <1>1, <1>2, <1>3, <1>4, <1>20, <1>21
     DEF Lone, Dialling, Dialing, DialOps, LaunchDue, MendDue, DialStatus,
     Barred, OpenOk, Busied, Early, CallSame, View, FieldsOK, LoneUse, Single
<1>7. Resting'
  BY <1>1, <1>2, <1>3, <1>4
     DEF Lone, Calm, Dialling, Resting, Sending, LaunchDue, MendDue, Waits,
     Dialing, Barred, Over, Rest, OpenOk, Early, Busied, Midway, Held, Dials,
     DialOps, DialStatus, Fails, Told, FrameOf, Single, CallSame, View, FieldsOK
<1>8. Sending'
  BY <1>1, <1>2, <1>3, <1>4
     DEF Lone, Calm, Dialling, Resting, Sending, LaunchDue, MendDue, Waits,
     Dialing, Barred, Over, Rest, OpenOk, Early, Busied, Midway, Held, Dials,
     DialOps, DialStatus, Fails, Told, FrameOf, Single, CallSame, View, FieldsOK
<1>9. use.continued' => Mended'
  BY <1>1, <1>2, <1>3, <1>4
     DEF Lone, Mended, Unstopped, MendDue, LaunchDue, WillMend, EndTold,
     Settled, CallSame
<1>10. use.continued' /\ FirstOnly' => Listening'
  BY <1>1, <1>2, <1>3, <1>4
     DEF Lone, Listening, FirstOnly, LaunchDue, Dialing, Waits, Dials, DialOps,
     Fails, Told, OpenStatus, CallSame, View, FieldsOK, Single
<1> QED
  BY <1>5, <1>6, <1>7, <1>8, <1>9, <1>10 DEF Lone

LEMMA ConnectReadyAlone ==
  ASSUME Sound, Alone, Lone, NEW e, ConnectReady(e)
  PROVE  Lone'
<1>1. /\ Sound' /\ View /\ View' /\ EndView /\ EndView' /\ IdleView
      /\ IdleView' /\ FieldsOK /\ FieldsOK' /\ LoneUse
  BY Views, EndViews, TypeSplit, LoneUses, ConnectReadyStep, StepOps
     DEF Sound
<1>2. UNCHANGED <<exit, isStop, fd, cmd, peer, retry, recon, attempts, starts,
                  audio, told, mends, use>>
  BY <1>1, ReadUnchanged
     DEF ConnectReady, sockVars, bufVars, exitVars, reconVars, histVars,
     boundVars
<1>3. /\ e \in {"connect", "timer"} /\ e \in armed
      /\ CallSame /\ Now("work").op = "none"
      /\ \/ /\ status = "Connecting" /\ fd /\ status' = "Connected"
            /\ connected' = TRUE /\ Now("work").op' = "ssl"
            /\ armed' = armed \ {e}
         \/ /\ status = "Connecting" /\ fd /\ WorkSame
            /\ UNCHANGED <<status, connected>>
            /\ armed' = (armed \ {e}) \cup {"connect"}
         \/ /\ status = "Connected" /\ fd /\ Now("work").op' = "ssl"
            /\ UNCHANGED <<status, connected>> /\ armed' = armed \ {e}
         \/ /\ status \notin {"Connecting", "Connected"} /\ WorkSame
            /\ UNCHANGED <<status, connected>> /\ armed' = armed \ {e}
         \/ /\ Now("work").op' = "reconnect"
            /\ UNCHANGED <<status, connected>> /\ armed' = armed \ {e}
  BY <1>1, ConnectReadyStep, StepOps
     DEF ConnectReady
<1>4. SessionOver' <=> SessionOver
  BY <1>2, OverKept
<1>20. Waits = {e}
  BY <1>3 DEF Lone, Dialling, Waits, Dials
<1>21. /\ fd /\ status # "Invoked" /\ armed = {e}
  <2>1. /\ fd /\ "read" \notin armed /\ status # "Invoked" /\ ~LaunchDue
        /\ ~MendDue /\ "write" \notin armed
    BY <1>3, <1>20 DEF Lone, Dialling, Dialing
  <2> QED
    BY <1>1, <1>3, <1>20, <2>1
       DEF FieldsOK, NodeEvents, LaunchDue, MendDue, Waits, Dials
<1>22. \/ armed' = {} /\ Waits' = {}
       \/ /\ armed' = {"connect"} /\ Waits' = {"connect"} /\ WorkSame
          /\ status = "Connecting" /\ UNCHANGED <<status, connected>>
  BY <1>3, <1>21 DEF Waits, Dials
<1>5. Calm'
  BY <1>1, <1>2, <1>3, <1>4
     DEF Lone, Calm, FirstOnly, LaunchDue, MendDue, WorkSame, CallSame
<1>6. Dialling'
  BY <1>1, <1>2, <1>3, <1>4, <1>20, <1>21, <1>22
     DEF Lone, Dialling, Dialing, DialOps, LaunchDue, MendDue, DialStatus,
     Barred, OpenOk, Busied, Early, WorkSame, CallSame, View, FieldsOK, LoneUse,
     Single
<1>7. Resting'
  BY <1>1, <1>2, <1>3, <1>4
     DEF Lone, Calm, Dialling, Resting, Sending, LaunchDue, MendDue, Waits,
     Dialing, Barred, Over, Rest, OpenOk, Early, Busied, Midway, Held, Dials,
     DialOps, DialStatus, Fails, Told, FrameOf, Single, WorkSame, CallSame,
     View, FieldsOK
<1>8. Sending'
  BY <1>1, <1>2, <1>3, <1>4
     DEF Lone, Sending, Busied, Early, Midway, FrameOf, Held, WorkSame,
     CallSame, View, FieldsOK, Single
<1>9. use.continued' => Mended'
  BY <1>1, <1>2, <1>3, <1>4
     DEF Lone, Calm, Dialling, Resting, Mended, LaunchDue, MendDue, Waits,
     Dialing, Barred, Over, Rest, OpenOk, Early, Busied, Midway, Held, Dials,
     DialOps, DialStatus, Fails, Told, FrameOf, Unstopped, WillMend, EndTold,
     Settled, EndView, IdleView, Single, WorkSame, CallSame, View, FieldsOK,
     LoneUse
<1>10. use.continued' /\ FirstOnly' => Listening'
  BY <1>1, <1>2, <1>3, <1>4
     DEF Lone, Calm, Dialling, Resting, Sending, Listening, LaunchDue, MendDue,
     Waits, Dialing, Barred, Over, Rest, OpenOk, Early, Busied, Midway, Held,
     Dials, DialOps, DialStatus, Fails, Told, FrameOf, FirstOnly, OpenStatus,
     EndView, IdleView, Single, WorkSame, CallSame, View, FieldsOK
<1> QED
  BY <1>5, <1>6, <1>7, <1>8, <1>9, <1>10 DEF Lone

LEMMA SslWaitsAlone ==
  ASSUME Sound, Alone, Lone, SslWaits
  PROVE  Lone'
<1>1. /\ Sound' /\ View /\ View' /\ EndView /\ EndView' /\ IdleView
      /\ IdleView' /\ FieldsOK /\ FieldsOK' /\ LoneUse
  BY Views, EndViews, TypeSplit, LoneUses, SslWaitsStep, StepOps
     DEF Sound
<1>2. UNCHANGED <<status, exit, isStop, connected, fd, cmd, peer, retry, recon,
                  attempts, starts, audio, told, mends, use>>
  BY <1>1
     DEF SslWaits, sockVars, bufVars, exitVars, reconVars, histVars, boundVars
<1>3. /\ CallSame /\ Now("work").op = "ssl" /\ Now("work").op' = "none"
      /\ armed' = armed \cup {"connect"} \/ armed' = armed \cup {"timer"}
      /\ exit # "Cancel"
  BY <1>1, SslWaitsStep, StepOps
     DEF SslWaits
<1>4. SessionOver' <=> SessionOver
  BY <1>2, OverKept
<1>20. /\ Waits = {} /\ "dns" \notin armed
       /\ "connect" \notin armed /\ "timer" \notin armed
  BY <1>3 DEF Lone, Dialling, Waits, Dials
<1>21. /\ Waits' = {"connect"} \/ Waits' = {"timer"}
       /\ "dns" \notin armed'
       /\ "read" \in armed' => "read" \in armed
       /\ "write" \in armed' => "write" \in armed
       /\ "launch" \in armed' => "launch" \in armed
       /\ "reconnect" \in armed' => "reconnect" \in armed
  BY <1>3, <1>20 DEF Waits, Dials
<1>5. Calm'
  BY <1>1, <1>2, <1>3, <1>4
     DEF Lone, Calm, FirstOnly, LaunchDue, MendDue, CallSame
<1>6. Dialling'
  BY <1>1, <1>2, <1>3, <1>4, <1>20, <1>21
     DEF Lone, Dialling, Dialing, DialOps, LaunchDue, MendDue, DialStatus,
     Barred, OpenOk, Busied, Early, CallSame, View
<1>7. Resting'
  BY <1>1, <1>2, <1>3, <1>4
     DEF Lone, Resting, Rest, LaunchDue, Over, FrameOf, MendDue, OpenOk, Busied,
     Early, Held, Fails, Told, CallSame, View, FieldsOK, Single
<1>8. Sending'
  BY <1>1, <1>2, <1>3, <1>4
     DEF Lone, Sending, Busied, Early, Midway, FrameOf, Held, CallSame, View,
     FieldsOK, Single
<1>9. use.continued' => Mended'
  BY <1>1, <1>2, <1>3, <1>4
     DEF Lone, Mended, Unstopped, MendDue, LaunchDue, WillMend, EndTold,
     Settled, CallSame
<1>10. use.continued' /\ FirstOnly' => Listening'
  BY <1>1, <1>2, <1>3, <1>4
     DEF Lone, Listening, FirstOnly, LaunchDue, Dialing, Waits, Dials, DialOps,
     Fails, Told, OpenStatus, CallSame, View, FieldsOK, Single
<1> QED
  BY <1>5, <1>6, <1>7, <1>8, <1>9, <1>10 DEF Lone

LEMMA SslEndsAlone ==
  ASSUME Sound, Alone, Lone, SslEnds
  PROVE  Lone'
<1>1. /\ Sound' /\ View /\ View' /\ EndView /\ EndView' /\ IdleView
      /\ IdleView' /\ FieldsOK /\ FieldsOK' /\ LoneUse
  BY Views, EndViews, TypeSplit, LoneUses, SslEndsStep, StepOps
     DEF Sound
<1>2. UNCHANGED <<exit, isStop, connected, fd, armed, cmd, retry, recon,
                  attempts, starts, audio, told, mends, use>>
  BY <1>1
     DEF SslEnds, sockVars, bufVars, exitVars, reconVars, histVars, boundVars
<1>3. /\ CallSame /\ Now("work").op = "ssl"
      /\ \/ /\ status' = "Handshaking" /\ peer' = "fresh"
            /\ Now("work").op' = "request"
         \/ /\ Now("work").op' = "reconnect"
            /\ UNCHANGED <<status, peer>>
  BY <1>1, SslEndsStep, StepOps
     DEF SslEnds
<1>4. SessionOver' <=> SessionOver
  BY <1>2, OverKept
<1>5. Calm'
  BY <1>1, <1>2, <1>3, <1>4
     DEF Lone, Calm, FirstOnly, LaunchDue, MendDue, CallSame, View, FieldsOK,
     LoneUse, Dialling, Dialing, Waits, Dials, DialOps
<1>6. Dialling'
  BY <1>1, <1>2, <1>3, <1>4
     DEF Lone, Dialling, Dialing, Waits, Dials, DialOps, LaunchDue, MendDue,
     DialStatus, Barred, OpenOk, Busied, Early, CallSame, View, FieldsOK, Single
<1>7. Resting'
  BY <1>1, <1>2, <1>3, <1>4
     DEF Lone, Resting, Rest, LaunchDue, Over, FrameOf, MendDue, OpenOk, Busied,
     Early, Held, Fails, Told, CallSame, View, FieldsOK, Single, Calm, Dialling,
     Dialing, Waits, Dials, DialOps
<1>8. Sending'
  BY <1>1, <1>2, <1>3, <1>4
     DEF Lone, Calm, Dialling, Resting, Sending, LaunchDue, MendDue, Waits,
     Dialing, Barred, Over, Rest, OpenOk, Early, Busied, Midway, Held, Dials,
     DialOps, DialStatus, Fails, Told, FrameOf, Single, CallSame, View, FieldsOK
<1>9. use.continued' => Mended'
  BY <1>1, <1>2, <1>3, <1>4
     DEF Lone, Mended, Unstopped, MendDue, LaunchDue, WillMend, EndTold,
     Settled, CallSame
<1>10. use.continued' /\ FirstOnly' => Listening'
  BY <1>1, <1>2, <1>3, <1>4
     DEF Lone, Listening, FirstOnly, LaunchDue, Dialing, Waits, Dials, DialOps,
     Fails, Told, OpenStatus, CallSame, View, FieldsOK, Single
<1> QED
  BY <1>5, <1>6, <1>7, <1>8, <1>9, <1>10 DEF Lone

LEMMA RequestAlone ==
  ASSUME Sound, Alone, Lone, NodeRequestProcess
  PROVE  Lone'
<1>1. /\ Sound' /\ View /\ View' /\ EndView /\ EndView' /\ IdleView
      /\ IdleView' /\ FieldsOK /\ FieldsOK' /\ LoneUse
  BY Views, EndViews, TypeSplit, LoneUses, RequestStep, StepOps, Fields
     DEF Sound
<1>2. UNCHANGED <<exit, isStop, connected, fd, retry, recon, attempts, starts,
                  audio, told, mends, use>>
  BY <1>1
     DEF NodeRequestProcess, sockVars, bufVars, exitVars, reconVars, histVars,
     boundVars
<1>3. /\ CallSame /\ Now("work").op = "request"
      /\ \/ /\ status = "Handshaking" /\ status' = "Handshaked"
            /\ \/ /\ fd /\ cmd' = <<>>
                  /\ peer' = Hear(peer, Append(cmd, "shake"))
                  /\ armed' = armed \cup {"read"} /\ Now("work").op' = "none"
               \/ /\ fd /\ cmd' = Append(cmd, "shake") /\ peer' = peer
                  /\ armed' = armed \cup {"read", "write"}
                  /\ Now("work").op' = "none"
               \/ /\ cmd' = Append(cmd, "shake") /\ peer' = peer
                  /\ armed' = armed \cup {"read"} /\ Breaks'
                  /\ Now("work").op' = "check" /\ Now("work").ev' = "TaskFailed"
         \/ /\ status \in {"Handshaked", "Starting"} /\ status' = status
            /\ \/ /\ cmd = <<>> /\ Now("work").op' = "none"
                  /\ UNCHANGED <<cmd, peer, armed>>
               \/ /\ cmd # <<>> /\ fd /\ cmd' = <<>> /\ peer' = Hear(peer, cmd)
                  /\ armed' = armed /\ Now("work").op' = "none"
               \/ /\ cmd # <<>> /\ fd /\ cmd' = cmd /\ peer' = peer
                  /\ armed' = armed \cup {"write"} /\ Now("work").op' = "none"
               \/ /\ cmd # <<>> /\ cmd' = cmd /\ peer' = peer
                  /\ armed' = armed /\ Breaks'
                  /\ Now("work").op' = "check" /\ Now("work").ev' = "TaskFailed"
         \/ /\ status = "Started" /\ Now("work").op' = "flush"
            /\ UNCHANGED <<status, cmd, peer, armed>>
         \/ /\ status
                  \notin {"Handshaking", "Handshaked", "Starting", "Started"}
            /\ UNCHANGED <<status, cmd, peer, armed>> /\ Breaks'
            /\ Now("work").op' = "check" /\ Now("work").ev' = "TaskFailed"
  BY <1>1, RequestStep, StepOps, Fields
     DEF NodeRequestProcess
<1>4. SessionOver' <=> SessionOver
  BY <1>2, OverKept
<1>20. /\ Append(cmd, "shake") # <<>> /\ Append(cmd, "shake") # <<"stop">>
       /\ <<>> # <<"stop">>
       /\ Hear(peer, Append(cmd, "shake")) \in {"shaking", "failed", "lost"}
       /\ Hear(peer, cmd)
            \in {"shaking", "starting", "stopping", "failed", "lost"}
       /\ Hear(peer, cmd) = "stopping" => cmd = <<"stop">>
       /\ Hear(peer, cmd) = "shaking" => peer = "fresh"
       /\ Hear(peer, cmd) = "starting" => peer = "open"
  BY <1>1, HearsAny DEF FieldsOK
<1>5. Calm'
  <2>1. CASE status = "Handshaking"
    BY <1>1, <1>2, <1>3, <1>20, <2>1
       DEF Lone, Calm, Dialling, LaunchDue, MendDue, Waits, Dialing, Barred,
       Dials, FirstOnly, CallSame, FieldsOK, LoneUse
  <2>2. CASE status \in {"Handshaked", "Starting"}
    BY <1>1, <1>2, <1>3, <1>20, <2>2
       DEF Lone, Calm, Dialling, LaunchDue, MendDue, Waits, Dialing, Barred,
       Dials, FirstOnly, CallSame, FieldsOK, LoneUse
  <2>3. CASE status \notin {"Handshaking", "Handshaked", "Starting"}
    BY <1>1, <1>2, <1>3, <2>3
       DEF Lone, Calm, LaunchDue, MendDue, FirstOnly, CallSame, FieldsOK, LoneUse
  <2> QED
    BY <2>1, <2>2, <2>3
<1>6. Dialling'
  BY <1>1, <1>2, <1>3, <1>4, <1>20
     DEF Lone, Dialling, Dialing, Waits, Dials, DialOps, LaunchDue, MendDue,
     DialStatus, Barred, OpenOk, Busied, Early, CallSame, Breaks
<1>7. Resting'
  <2>1. CASE status = "Handshaking"
    BY <1>1, <1>2, <1>3, <1>20, <2>1
       DEF Lone, Calm, Dialling, Resting, Sending, LaunchDue, MendDue, Over,
       Rest, OpenOk, Early, Busied, Midway, Held, Fails, Told, FrameOf,
       CallSame, Breaks, View
  <2>2. CASE status \in {"Handshaked", "Starting"}
    BY <1>1, <1>2, <1>3, <1>20, <2>2
       DEF Lone, Calm, Dialling, Resting, Sending, LaunchDue, MendDue, Over,
       Rest, OpenOk, Early, Busied, Midway, Held, Fails, Told, FrameOf,
       CallSame, Breaks, View
  <2>3. CASE status \notin {"Handshaking", "Handshaked", "Starting"}
    BY <1>1, <1>2, <1>3, <2>3
       DEF Lone, Calm, Dialling, Resting, Sending, LaunchDue, MendDue, Over,
       Rest, OpenOk, Early, Busied, Midway, Held, Fails, Told, FrameOf,
       CallSame, Breaks, View
  <2> QED
    BY <2>1, <2>2, <2>3
<1>8. Sending'
  <2>1. CASE status = "Handshaking"
    BY <1>1, <1>2, <1>3, <1>20, <2>1
       DEF Lone, Sending, Early, Busied, Midway, Held, Told, FrameOf, CallSame,
       Breaks, View
  <2>2. CASE status \in {"Handshaked", "Starting"}
    BY <1>1, <1>2, <1>3, <1>20, <2>2
       DEF Lone, Sending, Early, Busied, Midway, Held, Told, FrameOf, CallSame,
       Breaks, View
  <2>3. CASE status \notin {"Handshaking", "Handshaked", "Starting"}
    BY <1>1, <1>2, <1>3, <2>3
       DEF Lone, Sending, Early, Busied, Midway, Held, Told, FrameOf, CallSame,
       Breaks, View
  <2> QED
    BY <2>1, <2>2, <2>3
<1>9. use.continued' => Mended'
  <2> SUFFICES ASSUME use.continued' PROVE Mended'
    OBVIOUS
  <2>1. /\ Mended /\ use.continued
        /\ Unstopped => ~SessionOver /\ ~MendDue /\ ~LaunchDue
    BY <1>2, <1>3 DEF Lone, Mended, EndTold, Settled
  <2>2. /\ MendDue' => MendDue
        /\ LaunchDue' => LaunchDue
        /\ ~EndTold'
    BY <1>3 DEF MendDue, LaunchDue, EndTold
  <2> QED
    BY <1>2, <1>3, <1>4, <2>1, <2>2 DEF Mended, Unstopped, WillMend, CallSame
<1>10. use.continued' /\ FirstOnly' => Listening'
  <2>1. CASE status = "Handshaking"
    BY <1>1, <1>2, <1>3, <1>20, <2>1
       DEF Lone, Sending, Listening, LaunchDue, Waits, Dialing, Barred,
       Dials, DialOps, Fails, Told, FirstOnly, OpenStatus, EndView, IdleView,
       CallSame, Breaks
  <2>2. CASE status \in {"Handshaked", "Starting"}
    BY <1>1, <1>2, <1>3, <1>20, <2>2
       DEF Lone, Calm, Dialling, Listening, LaunchDue, Waits, Dialing, Barred,
       Dials, DialOps, Fails, Told, FirstOnly, OpenStatus, EndView, IdleView,
       CallSame, Breaks
  <2>3. CASE status \notin {"Handshaking", "Handshaked", "Starting"}
    BY <1>1, <1>2, <1>3, <2>3
       DEF Lone, Calm, Dialling, Listening, LaunchDue, Waits, Dialing, Barred,
       Dials, DialOps, Fails, Told, FirstOnly, OpenStatus, EndView, IdleView,
       CallSame, Breaks
  <2> QED
    BY <2>1, <2>2, <2>3
<1> QED
  BY <1>5, <1>6, <1>7, <1>8, <1>9, <1>10 DEF Lone

LEMMA SendStartAlone ==
  ASSUME Sound, Alone, Lone, SendStart
  PROVE  Lone'
<1>1. /\ Sound' /\ View /\ View' /\ EndView /\ EndView' /\ IdleView
      /\ IdleView' /\ FieldsOK /\ FieldsOK' /\ LoneUse
  BY Views, EndViews, TypeSplit, LoneUses, SendStartStep, StepOps, Fields
     DEF Sound
<1>2. UNCHANGED <<exit, isStop, connected, fd, retry, attempts, starts, audio,
                  told, mends, use>>
  BY <1>1
     DEF SendStart, FieldsOK, sockVars, bufVars, exitVars, reconVars, histVars,
     boundVars
<1>3. /\ CallSame /\ Now("work").op = "start"
      /\ status' = "Starting" /\ recon'.state = "NewReconnectionStarting"
      /\ \/ /\ fd /\ cmd' = <<>> /\ peer' = Hear(peer, Append(cmd, "start"))
            /\ armed' = armed /\ Now("work").op' = "none"
         \/ /\ fd /\ cmd' = Append(cmd, "start") /\ peer' = peer
            /\ armed' = armed \cup {"write"} /\ Now("work").op' = "none"
         \/ /\ cmd' = Append(cmd, "start") /\ peer' = peer
            /\ armed' = armed /\ Breaks'
            /\ \/ Now("work").op' = "check" /\ Now("work").ev' = "TaskFailed"
               \/ Now("work").op' = "close"
      /\ recon'.count = recon.count
  <2>1. \A m : CheckFailed(m).op = "check" /\ CheckFailed(m).ev = "TaskFailed"
    BY Fields
  <2>2. recon'.state = "NewReconnectionStarting" /\ recon'.count = recon.count
    BY TypeSplit DEF SendStart, Sound, FieldsOK
  <2> QED
    BY <1>1, <2>1, <2>2, SendStartStep, StepOps DEF SendStart
<1>4. SessionOver' <=> SessionOver
  BY <1>2, OverKept
<1>20. /\ Append(cmd, "start") # <<>> /\ Append(cmd, "start") # <<"stop">>
       /\ <<>> # <<"stop">>
       /\ Hear(peer, Append(cmd, "start")) \in {"starting", "failed", "lost"}
  BY <1>1, HearsAny DEF FieldsOK
<1>5. Calm'
  BY <1>1, <1>2, <1>3, <1>4, <1>20
     DEF Lone, Calm, FirstOnly, LaunchDue, MendDue, CallSame, Breaks, View,
     FieldsOK, LoneUse, Dialling, Dialing, Waits, Dials, DialOps
<1>6. Dialling'
  BY <1>1, <1>2, <1>3, <1>4, <1>20
     DEF Lone, Dialling, Dialing, Waits, Dials, DialOps, LaunchDue, MendDue,
     DialStatus, Barred, OpenOk, Busied, Early, CallSame, Breaks
<1>7. Resting'
  BY <1>1, <1>2, <1>3, <1>4, <1>20
     DEF Lone, Resting, Rest, LaunchDue, Over, FrameOf, MendDue, OpenOk, Busied,
     Early, Held, Fails, Told, CallSame, Breaks
<1>8. Sending'
  BY <1>1, <1>2, <1>3, <1>4, <1>20
     DEF Lone, Sending, Busied, Early, Midway, FrameOf, Held, CallSame, Breaks
<1>9. use.continued' => Mended'
  BY <1>1, <1>2, <1>3, <1>4, <1>20
     DEF Lone, Mended, Unstopped, MendDue, LaunchDue, WillMend, EndTold,
     Settled, CallSame, Breaks
<1>10. use.continued' /\ FirstOnly' => Listening'
  BY <1>1, <1>2, <1>3, <1>4, <1>20
     DEF Lone, Calm, Dialling, Resting, Sending, Listening, LaunchDue, MendDue,
     Waits, Dialing, Barred, Over, Rest, OpenOk, Early, Busied, Midway, Held,
     Dials, DialOps, DialStatus, Fails, Told, FrameOf, FirstOnly, OpenStatus,
     EndView, IdleView, Single, CallSame, Breaks, View, FieldsOK
<1> QED
  BY <1>5, <1>6, <1>7, <1>8, <1>9, <1>10 DEF Lone

LEMMA ReadCancelledAlone ==
  ASSUME Sound, Alone, Lone, ReadCancelled
  PROVE  Lone'
<1>1. /\ Sound' /\ View /\ View' /\ EndView /\ EndView' /\ IdleView
      /\ IdleView' /\ FieldsOK /\ FieldsOK' /\ LoneUse
  BY Views, EndViews, TypeSplit, LoneUses, ReadCancelledStep, StepOps
     DEF Sound
<1>2. UNCHANGED <<status, exit, isStop, connected, fd, armed, cmd, peer, retry,
                  recon, attempts, starts, audio, told, mends, use>>
  BY <1>1, ReadUnchanged
     DEF ReadCancelled, sockVars, bufVars, exitVars, reconVars, histVars,
     boundVars
<1>3. /\ CallSame /\ Now("work").op = "none" /\ "read" \in armed /\ fd
      /\ exit = "Cancel" /\ Now("work").op' = "close" /\ Closing'
      /\ Ending'
  BY <1>1, ReadCancelledStep, StepOps
     DEF ReadCancelled
<1>4. SessionOver' <=> SessionOver
  BY <1>2, OverKept
<1>5. Calm'
  BY <1>1, <1>2, <1>3, <1>4
     DEF Lone, Calm, FirstOnly, LaunchDue, MendDue, CallSame
<1>6. Dialling'
  BY <1>1, <1>2, <1>3, <1>4
     DEF Lone, Dialling, Dialing, Waits, Dials, DialOps, LaunchDue, MendDue,
     DialStatus, Barred, OpenOk, Busied, Early, CallSame
<1>7. Resting'
  BY <1>1, <1>2, <1>3, <1>4
     DEF Lone, Resting, Rest, LaunchDue, Over, FrameOf, MendDue, OpenOk, Busied,
     Early, Held, Fails, Told, CallSame
<1>8. Sending'
  BY <1>1, <1>2, <1>3, <1>4
     DEF Lone, Sending, Busied, Early, Midway, FrameOf, Held, CallSame
<1>9. use.continued' => Mended'
  BY <1>1, <1>2, <1>3, <1>4
     DEF Lone, Mended, Unstopped, MendDue, LaunchDue, WillMend, EndTold,
     Settled, CallSame
<1>10. use.continued' /\ FirstOnly' => Listening'
  BY <1>1, <1>2, <1>3, <1>4
     DEF Lone, Listening, FirstOnly, LaunchDue, Dialing, Waits, Dials, DialOps,
     Fails, Told, OpenStatus, CallSame
<1> QED
  BY <1>5, <1>6, <1>7, <1>8, <1>9, <1>10 DEF Lone

LEMMA GatewayResponseAlone ==
  ASSUME Sound, Alone, Lone, GatewayResponse
  PROVE  Lone'
<1>1. /\ Sound' /\ View /\ View' /\ EndView /\ EndView' /\ IdleView
      /\ IdleView' /\ FieldsOK /\ FieldsOK' /\ LoneUse
  BY Views, EndViews, TypeSplit, LoneUses, ReadUnchanged, Statuses,
     GatewayResponseStep
     DEF Sound
<1>2. UNCHANGED <<status, exit, isStop, connected, fd, armed, cmd, retry, recon,
                  attempts, starts, audio, told, mends, use>>
  BY <1>1, ReadUnchanged
     DEF GatewayResponse, sockVars, bufVars, exitVars, reconVars, histVars,
     boundVars
<1>3. /\ CallSame /\ Now("work").op = "none" /\ "read" \in armed /\ fd
      /\ status \in {"Handshaking", "Handshaked"} /\ peer = "shaking"
      /\ peer' = "open" /\ Now("work").op' = "start"
      /\ exit # "Cancel"
  BY <1>1, ReadUnchanged, Statuses, GatewayResponseStep
     DEF GatewayResponse
<1>4. SessionOver' <=> SessionOver
  BY <1>2, OverKept
<1>5. Calm'
  BY <1>1, <1>2, <1>3, <1>4
     DEF Lone, Calm, FirstOnly, LaunchDue, MendDue, CallSame
<1>6. Dialling'
  BY <1>1, <1>2, <1>3, <1>4
     DEF Lone, Dialling, Dialing, Waits, Dials, DialOps, LaunchDue, MendDue,
     DialStatus, Barred, OpenOk, Busied, Early, CallSame
<1>7. Resting'
  BY <1>1, <1>2, <1>3, <1>4
     DEF Lone, Resting, Rest, LaunchDue, Over, FrameOf, MendDue, OpenOk, Busied,
     Early, Held, Fails, Told, CallSame
<1>8. Sending'
  BY <1>1, <1>2, <1>3, <1>4
     DEF Lone, Sending, Busied, Early, Midway, FrameOf, Held, CallSame, View,
     FieldsOK, Single
<1>9. use.continued' => Mended'
  BY <1>1, <1>2, <1>3, <1>4
     DEF Lone, Mended, Unstopped, MendDue, LaunchDue, WillMend, EndTold,
     Settled, CallSame, View, FieldsOK, LoneUse, Single, Calm, Resting
<1>10. use.continued' /\ FirstOnly' => Listening'
  BY <1>1, <1>2, <1>3, <1>4
     DEF Lone, Listening, FirstOnly, LaunchDue, Dialing, Waits, Dials, DialOps,
     Fails, Told, OpenStatus, CallSame
<1> QED
  BY <1>5, <1>6, <1>7, <1>8, <1>9, <1>10 DEF Lone

LEMMA ReadStartedAlone ==
  ASSUME Sound, Alone, Lone, ReadStarted
  PROVE  Lone'
<1>1. /\ Sound' /\ View /\ View' /\ EndView /\ EndView' /\ IdleView
      /\ IdleView' /\ FieldsOK /\ FieldsOK' /\ LoneUse
  BY Views, EndViews, TypeSplit, LoneUses, ReadUnchanged, Statuses,
     ReadStartedStep
     DEF Sound
<1>2. UNCHANGED <<status, exit, isStop, connected, fd, armed, cmd, retry, recon,
                  attempts, starts, audio, told, mends, use>>
  BY <1>1, ReadUnchanged
     DEF ReadStarted, FrameStatus, sockVars, bufVars, exitVars, reconVars,
     histVars, boundVars
<1>3. /\ CallSame /\ Now("work").op = "none" /\ "read" \in armed /\ fd
      /\ status \in {"Starting", "Started", "Connecting"}
      /\ peer = "starting" /\ peer' = "running"
      /\ Now("work").op' = "tell" /\ Now("work").ev' = "Started"
      /\ exit # "Cancel"
  BY <1>1, ReadUnchanged, Statuses, ReadStartedStep
     DEF ReadStarted, FrameStatus
<1>4. SessionOver' <=> SessionOver
  BY <1>2, OverKept
<1>5. Calm'
  BY <1>1, <1>2, <1>3, <1>4
     DEF Lone, Calm, FirstOnly, LaunchDue, MendDue, CallSame
<1>6. Dialling'
  BY <1>1, <1>2, <1>3, <1>4
     DEF Lone, Dialling, Dialing, Waits, Dials, DialOps, LaunchDue, MendDue,
     DialStatus, Barred, OpenOk, Busied, Early, CallSame
<1>7. Resting'
  BY <1>1, <1>2, <1>3, <1>4
     DEF Lone, Resting, Rest, LaunchDue, Over, FrameOf, MendDue, OpenOk, Busied,
     Early, Held, Fails, Told, CallSame
<1>8. Sending'
  BY <1>1, <1>2, <1>3, <1>4
     DEF Lone, Sending, Busied, Early, Midway, FrameOf, Held, CallSame, View,
     FieldsOK, Single
<1>9. use.continued' => Mended'
  BY <1>1, <1>2, <1>3, <1>4
     DEF Lone, Mended, Unstopped, MendDue, LaunchDue, WillMend, EndTold,
     Settled, CallSame, View, FieldsOK, LoneUse, Single, Calm, Resting
<1>10. use.continued' /\ FirstOnly' => Listening'
  BY <1>1, <1>2, <1>3, <1>4
     DEF Lone, Listening, FirstOnly, LaunchDue, Dialing, Waits, Dials, DialOps,
     Fails, Told, OpenStatus, CallSame, View, FieldsOK, Single
<1> QED
  BY <1>5, <1>6, <1>7, <1>8, <1>9, <1>10 DEF Lone

LEMMA ReadCompletedAlone ==
  ASSUME Sound, Alone, Lone, ReadCompleted
  PROVE  Lone'
<1>1. /\ Sound' /\ View /\ View' /\ EndView /\ EndView' /\ IdleView
      /\ IdleView' /\ FieldsOK /\ FieldsOK' /\ LoneUse
  BY Views, EndViews, TypeSplit, LoneUses, ReadUnchanged, Statuses,
     ReadCompletedStep
     DEF Sound
<1>2. UNCHANGED <<status, exit, isStop, connected, fd, armed, cmd, retry, recon,
                  attempts, starts, audio, told, mends, use>>
  BY <1>1, ReadUnchanged
     DEF ReadCompleted, FrameStatus, sockVars, bufVars, exitVars, reconVars,
     histVars, boundVars
<1>3. /\ CallSame /\ Now("work").op = "none" /\ "read" \in armed /\ fd
      /\ status \in {"Starting", "Started", "Connecting"}
      /\ peer = "stopping" /\ peer' = "open"
      /\ Now("work").op' = "tell" /\ Now("work").ev' = "Completed"
      /\ exit # "Cancel"
  BY <1>1, ReadUnchanged, Statuses, ReadCompletedStep
     DEF ReadCompleted, FrameStatus
<1>4. SessionOver' <=> SessionOver
  BY <1>2, OverKept
<1>5. Calm'
  BY <1>1, <1>2, <1>3, <1>4
     DEF Lone, Calm, FirstOnly, LaunchDue, MendDue, CallSame
<1>6. Dialling'
  BY <1>1, <1>2, <1>3, <1>4
     DEF Lone, Dialling, Dialing, Waits, Dials, DialOps, LaunchDue, MendDue,
     DialStatus, Barred, OpenOk, Busied, Early, CallSame
<1>7. Resting'
  BY <1>1, <1>2, <1>3, <1>4
     DEF Lone, Resting, Rest, LaunchDue, Over, FrameOf, MendDue, OpenOk, Busied,
     Early, Held, Fails, Told, CallSame
<1>8. Sending'
  BY <1>1, <1>2, <1>3, <1>4
     DEF Lone, Sending, Busied, Early, Midway, FrameOf, Held, CallSame, View,
     FieldsOK, LoneUse, Single, Calm, Resting, Dialing
<1>9. use.continued' => Mended'
  BY <1>1, <1>2, <1>3, <1>4
     DEF Lone, Mended, Unstopped, MendDue, LaunchDue, WillMend, EndTold,
     Settled, CallSame, View, FieldsOK, LoneUse, Single, Calm, Resting
<1>10. use.continued' /\ FirstOnly' => Listening'
  BY <1>1, <1>2, <1>3, <1>4
     DEF Lone, Listening, FirstOnly, LaunchDue, Dialing, Waits, Dials, DialOps,
     Fails, Told, OpenStatus, CallSame, View, FieldsOK, Single
<1> QED
  BY <1>5, <1>6, <1>7, <1>8, <1>9, <1>10 DEF Lone

LEMMA ReadTaskFailedAlone ==
  ASSUME Sound, Alone, Lone, ReadTaskFailed
  PROVE  Lone'
<1>1. /\ Sound' /\ View /\ View' /\ EndView /\ EndView' /\ IdleView
      /\ IdleView' /\ FieldsOK /\ FieldsOK' /\ LoneUse
  BY Views, EndViews, TypeSplit, LoneUses, ReadUnchanged, Statuses,
     ReadTaskFailedStep
     DEF Sound
<1>2. UNCHANGED <<status, exit, isStop, connected, fd, armed, cmd, retry, recon,
                  attempts, starts, audio, told, mends, use>>
  BY <1>1, ReadUnchanged
     DEF ReadTaskFailed, FrameStatus, sockVars, bufVars, exitVars, reconVars,
     histVars, boundVars
<1>3. /\ CallSame /\ Now("work").op = "none" /\ "read" \in armed /\ fd
      /\ status \in {"Starting", "Started", "Connecting"}
      /\ peer \in {"starting", "running", "stopping", "lost"}
      /\ peer' = "failed" /\ Breaks'
      /\ Now("work").op' = "tell" /\ Now("work").ev' = "TaskFailed"
      /\ Coming' = Set("TaskFailed")
      /\ exit # "Cancel"
  BY <1>1, ReadUnchanged, Statuses, ReadTaskFailedStep
     DEF ReadTaskFailed, FrameStatus
<1>4. SessionOver' <=> SessionOver
  BY <1>2, OverKept
<1>5. Calm'
  BY <1>1, <1>2, <1>3, <1>4
     DEF Lone, Calm, FirstOnly, LaunchDue, MendDue, CallSame, Breaks
<1>6. Dialling'
  BY <1>1, <1>2, <1>3, <1>4
     DEF Lone, Dialling, Dialing, Waits, Dials, DialOps, LaunchDue, MendDue,
     DialStatus, Barred, OpenOk, Busied, Early, CallSame, Breaks
<1>7. Resting'
  BY <1>1, <1>2, <1>3, <1>4
     DEF Lone, Resting, Rest, LaunchDue, Over, FrameOf, MendDue, OpenOk, Busied,
     Early, Held, Fails, Told, CallSame, Breaks
<1>8. Sending'
  BY <1>1, <1>2, <1>3, <1>4
     DEF Lone, Sending, Busied, Early, Midway, FrameOf, Held, CallSame, Breaks
<1>9. use.continued' => Mended'
  BY <1>1, <1>2, <1>3, <1>4
     DEF Lone, Mended, Unstopped, MendDue, LaunchDue, WillMend, EndTold,
     Settled, CallSame, Breaks, View, FieldsOK, LoneUse, Single, Calm, Resting
<1>10. use.continued' /\ FirstOnly' => Listening'
  BY <1>1, <1>2, <1>3, <1>4
     DEF Lone, Listening, FirstOnly, LaunchDue, Dialing, Waits, Dials, DialOps,
     Fails, Told, FieldsOK, Single, Calm, Dialling
<1> QED
  BY <1>5, <1>6, <1>7, <1>8, <1>9, <1>10 DEF Lone

LEMMA ReadDirtyAlone ==
  ASSUME Sound, Alone, Lone, ReadDirty
  PROVE  Lone'
<1>1. /\ Sound' /\ View /\ View' /\ EndView /\ EndView' /\ IdleView
      /\ IdleView' /\ FieldsOK /\ FieldsOK' /\ LoneUse
  BY Views, EndViews, TypeSplit, LoneUses, ReadUnchanged, Statuses,
     ReadDirtyStep, Fields
     DEF Sound
<1>2. UNCHANGED <<status, exit, isStop, connected, fd, armed, cmd, peer, retry,
                  recon, attempts, starts, audio, told, mends, use>>
  BY <1>1, ReadUnchanged
     DEF ReadDirty, FrameStatus, sockVars, bufVars, exitVars, reconVars,
     histVars, boundVars
<1>3. /\ CallSame /\ Now("work").op = "none" /\ "read" \in armed /\ fd
      /\ status \in {"Starting", "Started", "Connecting"}
      /\ Breaks' /\ Now("work").op' = "check" /\ Now("work").ev' = "TaskFailed"
      /\ exit # "Cancel"
  <2>1. \A m : CheckFailed(m).op = "check" /\ CheckFailed(m).ev = "TaskFailed"
    BY Fields
  <2>2. /\ Now("work").op = "none" /\ "read" \in armed /\ fd
        /\ status \in {"Starting", "Started", "Connecting"} /\ exit # "Cancel"
    BY AtWork, ReadUnchanged DEF ReadDirty, FrameStatus
  <2> QED
    BY <1>1, <2>1, <2>2, ReadDirtyStep
<1>4. SessionOver' <=> SessionOver
  BY <1>2, OverKept
<1>5. Calm'
  BY <1>1, <1>2, <1>3, <1>4
     DEF Lone, Calm, FirstOnly, LaunchDue, MendDue, CallSame, Breaks
<1>6. Dialling'
  BY <1>1, <1>2, <1>3, <1>4
     DEF Lone, Dialling, Dialing, Waits, Dials, DialOps, LaunchDue, MendDue,
     DialStatus, Barred, OpenOk, Busied, Early, CallSame, Breaks
<1>7. Resting'
  BY <1>1, <1>2, <1>3, <1>4
     DEF Lone, Resting, Rest, LaunchDue, Over, FrameOf, MendDue, OpenOk, Busied,
     Early, Held, Fails, Told, CallSame, Breaks
<1>8. Sending'
  BY <1>1, <1>2, <1>3, <1>4
     DEF Lone, Sending, Busied, Early, Midway, FrameOf, Held, CallSame, Breaks
<1>9. use.continued' => Mended'
  BY <1>1, <1>2, <1>3, <1>4
     DEF Lone, Mended, Unstopped, MendDue, LaunchDue, WillMend, EndTold,
     Settled, CallSame, Breaks, View, FieldsOK, LoneUse, Single, Calm, Resting
<1>10. use.continued' /\ FirstOnly' => Listening'
  BY <1>1, <1>2, <1>3, <1>4
     DEF Lone, Listening, FirstOnly, LaunchDue, Dialing, Waits, Dials, DialOps,
     Fails, Told, FieldsOK, Single, Calm, Dialling
<1> QED
  BY <1>5, <1>6, <1>7, <1>8, <1>9, <1>10 DEF Lone

LEMMA ReadFailsAlone ==
  ASSUME Sound, Alone, Lone, ReadFails
  PROVE  Lone'
<1>1. /\ Sound' /\ View /\ View' /\ EndView /\ EndView' /\ IdleView
      /\ IdleView' /\ FieldsOK /\ FieldsOK' /\ LoneUse
  BY Views, EndViews, TypeSplit, LoneUses, ReadUnchanged, Statuses,
     ReadFailsStep, StepOps
     DEF Sound
<1>2. UNCHANGED <<status, exit, isStop, connected, fd, armed, cmd, peer, retry,
                  recon, attempts, starts, audio, told, mends, use>>
  BY <1>1, ReadUnchanged
     DEF ReadFails, sockVars, bufVars, exitVars, reconVars, histVars, boundVars
<1>3. /\ CallSame /\ Now("work").op = "none" /\ "read" \in armed /\ fd
      /\ status # "Closed" /\ Breaks' /\ Now("work").op' = "close"
      /\ exit # "Cancel"
  BY <1>1, ReadUnchanged, Statuses, ReadFailsStep, StepOps
     DEF ReadFails
<1>4. SessionOver' <=> SessionOver
  BY <1>2, OverKept
<1>5. Calm'
  BY <1>1, <1>2, <1>3, <1>4
     DEF Lone, Calm, FirstOnly, LaunchDue, MendDue, CallSame, Breaks
<1>6. Dialling'
  BY <1>1, <1>2, <1>3, <1>4
     DEF Lone, Dialling, Dialing, Waits, Dials, DialOps, LaunchDue, MendDue,
     DialStatus, Barred, OpenOk, Busied, Early, CallSame, Breaks
<1>7. Resting'
  BY <1>1, <1>2, <1>3, <1>4
     DEF Lone, Resting, Rest, LaunchDue, Over, FrameOf, MendDue, OpenOk, Busied,
     Early, Held, Fails, Told, CallSame, Breaks
<1>8. Sending'
  BY <1>1, <1>2, <1>3, <1>4
     DEF Lone, Sending, Busied, Early, Midway, FrameOf, Held, CallSame, Breaks
<1>9. use.continued' => Mended'
  BY <1>1, <1>2, <1>3, <1>4
     DEF Lone, Mended, Unstopped, MendDue, LaunchDue, WillMend, EndTold,
     Settled, CallSame, Breaks
<1>10. use.continued' /\ FirstOnly' => Listening'
  BY <1>1, <1>2, <1>3, <1>4
     DEF Lone, Listening, FirstOnly, LaunchDue, Dialing, Waits, Dials, DialOps,
     Fails, Told, OpenStatus, CallSame, Breaks, View, FieldsOK, Single, Calm,
     Dialling
<1> QED
  BY <1>5, <1>6, <1>7, <1>8, <1>9, <1>10 DEF Lone

LEMMA RespondAlone ==
  ASSUME Sound, Alone, Lone, Respond
  PROVE  Lone'
<1>1. /\ Sound' /\ View /\ View' /\ EndView /\ EndView' /\ IdleView
      /\ IdleView' /\ FieldsOK /\ FieldsOK' /\ LoneUse
  BY Views, EndViews, TypeSplit, LoneUses, RespondStep, StepOps
     DEF Sound
<1>2. UNCHANGED <<status, exit, isStop, connected, fd, armed, cmd, peer, retry,
                  recon, attempts, starts, audio, told, mends, use>>
  BY <1>1
     DEF Respond, sockVars, bufVars, exitVars, reconVars, histVars, boundVars
<1>3. /\ CallSame /\ Now("work").op = "respond"
      /\ \/ status = "Closed" /\ Now("work").op' = "none"
         \/ /\ status # "Closed" /\ Now("work").op' = "close"
            /\ Breaks'
  BY <1>1, RespondStep, StepOps
     DEF Respond
<1>4. SessionOver' <=> SessionOver
  BY <1>2, OverKept
<1>5. Calm'
  BY <1>1, <1>2, <1>3, <1>4
     DEF Lone, Calm, FirstOnly, LaunchDue, MendDue, CallSame, Breaks
<1>6. Dialling'
  BY <1>1, <1>2, <1>3, <1>4
     DEF Lone, Dialling, Dialing, Waits, Dials, DialOps, LaunchDue, MendDue,
     DialStatus, Barred, OpenOk, Busied, Early, CallSame, Breaks
<1>7. Resting'
  BY <1>1, <1>2, <1>3, <1>4
     DEF Lone, Resting, Rest, LaunchDue, Over, FrameOf, MendDue, OpenOk, Busied,
     Early, Held, Fails, Told, CallSame, Breaks, View, FieldsOK, Single
<1>8. Sending'
  BY <1>1, <1>2, <1>3, <1>4
     DEF Lone, Sending, Busied, Early, Midway, FrameOf, Held, CallSame, Breaks,
     View, FieldsOK, Single
<1>9. use.continued' => Mended'
  BY <1>1, <1>2, <1>3, <1>4
     DEF Lone, Calm, Dialling, Resting, Mended, LaunchDue, MendDue, Waits,
     Dialing, Barred, DialOps, DialStatus, Fails, Told, FrameOf, Unstopped,
     WillMend, EndTold, Settled, EndView, IdleView, Single, CallSame, Breaks,
     View, FieldsOK, LoneUse
<1>10. use.continued' /\ FirstOnly' => Listening'
  BY <1>1, <1>2, <1>3, <1>4
     DEF Lone, Listening, FirstOnly, LaunchDue, Dialing, Waits, Dials, DialOps,
     Fails, Told, OpenStatus, CallSame, Breaks, View, FieldsOK, Single, Calm,
     Dialling
<1> QED
  BY <1>5, <1>6, <1>7, <1>8, <1>9, <1>10 DEF Lone

LEMMA WriteAlone ==
  ASSUME Sound, Alone, Lone, Write
  PROVE  Lone'
<1>1. /\ Sound' /\ View /\ View' /\ EndView /\ EndView' /\ IdleView
      /\ IdleView' /\ FieldsOK /\ FieldsOK' /\ LoneUse
  BY Views, EndViews, TypeSplit, LoneUses, WriteStep, StepOps
     DEF Sound
<1>2. UNCHANGED <<status, exit, isStop, connected, fd, cmd, peer, retry, recon,
                  attempts, starts, audio, told, mends, use>>
  BY <1>1
     DEF Write, sockVars, bufVars, exitVars, reconVars, histVars, boundVars
<1>3. /\ CallSame /\ Now("work").op = "none"
      /\ "write" \in armed /\ armed' = armed \ {"write"}
      /\ \/ /\ exit = "Cancel" /\ Now("work").op' = "close" /\ Closing'
            /\ Ending'
         \/ exit # "Cancel" /\ Now("work").op' = "close" /\ Breaks'
         \/ fd /\ Now("work").op' = "request"
  <2>1. "write" \in armed /\ armed' = armed \ {"write"}
    BY AtWork DEF Write
  <2>2. /\ CallSame /\ Now("work").op = "none"
        /\ \/ /\ exit = "Cancel" /\ Now("work")' = Step("close")
              /\ Closing' /\ Ending'
           \/ exit # "Cancel" /\ Now("work")' = Step("close") /\ Breaks'
           \/ fd /\ Now("work")' = Step("request")
    BY <1>1, WriteStep
  <2> QED
    BY <2>1, <2>2, StepOps
<1>4. SessionOver' <=> SessionOver
  BY <1>2, OverKept
<1>5. Calm'
  BY <1>1, <1>2, <1>3, <1>4
     DEF Lone, Calm, FirstOnly, LaunchDue, MendDue, CallSame, Breaks
<1>6. Dialling'
  BY <1>1, <1>2, <1>3, <1>4
     DEF Lone, Dialling, Dialing, Waits, Dials, DialOps, LaunchDue, MendDue,
     DialStatus, Barred, OpenOk, Busied, Early, CallSame, Breaks
<1>7. Resting'
  BY <1>1, <1>2, <1>3, <1>4
     DEF Lone, Resting, Rest, LaunchDue, Over, FrameOf, MendDue, OpenOk, Busied,
     Early, Held, Fails, Told, CallSame, Breaks, View, FieldsOK, Single
<1>8. Sending'
  BY <1>1, <1>2, <1>3, <1>4
     DEF Lone, Sending, Busied, Early, Midway, FrameOf, Held, CallSame, Breaks,
     View, FieldsOK, Single
<1>9. use.continued' => Mended'
  BY <1>1, <1>2, <1>3, <1>4
     DEF Lone, Calm, Dialling, Resting, Mended, LaunchDue, MendDue, Waits,
     Dialing, Barred, Over, Rest, OpenOk, Early, Busied, Midway, Held, Dials,
     DialOps, DialStatus, Fails, Told, FrameOf, Unstopped, WillMend, EndTold,
     Settled, EndView, IdleView, Single, CallSame, Breaks, View, FieldsOK,
     LoneUse
<1>10. use.continued' /\ FirstOnly' => Listening'
  BY <1>1, <1>2, <1>3, <1>4
     DEF Lone, Listening, FirstOnly, LaunchDue, Dialing, Waits, Dials, DialOps,
     Fails, Told, OpenStatus, CallSame, Breaks, View, FieldsOK, Single, Calm,
     Dialling
<1> QED
  BY <1>5, <1>6, <1>7, <1>8, <1>9, <1>10 DEF Lone

LEMMA FlushAlone ==
  ASSUME Sound, Alone, Lone, Flush
  PROVE  Lone'
<1>1. /\ Sound' /\ View /\ View' /\ EndView /\ EndView' /\ IdleView
      /\ IdleView' /\ FieldsOK /\ FieldsOK' /\ LoneUse
  BY Views, EndViews, TypeSplit, LoneUses, FlushStep, StepOps, Fields
     DEF Sound
<1>2. UNCHANGED <<status, exit, isStop, connected, fd, cmd, peer, retry, recon,
                  attempts, starts, told, mends, use>>
  BY <1>1
     DEF Flush, sockVars, bufVars, exitVars, reconVars, histVars, boundVars
<1>3. /\ CallSame /\ Now("work").op = "flush"
      /\ armed' = armed /\ audio' = audio
      /\ \/ Now("work").op' \in {"none", "control"}
         \/ /\ Breaks'
            /\ \/ Now("work").op' = "check" /\ Now("work").ev' = "TaskFailed"
               \/ Now("work").op' = "close"
  <2>1. \A m : CheckFailed(m).op = "check" /\ CheckFailed(m).ev = "TaskFailed"
    BY Fields
  <2>2. armed' = armed /\ audio' = audio
    BY <1>1 DEF Flush, Lone, Calm, FieldsOK
  <2> QED
    BY <1>1, <2>1, <2>2, FlushStep, StepOps
<1>4. SessionOver' <=> SessionOver
  BY <1>2, OverKept
<1>5. Calm'
  BY <1>1, <1>2, <1>3, <1>4
     DEF Lone, Calm, FirstOnly, LaunchDue, MendDue, CallSame, Breaks
<1>6. Dialling'
  BY <1>1, <1>2, <1>3, <1>4
     DEF Lone, Dialling, Dialing, Waits, Dials, DialOps, LaunchDue, MendDue,
     DialStatus, Barred, OpenOk, Busied, Early, CallSame, Breaks
<1>7. Resting'
  BY <1>1, <1>2, <1>3, <1>4
     DEF Lone, Resting, Rest, LaunchDue, Over, FrameOf, MendDue, OpenOk, Busied,
     Early, Held, Fails, Told, CallSame, Breaks, View, FieldsOK, Single
<1>8. Sending'
  BY <1>1, <1>2, <1>3, <1>4
     DEF Lone, Sending, Busied, Early, Midway, FrameOf, Held, CallSame, Breaks,
     View, FieldsOK, LoneUse, Single
<1>9. use.continued' => Mended'
  BY <1>1, <1>2, <1>3, <1>4
     DEF Lone, Mended, Unstopped, MendDue, LaunchDue, WillMend, EndTold,
     Settled, CallSame, Breaks
<1>10. use.continued' /\ FirstOnly' => Listening'
  BY <1>1, <1>2, <1>3, <1>4
     DEF Lone, Listening, FirstOnly, LaunchDue, Dialing, Waits, Dials, DialOps,
     Fails, Told, OpenStatus, CallSame, Breaks, View, FieldsOK, Single, Calm,
     Dialling
<1> QED
  BY <1>5, <1>6, <1>7, <1>8, <1>9, <1>10 DEF Lone

LEMMA WorkControlAlone ==
  ASSUME Sound, Alone, Lone, Control("work")
  PROVE  Lone'
<1>1. /\ Sound' /\ View /\ View' /\ EndView /\ EndView' /\ IdleView
      /\ IdleView' /\ FieldsOK /\ FieldsOK' /\ LoneUse
  BY Views, EndViews, TypeSplit, LoneUses, WorkControlStep, StepOps, Fields
     DEF Sound
<1>2. UNCHANGED <<status, exit, connected, fd, retry, recon, attempts, starts,
                  audio, told, mends, use>>
  BY <1>1
     DEF Control, sockVars, bufVars, exitVars, reconVars, histVars, boundVars
<1>3. /\ CallSame /\ Now("work").op = "control"
      /\ isStop' = (isStop \/ exit = "Stopping")
      /\ \/ /\ Directive = <<>> /\ UNCHANGED <<cmd, peer, armed>>
            /\ Now("work").op' = "none"
         \/ /\ Directive # <<>> /\ fd /\ cmd' = <<>>
            /\ peer' = Hear(peer, Directive) /\ armed' = armed
            /\ Now("work").op' = "none"
         \/ /\ Directive # <<>> /\ fd /\ cmd' = Directive /\ peer' = peer
            /\ armed' = armed \cup {"write"}
            /\ Now("work").op' = "none"
         \/ /\ Directive # <<>> /\ cmd' = Directive /\ peer' = peer
            /\ armed' = armed /\ Breaks'
            /\ \/ Now("work").op' = "check" /\ Now("work").ev' = "TaskFailed"
               \/ Now("work").op' = "close"
  <2>1. \A m : CheckFailed(m).op = "check" /\ CheckFailed(m).ev = "TaskFailed"
    BY Fields
  <2>2. isStop' = (isStop \/ exit = "Stopping")
    BY DEF Control
  <2> QED
    BY <1>1, <2>1, <2>2, WorkControlStep, StepOps
<1>4. SessionOver' <=> SessionOver
  BY <1>2, OverKept
<1>20. /\ Directive # <<>> =>
            /\ exit = "Stopping" /\ ~isStop /\ isStop' = TRUE
            /\ Directive # <<"start">> /\ (fd => connected)
            /\ Hear(peer, Directive) \in {"stopping", "failed", "lost"}
            /\ Directive = Append(cmd, "stop")
       /\ Directive = <<>> => isStop' = isStop
       /\ connected => fd
  <2>1. /\ status = "Started" /\ exit = "Invalid" => cmd = <<>>
        /\ exit = "Invalid" => ~isStop
        /\ connected => fd
    BY <1>1 DEF Lone, Calm, Sending, FieldsOK
  <2>2. fd => connected
    BY <1>1, <1>3 DEF Lone, Dialling, Dialing, Waits, Barred, Dials, DialOps,
       FieldsOK
  <2>3. /\ Append(cmd, "stop") # <<>> /\ Append(cmd, "stop") # <<"start">>
        /\ Hear(peer, Append(cmd, "stop")) \in {"stopping", "failed", "lost"}
    BY <1>1, HearsAny DEF FieldsOK
  <2> QED
    BY <1>1, <1>3, <2>1, <2>2, <2>3 DEF Directive, FieldsOK
<1>5. Calm'
  BY <1>1, <1>2, <1>3, <1>4, <1>20
     DEF Lone, Calm, FirstOnly, LaunchDue, MendDue, CallSame, Breaks
<1>6. Dialling'
  BY <1>1, <1>2, <1>3, <1>4, <1>20
     DEF Lone, Dialling, Dialing, Waits, Dials, DialOps, LaunchDue, MendDue,
     DialStatus, Barred, OpenOk, Busied, Early, CallSame, Breaks
<1>7. Resting'
  <2>1. CASE Directive = <<>>
    BY <1>1, <1>2, <1>3, <1>20, <2>1
       DEF Lone, Calm, Dialling, Resting, Sending, LaunchDue, MendDue, Over,
       Rest, OpenOk, Early, Busied, Midway, Held, Fails, Told, FrameOf,
       CallSame, Breaks, View
  <2>2. CASE Directive # <<>> /\ Now("work").op' = "none"
    BY <1>1, <1>2, <1>3, <1>20, <2>2
       DEF Lone, Calm, Dialling, Resting, Sending, LaunchDue, MendDue, Over,
       Rest, OpenOk, Early, Busied, Midway, Held, Fails, Told, FrameOf,
       CallSame, Breaks, View
  <2>3. CASE Directive # <<>> /\ Breaks'
    BY <1>1, <1>2, <1>3, <1>20, <2>3
       DEF Lone, Calm, Dialling, Resting, Sending, LaunchDue, MendDue, Over,
       Rest, OpenOk, Early, Busied, Midway, Held, Fails, Told, FrameOf,
       CallSame, Breaks, View
  <2> QED
    BY <1>3, <2>1, <2>2, <2>3
<1>8. Sending'
  <2>1. CASE Directive = <<>>
    BY <1>1, <1>2, <1>3, <1>20, <2>1
       DEF Lone, Sending, Early, Busied, Midway, Held, Told, FrameOf, CallSame,
       Breaks, View
  <2>2. CASE Directive # <<>> /\ Now("work").op' = "none"
    BY <1>1, <1>2, <1>3, <1>20, <2>2
       DEF Lone, Sending, Early, Busied, Midway, Held, Told, FrameOf, CallSame,
       Breaks, View
  <2>3. CASE Directive # <<>> /\ Breaks'
    BY <1>1, <1>2, <1>3, <1>20, <2>3
       DEF Lone, Sending, Early, Busied, Midway, Held, Told, FrameOf, CallSame,
       Breaks, View
  <2> QED
    BY <1>3, <2>1, <2>2, <2>3
<1>9. use.continued' => Mended'
  BY <1>1, <1>2, <1>3, <1>4, <1>20
     DEF Lone, Mended, Unstopped, MendDue, LaunchDue, WillMend, EndTold,
     Settled, CallSame, Breaks
<1>10. use.continued' /\ FirstOnly' => Listening'
  BY <1>1, <1>2, <1>3, <1>4, <1>20
     DEF Lone, Listening, FirstOnly, LaunchDue, Dialing, Waits, Dials, DialOps,
     Fails, Told, OpenStatus, CallSame, Breaks, View, FieldsOK, Single, Calm,
     Dialling
<1> QED
  BY <1>5, <1>6, <1>7, <1>8, <1>9, <1>10 DEF Lone

LEMMA CallControlAlone ==
  ASSUME Sound, Alone, Lone, Control("caller")
  PROVE  Lone'
<1>1. /\ Sound' /\ View /\ View' /\ EndView /\ EndView' /\ IdleView
      /\ IdleView' /\ FieldsOK /\ FieldsOK' /\ LoneUse
  BY Views, EndViews, TypeSplit, LoneUses, CallControlStep, StepOps, Fields
     DEF Sound
<1>2. UNCHANGED <<status, exit, connected, fd, retry, recon, attempts, starts,
                  audio, told, mends, use>>
  BY <1>1
     DEF Control, sockVars, bufVars, exitVars, reconVars, histVars, boundVars
<1>3. /\ WorkSame /\ Now("caller").op = "control"
      /\ isStop' = (isStop \/ exit = "Stopping")
      /\ \/ /\ Directive = <<>> /\ UNCHANGED <<cmd, peer, armed>>
            /\ Now("caller").op' \in {"none", "unlock"}
         \/ /\ Directive # <<>> /\ fd /\ cmd' = <<>>
            /\ peer' = Hear(peer, Directive) /\ armed' = armed
            /\ Now("caller").op' \in {"none", "unlock"}
         \/ /\ Directive # <<>> /\ fd /\ cmd' = Directive /\ peer' = peer
            /\ armed' = armed \cup {"write"}
            /\ Now("caller").op' \in {"none", "unlock"}
         \/ /\ Directive # <<>> /\ cmd' = Directive /\ peer' = peer
            /\ armed' = armed /\ Now("caller").op' = "disconnect"
  BY <1>1, CallControlStep, StepOps, Fields
     DEF Control
<1>4. SessionOver' <=> SessionOver
  BY <1>2, OverKept
<1>20. /\ Directive # <<>> =>
            /\ exit = "Stopping" /\ ~isStop /\ isStop' = TRUE
            /\ Directive # <<"start">> /\ (fd => connected)
            /\ Hear(peer, Directive) \in {"stopping", "failed", "lost"}
            /\ Directive = Append(cmd, "stop")
       /\ Directive = <<>> => isStop' = isStop
       /\ connected => fd
  <2>1. /\ status = "Started" /\ exit = "Invalid" => cmd = <<>>
        /\ exit = "Invalid" => ~isStop
        /\ connected => fd
    BY <1>1 DEF Lone, Calm, Sending, FieldsOK
  <2>2. fd => connected
    BY <1>1, <1>3 DEF Lone, Dialling, Dialing, Waits, Barred, Dials, DialOps,
       FieldsOK
  <2>3. /\ Append(cmd, "stop") # <<>> /\ Append(cmd, "stop") # <<"start">>
        /\ Hear(peer, Append(cmd, "stop")) \in {"stopping", "failed", "lost"}
    BY <1>1, HearsAny DEF FieldsOK
  <2> QED
    BY <1>1, <1>3, <2>1, <2>2, <2>3 DEF Directive, FieldsOK
<1>5. Calm'
  BY <1>1, <1>2, <1>3, <1>4, <1>20
     DEF Lone, Calm, FirstOnly, LaunchDue, MendDue, WorkSame
<1>6. Dialling'
  BY <1>1, <1>2, <1>3, <1>4, <1>20
     DEF Lone, Dialling, Dialing, Waits, Dials, DialOps, LaunchDue, MendDue,
     DialStatus, Barred, OpenOk, Busied, Early, WorkSame
<1>7. Resting'
  <2>1. CASE Directive = <<>>
    BY <1>1, <1>2, <1>3, <1>20, <2>1
       DEF Lone, Resting, LaunchDue, MendDue, Over, Rest, OpenOk, Early, Busied,
       Held, Fails, Told, FrameOf, WorkSame, View
  <2>2. CASE Directive # <<>>
    <3>1. /\ ~isStop /\ Held /\ Held' = FALSE /\ isStop' = TRUE
      BY <1>3, <1>20, <2>2 DEF Held
    <3> QED
    BY <1>1, <1>2, <1>3, <1>20, <2>2, <3>1
       DEF Lone, Resting, LaunchDue, MendDue, Over, Rest, OpenOk, Early, Busied,
       Fails, Told, FrameOf, WorkSame, View
  <2> QED
    BY <2>1, <2>2
<1>8. Sending'
  <2>1. CASE Directive = <<>>
    BY <1>1, <1>2, <1>3, <1>20, <2>1
       DEF Lone, Sending, Early, Busied, Midway, Held, Told, FrameOf, WorkSame,
       View
  <2>2. CASE Directive # <<>>
    <3>1. /\ ~isStop /\ Held /\ Held' = FALSE /\ isStop' = TRUE
      BY <1>3, <1>20, <2>2 DEF Held
    <3> QED
    BY <1>1, <1>2, <1>3, <1>20, <2>2, <3>1
       DEF Lone, Sending, Early, Busied, Midway, Told, FrameOf, WorkSame, View
  <2> QED
    BY <2>1, <2>2
<1>9. use.continued' => Mended'
  BY <1>1, <1>2, <1>3, <1>4, <1>20
     DEF Lone, Mended, Unstopped, MendDue, LaunchDue, WillMend, EndTold,
     Settled, WorkSame
<1>10. use.continued' /\ FirstOnly' => Listening'
  BY <1>1, <1>2, <1>3, <1>4, <1>20
     DEF Lone, Listening, FirstOnly, LaunchDue, Dialing, Waits, Dials, DialOps,
     Fails, Told, OpenStatus, WorkSame
<1> QED
  BY <1>5, <1>6, <1>7, <1>8, <1>9, <1>10 DEF Lone

LEMMA WorkCheckAlone ==
  ASSUME Sound, Alone, Lone, Check("work")
  PROVE  Lone'
<1>1. /\ Sound' /\ View /\ View' /\ EndView /\ EndView' /\ IdleView
      /\ IdleView' /\ FieldsOK /\ FieldsOK' /\ LoneUse
  BY Views, EndViews, TypeSplit, LoneUses, WorkCheckStep
     DEF Sound
<1>2. UNCHANGED <<status, exit, isStop, connected, fd, armed, cmd, peer, retry,
                  recon, attempts, starts, audio, told, mends, use>>
  BY <1>1
     DEF Check, sockVars, bufVars, exitVars, reconVars, histVars, boundVars
<1>3. /\ CallSame /\ Now("work").op = "check"
      /\ \/ (exit = "Cancel" \/ status = "Closed") /\ WorkDone
         \/ /\ exit # "Cancel" /\ status # "Closed" /\ (Closing' <=> Closing)
            /\ Coming' = Coming /\ Coming.op # "set"
            /\ Now("work").op' = "tell" /\ Now("work").ev' = Now("work").ev
  BY <1>1, WorkCheckStep
     DEF Check
<1>4. SessionOver' <=> SessionOver
  BY <1>2, OverKept
<1>5. Calm'
  BY <1>1, <1>2, <1>3, <1>4, StepOps
     DEF Lone, Calm, FirstOnly, LaunchDue, MendDue, CallSame, WorkDone, Closes
<1>6. Dialling'
  <2>1. Waits = {}
    BY <1>3 DEF Lone, Dialling
  <2>2. Waits' = Waits
    BY <1>2 DEF Waits
  <2>3. Now("work").op' \in {"none", "close", "destroy", "respond", "check",
                            "set", "tell"}
    BY <1>1, <1>3, StepOps DEF WorkDone, Told, View, UserEvents
  <2>4. ~Dialing'
    BY <2>1, <2>2, <2>3 DEF Dialing, DialOps
  <2>5. ~(fd /\ ~connected)
    BY <1>3, <2>1 DEF Lone, Dialling, Waits, Dials
  <2> QED
    BY <1>2, <2>1, <2>2, <2>3, <2>4, <2>5 DEF Lone, Dialling, Waits, Dials
<1>7. Resting'
  BY <1>1, <1>2, <1>3, <1>4, StepOps
     DEF Lone, Resting, Rest, LaunchDue, Over, FrameOf, MendDue, OpenOk, Busied,
     Early, Held, Fails, Told, CallSame, WorkDone, Closes, View, FieldsOK,
     Single, Calm, Dialling, Dialing, Waits, Dials, DialOps
<1>8. Sending'
  BY <1>1, <1>2, <1>3, <1>4, StepOps
     DEF Lone, Sending, Busied, Early, Midway, FrameOf, Held, CallSame,
     WorkDone, Closes, View, FieldsOK, Single
<1>9. use.continued' => Mended'
  BY <1>1, <1>2, <1>3, <1>4, StepOps
     DEF Lone, Mended, Unstopped, MendDue, LaunchDue, WillMend, EndTold,
     Settled, CallSame, WorkDone, Closes, View, FieldsOK, LoneUse, Single
<1>10. use.continued' /\ FirstOnly' => Listening'
  BY <1>1, <1>2, <1>3, <1>4, StepOps
     DEF Lone, Listening, FirstOnly, LaunchDue, Dialing, Waits, Dials, DialOps,
     Fails, Told, OpenStatus, CallSame, WorkDone, Closes, View, FieldsOK, Single
<1> QED
  BY <1>5, <1>6, <1>7, <1>8, <1>9, <1>10 DEF Lone

LEMMA CallCheckAlone ==
  ASSUME Sound, Alone, Lone, Check("caller")
  PROVE  Lone'
<1>1. /\ Sound' /\ View /\ View' /\ EndView /\ EndView' /\ IdleView
      /\ IdleView' /\ FieldsOK /\ FieldsOK' /\ LoneUse
  BY Views, EndViews, TypeSplit, LoneUses, CallCheckStep
     DEF Sound
<1>2. UNCHANGED <<status, exit, isStop, connected, fd, armed, cmd, peer, retry,
                  recon, attempts, starts, audio, told, mends, use>>
  BY <1>1
     DEF Check, sockVars, bufVars, exitVars, reconVars, histVars, boundVars
<1>3. /\ WorkSame /\ Now("caller").op = "check"
      /\ \/ (exit = "Cancel" \/ status = "Closed") /\ CallDone
         \/ /\ exit # "Cancel" /\ status # "Closed"
            /\ Now("caller").op' = "tell"
            /\ Now("caller").ev' = Now("caller").ev
  BY <1>1, CallCheckStep
     DEF Check
<1>4. SessionOver' <=> SessionOver
  BY <1>2, OverKept
<1>5. Calm'
  BY <1>1, <1>2, <1>3, <1>4, StepOps
     DEF Lone, Calm, FirstOnly, LaunchDue, MendDue, WorkSame, CallDone
<1>6. Dialling'
  BY <1>1, <1>2, <1>3, <1>4, StepOps
     DEF Lone, Dialling, Dialing, Waits, Dials, DialOps, LaunchDue, MendDue,
     DialStatus, Barred, OpenOk, Busied, Early, WorkSame, CallDone
<1>7. Resting'
  BY <1>1, <1>2, <1>3, <1>4, StepOps
     DEF Lone, Resting, Rest, LaunchDue, Over, FrameOf, MendDue, OpenOk, Busied,
     Early, Held, Fails, Told, WorkSame, CallDone
<1>8. Sending'
  BY <1>1, <1>2, <1>3, <1>4, StepOps
     DEF Lone, Sending, Busied, Early, Midway, FrameOf, Held, WorkSame,
     CallDone, View, FieldsOK, Single
<1>9. use.continued' => Mended'
  BY <1>1, <1>2, <1>3, <1>4, StepOps
     DEF Lone, Mended, Unstopped, MendDue, LaunchDue, WillMend, EndTold,
     Settled, WorkSame, CallDone
<1>10. use.continued' /\ FirstOnly' => Listening'
  BY <1>1, <1>2, <1>3, <1>4, StepOps
     DEF Lone, Listening, FirstOnly, LaunchDue, Dialing, Waits, Dials, DialOps,
     Fails, Told, OpenStatus, WorkSame, CallDone
<1> QED
  BY <1>5, <1>6, <1>7, <1>8, <1>9, <1>10 DEF Lone

LEMMA WorkTellAlone ==
  ASSUME Sound, Alone, Lone, Tell("work")
  PROVE  Lone'
<1>1. /\ Sound' /\ View /\ View' /\ EndView /\ EndView' /\ IdleView
      /\ IdleView' /\ FieldsOK /\ FieldsOK' /\ LoneUse
  BY Views, EndViews, TypeSplit, LoneUses, WorkTellStep, TellCases
     DEF Sound
<1>2. UNCHANGED <<status, exit, isStop, connected, fd, armed, cmd, peer, retry,
                  attempts, starts, audio, mends, use>>
  BY <1>1
     DEF Tell, sockVars, bufVars, exitVars, reconVars, histVars, boundVars
<1>3. /\ CallSame /\ Now("work").op = "tell"
      /\ (Closing' <=> Closing) /\ Now("work").op' = "after"
      /\ Now("work").ev' = Now("work").ev
      /\ Coming' = Coming
      /\ TellCase("work")
  BY <1>1, WorkTellStep, TellCases DEF Threads
<1>4. Calm'
  <2>1. ~use.continued => recon' = recon
    BY <1>3 DEF TellCase
  <2>2. ~(starts = 0 \/ (FirstOnly /\ LaunchDue))
    BY <1>3 DEF Lone, Calm
  <2> QED
    BY <1>2, <1>3, <2>1, <2>2
       DEF Lone, Calm, LaunchDue, MendDue, FirstOnly, CallSame
<1>5. Dialling'
  BY <1>1, <1>2, <1>3, StepOps
     DEF Lone, Dialling, Dialing, Waits, Dials, DialOps, LaunchDue, MendDue,
     DialStatus, Barred, OpenOk, Busied, Early, CallSame, TellCase
<1>6. Resting'
  BY <1>2, <1>3
     DEF Lone, Resting, LaunchDue, MendDue, Over, Rest, OpenOk, Early, Busied,
     Held, Fails, Told, FrameOf, CallSame
<1>7. Sending'
  BY <1>2, <1>3
     DEF Lone, Sending, Early, Busied, Midway, Held, Told, FrameOf, CallSame
<1>8. use.continued' => Mended'
  <2> SUFFICES ASSUME use.continued' PROVE Mended'
    OBVIOUS
  <2>1. /\ Mended /\ use.continued
        /\ Unstopped => ~SessionOver /\ ~MendDue /\ ~LaunchDue
    BY <1>2, <1>3 DEF Lone, Mended, EndTold, Settled
  <2>2. (MendDue' <=> MendDue) /\ (LaunchDue' <=> LaunchDue)
    BY <1>2 DEF MendDue, LaunchDue
  <2>3. EndTold' <=> Now("work").ev = "Close" /\ ~Now("work").flag'
    BY <1>3 DEF EndTold
  <2>4. SessionOver' =>
          SessionOver \/ (Now("work").ev = "Close" /\ ~Now("work").flag')
    BY <1>3 DEF TellCase
  <2> QED
    BY <1>1, <1>2, <1>3, <2>1, <2>2, <2>3, <2>4
       DEF Mended, Unstopped, WillMend, CallSame, TellCase, LoneUse
<1>9. use.continued' /\ FirstOnly' => Listening'
  BY <1>2, <1>3
     DEF Lone, Listening, FirstOnly, LaunchDue, Dialing, Waits, Dials, DialOps,
     Fails, Told, OpenStatus, CallSame
<1> QED
  BY <1>4, <1>5, <1>6, <1>7, <1>8, <1>9 DEF Lone

LEMMA CallTellAlone ==
  ASSUME Sound, Alone, Lone, Tell("caller")
  PROVE  Lone'
<1>1. /\ Sound' /\ View /\ View' /\ EndView /\ EndView' /\ IdleView
      /\ IdleView' /\ FieldsOK /\ FieldsOK' /\ LoneUse
  BY Views, EndViews, TypeSplit, LoneUses, CallTellStep, TellCases
     DEF Sound
<1>2. UNCHANGED <<status, exit, isStop, connected, fd, armed, cmd, peer, retry,
                  attempts, starts, audio, mends, use>>
  BY <1>1
     DEF Tell, sockVars, bufVars, exitVars, reconVars, histVars, boundVars
<1>3. /\ WorkSame /\ Now("caller").op = "tell"
      /\ Now("caller").op' = "after" /\ Now("caller").ev' = Now("caller").ev
      /\ TellCase("caller")
  BY <1>1, CallTellStep, TellCases DEF Threads
<1>4. Calm'
  BY <1>1, <1>2, <1>3, StepOps
     DEF Lone, Calm, FirstOnly, LaunchDue, MendDue, WorkSame, TellCase
<1>5. Dialling'
  BY <1>1, <1>2, <1>3, StepOps
     DEF Lone, Dialling, Dialing, Waits, Dials, DialOps, LaunchDue, MendDue,
     DialStatus, Barred, OpenOk, Busied, Early, WorkSame, TellCase
<1>6. Resting'
  BY <1>1, <1>2, <1>3, StepOps
     DEF Lone, Resting, Rest, LaunchDue, Over, FrameOf, MendDue, OpenOk, Busied,
     Early, Held, Fails, Told, WorkSame, TellCase
<1>7. Sending'
  BY <1>1, <1>2, <1>3, StepOps
     DEF Lone, Sending, Busied, Early, Midway, FrameOf, Held, WorkSame, TellCase
<1>8. use.continued' => Mended'
  BY <1>1, <1>2, <1>3, StepOps
     DEF Lone, Mended, Unstopped, MendDue, LaunchDue, WillMend, EndTold,
     Settled, WorkSame, TellCase
<1>9. use.continued' /\ FirstOnly' => Listening'
  BY <1>1, <1>2, <1>3, StepOps
     DEF Lone, Listening, FirstOnly, LaunchDue, Dialing, Waits, Dials, DialOps,
     Fails, Told, OpenStatus, WorkSame, TellCase
<1> QED
  BY <1>4, <1>5, <1>6, <1>7, <1>8, <1>9 DEF Lone

LEMMA WorkAfterCloseAlone ==
  ASSUME Sound, Alone, Lone, AfterClose("work")
  PROVE  Lone'
<1>1. /\ Sound' /\ View /\ View' /\ EndView /\ EndView' /\ IdleView
      /\ IdleView' /\ FieldsOK /\ FieldsOK' /\ LoneUse
  BY Views, EndViews, TypeSplit, LoneUses, WorkAfterCloseStep
     DEF Sound
<1>2. UNCHANGED <<exit, isStop, connected, fd, cmd, peer, attempts, starts,
                  audio, told, mends, use>>
  BY <1>1
     DEF AfterClose, sockVars, bufVars, exitVars, reconVars, histVars, boundVars
<1>3. /\ CallSame /\ WorkDone
      /\ Now("work").op = "after" /\ Now("work").ev = "Close"
      /\ status' = "Closed" /\ retry' = 0
      /\ recon' = [state |-> IF recon.state = "WillReconnect"
                             THEN "TriggerReconnection" ELSE recon.state,
                   count |-> IF Now("work").flag THEN recon.count ELSE 0]
      /\ armed' = IF recon.state = "WillReconnect"
                  THEN armed \cup {"reconnect"} ELSE armed
  BY <1>1, WorkAfterCloseStep
     DEF AfterClose
<1>4. SessionOver' <=> SessionOver
  BY <1>2, OverKept
<1>5. Calm'
  BY <1>1, <1>2, <1>3, <1>4, StepOps
     DEF Lone, Calm, FirstOnly, LaunchDue, MendDue, CallSame, WorkDone, Closes
<1>6. Dialling'
  BY SMTT(30), <1>1, <1>2, <1>3, <1>4, StepOps
     DEF Lone, Calm, Dialling, Resting, Sending, LaunchDue, MendDue, Waits,
     Dialing, Barred, Over, Rest, OpenOk, Early, Busied, Midway, Held, Dials,
     DialOps, DialStatus, Fails, Told, FrameOf, Single, CallSame, WorkDone,
     Closes, View, FieldsOK
<1>7. Resting'
  <2>1. recon.state = "WillReconnect" => ~LaunchDue
    <3>1. CASE ~use.continued
      BY <3>1 DEF Lone, Calm
    <3>2. CASE use.continued /\ FirstOnly
      BY <1>3, <3>2 DEF Lone, Calm
    <3>3. CASE use.continued /\ ~FirstOnly
      <4>1. Unstopped
        BY <1>1, <3>3 DEF LoneUse, Lone, Calm, Unstopped
      <4> QED
        BY <1>3, <3>3, <4>1 DEF Lone, Mended, EndTold, WillMend
    <3> QED
      BY <3>1, <3>2, <3>3
  <2>2. /\ LaunchDue' => LaunchDue
        /\ LaunchDue' => recon.state # "WillReconnect"
        /\ MendDue' => MendDue \/ recon.state = "WillReconnect"
        /\ "write" \in armed' => "write" \in armed
    BY <1>3, <2>1 DEF LaunchDue, MendDue
  <2>3. MendDue' => ~LaunchDue'
    BY <2>1, <2>2 DEF Lone, Resting
  <2>4. /\ (Closing' <=> Closing) /\ CallSame
        /\ Now("work").op' \in {"none", "close", "destroy", "respond"}
    BY <1>3 DEF WorkDone, Closes, Told, CallSame
  <2>5. Fails("work")
    BY <1>3 DEF Fails, Told
  <2> QED
    BY <1>2, <1>3, <2>2, <2>3, <2>4, <2>5
       DEF Lone, Resting, Over, Rest, OpenOk, Early, Busied, Held, Fails, Told,
       FrameOf, CallSame
<1>8. Sending'
  BY <1>1, <1>2, <1>3, <1>4, StepOps
     DEF Lone, Sending, Busied, Early, Midway, FrameOf, Held, CallSame,
     WorkDone, Closes, View, FieldsOK, Single
<1>9. use.continued' => Mended'
  BY <1>1, <1>2, <1>3, <1>4, StepOps
     DEF Lone, Mended, Unstopped, MendDue, LaunchDue, WillMend, EndTold,
     Settled, CallSame, WorkDone, Closes, View, FieldsOK, LoneUse, Single
<1>10. use.continued' /\ FirstOnly' => Listening'
  BY <1>1, <1>2, <1>3, <1>4, StepOps
     DEF Lone, Calm, Dialling, Resting, Sending, Listening, LaunchDue, MendDue,
     Waits, Dialing, Dials, DialOps, DialStatus, Fails, Told, FrameOf,
     FirstOnly, OpenStatus
<1> QED
  BY <1>5, <1>6, <1>7, <1>8, <1>9, <1>10 DEF Lone

LEMMA CallAfterCloseAlone ==
  ASSUME Sound, Alone, Lone, AfterClose("caller")
  PROVE  Lone'
<1>1. /\ Sound' /\ View /\ View' /\ EndView /\ EndView' /\ IdleView
      /\ IdleView' /\ FieldsOK /\ FieldsOK' /\ LoneUse
  BY Views, EndViews, TypeSplit, LoneUses, CallAfterCloseStep
     DEF Sound
<1>2. UNCHANGED <<exit, isStop, connected, fd, cmd, peer, attempts, starts,
                  audio, told, mends, use>>
  BY <1>1
     DEF AfterClose, sockVars, bufVars, exitVars, reconVars, histVars, boundVars
<1>3. /\ CallDone
      /\ Now("caller").op = "after" /\ Now("caller").ev = "Close"
      /\ status' = "Closed" /\ retry' = 0
      /\ recon' = [state |-> IF recon.state = "WillReconnect"
                             THEN "TriggerReconnection" ELSE recon.state,
                   count |-> IF Now("caller").flag THEN recon.count ELSE 0]
      /\ armed' = IF recon.state = "WillReconnect"
                  THEN armed \cup {"reconnect"} ELSE armed
  BY <1>1, CallAfterCloseStep
     DEF AfterClose
<1>4. SessionOver' <=> SessionOver
  BY <1>2, OverKept
<1>5. Calm'
  BY <1>1, <1>2, <1>3, <1>4, StepOps
     DEF Lone, Calm, FirstOnly, LaunchDue, MendDue, WorkSame, CallDone
<1>6. Dialling'
  BY <1>1, <1>2, <1>3, <1>4, StepOps
     DEF Lone, Dialling, Dialing, Waits, Dials, DialOps, LaunchDue, MendDue,
     DialStatus, Barred, OpenOk, Busied, Early, WorkSame, CallDone
<1>7. Resting'
  <2>1. recon.state = "WillReconnect" => ~LaunchDue
    <3>1. CASE ~use.continued
      BY <3>1 DEF Lone, Calm
    <3>2. CASE use.continued /\ FirstOnly
      BY <1>3, <3>2 DEF Lone, Calm
    <3>3. CASE use.continued /\ ~FirstOnly
      <4>1. Unstopped
        BY <1>1, <3>3 DEF LoneUse, Lone, Calm, Unstopped
      <4> QED
        BY <1>3, <3>3, <4>1 DEF Lone, Mended, EndTold, WillMend
    <3> QED
      BY <3>1, <3>2, <3>3
  <2>2. /\ LaunchDue' => LaunchDue
        /\ LaunchDue' => recon.state # "WillReconnect"
        /\ MendDue' => MendDue \/ recon.state = "WillReconnect"
        /\ "write" \in armed' => "write" \in armed
    BY <1>3, <2>1 DEF LaunchDue, MendDue
  <2>3. MendDue' => ~LaunchDue'
    BY <2>1, <2>2 DEF Lone, Resting
  <2>4. WorkSame /\ Now("caller").op' \in {"none", "unlock"}
    BY <1>3 DEF CallDone, Told
  <2>5. /\ Now("work").op # "start" /\ ~FrameOf("Started") /\ ~fd
        /\ ~FrameOf("Completed")
    BY <1>3 DEF Lone, Sending, Resting, Told
  <2> QED
    BY <1>2, <1>3, <2>2, <2>3, <2>4, <2>5
       DEF Lone, Resting, Over, Rest, OpenOk, Early, Busied, Held, Fails, Told,
       FrameOf, WorkSame
<1>8. Sending'
  BY <1>1, <1>2, <1>3, <1>4, StepOps
     DEF Lone, Sending, Busied, Early, Midway, FrameOf, Held, WorkSame,
     CallDone, View, FieldsOK, Single
<1>9. use.continued' => Mended'
  BY <1>1, <1>2, <1>3, <1>4, StepOps
     DEF Lone, Mended, Unstopped, MendDue, LaunchDue, WillMend, EndTold,
     Settled, WorkSame, CallDone
<1>10. use.continued' /\ FirstOnly' => Listening'
  BY <1>1, <1>2, <1>3, <1>4, StepOps
     DEF Lone, Calm, Dialling, Resting, Sending, Listening, LaunchDue, MendDue,
     Waits, OpenStatus, EndView, IdleView, Single, CallDone, WorkSame, View,
     FieldsOK
<1> QED
  BY <1>5, <1>6, <1>7, <1>8, <1>9, <1>10 DEF Lone

LEMMA WorkAfterOtherAlone ==
  ASSUME Sound, Alone, Lone, AfterOther("work")
  PROVE  Lone'
<1>1. /\ Sound' /\ View /\ View' /\ EndView /\ EndView' /\ IdleView
      /\ IdleView' /\ FieldsOK /\ FieldsOK' /\ LoneUse
  BY Views, EndViews, TypeSplit, LoneUses, WorkAfterOtherStep
     DEF Sound
<1>2. UNCHANGED <<status, exit, isStop, connected, fd, armed, cmd, peer, retry,
                  recon, attempts, starts, audio, told, mends, use>>
  BY <1>1
     DEF AfterOther, sockVars, bufVars, exitVars, reconVars, histVars, boundVars
<1>3. /\ CallSame /\ WorkDone
      /\ Now("work").op = "after"
      /\ Now("work").ev \in {"Started", "TaskFailed", "Completed"}
  BY <1>1, WorkAfterOtherStep
     DEF AfterOther
<1>4. SessionOver' <=> SessionOver
  BY <1>2, OverKept
<1>5. Calm'
  BY <1>1, <1>2, <1>3, <1>4, StepOps
     DEF Lone, Calm, FirstOnly, LaunchDue, MendDue, CallSame, WorkDone, Closes
<1>6. Dialling'
  BY <1>1, <1>2, <1>3, <1>4, StepOps
     DEF Lone, Dialling, Dialing, Waits, Dials, DialOps, OpenOk, Busied, Early,
     CallSame, WorkDone, Closes, View, FieldsOK, Single
<1>7. Resting'
  BY <1>1, <1>2, <1>3, <1>4, StepOps
     DEF Lone, Resting, Rest, LaunchDue, Over, FrameOf, MendDue, OpenOk, Busied,
     Early, Held, Fails, Told, CallSame, WorkDone, Closes
<1>8. Sending'
  BY <1>1, <1>2, <1>3, <1>4, StepOps
     DEF Lone, Sending, Busied, Early, Midway, FrameOf, Held, CallSame,
     WorkDone, Closes, View, FieldsOK, LoneUse, Single
<1>9. use.continued' => Mended'
  BY <1>1, <1>2, <1>3, <1>4, StepOps
     DEF Lone, Mended, Unstopped, MendDue, LaunchDue, WillMend, EndTold,
     Settled, CallSame, WorkDone, Closes, View, FieldsOK, LoneUse, Single, Calm,
     Resting, Dialing, Waits, Dials, DialOps
<1>10. use.continued' /\ FirstOnly' => Listening'
  <2> SUFFICES ASSUME use.continued', FirstOnly' PROVE Listening'
    OBVIOUS
  <2>1. Listening /\ ~Dialing
    BY <1>2, <1>3 DEF Lone, FirstOnly, CallSame, Dialling, Dialing, DialOps
  <2>2. /\ (Closing' <=> Closing) /\ CallSame
        /\ Now("work").op' = "close" => ~Ending'
        /\ Now("work").op' \in {"check", "close", "set"}
        /\ Now("work").ev = "TaskFailed" /\ ~Closing =>
             Now("work").op' = "check" /\ Now("work").ev' = "Close"
    BY <1>3, StepOps DEF WorkDone, Closes, Told, CallSame
  <2>3. Now("work").ev # "Close" /\ (Fails("caller")' <=> Fails("caller"))
    BY <1>3, <2>2 DEF CallSame, Fails
  <2>4. Fails("work") /\ ~Closing => Fails("work")' /\ ~Closing'
    BY <2>2, <2>3 DEF Fails, Told
  <2>5. /\ Dialing' => Now("work").op' # "dns"
        /\ LaunchDue' = LaunchDue
    BY <1>2, <2>2 DEF LaunchDue
  <2> QED
    BY <1>2, <2>1, <2>2, <2>3, <2>4, <2>5 DEF Listening, OpenStatus
<1> QED
  BY <1>5, <1>6, <1>7, <1>8, <1>9, <1>10 DEF Lone

LEMMA CallAfterOtherAlone ==
  ASSUME Sound, Alone, Lone, AfterOther("caller")
  PROVE  Lone'
<1>1. /\ Sound' /\ View /\ View' /\ EndView /\ EndView' /\ IdleView
      /\ IdleView' /\ FieldsOK /\ FieldsOK' /\ LoneUse
  BY Views, EndViews, TypeSplit, LoneUses, CallAfterOtherStep
     DEF Sound
<1>2. UNCHANGED <<status, exit, isStop, connected, fd, armed, cmd, peer, retry,
                  recon, attempts, starts, audio, told, mends, use>>
  BY <1>1
     DEF AfterOther, sockVars, bufVars, exitVars, reconVars, histVars, boundVars
<1>3. /\ CallDone
      /\ Now("caller").op = "after" /\ Now("caller").ev = "TaskFailed"
  BY <1>1, CallAfterOtherStep
     DEF AfterOther
<1>4. SessionOver' <=> SessionOver
  BY <1>2, OverKept
<1>5. Calm'
  BY <1>1, <1>2, <1>3, <1>4, StepOps
     DEF Lone, Calm, FirstOnly, LaunchDue, MendDue, WorkSame, CallDone
<1>6. Dialling'
  BY <1>1, <1>2, <1>3, <1>4, StepOps
     DEF Lone, Dialling, Dialing, Waits, Dials, DialOps, LaunchDue, MendDue,
     DialStatus, Barred, OpenOk, Busied, Early, WorkSame, CallDone
<1>7. Resting'
  BY <1>1, <1>2, <1>3, <1>4, StepOps
     DEF Lone, Resting, Rest, LaunchDue, Over, FrameOf, MendDue, OpenOk, Busied,
     Early, Held, Fails, Told, WorkSame, CallDone
<1>8. Sending'
  BY <1>1, <1>2, <1>3, <1>4, StepOps
     DEF Lone, Sending, Busied, Early, Midway, FrameOf, Held, WorkSame,
     CallDone, View, FieldsOK, Single
<1>9. use.continued' => Mended'
  BY <1>1, <1>2, <1>3, <1>4, StepOps
     DEF Lone, Mended, Unstopped, MendDue, LaunchDue, WillMend, EndTold,
     Settled, WorkSame, CallDone
<1>10. use.continued' /\ FirstOnly' => Listening'
  BY <1>1, <1>2, <1>3, <1>4, StepOps
     DEF Lone, Listening, FirstOnly, LaunchDue, Dialing, Waits, Dials, DialOps,
     Fails, Told, OpenStatus, WorkSame, CallDone
<1> QED
  BY <1>5, <1>6, <1>7, <1>8, <1>9, <1>10 DEF Lone

LEMMA SetStartedAlone ==
  ASSUME Sound, Alone, Lone, SetStarted
  PROVE  Lone'
<1>1. /\ Sound' /\ View /\ View' /\ EndView /\ EndView' /\ IdleView
      /\ IdleView' /\ FieldsOK /\ FieldsOK' /\ LoneUse
  BY Views, EndViews, TypeSplit, LoneUses, SetStartedStep
     DEF Sound
<1>2. UNCHANGED <<exit, isStop, connected, fd, armed, cmd, peer, retry,
                  attempts, starts, audio, told, mends, use>>
  BY <1>1
     DEF SetStarted, FieldsOK, sockVars, bufVars, exitVars, reconVars, histVars,
     boundVars
<1>3. /\ CallSame /\ Now("work").op = "set"
      /\ Now("work").ev = "Started" /\ (Closing' <=> Closing)
      /\ status' = "Started"
      /\ recon'.state = "NoReconnection" /\ recon'.count = recon.count
      /\ Now("work").op' \in {"none", "flush"}
  BY <1>1, SetStartedStep
     DEF SetStarted, FieldsOK
<1>4. SessionOver' <=> SessionOver
  BY <1>2, OverKept
<1>5. Calm'
  BY <1>1, <1>2, <1>3, <1>4
     DEF Lone, Calm, FirstOnly, LaunchDue, MendDue, CallSame
<1>6. Dialling'
  BY <1>1, <1>2, <1>3, <1>4
     DEF Lone, Dialling, Dialing, Waits, Dials, DialOps, LaunchDue, MendDue,
     DialStatus, Barred, OpenOk, Busied, Early, CallSame
<1>7. Resting'
  BY <1>1, <1>2, <1>3, <1>4
     DEF Lone, Resting, Rest, LaunchDue, Over, FrameOf, MendDue, OpenOk, Busied,
     Early, Held, Fails, Told, CallSame
<1>8. Sending'
  BY <1>1, <1>2, <1>3, <1>4
     DEF Lone, Sending, Busied, Early, Midway, FrameOf, Held, CallSame
<1>9. use.continued' => Mended'
  BY <1>1, <1>2, <1>3, <1>4
     DEF Lone, Mended, Unstopped, MendDue, LaunchDue, WillMend, EndTold,
     Settled, CallSame
<1>10. use.continued' /\ FirstOnly' => Listening'
  BY <1>1, <1>2, <1>3, <1>4
     DEF Lone, Calm, Dialling, Resting, Sending, Listening, LaunchDue, MendDue,
     Waits, Dialing, Barred, Over, Rest, OpenOk, Early, Busied, Midway, Held,
     Dials, DialOps, DialStatus, Fails, Told, FrameOf, FirstOnly
<1> QED
  BY <1>5, <1>6, <1>7, <1>8, <1>9, <1>10 DEF Lone

LEMMA SetEndedAlone ==
  ASSUME Sound, Alone, Lone, SetEnded
  PROVE  Lone'
<1>1. /\ Sound' /\ View /\ View' /\ EndView /\ EndView' /\ IdleView
      /\ IdleView' /\ FieldsOK /\ FieldsOK' /\ LoneUse
  BY Views, EndViews, TypeSplit, LoneUses, SetEndedStep, StepOps, Fields
     DEF Sound
<1>2. UNCHANGED <<exit, isStop, connected, fd, armed, cmd, peer, retry, recon,
                  attempts, starts, audio, told, mends, use>>
  BY <1>1
     DEF SetEnded, sockVars, bufVars, exitVars, reconVars, histVars, boundVars
<1>3. /\ CallSame /\ Now("work").op = "set"
      /\ Now("work").ev \in {"TaskFailed", "Completed"}
      /\ status' = IF Now("work").ev = "TaskFailed" THEN "Failed"
                   ELSE "Completed"
      /\ IF Now("work").ev = "TaskFailed" \/ ~use.long
           THEN Now("work").op' = "close" /\ Breaks'
           ELSE Now("work").op' = "check" /\ Now("work").ev' = "Close"
  BY <1>1, SetEndedStep, StepOps, Fields
     DEF SetEnded
<1>4. SessionOver' <=> SessionOver
  BY <1>2, OverKept
<1>5. Calm'
  BY <1>1, <1>2, <1>3, <1>4, StepOps
     DEF Lone, Calm, FirstOnly, LaunchDue, MendDue, CallSame, Breaks
<1>6. Dialling'
  BY <1>1, <1>2, <1>3, <1>4, StepOps
     DEF Lone, Dialling, Dialing, Waits, Dials, DialOps, LaunchDue, MendDue,
     DialStatus, Barred, OpenOk, Busied, Early, CallSame, Breaks
<1>7. Resting'
  <2>1. CASE Now("work").op' = "close"
    BY <1>1, <1>2, <1>3, <2>1, StepOps
       DEF Lone, Calm, Dialling, Resting, Sending, LaunchDue, MendDue, Over,
       Rest, OpenOk, Early, Busied, Midway, Held, Fails, Told, FrameOf,
       CallSame, Breaks, View
  <2>2. CASE Now("work").op' = "check"
    <3>1. /\ Now("work").op = "set" /\ Now("work").ev = "Completed"
          /\ use.long /\ status' = "Completed" /\ Now("work").ev' = "Close"
          /\ Now("caller")' = Now("caller")
      BY <1>3, <2>2, StepOps DEF CallSame
    <3>2. FrameOf("Completed") /\ Over' /\ Rest' /\ Fails("work")' /\ ~LaunchDue
          /\ ~FrameOf("Started")' /\ ~FrameOf("Completed")'
      BY <1>2, <2>2, <3>1
         DEF Lone, Resting, LaunchDue, FrameOf, Over, Rest, Fails, Told
    <3> QED
      BY <1>1, <1>2, <2>2, <3>1, <3>2
         DEF Lone, Calm, Dialling, Resting, Sending, LaunchDue, MendDue, OpenOk,
         Busied, Early, Held, Told, View, Waits, Dials, Barred
  <2> QED
    BY <1>3, <2>1, <2>2
<1>8. Sending'
  BY <1>1, <1>2, <1>3, <1>4, StepOps
     DEF Lone, Sending, Busied, Early, Midway, FrameOf, Held, CallSame, Breaks
<1>9. use.continued' => Mended'
  BY <1>1, <1>2, <1>3, <1>4, StepOps
     DEF Lone, Mended, Unstopped, MendDue, LaunchDue, WillMend, EndTold,
     Settled, CallSame, Breaks
<1>10. use.continued' /\ FirstOnly' => Listening'
  BY <1>1, <1>2, <1>3, <1>4, StepOps
     DEF Lone, Dialling, Sending, Listening, LaunchDue, Waits, Dialing, Dials,
     DialOps, FirstOnly, OpenStatus, EndView, CallSame, Breaks
<1> QED
  BY <1>5, <1>6, <1>7, <1>8, <1>9, <1>10 DEF Lone

LEMMA CloseAlone ==
  ASSUME Sound, Alone, Lone, Close
  PROVE  Lone'
<1>1. /\ Sound' /\ View /\ View' /\ EndView /\ EndView' /\ IdleView
      /\ IdleView' /\ FieldsOK /\ FieldsOK' /\ LoneUse
  BY Views, EndViews, TypeSplit, LoneUses, CloseStep
     DEF Sound
<1>2. UNCHANGED <<status, exit, isStop, cmd, retry, recon, attempts, starts,
                  audio, told, mends, use>>
  BY <1>1
     DEF Close, sockVars, bufVars, exitVars, reconVars, histVars, boundVars
<1>3. /\ CallSame /\ WorkDone /\ Now("work").op = "close"
      /\ ~fd' /\ ~connected' /\ peer' = "none"
      /\ armed' = armed \cap {"reconnect", "dns"}
  BY <1>1, CloseStep
     DEF Close
<1>4. SessionOver' <=> SessionOver
  BY <1>2, OverKept
<1>5. Calm'
  BY <1>1, <1>2, <1>3, <1>4, StepOps
     DEF Lone, Calm, FirstOnly, LaunchDue, MendDue, CallSame, WorkDone, Closes
<1>6. Dialling'
  BY <1>1, <1>2, <1>3, <1>4, StepOps
     DEF Lone, Dialling, Dialing, Waits, Dials, DialOps, LaunchDue, MendDue,
     DialStatus, CallSame, WorkDone, Closes
<1>7. Resting'
  BY <1>1, <1>2, <1>3, <1>4, StepOps
     DEF Lone, Resting, Rest, LaunchDue, Over, FrameOf, MendDue, OpenOk, Busied,
     CallSame, WorkDone, Closes
<1>8. Sending'
  BY <1>1, <1>2, <1>3, <1>4, StepOps
     DEF Lone, Sending, Busied, Early, Midway, FrameOf, Held, CallSame,
     WorkDone, Closes
<1>9. use.continued' => Mended'
  BY <1>1, <1>2, <1>3, <1>4, StepOps
     DEF Lone, Calm, Dialling, Resting, Mended, LaunchDue, MendDue, Waits,
     Dialing, Barred, DialStatus, Fails, Told, FrameOf, Unstopped, WillMend,
     EndTold, Settled, EndView, IdleView, Single, CallSame, WorkDone, Closes,
     View, FieldsOK, LoneUse
<1>10. use.continued' /\ FirstOnly' => Listening'
  BY <1>1, <1>2, <1>3, <1>4, StepOps
     DEF Lone, Listening, FirstOnly, LaunchDue, Dialing, Waits, Dials, DialOps,
     Fails, Told, OpenStatus, CallSame, WorkDone, Closes, View, FieldsOK,
     Single, Calm, Dialling
<1> QED
  BY <1>5, <1>6, <1>7, <1>8, <1>9, <1>10 DEF Lone

LEMMA WorkDisconnectAlone ==
  ASSUME Sound, Alone, Lone, Disconnect("work")
  PROVE  Lone'
<1>1. /\ Sound' /\ View /\ View' /\ EndView /\ EndView' /\ IdleView
      /\ IdleView' /\ FieldsOK /\ FieldsOK' /\ LoneUse
  BY Views, EndViews, TypeSplit, LoneUses, WorkDisconnectStep, StepOps
     DEF Sound
<1>2. UNCHANGED <<exit, isStop, armed, cmd, retry, recon, attempts, starts,
                  audio, told, mends, use>>
  BY <1>1
     DEF Disconnect, sockVars, bufVars, exitVars, reconVars, histVars, boundVars
<1>3. /\ CallSame /\ Now("work").op = "reconnect" /\ Now("work").op' = "dns"
      /\ ~fd' /\ ~connected' /\ peer' = "none" /\ status' = "Connecting"
  BY <1>1, WorkDisconnectStep, StepOps
     DEF Disconnect
<1>4. SessionOver' <=> SessionOver
  BY <1>2, OverKept
<1>5. Calm'
  BY <1>1, <1>2, <1>3, <1>4
     DEF Lone, Calm, FirstOnly, LaunchDue, MendDue, CallSame, View, FieldsOK,
     LoneUse, Dialling, Dialing, Waits, Dials, DialOps
<1>6. Dialling'
  BY <1>1, <1>2, <1>3, <1>4
     DEF Lone, Dialling, Dialing, Waits, Dials, DialOps, LaunchDue, MendDue,
     DialStatus, Barred, OpenOk, Busied, Early, CallSame, View, FieldsOK, Single
<1>7. Resting'
  BY <1>1, <1>2, <1>3, <1>4
     DEF Lone, Resting, Rest, LaunchDue, Over, FrameOf, MendDue, OpenOk, Busied,
     Early, Held, Fails, Dialling, Dialing, Waits, Dials, DialOps
<1>8. Sending'
  BY <1>1, <1>2, <1>3, <1>4
     DEF Lone, Calm, Dialling, Resting, Sending, LaunchDue, MendDue, Waits,
     Dialing, Barred, Over, Rest, OpenOk, Early, Busied, Midway, Held, Dials,
     DialOps, DialStatus, Fails, Told, FrameOf, Single, CallSame, View, FieldsOK
<1>9. use.continued' => Mended'
  BY <1>1, <1>2, <1>3, <1>4
     DEF Lone, Mended, Unstopped, MendDue, LaunchDue, WillMend, EndTold,
     Settled, CallSame
<1>10. use.continued' /\ FirstOnly' => Listening'
  BY <1>1, <1>2, <1>3, <1>4
     DEF Lone, Listening, FirstOnly, LaunchDue, Dialing, Waits, Dials, DialOps,
     Fails, Told, OpenStatus, CallSame, View, FieldsOK, Single
<1> QED
  BY <1>5, <1>6, <1>7, <1>8, <1>9, <1>10 DEF Lone

LEMMA CallDisconnectAlone ==
  ASSUME Sound, Alone, Lone, Disconnect("caller")
  PROVE  Lone'
<1>1. /\ Sound' /\ View /\ View' /\ EndView /\ EndView' /\ IdleView
      /\ IdleView' /\ FieldsOK /\ FieldsOK' /\ LoneUse
  BY Views, EndViews, TypeSplit, LoneUses, CallDisconnectStep
     DEF Sound
<1>2. UNCHANGED <<status, exit, isStop, armed, cmd, retry, recon, attempts,
                  starts, audio, told, mends, use>>
  BY <1>1, CallDisconnectStep DEF Disconnect, exitVars, histVars, boundVars,
     reconVars
<1>3. /\ CallDone /\ Now("caller").op = "disconnect"
      /\ ~fd' /\ ~connected' /\ peer' = "none"
  BY <1>1, CallDisconnectStep DEF Disconnect
<1>4. SessionOver' <=> SessionOver
  BY <1>2, OverKept
<1>5. Calm'
  BY <1>1, <1>2, <1>3, <1>4, StepOps
     DEF Lone, Calm, Dialling, Resting, Sending, Mended, Listening, LaunchDue,
     MendDue, Waits, Dialing, DialOps, DialStatus, Fails, Told, FrameOf,
     FirstOnly, CallDone, WorkSame, View, FieldsOK
<1>6. Dialling'
  BY <1>1, <1>2, <1>3, <1>4, StepOps
     DEF Lone, Dialling, Dialing, Waits, Dials, DialOps, LaunchDue, MendDue,
     DialStatus, Barred, OpenOk, Busied, Early, WorkSame, CallDone
<1>7. Resting'
  BY <1>1, <1>2, <1>3, <1>4, StepOps
     DEF Lone, Resting, Rest, LaunchDue, Over, FrameOf, MendDue, OpenOk, Busied,
     Early, Held, Fails, Told, WorkSame, CallDone
<1>8. Sending'
  BY <1>1, <1>2, <1>3, <1>4, StepOps
     DEF Lone, Sending, Busied, Early, Midway, FrameOf, Held, WorkSame, CallDone
<1>9. use.continued' => Mended'
  BY <1>1, <1>2, <1>3, <1>4, StepOps
     DEF Lone, Mended, Unstopped, MendDue, LaunchDue, WillMend, EndTold,
     Settled, WorkSame, CallDone
<1>10. use.continued' /\ FirstOnly' => Listening'
  BY <1>1, <1>2, <1>3, <1>4, StepOps
     DEF Lone, Listening, FirstOnly, LaunchDue, Dialing, Waits, Dials, DialOps,
     Fails, Told, OpenStatus, WorkSame, CallDone
<1> QED
  BY <1>5, <1>6, <1>7, <1>8, <1>9, <1>10 DEF Lone

LEMMA DestroyAlone ==
  ASSUME Sound, Alone, Lone, Destroy
  PROVE  Lone'
<1>1. /\ Sound' /\ View /\ View' /\ EndView /\ EndView' /\ IdleView
      /\ IdleView' /\ FieldsOK /\ FieldsOK' /\ LoneUse
  BY Views, EndViews, TypeSplit, LoneUses, DestroyStep, StepOps
     DEF Sound
<1>2. UNCHANGED <<status, exit, isStop, connected, fd, armed, cmd, peer, retry,
                  recon, attempts, starts, audio, told, mends, use>>
  BY <1>1
     DEF Destroy, sockVars, bufVars, exitVars, reconVars, histVars, boundVars
<1>3. /\ CallSame /\ WorkDone
      /\ Now("work").op = "destroy" /\ Now("work").op' = "none"
  BY <1>1, DestroyStep, StepOps
     DEF Destroy
<1>4. SessionOver' <=> SessionOver
  BY <1>2, OverKept
<1>5. Calm'
  BY <1>1, <1>2, <1>3, <1>4, StepOps
     DEF Lone, Calm, FirstOnly, LaunchDue, MendDue, CallSame, WorkDone, Closes
<1>6. Dialling'
  BY <1>1, <1>2, <1>3, <1>4, StepOps
     DEF Lone, Dialling, Dialing, Waits, Dials, DialOps, LaunchDue
<1>7. Resting'
  BY <1>1, <1>2, <1>3, <1>4, StepOps
     DEF Lone, Resting, Rest, LaunchDue, Over, FrameOf, MendDue, OpenOk, Busied,
     Early, Held, Fails, Told, CallSame, WorkDone, Closes
<1>8. Sending'
  BY <1>1, <1>2, <1>3, <1>4, StepOps
     DEF Lone, Sending, Busied, Early, Midway, FrameOf, Held, CallSame,
     WorkDone, Closes
<1>9. use.continued' => Mended'
  BY <1>1, <1>2, <1>3, <1>4, StepOps
     DEF Lone, Mended, Unstopped, MendDue, LaunchDue, WillMend, EndTold,
     Settled, CallSame, WorkDone, Closes
<1>10. use.continued' /\ FirstOnly' => Listening'
  BY <1>1, <1>2, <1>3, <1>4, StepOps
     DEF Lone, Listening, FirstOnly, LaunchDue, Dialing, Waits, Dials, DialOps,
     Fails, Told, OpenStatus, CallSame, WorkDone, Closes
<1> QED
  BY <1>5, <1>6, <1>7, <1>8, <1>9, <1>10 DEF Lone

-----------------------------------------------------------------------------
LEMMA LoneInit ==
  ASSUME Init
  PROVE  Alone => Lone
<1>1. /\ Now("work") = Step("none") /\ Now("caller") = Step("none")
      /\ ~Closing
  BY ShortClose DEF Init, Threads, Now, First, Closing
<1>2. Waits = {} /\ ~Dialing
  BY <1>1, StepOps DEF Init, Waits, Dialing, DialOps
<1>3. Calm
  BY <1>1, StepOps DEF Init, Calm, LaunchDue, MendDue
<1>4. Dialling
  BY <1>1, <1>2, StepOps, NodeAssumption DEF Init, Dialling
<1>5. Resting
  BY <1>1, StepOps
     DEF Init, Resting, LaunchDue, MendDue, Over, Rest, OpenOk, FrameOf, Fails,
     Told, Held, Busied, Early
<1>6. Sending
  BY <1>1, StepOps DEF Init, Sending, FrameOf, Held, Midway
<1>7. ~SessionOver
  BY OverKept DEF Init, SessionOver
<1>8. Mended
  BY <1>1, <1>7, StepOps, NodeAssumption
     DEF Init, Mended, LaunchDue, MendDue, EndTold
<1>9. Listening
  BY <1>1, <1>2, StepOps DEF Init, Listening, OpenStatus
<1> QED
  BY <1>3, <1>4, <1>5, <1>6, <1>8, <1>9 DEF Lone

\* Where the caller sends no audio and the work thread alone reports.
LEMMA LoneNext ==
  ASSUME Sound, Alone, Lone, [Next]_vars
  PROVE  Lone'
<1>1. CASE UNCHANGED vars
  <2>1. /\ Now("work")' = Now("work") /\ Now("caller")' = Now("caller")
        /\ Closing' = Closing /\ Ending' = Ending
    BY <1>1 DEF vars, Now, First, Closing, HasClose, Ending, Ends
  <2>2. Calm' /\ Dialling'
    BY <1>1, <2>1 DEF vars, sockVars, bufVars, exitVars, reconVars, histVars,
       boundVars, Lone, Calm, Dialling, LaunchDue, MendDue, Waits, Dialing,
       Barred, OpenOk, FirstOnly
  <2>3. Resting' /\ Sending'
    BY <1>1, <2>1 DEF vars, sockVars, bufVars, exitVars, reconVars, histVars,
       boundVars, Lone, Resting, Sending, LaunchDue, MendDue, Over, Rest,
       OpenOk, Held, FrameOf, Fails
  <2>4. /\ use.continued' => Mended'
        /\ use.continued' /\ FirstOnly' => Listening'
    BY <1>1, <2>1 DEF vars, sockVars, bufVars, exitVars, reconVars, histVars,
       boundVars, Lone, Mended, Listening, LaunchDue, MendDue, Waits, Dialing,
       FirstOnly, Unstopped, WillMend, EndTold, Settled, SessionOver, Fails
  <2> QED
    BY <2>2, <2>3, <2>4 DEF Lone
<1>2. CASE UserNext
  <2>1. ~SendAudio
    BY SendAudioStep DEF Alone
  <2> QED
    BY <1>2, <2>1, StartAlone, StartRefusedAlone, StopAlone, CancelAlone
       DEF UserNext
<1>3. CASE EventNext
  BY <1>3, LaunchAlone, ConnectReadyAlone, ResolvedAlone, WriteAlone,
     ReadCancelledAlone, GatewayResponseAlone, ReadStartedAlone,
     ReadCompletedAlone, ReadTaskFailedAlone, ReadDirtyAlone, ReadFailsAlone
     DEF EventNext
<1>4. CASE WorkNext
  BY <1>4, DnsConnectedAlone, DnsConnectAlone, DnsGivesUpAlone,
     DnsCancelledAlone, ConnectAlone, SslWaitsAlone, SslEndsAlone,
     RequestAlone, SendStartAlone, FlushAlone, SetStartedAlone, SetEndedAlone,
     CloseAlone, DestroyAlone, RespondAlone DEF WorkNext
<1>5. CASE Push \/ Unlock
  <2>1. ~Push
    BY PushStep, LoneUses DEF LoneUse
  <2> QED
    BY <1>5, <2>1, UnlockAlone
<1>6. ASSUME ThreadNext("work") PROVE Lone'
  BY <1>6, WorkControlAlone, WorkCheckAlone, WorkTellAlone, WorkAfterCloseAlone,
     WorkAfterOtherAlone, WorkDisconnectAlone DEF ThreadNext
<1>7. ASSUME ThreadNext("caller") PROVE Lone'
  BY <1>7, CallControlAlone, CallCheckAlone, CallTellAlone, CallAfterCloseAlone,
     CallAfterOtherAlone, CallDisconnectAlone DEF ThreadNext
<1> QED
  BY <1>1, <1>2, <1>3, <1>4, <1>5, <1>6, <1>7 DEF Next, Threads

-----------------------------------------------------------------------------
\* Whichever way the request is used in order.
Orders == Sound /\ (Plain => Once) /\ (Alone => Lone)

LEMMA OrdersInit ==
  ASSUME Init
  PROVE  Orders
BY SoundInit, OnceInit, LoneInit DEF Orders

LEMMA OrdersNext ==
  ASSUME Orders, [Next]_vars
  PROVE  Orders'
<1>1. Sound'
  BY SoundNext DEF Orders
<1>2. (Plain' <=> Plain) /\ (Alone' <=> Alone)
  BY UseKept DEF Plain, Alone, Orderly, FirstOnly
<1>3. ASSUME Plain PROVE Once'
  BY <1>3, OnceNext DEF Orders
<1>4. ASSUME Alone PROVE Lone'
  BY <1>4, LoneNext DEF Orders
<1> QED
  BY <1>1, <1>2, <1>3, <1>4 DEF Orders

\* A use in order is one of the two.
LEMMA OrderlyUses ==
  /\ Orderly => Plain \/ Alone
  /\ Plain <=> FirstOnly /\ ~use.continued
<1>1. Plain <=> FirstOnly /\ ~use.continued
  BY DEF Plain
<1>2. Orderly => Plain \/ Alone
  BY <1>1 DEF Orderly, Alone
<1> QED
  BY <1>1, <1>2

LEMMA OrdersBounds ==
  ASSUME Orders
  PROVE  TriesBounded /\ NoSocketLost
<1>1. TriesBounded
  BY OrderlyUses DEF Orders, TriesBounded, Once, DialPhase, Lone, Dialling
<1>2. NoSocketLost
  <2> SUFFICES ASSUME Orderly, At("work", "connect") PROVE ~fd
    BY DEF NoSocketLost
  <2>1. Now("work").op = "connect"
    BY AtWork DEF Orders, Ops
  <2>2. Now("work").op \in DialOps
    BY <2>1 DEF DialOps
  <2>3. Plain => ~fd
    BY <2>1, <2>2 DEF Orders, Once, DialPhase
  <2>4. Alone => ~fd
    BY <2>1 DEF Orders, Lone, Dialling
  <2> QED
    BY <2>3, <2>4, OrderlyUses
<1> QED
  BY <1>1, <1>2

LEMMA OrdersHear ==
  ASSUME Orders
  PROVE  NeverDeaf
<1> SUFFICES ASSUME FirstOnly, Orderly, Idle, ~deleted, exit # "Cancel"
             PROVE  /\ status = "Invoking" => "launch" \in armed
                    /\ status \in {"Connecting", "Connected"} =>
                         armed \cap {"dns", "connect", "timer"} # {}
                    /\ status \in {"Handshaking"} \cup OpenStatus =>
                         fd /\ "read" \in armed
  BY Statuses DEF NeverDeaf, OpenStatus
<1>1. /\ Now("work").op = "none" /\ Now("caller").op = "none"
  BY StepOps DEF Idle, Now, First, Threads
<1>2. CASE Plain
  BY <1>1, <1>2
     DEF Orders, Once, BeforeLaunch, DialPhase, Sock, Opening, Heard, Fails,
     Told, DialStatus, OpenStatus, Dials
<1>3. CASE Alone /\ use.continued
  <2>1. Dialling /\ Sending /\ Listening
    BY <1>3 DEF Orders, Lone
  <2>2. /\ ~Fails("work") /\ ~Fails("caller") /\ (Dialing => Waits # {})
        /\ status # "Handshaking"
    BY <1>1, <2>1 DEF Fails, Told, Dialing, DialOps, Sending
  <2>3. status \in OpenStatus => ~Dialing
    BY <2>1 DEF Dialling, DialStatus, Barred, OpenStatus
  <2> QED
    BY <2>1, <2>2, <2>3 DEF Listening, OpenStatus, LaunchDue, Waits, Dials
<1> QED
  BY <1>2, <1>3, OrderlyUses

-----------------------------------------------------------------------------
\* From a launch on, and whatever earlier rounds left in _retryConnectCount,
\* checkConnectCount lets through no more than RetryConnectCount tries with an
\* address and a socket of their own.
THEOREM TriesStayBounded == Spec => []TriesBounded
<1> QED
  BY OrdersInit, OrdersNext, OrdersBounds, PTL DEF Spec

\* As long as only the work thread reports failures, NodeReconnection hides no
\* more than max_try_count of a session, however the callbacks of the mended
\* rounds reset its counter. (A send that fails breaks this: run node_mends.)
THEOREM MendingBoundedAlone ==
  Spec => [](Alone /\ use.continued => mends =< max_try_count)
<1>1. Orders => (Alone /\ use.continued => mends =< max_try_count)
  BY DEF Orders, Lone, Mended
<1> QED
  BY <1>1, OrdersInit, OrdersNext, PTL DEF Spec

\* connectProcess never overwrites an open socket: every path that tries again,
\* in this session or in the next, has closed the one before.
THEOREM SocketsKept == Spec => []NoSocketLost
<1> QED
  BY OrdersInit, OrdersNext, OrdersBounds, PTL DEF Spec

\* A first session in progress waits for something: when neither thread works
\* for it the launch is armed, or the dial, or the socket is open and read.
THEOREM NodeHears == Spec => []NeverDeaf
<1> QED
  BY OrdersInit, OrdersNext, OrdersHear, PTL DEF Spec
=============================================================================
