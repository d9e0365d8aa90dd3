-------------------------------- MODULE Node --------------------------------
(***************************************************************************)
(* One request of the SDK and its ConnectNode: the callbacks that libevent *)
(* runs on the node's work thread (WorkThread), the calls start, stop,     *)
(* cancel and sendAudio of the user's threads (NlsEventNetWork), and the   *)
(* automatic reconnection (NodeReconnection).                              *)
(*                                                                         *)
(* A thread runs a handler as a list of steps, todo[t]. The node's fields  *)
(* are shared without a common lock, so the steps of the threads           *)
(* interleave: the work thread starts a handler when it has nothing to do, *)
(* and so does the caller, the thread that sends audio and stops. start    *)
(* and cancel come at any time, also from inside a callback. A callback of *)
(* the user is three steps, as handlerEvent and handlerFrame have it: the  *)
(* look at the exit status, the callback, and what is set after it.        *)
(*                                                                         *)
(* Kept: the node's statuses, which events of libevent are armed, the two  *)
(* output buffers, the counters of retries and reconnections. Abstracted:  *)
(* bytes (a buffer of commands is the sequence of them, audio is there or  *)
(* not), error codes (worth a reconnection or not), locks held only for    *)
(* one step. A cached address may be used or not. Left out: the waiting of *)
(* synchronous calls and the list of nodes, and results in mid-session,    *)
(* which change nothing here. The URL parses and evdns answers later.      *)
(***************************************************************************)
EXTENDS Integers, Sequences

CONSTANTS RetryConnectCount,  \* tries in a round before it is given up
          max_try_count,      \* reconnections before a failure is reported
          Uses                \* the ways in which a user may use the request

\* A way to use it: continued is _enableReconnect, set by setEnableContinued;
\* long is _isuse.long, a connection outlives its session; stops and
\* cancels say which calls are made besides start. The bounds: starts is the
\* number of sessions, sends of calls of sendAudio, faults of failures of the
\* network.
UseType == [continued : BOOLEAN, long : BOOLEAN, stops : BOOLEAN,
            cancels : BOOLEAN, starts : Nat, sends : Nat, faults : Nat]

ASSUME NodeAssumption ==
  /\ RetryConnectCount \in Nat \ {0}
  /\ max_try_count \in Nat
  /\ Uses \subseteq UseType

\* ConnectStatus, in the order that the code compares them in.
Order == <<"Created", "Invoking", "Invoked", "Connecting", "Connected",
           "Handshaking", "Handshaked", "Starting", "Started",
           "Failed", "Completed", "Closed">>
ConnectStatus == {Order[i] : i \in DOMAIN Order}
Rank(s) == CHOOSE i \in DOMAIN Order : Order[i] = s
Between(a, b) == {s \in ConnectStatus : Rank(a) =< Rank(s) /\ Rank(s) < Rank(b)}

ReconnectionState == {"NoReconnection", "WillReconnect",
                      "TriggerReconnection", "NewReconnectionStarting"}
ReconFields == [state : ReconnectionState, count : Nat]

\* The events of libevent that belong to the node.
NodeEvents == {"launch", "reconnect", "dns", "connect", "timer", "read", "write"}
UserEvents == {"Started", "TaskFailed", "Completed", "Close"}
Threads == {"work", "caller"}

\* A step: its operation; for those of an event which one, and a flag: whether
\* the failure is worth a reconnection, in "after" whether it was hidden. In
\* "request" the flag says that it follows a connect, in "start", "flush" and
\* "control" that nodeResponseProcess makes it.
Ops == {"dns", "connect", "ssl", "request", "start", "push", "flush",
        "control", "check", "tell", "after", "set", "close", "disconnect",
        "reconnect", "destroy", "respond", "unlock"}
Step(op) == [op |-> op, ev |-> "none", flag |-> FALSE]
Event(op, ev, flag) == [op |-> op, ev |-> ev, flag |-> flag]
StepType == [op : Ops, ev : UserEvents \cup {"none"}, flag : BOOLEAN]

\* status, exit, isStop, isDestroy  fields of the node of these names
\* deleted    the work thread has deleted the request and its node
\* connected, fd  _isConnected; whether there is a socket
\* armed      the events that may fire
\* timerFlag  _connectTimerFlag
\* cmd, audio the commands in _cmdEvBuffer; something in _binaryEvBuffer
\* peer       what the gateway makes of the connection
\* retry      _retryConnectCount
\* recon      _reconnection: its state and reconnected_count
\* todo       what each thread has still to do
\* told       the callbacks of the session, with the thread that made each
\* attempts, mends  tries in this round; reconnections in this session
\* late       how many callbacks each thread made since the request is cancelled
\* use        how the request is used, from the beginning on
\* starts, sends, faults  how much of each bound is used
VARIABLES status, exit, isStop, isDestroy, deleted, connected, fd, armed,
          timerFlag, cmd, audio, peer, retry, recon, todo, told, attempts,
          mends, late, use, starts, sends, faults

sockVars == <<connected, fd, armed, timerFlag>>
bufVars == <<cmd, audio, peer>>
exitVars == <<exit, isStop, isDestroy, deleted>>
reconVars == <<retry, recon>>
histVars == <<told, late, attempts, mends>>
boundVars == <<use, starts, sends>>
vars == <<status, sockVars, bufVars, exitVars, reconVars, todo, histVars,
          boundVars, faults>>

Init ==
  /\ status = "Created" /\ exit = "Invalid"
  /\ isStop = FALSE /\ isDestroy = FALSE /\ deleted = FALSE
  /\ connected = FALSE /\ fd = FALSE /\ armed = {} /\ timerFlag = FALSE
  /\ cmd = <<>> /\ audio = FALSE /\ peer = "none"
  /\ retry = 0 /\ recon = [state |-> "NoReconnection", count |-> 0]
  /\ todo = [t \in Threads |-> <<>>]
  /\ told = <<>> /\ attempts = 0 /\ mends = 0
  /\ late = [t \in Threads |-> 0]
  /\ use \in Uses /\ starts = 0 /\ sends = 0 /\ faults = 0

-----------------------------------------------------------------------------
\* A handler begins on a thread with nothing to do; its steps are taken in turn.
Begin(t, steps) == todo[t] = <<>> /\ todo' = [todo EXCEPT ![t] = steps]
At(t, op) == todo[t] # <<>> /\ Head(todo[t]).op = op /\ ~deleted
Go(t, steps) == todo' = [todo EXCEPT ![t] = steps \o Tail(@)]
Fires(e) == todo["work"] = <<>> /\ e \in armed /\ ~deleted

Fault == faults < use.faults /\ faults' = faults + 1
NoFault == UNCHANGED faults

\* handlerTaskFailedEvent: TaskFailed and then Close.
Report(mendable) == <<Event("check", "TaskFailed", mendable),
                      Event("check", "Close", FALSE)>>

\* How a failure goes on: in nodeRequestProcess, in nodeResponseProcess, and on
\* the thread of a caller.
RequestFailed(mendable) == Report(mendable) \o <<Step("close")>>
ResponseFailed(mendable) == <<Step("close")>> \o Report(mendable)
CallFailed(mendable) == <<Step("disconnect")>> \o Report(mendable)

\* (variant: the old socket is left open)
Again_NoDisconnect == <<Step("dns")>>

\* A connect or a handshake failed: disconnect and begin again with the DNS.
Again == <<Step("reconnect"), Step("dns")>>

-----------------------------------------------------------------------------
\* The gateway's view of a connection: it takes a command in its place and
\* answers before the next one; of anything else it can make nothing.
Hear(p, q) ==
  CASE p = "fresh" /\ q = <<"shake">> -> "shaking"
    [] p = "open" /\ q = <<"start">> -> "starting"
    [] p = "running" /\ q = <<"stop">> -> "stopping"
    [] p = "failed" -> "failed"
    [] OTHER -> "lost"
PeerStates == {"none", "fresh", "shaking", "open", "starting", "running",
               "stopping", "failed", "lost"}

\* nlsSendFrame of the commands q, with the events in on armed besides: all is
\* sent, or a part and the write event is armed for the rest, or it fails and
\* nothing leaves the buffer; failed[m] is how the thread then goes on, m saying
\* whether it is worth a reconnection.
Sends(t, q, on, failed) ==
  \/ /\ fd
     /\ cmd' = <<>> /\ peer' = Hear(peer, q) /\ armed' = on /\ NoFault
     /\ Go(t, <<>>)
  \/ /\ fd
     /\ cmd' = q /\ UNCHANGED peer /\ armed' = on \cup {"write"} /\ Fault
     /\ Go(t, <<>>)
  \/ /\ cmd' = q /\ UNCHANGED peer /\ armed' = on
     /\ IF fd THEN Fault ELSE NoFault
     /\ \E m \in BOOLEAN : Go(t, failed[m])

\* (variant: a stop that was sent is sent again)
Directive_StopAgain ==
  CASE status = "Started" /\ exit = "Invalid" -> cmd
    [] exit = "Stopping" -> Append(cmd, "stop")
    [] OTHER -> <<>>

\* The commands that sendControlDirective sends: what waits, or a stop that is
\* due, or none.
Directive ==
  CASE status = "Started" /\ exit = "Invalid" -> cmd
    [] exit = "Stopping" /\ ~isStop -> Append(cmd, "stop")
    [] OTHER -> <<>>

-----------------------------------------------------------------------------
\* start, stop and cancel hold _mtxThread; a stop to the end of its steps.
Locked == \E i \in DOMAIN todo["caller"] : todo["caller"][i].op = "unlock"

Unlock ==
  /\ At("caller", "unlock")
  /\ Go("caller", <<>>)
  /\ UNCHANGED <<status, sockVars, bufVars, exitVars, reconVars, histVars,
                 boundVars, faults>>

\* NlsEventNetWork::start. A request may be started when it was never started,
\* or when its last session was reported closed.
SessionOver == \E i \in DOMAIN told : told[i].ev = "Close"
MayStart == ~Locked /\ starts < use.starts /\ (starts = 0 \/ SessionOver)

Startable ==
  \/ status = "Created" /\ exit = "Invalid"
  \/ status = "Closed" /\ use.long

Start ==
  /\ MayStart /\ ~deleted
  /\ Startable
  /\ IF status = "Closed"   \* initAllStatus
       THEN exit' = "Invalid" /\ isStop' = FALSE /\ isDestroy' = FALSE
       ELSE UNCHANGED <<exit, isStop, isDestroy>>
  /\ status' = "Invoking"
  /\ armed' = armed \cup {"launch"}
  /\ starts' = starts + 1
  /\ told' = <<>> /\ mends' = 0 /\ late' = [t \in Threads |-> 0]
  /\ UNCHANGED <<deleted, connected, fd, timerFlag, bufVars, reconVars, todo,
                 attempts, use, sends, faults>>

\* A start that is refused sets the status to NodeCreated all the same; one
\* that finds the session running changes nothing.
StartRefused ==
  /\ MayStart /\ ~deleted
  /\ ~Startable
  /\ exit # "Invalid" \/ status \notin Between("Invoking", "Failed")
  /\ status' = "Created"
  /\ UNCHANGED <<sockVars, bufVars, exitVars, reconVars, todo, histVars,
                 boundVars, faults>>

\* NlsEventNetWork::stop with cmdNotify.
Stop ==
  /\ use.stops /\ ~deleted
  /\ exit = "Invalid" /\ status \in Between("Invoking", "Failed")
  /\ exit' = "Stopping"
  /\ Begin("caller", IF status = "Started" /\ ~audio
                       THEN <<Step("control"), Step("unlock")>> ELSE <<>>)
  /\ UNCHANGED <<status, sockVars, bufVars, isStop, isDestroy, deleted,
                 reconVars, histVars, boundVars, faults>>

\* NlsEventNetWork::cancel with cmdNotify.
Cancel ==
  /\ use.cancels /\ ~Locked /\ ~deleted
  /\ exit # "Cancel" /\ status \in Between("Invoking", "Closed")
  /\ exit' = "Cancel"
  /\ UNCHANGED <<status, sockVars, bufVars, isStop, isDestroy, deleted,
                 reconVars, todo, histVars, boundVars, faults>>

\* NlsEventNetWork::sendAudio up to addAudioDataBuffer.
SendAudio ==
  /\ sends < use.sends /\ ~deleted
  /\ status = "Started" /\ exit = "Invalid"
  /\ sends' = sends + 1
  /\ Begin("caller", <<Step("push")>>)
  /\ UNCHANGED <<status, sockVars, bufVars, exitVars, reconVars, histVars,
                 use, starts, faults>>

-----------------------------------------------------------------------------
\* launchEventCallback, by start or 100 ms after a failure that was hidden.
Launch(e) ==
  /\ e \in {"launch", "reconnect"} /\ Fires(e)
  /\ armed' = armed \ {e}
  /\ status' = "Invoked"
  /\ IF exit \in {"Cancel", "Stopping"}
       THEN UNCHANGED <<todo, attempts, mends>>
       ELSE /\ Begin("work", <<Step("dns")>>)
            /\ attempts' = 0
            /\ mends' = IF e = "reconnect" THEN mends + 1 ELSE mends
  /\ UNCHANGED <<connected, fd, timerFlag, bufVars, exitVars, reconVars, told,
                 late, boundVars, faults>>

\* dnsProcess on a connection that is still open: the next session on it.
DnsConnected ==
  /\ At("work", "dns") /\ exit # "Cancel"
  /\ use.long /\ connected
  /\ Go("work", <<Step("start")>>)
  /\ UNCHANGED <<status, sockVars, bufVars, exitVars, reconVars, histVars,
                 boundVars, faults>>

\* (variant: one connect too many)
CheckConnectCount_OffByOne == retry =< RetryConnectCount

\* checkConnectCount: may the node try again.
CheckConnectCount == retry < RetryConnectCount

\* dnsProcess otherwise: the address comes from the cache or from evdns.
DnsConnect ==
  /\ At("work", "dns") /\ exit # "Cancel"
  /\ ~(use.long /\ connected)
  /\ CheckConnectCount
  /\ retry' = retry + 1
  /\ attempts' = attempts + 1
  /\ status' = "Connecting"
  /\ \/ Go("work", <<Step("connect")>>) /\ UNCHANGED armed
     \/ Go("work", <<>>) /\ armed' = armed \cup {"dns"}
  /\ UNCHANGED <<connected, fd, timerFlag, bufVars, exitVars, recon, told,
                 late, mends, boundVars, faults>>

\* (variant: the failure is not reported)
DnsGivesUp_Silent ==
  /\ At("work", "dns") /\ exit # "Cancel"
  /\ ~(use.long /\ connected)
  /\ ~CheckConnectCount
  /\ retry' = 0
  /\ Go("work", <<Step("destroy")>>)
  /\ UNCHANGED <<status, sockVars, bufVars, exitVars, recon, histVars,
                 boundVars, faults>>

\* dnsProcess when checkConnectCount says no: SysConnectFailed is reported.
DnsGivesUp ==
  /\ At("work", "dns") /\ exit # "Cancel"
  /\ ~(use.long /\ connected)
  /\ ~CheckConnectCount
  /\ retry' = 0
  /\ Go("work", Report(TRUE) \o <<Step("destroy")>>)
  /\ UNCHANGED <<status, sockVars, bufVars, exitVars, recon, histVars,
                 boundVars, faults>>

DnsCancelled ==
  /\ At("work", "dns") /\ exit = "Cancel"
  /\ Go("work", <<Step("destroy")>>)
  /\ UNCHANGED <<status, sockVars, bufVars, exitVars, reconVars, histVars,
                 boundVars, faults>>

\* dnsEventCallback: an address, or none and the next try.
Resolved ==
  /\ Fires("dns")
  /\ armed' = armed \ {"dns"}
  /\ \/ Begin("work", <<Step("connect")>>) /\ UNCHANGED status /\ NoFault
     \/ Begin("work", <<Step("dns")>>) /\ status' = "Connecting" /\ Fault
  /\ UNCHANGED <<connected, fd, timerFlag, bufVars, exitVars, reconVars,
                 histVars, boundVars>>

\* connectProcess and socketConnect: in progress, done at once, or failed.
Connect ==
  /\ At("work", "connect")
  /\ \/ /\ exit # "Cancel"
        /\ fd' = TRUE /\ peer' = "none"
        /\ \/ /\ Go("work", <<>>)
              /\ armed' = (armed \ {"read", "write"}) \cup {"connect"}
              /\ UNCHANGED <<status, connected>>
           \/ /\ Go("work", <<Step("ssl")>>)
              /\ armed' = armed \ {"read", "write", "connect"}
              /\ status' = "Connected" /\ connected' = TRUE
        /\ NoFault
     \/ /\ Go("work", Again)
        /\ IF exit = "Cancel" THEN NoFault ELSE Fault
        /\ UNCHANGED <<status, connected, fd, armed, peer>>
  /\ UNCHANGED <<timerFlag, cmd, audio, exitVars, reconVars, histVars,
                 boundVars>>

\* connectEventCallback and connectTimerEventCallback. On a socket that reports
\* an error socketConnect is called once more, a connect that no count knows of:
\* done at once, in progress, or failed like a timeout.
ConnectReady(e) ==
  /\ e \in {"connect", "timer"} /\ Fires(e)
  /\ \/ /\ status = "Connecting" /\ fd
        /\ status' = "Connected" /\ connected' = TRUE
        /\ armed' = armed \ {e}
        /\ Begin("work", <<Step("ssl")>>)
        /\ NoFault \/ (exit # "Cancel" /\ Fault)
     \/ /\ status = "Connecting" /\ fd /\ exit # "Cancel" /\ Fault
        /\ armed' = (armed \ {e}) \cup {"connect"}
        /\ UNCHANGED <<status, connected, todo>>
     \/ /\ status = "Connected" /\ fd
        /\ armed' = armed \ {e}
        /\ Begin("work", <<Step("ssl")>>)
        /\ UNCHANGED <<status, connected>> /\ NoFault
     \/ /\ status \notin {"Connecting", "Connected"}
        /\ armed' = armed \ {e}
        /\ UNCHANGED <<status, connected, todo>> /\ NoFault
     \/ /\ e = "connect" \/ status = "Connecting"
        /\ armed' = armed \ {e}
        /\ Begin("work", Again) /\ Fault
        /\ UNCHANGED <<status, connected>>
  /\ UNCHANGED <<fd, timerFlag, bufVars, exitVars, reconVars, histVars,
                 boundVars>>

\* (variant: the timer is waited for each time, but armed only once)
SslWaits_TimerOnly ==
  /\ At("work", "ssl") /\ exit # "Cancel"
  /\ armed' = IF timerFlag THEN armed ELSE armed \cup {"timer"}
  /\ timerFlag' = TRUE
  /\ Go("work", <<>>)
  /\ UNCHANGED <<status, connected, fd, bufVars, exitVars, reconVars, histVars,
                 boundVars, faults>>

\* sslProcess: the handshake waits, for the timer and the socket in turn, or it
\* is done, or it fails.
SslWaits ==
  /\ At("work", "ssl") /\ exit # "Cancel"
  /\ armed' = armed \cup {IF timerFlag THEN "connect" ELSE "timer"}
  /\ timerFlag' = ~timerFlag
  /\ Go("work", <<>>)
  /\ UNCHANGED <<status, connected, fd, bufVars, exitVars, reconVars, histVars,
                 boundVars, faults>>

SslEnds ==
  /\ At("work", "ssl")
  /\ \/ /\ exit # "Cancel"
        /\ status' = "Handshaking" /\ peer' = "fresh"
        /\ Go("work", <<Event("request", "none", TRUE)>>) /\ NoFault
     \/ /\ Go("work", Again)
        /\ IF exit = "Cancel" THEN NoFault ELSE Fault
        /\ UNCHANGED <<status, peer>>
  /\ UNCHANGED <<sockVars, cmd, audio, exitVars, reconVars, histVars,
                 boundVars>>

\* nodeRequestProcess: the handshake with the gateway begins, or what waits in
\* the buffers goes out. After a connect a failure ends in destroyConnectNode.
NodeRequestProcess ==
  /\ At("work", "request")
  /\ LET rest == IF Head(todo["work"]).flag THEN <<Step("destroy")>> ELSE <<>>
         failed == [m \in BOOLEAN |-> RequestFailed(m) \o rest]
     IN  \/ /\ status = "Handshaking"
            /\ status' = "Handshaked"
            /\ Sends("work", Append(cmd, "shake"), armed \cup {"read"}, failed)
         \/ /\ status \in {"Handshaked", "Starting"}
            /\ IF cmd = <<>>
                 THEN /\ Go("work", <<>>) /\ NoFault
                      /\ UNCHANGED <<cmd, peer, armed>>
                 ELSE Sends("work", cmd, armed, failed)
            /\ UNCHANGED status
         \/ /\ status = "Started"
            /\ Go("work", <<Step("flush")>>)
            /\ UNCHANGED <<status, cmd, peer, armed>> /\ NoFault
         \/ /\ status \notin Between("Handshaking", "Failed")
            /\ \E m \in BOOLEAN : Go("work", failed[m])
            /\ UNCHANGED <<status, cmd, peer, armed>> /\ NoFault
  /\ UNCHANGED <<connected, fd, timerFlag, audio, exitVars, reconVars,
                 histVars, boundVars>>

\* addCmdDataBuffer(CmdStart) and the sending of it, by nodeResponseProcess
\* after the handshake or by dnsProcess on an open connection.
SendStart ==
  /\ At("work", "start")
  /\ status' = "Starting"
  /\ recon' = [recon EXCEPT !.state = "NewReconnectionStarting"]
  /\ LET failed == [m \in BOOLEAN |->
                      IF Head(todo["work"]).flag THEN ResponseFailed(m)
                      ELSE RequestFailed(m) \o <<Step("destroy")>>]
     IN  Sends("work", Append(cmd, "start"), armed, failed)
  /\ UNCHANGED <<connected, fd, timerFlag, audio, exitVars, retry, histVars,
                 boundVars>>

-----------------------------------------------------------------------------
\* The callback of an event that a frame brings, and what follows it.
Frame(ev, mendable) == <<Event("tell", ev, mendable), Event("set", ev, FALSE)>>

\* readEventCallBack, EV_READ: the gateway, or a connection that broke, has made
\* the socket readable. A cancelled node only closes.
Read ==
  /\ Fires("read") /\ fd /\ exit # "Cancel"
  /\ UNCHANGED <<connected, fd, timerFlag, audio, exitVars, retry, histVars,
                 boundVars>>

ReadCancelled ==
  /\ Fires("read") /\ exit = "Cancel" /\ fd
  /\ Begin("work", <<Step("close")>>)
  /\ UNCHANGED <<status, sockVars, bufVars, exitVars, reconVars, histVars,
                 boundVars, faults>>

\* The answer to the handshake: CmdStart follows.
GatewayResponse ==
  /\ Read
  /\ status \in {"Handshaking", "Handshaked"} /\ peer = "shaking"
  /\ peer' = "open"
  /\ Begin("work", <<Event("start", "none", TRUE)>>)
  /\ UNCHANGED <<status, armed, cmd, recon, faults>>

\* webSocketResponse: a frame with an answer of the gateway.
FrameStatus == {"Starting", "Started"}
  \cup (IF use.long THEN {"Connecting"} ELSE {})

ReadStarted ==
  /\ Read /\ status \in FrameStatus /\ peer = "starting"
  /\ peer' = "running"
  /\ Begin("work", Frame("Started", FALSE)
                     \o (IF status = "Starting"
                           THEN <<Event("flush", "none", TRUE)>> ELSE <<>>))
  /\ UNCHANGED <<status, armed, cmd, recon, faults>>

ReadCompleted ==
  /\ Read /\ status \in FrameStatus /\ peer = "stopping"
  /\ peer' = "open"
  /\ Begin("work", Frame("Completed", FALSE))
  /\ UNCHANGED <<status, armed, cmd, recon, faults>>

\* The gateway gives the task up: it may, and when it was sent nonsense it does.
ReadTaskFailed ==
  /\ Read /\ status \in FrameStatus
  /\ peer \in {"starting", "running", "stopping", "lost"}
  /\ IF peer = "lost" THEN NoFault ELSE Fault
  /\ peer' = "failed"
  /\ \E mendable \in BOOLEAN : Begin("work", Frame("TaskFailed", mendable))
  /\ UNCHANGED <<status, armed, cmd, recon>>

\* A frame that cannot be made an event of (convertResult): TaskFailed, the
\* connection is closed, Close; the failure is then nodeResponseProcess's too.
ReadDirty ==
  /\ Read /\ status \in FrameStatus /\ Fault
  /\ \E mendable \in BOOLEAN :
       Begin("work", <<Event("check", "TaskFailed", mendable), Step("close"),
                       Event("check", "Close", FALSE), Step("respond")>>)
  /\ UNCHANGED <<status, armed, cmd, peer, recon>>

\* The end of nodeResponseProcess: what was closed meanwhile is left alone.
Respond ==
  /\ At("work", "respond")
  /\ \E mendable \in BOOLEAN :
       Go("work", IF status = "Closed" THEN <<>> ELSE ResponseFailed(mendable))
  /\ UNCHANGED <<status, sockVars, bufVars, exitVars, reconVars, histVars,
                 boundVars, faults>>

\* The connection broke, or there is something to read in a status that has no
\* use for it (InvalidWorkStatus); at NodeClosed nothing is done.
ReadFails ==
  /\ Read /\ status # "Closed"
  /\ IF peer \in {"failed", "lost"} THEN NoFault ELSE Fault
  /\ \E mendable \in BOOLEAN : Begin("work", ResponseFailed(mendable))
  /\ UNCHANGED <<status, armed, cmd, peer, recon>>

\* writeEventCallBack: the socket takes more, or it did not for too long.
Write ==
  /\ Fires("write")
  /\ armed' = armed \ {"write"}
  /\ \/ exit = "Cancel" /\ Begin("work", <<Step("close")>>) /\ NoFault
     \/ exit # "Cancel" /\ fd /\ Begin("work", <<Step("request")>>) /\ NoFault
     \/ /\ exit # "Cancel" /\ Begin("work", ResponseFailed(FALSE))
        /\ IF fd THEN Fault ELSE NoFault
  /\ UNCHANGED <<status, connected, fd, timerFlag, bufVars, exitVars,
                 reconVars, histVars, boundVars>>

-----------------------------------------------------------------------------
\* How a failure to send goes on for this thread and this step.
SendFailed(t, m) ==
  IF t = "caller" THEN CallFailed(m)
  ELSE IF Head(todo[t]).flag THEN ResponseFailed(m) ELSE RequestFailed(m)
ThenControl(t) == <<[Head(todo[t]) EXCEPT !.op = "control"]>>

\* addAudioDataBuffer: the audio is refused when too much waits (EvbufferTooMuch).
\* Else it is added and, when it is all there is in the buffer and the session
\* runs, sent. sendControlDirective follows if ret = 0.
Push ==
  /\ At("caller", "push")
  /\ \/ /\ audio
        /\ Go("caller", <<>>)
        /\ UNCHANGED <<audio, armed>> /\ NoFault
     \/ /\ audio \/ status # "Started" \/ isStop
        /\ audio' = TRUE /\ Go("caller", ThenControl("caller"))
        /\ UNCHANGED armed /\ NoFault
     \/ /\ ~audio /\ status = "Started" /\ ~isStop
        /\ \/ /\ fd /\ UNCHANGED <<audio, armed>> /\ NoFault
              /\ Go("caller", ThenControl("caller"))
           \/ /\ fd /\ audio' = TRUE /\ armed' = armed \cup {"write"} /\ Fault
              /\ Go("caller", <<>>)
           \/ /\ audio' = TRUE /\ UNCHANGED armed
              /\ IF fd THEN Fault ELSE NoFault
              /\ \E m \in BOOLEAN : Go("caller", SendFailed("caller", m))
  /\ UNCHANGED <<status, connected, fd, timerFlag, cmd, peer, exitVars,
                 reconVars, histVars, boundVars>>

\* The work thread sends what audio there is, and then the control directive;
\* after a frame only when that frame started the session.
Flush ==
  /\ At("work", "flush")
  /\ \/ /\ status # "Started"
        /\ Go("work", <<>>) /\ UNCHANGED <<audio, armed>> /\ NoFault
     \/ /\ status = "Started" /\ (fd \/ ~audio)
        /\ audio' = FALSE /\ Go("work", ThenControl("work"))
        /\ UNCHANGED armed /\ NoFault
     \/ /\ status = "Started" /\ audio /\ fd /\ Fault
        /\ armed' = armed \cup {"write"} /\ Go("work", <<>>)
        /\ UNCHANGED audio
     \/ /\ status = "Started" /\ audio
        /\ IF fd THEN Fault ELSE NoFault
        /\ \E m \in BOOLEAN : Go("work", SendFailed("work", m))
        /\ UNCHANGED <<audio, armed>>
  /\ UNCHANGED <<status, connected, fd, timerFlag, cmd, peer, exitVars,
                 reconVars, histVars, boundVars>>

\* sendControlDirective.
Control(t) ==
  /\ At(t, "control")
  /\ isStop' = (isStop \/ exit = "Stopping")
  /\ IF Directive = <<>>
       THEN Go(t, <<>>) /\ UNCHANGED <<cmd, peer, armed>> /\ NoFault
       ELSE Sends(t, Directive, armed, [m \in BOOLEAN |-> SendFailed(t, m)])
  /\ UNCHANGED <<status, connected, fd, timerFlag, audio, exit, isDestroy,
                 deleted, reconVars, histVars, boundVars>>

-----------------------------------------------------------------------------
\* (variant: no look at the status, so that Close is told again)
Check_NotClosed(t) ==
  /\ At(t, "check")
  /\ Go(t, IF exit = "Cancel"
             THEN <<>> ELSE <<[Head(todo[t]) EXCEPT !.op = "tell"]>>)
  /\ UNCHANGED <<status, sockVars, bufVars, exitVars, reconVars, histVars,
                 boundVars, faults>>

\* (variant: no look at the exit status)
Check_NotCancelled(t) ==
  /\ At(t, "check")
  /\ Go(t, IF status = "Closed"
             THEN <<>> ELSE <<[Head(todo[t]) EXCEPT !.op = "tell"]>>)
  /\ UNCHANGED <<status, sockVars, bufVars, exitVars, reconVars, histVars,
                 boundVars, faults>>

\* handlerEvent up to handlerFrame: nothing is told of a cancelled node, and
\* nothing after Close.
Check(t) ==
  /\ At(t, "check")
  /\ Go(t, IF exit = "Cancel" \/ status = "Closed"
             THEN <<>> ELSE <<[Head(todo[t]) EXCEPT !.op = "tell"]>>)
  /\ UNCHANGED <<status, sockVars, bufVars, exitVars, reconVars, histVars,
                 boundVars, faults>>

\* ignoreCallbackWhenReconnecting: what becomes of the reconnection when this
\* event comes, and whether the user hears nothing of the event.
Noted(e) ==
  IF /\ use.continued /\ e.ev = "TaskFailed" /\ e.flag
     /\ recon.state \in {"NoReconnection", "NewReconnectionStarting"}
    THEN [state |-> "WillReconnect", count |-> recon.count + 1]
    ELSE recon
Mending(e) ==
  /\ use.continued /\ e.ev \in {"TaskFailed", "Close"}
  /\ Noted(e).state \in {"WillReconnect", "TriggerReconnection"}

Hidden(e) == Mending(e) /\ Noted(e).count =< max_try_count

\* handlerFrame up to the callback.
Tell(t) ==
  /\ At(t, "tell")
  /\ LET e == Head(todo[t])
     IN  /\ recon' = IF Mending(e) /\ ~Hidden(e)
                       THEN [Noted(e) EXCEPT !.state = "NoReconnection"]
                       ELSE Noted(e)
         /\ told' = IF Hidden(e) THEN told
                    ELSE Append(told, [ev |-> e.ev, by |-> t])
         /\ late' = IF exit = "Cancel" /\ ~Hidden(e)
                      THEN [late EXCEPT ![t] = @ + 1] ELSE late
         /\ Go(t, <<Event("after", e.ev, Hidden(e))>>)
  /\ UNCHANGED <<status, sockVars, bufVars, exitVars, retry, attempts, mends,
                 boundVars, faults>>

\* handlerFrame and handlerEvent after the callback: nodeReconnecting.
AfterClose(t) ==
  /\ At(t, "after") /\ Head(todo[t]).ev = "Close"
  /\ LET will == recon.state = "WillReconnect"
         hidden == Head(todo[t]).flag
     IN  /\ armed' = IF will THEN armed \cup {"reconnect"} ELSE armed
         /\ recon' = [state |-> IF will THEN "TriggerReconnection"
                                        ELSE recon.state,
                      count |-> IF hidden THEN recon.count ELSE 0]
  /\ retry' = 0
  /\ status' = "Closed"
  /\ Go(t, <<>>)
  /\ UNCHANGED <<connected, fd, timerFlag, bufVars, exitVars, histVars,
                 boundVars, faults>>

AfterOther(t) ==
  /\ At(t, "after") /\ Head(todo[t]).ev # "Close"
  /\ Go(t, <<>>)
  /\ UNCHANGED <<status, sockVars, bufVars, exitVars, reconVars, histVars,
                 boundVars, faults>>

\* parseFrame after handlerFrame.
SetStarted ==
  /\ At("work", "set") /\ Head(todo["work"]).ev = "Started"
  /\ status' = "Started"
  /\ recon' = [recon EXCEPT !.state = "NoReconnection"]
  /\ Go("work", <<>>)
  /\ UNCHANGED <<sockVars, bufVars, exitVars, retry, histVars, boundVars,
                 faults>>

SetEnded ==
  /\ At("work", "set") /\ Head(todo["work"]).ev # "Started"
  /\ LET failed == Head(todo["work"]).ev = "TaskFailed"
     IN  /\ status' = IF failed THEN "Failed" ELSE "Completed"
         /\ Go("work", (IF failed \/ ~use.long
                          THEN <<Step("close")>> ELSE <<>>)
                         \o <<Event("check", "Close", FALSE)>>)
  /\ UNCHANGED <<sockVars, bufVars, exitVars, reconVars, histVars, boundVars,
                 faults>>

\* closeConnectNode: the events go with the socket, but for that of the
\* reconnection and the answer of evdns.
Close ==
  /\ At("work", "close")
  /\ fd' = FALSE /\ connected' = FALSE /\ timerFlag' = FALSE /\ peer' = "none"
  /\ armed' = armed \cap {"reconnect", "dns"}
  /\ Go("work", <<>>)
  /\ UNCHANGED <<status, cmd, audio, exitVars, reconVars, histVars, boundVars,
                 faults>>

\* disconnectProcess, and before another try the status with it.
Disconnect(t) ==
  /\ At(t, "disconnect") \/ At(t, "reconnect")
  /\ fd' = FALSE /\ connected' = FALSE /\ peer' = "none"
  /\ status' = IF At(t, "reconnect") THEN "Connecting" ELSE status
  /\ Go(t, <<>>)
  /\ UNCHANGED <<armed, timerFlag, cmd, audio, exitVars, reconVars, histVars,
                 boundVars, faults>>

\* destroyConnectNode with updateDestroyStatus: the second time for a node the
\* request is deleted, and the node with it.
Destroy ==
  /\ At("work", "destroy")
  /\ isDestroy' = TRUE
  /\ deleted' = isDestroy
  /\ Go("work", <<>>)
  /\ UNCHANGED <<status, sockVars, bufVars, exit, isStop, reconVars, histVars,
                 boundVars, faults>>

-----------------------------------------------------------------------------
UserNext == Start \/ StartRefused \/ Stop \/ Cancel \/ SendAudio
EventNext ==
  \/ \E e \in NodeEvents : Launch(e) \/ ConnectReady(e)
  \/ Resolved \/ Write \/ ReadCancelled \/ GatewayResponse
  \/ ReadStarted \/ ReadCompleted \/ ReadTaskFailed \/ ReadDirty \/ ReadFails
WorkNext ==
  \/ DnsConnected \/ DnsConnect \/ DnsGivesUp \/ DnsCancelled
  \/ Connect \/ SslWaits \/ SslEnds \/ NodeRequestProcess \/ SendStart \/ Flush
  \/ SetStarted \/ SetEnded \/ Close \/ Destroy \/ Respond
ThreadNext(t) ==
  Control(t) \/ Check(t) \/ Tell(t) \/ AfterClose(t) \/ AfterOther(t)
    \/ Disconnect(t)

Next == UserNext \/ EventNext \/ WorkNext \/ Push \/ Unlock
          \/ \E t \in Threads : ThreadNext(t)

Spec == Init /\ [][Next]_vars

\* The scheduler runs both threads; libevent fires what is ready and what has
\* timed out; a handshake of SSL that goes on ends some time, and the gateway
\* answers a command or the connection breaks.
Fairness ==
  /\ WF_vars(WorkNext \/ ThreadNext("work"))
  /\ WF_vars(Push \/ Unlock \/ ThreadNext("caller"))
  /\ \A e \in NodeEvents : WF_vars(Launch(e)) /\ WF_vars(ConnectReady(e))
  /\ WF_vars(Resolved) /\ WF_vars(Write) /\ SF_vars(SslEnds)
  /\ WF_vars(GatewayResponse \/ ReadStarted \/ ReadCompleted
               \/ ReadTaskFailed \/ ReadFails)

FairSpec == Spec /\ Fairness

-----------------------------------------------------------------------------
TypeOK ==
  /\ status \in ConnectStatus /\ exit \in {"Invalid", "Stopping", "Cancel"}
  /\ {isStop, isDestroy, deleted, connected, fd, timerFlag, audio}
       \subseteq BOOLEAN
  /\ armed \subseteq NodeEvents
  /\ cmd \in Seq({"shake", "start", "stop"}) /\ peer \in PeerStates
  /\ retry \in 0..RetryConnectCount /\ recon \in ReconFields
  /\ todo \in [Threads -> Seq(StepType)]
  /\ told \in Seq([ev : UserEvents, by : Threads])
  /\ attempts \in Nat /\ mends \in Nat /\ late \in [Threads -> Nat]
  /\ use \in Uses /\ starts \in 0..use.starts
  /\ sends \in 0..use.sends /\ faults \in 0..use.faults

Idle == \A t \in Threads : todo[t] = <<>>

\* When a request is started again another thread may still close the session
\* before; what is said of a session by itself is said of the first.
FirstOnly == use.starts = 1

\* Two threads that report the failure of one connection clear the counters
\* that the other goes by (AfterClose) and close the socket that it opens. It
\* can be so when audio is sent and the SDK mends or a second session follows,
\* and, in a second session that the SDK mends, when the caller stops or when a
\* start is refused while the reconnection is due. In the other uses, which are
\* these, a session is in one thread's hands at a time.
Orderly ==
  \/ FirstOnly /\ ~use.continued
  \/ /\ use.sends = 0
     /\ use.continued => FirstOnly \/ (use.long /\ ~use.stops)

\* From a launch to the report of its failure, or to the next launch, no more
\* than RetryConnectCount tries are made (checkConnectCount), each with its own
\* address and socket, whatever the callbacks of earlier rounds left in the
\* counter. A connect repeated on the socket of a try (ConnectReady) is none.
TriesBounded == Orderly => attempts =< RetryConnectCount

\* What max_try_count says: the SDK mends no more failures of one session than
\* that. Two threads that report one failure break it (Orderly).
MendsBounded == mends =< max_try_count

\* connectProcess overwrites the socket of the node: it is reached only when
\* the last socket is closed, on every path that tries to connect again.
NoSocketLost == Orderly /\ At("work", "connect") => ~fd

\* A session in progress never sleeps for good: when no thread works for it,
\* some event of libevent is armed that leads on, and after the handshake the
\* socket is open and read.
NeverDeaf ==
  FirstOnly /\ Orderly /\ Idle /\ ~deleted /\ exit # "Cancel" =>
    /\ status = "Invoking" => "launch" \in armed
    /\ status \in Between("Connecting", "Handshaking") =>
         armed \cap {"dns", "connect", "timer"} # {}
    /\ status \in Between("Handshaking", "Failed") => fd /\ "read" \in armed

\* Without automatic reconnection commands reach the gateway in an order that it
\* can make something of: the handshake first on each connection, and one start
\* and one stop after it. (A reconnection may send first what a failed send of
\* the last connection left in the buffer, and so may a second start.)
InOrder == FirstOnly /\ ~use.continued => peer # "lost"

\* The callbacks of a session are what Session allows, with the work thread
\* and the thread that sends audio as its reporters.
S == INSTANCE Session WITH
       Reporters <- Threads,
       told <- IF FirstOnly /\ Orderly THEN told ELSE <<>>
TellsSession == S!Spec

\* Without automatic reconnection a start is answered: a callback comes, unless
\* the user stops or cancels.
StartAnswered ==
  FirstOnly /\ status = "Invoking" /\ ~use.continued
    ~> told # <<>> \/ exit # "Invalid"

\* What the SDK says of start: its success and its failure are both reported,
\* with automatic reconnection too.
Answered == status = "Invoking" ~> told # <<>> \/ exit # "Invalid"

\* What the SDK says of cancel: no callback is made after it.
CancelSilences == \A t \in Threads : late[t] = 0

\* What the code gives instead: each thread makes at most the one callback that
\* it had decided on before (handlerEvent looks first and calls later).
OneLateCallback == \A t \in Threads : late[t] =< 1
=============================================================================
