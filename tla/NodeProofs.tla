----------------------------- MODULE NodeProofs -----------------------------
(***************************************************************************)
(* Proofs about Node, for every use of a request and any number of         *)
(* connects and reconnections; they rest on NodeAssumption only. What a    *)
(* thread still has to do is a list of steps, and everything depends on    *)
(* which step may follow which: WorkRest and CallRest say it of the two    *)
(* threads, and Planned, that the lists are such, is the invariant. With   *)
(* it and the types (Sound) the lemma of an action says what its step is,  *)
(* what comes after it, and that Sound holds again.                        *)
(***************************************************************************)
EXTENDS Node, SequenceTheorems, TLAPS

-----------------------------------------------------------------------------
\* Lists of steps. Short lists are taken apart and put together.
LEMMA Lists ==
  /\ \A a : Head(<<a>>) = a /\ Tail(<<a>>) = <<>> /\ <<a>> # <<>>
  /\ \A a, b : Head(<<a, b>>) = a /\ Tail(<<a, b>>) = <<b>> /\ <<a, b>> # <<>>
  /\ \A a, b, d : /\ Head(<<a, b, d>>) = a /\ Tail(<<a, b, d>>) = <<b, d>>
                  /\ <<a, b, d>> # <<>>
  /\ \A a, b, d, e : /\ Head(<<a, b, d, e>>) = a
                     /\ Tail(<<a, b, d, e>>) = <<b, d, e>>
                     /\ <<a, b, d, e>> # <<>>
OBVIOUS

LEMMA ListsTyped ==
  ASSUME NEW T
  PROVE  /\ <<>> \in Seq(T)
         /\ \A a \in T : <<a>> \in Seq(T)
         /\ \A a, b \in T : <<a, b>> \in Seq(T)
         /\ \A a, b, d \in T : <<a, b, d>> \in Seq(T)
         /\ \A a, b, d, e \in T : <<a, b, d, e>> \in Seq(T)
OBVIOUS

LEMMA ListByElements ==
  ASSUME NEW T, NEW q \in Seq(T)
  PROVE  /\ Len(q) = 2 => q = <<q[1], q[2]>>
         /\ Len(q) = 3 => q = <<q[1], q[2], q[3]>>
         /\ Len(q) = 4 => q = <<q[1], q[2], q[3], q[4]>>
OBVIOUS

LEMMA JoinByElements ==
  ASSUME NEW T, NEW p \in Seq(T), NEW q \in Seq(T)
  PROVE  /\ Len(p) = 1 /\ Len(q) = 1 => p \o q = <<p[1], q[1]>>
         /\ Len(p) = 1 /\ Len(q) = 2 => p \o q = <<p[1], q[1], q[2]>>
         /\ Len(p) = 2 /\ Len(q) = 1 => p \o q = <<p[1], p[2], q[1]>>
         /\ Len(p) = 3 /\ Len(q) = 1 => p \o q = <<p[1], p[2], p[3], q[1]>>
<1> DEFINE r == p \o q
<1>1. /\ r \in Seq(T) /\ Len(r) = Len(p) + Len(q)
      /\ \A i \in 1..Len(p) : r[i] = p[i]
      /\ \A i \in 1..Len(q) : r[Len(p) + i] = q[i]
  BY ConcatProperties
<1> HIDE DEF r
<1>2. Len(p) = 1 /\ Len(q) = 1 => r = <<p[1], q[1]>>
  BY <1>1, ListByElements
<1>3. Len(p) = 1 /\ Len(q) = 2 => r = <<p[1], q[1], q[2]>>
  BY <1>1, ListByElements
<1>4. Len(p) = 2 /\ Len(q) = 1 => r = <<p[1], p[2], q[1]>>
  BY <1>1, ListByElements
<1>5. Len(p) = 3 /\ Len(q) = 1 => r = <<p[1], p[2], p[3], q[1]>>
  BY <1>1, ListByElements
<1> QED
  BY <1>2, <1>3, <1>4, <1>5 DEF r

LEMMA Join ==
  /\ \A a, b : <<a>> \o <<b>> = <<a, b>>
  /\ \A a, b, d : <<a>> \o <<b, d>> = <<a, b, d>>
  /\ \A a, b, d : <<a, b>> \o <<d>> = <<a, b, d>>
  /\ \A a, b, d, e : <<a, b, d>> \o <<e>> = <<a, b, d, e>>
<1>1. ASSUME NEW a, NEW b PROVE <<a>> \o <<b>> = <<a, b>>
  <2> DEFINE p == <<a>>  q == <<b>>
  <2>1. /\ p \in Seq({a, b}) /\ Len(p) = 1 /\ p[1] = a
        /\ q \in Seq({a, b}) /\ Len(q) = 1 /\ q[1] = b
    OBVIOUS
  <2> HIDE DEF p, q
  <2>2. p \o q = <<a, b>>
    BY <2>1, JoinByElements
  <2> QED
    BY <2>2 DEF p, q
<1>2. ASSUME NEW a, NEW b, NEW d PROVE <<a>> \o <<b, d>> = <<a, b, d>>
  <2> DEFINE p == <<a>>  q == <<b, d>>
  <2>1. /\ p \in Seq({a, b, d}) /\ Len(p) = 1 /\ p[1] = a
        /\ q \in Seq({a, b, d}) /\ Len(q) = 2 /\ q[1] = b /\ q[2] = d
    OBVIOUS
  <2> HIDE DEF p, q
  <2>2. p \o q = <<a, b, d>>
    BY <2>1, JoinByElements
  <2> QED
    BY <2>2 DEF p, q
<1>3. ASSUME NEW a, NEW b, NEW d PROVE <<a, b>> \o <<d>> = <<a, b, d>>
  <2> DEFINE p == <<a, b>>  q == <<d>>
  <2>1. /\ p \in Seq({a, b, d}) /\ Len(p) = 2 /\ p[1] = a /\ p[2] = b
        /\ q \in Seq({a, b, d}) /\ Len(q) = 1 /\ q[1] = d
    OBVIOUS
  <2> HIDE DEF p, q
  <2>2. p \o q = <<a, b, d>>
    BY <2>1, JoinByElements
  <2> QED
    BY <2>2 DEF p, q
<1>4. ASSUME NEW a, NEW b, NEW d, NEW e
      PROVE  <<a, b, d>> \o <<e>> = <<a, b, d, e>>
  <2> DEFINE p == <<a, b, d>>  q == <<e>>
  <2>1. /\ p \in Seq({a, b, d, e}) /\ Len(p) = 3 /\ p[1] = a /\ p[2] = b /\ p[3] = d
        /\ q \in Seq({a, b, d, e}) /\ Len(q) = 1 /\ q[1] = e
    OBVIOUS
  <2> HIDE DEF p, q
  <2>2. p \o q = <<a, b, d, e>>
    BY <2>1, JoinByElements
  <2> QED
    BY <2>2 DEF p, q
<1> QED
  BY <1>1, <1>2, <1>3, <1>4

LEMMA JoinEmpty ==
  ASSUME NEW T, NEW q \in Seq(T)
  PROVE  <<>> \o q = q /\ q \o <<>> = q
OBVIOUS

LEMMA JoinOne ==
  ASSUME NEW T, NEW a \in T, NEW q \in Seq(T)
  PROVE  /\ <<a>> \o q \in Seq(T) /\ <<a>> \o q # <<>>
         /\ Head(<<a>> \o q) = a /\ Tail(<<a>> \o q) = q
OBVIOUS

\* The steps that the actions give to a thread are steps.
LEMMA StepTyped ==
  /\ \A op \in Ops : Step(op) \in StepType
  /\ \A op \in Ops, ev \in UserEvents \cup {"none"}, b \in BOOLEAN :
       Event(op, ev, b) \in StepType
BY DEF Step, Event, StepType

\* What a failure leaves to do, step by step.
LEMMA FailureSteps ==
  ASSUME NEW m \in BOOLEAN
  PROVE  LET T == Event("check", "TaskFailed", m)
             C == Event("check", "Close", FALSE)
         IN  /\ Report(m) = <<T, C>>
             /\ RequestFailed(m) = <<T, C, Step("close")>>
             /\ ResponseFailed(m) = <<Step("close"), T, C>>
             /\ CallFailed(m) = <<Step("disconnect"), T, C>>
             /\ Report(m) \o <<Step("destroy")>> = <<T, C, Step("destroy")>>
             /\ RequestFailed(m) \o <<Step("destroy")>> =
                  <<T, C, Step("close"), Step("destroy")>>
<1> DEFINE T == Event("check", "TaskFailed", m)
           C == Event("check", "Close", FALSE)
<1>1. T \in StepType /\ C \in StepType /\ \A op \in Ops : Step(op) \in StepType
  BY StepTyped DEF Ops, UserEvents
<1>2. Report(m) = <<T, C>>
  BY DEF Report
<1>3. {"close", "disconnect", "destroy"} \subseteq Ops
  BY DEF Ops
<1> HIDE DEF T, C
<1>4. RequestFailed(m) = <<T, C, Step("close")>>
  BY <1>1, <1>2, <1>3, Join DEF RequestFailed
<1>5. ResponseFailed(m) = <<Step("close"), T, C>>
  BY <1>1, <1>2, <1>3, Join DEF ResponseFailed
<1>6. CallFailed(m) = <<Step("disconnect"), T, C>>
  BY <1>1, <1>2, <1>3, Join DEF CallFailed
<1>7. Report(m) \o <<Step("destroy")>> = <<T, C, Step("destroy")>>
  BY <1>1, <1>2, <1>3, Join
<1>8. RequestFailed(m) \o <<Step("destroy")>>
        = <<T, C, Step("close"), Step("destroy")>>
  BY <1>1, <1>3, <1>4, Join
<1> QED
  BY <1>2, <1>4, <1>5, <1>6, <1>7, <1>8 DEF T, C

LEMMA FailureTyped ==
  ASSUME NEW m \in BOOLEAN
  PROVE  /\ Report(m) \in Seq(StepType)
         /\ RequestFailed(m) \in Seq(StepType)
         /\ ResponseFailed(m) \in Seq(StepType)
         /\ CallFailed(m) \in Seq(StepType)
         /\ Report(m) \o <<Step("destroy")>> \in Seq(StepType)
         /\ RequestFailed(m) \o <<Step("destroy")>> \in Seq(StepType)
<1> DEFINE T == Event("check", "TaskFailed", m)
           C == Event("check", "Close", FALSE)
<1>1. T \in StepType /\ C \in StepType /\ \A op \in Ops : Step(op) \in StepType
  BY StepTyped DEF Ops, UserEvents
<1>2. {"close", "disconnect", "destroy"} \subseteq Ops
  BY DEF Ops
<1> HIDE DEF T, C
<1>3. /\ <<T, C>> \in Seq(StepType)
      /\ <<T, C, Step("close")>> \in Seq(StepType)
      /\ <<Step("close"), T, C>> \in Seq(StepType)
      /\ <<Step("disconnect"), T, C>> \in Seq(StepType)
      /\ <<T, C, Step("destroy")>> \in Seq(StepType)
      /\ <<T, C, Step("close"), Step("destroy")>> \in Seq(StepType)
  BY <1>1, <1>2, ListsTyped
<1> QED
  BY <1>3, FailureSteps DEF T, C

\* The list of a thread that goes on or begins, and the other's.
LEMMA GoList ==
  ASSUME TypeOK, NEW t \in Threads, todo[t] # <<>>,
         NEW s \in Seq(StepType), Go(t, s)
  PROVE  /\ todo' \in [Threads -> Seq(StepType)]
         /\ todo'[t] = s \o Tail(todo[t])
         /\ \A u \in Threads \ {t} : todo'[u] = todo[u]
         /\ Head(todo[t]) \in StepType /\ Tail(todo[t]) \in Seq(StepType)
<1>1. todo[t] \in Seq(StepType)
  BY DEF TypeOK
<1>2. Head(todo[t]) \in StepType /\ Tail(todo[t]) \in Seq(StepType)
  BY <1>1, HeadTailProperties
<1>3. s \o Tail(todo[t]) \in Seq(StepType)
  BY <1>2, ConcatProperties
<1> QED
  BY <1>2, <1>3 DEF Go, TypeOK

LEMMA BeginList ==
  ASSUME TypeOK, NEW t \in Threads, NEW s \in Seq(StepType), Begin(t, s)
  PROVE  /\ todo' \in [Threads -> Seq(StepType)] /\ todo[t] = <<>>
         /\ todo'[t] = s /\ \A u \in Threads \ {t} : todo'[u] = todo[u]
BY DEF Begin, TypeOK

-----------------------------------------------------------------------------
\* The lists that the threads may have: what comes after a step is one of few
\* lists, that depend on the step.
Told == {"check", "tell", "after"}
CheckClose == Event("check", "Close", FALSE)
CheckFailed(m) == Event("check", "TaskFailed", m)
Set(ev) == Event("set", ev, FALSE)
FlushFrame == Event("flush", "none", TRUE)
Single == {"dns", "connect", "ssl", "request", "start", "flush", "control",
         "destroy", "respond"}

\* What the work thread may have left to do after it has told Close, and after
\* it has told TaskFailed.
Ends == {<<>>, <<Step("close")>>, <<Step("close"), Step("destroy")>>,
         <<Step("destroy")>>, <<Step("respond")>>}
Failures == {<<CheckClose>>, <<CheckClose, Step("close")>>,
             <<CheckClose, Step("close"), Step("destroy")>>,
             <<CheckClose, Step("destroy")>>,
             <<Step("close"), CheckClose, Step("respond")>>}

WorkRest(e, r) ==
  /\ e.op \notin {"push", "unlock", "disconnect"}
  /\ e.op \in Single => r = <<>>
  /\ e.op = "reconnect" => r = <<Step("dns")>>
  /\ e.op = "close" => e = Step("close")
  /\ e.op = "close" =>
       \/ r \in {<<>>, <<Step("destroy")>>, <<CheckClose>>,
                 <<CheckClose, Step("respond")>>}
       \/ \E m \in BOOLEAN : r = <<CheckFailed(m), CheckClose>>
  /\ e.op = "set" =>
       /\ e.ev \in {"Started", "TaskFailed", "Completed"}
       /\ r = <<>> \/ (e.ev = "Started" /\ r = <<FlushFrame>>)
  /\ e.op \in Told =>
       /\ e.ev # "none" /\ (e.op = "check" => e.ev \in {"TaskFailed", "Close"})
       /\ e.ev = "Close" => r \in Ends
       /\ e.ev = "TaskFailed" =>
            r \in Failures \/ (e.op # "check" /\ r = <<Set("TaskFailed")>>)
       /\ e.ev = "Started" =>
            r \in {<<Set("Started")>>, <<Set("Started"), FlushFrame>>}
       /\ e.ev = "Completed" => r = <<Set("Completed")>>

\* The caller ends a stop with the unlock, and a push with nothing.
CallRest(e, r) ==
  /\ e.op \in Told \cup {"push", "control", "disconnect", "unlock"}
  /\ e.op \in {"push", "unlock"} => r = <<>>
  /\ e.op = "push" => use.sends > 0
  /\ e.op = "unlock" => use.stops
  /\ e.op \in {"push", "control"} => ~e.flag
  /\ e.op = "control" => \/ use.sends > 0 /\ r = <<>>
                         \/ use.stops /\ r = <<Step("unlock")>>
  /\ e.op = "disconnect" =>
       \E m \in BOOLEAN :
         \/ use.sends > 0 /\ r = <<CheckFailed(m), CheckClose>>
         \/ use.stops /\ r = <<CheckFailed(m), CheckClose, Step("unlock")>>
  /\ e.op \in Told =>
       /\ e.ev \in {"TaskFailed", "Close"}
       /\ e.ev = "TaskFailed" =>
            \/ use.sends > 0 /\ r = <<CheckClose>>
            \/ use.stops /\ r = <<CheckClose, Step("unlock")>>
       /\ e.ev = "Close" => \/ use.sends > 0 /\ r = <<>>
                            \/ use.stops /\ r = <<Step("unlock")>>

WorkList(q) == q # <<>> => WorkRest(Head(q), Tail(q))
CallList(q) == q # <<>> => CallRest(Head(q), Tail(q))
Planned == WorkList(todo["work"]) /\ CallList(todo["caller"])

LEMMA Fields ==
  /\ \A op : Step(op).op = op /\ Step(op).ev = "none" /\ Step(op).flag = FALSE
  /\ \A op, ev, b : /\ Event(op, ev, b).op = op /\ Event(op, ev, b).ev = ev
                    /\ Event(op, ev, b).flag = b
  /\ \A op, ev : /\ Event(op, ev, FALSE).op = op /\ Event(op, ev, FALSE).ev = ev
                 /\ Event(op, ev, FALSE).flag = FALSE
  /\ \A op, ev : /\ Event(op, ev, TRUE).op = op /\ Event(op, ev, TRUE).ev = ev
                 /\ Event(op, ev, TRUE).flag = TRUE
  /\ CheckClose.op = "check" /\ CheckClose.ev = "Close"
  /\ CheckClose.flag = FALSE
  /\ \A m : /\ CheckFailed(m).op = "check" /\ CheckFailed(m).ev = "TaskFailed"
            /\ CheckFailed(m).flag = m
  /\ \A ev : Set(ev).op = "set" /\ Set(ev).ev = ev /\ Set(ev).flag = FALSE
  /\ FlushFrame.op = "flush" /\ FlushFrame.ev = "none" /\ FlushFrame.flag = TRUE
BY DEF Step, Event, CheckClose, CheckFailed, Set, FlushFrame

-----------------------------------------------------------------------------
\* The steps that the actions name, by their operations.
LEMMA StepOps ==
  /\ Step("none").op = "none" /\ Step("dns").op = "dns"
  /\ Step("connect").op = "connect" /\ Step("ssl").op = "ssl"
  /\ Step("reconnect").op = "reconnect" /\ Step("close").op = "close"
  /\ Step("request").op = "request" /\ Step("start").op = "start"
  /\ Step("destroy").op = "destroy" /\ Step("flush").op = "flush"
  /\ Step("push").op = "push" /\ Step("control").op = "control"
  /\ Step("disconnect").op = "disconnect"
  /\ CheckClose.op = "check" /\ CheckClose.ev = "Close"
  /\ CheckClose.flag = FALSE
  /\ Set("Started").op = "set" /\ Set("Started").ev = "Started"
  /\ Set("TaskFailed").op = "set" /\ Set("TaskFailed").ev = "TaskFailed"
  /\ Set("Completed").op = "set" /\ Set("Completed").ev = "Completed"
BY Fields

LEMMA WorkRests ==
  /\ \A op \in Single : WorkRest(Step(op), <<>>)
  /\ \A op \in Single, b \in BOOLEAN : WorkRest(Event(op, "none", b), <<>>)
  /\ WorkRest(FlushFrame, <<>>)
  /\ WorkRest(Step("reconnect"), <<Step("dns")>>)
  /\ \A r \in {<<>>, <<Step("destroy")>>, <<CheckClose>>,
               <<CheckClose, Step("respond")>>} : WorkRest(Step("close"), r)
  /\ \A m \in BOOLEAN : WorkRest(Step("close"), <<CheckFailed(m), CheckClose>>)
  /\ \A ev \in {"Started", "TaskFailed", "Completed"} : WorkRest(Set(ev), <<>>)
  /\ WorkRest(Set("Started"), <<FlushFrame>>)
  /\ \A r \in Ends : WorkRest(CheckClose, r)
  /\ \A m \in BOOLEAN, r \in Failures : WorkRest(CheckFailed(m), r)
  /\ \A r \in {<<Set("Started")>>, <<Set("Started"), FlushFrame>>} :
       WorkRest(Event("tell", "Started", FALSE), r)
  /\ WorkRest(Event("tell", "Completed", FALSE), <<Set("Completed")>>)
  /\ \A m \in BOOLEAN :
       WorkRest(Event("tell", "TaskFailed", m), <<Set("TaskFailed")>>)
<1> USE Fields DEF WorkRest, Single, Told
<1>1. \A op \in Single : WorkRest(Step(op), <<>>)
  OBVIOUS
<1>2. \A op \in Single, b \in BOOLEAN : WorkRest(Event(op, "none", b), <<>>)
  OBVIOUS
<1>3. WorkRest(FlushFrame, <<>>) /\ WorkRest(Step("reconnect"), <<Step("dns")>>)
  OBVIOUS
<1>4. \A r \in {<<>>, <<Step("destroy")>>, <<CheckClose>>,
                <<CheckClose, Step("respond")>>} : WorkRest(Step("close"), r)
  OBVIOUS
<1>5. \A m \in BOOLEAN : WorkRest(Step("close"), <<CheckFailed(m), CheckClose>>)
  OBVIOUS
<1>6. /\ \A ev \in {"Started", "TaskFailed", "Completed"} :
           WorkRest(Set(ev), <<>>)
      /\ WorkRest(Set("Started"), <<FlushFrame>>)
  OBVIOUS
<1>7. \A r \in Ends : WorkRest(CheckClose, r)
  OBVIOUS
<1>8. \A m \in BOOLEAN, r \in Failures : WorkRest(CheckFailed(m), r)
  OBVIOUS
<1>9. \A e, r : /\ e.op = "tell" /\ e.ev = "Started"
                /\ r \in {<<Set("Started")>>, <<Set("Started"), FlushFrame>>}
                => WorkRest(e, r)
  OBVIOUS
<1>10. \A e : /\ e.op = "tell" /\ e.ev = "Completed"
              => WorkRest(e, <<Set("Completed")>>)
  OBVIOUS
<1>11. \A e : /\ e.op = "tell" /\ e.ev = "TaskFailed"
              => WorkRest(e, <<Set("TaskFailed")>>)
  OBVIOUS
<1> HIDE DEF WorkRest, Single, Told
<1>12. \A r \in {<<Set("Started")>>, <<Set("Started"), FlushFrame>>} :
         WorkRest(Event("tell", "Started", FALSE), r)
  BY <1>9 DEF Event
<1>13. WorkRest(Event("tell", "Completed", FALSE), <<Set("Completed")>>)
  BY <1>10 DEF Event
<1>14. \A m \in BOOLEAN :
         WorkRest(Event("tell", "TaskFailed", m), <<Set("TaskFailed")>>)
  BY <1>11
<1> HIDE Fields
<1> QED
  BY <1>1, <1>2, <1>3, <1>4, <1>5, <1>6, <1>7, <1>8, <1>12, <1>13, <1>14

LEMMA ListHeads ==
  /\ \A op : Head(<<Step(op)>>) = Step(op) /\ Tail(<<Step(op)>>) = <<>>
  /\ /\ Head(<<Step("close"), Step("destroy")>>) = Step("close")
     /\ Tail(<<Step("close"), Step("destroy")>>) = <<Step("destroy")>>
  /\ Head(<<CheckClose>>) = CheckClose /\ Tail(<<CheckClose>>) = <<>>
  /\ \A x : /\ Head(<<CheckClose, x>>) = CheckClose
            /\ Tail(<<CheckClose, x>>) = <<x>>
  /\ \A x, y : /\ Head(<<CheckClose, x, y>>) = CheckClose
               /\ Tail(<<CheckClose, x, y>>) = <<x, y>>
  /\ \A x, y : /\ Head(<<Step("close"), x, y>>) = Step("close")
               /\ Tail(<<Step("close"), x, y>>) = <<x, y>>
  /\ \A m, x : /\ Head(<<CheckFailed(m), x>>) = CheckFailed(m)
               /\ Tail(<<CheckFailed(m), x>>) = <<x>>
  /\ \A ev : Head(<<Set(ev)>>) = Set(ev) /\ Tail(<<Set(ev)>>) = <<>>
  /\ \A ev, x : Head(<<Set(ev), x>>) = Set(ev) /\ Tail(<<Set(ev), x>>) = <<x>>
  /\ Head(<<FlushFrame>>) = FlushFrame /\ Tail(<<FlushFrame>>) = <<>>
OBVIOUS

\* A list of the work thread goes on to be one when its first step is done.
LEMMA WorkPops ==
  ASSUME NEW e \in StepType, NEW r, WorkRest(e, r)
  PROVE  WorkList(r)
<1> SUFFICES ASSUME r # <<>> PROVE WorkRest(Head(r), Tail(r))
  BY DEF WorkList
<1>0. e.op \in Ops
  BY DEF StepType
<1>1. CASE e.op = "reconnect"
  <2>1. r = <<Step("dns")>>
    BY <1>1 DEF WorkRest
  <2> QED
    BY <2>1, WorkRests, ListHeads DEF Single
<1>2. CASE e.op = "close"
  <2>1. \/ r \in {<<Step("destroy")>>, <<CheckClose>>,
                  <<CheckClose, Step("respond")>>}
        \/ \E m \in BOOLEAN : r = <<CheckFailed(m), CheckClose>>
    BY <1>2 DEF WorkRest
  <2>2. CASE r = <<Step("destroy")>>
    BY <2>2, WorkRests, ListHeads DEF Single
  <2>3. CASE r = <<CheckClose>>
    BY <2>3, WorkRests, ListHeads DEF Ends
  <2>4. CASE r = <<CheckClose, Step("respond")>>
    BY <2>4, WorkRests, ListHeads DEF Ends
  <2>5. CASE \E m \in BOOLEAN : r = <<CheckFailed(m), CheckClose>>
    BY <2>5, WorkRests, ListHeads DEF Failures
  <2> QED
    BY <2>1, <2>2, <2>3, <2>4, <2>5
<1>3. CASE e.op = "set"
  <2>1. r = <<FlushFrame>>
    BY <1>3 DEF WorkRest
  <2> QED
    BY <2>1, WorkRests, ListHeads
<1>4. CASE e.op \in Told
  <2>0. e.ev \in {"Started", "TaskFailed", "Completed", "Close"}
    BY <1>4 DEF WorkRest, StepType, UserEvents
  <2>1. CASE e.ev = "Close"
    <3>1. r \in {<<Step("close")>>, <<Step("close"), Step("destroy")>>,
                 <<Step("destroy")>>, <<Step("respond")>>}
      BY <1>4, <2>1 DEF WorkRest, Ends
    <3>2. CASE r = <<Step("close")>>
      BY <3>2, WorkRests, ListHeads
    <3>3. CASE r = <<Step("close"), Step("destroy")>>
      BY <3>3, WorkRests, ListHeads
    <3>4. CASE r = <<Step("destroy")>>
      BY <3>4, WorkRests, ListHeads DEF Single
    <3>5. CASE r = <<Step("respond")>>
      BY <3>5, WorkRests, ListHeads DEF Single
    <3> QED
      BY <3>1, <3>2, <3>3, <3>4, <3>5
  <2>2. CASE e.ev = "TaskFailed"
    <3>1. r \in Failures \/ r = <<Set("TaskFailed")>>
      BY <1>4, <2>2 DEF WorkRest
    <3>2. CASE r = <<CheckClose>>
      BY <3>2, WorkRests, ListHeads DEF Ends
    <3>3. CASE r = <<CheckClose, Step("close")>>
      BY <3>3, WorkRests, ListHeads DEF Ends
    <3>4. CASE r = <<CheckClose, Step("close"), Step("destroy")>>
      BY <3>4, WorkRests, ListHeads DEF Ends
    <3>5. CASE r = <<CheckClose, Step("destroy")>>
      BY <3>5, WorkRests, ListHeads DEF Ends
    <3>6. CASE r = <<Step("close"), CheckClose, Step("respond")>>
      BY <3>6, WorkRests, ListHeads
    <3>7. CASE r = <<Set("TaskFailed")>>
      BY <3>7, WorkRests, ListHeads
    <3> QED
      BY <3>1, <3>2, <3>3, <3>4, <3>5, <3>6, <3>7 DEF Failures
  <2>3. CASE e.ev = "Started"
    <3>1. r \in {<<Set("Started")>>, <<Set("Started"), FlushFrame>>}
      BY <1>4, <2>3 DEF WorkRest
    <3>2. CASE r = <<Set("Started")>>
      BY <3>2, WorkRests, ListHeads
    <3>3. CASE r = <<Set("Started"), FlushFrame>>
      BY <3>3, WorkRests, ListHeads
    <3> QED
      BY <3>1, <3>2, <3>3
  <2>4. CASE e.ev = "Completed"
    <3>1. r = <<Set("Completed")>>
      BY <1>4, <2>4 DEF WorkRest
    <3> QED
      BY <3>1, WorkRests, ListHeads
  <2> QED
    BY <2>0, <2>1, <2>2, <2>3, <2>4
<1>5. CASE e.op \in Single
  BY <1>5 DEF WorkRest
<1> QED
  BY <1>0, <1>1, <1>2, <1>3, <1>4, <1>5 DEF WorkRest, Ops, Single, Told

LEMMA CallHeads ==
  /\ \A m, x, y : /\ Head(<<CheckFailed(m), x, y>>) = CheckFailed(m)
                  /\ Tail(<<CheckFailed(m), x, y>>) = <<x, y>>
  /\ \A m, x, y, z :
       /\ Head(<<Step("disconnect"), CheckFailed(m), x>>) = Step("disconnect")
       /\ Tail(<<Step("disconnect"), CheckFailed(m), x>>) = <<CheckFailed(m), x>>
       /\ Head(<<Step("disconnect"), CheckFailed(m), x, y>>) = Step("disconnect")
       /\ Tail(<<Step("disconnect"), CheckFailed(m), x, y>>)
            = <<CheckFailed(m), x, y>>
OBVIOUS

\* So does a list of the caller.
LEMMA CallPops ==
  ASSUME NEW e \in StepType, NEW r, CallRest(e, r)
  PROVE  CallList(r)
<1> SUFFICES ASSUME r # <<>> PROVE CallRest(Head(r), Tail(r))
  BY DEF CallList
<1>1. use.stops => CallRest(Step("unlock"), <<>>)
  BY Fields DEF CallRest, Told
<1>2. /\ use.sends > 0 => CallRest(CheckClose, <<>>)
      /\ use.stops => CallRest(CheckClose, <<Step("unlock")>>)
  BY Fields DEF CallRest, Told
<1>3. ASSUME NEW m \in BOOLEAN
      PROVE  /\ use.sends > 0 => CallRest(CheckFailed(m), <<CheckClose>>)
             /\ use.stops =>
                  CallRest(CheckFailed(m), <<CheckClose, Step("unlock")>>)
  BY Fields DEF CallRest, Told
<1>4. CASE e.op = "disconnect"
  <2>1. PICK m \in BOOLEAN :
          \/ use.sends > 0 /\ r = <<CheckFailed(m), CheckClose>>
          \/ use.stops /\ r = <<CheckFailed(m), CheckClose, Step("unlock")>>
    BY <1>4 DEF CallRest
  <2>2. CASE use.sends > 0 /\ r = <<CheckFailed(m), CheckClose>>
    <3>1. Head(r) = CheckFailed(m) /\ Tail(r) = <<CheckClose>>
      BY <2>2, ListHeads
    <3> QED
      BY <3>1, <2>2, <1>3
  <2>3. CASE use.stops /\ r = <<CheckFailed(m), CheckClose, Step("unlock")>>
    <3>1. Head(r) = CheckFailed(m) /\ Tail(r) = <<CheckClose, Step("unlock")>>
      BY <2>3, CallHeads
    <3> QED
      BY <3>1, <2>3, <1>3
  <2> QED
    BY <2>1, <2>2, <2>3
<1>5. CASE e.op = "control" \/ (e.op \in Told /\ e.ev = "Close")
  <2>1. use.stops /\ r = <<Step("unlock")>>
    BY <1>5 DEF CallRest
  <2> QED
    BY <2>1, <1>1, ListHeads
<1>6. CASE e.op \in Told /\ e.ev = "TaskFailed"
  <2>1. \/ use.sends > 0 /\ r = <<CheckClose>>
        \/ use.stops /\ r = <<CheckClose, Step("unlock")>>
    BY <1>6 DEF CallRest
  <2>2. CASE use.sends > 0 /\ r = <<CheckClose>>
    BY <2>2, <1>2, ListHeads
  <2>3. CASE use.stops /\ r = <<CheckClose, Step("unlock")>>
    BY <2>3, <1>2, ListHeads
  <2> QED
    BY <2>1, <2>2, <2>3
<1> QED
  BY <1>4, <1>5, <1>6 DEF CallRest

\* The step of an event is replaced by the next one of the same event.
LEMMA RestOfEvent ==
  ASSUME NEW e, NEW d, NEW r, e.op \in Told, d.ev = e.ev,
         d.op \in {"tell", "after"}
  PROVE  /\ WorkRest(e, r) => WorkRest(d, r)
         /\ CallRest(e, r) => CallRest(d, r)
<1>1. WorkRest(e, r) => WorkRest(d, r)
  BY DEF WorkRest, Told, Single
<1>2. CallRest(e, r) => CallRest(d, r)
  BY DEF CallRest, Told
<1> QED
  BY <1>1, <1>2

-----------------------------------------------------------------------------
\* The step that a thread takes next, and whether the work thread has the
\* socket still to close. The end of a failed task closes it too.
First(q) == IF q = <<>> THEN Step("none") ELSE Head(q)
Now(t) == First(todo[t])
Closes(e) == e.op = "close" \/ (e.op = "set" /\ e.ev = "TaskFailed")
HasClose(q) == \E i \in 1..Len(q) : Closes(q[i])
Closing == HasClose(todo["work"])

\* What is left to do fails the session: it closes, and more than that.
Failing(q) == HasClose(q) /\ q \notin Ends

LEMMA HasCloseRec ==
  ASSUME NEW q \in Seq(StepType), q # <<>>
  PROVE  HasClose(q) <=> Closes(Head(q)) \/ HasClose(Tail(q))
<1>1. /\ Len(q) \in Nat \ {0} /\ Head(q) = q[1] /\ Tail(q) \in Seq(StepType)
      /\ Len(Tail(q)) = Len(q) - 1
      /\ \A i \in 1..Len(Tail(q)) : Tail(q)[i] = q[i + 1]
  BY HeadTailProperties
<1>2. ASSUME HasClose(q) PROVE Closes(Head(q)) \/ HasClose(Tail(q))
  <2>1. PICK i \in 1..Len(q) : Closes(q[i])
    BY <1>2 DEF HasClose
  <2>2. CASE i = 1
    BY <2>1, <2>2, <1>1
  <2>3. CASE i # 1
    <3>1. i - 1 \in 1..Len(Tail(q)) /\ Tail(q)[i - 1] = q[i]
      BY <2>3, <1>1
    <3> QED
      BY <3>1, <2>1 DEF HasClose
  <2> QED
    BY <2>2, <2>3
<1>3. ASSUME Closes(Head(q)) PROVE HasClose(q)
  BY <1>3, <1>1 DEF HasClose
<1>4. ASSUME HasClose(Tail(q)) PROVE HasClose(q)
  <2>1. PICK i \in 1..Len(Tail(q)) : Closes(Tail(q)[i])
    BY <1>4 DEF HasClose
  <2>2. i + 1 \in 1..Len(q) /\ Closes(q[i + 1])
    BY <2>1, <1>1
  <2> QED
    BY <2>2 DEF HasClose
<1> QED
  BY <1>2, <1>3, <1>4

\* What may come next, by the step that is done.
LEMMA WorkFirst ==
  ASSUME NEW e \in StepType, NEW r, WorkRest(e, r)
  PROVE  /\ e.op \in Single => r = <<>> /\ First(r) = Step("none")
         /\ e.op = "reconnect" => First(r) = Step("dns")
         /\ e.op = "close" =>
              \/ /\ First(r).op \in {"none", "destroy"}
                 /\ r \in {<<>>, <<Step("destroy")>>}
              \/ First(r).op = "check" /\ First(r).ev \in {"TaskFailed", "Close"}
         /\ e.op = "set" => First(r).op \in {"none", "flush"}
         /\ e.op = "check" => First(r).op # "set"
         /\ e.op \in Told /\ e.ev = "Close" =>
              First(r).op \in {"none", "close", "destroy", "respond"}
         /\ e.op \in Told /\ e.ev = "TaskFailed" =>
              \/ First(r) = CheckClose \/ First(r) = Step("close")
              \/ First(r) = Set("TaskFailed")
         /\ e.op \in Told /\ e.ev \in {"Started", "Completed"} =>
              First(r) = Set(e.ev)
<1>1. /\ \A x : x # <<>> => First(x) = Head(x)
      /\ First(<<>>) = Step("none")
  BY DEF First
<1>2. e.op \in Single => r = <<>> /\ First(r) = Step("none")
  BY <1>1 DEF WorkRest
<1>3. e.op = "reconnect" => First(r) = Step("dns")
  BY <1>1, Lists DEF WorkRest
<1>4. e.op = "close" =>
        \/ First(r).op \in {"none", "destroy"} /\ r \in {<<>>, <<Step("destroy")>>}
        \/ First(r).op = "check" /\ First(r).ev \in {"TaskFailed", "Close"}
  <2> SUFFICES ASSUME e.op = "close"
               PROVE  \/ /\ First(r).op \in {"none", "destroy"}
                         /\ r \in {<<>>, <<Step("destroy")>>}
                      \/ /\ First(r).op = "check"
                         /\ First(r).ev \in {"TaskFailed", "Close"}
    OBVIOUS
  <2>1. \/ r = <<>> \/ r = <<Step("destroy")>> \/ r = <<CheckClose>>
        \/ r = <<CheckClose, Step("respond")>>
        \/ \E m \in BOOLEAN : r = <<CheckFailed(m), CheckClose>>
    BY DEF WorkRest
  <2>2. CASE r = <<>> \/ r = <<Step("destroy")>>
    BY <2>2, <1>1, Lists, Fields
  <2>3. CASE r = <<CheckClose>> \/ r = <<CheckClose, Step("respond")>>
    BY <2>3, <1>1, Lists, Fields
  <2>4. CASE \E m \in BOOLEAN : r = <<CheckFailed(m), CheckClose>>
    BY <2>4, <1>1, Lists, Fields
  <2> QED
    BY <2>1, <2>2, <2>3, <2>4
<1>5. e.op = "set" => First(r).op \in {"none", "flush"}
  <2>1. e.op = "set" => r = <<>> \/ r = <<FlushFrame>>
    BY DEF WorkRest
  <2> QED
    BY <2>1, <1>1, Lists, Fields
<1>6. ASSUME r \in Ends
      PROVE  First(r).op \in {"none", "close", "destroy", "respond"}
  <2>1. \/ r = <<>> \/ r = <<Step("close")>>
        \/ r = <<Step("close"), Step("destroy")>>
        \/ r = <<Step("destroy")>> \/ r = <<Step("respond")>>
    BY <1>6 DEF Ends
  <2> QED
    BY <2>1, <1>1, Lists, Fields
<1>7. e.op \in Told /\ e.ev = "Close" =>
        First(r).op \in {"none", "close", "destroy", "respond"}
  BY <1>6 DEF WorkRest
<1>8. ASSUME r \in Failures
      PROVE  First(r) = CheckClose \/ First(r) = Step("close")
  <2>1. \/ r = <<CheckClose>> \/ r = <<CheckClose, Step("close")>>
        \/ r = <<CheckClose, Step("close"), Step("destroy")>>
        \/ r = <<CheckClose, Step("destroy")>>
        \/ r = <<Step("close"), CheckClose, Step("respond")>>
    BY <1>8 DEF Failures
  <2> QED
    BY <2>1, <1>1, Lists
<1>9. e.op \in Told /\ e.ev = "TaskFailed" =>
        \/ First(r) = CheckClose \/ First(r) = Step("close")
        \/ First(r) = Set("TaskFailed")
  <2>1. First(<<Set("TaskFailed")>>) = Set("TaskFailed")
    BY <1>1, Lists
  <2> QED
    BY <1>8, <2>1 DEF WorkRest
<1>10. e.op \in Told /\ e.ev \in {"Started", "Completed"} =>
         First(r) = Set(e.ev)
  <2>1. /\ First(<<Set("Completed")>>) = Set("Completed")
        /\ First(<<Set("Started")>>) = Set("Started")
        /\ First(<<Set("Started"), FlushFrame>>) = Set("Started")
    BY <1>1, Lists
  <2>2. e.op \in Told /\ e.ev \in {"Started", "Completed"} =>
          \/ e.ev = "Completed" /\ r = <<Set("Completed")>>
          \/ e.ev = "Started" /\ r = <<Set("Started")>>
          \/ e.ev = "Started" /\ r = <<Set("Started"), FlushFrame>>
    BY DEF WorkRest
  <2> QED
    BY <2>1, <2>2
<1>11. e.op = "check" => First(r).op # "set"
  <2>1. e.op = "check" => r \in Ends \/ r \in Failures
    BY DEF WorkRest, Told
  <2> QED
    BY <2>1, <1>6, <1>8, StepOps
<1> QED
  BY <1>2, <1>3, <1>4, <1>5, <1>7, <1>9, <1>10, <1>11

LEMMA CallFirst ==
  ASSUME NEW e \in StepType, NEW r, CallRest(e, r)
  PROVE  /\ e.op \in {"push", "unlock"} => First(r) = Step("none")
         /\ e.op = "control" \/ (e.op \in Told /\ e.ev = "Close") =>
              First(r).op \in {"none", "unlock"}
         /\ e.op = "disconnect" =>
              First(r).op = "check" /\ First(r).ev = "TaskFailed"
         /\ e.op \in Told /\ e.ev = "TaskFailed" => First(r) = CheckClose
<1>1. /\ \A x : x # <<>> => First(x) = Head(x)
      /\ First(<<>>) = Step("none")
  BY DEF First
<1>2. First(<<Step("unlock")>>).op = "unlock" /\ First(<<>>).op = "none"
  BY <1>1, Lists, Fields
<1>3. /\ First(<<CheckClose>>) = CheckClose
      /\ First(<<CheckClose, Step("unlock")>>) = CheckClose
  BY <1>1, Lists
<1>4. ASSUME NEW m \in BOOLEAN
      PROVE  /\ First(<<CheckFailed(m), CheckClose>>) = CheckFailed(m)
             /\ First(<<CheckFailed(m), CheckClose, Step("unlock")>>)
                  = CheckFailed(m)
  BY <1>1, Lists
<1>5. e.op \in {"push", "unlock"} => First(r) = Step("none")
  BY <1>1 DEF CallRest
<1>6. e.op = "control" \/ (e.op \in Told /\ e.ev = "Close") =>
        First(r).op \in {"none", "unlock"}
  BY <1>2 DEF CallRest
<1>7. e.op = "disconnect" => \E m \in BOOLEAN : First(r) = CheckFailed(m)
  BY <1>4 DEF CallRest
<1>8. e.op \in Told /\ e.ev = "TaskFailed" => First(r) = CheckClose
  BY <1>3 DEF CallRest
<1> QED
  BY <1>5, <1>6, <1>7, <1>8, Fields

-----------------------------------------------------------------------------
\* How the actions change the lists. The first step is done; an event goes on
\* to its next step; the work thread gets a new list.
LEMMA NowTyped ==
  ASSUME TypeOK, NEW t \in Threads, todo[t] # <<>>
  PROVE  /\ todo[t] \in Seq(StepType)
         /\ Head(todo[t]) \in StepType /\ Tail(todo[t]) \in Seq(StepType)
         /\ Now(t) = Head(todo[t])
<1>1. todo[t] \in Seq(StepType)
  BY DEF TypeOK
<1> QED
  BY <1>1, HeadTailProperties DEF Now, First

LEMMA NowRest ==
  ASSUME TypeOK, Planned
  PROVE  /\ todo["work"] # <<>> => WorkRest(Now("work"), Tail(todo["work"]))
         /\ todo["caller"] # <<>> =>
              CallRest(Now("caller"), Tail(todo["caller"]))
BY DEF Planned, WorkList, CallList, Now, First

LEMMA Pops ==
  ASSUME TypeOK, Planned, NEW t \in Threads, todo[t] # <<>>, Go(t, <<>>),
         use' = use
  PROVE  /\ todo' \in [Threads -> Seq(StepType)] /\ Planned'
         /\ todo'[t] = Tail(todo[t]) /\ Now(t)' = First(Tail(todo[t]))
         /\ \A u \in Threads \ {t} : todo'[u] = todo[u]
<1>1. <<>> \in Seq(StepType)
  OBVIOUS
<1>2. /\ todo' \in [Threads -> Seq(StepType)]
      /\ todo'[t] = <<>> \o Tail(todo[t])
      /\ \A u \in Threads \ {t} : todo'[u] = todo[u]
  BY <1>1, GoList
<1>3. Tail(todo[t]) \in Seq(StepType) /\ Head(todo[t]) \in StepType
  BY NowTyped
<1>4. todo'[t] = Tail(todo[t])
  BY <1>2, <1>3, JoinEmpty
<1>5. Planned'
  <2>1. CASE t = "work"
    <3>1. WorkList(Tail(todo["work"]))
      BY <2>1, <1>3, WorkPops DEF Planned, WorkList
    <3>2. todo'["caller"] = todo["caller"]
      BY <2>1, <1>2 DEF Threads
    <3> QED
      BY <2>1, <1>4, <3>1, <3>2 DEF Planned, WorkList, CallList, CallRest
  <2>2. CASE t = "caller"
    <3>1. CallList(Tail(todo["caller"]))
      BY <2>2, <1>3, CallPops DEF Planned, CallList
    <3>2. todo'["work"] = todo["work"]
      BY <2>2, <1>2 DEF Threads
    <3> QED
      BY <2>2, <1>4, <3>1, <3>2 DEF Planned, WorkList, CallList, CallRest
  <2> QED
    BY <2>1, <2>2 DEF Threads
<1> QED
  BY <1>2, <1>4, <1>5 DEF Now

LEMMA NextStep ==
  ASSUME TypeOK, Planned, NEW t \in Threads, todo[t] # <<>>,
         Head(todo[t]).op \in Told, NEW d \in StepType,
         d.ev = Head(todo[t]).ev, d.op \in {"tell", "after"},
         Go(t, <<d>>), use' = use
  PROVE  /\ todo' \in [Threads -> Seq(StepType)] /\ Planned'
         /\ todo'[t] = <<d>> \o Tail(todo[t]) /\ Now(t)' = d
         /\ todo'[t] # <<>> /\ Tail(todo'[t]) = Tail(todo[t])
         /\ \A u \in Threads \ {t} : todo'[u] = todo[u]
<1>1. <<d>> \in Seq(StepType)
  OBVIOUS
<1>2. /\ todo' \in [Threads -> Seq(StepType)]
      /\ todo'[t] = <<d>> \o Tail(todo[t])
      /\ \A u \in Threads \ {t} : todo'[u] = todo[u]
  BY <1>1, GoList
<1>3. Tail(todo[t]) \in Seq(StepType) /\ Head(todo[t]) \in StepType
  BY NowTyped
<1>4. /\ todo'[t] # <<>> /\ Head(todo'[t]) = d
      /\ Tail(todo'[t]) = Tail(todo[t])
  BY <1>2, <1>3, JoinOne
<1>5. Planned'
  <2>1. CASE t = "work"
    <3>1. WorkRest(d, Tail(todo["work"]))
      BY <2>1, RestOfEvent DEF Planned, WorkList
    <3>2. todo'["caller"] = todo["caller"]
      BY <2>1, <1>2 DEF Threads
    <3> QED
      BY <2>1, <1>4, <3>1, <3>2 DEF Planned, WorkList, CallList, CallRest
  <2>2. CASE t = "caller"
    <3>1. CallRest(d, Tail(todo["caller"]))
      BY <2>2, RestOfEvent DEF Planned, CallList
    <3>2. todo'["work"] = todo["work"]
      BY <2>2, <1>2 DEF Threads
    <3> QED
      BY <2>2, <1>4, <3>1, <3>2 DEF Planned, WorkList, CallList, CallRest
  <2> QED
    BY <2>1, <2>2 DEF Threads
<1> QED
  BY <1>2, <1>4, <1>5 DEF Now, First

LEMMA Begins ==
  ASSUME TypeOK, Planned, NEW s \in Seq(StepType), WorkList(s),
         Begin("work", s), use' = use
  PROVE  /\ todo' \in [Threads -> Seq(StepType)] /\ Planned'
         /\ todo["work"] = <<>> /\ Now("work") = Step("none")
         /\ todo'["work"] = s /\ Now("work")' = First(s)
         /\ todo'["caller"] = todo["caller"]
<1>1. /\ todo' \in [Threads -> Seq(StepType)] /\ todo["work"] = <<>>
      /\ todo'["work"] = s /\ todo'["caller"] = todo["caller"]
  BY BeginList DEF Threads
<1> QED
  BY <1>1 DEF Planned, WorkList, CallList, CallRest, Now, First

LEMMA Replaces ==
  ASSUME TypeOK, Planned, todo["work"] # <<>>, Head(todo["work"]).op \in Single,
         NEW s \in Seq(StepType), WorkList(s), Go("work", s), use' = use
  PROVE  /\ todo' \in [Threads -> Seq(StepType)] /\ Planned'
         /\ todo'["work"] = s /\ Now("work")' = First(s)
         /\ todo'["caller"] = todo["caller"]
<1>1. /\ todo' \in [Threads -> Seq(StepType)]
      /\ todo'["work"] = s \o Tail(todo["work"])
      /\ todo'["caller"] = todo["caller"]
  BY GoList DEF Threads
<1>2. Tail(todo["work"]) = <<>>
  BY DEF Planned, WorkList, WorkRest
<1>3. todo'["work"] = s
  BY <1>1, <1>2, JoinEmpty
<1>4. WorkList(todo["work"])' /\ Now("work")' = First(s)
  BY <1>3 DEF WorkList, WorkRest, Now, First
<1>5. CallList(todo["caller"])'
  BY <1>1 DEF Planned, CallList, CallRest
<1> QED
  BY <1>1, <1>3, <1>4, <1>5 DEF Planned

\* The lists that the work thread is given.
Fit(s) == s \in Seq(StepType) /\ WorkList(s)

LEMMA SingleLists ==
  /\ \A op \in Single : Fit(<<Step(op)>>) /\ First(<<Step(op)>>) = Step(op)
  /\ \A op \in Single, b \in BOOLEAN :
       /\ Fit(<<Event(op, "none", b)>>)
       /\ First(<<Event(op, "none", b)>>) = Event(op, "none", b)
  /\ Fit(<<>>) /\ First(<<>>) = Step("none")
  /\ Fit(<<Step("close")>>) /\ First(<<Step("close")>>) = Step("close")
  /\ HasClose(<<Step("close")>>)
  /\ Fit(Again) /\ First(Again) = Step("reconnect")
<1>1. Single \subseteq Ops /\ "close" \in Ops /\ "reconnect" \in Ops
  BY DEF Single, Ops
<1>2. \A op \in Single : <<Step(op)>> \in Seq(StepType)
  BY <1>1, StepTyped
<1>3. \A op \in Single, b \in BOOLEAN : <<Event(op, "none", b)>> \in Seq(StepType)
  BY <1>1, StepTyped
<1>4. /\ <<>> \in Seq(StepType) /\ <<Step("close")>> \in Seq(StepType)
      /\ <<Step("reconnect"), Step("dns")>> \in Seq(StepType)
  BY <1>1, StepTyped DEF Single
<1>5. HasClose(<<Step("close")>>)
  <2> DEFINE q == <<Step("close")>>
  <2>1. q \in Seq(StepType) /\ q # <<>> /\ Closes(Head(q))
    BY <1>4, Lists, Fields DEF Closes
  <2> HIDE DEF q
  <2>2. HasClose(q)
    BY <2>1, HasCloseRec
  <2> QED
    BY <2>2 DEF q
<1>6. Fit(Again) /\ First(Again) = Step("reconnect")
  BY <1>4, Lists, WorkRests DEF Fit, WorkList, Again, First
<1>7. \A op \in Single : Fit(<<Step(op)>>) /\ First(<<Step(op)>>) = Step(op)
  BY <1>2, Lists, WorkRests DEF Fit, WorkList, First
<1>8. \A op \in Single, b \in BOOLEAN :
        /\ Fit(<<Event(op, "none", b)>>)
        /\ First(<<Event(op, "none", b)>>) = Event(op, "none", b)
  BY <1>3, Lists, WorkRests DEF Fit, WorkList, First
<1>9. Fit(<<>>) /\ First(<<>>) = Step("none")
  BY <1>4 DEF Fit, WorkList, First
<1>10. Fit(<<Step("close")>>) /\ First(<<Step("close")>>) = Step("close")
  BY <1>4, Lists, WorkRests DEF Fit, WorkList, First
<1> QED
  BY <1>5, <1>6, <1>7, <1>8, <1>9, <1>10

LEMMA HeadOfLists ==
  /\ \A x : First(<<x>>) = x
  /\ \A x, y : First(<<x, y>>) = x
  /\ \A x, y, z : First(<<x, y, z>>) = x
  /\ \A x, y, z, w : First(<<x, y, z, w>>) = x
BY Lists DEF First

LEMMA FitLists ==
  /\ \A x \in StepType : WorkRest(x, <<>>) => Fit(<<x>>)
  /\ \A x, y \in StepType : WorkRest(x, <<y>>) => Fit(<<x, y>>)
  /\ \A x, y, z \in StepType : WorkRest(x, <<y, z>>) => Fit(<<x, y, z>>)
  /\ \A x, y, z, w \in StepType :
       WorkRest(x, <<y, z, w>>) => Fit(<<x, y, z, w>>)
<1>1. \A x \in StepType : WorkRest(x, <<>>) => Fit(<<x>>)
  BY ListsTyped, Lists DEF Fit, WorkList
<1>2. \A x, y \in StepType : WorkRest(x, <<y>>) => Fit(<<x, y>>)
  BY ListsTyped, Lists DEF Fit, WorkList
<1>3. \A x, y, z \in StepType : WorkRest(x, <<y, z>>) => Fit(<<x, y, z>>)
  BY ListsTyped, Lists DEF Fit, WorkList
<1>4. \A x, y, z, w \in StepType :
        WorkRest(x, <<y, z, w>>) => Fit(<<x, y, z, w>>)
  BY ListsTyped, Lists DEF Fit, WorkList
<1> QED
  BY <1>1, <1>2, <1>3, <1>4

\* A list with a close among its first three steps.
LEMMA CloseInList ==
  /\ \A x, y : Closes(x) \/ Closes(y) => HasClose(<<x, y>>)
  /\ \A x, y, z : Closes(x) \/ Closes(z) => HasClose(<<x, y, z>>)
  /\ \A x, y, z, w :
       Closes(y) \/ Closes(z) => HasClose(<<x, y, z, w>>)
<1>1. ASSUME NEW x, NEW y, Closes(x) \/ Closes(y) PROVE HasClose(<<x, y>>)
  <2>1. Len(<<x, y>>) = 2 /\ <<x, y>>[1] = x /\ <<x, y>>[2] = y
    OBVIOUS
  <2> QED
    BY <1>1, <2>1 DEF HasClose
<1>2. ASSUME NEW x, NEW y, NEW z, Closes(x) \/ Closes(z)
      PROVE  HasClose(<<x, y, z>>)
  <2>1. Len(<<x, y, z>>) = 3 /\ <<x, y, z>>[1] = x /\ <<x, y, z>>[3] = z
    OBVIOUS
  <2> QED
    BY <1>2, <2>1 DEF HasClose
<1>3. ASSUME NEW x, NEW y, NEW z, NEW w, Closes(y) \/ Closes(z)
      PROVE  HasClose(<<x, y, z, w>>)
  <2>1. /\ Len(<<x, y, z, w>>) = 4 /\ <<x, y, z, w>>[2] = y
        /\ <<x, y, z, w>>[3] = z
    OBVIOUS
  <2> QED
    BY <1>3, <2>1 DEF HasClose
<1> QED
  BY <1>1, <1>2, <1>3

LEMMA NoEnds ==
  /\ \A x, y : y.op # "destroy" => <<x, y>> \notin Ends
  /\ \A x, y, z : <<x, y, z>> \notin Ends
  /\ \A x, y, z, w : <<x, y, z, w>> \notin Ends
<1>1. \A q \in Ends : \/ Len(q) \in {0, 1}
                        \/ q = <<Step("close"), Step("destroy")>>
  BY DEF Ends
<1>2. ASSUME NEW x, NEW y, y.op # "destroy" PROVE <<x, y>> \notin Ends
  <2>1. Len(<<x, y>>) = 2 /\ <<x, y>>[2] = y
    OBVIOUS
  <2>2. <<Step("close"), Step("destroy")>>[2] = Step("destroy")
    OBVIOUS
  <2> QED
    BY <1>1, <1>2, <2>1, <2>2, Fields
<1>3. ASSUME NEW x, NEW y, NEW z PROVE <<x, y, z>> \notin Ends
  <2>1. Len(<<x, y, z>>) = 3 /\ Len(<<Step("close"), Step("destroy")>>) = 2
    OBVIOUS
  <2> QED
    BY <1>1, <2>1
<1>4. ASSUME NEW x, NEW y, NEW z, NEW w PROVE <<x, y, z, w>> \notin Ends
  <2>1. /\ Len(<<x, y, z, w>>) = 4
        /\ Len(<<Step("close"), Step("destroy")>>) = 2
    OBVIOUS
  <2> QED
    BY <1>1, <2>1
<1> QED
  BY <1>2, <1>3, <1>4

\* The list after a frame that cannot be read.
DirtySteps(m) == <<CheckFailed(m), Step("close"), CheckClose, Step("respond")>>

LEMMA FailureLists ==
  ASSUME NEW m \in BOOLEAN
  PROVE  /\ Fit(RequestFailed(m)) /\ First(RequestFailed(m)) = CheckFailed(m)
         /\ Failing(RequestFailed(m))
         /\ Fit(RequestFailed(m) \o <<Step("destroy")>>)
         /\ First(RequestFailed(m) \o <<Step("destroy")>>) = CheckFailed(m)
         /\ Failing(RequestFailed(m) \o <<Step("destroy")>>)
         /\ Fit(ResponseFailed(m)) /\ First(ResponseFailed(m)) = Step("close")
         /\ Failing(ResponseFailed(m))
         /\ Fit(Report(m) \o <<Step("destroy")>>)
         /\ First(Report(m) \o <<Step("destroy")>>) = CheckFailed(m)
         /\ ~HasClose(Report(m) \o <<Step("destroy")>>)
         /\ Fit(DirtySteps(m)) /\ First(DirtySteps(m)) = CheckFailed(m)
         /\ Failing(DirtySteps(m))
<1> DEFINE T == CheckFailed(m)  C == CheckClose
<1>1. /\ RequestFailed(m) = <<T, C, Step("close")>>
      /\ RequestFailed(m) \o <<Step("destroy")>>
           = <<T, C, Step("close"), Step("destroy")>>
      /\ ResponseFailed(m) = <<Step("close"), T, C>>
      /\ Report(m) \o <<Step("destroy")>> = <<T, C, Step("destroy")>>
      /\ DirtySteps(m) = <<T, Step("close"), C, Step("respond")>>
  BY FailureSteps DEF CheckFailed, CheckClose, DirtySteps
<1>2. /\ T \in StepType /\ C \in StepType /\ Step("close") \in StepType
      /\ Step("destroy") \in StepType /\ Step("respond") \in StepType
  BY StepTyped DEF CheckFailed, CheckClose, Ops, UserEvents
<1>3. Closes(Step("close"))
  BY Fields DEF Closes
<1>4. /\ WorkRest(T, <<C, Step("close")>>)
      /\ WorkRest(T, <<C, Step("close"), Step("destroy")>>)
      /\ WorkRest(T, <<C, Step("destroy")>>)
      /\ WorkRest(T, <<Step("close"), C, Step("respond")>>)
  BY WorkRests DEF Failures
<1>5. WorkRest(Step("close"), <<T, C>>)
  BY WorkRests
<1> HIDE DEF T, C
<1>6. /\ Fit(RequestFailed(m)) /\ First(RequestFailed(m)) = T
      /\ Failing(RequestFailed(m))
  <2> DEFINE l == <<T, C, Step("close")>>
  <2>1. Fit(l)
    BY <1>2, <1>4, FitLists
  <2>2. First(l) = T
    BY HeadOfLists
  <2>3. Failing(l)
    BY <1>3, CloseInList, NoEnds DEF Failing
  <2> HIDE DEF l
  <2>4. RequestFailed(m) = l
    BY <1>1 DEF l
  <2> QED
    BY <2>1, <2>2, <2>3, <2>4
<1>7. /\ Fit(RequestFailed(m) \o <<Step("destroy")>>)
      /\ First(RequestFailed(m) \o <<Step("destroy")>>) = T
      /\ Failing(RequestFailed(m) \o <<Step("destroy")>>)
  <2> DEFINE l == <<T, C, Step("close"), Step("destroy")>>
  <2>1. Fit(l)
    BY <1>2, <1>4, FitLists
  <2>2. First(l) = T
    BY HeadOfLists
  <2>3. Failing(l)
    BY <1>3, CloseInList, NoEnds DEF Failing
  <2> HIDE DEF l
  <2>4. RequestFailed(m) \o <<Step("destroy")>> = l
    BY <1>1 DEF l
  <2> QED
    BY <2>1, <2>2, <2>3, <2>4
<1>8. /\ Fit(ResponseFailed(m)) /\ First(ResponseFailed(m)) = Step("close")
      /\ Failing(ResponseFailed(m))
  <2> DEFINE l == <<Step("close"), T, C>>
  <2>1. Fit(l)
    BY <1>2, <1>5, FitLists
  <2>2. First(l) = Step("close")
    BY HeadOfLists
  <2>3. Failing(l)
    BY <1>3, CloseInList, NoEnds DEF Failing
  <2> HIDE DEF l
  <2>4. ResponseFailed(m) = l
    BY <1>1 DEF l
  <2> QED
    BY <2>1, <2>2, <2>3, <2>4
<1>9. /\ Fit(Report(m) \o <<Step("destroy")>>)
      /\ First(Report(m) \o <<Step("destroy")>>) = T
      /\ ~HasClose(Report(m) \o <<Step("destroy")>>)
  <2> DEFINE l == <<T, C, Step("destroy")>>
  <2>1. Fit(l)
    BY <1>2, <1>4, FitLists
  <2>2. First(l) = T
    BY HeadOfLists
  <2>3. ~HasClose(l)
    <3>1. ~Closes(T) /\ ~Closes(C) /\ ~Closes(Step("destroy"))
      BY Fields DEF T, C, Closes
    <3>2. Len(l) = 3 /\ l[1] = T /\ l[2] = C /\ l[3] = Step("destroy")
      OBVIOUS
    <3>3. \A i \in 1..3 : i = 1 \/ i = 2 \/ i = 3
      OBVIOUS
    <3> HIDE DEF l
    <3> QED
      BY <3>1, <3>2, <3>3 DEF HasClose
  <2> HIDE DEF l
  <2>4. Report(m) \o <<Step("destroy")>> = l
    BY <1>1 DEF l
  <2> QED
    BY <2>1, <2>2, <2>3, <2>4
<1>10. Fit(DirtySteps(m)) /\ First(DirtySteps(m)) = T /\ Failing(DirtySteps(m))
  <2> DEFINE l == <<T, Step("close"), C, Step("respond")>>
  <2>1. Fit(l)
    BY <1>2, <1>4, FitLists
  <2>2. First(l) = T
    BY HeadOfLists
  <2>3. Failing(l)
    BY <1>3, CloseInList, NoEnds DEF Failing
  <2> HIDE DEF l
  <2>4. DirtySteps(m) = l
    BY <1>1 DEF l
  <2> QED
    BY <2>1, <2>2, <2>3, <2>4
<1> QED
  BY <1>6, <1>7, <1>8, <1>9, <1>10 DEF T

\* The lists that a frame and its end begin.
LEMMA FrameLists ==
  /\ Fit(Frame("Started", FALSE) \o <<>>)
  /\ First(Frame("Started", FALSE) \o <<>>) = Event("tell", "Started", FALSE)
  /\ Fit(Frame("Started", FALSE) \o <<FlushFrame>>)
  /\ First(Frame("Started", FALSE) \o <<FlushFrame>>)
       = Event("tell", "Started", FALSE)
  /\ Fit(Frame("Completed", FALSE))
  /\ First(Frame("Completed", FALSE)) = Event("tell", "Completed", FALSE)
  /\ \A m \in BOOLEAN :
       /\ Fit(Frame("TaskFailed", m))
       /\ First(Frame("TaskFailed", m)) = Event("tell", "TaskFailed", m)
       /\ Failing(Frame("TaskFailed", m))
<1> DEFINE b == Event("tell", "Started", FALSE)
           d == Event("tell", "Completed", FALSE)
<1>1. /\ b \in StepType /\ d \in StepType /\ FlushFrame \in StepType
      /\ \A m \in BOOLEAN : Event("tell", "TaskFailed", m) \in StepType
      /\ \A ev \in UserEvents : Set(ev) \in StepType
  BY StepTyped DEF Set, FlushFrame, Ops, UserEvents
<1>2. /\ Frame("Started", FALSE) = <<b, Set("Started")>>
      /\ Frame("Completed", FALSE) = <<d, Set("Completed")>>
      /\ \A m \in BOOLEAN :
           Frame("TaskFailed", m)
             = <<Event("tell", "TaskFailed", m), Set("TaskFailed")>>
  BY DEF Frame, Set
<1>3. /\ WorkRest(b, <<Set("Started")>>)
      /\ WorkRest(b, <<Set("Started"), FlushFrame>>)
      /\ WorkRest(d, <<Set("Completed")>>)
      /\ \A m \in BOOLEAN :
           WorkRest(Event("tell", "TaskFailed", m), <<Set("TaskFailed")>>)
  BY WorkRests
<1>4. {"Started", "Completed", "TaskFailed"} \subseteq UserEvents
  BY DEF UserEvents
<1> HIDE DEF b, d
<1>5. /\ <<b, Set("Started")>> \o <<>> = <<b, Set("Started")>>
      /\ <<b, Set("Started")>> \o <<FlushFrame>>
           = <<b, Set("Started"), FlushFrame>>
  <2>1. <<b, Set("Started")>> \in Seq(StepType)
    BY <1>1, <1>4
  <2> QED
    BY <2>1, JoinEmpty, Join
<1>6. /\ Fit(Frame("Started", FALSE) \o <<>>)
      /\ First(Frame("Started", FALSE) \o <<>>) = b
  <2>1. Fit(<<b, Set("Started")>>) /\ First(<<b, Set("Started")>>) = b
    BY <1>1, <1>3, <1>4, FitLists, HeadOfLists
  <2>2. Frame("Started", FALSE) \o <<>> = <<b, Set("Started")>>
    BY <1>2, <1>5
  <2> QED
    BY <2>1, <2>2
<1>7. /\ Fit(Frame("Started", FALSE) \o <<FlushFrame>>)
      /\ First(Frame("Started", FALSE) \o <<FlushFrame>>) = b
  <2> DEFINE l == <<b, Set("Started"), FlushFrame>>
  <2>1. Fit(l) /\ First(l) = b
    BY <1>1, <1>3, <1>4, FitLists, HeadOfLists
  <2>2. Frame("Started", FALSE) \o <<FlushFrame>> = l
    BY <1>2, <1>5
  <2> QED
    BY <2>1, <2>2
<1>8. Fit(Frame("Completed", FALSE)) /\ First(Frame("Completed", FALSE)) = d
  BY <1>1, <1>2, <1>3, <1>4, FitLists, HeadOfLists
<1>9. \A m \in BOOLEAN :
        /\ Fit(Frame("TaskFailed", m))
        /\ First(Frame("TaskFailed", m)) = Event("tell", "TaskFailed", m)
        /\ Failing(Frame("TaskFailed", m))
  <2> TAKE m \in BOOLEAN
  <2> DEFINE a == Event("tell", "TaskFailed", m)
             l == <<a, Set("TaskFailed")>>
  <2>1. Fit(l) /\ First(l) = a
    BY <1>1, <1>3, <1>4, FitLists, HeadOfLists
  <2>2. Closes(Set("TaskFailed"))
    BY Fields DEF Closes
  <2>3. Failing(l)
    BY <2>2, CloseInList, NoEnds, Fields DEF Failing
  <2> QED
    BY <1>2, <2>1, <2>3
<1> QED
  BY <1>6, <1>7, <1>8, <1>9 DEF b, d

\* The lists after a frame that ends the session.
LEMMA EndLists ==
  /\ Fit(<<Step("close")>> \o <<CheckClose>>)
  /\ First(<<Step("close")>> \o <<CheckClose>>) = Step("close")
  /\ Failing(<<Step("close")>> \o <<CheckClose>>)
  /\ Fit(<<>> \o <<CheckClose>>) /\ First(<<>> \o <<CheckClose>>) = CheckClose
<1>1. CheckClose \in StepType /\ Step("close") \in StepType
  BY StepTyped DEF CheckClose, Ops, UserEvents
<1>2. Closes(Step("close"))
  BY Fields DEF Closes
<1>3. <<Step("close")>> \o <<CheckClose>> = <<Step("close"), CheckClose>>
  BY Join
<1>4. <<>> \o <<CheckClose>> = <<CheckClose>>
  <2>1. <<CheckClose>> \in Seq(StepType)
    BY <1>1
  <2> QED
    BY <2>1, JoinEmpty
<1>5. WorkRest(Step("close"), <<CheckClose>>) /\ WorkRest(CheckClose, <<>>)
  BY WorkRests DEF Ends
<1>6. Fit(<<Step("close"), CheckClose>>) /\ Fit(<<CheckClose>>)
  BY <1>1, <1>5, FitLists
<1>7. Failing(<<Step("close"), CheckClose>>)
  BY <1>2, CloseInList, NoEnds, Fields DEF Failing
<1>8. /\ First(<<Step("close"), CheckClose>>) = Step("close")
      /\ First(<<CheckClose>>) = CheckClose
  BY HeadOfLists
<1> QED
  BY <1>3, <1>4, <1>6, <1>7, <1>8

-----------------------------------------------------------------------------
\* The moves of the lists, as the invariants see them: the next step of each
\* thread, whether a close is to come, and whether only an end is left.
Ending == todo["work"] \in Ends

\* The step that the work thread takes after the one it is at.
Coming == First(Tail(todo["work"]))

LEMMA NowNone ==
  ASSUME NEW f \in [Threads -> Seq(StepType)], NEW t \in Threads
  PROVE  /\ First(f[t]).op = "none" <=> f[t] = <<>>
         /\ f[t] # <<>> => First(f[t]) \in StepType
<1>1. "none" \notin Ops
  BY DEF Ops
<1>2. f[t] \in Seq(StepType)
  OBVIOUS
<1>3. CASE f[t] = <<>>
  BY <1>3, Fields DEF First
<1>4. CASE f[t] # <<>>
  <2>1. Head(f[t]) \in StepType
    BY <1>2, <1>4, HeadTailProperties
  <2> QED
    BY <1>1, <1>4, <2>1 DEF First, StepType
<1> QED
  BY <1>3, <1>4

LEMMA AtNow ==
  ASSUME TypeOK, NEW t \in Threads
  PROVE  /\ \A op \in Ops : At(t, op) <=> Now(t).op = op /\ ~deleted
         /\ \A op \in Ops : At(t, op) => todo[t] # <<>> /\ Now(t) = Head(todo[t])
         /\ Now(t).op = "none" <=> todo[t] = <<>>
         /\ Now(t).op = "none" <=> Now(t) = Step("none")
<1>1. Now(t).op = "none" <=> todo[t] = <<>>
  BY NowNone DEF TypeOK, Now
<1>2. "none" \notin Ops
  BY DEF Ops
<1>3. \A op \in Ops : At(t, op) <=> Now(t).op = op /\ ~deleted
  BY <1>1, <1>2 DEF At, Now, First
<1>4. \A op \in Ops : At(t, op) => todo[t] # <<>> /\ Now(t) = Head(todo[t])
  BY DEF At, Now, First
<1> QED
  BY <1>1, <1>3, <1>4, Fields DEF Now, First

LEMMA IdleWork ==
  ASSUME TypeOK, Now("work").op = "none"
  PROVE  ~Closing /\ Ending
<1>1. todo["work"] = <<>>
  BY AtNow DEF Threads
<1>2. Len(<<>>) = 0
  OBVIOUS
<1>3. ~HasClose(<<>>) /\ <<>> \in Ends
  BY <1>2 DEF HasClose, Ends
<1> QED
  BY <1>1, <1>3 DEF Closing, Ending

\* Ends go on to be ends.
LEMMA EndsPop ==
  ASSUME NEW q \in Ends, q # <<>>
  PROVE  Tail(q) \in Ends
<1>1. \/ q = <<Step("close")>> \/ q = <<Step("close"), Step("destroy")>>
      \/ q = <<Step("destroy")>> \/ q = <<Step("respond")>>
  BY DEF Ends
<1>2. <<>> \in Ends /\ <<Step("destroy")>> \in Ends
  BY DEF Ends
<1>3. CASE q = <<Step("close"), Step("destroy")>>
  BY <1>3, <1>2, ListHeads
<1>4. ASSUME NEW op, q = <<Step(op)>>
      PROVE  Tail(q) = <<>>
  BY <1>4, ListHeads
<1> QED
  BY <1>1, <1>2, <1>3, <1>4

Breaks == Closing /\ ~Ending

\* A list that is left alone leaves its view alone.
WorkSame == /\ Now("work")' = Now("work")
            /\ (Closing' <=> Closing) /\ (Ending' <=> Ending)
            /\ Coming' = Coming
CallSame == Now("caller")' = Now("caller")

LEMMA SameWork ==
  ASSUME todo'["work"] = todo["work"]
  PROVE  WorkSame
BY DEF Now, First, Coming, Closing, HasClose, Ending, Ends, WorkSame

\* What is seen of a step of the work thread that is done, and of the caller's.
WorkDone ==
  /\ Now("caller")' = Now("caller")
  /\ ~Closes(Now("work")) => (Closing' <=> Closing)
  /\ Ending => Ending'
  /\ Now("work").op \in Single => Now("work")' = Step("none")
  /\ Now("work").op = "reconnect" => Now("work")' = Step("dns")
  /\ Now("work").op = "close" => ~Closing'
  /\ Now("work").op = "close" =>
       \/ Now("work").op' \in {"none", "destroy"} /\ Ending /\ Ending'
       \/ /\ Now("work").op' = "check"
          /\ Now("work").ev' \in {"TaskFailed", "Close"}
  /\ Now("work")' = Coming
  /\ Now("work").op = "set" => Now("work").op' \in {"none", "flush"}
  /\ Now("work").op \in Told /\ Now("work").ev = "Close" =>
       /\ Ending'
       /\ Now("work").op' \in {"none", "close", "destroy", "respond"}
  /\ Now("work").op \in Told /\ Now("work").ev = "TaskFailed" =>
       \/ Now("work")' = CheckClose \/ Now("work")' = Step("close")
       \/ Now("work")' = Set("TaskFailed")
  /\ Now("work").op \in Told /\ Now("work").ev = "TaskFailed" =>
       /\ Now("work").op' = "close" => ~Ending'
       /\ ~Closing' => /\ Now("work")' = CheckClose
                       /\ Coming.op' \in {"none", "destroy"}
  /\ Now("work").op \in Told /\ Now("work").ev \in {"Started", "Completed"} =>
       Now("work")' = Set(Now("work").ev)

CallDone ==
  /\ WorkSame
  /\ Now("caller").op \in {"push", "unlock"} => Now("caller")' = Step("none")
  /\ \/ Now("caller").op = "control"
     \/ Now("caller").op \in Told /\ Now("caller").ev = "Close"
     => Now("caller").op' \in {"none", "unlock"}
  /\ Now("caller").op = "disconnect" =>
       Now("caller").op' = "check" /\ Now("caller").ev' = "TaskFailed"
  /\ Now("caller").op \in Told /\ Now("caller").ev = "TaskFailed" =>
       Now("caller")' = CheckClose

\* A close is the last of its list, and it ends what it is the last step of.
LEMMA AfterClosing ==
  ASSUME NEW q \in Seq(StepType), q # <<>>, WorkRest(Head(q), Tail(q)),
         Head(q).op = "close"
  PROVE  /\ ~HasClose(Tail(q))
         /\ Tail(q) \in {<<>>, <<Step("destroy")>>} => q \in Ends
         /\ <<>> \in Ends /\ <<Step("destroy")>> \in Ends
<1>1. /\ Head(q) = Step("close")
      /\ \/ Tail(q) = <<>> \/ Tail(q) = <<Step("destroy")>>
         \/ Tail(q) = <<CheckClose>>
         \/ Tail(q) = <<CheckClose, Step("respond")>>
         \/ \E m \in BOOLEAN : Tail(q) = <<CheckFailed(m), CheckClose>>
  BY DEF WorkRest
<1>2. /\ \A x : ~Closes(x) => ~HasClose(<<x>>)
      /\ \A x, y : ~Closes(x) /\ ~Closes(y) => ~HasClose(<<x, y>>)
      /\ ~HasClose(<<>>)
  <2>1. ASSUME NEW x, ~Closes(x) PROVE ~HasClose(<<x>>)
    <3>1. Len(<<x>>) = 1 /\ <<x>>[1] = x
      OBVIOUS
    <3> QED
      BY <2>1, <3>1 DEF HasClose
  <2>2. ASSUME NEW x, NEW y, ~Closes(x), ~Closes(y) PROVE ~HasClose(<<x, y>>)
    <3>1. Len(<<x, y>>) = 2 /\ <<x, y>>[1] = x /\ <<x, y>>[2] = y
      OBVIOUS
    <3>2. \A i \in 1..2 : i = 1 \/ i = 2
      OBVIOUS
    <3> QED
      BY <2>2, <3>1, <3>2 DEF HasClose
  <2>3. ~HasClose(<<>>)
    BY DEF HasClose
  <2> QED
    BY <2>1, <2>2, <2>3
<1>3. /\ ~Closes(CheckClose) /\ ~Closes(Step("destroy"))
      /\ ~Closes(Step("respond")) /\ \A m : ~Closes(CheckFailed(m))
  BY Fields DEF Closes
<1>4. ~HasClose(Tail(q))
  <2>1. CASE Tail(q) = <<>> \/ Tail(q) = <<Step("destroy")>>
    BY <2>1, <1>2, <1>3
  <2>2. CASE \/ Tail(q) = <<CheckClose>>
             \/ Tail(q) = <<CheckClose, Step("respond")>>
    BY <2>2, <1>2, <1>3
  <2>3. CASE \E m \in BOOLEAN : Tail(q) = <<CheckFailed(m), CheckClose>>
    <3>1. PICK m \in BOOLEAN : Tail(q) = <<CheckFailed(m), CheckClose>>
      BY <2>3
    <3>2. ~HasClose(<<CheckFailed(m), CheckClose>>)
      BY <1>2, <1>3
    <3> QED
      BY <3>1, <3>2
  <2> QED
    BY <1>1, <2>1, <2>2, <2>3
<1>5. /\ Len(q) = Len(Tail(q)) + 1 /\ q[1] = Head(q)
      /\ \A i \in 1..Len(Tail(q)) : q[i + 1] = Tail(q)[i]
  BY HeadTailProperties
<1>6. Tail(q) = <<>> => q = <<Step("close")>>
  <2>1. ASSUME Tail(q) = <<>> PROVE Len(q) = 1 /\ q[1] = Step("close")
    BY <1>1, <1>5, <2>1
  <2> QED
    BY <2>1
<1>7. Tail(q) = <<Step("destroy")>> => q = <<Step("close"), Step("destroy")>>
  <2>1. ASSUME Tail(q) = <<Step("destroy")>>
        PROVE  Len(q) = 2 /\ q[1] = Step("close") /\ q[2] = Step("destroy")
    <3>1. /\ Len(<<Step("destroy")>>) = 1
          /\ <<Step("destroy")>>[1] = Step("destroy")
      OBVIOUS
    <3>2. Len(Tail(q)) = 1 /\ Tail(q)[1] = Step("destroy")
      BY <2>1, <3>1
    <3>3. 1 \in 1..Len(Tail(q))
      BY <3>2
    <3>4. \E k \in {2} : k = 1 + 1 /\ q[k] = Tail(q)[1]
      BY <1>5, <3>3
    <3>5. q[2] = Step("destroy")
      BY <3>2, <3>4
    <3>6. Len(q) = Len(Tail(q)) + 1
      BY <1>5
    <3>7. Len(q) = 2
      BY <3>2, <3>6
    <3>8. q[1] = Step("close")
      BY <1>1, <1>5
    <3> QED
      BY <3>5, <3>7, <3>8
  <2> QED
    BY <2>1, ListByElements
<1> QED
  BY <1>4, <1>6, <1>7 DEF Ends

\* What is left when a failure was told.
LEMMA FailedRest ==
  ASSUME NEW e \in StepType, NEW r \in Seq(StepType), WorkRest(e, r),
         e.op \in Told, e.ev = "TaskFailed"
  PROVE  /\ First(r).op = "close" => r \notin Ends
         /\ ~HasClose(r) => /\ First(r) = CheckClose
                            /\ First(Tail(r)).op \in {"none", "destroy"}
<1>1. Step("close").op = "close" /\ Closes(Step("close"))
  BY Fields DEF Closes
<1>2. CASE r = <<CheckClose>>
  <2>1. First(r) = CheckClose /\ Tail(r) = <<>> /\ First(<<>>) = Step("none")
    BY <1>2, HeadOfLists, Lists DEF First
  <2> QED
    BY <2>1, StepOps
<1>3. CASE r = <<CheckClose, Step("destroy")>>
  <2>1. /\ First(r) = CheckClose /\ Tail(r) = <<Step("destroy")>>
        /\ First(<<Step("destroy")>>) = Step("destroy")
    BY <1>3, HeadOfLists, Lists
  <2> QED
    BY <2>1, StepOps
<1>4. CASE \/ r = <<CheckClose, Step("close")>>
           \/ r = <<CheckClose, Step("close"), Step("destroy")>>
  <2>1. First(r) = CheckClose
    BY <1>4, HeadOfLists
  <2>2. HasClose(<<CheckClose, Step("close")>>)
        /\ HasClose(<<Step("close"), Step("destroy")>>)
    BY <1>1, CloseInList
  <2>3. r = <<CheckClose, Step("close"), Step("destroy")>> =>
          r # <<>> /\ Tail(r) = <<Step("close"), Step("destroy")>>
    BY Lists
  <2>4. HasClose(r)
    BY <1>4, <2>2, <2>3, HasCloseRec
  <2> QED
    BY <2>1, <2>4, StepOps
<1>5. CASE r = <<Step("close"), CheckClose, Step("respond")>>
  <2>1. r \notin Ends /\ HasClose(r)
    BY <1>1, <1>5, NoEnds, CloseInList
  <2> QED
    BY <2>1
<1>6. CASE r = <<Set("TaskFailed")>>
  <2>1. Set("TaskFailed").op = "set" /\ Set("TaskFailed").ev = "TaskFailed"
    BY Fields
  <2>2. First(r) = Set("TaskFailed") /\ Head(r) = Set("TaskFailed") /\ r # <<>>
    BY <1>6, HeadOfLists, Lists
  <2>3. HasClose(r)
    BY <2>1, <2>2, HasCloseRec DEF Closes
  <2> QED
    BY <2>1, <2>2, <2>3
<1> QED
  BY <1>2, <1>3, <1>4, <1>5, <1>6 DEF WorkRest, Failures

LEMMA WorkPopped ==
  ASSUME TypeOK, Planned, todo["work"] # <<>>, Go("work", <<>>), use' = use
  PROVE  todo' \in [Threads -> Seq(StepType)] /\ Planned' /\ WorkDone
<1> DEFINE e == Now("work")  r == Tail(todo["work"])
<1>1. "work" \in Threads /\ "caller" \in Threads \ {"work"}
  BY DEF Threads
<1>2. /\ todo["work"] \in Seq(StepType) /\ e \in StepType /\ r \in Seq(StepType)
      /\ e = Head(todo["work"])
  BY <1>1, NowTyped
<1>3. WorkRest(e, r)
  BY NowRest
<1>4. /\ todo' \in [Threads -> Seq(StepType)] /\ Planned'
      /\ todo'["work"] = r /\ Now("work")' = First(r)
      /\ todo'["caller"] = todo["caller"]
  BY <1>1, Pops
<1>5. /\ Now("caller")' = Now("caller")
      /\ Closing' = HasClose(r) /\ Ending' = (r \in Ends)
      /\ Now("work")' = Coming /\ Coming' = First(Tail(r))
  BY <1>4 DEF Now, First, Closing, HasClose, Ending, Ends, Coming
<1>6. ~Closes(e) => (Closing' <=> Closing)
  BY <1>2, <1>5, HasCloseRec DEF Closing
<1>7. e.op \in Told /\ e.ev = "Close" => Ending'
  BY <1>3, <1>5 DEF WorkRest
<1>8. Ending => Ending'
  BY <1>5, EndsPop DEF Ending
<1>9. e.op = "close" =>
        /\ r \in {<<>>, <<Step("destroy")>>} => Ending
        /\ <<>> \in Ends /\ <<Step("destroy")>> \in Ends
        /\ ~HasClose(r)
  BY <1>2, <1>3, AfterClosing DEF Ending
<1>10. /\ e.op \in Single => First(r) = Step("none")
       /\ e.op = "reconnect" => First(r) = Step("dns")
       /\ e.op = "close" =>
            \/ /\ First(r).op \in {"none", "destroy"}
               /\ r \in {<<>>, <<Step("destroy")>>}
            \/ First(r).op = "check" /\ First(r).ev \in {"TaskFailed", "Close"}
       /\ e.op = "set" => First(r).op \in {"none", "flush"}
       /\ e.op \in Told /\ e.ev = "Close" =>
            First(r).op \in {"none", "close", "destroy", "respond"}
       /\ e.op \in Told /\ e.ev = "TaskFailed" =>
            \/ First(r) = CheckClose \/ First(r) = Step("close")
            \/ First(r) = Set("TaskFailed")
       /\ e.op \in Told /\ e.ev \in {"Started", "Completed"} =>
            First(r) = Set(e.ev)
  BY <1>2, <1>3, WorkFirst
<1>12. e.op \in Told /\ e.ev = "TaskFailed" =>
         /\ First(r).op = "close" => r \notin Ends
         /\ ~HasClose(r) => /\ First(r) = CheckClose
                            /\ First(Tail(r)).op \in {"none", "destroy"}
  BY <1>2, <1>3, FailedRest
<1> HIDE DEF e, r
<1>11. /\ Now("work").op' = First(r).op /\ Now("work").ev' = First(r).ev
       /\ Coming.op' = First(Tail(r)).op /\ CheckClose' = CheckClose
       /\ \A op : Step(op)' = Step(op)
  BY <1>4, <1>5 DEF CheckClose, Event, Step
<1>13. Now("work") = e
  BY DEF e
<1>14. e.op = "close" =>
         /\ ~Closing'
         /\ \/ Now("work").op' \in {"none", "destroy"} /\ Ending /\ Ending'
            \/ /\ Now("work").op' = "check"
               /\ Now("work").ev' \in {"TaskFailed", "Close"}
  BY <1>5, <1>9, <1>10, <1>11
<1>15. e.op \in Told /\ e.ev = "TaskFailed" =>
         /\ \/ Now("work")' = CheckClose \/ Now("work")' = Step("close")
            \/ Now("work")' = Set("TaskFailed")
         /\ Now("work").op' = "close" => ~Ending'
         /\ ~Closing' => /\ Now("work")' = CheckClose
                         /\ Coming.op' \in {"none", "destroy"}
  BY <1>4, <1>5, <1>10, <1>11, <1>12
<1>16. /\ e.op \in Single => Now("work")' = Step("none")
       /\ e.op = "reconnect" => Now("work")' = Step("dns")
       /\ e.op = "set" => Now("work").op' \in {"none", "flush"}
       /\ e.op \in Told /\ e.ev = "Close" =>
            Now("work").op' \in {"none", "close", "destroy", "respond"}
       /\ e.op \in Told /\ e.ev \in {"Started", "Completed"} =>
            Now("work")' = Set(e.ev)
  BY <1>4, <1>10, <1>11
<1>17. WorkDone
  BY <1>5, <1>6, <1>7, <1>8, <1>13, <1>14, <1>15, <1>16 DEF WorkDone
<1> QED
  BY <1>4, <1>17

LEMMA WorkGiven ==
  ASSUME TypeOK, Planned, NEW s, Fit(s), use' = use,
         \/ Begin("work", s)
         \/ /\ todo["work"] # <<>> /\ Tail(todo["work"]) = <<>>
            /\ Go("work", s)
  PROVE  /\ todo' \in [Threads -> Seq(StepType)] /\ Planned'
         /\ Now("caller")' = Now("caller") /\ Now("work")' = First(s)
         /\ Closing' <=> HasClose(s)
         /\ Failing(s) => Breaks'
         /\ s \in Ends => Ending'
<1>1. /\ s \in Seq(StepType) /\ WorkList(s) /\ "work" \in Threads
      /\ "caller" \in Threads \ {"work"}
  BY DEF Fit, Threads
<1>2. /\ todo' \in [Threads -> Seq(StepType)] /\ todo'["work"] = s
      /\ todo'["caller"] = todo["caller"]
  <2>1. CASE Begin("work", s)
    BY <1>1, <2>1, BeginList
  <2>2. CASE /\ todo["work"] # <<>> /\ Tail(todo["work"]) = <<>>
             /\ Go("work", s)
    BY <1>1, <2>2, GoList, JoinEmpty
  <2> QED
    BY <2>1, <2>2
<1>3. WorkList(todo["work"])'
  BY <1>1, <1>2 DEF WorkList, WorkRest
<1>4. CallList(todo["caller"])'
  BY <1>2 DEF Planned, CallList, CallRest
<1>5. /\ (Closing' <=> HasClose(s)) /\ (Failing(s) => Breaks')
      /\ s \in Ends => Ending'
  BY <1>2 DEF Closing, HasClose, Ending, Ends, Failing, Breaks
<1> QED
  BY <1>2, <1>3, <1>4, <1>5 DEF Planned, Now, First

\* The same for an action that is at a step with nothing after it.
LEMMA WorkReplaced ==
  ASSUME TypeOK, Planned, NEW s, Fit(s), use' = use, Go("work", s),
         Now("work").op \in Single \/ (Now("work").op = "set"
                                         /\ Now("work").ev # "Started")
  PROVE  /\ todo' \in [Threads -> Seq(StepType)] /\ Planned'
         /\ Now("caller")' = Now("caller") /\ Now("work")' = First(s)
         /\ Closing' <=> HasClose(s)
         /\ Failing(s) => Breaks'
<1>1. todo["work"] # <<>>
  <2>1. "none" \notin Single /\ "work" \in Threads
    BY DEF Single, Threads
  <2> QED
    BY <2>1, AtNow, Fields
<1>2. Tail(todo["work"]) = <<>>
  BY <1>1, NowRest DEF WorkRest
<1> QED
  BY <1>1, <1>2, WorkGiven

LEMMA WorkSays ==
  ASSUME TypeOK, Planned, todo["work"] # <<>>, Now("work").op \in Told,
         NEW d \in StepType, d.ev = Now("work").ev, d.op \in {"tell", "after"},
         Go("work", <<d>>), use' = use
  PROVE  /\ todo' \in [Threads -> Seq(StepType)] /\ Planned'
         /\ Now("caller")' = Now("caller") /\ Now("work")' = d
         /\ Closing' <=> Closing
         /\ Coming' = Coming /\ (Now("work").op = "check" => Coming.op # "set")
<1>1. "work" \in Threads /\ "caller" \in Threads \ {"work"}
  BY DEF Threads
<1>2. Now("work") = Head(todo["work"]) /\ todo["work"] \in Seq(StepType)
  BY <1>1, NowTyped
<1>3. /\ todo' \in [Threads -> Seq(StepType)] /\ Planned' /\ Now("work")' = d
      /\ todo'["work"] = <<d>> \o Tail(todo["work"])
      /\ todo'["work"] # <<>> /\ Tail(todo'["work"]) = Tail(todo["work"])
      /\ todo'["caller"] = todo["caller"]
  BY <1>1, <1>2, NextStep
<1>4. Head(todo'["work"]) = d
  BY <1>1, <1>2, HeadTailProperties, JoinOne, <1>3
<1>5. HasClose(todo'["work"]) <=> HasClose(todo["work"])
  <2>1. ~Closes(d) /\ ~Closes(Now("work"))
    BY DEF Told, Closes
  <2>2. HasClose(todo'["work"]) <=> HasClose(Tail(todo["work"]))
    <3>1. todo'["work"] \in Seq(StepType)
      BY <1>1, <1>3
    <3> QED
      BY <3>1, <2>1, <1>3, <1>4, HasCloseRec
  <2>3. HasClose(todo["work"]) <=> HasClose(Tail(todo["work"]))
    BY <2>1, <1>2, HasCloseRec
  <2> QED
    BY <2>2, <2>3
<1>6. Closing' <=> Closing
  BY <1>5 DEF Closing, HasClose
<1>7. Now("work").op = "check" => Coming.op # "set"
  <2>1. WorkRest(Now("work"), Tail(todo["work"])) /\ Now("work") \in StepType
    BY <1>1, NowRest, NowTyped
  <2> QED
    BY <2>1, WorkFirst DEF Coming
<1>8. Coming' = Coming
  BY <1>3 DEF Coming, First
<1> QED
  BY <1>3, <1>6, <1>7, <1>8 DEF Now, First

LEMMA CallPopped ==
  ASSUME TypeOK, Planned, todo["caller"] # <<>>, Go("caller", <<>>), use' = use
  PROVE  todo' \in [Threads -> Seq(StepType)] /\ Planned' /\ CallDone
<1> DEFINE e == Now("caller")  r == Tail(todo["caller"])
<1>1. "caller" \in Threads /\ "work" \in Threads \ {"caller"}
  BY DEF Threads
<1>2. e \in StepType
  BY <1>1, NowTyped
<1>3. CallRest(e, r)
  BY NowRest
<1>4. /\ todo' \in [Threads -> Seq(StepType)] /\ Planned'
      /\ Now("caller")' = First(r) /\ todo'["work"] = todo["work"]
  BY <1>1, Pops
<1>5. /\ e.op \in {"push", "unlock"} => First(r) = Step("none")
      /\ e.op = "control" \/ (e.op \in Told /\ e.ev = "Close") =>
           First(r).op \in {"none", "unlock"}
      /\ e.op = "disconnect" =>
           First(r).op = "check" /\ First(r).ev = "TaskFailed"
      /\ e.op \in Told /\ e.ev = "TaskFailed" => First(r) = CheckClose
  BY <1>2, <1>3, CallFirst
<1> HIDE DEF e, r
<1>6. Now("caller").op' = First(r).op /\ Now("caller").ev' = First(r).ev
  BY <1>4
<1> QED
  BY <1>4, <1>5, <1>6, SameWork DEF e, CallDone

LEMMA CallSays ==
  ASSUME TypeOK, Planned, todo["caller"] # <<>>, Now("caller").op \in Told,
         NEW d \in StepType, d.ev = Now("caller").ev, d.op \in {"tell", "after"},
         Go("caller", <<d>>), use' = use
  PROVE  /\ todo' \in [Threads -> Seq(StepType)] /\ Planned'
         /\ todo'["work"] = todo["work"] /\ Now("caller")' = d
<1>1. "caller" \in Threads /\ "work" \in Threads \ {"caller"}
  BY DEF Threads
<1>2. Now("caller") = Head(todo["caller"])
  BY <1>1, NowTyped
<1> QED
  BY <1>1, <1>2, NextStep

\* The lists of the caller: of a stop, of sendAudio, and after a failure.
LEMMA CallGiven ==
  ASSUME TypeOK, Planned, NEW s \in Seq(StepType), use' = use,
         CallList(s), Begin("caller", s)
  PROVE  /\ todo' \in [Threads -> Seq(StepType)] /\ Planned'
         /\ todo'["work"] = todo["work"] /\ Now("caller")' = First(s)
         /\ Now("caller") = Step("none")
<1>1. /\ todo' \in [Threads -> Seq(StepType)] /\ todo["caller"] = <<>>
      /\ todo'["caller"] = s /\ todo'["work"] = todo["work"]
  BY BeginList DEF Threads
<1>2. CallList(todo["caller"])'
  BY <1>1 DEF CallList, CallRest
<1>3. WorkList(todo["work"])'
  BY <1>1 DEF Planned, WorkList, WorkRest
<1> QED
  BY <1>1, <1>2, <1>3 DEF Planned, Now, First

LEMMA CallLists ==
  /\ <<>> \in Seq(StepType) /\ CallList(<<>>) /\ First(<<>>) = Step("none")
  /\ <<Step("push")>> \in Seq(StepType)
  /\ use.sends > 0 => CallList(<<Step("push")>>)
  /\ First(<<Step("push")>>) = Step("push")
  /\ <<Step("control"), Step("unlock")>> \in Seq(StepType)
  /\ use.stops => CallList(<<Step("control"), Step("unlock")>>)
  /\ First(<<Step("control"), Step("unlock")>>) = Step("control")
<1>1. /\ Step("push") \in StepType /\ Step("control") \in StepType
      /\ Step("unlock") \in StepType
  BY StepTyped DEF Ops
<1>2. /\ use.sends > 0 => CallRest(Step("push"), <<>>)
      /\ use.stops => CallRest(Step("control"), <<Step("unlock")>>)
  BY Fields DEF CallRest, Told
<1>3. <<>> \in Seq(StepType) /\ CallList(<<>>) /\ First(<<>>) = Step("none")
  BY DEF CallList, First
<1>4. /\ <<Step("push")>> \in Seq(StepType)
      /\ <<Step("control"), Step("unlock")>> \in Seq(StepType)
  BY <1>1, ListsTyped
<1>5. /\ use.sends > 0 => CallList(<<Step("push")>>)
      /\ use.stops => CallList(<<Step("control"), Step("unlock")>>)
  BY <1>2, Lists DEF CallList
<1> QED
  BY <1>3, <1>4, <1>5, HeadOfLists

LEMMA CallFails ==
  ASSUME TypeOK, Planned, Now("caller").op \in {"push", "control"}, use' = use,
         NEW m \in BOOLEAN, Go("caller", CallFailed(m))
  PROVE  /\ todo' \in [Threads -> Seq(StepType)] /\ Planned'
         /\ todo'["work"] = todo["work"] /\ Now("caller")' = Step("disconnect")
<1> DEFINE r == Tail(todo["caller"])
           D == Step("disconnect")  T == CheckFailed(m)
<1>1. "caller" \in Threads /\ "work" \in Threads \ {"caller"}
  BY DEF Threads
<1>2. todo["caller"] # <<>>
  BY <1>1, AtNow
<1>3. CallRest(Now("caller"), r)
  BY <1>2, NowRest
<1>4. \/ use.sends > 0 /\ r = <<>>
      \/ use.stops /\ r = <<Step("unlock")>>
  BY <1>3 DEF CallRest
<1>5. /\ D \in StepType /\ T \in StepType /\ CheckClose \in StepType
      /\ Step("unlock") \in StepType
  BY StepTyped DEF CheckFailed, CheckClose, Ops, UserEvents
<1>6. CallFailed(m) = <<D, T, CheckClose>>
  BY FailureSteps DEF CheckFailed, CheckClose
<1>7. /\ use.sends > 0 => CallRest(D, <<T, CheckClose>>)
      /\ use.stops => CallRest(D, <<T, CheckClose, Step("unlock")>>)
  BY Fields DEF CallRest, Told
<1> HIDE DEF D, T, r
<1>8. <<D, T, CheckClose>> \in Seq(StepType)
  BY <1>5, ListsTyped
<1>9. /\ todo' \in [Threads -> Seq(StepType)]
      /\ todo'["caller"] = <<D, T, CheckClose>> \o r
      /\ todo'["work"] = todo["work"]
  BY <1>1, <1>2, <1>6, <1>8, GoList DEF r
<1>10. CASE use.sends > 0 /\ r = <<>>
  <2>1. todo'["caller"] = <<D, T, CheckClose>>
    BY <1>8, <1>9, <1>10, JoinEmpty
  <2>2. CallRest(D, <<T, CheckClose>>)
    BY <1>7, <1>10
  <2>3. CallRest(Head(todo'["caller"]), Tail(todo'["caller"]))
        /\ todo'["caller"] # <<>> /\ Head(todo'["caller"]) = D
    BY <2>1, <2>2, Lists
  <2>4. CallList(todo["caller"])'
    BY <2>3 DEF CallList, CallRest
  <2>5. WorkList(todo["work"])'
    BY <1>9 DEF Planned, WorkList, WorkRest
  <2> QED
    BY <1>9, <2>3, <2>4, <2>5 DEF Planned, Now, First, D
<1>11. CASE use.stops /\ r = <<Step("unlock")>>
  <2>1. todo'["caller"] = <<D, T, CheckClose, Step("unlock")>>
    BY <1>9, <1>11, Join
  <2>2. CallRest(D, <<T, CheckClose, Step("unlock")>>)
    BY <1>7, <1>11
  <2>3. CallRest(Head(todo'["caller"]), Tail(todo'["caller"]))
        /\ todo'["caller"] # <<>> /\ Head(todo'["caller"]) = D
    BY <2>1, <2>2, Lists
  <2>4. CallList(todo["caller"])'
    BY <2>3 DEF CallList, CallRest
  <2>5. WorkList(todo["work"])'
    BY <1>9 DEF Planned, WorkList, WorkRest
  <2> QED
    BY <1>9, <2>3, <2>4, <2>5 DEF Planned, Now, First, D
<1> QED
  BY <1>4, <1>10, <1>11

\* The step of sending audio goes on to the directive, on either thread.
LEMMA WorkControls ==
  ASSUME TypeOK, Planned, Now("work").op = "flush", use' = use,
         Go("work", ThenControl("work"))
  PROVE  /\ todo' \in [Threads -> Seq(StepType)] /\ Planned'
         /\ Now("caller")' = Now("caller") /\ Now("work")'.op = "control"
         /\ Now("work")'.flag = Now("work").flag
<1> DEFINE d == [Now("work") EXCEPT !.op = "control"]
<1>1. todo["work"] # <<>> /\ Now("work") = Head(todo["work"])
  BY AtNow, NowTyped DEF Threads
<1>2. Now("work") \in StepType
  BY <1>1, NowTyped DEF Threads
<1>3. /\ d \in StepType /\ d.op = "control" /\ d.flag = Now("work").flag
      /\ ThenControl("work") = <<d>>
  BY <1>1, <1>2 DEF StepType, Ops, ThenControl
<1> HIDE DEF d
<1>4. WorkRest(d, <<>>)
  BY <1>3 DEF WorkRest, Single, Told
<1>5. Fit(<<d>>) /\ First(<<d>>) = d
  BY <1>3, <1>4, FitLists, HeadOfLists
<1>6. "flush" \in Single
  BY DEF Single
<1> QED
  BY <1>3, <1>5, <1>6, WorkReplaced

LEMMA CallControls ==
  ASSUME TypeOK, Planned, Now("caller").op = "push", use' = use,
         Go("caller", ThenControl("caller"))
  PROVE  /\ todo' \in [Threads -> Seq(StepType)] /\ Planned'
         /\ todo'["work"] = todo["work"] /\ Now("caller")'.op = "control"
<1> DEFINE d == [Now("caller") EXCEPT !.op = "control"]
<1>1. todo["caller"] # <<>> /\ Now("caller") = Head(todo["caller"])
  BY AtNow, NowTyped DEF Threads
<1>2. Now("caller") \in StepType
  BY <1>1, NowTyped DEF Threads
<1>3. /\ d \in StepType /\ d.op = "control" /\ d.flag = Now("caller").flag
      /\ ThenControl("caller") = <<d>>
  BY <1>1, <1>2 DEF StepType, Ops, ThenControl
<1>4. CallRest(Now("caller"), Tail(todo["caller"]))
  BY <1>1, NowRest
<1> HIDE DEF d
<1>5. CallRest(d, <<>>) /\ Tail(todo["caller"]) = <<>>
  BY <1>3, <1>4 DEF CallRest, Told
<1>6. <<d>> \in Seq(StepType)
  BY <1>3, ListsTyped
<1>7. /\ todo' \in [Threads -> Seq(StepType)] /\ todo'["caller"] = <<d>>
      /\ todo'["work"] = todo["work"]
  BY <1>1, <1>3, <1>5, <1>6, GoList, JoinEmpty DEF Threads
<1>8. CallList(todo["caller"])'
  BY <1>5, <1>7, Lists DEF CallList, CallRest
<1>9. WorkList(todo["work"])'
  BY <1>7 DEF Planned, WorkList, WorkRest
<1>10. Now("caller")' = d
  BY <1>7, HeadOfLists DEF Now
<1> QED
  BY <1>3, <1>7, <1>8, <1>9, <1>10 DEF Planned

-----------------------------------------------------------------------------
\* The statuses, and the ranges of them that the code asks for.
Busy == {"Invoking", "Invoked", "Connecting", "Connected", "Handshaking",
         "Handshaked", "Starting", "Started"}

LEMMA Ranks ==
  /\ Rank("Created") = 1 /\ Rank("Invoking") = 2 /\ Rank("Invoked") = 3
  /\ Rank("Connecting") = 4 /\ Rank("Connected") = 5 /\ Rank("Handshaking") = 6
  /\ Rank("Handshaked") = 7 /\ Rank("Starting") = 8 /\ Rank("Started") = 9
  /\ Rank("Failed") = 10 /\ Rank("Completed") = 11 /\ Rank("Closed") = 12
<1>1. /\ DOMAIN Order = 1..12
      /\ Order[1] = "Created" /\ Order[2] = "Invoking" /\ Order[3] = "Invoked"
      /\ Order[4] = "Connecting" /\ Order[5] = "Connected"
      /\ Order[6] = "Handshaking" /\ Order[7] = "Handshaked"
      /\ Order[8] = "Starting" /\ Order[9] = "Started" /\ Order[10] = "Failed"
      /\ Order[11] = "Completed" /\ Order[12] = "Closed"
  BY DEF Order
<1>2. \A i \in 1..12 : i = 1 \/ i = 2 \/ i = 3 \/ i = 4 \/ i = 5 \/ i = 6
        \/ i = 7 \/ i = 8 \/ i = 9 \/ i = 10 \/ i = 11 \/ i = 12
  OBVIOUS
<1>3. \A i, j \in 1..12 : Order[i] = Order[j] => i = j
  <2> TAKE i, j \in 1..12
  <2> QED
    BY <1>1, <1>2
<1>4. \A i \in 1..12 : Rank(Order[i]) = i
  <2> TAKE i \in 1..12
  <2>1. \E j \in 1..12 : Order[j] = Order[i]
    OBVIOUS
  <2>2. Rank(Order[i]) \in 1..12 /\ Order[Rank(Order[i])] = Order[i]
    BY <2>1, <1>1 DEF Rank
  <2> QED
    BY <2>2, <1>3
<1> QED
  BY <1>1, <1>4

LEMMA Statuses ==
  /\ ConnectStatus = Busy \cup {"Created", "Failed", "Completed", "Closed"}
  /\ Between("Invoking", "Failed") = Busy
  /\ Between("Invoking", "Closed") = Busy \cup {"Failed", "Completed"}
  /\ Between("Handshaking", "Failed")
       = {"Handshaking", "Handshaked", "Starting", "Started"}
  /\ Between("Connecting", "Handshaking") = {"Connecting", "Connected"}
<1>1. ConnectStatus = Busy \cup {"Created", "Failed", "Completed", "Closed"}
  <2>1. /\ DOMAIN Order = 1..12
        /\ Order[1] = "Created" /\ Order[2] = "Invoking" /\ Order[3] = "Invoked"
        /\ Order[4] = "Connecting" /\ Order[5] = "Connected"
        /\ Order[6] = "Handshaking" /\ Order[7] = "Handshaked"
        /\ Order[8] = "Starting" /\ Order[9] = "Started" /\ Order[10] = "Failed"
        /\ Order[11] = "Completed" /\ Order[12] = "Closed"
    BY DEF Order
  <2>2. \A i \in 1..12 : i = 1 \/ i = 2 \/ i = 3 \/ i = 4 \/ i = 5 \/ i = 6
          \/ i = 7 \/ i = 8 \/ i = 9 \/ i = 10 \/ i = 11 \/ i = 12
    OBVIOUS
  <2> QED
    BY <2>1, <2>2 DEF ConnectStatus, Busy
<1>2. Between("Invoking", "Failed") = Busy
  BY <1>1, Ranks DEF Between, Busy
<1>3. Between("Invoking", "Closed") = Busy \cup {"Failed", "Completed"}
  BY <1>1, Ranks DEF Between, Busy
<1>4. Between("Handshaking", "Failed")
        = {"Handshaking", "Handshaked", "Starting", "Started"}
  BY <1>1, Ranks DEF Between, Busy
<1>5. Between("Connecting", "Handshaking") = {"Connecting", "Connected"}
  BY <1>1, Ranks DEF Between, Busy
<1> QED
  BY <1>1, <1>2, <1>3, <1>4, <1>5

\* The type of every variable but the lists.
FieldsOK ==
  /\ status \in ConnectStatus /\ exit \in {"Invalid", "Stopping", "Cancel"}
  /\ isStop \in BOOLEAN /\ isDestroy \in BOOLEAN /\ deleted \in BOOLEAN
  /\ connected \in BOOLEAN /\ fd \in BOOLEAN /\ timerFlag \in BOOLEAN
  /\ audio \in BOOLEAN /\ armed \subseteq NodeEvents
  /\ cmd \in Seq({"shake", "start", "stop"}) /\ peer \in PeerStates
  /\ retry \in 0..RetryConnectCount
  /\ recon.state \in ReconnectionState /\ recon.count \in Nat
  /\ recon = [state |-> recon.state, count |-> recon.count]
  /\ told \in Seq([ev : UserEvents, by : Threads])
  /\ attempts \in Nat /\ mends \in Nat /\ late \in [Threads -> Nat]
  /\ use \in Uses /\ starts \in 0..use.starts
  /\ sends \in 0..use.sends /\ faults \in 0..use.faults

LEMMA TypeSplit ==
  /\ TypeOK <=> FieldsOK /\ todo \in [Threads -> Seq(StepType)]
  /\ TypeOK' <=> FieldsOK' /\ todo' \in [Threads -> Seq(StepType)]
<1>1. TypeOK <=> FieldsOK /\ todo \in [Threads -> Seq(StepType)]
  BY DEF TypeOK, FieldsOK, ReconFields
<1>2. TypeOK' <=> FieldsOK' /\ todo' \in [Threads -> Seq(StepType)]
  BY DEF TypeOK, FieldsOK, ReconFields
<1> QED
  BY <1>1, <1>2

LEMMA UseTyped ==
  ASSUME FieldsOK
  PROVE  /\ use.continued \in BOOLEAN /\ use.long \in BOOLEAN
         /\ use.stops \in BOOLEAN /\ use.cancels \in BOOLEAN
         /\ use.starts \in Nat /\ use.sends \in Nat /\ use.faults \in Nat
         /\ RetryConnectCount \in Nat \ {0} /\ max_try_count \in Nat
BY NodeAssumption DEF FieldsOK, UseType

-----------------------------------------------------------------------------
\* Every action keeps the types and the lists; and what it does to the lists.
Sound == TypeOK /\ Planned

LEMMA SameLists ==
  ASSUME Planned, todo' = todo, use' = use
  PROVE  Planned' /\ WorkSame /\ CallSame
BY DEF Planned, WorkList, WorkRest, CallList, CallRest, WorkSame, CallSame,
       Now, First, Coming, Closing, HasClose, Ending, Ends

LEMMA StartStep ==
  ASSUME Sound, Start
  PROVE  Sound' /\ WorkSame /\ CallSame
<1>1. todo' = todo /\ use' = use
  BY DEF Start
<1>2. FieldsOK'
  <2>1. FieldsOK /\ todo \in [Threads -> Seq(StepType)]
    BY TypeSplit DEF Sound
  <2>2. status' \in ConnectStatus /\ armed' \subseteq NodeEvents
    BY <2>1, Statuses DEF Start, FieldsOK, Busy, NodeEvents
  <2>4. starts' \in 0..use.starts
    <3>1. starts \in 0..use.starts /\ use.starts \in Nat
      BY <2>1, UseTyped DEF FieldsOK
    <3>2. starts < use.starts /\ starts' = starts + 1
      BY DEF Start, MayStart
    <3> QED
      BY <3>1, <3>2
  <2>3. told' \in Seq([ev : UserEvents, by : Threads]) /\ late' \in [Threads -> Nat]
    BY DEF Start
  <2> QED
    BY <2>1, <2>2, <2>3, <2>4 DEF Start, FieldsOK, bufVars, reconVars
<1> QED
  BY <1>1, <1>2, SameLists, TypeSplit DEF Sound

LEMMA StartRefusedStep ==
  ASSUME Sound, StartRefused
  PROVE  Sound' /\ WorkSame /\ CallSame
<1>1. todo' = todo /\ use' = use
  BY DEF StartRefused, boundVars
<1>2. FieldsOK'
  BY TypeSplit, Statuses DEF Sound, StartRefused, FieldsOK, sockVars, bufVars,
     exitVars, reconVars, histVars, boundVars
<1> QED
  BY <1>1, <1>2, SameLists, TypeSplit DEF Sound

LEMMA CancelStep ==
  ASSUME Sound, Cancel
  PROVE  Sound' /\ WorkSame /\ CallSame
<1>1. todo' = todo /\ use' = use
  BY DEF Cancel, boundVars
<1>2. FieldsOK'
  BY TypeSplit DEF Sound, Cancel, FieldsOK, sockVars, bufVars,
     reconVars, histVars, boundVars
<1> QED
  BY <1>1, <1>2, SameLists, TypeSplit DEF Sound

LEMMA StopStep ==
  ASSUME Sound, Stop
  PROVE  /\ Sound' /\ WorkSame /\ Now("caller") = Step("none")
         /\ Now("caller")' = IF status = "Started" /\ ~audio
                               THEN Step("control") ELSE Step("none")
<1>1. use' = use /\ use.stops
  BY DEF Stop, boundVars
<1>2. FieldsOK'
  BY TypeSplit DEF Sound, Stop, FieldsOK, sockVars, bufVars,
     reconVars, histVars, boundVars
<1>3. CASE status = "Started" /\ ~audio
  <2>1. Begin("caller", <<Step("control"), Step("unlock")>>)
    BY <1>3 DEF Stop
  <2> QED
    BY <1>1, <1>2, <1>3, <2>1, CallLists, CallGiven, SameWork, TypeSplit
       DEF Sound, WorkSame
<1>4. CASE ~(status = "Started" /\ ~audio)
  <2>1. Begin("caller", <<>>)
    BY <1>4 DEF Stop
  <2> QED
    BY <1>1, <1>2, <1>4, <2>1, CallLists, CallGiven, SameWork, TypeSplit
       DEF Sound, WorkSame
<1> QED
  BY <1>3, <1>4

LEMMA SendAudioStep ==
  ASSUME Sound, SendAudio
  PROVE  /\ Sound' /\ WorkSame /\ Now("caller") = Step("none")
         /\ Now("caller")' = Step("push") /\ use.sends > 0
<1>1. FieldsOK /\ use' = use
  BY TypeSplit DEF Sound, SendAudio
<1>2. use.sends > 0 /\ sends' \in 0..use.sends
  <2>1. sends \in 0..use.sends /\ use.sends \in Nat
    BY <1>1, UseTyped DEF FieldsOK
  <2>2. sends < use.sends /\ sends' = sends + 1
    BY DEF SendAudio
  <2> QED
    BY <2>1, <2>2
<1>3. FieldsOK'
  BY <1>1, <1>2 DEF SendAudio, FieldsOK, sockVars, bufVars,
     exitVars, reconVars, histVars
<1>4. Begin("caller", <<Step("push")>>)
  BY DEF SendAudio
<1> QED
  BY <1>1, <1>2, <1>3, <1>4, CallLists, CallGiven, SameWork, TypeSplit
     DEF Sound, WorkSame

LEMMA UnlockStep ==
  ASSUME Sound, Unlock
  PROVE  /\ Sound' /\ WorkSame /\ Now("caller").op = "unlock"
         /\ Now("caller")' = Step("none")
<1>1. use' = use /\ Go("caller", <<>>)
  BY DEF Unlock, boundVars
<1>2. Now("caller").op = "unlock" /\ todo["caller"] # <<>>
  BY AtNow DEF Unlock, Sound, Threads, Ops
<1>3. FieldsOK'
  BY TypeSplit DEF Sound, Unlock, FieldsOK, sockVars, bufVars,
     exitVars, reconVars, histVars, boundVars
<1> QED
  BY <1>1, <1>2, <1>3, CallPopped, TypeSplit DEF Sound, CallDone

LEMMA AtWork ==
  ASSUME Sound
  PROVE  /\ \A op \in Ops : At("work", op) =>
              /\ Now("work").op = op /\ ~deleted /\ todo["work"] # <<>>
              /\ Now("work") = Head(todo["work"])
         /\ \A e : Fires(e) =>
              /\ Now("work") = Step("none") /\ Now("work").op = "none"
              /\ ~deleted /\ e \in armed /\ todo["work"] = <<>>
         /\ \A s : Begin("work", s) =>
              Now("work") = Step("none") /\ Now("work").op = "none"
<1>1. "work" \in Threads
  BY DEF Threads
<1> QED
  BY <1>1, AtNow, Fields DEF Sound, Fires, Begin

LEMMA LaunchStep ==
  ASSUME Sound, NEW e, Launch(e)
  PROVE  /\ Sound' /\ CallSame /\ Now("work").op = "none"
         /\ exit \in {"Cancel", "Stopping"} => WorkSame
         /\ exit \notin {"Cancel", "Stopping"} =>
              Now("work")' = Step("dns")
<1>1. FieldsOK /\ use' = use /\ Now("work").op = "none"
  BY TypeSplit, AtWork DEF Sound, Launch, boundVars
<1>2. mends' \in Nat /\ attempts' \in Nat /\ armed' \subseteq NodeEvents
      /\ status' \in ConnectStatus
  BY <1>1, Statuses DEF Launch, FieldsOK, Busy
<1>3. FieldsOK'
  BY <1>1, <1>2 DEF Launch, FieldsOK, bufVars, exitVars, reconVars, boundVars
<1>4. CASE exit \in {"Cancel", "Stopping"}
  <2>1. todo' = todo
    BY <1>4 DEF Launch
  <2> QED
    BY <1>1, <1>3, <1>4, <2>1, SameLists, TypeSplit DEF Sound
<1>5. CASE exit \notin {"Cancel", "Stopping"}
  <2>1. Begin("work", <<Step("dns")>>)
    BY <1>5 DEF Launch
  <2>2. /\ Fit(<<Step("dns")>>) /\ First(<<Step("dns")>>) = Step("dns")
    BY SingleLists DEF Single
  <2> QED
    BY <1>1, <1>3, <1>5, <2>1, <2>2, WorkGiven, TypeSplit DEF Sound, CallSame
<1> QED
  BY <1>4, <1>5

LEMMA DnsConnectedStep ==
  ASSUME Sound, DnsConnected
  PROVE  /\ Sound' /\ CallSame /\ Now("work").op = "dns" /\ ~deleted
         /\ Now("work")' = Step("start")
<1>1. /\ FieldsOK /\ use' = use /\ Now("work").op = "dns" /\ ~deleted
      /\ Go("work", <<Step("start")>>)
  BY TypeSplit, AtWork DEF Sound, DnsConnected, boundVars, Ops
<1>2. FieldsOK'
  BY <1>1 DEF DnsConnected, FieldsOK, sockVars, bufVars, exitVars, reconVars,
     histVars, boundVars
<1>3. /\ Fit(<<Step("start")>>) /\ First(<<Step("start")>>) = Step("start")
      /\ "dns" \in Single
  BY SingleLists DEF Single
<1> QED
  BY <1>1, <1>2, <1>3, WorkReplaced, TypeSplit DEF Sound, CallSame

LEMMA DnsConnectStep ==
  ASSUME Sound, DnsConnect
  PROVE  /\ Sound' /\ CallSame /\ Now("work").op = "dns" /\ ~deleted
         /\ \/ Now("work")' = Step("connect") /\ armed' = armed
            \/ Now("work")' = Step("none") /\ armed' = armed \cup {"dns"}
<1>1. FieldsOK /\ use' = use /\ Now("work").op = "dns" /\ ~deleted
      /\ todo["work"] # <<>>
  BY TypeSplit, AtWork DEF Sound, DnsConnect, boundVars, Ops
<1>2. /\ retry' \in 0..RetryConnectCount /\ attempts' \in Nat
      /\ status' \in ConnectStatus /\ armed' \subseteq NodeEvents
  BY <1>1, Statuses, NodeAssumption
     DEF DnsConnect, CheckConnectCount, FieldsOK, Busy, NodeEvents
<1>3. FieldsOK'
  BY <1>1, <1>2 DEF DnsConnect, FieldsOK, bufVars, exitVars, boundVars
<1>4. /\ Fit(<<Step("connect")>>) /\ First(<<Step("connect")>>) = Step("connect")
      /\ "dns" \in Single /\ Fit(<<>>) /\ First(<<>>) = Step("none")
  BY SingleLists DEF Single
<1>5. \/ Go("work", <<Step("connect")>>) /\ armed' = armed
      \/ Go("work", <<>>) /\ armed' = armed \cup {"dns"}
  BY DEF DnsConnect
<1>6. CASE Go("work", <<Step("connect")>>) /\ armed' = armed
  BY <1>1, <1>3, <1>4, <1>6, WorkReplaced, TypeSplit DEF Sound, CallSame
<1>7. CASE Go("work", <<>>) /\ armed' = armed \cup {"dns"}
  BY <1>1, <1>3, <1>4, <1>7, WorkReplaced, TypeSplit DEF Sound, CallSame
<1> QED
  BY <1>5, <1>6, <1>7

LEMMA DnsGivesUpStep ==
  ASSUME Sound, DnsGivesUp
  PROVE  /\ Sound' /\ CallSame /\ Now("work").op = "dns" /\ ~deleted
         /\ Now("work")' = CheckFailed(TRUE) /\ ~Closing'
<1>1. FieldsOK /\ use' = use /\ Now("work").op = "dns" /\ ~deleted
      /\ Go("work", Report(TRUE) \o <<Step("destroy")>>)
  BY TypeSplit, AtWork DEF Sound, DnsGivesUp, boundVars, Ops
<1>2. retry' \in 0..RetryConnectCount
  BY NodeAssumption DEF DnsGivesUp
<1>3. FieldsOK'
  BY <1>1, <1>2 DEF DnsGivesUp, FieldsOK, sockVars, bufVars, exitVars, histVars,
     boundVars
<1>4. /\ Fit(Report(TRUE) \o <<Step("destroy")>>) /\ "dns" \in Single
      /\ First(Report(TRUE) \o <<Step("destroy")>>) = CheckFailed(TRUE)
      /\ ~HasClose(Report(TRUE) \o <<Step("destroy")>>)
  BY FailureLists DEF Single
<1> QED
  BY <1>1, <1>3, <1>4, WorkReplaced, TypeSplit DEF Sound, CallSame

LEMMA DnsCancelledStep ==
  ASSUME Sound, DnsCancelled
  PROVE  /\ Sound' /\ CallSame /\ Now("work").op = "dns" /\ ~deleted
         /\ Now("work")' = Step("destroy")
<1>1. FieldsOK /\ use' = use /\ Now("work").op = "dns" /\ ~deleted
      /\ Go("work", <<Step("destroy")>>)
  BY TypeSplit, AtWork DEF Sound, DnsCancelled, boundVars, Ops
<1>2. FieldsOK'
  BY <1>1 DEF DnsCancelled, FieldsOK, sockVars, bufVars, exitVars, reconVars,
     histVars, boundVars
<1>3. /\ Fit(<<Step("destroy")>>) /\ First(<<Step("destroy")>>) = Step("destroy")
      /\ "dns" \in Single
  BY SingleLists DEF Single
<1> QED
  BY <1>1, <1>2, <1>3, WorkReplaced, TypeSplit DEF Sound, CallSame

\* A failure of the network is counted.
LEMMA FaultTyped ==
  ASSUME FieldsOK, use' = use, Fault \/ NoFault
  PROVE  faults' \in 0..use'.faults
<1>1. faults \in 0..use.faults /\ use.faults \in Nat
  BY UseTyped DEF FieldsOK
<1>2. faults' = faults \/ (faults < use.faults /\ faults' = faults + 1)
  BY DEF Fault, NoFault
<1> QED
  BY <1>1, <1>2

LEMMA ResolvedStep ==
  ASSUME Sound, Resolved
  PROVE  /\ Sound' /\ CallSame /\ Now("work").op = "none" /\ ~deleted
         /\ \/ Now("work")' = Step("connect") /\ status' = status
            \/ Now("work")' = Step("dns") /\ status' = "Connecting"
<1>1. FieldsOK /\ use' = use /\ Now("work").op = "none" /\ ~deleted
  BY TypeSplit, AtWork DEF Sound, Resolved, boundVars
<1>2. /\ faults' \in 0..use'.faults /\ armed' \subseteq NodeEvents
      /\ status' \in ConnectStatus
  BY <1>1, FaultTyped, Statuses DEF Resolved, FieldsOK, Busy
<1>3. FieldsOK'
  BY <1>1, <1>2 DEF Resolved, FieldsOK, bufVars, exitVars, reconVars,
     histVars, boundVars
<1>4. /\ Fit(<<Step("connect")>>) /\ First(<<Step("connect")>>) = Step("connect")
      /\ Fit(<<Step("dns")>>) /\ First(<<Step("dns")>>) = Step("dns")
  BY SingleLists DEF Single
<1>5. \/ Begin("work", <<Step("connect")>>) /\ status' = status
      \/ Begin("work", <<Step("dns")>>) /\ status' = "Connecting"
  BY DEF Resolved
<1>6. CASE Begin("work", <<Step("connect")>>) /\ status' = status
  BY <1>1, <1>3, <1>4, <1>6, WorkGiven, TypeSplit DEF Sound, CallSame
<1>7. CASE Begin("work", <<Step("dns")>>) /\ status' = "Connecting"
  BY <1>1, <1>3, <1>4, <1>7, WorkGiven, TypeSplit DEF Sound, CallSame
<1> QED
  BY <1>5, <1>6, <1>7

LEMMA ConnectStep ==
  ASSUME Sound, Connect
  PROVE  /\ Sound' /\ CallSame /\ Now("work").op = "connect" /\ ~deleted
         /\ \/ /\ exit # "Cancel" /\ fd' = TRUE /\ peer' = "none"
               /\ Now("work")' = Step("none")
               /\ armed' = (armed \ {"read", "write"}) \cup {"connect"}
               /\ status' = status /\ connected' = connected
            \/ /\ exit # "Cancel" /\ fd' = TRUE /\ peer' = "none"
               /\ Now("work")' = Step("ssl")
               /\ armed' = armed \ {"read", "write", "connect"}
               /\ status' = "Connected" /\ connected' = TRUE
            \/ /\ Now("work")' = Step("reconnect")
               /\ UNCHANGED <<status, connected, fd, armed, peer>>
<1>1. FieldsOK /\ use' = use /\ Now("work").op = "connect" /\ ~deleted
  BY TypeSplit, AtWork DEF Sound, Connect, boundVars, Ops
<1>2. \/ /\ exit # "Cancel" /\ fd' = TRUE /\ peer' = "none" /\ NoFault
         /\ Go("work", <<>>)
         /\ armed' = (armed \ {"read", "write"}) \cup {"connect"}
         /\ status' = status /\ connected' = connected
      \/ /\ exit # "Cancel" /\ fd' = TRUE /\ peer' = "none" /\ NoFault
         /\ Go("work", <<Step("ssl")>>)
         /\ armed' = armed \ {"read", "write", "connect"}
         /\ status' = "Connected" /\ connected' = TRUE
      \/ /\ Go("work", Again) /\ (Fault \/ NoFault)
         /\ UNCHANGED <<status, connected, fd, armed, peer>>
  BY DEF Connect
<1>3. /\ faults' \in 0..use'.faults /\ armed' \subseteq NodeEvents
      /\ status' \in ConnectStatus /\ connected' \in BOOLEAN /\ fd' \in BOOLEAN
      /\ peer' \in PeerStates
  BY <1>1, <1>2, FaultTyped, Statuses DEF FieldsOK, Busy, NodeEvents, PeerStates
<1>4. FieldsOK'
  BY <1>1, <1>3 DEF Connect, FieldsOK, exitVars, reconVars, histVars, boundVars
<1>5. /\ Fit(<<>>) /\ First(<<>>) = Step("none") /\ "connect" \in Single
      /\ Fit(<<Step("ssl")>>) /\ First(<<Step("ssl")>>) = Step("ssl")
      /\ Fit(Again) /\ First(Again) = Step("reconnect")
  BY SingleLists DEF Single
<1>6. CASE /\ exit # "Cancel" /\ fd' = TRUE /\ peer' = "none" /\ NoFault
           /\ Go("work", <<>>)
           /\ armed' = (armed \ {"read", "write"}) \cup {"connect"}
           /\ status' = status /\ connected' = connected
  BY <1>1, <1>4, <1>5, <1>6, WorkReplaced, TypeSplit DEF Sound, CallSame
<1>7. CASE /\ exit # "Cancel" /\ fd' = TRUE /\ peer' = "none" /\ NoFault
           /\ Go("work", <<Step("ssl")>>)
           /\ armed' = armed \ {"read", "write", "connect"}
           /\ status' = "Connected" /\ connected' = TRUE
  BY <1>1, <1>4, <1>5, <1>7, WorkReplaced, TypeSplit DEF Sound, CallSame
<1>8. CASE /\ Go("work", Again)
           /\ UNCHANGED <<status, connected, fd, armed, peer>>
  BY <1>1, <1>4, <1>5, <1>8, WorkReplaced, TypeSplit DEF Sound, CallSame
<1> QED
  BY <1>2, <1>6, <1>7, <1>8

LEMMA ConnectReadyStep ==
  ASSUME Sound, NEW e, ConnectReady(e)
  PROVE  /\ Sound' /\ CallSame /\ Now("work").op = "none" /\ ~deleted
         /\ e \in {"connect", "timer"} /\ e \in armed
         /\ \/ /\ status = "Connecting" /\ fd
               /\ status' = "Connected" /\ connected' = TRUE
               /\ Now("work")' = Step("ssl") /\ armed' = armed \ {e}
            \/ /\ status = "Connecting" /\ fd /\ WorkSame
               /\ UNCHANGED <<status, connected>>
               /\ armed' = (armed \ {e}) \cup {"connect"}
            \/ /\ status = "Connected" /\ fd
               /\ Now("work")' = Step("ssl") /\ armed' = armed \ {e}
               /\ UNCHANGED <<status, connected>>
            \/ /\ status \notin {"Connecting", "Connected"} /\ WorkSame
               /\ UNCHANGED <<status, connected>> /\ armed' = armed \ {e}
            \/ /\ e = "connect" \/ status = "Connecting"
               /\ Now("work")' = Step("reconnect") /\ armed' = armed \ {e}
               /\ UNCHANGED <<status, connected>>
<1>1. FieldsOK /\ use' = use /\ Now("work").op = "none" /\ ~deleted
      /\ e \in {"connect", "timer"} /\ e \in armed
  BY TypeSplit, AtWork DEF Sound, ConnectReady, boundVars
<1>2. \/ /\ status = "Connecting" /\ fd
         /\ status' = "Connected" /\ connected' = TRUE
         /\ Begin("work", <<Step("ssl")>>) /\ (NoFault \/ Fault)
         /\ armed' = armed \ {e}
      \/ /\ status = "Connecting" /\ fd /\ Fault
         /\ UNCHANGED <<status, connected, todo>>
         /\ armed' = (armed \ {e}) \cup {"connect"}
      \/ /\ status = "Connected" /\ fd
         /\ Begin("work", <<Step("ssl")>>) /\ NoFault
         /\ UNCHANGED <<status, connected>> /\ armed' = armed \ {e}
      \/ /\ status \notin {"Connecting", "Connected"} /\ NoFault
         /\ UNCHANGED <<status, connected, todo>> /\ armed' = armed \ {e}
      \/ /\ e = "connect" \/ status = "Connecting"
         /\ Begin("work", Again) /\ Fault
         /\ UNCHANGED <<status, connected>> /\ armed' = armed \ {e}
  BY DEF ConnectReady
<1>3. /\ faults' \in 0..use'.faults /\ armed' \subseteq NodeEvents
      /\ status' \in ConnectStatus /\ connected' \in BOOLEAN
  <2>1. faults' \in 0..use'.faults
    <3>1. Fault \/ NoFault
      BY <1>2
    <3> QED
      BY <1>1, <3>1, FaultTyped
  <2>2. armed' \subseteq NodeEvents
    BY <1>1, <1>2 DEF FieldsOK, NodeEvents
  <2>3. status' \in ConnectStatus /\ connected' \in BOOLEAN
    BY <1>1, <1>2, Statuses DEF FieldsOK, Busy
  <2> QED
    BY <2>1, <2>2, <2>3
<1>4. FieldsOK'
  BY <1>1, <1>3 DEF ConnectReady, FieldsOK, bufVars, exitVars, reconVars,
     histVars, boundVars
<1>5. /\ Fit(<<Step("ssl")>>) /\ First(<<Step("ssl")>>) = Step("ssl")
      /\ Fit(Again) /\ First(Again) = Step("reconnect")
  BY SingleLists DEF Single
<1>6. CASE /\ status = "Connecting" /\ fd
           /\ status' = "Connected" /\ connected' = TRUE
           /\ Begin("work", <<Step("ssl")>>) /\ armed' = armed \ {e}
  BY <1>1, <1>4, <1>5, <1>6, WorkGiven, TypeSplit DEF Sound, CallSame
<1>10. CASE /\ status = "Connecting" /\ fd
            /\ UNCHANGED <<status, connected, todo>>
            /\ armed' = (armed \ {e}) \cup {"connect"}
  BY <1>1, <1>4, <1>10, SameLists, TypeSplit DEF Sound
<1>7. CASE /\ status = "Connected" /\ fd /\ Begin("work", <<Step("ssl")>>)
           /\ UNCHANGED <<status, connected>> /\ armed' = armed \ {e}
  BY <1>1, <1>4, <1>5, <1>7, WorkGiven, TypeSplit DEF Sound, CallSame
<1>8. CASE /\ status \notin {"Connecting", "Connected"}
           /\ UNCHANGED <<status, connected, todo>> /\ armed' = armed \ {e}
  BY <1>1, <1>4, <1>8, SameLists, TypeSplit DEF Sound
<1>9. CASE /\ e = "connect" \/ status = "Connecting"
           /\ Begin("work", Again)
           /\ UNCHANGED <<status, connected>> /\ armed' = armed \ {e}
  BY <1>1, <1>4, <1>5, <1>9, WorkGiven, TypeSplit DEF Sound, CallSame
<1> QED
  BY <1>2, <1>6, <1>7, <1>8, <1>9, <1>10

LEMMA SslWaitsStep ==
  ASSUME Sound, SslWaits
  PROVE  /\ Sound' /\ CallSame /\ Now("work").op = "ssl" /\ ~deleted
         /\ Now("work")' = Step("none")
<1>1. FieldsOK /\ use' = use /\ Now("work").op = "ssl" /\ ~deleted
      /\ Go("work", <<>>)
  BY TypeSplit, AtWork DEF Sound, SslWaits, boundVars, Ops
<1>2. armed' \subseteq NodeEvents /\ timerFlag' \in BOOLEAN
  BY <1>1 DEF SslWaits, FieldsOK, NodeEvents
<1>3. FieldsOK'
  BY <1>1, <1>2 DEF SslWaits, FieldsOK, bufVars, exitVars, reconVars,
     histVars, boundVars
<1>4. Fit(<<>>) /\ First(<<>>) = Step("none") /\ "ssl" \in Single
  BY SingleLists DEF Single
<1> QED
  BY <1>1, <1>3, <1>4, WorkReplaced, TypeSplit DEF Sound, CallSame

LEMMA SslEndsStep ==
  ASSUME Sound, SslEnds
  PROVE  /\ Sound' /\ CallSame /\ Now("work").op = "ssl" /\ ~deleted
         /\ \/ /\ exit # "Cancel" /\ status' = "Handshaking" /\ peer' = "fresh"
               /\ Now("work").op' = "request" /\ Now("work").flag' = TRUE
            \/ /\ Now("work")' = Step("reconnect")
               /\ UNCHANGED <<status, peer>>
<1>1. FieldsOK /\ use' = use /\ Now("work").op = "ssl" /\ ~deleted
  BY TypeSplit, AtWork DEF Sound, SslEnds, boundVars, Ops
<1>2. \/ /\ exit # "Cancel" /\ status' = "Handshaking" /\ peer' = "fresh"
         /\ Go("work", <<Event("request", "none", TRUE)>>) /\ NoFault
      \/ /\ Go("work", Again) /\ (Fault \/ NoFault)
         /\ UNCHANGED <<status, peer>>
  BY DEF SslEnds
<1>3. /\ faults' \in 0..use'.faults /\ status' \in ConnectStatus
      /\ peer' \in PeerStates
  BY <1>1, <1>2, FaultTyped, Statuses DEF FieldsOK, Busy, PeerStates
<1>4. FieldsOK'
  BY <1>1, <1>3 DEF SslEnds, FieldsOK, sockVars, exitVars, reconVars,
     histVars, boundVars
<1> DEFINE d == Event("request", "none", TRUE)
<1>5. /\ Fit(<<d>>) /\ First(<<d>>) = d /\ d.op = "request" /\ d.flag = TRUE
      /\ Fit(Again) /\ First(Again) = Step("reconnect") /\ "ssl" \in Single
  <2>1. d.op = "request" /\ d.flag = TRUE /\ d \in StepType
    BY DEF Event, StepType, Ops
  <2> HIDE DEF d
  <2>2. WorkRest(d, <<>>)
    BY <2>1 DEF WorkRest, Single, Told
  <2>3. Fit(<<d>>) /\ First(<<d>>) = d
    BY <2>1, <2>2, FitLists, HeadOfLists
  <2> QED
    BY <2>1, <2>3, SingleLists DEF Single
<1> HIDE DEF d
<1>6. CASE /\ exit # "Cancel" /\ status' = "Handshaking" /\ peer' = "fresh"
           /\ Go("work", <<d>>)
  <2>1. /\ todo' \in [Threads -> Seq(StepType)] /\ Planned'
        /\ Now("caller")' = Now("caller") /\ Now("work")' = d
    BY <1>1, <1>5, <1>6, WorkReplaced DEF Sound
  <2> QED
    BY <1>1, <1>4, <1>5, <1>6, <2>1, TypeSplit DEF Sound, CallSame
<1>7. CASE Go("work", Again) /\ UNCHANGED <<status, peer>>
  BY <1>1, <1>4, <1>5, <1>7, WorkReplaced, TypeSplit DEF Sound, CallSame
<1> QED
  BY <1>2, <1>6, <1>7 DEF d

\* A send of the work thread that is at a step with nothing after it.
LEMMA WorkSends ==
  ASSUME Sound, use' = use, Now("work").op \in Single, NEW q, NEW on, NEW failed,
         \A m \in BOOLEAN : Fit(failed[m]) /\ Failing(failed[m]),
         Sends("work", q, on, failed)
  PROVE  /\ todo' \in [Threads -> Seq(StepType)] /\ Planned' /\ CallSame
         /\ Fault \/ NoFault
         /\ \/ /\ fd /\ cmd' = <<>> /\ peer' = Hear(peer, q) /\ armed' = on
               /\ Now("work")' = Step("none")
            \/ /\ fd /\ cmd' = q /\ peer' = peer /\ armed' = on \cup {"write"}
               /\ Now("work")' = Step("none")
            \/ /\ cmd' = q /\ peer' = peer /\ armed' = on /\ Breaks'
               /\ \E m \in BOOLEAN : Now("work")' = First(failed[m])
<1>1. Fit(<<>>) /\ First(<<>>) = Step("none")
  BY SingleLists
<1>2. \/ /\ fd /\ cmd' = <<>> /\ peer' = Hear(peer, q) /\ armed' = on
         /\ NoFault /\ Go("work", <<>>)
      \/ /\ fd /\ cmd' = q /\ peer' = peer /\ armed' = on \cup {"write"}
         /\ Fault /\ Go("work", <<>>)
      \/ /\ cmd' = q /\ peer' = peer /\ armed' = on /\ (Fault \/ NoFault)
         /\ \E m \in BOOLEAN : Go("work", failed[m])
  BY DEF Sends
<1>3. Go("work", <<>>) =>
        /\ todo' \in [Threads -> Seq(StepType)] /\ Planned' /\ CallSame
        /\ Now("work")' = Step("none")
  BY <1>1, WorkReplaced DEF Sound, CallSame
<1>4. ASSUME NEW m \in BOOLEAN, Go("work", failed[m])
      PROVE  /\ todo' \in [Threads -> Seq(StepType)] /\ Planned' /\ CallSame
             /\ Now("work")' = First(failed[m]) /\ Breaks'
  BY <1>4, WorkReplaced DEF Sound, CallSame
<1> QED
  BY <1>2, <1>3, <1>4

LEMMA HearTyped ==
  ASSUME NEW p, NEW q
  PROVE  Hear(p, q) \in PeerStates
BY DEF Hear, PeerStates

LEMMA CmdTyped ==
  ASSUME FieldsOK, NEW x \in {"shake", "start", "stop"}
  PROVE  /\ <<>> \in Seq({"shake", "start", "stop"})
         /\ Append(cmd, x) \in Seq({"shake", "start", "stop"})
BY AppendProperties DEF FieldsOK

LEMMA RequestStep ==
  ASSUME Sound, NodeRequestProcess
  PROVE  /\ Sound' /\ CallSame /\ Now("work").op = "request" /\ ~deleted
         /\ \/ /\ status = "Handshaking" /\ status' = "Handshaked"
               /\ \/ /\ fd /\ cmd' = <<>> /\ peer' = Hear(peer, Append(cmd, "shake"))
                     /\ armed' = armed \cup {"read"} /\ Now("work")' = Step("none")
                  \/ /\ fd /\ cmd' = Append(cmd, "shake") /\ peer' = peer
                     /\ armed' = armed \cup {"read", "write"}
                     /\ Now("work")' = Step("none")
                  \/ /\ cmd' = Append(cmd, "shake") /\ peer' = peer
                     /\ armed' = armed \cup {"read"} /\ Breaks'
                     /\ \E m \in BOOLEAN : Now("work")' = CheckFailed(m)
            \/ /\ status \in {"Handshaked", "Starting"} /\ status' = status
               /\ \/ /\ cmd = <<>> /\ Now("work")' = Step("none")
                     /\ UNCHANGED <<cmd, peer, armed>>
                  \/ /\ cmd # <<>> /\ fd /\ cmd' = <<>> /\ peer' = Hear(peer, cmd)
                     /\ armed' = armed /\ Now("work")' = Step("none")
                  \/ /\ cmd # <<>> /\ fd /\ cmd' = cmd /\ peer' = peer
                     /\ armed' = armed \cup {"write"}
                     /\ Now("work")' = Step("none")
                  \/ /\ cmd # <<>> /\ cmd' = cmd /\ peer' = peer
                     /\ armed' = armed /\ Breaks'
                     /\ \E m \in BOOLEAN : Now("work")' = CheckFailed(m)
            \/ /\ status = "Started" /\ Now("work")' = Step("flush")
               /\ UNCHANGED <<status, cmd, peer, armed>>
            \/ /\ status \notin {"Handshaking", "Handshaked", "Starting", "Started"}
               /\ UNCHANGED <<status, cmd, peer, armed>> /\ Breaks'
               /\ \E m \in BOOLEAN : Now("work")' = CheckFailed(m)
<1> DEFINE rest == IF Head(todo["work"]).flag THEN <<Step("destroy")>> ELSE <<>>
           failed == [m \in BOOLEAN |-> RequestFailed(m) \o rest]
<1>1. FieldsOK /\ use' = use /\ Now("work").op = "request" /\ ~deleted
  BY TypeSplit, AtWork DEF Sound, NodeRequestProcess, boundVars, Ops
<1>2. ASSUME NEW m \in BOOLEAN
      PROVE  /\ Fit(failed[m]) /\ Failing(failed[m])
             /\ First(failed[m]) = CheckFailed(m)
  <2>1. failed[m] = RequestFailed(m) \o rest
    OBVIOUS
  <2>2. RequestFailed(m) \o <<>> = RequestFailed(m)
    BY FailureTyped, JoinEmpty
  <2>3. rest = <<Step("destroy")>> \/ rest = <<>>
    OBVIOUS
  <2> HIDE DEF failed, rest
  <2>4. CASE rest = <<Step("destroy")>>
    BY <2>1, <2>4, FailureLists
  <2>5. CASE rest = <<>>
    <3>1. failed[m] = RequestFailed(m)
      BY <2>1, <2>2, <2>5
    <3> QED
      BY <3>1, FailureLists
  <2> QED
    BY <2>3, <2>4, <2>5
<1>3. \/ /\ status = "Handshaking" /\ status' = "Handshaked"
         /\ Sends("work", Append(cmd, "shake"), armed \cup {"read"}, failed)
      \/ /\ status \in {"Handshaked", "Starting"} /\ status' = status
         /\ cmd = <<>> /\ Go("work", <<>>) /\ NoFault
         /\ UNCHANGED <<cmd, peer, armed>>
      \/ /\ status \in {"Handshaked", "Starting"} /\ status' = status
         /\ cmd # <<>> /\ Sends("work", cmd, armed, failed)
      \/ /\ status = "Started" /\ Go("work", <<Step("flush")>>)
         /\ UNCHANGED <<status, cmd, peer, armed>> /\ NoFault
      \/ /\ status \notin Between("Handshaking", "Failed")
         /\ \E m \in BOOLEAN : Go("work", failed[m])
         /\ UNCHANGED <<status, cmd, peer, armed>> /\ NoFault
  BY DEF NodeRequestProcess
<1>4. "request" \in Single /\ Fit(<<>>) /\ First(<<>>) = Step("none")
      /\ Fit(<<Step("flush")>>) /\ First(<<Step("flush")>>) = Step("flush")
  BY SingleLists DEF Single
<1>5. UNCHANGED <<connected, fd, timerFlag, audio, exit, isStop, isDestroy,
                  deleted, retry, recon, told, late, attempts, mends, use,
                  starts, sends>>
  BY DEF NodeRequestProcess, exitVars, reconVars, histVars, boundVars
<1>6. ASSUME /\ status' \in ConnectStatus /\ armed' \subseteq NodeEvents
             /\ peer' \in PeerStates
             /\ Fault \/ NoFault
             /\ cmd' \in Seq({"shake", "start", "stop"})
      PROVE  FieldsOK'
  <2>1. faults' \in 0..use'.faults
    BY <1>1, <1>6, FaultTyped
  <2> QED
    BY <1>1, <1>5, <1>6, <2>1 DEF FieldsOK
<1> HIDE DEF failed, rest
<1>7. CASE /\ status = "Handshaking" /\ status' = "Handshaked"
           /\ Sends("work", Append(cmd, "shake"), armed \cup {"read"}, failed)
  <2> DEFINE q == Append(cmd, "shake")  on == armed \cup {"read"}
  <2>1. /\ q \in Seq({"shake", "start", "stop"}) /\ on \subseteq NodeEvents
        /\ "write" \in NodeEvents /\ on \cup {"write"} = armed \cup {"read", "write"}
        /\ <<>> \in Seq({"shake", "start", "stop"})
        /\ peer \in PeerStates /\ Hear(peer, q) \in PeerStates
    BY <1>1, CmdTyped, HearTyped DEF FieldsOK, NodeEvents
  <2> HIDE DEF q, on
  <2>2. Sends("work", q, on, failed)
    BY <1>7 DEF q, on
  <2>3. /\ todo' \in [Threads -> Seq(StepType)] /\ Planned' /\ CallSame
        /\ Fault \/ NoFault
        /\ \/ /\ fd /\ cmd' = <<>> /\ peer' = Hear(peer, q) /\ armed' = on
              /\ Now("work")' = Step("none")
           \/ /\ fd /\ cmd' = q /\ peer' = peer /\ armed' = on \cup {"write"}
              /\ Now("work")' = Step("none")
           \/ /\ cmd' = q /\ peer' = peer /\ armed' = on /\ Breaks'
              /\ \E m \in BOOLEAN : Now("work")' = First(failed[m])
    BY <1>1, <1>2, <1>4, <2>2, WorkSends
  <2>4. FieldsOK'
    BY <1>6, <1>7, <2>1, <2>3, Statuses DEF Busy
  <2> QED
    BY <1>1, <1>2, <1>7, <2>1, <2>3, <2>4, TypeSplit DEF Sound, q, on
<1>8. CASE /\ status \in {"Handshaked", "Starting"} /\ status' = status
           /\ cmd = <<>> /\ Go("work", <<>>) /\ NoFault
           /\ UNCHANGED <<cmd, peer, armed>>
  <2>1. FieldsOK'
    BY <1>1, <1>6, <1>8 DEF FieldsOK
  <2> QED
    BY <1>1, <1>4, <1>8, <2>1, WorkReplaced, TypeSplit DEF Sound, CallSame
<1>9. CASE /\ status \in {"Handshaked", "Starting"} /\ status' = status
           /\ cmd # <<>> /\ Sends("work", cmd, armed, failed)
  <2>1. /\ todo' \in [Threads -> Seq(StepType)] /\ Planned' /\ CallSame
        /\ Fault \/ NoFault
        /\ \/ /\ fd /\ cmd' = <<>> /\ peer' = Hear(peer, cmd) /\ armed' = armed
              /\ Now("work")' = Step("none")
           \/ /\ fd /\ cmd' = cmd /\ peer' = peer
              /\ armed' = armed \cup {"write"} /\ Now("work")' = Step("none")
           \/ /\ cmd' = cmd /\ peer' = peer /\ armed' = armed /\ Breaks'
              /\ \E m \in BOOLEAN : Now("work")' = First(failed[m])
    BY <1>1, <1>2, <1>4, <1>9, WorkSends
  <2>4. cmd' \in Seq({"shake", "start", "stop"})
    BY <1>1, <2>1, CmdTyped DEF FieldsOK
  <2>5. peer' \in PeerStates
    BY <1>1, <2>1, HearTyped DEF FieldsOK
  <2>6. armed' \subseteq NodeEvents
    BY <1>1, <2>1 DEF FieldsOK, NodeEvents
  <2>2. /\ cmd' \in Seq({"shake", "start", "stop"}) /\ peer' \in PeerStates
        /\ armed' \subseteq NodeEvents
    BY <2>4, <2>5, <2>6
  <2>3. FieldsOK'
    BY <1>1, <1>6, <1>9, <2>1, <2>2 DEF FieldsOK
  <2> QED
    BY <1>1, <1>2, <1>9, <2>1, <2>3, TypeSplit DEF Sound
<1>10. CASE /\ status = "Started" /\ Go("work", <<Step("flush")>>)
            /\ UNCHANGED <<status, cmd, peer, armed>> /\ NoFault
  <2>1. FieldsOK'
    BY <1>1, <1>6, <1>10 DEF FieldsOK
  <2> QED
    BY <1>1, <1>4, <1>10, <2>1, WorkReplaced, TypeSplit DEF Sound, CallSame
<1>11. CASE /\ status \notin Between("Handshaking", "Failed")
            /\ \E m \in BOOLEAN : Go("work", failed[m])
            /\ UNCHANGED <<status, cmd, peer, armed>> /\ NoFault
  <2>1. FieldsOK'
    BY <1>1, <1>6, <1>11 DEF FieldsOK
  <2>2. PICK m \in BOOLEAN : Go("work", failed[m])
    BY <1>11
  <2>3. /\ todo' \in [Threads -> Seq(StepType)] /\ Planned' /\ CallSame
        /\ Now("work")' = CheckFailed(m) /\ Breaks'
    BY <1>1, <1>2, <1>4, <2>2, WorkReplaced DEF Sound, CallSame
  <2> QED
    BY <1>1, <1>11, <2>1, <2>3, TypeSplit, Statuses DEF Sound
<1> QED
  BY <1>3, <1>7, <1>8, <1>9, <1>10, <1>11

LEMMA SendStartStep ==
  ASSUME Sound, SendStart
  PROVE  /\ Sound' /\ CallSame /\ Now("work").op = "start" /\ ~deleted
         /\ \/ /\ fd /\ cmd' = <<>> /\ peer' = Hear(peer, Append(cmd, "start"))
               /\ armed' = armed /\ Now("work")' = Step("none")
            \/ /\ fd /\ cmd' = Append(cmd, "start") /\ peer' = peer
               /\ armed' = armed \cup {"write"} /\ Now("work")' = Step("none")
            \/ /\ cmd' = Append(cmd, "start") /\ peer' = peer
               /\ armed' = armed /\ Breaks'
               /\ \E m \in BOOLEAN : \/ Now("work")' = CheckFailed(m)
                                     \/ Now("work")' = Step("close")
<1> DEFINE failed == [m \in BOOLEAN |->
                        IF Head(todo["work"]).flag THEN ResponseFailed(m)
                        ELSE RequestFailed(m) \o <<Step("destroy")>>]
           q == Append(cmd, "start")
<1>1. FieldsOK /\ use' = use /\ Now("work").op = "start" /\ ~deleted
  BY TypeSplit, AtWork DEF Sound, SendStart, boundVars, Ops
<1>2. ASSUME NEW m \in BOOLEAN
      PROVE  /\ Fit(failed[m]) /\ Failing(failed[m])
             /\ \/ First(failed[m]) = CheckFailed(m)
                \/ First(failed[m]) = Step("close")
  <2>1. \/ failed[m] = ResponseFailed(m)
        \/ failed[m] = RequestFailed(m) \o <<Step("destroy")>>
    OBVIOUS
  <2> HIDE DEF failed
  <2> QED
    BY <2>1, FailureLists
<1>3. /\ Sends("work", q, armed, failed) /\ status' = "Starting"
      /\ recon' = [recon EXCEPT !.state = "NewReconnectionStarting"]
      /\ UNCHANGED <<connected, fd, timerFlag, audio, exit, isStop, isDestroy,
                     deleted, retry, told, late, attempts, mends, use,
                     starts, sends>>
  BY DEF SendStart, exitVars, histVars, boundVars
<1>4. "start" \in Single
  BY DEF Single
<1>5. /\ q \in Seq({"shake", "start", "stop"}) /\ "write" \in NodeEvents
      /\ <<>> \in Seq({"shake", "start", "stop"})
      /\ peer \in PeerStates /\ Hear(peer, q) \in PeerStates
  BY <1>1, CmdTyped, HearTyped DEF FieldsOK, NodeEvents
<1> HIDE DEF failed, q
<1>6. /\ todo' \in [Threads -> Seq(StepType)] /\ Planned' /\ CallSame
      /\ Fault \/ NoFault
      /\ \/ /\ fd /\ cmd' = <<>> /\ peer' = Hear(peer, q) /\ armed' = armed
            /\ Now("work")' = Step("none")
         \/ /\ fd /\ cmd' = q /\ peer' = peer /\ armed' = armed \cup {"write"}
            /\ Now("work")' = Step("none")
         \/ /\ cmd' = q /\ peer' = peer /\ armed' = armed /\ Breaks'
            /\ \E m \in BOOLEAN : Now("work")' = First(failed[m])
  BY <1>1, <1>2, <1>3, <1>4, WorkSends
<1>7. /\ faults' \in 0..use'.faults /\ status' \in ConnectStatus
      /\ recon'.state \in ReconnectionState /\ recon'.count \in Nat
      /\ recon' = [state |-> recon'.state, count |-> recon'.count]
  <2>1. faults' \in 0..use'.faults
    BY <1>1, <1>3, <1>6, FaultTyped
  <2>2. status' \in ConnectStatus
    BY <1>3, Statuses DEF Busy
  <2>3. recon' = [state |-> "NewReconnectionStarting", count |-> recon.count]
    BY <1>1, <1>3 DEF FieldsOK
  <2>4. recon.count \in Nat
    BY <1>1 DEF FieldsOK
  <2> QED
    BY <2>1, <2>2, <2>3, <2>4 DEF ReconnectionState
<1>8. /\ cmd' \in Seq({"shake", "start", "stop"}) /\ peer' \in PeerStates
      /\ armed' \subseteq NodeEvents
  BY <1>1, <1>5, <1>6 DEF FieldsOK
<1>9. FieldsOK'
  BY <1>1, <1>3, <1>7, <1>8 DEF FieldsOK
<1> QED
  BY <1>1, <1>2, <1>6, <1>9, TypeSplit DEF Sound, q

\* What the callback of a readable socket leaves alone.
LEMMA ReadUnchanged ==
  ASSUME Read
  PROVE  /\ UNCHANGED <<connected, fd, timerFlag, audio, exit, isStop, isDestroy,
                        deleted, retry, told, late, attempts, mends, use,
                        starts, sends>>
         /\ Fires("read") /\ fd /\ exit # "Cancel"
BY DEF Read, exitVars, histVars, boundVars

LEMMA ReadCancelledStep ==
  ASSUME Sound, ReadCancelled
  PROVE  /\ Sound' /\ CallSame /\ Now("work").op = "none" /\ ~deleted
         /\ "read" \in armed /\ Now("work")' = Step("close") /\ Closing'
         /\ Ending'
<1>1. /\ FieldsOK /\ use' = use /\ Now("work").op = "none" /\ ~deleted
      /\ "read" \in armed
  BY TypeSplit, AtWork DEF Sound, ReadCancelled, boundVars
<1>2. FieldsOK'
  BY <1>1 DEF ReadCancelled, FieldsOK, sockVars, bufVars, exitVars, reconVars,
     histVars, boundVars
<1>3. Begin("work", <<Step("close")>>) /\ <<Step("close")>> \in Ends
  BY DEF ReadCancelled, Ends
<1> QED
  BY <1>1, <1>2, <1>3, SingleLists, WorkGiven, TypeSplit DEF Sound, CallSame

LEMMA GatewayResponseStep ==
  ASSUME Sound, GatewayResponse
  PROVE  /\ Sound' /\ CallSame /\ Now("work").op = "none" /\ ~deleted
         /\ "read" \in armed /\ Now("work").op' = "start"
         /\ Now("work").flag' = TRUE
<1>1. /\ FieldsOK /\ use' = use /\ Now("work").op = "none" /\ ~deleted
      /\ "read" \in armed
  BY TypeSplit, AtWork, ReadUnchanged DEF Sound, GatewayResponse
<1>2. peer' \in PeerStates
  BY DEF GatewayResponse, PeerStates
<1>3. FieldsOK'
  BY <1>1, <1>2, ReadUnchanged DEF GatewayResponse, FieldsOK
<1> DEFINE d == Event("start", "none", TRUE)
<1>4. d.op = "start" /\ d.flag = TRUE /\ d \in StepType
  BY DEF Event, StepType, Ops
<1>5. Begin("work", <<d>>)
  BY DEF GatewayResponse
<1> HIDE DEF d
<1>6. WorkRest(d, <<>>)
  BY <1>4 DEF WorkRest, Single, Told
<1>7. Fit(<<d>>) /\ First(<<d>>) = d
  BY <1>4, <1>6, FitLists, HeadOfLists
<1>8. /\ todo' \in [Threads -> Seq(StepType)] /\ Planned'
      /\ Now("caller")' = Now("caller") /\ Now("work")' = d
  BY <1>1, <1>5, <1>7, WorkGiven DEF Sound
<1> QED
  BY <1>1, <1>3, <1>4, <1>8, TypeSplit DEF Sound, CallSame

LEMMA ReadStartedStep ==
  ASSUME Sound, ReadStarted
  PROVE  /\ Sound' /\ CallSame /\ Now("work").op = "none" /\ ~deleted
         /\ "read" \in armed /\ Now("work").op' = "tell"
         /\ Now("work").ev' = "Started"
<1>1. /\ FieldsOK /\ use' = use /\ Now("work").op = "none" /\ ~deleted
      /\ "read" \in armed
  BY TypeSplit, AtWork, ReadUnchanged DEF Sound, ReadStarted
<1>2. peer' \in PeerStates
  BY DEF ReadStarted, PeerStates
<1>3. FieldsOK'
  BY <1>1, <1>2, ReadUnchanged DEF ReadStarted, FieldsOK
<1> DEFINE d == Event("tell", "Started", FALSE)
           l == Frame("Started", FALSE) \o <<>>
           n == Frame("Started", FALSE) \o <<FlushFrame>>
<1>4. d.op = "tell" /\ d.ev = "Started"
  BY DEF Event
<1>5. Begin("work", l) \/ Begin("work", n)
  BY DEF ReadStarted, FlushFrame
<1>6. Fit(l) /\ First(l) = d /\ Fit(n) /\ First(n) = d
  BY FrameLists
<1> HIDE DEF d, l, n
<1>7. /\ todo' \in [Threads -> Seq(StepType)] /\ Planned'
      /\ Now("caller")' = Now("caller") /\ Now("work")' = d
  BY <1>1, <1>5, <1>6, WorkGiven DEF Sound
<1> QED
  BY <1>1, <1>3, <1>4, <1>7, TypeSplit DEF Sound, CallSame

LEMMA ReadCompletedStep ==
  ASSUME Sound, ReadCompleted
  PROVE  /\ Sound' /\ CallSame /\ Now("work").op = "none" /\ ~deleted
         /\ "read" \in armed /\ Now("work").op' = "tell"
         /\ Now("work").ev' = "Completed"
<1>1. /\ FieldsOK /\ use' = use /\ Now("work").op = "none" /\ ~deleted
      /\ "read" \in armed
  BY TypeSplit, AtWork, ReadUnchanged DEF Sound, ReadCompleted
<1>2. peer' \in PeerStates
  BY DEF ReadCompleted, PeerStates
<1>3. FieldsOK'
  BY <1>1, <1>2, ReadUnchanged DEF ReadCompleted, FieldsOK
<1> DEFINE d == Event("tell", "Completed", FALSE)
           l == Frame("Completed", FALSE)
<1>4. d.op = "tell" /\ d.ev = "Completed"
  BY DEF Event
<1>5. Begin("work", l)
  BY DEF ReadCompleted
<1>6. Fit(l) /\ First(l) = d
  BY FrameLists
<1> HIDE DEF d, l
<1>7. /\ todo' \in [Threads -> Seq(StepType)] /\ Planned'
      /\ Now("caller")' = Now("caller") /\ Now("work")' = d
  BY <1>1, <1>5, <1>6, WorkGiven DEF Sound
<1> QED
  BY <1>1, <1>3, <1>4, <1>7, TypeSplit DEF Sound, CallSame

LEMMA ReadTaskFailedStep ==
  ASSUME Sound, ReadTaskFailed
  PROVE  /\ Sound' /\ CallSame /\ Now("work").op = "none" /\ ~deleted
         /\ "read" \in armed /\ Now("work").op' = "tell"
         /\ Now("work").ev' = "TaskFailed" /\ Breaks'
         /\ Coming' = Set("TaskFailed")
<1>1. /\ FieldsOK /\ use' = use /\ Now("work").op = "none" /\ ~deleted
      /\ "read" \in armed
  BY TypeSplit, AtWork, ReadUnchanged DEF Sound, ReadTaskFailed
<1>2. peer' \in PeerStates /\ (Fault \/ NoFault)
  BY DEF ReadTaskFailed, PeerStates
<1>3. FieldsOK'
  BY <1>1, <1>2, FaultTyped, ReadUnchanged DEF ReadTaskFailed, FieldsOK
<1>4. PICK m \in BOOLEAN : Begin("work", Frame("TaskFailed", m))
  BY DEF ReadTaskFailed
<1>6. Coming' = Set("TaskFailed")
  <2>1. todo'["work"] = Frame("TaskFailed", m)
    BY <1>4 DEF Begin, Sound, TypeOK, Threads
  <2>2. Frame("TaskFailed", m)
          = <<Event("tell", "TaskFailed", m), Set("TaskFailed")>>
    BY DEF Frame, Set
  <2> DEFINE e == Event("tell", "TaskFailed", m)
  <2>3. Tail(<<e, Set("TaskFailed")>>) = <<Set("TaskFailed")>>
    BY Lists
  <2>4. Head(<<Set("TaskFailed")>>) = Set("TaskFailed")
        /\ <<Set("TaskFailed")>> # <<>>
    BY Lists
  <2> QED
    BY <2>1, <2>2, <2>3, <2>4 DEF Coming, First
<1>5. /\ todo' \in [Threads -> Seq(StepType)] /\ Planned' /\ Breaks'
      /\ Now("caller")' = Now("caller")
      /\ Now("work")' = Event("tell", "TaskFailed", m)
  BY <1>1, <1>4, FrameLists, WorkGiven DEF Sound
<1> QED
  BY <1>1, <1>3, <1>5, <1>6, Fields, TypeSplit DEF Sound, CallSame

LEMMA ReadDirtyStep ==
  ASSUME Sound, ReadDirty
  PROVE  /\ Sound' /\ CallSame /\ Now("work").op = "none" /\ ~deleted
         /\ "read" \in armed /\ Breaks'
         /\ \E m \in BOOLEAN : Now("work")' = CheckFailed(m)
<1>1. /\ FieldsOK /\ use' = use /\ Now("work").op = "none" /\ ~deleted
      /\ "read" \in armed
  BY TypeSplit, AtWork, ReadUnchanged DEF Sound, ReadDirty
<1>2. FieldsOK'
  BY <1>1, FaultTyped, ReadUnchanged DEF ReadDirty, FieldsOK
<1>3. PICK m \in BOOLEAN : Begin("work", DirtySteps(m))
  BY DEF ReadDirty, DirtySteps, CheckFailed, CheckClose
<1>4. /\ todo' \in [Threads -> Seq(StepType)] /\ Planned' /\ Breaks'
      /\ Now("caller")' = Now("caller") /\ Now("work")' = CheckFailed(m)
  BY <1>1, <1>3, FailureLists, WorkGiven DEF Sound
<1> QED
  BY <1>1, <1>2, <1>4, TypeSplit DEF Sound, CallSame

LEMMA ReadFailsStep ==
  ASSUME Sound, ReadFails
  PROVE  /\ Sound' /\ CallSame /\ Now("work").op = "none" /\ ~deleted
         /\ "read" \in armed /\ Breaks' /\ Now("work")' = Step("close")
<1>1. /\ FieldsOK /\ use' = use /\ Now("work").op = "none" /\ ~deleted
      /\ "read" \in armed
  BY TypeSplit, AtWork, ReadUnchanged DEF Sound, ReadFails
<1>2. Fault \/ NoFault
  BY DEF ReadFails
<1>3. FieldsOK'
  BY <1>1, <1>2, FaultTyped, ReadUnchanged DEF ReadFails, FieldsOK
<1>4. PICK m \in BOOLEAN : Begin("work", ResponseFailed(m))
  BY DEF ReadFails
<1>5. /\ todo' \in [Threads -> Seq(StepType)] /\ Planned' /\ Breaks'
      /\ Now("caller")' = Now("caller") /\ Now("work")' = Step("close")
  BY <1>1, <1>4, FailureLists, WorkGiven DEF Sound
<1> QED
  BY <1>1, <1>3, <1>5, TypeSplit DEF Sound, CallSame

LEMMA RespondStep ==
  ASSUME Sound, Respond
  PROVE  /\ Sound' /\ CallSame /\ Now("work").op = "respond" /\ ~deleted
         /\ \/ status = "Closed" /\ Now("work")' = Step("none")
            \/ status # "Closed" /\ Now("work")' = Step("close") /\ Breaks'
<1>1. FieldsOK /\ use' = use /\ Now("work").op = "respond" /\ ~deleted
  BY TypeSplit, AtWork DEF Sound, Respond, boundVars, Ops
<1>2. FieldsOK'
  BY <1>1 DEF Respond, FieldsOK, sockVars, bufVars, exitVars, reconVars,
     histVars, boundVars
<1>3. Fit(<<>>) /\ First(<<>>) = Step("none") /\ "respond" \in Single
  BY SingleLists DEF Single
<1>4. PICK m \in BOOLEAN :
        Go("work", IF status = "Closed" THEN <<>> ELSE ResponseFailed(m))
  BY DEF Respond
<1>5. CASE status = "Closed"
  <2>1. Go("work", <<>>)
    BY <1>4, <1>5
  <2> QED
    BY <1>1, <1>2, <1>3, <1>5, <2>1, WorkReplaced, TypeSplit DEF Sound, CallSame
<1>6. CASE status # "Closed"
  <2>1. Go("work", ResponseFailed(m))
    BY <1>4, <1>6
  <2>2. /\ todo' \in [Threads -> Seq(StepType)] /\ Planned' /\ Breaks'
        /\ Now("caller")' = Now("caller") /\ Now("work")' = Step("close")
    BY <1>1, <1>3, <2>1, FailureLists, WorkReplaced DEF Sound
  <2> QED
    BY <1>1, <1>2, <1>6, <2>2, TypeSplit DEF Sound, CallSame
<1> QED
  BY <1>5, <1>6

LEMMA WriteStep ==
  ASSUME Sound, Write
  PROVE  /\ Sound' /\ CallSame /\ Now("work").op = "none" /\ ~deleted
         /\ "write" \in armed
         /\ \/ /\ exit = "Cancel" /\ Now("work")' = Step("close")
               /\ Closing' /\ Ending'
            \/ /\ exit # "Cancel" /\ Now("work")' = Step("close")
               /\ Breaks'
            \/ exit # "Cancel" /\ fd /\ Now("work")' = Step("request")
<1>1. /\ FieldsOK /\ use' = use /\ Now("work").op = "none" /\ ~deleted
      /\ "write" \in armed
  BY TypeSplit, AtWork DEF Sound, Write, boundVars
<1>2. (Fault \/ NoFault) /\ armed' \subseteq NodeEvents
  BY <1>1 DEF Write, FieldsOK
<1>3. FieldsOK'
  BY <1>1, <1>2, FaultTyped DEF Write, FieldsOK, bufVars, exitVars, reconVars,
     histVars, boundVars
<1>4. \/ exit = "Cancel" /\ Begin("work", <<Step("close")>>)
      \/ exit # "Cancel" /\ fd /\ Begin("work", <<Step("request")>>)
      \/ exit # "Cancel" /\ Begin("work", ResponseFailed(FALSE))
  BY DEF Write
<1>5. CASE exit = "Cancel" /\ Begin("work", <<Step("close")>>)
  <2>1. <<Step("close")>> \in Ends
    BY DEF Ends
  <2> QED
    BY <1>1, <1>3, <1>5, <2>1, SingleLists, WorkGiven, TypeSplit
       DEF Sound, CallSame
<1>6. CASE exit # "Cancel" /\ fd /\ Begin("work", <<Step("request")>>)
  BY <1>1, <1>3, <1>6, SingleLists, WorkGiven, TypeSplit
     DEF Sound, CallSame, Single
<1>7. CASE exit # "Cancel" /\ Begin("work", ResponseFailed(FALSE))
  <2>1. /\ Fit(ResponseFailed(FALSE)) /\ Failing(ResponseFailed(FALSE))
        /\ First(ResponseFailed(FALSE)) = Step("close")
    BY FailureLists
  <2> QED
    BY <1>1, <1>3, <1>7, <2>1, WorkGiven, TypeSplit DEF Sound, CallSame
<1> QED
  BY <1>4, <1>5, <1>6, <1>7

LEMMA AtCaller ==
  ASSUME Sound
  PROVE  \A op \in Ops : At("caller", op) =>
           /\ Now("caller").op = op /\ ~deleted /\ todo["caller"] # <<>>
           /\ Now("caller") = Head(todo["caller"])
BY AtNow DEF Sound, Threads

LEMMA PushStep ==
  ASSUME Sound, Push
  PROVE  /\ Sound' /\ WorkSame /\ Now("caller").op = "push" /\ ~deleted
         /\ Now("caller").op' \in {"none", "control", "disconnect"}
<1>1. /\ FieldsOK /\ use' = use /\ Now("caller").op = "push" /\ ~deleted
      /\ todo["caller"] # <<>>
  BY TypeSplit, AtCaller DEF Sound, Push, boundVars, Ops
<1>2. /\ Fault \/ NoFault
      /\ audio' \in BOOLEAN /\ armed' \subseteq NodeEvents
      /\ UNCHANGED <<status, connected, fd, timerFlag, cmd, peer, exit, isStop,
                     isDestroy, deleted, retry, recon, told, late, attempts,
                     mends, use, starts, sends>>
  BY <1>1 DEF Push, FieldsOK, NodeEvents, exitVars, reconVars, histVars,
     boundVars
<1>3. FieldsOK'
  BY <1>1, <1>2, FaultTyped DEF FieldsOK
<1>4. \/ Go("caller", ThenControl("caller")) \/ Go("caller", <<>>)
      \/ \E m \in BOOLEAN : Go("caller", CallFailed(m))
  BY DEF Push, SendFailed
<1>5. CASE Go("caller", ThenControl("caller"))
  BY <1>1, <1>3, <1>5, CallControls, SameWork, TypeSplit DEF Sound, WorkSame
<1>6. CASE Go("caller", <<>>)
  BY <1>1, <1>3, <1>6, CallPopped, Fields, TypeSplit DEF Sound, CallDone
<1>7. CASE \E m \in BOOLEAN : Go("caller", CallFailed(m))
  BY <1>1, <1>3, <1>7, CallFails, SameWork, Fields, TypeSplit
     DEF Sound, WorkSame
<1> QED
  BY <1>4, <1>5, <1>6, <1>7

LEMMA WorkFails ==
  ASSUME NEW m \in BOOLEAN
  PROVE  /\ Fit(SendFailed("work", m)) /\ Failing(SendFailed("work", m))
         /\ \/ First(SendFailed("work", m)) = CheckFailed(m)
            \/ First(SendFailed("work", m)) = Step("close")
<1>1. \/ SendFailed("work", m) = ResponseFailed(m)
      \/ SendFailed("work", m) = RequestFailed(m)
  BY DEF SendFailed
<1> QED
  BY <1>1, FailureLists

LEMMA FlushStep ==
  ASSUME Sound, Flush
  PROVE  /\ Sound' /\ CallSame /\ Now("work").op = "flush" /\ ~deleted
         /\ \/ Now("work")' = Step("none") \/ Now("work").op' = "control"
            \/ /\ Breaks' /\ status = "Started"
               /\ armed' = armed /\ audio' = audio
               /\ \E m \in BOOLEAN : \/ Now("work")' = CheckFailed(m)
                                     \/ Now("work")' = Step("close")
<1>1. /\ FieldsOK /\ use' = use /\ Now("work").op = "flush" /\ ~deleted
      /\ "flush" \in Single
  BY TypeSplit, AtWork DEF Sound, Flush, boundVars, Ops, Single
<1>2. /\ Fault \/ NoFault
      /\ audio' \in BOOLEAN /\ armed' \subseteq NodeEvents
      /\ UNCHANGED <<status, connected, fd, timerFlag, cmd, peer, exit, isStop,
                     isDestroy, deleted, retry, recon, told, late, attempts,
                     mends, use, starts, sends>>
  BY <1>1 DEF Flush, FieldsOK, NodeEvents, exitVars, reconVars, histVars,
     boundVars
<1>3. FieldsOK'
  BY <1>1, <1>2, FaultTyped DEF FieldsOK
<1>4. \/ Go("work", ThenControl("work")) \/ Go("work", <<>>)
      \/ /\ status = "Started" /\ armed' = armed /\ audio' = audio
         /\ \E m \in BOOLEAN : Go("work", SendFailed("work", m))
  BY DEF Flush
<1>5. CASE Go("work", ThenControl("work"))
  BY <1>1, <1>3, <1>5, WorkControls, TypeSplit DEF Sound, CallSame
<1>6. CASE Go("work", <<>>)
  BY <1>1, <1>3, <1>6, SingleLists, WorkReplaced, TypeSplit DEF Sound, CallSame
<1>7. CASE /\ status = "Started" /\ armed' = armed /\ audio' = audio
           /\ \E m \in BOOLEAN : Go("work", SendFailed("work", m))
  <2>1. PICK m \in BOOLEAN : Go("work", SendFailed("work", m))
    BY <1>7
  <2>2. /\ todo' \in [Threads -> Seq(StepType)] /\ Planned' /\ Breaks'
        /\ Now("caller")' = Now("caller")
        /\ Now("work")' = First(SendFailed("work", m))
    BY <1>1, <2>1, WorkFails, WorkReplaced DEF Sound
  <2> QED
    BY <1>1, <1>3, <1>7, <2>2, WorkFails, TypeSplit DEF Sound, CallSame
<1> QED
  BY <1>4, <1>5, <1>6, <1>7

LEMMA DirectiveTyped ==
  ASSUME FieldsOK
  PROVE  Directive \in Seq({"shake", "start", "stop"})
BY CmdTyped DEF Directive, FieldsOK

LEMMA WorkControlStep ==
  ASSUME Sound, Control("work")
  PROVE  /\ Sound' /\ CallSame /\ Now("work").op = "control" /\ ~deleted
         /\ \/ /\ Directive = <<>> /\ Now("work")' = Step("none")
               /\ UNCHANGED <<cmd, peer, armed>>
            \/ /\ Directive # <<>> /\ fd /\ cmd' = <<>>
               /\ peer' = Hear(peer, Directive)
               /\ armed' = armed /\ Now("work")' = Step("none")
            \/ /\ Directive # <<>> /\ fd /\ cmd' = Directive /\ peer' = peer
               /\ armed' = armed \cup {"write"} /\ Now("work")' = Step("none")
            \/ /\ Directive # <<>> /\ cmd' = Directive /\ peer' = peer
               /\ armed' = armed /\ Breaks'
               /\ \E m \in BOOLEAN : \/ Now("work")' = CheckFailed(m)
                                     \/ Now("work")' = Step("close")
<1> DEFINE failed == [m \in BOOLEAN |-> SendFailed("work", m)]
<1>1. /\ FieldsOK /\ use' = use /\ Now("work").op = "control" /\ ~deleted
      /\ "control" \in Single
  BY TypeSplit, AtWork DEF Sound, Control, boundVars, Ops, Single
<1>2. \A m \in BOOLEAN :
        /\ Fit(failed[m]) /\ Failing(failed[m])
        /\ \/ First(failed[m]) = CheckFailed(m)
           \/ First(failed[m]) = Step("close")
  BY WorkFails
<1>3. /\ IF Directive = <<>>
           THEN Go("work", <<>>) /\ UNCHANGED <<cmd, peer, armed>> /\ NoFault
           ELSE Sends("work", Directive, armed, failed)
      /\ isStop' \in BOOLEAN
      /\ UNCHANGED <<status, connected, fd, timerFlag, audio, exit, isDestroy,
                     deleted, retry, recon, told, late, attempts, mends, use,
                     starts, sends>>
  BY <1>1 DEF Control, FieldsOK, reconVars, histVars, boundVars
<1> HIDE DEF failed
<1>4. ASSUME /\ Fault \/ NoFault
             /\ cmd' \in Seq({"shake", "start", "stop"})
             /\ peer' \in PeerStates /\ armed' \subseteq NodeEvents
      PROVE  FieldsOK'
  BY <1>1, <1>3, <1>4, FaultTyped DEF FieldsOK
<1>5. CASE Directive = <<>>
  <2>1. FieldsOK'
    BY <1>1, <1>3, <1>4, <1>5 DEF FieldsOK
  <2> QED
    BY <1>1, <1>3, <1>5, <2>1, SingleLists, WorkReplaced, TypeSplit
       DEF Sound, CallSame
<1>6. CASE Directive # <<>>
  <2>1. /\ todo' \in [Threads -> Seq(StepType)] /\ Planned' /\ CallSame
        /\ Fault \/ NoFault
        /\ \/ /\ fd /\ cmd' = <<>> /\ peer' = Hear(peer, Directive)
              /\ armed' = armed /\ Now("work")' = Step("none")
           \/ /\ fd /\ cmd' = Directive /\ peer' = peer
              /\ armed' = armed \cup {"write"} /\ Now("work")' = Step("none")
           \/ /\ cmd' = Directive /\ peer' = peer /\ armed' = armed /\ Breaks'
              /\ \E m \in BOOLEAN : Now("work")' = First(failed[m])
    BY <1>1, <1>2, <1>3, <1>6, WorkSends
  <2>4. cmd' \in Seq({"shake", "start", "stop"})
    BY <1>1, <2>1, DirectiveTyped, CmdTyped DEF FieldsOK
  <2>5. peer' \in PeerStates
    BY <1>1, <2>1, HearTyped DEF FieldsOK
  <2>6. armed' \subseteq NodeEvents
    BY <1>1, <2>1 DEF FieldsOK, NodeEvents
  <2>2. /\ cmd' \in Seq({"shake", "start", "stop"}) /\ peer' \in PeerStates
        /\ armed' \subseteq NodeEvents
    BY <2>4, <2>5, <2>6
  <2>3. FieldsOK'
    BY <1>4, <2>1, <2>2
  <2> QED
    BY <1>1, <1>2, <1>6, <2>1, <2>3, TypeSplit DEF Sound
<1> QED
  BY <1>5, <1>6

LEMMA CallControlStep ==
  ASSUME Sound, Control("caller")
  PROVE  /\ Sound' /\ WorkSame /\ Now("caller").op = "control" /\ ~deleted
         /\ \/ /\ Directive = <<>> /\ Now("caller").op' \in {"none", "unlock"}
               /\ UNCHANGED <<cmd, peer, armed>>
            \/ /\ Directive # <<>> /\ fd /\ cmd' = <<>>
               /\ peer' = Hear(peer, Directive)
               /\ armed' = armed /\ Now("caller").op' \in {"none", "unlock"}
            \/ /\ Directive # <<>> /\ fd /\ cmd' = Directive /\ peer' = peer
               /\ armed' = armed \cup {"write"}
               /\ Now("caller").op' \in {"none", "unlock"}
            \/ /\ Directive # <<>> /\ cmd' = Directive /\ peer' = peer
               /\ armed' = armed /\ Now("caller")' = Step("disconnect")
<1>1. /\ FieldsOK /\ use' = use /\ Now("caller").op = "control" /\ ~deleted
      /\ todo["caller"] # <<>>
  BY TypeSplit, AtCaller DEF Sound, Control, boundVars, Ops
<1>2. \/ /\ Directive = <<>> /\ Go("caller", <<>>)
         /\ UNCHANGED <<cmd, peer, armed>> /\ NoFault
      \/ /\ Directive # <<>> /\ fd /\ cmd' = <<>> /\ peer' = Hear(peer, Directive)
         /\ armed' = armed /\ NoFault /\ Go("caller", <<>>)
      \/ /\ Directive # <<>> /\ fd /\ cmd' = Directive /\ peer' = peer
         /\ armed' = armed \cup {"write"} /\ Fault /\ Go("caller", <<>>)
      \/ /\ Directive # <<>> /\ cmd' = Directive /\ peer' = peer
         /\ armed' = armed /\ (Fault \/ NoFault)
         /\ \E m \in BOOLEAN : Go("caller", CallFailed(m))
  BY DEF Control, Sends, SendFailed
<1>3. /\ isStop' \in BOOLEAN
      /\ UNCHANGED <<status, connected, fd, timerFlag, audio, exit, isDestroy,
                     deleted, retry, recon, told, late, attempts, mends, use,
                     starts, sends>>
  BY <1>1 DEF Control, FieldsOK, reconVars, histVars, boundVars
<1>4. /\ cmd' \in Seq({"shake", "start", "stop"}) /\ peer' \in PeerStates
      /\ armed' \subseteq NodeEvents
      /\ Fault \/ NoFault
  BY <1>1, <1>2, DirectiveTyped, CmdTyped, HearTyped DEF FieldsOK, NodeEvents
<1>5. FieldsOK'
  BY <1>1, <1>3, <1>4, FaultTyped DEF FieldsOK
<1>6. Go("caller", <<>>) =>
        Sound' /\ WorkSame /\ Now("caller").op' \in {"none", "unlock"}
  BY <1>1, <1>5, CallPopped, TypeSplit DEF Sound, CallDone
<1>7. (\E m \in BOOLEAN : Go("caller", CallFailed(m))) =>
        Sound' /\ WorkSame /\ Now("caller")' = Step("disconnect")
  BY <1>1, <1>5, CallFails, SameWork, TypeSplit DEF Sound, WorkSame
<1> QED
  BY <1>1, <1>2, <1>6, <1>7

LEMMA WorkCheckStep ==
  ASSUME Sound, Check("work")
  PROVE  /\ Sound' /\ CallSame /\ Now("work").op = "check" /\ ~deleted
         /\ \/ exit = "Cancel" /\ WorkDone
            \/ status = "Closed" /\ WorkDone
            \/ /\ exit # "Cancel" /\ status # "Closed" /\ (Closing' <=> Closing)
               /\ Now("work").op' = "tell" /\ Now("work").ev' = Now("work").ev
               /\ Now("work").flag' = Now("work").flag
               /\ Coming' = Coming /\ Coming.op # "set"
<1>1. /\ FieldsOK /\ use' = use /\ Now("work").op = "check" /\ ~deleted
      /\ todo["work"] # <<>> /\ Now("work") = Head(todo["work"])
  BY TypeSplit, AtWork DEF Sound, Check, boundVars, Ops
<1>2. FieldsOK'
  BY <1>1 DEF Check, FieldsOK, sockVars, bufVars, exitVars, reconVars,
     histVars, boundVars
<1>3. CASE exit = "Cancel" \/ status = "Closed"
  <2>1. Go("work", <<>>)
    BY <1>3 DEF Check
  <2> QED
    BY <1>1, <1>2, <1>3, <2>1, WorkPopped, TypeSplit
       DEF Sound, CallSame, WorkDone
<1>4. CASE ~(exit = "Cancel" \/ status = "Closed")
  <2> DEFINE d == [Now("work") EXCEPT !.op = "tell"]
  <2>1. Go("work", <<d>>)
    BY <1>1, <1>4 DEF Check
  <2>2. Now("work") \in StepType
    BY <1>1, NowTyped DEF Sound, Threads
  <2>3. /\ d \in StepType /\ d.op = "tell" /\ d.ev = Now("work").ev
        /\ d.flag = Now("work").flag
    BY <2>2 DEF StepType, Ops
  <2> HIDE DEF d
  <2>4. /\ todo' \in [Threads -> Seq(StepType)] /\ Planned'
        /\ Now("caller")' = Now("caller") /\ Now("work")' = d
        /\ (Closing' <=> Closing) /\ Coming' = Coming /\ Coming.op # "set"
    BY <1>1, <2>1, <2>3, WorkSays DEF Sound, Told
  <2> QED
    BY <1>1, <1>2, <1>4, <2>3, <2>4, TypeSplit DEF Sound, CallSame
<1> QED
  BY <1>3, <1>4

LEMMA CallCheckStep ==
  ASSUME Sound, Check("caller")
  PROVE  /\ Sound' /\ WorkSame /\ Now("caller").op = "check" /\ ~deleted
         /\ \/ exit = "Cancel" /\ CallDone
            \/ status = "Closed" /\ CallDone
            \/ /\ exit # "Cancel" /\ status # "Closed"
               /\ Now("caller").op' = "tell"
               /\ Now("caller").ev' = Now("caller").ev
               /\ Now("caller").flag' = Now("caller").flag
<1>1. /\ FieldsOK /\ use' = use /\ Now("caller").op = "check" /\ ~deleted
      /\ todo["caller"] # <<>> /\ Now("caller") = Head(todo["caller"])
  BY TypeSplit, AtCaller DEF Sound, Check, boundVars, Ops
<1>2. FieldsOK'
  BY <1>1 DEF Check, FieldsOK, sockVars, bufVars, exitVars, reconVars,
     histVars, boundVars
<1>3. CASE exit = "Cancel" \/ status = "Closed"
  <2>1. Go("caller", <<>>)
    BY <1>3 DEF Check
  <2> QED
    BY <1>1, <1>2, <1>3, <2>1, CallPopped, TypeSplit DEF Sound, CallDone
<1>4. CASE ~(exit = "Cancel" \/ status = "Closed")
  <2> DEFINE d == [Now("caller") EXCEPT !.op = "tell"]
  <2>1. Go("caller", <<d>>)
    BY <1>1, <1>4 DEF Check
  <2>2. Now("caller") \in StepType
    BY <1>1, NowTyped DEF Sound, Threads
  <2>3. /\ d \in StepType /\ d.op = "tell" /\ d.ev = Now("caller").ev
        /\ d.flag = Now("caller").flag
    BY <2>2 DEF StepType, Ops
  <2> HIDE DEF d
  <2>4. /\ todo' \in [Threads -> Seq(StepType)] /\ Planned'
        /\ todo'["work"] = todo["work"] /\ Now("caller")' = d
    BY <1>1, <2>1, <2>3, CallSays DEF Sound, Told
  <2> QED
    BY <1>1, <1>2, <1>4, <2>3, <2>4, SameWork, TypeSplit DEF Sound
<1> QED
  BY <1>3, <1>4

\* What a callback does to the fields.
LEMMA TellFields ==
  ASSUME Sound, NEW t \in Threads, Tell(t)
  PROVE  /\ FieldsOK' /\ use' = use /\ Now(t).op = "tell" /\ ~deleted
         /\ todo[t] # <<>> /\ Now(t) = Head(todo[t]) /\ Now(t) \in StepType
         /\ Hidden(Now(t)) \in BOOLEAN
<1>1. /\ FieldsOK /\ use' = use /\ Now(t).op = "tell" /\ ~deleted
      /\ todo[t] # <<>> /\ Now(t) = Head(todo[t])
  BY TypeSplit, AtNow DEF Sound, Tell, boundVars, Ops
<1>2. Now(t) \in StepType
  BY <1>1, NowTyped DEF Sound
<1> DEFINE e == Now(t)
<1>3. e.ev \in UserEvents
  <2>1. CASE t = "work"
    <3>1. WorkRest(e, Tail(todo["work"]))
      BY <1>1, <2>1, NowRest DEF Sound
    <3> QED
      BY <1>1, <1>2, <3>1 DEF WorkRest, Told, StepType
  <2>2. CASE t = "caller"
    <3>1. CallRest(e, Tail(todo["caller"]))
      BY <1>1, <2>2, NowRest DEF Sound
    <3> QED
      BY <1>1, <1>2, <3>1 DEF CallRest, Told, StepType
  <2> QED
    BY <2>1, <2>2 DEF Threads
<1>4. Hidden(e) \in BOOLEAN
  BY DEF Hidden, Mending
<1>5. /\ recon' = IF Mending(e) /\ ~Hidden(e)
                    THEN [Noted(e) EXCEPT !.state = "NoReconnection"]
                    ELSE Noted(e)
      /\ told' = IF Hidden(e) THEN told
                 ELSE Append(told, [ev |-> e.ev, by |-> t])
      /\ late' = IF exit = "Cancel" /\ ~Hidden(e)
                   THEN [late EXCEPT ![t] = @ + 1] ELSE late
      /\ UNCHANGED <<status, connected, fd, armed, timerFlag, cmd, audio, peer,
                     exit, isStop, isDestroy, deleted, retry, attempts, mends,
                     use, starts, sends, faults>>
  BY <1>1 DEF Tell, sockVars, bufVars, exitVars, boundVars
<1> HIDE DEF e
<1>6. /\ Noted(e) = [state |-> Noted(e).state, count |-> Noted(e).count]
      /\ Noted(e).state \in ReconnectionState /\ Noted(e).count \in Nat
  BY <1>1 DEF Noted, FieldsOK, ReconnectionState
<1>7. /\ recon' = [state |-> recon'.state, count |-> recon'.count]
      /\ recon'.state \in ReconnectionState /\ recon'.count \in Nat
  <2>1. CASE Mending(e) /\ ~Hidden(e)
    <3>1. recon' = [state |-> "NoReconnection", count |-> Noted(e).count]
      BY <1>5, <1>6, <2>1
    <3> QED
      BY <1>6, <3>1 DEF ReconnectionState
  <2>2. CASE ~(Mending(e) /\ ~Hidden(e))
    BY <1>5, <1>6, <2>2
  <2> QED
    BY <2>1, <2>2
<1>8. told' \in Seq([ev : UserEvents, by : Threads])
  <2>1. [ev |-> e.ev, by |-> t] \in [ev : UserEvents, by : Threads]
    BY <1>3 DEF e
  <2>2. told \in Seq([ev : UserEvents, by : Threads])
    BY <1>1 DEF FieldsOK
  <2> QED
    BY <1>5, <2>1, <2>2, AppendProperties
<1>9. late' \in [Threads -> Nat]
  <2>1. late \in [Threads -> Nat]
    BY <1>1 DEF FieldsOK
  <2>2. late' = late \/ late' = [late EXCEPT ![t] = @ + 1]
    BY <1>5
  <2> QED
    BY <2>1, <2>2
<1>10. FieldsOK'
  <2>1. UNCHANGED <<status, connected, fd, armed, timerFlag, cmd, audio, peer,
                    exit, isStop, isDestroy, deleted, retry, attempts, mends,
                    use, starts, sends, faults>>
    BY <1>5
  <2> QED
    BY <1>1, <2>1, <1>7, <1>8, <1>9 DEF FieldsOK
<1> QED
  BY <1>1, <1>2, <1>4, <1>10 DEF e

LEMMA WorkTellStep ==
  ASSUME Sound, Tell("work")
  PROVE  /\ Sound' /\ CallSame /\ Now("work").op = "tell" /\ ~deleted
         /\ Now("work") = Head(todo["work"])
         /\ (Closing' <=> Closing) /\ Now("work").op' = "after"
         /\ Coming' = Coming
         /\ Now("work").ev' = Now("work").ev
         /\ Now("work").flag' = Hidden(Now("work"))
<1> DEFINE d == Event("after", Now("work").ev, Hidden(Now("work")))
<1>1. /\ FieldsOK' /\ use' = use /\ Now("work").op = "tell" /\ ~deleted
      /\ todo["work"] # <<>> /\ Now("work") = Head(todo["work"])
      /\ Now("work") \in StepType /\ Hidden(Now("work")) \in BOOLEAN
  BY TellFields DEF Threads
<1>2. Go("work", <<d>>)
  BY <1>1 DEF Tell
<1>3. /\ d \in StepType /\ d.op = "after" /\ d.ev = Now("work").ev
      /\ d.flag = Hidden(Now("work"))
  BY <1>1 DEF Event, StepType, Ops
<1> HIDE DEF d
<1>4. /\ todo' \in [Threads -> Seq(StepType)] /\ Planned'
      /\ Now("caller")' = Now("caller") /\ Now("work")' = d
      /\ (Closing' <=> Closing) /\ Coming' = Coming
  BY <1>1, <1>2, <1>3, WorkSays DEF Sound, Told
<1>5. /\ Now("work").op' = d.op /\ Now("work").ev' = d.ev
      /\ Now("work").flag' = d.flag
  BY <1>4
<1>6. TypeOK'
  BY <1>1, <1>4, TypeSplit
<1> QED
  BY <1>1, <1>3, <1>4, <1>5, <1>6 DEF Sound, CallSame

LEMMA CallTellStep ==
  ASSUME Sound, Tell("caller")
  PROVE  /\ Sound' /\ WorkSame /\ Now("caller").op = "tell" /\ ~deleted
         /\ Now("caller") = Head(todo["caller"])
         /\ Now("caller").op' = "after" /\ Now("caller").ev' = Now("caller").ev
         /\ Now("caller").flag' = Hidden(Now("caller"))
<1> DEFINE d == Event("after", Now("caller").ev, Hidden(Now("caller")))
<1>1. /\ FieldsOK' /\ use' = use /\ Now("caller").op = "tell" /\ ~deleted
      /\ todo["caller"] # <<>> /\ Now("caller") = Head(todo["caller"])
      /\ Now("caller") \in StepType /\ Hidden(Now("caller")) \in BOOLEAN
  BY TellFields DEF Threads
<1>2. Go("caller", <<d>>)
  BY <1>1 DEF Tell
<1>3. /\ d \in StepType /\ d.op = "after" /\ d.ev = Now("caller").ev
      /\ d.flag = Hidden(Now("caller"))
  BY <1>1 DEF Event, StepType, Ops
<1> HIDE DEF d
<1>4. /\ todo' \in [Threads -> Seq(StepType)] /\ Planned'
      /\ todo'["work"] = todo["work"] /\ Now("caller")' = d
  BY <1>1, <1>2, <1>3, CallSays DEF Sound, Told
<1>5. /\ Now("caller").op' = d.op /\ Now("caller").ev' = d.ev
      /\ Now("caller").flag' = d.flag
  BY <1>4
<1>6. TypeOK'
  BY <1>1, <1>4, TypeSplit
<1> QED
  BY <1>1, <1>3, <1>4, <1>5, <1>6, SameWork DEF Sound

LEMMA AfterCloseFields ==
  ASSUME Sound, NEW t \in Threads, AfterClose(t)
  PROVE  /\ FieldsOK' /\ use' = use /\ Now(t).op = "after" /\ ~deleted
         /\ todo[t] # <<>> /\ Now(t) = Head(todo[t]) /\ Now(t).ev = "Close"
         /\ Go(t, <<>>)
<1>1. /\ FieldsOK /\ use' = use /\ Now(t).op = "after" /\ ~deleted
      /\ todo[t] # <<>> /\ Now(t) = Head(todo[t]) /\ Now(t).ev = "Close"
      /\ Go(t, <<>>)
  BY TypeSplit, AtNow DEF Sound, AfterClose, boundVars, Ops
<1> DEFINE st == IF recon.state = "WillReconnect" THEN "TriggerReconnection"
                 ELSE recon.state
           n == IF Now(t).flag THEN recon.count ELSE 0
<1>2. /\ recon' = [state |-> st, count |-> n] /\ retry' = 0
      /\ status' = "Closed" /\ armed' \subseteq armed \cup {"reconnect"}
      /\ UNCHANGED <<connected, fd, timerFlag, cmd, audio, peer, exit, isStop,
                     isDestroy, deleted, told, late, attempts, mends,
                     use, starts, sends, faults>>
  BY <1>1 DEF AfterClose, bufVars, exitVars, histVars, boundVars
<1>3. st \in ReconnectionState /\ n \in Nat
  BY <1>1 DEF FieldsOK, ReconnectionState
<1> HIDE DEF st, n
<1>4. /\ recon' = [state |-> recon'.state, count |-> recon'.count]
      /\ recon'.state \in ReconnectionState /\ recon'.count \in Nat
  BY <1>2, <1>3
<1>5. /\ retry' \in 0..RetryConnectCount /\ status' \in ConnectStatus
      /\ armed' \subseteq NodeEvents
  BY <1>1, <1>2, NodeAssumption, Statuses DEF FieldsOK, NodeEvents
<1>6. FieldsOK'
  BY <1>1, <1>2, <1>4, <1>5 DEF FieldsOK
<1> QED
  BY <1>1, <1>6

LEMMA WorkAfterCloseStep ==
  ASSUME Sound, AfterClose("work")
  PROVE  /\ Sound' /\ CallSame /\ WorkDone /\ Now("work").op = "after"
         /\ ~deleted /\ Now("work") = Head(todo["work"])
         /\ Now("work").ev = "Close"
BY AfterCloseFields, WorkPopped, TypeSplit
   DEF Sound, Threads, WorkDone, CallSame

LEMMA CallAfterCloseStep ==
  ASSUME Sound, AfterClose("caller")
  PROVE  /\ Sound' /\ CallDone /\ Now("caller").op = "after"
         /\ ~deleted /\ Now("caller") = Head(todo["caller"])
         /\ Now("caller").ev = "Close"
BY AfterCloseFields, CallPopped, TypeSplit DEF Sound, Threads

LEMMA AfterOtherFields ==
  ASSUME Sound, NEW t \in Threads, AfterOther(t)
  PROVE  /\ FieldsOK' /\ use' = use /\ Now(t).op = "after" /\ ~deleted
         /\ todo[t] # <<>> /\ Now(t).ev # "Close" /\ Go(t, <<>>)
<1>1. /\ FieldsOK /\ use' = use /\ Now(t).op = "after" /\ ~deleted
      /\ todo[t] # <<>> /\ Now(t).ev # "Close" /\ Go(t, <<>>)
  BY TypeSplit, AtNow DEF Sound, AfterOther, boundVars, Ops
<1>2. FieldsOK'
  BY <1>1 DEF AfterOther, FieldsOK, sockVars, bufVars, exitVars, reconVars,
     histVars, boundVars
<1> QED
  BY <1>1, <1>2

LEMMA WorkAfterOtherStep ==
  ASSUME Sound, AfterOther("work")
  PROVE  /\ Sound' /\ CallSame /\ WorkDone /\ Now("work").op = "after"
         /\ ~deleted /\ Now("work").ev \in {"Started", "TaskFailed", "Completed"}
<1>1. /\ FieldsOK' /\ use' = use /\ Now("work").op = "after" /\ ~deleted
      /\ todo["work"] # <<>> /\ Now("work").ev # "Close" /\ Go("work", <<>>)
  BY AfterOtherFields DEF Threads
<1>2. Now("work").ev \in {"Started", "TaskFailed", "Completed"}
  <2>1. Now("work") \in StepType /\ WorkRest(Now("work"), Tail(todo["work"]))
    BY <1>1, NowRest, NowTyped DEF Sound, Threads
  <2> QED
    BY <1>1, <2>1 DEF WorkRest, Told, StepType, UserEvents
<1> QED
  BY <1>1, <1>2, WorkPopped, TypeSplit DEF Sound, WorkDone, CallSame

LEMMA CallAfterOtherStep ==
  ASSUME Sound, AfterOther("caller")
  PROVE  /\ Sound' /\ CallDone /\ Now("caller").op = "after"
         /\ ~deleted /\ Now("caller").ev = "TaskFailed"
<1>1. /\ FieldsOK' /\ use' = use /\ Now("caller").op = "after" /\ ~deleted
      /\ todo["caller"] # <<>> /\ Now("caller").ev # "Close"
      /\ Go("caller", <<>>)
  BY AfterOtherFields DEF Threads
<1>2. Now("caller").ev = "TaskFailed"
  <2>1. CallRest(Now("caller"), Tail(todo["caller"]))
    BY <1>1, NowRest DEF Sound
  <2> QED
    BY <1>1, <2>1 DEF CallRest, Told
<1> QED
  BY <1>1, <1>2, CallPopped, TypeSplit DEF Sound

LEMMA SetStartedStep ==
  ASSUME Sound, SetStarted
  PROVE  /\ Sound' /\ CallSame /\ Now("work").op = "set" /\ ~deleted
         /\ Now("work").ev = "Started" /\ (Closing' <=> Closing)
         /\ Now("work").op' \in {"none", "flush"}
<1>1. /\ FieldsOK /\ use' = use /\ Now("work").op = "set" /\ ~deleted
      /\ todo["work"] # <<>> /\ Now("work").ev = "Started" /\ Go("work", <<>>)
  BY TypeSplit, AtWork DEF Sound, SetStarted, boundVars, Ops
<1>2. /\ recon' = [state |-> "NoReconnection", count |-> recon.count]
      /\ status' \in ConnectStatus
  BY <1>1, Statuses DEF SetStarted, FieldsOK, Busy
<1>3. /\ recon' = [state |-> recon'.state, count |-> recon'.count]
      /\ recon'.state \in ReconnectionState /\ recon'.count \in Nat
  BY <1>1, <1>2 DEF FieldsOK, ReconnectionState
<1>4. FieldsOK'
  BY <1>1, <1>2, <1>3 DEF SetStarted, FieldsOK, sockVars, bufVars, exitVars,
     histVars, boundVars
<1> QED
  BY <1>1, <1>4, WorkPopped, TypeSplit DEF Sound, WorkDone, CallSame, Closes

LEMMA SetEndedStep ==
  ASSUME Sound, SetEnded
  PROVE  /\ Sound' /\ CallSame /\ Now("work").op = "set" /\ ~deleted
         /\ Now("work").ev \in {"TaskFailed", "Completed"}
         /\ status' = IF Now("work").ev = "TaskFailed" THEN "Failed"
                      ELSE "Completed"
         /\ IF Now("work").ev = "TaskFailed" \/ ~use.long
              THEN Now("work")' = Step("close") /\ Breaks'
              ELSE Now("work")' = CheckClose
<1>1. /\ FieldsOK /\ use' = use /\ Now("work").op = "set" /\ ~deleted
      /\ todo["work"] # <<>> /\ Now("work").ev # "Started"
      /\ Now("work") = Head(todo["work"])
  BY TypeSplit, AtWork DEF Sound, SetEnded, boundVars, Ops
<1>2. Now("work").ev \in {"TaskFailed", "Completed"}
  BY <1>1, NowRest DEF Sound, WorkRest
<1>3. /\ status' = IF Now("work").ev = "TaskFailed" THEN "Failed"
                   ELSE "Completed"
      /\ Go("work", (IF Now("work").ev = "TaskFailed" \/ ~use.long
                       THEN <<Step("close")>> ELSE <<>>) \o <<CheckClose>>)
  BY <1>1 DEF SetEnded, CheckClose
<1>4. FieldsOK'
  BY <1>1, <1>3, Statuses DEF SetEnded, FieldsOK, sockVars, bufVars, exitVars,
     reconVars, histVars, boundVars
<1>5. CASE Now("work").ev = "TaskFailed" \/ ~use.long
  <2>1. Go("work", <<Step("close")>> \o <<CheckClose>>)
    BY <1>3, <1>5
  <2>2. /\ todo' \in [Threads -> Seq(StepType)] /\ Planned' /\ Breaks'
        /\ Now("caller")' = Now("caller") /\ Now("work")' = Step("close")
    BY <1>1, <2>1, EndLists, WorkReplaced DEF Sound
  <2> QED
    BY <1>1, <1>2, <1>3, <1>4, <1>5, <2>2, TypeSplit DEF Sound, CallSame
<1>6. CASE ~(Now("work").ev = "TaskFailed" \/ ~use.long)
  <2>1. Go("work", <<>> \o <<CheckClose>>)
    BY <1>3, <1>6
  <2>2. /\ todo' \in [Threads -> Seq(StepType)] /\ Planned'
        /\ Now("caller")' = Now("caller") /\ Now("work")' = CheckClose
    BY <1>1, <2>1, EndLists, WorkReplaced DEF Sound
  <2> QED
    BY <1>1, <1>2, <1>3, <1>4, <1>6, <2>2, TypeSplit DEF Sound, CallSame
<1> QED
  BY <1>5, <1>6

LEMMA CloseStep ==
  ASSUME Sound, Close
  PROVE  /\ Sound' /\ CallSame /\ WorkDone /\ Now("work").op = "close"
         /\ ~deleted
<1>1. /\ FieldsOK /\ use' = use /\ Now("work").op = "close" /\ ~deleted
      /\ todo["work"] # <<>> /\ Go("work", <<>>)
  BY TypeSplit, AtWork DEF Sound, Close, boundVars, Ops
<1>2. armed' \subseteq NodeEvents /\ peer' \in PeerStates
  BY <1>1 DEF Close, FieldsOK, PeerStates
<1>3. FieldsOK'
  BY <1>1, <1>2 DEF Close, FieldsOK, exitVars, reconVars, histVars, boundVars
<1> QED
  BY <1>1, <1>3, WorkPopped, TypeSplit DEF Sound, WorkDone, CallSame

LEMMA DisconnectFields ==
  ASSUME Sound, NEW t \in Threads, Disconnect(t)
  PROVE  /\ FieldsOK' /\ use' = use /\ Now(t).op \in {"disconnect", "reconnect"}
         /\ ~deleted /\ todo[t] # <<>> /\ Go(t, <<>>)
         /\ status' = IF Now(t).op = "reconnect" THEN "Connecting" ELSE status
<1>1. /\ FieldsOK /\ use' = use /\ Now(t).op \in {"disconnect", "reconnect"}
      /\ ~deleted /\ todo[t] # <<>> /\ Go(t, <<>>)
      /\ status' = IF Now(t).op = "reconnect" THEN "Connecting" ELSE status
  BY TypeSplit, AtNow DEF Sound, Disconnect, boundVars, Ops
<1>2. status' \in ConnectStatus /\ peer' \in PeerStates
  BY <1>1, Statuses DEF Disconnect, FieldsOK, PeerStates, Busy
<1>3. FieldsOK'
  BY <1>1, <1>2 DEF Disconnect, FieldsOK, exitVars, reconVars, histVars,
     boundVars
<1> QED
  BY <1>1, <1>3

LEMMA WorkDisconnectStep ==
  ASSUME Sound, Disconnect("work")
  PROVE  /\ Sound' /\ CallSame /\ ~deleted
         /\ Now("work").op = "reconnect" /\ Now("work")' = Step("dns")
         /\ status' = "Connecting"
<1>1. /\ FieldsOK' /\ use' = use
      /\ Now("work").op \in {"disconnect", "reconnect"} /\ ~deleted
      /\ todo["work"] # <<>> /\ Go("work", <<>>)
      /\ status' = IF Now("work").op = "reconnect" THEN "Connecting" ELSE status
  BY DisconnectFields DEF Threads
<1>2. Now("work").op = "reconnect"
  BY <1>1, NowRest DEF Sound, WorkRest
<1> QED
  BY <1>1, <1>2, WorkPopped, TypeSplit DEF Sound, WorkDone, CallSame

LEMMA CallDisconnectStep ==
  ASSUME Sound, Disconnect("caller")
  PROVE  /\ Sound' /\ CallDone /\ ~deleted
         /\ Now("caller").op = "disconnect" /\ status' = status
<1>1. /\ FieldsOK' /\ use' = use
      /\ Now("caller").op \in {"disconnect", "reconnect"} /\ ~deleted
      /\ todo["caller"] # <<>> /\ Go("caller", <<>>)
      /\ status' = IF Now("caller").op = "reconnect" THEN "Connecting"
                   ELSE status
  BY DisconnectFields DEF Threads
<1>2. Now("caller").op = "disconnect"
  BY <1>1, NowRest DEF Sound, CallRest, Told
<1> QED
  BY <1>1, <1>2, CallPopped, TypeSplit DEF Sound

LEMMA DestroyStep ==
  ASSUME Sound, Destroy
  PROVE  /\ Sound' /\ CallSame /\ WorkDone /\ Now("work").op = "destroy"
         /\ ~deleted /\ Now("work")' = Step("none")
<1>1. /\ FieldsOK /\ use' = use /\ Now("work").op = "destroy" /\ ~deleted
      /\ todo["work"] # <<>> /\ Go("work", <<>>)
  BY TypeSplit, AtWork DEF Sound, Destroy, boundVars, Ops
<1>2. FieldsOK'
  BY <1>1 DEF Destroy, FieldsOK, sockVars, bufVars, reconVars, histVars,
     boundVars
<1> QED
  BY <1>1, <1>2, WorkPopped, TypeSplit
     DEF Sound, WorkDone, CallSame, Single

LEMMA SoundInit ==
  ASSUME Init
  PROVE  Sound
<1>1. FieldsOK
  <2>1. use \in UseType
    BY NodeAssumption DEF Init
  <2>2. /\ use.starts \in Nat /\ use.sends \in Nat /\ use.faults \in Nat
        /\ RetryConnectCount \in Nat
    BY <2>1, NodeAssumption DEF UseType
  <2>3. /\ starts \in 0..use.starts /\ sends \in 0..use.sends
        /\ faults \in 0..use.faults /\ retry \in 0..RetryConnectCount
    BY <2>2 DEF Init
  <2>4. /\ recon.state \in ReconnectionState /\ recon.count \in Nat
        /\ recon = [state |-> recon.state, count |-> recon.count]
    BY DEF Init, ReconnectionState
  <2>5. /\ status \in ConnectStatus /\ peer \in PeerStates
        /\ late \in [Threads -> Nat]
    BY Statuses DEF Init, PeerStates
  <2>6. /\ cmd \in Seq({"shake", "start", "stop"})
        /\ told \in Seq([ev : UserEvents, by : Threads])
    BY DEF Init
  <2> QED
    BY <2>3, <2>4, <2>5, <2>6 DEF Init, FieldsOK
<1>2. todo \in [Threads -> Seq(StepType)]
  BY DEF Init
<1>3. Planned
  BY DEF Init, Planned, WorkList, CallList, Threads
<1> QED
  BY <1>1, <1>2, <1>3, TypeSplit DEF Sound

LEMMA SoundNext ==
  ASSUME Sound, [Next]_vars
  PROVE  Sound'
<1>1. CASE UserNext
  BY <1>1, StartStep, StartRefusedStep, StopStep, CancelStep, SendAudioStep
     DEF UserNext
<1>2. CASE EventNext
  BY <1>2, LaunchStep, ConnectReadyStep, ResolvedStep, WriteStep,
     ReadCancelledStep, GatewayResponseStep, ReadStartedStep, ReadCompletedStep,
     ReadTaskFailedStep, ReadDirtyStep, ReadFailsStep DEF EventNext
<1>3. CASE WorkNext
  BY <1>3, DnsConnectedStep, DnsConnectStep, DnsGivesUpStep, DnsCancelledStep,
     ConnectStep, SslWaitsStep, SslEndsStep, RequestStep, SendStartStep,
     FlushStep, SetStartedStep, SetEndedStep, CloseStep, DestroyStep, RespondStep
     DEF WorkNext
<1>4. CASE Push \/ Unlock
  BY <1>4, PushStep, UnlockStep
<1>5. CASE ThreadNext("work")
  BY <1>5, WorkControlStep, WorkCheckStep, WorkTellStep, WorkAfterCloseStep,
     WorkAfterOtherStep, WorkDisconnectStep DEF ThreadNext
<1>6. CASE ThreadNext("caller")
  BY <1>6, CallControlStep, CallCheckStep, CallTellStep, CallAfterCloseStep,
     CallAfterOtherStep, CallDisconnectStep DEF ThreadNext
<1>7. CASE UNCHANGED vars
  <2>1. /\ UNCHANGED <<status, exit, isStop, isDestroy, deleted, connected, fd,
                       armed, timerFlag, cmd, audio, peer, retry, recon, told,
                       attempts, mends, late, use, starts, sends, faults>>
        /\ todo' = todo /\ use' = use
    BY <1>7 DEF vars, sockVars, bufVars, exitVars, reconVars, histVars, boundVars
  <2>2. FieldsOK'
    BY <2>1, TypeSplit DEF FieldsOK, Sound
  <2> QED
    BY <2>1, <2>2, SameLists, TypeSplit DEF Sound
<1> QED
  BY <1>1, <1>2, <1>3, <1>4, <1>5, <1>6, <1>7 DEF Next, Threads

\* Every reachable state is of the type, and what the threads have to do is what
\* the handlers of the code leave them.
THEOREM TypeCorrect == Spec => []TypeOK
<1>1. Init => Sound
  BY SoundInit
<1>2. Sound /\ [Next]_vars => Sound'
  BY SoundNext
<1>3. Sound => TypeOK
  BY DEF Sound
<1> QED
  BY <1>1, <1>2, <1>3, PTL DEF Spec

-----------------------------------------------------------------------------
\* Of a cancelled request a thread makes at most the callback that it had
\* decided on: what is done after a step is never a callback, but first a look.
QuietAt(t) ==
  late[t] = 0 \/ (late[t] = 1 /\ exit = "Cancel" /\ Now(t).op # "tell")
Quiet == QuietAt("work") /\ QuietAt("caller")

LEMMA NoTellNext ==
  ASSUME Sound
  PROVE  /\ WorkDone /\ Now("work").op # "none" => Now("work").op' # "tell"
         /\ CallDone /\ Now("caller").op # "none" => Now("caller").op' # "tell"
<1>1. ASSUME WorkDone, Now("work").op # "none" PROVE Now("work").op' # "tell"
  <2>1. todo["work"] # <<>>
    BY <1>1, AtNow DEF Sound, Threads
  <2>2. /\ Now("work") \in StepType
        /\ WorkRest(Now("work"), Tail(todo["work"]))
    BY <2>1, NowRest, NowTyped DEF Sound, Threads
  <2>3. /\ Now("work").op \in Single \cup Told \cup {"reconnect", "close", "set"}
        /\ Now("work").op \in Told => Now("work").ev \in UserEvents
    BY <2>2 DEF WorkRest, StepType, Ops, Single, Told
  <2> QED
    BY <1>1, <2>3, Fields DEF WorkDone, UserEvents
<1>2. ASSUME CallDone, Now("caller").op # "none"
      PROVE  Now("caller").op' # "tell"
  <2>1. todo["caller"] # <<>>
    BY <1>2, AtNow DEF Sound, Threads
  <2>2. CallRest(Now("caller"), Tail(todo["caller"]))
    BY <2>1, NowRest DEF Sound
  <2>3. /\ Now("caller").op \in Told
                \cup {"push", "control", "disconnect", "unlock"}
        /\ Now("caller").op \in Told => Now("caller").ev \in {"TaskFailed", "Close"}
    BY <2>2 DEF CallRest
  <2> QED
    BY <1>2, <2>3, Fields DEF CallDone
<1> QED
  BY <1>1, <1>2

LEMMA QuietKept ==
  ASSUME Quiet, late' = late, exit' = exit,
         \/ exit # "Cancel" \/ Now("work")' = Now("work")
         \/ Now("work").op' # "tell",
         \/ exit # "Cancel" \/ Now("caller")' = Now("caller")
         \/ Now("caller").op' # "tell"
  PROVE  Quiet'
BY DEF Quiet, QuietAt

LEMMA QuietUser ==
  ASSUME Sound, Quiet, UserNext
  PROVE  Quiet'
<1>1. CASE Start
  BY <1>1 DEF Start, Quiet, QuietAt, Threads
<1>2. CASE StartRefused
  BY <1>2, StartRefusedStep, QuietKept
     DEF StartRefused, exitVars, histVars, WorkSame, CallSame
<1>3. CASE Stop
  BY <1>3 DEF Stop, histVars, Quiet, QuietAt
<1>4. CASE Cancel
  BY <1>4 DEF Cancel, histVars, Quiet, QuietAt
<1>5. CASE SendAudio
  BY <1>5, QuietKept DEF SendAudio, exitVars, histVars
<1> QED
  BY <1>1, <1>2, <1>3, <1>4, <1>5 DEF UserNext

LEMMA QuietEvent ==
  ASSUME Sound, Quiet, EventNext
  PROVE  Quiet'
<1>1. ASSUME NEW e \in NodeEvents, Launch(e) PROVE Quiet'
  BY <1>1, LaunchStep, QuietKept, Fields
     DEF Launch, exitVars, WorkSame, CallSame
<1>2. ASSUME NEW e \in NodeEvents, ConnectReady(e) PROVE Quiet'
  <2>1. \/ Now("work").op' # "tell" \/ Now("work")' = Now("work")
    BY <1>2, ConnectReadyStep, StepOps DEF WorkSame
  <2>2. CallSame
    BY <1>2, ConnectReadyStep
  <2> QED
    BY <1>2, <2>1, <2>2, QuietKept DEF ConnectReady, exitVars, histVars, CallSame
<1>3. CASE Resolved
  BY <1>3, ResolvedStep, QuietKept, Fields
     DEF Resolved, exitVars, histVars, CallSame
<1>4. CASE Write
  <2>1. Now("work").op' # "tell" /\ CallSame
    BY <1>4, WriteStep, StepOps
  <2> QED
    BY <1>4, <2>1, QuietKept DEF Write, exitVars, histVars, CallSame
<1>5. CASE ReadCancelled
  BY <1>5, ReadCancelledStep, QuietKept, Fields
     DEF ReadCancelled, exitVars, histVars, CallSame
<1>6. CASE Read
  BY <1>6, ReadUnchanged, QuietKept
<1> QED
  BY <1>1, <1>2, <1>3, <1>4, <1>5, <1>6 DEF EventNext, GatewayResponse,
     ReadStarted, ReadCompleted, ReadTaskFailed, ReadDirty, ReadFails

LEMMA QuietWork ==
  ASSUME Sound, Quiet, WorkNext
  PROVE  Quiet'
<1>1. CASE DnsConnected
  BY <1>1, DnsConnectedStep, QuietKept, Fields
     DEF DnsConnected, exitVars, histVars, CallSame
<1>2. CASE DnsConnect
  BY <1>2, DnsConnectStep, QuietKept, Fields DEF DnsConnect, exitVars, CallSame
<1>3. CASE DnsGivesUp
  BY <1>3, DnsGivesUpStep, QuietKept, Fields
     DEF DnsGivesUp, exitVars, histVars, CallSame
<1>4. CASE DnsCancelled
  BY <1>4, DnsCancelledStep, QuietKept, Fields
     DEF DnsCancelled, exitVars, histVars, CallSame
<1>5. CASE Connect
  <2>1. Now("work").op' # "tell" /\ CallSame
    BY <1>5, ConnectStep, StepOps
  <2> QED
    BY <1>5, <2>1, QuietKept DEF Connect, exitVars, histVars, CallSame
<1>6. CASE SslWaits
  BY <1>6, SslWaitsStep, QuietKept, Fields
     DEF SslWaits, exitVars, histVars, CallSame
<1>7. CASE SslEnds
  <2>1. Now("work").op' # "tell" /\ CallSame
    BY <1>7, SslEndsStep, StepOps
  <2> QED
    BY <1>7, <2>1, QuietKept DEF SslEnds, exitVars, histVars, CallSame
<1>8. CASE NodeRequestProcess
  <2>1. Now("work").op' # "tell" /\ CallSame
    BY <1>8, RequestStep, Fields
  <2> QED
    BY <1>8, <2>1, QuietKept
       DEF NodeRequestProcess, exitVars, histVars, CallSame
<1>9. CASE SendStart
  <2>1. Now("work").op' # "tell" /\ CallSame
    BY <1>9, SendStartStep, Fields
  <2> QED
    BY <1>9, <2>1, QuietKept DEF SendStart, exitVars, histVars, CallSame
<1>10. CASE Flush
  <2>1. Now("work").op' # "tell" /\ CallSame
    BY <1>10, FlushStep, Fields
  <2> QED
    BY <1>10, <2>1, QuietKept DEF Flush, exitVars, histVars, CallSame
<1>11. CASE SetStarted
  BY <1>11, SetStartedStep, QuietKept
     DEF SetStarted, exitVars, histVars, CallSame
<1>12. CASE SetEnded
  <2>1. Now("work").op' # "tell" /\ CallSame
    BY <1>12, SetEndedStep, Fields
  <2> QED
    BY <1>12, <2>1, QuietKept DEF SetEnded, exitVars, histVars, CallSame
<1>13. CASE Close
  BY <1>13, CloseStep, NoTellNext, QuietKept
     DEF Close, exitVars, histVars, CallSame
<1>14. CASE Destroy
  BY <1>14, DestroyStep, QuietKept, Fields DEF Destroy, histVars, CallSame
<1>15. CASE Respond
  BY <1>15, RespondStep, QuietKept, Fields
     DEF Respond, exitVars, histVars, CallSame
<1> QED
  BY <1>1, <1>2, <1>3, <1>4, <1>5, <1>6, <1>7, <1>8, <1>9, <1>10, <1>11, <1>12,
     <1>13, <1>14, <1>15 DEF WorkNext

LEMMA QuietThreads ==
  ASSUME Sound, Quiet, NEW t \in Threads, ThreadNext(t)
  PROVE  Quiet'
<1>1. CASE Control("work")
  <2>1. Now("work").op' # "tell" /\ CallSame
    BY <1>1, WorkControlStep, Fields
  <2> QED
    BY <1>1, <2>1, QuietKept DEF Control, histVars, CallSame
<1>2. CASE Control("caller")
  <2>1. Now("caller").op' # "tell" /\ WorkSame
    BY <1>2, CallControlStep, Fields
  <2> QED
    BY <1>2, <2>1, QuietKept DEF Control, histVars, WorkSame
<1>3. CASE Check("work")
  <2>1. (exit = "Cancel" => Now("work").op' # "tell") /\ CallSame
    BY <1>3, WorkCheckStep, NoTellNext
  <2> QED
    BY <1>3, <2>1, QuietKept DEF Check, exitVars, histVars, CallSame
<1>4. CASE Check("caller")
  <2>1. (exit = "Cancel" => Now("caller").op' # "tell") /\ WorkSame
    BY <1>4, CallCheckStep, NoTellNext
  <2> QED
    BY <1>4, <2>1, QuietKept DEF Check, exitVars, histVars, WorkSame
<1>5. ASSUME NEW u \in Threads, Tell(u), Now(u).op = "tell",
             Now(u).op' # "tell", NEW v \in Threads, u # v,
             Now(v)' = Now(v)
      PROVE  Quiet'
  <2>1. late \in [Threads -> Nat]
    BY DEF Sound, TypeOK
  <2>2. /\ exit' = exit
        /\ \/ late' = late
           \/ exit = "Cancel" /\ late' = [late EXCEPT ![u] = @ + 1]
    BY <1>5 DEF Tell, exitVars
  <2>3. QuietAt(u) /\ QuietAt(v)
    BY DEF Quiet, Threads
  <2>4. late[u] = 0
    BY <1>5, <2>3 DEF QuietAt
  <2>5. QuietAt(u)' /\ QuietAt(v)'
    BY <1>5, <2>1, <2>2, <2>3, <2>4 DEF QuietAt
  <2> QED
    BY <1>5, <2>5 DEF Quiet, Threads
<1>6. CASE Tell("work")
  BY <1>5, <1>6, WorkTellStep DEF CallSame, Threads
<1>7. CASE Tell("caller")
  BY <1>5, <1>7, CallTellStep DEF WorkSame, Threads
<1>8. CASE AfterClose("work")
  BY <1>8, WorkAfterCloseStep, NoTellNext, QuietKept
     DEF AfterClose, exitVars, histVars, CallSame
<1>9. CASE AfterClose("caller")
  BY <1>9, CallAfterCloseStep, NoTellNext, QuietKept
     DEF AfterClose, exitVars, histVars, CallDone, WorkSame
<1>10. CASE AfterOther("work")
  BY <1>10, WorkAfterOtherStep, NoTellNext, QuietKept
     DEF AfterOther, exitVars, histVars, CallSame
<1>11. CASE AfterOther("caller")
  BY <1>11, CallAfterOtherStep, NoTellNext, QuietKept
     DEF AfterOther, exitVars, histVars, CallDone, WorkSame
<1>12. CASE Disconnect("work")
  <2>1. Now("work").op' # "tell" /\ CallSame
    BY <1>12, WorkDisconnectStep, StepOps
  <2> QED
    BY <1>12, <2>1, QuietKept DEF Disconnect, exitVars, histVars, CallSame
<1>13. CASE Disconnect("caller")
  BY <1>13, CallDisconnectStep, NoTellNext, QuietKept
     DEF Disconnect, exitVars, histVars, CallDone, WorkSame
<1> QED
  BY <1>1, <1>2, <1>3, <1>4, <1>6, <1>7, <1>8, <1>9, <1>10, <1>11, <1>12, <1>13
     DEF ThreadNext, Threads

LEMMA QuietNext ==
  ASSUME Sound, Quiet, [Next]_vars
  PROVE  Quiet'
<1>1. CASE Push
  BY <1>1, PushStep, QuietKept DEF Push, exitVars, histVars, WorkSame
<1>2. CASE Unlock
  BY <1>2, UnlockStep, QuietKept, Fields
     DEF Unlock, exitVars, histVars, WorkSame
<1>3. CASE UNCHANGED vars
  BY <1>3 DEF vars, exitVars, histVars, Quiet, QuietAt, Now
<1> QED
  BY <1>1, <1>2, <1>3, QuietUser, QuietEvent, QuietWork, QuietThreads DEF Next

\* Once a cancel was accepted each thread makes at most one more callback, for
\* every use of the request: handlerEvent looks at the exit status before each.
THEOREM CancelLeavesOne == Spec => []OneLateCallback
<1>1. Init => Sound /\ Quiet
  BY SoundInit DEF Init, Quiet, QuietAt, Threads
<1>2. Sound /\ Quiet /\ [Next]_vars => (Sound /\ Quiet)'
  BY SoundNext, QuietNext
<1>3. Sound /\ Quiet => OneLateCallback
  BY DEF Quiet, QuietAt, OneLateCallback, Threads
<1> QED
  BY <1>1, <1>2, <1>3, PTL DEF Spec
=============================================================================
