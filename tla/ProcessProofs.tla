---------------------------- MODULE ProcessProofs ----------------------------
(***************************************************************************)
(* Proofs about the process, for any input, latencies of the codecs, size  *)
(* of the buffer and number of errors: the types, how far the recogniser's *)
(* clock runs ahead, and that no callback outlives what it uses.           *)
(***************************************************************************)
EXTENDS Process, TLAPS, SequenceTheorems, WellFoundedInduction

\* The reader is with a packet that it has read.
Busy == main \in {"send", "receive", "push"}

\* Every packet read is in the buffer or has left it, but for the reader's own.
Stock == written + Len(list) = IF Busy THEN n - 1 ELSE n

\* The loop of ~WorkThread is left before its count is below zero.
Turns == main \notin {"join", "request", "exit", "undefined"} => tries >= 0

\* A callback that replaces packets has some to replace.
ToMute == work \in Muting => mute # {}

\* What the recogniser has heard is fewer packets than were read; what the
\* decoder holds follows it, in order, and would come in time.
Behind ==
  Len(heard) =< n /\ (main \in {"send", "receive"} => Len(heard) < n)
Holds(q, k, lag) ==
  \A j \in DOMAIN q : /\ q[j] >= k + j - lag /\ q[j] =< n
                      /\ j > 1 => q[j] >= q[j - 1]
Follows(q) ==
  q # <<>> /\ heard # <<>> => q[1] >= heard[Len(heard)]
Clock ==
  /\ Behind /\ Holds(held["asr"], Len(heard), latency["asr"])
  /\ Follows(held["asr"]) /\ ClockAhead

\* The destructors come to the members only when the work thread has ended.
Ended ==
  /\ main = "request" => work = "gone"
  /\ "delayer" \in freed => work = "gone"

IInv == TypeOK /\ Stock /\ Turns /\ ToMute /\ Clock /\ Ended

-----------------------------------------------------------------------------
USE ProcessAssumption

\* The first of the packets to replace, std::list's order being that of the
\* numbers.
LEMMA FirstOfSome ==
  ASSUME NEW S \in SUBSET Nat, S # {}
  PROVE  Min(S) \in S
<1>1. \E x \in S : \A y \in S : ~(<<y, x>> \in OpToRel(<, Nat))
  BY Zenon, NatLessThanWellFounded, WFMin
<1>2. PICK x \in S : \A y \in S : ~(<<y, x>> \in OpToRel(<, Nat))
  BY <1>1, Zenon
<1>3. ASSUME NEW y \in S, y < x PROVE FALSE
  <2>1. <<y, x>> \in Nat \X Nat /\ <<y, x>>[1] < <<y, x>>[2]
    BY <1>3
  <2>2. <<y, x>> \in OpToRel(<, Nat)
    BY <2>1, Zenon DEF OpToRel
  <2> QED BY <1>2, <2>2, Zenon
<1>4. \A y \in S : x =< y
  BY <1>3
<1> QED BY <1>4 DEF Min

\* A codec takes an input, or gives an output.
LEMMA FeedType ==
  ASSUME TypeOK, NEW c \in Codecs, NEW x \in 1..MaxPackets, Feed(c, x)
  PROVE  /\ held' \in [Codecs -> Seq(1..MaxPackets)]
         /\ held'[c] \in {held[c], Append(held[c], x)}
         /\ \A d \in Codecs : d # c => held'[d] = held[d]
<1>1. Append(held[c], x) \in Seq(1..MaxPackets)
  BY DEF TypeOK
<1> QED BY <1>1 DEF TypeOK, Feed

LEMMA FeedAgainType ==
  ASSUME TypeOK, NEW c \in Codecs, NEW x \in 1..MaxPackets, FeedAgain(c, x)
  PROVE  /\ held' \in [Codecs -> Seq(1..MaxPackets)]
         /\ dry' \subseteq Codecs /\ faults' \in 0..MaxFaults
         /\ \A d \in Codecs : d # c => held'[d] = held[d]
<1>1. CASE Feed(c, x) /\ UNCHANGED <<dry, faults>>
  BY <1>1, FeedType DEF TypeOK
<1>2. CASE dry' = dry \cup {c} /\ Fault /\ UNCHANGED held
  BY <1>2 DEF TypeOK, Fault
<1> QED BY <1>1, <1>2 DEF FeedAgain

LEMMA DrawType ==
  ASSUME TypeOK, NEW c \in Codecs, Ready(c), Draw(c)
  PROVE  /\ held[c] \in Seq(1..MaxPackets) /\ held[c] # <<>>
         /\ Head(held[c]) \in 1..MaxPackets
         /\ held' \in [Codecs -> Seq(1..MaxPackets)]
         /\ held'[c] = Tail(held[c])
         /\ \A d \in Codecs : d # c => held'[d] = held[d]
<1>1. held[c] \in Seq(1..MaxPackets) /\ latency[c] \in Nat
  BY DEF TypeOK
<1>2. held[c] # <<>>
  BY <1>1 DEF Ready
<1>3. Tail(held[c]) \in Seq(1..MaxPackets) /\ Head(held[c]) \in 1..MaxPackets
  BY <1>1, <1>2, HeadTailProperties
<1> QED BY <1>1, <1>2, <1>3 DEF TypeOK, Draw

\* What the other thread does to its own codecs leaves the clock alone.
LEMMA ClockKept ==
  ASSUME Clock, held'["asr"] = held["asr"], UNCHANGED <<latency, n, heard, main>>
  PROVE  Clock'
BY DEF Clock, Behind, Holds, Follows, ClockAhead

\* A packet that the decoder is given is not too early for the clock.
LEMMA ClockFed ==
  ASSUME TypeOK, Clock, Stock, main \in {"send", "receive"}, Accepts("asr"),
         Feed("asr", n), main' \in {"send", "receive"},
         UNCHANGED <<latency, n, heard>>
  PROVE  Clock'
<1> DEFINE q == held["asr"]
           r == held'["asr"]
<1>0. /\ n \in Nat /\ heard \in Seq(1..n) /\ q \in Seq(1..MaxPackets)
      /\ latency["asr"] \in Nat /\ Len(q) =< latency["asr"]
      /\ Len(heard) < n /\ n =< MaxPackets
  <2>1. "asr" \in Codecs
    BY DEF Codecs
  <2>2. n \in Nat /\ n =< MaxPackets /\ heard \in Seq(1..n)
    BY DEF TypeOK
  <2>3. q \in Seq(1..MaxPackets) /\ latency["asr"] \in Nat
    BY <2>1 DEF TypeOK
  <2> QED BY <2>2, <2>3 DEF Clock, Behind, Accepts
<1>1. /\ n \in 1..MaxPackets /\ Len(heard) \in Nat
      /\ Len(q) \in Nat /\ DOMAIN q = 1..Len(q)
  BY <1>0, LenProperties
<1>b. r \in {q, Append(q, n)}
  BY <1>1, FeedType DEF Codecs
<1>c. CASE r = q
  BY <1>c DEF Clock, Behind, Holds, Follows, ClockAhead
<1> SUFFICES ASSUME r = Append(q, n) PROVE Clock'
  BY <1>b, <1>c
<1>2. r = Append(q, n)
  OBVIOUS
<1>a. DOMAIN r = 1..(Len(q) + 1) /\ r[Len(q) + 1] = n
      /\ \A j \in 1..Len(q) : r[j] = q[j]
  BY <1>0, <1>1, <1>2, AppendProperties
<1>3. Holds(q, Len(heard), latency["asr"]) /\ Follows(q) /\ ClockAhead
  BY DEF Clock
<1>4. Holds(r, Len(heard), latency["asr"])
  <2> SUFFICES ASSUME NEW j \in DOMAIN r
               PROVE  /\ r[j] >= Len(heard) + j - latency["asr"] /\ r[j] =< n
                      /\ j > 1 => r[j] >= r[j - 1]
    BY DEF Holds
  <2>1. CASE j = Len(q) + 1
    <3>1. j > 1 => j - 1 \in DOMAIN q /\ r[j - 1] = q[j - 1]
      BY <1>1, <1>a, <2>1
    <3>2. j > 1 => r[j - 1] =< n
      BY <1>3, <3>1 DEF Holds
    <3>3. r[j] = n
      BY <1>a, <2>1
    <3> QED BY <1>0, <1>1, <2>1, <3>2, <3>3
  <2>2. CASE j \in 1..Len(q)
    <3>1. r[j] = q[j] /\ (j > 1 => r[j - 1] = q[j - 1])
      BY <1>1, <1>a, <2>2
    <3> QED BY <1>1, <1>3, <2>2, <3>1 DEF Holds
  <2> QED BY <1>1, <1>a, <2>1, <2>2
<1>5. heard # <<>> => heard[Len(heard)] =< n
  BY <1>0
<1>6. Follows(r)
  <2>1. CASE q = <<>>
    BY <1>a, <1>5, <2>1 DEF Follows
  <2>2. CASE q # <<>>
    <3>1. r[1] = q[1]
      BY <1>0, <1>1, <1>a, <2>2
    <3> QED BY <1>3, <2>2, <3>1 DEF Follows
  <2> QED BY <2>1, <2>2
<1> QED BY <1>0, <1>3, <1>4, <1>6
        DEF Clock, Behind, Holds, Follows, ClockAhead

\* Nor is what comes out of it, heard or lost.
LEMMA ClockDrawn ==
  ASSUME TypeOK, Clock, main = "receive", Ready("asr"), Draw("asr"),
         heard' \in {heard, Append(heard, Head(held["asr"]))},
         main' = "push", UNCHANGED <<latency, n>>
  PROVE  heard' \in Seq(1..n) /\ Clock'
<1> DEFINE q == held["asr"]
           r == held'["asr"]
           lag == latency["asr"]
           x == Head(q)
<1>1. /\ q \in Seq(1..MaxPackets) /\ q # <<>> /\ r = Tail(q)
  BY DrawType DEF Codecs
<1>2. n \in Nat /\ heard \in Seq(1..n) /\ lag \in Nat
  <2>1. "asr" \in Codecs
    BY DEF Codecs
  <2>2. lag \in Nat
    BY <2>1 DEF TypeOK
  <2> QED BY <2>2 DEF TypeOK
<1>3. /\ Holds(q, Len(heard), lag) /\ Follows(q) /\ ClockAhead /\ Len(heard) < n
  BY DEF Clock, Behind
<1>4. /\ Len(q) \in Nat \ {0} /\ DOMAIN q = 1..Len(q) /\ x = q[1]
      /\ \A j \in DOMAIN q : q[j] \in 1..MaxPackets
  BY <1>1, LenProperties
<1>5. /\ DOMAIN r = 1..(Len(q) - 1)
      /\ \A j \in DOMAIN r : j + 1 \in DOMAIN q /\ r[j] = q[j + 1]
  BY <1>1, <1>4, HeadTailProperties
<1>6. /\ Len(heard) \in Nat /\ DOMAIN heard = 1..Len(heard)
      /\ \A i \in DOMAIN heard : heard[i] \in 1..n
  BY <1>2, LenProperties
<1>7. /\ x \in 1..n /\ x >= Len(heard) + 1 - lag
      /\ heard # <<>> => x >= heard[Len(heard)]
  <2>1. 1 \in DOMAIN q /\ q[1] \in 1..MaxPackets
    BY <1>4
  <2>2. q[1] >= Len(heard) + 1 - lag /\ q[1] =< n
    BY <1>3, <2>1 DEF Holds
  <2>3. heard # <<>> => q[1] >= heard[Len(heard)]
    BY <1>1, <1>3 DEF Follows
  <2> QED BY <1>2, <1>4, <2>1, <2>2, <2>3
<1>8. \A j \in DOMAIN r : /\ r[j] >= Len(heard) + 1 + j - lag /\ r[j] =< n
                          /\ j > 1 => r[j] >= r[j - 1]
  <2> SUFFICES ASSUME NEW j \in DOMAIN r
               PROVE  /\ r[j] >= Len(heard) + 1 + j - lag /\ r[j] =< n
                      /\ j > 1 => r[j] >= r[j - 1]
    OBVIOUS
  <2>1. /\ q[j + 1] >= Len(heard) + (j + 1) - lag /\ q[j + 1] =< n
        /\ j + 1 > 1 => q[j + 1] >= q[(j + 1) - 1]
    BY <1>3, <1>5 DEF Holds
  <2>2. j \in Nat \ {0} /\ r[j] = q[j + 1] /\ (j + 1) - 1 = j
    BY <1>4, <1>5
  <2>3. ASSUME j > 1 PROVE r[j - 1] = q[j]
    <3>1. j - 1 \in DOMAIN r /\ (j - 1) + 1 = j
      BY <1>4, <1>5, <2>2, <2>3
    <3> QED BY <1>5, <3>1
  <2>4. Len(heard) + (j + 1) - lag = Len(heard) + 1 + j - lag /\ j + 1 > 1
    <3>1. j \in Nat \ {0} /\ Len(heard) \in Nat /\ lag \in Nat
      BY <1>2, <1>6, <2>2
    <3> QED BY <3>1
  <2> QED BY <2>1, <2>2, <2>3, <2>4
<1>9. r # <<>> => r[1] >= x /\ r[1] \in Nat
  <2> SUFFICES ASSUME r # <<>> PROVE r[1] >= x /\ r[1] \in Nat
    OBVIOUS
  <2>1. 1 \in DOMAIN r
    BY <1>1, <1>4, <1>5, HeadTailProperties
  <2>2. r[1] = q[2] /\ 2 \in DOMAIN q
    BY <1>5, <2>1
  <2> QED BY <1>3, <1>4, <2>2 DEF Holds
<1>10. CASE heard' = heard
  <2>1. Holds(r, Len(heard), lag)
    <3> SUFFICES ASSUME NEW j \in DOMAIN r PROVE r[j] >= Len(heard) + j - lag
      BY <1>8 DEF Holds
    <3>1. j \in Nat /\ r[j] \in Nat
      BY <1>4, <1>5
    <3>2. r[j] >= Len(heard) + 1 + j - lag
      BY <1>8
    <3> QED BY <1>2, <1>6, <3>1, <3>2
  <2>2. Follows(r)
    <3> SUFFICES ASSUME r # <<>>, heard # <<>> PROVE r[1] >= heard[Len(heard)]
      BY DEF Follows
    <3>1. heard[Len(heard)] \in Nat
      BY <1>2, <1>6
    <3> QED BY <1>7, <1>9, <3>1
  <2> QED BY <1>2, <1>3, <1>10, <2>1, <2>2
          DEF Clock, Behind, Holds, Follows, ClockAhead
<1>11. CASE heard' = Append(heard, x)
  <2>1. /\ heard' \in Seq(1..n) /\ Len(heard') = Len(heard) + 1
        /\ heard'[Len(heard) + 1] = x
        /\ \A i \in 1..Len(heard) : heard'[i] = heard[i]
        /\ DOMAIN heard' = 1..(Len(heard) + 1)
    BY <1>2, <1>6, <1>7, <1>11, AppendProperties, LenProperties
  <2>2. \A j \in DOMAIN r : /\ r[j] >= Len(heard') + j - lag /\ r[j] =< n
                            /\ j > 1 => r[j] >= r[j - 1]
    BY <1>8, <2>1
  <2>3. r # <<>> /\ heard' # <<>> => r[1] >= heard'[Len(heard')]
    BY <1>9, <2>1
  <2>4. ASSUME NEW i \in DOMAIN heard'
        PROVE  heard'[i] >= i - lag /\ (i > 1 => heard'[i] >= heard'[i - 1])
    <3>1. CASE i = Len(heard) + 1
      <4>1. ASSUME i > 1 PROVE heard'[i] >= heard'[i - 1]
        <5>1. heard # <<>> /\ i - 1 = Len(heard) /\ i - 1 \in 1..Len(heard)
          BY <1>6, <3>1, <4>1
        <5>2. heard'[i - 1] = heard[Len(heard)] /\ heard'[i] = x
          BY <2>1, <3>1, <5>1
        <5> QED BY <1>7, <5>1, <5>2
      <4>2. heard'[i] >= i - lag
        <5>1. heard'[i] = x
          BY <2>1, <3>1
        <5>2. i \in Nat /\ i = Len(heard) + 1 /\ x \in Nat /\ lag \in Nat
          BY <1>2, <1>6, <1>7, <3>1
        <5>3. x >= i - lag
          BY <1>7, <5>2
        <5> QED BY <5>1, <5>3
      <4> QED BY <4>1, <4>2
    <3>2. CASE i \in 1..Len(heard)
      <4>1. heard'[i] = heard[i] /\ (i > 1 => heard'[i - 1] = heard[i - 1])
        BY <1>6, <2>1, <3>2
      <4> QED BY <1>3, <1>6, <3>2, <4>1 DEF ClockAhead
    <3> QED BY <1>6, <2>1, <3>1, <3>2
  <2> QED BY <1>2, <1>3, <1>6, <2>1, <2>2, <2>3, <2>4
          DEF Clock, Behind, Holds, Follows, ClockAhead
<1> QED BY <1>10, <1>11

-----------------------------------------------------------------------------
\* One lemma for each action.
USE DEF IInv, codecVars, inputVars, bufferVars, muteVars, endVars

\* Relayer::init.
LEMMA RelayerInitKeeps ==
  ASSUME IInv, RelayerInit
  PROVE  IInv'
<1> USE DEF RelayerInit
<1>1. TypeOK'
  BY DEF TypeOK
<1>2. Stock'
  BY DEF Stock, Busy
<1>3. Turns'
  BY DEF Turns
<1>4. ToMute'
  BY DEF ToMute
<1>5. Clock'
  BY DEF Clock, Behind, Holds, Follows, ClockAhead
<1>6. Ended'
  BY DEF Ended
<1> QED BY <1>1, <1>2, <1>3, <1>4, <1>5, <1>6

\* av_read_frame.
LEMMA ReadFrameKeeps ==
  ASSUME IInv, ReadFrame
  PROVE  IInv'
<1> USE DEF ReadFrame
<1>1. TypeOK'
  <2>1. n \in Nat /\ n' \in 0..MaxPackets /\ n =< n' /\ n' \in Nat
    BY DEF TypeOK
  <2>2. 1..n \subseteq 1..n'
    BY <2>1
  <2>3. heard' \in Seq(1..n') /\ list' \in Seq(1..n') /\ mute' \subseteq 1..n'
    BY <2>2 DEF TypeOK
  <2> QED BY <2>1, <2>3 DEF TypeOK
<1>2. Stock'
  BY DEF TypeOK, Stock, Busy
<1>3. Turns'
  BY DEF Turns
<1>4. ToMute'
  BY DEF ToMute
<1>5. Clock'
  <2>1. /\ n \in Nat /\ n' \in Nat /\ n =< n' /\ (main' = "send" => n' = n + 1)
        /\ Len(heard) \in Nat /\ Len(heard) =< n
    BY DEF TypeOK, Clock, Behind
  <2>2. Behind'
    BY <2>1 DEF Behind
  <2>3. \A j \in DOMAIN held["asr"] : held["asr"][j] \in Nat
    BY LenProperties DEF TypeOK, Codecs
  <2>4. Holds(held["asr"], Len(heard), latency["asr"])'
    BY <2>1, <2>3 DEF Clock, Holds
  <2> QED BY <2>2, <2>4 DEF Clock, Follows, ClockAhead
<1>6. Ended'
  BY DEF Ended
<1> QED BY <1>1, <1>2, <1>3, <1>4, <1>5, <1>6

\* The packet goes to the recogniser's decoder, or is refused.
LEMMA SendPacketKeeps ==
  ASSUME IInv, SendPacket
  PROVE  IInv'
<1> USE DEF SendPacket, Fault
<1>a. n \in 1..MaxPackets
  <2>1. n \in Nat /\ n =< MaxPackets /\ written \in Nat /\ Len(list) \in Nat
    BY DEF TypeOK
  <2> QED BY <2>1 DEF Stock, Busy
<1>1. TypeOK'
  <2>1. held' \in [Codecs -> Seq(1..MaxPackets)]
    BY <1>a, FeedType DEF TypeOK, Codecs
  <2> QED BY <2>1 DEF TypeOK
<1>2. Stock'
  BY DEF Stock, Busy
<1>3. Turns'
  BY DEF Turns
<1>4. ToMute'
  BY DEF ToMute
<1>5. Clock'
  <2>1. CASE Accepts("asr") /\ Feed("asr", n) /\ main' = "receive"
    BY <2>1, ClockFed
  <2>2. CASE main' = "push" /\ UNCHANGED held
    BY <2>2 DEF Clock, Behind, Holds, Follows, ClockAhead
  <2> QED BY <2>1, <2>2
<1>6. Ended'
  BY DEF Ended
<1> QED BY <1>1, <1>2, <1>3, <1>4, <1>5, <1>6

\* It goes there once more.
LEMMA ReceiveAgainKeeps ==
  ASSUME IInv, ReceiveAgain
  PROVE  IInv'
<1> USE DEF ReceiveAgain
<1>a. n \in 1..MaxPackets
  <2>1. n \in Nat /\ n =< MaxPackets /\ written \in Nat /\ Len(list) \in Nat
    BY DEF TypeOK
  <2> QED BY <2>1 DEF Stock, Busy
<1>b. Accepts("asr")
  <2>1. "asr" \in Codecs
    BY DEF Codecs
  <2>2. held["asr"] \in Seq(1..MaxPackets) /\ latency["asr"] \in Nat
    BY <2>1 DEF TypeOK
  <2>3. Len(held["asr"]) \in Nat
    BY <2>2, LenProperties
  <2> QED BY <2>2, <2>3 DEF Accepts, Ready, FeedAgain
<1>1. TypeOK'
  <2>1. /\ held' \in [Codecs -> Seq(1..MaxPackets)]
        /\ dry' \subseteq Codecs /\ faults' \in 0..MaxFaults
    BY <1>a, FeedAgainType DEF Codecs
  <2> QED BY <2>1 DEF TypeOK
<1>2. Stock'
  BY DEF Stock, Busy
<1>3. Turns'
  BY DEF Turns
<1>4. ToMute'
  BY DEF ToMute
<1>5. Clock'
  <2>1. CASE Feed("asr", n)
    BY <1>b, <2>1, ClockFed
  <2>2. CASE UNCHANGED held
    BY <2>2, ClockKept
  <2> QED BY <2>1, <2>2 DEF FeedAgain
<1>6. Ended'
  BY DEF Ended
<1> QED BY <1>1, <1>2, <1>3, <1>4, <1>5, <1>6

\* A frame comes out and is heard, or lost.
LEMMA ReceiveFrameKeeps ==
  ASSUME IInv, ReceiveFrame
  PROVE  IInv'
<1> USE DEF ReceiveFrame, Fault
<1>a. heard' \in Seq(1..n) /\ Clock'
  <2>1. /\ heard' \in {heard, Append(heard, Head(held["asr"]))}
        /\ main' = "push" /\ UNCHANGED <<latency, n>>
    OBVIOUS
  <2> QED BY <2>1, ClockDrawn
<1>1. TypeOK'
  <2>1. held' \in [Codecs -> Seq(1..MaxPackets)]
    BY DrawType DEF Codecs
  <2> QED BY <1>a, <2>1 DEF TypeOK
<1>2. Stock'
  BY DEF Stock, Busy
<1>3. Turns'
  BY DEF Turns
<1>4. ToMute'
  BY DEF ToMute
<1>5. Clock'
  BY <1>a
<1>6. Ended'
  BY DEF Ended
<1> QED BY <1>1, <1>2, <1>3, <1>4, <1>5, <1>6

\* The packet goes into the buffer, and another one out.
LEMMA PushAudioFrameKeeps ==
  ASSUME IInv, PushAudioFrame
  PROVE  IInv'
<1> USE DEF PushAudioFrame
<1>a. n \in 1..MaxPackets
  <2>1. n \in Nat /\ n =< MaxPackets /\ written \in Nat /\ Len(list) \in Nat
    BY DEF TypeOK
  <2> QED BY <2>1 DEF Stock, Busy
<1> DEFINE all == Append(list, n)
<1>0. list \in Seq(1..n) /\ n \in 1..n /\ n \in Nat /\ written \in Nat
  BY <1>a DEF TypeOK
<1>b. /\ all \in Seq(1..n) /\ Len(all) = Len(list) + 1 /\ Len(list) \in Nat
      /\ all # <<>> /\ written \in Nat /\ n \in Nat
  BY <1>0, AppendProperties, LenProperties
<1>c. Tail(all) \in Seq(1..n) /\ Len(Tail(all)) = Len(list)
  BY <1>b, HeadTailProperties
<1>d. written + Len(list) = n - 1
  BY DEF Stock, Busy
<1>e. /\ list' \in Seq(1..n) /\ written' \in 0..n
      /\ written' + Len(list') = n
  <2>1. CASE Len(all) > MaxHeld
    <3>1. list' = Tail(all) /\ written' = written + 1
      BY <2>1
    <3>2. written + 1 \in 0..n /\ (written + 1) + Len(list) = n
      BY <1>b, <1>d
    <3> QED BY <1>c, <3>1, <3>2
  <2>2. CASE ~(Len(all) > MaxHeld)
    <3>1. list' = all /\ written' = written
      BY <2>2
    <3> QED BY <1>b, <1>d, <3>1
  <2> QED BY <2>1, <2>2
<1>1. TypeOK'
  BY <1>e DEF TypeOK
<1>2. Stock'
  BY <1>e DEF Stock, Busy
<1>3. Turns'
  BY DEF Turns
<1>4. ToMute'
  BY DEF ToMute
<1>5. Clock'
  BY DEF Clock, Behind, Holds, Follows, ClockAhead
<1>6. Ended'
  BY DEF Ended
<1> QED BY <1>1, <1>2, <1>3, <1>4, <1>5, <1>6

\* The work thread launches the request.
LEMMA LaunchKeeps ==
  ASSUME IInv, Launch
  PROVE  IInv'
<1> USE DEF Launch, At
<1>1. TypeOK'
  BY DEF TypeOK
<1>2. Stock'
  BY DEF Stock, Busy
<1>3. Turns'
  BY DEF Turns
<1>4. ToMute'
  BY DEF ToMute
<1>5. Clock'
  BY DEF Clock, Behind, Holds, Follows, ClockAhead
<1>6. Ended'
  BY DEF Ended
<1> QED BY <1>1, <1>2, <1>3, <1>4, <1>5, <1>6

\* A callback begins to mute.
LEMMA SentenceEndKeeps ==
  ASSUME IInv, SentenceEnd
  PROVE  IInv'
<1> USE DEF SentenceEnd, At
<1>1. TypeOK'
  <2>1. ToSet(list) \subseteq 1..n
    BY LenProperties DEF TypeOK, ToSet
  <2>2. mute' \subseteq 1..n /\ hits' \in 0..MaxHits
    BY <2>1 DEF TypeOK
  <2> QED BY <2>2 DEF TypeOK, Muting
<1>2. Stock'
  BY DEF Stock, Busy
<1>3. Turns'
  BY DEF Turns
<1>4. ToMute'
  BY DEF ToMute
<1>5. Clock'
  BY DEF Clock, Behind, Holds, Follows, ClockAhead
<1>6. Ended'
  BY DEF Ended
<1> QED BY <1>1, <1>2, <1>3, <1>4, <1>5, <1>6

\* A packet goes to the replacer's decoder or encoder.
LEMMA MuteSendsKeeps ==
  ASSUME IInv, MuteSends
  PROVE  IInv'
<1> USE DEF MuteSends, At, Muting
<1>a. Min(mute) \in 1..MaxPackets
  <2>1. mute \subseteq 1..n /\ n \in 0..MaxPackets /\ mute # {}
    BY DEF TypeOK, ToMute, Muting
  <2>2. mute \in SUBSET Nat
    BY <2>1
  <2>3. Min(mute) \in mute
    BY <2>1, <2>2, FirstOfSome
  <2>4. \A x \in mute : x \in 1..MaxPackets
    BY <2>1
  <2> QED BY <2>3, <2>4, Zenon
<1>b. /\ held' \in [Codecs -> Seq(1..MaxPackets)]
      /\ held'["asr"] = held["asr"]
  <2>1. PICK c \in {"dec", "enc"} : Feed(c, Min(mute))
    OBVIOUS
  <2> QED BY <1>a, <2>1, FeedType DEF Codecs
<1>1. TypeOK'
  BY <1>b DEF TypeOK
<1>2. Stock'
  BY DEF Stock, Busy
<1>3. Turns'
  BY DEF Turns
<1>4. ToMute'
  BY DEF ToMute
<1>5. Clock'
  BY <1>b, ClockKept
<1>6. Ended'
  BY DEF Ended
<1> QED BY <1>1, <1>2, <1>3, <1>4, <1>5, <1>6

\* It goes there once more.
LEMMA MuteAgainKeeps ==
  ASSUME IInv, MuteAgain
  PROVE  IInv'
<1> USE DEF MuteAgain, At, Muting
<1>a. Min(mute) \in 1..MaxPackets
  <2>1. mute \subseteq 1..n /\ n \in 0..MaxPackets /\ mute # {}
    BY DEF TypeOK, ToMute, Muting
  <2>2. mute \in SUBSET Nat
    BY <2>1
  <2>3. Min(mute) \in mute
    BY <2>1, <2>2, FirstOfSome
  <2>4. \A x \in mute : x \in 1..MaxPackets
    BY <2>1
  <2> QED BY <2>3, <2>4, Zenon
<1>b. /\ held' \in [Codecs -> Seq(1..MaxPackets)]
      /\ held'["asr"] = held["asr"]
      /\ dry' \subseteq Codecs /\ faults' \in 0..MaxFaults
  <2>1. PICK c \in {"dec", "enc"} : FeedAgain(c, Min(mute))
    OBVIOUS
  <2> QED BY <1>a, <2>1, FeedAgainType DEF Codecs
<1>1. TypeOK'
  BY <1>b DEF TypeOK
<1>2. Stock'
  BY DEF Stock, Busy
<1>3. Turns'
  BY DEF Turns
<1>4. ToMute'
  BY DEF ToMute
<1>5. Clock'
  BY <1>b, ClockKept
<1>6. Ended'
  BY DEF Ended
<1> QED BY <1>1, <1>2, <1>3, <1>4, <1>5, <1>6

\* A frame or a packet comes out of them.
LEMMA MuteReceivesKeeps ==
  ASSUME IInv, MuteReceives
  PROVE  IInv'
<1> USE DEF MuteReceives, At, Muting, MuteNext
<1>b. /\ held' \in [Codecs -> Seq(1..MaxPackets)]
      /\ held'["asr"] = held["asr"]
  <2>1. PICK c \in {"dec", "enc"} : Ready(c) /\ Draw(c)
    OBVIOUS
  <2> QED BY <2>1, DrawType DEF Codecs
<1>1. TypeOK'
  BY <1>b DEF TypeOK
<1>2. Stock'
  BY DEF Stock, Busy
<1>3. Turns'
  BY DEF Turns
<1>4. ToMute'
  BY DEF ToMute
<1>5. Clock'
  BY <1>b, ClockKept
<1>6. Ended'
  BY DEF Ended
<1> QED BY <1>1, <1>2, <1>3, <1>4, <1>5, <1>6

\* An error ends the replacement of a packet.
LEMMA MuteFailsKeeps ==
  ASSUME IInv, MuteFails
  PROVE  IInv'
<1> USE DEF MuteFails, At, Muting, MuteNext, Fault
<1>b. /\ held' \in [Codecs -> Seq(1..MaxPackets)]
      /\ held'["asr"] = held["asr"]
  <2>1. CASE UNCHANGED held
    BY <2>1 DEF TypeOK
  <2>2. CASE \E c \in {"dec", "enc"} : Ready(c) /\ Draw(c)
    BY <2>2, DrawType DEF Codecs
  <2> QED BY <2>1, <2>2
<1>1. TypeOK'
  <2>1. faults' \in 0..MaxFaults
    BY DEF TypeOK
  <2>2. mute' \subseteq 1..n /\ work' \in {"idle", "send"}
    BY DEF TypeOK
  <2> QED BY <1>b, <2>1, <2>2 DEF TypeOK
<1>2. Stock'
  BY DEF Stock, Busy
<1>3. Turns'
  BY DEF Turns
<1>4. ToMute'
  BY DEF ToMute
<1>5. Clock'
  BY <1>b, ClockKept
<1>6. Ended'
  BY DEF Ended
<1> QED BY <1>1, <1>2, <1>3, <1>4, <1>5, <1>6

\* A session fails.
LEMMA SessionFailsKeeps ==
  ASSUME IInv, SessionFails
  PROVE  IInv'
<1> USE DEF SessionFails, At
<1>1. TypeOK'
  BY DEF TypeOK
<1>2. Stock'
  BY DEF Stock, Busy
<1>3. Turns'
  BY DEF Turns
<1>4. ToMute'
  BY DEF ToMute, Muting
<1>5. Clock'
  BY DEF Clock, Behind, Holds, Follows, ClockAhead
<1>6. Ended'
  BY DEF Ended
<1> QED BY <1>1, <1>2, <1>3, <1>4, <1>5, <1>6

\* A callback has started another one.
LEMMA RestartKeeps ==
  ASSUME IInv, Restart
  PROVE  IInv'
<1> USE DEF Restart, At
<1>1. TypeOK'
  BY DEF TypeOK
<1>2. Stock'
  BY DEF Stock, Busy
<1>3. Turns'
  BY DEF Turns
<1>4. ToMute'
  BY DEF ToMute, Muting
<1>5. Clock'
  BY DEF Clock, Behind, Holds, Follows, ClockAhead
<1>6. Ended'
  BY DEF Ended
<1> QED BY <1>1, <1>2, <1>3, <1>4, <1>5, <1>6

\* A session ends unseen.
LEMMA SessionGoneKeeps ==
  ASSUME IInv, SessionGone
  PROVE  IInv'
<1> USE DEF SessionGone, At
<1>1. TypeOK'
  BY DEF TypeOK
<1>2. Stock'
  BY DEF Stock, Busy
<1>3. Turns'
  BY DEF Turns
<1>4. ToMute'
  BY DEF ToMute
<1>5. Clock'
  BY DEF Clock, Behind, Holds, Follows, ClockAhead
<1>6. Ended'
  BY DEF Ended
<1> QED BY <1>1, <1>2, <1>3, <1>4, <1>5, <1>6

\* ~Relayer: the trailer.
LEMMA WriteTrailerKeeps ==
  ASSUME IInv, WriteTrailer
  PROVE  IInv'
<1> USE DEF WriteTrailer
<1>1. TypeOK'
  BY DEF TypeOK
<1>2. Stock'
  BY DEF Stock, Busy
<1>3. Turns'
  BY DEF Turns
<1>4. ToMute'
  BY DEF ToMute
<1>5. Clock'
  BY DEF Clock, Behind, Holds, Follows, ClockAhead
<1>6. Ended'
  BY DEF Ended
<1> QED BY <1>1, <1>2, <1>3, <1>4, <1>5, <1>6

\* ~Asr: releaseInstance.
LEMMA ReleaseInstanceKeeps ==
  ASSUME IInv, ReleaseInstance
  PROVE  IInv'
<1> USE DEF ReleaseInstance
<1>1. TypeOK'
  BY DEF TypeOK
<1>2. Stock'
  BY DEF Stock, Busy
<1>3. Turns'
  BY DEF Turns
<1>4. ToMute'
  BY DEF ToMute
<1>5. Clock'
  BY DEF Clock, Behind, Holds, Follows, ClockAhead
<1>6. Ended'
  BY DEF Ended
<1> QED BY <1>1, <1>2, <1>3, <1>4, <1>5, <1>6

\* ~WorkThread: a turn of its loop.
LEMMA DestroyThreadKeeps ==
  ASSUME IInv, DestroyThread
  PROVE  IInv'
<1> USE DEF DestroyThread, Listed
<1>1. TypeOK'
  <2>1. tries \in -1..TryCount /\ tries >= 0
    BY DEF TypeOK, Turns
  <2>2. tries' \in -1..TryCount
    BY <2>1
  <2> QED BY <2>2 DEF TypeOK
<1>2. Stock'
  BY DEF Stock, Busy
<1>3. Turns'
  BY DEF TypeOK, Turns
<1>4. ToMute'
  BY DEF ToMute
<1>5. Clock'
  BY DEF Clock, Behind, Holds, Follows, ClockAhead
<1>6. Ended'
  BY DEF Ended
<1> QED BY <1>1, <1>2, <1>3, <1>4, <1>5, <1>6

\* ~WorkThread: the list is emptied by force.
LEMMA ForceDestroyKeeps ==
  ASSUME IInv, ForceDestroy
  PROVE  IInv'
<1> USE DEF ForceDestroy, Listed
<1>1. TypeOK'
  BY DEF TypeOK
<1>2. Stock'
  BY DEF Stock, Busy
<1>3. Turns'
  BY DEF Turns
<1>4. ToMute'
  BY DEF ToMute
<1>5. Clock'
  BY DEF Clock, Behind, Holds, Follows, ClockAhead
<1>6. Ended'
  BY DEF Ended
<1> QED BY <1>1, <1>2, <1>3, <1>4, <1>5, <1>6

\* ~WorkThread: the thread has ended.
LEMMA JoinThreadKeeps ==
  ASSUME IInv, JoinThread
  PROVE  IInv'
<1> USE DEF JoinThread
<1>1. TypeOK'
  BY DEF TypeOK
<1>2. Stock'
  BY DEF Stock, Busy
<1>3. Turns'
  BY DEF Turns
<1>4. ToMute'
  BY DEF ToMute, Muting
<1>5. Clock'
  BY DEF Clock, Behind, Holds, Follows, ClockAhead
<1>6. Ended'
  BY DEF Ended
<1> QED BY <1>1, <1>2, <1>3, <1>4, <1>5, <1>6

\* ~Asr: the request and the members.
LEMMA DeleteRequestKeeps ==
  ASSUME IInv, DeleteRequest
  PROVE  IInv'
<1> USE DEF DeleteRequest
<1>1. TypeOK'
  BY DEF TypeOK
<1>2. Stock'
  BY DEF Stock, Busy
<1>3. Turns'
  BY DEF Turns
<1>4. ToMute'
  BY DEF ToMute
<1>5. Clock'
  BY DEF Clock, Behind, Holds, Follows, ClockAhead
<1>6. Ended'
  BY DEF Ended
<1> QED BY <1>1, <1>2, <1>3, <1>4, <1>5, <1>6

\* Every step keeps the invariant.
LEMMA StepKeeps == IInv /\ [Next]_vars => IInv'
<1> SUFFICES ASSUME IInv, [Next]_vars PROVE IInv'
  OBVIOUS
<1>1. CASE UNCHANGED vars
  BY <1>1 DEF vars, codecVars, inputVars, bufferVars, muteVars, endVars, IInv,
              TypeOK, Stock, Busy, Turns, ToMute, Clock, Behind, Holds, Follows,
              ClockAhead, Ended
<1>2. CASE Main
  BY <1>2, RelayerInitKeeps, ReadFrameKeeps, SendPacketKeeps, ReceiveAgainKeeps,
     ReceiveFrameKeeps, PushAudioFrameKeeps, WriteTrailerKeeps,
     ReleaseInstanceKeeps, DestroyThreadKeeps, ForceDestroyKeeps,
     JoinThreadKeeps, DeleteRequestKeeps DEF Main, Reading, Ending
<1>3. CASE Callbacks
  BY <1>3, SentenceEndKeeps, MuteSendsKeeps, MuteAgainKeeps, MuteReceivesKeeps,
     MuteFailsKeeps, SessionFailsKeeps, RestartKeeps, SessionGoneKeeps,
     LaunchKeeps DEF Callbacks
<1> QED BY <1>1, <1>2, <1>3 DEF Next

\* The invariant holds throughout.
LEMMA Invariance == Spec => []IInv
<1>1. Init => IInv
  <2> SUFFICES ASSUME Init PROVE IInv
    OBVIOUS
  <2>1. main \in {"init", "exit"}
    BY DEF Init
  <2>2. /\ heard = <<>> /\ list = <<>> /\ held \in [Codecs -> Seq(1..MaxPackets)]
        /\ held["asr"] = <<>>
    BY DEF Init, Codecs
  <2>3. TypeOK
    BY <2>1, <2>2 DEF Init, TypeOK
  <2>4. Stock /\ Turns /\ ToMute /\ Ended
    BY <2>1 DEF Init, Stock, Busy, Turns, ToMute, Muting, Ended
  <2>5. Clock
    BY <2>1, <2>2 DEF Init, Clock, Behind, Holds, Follows, ClockAhead
  <2> QED BY <2>3, <2>4, <2>5 DEF IInv
<1> QED BY <1>1, StepKeeps, PTL DEF Spec

\* The types of the state: the count of ~WorkThread's loop is one below zero at
\* the least, and no more packets leave the buffer than were read.
THEOREM TypeCorrect == Spec => []TypeOK
<1>1. IInv => TypeOK
  BY DEF IInv
<1> QED BY <1>1, Invariance, PTL

\* Whatever the decoder holds back, refuses or loses, and however often
\* Asr::sendAudio gives it a packet again, the recogniser's clock is ahead of the
\* sound by no more packets than the decoder holds.
THEOREM ClockStays == Spec => []ClockAhead
<1>1. IInv => ClockAhead
  BY DEF IInv, Clock
<1> QED BY <1>1, Invariance, PTL

\* No callback is under way when the members of Asr and Relayer are freed:
\* releaseInstance in ~Asr has waited for the work thread.
THEOREM CallbacksOver == Spec => []NoUseAfterEnd
<1>1. IInv => NoUseAfterEnd
  BY DEF IInv, Ended, NoUseAfterEnd
<1> QED BY <1>1, Invariance, PTL
==============================================================================
