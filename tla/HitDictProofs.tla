--------------------------- MODULE HitDictProofs ---------------------------
(***************************************************************************)
(* Proofs about HitDict, for every dictionary and every recognised         *)
(* sentence that HitDictAssumption allows.                                 *)
(***************************************************************************)
EXTENDS HitDict, TLAPS

N == Len(removeSpaces(result.text))

\* What the loops rely on and never change: the word list cuts the sentence,
\* which is what is searched.
Ready ==
  /\ removeSpaces(result.text) \in Text
  /\ Tiles(result.words, N)
  /\ \A i \in DOMAIN lines : lines[i] # <<>>
  /\ \A w \in m_data_map : w # <<>>
  /\ pc = "load" => (out = <<>> /\ hits = <<>> /\ pos = 0 /\ end_pos = 0)
  /\ pc # "load" => tmp = removeSpaces(result.text)
  /\ pc \in {"find", "walk"} => bword \in m_data_map \ todo
  /\ pc = "done" => todo = {}

\* The innermost loop, about to look at item.
Walk ==
  pc = "walk" =>
    /\ pos \in Places(bword, tmp)
    /\ end_pos = pos + Len(bword)
    /\ item = 1 => cnt = 0
    /\ item > 1 => /\ cnt = result.words[item - 1].to
                   /\ prev_end = result.words[item - 1].endTime
                   /\ result.words[item - 1].from < end_pos
    /\ \A j \in DOMAIN result.words :
         (j < item /\ result.words[j].from <= pos /\ pos < result.words[j].to)
           => start = result.words[j].startTime

\* How far the search has come: what it has passed is reported.
Passed(w, p) ==
  \/ Touched(w, p)
  \/ w = bword /\ pc = "find" /\ end_pos <= p
  \/ w = bword /\ pc = "walk" /\ pos <= p

Search ==
  pc # "load" =>
    \A w \in m_data_map \ todo : \A p \in Places(w, tmp) : Passed(w, p)

IInv == TypeOK /\ Ready /\ SegmentsExact /\ Walk /\ Search

-----------------------------------------------------------------------------
(* The word list. *)

\* Every word lies inside the sentence.
LEMMA ItemInside ==
  ASSUME NEW ws, NEW n \in Nat, Tiles(ws, n), NEW i \in DOMAIN ws
  PROVE  /\ ws \in Seq(Item)
         /\ i \in 1..Len(ws)
         /\ ws[i] \in Item
         /\ ws[i].from < ws[i].to
         /\ ws[i].to <= n
<1>1. ws \in Seq(Item) /\ i \in 1..Len(ws) /\ Len(ws) \in Nat
  BY DEF Tiles
<1>2. ws[i] \in Item /\ ws[Len(ws)] \in Item /\ Len(ws) \in DOMAIN ws
  BY <1>1
<1>3. ws[i].from < ws[i].to
  BY DEF Tiles
<1>4. ws[Len(ws)].to = n /\ ws[Len(ws)].from < ws[Len(ws)].to
  BY <1>2 DEF Tiles
<1>5. i < Len(ws) => ws[i].to <= ws[Len(ws)].from
  BY <1>2 DEF Tiles
<1> QED
  BY <1>1, <1>2, <1>3, <1>4, <1>5 DEF Item

\* The sentence and the places in it.
LEMMA Places0 ==
  ASSUME TypeOK, Ready
  PROVE  /\ N \in Nat
         /\ Len(tmp) \in Nat
         /\ Len(bword) \in Nat
         /\ pos \in Nat
         /\ end_pos \in Nat
         /\ pos <= end_pos
         /\ end_pos <= Len(tmp)
         /\ result.words \in Seq(Item)
         /\ Len(result.words) \in Nat
         /\ item \in 1..(Len(result.words) + 1)
         /\ cnt \in Nat
<1>1. removeSpaces(result.text) \in Seq(Bytes)
  BY DEF Ready, Text
<1>2. N \in Nat
  BY <1>1 DEF N
<1>3. tmp \in Seq(Bytes) /\ bword \in Seq(Bytes)
  BY DEF TypeOK, Text
<1>4. end_pos \in 0..Len(tmp) /\ pos \in 0..end_pos
  BY DEF TypeOK
<1>5. Len(tmp) \in Nat /\ Len(bword) \in Nat
  BY <1>3
<1>6. result.words \in Seq(Item)
  BY DEF Ready, Tiles
<1>7. item \in 1..(Len(result.words) + 1)
  BY DEF TypeOK
<1>8. cnt \in Nat
  <2>1. cnt \in 0..N
    BY DEF TypeOK, N
  <2> QED
    BY <1>2, <2>1
<1> QED
  BY <1>2, <1>4, <1>5, <1>6, <1>7, <1>8

\* At the head of the innermost loop cnt is where the word at hand begins.
LEMMA CntIsFrom ==
  ASSUME TypeOK, Ready, Walk, pc = "walk", item \in DOMAIN result.words
  PROVE  cnt = result.words[item].from
<1>1. Tiles(result.words, N) /\ item \in 1..Len(result.words)
  BY DEF Ready, TypeOK
<1>2. CASE item = 1
  BY <1>1, <1>2 DEF Walk, Tiles
<1>3. CASE item > 1
  <2>1. item - 1 \in DOMAIN result.words /\ item - 1 < Len(result.words)
    BY <1>1, <1>3
  <2>2. result.words[item - 1].to = result.words[(item - 1) + 1].from
    BY <1>1, <2>1 DEF Tiles
  <2> QED
    BY <1>1, <1>3, <2>2 DEF Walk
<1> QED
  BY <1>1, <1>2, <1>3

\* The segment that the walk ends with is the one to report.
LEMMA WalkFinds ==
  ASSUME TypeOK, Ready, Walk, WalkEnd
  PROVE  SpokenAt([start |-> start, end |-> prev_end, text |-> bword],
                  bword, pos)
<1> DEFINE seg == [start |-> start, end |-> prev_end, text |-> bword]
           ws == result.words
<1>1. /\ pc = "walk"
      /\ item \in DOMAIN ws => (cnt > pos /\ cnt >= end_pos)
  BY Places0 DEF WalkEnd, BeforeHit
<1>2. /\ Tiles(ws, N) /\ N \in Nat /\ ws \in Seq(Item)
      /\ item \in 1..(Len(ws) + 1)
      /\ pos \in Nat /\ end_pos \in Nat
  BY Places0 DEF Ready
<1>3. end_pos = pos + Len(bword)
  BY <1>1 DEF Walk
<1>4. seg.start = start /\ seg.end = prev_end
  OBVIOUS
<1>5. SUFFICES ASSUME NEW i \in DOMAIN ws
               PROVE  /\ (ws[i].from <= pos /\ pos < ws[i].to)
                           => start = ws[i].startTime
                      /\ (ws[i].from < end_pos /\ end_pos <= ws[i].to)
                           => prev_end = ws[i].endTime
  BY <1>3, <1>4, <1>5 DEF SpokenAt
<1>6. ws[i].from \in Nat /\ ws[i].to \in Nat /\ i \in 1..Len(ws)
  BY <1>2, ItemInside DEF Item
<1>7. CASE i < item
  <2>1. (ws[i].from <= pos /\ pos < ws[i].to) => start = ws[i].startTime
    BY <1>1, <1>7 DEF Walk
  <2>2. ASSUME i = item - 1 PROVE prev_end = ws[i].endTime
    BY <1>1, <1>2, <1>6, <1>7, <2>2 DEF Walk
  <2>3. ASSUME i < item - 1 PROVE ws[i].to < end_pos
    <3>1. item - 1 \in DOMAIN ws
      BY <1>2, <1>6, <2>3
    <3>2. ws[i].to <= ws[item - 1].from
      BY <1>2, <2>3, <3>1 DEF Tiles
    <3>3. item > 1
      BY <1>2, <1>6, <2>3
    <3>4. ws[item - 1].from < end_pos
      BY <1>1, <3>3 DEF Walk
    <3>5. ws[item - 1].from \in Nat
      BY <1>2, <3>1, ItemInside DEF Item
    <3> QED
      BY <1>2, <1>6, <3>2, <3>4, <3>5
  <2> QED
    BY <1>2, <1>6, <1>7, <2>1, <2>2, <2>3
<1>8. CASE i >= item
  <2>1. item \in DOMAIN ws
    BY <1>2, <1>6, <1>8
  <2>2. cnt = ws[item].from /\ cnt > pos /\ cnt >= end_pos
    BY <1>1, <2>1, CntIsFrom
  <2>3. ws[item].from \in Nat /\ ws[item].to \in Nat
        /\ ws[item].from < ws[item].to
    BY <1>2, <2>1, ItemInside DEF Item
  <2>4. i > item => ws[item].to <= ws[i].from
    BY <1>2, <2>1 DEF Tiles
  <2>5. ws[i].from >= ws[item].from
    BY <1>2, <1>6, <1>8, <2>3, <2>4
  <2> QED
    BY <1>2, <1>6, <2>2, <2>3, <2>5
<1> QED
  BY <1>2, <1>6, <1>7, <1>8

-----------------------------------------------------------------------------
(* The invariant holds at the start and in every step. *)

LEMMA InitInv == Init => IInv
<1> SUFFICES ASSUME Init PROVE IInv
  OBVIOUS
<1> USE HitDictAssumption
<1>1. /\ result \in Results /\ lines \in DictFiles
      /\ removeSpaces(result.text) \in Text
      /\ Tiles(result.words, N)
      /\ result \in [text : Text, words : Seq(Item)]
  BY DEF Init, N, HitDictAssumption
<1>2. lines \in Seq(Text) /\ \A i \in DOMAIN lines : lines[i] # <<>>
  BY <1>1 DEF HitDictAssumption
<1>3. Len(removeSpaces(result.text)) \in Nat /\ Len(result.words) \in Nat
  BY <1>1 DEF Text
<1>4. TypeOK
  <2>1. <<>> \in Text /\ Len(tmp) = 0
    BY DEF Init, Text
  <2>2. item \in 1..(Len(result.words) + 1)
    BY <1>3 DEF Init
  <2>3. cnt \in 0..Len(removeSpaces(result.text)) /\ pos \in 0..end_pos
        /\ end_pos \in 0..Len(tmp)
    BY <1>3, <2>1 DEF Init
  <2> QED
    BY <1>1, <1>2, <2>1, <2>2, <2>3 DEF Init, TypeOK, PcValues
<1>5. Ready
  BY <1>1, <1>2 DEF Init, Ready
<1>6. SegmentsExact /\ Walk /\ Search
  BY DEF Init, SegmentsExact, Walk, Search
<1> QED
  BY <1>4, <1>5, <1>6 DEF IInv

\* What one step of the innermost loop makes of cnt.
LEMMA CntStep ==
  ASSUME TypeOK, Ready, Walk, pc = "walk", item \in DOMAIN result.words
  PROVE  /\ cnt + result.words[item].to - result.words[item].from
              = result.words[item].to
         /\ result.words[item].to \in 0..N
         /\ result.words[item].startTime \in Nat
         /\ result.words[item].endTime \in Nat
         /\ item + 1 \in 1..(Len(result.words) + 1)
<1>1. cnt = result.words[item].from
  BY CntIsFrom
<1>2. Tiles(result.words, N) /\ N \in Nat
  BY Places0 DEF Ready
<1>3. result.words[item] \in Item /\ result.words[item].to <= N
      /\ item \in 1..Len(result.words)
  BY <1>2, ItemInside
<1>4. /\ result.words[item].from \in Nat
      /\ result.words[item].to \in Nat
      /\ result.words[item].startTime \in Nat
      /\ result.words[item].endTime \in Nat
  BY <1>3 DEF Item
<1>5. Len(result.words) \in Nat
  BY Places0
<1>6. result.words[item].to \in 0..N
  BY <1>2, <1>3, <1>4
<1>7. item + 1 \in 1..(Len(result.words) + 1)
  BY <1>3, <1>5
<1>8. cnt + result.words[item].to - result.words[item].from
        = result.words[item].to
  BY <1>1, <1>4
<1> QED
  BY <1>4, <1>6, <1>7, <1>8

\* Where FindHit finds the word.
LEMMA HitPlace ==
  ASSUME TypeOK, Ready, FindHit
  PROVE  /\ pos' \in Places(bword, tmp)
         /\ pos' \in Nat
         /\ end_pos <= pos'
         /\ end_pos' = pos' + Len(bword)
         /\ end_pos' <= Len(tmp)
         /\ \A q \in Places(bword, tmp) : end_pos <= q => pos' <= q
<1>1. PICK p \in Places(bword, tmp) :
        /\ p >= end_pos
        /\ \A q \in Places(bword, tmp) : q >= end_pos => p <= q
        /\ pos' = p
        /\ end_pos' = p + Len(bword)
  BY DEF FindHit
<1>2. p \in 0..(Len(tmp) - Len(bword))
  BY DEF Places
<1>3. \A q \in Places(bword, tmp) : q \in Int
  BY Places0 DEF Places
<1> QED
  BY <1>1, <1>2, <1>3, Places0

LEMMA TypeStep == IInv /\ Next => TypeOK'
<1> SUFFICES ASSUME IInv, Next PROVE TypeOK'
  OBVIOUS
<1> USE DEF IInv
<1>0. TypeOK /\ Ready /\ Walk
  OBVIOUS
<1>1. CASE LoadLine
  <2>1. Head(lines) \in Text /\ Tail(lines) \in Seq(Text)
    BY <1>0, <1>1 DEF TypeOK, LoadLine
  <2> QED
    BY <1>0, <1>1, <2>1 DEF TypeOK, LoadLine, outerVars, walkVars, PcValues
<1>2. CASE hitDict
  <2>1. tmp' \in Text /\ Len(tmp') \in Nat
    BY <1>0, <1>2 DEF Ready, hitDict, Text
  <2>2. pos' = 0 /\ end_pos' = 0
    BY <1>0, <1>2 DEF Ready, hitDict
  <2>3. pos' \in 0..end_pos' /\ end_pos' \in 0..Len(tmp')
    BY <2>1, <2>2
  <2> QED
    BY <1>0, <1>2, <2>1, <2>3 DEF TypeOK, hitDict, walkVars, PcValues
<1>3. CASE NextWord
  <2>1. pos' \in 0..end_pos' /\ end_pos' \in 0..Len(tmp')
    BY <1>0, <1>3, Places0 DEF NextWord, outerVars
  <2> QED
    BY <1>0, <1>3, <2>1 DEF TypeOK, NextWord, outerVars, walkVars, PcValues
<1>4. CASE Return
  BY <1>0, <1>4 DEF TypeOK, Return, outerVars, walkVars, PcValues
<1>5. CASE FindHit
  <2>1. pos' \in 0..end_pos' /\ end_pos' \in 0..Len(tmp')
    BY <1>0, <1>5, HitPlace, Places0 DEF FindHit, outerVars
  <2>2. item' \in 1..(Len(result.words') + 1)
    BY <1>0, <1>5, Places0 DEF FindHit, outerVars
  <2>3. cnt' \in 0..Len(removeSpaces(result.text'))
    BY <1>0, <1>5, Places0 DEF FindHit, outerVars, N
  <2> QED
    BY <1>0, <1>5, <2>1, <2>2, <2>3 DEF TypeOK, FindHit, outerVars, PcValues
<1>6. CASE FindMiss
  BY <1>0, <1>6 DEF TypeOK, FindMiss, outerVars, walkVars, PcValues
<1>7. CASE WalkBefore
  BY <1>0, <1>7, CntStep DEF TypeOK, WalkBefore, outerVars, PcValues, N
<1>8. CASE WalkInside
  BY <1>0, <1>8, CntStep DEF TypeOK, WalkInside, outerVars, PcValues, N
<1>9. CASE WalkEnd
  <2>1. [start |-> start, end |-> prev_end, text |-> bword] \in AudioSegement
    BY <1>0 DEF TypeOK, AudioSegement
  <2>2. out' \in Seq(AudioSegement) /\ hits' \in Seq(Nat)
    BY <1>0, <1>9, <2>1, Places0 DEF TypeOK, WalkEnd
  <2> QED
    BY <1>0, <1>9, <2>2 DEF TypeOK, WalkEnd, outerVars, walkVars, PcValues
<1> QED
  BY <1>1, <1>2, <1>3, <1>4, <1>5, <1>6, <1>7, <1>8, <1>9 DEF Next

LEMMA ReadyStep == IInv /\ Next => Ready'
<1> SUFFICES ASSUME IInv, Next PROVE Ready'
  OBVIOUS
<1>0. TypeOK /\ Ready
  BY DEF IInv
<1>1. result' = result /\ N' = N
  BY DEF Next, LoadLine, hitDict, NextWord, Return, FindHit, FindMiss,
         WalkBefore, WalkInside, WalkEnd, outerVars, N
<1>2. removeSpaces(result.text)' \in Text /\ Tiles(result.words, N)'
  BY <1>0, <1>1 DEF Ready
<1>3. /\ \A i \in DOMAIN lines' : lines'[i] # <<>>
      /\ \A w \in m_data_map' : w # <<>>
  <2>1. CASE LoadLine
    <3>1. lines \in Seq(Text) /\ lines # <<>>
      BY <1>0, <2>1 DEF TypeOK, LoadLine
    <3>2. Head(lines) # <<>>
      BY <1>0, <3>1 DEF Ready
    <3>3. \A i \in DOMAIN Tail(lines) :
            i + 1 \in DOMAIN lines /\ Tail(lines)[i] = lines[i + 1]
      BY <3>1
    <3> QED
      BY <1>0, <2>1, <3>2, <3>3 DEF Ready, LoadLine
  <2>2. CASE ~LoadLine
    BY <1>0, <2>2 DEF Ready, Next, hitDict, NextWord, Return, FindHit,
                      FindMiss, WalkBefore, WalkInside, WalkEnd, outerVars
  <2> QED
    BY <2>1, <2>2
<1>4. /\ (pc = "load" => (out = <<>> /\ hits = <<>> /\ pos = 0
                          /\ end_pos = 0))'
      /\ (pc # "load" => tmp = removeSpaces(result.text))'
      /\ (pc \in {"find", "walk"} => bword \in m_data_map \ todo)'
      /\ (pc = "done" => todo = {})'
  BY <1>0 DEF Ready, TypeOK, Next, LoadLine, hitDict, NextWord, Return,
              FindHit, FindMiss, WalkBefore, WalkInside, WalkEnd, outerVars,
              walkVars
<1> QED
  BY <1>2, <1>3, <1>4 DEF Ready

LEMMA SegmentsStep == IInv /\ Next => SegmentsExact'
<1> SUFFICES ASSUME IInv, Next PROVE SegmentsExact'
  OBVIOUS
<1>0. TypeOK /\ Ready /\ Walk /\ SegmentsExact
  BY DEF IInv
<1>1. CASE LoadLine
  <2>1. out' = <<>> /\ hits' = <<>>
    BY <1>0, <1>1 DEF Ready, LoadLine
  <2> QED
    BY <2>1 DEF SegmentsExact
<1>2. CASE WalkEnd
  <2> DEFINE seg == [start |-> start, end |-> prev_end, text |-> bword]
  <2>1. /\ out' = Append(out, seg)
        /\ hits' = Append(hits, pos)
        /\ out \in Seq(AudioSegement)
        /\ hits \in Seq(Nat)
        /\ result' = result /\ m_data_map' = m_data_map
        /\ Len(hits) = Len(out)
    BY <1>0, <1>2 DEF WalkEnd, TypeOK, outerVars, SegmentsExact
  <2>2. bword \in m_data_map /\ pos \in Places(bword, tmp)
        /\ tmp = removeSpaces(result.text)
    BY <1>0, <1>2 DEF Ready, Walk, WalkEnd
  <2>3. SpokenAt(seg, bword, pos)
    BY <1>0, <1>2, WalkFinds
  <2>4. Len(hits') = Len(out')
    BY <2>1
  <2>5. SUFFICES ASSUME NEW k \in DOMAIN out'
                 PROVE  /\ out'[k].text \in m_data_map
                        /\ hits'[k] \in Places(out'[k].text,
                                               removeSpaces(result.text))
                        /\ SpokenAt(out'[k], out'[k].text, hits'[k])
    BY <2>1, <2>4 DEF SegmentsExact, SpokenAt
  <2>6. CASE k = Len(out) + 1
    <3>1. out'[k] = seg /\ hits'[k] = pos /\ seg.text = bword
      BY <2>1, <2>6
    <3> HIDE DEF seg
    <3> QED
      BY <2>2, <2>3, <3>1
  <2>7. CASE k # Len(out) + 1
    <3>1. k \in DOMAIN out /\ out'[k] = out[k] /\ hits'[k] = hits[k]
      BY <2>1, <2>7
    <3> QED
      BY <1>0, <3>1 DEF SegmentsExact
  <2> QED
    BY <2>6, <2>7
<1>3. CASE UNCHANGED <<out, hits, result, m_data_map>>
  BY <1>0, <1>3 DEF SegmentsExact, SpokenAt
<1> QED
  BY <1>1, <1>2, <1>3 DEF Next, hitDict, NextWord, Return, FindHit, FindMiss,
                          WalkBefore, WalkInside, outerVars

LEMMA WalkStep == IInv /\ Next => Walk'
<1> SUFFICES ASSUME IInv, Next, pc' = "walk" PROVE Walk'
  BY DEF Walk
<1>0. TypeOK /\ Ready /\ Walk
  BY DEF IInv
<1> DEFINE ws == result.words
<1>1. /\ Tiles(ws, N) /\ N \in Nat /\ ws \in Seq(Item)
      /\ pos \in Nat /\ end_pos \in Nat /\ Len(bword) \in Nat
      /\ item \in 1..(Len(ws) + 1) /\ Len(ws) \in Nat
  BY <1>0, Places0 DEF Ready
<1>2. \A j \in DOMAIN ws : /\ ws[j] \in Item /\ j \in 1..Len(ws)
                           /\ ws[j].from \in Nat /\ ws[j].to \in Nat
                           /\ ws[j].from < ws[j].to
  BY <1>1, ItemInside DEF Item
<1>3. CASE FindHit
  <2>1. /\ item' = 1 /\ cnt' = 0 /\ result' = result /\ bword' = bword
        /\ tmp' = tmp
    BY <1>3 DEF FindHit, outerVars
  <2>2. pos' \in Places(bword, tmp) /\ end_pos' = pos' + Len(bword)
    BY <1>0, <1>3, HitPlace
  <2>3. \A j \in DOMAIN ws : ~(j < item')
    BY <1>2, <2>1
  <2> QED
    BY <2>1, <2>2, <2>3 DEF Walk
<1>4. ASSUME pc = "walk", item \in DOMAIN ws,
             cnt' = cnt + ws[item].to - ws[item].from,
             prev_end' = ws[item].endTime,
             item' = item + 1,
             ws[item].from < end_pos,
             \A j \in DOMAIN ws :
               (j <= item /\ ws[j].from <= pos /\ pos < ws[j].to)
                 => start' = ws[j].startTime,
             UNCHANGED <<result, tmp, bword, pos, end_pos>>
      PROVE  Walk'
  <2>1. cnt' = ws[item].to
    BY <1>0, <1>4, CntStep
  <2>2. (item + 1) - 1 = item /\ item + 1 # 1 /\ item + 1 > 1
        /\ \A j \in DOMAIN ws : j < item + 1 => j <= item
    BY <1>1, <1>2
  <2>3. \A j \in DOMAIN ws :
          (j < item' /\ ws[j].from <= pos /\ pos < ws[j].to)
             => start' = ws[j].startTime
    BY <1>4, <2>2
  <2>4. pos \in Places(bword, tmp) /\ end_pos = pos + Len(bword)
    BY <1>0, <1>4 DEF Walk
  <2> QED
    BY <1>4, <2>1, <2>2, <2>3, <2>4 DEF Walk
<1>5. CASE WalkBefore
  <2>1. item \in DOMAIN ws /\ pc = "walk" /\ cnt <= pos
        /\ start' = ws[item].startTime
    BY <1>5 DEF WalkBefore, BeforeHit
  <2>2. cnt = ws[item].from
    BY <1>0, <2>1, CntIsFrom
  <2>3. pos < end_pos
    <3>1. end_pos = pos + Len(bword) /\ bword # <<>> /\ bword \in Seq(Bytes)
      BY <1>0, <2>1 DEF Walk, Ready, TypeOK, Text
    <3> QED
      BY <1>1, <3>1
  <2>4. ws[item].from < end_pos
    BY <1>1, <1>2, <2>1, <2>2, <2>3
  <2>5. ASSUME NEW j \in DOMAIN ws, j < item PROVE ws[j].to <= pos
    <3>1. ws[j].to <= ws[item].from
      BY <1>1, <2>1, <2>5 DEF Tiles
    <3> QED
      BY <1>1, <1>2, <2>1, <2>2, <3>1
  <2>6. \A j \in DOMAIN ws :
          (j <= item /\ ws[j].from <= pos /\ pos < ws[j].to)
             => start' = ws[j].startTime
    BY <1>1, <1>2, <2>1, <2>5
  <2> QED
    BY <1>4, <1>5, <2>1, <2>4, <2>6 DEF WalkBefore, outerVars
<1>6. CASE WalkInside
  <2>1. item \in DOMAIN ws /\ pc = "walk" /\ cnt > pos /\ cnt < end_pos
        /\ start' = start
    BY <1>0, <1>6, Places0 DEF WalkInside, BeforeHit
  <2>2. cnt = ws[item].from
    BY <1>0, <2>1, CntIsFrom
  <2>3. \A j \in DOMAIN ws :
          (j < item /\ ws[j].from <= pos /\ pos < ws[j].to)
             => start = ws[j].startTime
    BY <1>0, <2>1 DEF Walk
  <2>4. \A j \in DOMAIN ws :
          (j <= item /\ ws[j].from <= pos /\ pos < ws[j].to)
             => start' = ws[j].startTime
    BY <1>1, <1>2, <2>1, <2>2, <2>3
  <2> QED
    BY <1>4, <1>6, <2>1, <2>2, <2>4 DEF WalkInside, outerVars
<1> QED
  BY <1>3, <1>5, <1>6 DEF Next, LoadLine, hitDict, NextWord, Return, FindMiss,
                          WalkEnd

\* A segment once reported stays reported.
LEMMA TouchedStays ==
  ASSUME IInv, Next, pc # "load", NEW w, NEW p, Touched(w, p)
  PROVE  Touched(w, p)'
<1>1. PICK k \in DOMAIN out : /\ out[k].text = w
                              /\ hits[k] < p + Len(w)
                              /\ p < hits[k] + Len(w)
  BY DEF Touched
<1>2. /\ out \in Seq(AudioSegement) /\ hits \in Seq(Nat)
      /\ Len(hits) = Len(out)
  BY DEF IInv, TypeOK, SegmentsExact
<1>3. k \in DOMAIN out' /\ out'[k] = out[k] /\ hits'[k] = hits[k]
  <2>1. CASE WalkEnd
    BY <1>1, <1>2, <2>1 DEF WalkEnd
  <2>2. CASE ~WalkEnd
    BY <1>1, <2>2 DEF Next, LoadLine, hitDict, NextWord, Return, FindHit,
                      FindMiss, WalkBefore, WalkInside
  <2> QED
    BY <2>1, <2>2
<1>4. \E n \in DOMAIN out' : /\ out'[n].text = w
                             /\ hits'[n] < p + Len(w)
                             /\ p < hits'[n] + Len(w)
  BY <1>1, <1>3
<1> QED
  BY <1>4 DEF Touched

LEMMA SearchStep == IInv /\ Next => Search'
<1> SUFFICES ASSUME IInv, Next, pc' # "load",
                    NEW w \in m_data_map' \ todo', NEW p \in Places(w, tmp')
             PROVE  Passed(w, p)'
  BY DEF Search
<1>0. TypeOK /\ Ready /\ Walk /\ SegmentsExact /\ Search
  BY DEF IInv
<1>1. CASE hitDict
  BY <1>1 DEF hitDict
<1>2. ASSUME pc # "load", tmp' = tmp, w \in m_data_map \ todo
      PROVE  /\ Passed(w, p)
             /\ p \in Places(w, tmp)
             /\ Touched(w, p) => Passed(w, p)'
  BY <1>0, <1>2, TouchedStays DEF Search, Passed
<1>3. CASE NextWord
  <2>1. pc = "dict" /\ tmp' = tmp /\ m_data_map' = m_data_map
        /\ bword' \in todo /\ todo' = todo \ {bword'} /\ end_pos' = 0
        /\ pc' = "find"
    BY <1>3 DEF NextWord, outerVars
  <2>2. CASE w = bword'
    <3>1. 0 <= p
      BY DEF Places
    <3> QED
      BY <2>1, <2>2, <3>1 DEF Passed
  <2>3. CASE w # bword'
    BY <1>2, <2>1, <2>3 DEF Passed
  <2> QED
    BY <2>2, <2>3
<1>4. CASE Return
  BY <1>2, <1>4 DEF Return, Passed, outerVars
<1>5. CASE FindHit
  <2>1. pc = "find" /\ tmp' = tmp /\ m_data_map' = m_data_map
        /\ bword' = bword /\ todo' = todo /\ pc' = "walk"
    BY <1>5 DEF FindHit, outerVars
  <2>2. w = bword /\ end_pos <= p => pos' <= p
    BY <1>0, <1>2, <1>5, <2>1, HitPlace
  <2> QED
    BY <1>2, <2>1, <2>2 DEF Passed
<1>6. CASE FindMiss
  <2>1. pc = "find" /\ tmp' = tmp /\ m_data_map' = m_data_map
        /\ todo' = todo
        /\ \A q \in Places(bword, tmp) : q < end_pos
    BY <1>6 DEF FindMiss, outerVars
  <2>2. w = bword => ~(end_pos <= p)
    <3>1. p \in Int
      BY <1>0, <1>2, <2>1, Places0 DEF Places
    <3> QED
      BY <1>0, <1>2, <2>1, <3>1, Places0
  <2> QED
    BY <1>2, <2>1, <2>2 DEF Passed
<1>7. CASE WalkBefore \/ WalkInside
  BY <1>2, <1>7 DEF WalkBefore, WalkInside, Passed, outerVars
<1>8. CASE WalkEnd
  <2> DEFINE seg == [start |-> start, end |-> prev_end, text |-> bword]
  <2>1. /\ pc = "walk" /\ tmp' = tmp /\ m_data_map' = m_data_map
        /\ todo' = todo /\ bword' = bword /\ pc' = "find"
        /\ end_pos' = end_pos
        /\ out' = Append(out, seg) /\ hits' = Append(hits, pos)
    BY <1>8 DEF WalkEnd, outerVars
  <2>2. /\ out \in Seq(AudioSegement) /\ hits \in Seq(Nat)
        /\ Len(hits) = Len(out)
        /\ end_pos = pos + Len(bword)
    BY <1>0, <2>1 DEF TypeOK, SegmentsExact, Walk
  <2>3. p \in Nat /\ pos \in Nat /\ Len(bword) \in Nat /\ end_pos \in Nat
    <3>1. p \in Int /\ p >= 0
      BY DEF Places
    <3> QED
      BY <1>0, <3>1, Places0
  <2>4. ASSUME w = bword, pos <= p, p < end_pos PROVE Touched(w, p)'
    <3>1. Len(out) + 1 \in DOMAIN out'
          /\ out'[Len(out) + 1] = seg /\ hits'[Len(out) + 1] = pos
          /\ seg.text = bword
      BY <2>1, <2>2
    <3>2. pos < p + Len(w) /\ p < pos + Len(w)
      BY <2>2, <2>3, <2>4
    <3> HIDE DEF seg
    <3>3. \E n \in DOMAIN out' : /\ out'[n].text = w
                                 /\ hits'[n] < p + Len(w)
                                 /\ p < hits'[n] + Len(w)
      BY <2>4, <3>1, <3>2
    <3> QED
      BY <3>3 DEF Touched
  <2>5. CASE w = bword /\ pos <= p
    BY <2>1, <2>3, <2>4, <2>5 DEF Passed
  <2>6. CASE ~(w = bword /\ pos <= p)
    BY <1>2, <2>1, <2>6 DEF Passed
  <2> QED
    BY <2>5, <2>6
<1> QED
  BY <1>1, <1>3, <1>4, <1>5, <1>6, <1>7, <1>8 DEF Next, LoadLine

LEMMA NextInv == IInv /\ [Next]_vars => IInv'
<1>1. CASE Next
  BY <1>1, TypeStep, ReadyStep, SegmentsStep, WalkStep, SearchStep DEF IInv
<1>2. CASE UNCHANGED vars
  <2> SUFFICES ASSUME IInv PROVE IInv'
    OBVIOUS
  <2> USE <1>2 DEF vars, outerVars, walkVars
  <2>1. TypeOK'
    BY DEF IInv, TypeOK
  <2>2. Ready'
    BY DEF IInv, Ready, N
  <2>3. SegmentsExact'
    BY DEF IInv, SegmentsExact, SpokenAt
  <2>4. Walk'
    BY DEF IInv, Walk
  <2>5. Search'
    BY DEF IInv, Search, Passed, Touched
  <2> QED
    BY <2>1, <2>2, <2>3, <2>4, <2>5 DEF IInv
<1> QED
  BY <1>1, <1>2

THEOREM Invariance == Spec => []IInv
BY InitInv, NextInv, PTL DEF Spec

-----------------------------------------------------------------------------
(* Results *)

\* The types and cursor ranges: the search never leaves the sentence and the
\* walk never leaves the word list.
THEOREM CursorsInRange == Spec => []TypeOK
<1>1. IInv => TypeOK
  BY DEF IInv
<1> QED
  BY <1>1, Invariance, PTL

\* Every reported segment is from the start of the recogniser's word with the
\* first byte of the hit to the end of the one with its last byte, however
\* the recogniser cuts the sentence (cnt against pos and end_pos in hitDict).
THEOREM ReportsAreExact == Spec => []SegmentsExact
<1>1. IInv => SegmentsExact
  BY DEF IInv
<1> QED
  BY <1>1, Invariance, PTL

\* When hitDict returns, no dictionary word of the sentence is left intact
\* (find resumes at end_pos).
THEOREM SearchIsComplete == Spec => []NoneIntact
<1>1. IInv => NoneIntact
  <2> SUFFICES ASSUME IInv, pc = "done", NEW w \in m_data_map,
                      NEW p \in Places(w, removeSpaces(result.text))
               PROVE  Touched(w, p)
    BY DEF NoneIntact
  <2>1. tmp = removeSpaces(result.text) /\ todo = {}
    BY DEF IInv, Ready
  <2> QED
    BY <2>1 DEF IInv, Search, Passed
<1> QED
  BY <1>1, Invariance, PTL
=============================================================================
