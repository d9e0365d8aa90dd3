------------------------------ MODULE HitDict ------------------------------
(***************************************************************************)
(* Asr::hitDict and the Dictionary it reads: the search of one recognised  *)
(* sentence for the words of the dictionary, and the translation of each   *)
(* hit into the times between which the stream is muted.                   *)
(*                                                                         *)
(* Text is a sequence of bytes, and a place in it is counted from 0 as     *)
(* std::string does. A word of the recogniser's word list is reduced to    *)
(* the bytes of the sentence it covers: from its place "from" up to, not   *)
(* including, "to", so that to - from is its text.length(), and to the     *)
(* times at which it is spoken.                                            *)
(***************************************************************************)
EXTENDS Integers, Sequences

CONSTANTS Bytes,      \* the bytes that text is made of
          Space,      \* the ones that isspace() accepts
          DictFiles,  \* the contents a dictionary file can have: its lines
          Results     \* the results the recogniser can give

\* What removeSpaces keeps of a sentence.
removeSpaces(s) == SelectSeq(s, LAMBDA b : b \notin Space)

Text == Seq(Bytes)
Item == [from : Nat, to : Nat, startTime : Nat, endTime : Nat]

\* ws are the n bytes of a sentence cut into words, in order.
Tiles(ws, n) ==
  /\ ws \in Seq(Item)
  /\ n > 0 => ws # <<>>
  /\ \A i \in DOMAIN ws :
       /\ ws[i].from < ws[i].to
       /\ i = 1 => ws[i].from = 0
       /\ i = Len(ws) => ws[i].to = n
       /\ i < Len(ws) => ws[i + 1].from = ws[i].to
       /\ \A j \in DOMAIN ws : i < j => ws[i].to <= ws[j].from

\* A line of the dictionary is a word and never empty; the word list of a
\* result is the sentence, spaces apart (the recogniser is asked for neither
\* punctuation nor rewritten numbers).
ASSUME HitDictAssumption ==
  /\ \A f \in DictFiles : /\ f \in Seq(Text)
                          /\ \A i \in DOMAIN f : f[i] # <<>>
  /\ \A r \in Results : /\ r \in [text : Text, words : Seq(Item)]
                        /\ removeSpaces(r.text) \in Text
                        /\ Tiles(r.words, Len(removeSpaces(r.text)))

\* lines      what is left of the dictionary file
\* m_data_map the words of the dictionary
\* result     the sentence, getResult(), and its getSentenceWordsList()
\* todo       the dictionary words that the outer loop has not come to
\* tmp, bword, pos, end_pos, start, prev_end, cnt, out: hitDict's own
\* item       the place of the innermost loop in the word list
\* hits       for each segment of out where its word was found
VARIABLES lines, m_data_map, result, todo, tmp, bword, pos, end_pos,
          item, start, prev_end, cnt, out, hits, pc

outerVars == <<lines, m_data_map, result, tmp>>
walkVars == <<item, start, prev_end, cnt>>
vars == <<outerVars, todo, bword, pos, end_pos, walkVars, out, hits, pc>>

PcValues == {"load", "dict", "find", "walk", "done"}

Init ==
  /\ lines \in DictFiles
  /\ m_data_map = {}
  /\ result \in Results
  /\ todo = {}
  /\ tmp = <<>>
  /\ bword = <<>>
  /\ pos = 0
  /\ end_pos = 0
  /\ item = 1
  /\ start = 0
  /\ prev_end = 0
  /\ cnt = 0
  /\ out = <<>>
  /\ hits = <<>>
  /\ pc = "load"

-----------------------------------------------------------------------------
\* Dictionary::loadFromFile: a line is a key of the map.
LoadLine ==
  /\ pc = "load"
  /\ lines # <<>>
  /\ m_data_map' = m_data_map \cup {Head(lines)}
  /\ lines' = Tail(lines)
  /\ UNCHANGED <<result, todo, tmp, bword, pos, end_pos, walkVars, out, hits,
                 pc>>

\* (variant: the sentence is searched with its spaces)
hitDict_KeepsSpaces ==
  /\ pc = "load"
  /\ lines = <<>>
  /\ tmp' = result.text
  /\ todo' = m_data_map
  /\ pc' = "dict"
  /\ UNCHANGED <<lines, m_data_map, result, bword, pos, end_pos, walkVars,
                 out, hits>>

\* A sentence has ended.
hitDict ==
  /\ pc = "load"
  /\ lines = <<>>
  /\ tmp' = removeSpaces(result.text)
  /\ todo' = m_data_map
  /\ pc' = "dict"
  /\ UNCHANGED <<lines, m_data_map, result, bword, pos, end_pos, walkVars,
                 out, hits>>

\* (variant: the loop does not move on)
NextWord_Stays ==
  /\ pc = "dict"
  /\ bword' \in todo
  /\ pos' = 0
  /\ end_pos' = 0
  /\ pc' = "find"
  /\ UNCHANGED <<outerVars, todo, walkVars, out, hits>>

\* The loop over the map, which is in no particular order.
NextWord ==
  /\ pc = "dict"
  /\ \E w \in todo : /\ bword' = w
                     /\ todo' = todo \ {w}
  /\ pos' = 0
  /\ end_pos' = 0
  /\ pc' = "find"
  /\ UNCHANGED <<outerVars, walkVars, out, hits>>

Return ==
  /\ pc = "dict"
  /\ todo = {}
  /\ pc' = "done"
  /\ UNCHANGED <<outerVars, todo, bword, pos, end_pos, walkVars, out, hits>>

\* Where the word w is in the text t.
Places(w, t) ==
  {p \in 0..(Len(t) - Len(w)) : \A k \in 1..Len(w) : t[p + k] = w[k]}

\* (variant: one byte too far)
FindHit_SkipsOne ==
  /\ pc = "find"
  /\ \E p \in Places(bword, tmp) :
       /\ p >= end_pos
       /\ \A q \in Places(bword, tmp) : q >= end_pos => p <= q
       /\ pos' = p
       /\ end_pos' = p + Len(bword) + 1
  /\ item' = 1
  /\ start' = 0
  /\ prev_end' = 0
  /\ cnt' = 0
  /\ pc' = "walk"
  /\ UNCHANGED <<outerVars, todo, bword, out, hits>>

\* tmp.find(bword.first, end_pos) finds the first place from end_pos on.
FindHit ==
  /\ pc = "find"
  /\ \E p \in Places(bword, tmp) :
       /\ p >= end_pos
       /\ \A q \in Places(bword, tmp) : q >= end_pos => p <= q
       /\ pos' = p
       /\ end_pos' = p + Len(bword)
  /\ item' = 1
  /\ start' = 0
  /\ prev_end' = 0
  /\ cnt' = 0
  /\ pc' = "walk"
  /\ UNCHANGED <<outerVars, todo, bword, out, hits>>

FindMiss ==
  /\ pc = "find"
  /\ \A p \in Places(bword, tmp) : p < end_pos
  /\ pc' = "dict"
  /\ UNCHANGED <<outerVars, todo, bword, pos, end_pos, walkVars, out, hits>>

\* (variant: < for <=)
BeforeHit_Strict == cnt < pos

\* The word at hand begins at the hit or before it.
BeforeHit == cnt <= pos

\* The loop over the word list: the hit is not before this word.
WalkBefore ==
  /\ pc = "walk"
  /\ item \in DOMAIN result.words
  /\ BeforeHit
  /\ start' = result.words[item].startTime
  /\ prev_end' = result.words[item].endTime
  /\ cnt' = cnt + result.words[item].to - result.words[item].from
  /\ item' = item + 1
  /\ UNCHANGED <<outerVars, todo, bword, pos, end_pos, out, hits, pc>>

\* A word that begins inside the hit.
WalkInside ==
  /\ pc = "walk"
  /\ item \in DOMAIN result.words
  /\ ~BeforeHit
  /\ cnt < end_pos
  /\ prev_end' = result.words[item].endTime
  /\ cnt' = cnt + result.words[item].to - result.words[item].from
  /\ item' = item + 1
  /\ UNCHANGED <<outerVars, todo, bword, pos, end_pos, start, out, hits, pc>>

\* The end of the word list, or the break at the first word after the hit.
WalkEnd ==
  /\ pc = "walk"
  /\ item \in DOMAIN result.words => (~BeforeHit /\ cnt >= end_pos)
  /\ out' = Append(out, [start |-> start, end |-> prev_end, text |-> bword])
  /\ hits' = Append(hits, pos)
  /\ pc' = "find"
  /\ UNCHANGED <<outerVars, todo, bword, pos, end_pos, walkVars>>

Next ==
  \/ LoadLine
  \/ hitDict
  \/ NextWord
  \/ Return
  \/ FindHit
  \/ FindMiss
  \/ WalkBefore
  \/ WalkInside
  \/ WalkEnd

Spec == Init /\ [][Next]_vars

\* The callback thread keeps running.
FairSpec == Spec /\ WF_vars(Next)
-----------------------------------------------------------------------------
(* Properties *)

AudioSegement == [start : Nat, end : Nat, text : Text]

\* The type invariant, the ranges of the two cursors included.
TypeOK ==
  /\ lines \in Seq(Text)
  /\ m_data_map \subseteq Text
  /\ result \in [text : Text, words : Seq(Item)]
  /\ todo \subseteq m_data_map
  /\ tmp \in Text
  /\ bword \in Text
  /\ pos \in 0..end_pos
  /\ end_pos \in 0..Len(tmp)
  /\ item \in 1..(Len(result.words) + 1)
  /\ start \in Nat
  /\ prev_end \in Nat
  /\ cnt \in 0..Len(removeSpaces(result.text))
  /\ out \in Seq(AudioSegement)
  /\ hits \in Seq(Nat)
  /\ pc \in PcValues

\* What is to be muted for the word w found at place p: from the start of the
\* recogniser's word that holds its first byte to the end of the one that
\* holds its last byte.
SpokenAt(seg, w, p) ==
  \A i \in DOMAIN result.words :
    LET it == result.words[i] IN
    /\ (it.from <= p /\ p < it.to) => seg.start = it.startTime
    /\ (it.from < p + Len(w) /\ p + Len(w) <= it.to) => seg.end = it.endTime

\* Every segment that hitDict reports is that of a dictionary word which is
\* in the sentence there: counting text.length() along the word list finds
\* the right words, wherever the dictionary word begins and ends in them.
SegmentsExact ==
  /\ Len(hits) = Len(out)
  /\ \A k \in DOMAIN out :
       /\ out[k].text \in m_data_map
       /\ hits[k] \in Places(out[k].text, removeSpaces(result.text))
       /\ SpokenAt(out[k], out[k].text, hits[k])

\* A word w at place p is reported, or overlaps a reported one.
Touched(w, p) ==
  \E k \in DOMAIN out : /\ out[k].text = w
                        /\ hits[k] < p + Len(w)
                        /\ p < hits[k] + Len(w)

\* No dictionary word of the sentence gets past the search intact, although
\* each search resumes after the hit before it: whatever it skips overlaps a
\* word that it reported.
NoneIntact ==
  pc = "done" =>
    \A w \in m_data_map : \A p \in Places(w, removeSpaces(result.text)) :
      Touched(w, p)

\* hitDict returns: the search loop, which has no other bound, always moves
\* on. (On an empty dictionary line it would not: find of the empty word hits
\* at end_pos for ever.)
Terminates == <>(pc = "done")
=============================================================================
