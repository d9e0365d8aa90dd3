---------------------------- MODULE MCHitDict ----------------------------
(* HitDict for TLC: every sentence of at most four bytes that are not      *)
(* spaces, cut into words in every way.                                    *)
EXTENDS HitDict, SequencesExt

const_Bytes == {"a", "b", " "}
const_Space == {" "}

MaxBytes == 4

\* A word that overlaps itself, one inside another, the same word twice.
const_DictFiles ==
  {<<>>, <<<<"a", "a">>, <<"b">>>>, <<<<"a", "b", "a">>, <<"a">>>>,
   <<<<"b", "a">>, <<"b", "a">>, <<"a", "b">>>>}

\* The word list of n bytes cut before the places of c. A word lasts 10 ms a
\* byte, and 1 ms of silence follows it.
Cut(c, n) ==
  LET ends == SetToSortSeq(c \cup {n}, <)
      from(i) == IF i = 1 THEN 0 ELSE ends[i - 1]
  IN [i \in 1..Len(ends) |->
        [from |-> from(i), to |-> ends[i],
         startTime |-> 10 * from(i), endTime |-> 10 * ends[i] - 1]]

\* A space stands between two words, or at the end.
Spaced(s) ==
  {s} \cup {SubSeq(s, 1, i) \o <<" ">> \o SubSeq(s, i + 1, Len(s)) :
              i \in 1..Len(s)}

const_Results ==
  UNION {UNION {{[text |-> t, words |-> Cut(c, n)] :
                   t \in Spaced(s), c \in SUBSET (1..(n - 1))} :
                s \in [1..n -> {"a", "b"}]} :
         n \in 1..MaxBytes}
==========================================================================
