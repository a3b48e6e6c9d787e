----------------------------- MODULE DriverProofs -----------------------------
(***************************************************************************)
(* run(), for every set of documents and whatever fails: what is obtained  *)
(* is released, what is used is there, exit code 0 through ffmpeg means a  *)
(* whole file.  First the document walk, for every text: what is spoken    *)
(* are the sentences, whole and in order, with one pause between any two.  *)
(*                                                                         *)
(* A text does not change while it is walked; its operators are repeated   *)
(* here with the text as a parameter, so that what is told of them before  *)
(* a step is known to hold after it.                                       *)
(*                                                                         *)
(* Last, the ids a sentence becomes, for every table of symbols and every  *)
(* array: they fit, they are framed, they lie in the vocabulary; and the   *)
(* reader of UTF-8 always moves on, by exactly the sequence that encodes a *)
(* code point when it stands before one.                                   *)
(***************************************************************************)
EXTENDS Driver, Symbols, Numbers, FiniteSetTheorems, SequenceTheorems

Breaks(t, r) == t[r + 1] \in {Stop, Newline}

StartOf(t, p) == Max({q \in 0 .. p : q = 0 \/ t[(q - 1) + 1] \in {Stop, Newline}})

SolidOf(t, p) == Min({q \in StartOf(t, p) .. p : t[q + 1] # Space})

(* What SentencesWhole asks of a sentence that is spoken.                  *)
WholeIn(t, a) ==
  LET s == a.span
  IN  /\ \A p \in s.from .. s.to - 1 : StartOf(t, p) = StartOf(t, s.from)
      /\ \A p \in s.from .. s.to - 1 : t[p + 1] # Newline
      /\ a.term = Stop
           <=> \E q \in s.from .. Len(t) - 1 :
                 t[q + 1] = Stop /\ StartOf(t, q) = StartOf(t, s.from)

-----------------------------------------------------------------------------
(* Sentences of a text.                                                    *)

(* A sentence starts at the last boundary.                                 *)
LEMMA StartFound ==
  ASSUME NEW t, NEW p \in Nat
  PROVE  /\ StartOf(t, p) \in 0 .. p
         /\ StartOf(t, p) = 0 \/ Breaks(t, StartOf(t, p) - 1)
         /\ \A r \in StartOf(t, p) .. p - 1 : ~Breaks(t, r)
<1> DEFINE S == {q \in 0 .. p : q = 0 \/ t[(q - 1) + 1] \in {Stop, Newline}}
<1>1. S \subseteq Nat /\ 0 \in S /\ \A m \in S : m <= p
  OBVIOUS
<1>2. S # {}
  BY <1>1
<1>3. StartOf(t, p) = Max(S)
  BY DEF StartOf
<1> HIDE DEF S
<1>4. Max(S) \in S /\ \A m \in S : m <= Max(S)
  BY <1>1, <1>2, MaxFound
<1> USE DEF S
<1>5. ASSUME NEW r \in StartOf(t, p) .. p - 1, Breaks(t, r) PROVE FALSE
  <2>1. r + 1 \in 0 .. p /\ (r + 1) - 1 = r
    BY <1>3, <1>4
  <2>2. r + 1 \in S
    BY <2>1, <1>5 DEF Breaks
  <2> QED
    BY <2>2, <1>3, <1>4
<1>6. StartOf(t, p) = 0 \/ Breaks(t, StartOf(t, p) - 1)
  BY <1>3, <1>4 DEF Breaks
<1>7. StartOf(t, p) \in 0 .. p
  BY <1>3, <1>4
<1> QED
  BY <1>5, <1>6, <1>7

(* And there is only one such place.                                       *)
LEMMA StartHere ==
  ASSUME NEW t, NEW p \in Nat, NEW a \in 0 .. p,
         a = 0 \/ Breaks(t, a - 1), \A r \in a .. p - 1 : ~Breaks(t, r)
  PROVE  StartOf(t, p) = a
<1>1. PICK b \in 0 .. p : /\ b = StartOf(t, p)
                          /\ b = 0 \/ Breaks(t, b - 1)
                          /\ \A r \in b .. p - 1 : ~Breaks(t, r)
  BY StartFound
<1>2. ~ (a < b)
  <2>1. SUFFICES ASSUME a < b PROVE FALSE
    OBVIOUS
  <2>2. b - 1 \in a .. p - 1 /\ b # 0
    BY <2>1, <1>1
  <2> QED
    BY <2>2, <1>1
<1>3. ~ (b < a)
  <2>1. SUFFICES ASSUME b < a PROVE FALSE
    OBVIOUS
  <2>2. a - 1 \in b .. p - 1 /\ a # 0
    BY <2>1, <1>1
  <2> QED
    BY <2>2, <1>1
<1> QED
  BY <1>1, <1>2, <1>3

(* Two places are in one sentence when no boundary is between them.        *)
LEMMA SameStart ==
  ASSUME NEW t, NEW p \in Nat, NEW q \in Nat, p <= q
  PROVE  StartOf(t, p) = StartOf(t, q) <=> \A r \in p .. q - 1 : ~Breaks(t, r)
<1>1. PICK a \in 0 .. p : /\ a = StartOf(t, p)
                          /\ a = 0 \/ Breaks(t, a - 1)
                          /\ \A r \in a .. p - 1 : ~Breaks(t, r)
  BY StartFound
<1>2. ASSUME \A r \in p .. q - 1 : ~Breaks(t, r) PROVE StartOf(t, q) = a
  <2>1. \A r \in a .. q - 1 : ~Breaks(t, r)
    BY <1>1, <1>2
  <2>2. a \in 0 .. q
    OBVIOUS
  <2> QED
    BY <2>1, <2>2, <1>1, StartHere
<1>3. ASSUME StartOf(t, q) = a PROVE \A r \in p .. q - 1 : ~Breaks(t, r)
  BY <1>1, <1>3, StartFound
<1> QED
  BY <1>1, <1>2, <1>3

-----------------------------------------------------------------------------
(* The inductive invariant of the walk.                                    *)

Pauses == [kind : {"pause"}, ms : {SentSilence, ParaSilence}]
Speeches == [kind : {"speech"}, span : [from : Nat, to : Nat], term : {Stop, "none"}]
Pieces == Pauses \cup Speeches

WalkType ==
  /\ text \in Seq(Characters)
  /\ doc \in {"off", "between", "inside", "end"}
  /\ pos \in 0 .. Len(text) /\ seg \in 0 .. Len(text)
  /\ para \in [from : Nat, to : Nat]
  /\ emitted \in BOOLEAN /\ speed \in BOOLEAN
  /\ out \in Seq(Pieces)

(* A paragraph may start here.                                             *)
Opens(p) == p = 0 \/ p = Len(text) \/ text[(p - 1) + 1] = Newline

(* Where the walk stands: between paragraphs at the start of one, inside   *)
(* one at the start of a segment.                                          *)
Standing ==
  /\ doc = "off" => out = <<>> /\ ~emitted /\ pos = 0 /\ seg = 0
  /\ doc = "between" => Opens(pos)
  /\ doc = "inside" =>
       /\ para.from = pos /\ Opens(pos) /\ pos < Len(text)
       /\ para.to <= Len(text) /\ seg \in pos .. para.to
       /\ \A q \in pos .. para.to - 1 : text[q + 1] # Newline
       /\ para.to < Len(text) => text[para.to + 1] = Newline
       /\ seg = pos \/ seg = para.to \/ text[(seg - 1) + 1] = Stop
  /\ doc # "end" /\ faults = {} => (emitted <=> out # <<>>)

(* How far the document has been spoken.                                   *)
Reached ==
  IF doc = "inside" THEN seg ELSE IF doc = "end" THEN Len(text) ELSE pos

SpokenWhole ==
  \A j \in Spoken :
    /\ WholeIn(text, out[j])
    /\ out[j].span.from < out[j].span.to /\ out[j].span.to <= Reached

InOrder ==
  \A j, k \in Spoken : j < k => out[j].span.to <= out[k].span.from

(* A letter that was reached, fits the buffer and is of a sentence that    *)
(* did not fail is in one sentence that is spoken; any other is in none.   *)
LettersSpoken ==
  \A p \in 0 .. Len(text) - 1 : text[p + 1] = Letter =>
    IF p < Reached /\ p - SolidOf(text, p) < BufSize - 1 /\ ~Lost(SolidOf(text, p))
    THEN \E j \in Spoken : SpeechesOf(p) = {j}
    ELSE SpeechesOf(p) = {}

(* Only sentences that were reached have failed.                           *)
FaultsBehind == \A f \in faults : f.at \in Nat /\ f.at < Reached

(* What is spoken ends with speech.                                        *)
Paused ==
  faults = {} =>
    /\ out # <<>> => Len(out) % 2 = 1
    /\ \A j \in DOMAIN out : out[j].kind = (IF j % 2 = 1 THEN "speech" ELSE "pause")

(* Between what is spoken before a long pause and what is spoken after it  *)
(* there is a newline, which has been reached.                             *)
LongPauses ==
  \A j \in DOMAIN out : out[j].kind = "pause" /\ out[j].ms = ParaSilence =>
    \A i \in Spoken : i < j =>
      \E r \in out[i].span.from .. Reached - 1 :
        text[r + 1] = Newline /\ \A k \in Spoken : j < k => r < out[k].span.from

WalkInv ==
  /\ WalkType /\ Standing /\ SpokenWhole /\ InOrder /\ LettersSpoken /\ FaultsBehind
  /\ Paused /\ LongPauses

-----------------------------------------------------------------------------
(* The segment at hand.                                                    *)

(* Find() finds the first place, or says that there is none.               *)
LEMMA FindFirst ==
  ASSUME NEW C, NEW p \in Nat, NEW limit \in Nat, p <= limit
  PROVE  /\ Find(C, p, limit) \in p .. limit
         /\ \A q \in p .. Find(C, p, limit) - 1 : text[q + 1] \notin C
         /\ Find(C, p, limit) < limit => text[Find(C, p, limit) + 1] \in C
<1> DEFINE S == {q \in p .. limit - 1 : text[q + 1] \in C} \cup {limit}
<1>1. S \subseteq Nat /\ S # {} /\ limit \in S
  OBVIOUS
<1>2. Find(C, p, limit) = Min(S)
  BY DEF Find, At
<1> HIDE DEF S
<1>3. Min(S) \in S /\ \A m \in S : Min(S) <= m
  BY <1>1, MinFound
<1> USE DEF S
<1>4. Find(C, p, limit) \in p .. limit
  BY <1>2, <1>3
<1>5. ASSUME NEW q \in p .. Find(C, p, limit) - 1, text[q + 1] \in C PROVE FALSE
  <2>1. q \in S
    BY <1>4, <1>5
  <2> QED
    BY <2>1, <1>2, <1>3
<1> QED
  BY <1>2, <1>3, <1>4, <1>5

(* Trim() takes away white space, and nothing else.                        *)
LEMMA TrimKeeps ==
  ASSUME NEW start \in Nat, NEW end \in Nat, start <= end, NEW s, s = Trim(start, end)
  PROVE  /\ s \in [from : Nat, to : Nat]
         /\ s.from = s.to => \A q \in start .. end - 1 : text[q + 1] = Space
         /\ s.from # s.to =>
              /\ start <= s.from /\ s.from < s.to /\ s.to <= end
              /\ text[s.from + 1] # Space
              /\ \A q \in start .. end - 1 : text[q + 1] # Space => q \in s.from .. s.to - 1
<1> DEFINE solid == {q \in start .. end - 1 : text[q + 1] # Space}
<1>1. Trim(start, end) = IF solid = {} THEN [from |-> end, to |-> end]
                         ELSE [from |-> Min(solid), to |-> Max(solid) + 1]
  BY DEF Trim, At
<1>2. CASE solid = {}
  <2>1. Trim(start, end) = [from |-> end, to |-> end]
    BY <1>1, <1>2
  <2>2. \A q \in start .. end - 1 : text[q + 1] = Space
    BY <1>2
  <2>4. s = [from |-> end, to |-> end]
    BY <2>1
  <2>5. s \in [from : Nat, to : Nat] /\ s.from = s.to
    BY <2>4
  <2> HIDE DEF solid
  <2> QED
    BY <2>2, <2>5
<1>3. CASE solid # {}
  <2>1. solid \subseteq Nat /\ \A m \in solid : m <= end
    OBVIOUS
  <2>2. Trim(start, end) = [from |-> Min(solid), to |-> Max(solid) + 1]
    BY <1>1, <1>3
  <2> HIDE DEF solid
  <2>3. Min(solid) \in solid /\ \A m \in solid : Min(solid) <= m
    BY <1>3, <2>1, MinFound
  <2>4. Max(solid) \in solid /\ \A m \in solid : m <= Max(solid)
    BY <1>3, <2>1, MaxFound
  <2> USE DEF solid
  <2>5. /\ Min(solid) \in start .. end - 1 /\ text[Min(solid) + 1] # Space
        /\ Max(solid) \in start .. end - 1 /\ Min(solid) <= Max(solid)
    BY <2>3, <2>4
  <2>6. \A q \in start .. end - 1 :
          text[q + 1] # Space => Min(solid) <= q /\ q <= Max(solid)
    BY <2>3, <2>4
  <2> HIDE DEF solid
  <2> QED
    BY <2>2, <2>5, <2>6
<1> QED
  BY <1>2, <1>3

(* A segment starts at a boundary and has none but the one it ends at.     *)
LEMMA SegmentBounds ==
  ASSUME WalkType, Standing, doc = "inside", seg < para.to
  PROVE  \E stop \in seg .. para.to :
           /\ SegmentEnd(seg) = (IF stop < para.to THEN stop + 1 ELSE stop)
           /\ Terminator(seg) = (IF stop < para.to THEN Stop ELSE "none")
           /\ \A r \in seg .. stop - 1 : ~Breaks(text, r)
           /\ stop < para.to => text[stop + 1] = Stop
           /\ stop = para.to /\ stop < Len(text) => text[stop + 1] = Newline
<1> DEFINE stop == Find({Stop}, seg, para.to)
<1>1. seg \in Nat /\ para.to \in Nat /\ seg <= para.to
  BY DEF WalkType, Standing
<1>2. /\ stop \in seg .. para.to
      /\ \A q \in seg .. stop - 1 : text[q + 1] \notin {Stop}
      /\ stop < para.to => text[stop + 1] \in {Stop}
  BY <1>1, FindFirst
<1>3. SegmentEnd(seg) = (IF stop < para.to THEN stop + 1 ELSE stop)
  BY DEF SegmentEnd
<1>4. Terminator(seg) = (IF stop < para.to THEN Stop ELSE "none")
  BY DEF Terminator
<1> HIDE DEF stop
<1>5. ASSUME NEW r \in seg .. stop - 1 PROVE ~Breaks(text, r)
  <2>1. pos \in Nat /\ pos <= seg /\ \A q \in pos .. para.to - 1 : text[q + 1] # Newline
    BY DEF Standing, WalkType
  <2>2. r \in pos .. para.to - 1
    BY <2>1, <1>1, <1>2
  <2>3. text[r + 1] # Newline /\ text[r + 1] # Stop
    BY <2>1, <2>2, <1>2
  <2> QED
    BY <2>3 DEF Breaks
<1>6. stop = para.to /\ stop < Len(text) => text[stop + 1] = Newline
  BY DEF Standing
<1> QED
  BY <1>2, <1>3, <1>4, <1>5, <1>6

(* It starts the text, or stands behind a terminator or a newline.         *)
LEMMA SegmentStarts ==
  ASSUME WalkType, Standing, doc = "inside", seg < para.to
  PROVE  seg = 0 \/ Breaks(text, seg - 1)
BY DEF WalkType, Standing, Opens, Breaks

(* What is spoken of a segment is a sentence, or its beginning.            *)
LEMMA SegmentSpoken ==
  ASSUME WalkType, Standing, doc = "inside", seg < para.to,
         NEW s, s = Trim(seg, SegmentEnd(seg)), HasText(s, Terminator(seg))
  PROVE  /\ Speech(Cut(s), Terminator(seg)) \in Speeches
         /\ seg <= Cut(s).from /\ Cut(s).from < Cut(s).to /\ Cut(s).to <= SegmentEnd(seg)
         /\ WholeIn(text, Speech(Cut(s), Terminator(seg)))
<1>1. PICK stop \in seg .. para.to :
           /\ SegmentEnd(seg) = (IF stop < para.to THEN stop + 1 ELSE stop)
           /\ Terminator(seg) = (IF stop < para.to THEN Stop ELSE "none")
           /\ \A r \in seg .. stop - 1 : ~Breaks(text, r)
           /\ stop < para.to => text[stop + 1] = Stop
           /\ stop = para.to /\ stop < Len(text) => text[stop + 1] = Newline
  BY SegmentBounds
<1>2. seg \in Nat /\ para.to \in Nat /\ para.to <= Len(text) /\ Len(text) \in Nat
  BY DEF WalkType, Standing
<1>3. PICK end \in Nat : end = SegmentEnd(seg) /\ seg <= end
  BY <1>1, <1>2
<1>4. PICK term : term = Terminator(seg)
  OBVIOUS
<1>5. term \in {Stop, "none"} /\ Stop # "none"
  BY <1>1, <1>4, CharactersAssumption DEF Characters
<1>6. s \in [from : Nat, to : Nat] /\ s.from # s.to => seg <= s.from /\ s.from < s.to /\ s.to <= end
  BY <1>2, <1>3, TrimKeeps
<1>7. s.to > s.from /\ ~(s.to - s.from = 1 /\ text[s.from + 1] = term)
  BY <1>4 DEF HasText, At
<1>8. s \in [from : Nat, to : Nat] /\ seg <= s.from /\ s.from < s.to /\ s.to <= end
  <2>1. s \in [from : Nat, to : Nat]
    BY <1>2, <1>3, TrimKeeps
  <2> QED
    BY <1>6, <1>7, <2>1
<1>9. PICK c \in [from : Nat, to : Nat] :
        c = Cut(s) /\ c.from = s.from /\ c.from < c.to /\ c.to <= s.to
  <2> DEFINE S == {s.to, s.from + BufSize - 1}
  <2>1. S \subseteq Nat /\ S # {}
    BY <1>8, BufAssumption
  <2>2. Min(S) \in S /\ \A m \in S : Min(S) <= m
    BY <2>1, MinFound
  <2>3. Min(S) \in Nat /\ s.from < Min(S) /\ Min(S) <= s.to
    BY <2>2, <1>8, BufAssumption
  <2>4. Cut(s) = [s EXCEPT !.to = Min(S)]
    BY DEF Cut
  <2> HIDE DEF S
  <2>5. Cut(s) \in [from : Nat, to : Nat] /\ Cut(s).from = s.from /\ Cut(s).to = Min(S)
    BY <2>3, <2>4, <1>8
  <2> QED
    BY <2>3, <2>5
<1>10. s.from < stop
  <2>1. SUFFICES ASSUME s.from >= stop PROVE FALSE
    BY <1>1, <1>2, <1>8
  <2>2. stop < para.to /\ s.from = stop /\ s.to = stop + 1
    BY <2>1, <1>1, <1>2, <1>3, <1>8
  <2> QED
    BY <2>2, <1>1, <1>4, <1>7
<1>11. PICK a : a = Speech(c, term)
  OBVIOUS
<1>12. a \in Speeches /\ a.span = c /\ a.term = term
  BY <1>5, <1>9, <1>11 DEF Speech, Speeches
<1>13. \A p \in c.from .. c.to - 1 : p <= stop /\ p \in Nat
  BY <1>1, <1>2, <1>3, <1>8, <1>9
<1>14. ASSUME NEW p \in c.from .. c.to - 1 PROVE StartOf(text, p) = StartOf(text, c.from)
  <2>1. \A r \in c.from .. p - 1 : ~Breaks(text, r)
    BY <1>1, <1>2, <1>8, <1>9, <1>13
  <2> QED
    BY <2>1, <1>9, <1>13, SameStart
<1>15. ASSUME NEW p \in c.from .. c.to - 1 PROVE text[p + 1] # Newline
  <2>1. CASE p < stop
    BY <2>1, <1>1, <1>2, <1>8, <1>9 DEF Breaks
  <2>2. CASE p >= stop
    <3>1. p = stop /\ stop < para.to
      BY <2>2, <1>1, <1>2, <1>3, <1>8, <1>9
    <3> QED
      BY <3>1, <1>1, CharactersAssumption
  <2> QED
    BY <2>1, <2>2, <1>1, <1>2, <1>9
<1>16. term = Stop <=> \E q \in c.from .. Len(text) - 1 :
                         text[q + 1] = Stop /\ StartOf(text, q) = StartOf(text, c.from)
  <2>1. ASSUME term = Stop
        PROVE  \E q \in c.from .. Len(text) - 1 :
                 text[q + 1] = Stop /\ StartOf(text, q) = StartOf(text, c.from)
    <3>1. stop < para.to
      BY <2>1, <1>1, <1>4, <1>5
    <3>2. stop \in c.from .. Len(text) - 1 /\ stop \in Nat /\ c.from <= stop
      BY <3>1, <1>1, <1>2, <1>9, <1>10
    <3>3. \A r \in c.from .. stop - 1 : ~Breaks(text, r)
      BY <1>1, <1>2, <1>8, <1>9
    <3>4. StartOf(text, stop) = StartOf(text, c.from)
      BY <3>2, <3>3, <1>9, SameStart
    <3> QED
      BY <3>1, <3>2, <3>4, <1>1
  <2>2. ASSUME NEW q \in c.from .. Len(text) - 1,
               text[q + 1] = Stop, StartOf(text, q) = StartOf(text, c.from), term # Stop
        PROVE  FALSE
    <3>1. stop = para.to
      BY <2>2, <1>1, <1>2, <1>4
    <3>2. q >= stop
      <4>1. Breaks(text, q)
        BY <2>2 DEF Breaks
      <4> QED
        BY <4>1, <1>1, <1>2, <1>8, <1>9
    <3>3. stop < Len(text) /\ text[stop + 1] = Newline
      BY <3>1, <3>2, <1>1, <1>2, <1>9
    <3>4. q # stop /\ stop \in c.from .. q - 1
      BY <2>2, <3>2, <3>3, <1>1, <1>2, <1>9, <1>10, CharactersAssumption
    <3>5. ~Breaks(text, stop)
      BY <2>2, <3>4, <1>9, SameStart
    <3> QED
      BY <3>3, <3>5 DEF Breaks
  <2> QED
    BY <2>1, <2>2
<1>17. WholeIn(text, a)
  BY <1>12, <1>14, <1>15, <1>16 DEF WholeIn
<1> QED
  BY <1>3, <1>4, <1>8, <1>9, <1>11, <1>12, <1>17

(* A sentence does not begin behind one of its letters.                    *)
LEMMA SolidBefore ==
  ASSUME NEW t, NEW p \in Nat, t[p + 1] = Letter
  PROVE  SolidOf(t, p) \in 0 .. p
<1> DEFINE S == {q \in StartOf(t, p) .. p : t[q + 1] # Space}
<1>1. StartOf(t, p) \in 0 .. p
  BY StartFound
<1>2. S \subseteq 0 .. p /\ S \subseteq Nat /\ p \in S
  BY <1>1, CharactersAssumption
<1>3. SolidOf(t, p) = Min(S)
  BY DEF SolidOf
<1> HIDE DEF S
<1>4. Min(S) \in S
  BY <1>2, MinFound
<1> QED
  BY <1>2, <1>3, <1>4

(* A letter of the segment is in what is spoken of it, unless it lies      *)
(* beyond the buffer.                                                      *)
LEMMA LetterSpoken ==
  ASSUME WalkType, Standing, doc = "inside", seg < para.to,
         NEW s, s = Trim(seg, SegmentEnd(seg)),
         NEW p \in seg .. SegmentEnd(seg) - 1, text[p + 1] = Letter
  PROVE  /\ HasText(s, Terminator(seg))
         /\ p \in Cut(s).from .. Cut(s).to - 1 <=> p - SolidOf(text, p) < BufSize - 1
         /\ SolidOf(text, p) = Cut(s).from
<1>1. PICK stop \in seg .. para.to :
           /\ SegmentEnd(seg) = (IF stop < para.to THEN stop + 1 ELSE stop)
           /\ Terminator(seg) = (IF stop < para.to THEN Stop ELSE "none")
           /\ \A r \in seg .. stop - 1 : ~Breaks(text, r)
           /\ stop < para.to => text[stop + 1] = Stop
           /\ stop = para.to /\ stop < Len(text) => text[stop + 1] = Newline
  BY SegmentBounds
<1>2. seg \in Nat /\ para.to \in Nat /\ para.to <= Len(text) /\ Len(text) \in Nat
  BY DEF WalkType, Standing
<1>3. PICK end \in Nat : end = SegmentEnd(seg) /\ seg <= end
  BY <1>1, <1>2
<1>4. Letter # Space /\ Letter \notin {Stop, "none"}
  BY CharactersAssumption DEF Characters
<1>5. p \in Nat /\ seg <= p /\ p < end
  BY <1>2, <1>3
<1>6. p < stop
  BY <1>1, <1>2, <1>3, <1>4, <1>5
<1>7. /\ s \in [from : Nat, to : Nat]
      /\ s.from = s.to => text[p + 1] = Space
      /\ s.from # s.to =>
           /\ seg <= s.from /\ s.from < s.to /\ s.to <= end
           /\ text[s.from + 1] # Space
           /\ \A q \in seg .. end - 1 : text[q + 1] # Space => q \in s.from .. s.to - 1
  <2>1. s = Trim(seg, end) /\ p \in seg .. end - 1
    BY <1>2, <1>3, <1>5
  <2>2. /\ s \in [from : Nat, to : Nat]
        /\ s.from = s.to => \A q \in seg .. end - 1 : text[q + 1] = Space
        /\ s.from # s.to =>
             /\ seg <= s.from /\ s.from < s.to /\ s.to <= end
             /\ text[s.from + 1] # Space
             /\ \A q \in seg .. end - 1 : text[q + 1] # Space => q \in s.from .. s.to - 1
    <3>1. end \in Nat /\ seg \in Nat /\ seg <= end
      BY <1>2, <1>3
    <3> QED
      BY <3>1, <2>1, TrimKeeps
  <2> QED
    BY <2>1, <2>2
<1>8. /\ seg <= s.from /\ s.from < s.to /\ s.to <= end
      /\ text[s.from + 1] # Space
      /\ \A q \in seg .. end - 1 : text[q + 1] # Space => q \in s.from .. s.to - 1
      /\ p \in s.from .. s.to - 1
  BY <1>3, <1>4, <1>5, <1>7
<1>9. HasText(s, Terminator(seg))
  <2>1. s.to > s.from
    BY <1>7, <1>8
  <2>2. ~(s.to - s.from = 1 /\ text[s.from + 1] = Terminator(seg))
    <3>1. SUFFICES ASSUME s.to - s.from = 1, text[s.from + 1] = Terminator(seg) PROVE FALSE
      OBVIOUS
    <3>2. s.from \in Nat /\ s.to \in Nat /\ p \in s.from .. s.to - 1
      BY <1>7, <1>8
    <3>3. p = s.from
      BY <3>1, <3>2
    <3> QED
      BY <3>1, <3>3, <1>1, <1>4
  <2> QED
    BY <2>1, <2>2 DEF HasText, At
<1>10. StartOf(text, p) = seg
  <2>1. \A r \in seg .. p - 1 : ~Breaks(text, r)
    BY <1>1, <1>2, <1>6
  <2>2. seg = 0 \/ Breaks(text, seg - 1)
    BY SegmentStarts
  <2> QED
    BY <2>1, <2>2, <1>2, <1>5, StartHere
<1>11. SolidOf(text, p) = s.from
  <2> DEFINE S == {q \in seg .. p : text[q + 1] # Space}
  <2>1. S \subseteq Nat /\ p \in S
    BY <1>2, <1>4, <1>5
  <2>2. S # {}
    BY <2>1
  <2>3. Min(S) \in S /\ \A m \in S : Min(S) <= m
    <3> HIDE DEF S
    <3> QED
      BY <2>1, <2>2, MinFound
  <2>4. SolidOf(text, p) = Min(S)
    BY <1>10 DEF SolidOf
  <2>5. s.from \in S
    BY <1>2, <1>5, <1>7, <1>8
  <2>6. \A m \in S : s.from <= m
    BY <1>2, <1>3, <1>5, <1>7, <1>8
  <2>7. Min(S) \in Nat
    BY <2>1, <2>3
  <2> HIDE DEF S
  <2> QED
    BY <2>3, <2>4, <2>5, <2>6, <2>7, <1>7
<1>12. PICK m \in Nat : m = Min({s.to, s.from + BufSize - 1})
                       /\ m \in {s.to, s.from + BufSize - 1}
                       /\ m <= s.to /\ m <= s.from + BufSize - 1
  <2> DEFINE S == {s.to, s.from + BufSize - 1}
  <2>1. S \subseteq Nat /\ S # {}
    BY <1>7, BufAssumption
  <2>2. Min(S) \in S /\ \A k \in S : Min(S) <= k
    BY <2>1, MinFound
  <2> QED
    BY <2>1, <2>2
<1>13. Cut(s) = [s EXCEPT !.to = m]
  BY <1>12 DEF Cut
<1>14. Cut(s).from = s.from /\ Cut(s).to = m
  BY <1>7, <1>13
<1>15. p \in s.from .. m - 1 <=> p - s.from < BufSize - 1
  BY <1>5, <1>7, <1>8, <1>12, BufAssumption
<1> QED
  BY <1>9, <1>11, <1>14, <1>15

-----------------------------------------------------------------------------
(* The steps.                                                              *)

(* What synth_sentence() adds is a pause, the sentence, both or nothing;   *)
(* the sentence, unless it failed; when nothing failed, all that it should.*)
LEMMA Grows ==
  ASSUME out \in Seq(Pieces), speed \in BOOLEAN,
         NEW ms \in {0, SentSilence, ParaSilence}, NEW a \in Speeches,
         SynthSentence(ms, a)
  PROVE  /\ out' \in Seq(Pieces) /\ Len(out) <= Len(out')
         /\ \A j \in 1 .. Len(out) : out'[j] = out[j]
         /\ \A j \in 1 .. Len(out') :
              j > Len(out) => out'[j] = Pause(ms) \/ (out'[j] = a /\ j = Len(out'))
         /\ faults \subseteq faults'
         /\ \A f \in faults' : f \in faults \/ f.at = a.span.from
         /\ \/ /\ Len(out') > Len(out) /\ out'[Len(out')] = a
               /\ \A f \in faults' : f \in faults \/ f.kind = "pause"
            \/ /\ \A j \in 1 .. Len(out') : j > Len(out) => out'[j] = Pause(ms)
               /\ \E f \in faults' : f.at = a.span.from /\ f.kind # "pause"
         /\ faults' = {} =>
              /\ faults = {}
              /\ Len(out') = Len(out) + (IF ms = 0 THEN 1 ELSE 2)
              /\ out'[Len(out')] = a
              /\ ms # 0 => out'[Len(out) + 1] = Pause(ms)
<1> DEFINE Goal ==
         /\ out' \in Seq(Pieces) /\ Len(out) <= Len(out')
         /\ \A j \in 1 .. Len(out) : out'[j] = out[j]
         /\ \A j \in 1 .. Len(out') :
              j > Len(out) => out'[j] = Pause(ms) \/ (out'[j] = a /\ j = Len(out'))
         /\ faults \subseteq faults'
         /\ \A f \in faults' : f \in faults \/ f.at = a.span.from
         /\ \/ /\ Len(out') > Len(out) /\ out'[Len(out')] = a
               /\ \A f \in faults' : f \in faults \/ f.kind = "pause"
            \/ /\ \A j \in 1 .. Len(out') : j > Len(out) => out'[j] = Pause(ms)
               /\ \E f \in faults' : f.at = a.span.from /\ f.kind # "pause"
         /\ faults' = {} =>
              /\ faults = {}
              /\ Len(out') = Len(out) + (IF ms = 0 THEN 1 ELSE 2)
              /\ out'[Len(out')] = a
              /\ ms # 0 => out'[Len(out) + 1] = Pause(ms)
<1>3. PICK c, x, y, z : /\ c = a.span.from /\ x = Fault("phonemize", a)
                        /\ y = Fault("synthesize", a) /\ z = Fault("pause", a)
  OBVIOUS
<1>4. /\ x.at = c /\ y.at = c /\ z.at = c
      /\ x.kind # "pause" /\ y.kind # "pause" /\ z.kind = "pause"
  BY <1>3 DEF Fault
<1>1. CASE out' = out /\ faults' = faults \cup {x}
  BY <1>1, <1>3, <1>4
<1>2. ASSUME NEW p \in PauseOutcomes(ms, a), NEW b \in SpeechOutcomes(a),
             out' = out \o p.add \o b.add, faults' = faults \cup p.fault \cup b.fault
      PROVE  Goal
  <2>1. \/ p.add = <<>> /\ p.fault = (IF ms = 0 THEN {} ELSE {z})
        \/ p.add = <<Pause(ms)>> /\ p.fault = {} /\ ms # 0
    <3>1. \/ p = [add |-> <<>>, fault |-> IF ms = 0 THEN {} ELSE {z}]
          \/ p = [add |-> <<Pause(ms)>>, fault |-> {}] /\ ms # 0
      BY <1>3 DEF PauseOutcomes
    <3>2. CASE p = [add |-> <<>>, fault |-> IF ms = 0 THEN {} ELSE {z}]
      BY <3>2
    <3>3. CASE p = [add |-> <<Pause(ms)>>, fault |-> {}] /\ ms # 0
      BY <3>3
    <3> QED
      BY <3>1, <3>2, <3>3
  <2>2. \/ b.add = <<>> /\ b.fault = {y}
        \/ b.add = <<a>> /\ b.fault = {}
    <3>1. \/ b = [add |-> <<>>, fault |-> {y}]
          \/ b = [add |-> <<a>>, fault |-> {}]
      BY <1>3 DEF SpeechOutcomes
    <3> QED
      BY <3>1
  <2>3. (ms # 0 => Pause(ms) \in Pieces) /\ a \in Pieces
    BY DEF Pause, Pauses, Pieces
  <2>4. PICK q : q = Pause(ms)
    OBVIOUS
  <2>9. /\ faults \subseteq faults'
        /\ \A f \in faults' : f \in faults \/ (f = z /\ ms # 0) \/ (f = y /\ b.fault = {y})
        /\ b.fault = {y} => y \in faults'
        /\ faults' = {} => faults = {} /\ p.fault = {} /\ b.fault = {}
    <3>1. p.fault = {} \/ (p.fault = {z} /\ ms # 0)
      BY <2>1
    <3>2. b.fault = {} \/ b.fault = {y}
      BY <2>2
    <3> QED
      BY <3>1, <3>2, <1>2
  <2>10. \A f \in faults' : f \in faults \/ f.at = c
    BY <2>9, <1>4
  <2>5. CASE p.add = <<>> /\ b.add = <<>>
    <3>1. out' = out
      BY <2>5, <1>2
    <3>2. b.fault = {y} /\ y \in faults'
      BY <2>2, <2>5, <2>9
    <3> QED
      BY <3>1, <3>2, <2>9, <2>10, <1>3, <1>4
  <2>6. CASE p.add = <<>> /\ b.add = <<a>>
    <3>1. out' = Append(out, a)
      BY <2>6, <1>2
    <3>5. b.fault = {}
      BY <2>2, <2>6
    <3>6. p.fault = {} => ms = 0
      <4>1. <<>> # <<Pause(ms)>>
        OBVIOUS
      <4>2. p.fault = (IF ms = 0 THEN {} ELSE {z})
        BY <4>1, <2>1, <2>6
      <4>3. z \in {z}
        OBVIOUS
      <4> QED
        BY <4>2, <4>3
    <3>2. b.fault = {} /\ (p.fault = {} => ms = 0)
      BY <3>5, <3>6
    <3>3. \A f \in faults' : f \in faults \/ f.kind = "pause"
      BY <3>2, <2>9, <1>4
    <3>4. faults' = {} => faults = {} /\ ms = 0
      BY <3>2, <2>9
    <3> QED
      BY <3>1, <3>3, <3>4, <2>3, <2>9, <2>10, <1>3
  <2>7. CASE p.add = <<q>> /\ b.add = <<>>
    <3>1. out' = Append(out, q)
      BY <2>7, <1>2
    <3>2. q \in Pieces /\ q = Pause(ms)
      BY <2>1, <2>3, <2>4, <2>7
    <3>3. b.fault = {y} /\ y \in faults'
      BY <2>2, <2>7, <2>9
    <3> QED
      BY <3>1, <3>2, <3>3, <2>9, <2>10, <1>3, <1>4
  <2>8. CASE p.add = <<q>> /\ b.add = <<a>>
    <3>1. out' = Append(Append(out, q), a)
      BY <2>8, <1>2
    <3>2. q \in Pieces /\ q = Pause(ms) /\ ms # 0
      BY <2>1, <2>3, <2>4, <2>8
    <3>3. b.fault = {}
      BY <2>2, <2>8
    <3>4. \A f \in faults' : f \in faults \/ f.kind = "pause"
      BY <3>3, <2>9, <1>4
    <3> QED
      BY <3>1, <3>2, <3>4, <2>3, <2>9, <2>10, <1>3
  <2> QED
    BY <2>1, <2>2, <2>4, <2>5, <2>6, <2>7, <2>8
<1> QED
  BY <1>1, <1>2, <1>3 DEF SynthSentence

(* What lies below a bound lies below a greater one.                       *)
LEMMA Widens ==
  ASSUME NEW a \in Nat, NEW n \in Nat, NEW m \in Nat, n <= m, NEW r \in a .. n - 1
  PROVE  r \in a .. m - 1
OBVIOUS

(* The walk goes on over places without a letter.                          *)
LEMMA NothingSpoken ==
  ASSUME WalkInv, UNCHANGED <<text, out, speed, faults>>,
         Reached' \in Nat, Reached <= Reached',
         \A p \in Reached .. Reached' - 1 : p < Len(text) => text[p + 1] # Letter
  PROVE  /\ SpokenWhole' /\ InOrder' /\ LettersSpoken' /\ FaultsBehind'
         /\ Paused' /\ LongPauses'
<1>1. Reached \in Nat /\ Len(text) \in Nat
  BY DEF WalkInv, WalkType, Reached
<1>2. Spoken' = Spoken
  BY DEF Spoken
<1>3. \A j \in Spoken : out[j].span.to \in Nat
  BY DEF WalkInv, WalkType, Spoken, Pieces, Speeches, Pauses
<1>4. SpokenWhole'
  BY <1>1, <1>2, <1>3 DEF WalkInv, SpokenWhole
<1>5. InOrder'
  BY <1>2 DEF WalkInv, InOrder
<1>6. ASSUME NEW p \in 0 .. Len(text) - 1, text[p + 1] = Letter
      PROVE  IF p < Reached' /\ p - SolidOf(text, p) < BufSize - 1 /\ ~Lost(SolidOf(text, p))
             THEN \E j \in Spoken : SpeechesOf(p) = {j}
             ELSE SpeechesOf(p) = {}
  <2>1. PICK n \in Nat, r \in Nat, s \in Nat : n = Len(text) /\ r = Reached /\ s = Reached'
    BY <1>1
  <2>2. p \in 0 .. n - 1 /\ r <= s /\ ~(p \in r .. s - 1 /\ p < n)
    BY <2>1, <1>6
  <2>3. p < r <=> p < s
    BY <2>2
  <2> QED
    BY <2>1, <2>3, <1>6 DEF WalkInv, LettersSpoken
<1>7. \A p \in 0 .. Len(text) - 1 : SpeechesOf(p)' = SpeechesOf(p)
  BY <1>2 DEF SpeechesOf
<1>8. LettersSpoken'
  BY <1>2, <1>6, <1>7 DEF LettersSpoken, Lost
<1>9. Paused' /\ FaultsBehind'
  BY <1>1 DEF WalkInv, Paused, FaultsBehind
<1>10. LongPauses'
  <2>1. \A i \in Spoken : out[i].span.from \in Nat
    BY DEF WalkInv, WalkType, Spoken, Pieces, Speeches, Pauses
  <2>2. ASSUME NEW i \in Spoken, NEW r \in out[i].span.from .. Reached - 1
        PROVE  r \in out[i].span.from .. Reached' - 1
    <3>1. PICK n \in Nat, m \in Nat, from \in Nat :
            n = Reached /\ m = Reached' /\ n <= m /\ from = out[i].span.from
      BY <2>1, <1>1
    <3>2. r \in from .. n - 1
      BY <3>1
    <3> QED
      BY <3>1, <3>2, Widens
  <2> QED
    BY <2>2, <1>2 DEF WalkInv, LongPauses
<1> QED
  BY <1>4, <1>5, <1>8, <1>9, <1>10

(* The walk has not begun.                                                 *)
LEMMA WalkInit == DocInit => WalkInv
<1>1. SUFFICES ASSUME DocInit PROVE WalkInv
  OBVIOUS
<1>2. Spoken = {} /\ Len(text) = 0 /\ Len(out) = 0
  BY <1>1 DEF DocInit, Spoken
<1>3. WalkType
  <2>1. /\ text = <<>> /\ out = <<>> /\ doc = "off" /\ pos = 0 /\ seg = 0
        /\ para = [from |-> 0, to |-> 0] /\ emitted = FALSE /\ speed = TRUE
    BY <1>1 DEF DocInit, NoSpan
  <2>2. text \in Seq(Characters) /\ out \in Seq(Pieces)
    BY <2>1
  <2>3. pos \in 0 .. Len(text) /\ seg \in 0 .. Len(text) /\ para \in [from : Nat, to : Nat]
    BY <2>1, <1>2
  <2> QED
    BY <2>1, <2>2, <2>3 DEF WalkType
<1>4. Standing
  BY <1>1 DEF DocInit, Standing
<1> QED
  BY <1>2, <1>3, <1>4, <1>1
    DEF DocInit, WalkInv, SpokenWhole, InOrder, LettersSpoken, FaultsBehind, Paused, LongPauses

(* It begins with nothing spoken.                                          *)
LEMMA WalkBegins ==
  ASSUME WalkInv, NEW t \in Seq(Characters), NEW s \in BOOLEAN, DocBegin(t, s)
  PROVE  WalkInv'
<1>1. /\ doc = "off" /\ doc' = "between" /\ text' = t /\ speed' = s
      /\ UNCHANGED <<pos, para, seg, emitted, out, faults>>
  BY DEF DocBegin
<1>2. out = <<>> /\ ~emitted /\ pos = 0 /\ seg = 0
  BY <1>1 DEF WalkInv, Standing
<1>3. WalkType'
  BY <1>1, <1>2 DEF WalkInv, WalkType
<1>4. Standing'
  BY <1>1, <1>2 DEF Standing, Opens
<1>5. Spoken' = {} /\ Reached' = 0
  BY <1>1, <1>2 DEF Spoken, Reached
<1>6. LettersSpoken'
  BY <1>5 DEF LettersSpoken, SpeechesOf
<1>7. SpokenWhole' /\ InOrder' /\ Paused' /\ LongPauses'
  BY <1>1, <1>2, <1>5 DEF SpokenWhole, InOrder, Paused, LongPauses
<1>8. FaultsBehind'
  BY <1>1, <1>2, <1>5 DEF WalkInv, FaultsBehind, Reached
<1> QED
  BY <1>3, <1>4, <1>6, <1>7, <1>8 DEF WalkInv

(* A paragraph ends at the next newline.                                   *)
LEMMA WalkNextParagraph == WalkInv /\ NextParagraph => WalkInv'
<1>1. SUFFICES ASSUME WalkInv, NextParagraph PROVE WalkInv'
  OBVIOUS
<1>2. PICK nl : nl = Find({Newline}, pos, Len(text))
  OBVIOUS
<1>3. /\ doc = "between" /\ pos < Len(text) /\ doc' = "inside"
      /\ para' = [from |-> pos, to |-> nl] /\ seg' = pos
      /\ UNCHANGED <<text, pos, emitted, speed, out, faults>>
  BY <1>1, <1>2 DEF NextParagraph, Size
<1>4. pos \in Nat /\ Len(text) \in Nat
  BY <1>1 DEF WalkInv, WalkType
<1>5. /\ nl \in pos .. Len(text)
      /\ \A q \in pos .. nl - 1 : text[q + 1] \notin {Newline}
      /\ nl < Len(text) => text[nl + 1] \in {Newline}
  BY <1>2, <1>3, <1>4, FindFirst
<1>6. WalkType'
  BY <1>1, <1>3, <1>4, <1>5 DEF WalkInv, WalkType
<1>7. Standing'
  BY <1>1, <1>3, <1>4, <1>5 DEF WalkInv, Standing, Opens
<1>8. Reached = pos /\ Reached' = pos
  BY <1>3 DEF Reached
<1>9. SpokenWhole' /\ InOrder' /\ LettersSpoken' /\ FaultsBehind' /\ Paused' /\ LongPauses'
  BY <1>1, <1>3, <1>4, <1>8, NothingSpoken
<1> QED
  BY <1>6, <1>7, <1>9 DEF WalkInv

(* Behind a paragraph only its newline is passed over.                     *)
LEMMA WalkEndParagraph == WalkInv /\ EndParagraph => WalkInv'
<1>1. SUFFICES ASSUME WalkInv, EndParagraph PROVE WalkInv'
  OBVIOUS
<1>2. /\ doc = "inside" /\ seg = para.to /\ doc' = "between"
      /\ pos' = (IF para.to < Len(text) THEN para.to + 1 ELSE para.to)
      /\ para' = [from |-> 0, to |-> 0] /\ seg' = 0
      /\ UNCHANGED <<text, emitted, speed, out, faults>>
  BY <1>1 DEF EndParagraph, Size, NoSpan
<1>3. /\ para.to \in Nat /\ Len(text) \in Nat /\ para.to <= Len(text)
      /\ para.to < Len(text) => text[para.to + 1] = Newline
  BY <1>1, <1>2 DEF WalkInv, WalkType, Standing
<1>4. pos' \in 0 .. Len(text) /\ pos' \in Nat
  BY <1>2, <1>3
<1>5. WalkType'
  BY <1>1, <1>2, <1>3, <1>4 DEF WalkInv, WalkType
<1>6. Standing'
  BY <1>1, <1>2, <1>3 DEF WalkInv, Standing, Opens
<1>7. Reached = para.to /\ Reached' = pos'
  BY <1>2 DEF Reached
<1>8. \A p \in Reached .. Reached' - 1 : p < Len(text) => text[p + 1] # Letter
  BY <1>2, <1>3, <1>7, CharactersAssumption
<1>9. SpokenWhole' /\ InOrder' /\ LettersSpoken' /\ FaultsBehind' /\ Paused' /\ LongPauses'
  BY <1>1, <1>2, <1>3, <1>4, <1>7, <1>8, NothingSpoken
<1> QED
  BY <1>5, <1>6, <1>9 DEF WalkInv

(* The walk ends where the text ends.                                      *)
LEMMA WalkEndDocument == WalkInv /\ EndDocument => WalkInv'
<1>1. SUFFICES ASSUME WalkInv, EndDocument PROVE WalkInv'
  OBVIOUS
<1>2. /\ doc = "between" /\ pos = Len(text) /\ doc' = "end" /\ pos' = 0
      /\ emitted' = FALSE /\ UNCHANGED <<text, para, seg, speed, out, faults>>
  BY <1>1 DEF EndDocument, Size
<1>3. WalkType'
  <2>1. Len(text) \in Nat
    BY <1>1 DEF WalkInv, WalkType
  <2>3. PICK n \in Nat : n = Len(text)
    BY <2>1
  <2>2. pos' \in 0 .. Len(text') /\ emitted' \in BOOLEAN
    <3>1. 0 \in 0 .. n
      OBVIOUS
    <3> QED
      BY <3>1, <2>3, <1>2
  <2> QED
    BY <2>2, <1>1, <1>2 DEF WalkInv, WalkType
<1>4. Standing'
  BY <1>2 DEF Standing
<1>5. Reached = Len(text) /\ Reached' = Len(text) /\ Len(text) \in Nat
  BY <1>1, <1>2 DEF Reached, WalkInv, WalkType
<1>6. SpokenWhole' /\ InOrder' /\ LettersSpoken' /\ FaultsBehind' /\ Paused' /\ LongPauses'
  BY <1>1, <1>2, <1>5, NothingSpoken
<1> QED
  BY <1>3, <1>4, <1>6 DEF WalkInv

(* A segment without text is passed over, the others are spoken.           *)
LEMMA WalkNextSegment == WalkInv /\ NextSegment => WalkInv'
<1>1. SUFFICES ASSUME WalkInv, NextSegment PROVE WalkInv'
  OBVIOUS
<1>2. PICK s : s = Trim(seg, SegmentEnd(seg))
  OBVIOUS
<1>3. PICK a : a = Speech(Cut(s), Terminator(seg))
  OBVIOUS
<1>4. /\ doc = "inside" /\ seg < para.to /\ seg' = SegmentEnd(seg)
      /\ IF HasText(s, Terminator(seg))
         THEN SynthSentence(Grade(seg), a) /\ emitted' = TRUE
         ELSE UNCHANGED <<out, faults, emitted>>
      /\ UNCHANGED <<text, doc, pos, para, speed>>
  BY <1>1, <1>2, <1>3 DEF NextSegment
<1>5. WalkType /\ Standing
  BY <1>1 DEF WalkInv
<1>6. PICK stop \in seg .. para.to :
           /\ SegmentEnd(seg) = (IF stop < para.to THEN stop + 1 ELSE stop)
           /\ stop < para.to => text[stop + 1] = Stop
  BY <1>4, <1>5, SegmentBounds
<1>7. seg \in Nat /\ para.to \in Nat /\ para.to <= Len(text) /\ Len(text) \in Nat
  BY <1>4, <1>5 DEF WalkType, Standing
<1>8. seg' \in Nat /\ seg <= seg' /\ seg' <= para.to
  BY <1>4, <1>6, <1>7
<1>9. seg' = para.to \/ text[(seg' - 1) + 1] = Stop
  BY <1>4, <1>6, <1>7
<1>13. /\ para.from = pos /\ Opens(pos) /\ pos \in Nat /\ pos < Len(text)
       /\ pos <= seg /\ \A q \in pos .. para.to - 1 : text[q + 1] # Newline
       /\ para.to < Len(text) => text[para.to + 1] = Newline
       /\ faults = {} => (emitted <=> out # <<>>)
  BY <1>4, <1>5 DEF WalkType, Standing
<1>14. ASSUME faults' = {} => (emitted' <=> out' # <<>>) PROVE Standing'
  <2>1. Opens(pos)'
    BY <1>4, <1>13 DEF Opens
  <2>2. seg' \in pos .. para.to
    BY <1>7, <1>8, <1>13
  <2> QED
    BY <2>1, <2>2, <1>4, <1>7, <1>9, <1>13, <1>14 DEF Standing
<1>15. PICK g \in Nat, h \in Nat : g = seg /\ h = seg' /\ g <= h
  BY <1>7, <1>8
<1>10. Reached = seg /\ Reached' = seg'
  BY <1>4 DEF Reached
<1>11. CASE ~HasText(s, Terminator(seg))
  <2>1. UNCHANGED <<out, faults, emitted>>
    BY <1>4, <1>11
  <2>2. \A p \in Reached .. Reached' - 1 : text[p + 1] # Letter
    BY <1>2, <1>4, <1>5, <1>10, <1>11, LetterSpoken
  <2>3. WalkType'
    BY <2>1, <1>4, <1>5, <1>7, <1>8 DEF WalkType
  <2>4. Standing'
    BY <2>1, <1>13, <1>14
  <2>5. SpokenWhole' /\ InOrder' /\ LettersSpoken' /\ FaultsBehind' /\ Paused' /\ LongPauses'
    BY <2>1, <2>2, <1>1, <1>4, <1>8, <1>10, NothingSpoken
  <2> QED
    BY <2>3, <2>4, <2>5 DEF WalkInv
<1>12. CASE HasText(s, Terminator(seg))
  <2>1. PICK c \in [from : Nat, to : Nat] : c = Cut(s) /\ c = a.span
    BY <1>2, <1>3, <1>4, <1>5, <1>12, SegmentSpoken DEF Speech, Speeches
  <2>2. /\ a \in Speeches /\ WholeIn(text, a)
        /\ seg <= c.from /\ c.from < c.to /\ c.to <= seg'
    BY <2>1, <1>2, <1>3, <1>4, <1>5, <1>12, SegmentSpoken
  <2>3. PICK ms : ms = Grade(seg)
    OBVIOUS
  <2>4. /\ ms \in {0, SentSilence, ParaSilence}
        /\ ms = 0 <=> ~emitted
        /\ ms = ParaSilence /\ emitted => seg = para.from
    BY <2>3, <1>5, SilenceAssumption DEF Grade, WalkType
  <2>5. out \in Seq(Pieces) /\ speed \in BOOLEAN /\ SynthSentence(ms, a) /\ emitted' = TRUE
    BY <2>3, <1>4, <1>5, <1>12 DEF WalkType
  <2>6. /\ out' \in Seq(Pieces) /\ Len(out) <= Len(out')
        /\ \A j \in 1 .. Len(out) : out'[j] = out[j]
        /\ \A j \in 1 .. Len(out') :
             j > Len(out) => out'[j] = Pause(ms) \/ (out'[j] = a /\ j = Len(out'))
        /\ faults \subseteq faults'
        /\ \A f \in faults' : f \in faults \/ f.at = c.from
        /\ \/ /\ Len(out') > Len(out) /\ out'[Len(out')] = a
              /\ \A f \in faults' : f \in faults \/ f.kind = "pause"
           \/ /\ \A j \in 1 .. Len(out') : j > Len(out) => out'[j] = Pause(ms)
              /\ \E f \in faults' : f.at = c.from /\ f.kind # "pause"
        /\ faults' = {} =>
             /\ faults = {}
             /\ Len(out') = Len(out) + (IF ms = 0 THEN 1 ELSE 2)
             /\ out'[Len(out')] = a
             /\ ms # 0 => out'[Len(out) + 1] = Pause(ms)
    BY <2>1, <2>2, <2>4, <2>5, Grows
  <2>7. WalkType'
    BY <2>5, <2>6, <1>4, <1>5, <1>7, <1>8 DEF WalkType
  <2>8. Standing'
    <3>1. faults' = {} => out' # <<>>
      BY <2>5, <2>6
    <3> QED
      BY <3>1, <2>5, <1>14
  <2>9. /\ Len(out) \in Nat /\ Len(out') \in Nat
        /\ DOMAIN out = 1 .. Len(out) /\ DOMAIN out' = 1 .. Len(out')
    BY <2>5, <2>6, SMTT(30)
  <2>10. a.kind = "speech" /\ Pause(ms).kind = "pause" /\ Pause(ms).ms = ms
    BY <2>2 DEF Speeches, Pause
  <2>17. PICK n \in Nat, m \in Nat :
            /\ n = Len(out) /\ m = Len(out') /\ n <= m
            /\ \A j \in 1 .. n : out'[j] = out[j]
            /\ \A j \in 1 .. m : j > n => out'[j] = Pause(ms) \/ (out'[j] = a /\ j = m)
            /\ \/ /\ m > n /\ out'[m] = a
                  /\ \A f \in faults' : f \in faults \/ f.kind = "pause"
               \/ /\ \A j \in 1 .. m : j > n => out'[j] = Pause(ms)
                  /\ \E f \in faults' : f.at = c.from /\ f.kind # "pause"
            /\ faults' = {} =>
                 /\ faults = {}
                 /\ m = n + (IF ms = 0 THEN 1 ELSE 2)
                 /\ out'[m] = a
                 /\ ms # 0 => out'[n + 1] = Pause(ms)
            /\ DOMAIN out = 1 .. n /\ DOMAIN out' = 1 .. m
    BY <2>6, <2>9
  <2>11. \A j \in Spoken' :
           \/ j \in Spoken /\ j <= Len(out) /\ out'[j] = out[j]
           \/ j = Len(out') /\ j > Len(out) /\ out'[j] = a
    <3>1. ASSUME NEW j \in 1 .. m, out'[j].kind = "speech"
          PROVE  \/ j \in 1 .. n /\ j <= n /\ out[j].kind = "speech" /\ out'[j] = out[j]
                 \/ j = m /\ j > n /\ out'[j] = a
      <4>1. CASE j <= n
        BY <4>1, <3>1, <2>17
      <4>2. CASE j > n
        BY <4>2, <3>1, <2>10, <2>17
      <4> QED
        BY <4>1, <4>2
    <3> QED
      BY <3>1, <2>17 DEF Spoken
  <2>12. \A j \in Spoken : /\ j \in 1 .. Len(out) /\ j \in Spoken' /\ out'[j] = out[j]
                            /\ out[j].span \in [from : Nat, to : Nat]
                            /\ WholeIn(text, out[j])
                            /\ out[j].span.from < out[j].span.to /\ out[j].span.to <= seg
    <3>1. ASSUME NEW j \in Spoken PROVE out[j].span \in [from : Nat, to : Nat]
      BY <2>5 DEF Spoken, Pieces, Speeches, Pauses
    <3>2. ASSUME NEW j \in Spoken
          PROVE  j \in 1 .. Len(out) /\ j \in Spoken' /\ out'[j] = out[j]
      <4>1. j \in 1 .. n /\ out[j].kind = "speech"
        BY <2>17 DEF Spoken
      <4>2. out'[j] = out[j] /\ j \in 1 .. m
        BY <4>1, <2>17
      <4> QED
        BY <4>1, <4>2, <2>17 DEF Spoken
    <3> QED
      BY <3>1, <3>2, <1>1, <1>10 DEF WalkInv, SpokenWhole
  <2>13. SpokenWhole'
    <3>1. ASSUME NEW j \in Spoken'
          PROVE  /\ WholeIn(text', out'[j])
                 /\ out'[j].span.from < out'[j].span.to /\ out'[j].span.to <= seg'
      <4>1. CASE j \in Spoken /\ out'[j] = out[j]
        BY <4>1, <2>12, <1>4, <1>7, <1>8
      <4>2. CASE out'[j] = a
        BY <4>2, <2>1, <2>2, <1>4
      <4> QED
        BY <4>1, <4>2, <2>11
    <3> QED
      BY <3>1, <1>10 DEF SpokenWhole
  <2>14. InOrder'
    <3>1. ASSUME NEW j \in Spoken', NEW k \in Spoken', j < k
          PROVE  out'[j].span.to <= out'[k].span.from
      <4>1. j \in Spoken /\ out'[j] = out[j]
        BY <3>1, <2>9, <2>11, <2>12
      <4>2. CASE k \in Spoken /\ out'[k] = out[k]
        BY <4>1, <4>2, <3>1, <1>1 DEF WalkInv, InOrder
      <4>3. CASE out'[k] = a
        BY <4>1, <4>3, <2>1, <2>2, <2>12, <1>7
      <4> QED
        BY <4>2, <4>3, <2>11
    <3> QED
      BY <3>1 DEF InOrder
  <2>18. FaultsBehind'
    <3>1. ASSUME NEW f \in faults' PROVE f.at \in Nat /\ f.at < seg'
      <4>1. CASE f \in faults
        BY <4>1, <1>1, <1>7, <1>8, <1>10 DEF WalkInv, FaultsBehind
      <4>2. CASE f.at = c.from
        BY <4>2, <2>1, <2>2, <1>8
      <4> QED
        BY <4>1, <4>2, <2>6
    <3> QED
      BY <3>1, <1>10 DEF FaultsBehind
  <2>15. LettersSpoken'
    <3>1. SUFFICES ASSUME NEW p \in 0 .. Len(text) - 1, text[p + 1] = Letter
                   PROVE  IF p < seg' /\ p - SolidOf(text, p) < BufSize - 1
                             /\ ~Lost(SolidOf(text, p))'
                          THEN \E j \in Spoken' : SpeechesOf(p)' = {j}
                          ELSE SpeechesOf(p)' = {}
      BY <1>4, <1>10 DEF LettersSpoken, Lost
    <3>2. PICK spoken \in BOOLEAN :
            /\ spoken => /\ Len(out') \in Spoken' /\ Len(out') > Len(out)
                         /\ out'[Len(out')] = a
                         /\ \A f \in faults' : f \in faults \/ f.kind = "pause"
            /\ ~spoken => /\ Spoken' \subseteq Spoken
                          /\ \E f \in faults' : f.at = c.from /\ f.kind # "pause"
      <4>1. ASSUME m > n, out'[m] = a PROVE Len(out') \in Spoken'
        BY <4>1, <2>10, <2>17 DEF Spoken
      <4>2. ASSUME \A j \in 1 .. m : j > n => out'[j] = Pause(ms),
                   NEW j \in Spoken'
            PROVE  j \in Spoken
        <5>1. j \in 1 .. m /\ out'[j].kind = "speech"
          BY <4>2, <2>17 DEF Spoken
        <5>2. ~(j > n)
          BY <5>1, <4>2, <2>10
        <5> QED
          BY <5>1, <5>2, <2>17 DEF Spoken
      <4> QED
        BY <4>1, <4>2, <2>17
    <3>3. SpeechesOf(p)' =
            SpeechesOf(p) \cup (IF spoken /\ p \in c.from .. c.to - 1 THEN {Len(out')} ELSE {})
      <4>1. ASSUME NEW j \in Spoken
            PROVE  j \in SpeechesOf(p)' <=> j \in SpeechesOf(p)
        BY <2>12 DEF SpeechesOf
      <4>2. spoken => (Len(out') \in SpeechesOf(p)' <=> p \in c.from .. c.to - 1)
        BY <3>2, <2>1 DEF SpeechesOf
      <4>3. /\ SpeechesOf(p)' \subseteq Spoken \cup (IF spoken THEN {Len(out')} ELSE {})
            /\ SpeechesOf(p) \subseteq Spoken
        BY <2>11, <3>2 DEF SpeechesOf
      <4>4. spoken => Len(out') \notin Spoken
        BY <3>2, <2>9, <2>12
      <4> QED
        BY <4>1, <4>2, <4>3, <4>4
    <3>4. IF p < seg /\ p - SolidOf(text, p) < BufSize - 1 /\ ~Lost(SolidOf(text, p))
          THEN \E j \in Spoken : SpeechesOf(p) = {j}
          ELSE SpeechesOf(p) = {}
      BY <3>1, <1>1, <1>10 DEF WalkInv, LettersSpoken
    <3>5. CASE p < seg
      <4>1. p \notin c.from .. c.to - 1
        BY <3>5, <2>2, <1>7
      <4>2. SpeechesOf(p)' = SpeechesOf(p) /\ p < seg'
        BY <4>1, <3>3, <3>5, <1>7, <1>8
      <4>3. Lost(SolidOf(text, p))' <=> Lost(SolidOf(text, p))
        <5>1. SolidOf(text, p) # c.from
          BY <3>1, <3>5, <2>1, <2>2, <1>7, SolidBefore
        <5>2. \A f \in faults' : f.at = SolidOf(text, p) => f \in faults
          BY <5>1, <2>6
        <5> QED
          BY <5>2, <2>6, <1>4 DEF Lost
      <4> QED
        BY <4>2, <4>3, <3>4, <3>5, <2>12
    <3>6. CASE p \in seg .. seg' - 1
      <4>1. /\ p \in c.from .. c.to - 1 <=> p - SolidOf(text, p) < BufSize - 1
            /\ SolidOf(text, p) = c.from
        BY <3>1, <3>6, <2>1, <1>2, <1>4, <1>5, LetterSpoken
      <4>2. p < seg' /\ ~(p < seg)
        <5>1. p \in g .. h - 1
          BY <3>6, <1>15
        <5>2. p < h /\ ~(p < g)
          BY <5>1
        <5> QED
          BY <5>2, <1>15
      <4>3. SpeechesOf(p) = {}
        BY <4>2, <3>4
      <4>4. Lost(SolidOf(text, p))' <=> ~spoken
        <5>1. \A f \in faults : f.at # c.from
          <6>1. \A f \in faults : f.at \in Nat /\ f.at < seg
            BY <1>1, <1>10 DEF WalkInv, FaultsBehind
          <6> QED
            BY <6>1, <2>1, <2>2, <1>7
        <5>2. Lost(SolidOf(text, p))' <=> \E f \in faults' : f.at = c.from /\ f.kind # "pause"
          BY <4>1, <1>4 DEF Lost
        <5> QED
          BY <5>1, <5>2, <3>2
      <4> QED
        BY <4>1, <4>2, <4>3, <4>4, <3>2, <3>3
    <3>7. CASE p >= seg'
      <4>1. p \notin c.from .. c.to - 1 /\ ~(p < seg) /\ ~(p < seg')
        BY <3>7, <2>1, <2>2, <1>7, <1>8
      <4> QED
        BY <4>1, <3>3, <3>4
    <3>8. p < seg \/ p \in seg .. seg' - 1 \/ p >= seg'
      <4>1. PICK len \in Nat : len = Len(text)
        BY <1>7
      <4>2. p \in 0 .. len - 1
        BY <4>1
      <4>3. p < g \/ p \in g .. h - 1 \/ p >= h
        BY <4>2
      <4> QED
        BY <4>3, <1>15
    <3> QED
      BY <3>5, <3>6, <3>7, <3>8
  <2>16. Paused'
    <3>1. SUFFICES ASSUME faults' = {} PROVE
               /\ Len(out') % 2 = 1
               /\ \A j \in 1 .. Len(out') :
                    out'[j].kind = (IF j % 2 = 1 THEN "speech" ELSE "pause")
      BY <2>9 DEF Paused
    <3>2. faults = {} /\ (emitted <=> out # <<>>) /\ out'[Len(out')] = a
      BY <3>1, <2>6, <1>4, <1>5 DEF Standing
    <3>3. /\ out # <<>> => Len(out) % 2 = 1
          /\ \A j \in 1 .. Len(out) :
               out[j].kind = (IF j % 2 = 1 THEN "speech" ELSE "pause")
      BY <3>2, <2>9, <1>1 DEF WalkInv, Paused
    <3>4. CASE ~emitted
      <4>0. out = <<>> /\ ms = 0
        BY <3>2, <3>4, <2>4
      <4>1. Len(out) = 0 /\ Len(out') = 1 /\ out'[1] = a
        <5>1. n = 0 /\ m = 1
          BY <4>0, <3>1, <2>17
        <5> QED
          BY <5>1, <3>1, <2>17
      <4> QED
        BY <4>1, <2>10
    <3>5. CASE emitted
      <4>1. /\ Len(out) % 2 = 1 /\ Len(out') = Len(out) + 2
            /\ out'[Len(out) + 1] = Pause(ms)
        BY <3>1, <3>2, <3>3, <3>5, <2>4, <2>6
      <4>2. n \in Nat /\ n = Len(out) /\ n % 2 = 1
        BY <4>1, <2>17
      <4>4. (n + 1) % 2 = 0 /\ (n + 2) % 2 = 1
        BY <4>2
      <4>5. ASSUME NEW j \in 1 .. n + 2
            PROVE  out'[j].kind = (IF j % 2 = 1 THEN "speech" ELSE "pause")
        <5>1. CASE j \in 1 .. n
          BY <5>1, <4>2, <3>3, <2>6
        <5>2. CASE j = n + 1
          BY <5>2, <4>1, <4>2, <4>4, <2>10
        <5>3. CASE j = n + 2
          BY <5>3, <4>1, <4>2, <4>4, <3>2, <2>10
        <5> QED
          BY <5>1, <5>2, <5>3, <4>2
      <4> QED
        BY <4>1, <4>2, <4>4, <4>5
    <3> QED
      BY <3>4, <3>5
  <2>19. LongPauses'
    <3>1. SUFFICES ASSUME NEW j \in 1 .. m, out'[j].kind = "pause", out'[j].ms = ParaSilence,
                          NEW i \in Spoken', i < j
                   PROVE  \E r \in out'[i].span.from .. seg' - 1 :
                            /\ text[r + 1] = Newline
                            /\ \A k \in Spoken' : j < k => r < out'[k].span.from
      BY <2>17, <1>4, <1>10 DEF LongPauses
    <3>2. /\ i \in Spoken /\ i \in 1 .. n /\ out'[i] = out[i]
          /\ out[i].span.from \in Nat /\ out[i].span.to \in Nat
          /\ out[i].span.from < out[i].span.to /\ out[i].span.to <= seg
      <4>1. i # m \/ i <= n
        BY <3>1, <2>17
      <4> QED
        BY <4>1, <3>1, <2>11, <2>12, <2>17
    <3>3. \A k \in Spoken' :
          \/ k \in Spoken /\ k \in 1 .. n /\ out'[k] = out[k]
          \/ out'[k].span.from = c.from
      BY <2>1, <2>11, <2>12, <2>17
    <3>4. CASE j <= n
      <4>1. j \in DOMAIN out /\ out'[j] = out[j]
        BY <3>4, <3>1, <2>17
      <4>2. PICK r \in out[i].span.from .. seg - 1 :
              /\ text[r + 1] = Newline
              /\ \A k \in Spoken : j < k => r < out[k].span.from
        BY <4>1, <3>1, <3>2, <1>1, <1>10 DEF WalkInv, LongPauses
      <4>3. r \in out'[i].span.from .. seg' - 1 /\ r < c.from
        BY <3>2, <2>1, <2>2, <1>7, <1>8
      <4> QED
        BY <4>2, <4>3, <3>3
    <3>5. CASE j > n
      <4>1. out'[j] = Pause(ms)
        BY <3>1, <3>5, <2>10, <2>17
      <4>2. ms = ParaSilence /\ seg = para.from
        <5>1. ms = ParaSilence /\ ParaSilence # 0
          BY <4>1, <3>1, <2>10, SilenceAssumption
        <5> QED
          BY <5>1, <2>4
      <4>3. seg # 0 /\ text[(seg - 1) + 1] = Newline
        BY <4>2, <3>2, <1>7, <1>13 DEF Opens
      <4>4. seg - 1 \in out'[i].span.from .. seg' - 1 /\ seg - 1 < c.from
        <5>1. PICK from \in Nat, to \in Nat :
                from = out[i].span.from /\ to = out[i].span.to /\ from < to /\ to <= g
          BY <3>2, <1>15
        <5>2. g - 1 \in from .. g - 1
          BY <5>1
        <5>3. g - 1 \in from .. h - 1
          BY <5>1, <5>2, <1>15, Widens
        <5>4. PICK d \in Nat : d = c.from /\ g <= d
          BY <2>1, <2>2, <1>15
        <5>5. g - 1 < d
          BY <5>4
        <5> QED
          BY <5>1, <5>3, <5>4, <5>5, <3>2, <1>15
      <4>5. \A k \in Spoken' : j < k => seg - 1 < out'[k].span.from
        <5>1. \A k \in 1 .. n : ~(j < k)
          BY <3>1, <3>5, <2>17
        <5> QED
          BY <5>1, <4>4, <3>3
      <4> QED
        BY <4>3, <4>4, <4>5
    <3> QED
      BY <3>1, <3>4, <3>5, <2>17
  <2> QED
    BY <2>7, <2>8, <2>13, <2>14, <2>15, <2>16, <2>18, <2>19 DEF WalkInv
<1> QED
  BY <1>11, <1>12

(* The walk preserves its invariant, and so does what leaves it alone.     *)
LEMMA WalkStep == WalkInv /\ DocStep => WalkInv'
BY WalkNextParagraph, WalkNextSegment, WalkEndParagraph, WalkEndDocument DEF DocStep

(* The other steps of run().                                               *)
LEMMA WalkRests == WalkInv /\ UNCHANGED docVars => WalkInv'
<1>1. SUFFICES ASSUME WalkInv, UNCHANGED docVars PROVE WalkInv'
  OBVIOUS
<1>2. UNCHANGED <<text, doc, pos, para, seg, emitted, speed, out, faults>>
  BY <1>1 DEF docVars
<1>3. WalkType' /\ Standing'
  BY <1>1, <1>2 DEF WalkInv, WalkType, Standing, Opens
<1>4. Reached' = Reached /\ Reached \in Nat
  BY <1>1, <1>2 DEF WalkInv, WalkType, Reached
<1>5. SpokenWhole' /\ InOrder' /\ LettersSpoken' /\ FaultsBehind' /\ Paused' /\ LongPauses'
  BY <1>1, <1>2, <1>4, NothingSpoken
<1> QED
  BY <1>3, <1>5 DEF WalkInv

-----------------------------------------------------------------------------
(* What the invariant says of the document.                                *)

(* The operators of Document are those of this text.                       *)
LEMMA SentenceStartIs == \A p : SentenceStart(p) = StartOf(text, p)
BY DEF SentenceStart, StartOf, Boundary, At

(* Of the first solid character too.                                       *)
LEMMA FirstSolidIs == \A p : FirstSolid(p) = SolidOf(text, p)
BY SentenceStartIs DEF FirstSolid, SolidOf, At

(* What is spoken are sentences of the text, cut at the buffer if at all.  *)
THEOREM WalkIsWhole == WalkInv => SentencesWhole
<1>1. SUFFICES ASSUME WalkInv, NEW j \in Spoken
               PROVE  LET s == out[j].span
                      IN  /\ \A p \in s.from .. s.to - 1 : SentenceStart(p) = SentenceStart(s.from)
                          /\ \A p \in s.from .. s.to - 1 : At(p) # Newline
                          /\ out[j].term = Stop
                               <=> \E q \in s.from .. Size - 1 :
                                     At(q) = Stop /\ SentenceStart(q) = SentenceStart(s.from)
  BY DEF SentencesWhole
<1>2. WholeIn(text, out[j])
  BY <1>1 DEF WalkInv, SpokenWhole
<1> QED
  BY <1>2, SentenceStartIs DEF WholeIn, At, Size

(* At the end each letter that fits, of a sentence that did not fail, has  *)
(* been spoken once, and no other.                                         *)
THEOREM WalkSpeaksAll == WalkInv => EveryLetterOnce
<1>1. SUFFICES ASSUME WalkInv, doc = "end" PROVE
          /\ \A p \in Positions : At(p) = Letter =>
               Cardinality(SpeechesOf(p)) =
                 (IF p - FirstSolid(p) < BufSize - 1 /\ ~Lost(FirstSolid(p)) THEN 1 ELSE 0)
          /\ \A j, k \in Spoken : j < k => out[j].span.to <= out[k].span.from
  BY DEF EveryLetterOnce
<1>2. Reached = Len(text)
  BY <1>1 DEF Reached
<1>3. ASSUME NEW p \in Positions, At(p) = Letter
      PROVE  Cardinality(SpeechesOf(p)) =
               (IF p - FirstSolid(p) < BufSize - 1 /\ ~Lost(FirstSolid(p)) THEN 1 ELSE 0)
  <2>1. /\ p \in 0 .. Len(text) - 1 /\ text[p + 1] = Letter
        /\ Len(text) \in Nat /\ FirstSolid(p) = SolidOf(text, p)
    BY <1>1, <1>3, FirstSolidIs DEF Positions, Size, At, WalkInv, WalkType
  <2>2. IF p - FirstSolid(p) < BufSize - 1 /\ ~Lost(FirstSolid(p))
        THEN \E j \in Spoken : SpeechesOf(p) = {j} ELSE SpeechesOf(p) = {}
    BY <2>1, <1>1, <1>2 DEF WalkInv, LettersSpoken
  <2>3. ASSUME NEW j PROVE Cardinality({j}) = 1
    BY FS_Singleton
  <2> QED
    BY <2>2, <2>3, FS_EmptySet
<1> QED
  BY <1>1, <1>3 DEF WalkInv, InOrder

(* Two sentences have one pause between them when nothing failed; behind   *)
(* a longer one there is another paragraph, whatever failed.               *)
THEOREM WalkPauses == WalkInv => PausesBetween
<1>1. ASSUME WalkInv, faults = {}, NEW j \in DOMAIN out
      PROVE  out[j].kind = (IF j % 2 = 1 THEN "speech" ELSE "pause")
  BY <1>1 DEF WalkInv, Paused
<1>2. ASSUME WalkInv, NEW j \in DOMAIN out, out[j].kind = "pause", out[j].ms = ParaSilence,
             NEW i \in Spoken, NEW k \in Spoken, i < j, j < k,
             SameParagraph(out[i].span.from, out[k].span.from)
      PROVE  FALSE
  <2>1. /\ out[i].span.from \in Nat /\ out[k].span.from \in Nat
        /\ Reached \in Nat
    BY <1>2 DEF WalkInv, WalkType, Reached, Spoken, Pieces, Speeches, Pauses
  <2>2. PICK r \in out[i].span.from .. Reached - 1 :
          text[r + 1] = Newline /\ r < out[k].span.from
    BY <1>2 DEF WalkInv, LongPauses
  <2>3. r \in out[i].span.from .. out[k].span.from
    BY <2>1, <2>2
  <2> QED
    BY <2>2, <2>3, <1>2 DEF SameParagraph, At
<1> QED
  BY <1>1, <1>2 DEF PausesBetween


-----------------------------------------------------------------------------
(* The run.                                                                *)

Loading == {"spill", "phonemizer", "model", "unlink"}
Speaking == {"synth", "output", "feed", "wait", "free_audio"}
Leaving == {"destroy_tts", "destroy_phon", "free_text"}

(* A file is on disk only between its spill and unlink(); while files are  *)
(* spilled those that were named are there.                                *)
Files ==
  /\ \A t \in Temps : disk[t] # "absent" => t \in named /\ pc \in Loading \cup {"aborted"}
  /\ pc \in {"args", "input"} => named = {} /\ ~spilled
  /\ pc = "spill" =>
       /\ ~spilled
       /\ named \in {{}, {"en_rules"}, {"en_rules", "en_list"}}
       /\ \A t \in named : disk[t] # "absent"
  /\ pc \in {"phonemizer", "model"} /\ spilled => \A t \in Temps : disk[t] # "absent"

(* The path of a file that was not spilled is used by unlink() only, in a  *)
(* run that speaks nothing.                                                *)
Straying ==
  /\ spilled => named = Temps
  /\ pc \in {"args", "input"} \cup Loading => stray = "none"
  /\ pc \in {"voice", "done"} \cup Speaking \cup Leaving =>
       (stray = "none" <=> named \in {{}, Temps})
  /\ pc \in Speaking => stray = "none" /\ named = Temps
  /\ pc \in {"phonemizer", "model", "unlink"} => named # {}
  /\ doc # "off" => named = Temps
  /\ stray # "none" => named # Temps /\ (pc \in Leaving \cup {"done"} => rc = 1)

(* Which resources are held at which place.                                *)
Holding ==
  /\ pc \in {"args", "input", "done"} => \A r \in Resources : owned[r] = 0
  /\ pc \notin Speaking \cup {"aborted", "killed"} => owned["audio"] = 0
  /\ pc \in {"spill", "phonemizer"} => owned["phon"] = 0
  /\ pc \in {"spill", "phonemizer", "model"} => owned["tts"] = 0
  /\ pc \in Loading \cup {"voice"} \cup Speaking /\ fromFile => owned["text"] = 1
  /\ pc \in Speaking => /\ owned["phon"] = 1 /\ owned["tts"] = 1
                        /\ owned["audio"] = (IF out = <<>> THEN 0 ELSE 1)
  /\ pc \in {"destroy_phon", "free_text"} => owned["tts"] = 0
  /\ pc = "free_text" => owned["phon"] = 0

(* The walk begins when everything is there.                               *)
Walking == pc \notin Speaking \cup Leaving \cup {"done", "killed"} => doc = "off"

(* An output through ffmpeg ends well only when ffmpeg does.               *)
Piping ==
  /\ pc \notin {"feed", "wait", "free_audio", "done", "killed"} \cup Leaving => ffmpeg = "none"
  /\ ffmpeg = "ok" => wav \/ result = "whole"
  /\ pc \in {"free_audio", "done"} \cup Leaving /\ rc = 0 /\ ~wav /\ doc = "end" =>
       ffmpeg = "ok"

RunInv == TypeOK /\ WalkInv /\ Files /\ Straying /\ Holding /\ Walking /\ Piping

-----------------------------------------------------------------------------

(* The next file to spill.                                                 *)
LEMMA NextTemp ==
  /\ Order[Cardinality({}) + 1] = "en_rules"
  /\ Order[Cardinality({"en_rules"}) + 1] = "en_list"
  /\ Order[Cardinality({"en_rules", "en_list"}) + 1] = "model.gguf"
<1>1. Cardinality({}) = 0 /\ IsFiniteSet({})
  BY FS_EmptySet
<1>2. Cardinality({"en_rules"}) = 1 /\ IsFiniteSet({"en_rules"})
  BY FS_Singleton
<1>3. Cardinality({"en_rules"} \cup {"en_list"}) = 2
  BY <1>2, FS_AddElement
<1>4. {"en_rules", "en_list"} = {"en_rules"} \cup {"en_list"}
  OBVIOUS
<1> QED
  BY <1>1, <1>2, <1>3, <1>4 DEF Order

(* At the start nothing is held and no file is there.                      *)
LEMMA RunInit == Init => RunInv
<1>1. SUFFICES ASSUME Init PROVE RunInv
  OBVIOUS
<1>2. WalkInv
  BY <1>1, WalkInit DEF Init
<1>3. TypeOK
  <2>1. pos \in 0 .. Size /\ seg \in 0 .. Size /\ doc \in {"off", "between", "inside", "end"}
    BY <1>2 DEF WalkInv, WalkType, Size
  <2>2. left \in 0 .. MaxFlush /\ pipe \in 0 .. PipeSize
    BY <1>1, PipeAssumption DEF Init
  <2>3. disk \in [Temps -> {"absent", "whole", "cut"}] /\ owned \in [Resources -> 0 .. 1]
    BY <1>1 DEF Init
  <2>4. named \subseteq Temps /\ rc \in 0 .. 2
    BY <1>1 DEF Init
  <2>5. /\ fromFile \in BOOLEAN /\ wav \in BOOLEAN /\ spilled \in BOOLEAN
        /\ stray \in {"none", "nothing", "removed"}
    BY <1>1 DEF Init
  <2> QED
    BY <2>1, <2>2, <2>3, <2>4, <2>5, <1>1 DEF Init, TypeOK
<1>4. Files /\ Straying /\ Holding /\ Walking /\ Piping
  BY <1>1 DEF Init, DocInit, Files, Straying, Holding, Walking, Piping, Loading, Speaking, Leaving,
              Temps, Resources
<1> QED
  BY <1>2, <1>3, <1>4 DEF RunInv

(* A usage error ends before anything is held.                             *)
LEMMA RunArguments == RunInv /\ Arguments => RunInv'
<1>1. SUFFICES ASSUME RunInv, Arguments PROVE RunInv'
  OBVIOUS
<1>2. WalkInv'
  BY <1>1, WalkRests DEF RunInv, Arguments
<1>3. TypeOK'
  BY <1>1 DEF RunInv, Arguments, TypeOK, docVars, sinkVars, Size, Final
<1>4. Files' /\ Straying' /\ Holding' /\ Walking' /\ Piping'
  BY <1>1 DEF RunInv, TypeOK, Arguments, docVars, sinkVars, Files, Straying, Holding, Walking,
              Piping, Loading, Speaking, Leaving, Temps, Resources
<1> QED
  BY <1>2, <1>3, <1>4 DEF RunInv

(* From -f the text is held, from -p it is not ours to free.               *)
LEMMA RunInput == RunInv /\ Input => RunInv'
<1>1. SUFFICES ASSUME RunInv, Input PROVE RunInv'
  OBVIOUS
<1>2. WalkInv'
  BY <1>1, WalkRests DEF RunInv, Input
<1>3. \A r \in Resources : owned[r] = 0
  BY <1>1 DEF RunInv, Holding, Input
<1>4. PICK slurped \in BOOLEAN :
        /\ pc = "input"
        /\ slurped => fromFile
        /\ owned' = [owned EXCEPT !["text"] = IF slurped THEN 1 ELSE @]
        /\ \/ pc' = "free_text" /\ rc' \in {1, 2}
           \/ pc' = "spill" /\ rc' = rc /\ (fromFile => slurped)
        /\ UNCHANGED <<fromFile, wav, named, disk, spilled, stray, docVars, sinkVars>>
  BY <1>1, <1>3 DEF RunInv, TypeOK, Input, Alloc, Resources
<1>9. /\ named = {} /\ ~spilled /\ \A t \in Temps : disk[t] = "absent"
      /\ doc = "off" /\ ffmpeg = "none" /\ pc' \in {"free_text", "spill"} /\ stray = "none"
  <2>1. pc = "input"
    BY <1>4
  <2>2. named = {} /\ ~spilled /\ \A t \in Temps : disk[t] = "absent"
    BY <2>1, <1>1 DEF RunInv, Files, Loading
  <2>3. doc = "off" /\ ffmpeg = "none" /\ stray = "none"
    BY <2>1, <1>1 DEF RunInv, Walking, Straying, Piping, Speaking, Leaving
  <2> QED
    BY <2>2, <2>3, <1>4
<1>10. UNCHANGED <<named, spilled, stray, disk, doc, ffmpeg>>
  BY <1>4 DEF docVars, sinkVars
<1>5. TypeOK'
  BY <1>1, <1>4 DEF RunInv, TypeOK, docVars, sinkVars, Size, Resources
<1>6. Files'
  BY <1>9, <1>10 DEF Files
<1>8. Walking' /\ Piping'
  BY <1>9, <1>10 DEF Walking, Piping, Leaving
<1>7. Holding'
  BY <1>1, <1>3, <1>4 DEF RunInv, TypeOK, Holding, Loading, Speaking, Resources
<1>11. Straying'
  BY <1>9, <1>10 DEF Straying, Loading, Speaking, Leaving, Temps
<1> QED
  BY <1>2, <1>5, <1>6, <1>7, <1>8, <1>11 DEF RunInv

(* A loader gives its handle, or none, or aborts.                          *)
LEMMA RunLoadPhonemizer == RunInv /\ LoadPhonemizer => RunInv'
<1>1. SUFFICES ASSUME RunInv, LoadPhonemizer PROVE RunInv'
  OBVIOUS
<1>2. WalkInv'
  BY <1>1, WalkRests DEF RunInv, LoadPhonemizer, Load, Alloc
<1>3. TypeOK'
  BY <1>1 DEF RunInv, Holding, LoadPhonemizer, Load, Alloc, TypeOK, docVars, sinkVars, Size,
              Final, Temps, Resources
<1>4. Files'
  BY <1>1 DEF RunInv, LoadPhonemizer, Load, Alloc, Files, Loading
<1>7. Straying'
  BY <1>1 DEF RunInv, LoadPhonemizer, Load, Alloc, docVars, Files, Straying, Loading,
              Speaking, Leaving, Temps
<1>5. Holding'
  BY <1>1 DEF RunInv, TypeOK, LoadPhonemizer, Load, Alloc, docVars, sinkVars, Holding,
              Loading, Speaking, Leaving, Resources
<1>6. Walking' /\ Piping'
  BY <1>1 DEF RunInv, TypeOK, LoadPhonemizer, Load, Alloc, docVars, sinkVars, Walking, Piping,
              Speaking, Leaving
<1> QED
  BY <1>2, <1>3, <1>4, <1>5, <1>6, <1>7 DEF RunInv

(* So does the other one.                                                  *)
LEMMA RunLoadModel == RunInv /\ LoadModel => RunInv'
<1>1. SUFFICES ASSUME RunInv, LoadModel PROVE RunInv'
  OBVIOUS
<1>2. WalkInv'
  BY <1>1, WalkRests DEF RunInv, LoadModel, Load, Alloc
<1>3. TypeOK'
  BY <1>1 DEF RunInv, Holding, LoadModel, Load, Alloc, TypeOK, docVars, sinkVars, Size, Final,
              Temps, Resources
<1>4. Files'
  BY <1>1 DEF RunInv, LoadModel, Load, Alloc, Files, Loading
<1>7. Straying'
  BY <1>1 DEF RunInv, LoadModel, Load, Alloc, docVars, Files, Straying, Loading,
              Speaking, Leaving, Temps
<1>5. Holding'
  BY <1>1 DEF RunInv, TypeOK, LoadModel, Load, Alloc, docVars, sinkVars, Holding,
              Loading, Speaking, Leaving, Resources
<1>6. Walking' /\ Piping'
  BY <1>1 DEF RunInv, TypeOK, LoadModel, Load, Alloc, docVars, sinkVars, Walking, Piping,
              Speaking, Leaving
<1> QED
  BY <1>2, <1>3, <1>4, <1>5, <1>6, <1>7 DEF RunInv

(* The files are gone, and nothing needs them any more.                    *)
LEMMA RunUnlink == RunInv /\ Unlink => RunInv'
<1>1. SUFFICES ASSUME RunInv, Unlink PROVE RunInv'
  OBVIOUS
<1>2. WalkInv'
  BY <1>1, WalkRests DEF RunInv, Unlink, Goto
<1>3. TypeOK'
  BY <1>1 DEF RunInv, Unlink, Goto, TypeOK, docVars, sinkVars, Size, Final, Temps, Resources
<1>4. Files'
  BY <1>1 DEF RunInv, Unlink, Goto, Files, Loading, Temps
<1>7. Straying'
  BY <1>1 DEF RunInv, Unlink, Goto, docVars, Files, Straying, Loading,
              Speaking, Leaving, Temps
<1>5. Holding'
  BY <1>1 DEF RunInv, TypeOK, Unlink, Goto, docVars, sinkVars, Holding,
              Loading, Speaking, Leaving, Resources
<1>6. Walking' /\ Piping'
  BY <1>1 DEF RunInv, TypeOK, Unlink, Goto, docVars, sinkVars, Walking, Piping, Speaking,
              Leaving
<1> QED
  BY <1>2, <1>3, <1>4, <1>5, <1>6, <1>7 DEF RunInv

(* The walk begins with both engines, or the way out begins.               *)
LEMMA RunCheckInit == RunInv /\ CheckInit => RunInv'
<1>1. SUFFICES ASSUME RunInv, CheckInit PROVE RunInv'
  OBVIOUS
<1>2. WalkInv'
  BY <1>1, WalkRests DEF RunInv, CheckInit
<1>3. TypeOK'
  BY <1>1 DEF RunInv, CheckInit, TypeOK, docVars, sinkVars, Size, Final, Temps, Resources
<1>4. Files'
  BY <1>1 DEF RunInv, CheckInit, Files, Loading
<1>7. Straying'
  BY <1>1 DEF RunInv, CheckInit, docVars, Files, Straying, Loading,
              Speaking, Leaving, Temps
<1>5. Holding'
  BY <1>1 DEF RunInv, TypeOK, CheckInit, docVars, sinkVars, Walking, WalkInv, Standing, Holding,
              Loading, Speaking, Leaving, Resources
<1>6. Walking' /\ Piping'
  BY <1>1 DEF RunInv, TypeOK, CheckInit, docVars, sinkVars, Walking, Piping, Speaking, Leaving
<1> QED
  BY <1>2, <1>3, <1>4, <1>5, <1>6, <1>7 DEF RunInv

(* Nothing to write.                                                       *)
LEMMA RunNoAudio == RunInv /\ NoAudio => RunInv'
<1>1. SUFFICES ASSUME RunInv, NoAudio PROVE RunInv'
  OBVIOUS
<1>2. WalkInv'
  BY <1>1, WalkRests DEF RunInv, NoAudio
<1>3. TypeOK'
  BY <1>1 DEF RunInv, NoAudio, TypeOK, docVars, sinkVars, Size, Final, Temps, Resources
<1>4. Files'
  BY <1>1 DEF RunInv, NoAudio, Files, Loading
<1>7. Straying'
  BY <1>1 DEF RunInv, NoAudio, docVars, Files, Straying, Loading,
              Speaking, Leaving, Temps
<1>5. Holding'
  BY <1>1 DEF RunInv, TypeOK, NoAudio, docVars, sinkVars, Holding,
              Loading, Speaking, Leaving, Resources
<1>6. Walking' /\ Piping'
  BY <1>1 DEF RunInv, TypeOK, NoAudio, docVars, sinkVars, Walking, Piping, Speaking, Leaving
<1> QED
  BY <1>2, <1>3, <1>4, <1>5, <1>6, <1>7 DEF RunInv

(* The output without ffmpeg: any result.                                  *)
LEMMA RunWriteWav == RunInv /\ WriteWav => RunInv'
<1>1. SUFFICES ASSUME RunInv, WriteWav PROVE RunInv'
  OBVIOUS
<1>2. WalkInv'
  BY <1>1, WalkRests DEF RunInv, WriteWav
<1>3. TypeOK'
  BY <1>1 DEF RunInv, WriteWav, TypeOK, docVars, sinkVars, Size, Final, Temps, Resources
<1>4. Files'
  BY <1>1 DEF RunInv, WriteWav, Files, Loading
<1>7. Straying'
  BY <1>1 DEF RunInv, WriteWav, docVars, Files, Straying, Loading,
              Speaking, Leaving, Temps
<1>5. Holding'
  BY <1>1 DEF RunInv, TypeOK, WriteWav, docVars, sinkVars, Holding,
              Loading, Speaking, Leaving, Resources
<1>6. Walking' /\ Piping'
  BY <1>1 DEF RunInv, TypeOK, WriteWav, docVars, sinkVars, Walking, Piping, Speaking, Leaving
<1> QED
  BY <1>2, <1>3, <1>4, <1>5, <1>6, <1>7 DEF RunInv

(* The pipe is opened before anything is fed to it.                        *)
LEMMA RunOpenPipe == RunInv /\ OpenPipe => RunInv'
<1>1. SUFFICES ASSUME RunInv, OpenPipe PROVE RunInv'
  OBVIOUS
<1>2. WalkInv'
  BY <1>1, WalkRests DEF RunInv, OpenPipe
<1>3. TypeOK'
  BY <1>1 DEF RunInv, OpenPipe, TypeOK, docVars, sinkVars, Size, Final, Temps, Resources
<1>4. Files'
  BY <1>1 DEF RunInv, OpenPipe, Files, Loading
<1>7. Straying'
  BY <1>1 DEF RunInv, OpenPipe, docVars, Files, Straying, Loading,
              Speaking, Leaving, Temps
<1>5. Holding'
  BY <1>1 DEF RunInv, TypeOK, OpenPipe, docVars, sinkVars, Holding,
              Loading, Speaking, Leaving, Resources
<1>6. Walking' /\ Piping'
  BY <1>1 DEF RunInv, TypeOK, OpenPipe, docVars, sinkVars, Walking, Piping, Speaking, Leaving
<1> QED
  BY <1>2, <1>3, <1>4, <1>5, <1>6, <1>7 DEF RunInv

(* A full pipe is waited for.                                              *)
LEMMA RunFeed == RunInv /\ Feed => RunInv'
<1>1. SUFFICES ASSUME RunInv, Feed PROVE RunInv'
  OBVIOUS
<1>2. WalkInv'
  BY <1>1, WalkRests DEF RunInv, Feed
<1>3. TypeOK'
  BY <1>1, PipeAssumption DEF RunInv, Feed, TypeOK, docVars, sinkVars, Size, Final, Temps,
              Resources
<1>4. Files'
  BY <1>1 DEF RunInv, Feed, Files, Loading
<1>7. Straying'
  BY <1>1 DEF RunInv, Feed, docVars, Files, Straying, Loading,
              Speaking, Leaving, Temps
<1>5. Holding'
  BY <1>1 DEF RunInv, TypeOK, Feed, docVars, sinkVars, Holding,
              Loading, Speaking, Leaving, Resources
<1>6. Walking' /\ Piping'
  BY <1>1 DEF RunInv, TypeOK, Feed, docVars, sinkVars, Walking, Piping, Speaking, Leaving
<1> QED
  BY <1>2, <1>3, <1>4, <1>5, <1>6, <1>7 DEF RunInv

(* Only a running ffmpeg sees its input end.                               *)
LEMMA RunClosePipe == RunInv /\ ClosePipe => RunInv'
<1>1. SUFFICES ASSUME RunInv, ClosePipe PROVE RunInv'
  OBVIOUS
<1>2. WalkInv'
  BY <1>1, WalkRests DEF RunInv, ClosePipe
<1>3. TypeOK'
  BY <1>1 DEF RunInv, ClosePipe, TypeOK, docVars, sinkVars, Size, Final, Temps, Resources
<1>4. Files'
  BY <1>1 DEF RunInv, ClosePipe, Files, Loading
<1>7. Straying'
  BY <1>1 DEF RunInv, ClosePipe, docVars, Files, Straying, Loading,
              Speaking, Leaving, Temps
<1>5. Holding'
  BY <1>1 DEF RunInv, TypeOK, ClosePipe, docVars, sinkVars, Holding,
              Loading, Speaking, Leaving, Resources
<1>6. Walking' /\ Piping'
  BY <1>1 DEF RunInv, TypeOK, ClosePipe, docVars, sinkVars, Walking, Piping, Speaking, Leaving
<1> QED
  BY <1>2, <1>3, <1>4, <1>5, <1>6, <1>7 DEF RunInv

(* Exit code 0 asks that ffmpeg succeeded.                                 *)
LEMMA RunWaitPipe == RunInv /\ WaitPipe => RunInv'
<1>1. SUFFICES ASSUME RunInv, WaitPipe PROVE RunInv'
  OBVIOUS
<1>2. WalkInv'
  BY <1>1, WalkRests DEF RunInv, WaitPipe
<1>3. TypeOK'
  BY <1>1 DEF RunInv, WaitPipe, TypeOK, docVars, sinkVars, Size, Final, Temps, Resources
<1>4. Files'
  BY <1>1 DEF RunInv, WaitPipe, Files, Loading
<1>7. Straying'
  BY <1>1 DEF RunInv, WaitPipe, docVars, Files, Straying, Loading,
              Speaking, Leaving, Temps
<1>5. Holding'
  BY <1>1 DEF RunInv, TypeOK, WaitPipe, docVars, sinkVars, Holding,
              Loading, Speaking, Leaving, Resources
<1>6. Walking' /\ Piping'
  BY <1>1 DEF RunInv, TypeOK, WaitPipe, docVars, sinkVars, Walking, Piping, Speaking, Leaving
<1> QED
  BY <1>2, <1>3, <1>4, <1>5, <1>6, <1>7 DEF RunInv

(* The way out releases what is held, in turn.                             *)
LEMMA RunFreeAudio == RunInv /\ FreeAudio => RunInv'
<1>1. SUFFICES ASSUME RunInv, FreeAudio PROVE RunInv'
  OBVIOUS
<1>2. WalkInv'
  BY <1>1, WalkRests DEF RunInv, FreeAudio, Release, Goto, Free
<1>3. TypeOK'
  BY <1>1 DEF RunInv, FreeAudio, Release, Goto, Free, TypeOK, docVars, sinkVars, Size, Final,
              Temps, Resources
<1>4. Files'
  BY <1>1 DEF RunInv, FreeAudio, Release, Goto, Free, Files, Loading
<1>7. Straying'
  BY <1>1 DEF RunInv, FreeAudio, Release, Goto, Free, docVars, Files, Straying, Loading,
              Speaking, Leaving, Temps
<1>5. Holding'
  BY <1>1 DEF RunInv, TypeOK, FreeAudio, Release, Goto, Free, docVars, sinkVars, Holding,
              Loading, Speaking, Leaving, Resources
<1>6. Walking' /\ Piping'
  BY <1>1 DEF RunInv, TypeOK, FreeAudio, Release, Goto, Free, docVars, sinkVars, Walking,
              Piping, Speaking, Leaving
<1> QED
  BY <1>2, <1>3, <1>4, <1>5, <1>6, <1>7 DEF RunInv

(* The model.                                                              *)
LEMMA RunDestroyModel == RunInv /\ DestroyModel => RunInv'
<1>1. SUFFICES ASSUME RunInv, DestroyModel PROVE RunInv'
  OBVIOUS
<1>2. WalkInv'
  BY <1>1, WalkRests DEF RunInv, DestroyModel, Release, Goto, Free
<1>3. TypeOK'
  BY <1>1 DEF RunInv, DestroyModel, Release, Goto, Free, TypeOK, docVars, sinkVars, Size, Final,
              Temps, Resources
<1>4. Files'
  BY <1>1 DEF RunInv, DestroyModel, Release, Goto, Free, Files, Loading
<1>7. Straying'
  BY <1>1 DEF RunInv, DestroyModel, Release, Goto, Free, docVars, Files, Straying, Loading,
              Speaking, Leaving, Temps
<1>5. Holding'
  BY <1>1 DEF RunInv, TypeOK, DestroyModel, Release, Goto, Free, docVars, sinkVars, Holding,
              Loading, Speaking, Leaving, Resources
<1>6. Walking' /\ Piping'
  BY <1>1 DEF RunInv, TypeOK, DestroyModel, Release, Goto, Free, docVars, sinkVars, Walking,
              Piping, Speaking, Leaving
<1> QED
  BY <1>2, <1>3, <1>4, <1>5, <1>6, <1>7 DEF RunInv

(* The phonemizer.                                                         *)
LEMMA RunDestroyPhon == RunInv /\ DestroyPhon => RunInv'
<1>1. SUFFICES ASSUME RunInv, DestroyPhon PROVE RunInv'
  OBVIOUS
<1>2. WalkInv'
  BY <1>1, WalkRests DEF RunInv, DestroyPhon, Release, Goto, Free
<1>3. TypeOK'
  BY <1>1 DEF RunInv, DestroyPhon, Release, Goto, Free, TypeOK, docVars, sinkVars, Size, Final,
              Temps, Resources
<1>4. Files'
  BY <1>1 DEF RunInv, DestroyPhon, Release, Goto, Free, Files, Loading
<1>7. Straying'
  BY <1>1 DEF RunInv, DestroyPhon, Release, Goto, Free, docVars, Files, Straying, Loading,
              Speaking, Leaving, Temps
<1>5. Holding'
  BY <1>1 DEF RunInv, TypeOK, DestroyPhon, Release, Goto, Free, docVars, sinkVars, Holding,
              Loading, Speaking, Leaving, Resources
<1>6. Walking' /\ Piping'
  BY <1>1 DEF RunInv, TypeOK, DestroyPhon, Release, Goto, Free, docVars, sinkVars, Walking,
              Piping, Speaking, Leaving
<1> QED
  BY <1>2, <1>3, <1>4, <1>5, <1>6, <1>7 DEF RunInv

(* The text; then nothing is held.                                         *)
LEMMA RunFreeText == RunInv /\ FreeText => RunInv'
<1>1. SUFFICES ASSUME RunInv, FreeText PROVE RunInv'
  OBVIOUS
<1>2. WalkInv'
  BY <1>1, WalkRests DEF RunInv, FreeText, Release, Goto, Free
<1>3. TypeOK'
  BY <1>1 DEF RunInv, FreeText, Release, Goto, Free, TypeOK, docVars, sinkVars, Size, Final,
              Temps, Resources
<1>4. Files'
  BY <1>1 DEF RunInv, FreeText, Release, Goto, Free, Files, Loading
<1>7. Straying'
  BY <1>1 DEF RunInv, FreeText, Release, Goto, Free, docVars, Files, Straying, Loading,
              Speaking, Leaving, Temps
<1>5. Holding'
  BY <1>1 DEF RunInv, TypeOK, FreeText, Release, Goto, Free, docVars, sinkVars, Holding,
              Loading, Speaking, Leaving, Resources
<1>6. Walking' /\ Piping'
  BY <1>1 DEF RunInv, TypeOK, FreeText, Release, Goto, Free, docVars, sinkVars, Walking, Piping,
              Speaking, Leaving
<1> QED
  BY <1>2, <1>3, <1>4, <1>5, <1>6, <1>7 DEF RunInv

(* ffmpeg runs beside run() and touches only the pipe, ...                 *)
LEMMA RunFfmpegReads == RunInv /\ FfmpegReads => RunInv'
<1>1. SUFFICES ASSUME RunInv, FfmpegReads PROVE RunInv'
  OBVIOUS
<1>2. WalkInv'
  BY <1>1, WalkRests DEF RunInv, FfmpegReads
<1>3. TypeOK'
  BY <1>1, PipeAssumption DEF RunInv, FfmpegReads, TypeOK, docVars, sinkVars, runVars, Size,
              Final, Temps, Resources
<1>4. Files'
  BY <1>1 DEF RunInv, FfmpegReads, runVars, Files, Loading
<1>7. Straying'
  BY <1>1 DEF RunInv, FfmpegReads, runVars, docVars, Files, Straying, Loading,
              Speaking, Leaving, Temps
<1>5. Holding'
  BY <1>1 DEF RunInv, TypeOK, FfmpegReads, docVars, sinkVars, runVars, Holding,
              Loading, Speaking, Leaving, Resources
<1>6. Walking' /\ Piping'
  BY <1>1 DEF RunInv, TypeOK, FfmpegReads, docVars, sinkVars, runVars, Walking, Piping,
              Speaking, Leaving
<1> QED
  BY <1>2, <1>3, <1>4, <1>5, <1>6, <1>7 DEF RunInv

(* ... succeeds only when its input has ended, ...                         *)
LEMMA RunFfmpegSucceeds == RunInv /\ FfmpegSucceeds => RunInv'
<1>1. SUFFICES ASSUME RunInv, FfmpegSucceeds PROVE RunInv'
  OBVIOUS
<1>2. WalkInv'
  BY <1>1, WalkRests DEF RunInv, FfmpegSucceeds
<1>3. TypeOK'
  BY <1>1 DEF RunInv, FfmpegSucceeds, TypeOK, docVars, sinkVars, runVars, Size, Final, Temps,
              Resources
<1>4. Files'
  BY <1>1 DEF RunInv, FfmpegSucceeds, runVars, Files, Loading
<1>7. Straying'
  BY <1>1 DEF RunInv, FfmpegSucceeds, runVars, docVars, Files, Straying, Loading,
              Speaking, Leaving, Temps
<1>5. Holding'
  BY <1>1 DEF RunInv, TypeOK, FfmpegSucceeds, docVars, sinkVars, runVars, Holding,
              Loading, Speaking, Leaving, Resources
<1>6. Walking' /\ Piping'
  BY <1>1 DEF RunInv, TypeOK, FfmpegSucceeds, docVars, sinkVars, runVars, Walking, Piping,
              Speaking, Leaving
<1> QED
  BY <1>2, <1>3, <1>4, <1>5, <1>6, <1>7 DEF RunInv

(* ... and may fail at any time.                                           *)
LEMMA RunFfmpegFails == RunInv /\ FfmpegFails => RunInv'
<1>1. SUFFICES ASSUME RunInv, FfmpegFails PROVE RunInv'
  OBVIOUS
<1>2. WalkInv'
  BY <1>1, WalkRests DEF RunInv, FfmpegFails
<1>3. TypeOK'
  BY <1>1, PipeAssumption DEF RunInv, FfmpegFails, TypeOK, docVars, sinkVars, runVars, Size,
              Final, Temps, Resources
<1>4. Files'
  BY <1>1 DEF RunInv, FfmpegFails, runVars, Files, Loading
<1>7. Straying'
  BY <1>1 DEF RunInv, FfmpegFails, runVars, docVars, Files, Straying, Loading,
              Speaking, Leaving, Temps
<1>5. Holding'
  BY <1>1 DEF RunInv, TypeOK, FfmpegFails, docVars, sinkVars, runVars, Holding,
              Loading, Speaking, Leaving, Resources
<1>6. Walking' /\ Piping'
  BY <1>1 DEF RunInv, TypeOK, FfmpegFails, docVars, sinkVars, runVars, Walking, Piping,
              Speaking, Leaving
<1> QED
  BY <1>2, <1>3, <1>4, <1>5, <1>6, <1>7 DEF RunInv

(* A file is spilled: it is there, or the loaders are not run.             *)
LEMMA RunSpillTemp == RunInv /\ SpillTemp => RunInv'
<1>1. SUFFICES ASSUME RunInv, SpillTemp PROVE RunInv'
  OBVIOUS
<1>2. WalkInv'
  BY <1>1, WalkRests DEF RunInv, SpillTemp
<1>3. pc = "spill" /\ UNCHANGED <<rc, fromFile, wav, stray, owned, docVars, sinkVars>>
  BY <1>1 DEF SpillTemp
<1>4. /\ spilled = FALSE /\ named \in {{}, {"en_rules"}, {"en_rules", "en_list"}}
      /\ \A u \in named : disk[u] # "absent"
      /\ \A u \in Temps : disk[u] # "absent" => u \in named
      /\ doc = "off" /\ ffmpeg = "none"
  <2>1. spilled = FALSE /\ named \in {{}, {"en_rules"}, {"en_rules", "en_list"}}
    BY <1>1, <1>3 DEF RunInv, TypeOK, Files
  <2>2. \A u \in named : disk[u] # "absent"
    BY <1>1, <1>3 DEF RunInv, Files
  <2>3. \A u \in Temps : disk[u] # "absent" => u \in named
    BY <1>1 DEF RunInv, Files
  <2>4. doc = "off" /\ ffmpeg = "none"
    BY <1>1, <1>3 DEF RunInv, Walking, Piping, Speaking, Leaving
  <2> QED
    BY <2>1, <2>2, <2>3, <2>4
<1>5. PICK t : t = Order[Cardinality(named) + 1]
  OBVIOUS
<1>6. \/ named = {} /\ t = "en_rules"
      \/ named = {"en_rules"} /\ t = "en_list"
      \/ named = {"en_rules", "en_list"} /\ t = "model.gguf"
  BY <1>4, <1>5, NextTemp
<1>7. PICK o \in {[file |-> "whole",  ok |-> TRUE], [file |-> "cut",    ok |-> TRUE],
                  [file |-> "cut",    ok |-> FALSE], [file |-> "absent", ok |-> FALSE]} :
        /\ named' = named \cup {t}
        /\ disk' = [disk EXCEPT ![t] = o.file]
        /\ IF ~o.ok THEN pc' = "phonemizer" /\ UNCHANGED spilled
           ELSE IF named' = Temps THEN pc' = "phonemizer" /\ spilled' = TRUE
           ELSE UNCHANGED <<pc, spilled>>
  BY <1>1, <1>5 DEF SpillTemp
<1>8. PICK file \in {"whole", "cut", "absent"} :
        /\ disk' = [disk EXCEPT ![t] = file]
        /\ \/ pc' = "phonemizer" /\ spilled' = FALSE
           \/ file # "absent" /\ named' = Temps /\ pc' = "phonemizer" /\ spilled' = TRUE
           \/ file # "absent" /\ named' # Temps /\ pc' = "spill" /\ spilled' = FALSE
  <2>1. CASE ~o.ok
    <3>1. o.file \in {"whole", "cut", "absent"}
      BY <2>1, <1>7
    <3> QED
      BY <3>1, <2>1, <1>4, <1>7
  <2>2. CASE o.ok
    <3>1. o.file \in {"whole", "cut", "absent"} /\ o.file # "absent"
      BY <2>2, <1>7
    <3> QED
      BY <3>1, <2>2, <1>3, <1>4, <1>7
  <2> QED
    BY <2>1, <2>2
<1>9. /\ t \in Temps /\ t \notin named /\ named' \subseteq Temps
      /\ named' # Temps => named' \in {{"en_rules"}, {"en_rules", "en_list"}}
  BY <1>6, <1>7 DEF Temps
<1>10. /\ disk' \in [Temps -> {"absent", "whole", "cut"}]
       /\ disk'[t] = file /\ \A u \in Temps \ {t} : disk'[u] = disk[u]
  <2>1. disk \in [Temps -> {"absent", "whole", "cut"}]
    BY <1>1 DEF RunInv, TypeOK
  <2>2. disk' = [disk EXCEPT ![t] = file] /\ t \in Temps /\ file \in {"absent", "whole", "cut"}
    BY <1>8, <1>9
  <2> HIDE DEF Temps
  <2> QED
    BY <2>1, <2>2
<1>11. pc' \in {"spill", "phonemizer"} /\ spilled' \in BOOLEAN
  BY <1>8
<1>12. TypeOK'
  <2>1. pos' \in 0 .. Size' /\ seg' \in 0 .. Size' /\ doc' \in {"off", "between", "inside", "end"}
    BY <1>2 DEF WalkInv, WalkType, Size
  <2> QED
    BY <2>1, <1>1, <1>3, <1>9, <1>10, <1>11 DEF RunInv, TypeOK, sinkVars
<1>13. Files'
  <2>1. \A u \in Temps : disk'[u] # "absent" => u \in named'
    BY <1>4, <1>7, <1>10
  <2>2. file # "absent" => \A u \in named' : disk'[u] # "absent"
    BY <1>4, <1>7, <1>9, <1>10
  <2>3. CASE pc' = "phonemizer" /\ ~spilled'
    BY <2>1, <2>3 DEF Files, Loading
  <2>4. CASE file # "absent" /\ named' = Temps /\ pc' = "phonemizer"
    BY <2>1, <2>2, <2>4 DEF Files, Loading
  <2>5. CASE file # "absent" /\ named' # Temps /\ pc' = "spill" /\ ~spilled'
    <3>1. named' \in {{}, {"en_rules"}, {"en_rules", "en_list"}}
      BY <2>5, <1>9
    <3> QED
      BY <3>1, <2>1, <2>2, <2>5 DEF Files, Loading
  <2> QED
    BY <2>3, <2>4, <2>5, <1>8
<1>14. Holding'
  BY <1>1, <1>3, <1>11 DEF RunInv, docVars, Holding, Loading, Speaking
<1>15. Walking' /\ Piping'
  BY <1>3, <1>4, <1>11 DEF Walking, Piping, Leaving, docVars, sinkVars
<1>16. Straying'
  <2>1. stray' = "none" /\ doc' = "off"
    BY <1>1, <1>3, <1>4 DEF RunInv, Straying, Loading, docVars
  <2>2. named' # {} /\ (spilled' => named' = Temps)
    BY <1>7, <1>8
  <2> QED
    BY <2>1, <2>2, <1>11 DEF Straying, Speaking, Leaving
<1> QED
  BY <1>2, <1>12, <1>13, <1>14, <1>15, <1>16 DEF RunInv

(* The walk begins, and goes on.                                           *)
LEMMA RunBegin == RunInv /\ Begin => RunInv'
<1>1. SUFFICES ASSUME RunInv, Begin PROVE RunInv'
  OBVIOUS
<1>2. PICK t \in Texts, s \in BOOLEAN : DocBegin(t, s)
  BY <1>1 DEF Begin
<1>3. WalkInv'
  BY <1>1, <1>2, TextsAssumption, WalkBegins DEF RunInv
<1>4. pc = "synth" /\ UNCHANGED <<runVars, sinkVars, out>>
  BY <1>1, <1>2 DEF Begin, DocBegin
<1>5. TypeOK'
  <2>1. pos' \in 0 .. Size' /\ seg' \in 0 .. Size' /\ doc' \in {"off", "between", "inside", "end"}
    BY <1>3 DEF WalkInv, WalkType, Size
  <2> QED
    BY <2>1, <1>1, <1>4 DEF RunInv, TypeOK, runVars, sinkVars
<1>6. Files'
  BY <1>1, <1>4 DEF RunInv, Files, runVars
<1>7. Holding'
  BY <1>1, <1>4 DEF RunInv, Holding, runVars
<1>8. Walking' /\ Piping'
  BY <1>1, <1>4 DEF RunInv, Walking, Piping, runVars, sinkVars, Speaking, Leaving
<1>9. Straying'
  BY <1>1, <1>4 DEF RunInv, Straying, runVars, Speaking
<1> QED
  BY <1>3, <1>5, <1>6, <1>7, <1>8, <1>9 DEF RunInv

(* The buffer never shrinks.                                               *)
LEMMA OutStays == WalkInv /\ DocStep /\ out # <<>> => out' # <<>>
<1>1. SUFFICES ASSUME WalkInv, DocStep, out # <<>> PROVE out' # <<>>
  OBVIOUS
<1>2. CASE out' = out
  BY <1>1, <1>2
<1>3. ASSUME NEW ms, NEW a, SynthSentence(ms, a) PROVE out' # <<>>
  <2>1. out \in Seq(Pieces)
    BY <1>1 DEF WalkInv, WalkType
  <2>2. ASSUME NEW p \in PauseOutcomes(ms, a), NEW b \in SpeechOutcomes(a),
               out' = out \o p.add \o b.add
        PROVE  out' # <<>>
    <3>1. p.add = <<>> \/ p.add = <<Pause(ms)>>
      BY DEF PauseOutcomes
    <3>2. b.add = <<>> \/ b.add = <<a>>
      BY DEF SpeechOutcomes
    <3> QED
      BY <3>1, <3>2, <2>1, <2>2, <1>1
  <2> QED
    BY <2>2, <1>1, <1>3 DEF SynthSentence
<1> QED
  BY <1>1, <1>2, <1>3
    DEF DocStep, NextParagraph, NextSegment, EndParagraph, EndDocument

(* The first growth of the buffer is what is to be freed.                  *)
LEMMA RunSynthesize == RunInv /\ Synthesize => RunInv'
<1>1. SUFFICES ASSUME RunInv, Synthesize PROVE RunInv'
  OBVIOUS
<1>2. WalkInv'
  BY <1>1, WalkStep DEF RunInv, Synthesize
<1>3. /\ pc = "synth" /\ pc' \in {"synth", "output"}
      /\ IF out = <<>> /\ out' # <<>> THEN owned' = [owned EXCEPT !["audio"] = @ + 1]
         ELSE owned' = owned
      /\ UNCHANGED <<rc, fromFile, wav, named, disk, spilled, stray, sinkVars>>
  BY <1>1 DEF Synthesize, Alloc
<1>4. out # <<>> => out' # <<>>
  BY <1>1, OutStays DEF RunInv, Synthesize
<1>5. /\ owned \in [Resources -> 0 .. 1]
      /\ owned["phon"] = 1 /\ owned["tts"] = 1
      /\ owned["audio"] = (IF out = <<>> THEN 0 ELSE 1)
      /\ fromFile => owned["text"] = 1
  BY <1>1, <1>3 DEF RunInv, TypeOK, Holding, Speaking
<1>6. /\ owned' \in [Resources -> 0 .. 1]
      /\ owned'["phon"] = 1 /\ owned'["tts"] = 1
      /\ owned'["audio"] = (IF out' = <<>> THEN 0 ELSE 1)
      /\ fromFile' => owned'["text"] = 1
  BY <1>3, <1>4, <1>5 DEF Resources
<1>7. TypeOK'
  <2>1. pos' \in 0 .. Size' /\ seg' \in 0 .. Size' /\ doc' \in {"off", "between", "inside", "end"}
    BY <1>2 DEF WalkInv, WalkType, Size
  <2> QED
    BY <2>1, <1>1, <1>3, <1>6 DEF RunInv, TypeOK, sinkVars
<1>8. Files'
  BY <1>1, <1>3 DEF RunInv, Files, Loading
<1>9. Holding'
  BY <1>3, <1>6 DEF Holding, Loading, Speaking
<1>10. Walking' /\ Piping'
  BY <1>1, <1>3 DEF RunInv, Walking, Piping, sinkVars, Speaking, Leaving
<1>11. Straying'
  BY <1>1, <1>3 DEF RunInv, Straying, Loading, Speaking, Leaving
<1> QED
  BY <1>2, <1>7, <1>8, <1>9, <1>10, <1>11 DEF RunInv

(* Nothing happens.                                                        *)
LEMMA RunRests == RunInv /\ UNCHANGED vars => RunInv'
<1>1. SUFFICES ASSUME RunInv, UNCHANGED vars PROVE RunInv'
  OBVIOUS
<1>2. WalkInv'
  BY <1>1, WalkRests DEF RunInv, vars
<1>3. TypeOK' /\ Files' /\ Straying' /\ Holding' /\ Walking' /\ Piping'
  BY <1>1 DEF RunInv, vars, docVars, runVars, sinkVars, TypeOK, Size, Files, Straying, Holding,
              Walking, Piping
<1> QED
  BY <1>2, <1>3 DEF RunInv

(* Every step of run() and of ffmpeg preserves the inductive invariant.    *)
THEOREM RunStepInv == RunInv /\ [Next]_vars => RunInv'
<1>1. SUFFICES ASSUME RunInv, [Next]_vars PROVE RunInv'
  OBVIOUS
<1>2. CASE RunStep
  BY <1>1, <1>2, RunArguments, RunInput, RunSpillTemp, RunLoadPhonemizer, RunLoadModel,
     RunUnlink, RunCheckInit, RunBegin, RunSynthesize, RunNoAudio, RunWriteWav, RunOpenPipe,
     RunFeed, RunClosePipe, RunWaitPipe, RunFreeAudio, RunDestroyModel, RunDestroyPhon,
     RunFreeText DEF RunStep
<1>3. CASE Ffmpeg \/ FfmpegFails
  BY <1>1, <1>3, RunFfmpegReads, RunFfmpegSucceeds, RunFfmpegFails DEF Ffmpeg
<1>4. CASE UNCHANGED vars
  BY <1>1, <1>4, RunRests
<1> QED
  BY <1>1, <1>2, <1>3, <1>4 DEF Next, Finished

(* The inductive invariant holds of every reachable state.                 *)
THEOREM RunInvariance == Spec => []RunInv
BY RunInit, RunStepInv, PTL DEF Spec

-----------------------------------------------------------------------------
(* What follows.                                                           *)

(* The state keeps its types, whatever the documents and the failures.     *)
THEOREM RunTypeCorrect == Spec => []TypeOK
<1>1. RunInv => TypeOK
  BY DEF RunInv
<1> QED
  BY <1>1, RunInvariance, PTL

(* Every resource is released on every way out of run(), what is used is   *)
(* there, and only a run that fails to spill its files, and says so, uses  *)
(* a path that was never filled (cli:597-662).                             *)
THEOREM RunLifetimes == Spec => []Lifetimes
<1>1. RunInv => CleanExit
  BY DEF RunInv, CleanExit, Files, Holding, Loading
<1>2. RunInv => UseInLifetime
  <2>1. SUFFICES ASSUME RunInv PROVE UseInLifetime
    OBVIOUS
  <2>2. pc \in {"synth", "output", "feed", "wait", "free_audio"} =>
          \A t \in Temps : disk[t] = "absent"
    BY <2>1 DEF RunInv, Files, Loading
  <2> QED
    BY <2>1, <2>2 DEF RunInv, UseInLifetime, Files, Holding, Speaking, Temps
<1>3. RunInv => StrayUnlink
  BY DEF RunInv, Straying, StrayUnlink, Speaking, Leaving
<1> QED
  BY <1>1, <1>2, <1>3, RunInvariance, PTL DEF Lifetimes

(* Exit code 0 through ffmpeg means that the whole file was written.       *)
THEOREM RunSuccess == Spec => []SuccessThroughFfmpeg
<1>1. RunInv => SuccessThroughFfmpeg
  BY DEF RunInv, Piping, SuccessThroughFfmpeg
<1> QED
  BY <1>1, RunInvariance, PTL

(* The document is spoken, sentence by sentence, for every text of any     *)
(* length and every size of the sentence buffer (cli:313-357).             *)
THEOREM RunSpeaksDocument == Spec => []DocumentSpoken
<1>1. RunInv => DocumentSpoken
  BY WalkIsWhole, WalkSpeaksAll DEF RunInv, DocumentSpoken
<1> QED
  BY <1>1, RunInvariance, PTL

(* And its sentences are kept apart by one pause each (cli:340).           *)
THEOREM RunPauses == Spec => []PausesBetween
<1>1. RunInv => PausesBetween
  BY WalkPauses DEF RunInv
<1> QED
  BY <1>1, RunInvariance, PTL

-----------------------------------------------------------------------------
(* Symbols: the vocabulary of a table.                                     *)

Vocabulary == 0 .. Len(KITTEN_SYMBOL_CP) - 1

-----------------------------------------------------------------------------
(* The table.                                                              *)

(* An id is one of the vocabulary, and it stands for the code point.       *)
LEMMA SymbolFound ==
  ASSUME NEW cp \in Nat, symbol_id(cp) # None
  PROVE  /\ symbol_id(cp) \in Vocabulary
         /\ KITTEN_SYMBOL_CP[symbol_id(cp) + 1] = cp
  <1> DEFINE N == Len(KITTEN_SYMBOL_CP)
  <1>1. N \in Nat
    BY SymbolsAssumption
  <1>2. IdsOf(cp) # {} /\ symbol_id(cp) = Max(IdsOf(cp))
    BY DEF symbol_id
  <1>3. \A i \in IdsOf(cp) : i \in Nat /\ i <= N
    BY <1>1 DEF IdsOf
  <1>4. Max(IdsOf(cp)) \in IdsOf(cp)
    BY <1>1, <1>2, <1>3, MaxFound
  <1> QED
    BY <1>2, <1>4 DEF IdsOf, Vocabulary

-----------------------------------------------------------------------------
(* The reader.                                                             *)

(* It moves on by at least one byte and never past the end of the string,  *)
(* whatever the bytes are: the loop over a string ends.                    *)
THEOREM ReaderMovesOn ==
  ASSUME NEW s \in Seq(Bytes), NEW i \in 1 .. Len(s)
  PROVE  /\ utf8_decode(s, i).cp \in Nat \cup {None}
         /\ utf8_decode(s, i).next \in i + 1 .. Len(s) + 1
  <1>1. s[i] \in Nat /\ \A k \in 1 .. Len(s) : s[k] \in Nat
    <2>1. \A k \in 1 .. Len(s) : s[k] \in Bytes
      OBVIOUS
    <2>2. Bytes \subseteq Nat
      BY DEF Bytes
    <2> QED
      BY <2>1, <2>2
  <1>2. PICK n \in Nat : n = Len(s)
    OBVIOUS
  <1>3. Width(s[i]) \in 0 .. 4
    BY <1>1 DEF Width
  <1>4. ASSUME Whole(s, i) PROVE CodePoint(s, i) \in Nat
    <2>1. \A k \in 1 .. n : Tail6(s, k) \in Nat
      BY <1>1, <1>2 DEF Tail6
    <2>2. Width(s[i]) \in 1 .. 4 /\ i + Width(s[i]) - 1 <= n
      BY <1>2, <1>3, <1>4 DEF Whole
    <2>3. CASE Width(s[i]) = 1
      BY <1>1, <2>3 DEF CodePoint
    <2>4. CASE Width(s[i]) = 2
      <3>1. s[i] % 32 \in Nat /\ Tail6(s, i + 1) \in Nat
        BY <1>1, <2>1, <2>2, <2>4
      <3> QED
        BY <2>4, <3>1 DEF CodePoint
    <2>5. CASE Width(s[i]) = 3
      <3>1. s[i] % 16 \in Nat /\ Tail6(s, i + 1) \in Nat /\ Tail6(s, i + 2) \in Nat
        BY <1>1, <2>1, <2>2, <2>5
      <3>2. CodePoint(s, i)
              = ((s[i] % 16) * 64 + Tail6(s, i + 1)) * 64 + Tail6(s, i + 2)
        BY ONLY <2>5 DEF CodePoint
      <3>3. PICK x \in Nat, y \in Nat, z \in Nat :
              x = s[i] % 16 /\ y = Tail6(s, i + 1) /\ z = Tail6(s, i + 2)
        BY <3>1
      <3>4. (x * 64 + y) * 64 + z \in Nat
        OBVIOUS
      <3> QED
        BY <3>2, <3>3, <3>4, Zenon
    <2>6. CASE Width(s[i]) = 4
      <3>1. /\ s[i] % 8 \in Nat /\ Tail6(s, i + 1) \in Nat
            /\ Tail6(s, i + 2) \in Nat /\ Tail6(s, i + 3) \in Nat
        BY <1>1, <2>1, <2>2, <2>6, SMTT(30)
      <3>2. CodePoint(s, i)
              = (((s[i] % 8) * 64 + Tail6(s, i + 1)) * 64 + Tail6(s, i + 2)) * 64
                  + Tail6(s, i + 3)
        BY ONLY <2>6 DEF CodePoint
      <3>3. PICK x \in Nat, y \in Nat, z \in Nat, u \in Nat :
              /\ x = s[i] % 8 /\ y = Tail6(s, i + 1)
              /\ z = Tail6(s, i + 2) /\ u = Tail6(s, i + 3)
        BY <3>1
      <3>4. ((x * 64 + y) * 64 + z) * 64 + u \in Nat
        OBVIOUS
      <3> QED
        BY <3>2, <3>3, <3>4, Zenon
    <2> QED
      BY <2>2, <2>3, <2>4, <2>5, <2>6
  <1>5. utf8_decode(s, i).cp \in Nat \cup {None}
    BY <1>4 DEF utf8_decode
  <1>6. utf8_decode(s, i).next \in i + 1 .. Len(s) + 1
    BY <1>2, <1>3 DEF utf8_decode, Whole
  <1> QED
    BY <1>5, <1>6

(* The bytes of a code point.                                              *)
High(n) == n \div 64
Low(n) == 128 + (n % 64)
Encoding(cp) ==
  IF cp < 128 THEN <<cp>>
  ELSE IF High(cp) < 32 THEN <<192 + High(cp), Low(cp)>>
  ELSE IF High(High(cp)) < 16 THEN <<224 + High(High(cp)), Low(High(cp)), Low(cp)>>
  ELSE <<240 + High(High(High(cp))), Low(High(High(cp))), Low(High(cp)), Low(cp)>>

StandsAt(s, i, e) ==
  /\ i + Len(e) - 1 <= Len(s)
  /\ \A k \in 1 .. Len(e) : s[i + k - 1] = e[k]

(* What is split at its last six bits is put together again.               *)
LEMMA Split ==
  ASSUME NEW n \in Nat
  PROVE  /\ High(n) \in Nat /\ Low(n) \in 128 .. 191
         /\ High(n) * 64 + (Low(n) % 64) = n
  <1>1. n \div 64 \in Nat /\ n % 64 \in 0 .. 63
    BY SMT
  <1>2. n = 64 * (n \div 64) + (n % 64)
    BY SMT
  <1>3. (128 + (n % 64)) % 64 = n % 64
    BY <1>1, SMT
  <1> QED
    BY <1>1, <1>2, <1>3, SMT DEF High, Low

(* Before the bytes of a code point the reader returns it and stops behind *)
(* them, whatever follows.                                                 *)
THEOREM ReaderReads ==
  ASSUME NEW s \in Seq(Bytes), NEW i \in 1 .. Len(s), NEW cp \in Nat,
         High(High(High(cp))) < 8, StandsAt(s, i, Encoding(cp))
  PROVE  utf8_decode(s, i) = [cp |-> cp, next |-> i + Len(Encoding(cp))]
  <1> DEFINE a == High(cp)
             b == High(a)
             c == High(b)
  <1>1. PICK n \in Nat : n = Len(s)
    OBVIOUS
  <1>2. /\ a \in Nat /\ a * 64 + (Low(cp) % 64) = cp
        /\ b \in Nat /\ b * 64 + (Low(a) % 64) = a
        /\ c \in Nat /\ c * 64 + (Low(b) % 64) = b
    BY Split
  <1>3. c < 8
    OBVIOUS
  <1>4. CASE cp < 128
    <2>1. Encoding(cp) = <<cp>>
      BY <1>4 DEF Encoding
    <2>2. s[i] = cp
      BY <2>1 DEF StandsAt
    <2>3. Width(s[i]) = 1
      BY <1>4, <2>2 DEF Width
    <2> QED
      BY <1>1, <2>1, <2>2, <2>3 DEF utf8_decode, Whole, CodePoint
  <1>5. CASE ~(cp < 128) /\ a < 32
    <2>1. Encoding(cp) = <<192 + a, Low(cp)>>
      BY <1>5 DEF Encoding
    <2> HIDE DEF a
    <2>2. s[i] = 192 + a /\ s[i + 1] = Low(cp) /\ i + 1 <= n
      BY <1>1, <2>1 DEF StandsAt
    <2>3. Width(s[i]) = 2 /\ s[i] % 32 = a
      <3>1. a \in Nat /\ a < 32
        BY <1>2, <1>5
      <3>2. (192 + a) % 32 = a
        BY <3>1, SMT
      <3>3. Width(192 + a) = 2
        BY <3>1 DEF Width
      <3> QED
        BY <2>2, <3>2, <3>3
    <2>4. CodePoint(s, i) = a * 64 + (Low(cp) % 64)
      BY <2>2, <2>3 DEF CodePoint, Tail6
    <2> QED
      BY <1>1, <1>2, <2>1, <2>2, <2>3, <2>4, SMTT(30) DEF utf8_decode, Whole
  <1>6. CASE ~(cp < 128) /\ ~(a < 32) /\ b < 16
    <2>1. Encoding(cp) = <<224 + b, Low(a), Low(cp)>>
      BY <1>6 DEF Encoding
    <2> HIDE DEF a, b
    <2>2. s[i] = 224 + b /\ s[i + 1] = Low(a) /\ s[i + 2] = Low(cp) /\ i + 2 <= n
      BY <1>1, <2>1 DEF StandsAt
    <2>3. Width(s[i]) = 3 /\ s[i] % 16 = b
      <3>1. b \in Nat /\ b < 16
        BY <1>2, <1>6
      <3>2. (224 + b) % 16 = b
        BY <3>1, SMT
      <3>3. Width(224 + b) = 3
        BY <3>1 DEF Width
      <3> QED
        BY <2>2, <3>2, <3>3
    <2>4. CodePoint(s, i) = (b * 64 + (Low(a) % 64)) * 64 + (Low(cp) % 64)
      BY <2>2, <2>3 DEF CodePoint, Tail6
    <2> QED
      BY <1>1, <1>2, <2>1, <2>2, <2>3, <2>4, SMTT(30) DEF utf8_decode, Whole
  <1>7. CASE ~(cp < 128) /\ ~(a < 32) /\ ~(b < 16)
    <2>1. Encoding(cp) = <<240 + c, Low(b), Low(a), Low(cp)>>
      BY <1>7 DEF Encoding
    <2> HIDE DEF a, b, c
    <2>2. /\ s[i] = 240 + c /\ s[i + 1] = Low(b) /\ s[i + 2] = Low(a)
          /\ s[i + 3] = Low(cp) /\ i + 3 <= n
      BY <1>1, <2>1 DEF StandsAt
    <2>3. Width(s[i]) = 4 /\ s[i] % 8 = c
      <3>1. c \in Nat /\ c < 8
        BY <1>2, <1>3
      <3>2. (240 + c) % 8 = c
        BY <3>1, SMT
      <3>3. Width(240 + c) = 4
        BY <3>1 DEF Width
      <3> QED
        BY <2>2, <3>2, <3>3
    <2>4. CodePoint(s, i)
            = ((c * 64 + (Low(b) % 64)) * 64 + (Low(a) % 64)) * 64 + (Low(cp) % 64)
      BY <2>2, <2>3 DEF CodePoint, Tail6
    <2> QED
      BY <1>1, <1>2, <2>1, <2>2, <2>3, <2>4, SMTT(30) DEF utf8_decode, Whole
  <1> QED
    BY <1>4, <1>5, <1>6, <1>7

-----------------------------------------------------------------------------
(* The array.                                                              *)

(* What is held of the symbols is a beginning of them that leaves room for *)
(* three ids and the one before them; all of them, if they fit.            *)
LEMMA HeldFits ==
  ASSUME NEW known \in Seq(Vocabulary), NEW cap \in Nat, cap >= 4
  PROVE  /\ Held(known, cap) \in Seq(Vocabulary)
         /\ Len(Held(known, cap)) <= cap - 4
         /\ Len(known) <= cap - 4 => Held(known, cap) = known
  <1> DEFINE m == Min({Len(known), cap - 4})
  <1>1. m \in {Len(known), cap - 4} /\ m <= Len(known) /\ m <= cap - 4
    <2>1. {Len(known), cap - 4} \subseteq Nat /\ {Len(known), cap - 4} # {}
      OBVIOUS
    <2> HIDE DEF m
    <2>2. m \in {Len(known), cap - 4} /\ \A k \in {Len(known), cap - 4} : m <= k
      BY <2>1, MinFound DEF m
    <2> QED
      BY <2>2
  <1> HIDE DEF m
  <1>2. Held(known, cap) = SubSeq(known, 1, m)
    BY DEF Held, m
  <1>3. m \in 0 .. Len(known)
    BY <1>1
  <1>4. SubSeq(known, 1, m) \in Seq(Vocabulary) /\ Len(SubSeq(known, 1, m)) = m
    BY <1>3
  <1>5. ASSUME Len(known) <= cap - 4 PROVE SubSeq(known, 1, m) = known
    <2>1. m = Len(known)
      BY <1>1, <1>5
    <2> QED
      BY <2>1
  <1> QED
    BY <1>1, <1>2, <1>4, <1>5

(* The ids fit the array with a place to spare, each of them is in the     *)
(* vocabulary, whose rows kittens_synthesize() reads; the padding and the  *)
(* end marker frame them; nothing is lost that fits, and the terminator is *)
(* the last symbol then, once (cli:181-201).                               *)
THEOREM IdsFramed ==
  ASSUME NEW known \in Seq(Vocabulary), NEW cap \in Nat, cap >= 4,
         NEW term \in Nat, 10 \in Vocabulary
  PROVE  LET ids == Framed(known, term, cap)
             n   == Len(ids)
         IN  /\ ids \in Seq(Vocabulary)
             /\ n >= 3 /\ n < cap
             /\ ids[1] = 0 /\ ids[n - 1] = 10 /\ ids[n] = 0
             /\ Len(known) <= cap - 4 =>
                  SubSeq(ids, 2, Len(known) + 1) = known
             /\ Len(known) < cap - 4 /\ term # 0 /\ symbol_id(term) # None =>
                  /\ ids[n - 2] = symbol_id(term)
                  /\ n = Len(known) + 3 <=>
                       known # <<>> /\ known[Len(known)] = symbol_id(term)
  <1> DEFINE held == Held(known, cap)
             add  == Term(held, term, cap)
             ids  == Framed(known, term, cap)
  <1>1. /\ held \in Seq(Vocabulary) /\ Len(held) <= cap - 4
        /\ Len(known) <= cap - 4 => held = known
    BY HeldFits
  <1>2. 0 \in Vocabulary
    BY SymbolsAssumption DEF Vocabulary
  <1>3. /\ add \in {<<>>, <<symbol_id(term)>>} /\ add \in Seq(Vocabulary)
        /\ add # <<>> => Len(held) < cap - 4
    BY SymbolFound DEF Term
  <1>4. ids = <<0>> \o held \o add \o <<10, 0>>
    BY DEF Framed
  <1> HIDE DEF ids
  <1> HIDE DEF held, add
  <1>5. Len(add) = (IF add = <<>> THEN 0 ELSE 1)
    <2>1. Len(<<>>) = 0 /\ Len(<<symbol_id(term)>>) = 1
      OBVIOUS
    <2> QED
      BY <1>3, <2>1
  <1>6. PICK h \in Nat, a \in Nat :
          h = Len(held) /\ a = Len(add) /\ a <= 1 /\ h + a <= cap - 4
    <2>1. Len(held) \in Nat
      BY <1>1
    <2>2. Len(held) + Len(add) <= cap - 4
      BY <1>1, <1>3, <1>5, <2>1
    <2> QED
      BY <1>5, <2>1, <2>2
  <1>7. /\ Len(ids) = h + a + 3 /\ ids \in Seq(Vocabulary)
        /\ ids[1] = 0 /\ ids[h + a + 2] = 10 /\ ids[h + a + 3] = 0
        /\ \A k \in 1 .. h : ids[k + 1] = held[k]
        /\ a = 1 => ids[h + 2] = add[1]
    <2> DEFINE front == <<0>> \o held
               body  == front \o add
    <2>1. /\ front \in Seq(Vocabulary) /\ Len(front) = h + 1
          /\ front[1] = 0 /\ \A k \in 1 .. h : front[k + 1] = held[k]
      BY <1>1, <1>2, <1>6
    <2> HIDE DEF front
    <2>2. /\ body \in Seq(Vocabulary) /\ Len(body) = h + 1 + a
          /\ \A k \in 1 .. h + 1 : body[k] = front[k]
          /\ a = 1 => body[h + 2] = add[1]
      <3>1. /\ body \in Seq(Vocabulary) /\ Len(body) = Len(front) + Len(add)
            /\ \A k \in 1 .. Len(front) + Len(add) :
                 body[k] = IF k <= Len(front) THEN front[k] ELSE add[k - Len(front)]
        BY <1>3, <2>1, ConcatProperties
      <3>2. /\ Len(front) = h + 1 /\ Len(add) = a
            /\ body \in Seq(Vocabulary) /\ Len(body) = h + 1 + a
        BY <1>6, <2>1, <3>1
      <3> HIDE DEF body
      <3>3. \A k \in 1 .. h + 1 : body[k] = front[k]
        BY <1>6, <3>1, <3>2
      <3>4. ASSUME a = 1 PROVE body[h + 2] = add[1]
        <4>1. h + 2 \in 1 .. h + 1 + a /\ ~(h + 2 <= h + 1) /\ (h + 2) - (h + 1) = 1
          BY <1>6, <3>4
        <4> QED
          BY <3>1, <3>2, <4>1
      <3> QED
        BY <3>2, <3>3, <3>4
    <2>3. ids = body \o <<10, 0>>
      BY <1>4 DEF front
    <2> HIDE DEF body
    <2>4. /\ ids \in Seq(Vocabulary) /\ Len(ids) = h + a + 3
          /\ \A k \in 1 .. h + a + 1 : ids[k] = body[k]
          /\ ids[h + a + 2] = 10 /\ ids[h + a + 3] = 0
      BY <1>2, <1>6, <2>2, <2>3
    <2>5. ids[1] = 0 /\ \A k \in 1 .. h : ids[k + 1] = held[k]
      <3>1. 1 \in 1 .. h + a + 1 /\ 1 \in 1 .. h + 1
        BY <1>6
      <3>2. ASSUME NEW k \in 1 .. h PROVE ids[k + 1] = held[k]
        <4>1. k + 1 \in 1 .. h + a + 1 /\ k + 1 \in 1 .. h + 1
          BY <1>6
        <4> QED
          BY <2>1, <2>2, <2>4, <4>1
      <3> QED
        BY <2>1, <2>2, <2>4, <3>1, <3>2
    <2>6. ASSUME a = 1 PROVE ids[h + 2] = add[1]
      <3>1. h + 2 \in 1 .. h + a + 1
        BY <1>6, <2>6
      <3> QED
        BY <2>2, <2>4, <2>6, <3>1
    <2> QED
      BY <2>4, <2>5, <2>6
  <1>8. ASSUME Len(known) <= cap - 4 PROVE SubSeq(ids, 2, Len(known) + 1) = known
    <2>1. held = known /\ h = Len(known)
      BY <1>1, <1>6, <1>8
    <2> DEFINE cut == SubSeq(ids, 2, h + 1)
    <2>2. /\ cut \in Seq(Vocabulary) /\ Len(cut) = h
          /\ \A k \in 1 .. h : cut[k] = ids[k + 1]
      BY <1>6, <1>7
    <2> HIDE DEF cut
    <2>3. cut = known
      BY <1>7, <2>1, <2>2
    <2> QED
      BY <2>1, <2>3 DEF cut
  <1>9. ASSUME Len(known) < cap - 4, term # 0, symbol_id(term) # None
        PROVE  /\ ids[Len(ids) - 2] = symbol_id(term)
               /\ Len(ids) = Len(known) + 3 <=>
                    known # <<>> /\ known[Len(known)] = symbol_id(term)
    <2>1. held = known /\ h = Len(known)
      BY <1>1, <1>6, <1>9
    <2>2. CASE known # <<>> /\ known[Len(known)] = symbol_id(term)
      <3>1. add = <<>> /\ a = 0
        BY <1>5, <1>6, <2>1, <2>2 DEF add, Term
      <3>2. h \in 1 .. h
        BY <1>6, <2>1, <2>2
      <3> QED
        BY <1>6, <1>7, <2>1, <2>2, <3>1, <3>2
    <2>3. CASE ~(known # <<>> /\ known[Len(known)] = symbol_id(term))
      <3>1. add = <<symbol_id(term)>> /\ a = 1
        BY <1>5, <1>6, <1>9, <2>1, <2>3 DEF add, Term
      <3> QED
        BY <1>6, <1>7, <2>1, <2>3, <3>1
    <2> QED
      BY <2>2, <2>3
  <1> QED
    BY <1>6, <1>7, <1>8, <1>9 DEF ids

=============================================================================
