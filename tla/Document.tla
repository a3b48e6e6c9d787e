------------------------------- MODULE Document -------------------------------
(***************************************************************************)
(* synth_document() of kittens_tts_cli.c: the text is walked paragraph by  *)
(* paragraph and sentence by sentence; each sentence is phonemized,        *)
(* synthesized and spliced into the audio buffer after a pause.            *)
(*                                                                         *)
(* A text is a sequence over the four classes of characters the walk tells *)
(* apart.  Positions count from 0, as in the code; an interval is          *)
(* half-open.  The audio buffer is a sequence of pauses and of sentences,  *)
(* not of samples: its size is only compared with zero.                    *)
(***************************************************************************)
EXTENDS Integers, Sequences, FiniteSets, FiniteSetsExt

CONSTANTS
  Letter, Space, Stop, Newline,   \* Stop stands for . ! and ?
  BufSize,                        \* sizeof buf in synth_paragraph()
  ParaSilence, SentSilence        \* PARA_SIL_MS and SENT_SIL_MS

ASSUME BufAssumption == BufSize \in Nat \ {0, 1}
ASSUME SilenceAssumption ==
  /\ SentSilence \in Nat \ {0} /\ ParaSilence \in Nat
  /\ SentSilence < ParaSilence

Characters == {Letter, Space, Stop, Newline}

ASSUME CharactersAssumption ==
  /\ Stop \notin {Letter, Space, Newline}
  /\ Newline \notin {Letter, Space} /\ Letter # Space
  /\ "none" \notin Characters

VARIABLES
  text,      \* the document
  doc,       \* place: "off", "between" paragraphs, "inside" one, "end"
  pos,       \* i of synth_document()
  para,      \* the current paragraph
  seg,       \* i of synth_paragraph(), as a position of the text
  emitted,   \* *emitted
  speed,     \* whether s->speed is positive
  out,       \* the audio buffer
  faults     \* history: what failed, [kind, at]: the call and the sentence's place

docVars == <<text, doc, pos, para, seg, emitted, speed, out, faults>>

NoSpan == [from |-> 0, to |-> 0]
At(p) == text[p + 1]
Size == Len(text)

Pause(ms) == [kind |-> "pause", ms |-> ms]
Speech(s, t) == [kind |-> "speech", span |-> s, term |-> t]

(* The first position from p on, below limit, that holds one of C; else    *)
(* the limit.                                                              *)
Find(C, p, limit) == Min({q \in p .. limit - 1 : At(q) \in C} \cup {limit})

DocInit ==
  /\ text = <<>>
  /\ doc = "off"
  /\ pos = 0 /\ para = NoSpan /\ seg = 0
  /\ emitted = FALSE
  /\ speed = TRUE
  /\ out = <<>>
  /\ faults = {}

(* synth_document() is called.                                             *)
DocBegin(t, s) ==
  /\ doc = "off"
  /\ doc' = "between"
  /\ text' = t
  /\ speed' = s
  /\ UNCHANGED <<pos, para, seg, emitted, out, faults>>

NextParagraph ==
  /\ doc = "between" /\ pos < Size
  /\ doc' = "inside"
  /\ para' = [from |-> pos, to |-> Find({Newline}, pos, Size)]
  /\ seg' = pos
  /\ UNCHANGED <<text, pos, emitted, speed, out, faults>>

(* [start, end) without the white space around it.                         *)
Trim(start, end) ==
  LET solid == {q \in start .. end - 1 : At(q) # Space}
  IN  IF solid = {} THEN [from |-> end, to |-> end]
      ELSE [from |-> Min(solid), to |-> Max(solid) + 1]

(* The segment that starts at seg ends after its terminator.               *)
SegmentEnd(start) ==
  LET stop == Find({Stop}, start, para.to)
  IN  IF stop < para.to THEN stop + 1 ELSE stop

(* A bug: the terminator is looked for at the end of the paragraph.        *)
TerminatorOfParagraph(start) ==
  IF para.to > start /\ At(para.to - 1) = Stop THEN Stop ELSE "none"

Terminator(start) ==
  IF Find({Stop}, start, para.to) < para.to THEN Stop ELSE "none"

(* A lone terminator is not a sentence.                                    *)
HasText(s, term) ==
  /\ s.to > s.from
  /\ ~(s.to - s.from = 1 /\ At(s.from) = term)

(* A bug: the two pauses are swapped.                                      *)
GradeSwapped(start) ==
  IF ~emitted THEN 0
  ELSE IF start = para.from THEN SentSilence ELSE ParaSilence

(* No pause before the first sentence, the longer one before the segment   *)
(* that begins a paragraph.                                                *)
Grade(start) ==
  IF ~emitted THEN 0
  ELSE IF start = para.from THEN ParaSilence ELSE SentSilence

(* What fits the sentence buffer.                                          *)
Cut(s) == [s EXCEPT !.to = Min({s.to, s.from + BufSize - 1})]

(* How synth_sentence() may leave the buffer: phonemize and synthesis may  *)
(* fail, and so may each growth of the buffer; all of it in silence.  A    *)
(* speed that is not positive is refused by kittens_synthesize(), and the  *)
(* length of the pause, divided by it, is then anything.                   *)
Fault(kind, speech) == [kind |-> kind, at |-> speech.span.from]

PauseOutcomes(ms, speech) ==
  {[add |-> <<>>, fault |-> IF ms = 0 THEN {} ELSE {Fault("pause", speech)}]}
  \cup {[add |-> <<Pause(m)>>, fault |-> {}] : m \in {ms} \ {0}}

SpeechOutcomes(speech) ==
  {[add |-> <<>>, fault |-> {Fault("synthesize", speech)}]}
  \cup {[add |-> <<a>>, fault |-> {}] : a \in IF speed THEN {speech} ELSE {}}

SynthSentence(ms, speech) ==
  \/ /\ out' = out
     /\ faults' = faults \cup {Fault("phonemize", speech)}
  \/ \E p \in PauseOutcomes(ms, speech), a \in SpeechOutcomes(speech) :
       /\ out' = out \o p.add \o a.add
       /\ faults' = faults \cup p.fault \cup a.fault

(* One turn of the loop of synth_paragraph().                              *)
NextSegment ==
  LET end  == SegmentEnd(seg)
      term == Terminator(seg)
      s    == Trim(seg, end)
  IN  /\ doc = "inside" /\ seg < para.to
      /\ IF HasText(s, term)
         THEN /\ SynthSentence(Grade(seg), Speech(Cut(s), term))
              /\ emitted' = TRUE
         ELSE UNCHANGED <<out, faults, emitted>>
      /\ seg' = end
      /\ UNCHANGED <<text, doc, pos, para, speed>>

EndParagraph ==
  /\ doc = "inside" /\ seg = para.to
  /\ doc' = "between"
  /\ pos' = IF para.to < Size THEN para.to + 1 ELSE para.to
  /\ para' = NoSpan /\ seg' = 0
  /\ UNCHANGED <<text, emitted, speed, out, faults>>

EndDocument ==
  /\ doc = "between" /\ pos = Size
  /\ doc' = "end"
  /\ pos' = 0 /\ emitted' = FALSE
  /\ UNCHANGED <<text, para, seg, speed, out, faults>>

DocStep == NextParagraph \/ NextSegment \/ EndParagraph \/ EndDocument

-----------------------------------------------------------------------------
(* What the walk promises, told from the text alone.                       *)

Positions == 0 .. Size - 1
Boundary(p) == p = 0 \/ At(p - 1) \in {Stop, Newline}

(* The characters of p's sentence: none of them but p's own boundaries.    *)
SentenceStart(p) == Max({q \in 0 .. p : Boundary(q)})

Spoken == {j \in DOMAIN out : out[j].kind = "speech"}
SpeechesOf(p) ==
  {j \in Spoken : out[j].span.from <= p /\ p < out[j].span.to}

(* The first solid character of p's sentence.                              *)
FirstSolid(p) == Min({q \in SentenceStart(p) .. p : At(q) # Space})

(* The sentence that begins at q was not phonemized or not synthesized.    *)
Lost(q) == \E f \in faults : f.at = q /\ f.kind # "pause"

(* Every letter of the document is spoken exactly once, but for those of a *)
(* sentence that lie beyond the buffer (cli:338) and those of a sentence   *)
(* that itself failed (cli:294, 306), which are not spoken at all; and no  *)
(* sentence is spoken before an earlier one.  A failure takes nothing but  *)
(* its own sentence with it: the walk goes on behind it.                   *)
EveryLetterOnce ==
  doc = "end" =>
    /\ \A p \in Positions : At(p) = Letter =>
         Cardinality(SpeechesOf(p)) =
           (IF p - FirstSolid(p) < BufSize - 1 /\ ~Lost(FirstSolid(p)) THEN 1 ELSE 0)
    /\ \A j, k \in Spoken : j < k => out[j].span.to <= out[k].span.from

(* Nothing that is spoken crosses a sentence or a paragraph boundary, and  *)
(* every terminator that follows a letter reaches the synthesis, which     *)
(* renders its intonation (README.md:52), even when the text was cut.      *)
SentencesWhole ==
  \A j \in Spoken :
    LET s == out[j].span
    IN  /\ \A p \in s.from .. s.to - 1 : SentenceStart(p) = SentenceStart(s.from)
        /\ \A p \in s.from .. s.to - 1 : At(p) # Newline
        /\ out[j].term = Stop
             <=> \E q \in s.from .. Size - 1 :
                   At(q) = Stop /\ SentenceStart(q) = SentenceStart(s.from)

(* The document is spoken: all of it, sentence by sentence.                *)
DocumentSpoken == EveryLetterOnce /\ SentencesWhole

SameParagraph(p, q) == \A r \in p .. q : At(r) # Newline

(* Two sentences never run into each other, nothing starts or ends with a  *)
(* pause, and the pauses stand singly, as long as nothing failed; and      *)
(* whatever failed, the longer one is never heard between two sentences of *)
(* one paragraph (README.md:54).  The converse does not hold: when the     *)
(* first segment of a paragraph is dropped, the sentence behind it gets    *)
(* the shorter pause (cli:341).                                            *)
PausesBetween ==
  /\ faults = {} =>
       \A j \in DOMAIN out : out[j].kind = (IF j % 2 = 1 THEN "speech" ELSE "pause")
  /\ \A j \in DOMAIN out : out[j].kind = "pause" /\ out[j].ms = ParaSilence =>
       \A i, k \in Spoken : i < j /\ j < k =>
         ~SameParagraph(out[i].span.from, out[k].span.from)

=============================================================================
