-------------------------------- MODULE Words --------------------------------
(***************************************************************************)
(* From a word to its phonemes (src/phonemizer.c): word_to_phonemes(), its *)
(* arms, and apply_rules(), which call one another.                        *)
(*                                                                         *)
(* Each call is a frame of stack.  A word's frame tries the arms in their  *)
(* order; an arm's plan is the sequence of what it asks, of the            *)
(* dictionaries or of another call, and it claims the word when it was     *)
(* heard.  A rules frame scans its word from rule to rule.                 *)
(*                                                                         *)
(* Phonemes are abstracted to what these calls ask of them: none, some, or *)
(* some with a vowel.  Where a decision looks at the codes themselves, the *)
(* plans of both outcomes are in the arm's set.  Words are of letters that *)
(* .replace leaves alone, and no rule's phonemes begin with '='.           *)
(***************************************************************************)
EXTENDS RuleMatch

CONSTANTS
  Texts,              \* the words asked for, [w, cap]: cap if capitalised
  dict, verb_dict, onlys_bare_dict, capital_dict,      \* words with phonemes
  dull,                                \* those whose phonemes have no vowel
  onlys_words, only_words, noun_form_stress, verb_flag_words, strend_words,
  stress_pos,         \* the words of these sets and tables
  word_alt_flags,     \* from words to the numbers of their $altN
  compound_prefixes   \* in the order of the list

(* An ending behind which an e is put back has two letters or more, in     *)
(* every rule of en_rules.                                                 *)
ASSUME EndingsAssumption ==
  \A key \in DOMAIN Rules : \A i \in DOMAIN Rules[key] :
    LET rule == Rules[key][i]
    IN  rule.suffix /\ "e" \in rule.flags => rule.strip >= 2 /\ Len(rule.match) >= 2

ASSUME WordsAssumption ==
  /\ \A text \in Texts : text.w \in Seq(STRING) /\ text.cap \in BOOLEAN
  /\ \A w \in DOMAIN word_alt_flags : word_alt_flags[w] \subseteq Nat
  /\ compound_prefixes \in Seq(Seq(STRING))

VARIABLES
  stack,    \* the calls, the innermost last
  result    \* what the call that just returned produced

vars == <<stack, result>>

Waiting == -1  Silent == 0  Dull == 1  Voiced == 2  Never == 3
Levels == Silent .. Voiced

-----------------------------------------------------------------------------
(* Spellings and dictionaries.                                             *)

Cut(w, n) == SubSeq(w, 1, Len(w) - n)
E(w) == Append(w, "e")
Y(w) == Append(w, "y")
Ends(w, ending) == IsSuffix(ending, w)
FromEnd(w, n) == w[Len(w) - n + 1]
EndsIn(w, chars) == w # <<>> /\ Last(w) \in chars
VowelLast(w, n) == IsVowel(w, Len(w) - n)
HasVowel(w) == \E at \in 0 .. Len(w) - 1 : IsVowel(w, at)
Doubled(w) == Len(w) >= 2 /\ FromEnd(w, 1) = FromEnd(w, 2)
PlainVowels == Vowels \ {"y"}
HardConsonants == {"b", "c", "d", "f", "g", "j", "k", "l", "m", "n", "p", "q", "s",
                   "t", "v", "x", "z"}

Sound(w) == IF w \in dull THEN Dull ELSE Voiced
Only(w) == w \in onlys_words \cup only_words
InDicts(w) == w \in dict \cup verb_dict
Alt(w) == IF w \in DOMAIN word_alt_flags THEN word_alt_flags[w] ELSE {}
Override(w) == w \in stress_pos \/ (w \in dict /\ ~Only(w)) \/ w \in verb_dict

(* Frames.  An answer stands for a dictionary's; it returns at once.       *)
Answer(level) == [kind |-> "answer", w |-> <<>>, heard |-> level]
WordCall(w, cap) ==
  [kind |-> "word", w |-> w, cap |-> cap, arm |-> 1, plan |-> <<>>, heard |-> Silent]
RulesCall(w, allow, alt, only, removed) ==
  [kind |-> "rules", w |-> w, allow |-> allow, alt |-> alt, only |-> only,
   removed |-> removed, pos |-> 0, sofar |-> <<>>, rep |-> {}, heard |-> Silent]
OwnRules(w) == RulesCall(w, TRUE, Alt(w), FALSE, FALSE)
DictOrRules(w, only) ==
  IF w \in dict THEN Answer(Sound(w)) ELSE RulesCall(w, TRUE, Alt(w), only, FALSE)

(* get_stem_phonemes(): both dictionaries, then those of the magic e.      *)
Stem(w) ==
  IF Len(w) < 2 \/ ~HasVowel(w) THEN Answer(Silent)
  ELSE IF w \in verb_dict \/ (w \in dict /\ ~Only(w)) THEN Answer(Sound(w))
  ELSE IF (E(w) \in dict /\ ~Only(E(w))) \/ E(w) \in verb_dict THEN Answer(Sound(E(w)))
  ELSE RulesCall(w, TRUE, IF w \in verb_flag_words THEN {1} ELSE Alt(w), FALSE, FALSE)

(* do_stem_ph_s(): the stem of a plural; rules only under a $N entry.      *)
StemOfS(w) ==
  IF Len(w) < 2 \/ ~HasVowel(w) THEN Answer(Silent)
  ELSE IF w \in onlys_bare_dict THEN Answer(Sound(w))
  ELSE IF w \in only_words THEN Answer(IF w \in verb_dict THEN Sound(w) ELSE Silent)
  ELSE IF w \in dict THEN Answer(Sound(w))
  ELSE IF w \in stress_pos THEN RulesCall(w, TRUE, {}, FALSE, FALSE)
  ELSE Answer(Silent)
-----------------------------------------------------------------------------
(* Plans.  A try is skipped once the word was heard; a need that is not    *)
(* heard ends the plan; a probe and an afterthought only look at codes,    *)
(* the afterthought of a word already heard.                               *)

Step(mode, want, call) == [mode |-> mode, want |-> want, call |-> call]
Try(call, want) == Step("try", want, call)
Need(call, want) == Step("need", want, call)
Probe(call) == Step("probe", Never, call)
After(call) == Step("after", Never, call)

Passes == {<<>>}
If(condition, steps) == IF condition THEN steps ELSE <<>>
Known(word) == {<<Try(Answer(Sound(word)), Dull)>>}

CapitalDict(w, cap) == IF cap /\ w \in capital_dict THEN Known(w) ELSE Passes
MainDict(w) == IF w \in onlys_bare_dict \cup dict THEN Known(w) ELSE Passes

(* A hyphen at the very end leaves no segment behind it.                   *)
Hyphens(w) == {i \in DOMAIN w : w[i] = "-"}
Segment(w, i) == SubSeq(w, i, Min({h \in Hyphens(w) \cup {Len(w) + 1} : h >= i}) - 1)
Segments(w) ==
  FoldLeftDomain(LAMBDA found, i : IF i = 1 \/ i - 1 \in Hyphens(w)
                                   THEN Append(found, Segment(w, i)) ELSE found,
                 <<>>, w)

Hyphenated(w) ==
  LET first == SelectInSeq(w, LAMBDA c : c = "-")
  IN  IF first <= 1 \/ first = Len(w) THEN Passes
      ELSE {[k \in DOMAIN Segments(w) |->
               LET part == Segments(w)[k]
               IN  Need(IF ToSet(part) \cap Letters = {} THEN Answer(Silent)
                        ELSE WordCall(part, FALSE), Dull)]}

Possessive(w) ==
  LET base == Cut(w, 2)
  IN  IF Len(w) < 3 \/ ~Ends(w, <<"'", "s">>) THEN Passes
      ELSE {<<Need(WordCall(base, FALSE), Dull), After(DictOrRules(base, FALSE))>>}

SingleLetter(w) ==
  IF Len(w) = 1 /\ w # <<"a">> /\ <<"_">> \o w \in dict
  THEN Known(<<"_">> \o w) ELSE Passes

(* detect_stem_pattern_for_suffix(): may the base want its e back?         *)
Cvc(base) == Len(base) >= 2 /\ ~VowelLast(base, 1) /\ VowelLast(base, 2)
Cvrc(base) ==
  Len(base) >= 3 /\ EndsIn(base, {"g", "c"}) /\ FromEnd(base, 2) = "r" /\ VowelLast(base, 3)
Nc(base) == Ends(base, <<"n", "c">>)
NasalEnd(base) == Ends(base, <<"n">>) /\ EndsIn(Cut(base, 1), PlainVowels)
Blocked(base) == \E end \in {<<"e", "l">>, <<"w">>, <<"e", "r">>} : Ends(base, end)
Pattern(base, cvrc) == Cvc(base) \/ (cvrc /\ Cvrc(base))
Patterns(base, cvrc) ==
  IF ~Pattern(base, cvrc) \/ Blocked(base) THEN {FALSE}
  ELSE IF NasalEnd(base) THEN BOOLEAN ELSE {TRUE}
NasalProbe(base, cvrc) ==
  If(Pattern(base, cvrc) /\ NasalEnd(base), <<Probe(Stem(base))>>)

(* A base of vowel and consonant is asked first whether the e is wanted;   *)
(* where -ing keeps that answer the plan asks for it once more.            *)
MagicE(base, cvc, tries) ==
  LET asked == cvc /\ ~Nc(base)
  IN  {If(asked, <<Probe(Stem(base))>>) \o If(use, tries) :
         use \in IF asked THEN BOOLEAN ELSE {TRUE}}

NsOrRs(base) == Ends(base, <<"n", "s">>) \/ Ends(base, <<"r", "s">>)
LastWithE(base) ==
  If(~VowelLast(base, 1) /\ HasVowel(base), <<Try(Stem(E(base)), Voiced)>>)
FirstWithE(base) == If(NsOrRs(base) /\ ~Override(base), <<Try(Stem(E(base)), Voiced)>>)
TryStem(base) == <<Try(Stem(base), Voiced)>>
WantsE(base, cvc) == (cvc \/ Nc(base)) /\ ~Override(base)

IngStems(base, cvc) ==
  IF WantsE(base, cvc)
  THEN MagicE(base, cvc, If(E(base) \in strend_words, <<Try(OwnRules(E(base)), Dull)>>)
                           \o TryStem(E(base)) \o TryStem(base))
  ELSE {FirstWithE(base) \o TryStem(base) \o LastWithE(base)}

Ing(w) ==
  LET base == Cut(w, 3)
      again == If(Doubled(base), TryStem(Cut(base, 1)))
                 \o If(Ends(base, <<"i">>), TryStem(Y(Cut(base, 1))))
  IN  IF \/ Len(w) < 5 \/ ~Ends(w, <<"i", "n", "g">>)
         \/ Ends(base, <<"n", "g">>) /\ ~InDicts(base)
      THEN Passes
      ELSE {NasalProbe(base, TRUE) \o stems \o again :
              stems \in UNION {IngStems(base, cvc) : cvc \in Patterns(base, TRUE)}}

(* is_ed_suffix_candidate()                                                *)
SoftBlocked(w, base) ==
  /\ EndsIn(base, {"c", "g"}) /\ ~InDicts(base)
  /\ ~(Ends(base, <<"n", "g">>) /\ Len(w) >= 6)
EdCandidate(w, base) ==
  /\ ~EndsIn(base, {"e", "u"})
  /\ ~SoftBlocked(w, base)
  /\ InDicts(base) \/ ~(Ends(base, <<"n", "g">>) \/ Ends(base, <<"e", "t">>))
  /\ ~(/\ Len(w) >= 7 /\ Ends(base, <<"m", "e", "n", "t">>)
       /\ ~VowelLast(base, 5) /\ base \notin stress_pos)
  /\ Len(base) < 3 \/ \E n \in 1 .. 3 : VowelLast(base, n)

(* A double consonant behind two syllables is undoubled first.             *)
EdPlain(base) ==
  LET double == Doubled(base) /\ Last(base) \in {"l", "p", "t", "m", "n", "r", "g", "d", "b"}
      prefer == VowelGroups(base, 0, Len(base) - 2) >= 2
      undone == TryStem(Cut(base, 1))
  IN  If(double /\ prefer, undone) \o FirstWithE(base) \o TryStem(base)
        \o If(double /\ ~prefer, undone) \o LastWithE(base)

EdStems(base, cvc) ==
  IF WantsE(base, cvc)
  THEN MagicE(base, cvc, TryStem(E(base)) \o TryStem(base))
  ELSE {EdPlain(base)}

(* The ending after an unvoiced sound looks at the whole word's rules.     *)
Afterthoughts(w, alt) == Passes \cup {<<After(RulesCall(w, FALSE, alt, FALSE, FALSE))>>}

EdBy(w, base, cvc) ==
  LET first == If(Ends(base, <<"i">>), TryStem(Y(Cut(base, 1))))
      again == If(Doubled(base), TryStem(Cut(base, 1)) \o TryStem(base))
  IN  IF WantsE(base, cvc) /\ HasPrefixAtStart(E(base)) THEN {NasalProbe(base, FALSE)}
      ELSE {NasalProbe(base, FALSE) \o first \o stems \o again \o after :
              stems \in EdStems(base, cvc), after \in Afterthoughts(w, Alt(w))}
Ed(w) ==
  LET base == Cut(w, 2)
  IN  IF Len(w) < 5 \/ ~Ends(w, <<"e", "d">>) \/ ~EdCandidate(w, base) THEN Passes
      ELSE UNION {EdBy(w, base, cvc) : cvc \in Patterns(base, FALSE)}

Ies(w) ==
  IF Len(w) < 4 \/ ~Ends(w, <<"i", "e", "s">>) THEN Passes
  ELSE {<<Need(Stem(Y(Cut(w, 3))), Voiced)>> \o after : after \in Afterthoughts(w, {})}

(* The stem before -es must end in a sibilant, which its codes tell.       *)
PluralS(w) == Ends(w, <<"s">>) /\ ~Doubled(w)
DictS(w) ==
  LET s == Cut(w, 1)
  IN  IF Len(w) < 3 \/ ~PluralS(w) THEN Passes
      ELSE {If(~(Len(s) >= 3 /\ Ends(s, <<"u">>)), <<Try(StemOfS(s), Voiced)>>)
              \o If(Len(w) >= 4 /\ Ends(s, <<"e">>), <<Try(StemOfS(Cut(w, 2)), want)>>) :
              want \in {Voiced, Never}}

MagicEs(w) ==
  LET base == Cut(w, 1)
      c    == FromEnd(base, 2)
      only == Len(base) >= 3 /\ c \in HardConsonants /\ FromEnd(base, 3) \in {"a", "i", "o", "y"}
  IN  IF \/ Len(w) < 4 \/ ~PluralS(w) \/ ~Ends(base, <<"e">>)
         \/ c \in Vowels \cup {"s", "z", "x", "c"}
         \/ Len(base) >= 3 /\ c = "h" /\ FromEnd(base, 3) \in {"c", "s"}
      THEN Passes
      ELSE {<<Try(DictOrRules(base, only), Voiced)>>}

SibilantEs(w, endings) ==
  IF Len(w) >= 4 /\ (\E end \in endings : Ends(w, end)) /\ HasVowel(Cut(w, 2))
  THEN {<<Try(DictOrRules(Cut(w, 2), FALSE), Voiced)>>} ELSE Passes
ChShEs(w) ==
  IF Len(w) < 5 THEN Passes
  ELSE SibilantEs(w, {<<"c", "h", "e", "s">>, <<"s", "h", "e", "s">>})
Xes(w) == SibilantEs(w, {<<"x", "e", "s">>})

Arily(w) ==
  LET stem == Cut(w, 5)
  IN  IF Len(w) < 8 \/ ~Ends(w, <<"a", "r", "i", "l", "y">>) \/ ~HasVowel(stem) THEN Passes
      ELSE {<<Try(DictOrRules(stem \o <<"a", "r", "i">>, FALSE), want)>> :
              want \in {Dull, Never}}

(* check_compound_prefixes(): the first that fits claims the word.         *)
PrefixFits(prefix, w) ==
  LET rest == SubSeq(w, Len(prefix) + 1, Len(w))
  IN  /\ Len(prefix) >= 4 /\ IsPrefix(prefix, w)
      /\ Len(rest) >= 2 /\ HasVowel(rest)
      /\ Len(rest) >= 4 \/ InDicts(rest)
CompoundPrefixes(w) ==
  LET i == SelectInSeq(compound_prefixes, LAMBDA prefix : PrefixFits(prefix, w))
  IN  IF Len(w) < 5 \/ i = 0 THEN Passes
      ELSE {<<Probe(WordCall(SubSeq(w, Len(compound_prefixes[i]) + 1, Len(w)), FALSE)),
              Try(Answer(Voiced), Dull)>>}

RulesFallback(w) == {<<Try(OwnRules(w), Dull)>>}

(* word_to_phonemes(): the arms in their order.                            *)
Arms == 15
Plans(f) ==
  CASE f.arm = 1  -> CapitalDict(f.w, f.cap)
    [] f.arm = 2  -> MainDict(f.w)
    [] f.arm = 3  -> Hyphenated(f.w)
    [] f.arm = 4  -> Possessive(f.w)
    [] f.arm = 5  -> SingleLetter(f.w)
    [] f.arm = 6  -> Ing(f.w)
    [] f.arm = 7  -> Ed(f.w)
    [] f.arm = 8  -> Ies(f.w)
    [] f.arm = 9  -> DictS(f.w)
    [] f.arm = 10 -> MagicEs(f.w)
    [] f.arm = 11 -> ChShEs(f.w)
    [] f.arm = 12 -> Xes(f.w)
    [] f.arm = 13 -> Arily(f.w)
    [] f.arm = 14 -> CompoundPrefixes(f.w)
    [] f.arm = 15 -> RulesFallback(f.w)
-----------------------------------------------------------------------------
(* The calls.                                                              *)

Init == /\ \E text \in Texts : stack = <<WordCall(text.w, text.cap)>>
        /\ result = Waiting

Top == Last(stack)
Working(kind) == stack # <<>> /\ result = Waiting /\ Top.kind = kind
Become(frame) == stack' = Append(Front(stack), frame)
Call(frame, callee) == stack' = Front(stack) \o <<frame, callee>> /\ UNCHANGED result
Return(level) == stack' = Front(stack) /\ result' = level
Louder(a, b) == IF a > b THEN a ELSE b

(* A word.  The plan goes on with the next step there is a reason for.     *)
Idle(step, heard) == step.mode = IF heard = Silent THEN "after" ELSE "try"
Left(plan, heard) ==
  LET next == SelectInSeq(plan, LAMBDA step : ~Idle(step, heard))
  IN  IF next = 0 THEN <<>> ELSE SubSeq(plan, next, Len(plan))

TakePlan ==
  /\ Working("word") /\ Top.plan = <<>> /\ Top.heard = Silent /\ Top.arm <= Arms
  /\ \E plan \in Plans(Top) : Become([Top EXCEPT !.arm = @ + 1, !.plan = plan])
  /\ UNCHANGED result

Ask ==
  /\ Working("word") /\ Top.plan # <<>>
  /\ Call(Top, Head(Top.plan).call)

(* A bug: what was asked in vain is asked again.                           *)
HearStepAgain ==
  /\ stack # <<>> /\ Top.kind = "word" /\ result # Waiting
  /\ LET step  == Head(Top.plan)
          got   == IF result >= step.want THEN result ELSE Silent
          heard == Louder(Top.heard, got)
          lost  == step.mode = "need" /\ got = Silent
      IN  Become([Top EXCEPT !.heard = IF lost THEN Silent ELSE heard,
                             !.plan = IF lost THEN <<>>
                                      ELSE Left(IF got = Silent THEN @ ELSE Tail(@), heard)])
  /\ result' = Waiting

HearStep ==
  /\ stack # <<>> /\ Top.kind = "word" /\ result # Waiting
  /\ LET step  == Head(Top.plan)
          got   == IF result >= step.want THEN result ELSE Silent
          heard == Louder(Top.heard, got)
          lost  == step.mode = "need" /\ got = Silent
      IN  Become([Top EXCEPT !.heard = IF lost THEN Silent ELSE heard,
                             !.plan = IF lost THEN <<>> ELSE Left(Tail(@), heard)])
  /\ result' = Waiting

Claim ==
  /\ Working("word") /\ Top.plan = <<>>
  /\ Top.heard # Silent \/ Top.arm > Arms
  /\ Return(Top.heard)

Told == Working("answer") /\ Return(Top.heard)

(* The rules: find_best_rule() at the place of the scan.                   *)
Scanning == Working("rules") /\ Top.pos < Len(Top.w)
Best == FindBestRule(Top.w, Top.pos, Top)
Behind(m) == Top.pos + Len(m.rule.match)
Spoken(m) == Append(Top.sofar, m.rule.ph)
Terminal(m) == (Top.allow \/ Top.only) /\ m.rule.suffix /\ Behind(m) = Len(Top.w)
Passing(m) == m.rule.prefix /\ Behind(m) < Len(Top.w)
Level(sofar) ==
  IF \E i \in DOMAIN sofar : sofar[i].groups > 0 THEN Voiced
  ELSE IF \E i \in DOMAIN sofar : sofar[i].some THEN Dull ELSE Silent

Skip(m) ==
  /\ m.score < 0
  /\ Become([Top EXCEPT !.pos = @ + 1])
  /\ UNCHANGED result

(* A letter the rule silences is read as E when the scan gets there.       *)
Speak(m) ==
  /\ m.score >= 0 /\ ~Terminal(m) /\ ~Passing(m)
  /\ Become([Top EXCEPT !.pos = Behind(m), !.sofar = Spoken(m),
                        !.rep = IF m.del >= 0 THEN @ \cup {m.del} ELSE @])
  /\ UNCHANGED result

SpeakEnding(m) ==
  /\ m.score >= 0 /\ Terminal(m) /\ Top.only
  /\ Become([Top EXCEPT !.pos = Behind(m), !.sofar = Spoken(m)])
  /\ UNCHANGED result
(* process_suffix_rule(): the stem, with its i turned back to y and the e  *)
(* it may have lost.                                                       *)
Stripped(f, rule) ==
  LET stem == Cut(f.w, IF rule.strip = 0 \/ rule.strip > Len(f.w) THEN Len(rule.match)
                       ELSE rule.strip)
  IN  IF "i" \in rule.flags /\ Ends(stem, <<"i">>) THEN Y(Cut(stem, 1)) ELSE stem

LostE == {<<"c">>, <<"r", "s">>, <<"i", "r">>, <<"u", "r">>, <<"a", "t", "h">>, <<"n", "s">>,
          <<"u">>, <<"s", "p", "o", "n", "g">>, <<"r", "a", "n", "g">>, <<"l", "a", "r", "g">>}
ShapeWantsE(stem) ==
  /\ Len(stem) >= 2 /\ Last(stem) \in HardConsonants /\ VowelLast(stem, 2)
  /\ ~Ends(stem, <<"i", "o", "n">>)
BareInDicts(stem, rule) ==
  (~rule.ph.s /\ stem \in verb_dict) \/ (stem \in dict /\ ~Only(stem))
MagicEWanted(stem, rule) ==
  \/ ~rule.ph.s /\ "v" \in rule.flags /\ E(stem) \in verb_dict
  \/ /\ ~BareInDicts(stem, rule)
     /\ (\E end \in LostE : Ends(stem, end)) \/ ShapeWantsE(stem)

(* A bug: the e is put back behind every ending.                           *)
StemOfAny(f, rule) ==
  LET stem == Stripped(f, rule)
  IN  IF stem # <<>> /\ ~Ends(stem, <<"e">>) /\ MagicEWanted(stem, rule) THEN E(stem) ELSE stem

StemOf(f, rule) ==
  LET stem == Stripped(f, rule)
  IN  IF /\ "e" \in rule.flags /\ stem # <<>> /\ ~Ends(stem, <<"e">>)
         /\ MagicEWanted(stem, rule)
      THEN E(stem) ELSE stem

(* stem_phoneme_from_dict(): the three dictionaries, then those of the     *)
(* stem without its e, then the rules.                                     *)
StemFound(stem, rule) ==
  \/ ~rule.ph.s /\ "v" \in rule.flags /\ stem \in verb_dict
  \/ rule.ph.s /\ stem \in onlys_bare_dict
  \/ stem \in dict /\ (rule.ph.s \/ ~Only(stem))
StemWithoutE(stem) ==
  Len(stem) > 1 /\ Ends(stem, <<"e">>) /\ Cut(stem, 1) \in dict /\ ~Only(Cut(stem, 1))

StemCall(stem, rule, alt) ==
  IF stem = <<>> THEN Answer(Silent)
  ELSE IF StemFound(stem, rule) THEN Answer(Sound(stem))
  ELSE IF StemWithoutE(stem) THEN Answer(Sound(Cut(stem, 1)))
  ELSE RulesCall(stem, TRUE,
                 alt \cup Alt(IF stem \in DOMAIN word_alt_flags THEN stem ELSE E(stem)),
                 FALSE, TRUE)

(* The stem and the ending stand for the whole word.                       *)
StripSuffix(m) ==
  /\ m.score >= 0 /\ Terminal(m) /\ ~Top.only
  /\ Call([Top EXCEPT !.pos = Len(Top.w), !.sofar = <<m.rule.ph>>],
          StemCall(StemOf(Top, m.rule), m.rule, Top.alt))

(* process_prefix_rule(): the rest of the word is a word of its own.       *)
RestCall(rest) ==
  IF rest \in onlys_words \cup noun_form_stress \cup verb_flag_words
  THEN OwnRules(rest) ELSE WordCall(rest, FALSE)
Unstressed(sofar) ==
  /\ \A i \in DOMAIN sofar : ~sofar[i].mark
  /\ \E i \in DOMAIN sofar : sofar[i].full

PassPrefix(m) ==
  /\ m.score >= 0 /\ ~Terminal(m) /\ Passing(m)
  /\ Unstressed(Spoken(m))
  /\ Become([Top EXCEPT !.pos = Behind(m), !.sofar = Spoken(m)])
  /\ UNCHANGED result

StripPrefix(m) ==
  /\ m.score >= 0 /\ ~Terminal(m) /\ Passing(m)
  /\ ~Unstressed(Spoken(m))
  /\ Call([Top EXCEPT !.pos = Behind(m), !.sofar = Spoken(m)],
          RestCall(SubSeq(Top.w, Behind(m) + 1, Len(Top.w))))

Scan ==
  Scanning /\ \E m \in {Best} :
    Skip(m) \/ Speak(m) \/ SpeakEnding(m) \/ StripSuffix(m) \/ PassPrefix(m) \/ StripPrefix(m)

(* What was heard ends the scan; a silent prefix and rest let it go on.    *)
HearCall ==
  /\ stack # <<>> /\ Top.kind = "rules" /\ result # Waiting
  /\ IF Level(Top.sofar) = Silent /\ result = Silent
     THEN Become([Top EXCEPT !.sofar = <<>>])
     ELSE Become([Top EXCEPT !.pos = Len(Top.w), !.heard = result])
  /\ result' = Waiting

Finish ==
  /\ Working("rules") /\ Top.pos = Len(Top.w)
  /\ Return(Louder(Level(Top.sofar), Top.heard))

Next ==
  \/ TakePlan \/ Ask \/ HearStep \/ Claim \/ Told
  \/ Scan \/ HearCall \/ Finish

Done == stack = <<>> /\ UNCHANGED vars

(* The calls run one after another, on one thread.  While there is a call  *)
(* Next is enabled (the runs check for deadlock), so this is WF_vars(Next) *)
(* in a form whose ENABLED TLC need not evaluate.                          *)
Progress == <>[](stack # <<>>) => []<><<Next>>_vars
Spec == Init /\ [][Next \/ Done]_vars /\ Progress

-----------------------------------------------------------------------------
(* Properties.                                                             *)

Places(w) == 0 .. Len(w)
FrameOK(f) ==
  /\ f.heard \in Levels
  /\ f.kind = "word" => f.arm \in 1 .. Arms + 1
  /\ f.kind = "rules" => f.pos \in Places(f.w) /\ f.rep \subseteq Places(f.w) \ {Len(f.w)}

(* A scan stays within its word and silences letters of the word only.     *)
TypeOK ==
  /\ result \in Levels \cup {Waiting}
  /\ \A i \in DOMAIN stack : FrameOK(stack[i])

(* phonemizer.md: the recursion of words and rules ends.  A call is for a  *)
(* strictly shorter word than the one that made it, but for a word's own   *)
(* rules; a stem that got its e back is shorter too.                       *)
Depth(f) == 2 * Len(f.w) + (IF f.kind = "word" THEN 1 ELSE 0)
CallsShorten ==
  \A i \in 2 .. Len(stack) :
    stack[i].kind # "answer" => Depth(stack[i]) < Depth(stack[i - 1])

(* find_best_rule() over both groups: of the rules that match here and may *)
(* be used, the best score wins, and of equal ones the last.  A rule is    *)
(* named by its group's place and its own in the group.                    *)
GroupAt(f, k) ==
  LET key == KeysAt(f.w, f.pos, f)[k] IN IF key \in DOMAIN Rules THEN Rules[key] ELSE <<>>
MatchOf(f, r) ==
  MatchRule(GroupAt(f, r[1])[r[2]], f.w, f.pos, Len(KeysAt(f.w, f.pos, f)[r[1]]), f)
Offered(f) ==
  {r \in UNION {{k} \X DOMAIN GroupAt(f, k) : k \in DOMAIN KeysAt(f.w, f.pos, f)} :
     MatchOf(f, r).score >= 0 /\ ~EndingSkip(MatchOf(f, r), f.w, f.pos, f)}
ComesAfter(r, q) == r[1] > q[1] \/ (r[1] = q[1] /\ r[2] > q[2])

BestRuleTaken ==
  Scanning =>
    IF Offered(Top) = {} THEN Best = NoMatch
    ELSE \E r \in Offered(Top) :
           /\ Best = MatchOf(Top, r)
           /\ \A q \in Offered(Top) \ {r} :
                IF ComesAfter(q, r) THEN MatchOf(Top, q).score < Best.score
                ELSE MatchOf(Top, q).score <= Best.score

(* Every word ends, with whatever phonemes.                                *)
WordsEnd == <>(stack = <<>>)

=============================================================================
