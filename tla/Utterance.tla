------------------------------ MODULE Utterance ------------------------------
(***************************************************************************)
(* phonemize_text() (src/phonemizer.c): an utterance, token by token, from *)
(* its text to what is spoken.                                             *)
(*                                                                         *)
(* A word is a number, an acronym, the first of a pair the tables know, an *)
(* abbreviation, or a word of its own.  The last kind, and the pairs that  *)
(* have codes, go through the passes of Passes, and then through what the  *)
(* sentence makes of them: other entries by place and by the words before, *)
(* fixed forms of a few words, the stress of function words, and what the  *)
(* next word's sound does to the end of this one.                          *)
(***************************************************************************)
EXTENDS Sentence

-----------------------------------------------------------------------------
(* The handler of a token.                                                 *)

Init ==
  /\ ts \in {tokenize(text) : text \in Texts}
  /\ onset = Onsets(ts)
  /\ ti = 1 /\ t = 0 /\ stage = "next"
  /\ first_word = TRUE /\ expect = NoWindows /\ phrase = NoPhrase
  /\ is_unstressed_word = FALSE /\ says = <<>> /\ out = <<>> /\ handled = <<>> /\ mute = {}
  /\ given = <<>> /\ strend = FALSE /\ ph = <<>> /\ edges = {}
  /\ led = FALSE /\ fired = FALSE /\ ran = FALSE /\ pass = "done"

SkipPunctuation ==
  /\ stage = "next" /\ ti \in DOMAIN ts \ WordTokens
  /\ ti' = ti + 1
  /\ UNCHANGED <<passes, input, t, stage, first_word, expect, phrase, is_unstressed_word, says,
                 out, handled, mute>>

(* The token at hand is taken, and the one its pair ends with.             *)
Takes(way, j) ==
  /\ stage = "next" /\ ti \in WordTokens /\ Way(ti) = way
  /\ t' = ti /\ ti' = j
  /\ UNCHANGED <<input, expect, is_unstressed_word, handled>>
Second == find_next_non_empty_word(ti + 1)

(* It is spoken at once, but for what of it has no sound.                  *)
Consumes(way, j, pieces, silent) ==
  /\ Takes(way, j)
  /\ out' = out \o pieces
  /\ mute' = mute \cup silent
  /\ first_word' = (first_word /\ pieces = <<>>)
  /\ stage' = "count"
  /\ UNCHANGED <<passes, phrase, says>>

ExpandNumber == Consumes("number", ti, expand_number_token(ti), {})
Spells(sounds) ==
  Consumes("acronym", ti, spell_acronym_groups(ti, sounds),
           {i \in {ti} : Silent(sounds) # {}})
SpellAcronym == Spells(GroupSounds(ti))
EmitClitic == Consumes("clitic", Second, try_emit_direct_clitic(ti, Second), {})
(* A bug: the second word of the pair is left to be taken again.           *)
EmitSplitPhraseFirst == Consumes("split phrase", ti, try_emit_split_phrase(ti, Second), {})

EmitSplitPhrase == Consumes("split phrase", Second, try_emit_split_phrase(ti, Second), {})
ExpandAbbreviation == Consumes("abbreviation", ti, emit_spelled_abbreviation(ti), {})

(* Or its codes go through the passes.                                     *)
Finds(way, j, codes, flag, matched) ==
  /\ Takes(way, j)
  /\ Begin(codes, flag)
  /\ phrase' = matched
  /\ says' = IF matched.matched THEN <<ti, j>> ELSE <<ti>>
  /\ stage' = "codes"
  /\ UNCHANGED <<first_word, out, mute>>

MatchStaticPhrase ==
  Finds("static phrase", Second, STATIC_PHRASE_CODES[build_lower_bigram(ti, Second)], FALSE,
        [NoPhrase EXCEPT !.matched = TRUE])
MatchLoadedPhrase ==
  LET key == build_lower_bigram(ti, Second)
  IN  Finds("loaded phrase", Second, phrase_dict[key], FALSE,
            [matched |-> TRUE, key |-> key,
             the |-> Ends(phrase_dict[key], Chars("D@2")) /\ the_before_vowel(Second)])
LookUp == Finds("word", ti, RawCodes(Lower(ti)), Strend(Lower(ti)), NoPhrase)

PassOver == Pass /\ UNCHANGED sentence

(* Another entry takes the place of the codes, and goes through the passes *)
(* too.                                                                    *)
SwapByWindow ==
  /\ stage = "codes" /\ pass = "done" /\ apply_pos_context_override
  /\ Begin(PosEntries[Lower(t)], FALSE)
  /\ stage' = "swapped"
  /\ UNCHANGED <<input, ti, t, first_word, expect, phrase, is_unstressed_word, says, out,
                 handled, mute>>

(* By the place in the sentence, and the fixed forms; these codes see no   *)
(* pass.  A form is that of the first word of a pair, and only of it.      *)
KeepForm(codes, form) ==
  /\ Keep(IF form = "" THEN codes ELSE Chars(form))
  /\ says' = IF form = "" THEN says ELSE <<t>>
FixForm(codes) == KeepForm(codes, apply_lemma_override(codes))
SwapByPlace ==
  /\ stage \in {"codes", "swapped"} /\ pass = "done"
  /\ stage = "codes" => ~apply_pos_context_override
  /\ FixForm(apply_atend_override(apply_atstart_override(ph)))
  /\ stage' = "stress"
  /\ UNCHANGED <<input, ti, t, first_word, expect, phrase, is_unstressed_word, out, handled, mute>>

StressInSentence ==
  /\ stage = "stress"
  /\ is_unstressed_word' = token_is_unstressed_word(Lower(t))
  /\ Keep(apply_step_c(apply_step_b(ph, Lower(t)), Lower(t)))
  /\ stage' = "join"
  /\ UNCHANGED <<input, ti, t, first_word, expect, phrase, says, out, handled, mute>>

JoinToNext ==
  /\ stage = "join"
  /\ Keep(apply_cross_word_schwa_rhotic(apply_inter_word_t_flap(
            fix_diphthong_stress_position(ph))))
  /\ stage' = "speak"
  /\ UNCHANGED <<input, ti, t, first_word, expect, phrase, is_unstressed_word, says, out,
                 handled, mute>>

(* A word without a sound is not spoken.                                   *)
Utter(ipa) ==
  /\ out' = IF ipa = <<>> THEN out
            ELSE Append(out, Piece(~first_word, ipa, [k \in DOMAIN says |-> Whole(says[k])]))
  /\ mute' = IF ipa = <<>> THEN mute \cup ToSet(says) ELSE mute
  /\ first_word' = (first_word /\ ipa = <<>>)
Speak ==
  /\ stage = "speak"
  /\ Utter(apply_cross_word_t_flap(apply_r_linking(apply_pre_vowel_the_fixup(phrase.the,
             maybe_add_default_stress(ph, phonemes_to_ipa(ph))))))
  /\ stage' = "count"
  /\ UNCHANGED <<passes, input, ti, t, expect, phrase, is_unstressed_word, says, handled>>

(* A bug: the windows do not close one another.                            *)
WindowsTogether(word) ==
  [past |-> IF word \in pastf_words THEN 3 ELSE expect.past,
   noun |-> IF word \in nounf_words THEN 2 ELSE expect.noun,
   verb |-> IF word \in verbf_words THEN 2 ELSE expect.verb]

(* A pair counts as its first word.                                        *)
Window(word) ==
  CASE word \in pastf_words -> [NoWindows EXCEPT !.past = 3]
    [] word \in nounf_words \ pastf_words -> [NoWindows EXCEPT !.noun = 2]
    [] word \in verbf_words \ (pastf_words \cup nounf_words) -> [NoWindows EXCEPT !.verb = 2]
    [] OTHER -> expect

(* A bug: a window is opened and never counted down.                       *)
CountersHeld(word) == Window(word)

update_pos_context_counters(word) ==
  [pos \in DOMAIN expect |-> IF Window(word)[pos] > 0 THEN Window(word)[pos] - 1 ELSE 0]

UpdateCounters ==
  /\ stage = "count"
  /\ expect' = update_pos_context_counters(Lower(t))
  /\ handled' = Append(handled, t)
  /\ ti' = ti + 1
  /\ stage' = "next"
  /\ UNCHANGED <<passes, input, t, first_word, phrase, is_unstressed_word, says, out, mute>>

Finish ==
  /\ stage = "next" /\ ti > Len(ts)
  /\ stage' = "done"
  /\ UNCHANGED <<passes, input, ti, t, first_word, expect, phrase, is_unstressed_word, says, out,
                 handled, mute>>

Returned == stage = "done" /\ UNCHANGED vars

Next ==
  \/ SkipPunctuation \/ ExpandNumber \/ SpellAcronym \/ EmitClitic \/ MatchStaticPhrase
  \/ MatchLoadedPhrase \/ EmitSplitPhrase \/ ExpandAbbreviation \/ LookUp \/ PassOver
  \/ SwapByWindow \/ SwapByPlace \/ StressInSentence \/ JoinToNext \/ Speak \/ UpdateCounters
  \/ Finish \/ Returned

Spec == Init /\ [][Next]_vars

-----------------------------------------------------------------------------
(* Properties.                                                             *)

(* Every variable in its range, and an utterance that moves forward.       *)
TypeOK ==
  /\ PassesTypeOK
  /\ ti \in 1 .. Len(ts) + 1 /\ t \in 0 .. Len(ts)
  /\ stage \in Stages
  /\ pass # "done" => stage \in {"codes", "swapped"}
  /\ {first_word, is_unstressed_word} \subseteq BOOLEAN
  /\ expect \in [past : 0 .. 2, noun : 0 .. 1, verb : 0 .. 1]
  /\ ToSet(says) \cup ToSet(handled) \subseteq WordTokens

(* The stress that the passes give a word is heard: phonemes_to_ipa() drops *)
(* a mark that another one follows before the next vowel, or that no vowel *)
(* follows, and when every mark of the codes stood in front of a vowel the *)
(* passes leave one such mark only, a secondary in front of the primary    *)
(* that is put on its vowel.                                               *)
Proper(codes) == \A i \in Places(codes, Marks) : At(codes, i + 1) \in Vowels
SpokenMarks(ipa) == SelectSeq(ipa, LAMBDA s : s \in StressSounds)
MarksHeard ==
  stage \in {"codes", "swapped"} /\ pass = "done" /\ Proper(given) =>
    Len(SpokenMarks(phonemes_to_ipa(ph))) =
      Cardinality({i \in Places(ph, Stresses) : From(ph, i, 2) # <<",", "'">>})

(* A reduction takes the colour of vowels away from the stress only: those *)
(* right behind a mark stay what they are, in their order.  The two that   *)
(* the code means to change are oU#, which is short under the primary, and *)
(* the vowel of -ness, which loses its mark.                               *)
Heads(codes) ==
  LET marks == SetToSortSeq({i \in Places(codes, Stresses) : At(codes, i + 1) \in Vowels}, <)
  IN  [k \in DOMAIN marks |-> IF From(codes, marks[k] + 1, 3) = Chars("oU#") THEN "oU#"
                              ELSE codes[marks[k] + 1]]
Kept(before, after) ==
  /\ Len(before) = Len(after)
  /\ \A k \in DOMAIN after : \/ after[k] = before[k]
                             \/ before[k] = "oU#" /\ after[k] \in {"o", "0"}
StressedKept ==
  [][pass = "reduce" =>
       Kept(IF Ends(ph, Chars("n,Es")) THEN Front(Heads(ph)) ELSE Heads(ph), Heads(ph'))]_vars

(* What was spoken, token by token: the parts of each, in order.           *)
AllSaid == FlattenSeq([k \in DOMAIN out |-> out[k].says])
PartsIn(said, i) ==
  FlattenSeq([k \in DOMAIN said |-> IF said[k].token = i THEN <<said[k].part>> ELSE <<>>])
Parts(i) == PartsIn(AllSaid, i)

(* The value of number words.                                              *)
Among(words, word) == {k \in DOMAIN words : words[k] = word}
Plus(sum, word) ==
  LET ones == Among(NUM_ONES, word)
      tens == Among(NUM_TENS, word)
  IN  IF word = "million" THEN [all |-> sum.all + sum.part * 1000000, part |-> 0]
      ELSE IF word = "thousand" THEN [all |-> sum.all + sum.part * 1000, part |-> 0]
      ELSE IF word = "hundred" THEN [sum EXCEPT !.part = @ * 100]
      ELSE [sum EXCEPT !.part = @ + IF ones # {} THEN Min(ones)
                                    ELSE IF tens # {} THEN 10 * Min(tens) ELSE 0]
Summed(start, words) == Walk(Len(words), start, LAMBDA sum, k : Plus(sum, words[k]))
ReadBack(words) ==
  LET total == Summed([all |-> 0, part |-> 0], words) IN total.all + total.part

(* A pair whose first word has a fixed form loses its second.              *)
Formed(j, i) ==
  \/ Lower(j) \in Codes({"a", "an", "to"})
  \/ Lower(j) = Chars("the") /\ word_is_vowel_initial_non_yod(find_next_word_stop_on_punct(i + 1))
  \/ Lower(j) = Chars("use") /\ previous_word_is_pronoun(i)
Replaced(i, takers) ==
  \E j \in takers : /\ Way(j) \in {"static phrase", "loaded phrase"}
                     /\ find_next_non_empty_word(j + 1) = i
                     /\ Formed(j, i)

(* The token was spoken whole, once, a number with its value, unless there *)
(* is nothing to hear of it.                                               *)
Heard(i, takers) ==
  IF i \in mute
  THEN ToSet(Parts(i)) \subseteq IF Way(i) = "acronym" THEN ToSet(acronym_groups(i)) ELSE {}
  ELSE IF Replaced(i, takers) THEN Parts(i) = <<>>
  ELSE IF i \in takers /\ Spoken(Text(i))
  THEN Parts(i) # <<>> /\ ReadBack(Parts(i)) = Value(Text(i))
  ELSE FlattenSeq(Parts(i)) = Text(i)

(* Every word the text had so far was heard, in its place; a space stands  *)
(* between any two pieces and nowhere else.                                *)
Said ==
  stage \in {"next", "done"} =>
    /\ \A k \in DOMAIN out : out[k].space = (k > 1)
    /\ \A k \in 1 .. Len(AllSaid) - 1 : AllSaid[k].token <= AllSaid[k + 1].token
    /\ \A i \in {j \in WordTokens : j < ti} : Heard(i, ToSet(handled))

(* A window is open for as many tokens as its flag says, and a newer flag  *)
(* word closes an older one's: the counters are what the words before say. *)
Flag(word) == IF word \in pastf_words THEN "past" ELSE IF word \in nounf_words THEN "noun"
              ELSE IF word \in verbf_words THEN "verb" ELSE ""
WindowsAsFlagged ==
  LET flags == {k \in DOMAIN handled : Flag(Lower(handled[k])) # ""}
      kind  == Flag(Lower(handled[Max(flags)]))
      since == Len(handled) - Max(flags)
      Left(pos, length) == IF flags # {} /\ kind = pos /\ since < length THEN length - since ELSE 0
  IN  expect = [past |-> Left("past", 2), noun |-> Left("noun", 1), verb |-> Left("verb", 1)]

(* An r that links to the next word is followed at once, with no           *)
(* punctuation in between, by a piece that begins with a vowel.            *)
Links(ipa) == /\ Len(ipa) >= 2 /\ Last(ipa) = LinkingR /\ ends_in_rhotic_r(Front(ipa))
FirstSound(ipa) == SelectSeq(ipa, LAMBDA s : s \notin StressSounds)[1]
LinkedBeforeVowel ==
  ~is_isolated_word =>
    \A k \in {j \in DOMAIN out : Links(out[j].ipa)} :
      IF k = Len(out) THEN stage # "done"
      ELSE /\ VowelCode(FirstSound(out[k + 1].ipa))
           /\ out[k + 1].says[1].token = Last(out[k].says).token + 1

(* A word alone is stressed, unless all it has are weak schwas; and it has  *)
(* one primary, unless its codes had more: of the primaries that the       *)
(* passes put, each takes the place of the one before it.                  *)
Primaries(s, mark) == Cardinality({i \in DOMAIN s : s[i] = mark})
WordStress ==
  LET ipa == out[1].ipa
      raw == Primaries(RawCodes(Lower(last_word_ti)), "'")
  IN  stage = "done" /\ is_isolated_word /\ out # <<>> /\ Way(last_word_ti) = "word" =>
        /\ (\E i \in DOMAIN ipa : VowelCode(ipa[i]) /\ ipa[i] \notin Codes({"@2", "@5"})) =>
             contains_stress_marker(ipa)
        /\ Primaries(ipa, <<"'">>) <= IF raw = 0 THEN 1 ELSE raw
=============================================================================
