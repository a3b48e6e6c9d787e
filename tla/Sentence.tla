------------------------------- MODULE Sentence -------------------------------
(***************************************************************************)
(* What the handlers of a token ask (src/phonemizer.c, sections 9 to 10): *)
(* how a word is spoken, what stands around it, and what the sentence      *)
(* makes of its codes.  Utterance has the handlers.                        *)
(*                                                                         *)
(* The loaded dictionary is the constants; which arm of word_to_phonemes() *)
(* finds a word's codes, and which rules match, is the subject of Words:   *)
(* here a word has an entry, or the phonemes of the rules that match it.   *)
(***************************************************************************)
EXTENDS Passes, Tokens

CONSTANTS
  Texts,
  dict(_),                              \* the codes of a word's entry, <<>> without one
  rules(_),                             \* the phonemes of the rules that match a word, in
                                        \* order, and what a suffix rule puts behind them
  stress_pos,                           \* from words to the vowel that $n stresses
  past_dict, noun_dict, verb_dict, atstart_dict, atend_dict,
                                        \* from words to codes
  phrase_dict, phrase_split_dict,       \* from "word word" to codes, to pairs of codes
  strend_words, abbrev_words, unstressed_words, pastf_words, nounf_words, verbf_words,
  comma_strend2_words, u2_strend2_words, u_plus_secondary_words, unstressend_words,
                                        \* sets of words
  keep_sec_phrase_keys                  \* a set of "word word"

(* A text is a sequence of characters.                                     *)
ASSUME TextsAreSequences == Texts \subseteq Seq(STRING)

VARIABLES
  ts,           \* the tokens
  onset,        \* the first sound of the words that handlers look ahead to
  ti,           \* the token at hand; the second of a pair once it is taken
  t,            \* the token whose handler runs, the first of a pair
  stage,        \* what the handler does next
  first_word,   \* nothing was spoken yet
  expect,       \* how long a flag word's window is still open
  phrase,       \* the pair the codes came from
  is_unstressed_word,
  says,         \* the tokens that the codes speak
  out,          \* what was spoken: pieces of sound, a space before or not
  handled,      \* the tokens that had a handler, in order
  mute          \* the tokens that have no sound, or a group of letters that has none

sentence ==
  <<ts, onset, ti, t, stage, first_word, expect, phrase, is_unstressed_word, says, out, handled,
    mute>>
input == <<ts, onset>>
vars == <<passes, sentence>>

Stages == {"next", "codes", "swapped", "stress", "join", "speak", "count", "done"}
NoWindows == [past |-> 0, noun |-> 0, verb |-> 0]
NoPhrase == [matched |-> FALSE, key |-> <<>>, the |-> FALSE]

-----------------------------------------------------------------------------
(* Words and their neighbours.                                             *)

apply_rules(word) ==
  LET phonemes == rules(word)
  IN  FoldLeft(apply_matched_rule, <<>>, Front(phonemes)) \o Last(phonemes)

(* The codes an arm found for a word: its entry, a letter's entry, or what *)
(* the rules make of it.                                                   *)
RawCodes(word) ==
  LET letter == <<"_">> \o word
      codes  == IF dict(word) # <<>> THEN dict(word) ELSE apply_rules(word)
  IN  IF dict(word) = <<>> /\ Len(word) = 1 /\ dict(letter) # <<>> THEN dict(letter)
      ELSE IF word \in DOMAIN stress_pos THEN apply_stress_position(codes, stress_pos[word])
      ELSE codes
Strend(word) == dict(word) # <<>> /\ word \in strend_words
word_to_phonemes(word) ==
  process_phoneme_string(RawCodes(to_lower(word)), Strend(to_lower(word)))
Onset(codes) == At(codes, skip_stress_markers(codes, 1))

Text(i) == ts[i].text
Lower(i) == to_lower(Text(i))
WordTokens == {i \in DOMAIN ts : ts[i].is_word}
last_word_ti == Max(WordTokens)
is_isolated_word == Cardinality(WordTokens) = 1

(* A handler that looks ahead asks word_to_phonemes() for the word, or for  *)
(* its first letter; every such word is behind another.                    *)
Letters(word) == SelectSeq(word, isalpha)
Asked(tokens) ==
  LET words == {to_lower(tokens[i].text) : i \in {k \in DOMAIN tokens : k > 1 /\ tokens[k].is_word}}
  IN  words \cup {<<Letters(word)[1]>> : word \in {w \in words : Letters(w) # <<>>}}
Onsets(tokens) == [word \in Asked(tokens) |-> Onset(word_to_phonemes(word))]
Starts(word, onsets) == onset[to_lower(word)] \in onsets

(* The next word, over punctuation and not over it; 0 is none.  No word is *)
(* empty.                                                                  *)
find_next_non_empty_word(i) ==
  LET later == {j \in WordTokens : j >= i} IN IF later = {} THEN 0 ELSE Min(later)
find_next_word_stop_on_punct(i) == IF i \in WordTokens THEN i ELSE 0

(* By its letters; what starts with u or e may still start with a j.       *)
word_is_vowel_initial_non_yod(i) ==
  /\ i # 0
  /\ is_plain_vowel(Lower(i)[1])
  /\ Lower(i)[1] \in {"u", "e"} => ~Starts(Lower(i), {"j"})

unknown_word(word) == dict(to_lower(word)) = <<>>
mixed_case_no_vowel_abbrev(word) == unknown_word(word) /\ is_mixed_case_no_vowel(word)
spells_out_letter_by_letter(word) ==
  is_all_upper(word) /\ (unknown_word(word) \/ to_lower(word) \in abbrev_words)

(* By its sound, or that of its first letter if it is spelled out.         *)
next_word_is_vowel_initial(i) ==
  Starts(IF Has(Text(i), ".") \/ spells_out_letter_by_letter(Text(i))
         THEN <<Letters(Text(i))[1]>> ELSE Text(i), Vowels)

-----------------------------------------------------------------------------
(* Pieces.                                                                 *)

Piece(space, ipa, spoken) == [space |-> space, ipa |-> ipa, says |-> spoken]
Whole(i) == [token |-> i, part |-> Text(i)]
LeadSpace(i) == ts[i].needs_space /\ ~first_word

expand_number_token(i) ==
  LET words == int_to_words(Value(Text(i)))
      ipa(k) == add_default_stress(phonemes_to_ipa(word_to_phonemes(Chars(words[k]))))
  IN  [k \in DOMAIN words |->
         Piece(k > 1 \/ LeadSpace(i), ipa(k), << [token |-> i, part |-> words[k]] >>)]

LetterCodes(letter) ==
  LET entry == <<"_", tolower(letter)>>
  IN  IF dict(entry) # <<>> THEN dict(entry) ELSE word_to_phonemes(<<letter>>)
append_secondary_letter(code) ==
  LET first == Min(Places(code, Stresses))
  IN  IF Places(code, Stresses) = {} THEN <<",">> \o code
      ELSE SubSeq(code, 1, first - 1) \o <<",">>
             \o SelectSeq(SubSeq(code, first + 1, Len(code)), LAMBDA c : c \notin Stresses)
append_primary_letter(code) == IF Has(code, "'") THEN code ELSE <<"'">> \o code
append_letter(code, last) ==
  IF last THEN append_primary_letter(code) ELSE append_secondary_letter(code)
combine_letter_codes(letters) ==
  FlattenSeq([k \in DOMAIN letters |-> append_letter(LetterCodes(letters[k]), k = Len(letters))])

spell_group(letters) ==
  phonemes_to_ipa(process_phoneme_string(combine_letter_codes(letters), FALSE))

(* What an acronym's groups sound like; one without a sound is left out.   *)
Spaced(i, pieces) == [k \in DOMAIN pieces |-> [pieces[k] EXCEPT !.space = k > 1 \/ LeadSpace(i)]]
acronym_groups(i) == Groups(Text(i), mixed_case_no_vowel_abbrev(Text(i)))
GroupSounds(i) == [k \in DOMAIN acronym_groups(i) |-> spell_group(acronym_groups(i)[k])]
Silent(sounds) == {k \in DOMAIN sounds : sounds[k] = <<>>}
spell_acronym_groups(i, sounds) ==
  LET groups == acronym_groups(i)
      piece(k) == Piece(FALSE, sounds[k], << [token |-> i, part |-> groups[k]] >>)
      heard  == [k \in DOMAIN groups |-> IF k \in Silent(sounds) THEN <<>> ELSE <<piece(k)>>]
  IN  Spaced(i, FlattenSeq(heard))

(* Spelled out too, but its codes see no pass.                             *)
emit_spelled_abbreviation(i) ==
  << Piece(LeadSpace(i), phonemes_to_ipa(combine_letter_codes(Letters(Text(i)))),
           <<Whole(i)>>) >>

-----------------------------------------------------------------------------
(* Pairs of words.                                                         *)

(* What is written in sounds there, here in the codes of these sounds.     *)
CLITIC_IPA ==
  Chars("of a") :> Chars("@v@") @@ Chars("of the") :> Chars("VvD@")
    @@ Chars("in the") :> Chars("InD@") @@ Chars("on the") :> Chars("OnD@")
    @@ Chars("from the") :> Chars("frVmD@") @@ Chars("that a") :> Chars("D,a*@")
    @@ Chars("i am") :> Chars("aIa#m") @@ Chars("was a") :> Chars("wVza#")
    @@ Chars("to be") :> Chars("t@bi") @@ Chars("out of") :> Chars(",aU*@v")
STATIC_PHRASE_CODES == Chars("has been") :> Chars("h'azbi:n")

build_lower_bigram(i, j) == Lower(i) \o <<" ">> \o Lower(j)

the_before_vowel(j) == word_is_vowel_initial_non_yod(find_next_non_empty_word(j + 1))

try_emit_direct_clitic(i, j) ==
  LET ipa == phonemes_to_ipa(CLITIC_IPA[build_lower_bigram(i, j)])
      the == Lower(j) = Chars("the") /\ the_before_vowel(j)
  IN  << Piece(LeadSpace(i), apply_pre_vowel_the_fixup(the, ipa), <<Whole(i), Whole(j)>>) >>

render_split_part(codes, is_first, phrase_has_primary) ==
  LET weak == Places(codes, Stresses) = {} /\ ~(is_first /\ ~phrase_has_primary)
  IN  phonemes_to_ipa(process_phoneme_string((IF weak THEN <<"%">> ELSE <<>>) \o codes, FALSE))

try_emit_split_phrase(i, j) ==
  LET codes == phrase_split_dict[build_lower_bigram(i, j)]
      prime == Has(codes[1], "'") \/ Has(codes[2], "'")
  IN  [k \in 1 .. 2 |-> Piece(k = 2 \/ LeadSpace(i), render_split_part(codes[k], k = 1, prime),
                              <<Whole(<<i, j>>[k])>>)]

(* How a word is spoken: the first way that knows it.  A word with a       *)
(* period has two letters, the arms for fewer are never taken.             *)
Way(i) ==
  LET j == find_next_non_empty_word(i + 1)
      Begins(pairs) == j # 0 /\ build_lower_bigram(i, j) \in DOMAIN pairs
  IN  IF Spoken(Text(i)) THEN "number"
      ELSE IF spells_out_letter_by_letter(Text(i)) \/ mixed_case_no_vowel_abbrev(Text(i))
      THEN "acronym"
      ELSE IF Begins(CLITIC_IPA) THEN "clitic"
      ELSE IF Begins(STATIC_PHRASE_CODES) THEN "static phrase"
      ELSE IF Begins(phrase_dict) THEN "loaded phrase"
      ELSE IF Begins(phrase_split_dict) THEN "split phrase"
      ELSE IF Has(Text(i), ".") THEN "abbreviation" ELSE "word"

-----------------------------------------------------------------------------
(* What a sentence makes of the codes of token t.                          *)

Entry(entries, word, codes) == IF word \in DOMAIN entries THEN entries[word] ELSE codes

(* The entry for the open window, if there is one.                         *)
PosEntries ==
  CASE expect.past > 0 -> past_dict
    [] expect.past = 0 /\ expect.noun > 0 -> noun_dict
    [] expect.past = 0 /\ expect.noun = 0 /\ expect.verb > 0 -> verb_dict
    [] OTHER -> <<>>
apply_pos_context_override ==
  ~is_isolated_word /\ ~phrase.matched /\ Lower(t) \in DOMAIN PosEntries

apply_atstart_override(codes) ==
  IF first_word /\ ~phrase.matched THEN Entry(atstart_dict, Lower(t), codes) ELSE codes
apply_atend_override(codes) ==
  IF ti = last_word_ti /\ ~is_isolated_word /\ ~phrase.matched
  THEN Entry(atend_dict, Lower(t), codes) ELSE codes

lemma_override_an ==
  LET j == find_next_non_empty_word(ti + 1)
  IN  IF j # 0 /\ is_plain_vowel(Lower(j)[1]) THEN "a#n" ELSE "an"
lemma_override_to ==
  IF is_isolated_word \/ ti = last_word_ti THEN "tu:"
  ELSE IF word_is_vowel_initial_non_yod(find_next_non_empty_word(ti + 1)) THEN "tU" ELSE "t@5"
previous_word_is_pronoun(i) ==
  LET before == {j \in WordTokens : j < i}
  IN  before # {} /\ Lower(Max(before)) \in Codes({"i", "we", "you", "they", "he", "she", "who"})

(* The form of one of five words; "" when it has none here.                *)
apply_lemma_override(codes) ==
  LET word == Lower(t)
      next == find_next_word_stop_on_punct(ti + 1)
  IN  CASE word = Chars("the") /\ codes # <<>> /\ word_is_vowel_initial_non_yod(next) -> "%DI"
        [] word = Chars("a")   -> IF is_isolated_word THEN "eI" ELSE "a#"
        [] word = Chars("an") /\ ~is_isolated_word -> lemma_override_an
        [] word = Chars("to")  -> lemma_override_to
        [] word = Chars("use") /\ ~is_isolated_word /\ previous_word_is_pronoun(ti) -> "ju:z"
        [] OTHER -> ""

-----------------------------------------------------------------------------
(* The stress of function words.                                           *)

STEP_B_KEEP_SECONDARY_WORDS ==
  Codes({"within", "without", "about", "across", "above", "among", "amongst", "before", "upon",
         "below", "beside", "between", "beyond", "despite", "except", "inside", "outside",
         "toward", "towards", "along", "around", "behind", "beneath", "underneath", "over",
         "under"})
STEP_C_KEEP_SECONDARY ==
  Codes({"on", "onto", "multiple", "multiples", "going", "into", "any", "how", "where", "why",
         "being", "while", "but", "across", "above", "among", "amongst", "before", "within",
         "without", "upon", "below", "beside", "between", "beyond", "underneath", "behind",
         "beneath", "over", "under", "about", "make", "makes"})
STEP_C_NEEDS_SECONDARY == Codes({"our"})

token_is_unstressed_word(word) ==
  /\ ~phrase.matched
  /\ \/ word \in unstressed_words
     \/ Has(word, "'") /\ SubSeq(word, 1, First(word, "'") - 1) \in unstressed_words

(* The primary that stress_a_hash_last_resort() left behind a %.           *)
is_pct_last_resort_word(codes) ==
  At(codes, 1) = "%" /\ From(codes, First(codes, "'"), 3) = <<"'", "a", "#">>

apply_step_b(codes, word) ==
  IF /\ token_is_unstressed_word(word) \/ is_pct_last_resort_word(codes)
     /\ ~is_isolated_word /\ word \notin STEP_B_KEEP_SECONDARY_WORDS
  THEN Erase(codes, Places(codes, {"'"})) ELSE codes

(* Of a stem that is flagged and has a secondary of its own.               *)
is_ing_of_strend_secondary(word) ==
  LET base  == SubSeq(word, 1, Len(word) - 3)
      stems == {base, Append(base, "e")} \cap strend_words
      stem  == IF base \in stems THEN base ELSE Append(base, "e")
  IN  /\ Len(word) > 3 /\ Ends(word, Chars("ing")) /\ stems # {}
      /\ Has(dict(stem), ",")

following_word_is_weak(word) ==
  /\ word \notin STEP_C_KEEP_SECONDARY \cup u2_strend2_words \cup comma_strend2_words
  /\ ~is_ing_of_strend_secondary(word)
  /\ At(dict(word), 1) \in {",", "%"}

step_c_keeps_secondary(codes, word) ==
  /\ ~is_isolated_word
  /\ \/ word \in STEP_C_KEEP_SECONDARY \cup u2_strend2_words \cup u_plus_secondary_words
     \/ word \in comma_strend2_words /\ Leads(codes) /\ ~Has(codes, "'")
     \/ is_ing_of_strend_secondary(word)
     \/ phrase.key \in keep_sec_phrase_keys

no_stress_follows ==
  \A j \in WordTokens : j > ti => Lower(j) \in unstressed_words \/ following_word_is_weak(Lower(j))

insert_secondary_at_strong_vowel(codes) ==
  LET strong == Places(codes, Vowels \ {"@", "0"})
  IN  IF strong = {} THEN codes ELSE insert_marker_at(codes, Min(strong), ",")

(* A comma in front of every vowel leads the word.                         *)
comma_is_leading(codes) == \A i \in 1 .. First(codes, ",") - 1 : codes[i] \notin Vowels
is_pct_phrase_prefix(codes) == phrase.matched /\ At(codes, 1) = "%" /\ ~is_isolated_word
apply_comma_to_primary_promotion(codes) ==
  IF /\ Has(codes, ",") /\ ~Has(codes, "'") /\ ~is_pct_phrase_prefix(codes)
     /\ is_isolated_word \/ ~comma_is_leading(codes)
  THEN ReplaceFirst(codes, ",", "'") ELSE codes

apply_step_c(codes, word) ==
  LET keeps    == step_c_keeps_secondary(codes, word)
      last     == keeps /\ word \notin u_plus_secondary_words /\ no_stress_follows
      keep_sec == keeps /\ ~last
      needs    == ~is_isolated_word /\ word \in STEP_C_NEEDS_SECONDARY
      promoted == IF last /\ ~Has(codes, "'") THEN ReplaceFirst(codes, ",", "'") ELSE codes
      kept     == IF keep_sec THEN ReplaceFirst(promoted, "'", ",") ELSE promoted
      needed   == IF needs /\ Places(kept, Stresses) = {}
                  THEN insert_secondary_at_strong_vowel(kept) ELSE kept
      lifted   == IF keep_sec \/ needs THEN needed ELSE apply_comma_to_primary_promotion(needed)
  IN  IF ~is_isolated_word /\ ti = last_word_ti /\ word \in unstressend_words
      THEN ReplaceFirst(lifted, "'", ",") ELSE lifted

-----------------------------------------------------------------------------
(* The end of the word, and its sound.                                     *)

fix_diphthong_stress_position(codes) ==
  Sweep(codes, LAMBDA s, i :
    At2(IF /\ s[i] = "'"
           /\ <<At(s, i - 1), At(s, i + 1)>> \in Codes({"eI", "aI", "aU", "OI", "oU"})
        THEN Splice(s, i - 1, 2, <<"'", s[i - 1]>>) ELSE s, i + 1))

apply_inter_word_t_flap(codes) ==
  LET j == find_next_non_empty_word(ti + 1)
  IN  IF Ends(codes, <<"t", "#">>) /\ j # 0 /\ Starts(Lower(j), FLAP_VOWELS)
      THEN Append(SubSeq(codes, 1, Len(codes) - 2), "*") ELSE codes

trailing_schwa_is_standalone(codes) ==
  At(codes, Len(codes) - 1) \notin {"A", "e", "O", "o", "U", "i"}
apply_cross_word_schwa_rhotic(codes) ==
  IF /\ ~is_isolated_word /\ At(codes, Len(codes)) = "@" /\ trailing_schwa_is_standalone(codes)
     /\ find_next_word_stop_on_punct(ti + 1) # 0 /\ Starts(Text(ti + 1), {"r"})
  THEN Append(Front(codes), "3") ELSE codes

pct_word_unstressed(codes) ==
  /\ Has(codes, "%") /\ ~Has(codes, "'")
  /\ ~Has(codes, ",") \/ phrase.matched
  /\ ~is_isolated_word
has_weak_schwa_only(codes) ==
  /\ Places(codes, Stresses) = {}
  /\ \E i \in DOMAIN codes : From(codes, i, 2) \in Codes({"@2", "@5"})
is_unstressed_article(codes) ==
  /\ ~is_isolated_word
  /\ Lower(t) \in Codes({"a", "an"}) /\ codes \in Codes({"a#", "a#n"})

(* A bug: a function word is not stressed when it is all there is.         *)
StressedUnlessFunctionWord(codes, ipa) ==
  IF \/ pct_word_unstressed(codes) \/ has_weak_schwa_only(codes)
     \/ is_unstressed_word
     \/ is_unstressed_article(codes)
  THEN ipa ELSE add_default_stress(ipa)

maybe_add_default_stress(codes, ipa) ==
  IF \/ pct_word_unstressed(codes) \/ has_weak_schwa_only(codes)
     \/ is_unstressed_word /\ ~is_isolated_word
     \/ is_unstressed_article(codes)
  THEN ipa ELSE add_default_stress(ipa)

conjunction_suppresses_linking(j) ==
  /\ Lower(j) \in Codes({"or", "and"}) /\ ~first_word
  /\ find_next_word_stop_on_punct(j + 1) # 0

(* A bug: the next word is looked for over punctuation.                    *)
LinkOverPunctuation(ipa) ==
  LET j == find_next_non_empty_word(ti + 1)
  IN  IF /\ ends_in_rhotic_r(ipa) /\ j # 0
         /\ ~conjunction_suppresses_linking(j) /\ next_word_is_vowel_initial(j)
      THEN Append(ipa, LinkingR) ELSE ipa

apply_r_linking(ipa) ==
  LET j == find_next_word_stop_on_punct(ti + 1)
  IN  IF /\ ends_in_rhotic_r(ipa) /\ j # 0
         /\ ~conjunction_suppresses_linking(j) /\ next_word_is_vowel_initial(j)
      THEN Append(ipa, LinkingR) ELSE ipa

apply_cross_word_t_flap(ipa) ==
  LET j == find_next_non_empty_word(ti + 1)
  IN  IF /\ Lower(t) = Chars("it") /\ ends_in_t(ipa) /\ ~is_isolated_word
         /\ j # 0 /\ Starts(Text(j), Vowels)
      THEN Append(Front(ipa), Flap) ELSE ipa
=============================================================================
