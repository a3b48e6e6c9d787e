-------------------------------- MODULE Codes --------------------------------
(***************************************************************************)
(* Phoneme strings (src/phonemizer.c): how the passes over them read the   *)
(* codes, and how they edit them.                                          *)
(*                                                                         *)
(* A phoneme string is a sequence of characters.  A code is one to four of *)
(* them; ' and , before a vowel mark its stress, % and = its lack.  The    *)
(* byte 1, which apply_rules() leaves where one rule's phonemes end, is    *)
(* the character Edge, and the byte 2, a demoted primary, is Demoted.      *)
(***************************************************************************)
EXTENDS Integers, Sequences, FiniteSets, SequencesExt

Edge == "\\1"
Demoted == "\\2"

(* The same sequence, and the same function; TLC keeps what is written as  *)
(* [x \in S |-> e] unevaluated until a value is asked for, every time.      *)
Evaluated(sequence) == <<>> \o sequence
Tabled(function) == function @@ <<>>

(* The characters of a string.                                             *)
Chars(string) == Evaluated([i \in 1 .. Len(string) |-> SubSeq(string, i, i)])
Codes(strings) == {Chars(string) : string \in strings}

Vowels == {"@", "a", "A", "E", "I", "i", "O", "U", "V", "0", "3", "e", "o", "u"}
Marks == {"'", ",", "%", "="}
Stresses == {"'", ","}

(* Longest first: a code is the longest of these, or a single character.   *)
S_MC2 ==
  <<Codes({"aI@3", "aU@r", "i@3r"}),
    Codes({"aI@", "aI3", "aU@", "i@3", "3:r", "A:r", "o@r", "A@r", "e@r"}),
    Codes({"eI", "aI", "aU", "OI", "oU", "tS", "dZ", "IR", "VR", "e@", "i@", "U@",
           "A@", "O@", "o@", "3:", "A:", "i:", "u:", "O:", "e:", "a:", "aa", "@L",
           "@2", "@5", "I2", "I#", "E2", "E#", "e#", "a#", "a2", "0#", "02", "O2",
           "A~", "O~", "A#", "r-", "w#", "t#", "d#", "z#", "t2", "d2", "n-", "m-",
           "l/", "z/"})>>

-----------------------------------------------------------------------------
(* Reading.                                                                *)

(* Nothing stands outside a string.                                        *)
At(ph, i) == IF i \in DOMAIN ph THEN ph[i] ELSE ""
From(ph, i, n) ==
  IF i < 1 THEN <<>> ELSE SubSeq(ph, i, IF i + n - 1 > Len(ph) THEN Len(ph) ELSE i + n - 1)

Longest(lengths) == IF lengths = {} THEN 1 ELSE Max(lengths)
find_phoneme_code(ph, i) ==
  From(ph, i, Longest({n \in 2 .. 4 : From(ph, i, n) \in S_MC2[5 - n]}))

(* The first place from i on that holds none of chars, and its opposites.  *)
Skip(ph, i, chars) == CHOOSE j \in i .. Len(ph) + 1 :
  At(ph, j) \notin chars /\ \A k \in i .. j - 1 : ph[k] \in chars
skip_stress_markers(ph, i) == Skip(ph, i, Marks)
Places(ph, chars) == {i \in DOMAIN ph : ph[i] \in chars}
Has(ph, char) == Places(ph, {char}) # {}
First(ph, char) == IF Has(ph, char) THEN Min(Places(ph, {char})) ELSE 0
LastOf(ph, char) == IF Has(ph, char) THEN Max(Places(ph, {char})) ELSE 0
Stressed(ph, i) == At(ph, i - 1) \in Stresses

is_weak_two_char_vowel(code) == code \in Codes({"@2", "@5", "@L", "I#", "I2", "a#"})
is_weak_tail_vowel(code) ==
  is_weak_two_char_vowel(code) \/ code \in Codes({"@", "3", "i", "i@"})
is_reduced_vowel(code) == is_weak_two_char_vowel(code) \/ code = <<"i">>
is_schwa_vowel(code) == code \in Codes({"@", "3"})
is_weak_vowel(code) == is_schwa_vowel(code) \/ is_reduced_vowel(code)
is_reduced_or_schwa(code) == is_schwa_vowel(code) \/ is_weak_two_char_vowel(code)
is_schwa_family(code) == is_schwa_vowel(code) \/ code \in Codes({"@2", "@5", "@L"})

(* A rule boundary inside a diphthong that ends in a schwa splits it.      *)
(* edges has the places behind which a rule ended, as they were before any *)
(* mark; all marks in front are taken off to find them.                    *)
split_centering_diphthong(ph, i, code, edges) ==
  LET origin == i - Cardinality({j \in 1 .. i - 1 : ph[j] \in Marks})
  IN  IF /\ Len(code) >= 3
         /\ Last(code) \in {"@", "3"}
         /\ \E k \in 0 .. Len(code) - 2 : origin + k \in edges
      THEN Front(code) ELSE code

(* The state after n steps from start, of which Step makes the k-th.       *)
Walk(n, start, Step(_, _)) ==
  LET go[k \in 0 .. n] == IF k = 0 THEN start ELSE Step(go[k - 1], k) IN go[n]

(* The syllables from first on: each vowel with the marks since the last   *)
(* one.  "@-" is one only where dash says so.                              *)
SyllablesOf(ph, first, dash, edges) ==
  LET Code(s) == split_centering_diphthong(ph, s.at, find_phoneme_code(ph, s.at),
                   IF ToSet(s.marks) \cap Stresses = {} THEN edges ELSE {})
      vowel(i) == ph[i] \in Vowels /\ (dash \/ From(ph, i, 2) # <<"@", "-">>)
      Read(s, code) ==
        [at |-> s.at + Len(code), marks |-> IF vowel(s.at) THEN <<>> ELSE s.marks,
         syls |-> IF vowel(s.at)
                  THEN Append(s.syls, [pos |-> s.at, code |-> code, marks |-> s.marks])
                  ELSE s.syls]
      Step(s) == IF s.at > Len(ph) THEN s
                 ELSE IF ph[s.at] \in Marks
                 THEN [s EXCEPT !.at = @ + 1, !.marks = Append(@, ph[s.at])]
                 ELSE Read(s, Code(s))
      after[k \in 0 .. Len(ph)] ==
        IF k = 0 THEN [at |-> first, marks |-> <<>>, syls |-> <<>>] ELSE Step(after[k - 1])
  IN  after[Len(ph)].syls

Syllables(ph, dash, edges) == SyllablesOf(ph, 1, dash, edges)
SyllablesFrom(ph, i) == SyllablesOf(ph, i, TRUE, {})
AllSyllables(ph) == SyllablesFrom(ph, 1)
Poses(syls) == {syls[k].pos : k \in DOMAIN syls}
Primary(syl) == Contains(syl.marks, "'")
Secondary(syl) == Contains(syl.marks, ",")
Unstressed(syl) == ToSet(syl.marks) \cap {"%", "="} # {}
Level(mark) ==
  CASE mark = "'" -> 4 [] mark = "," -> 2 [] mark \in {"%", "="} -> 1 [] OTHER -> -1

-----------------------------------------------------------------------------
(* Editing.                                                                *)

(* n characters at i give way to new ones.                                 *)
Splice(ph, i, n, new) == SubSeq(ph, 1, i - 1) \o new \o SubSeq(ph, i + n, Len(ph))
insert_marker_at(ph, i, mark) == Splice(ph, i, 0, <<mark>>)
Put(ph, i, char) == Splice(ph, i, 1, <<char>>)
chars_erase_at(ph, i) == Splice(ph, i, 1, <<>>)
Erase(ph, places) ==
  FlattenSeq([i \in DOMAIN ph |-> IF i \in places THEN <<>> ELSE <<ph[i]>>])
Mark(ph, places, mark) ==
  FlattenSeq([i \in DOMAIN ph |-> IF i \in places THEN <<mark, ph[i]>> ELSE <<ph[i]>>])
ReplaceFirst(ph, old, new) == IF Has(ph, old) THEN Put(ph, First(ph, old), new) ELSE ph

(* A pass from left to right: Step at a place gives the string it leaves   *)
(* and the place to go on from.                                            *)
At2(ph, i) == [ph |-> ph, at |-> i]
Sweep(ph, Step(_, _)) ==
  LET after[k \in 0 .. 3 * Len(ph)] ==
        IF k = 0 THEN At2(ph, 1)
        ELSE LET here == after[k - 1]
             IN  IF here.at > Len(here.ph) THEN here ELSE Step(here.ph, here.at)
  IN  after[3 * Len(ph)].ph
=============================================================================
