--------------------------------- MODULE Ipa ---------------------------------
(***************************************************************************)
(* From codes to sounds (src/phonemizer.c): phonemes_to_ipa() and the      *)
(* helpers on its result.                                                  *)
(*                                                                         *)
(* A sound is a code, or a stress mark "'" or ",", and stands for the UTF-8 *)
(* that single_code_to_ipa() writes for it; a spoken word is a sequence of *)
(* sounds.  What the helpers look for in the bytes (a vowel, a schwa, an   *)
(* r-coloured ending, a t) they look for in the codes that write them.     *)
(***************************************************************************)
EXTENDS Codes

(* S_MC2 without A@r, with two codes of its own.                           *)
MULTI_CODES ==
  <<S_MC2[1], (S_MC2[2] \ Codes({"A@r"})) \cup Codes({"I2#", "O@r"}), S_MC2[3]>>

(* i@ and U@ behind a mark of no stress are two sounds each.               *)
match_multi_code(ph, i, unstress) ==
  From(ph, i, Longest({n \in 2 .. 4 : /\ From(ph, i, n) \in MULTI_CODES[5 - n]
                                      /\ unstress => From(ph, i, n) \notin Codes({"i@", "U@"})}))

VowelCode(code) == Head(code) \in Vowels
is_syllabic_code(code) == code \in Codes({"n-", "m-", "@L", "r-", "l/"})
Nucleus(code) == VowelCode(code) \/ is_syllabic_code(code)

(* Digits that only name a variant: those the table maps to themselves.    *)
VariantDigits == {"1", "2", "4", "5", "6", "7", "9"}

(* A stress waits for the next nucleus; a second mark replaces the first,  *)
(* one of no stress takes it away, and the end of the word drops it.       *)
Sounds(ph) ==
  LET Read(s, code) ==
        [at       |-> Skip(ph, s.at + Len(code), VariantDigits),
         pending  |-> IF Nucleus(code) THEN <<>> ELSE s.pending,
         unstress |-> FALSE,
         vowel    |-> VowelCode(code),
         out      |-> s.out \o (IF Nucleus(code) THEN s.pending ELSE <<>>) \o <<code>>]
      Step(s) ==
        IF s.at > Len(ph) THEN s
        ELSE CASE ph[s.at] \in {" ", "|", "-"} -> [s EXCEPT !.at = @ + 1]
               [] ph[s.at] = ";" ->
                    [s EXCEPT !.at = @ + 1, !.out = IF s.vowel THEN @ ELSE Append(@, <<";">>)]
               [] ph[s.at] \in Stresses ->
                    [s EXCEPT !.at = @ + 1, !.pending = << <<ph[s.at]>> >>, !.unstress = FALSE]
               [] ph[s.at] \in {"%", "="} ->
                    [s EXCEPT !.at = @ + 1, !.pending = <<>>, !.unstress = TRUE]
               [] OTHER -> Read(s, match_multi_code(ph, s.at, s.unstress))
      after[k \in 0 .. Len(ph)] ==
        IF k = 0
        THEN [at |-> 1, pending |-> <<>>, unstress |-> FALSE, vowel |-> FALSE, out |-> <<>>]
        ELSE Step(after[k - 1])
  IN  after[Len(ph)].out

(* What follows a $ is a flag of the dictionary.                           *)
phonemes_to_ipa(ph) ==
  LET flag == First(ph, "$") IN Sounds(IF flag = 0 THEN ph ELSE SubSeq(ph, 1, flag - 1))

-----------------------------------------------------------------------------
(* Spoken words.                                                           *)

StressSounds == { <<"'">>, <<",">> }
contains_stress_marker(ipa) == \E i \in DOMAIN ipa : ipa[i] \in StressSounds

is_ipa_schwa(code) == code \in Codes({"@", "@2", "@5", "@L", "IR"})
ends_in_rhotic_r(ipa) == ipa # <<>> /\ Last(ipa) \in Codes({"3", "3:", "aI3"})
ends_in_t(ipa) == ipa # <<>> /\ Last(ipa) \in Codes({"t", "t2", "t#"})
Flap == <<"*">>
LinkingR == <<"r">>

(* In front of the first vowel, or of the first that is no schwa if it is  *)
(* one.                                                                    *)
add_default_stress(ipa) ==
  LET vowels == {i \in DOMAIN ipa : VowelCode(ipa[i])}
      full   == {i \in vowels : ~is_ipa_schwa(ipa[i])}
      at     == Min(IF full # {} THEN full ELSE vowels)
  IN  IF vowels = {} \/ contains_stress_marker(ipa) THEN ipa
      ELSE SubSeq(ipa, 1, at - 1) \o << <<"'">> >> \o SubSeq(ipa, at, Len(ipa))

(* A last schwa becomes the vowel of "kit".                                *)
apply_pre_vowel_the_fixup(the, ipa) ==
  IF the /\ ipa # <<>> /\ Last(ipa) \in Codes({"@", "@2", "@5"})
  THEN Append(Front(ipa), <<"I">>) ELSE ipa
=============================================================================
