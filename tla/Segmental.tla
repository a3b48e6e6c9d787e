------------------------------ MODULE Segmental ------------------------------
(***************************************************************************)
(* The segmental phases of process_phoneme_string() (src/phonemizer.c):    *)
(* changes of sounds by their neighbours, and the three endings, -tion,    *)
(* -ology and -ic, that fetch the primary stress before it is placed.      *)
(***************************************************************************)
EXTENDS Codes

apply_velar_nasal_assimilation(ph) ==
  Evaluated([i \in DOMAIN ph |->
               IF ph[i] = "n" /\ At(ph, i + 1) \in {"k", "g"} THEN "N" ELSE ph[i]])

apply_happy_tensing(ph) ==
  LET n == Len(ph)
      bare == /\ At(ph, n) = "I"
              /\ At(ph, n - 1) \notin Stresses \cup {"e", "a", "O", "o", "U"}
              /\ Cardinality(Places(ph, Vowels \ {"u", "@"})) > 1
  IN  IF From(ph, n - 1, 2) \in Codes({"%I", "I2"}) THEN Splice(ph, n - 1, 2, <<"i">>)
      ELSE IF bare THEN Put(ph, n, "i") ELSE ph

apply_vowel_reduction(ph) ==
  Sweep(ph, LAMBDA s, i :
    IF s[i] \in {"%", "="} /\ At(s, i + 1) = "A" /\ At(s, i + 2) # "@"
    THEN At2(Splice(s, i, IF At(s, i + 2) = ":" THEN 3 ELSE 2, <<"%", "@">>), i + 2)
    ELSE At2(s, i + 1))

apply_lot_plus_r_merge(ph) ==
  Sweep(ph, LAMBDA s, i :
    IF From(s, i, 2) = <<"0", "r">> THEN At2(Splice(s, i, 1, <<"O", ":">>), i + 3)
    ELSE At2(s, i + 1))

strip_morpheme_schwa_r(ph) ==
  Sweep(ph, LAMBDA s, i :
    IF From(s, i, 3) = <<"@", "-", "r">> THEN At2(Splice(s, i, 2, <<>>), i)
    ELSE At2(s, i + 1))

collapse_a_hash_before_r(ph) ==
  Sweep(ph, LAMBDA s, i :
    At2(IF From(s, i, 3) = <<"a", "#", "r">> THEN Splice(s, i, 2, <<"@">>) ELSE s, i + 1))

(* The r is absorbed unless a vowel follows, and before a vowel too behind *)
(* a mark of no stress.                                                    *)
apply_bare_schwa_to_rhotic(ph) ==
  Sweep(collapse_a_hash_before_r(ph), LAMBDA s, i :
    LET r       == skip_stress_markers(s, i + 1)
        rhotic  == /\ s[i] = "@"
                   /\ At(s, r) = "r"
                   /\ At(s, i - 1) \notin {"o", "A", "U", "O", "e", "i", "I", "a"}
        absorbs == \/ At(s, skip_stress_markers(s, r + 1)) \notin Vowels
                   \/ At(s, i - 1) \in {"=", "%"}
        turned  == Put(s, i, "3")
    IN  At2(IF ~rhotic THEN s
            ELSE IF absorbs THEN chars_erase_at(turned, r) ELSE turned, i + 1))

apply_linking_r(ph) ==
  Sweep(ph, LAMBDA s, i :
    LET n     == CASE From(s, i, 2) \in Codes({"3:", "U@", "A@"}) -> 2
                   [] s[i] = "3" -> 1
                   [] OTHER -> 0
        links == /\ n > 0 /\ At(s, i + n) # "r"
                 /\ At(s, skip_stress_markers(s, i + n)) \in Vowels
    IN  IF links THEN At2(insert_marker_at(s, i + n, "r"), i + n + 1) ELSE At2(s, i + 1))

-----------------------------------------------------------------------------
(* The endings.                                                            *)

VowelsBefore(ph, i) ==
  LET syls == AllSyllables(SubSeq(ph, 1, i - 1))
  IN  [k \in DOMAIN syls |-> syls[k].pos]

(* The primary in front of v, if any, becomes a secondary, and v gets one. *)
Restress(ph, v) ==
  LET prime   == First(ph, "'")
      demoted == IF prime \in 1 .. v - 1 THEN Put(ph, prime, ",") ELSE ph
  IN  IF At(demoted, v - 1) = "," THEN Put(demoted, v - 1, "'")
      ELSE insert_marker_at(demoted, v, "'")

(* A primary behind v stays where it is.                                   *)
move_stress_to_vowel(ph, v) == IF First(ph, "'") >= v THEN ph ELSE Restress(ph, v)

(* S, within ten places a schwa, within four an n, and nothing behind it   *)
(* but a plural or a y.                                                    *)
TionAt(ph, i) ==
  LET schwa == Skip(ph, i + 1, Marks \cup {"-"})
      n     == Skip(ph, schwa + 1, {"-", "=", "%"})
  IN  /\ ph[i] = "S"
      /\ At(ph, schwa) = "@" /\ schwa <= i + 10
      /\ At(ph, n) \in {"n", "N"} /\ n <= schwa + 3
      /\ \A j \in n + 1 .. Len(ph) : ph[j] \in Marks \cup {"-", "i", "z"}

primary_already_on_vowel(ph, v) ==
  \E i \in 1 .. v - 1 : ph[i] = "'" /\ \A j \in i + 1 .. v - 1 : ph[j] \notin Vowels

apply_tion_stress_fix(ph) ==
  LET ends   == {i \in DOMAIN ph : TionAt(ph, i)}
      vowels == VowelsBefore(ph, Max(ends))
  IN  IF ends = {} \/ vowels = <<>> \/ primary_already_on_vowel(ph, Last(vowels)) THEN ph
      ELSE move_stress_to_vowel(ph, Last(vowels))

matches_ology_at(ph, i) ==
  /\ From(ph, i, 2) = <<"0", "l">>
  /\ From(ph, Skip(ph, i + 2, {"=", "%", ","}), 3) = <<"@", "d", "Z">>

(* Unlike the other two this one leaves a primary behind it in place and   *)
(* sets its own as well.                                                   *)
apply_ology_stress_fix(ph) ==
  LET ends == {i \in DOMAIN ph : matches_ology_at(ph, i)}
  IN  IF ends = {} \/ At(ph, Min(ends) - 1) = "'" THEN ph ELSE Restress(ph, Min(ends))

(* The mark in front of the ending -Ik; 0 also for a k at the second place *)
(* whose subtraction wraps to "none".                                      *)
unstressed_ik_pos(ph) ==
  LET k == LastOf(ph, "k")
  IN  IF At(ph, k - 1) = "I" /\ At(ph, k - 2) \in {"=", "%"} THEN k - 2 ELSE 0

apply_ic_stress_fix(ph) ==
  LET mark   == unstressed_ik_pos(ph)
      vowels == VowelsBefore(ph, mark)
  IN  IF mark = 0 \/ Len(vowels) < 2 \/ At(ph, Last(vowels) - 1) = "'" THEN ph
      ELSE move_stress_to_vowel(ph, Last(vowels))

apply_segmental_phases(ph) ==
  LET us    == apply_lot_plus_r_merge(apply_vowel_reduction(apply_happy_tensing(
                 apply_velar_nasal_assimilation(ph))))
      rs    == apply_linking_r(apply_bare_schwa_to_rhotic(strip_morpheme_schwa_r(us)))
  IN  apply_ic_stress_fix(apply_ology_stress_fix(apply_tion_stress_fix(rs)))
=============================================================================
