------------------------------- MODULE Prosody -------------------------------
(***************************************************************************)
(* From the codes the rules or the dictionary give a word, with the stress *)
(* these ask for, to the codes it is spoken with: apply_matched_rule(),    *)
(* apply_stress_position() and process_phoneme_string() (src/phonemizer.c).*)
(***************************************************************************)
EXTENDS Segmental, Stress, Reductions

(* An entry's $n: the n-th vowel has the word's only mark.                 *)
apply_stress_position(raw, n) ==
  LET out  == SelectSeq(raw, LAMBDA c : c \notin Stresses)
      syls == AllSyllables(out)
  IN  IF n \in DOMAIN syls THEN insert_marker_at(out, syls[n].pos, "'") ELSE out

(* The last character before i that does not end a rule.                   *)
prev_non_bnd(ph, i) == Max({0} \cup {j \in 1 .. i - 1 : ph[j] # Edge})

(* The second half of a diphthong.  strchr() finds the 0 that stands for    *)
(* no character in every list, so a word's first character may be one.      *)
step_back_vowel_code(char, before) ==
  \/ char \in {"I", "U"} /\ before \in {"e", "a", "o", "O", "U", "A", "E", ""}
  \/ char = "a" /\ before = "a"
  \/ char = "@" /\ before \in {"A", "e", "i", "o", "O", "U", ""}
VowelStart(ph, i) ==
  LET before == prev_non_bnd(ph, i)
  IN  IF step_back_vowel_code(ph[i], At(ph, before)) THEN before ELSE i
find_last_stressable_vowel(ph) ==
  LET full(i) == At(ph, Skip(ph, i + 1, {Edge})) \notin {"2", "#"}
      free(i) == At(ph, prev_non_bnd(ph, VowelStart(ph, i))) \notin {"%", "="}
      stressable == {i \in Places(ph, Vowels) : full(i) /\ free(i)}
  IN  IF stressable = {} THEN 0 ELSE VowelStart(ph, Max(stressable))

(* A rule that starts with = stresses the vowel before it, and what was     *)
(* stressed before that is demoted.                                         *)
apply_stress_prev(ph) ==
  LET i == find_last_stressable_vowel(ph)
      demoted == [k \in DOMAIN ph |-> IF k < i /\ ph[k] = "'" THEN Demoted ELSE ph[k]]
  IN  IF i = 0 \/ At(ph, prev_non_bnd(ph, i)) = "'" THEN ph
      ELSE insert_marker_at(Evaluated(demoted), i, "'")
apply_matched_rule(ph, phonemes) ==
  (IF At(phonemes, 1) = "=" THEN apply_stress_prev(ph) \o Tail(phonemes) ELSE ph \o phonemes)
    \o <<Edge>>

(* The places behind which a rule ended; 0 among them only says that the   *)
(* codes came from rules.                                                  *)
strip_rule_boundary_markers(ph) ==
  LET ends == Places(ph, {Edge})
  IN  [ph    |-> SelectSeq(ph, LAMBDA c : c # Edge),
       edges |-> IF ends = {} THEN {}
                 ELSE {0} \cup {i - Cardinality({j \in ends : j <= i}) : i \in ends}]

Undemoted(ph) == Evaluated([i \in DOMAIN ph |-> IF ph[i] = Demoted THEN "," ELSE ph[i]])

Phases(segments, ph_in, strend, edges) ==
  apply_reduction_phases(apply_stress_phases(segments, ph_in, strend, edges), ph_in, edges)
process_phoneme_string(ph_in, strend) ==
  LET stripped == strip_rule_boundary_markers(ph_in)
  IN  Phases(apply_segmental_phases(Undemoted(stripped.ph)), ph_in, strend, stripped.edges)
=============================================================================
