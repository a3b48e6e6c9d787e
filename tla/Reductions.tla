----------------------------- MODULE Reductions -----------------------------
(***************************************************************************)
(* The reduction phases of process_phoneme_string() (src/phonemizer.c):    *)
(* vowels away from the stress lose their colour, t becomes a flap, and a  *)
(* few endings take their short form.                                      *)
(*                                                                         *)
(* The code walks the buffer while it edits it.  Where an edit moves what  *)
(* lies ahead the pass is a Sweep; where none can change what a later      *)
(* place sees it is a set of places found beforehand.                      *)
(***************************************************************************)
EXTENDS Codes

Free(ph, i) == ~Stressed(ph, i)
Schwas(ph, places) == Evaluated([i \in DOMAIN ph |-> IF i \in places THEN "@" ELSE ph[i]])
VowelIn(ph, from, to) == \E i \in from .. to : ph[i] \in Vowels

(* Between the first secondary and the first primary behind it.            *)
PreTonic(ph) == LET sec == First(ph, ",")
                IN  IF sec = 0 THEN {} ELSE sec + 1 .. First(ph, "'") - 1

-----------------------------------------------------------------------------
(* The 0, the vowel of "lot".                                              *)

(* Any but the first and the last, and the last but one only when the last *)
(* is stressed.                                                            *)
reduce_zero_diminished(ph) ==
  LET low(syl) == syl.marks = <<>> \/ Level(Last(syl.marks)) <= 1
      Middle(syls, n) == {k \in 2 .. n - 1 : /\ syls[k].code = <<"0">> /\ low(syls[k])
                                             /\ k = n - 1 => ~low(syls[n])}
      In(syls) == Schwas(ph, {syls[k].pos : k \in Middle(syls, Len(syls))})
  IN  In(Syllables(ph, FALSE, {}))

reduce_bare_zero_after_ution(ph) ==
  IF \E i \in DOMAIN ph : From(ph, i, 3) = <<"u", ":", "S">>
  THEN Schwas(ph, {i \in Places(ph, {"0"}) : Free(ph, i)}) ELSE ph

(* A bug: a vowel that is stressed itself is reduced with the others.      *)
BareZerosAll(ph, places) == {i \in places : ph[i] = "0" /\ At(ph, i + 1) \notin {"#", "2"}}

BareZeros(ph, places) ==
  {i \in places : ph[i] = "0" /\ At(ph, i + 1) \notin {"#", "2"} /\ Free(ph, i)}

reduce_zero_between_sec_and_primary(ph) == Schwas(ph, BareZeros(ph, PreTonic(ph)))

reduce_zero_between_primary_and_sec(ph) ==
  LET prime == First(ph, "'")
      secs  == {i \in Places(ph, {","}) : i > prime}
  IN  IF prime = 0 \/ secs = {} THEN ph
      ELSE Schwas(ph, BareZeros(ph, prime + 1 .. Min(secs) - 1))

(* 0# keeps its colour when the next vowel in front of the primary is not  *)
(* stressed either.                                                        *)
reduce_zero_hash_before_primary(ph) ==
  Sweep(ph, LAMBDA s, i :
    LET prime  == First(s, "'")
        vowels == {j \in i + 2 .. prime - 1 : s[j] \in Vowels}
    IN  IF /\ i < prime /\ From(s, i, 2) = <<"0", "#">> /\ Free(s, i)
           /\ vowels # {} => Stressed(s, Min(vowels))
        THEN At2(Splice(s, i, 2, <<"@">>), i + 1) ELSE At2(s, i + 1))

(* The last character of its rule, and not the first vowel.  edges are the *)
(* places before any mark was inserted.                                    *)
reduce_bare_zero_before_primary(ph, edges) ==
  Schwas(ph, {i \in BareZeros(ph, 1 .. First(ph, "'") - 1) :
                At(ph, i - 1) \notin Marks /\ i \in edges /\ VowelIn(ph, 1, i - 1)})

-----------------------------------------------------------------------------
(* The E of "dress".                                                       *)

BareE(ph, i) == At(ph, i) = "E" /\ At(ph, i + 1) \notin {"#", "2"} /\ Free(ph, i)
BeforeN(ph, i) == At(ph, i + 1) = "n"

(* "@" in front of an n where nasal says so, and "I2".  end is where the   *)
(* pass stops, a mark that its insertions push to the right.               *)
ReduceE(ph, from, end(_), Reduces(_, _), nasal) ==
  Sweep(ph, LAMBDA s, i :
    IF ~(i >= from /\ i < end(s) /\ BareE(s, i) /\ Reduces(s, i)) THEN At2(s, i + 1)
    ELSE IF nasal /\ BeforeN(s, i) THEN At2(Put(s, i, "@"), i + 1)
    ELSE At2(Splice(s, i, 1, <<"I", "2">>), i + 2))

Always(ph, i) == TRUE

reduce_e_between_stresses(ph) ==
  LET marks(s) == {First(s, "'"), First(s, ",")}
  IN  ReduceE(ph, Min(marks(ph)) + 1, LAMBDA s : Max(marks(s)), Always, TRUE)

(* A word that leads with % keeps its first vowel.                         *)
reduce_e_after_pct_lead(ph) ==
  LET next == skip_stress_markers(ph, 2)
      from == next + (IF At(ph, next) \in Vowels THEN Len(find_phoneme_code(ph, next)) ELSE 0)
  IN  IF At(ph, 1) # "%" THEN ph
      ELSE ReduceE(ph, from, LAMBDA s : First(s, "'"), Always, FALSE)

(* Two vowels follow, or one that is not reduced itself.                   *)
e_should_reduce(ph, i) ==
  LET Full(code)  == ~is_schwa_family(code) /\ code # <<"I", "#">>
      Follow(syls) == Len(syls) >= 2 \/ (Len(syls) = 1 /\ Full(Last(syls).code))
  IN  Follow(SyllablesFrom(ph, i + 1))

reduce_e_after_first_stress(ph) ==
  ReduceE(ph, Min(Places(ph, Stresses)) + 1, LAMBDA s : Len(s) + 1, e_should_reduce, TRUE)

reduce_e_unstressed(ph, edges) ==
  LET ruled   == edges # {}
      between == IF ruled /\ Has(ph, ",") THEN reduce_e_between_stresses(ph) ELSE ph
      led     == reduce_e_after_pct_lead(between)
  IN  IF ~Has(ph, "'") THEN ph ELSE IF ruled THEN reduce_e_after_first_stress(led) ELSE led

(* Behind a % with a vowel of its own.                                     *)
reduce_e_pre_tonic_after_pct_nasal(ph) ==
  LET Led(i) == LET pcts == {p \in 1 .. i - 1 : ph[p] = "%"}
                IN  pcts # {} /\ VowelIn(ph, Max(pcts) + 1, i - 1)
  IN  Schwas(ph, {i \in 2 .. First(ph, "'") - 1 : BareE(ph, i) /\ BeforeN(ph, i) /\ Led(i)})

-----------------------------------------------------------------------------
(* The other vowels.                                                       *)

reduce_v_between_sec_and_primary(ph) ==
  Schwas(ph, {i \in PreTonic(ph) : ph[i] = "V" /\ Free(ph, i)})

BareA(ph, i) == ph[i] = "a" /\ At(ph, i + 1) \notin {"I", "U", ":", "@", "#"}

(* Behind a secondary, or behind the vowel of a % if that comes earlier;   *)
(* without either, behind the first vowel.                                 *)
a_reduction_scan_start(ph, prime) ==
  LET Behind(syls) == IF syls = <<>> THEN prime ELSE syls[1].pos + Len(syls[1].code)
      Past(i) == Behind(SyllablesFrom(ph, i))
      sec     == {i + 1 : i \in {First(ph, ",")} \cap (1 .. prime - 1)}
      pct     == {Past(i + 1) : i \in {First(ph, "%")} \cap (1 .. prime - 1)}
      Earliest(starts) == IF starts = {} THEN Past(1) ELSE Min(starts)
  IN  Earliest(sec \cup {i \in pct : i < prime})

reduce_a_before_primary(ph, edges) ==
  LET prime == First(ph, "'")
  IN  IF edges = {} \/ prime = 0 THEN ph
      ELSE Mark(ph, {i + 1 : i \in {j \in a_reduction_scan_start(ph, prime) .. prime - 1 :
                       BareA(ph, j) /\ Free(ph, j) /\ At(ph, j - 1) # "%"}}, "#")

reduce_a_between_primary_and_sec(ph, edges) ==
  LET prime == First(ph, "'")
  IN  IF edges = {} \/ prime = 0 THEN ph
      ELSE Mark(ph, {i + 1 : i \in {j \in prime + 1 .. First(ph, ",") - 1 :
                       BareA(ph, j) /\ Free(ph, j)}}, "#")

post_stress_i_before_syllabic_l(ph) ==
  LET prime == First(ph, "'")
      ls    == {i \in DOMAIN ph : From(ph, i, 2) = <<"@", "L">>}
      i     == Min(ls) - 1
      hit   == /\ prime # 0 /\ ls # {} /\ i > prime /\ ph[i] = "I"
               /\ ph[i - 1] \notin {"a", "A", "e", "E", "o", "O", "u", "U"}
               /\ VowelIn(ph, prime + 1, i - 1)
  IN  IF hit THEN Put(ph, i, "i") ELSE ph

(* The pass keeps the place of the primary, and takes one off for every    *)
(* 3: it shortens, those behind the primary too.                           *)
reduce_3_long_to_short(ph) ==
  Sweep(ph, LAMBDA s, i :
    LET kept    == First(ph, "'") - 1 - (Len(ph) - Len(s))
        prime   == IF kept < 0 THEN 0 ELSE kept
        shorten == /\ Has(ph, "'") /\ Free(s, i) /\ At(s, i - 1) # "%"
                   /\ VowelIn(s, 1, i - 1)
                   /\ \/ i + 1 < prime
                      \/ /\ \E j \in i + 2 .. Len(s) : s[j] = ","
                         /\ At(s, prime) # "%"
    IN  IF From(s, i, 2) # <<"3", ":">> THEN At2(s, i + 1)
        ELSE IF shorten THEN At2(Splice(s, i, 2, <<"3">>), i) ELSE At2(s, i + 2))

(* oU# is a short vowel under the primary, a schwa next to it, and else a  *)
(* plain diphthong.                                                        *)
reduce_ou_hash_compound(ph) ==
  LET Before(s, i) == {j \in Places(s, {"'", ",", "%"}) : j < i}
      After(s, i)  == {j \in Places(s, {"'", ","} \cup Vowels) : j > i + 2}
      Next(s, i)   == \/ Before(s, i) # {} /\ s[Max(Before(s, i))] = "'"
                      \/ After(s, i) # {} /\ s[Min(After(s, i))] = "'"
      Short(s, i)  == CASE At(s, i - 1) = "'" -> <<"0">>
                        [] At(s, i - 1) # "'" /\ Next(s, i) -> <<"@">>
                        [] OTHER -> <<"o", "U">>
  IN  Sweep(ph, LAMBDA s, i :
        At2(IF From(s, i, 3) = <<"o", "U", "#">> THEN Splice(s, i, 3, Short(s, i)) ELSE s, i + 1))

-----------------------------------------------------------------------------
(* The flap, a t between a vowel and a vowel without stress.               *)

FLAP_VOWELS == Vowels \cup {"Y"}

flap_prev_is_vowel(ph, i) ==
  \/ ph[i - 1] \in FLAP_VOWELS \cup {":", "#", "r"}
  \/ ph[i - 1] = "2" /\ At(ph, i - 2) \in FLAP_VOWELS
  \/ ph[i - 1] = "L" /\ At(ph, i - 2) = "@"

(* A vowel that leads into an n is syllabic; 3: is not.                    *)
flap_next_is_unstressed_vowel(ph, i) ==
  LET next  == IF At(ph, i + 1) = "#" THEN i + 2 ELSE i + 1
      weak  == At(ph, next) \in {"%", "="}
      v     == IF weak THEN next + 1 ELSE next
      long  == At(ph, v + 1) = ":"
      tail  == IF long THEN v + 2 ELSE v + 1
      n     == IF ~weak /\ ph[v] = "@" /\ At(ph, tail) = "L" THEN tail + 1 ELSE tail
  IN  /\ At(ph, v) \in FLAP_VOWELS
      /\ At(ph, n) # "n" \/ (ph[v] = "3" /\ long)

apply_flap_rule(ph) ==
  LET nasal(i) == From(ph, i, 2) = <<"*", "3">> /\ At(ph, i + 2) \in {"n", "m", "N"}
      plain    == Evaluated([i \in DOMAIN ph |-> IF nasal(i) THEN "t" ELSE ph[i]])
      flaps    == {i \in 2 .. Len(ph) - 1 : /\ plain[i] = "t" /\ flap_prev_is_vowel(plain, i)
                                            /\ flap_next_is_unstressed_vowel(plain, i)}
  IN  Evaluated([i \in DOMAIN ph |-> IF i \in flaps THEN "*" ELSE plain[i]])

-----------------------------------------------------------------------------
(* Endings.                                                                *)

Ends(ph, tail) == Len(ph) >= Len(tail) /\ SubSeq(ph, Len(ph) - Len(tail) + 1, Len(ph)) = tail
Ending(ph, old, new) ==
  IF Ends(ph, old) THEN SubSeq(ph, 1, Len(ph) - Len(old)) \o new ELSE ph

reduce_ness_suffix(ph) ==
  Ending(Ending(ph, <<"n", ",", "E", "s">>, <<"n", "@", "s">>),
         <<"n", "E", "s">>, <<"n", "@", "s">>)
elide_ically_schwa(ph) == Ending(ph, <<"k", "@", "l", "i">>, <<"k", "l", "i">>)

count_vowel_groups_before(ph, end) ==
  LET bare == SelectSeq(SubSeq(ph, 1, end - 1), LAMBDA c : c \notin Marks)
  IN  Cardinality({i \in DOMAIN bare : bare[i] \in Vowels /\ At(bare, i - 1) \notin Vowels})

(* A compound in -n- gets a secondary on it.                               *)
add_compound_syllabic_n_stress(ph) ==
  LET last  == Len(ph) - 1
      n     == IF At(ph, last - 1) = "?" THEN last - 1 ELSE last
      prime == First(ph, "'")
      lands == /\ Ends(ph, <<"n", "-">>) /\ prime # 0
               /\ count_vowel_groups_before(ph, n) >= 2
               /\ \A i \in 1 .. prime - 1 : ph[i] \notin {"%", "="}
               /\ At(ph, n - 1) # ","
  IN  IF lands THEN insert_marker_at(ph, n, ",") ELSE ph

(* Of two primaries in a row the earlier is demoted, from right to left.   *)
demote_adjacent_primaries(ph, ph_in) ==
  LET prim(syl) == syl.marks # <<>> /\ Last(syl.marks) = "'"
      Earlier(syls) ==
        LET demoted[k \in DOMAIN syls] ==
              /\ k < Len(syls) /\ prim(syls[k]) /\ At(ph, syls[k].pos - 1) = "'"
              /\ prim(syls[k + 1]) /\ ~demoted[k + 1]
        IN  {syls[k].pos - 1 : k \in {j \in DOMAIN syls : demoted[j]}}
      In(places) == Evaluated([i \in DOMAIN ph |-> IF i \in places THEN "," ELSE ph[i]])
  IN  IF Has(ph_in, "'") THEN In(Earlier(AllSyllables(ph))) ELSE ph

-----------------------------------------------------------------------------

apply_en_us_reductions(ph, edges) ==
  LET es   == reduce_e_unstressed(reduce_bare_zero_after_ution(ph), edges)
      vas  == reduce_a_between_primary_and_sec(
                reduce_a_before_primary(reduce_v_between_sec_and_primary(es), edges), edges)
      zero == reduce_bare_zero_before_primary(reduce_zero_hash_before_primary(
                reduce_zero_between_primary_and_sec(
                  reduce_zero_between_sec_and_primary(vas))), edges)
      rest == apply_flap_rule(reduce_3_long_to_short(post_stress_i_before_syllabic_l(
                reduce_e_pre_tonic_after_pct_nasal(zero))))
  IN  elide_ically_schwa(reduce_ou_hash_compound(reduce_ness_suffix(rest)))

apply_reduction_phases(ph, ph_in, edges) ==
  add_compound_syllabic_n_stress(apply_en_us_reductions(
    demote_adjacent_primaries(reduce_zero_diminished(ph), ph_in), edges))
=============================================================================
