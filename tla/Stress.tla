------------------------------- MODULE Stress -------------------------------
(***************************************************************************)
(* The stress phases of process_phoneme_string() (src/phonemizer.c): where *)
(* the primary goes in a word without one, and which secondaries are added *)
(* or taken out around it.                                                 *)
(*                                                                         *)
(* edges has the places behind which a rule ended; it is empty when the    *)
(* codes did not come from rules, and it is not moved by the marks the     *)
(* phases insert.                                                          *)
(***************************************************************************)
EXTENDS Codes

Leads(ph) == At(ph, 1) = ","

-----------------------------------------------------------------------------
(* The primary.                                                            *)

(* A compound tail with no strong vowel takes the primary to the last one. *)
compute_pick_last(ph, force) ==
  IF Has(ph, "=")
  THEN \A syl \in ToSet(SyllablesFrom(ph, LastOf(ph, "=") + 1)) : is_weak_tail_vowel(syl.code)
  ELSE force

StrongDiphthongs == Codes({"oU", "aI", "eI", "aU", "OI", "aI@", "aI3", "aU@", "i:", "u:",
                           "A:", "E:", "3:", "o:", "U:"})

(* Behind a comma that does not lead the word, and behind its own vowel.   *)
strong_diphthong_after_secondary(ph) ==
  LET comma == First(ph, ",")
      next  == skip_stress_markers(ph, comma + 1)
  IN  /\ comma > 1
      /\ \E syl \in ToSet(SyllablesFrom(ph, next)) :
           syl.pos # next /\ syl.code \in StrongDiphthongs

(* The vowels of a word without a primary.  A comma counts in front of a   *)
(* vowel unless commas is FALSE; the leading one always does.              *)
SecondaryVowels(ph, syls, commas) ==
  {k \in DOMAIN syls : Secondary(syls[k]) /\ (commas \/ (k = 1 /\ Leads(ph)))}
PlainVowels(syls, secondary) ==
  {k \in DOMAIN syls \ secondary : ~Unstressed(syls[k]) /\ ~is_reduced_vowel(syls[k].code)}

(* A schwa is lone when no strong vowel follows, and what is strong for    *)
(* that is not what is strong for the primary: there the reduced vowels    *)
(* are.                                                                    *)
Carries(syl) == /\ ~Unstressed(syl) /\ ~Secondary(syl)
                /\ syl.code \notin Codes({"@", "@2", "@5", "@L", "3"})
LoneVowels(syls, plain, moved) ==
  {k \in plain : \/ is_schwa_vowel(syls[k].code) /\ \A j \in k + 1 .. Len(syls) : ~Carries(syls[j])
                 \/ moved /\ syls[k].code = <<"I">>}

Pick(choice, last) == IF choice = {} THEN 0 ELSE IF last THEN Max(choice) ELSE Min(choice)
PrimaryScan(syls, secondary, strong, place, last) ==
  [pos       |-> IF place = 0 THEN 0 ELSE syls[place].pos,
   secondary |-> \E k \in secondary : last \/ strong = {} \/ k < place]
PickPrimary(syls, secondary, strong, lone, last) ==
  PrimaryScan(syls, secondary, strong, Pick(IF strong # {} THEN strong ELSE lone, last), last)
ScanPlain(syls, secondary, plain, lone, last) ==
  PickPrimary(syls, secondary, {k \in plain \ lone : ~is_schwa_vowel(syls[k].code)}, lone, last)

ScanSyllables(syls, secondary, last, moved) ==
  LET plain == PlainVowels(syls, secondary)
  IN  ScanPlain(syls, secondary, plain, LoneVowels(syls, plain, moved), last)
scan_for_primary(ph, last, commas, moved) ==
  LET Scan(syls) == ScanSyllables(syls, SecondaryVowels(ph, syls, commas), last, moved)
  IN  Scan(AllSyllables(ph))

suppress_primary_on_schwa(ph, scan) ==
  /\ ph[scan.pos] = "@" \/ (ph[scan.pos] = "3" /\ At(ph, scan.pos + 1) # ":")
  /\ At(ph, 1) = "%" \/ scan.secondary

(* "a#" as the first vowel becomes a stressed "a", without the digits of a *)
(* variant when it has some.                                               *)
stress_a_hash_last_resort(ph) ==
  LET syls == AllSyllables(ph)
      a    == syls[1].pos
      rest == Skip(ph, a + 2, {"1", "2", "4", "5", "6", "7", "9"})
  IN  IF syls = <<>> \/ syls[1].code # <<"a", "#">> THEN ph
      ELSE insert_marker_at(IF rest > a + 2 THEN Splice(ph, a + 1, rest - a - 1, <<>>) ELSE ph,
                            a, "'")

PutPrimary(ph, scan) ==
  IF scan.pos = 0 \/ suppress_primary_on_schwa(ph, scan)
  THEN stress_a_hash_last_resort(ph) ELSE insert_marker_at(ph, scan.pos, "'")
ScanAndPut(ph, force, ruled, moved) ==
  PutPrimary(ph, scan_for_primary(ph, moved \/ compute_pick_last(ph, force), ~ruled \/ moved, moved))

insert_primary_stress(ph, force, edges) ==
  IF Has(ph, "'") \/ (Leads(ph) /\ edges = {}) THEN ph
  ELSE ScanAndPut(ph, force, edges # {}, edges # {} /\ strong_diphthong_after_secondary(ph))

(* A suffix behind = takes the primary to the last free strong vowel in    *)
(* front of it, and undoes a flap there.                                   *)
apply_equals_suffix_stress_shift(ph) ==
  LET prime  == First(ph, "'")
      eq     == LastOf(ph, "=")
      syls   == SyllablesFrom(ph, prime + 1)
      strong == {v \in Poses(SelectSeq(syls, LAMBDA s : ~is_weak_vowel(s.code))) :
                   v < eq /\ ~Stressed(ph, v)}
      v      == Max(strong)
      stays  == \/ prime = 0 \/ eq < prime \/ strong = {}
                \/ \E i \in prime + 1 .. eq : ph[i] = "'"
                \/ syls[1].pos = v
      down   == Put(ph, prime, ",")
      plain  == IF ph[v - 1] = "*" THEN Put(down, v - 1, "t") ELSE down
  IN  [fired |-> ~stays, ph |-> IF stays THEN ph ELSE insert_marker_at(plain, v, "'")]

-----------------------------------------------------------------------------
(* The secondaries.                                                        *)

(* Backward, the leftmost vowel two or more from the primary, every second *)
(* one after it, and those an even distance from the primary that are not  *)
(* next to one of these.  Forward, those an even distance away, or the one *)
(* behind where that one is too weak; a second primary forbids it.         *)
SecondaryPlaces(syls, prime, backward) ==
  LET stressable(k) == ~is_weak_vowel(syls[k].code) /\ ~Unstressed(syls[k])
      takes(k)      == stressable(k) /\ ~Secondary(syls[k]) /\ ~Primary(syls[k])
      left    == {k \in 1 .. prime - 2 : backward /\ takes(k)}
      cascade == {k \in left : (k - Min(left)) % 2 = 0}
      even    == {k \in left : (prime - k) % 2 = 0 /\ {k - 1, k, k + 1} \cap cascade = {}}
      right   == {k \in prime + 2 .. Len(syls) : (k - prime) % 2 = 0}
      after   == {k \in right : takes(k)}
                   \cup {k \in prime + 3 .. Len(syls) :
                           /\ k - 1 \in right /\ takes(k)
                           /\ ~stressable(k - 1) /\ ~Primary(syls[k - 1])}
      forward == /\ \E k \in prime + 1 .. Len(syls) : stressable(k)
                 /\ \A k \in prime + 3 .. Len(syls) : ~Primary(syls[k])
  IN  cascade \cup even \cup (IF forward THEN after ELSE {})

PrimaryVowels(syls) == {k \in DOMAIN syls : Primary(syls[k])}
place_secondary_stress(ph, ph_in, fired, edges) ==
  LET ran    == Has(ph, "'") /\ ~Has(ph_in, ",")
      Marked(syls, places) == Mark(ph, {syls[k].pos : k \in places}, ",")
      Placed(syls, primes) ==
        IF ~ran \/ primes = {} \/ Len(syls) < 3 THEN ph
        ELSE Marked(syls, SecondaryPlaces(syls, Min(primes), ~fired /\ ~Has(ph, ",")))
      In(syls) == Placed(syls, PrimaryVowels(syls))
  IN  [ran |-> ran, ph |-> In(Syllables(ph, FALSE, edges))]

(* A comma one vowel from the primary goes, when a rule ended in between.  *)
cleanup_adjacent_secondary(ph, ran, led, edges) ==
  LET active   == ~ran /\ ~led /\ edges # {} /\ Has(ph, "'") /\ Has(ph, ",")
      Near(syls, prime) ==
        {k \in DOMAIN syls : Secondary(syls[k]) /\ k - prime \in {-1, 1}}
      Comma(pos) == LET marks == {i \in Places(ph, {"'", ",", "%"}) : i < pos}
                    IN  IF ph[Max(marks)] = "," THEN Max(marks) ELSE 0
      Apart(i) == LET ends == {i, First(ph, "'")}
                  IN  edges \cap (Min(ends) .. Max(ends) - 1) # {}
      Without(poses) == Erase(ph, {i \in {Comma(pos) : pos \in poses} : i # 0 /\ Apart(i)})
      Cleaned(syls, primes) ==
        IF ~active \/ primes = {} THEN ph
        ELSE Without({syls[k].pos : k \in Near(syls, Min(primes))})
      In(syls) == Cleaned(syls, PrimaryVowels(syls))
  IN  In(AllSyllables(ph))

(* The first vowel without a mark, and with none but weak marks on the     *)
(* nearest vowels that are no schwas.  A code of one character is read     *)
(* where it stood, whatever an edit has put there.                         *)
Trochee(ph, syls, k) ==
  LET Code(j)  == IF Len(syls[j].code) = 1 THEN <<ph[syls[j].was]>> ELSE syls[j].code
      full     == {j \in DOMAIN syls : ~is_schwa_family(Code(j))}
      before   == {j \in full : j < k}
      after    == {j \in full : j > k}
  IN  /\ syls[k].level = -1 /\ ~is_weak_vowel(Code(k))
      /\ before # {} => syls[Max(before)].level <= 1
      /\ after # {} => syls[Min(after)].level <= 1

(* A bug: the mark is erased where it stood before the other was put in.   *)
PromoteThenErase(ph, syls, k) ==
  LET prime == First(ph, "'")
  IN  [ph   |-> chars_erase_at(insert_marker_at(ph, syls[k].pos, "'"), prime),
       syls |-> [j \in DOMAIN syls |-> [syls[j] EXCEPT !.level = IF j = k THEN 4 ELSE @]]]

(* The primary that was inserted gives way to one on vowel k.              *)
promote_trochaic_primary(ph, syls, k) ==
  LET prime == First(ph, "'")
      at    == syls[k].pos - IF syls[k].pos > prime THEN 1 ELSE 0
      Moved(j) == syls[j].pos + (IF j > k THEN 1 ELSE 0)
                              - (IF syls[j].pos > prime THEN 1 ELSE 0)
  IN  [ph   |-> insert_marker_at(chars_erase_at(ph, prime), at, "'"),
       syls |-> [j \in DOMAIN syls |->
                   [syls[j] EXCEPT !.pos = Moved(j),
                                   !.level = IF j = k THEN 4 ELSE IF @ = 4 THEN -1 ELSE @]]]

Trochees(ph, syls, from) == {k \in from .. Len(syls) : Trochee(ph, syls, k)}
WithComma(ph, syls, vowels) ==
  IF vowels = {} THEN ph ELSE insert_marker_at(ph, syls[Min(vowels)].pos, ",")
AndSecond(new, from) == WithComma(new.ph, new.syls, Trochees(new.ph, new.syls, from))
MarkTrochee(ph, syls, first, own) ==
  IF own \/ first = {} THEN WithComma(ph, syls, first)
  ELSE AndSecond(promote_trochaic_primary(ph, syls, Min(first)), Min(first) + 1)
TrocheeOf(ph, syls, own) == MarkTrochee(ph, syls, Trochees(ph, syls, 1), own)

trochaic_compound_prefix(ph, ph_in, ran, led) ==
  LET Levels(syls) ==
        [k \in DOMAIN syls |-> [pos |-> syls[k].pos, was |-> syls[k].pos, code |-> syls[k].code,
                                level |-> Level(At(ph, syls[k].pos - 1))]]
  IN  IF ran \/ led \/ ~Has(ph, "'") \/ ~Has(ph_in, ",") THEN ph
      ELSE TrocheeOf(ph, Levels(AllSyllables(ph)), Places(ph_in, {"'", "="}) # {})

(* A bug: the last vowel may have its mark already.                        *)
FinalSecondaryAgain(ph) ==
  LET Lands(syls, n) == /\ Has(ph, "'") /\ n >= 2
                        /\ ~is_weak_vowel(syls[n].code) /\ is_reduced_or_schwa(syls[n - 1].code)
      In(syls) ==
        IF Lands(syls, Len(syls)) THEN insert_marker_at(ph, Last(syls).pos, ",") ELSE ph
  IN  In(Syllables(ph, FALSE, {}))

(* The last vowel gets one behind a weak one.                              *)
final_syllable_secondary(ph) ==
  LET level(syl) == IF syl.marks = <<>> THEN -1 ELSE Level(Last(syl.marks))
      Lands(syls, n) == /\ Has(ph, "'") /\ n >= 2
                        /\ level(syls[n]) = -1 /\ ~is_weak_vowel(syls[n].code)
                        /\ is_reduced_or_schwa(syls[n - 1].code) \/ level(syls[n - 1]) = 1
      In(syls) ==
        IF Lands(syls, Len(syls)) THEN insert_marker_at(ph, Last(syls).pos, ",") ELSE ph
  IN  In(Syllables(ph, FALSE, {}))

-----------------------------------------------------------------------------

AfterPlacement(placed, ph_in, led, edges) ==
  final_syllable_secondary(trochaic_compound_prefix(
    cleanup_adjacent_secondary(placed.ph, placed.ran, led, edges), ph_in, placed.ran, led))
AfterShift(shift, ph_in, led, edges) ==
  AfterPlacement(place_secondary_stress(shift.ph, ph_in, shift.fired, edges), ph_in, led, edges)
apply_stress_phases(ph, ph_in, strend, edges) ==
  AfterShift(apply_equals_suffix_stress_shift(insert_primary_stress(ph, strend, edges)),
             ph_in, Leads(ph), edges)
=============================================================================
