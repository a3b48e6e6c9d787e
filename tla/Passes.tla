------------------------------- MODULE Passes -------------------------------
(***************************************************************************)
(* process_phoneme_string() (src/phonemizer.c) as the sequence of passes   *)
(* it is, over the codes of one word.                                      *)
(*                                                                         *)
(* The passes share more than the string: where the rules ended, whether   *)
(* the word led with a secondary, and what the shift and the placement of  *)
(* secondaries did, which later passes are switched by.                    *)
(***************************************************************************)
EXTENDS Prosody, Ipa

VARIABLES
  given,    \* the codes the word came with
  strend,   \* its flag, which sends the primary to the end
  ph,       \* its codes so far
  edges,    \* where rules ended, as the codes were given
  led,      \* a secondary led the word before it had a primary
  fired,    \* the shift to a suffix took place
  ran,      \* the placement of secondaries was not switched off
  pass      \* the next pass

passes == <<given, strend, ph, edges, led, fired, ran, pass>>

PassNames == {"strip", "segments", "primary", "shift", "place", "clean up", "trochee",
              "final", "reduce", "done"}

(* As codes arrive, and codes that need no pass.                           *)
Fresh(codes, flag, first) ==
  /\ given' = codes /\ strend' = flag /\ ph' = codes /\ pass' = first
  /\ edges' = {} /\ led' = FALSE /\ fired' = FALSE /\ ran' = FALSE
Begin(codes, flag) == Fresh(codes, flag, "strip")
Keep(codes) == Fresh(codes, FALSE, "done")

-----------------------------------------------------------------------------

Strip ==
  /\ pass = "strip"
  /\ ph' = Undemoted(strip_rule_boundary_markers(given).ph)
  /\ edges' = strip_rule_boundary_markers(given).edges
  /\ pass' = "segments"
  /\ UNCHANGED <<given, strend, led, fired, ran>>

ChangeSegments ==
  /\ pass = "segments"
  /\ ph' = apply_segmental_phases(ph)
  /\ pass' = "primary"
  /\ UNCHANGED <<given, strend, edges, led, fired, ran>>

InsertPrimary ==
  /\ pass = "primary"
  /\ led' = Leads(ph)
  /\ ph' = insert_primary_stress(ph, strend, edges)
  /\ pass' = "shift"
  /\ UNCHANGED <<given, strend, edges, fired, ran>>

ShiftPrimary ==
  /\ pass = "shift"
  /\ fired' = apply_equals_suffix_stress_shift(ph).fired
  /\ ph' = apply_equals_suffix_stress_shift(ph).ph
  /\ pass' = "place"
  /\ UNCHANGED <<given, strend, edges, led, ran>>

PlaceSecondary ==
  /\ pass = "place"
  /\ ran' = place_secondary_stress(ph, given, fired, edges).ran
  /\ ph' = place_secondary_stress(ph, given, fired, edges).ph
  /\ pass' = "clean up"
  /\ UNCHANGED <<given, strend, edges, led, fired>>

CleanUp ==
  /\ pass = "clean up"
  /\ ph' = cleanup_adjacent_secondary(ph, ran, led, edges)
  /\ pass' = "trochee"
  /\ UNCHANGED <<given, strend, edges, led, fired, ran>>

CompoundPrefix ==
  /\ pass = "trochee"
  /\ ph' = trochaic_compound_prefix(ph, given, ran, led)
  /\ pass' = "final"
  /\ UNCHANGED <<given, strend, edges, led, fired, ran>>

FinalSecondary ==
  /\ pass = "final"
  /\ ph' = final_syllable_secondary(ph)
  /\ pass' = "reduce"
  /\ UNCHANGED <<given, strend, edges, led, fired, ran>>

ReduceVowels ==
  /\ pass = "reduce"
  /\ ph' = apply_reduction_phases(ph, given, edges)
  /\ pass' = "done"
  /\ UNCHANGED <<given, strend, edges, led, fired, ran>>

Pass == \/ Strip \/ ChangeSegments \/ InsertPrimary \/ ShiftPrimary \/ PlaceSecondary
        \/ CleanUp \/ CompoundPrefix \/ FinalSecondary \/ ReduceVowels

-----------------------------------------------------------------------------

PassesTypeOK ==
  /\ {given, ph} \subseteq Seq(STRING)
  /\ edges \subseteq 0 .. Len(given)
  /\ {strend, led, fired, ran} \subseteq BOOLEAN
  /\ pass \in PassNames

(* The stress passes only place, move and take out marks: what is sounded  *)
(* stays as it was, but for a flap that becomes a t under the primary and  *)
(* a first a# that becomes a full a to carry one.                          *)
Bare(codes) ==
  LET sounds == SelectSeq(codes, LAMBDA c : c \notin Stresses)
  IN  [i \in DOMAIN sounds |-> IF sounds[i] = "*" THEN "t" ELSE sounds[i]]
Colourless(codes) == SelectSeq(Bare(codes), LAMBDA c : c \notin VariantDigits \cup {"#"})

StressPass == pass \in {"primary", "shift", "place", "clean up", "trochee", "final"}
MarksOnly ==
  [][StressPass =>
       \/ Bare(ph') = Bare(ph)
       \/ /\ pass = "primary" /\ ~Has(ph, "'")
          /\ Colourless(ph') = Colourless(ph)]_passes

=============================================================================
