------------------------------- MODULE MCDriver -------------------------------
(***************************************************************************)
(* The command line driver for TLC: every document of up to MaxText         *)
(* characters, every failure of every call; and the symbols of every short *)
(* string of bytes.                                                        *)
(***************************************************************************)
EXTENDS Driver, Symbols, SequencesExt

CONSTANT MaxText

MCTexts == BoundedSeq(Characters, MaxText)

(* A table with a code point that stands twice, one beyond the map, and    *)
(* one of two bytes; 46 is the full stop.                                  *)
MCSymbols == <<36, 46, 97, 34, 34, 800, 712>>

(* The loop of sentence_to_ids() as it is written: one sequence after the  *)
(* other, while there is room.                                             *)
RECURSIVE Loop(_, _, _, _)
Loop(s, i, ids, cap) ==
  IF i > Len(s) \/ Len(ids) >= cap - 3 THEN ids
  ELSE LET d == utf8_decode(s, i)
       IN  Loop(s, d.next,
                IF d.cp # None /\ symbol_id(d.cp) # None
                THEN Append(ids, symbol_id(d.cp)) ELSE ids,
                cap)

Closed(ids, term, cap) ==
  LET last == IF Len(ids) = 1 THEN None ELSE ids[Len(ids)]
      tid  == symbol_id(term)
      add  == term # 0 /\ Len(ids) < cap - 3 /\ tid >= 0 /\ tid # last
  IN  (IF add THEN Append(ids, tid) ELSE ids) \o <<10, 0>>

(* Symbols, which takes all ids and then cuts, agrees with the loop, which *)
(* stops when the array is full.                                           *)
ASSUME LoopAgrees ==
  \A s \in BoundedSeq({46, 97, 203, 136, 226, 240}, 4), term \in {0, 46}, cap \in 4 .. 7 :
    sentence_to_ids(s, term, cap) = Closed(Loop(s, 1, <<0>>, cap), term, cap)

=============================================================================
