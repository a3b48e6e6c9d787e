------------------------------- MODULE Symbols -------------------------------
(***************************************************************************)
(* From the sounds of a sentence to the ids the network reads              *)
(* (kittens_tts_cli.c): the symbol table, the UTF-8 reader and             *)
(* sentence_to_ids(), which writes into an array of cap ids.               *)
(*                                                                         *)
(* A string is a sequence of bytes; positions count from 1, ids from 0.    *)
(***************************************************************************)
EXTENDS Integers, Sequences, FiniteSetsExt

CONSTANTS
  KITTEN_SYMBOL_CP,   \* the code point of each id
  SYM_MAP_SIZE        \* code points the map has room for

ASSUME SymbolsAssumption ==
  KITTEN_SYMBOL_CP \in Seq(Nat) /\ SYM_MAP_SIZE \in Nat

Bytes == 0 .. 255
None == -1

(* A code point that stands twice has its last id; one beyond the map has  *)
(* none.                                                                   *)
IdsOf(cp) == {i \in 0 .. Len(KITTEN_SYMBOL_CP) - 1 : KITTEN_SYMBOL_CP[i + 1] = cp}
symbol_id(cp) == IF cp < SYM_MAP_SIZE /\ IdsOf(cp) # {} THEN Max(IdsOf(cp)) ELSE None

(* How many bytes the sequence has that starts with c; 0 if none does.     *)
Width(c) ==
  IF c < 128 THEN 1 ELSE IF c < 192 THEN 0
  ELSE IF c < 224 THEN 2 ELSE IF c < 240 THEN 3 ELSE IF c < 248 THEN 4 ELSE 0

Tail6(s, i) == s[i] % 64
CodePoint(s, i) ==
  LET two(lead) == lead * 64 + Tail6(s, i + 1)
      three(lead) == two(lead) * 64 + Tail6(s, i + 2)
      four(lead) == three(lead) * 64 + Tail6(s, i + 3)
      w == Width(s[i])
  IN  IF w = 1 THEN s[i]
      ELSE IF w = 2 THEN two(s[i] % 32)
      ELSE IF w = 3 THEN three(s[i] % 16) ELSE four(s[i] % 8)

(* The code point at i, if its sequence is whole, and where the next one   *)
(* starts.  The bytes behind the lead are not tested for being             *)
(* continuations.                                                          *)
Whole(s, i) == Width(s[i]) # 0 /\ i + Width(s[i]) - 1 <= Len(s)
utf8_decode(s, i) ==
  [cp   |-> IF Whole(s, i) THEN CodePoint(s, i) ELSE None,
   next |-> IF Whole(s, i) THEN i + Width(s[i]) ELSE i + 1]

(* The symbols of a string, in order; what has no id is passed over.       *)
symbols_of(s) ==
  LET from[i \in 1 .. Len(s) + 1] ==
        IF i > Len(s) THEN <<>>
        ELSE LET d  == utf8_decode(s, i)
                 id == IF d.cp = None THEN None ELSE symbol_id(d.cp)
             IN  (IF id = None THEN <<>> ELSE <<id>>) \o from[d.next]
  IN  from[1]

(* Three places are kept for the terminator and the two ids of the end.    *)
Held(known, cap) == SubSeq(known, 1, Min({Len(known), cap - 4}))

(* The terminator is added unless it was the last symbol, has no id, or    *)
(* there is no room; 0 is no terminator.                                   *)
Term(held, term, cap) ==
  IF /\ term # 0 /\ Len(held) < cap - 4
     /\ symbol_id(term) # None
     /\ held # <<>> => held[Len(held)] # symbol_id(term)
  THEN <<symbol_id(term)>> ELSE <<>>

Framed(known, term, cap) ==
  <<0>> \o Held(known, cap) \o Term(Held(known, cap), term, cap) \o <<10, 0>>

sentence_to_ids(ipa, term, cap) == Framed(symbols_of(ipa), term, cap)

=============================================================================
