------------------------------- MODULE MCModel -------------------------------
(***************************************************************************)
(* The model file for TLC: three well-formed files, each whole, cut at any *)
(* cell, or with any one cell replaced by a small number, a type code, the *)
(* largest number there is or half a word, of which two floats' cells wrap *)
(* to none.                                                                *)
(***************************************************************************)
EXTENDS Model, SequencesExt, Bitwise

CONSTANT MaxCell   \* the largest number a cell holds

HalfWord == Word \div 2

MCRequired == <<5>>
MCBitAnd(x, y) == x & y

(* Names: 1 the vocabulary, 2 the positions, 3 the alignment, 5 and 6 the  *)
(* weights.                                                                *)
Kv(key, type, value) == <<1, key, type>> \o value
Tensor(name, shape, type, offset) ==
  <<1, name, Len(shape)>> \o shape \o <<type, offset>>

Pad(s, a) == s \o [k \in 1 .. ((a - (Len(s) % a)) % a) |-> 0]

WellFormed(kvs, tensors, align, data) ==
  Pad(<<Magic, Version, Len(tensors), Len(kvs)>> \o FlattenSeq(kvs) \o FlattenSeq(tensors),
      align) \o data

Whole ==
  { WellFormed(<<Kv(1, U32, <<7>>)>>, <<Tensor(5, <<1>>, F32, 0)>>,
               DefaultAlign, <<0, 0>>),
    WellFormed(<<Kv(2, U32, <<9>>), Kv(3, U32, <<2>>), Kv(1, U32, <<7>>)>>,
               <<Tensor(6, <<>>, F32, 2), Tensor(5, <<1, 2>>, F16, 0)>>,
               2, <<0, 0, 0, 0>>),
    WellFormed(<<Kv(9, Arr, <<U32, 2, 8, 8>>), Kv(8, Str, <<2, 8, 8>>),
                 Kv(1, U32, <<7>>), Kv(7, Arr, <<Str, 2, 0, 1, 8>>)>>,
               <<Tensor(5, <<1>>, F16, 1)>>, DefaultAlign, <<0, 0>>) }

Cut(f) == {SubSeq(f, 1, k) : k \in 0 .. Len(f)}
Damaged(f) ==
  {[f EXCEPT ![k] = v] : k \in DOMAIN f, v \in {0, 1, 2, 3, 4, 5, 8, 9, HalfWord, MaxCell}}

MCFiles == UNION {Cut(f) \cup Damaged(f) : f \in Whole}

=============================================================================
