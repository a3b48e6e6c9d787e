------------------------------ MODULE GgufReader ------------------------------
(***************************************************************************)
(* src/src/gguf_reader.c: a model file is mapped, its header, key/value    *)
(* table and tensor table are parsed with a cursor that may never read     *)
(* past the end, and tensors are handed to the caller.                     *)
(*                                                                         *)
(* A file is a sequence of cells; a number of any width, a type code and a *)
(* character take one cell each.  A length read from the file is any       *)
(* number below Word, and the cursor is added to modulo Word.              *)
(***************************************************************************)
EXTENDS Integers, Sequences, FiniteSets, FiniteSetsExt

CONSTANTS
  Files,          \* the files gguf_open() may find
  Word,           \* 2^64
  Magic, Version,
  AlignKey,       \* the one-cell name general.alignment
  DefaultAlign,   \* 32
  BitAnd(_, _),   \* the operator & of C
  NULL

ASSUME WordAssumption ==
  /\ Word \in Nat \ {0} /\ DefaultAlign \in 1 .. Word - 1
  /\ \A f \in Files : f \in Seq(0 .. Word - 1) /\ 2 * Len(f) < Word

IsPowerOfTwo(a) == a > 0 /\ \A d \in 2 .. a : a % d = 0 => d % 2 = 0

(* No more bits are left than the mask has, and the mask a - 1 of a power  *)
(* of two leaves the remainder.                                            *)
ASSUME AndAssumption ==
  \A x \in 0 .. 2 * Word, a \in 1 .. Word :
    /\ BitAnd(x, a - 1) \in 0 .. a - 1
    /\ IsPowerOfTwo(a) => BitAnd(x, a - 1) = x % a

(* Type codes of enum gguf_value_type and of enum gguf_tensor_type.        *)
U32 == 4
Float == 6
Str == 8
Arr == 9
Fixed == {U32, Float}   \* the types of a fixed width
F32 == 0
F16 == 1

VARIABLES
  file,    \* the file's cells
  place,   \* place in gguf_open(), "open", "closed" or "aborted"
  g,       \* struct gguf
  cur      \* the cursor c, with the furthest cell it made the code read

ggufVars == <<file, place, g, cur>>

Zeroed == [mapped |-> FALSE, bytes |-> 0, path |-> FALSE, nKv |-> 0,
           nTensors |-> 0, kvs |-> NULL, tensors |-> NULL, align |-> DefaultAlign,
           data |-> 0]

Start == [at |-> 0, far |-> 0]

GgufInit ==
  /\ file = <<>>
  /\ place = "closed"
  /\ g = Zeroed
  /\ cur = Start

-----------------------------------------------------------------------------
(* The cursor.                                                             *)

(* A cell of the mapping; beyond it, anything.                             *)
Cell(p) == IF p < Len(file) THEN file[p + 1] ELSE 0

(* gr_have(): never the sum, which could wrap.                             *)
Have(c, want) == c.at <= g.bytes /\ want <= g.bytes - c.at

Within(c) == c.at <= g.bytes
Fail(c) == [c EXCEPT !.at = g.bytes + 1]
Take(c) == [at |-> c.at + 1, far |-> Max({c.far, c.at + 1})]
TakeStr(c) == [Take(c) EXCEPT !.at = (@ + Cell(c.at)) % Word]

(* What is left of a value: n more of a type, from the cursor on.          *)
Work == [cur : [at : Nat, far : Nat], type : Nat, n : Nat]

(* The cursor past one value of a type; rest says it of smaller work.      *)
PastOne(c, type, rest) ==
  CASE type \in Fixed -> IF Have(c, 1) THEN [c EXCEPT !.at = @ + 1] ELSE Fail(c)
    [] type = Str -> IF Have(c, 1) /\ Have(Take(c), Cell(c.at)) THEN TakeStr(c) ELSE Fail(c)
    [] type = Arr -> IF Have(c, 2)
                     THEN rest[[cur |-> Take(Take(c)), type |-> Cell(c.at),
                                n |-> Cell(c.at + 1)]]
                     ELSE Fail(c)
    [] OTHER -> Fail(c)

(* The loop over an array stops at the first element that runs off the end.*)
PastSome(x, rest) ==
  IF x.n = 0 \/ ~Within(x.cur) THEN x.cur
  ELSE rest[[cur |-> PastOne(x.cur, x.type, rest), type |-> x.type, n |-> x.n - 1]]

(* gguf_value_skip(): a value takes a cell or more, so that the calls and  *)
(* turns are at most as deep as the file is long.                          *)
Skip(from, itsType) ==
  LET past[k \in 0 .. g.bytes + 1] ==
        [x \in Work |-> IF k = 0 THEN x.cur ELSE PastSome(x, past[k - 1])]
  IN  past[g.bytes + 1][[cur |-> from, type |-> itsType, n |-> 1]]

(* A key/value pair at c and the cursor past it.                           *)
KvAt(c) ==
  LET named == TakeStr(c)
      typed == Take(named)
      type  == Cell(named.at)
      past  == Skip(typed, type)
      whole == Have(c, 1) /\ Within(named) /\ Have(named, 1)
  IN  [ok |-> whole /\ Within(past),
       kv |-> [key |-> c.at + 1, n |-> Cell(c.at), type |-> type, raw |-> typed.at,
              end |-> past.at],
       past |-> IF ~Have(c, 1) THEN c ELSE IF whole THEN past ELSE named]

(* A bug: the number of dimensions is believed.                            *)
DimsBelieved(n, c) == TRUE

DimsFit(n, c) == n <= 4 /\ Have(c, n + 2)

(* A tensor descriptor at c and the cursor past it.                        *)
TensorAt(c) ==
  LET named == TakeStr(c)
      dims  == Cell(named.at)
      shape == Take(named)
      head  == Have(c, 1) /\ Within(named) /\ Have(named, 1)
      ok    == head /\ DimsFit(dims, shape)
      last  == shape.at + dims + 2
  IN  [ok |-> ok,
       t  |-> [key |-> c.at + 1, n |-> Cell(c.at),
               shape |-> [d \in 1 .. Min({dims, 4}) |-> Cell(shape.at + d - 1)],
               type |-> Cell(last - 2), offset |-> Cell(last - 1)],
       past |-> IF ~Have(c, 1) THEN c ELSE IF ~head THEN named
                ELSE IF ok THEN [at |-> last, far |-> Max({shape.far, last})]
                ELSE shape]

-----------------------------------------------------------------------------
(* gguf_open(), one action per loop turn or call.                          *)

Abort ==
  /\ place' = "aborted"
  /\ UNCHANGED <<file, g, cur>>

(* A bug: a failing open gives the mapping back and nothing else.          *)
CloseMapOnly ==
  /\ place' = "closed"
  /\ g' = [g EXCEPT !.mapped = FALSE, !.bytes = 0]
  /\ file' = <<>> /\ cur' = Start

(* gguf_close(), by a failing open or by the caller.  The cursor is gone,  *)
(* and the file is forgotten.                                              *)
Close ==
  /\ place' = "closed"
  /\ g' = [g EXCEPT !.kvs = NULL, !.tensors = NULL, !.path = FALSE,
                    !.mapped = FALSE, !.bytes = 0]
  /\ file' = <<>> /\ cur' = Start

(* Open, stat and map a file: each may fail, and so may the copy of the    *)
(* path, which aborts.                                                     *)
MmapFile(f) ==
  /\ place = "closed"
  /\ cur' = Start
  /\ file' = f
  /\ \/ /\ f # <<>>
        /\ place' = "header"
        /\ g' = [Zeroed EXCEPT !.mapped = TRUE, !.bytes = Len(f), !.path = TRUE]
     \/ /\ place' = "closed"
        /\ g' = Zeroed
     \/ /\ f # <<>>
        /\ place' = "aborted"
        /\ g' = [Zeroed EXCEPT !.mapped = TRUE, !.bytes = Len(f)]

(* Magic and version, then the two counts.                                 *)
ReadHeader ==
  LET two  == Take(Take(cur))
      four == Take(Take(two))
  IN  /\ place = "header"
      /\ IF Have(cur, 2) /\ Cell(0) = Magic /\ Cell(1) = Version /\ Have(two, 2)
         THEN /\ place' = "kvs"
              /\ cur' = four
              /\ g' = [g EXCEPT !.nTensors = Cell(2), !.nKv = Cell(3)]
              /\ UNCHANGED file
         ELSE Close

(* The table is allocated for the count the file claims, or it is too big. *)
AllocTable(here, next, field) ==
  /\ place = here
  /\ \/ /\ place' = next
        /\ g' = [g EXCEPT ![field] = <<>>]
        /\ UNCHANGED <<file, cur>>
     \/ Abort

AllocKvs == AllocTable("kvs", "kv", "kvs")
AllocTensors == AllocTable("tensors", "tensor", "tensors")

ParseOneKv ==
  LET r == KvAt(cur)
  IN  /\ place = "kv" /\ Len(g.kvs) < g.nKv
      /\ cur' = r.past
      /\ IF r.ok THEN g' = [g EXCEPT !.kvs = Append(@, r.kv)] /\ UNCHANGED place
         ELSE place' = "bad" /\ UNCHANGED g
      /\ UNCHANGED file

Malformed == place = "bad" /\ Close

KeyIs(e, name) == e.n = 1 /\ Cell(e.key) = name

(* The first entry of that name, or 0.                                     *)
FirstOf(table, name) ==
  LET named == {j \in DOMAIN table : KeyIs(table[j], name)}
  IN  IF named = {} THEN 0 ELSE Min(named)

(* The last general.alignment of the right type counts.                    *)
ApplyAlignment ==
  LET given == {j \in DOMAIN g.kvs :
                  KeyIs(g.kvs[j], AlignKey) /\ g.kvs[j].type = U32}
  IN  /\ place = "kv" /\ Len(g.kvs) = g.nKv
      /\ place' = "tensors"
      /\ g' = IF given = {} THEN g
              ELSE [g EXCEPT !.align = Cell(g.kvs[Max(given)].raw)]
      /\ UNCHANGED <<file, cur>>

ParseOneTensor ==
  LET r == TensorAt(cur)
  IN  /\ place = "tensor" /\ Len(g.tensors) < g.nTensors
      /\ cur' = r.past
      /\ IF r.ok THEN g' = [g EXCEPT !.tensors = Append(@, r.t)] /\ UNCHANGED place
         ELSE place' = "bad" /\ UNCHANGED g
      /\ UNCHANGED file

(* (c + a - 1) & ~(a - 1), whatever a is.                                  *)
Aligned(c, a) == (c + a - 1) - BitAnd(c + a - 1, a - 1)

(* Every tensor must begin within the data section.                        *)
PlaceData ==
  LET start == Aligned(cur.at, IF g.align = 0 THEN DefaultAlign ELSE g.align)
  IN  /\ place = "tensor" /\ Len(g.tensors) = g.nTensors
      /\ IF /\ start <= g.bytes
            /\ \A j \in DOMAIN g.tensors : g.tensors[j].offset <= g.bytes - start
         THEN /\ place' = "open"
              /\ g' = [g EXCEPT !.data = start]
              /\ UNCHANGED <<file, cur>>
         ELSE Close

OpenStep ==
  \/ ReadHeader \/ AllocKvs \/ ParseOneKv \/ Malformed \/ ApplyAlignment
  \/ AllocTensors \/ ParseOneTensor \/ PlaceData

-----------------------------------------------------------------------------
(* What an open file gives.                                                *)

(* gr_have() on the extent: data section, offset and size of the tensor.   *)
Fits(t, size) == Have([at |-> g.data + t.offset, far |-> 0], size)

(* gguf_release_mmap(): the tables stay.                                   *)
ReleaseMmap ==
  /\ place = "open"
  /\ g' = [g EXCEPT !.mapped = FALSE, !.bytes = 0]
  /\ UNCHANGED <<file, place, cur>>

-----------------------------------------------------------------------------
(* Whatever a file says, nothing past its end is read while it is opened.  *)
ReadsInside == cur.far <= Len(file)

(* A file that was opened gives out only what lies in it: every value and  *)
(* every tensor's first cell, the tables as long as the header claims and  *)
(* the data behind them, aligned when the alignment is a power of two.     *)
OpenSound ==
  place = "open" =>
    /\ Len(g.kvs) = g.nKv /\ Len(g.tensors) = g.nTensors
    /\ \A j \in DOMAIN g.kvs :
         /\ g.kvs[j].raw < g.kvs[j].end /\ g.kvs[j].end <= Len(file)
         /\ g.kvs[j].type \in Fixed => g.kvs[j].end = g.kvs[j].raw + 1
    /\ \A j \in DOMAIN g.tensors :
         /\ Len(g.tensors[j].shape) <= 4
         /\ g.data + g.tensors[j].offset <= Len(file)
    /\ cur.at <= g.data
    /\ IsPowerOfTwo(g.align) => g.data % g.align = 0

(* The reader keeps to the file, while it opens it and when it is open.    *)
WithinFile == ReadsInside /\ OpenSound

(* A failing open gives everything back, at whatever point it fails: part  *)
(* of what Model checks of the whole.                                      *)
ClosedHoldsNothing ==
  place = "closed" => ~g.mapped /\ ~g.path /\ g.kvs = NULL /\ g.tensors = NULL

=============================================================================
