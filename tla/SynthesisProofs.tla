--------------------------- MODULE SynthesisProofs ---------------------------
(***************************************************************************)
(* kittens_synthesize() for signals, segments, pages and windows of every  *)
(* size: what a stage reads is there, what is obtained is freed once, and  *)
(* the segments give what the whole signal at once would give.             *)
(***************************************************************************)
EXTENDS Synthesis, TLAPS

-----------------------------------------------------------------------------
(* The windows of Windows, whatever the sizes.                             *)

(* The segment loops of kittens.c end: each turn starts where the last one *)
(* ended, further on and not beyond the signal.                            *)
THEOREM SegmentAdvances ==
  ASSUME NEW rows \in Nat, NEW len \in Nat \ {0}, NEW at \in 0 .. rows - 1
  PROVE  /\ SegmentEnd(at, len, rows) \in at + 1 .. rows
         /\ SegmentEnd(at, len, rows) < rows => SegmentEnd(at, len, rows) = at + len
  BY DEF SegmentEnd

(* build_hifi_block() computes a row of a segment from a window that holds *)
(* every row it depends on, so long as the kernel does not reach beyond    *)
(* HIFI_SEG_OVERLAP.                                                       *)
THEOREM HifiWindow ==
  ASSUME NEW rows \in Nat, NEW len \in Nat \ {0}, NEW overlap \in Nat,
         NEW reach \in 0 .. overlap, NEW at \in 0 .. rows - 1,
         NEW t \in at .. SegmentEnd(at, len, rows) - 1
  PROVE  Near(t, reach, rows)
           \subseteq Back(at, overlap) .. Ahead(SegmentEnd(at, len, rows), overlap, rows) - 1
  <1>1. SegmentEnd(at, len, rows) \in at + 1 .. rows
    BY SegmentAdvances
  <1>2. SUFFICES ASSUME NEW i \in t - reach .. t + reach, 0 <= i, i < rows
                 PROVE  i \in Back(at, overlap) .. Ahead(SegmentEnd(at, len, rows), overlap, rows) - 1
    BY DEF Near
  <1> QED
    BY <1>1, <1>2 DEF Back, Ahead

(* build_istft_tail() computes all the frames that add to the samples it   *)
(* keeps of a segment ...                                                  *)
THEOREM IstftFrames ==
  ASSUME NEW rows \in Nat, NEW len \in Nat \ {0}, NEW taps \in Nat \ {0},
         NEW at \in 0 .. rows - 1,
         NEW p \in FirstSample(at) .. SamplesEnd(SegmentEnd(at, len, rows), rows, taps) - 1
  PROVE  FramesOf(p, taps, rows) \subseteq FirstFrame(at, taps) .. SegmentEnd(at, len, rows) - 1
  <1> SUFFICES ASSUME NEW b \in at + 1 .. rows, b = SegmentEnd(at, len, rows),
                      NEW f \in 0 .. rows - 1, 5 * f <= p, p < 5 * f + taps
               PROVE  f \in FirstFrame(at, taps) .. b - 1
    BY SegmentAdvances DEF FramesOf
  <1>1. p \in Int /\ 5 * at <= p
    BY DEF FirstSample, SamplesEnd, AudioLen
  <1>2. f < b
    <2>1. CASE b = rows
      BY <2>1
    <2>2. CASE b # rows
      BY <2>2 DEF SamplesEnd, FirstSample
    <2> QED
      BY <2>1, <2>2
  <1>3. at - (taps + 3) \div 5 <= f
    BY <1>1
  <1> QED
    BY <1>2, <1>3 DEF FirstFrame, FrameOverlap, Back

(* ... each from all the rows it depends on.                               *)
THEOREM IstftRows ==
  ASSUME NEW rows \in Nat, NEW len \in Nat \ {0}, NEW taps \in Nat \ {0}, NEW pad \in Nat,
         NEW at \in 0 .. rows - 1,
         NEW f \in FirstFrame(at, taps) .. SegmentEnd(at, len, rows) - 1
  PROVE  Near(f, pad, rows)
           \subseteq FirstRow(at, taps, pad) .. Ahead(SegmentEnd(at, len, rows), pad, rows) - 1
  <1> SUFFICES ASSUME NEW b \in at + 1 .. rows, b = SegmentEnd(at, len, rows),
                      NEW i \in f - pad .. f + pad, 0 <= i, i < rows
               PROVE  i \in FirstRow(at, taps, pad) .. Ahead(b, pad, rows) - 1
    BY SegmentAdvances DEF Near
  <1>1. SUFFICES ASSUME NEW ov \in Nat, ov = FrameOverlap(taps)
                 PROVE  i \in FirstRow(at, taps, pad) .. Ahead(b, pad, rows) - 1
    BY DEF FrameOverlap
  <1> QED
    BY <1>1 DEF FirstFrame, FirstRow, Back, Ahead

(* Whole pages before a row are pages that no later row lies in, whatever  *)
(* the size of a page.                                                     *)
LEMMA PagesAhead ==
  ASSUME NEW page \in Nat \ {0}, NEW elem \in {2, 4}, NEW lo \in Nat,
         NEW from \in Nat, NEW to \in Nat, lo <= from
  PROVE  \A q \in PagesOfRows(from, to, elem, page) : q >= PagesBefore(lo, elem, page)
  <1>1. SUFFICES ASSUME NEW x \in Nat, NEW y \in Nat, x = lo * elem, y = from * elem
                 PROVE  x \div page <= y \div page
    BY DEF PagesOfRows, PagesBefore
  <1>2. x <= y
    BY <1>1
  <1> QED
    BY <1>2

(* host_retire_prefix() unmaps, before a segment, only pages that neither  *)
(* its own window nor that of a later segment reads: the windows move      *)
(* forward.                                                                *)
THEOREM RetiredNotRead ==
  ASSUME NEW page \in Nat \ {0}, NEW elem \in {2, 4}, NEW taps \in Nat \ {0},
         NEW pad \in Nat, NEW at \in Nat, NEW later \in Nat, NEW to \in Nat, at <= later
  PROVE  PagesOfRows(FirstRow(later, taps, pad), to, elem, page)
           \cap 0 .. PagesBefore(FirstRow(at, taps, pad), elem, page) - 1 = {}
  <1> SUFFICES ASSUME NEW ov \in Nat, ov = FrameOverlap(taps)
               PROVE  PagesOfRows(FirstRow(later, taps, pad), to, elem, page)
                        \cap 0 .. PagesBefore(FirstRow(at, taps, pad), elem, page) - 1 = {}
    BY DEF FrameOverlap
  <1>1. /\ FirstRow(at, taps, pad) \in Nat /\ FirstRow(later, taps, pad) \in Nat
        /\ FirstRow(at, taps, pad) <= FirstRow(later, taps, pad)
    BY DEF FirstRow, Back
  <1>2. \A q \in PagesOfRows(FirstRow(later, taps, pad), to, elem, page) :
          q >= PagesBefore(FirstRow(at, taps, pad), elem, page)
    BY <1>1, PagesAhead
  <1>3. PagesBefore(FirstRow(at, taps, pad), elem, page) \in Int
    BY <1>1 DEF PagesBefore
  <1> QED
    BY <1>2, <1>3

(* The slices of noise_stft_segment() and noise_conv_blocks() give exactly *)
(* the rows of the segment, each from the rows of the signal that the      *)
(* convolution of the whole would read, for the strides the code has.      *)
THEOREM SliceExact ==
  ASSUME NEW stride \in {1, 5, 6}, NEW K \in Nat \ {0}, NEW pad \in Nat,
         NEW va \in Nat, NEW n \in Nat \ {0}, NEW v \in va .. va + n - 1
  PROVE  SliceGives(v, va, n, SliceRows(n, K, stride), K, stride, pad)
  <1>1. ConvLen(SliceRows(n, K, stride), K, stride, 0) = n
    BY DEF ConvLen, SliceRows
  <1>2. Under(v - va, K, stride, 0) \subseteq 0 .. SliceRows(n, K, stride) - 1
    BY DEF Under, SliceRows
  <1>3. \A i \in Int : i \in Under(v - va, K, stride, 0)
                         <=> SliceStart(va, stride, pad) + i \in Under(v, K, stride, pad)
    BY DEF Under, SliceStart
  <1>4. ASSUME NEW j \in Under(v, K, stride, pad)
        PROVE  \E i \in Under(v - va, K, stride, 0) : j = SliceStart(va, stride, pad) + i
    <2>1. j \in Int /\ SliceStart(va, stride, pad) \in Int
      BY <1>4 DEF Under, SliceStart
    <2>2. j - SliceStart(va, stride, pad) \in Under(v - va, K, stride, 0)
      BY <1>3, <2>1
    <2> QED
      BY <2>1, <2>2
  <1>5. Under(v - va, K, stride, 0) \subseteq Int
    BY DEF Under
  <1> QED
    BY <1>1, <1>2, <1>3, <1>4, <1>5 DEF SliceGives

-----------------------------------------------------------------------------
(* What holds at each stage.                                               *)

Returns == {"nc1", "noiseEnd", "r1", "middle", "r3", "tail"}
Running == {"first", "second"}
Stages == Returns \cup Running \cup
  {"idle", "albert", "regulate", "front", "decoder", "noise", "singen", "stft",
   "nc", "hifi", "generator", "istft"}

(* The rows and the width of a buffer, by its name.                        *)
Carried == IF mode >= 1 THEN 2 ELSE 4
Plain == {"style_pr", "h0", "c0", "style", "p_sty"} \cup NoiseSaved
RowsOf(b) == IF b \in {"fpf", "ps", "f0"} THEN 2 * frames
             ELSE IF b \in Plain THEN 1
             ELSE IF b \in {"nc0", "nr0", "r0", "r1"} \/ (b = "x" /\ block <= 4) THEN L0
             ELSE L1
ElemOf(b) == IF b \in Plain THEN 4
             ELSE IF pc \in Running /\ b = Name THEN Elem ELSE Carried

(* Which buffers have pages: those around a residual block, and what is    *)
(* left when it returns.                                                   *)
Around == <<NoiseSaved, NoiseSaved \cup {"nr0"}, {"nr1", "p_sty"},
            {"nr1", "p_sty", "r0"}, {"p_sty"}, {"p_sty", "r2"}>>
After == Around[block] \cup {Name} \cup (IF Consume THEN {} ELSE {Input})
Names ==
  CASE pc = "albert" -> {"style_pr", "h0", "c0"}
    [] pc \in {"singen", "stft"} -> NoiseSaved
    [] pc \in {"nc", "hifi"} -> Around[block] \cup {Input}
    [] pc \in Running -> After \cup {"style"}
    [] pc \in Returns -> After
    [] pc = "generator" -> {"nr0", "nr1"}
    [] pc = "istft" -> {"r2", "r3"}
    [] OTHER -> {}

(* The pages of a buffer, but for those already retired.                   *)
Left(rows, elem, from) == [rows |-> rows, elem |-> elem,
                           pages |-> from .. PageCount(rows * elem) - 1]
HostHeld ==
  /\ pc = "idle" => host = <<>>
  /\ DOMAIN host = Names
  /\ pc # "istft" => \A b \in DOMAIN host : host[b] = Mapped(RowsOf(b), ElemOf(b))
  /\ pc = "istft" => \A b \in {"r2", "r3"} : host[b] = Left(L1, Carried, retired)

HeapAround == <<{"f0p", "dec", "stft"}, {"f0p", "dec"}, {}, {}, {}, {}>>
HeapNames ==
  CASE pc = "regulate" -> {"prosody", "text", "dur"}
    [] pc = "front" -> {"prosody_lr", "text_lr"}
    [] pc = "decoder" -> {"text_lr", "f0p", "np"}
    [] pc = "noise" -> {"f0p", "dec"}
    [] pc = "singen" -> {"f0p", "dec", "singen"}
    [] pc = "stft" -> {"f0p", "dec", "exc", "stft"}
    [] pc = "nc" -> {"f0p", "dec", "stft"}
    [] pc \in Returns \cup {"hifi"} -> HeapAround[block]
    [] pc \in Running -> HeapAround[block] \cup {"h3"}
    [] pc = "generator" -> {"dec"}
    [] pc = "istft" -> {"audio"}
    [] OTHER -> {}

(* Where the program is: residual blocks return to one place.              *)
Place ==
  /\ pc \in Stages /\ mode \in 0 .. 2 /\ block \in 0 .. 6
  /\ a \in Nat /\ k \in Nat /\ retired \in Nat /\ samples \in Nat
  /\ frames \in Nat
  /\ pc # "idle" => frames # 0
  /\ pc = "nc" => block \in {1, 2}
  /\ pc \in Returns \cup Running \cup {"hifi"} => block # 0
  /\ pc \in Returns => pc = Return[block]
  /\ pc \in Running => ~Small /\ k <= 2

(* Nothing was used that is gone, and what the next step uses is there.    *)
Clean ==
  /\ faults = {}
  /\ heap = HeapNames
  /\ pc = "albert" => "h" \in fresh
  /\ pc = "hifi" => "style" \in fresh

(* How far the segments are: rows before a are those of the whole signal.  *)
Rows ==
  /\ pc = "singen" => a <= 2 * frames
  /\ pc = "stft" => a <= L1 /\ DOMAIN out = 0 .. L1 - 1
  /\ pc = "nc" => /\ a <= NcLen /\ DOMAIN out = 0 .. NcLen - 1
                  /\ \A v \in 0 .. a - 1 : out[v] = 0
  /\ pc \in Returns \cup Running \cup {"hifi"} => DOMAIN out = 0 .. L - 1
  /\ pc = "hifi" => \A t \in 0 .. L - 1 : out[t] = 0
  /\ pc \in Running => a <= L /\ DOMAIN h3 = 0 .. L - 1 /\ stats = k
  /\ pc = "first" => /\ \A t \in 0 .. L - 1 : out[t] = k
                     /\ \A t \in 0 .. a - 1 : h3[t] = k
  /\ pc = "second" => /\ \A t \in 0 .. L - 1 : out[t] = IF t < a THEN k + 1 ELSE k
                      /\ \A t \in 0 .. L - 1 : h3[t] = k
  /\ pc \in Returns => \A t \in 0 .. L - 1 : out[t] = 3

(* What is written of the samples, and which pages may be retired.         *)
Samples ==
  pc = "istft" =>
    /\ a <= L1 /\ DOMAIN audio = 0 .. AudioLen(L1, Kb) - 1
    /\ retired <= PagesBefore(FirstRow(a, Kb, PadCp), Carried, Page)
    /\ \A p \in DOMAIN audio : p < SamplesEnd(a, L1, Kb) => audio[p]

IInv == Place /\ HostHeld /\ Clean /\ Rows /\ Samples

-----------------------------------------------------------------------------
(* Pages.                                                                  *)


(* Whole pages: fewer rows lie in fewer, one page more is one more.        *)
LEMMA Halves ==
  ASSUME NEW x \in Nat, NEW y \in Nat, x <= y
  PROVE  /\ x \div Page \in Nat /\ y \div Page \in Nat
         /\ x \div Page <= y \div Page
         /\ (x + Page) \div Page = x \div Page + 1
  <1>1. Page \in Nat \ {0}
    BY SegmentAssumption
  <1>2. x \div Page \in Nat /\ y \div Page \in Nat
    BY <1>1
  <1>3. x \div Page <= y \div Page
    BY <1>1
  <1>4. (x + Page) \div Page = x \div Page + 1
    BY <1>1
  <1> QED
    BY <1>2, <1>3, <1>4

(* The pages of rows lo .. hi - 1 are pages of a buffer with at least hi   *)
(* rows, and they begin with the first that is not wholly before row lo.   *)
LEMMA PagesHeld ==
  ASSUME NEW n \in Nat \ {0}, NEW e \in {2, 4}, NEW lo \in Nat, NEW hi \in 1 .. n
  PROVE  /\ PagesBefore(lo, e, Page) \in Nat
         /\ PagesOf(lo, hi, e) \subseteq PagesBefore(lo, e, Page) .. PageCount(n * e) - 1
  <1>1. PICK x \in Nat, y \in Nat, z \in Nat :
          x = lo * e /\ y = hi * e - 1 /\ z = n * e - 1 /\ y <= z
    OBVIOUS
  <1>2. Page \in Nat \ {0}
    BY SegmentAssumption
  <1>3. PageCount(n * e) - 1 = z \div Page
    <2>1. n * e + Page - 1 = z + Page
      BY <1>1, <1>2
    <2>2. PageCount(n * e) = (z + Page) \div Page
      BY <2>1 DEF PageCount
    <2> QED
      BY <2>2, <1>1, Halves
  <1>4. y \div Page <= z \div Page /\ y \div Page \in Nat /\ z \div Page \in Nat
        /\ x \div Page \in Nat
    BY <1>1, Halves
  <1>5. PagesOf(lo, hi, e) = x \div Page .. y \div Page /\ PagesBefore(lo, e, Page) = x \div Page
    BY <1>1 DEF PagesOf, PagesOfRows, PagesBefore
  <1> QED
    BY <1>3, <1>4, <1>5

(* hifi_out_compress() leaves what a mapping of half the width would hold. *)
LEMMA CompressMapped ==
  ASSUME NEW n \in Nat \ {0}, mode \in 0 .. 2
  PROVE  Compress(Mapped(n, Elem)) = Mapped(n, Carried)
  <1>1. PageCount(n * 2) \in Nat /\ PageCount(n * 4) \in Nat
        /\ PageCount(n * 2) <= PageCount(n * 4)
    <2>1. PICK x \in Nat, y \in Nat :
            x = n * 2 + Page - 1 /\ y = n * 4 + Page - 1 /\ x <= y
      BY SegmentAssumption
    <2> QED
      BY <2>1, Halves DEF PageCount
  <1>2. CASE mode = 1
    <2>1. Elem = 4 /\ Carried = 2
      BY <1>2 DEF Elem, Carried
    <2>2. (0 .. PageCount(n * 4) - 1) \cap (0 .. PageCount(n * 2) - 1)
            = 0 .. PageCount(n * 2) - 1
      BY <1>1
    <2>3. PICK p, q : p = 0 .. PageCount(n * 4) - 1 /\ q = 0 .. PageCount(n * 2) - 1
      OBVIOUS
    <2>4. PICK e, w : e = 4 /\ w = 2
      OBVIOUS
    <2>5. PICK h : h = [rows |-> n, elem |-> e, pages |-> p]
      OBVIOUS
    <2>6. h.elem = e /\ h.rows = n /\ h.pages = p
      BY <2>5
    <2>7. Compress(h) = [h EXCEPT !.elem = w, !.pages = h.pages \cap q]
      BY <1>2, <2>3, <2>4, <2>6 DEF Compress
    <2>8. @ = [h EXCEPT !.elem = w, !.pages = q]
      BY <2>2, <2>3, <2>6
    <2>9. @ = [[h EXCEPT !.elem = w] EXCEPT !.pages = q]
      OBVIOUS
    <2>10. PICK g : g = [h EXCEPT !.elem = w]
      OBVIOUS
    <2>11. g = [rows |-> n, elem |-> w, pages |-> p]
      BY <2>5, <2>10
    <2>12. [g EXCEPT !.pages = q] = [rows |-> n, elem |-> w, pages |-> q]
      BY <2>11
    <2>13. Compress(h) = [rows |-> n, elem |-> w, pages |-> q]
      BY <2>7, <2>8, <2>9, <2>10, <2>12
    <2> QED
      BY <2>1, <2>3, <2>4, <2>5, <2>13 DEF Mapped
  <1>3. CASE mode # 1
    <2>1. Elem = Carried /\ (mode >= 1 => Elem # 4)
      BY <1>3 DEF Elem, Carried
    <2> QED
      BY <2>1 DEF Compress, Mapped
  <1> QED
    BY <1>2, <1>3

(* Every phoneme has a frame, so the signals have rows.                    *)
LEMMA Lengths ==
  ASSUME frames \in Nat \ {0}
  PROVE  L0 \in Nat \ {0} /\ L1 \in Nat \ {0}
  <1>1. Hop \in Nat \ {0} /\ K0 \in Nat
    BY SegmentAssumption
  <1>2. PICK n \in Nat : n = 2 * frames * Hop
    BY <1>1
  <1>3. 2 * Hop <= n
    BY <1>1, <1>2
  <1>4. L1 = ((n + 20 - 19 - 1) \div 5) + 1
    BY <1>2 DEF L1, ConvLen
  <1>5. PICK c \in Nat : c = ConvLen(2 * Hop, 20, 5, 10) /\ c <= L1
    BY <1>1, <1>3, <1>4 DEF ConvLen
  <1>6. L1 \in Nat \ {0}
    BY <1>4
  <1>7. K0 <= c + 6
    BY <1>5, DurationsAssumption
  <1>8. K0 <= L1 + 6
    BY <1>1, <1>5, <1>6, <1>7
  <1>9. L0 = ((L1 + 6 - K0) \div 6) + 1
    BY <1>1, <1>6 DEF L0, ConvLen
  <1> QED
    BY <1>1, <1>6, <1>8, <1>9

(* Every buffer has rows, of two or four bytes.                            *)
LEMMA Sizes ==
  ASSUME NEW b, frames \in Nat \ {0}
  PROVE  RowsOf(b) \in Nat \ {0} /\ ElemOf(b) \in {2, 4}
  <1>1. 2 * frames \in Nat \ {0}
    OBVIOUS
  <1> QED
    BY <1>1, Lengths DEF RowsOf, ElemOf, Elem, Carried

(* Whatever is mapped can be read and can be freed.                        *)
LEMMA MappedLive ==
  ASSUME NEW b \in DOMAIN host, NEW n \in Nat \ {0}, NEW e \in {2, 4}, host[b] = Mapped(n, e)
  PROVE  /\ ReadAll(b) = {} /\ FreeFault(b) = {}
         /\ host[b].elem = e
         /\ \A lo \in Nat, hi \in 1 .. n : ReadFault(b, lo, hi, e) = {}
  <1>1. host[b].rows = n /\ host[b].elem = e /\ host[b].pages = 0 .. PageCount(n * e) - 1
    BY DEF Mapped
  <1>2. ASSUME NEW lo \in Nat, NEW hi \in 1 .. n PROVE ReadFault(b, lo, hi, e) = {}
    <2>1. PagesOf(lo, hi, e) \subseteq 0 .. PageCount(n * e) - 1
      <3>1. PICK q \in Nat : q = PagesBefore(lo, e, Page)
        BY PagesHeld
      <3>2. PagesOf(lo, hi, e) \subseteq q .. PageCount(n * e) - 1
        BY <3>1, PagesHeld
      <3>3. PageCount(n * e) \in Int
        BY SegmentAssumption DEF PageCount
      <3> QED
        BY <3>1, <3>2, <3>3
    <2> QED
      BY <1>1, <2>1 DEF ReadFault
  <1>3. n \in 1 .. n /\ 0 \in Nat
    OBVIOUS
  <1>4. ReadAll(b) = {}
    BY <1>1, <1>2, <1>3 DEF ReadAll
  <1>5. FreeFault(b) = {}
    BY <1>1 DEF FreeFault
  <1> QED
    BY <1>1, <1>2, <1>4, <1>5

(* So a stage may read or free any buffer that it finds.                   *)
LEMMA HostLive ==
  ASSUME HostHeld, frames \in Nat \ {0}, pc # "istft", NEW b \in DOMAIN host
  PROVE  /\ ReadAll(b) = {} /\ FreeFault(b) = {}
         /\ host[b] = Mapped(RowsOf(b), ElemOf(b)) /\ host[b].elem = ElemOf(b)
         /\ \A lo \in Nat, hi \in 1 .. RowsOf(b) : ReadFault(b, lo, hi, ElemOf(b)) = {}
  <1>1. host[b] = Mapped(RowsOf(b), ElemOf(b))
    BY DEF HostHeld
  <1> QED
    BY <1>1, Sizes, MappedLive

(* A table without some of its entries, and with one more.                 *)
LEMMA Tables ==
  ASSUME NEW table, NEW S, NEW b, NEW buffer
  PROVE  /\ DOMAIN Without(table, S) = DOMAIN table \ S
         /\ \A x \in DOMAIN table \ S : Without(table, S)[x] = table[x]
         /\ DOMAIN With(table, b, buffer) = DOMAIN table \cup {b}
         /\ With(table, b, buffer)[b] = buffer
         /\ \A x \in DOMAIN table : x # b => With(table, b, buffer)[x] = table[x]
  BY DEF Without, With, Restrict

(* The size of a buffer does not change while its width is not changed.    *)
LEMMA Kept ==
  ASSUME UNCHANGED <<mode, frames>>
  PROVE  /\ L0' = L0 /\ L1' = L1 /\ Carried' = Carried
         /\ \A b : b # "x" \/ (block <= 4 <=> block' <= 4) => RowsOf(b)' = RowsOf(b)
         /\ pc \notin Running /\ pc' \notin Running => \A b : ElemOf(b)' = ElemOf(b)
  <1>1. L1' = L1
    BY DEF L1
  <1>2. L0' = L0
    BY <1>1 DEF L0
  <1>3. Carried' = Carried
    BY DEF Carried
  <1> QED
    BY <1>1, <1>2, <1>3 DEF RowsOf, ElemOf

(* A step that leaves the pages alone.                                     *)
LEMMA HostKept ==
  ASSUME HostHeld, UNCHANGED <<mode, frames, host>>, block <= 4 <=> block' <= 4,
         pc \notin Running, pc' \notin Running,
         pc \notin {"idle", "istft"}, pc' \notin {"idle", "istft"}, Names' = Names
  PROVE  HostHeld'
  BY Kept DEF HostHeld

-----------------------------------------------------------------------------
(* One step for each action: text, durations, prosody, decoder.            *)

(* Another width is chosen while nothing is carried.                       *)
LEMMA StepSetCarry ==
  ASSUME IInv, SetCarry
  PROVE  IInv'
  <1> USE DEF IInv, SetCarry, stream
  <1>1. Place'
    BY DEF Place, Stages, Returns, Running
  <1>2. HostHeld'
    BY DEF HostHeld, Names, Returns, Running
  <1>3. Clean'
    BY DEF Clean, HeapNames, Returns, Running
  <1>4. Rows' /\ Samples'
    BY DEF Rows, Samples, Returns, Running
  <1> QED
    BY <1>1, <1>2, <1>3, <1>4

(* The style and the state of the LSTM are saved.                          *)
LEMMA StepStart ==
  ASSUME IInv, NEW durs \in Durations, Start(durs)
  PROVE  IInv'
  <1> USE DEF IInv, Start, stream
  <1>1. Place'
    BY DurationsAssumption DEF Place, Stages, Returns, Running
  <1>2. HostHeld'
    <2>1. pc' = "albert" /\ Names' = {"style_pr", "h0", "c0"}
      BY DEF Names, Returns, Running
    <2>2. \A b \in {"style_pr", "h0", "c0"} : RowsOf(b)' = 1 /\ ElemOf(b)' = 4
      BY DEF RowsOf, ElemOf, Plain
    <2> QED
      BY <2>1, <2>2 DEF HostHeld
  <1>3. Clean'
    BY DEF Clean, HeapNames, Returns, Running
  <1>4. Rows' /\ Samples'
    BY DEF Rows, Samples, Returns, Running
  <1> QED
    BY <1>1, <1>2, <1>3, <1>4

(* The encoder's resets spare the hidden state.                            *)
LEMMA StepLayer ==
  ASSUME IInv, Layer
  PROVE  IInv'
  <1> USE DEF IInv, Layer, stream
  <1>1. Place'
    BY DEF Place, Stages, Returns, Running
  <1>2. HostHeld'
    BY HostKept DEF Names, Returns, Running
  <1>3. Clean'
    BY DEF Clean, HeapNames, Returns, Running, Stale
  <1>4. Rows' /\ Samples'
    BY DEF Rows, Samples, Returns, Running
  <1> QED
    BY <1>1, <1>2, <1>3, <1>4

(* What was saved before the encoder is read and freed.                    *)
LEMMA StepTextStage ==
  ASSUME IInv, TextStage
  PROVE  IInv'
  <1> USE DEF IInv, TextStage, stream
  <1> DEFINE saved == {"style_pr", "h0", "c0"}
  <1>0. DOMAIN host = saved /\ pc = "albert" /\ pc' = "regulate"
    BY DEF HostHeld, Names, Returns, Running
  <1>1. Place'
    BY DEF Place, Stages, Returns, Running
  <1>2. HostHeld'
    <2>1. DOMAIN host' = {}
      BY <1>0 DEF Without, Restrict
    <2>2. Names' = {}
      BY <1>0 DEF Names, Returns, Running
    <2> QED
      BY <1>0, <2>1, <2>2 DEF HostHeld
  <1>3. Clean'
    <2>1. \A b \in saved : ReadAll(b) = {} /\ FreeFault(b) = {}
      BY <1>0, HostLive DEF Place
    <2>2. UNION {ReadAll(b) \cup FreeFault(b) : b \in saved} = {}
      BY <2>1
    <2>3. faults' = {}
      BY <2>2 DEF Clean, Stale
    <2> QED
      BY <2>3 DEF Clean, HeapNames, Returns, Running
  <1>4. Rows' /\ Samples'
    BY DEF Rows, Samples, Returns, Running
  <1> QED
    BY <1>1, <1>2, <1>3, <1>4

(* A stage of the heap finds what it reads and frees.                      *)
LEMMA StepStage ==
  ASSUME IInv, NEW here, NEW next, NEW reads, NEW fills, NEW frees,
         Stage(here, next, reads, fills, frees),
         here \in {"regulate", "front", "decoder"}, next \in {"front", "decoder", "noise"},
         reads \cup frees \subseteq HeapNames, HeapNames' = (HeapNames \cup fills) \ frees
  PROVE  IInv'
  <1> USE DEF IInv, Stage, stream
  <1>1. Place'
    BY DEF Place, Stages, Returns, Running
  <1>2. HostHeld'
    BY HostKept DEF Names, Returns, Running
  <1>3. Clean'
    BY DEF Clean, Gone
  <1>4. Rows' /\ Samples'
    BY DEF Rows, Samples, Returns, Running
  <1> QED
    BY <1>1, <1>2, <1>3, <1>4

(* Three stages hand buffers of the heap to each other.                    *)
LEMMA StepHeap ==
  ASSUME IInv, Regulate \/ GenFront \/ Decoder
  PROVE  IInv'
  <1>1. CASE Regulate
    <2>1. HeapNames = {"prosody", "text", "dur"} /\ HeapNames' = {"prosody_lr", "text_lr"}
      BY <1>1 DEF Regulate, Stage, HeapNames, Returns, Running
    <2> QED
      BY <1>1, <2>1, StepStage DEF Regulate
  <1>2. CASE GenFront
    <2>1. HeapNames = {"prosody_lr", "text_lr"} /\ HeapNames' = {"text_lr", "f0p", "np"}
      BY <1>2 DEF GenFront, Stage, HeapNames, Returns, Running
    <2> QED
      BY <1>2, <2>1, StepStage DEF GenFront
  <1>3. CASE Decoder
    <2>1. HeapNames = {"text_lr", "f0p", "np"} /\ HeapNames' = {"f0p", "dec"}
      BY <1>3 DEF Decoder, Stage, HeapNames, Returns, Running
    <2> QED
      BY <1>3, <2>1, StepStage DEF Decoder
  <1> QED
    BY <1>1, <1>2, <1>3

-----------------------------------------------------------------------------
(* The noise source.                                                       *)

(* Five buffers are saved before the noise source resets the arena.        *)
LEMMA StepNoiseStart ==
  ASSUME IInv, NoiseStart
  PROVE  IInv'
  <1> USE DEF IInv, NoiseStart, stream
  <1>0. DOMAIN host = {} /\ pc = "noise" /\ pc' = "singen"
    BY DEF HostHeld, Names, Returns, Running
  <1>1. Place'
    BY DEF Place, Stages, Returns, Running
  <1>2. HostHeld'
    <2>1. Names' = NoiseSaved
      BY <1>0 DEF Names, Returns, Running
    <2>2. \A b \in NoiseSaved : /\ ElemOf(b)' = 4
                                /\ RowsOf(b)' = IF b \in {"fpf", "ps", "f0"} THEN 2 * frames ELSE 1
      BY DEF RowsOf, ElemOf, Plain
    <2>3. host' = [b \in NoiseSaved |-> IF b \in {"fpf", "ps", "f0"} THEN Mapped(2 * frames, 4)
                                        ELSE Mapped(1, 4)]
      BY <1>0
    <2> QED
      BY <1>0, <2>1, <2>2, <2>3 DEF HostHeld
  <1>3. Clean'
    BY DEF Clean, HeapNames, Returns, Running, Gone
  <1>4. Rows' /\ Samples'
    BY DEF Rows, Samples, Returns, Running, Place
  <1> QED
    BY <1>1, <1>2, <1>3, <1>4

(* A segment of the harmonics reads what was saved of its rows.            *)
LEMMA StepSingenSegment ==
  ASSUME IInv, SingenSegment
  PROVE  IInv'
  <1> USE DEF IInv, SingenSegment, stream
  <1> DEFINE b == SegmentEnd(a, SegF, 2 * frames)
  <1>0. DOMAIN host = NoiseSaved /\ pc = "singen" /\ pc' = "singen" /\ frames \in Nat \ {0}
    BY DEF HostHeld, Names, Place, Returns, Running
  <1>1. b \in a + 1 .. 2 * frames /\ a \in Nat
    <2>1. a \in 0 .. 2 * frames - 1 /\ 2 * frames \in Nat /\ SegF \in Nat \ {0}
      BY <1>0, SegmentAssumption DEF Place
    <2> QED
      BY <2>1, SegmentAdvances
  <1>2. Place'
    BY <1>1 DEF Place, Stages, Returns, Running
  <1>3. HostHeld'
    BY HostKept DEF Names, Returns, Running
  <1>4. Clean'
    <2>1. ReadAll("sr") = {}
      BY <1>0, HostLive DEF NoiseSaved
    <2>2. \A x \in {"fpf", "ps", "f0"} : ReadFault(x, a, b, 4) = {}
      <3> SUFFICES ASSUME NEW x \in {"fpf", "ps", "f0"} PROVE ReadFault(x, a, b, 4) = {}
        OBVIOUS
      <3>1. RowsOf(x) = 2 * frames /\ ElemOf(x) = 4 /\ x \in DOMAIN host
        BY <1>0 DEF RowsOf, ElemOf, Plain, NoiseSaved
      <3>2. b \in 1 .. RowsOf(x)
        BY <1>1, <3>1
      <3> QED
        BY <1>0, <1>1, <3>1, <3>2, HostLive
    <2>3. faults' = {}
      <3>1. heap = {"f0p", "dec", "singen"} /\ faults = {}
        BY <1>0 DEF Clean, HeapNames, Returns, Running
      <3>2. UNION {ReadFault(x, a, b, 4) : x \in {"fpf", "ps", "f0"}} = {}
        BY <2>2
      <3> QED
        BY <2>1, <3>1, <3>2 DEF Gone
    <2> QED
      BY <2>3 DEF Clean, HeapNames, Returns, Running
  <1>5. Rows' /\ Samples'
    BY <1>1 DEF Rows, Samples, Returns, Running
  <1> QED
    BY <1>2, <1>3, <1>4, <1>5

(* The excitation replaces the harmonics.                                  *)
LEMMA StepExcite ==
  ASSUME IInv, Excite
  PROVE  IInv'
  <1> USE DEF IInv, Excite
  <1>0. pc = "singen" /\ pc' = "stft" /\ UNCHANGED <<mode, frames>> /\ frames \in Nat \ {0}
    BY DEF Place
  <1>1. Place'
    BY DEF Place, Stages, Returns, Running
  <1>2. HostHeld'
    BY HostKept DEF Names, Returns, Running
  <1>3. Clean'
    BY DEF Clean, HeapNames, Returns, Running, Gone
  <1>4. Rows' /\ Samples'
    <2>1. L1' = L1 /\ L1 \in Nat
      BY <1>0, Kept, Lengths
    <2> QED
      BY <2>1 DEF Rows, Samples, Returns, Running
  <1> QED
    BY <1>1, <1>2, <1>3, <1>4

(* What the six residual blocks are called with.                           *)
LEMMA AtBlock ==
  ASSUME block \in 1 .. 6
  PROVE  /\ block = 1 => /\ Name = "nr0" /\ Input = "nc0" /\ Return[block] = "nc1"
                         /\ Around[block] = NoiseSaved /\ L = L0 /\ Consume
                         /\ HeapAround[block] = {"f0p", "dec", "stft"}
         /\ block = 2 => /\ Name = "nr1" /\ Input = "nc1" /\ Return[block] = "noiseEnd"
                         /\ Around[block] = NoiseSaved \cup {"nr0"} /\ L = L1 /\ Consume
                         /\ HeapAround[block] = {"f0p", "dec"}
         /\ block = 3 => /\ Name = "r0" /\ Input = "x" /\ Return[block] = "r1"
                         /\ Around[block] = {"nr1", "p_sty"} /\ L = L0 /\ ~Consume
                         /\ HeapAround[block] = {}
         /\ block = 4 => /\ Name = "r1" /\ Input = "x" /\ Return[block] = "middle"
                         /\ Around[block] = {"nr1", "p_sty", "r0"} /\ L = L0 /\ Consume
                         /\ HeapAround[block] = {}
         /\ block = 5 => /\ Name = "r2" /\ Input = "x" /\ Return[block] = "r3"
                         /\ Around[block] = {"p_sty"} /\ L = L1 /\ ~Consume
                         /\ HeapAround[block] = {}
         /\ block = 6 => /\ Name = "r3" /\ Input = "x" /\ Return[block] = "tail"
                         /\ Around[block] = {"p_sty", "r2"} /\ L = L1 /\ Consume
                         /\ HeapAround[block] = {}
  <1> USE DEF Name, Input, Return, Around, Consume, HeapAround, L, Blocks, Inputs
  <1>1. CASE block = 1
    BY <1>1
  <1>2. CASE block = 2
    BY <1>2
  <1>3. CASE block = 3
    BY <1>3
  <1>4. CASE block = 4
    BY <1>4
  <1>5. CASE block = 5
    BY <1>5
  <1>6. CASE block = 6
    BY <1>6
  <1> QED
    BY <1>1, <1>2, <1>3, <1>4, <1>5, <1>6

(* Rows va .. vb - 1 are those of the whole signal, the others as before.  *)
Filled(before, after, va, vb) ==
  /\ DOMAIN after = DOMAIN before
  /\ \A v \in DOMAIN before \cap Nat : after[v] = IF v < va \/ v >= vb THEN before[v] ELSE 0

(* A segment of a strided convolution is right in all its rows.            *)
LEMMA SlicedExact ==
  ASSUME NEW rows, NEW va \in Nat, NEW vb \in Nat, va < vb,
         NEW K \in Nat \ {0}, NEW stride \in {1, 5, 6}, NEW pad \in Nat
  PROVE  Filled(rows, Sliced(rows, va, vb, K, stride, pad), va, vb)
  <1>1. DOMAIN Sliced(rows, va, vb, K, stride, pad) = DOMAIN rows
    BY DEF Sliced, FromSlice
  <1>2. ASSUME NEW v \in DOMAIN rows \cap Nat
        PROVE  Sliced(rows, va, vb, K, stride, pad)[v]
                 = IF v < va \/ v >= vb THEN rows[v] ELSE 0
    <2>1. CASE v < va \/ v >= vb
      BY <2>1, <1>2 DEF Sliced, FromSlice
    <2>2. CASE ~ (v < va \/ v >= vb)
      <3>1. PICK m \in Nat \ {0} : m = vb - va
        OBVIOUS
      <3>2. v \in va .. va + m - 1
        BY <2>2, <3>1
      <3>3. SliceGives(v, va, m, SliceRows(m, K, stride), K, stride, pad)
        BY <3>1, <3>2, SliceExact
      <3> QED
        BY <1>2, <2>2, <3>1, <3>3 DEF Sliced, FromSlice
    <2> QED
      BY <2>1, <2>2
  <1> QED
    BY <1>1, <1>2 DEF Filled

(* A segment of the transform.                                             *)
LEMMA StepStftSegment ==
  ASSUME IInv, StftSegment
  PROVE  IInv'
  <1> USE DEF IInv, StftSegment
  <1>0. pc = "stft" /\ pc' = "stft" /\ UNCHANGED <<mode, frames>> /\ frames \in Nat \ {0}
        /\ heap = {"f0p", "dec", "exc", "stft"}
    BY DEF Place, Clean, HeapNames, Returns, Running
  <1>1. L1 \in Nat \ {0} /\ L1' = L1
    BY <1>0, Kept, Lengths
  <1>2. SegmentEnd(a, SegU, L1) \in a + 1 .. L1 /\ a \in Nat
    <2>1. a \in 0 .. L1 - 1 /\ SegU \in Nat \ {0}
      BY <1>1, SegmentAssumption DEF Place
    <2> QED
      BY <1>1, <2>1, SegmentAdvances
  <1>3. Place'
    BY <1>2 DEF Place, Stages, Returns, Running
  <1>4. HostHeld'
    BY HostKept DEF Names, Returns, Running
  <1>5. Clean'
    BY <1>0 DEF Clean, HeapNames, Returns, Running, Gone
  <1>6. Rows' /\ Samples'
    <2>1. DOMAIN out' = DOMAIN out
      BY DEF Sliced, FromSlice
    <2> QED
      BY <1>0, <1>1, <1>2, <2>1 DEF Rows, Samples, Returns, Running
  <1> QED
    BY <1>3, <1>4, <1>5, <1>6

(* The pages of the first noise convolution are obtained ...               *)
LEMMA StepNc0Start ==
  ASSUME IInv, Nc0Start
  PROVE  IInv'
  <1> USE DEF IInv, Nc0Start, NcStart
  <1>0. /\ pc = "stft" /\ pc' = "nc" /\ block' = 1 /\ UNCHANGED <<mode, frames>>
        /\ frames \in Nat \ {0} /\ DOMAIN host = NoiseSaved
        /\ host' = With(host, "nc0", Carry(L0)) /\ heap = {"f0p", "dec", "exc", "stft"}
    BY DEF Place, HostHeld, Names, Returns, Running, Clean, HeapNames
  <1>1. L0 \in Nat \ {0} /\ L0' = L0
    BY <1>0, Kept, Lengths
  <1>2. Place'
    BY <1>0 DEF Place, Stages, Returns, Running
  <1>3. HostHeld'
    <2>1. Names' = NoiseSaved \cup {"nc0"}
      BY <1>0 DEF Names, Returns, Running, Around, Input, Inputs
    <2>2. DOMAIN host' = NoiseSaved \cup {"nc0"} /\ host'["nc0"] = Carry(L0)
          /\ \A b \in NoiseSaved : host'[b] = host[b]
      BY <1>0 DEF With, NoiseSaved
    <2>3. Carry(L0) = Mapped(RowsOf("nc0"), ElemOf("nc0"))'
      BY <1>0, <1>1, Kept
         DEF Carry, Mapped, PageCount, RowsOf, ElemOf, Plain, NoiseSaved, Carried, Running
    <2>4. \A b \in NoiseSaved : host'[b] = Mapped(RowsOf(b), ElemOf(b))'
      <3> SUFFICES ASSUME NEW b \in NoiseSaved PROVE host[b] = Mapped(RowsOf(b), ElemOf(b))'
        BY <2>2
      <3>1. RowsOf(b)' = RowsOf(b) /\ ElemOf(b)' = ElemOf(b)
        BY <1>0, Kept DEF Running, NoiseSaved
      <3>2. host[b] = Mapped(RowsOf(b), ElemOf(b))
        BY <1>0 DEF HostHeld
      <3> QED
        BY <3>1, <3>2 DEF Mapped, PageCount
    <2> QED
      BY <1>0, <2>1, <2>2, <2>3, <2>4 DEF HostHeld
  <1>4. Clean'
    BY <1>0 DEF Clean, HeapNames, Returns, Running
  <1>5. Rows' /\ Samples'
    BY <1>0, <1>1 DEF Rows, Samples, Returns, Running, NcLen
  <1> QED
    BY <1>2, <1>3, <1>4, <1>5

(* ... and those of the second, when the first block returned.             *)
LEMMA StepNc1Start ==
  ASSUME IInv, Nc1Start
  PROVE  IInv'
  <1> USE DEF IInv, Nc1Start, NcStart
  <1>0. /\ pc = "nc1" /\ pc' = "nc" /\ block' = 2 /\ UNCHANGED <<mode, frames>>
        /\ frames \in Nat \ {0} /\ block \in 1 .. 6 /\ Return[block] = "nc1"
        /\ host' = With(host, "nc1", Carry(L1))
    BY DEF Place, Returns, Running
  <1>1. block = 1 /\ Name = "nr0" /\ Around[block] = NoiseSaved /\ Consume
        /\ HeapAround[block] = {"f0p", "dec", "stft"}
    BY <1>0, AtBlock
  <1>2. DOMAIN host = NoiseSaved \cup {"nr0"} /\ heap = {"f0p", "dec", "stft"}
    BY <1>0, <1>1 DEF HostHeld, Names, Returns, Running, Clean, HeapNames, After
  <1>3. L1 \in Nat \ {0} /\ L1' = L1
    BY <1>0, Kept, Lengths
  <1>4. Place'
    BY <1>0 DEF Place, Stages, Returns, Running
  <1>5. HostHeld'
    <2>1. Names' = NoiseSaved \cup {"nr0", "nc1"}
      BY <1>0 DEF Names, Returns, Running, Around, Input, Inputs
    <2>2. DOMAIN host' = NoiseSaved \cup {"nr0", "nc1"} /\ host'["nc1"] = Carry(L1)
          /\ \A b \in NoiseSaved \cup {"nr0"} : host'[b] = host[b]
      BY <1>0, <1>2 DEF With, NoiseSaved
    <2>3. Carry(L1) = Mapped(RowsOf("nc1"), ElemOf("nc1"))'
      BY <1>0, <1>3, Kept
         DEF Carry, Mapped, PageCount, RowsOf, ElemOf, Plain, NoiseSaved, Carried, Running
    <2>4. \A b \in NoiseSaved \cup {"nr0"} : host'[b] = Mapped(RowsOf(b), ElemOf(b))'
      <3> SUFFICES ASSUME NEW b \in NoiseSaved \cup {"nr0"}
                   PROVE  host[b] = Mapped(RowsOf(b), ElemOf(b))'
        BY <2>2
      <3>1. RowsOf(b)' = RowsOf(b) /\ ElemOf(b)' = ElemOf(b)
        BY <1>0, Kept DEF Running, NoiseSaved
      <3>2. host[b] = Mapped(RowsOf(b), ElemOf(b))
        BY <1>0, <1>2 DEF HostHeld
      <3> QED
        BY <3>1, <3>2 DEF Mapped, PageCount
    <2> QED
      BY <1>0, <2>1, <2>2, <2>3, <2>4 DEF HostHeld
  <1>6. Clean'
    BY <1>0, <1>2 DEF Clean, HeapNames, Returns, Running
  <1>7. Rows' /\ Samples'
    BY <1>0, <1>3 DEF Rows, Samples, Returns, Running, NcLen
  <1> QED
    BY <1>4, <1>5, <1>6, <1>7

(* A segment of a noise convolution: its rows are those of the whole.      *)
LEMMA StepNcSegment ==
  ASSUME IInv, NcSegment
  PROVE  IInv'
  <1> USE DEF IInv, NcSegment
  <1> DEFINE b == SegmentEnd(a, SegV, NcLen)
  <1>0. /\ pc = "nc" /\ pc' = "nc" /\ block' = block /\ UNCHANGED <<mode, frames>>
        /\ frames \in Nat \ {0} /\ block \in {1, 2}
        /\ heap = {"f0p", "dec", "stft"} /\ NcName \in DOMAIN host
    BY DEF Place, Clean, HeapNames, HostHeld, Names, Returns, Running, NcName, Input, Inputs
  <1>1. NcLen \in Nat \ {0} /\ NcLen' = NcLen
    BY <1>0, Kept, Lengths DEF NcLen
  <1>2. b \in a + 1 .. NcLen /\ a \in Nat
    <2>1. a \in 0 .. NcLen - 1 /\ SegV \in Nat \ {0}
      BY <1>1, SegmentAssumption DEF Place
    <2> QED
      BY <1>1, <2>1, SegmentAdvances
  <1>3. Place'
    BY <1>0, <1>2 DEF Place, Stages, Returns, Running
  <1>4. HostHeld'
    BY <1>0, HostKept DEF Names, Returns, Running, Input
  <1>5. Clean'
    <2>1. RowsOf(NcName) = NcLen /\ ElemOf(NcName) = IF mode >= 1 THEN 2 ELSE 4
      BY <1>0 DEF RowsOf, ElemOf, Plain, NoiseSaved, NcName, NcLen, Carried, Running
    <2>2. b \in 1 .. RowsOf(NcName)
      BY <1>2, <2>1
    <2>3. ReadFault(NcName, a, b, IF mode >= 1 THEN 2 ELSE 4) = {}
      BY <1>0, <1>2, <2>1, <2>2, HostLive
    <2>4. faults' = {}
      BY <1>0, <2>3 DEF Clean, Gone
    <2> QED
      BY <1>0, <2>4 DEF Clean, HeapNames, Returns, Running
  <1>6. Rows'
    <2>1. DOMAIN out = 0 .. NcLen - 1 /\ \A v \in 0 .. a - 1 : out[v] = 0
      BY <1>0 DEF Rows
    <2>2. PICK K \in Nat \ {0}, stride \in {1, 5, 6}, pad \in Nat :
            out' = Sliced(out, a, b, K, stride, pad)
      <3>1. CASE block = 1
        BY <3>1, SegmentAssumption
      <3>2. CASE block = 2
        BY <3>2
      <3> QED
        BY <1>0, <3>1, <3>2
    <2>3. /\ DOMAIN out' = DOMAIN out
          /\ \A v \in DOMAIN out \cap Nat : out'[v] = IF v < a \/ v >= b THEN out[v] ELSE 0
      <3>1. a \in Nat /\ b \in Nat /\ a < b
        BY <1>1, <1>2
      <3> HIDE DEF b
      <3> QED
        <4>1. K \in Nat \ {0} /\ stride \in {1, 5, 6} /\ pad \in Nat
          BY <2>2
        <4>2. Filled(out, Sliced(out, a, b, K, stride, pad), a, b)
          BY <3>1, <4>1, SlicedExact
        <4> QED
          BY <2>2, <4>2 DEF Filled
    <2>4. \A v \in 0 .. b - 1 : out'[v] = 0
      BY <1>1, <1>2, <2>1, <2>3, SMTT(30)
    <2> QED
      BY <1>0, <1>1, <1>2, <2>1, <2>3, <2>4 DEF Rows, Returns, Running
  <1>7. Samples'
    BY <1>0 DEF Samples
  <1> QED
    BY <1>3, <1>4, <1>5, <1>6, <1>7

(* The convolution is done, a block runs next.                             *)
LEMMA StepNcEnd ==
  ASSUME IInv, NcEnd
  PROVE  IInv'
  <1> USE DEF IInv, NcEnd, stream
  <1>0. /\ pc = "nc" /\ pc' = "hifi" /\ block' = block /\ UNCHANGED <<mode, frames, out>>
        /\ frames \in Nat \ {0} /\ block \in {1, 2} /\ heap = {"f0p", "dec", "stft"}
        /\ "sty" \in DOMAIN host
    BY DEF Place, Clean, HeapNames, HostHeld, Names, Returns, Running, Around, NoiseSaved
  <1>1. Place'
    BY <1>0 DEF Place, Stages, Returns, Running
  <1>2. HostHeld'
    BY <1>0, HostKept DEF Names, Returns, Running, Input
  <1>3. Clean'
    <2>1. ReadAll("sty") = {}
      BY <1>0, HostLive
    <2>2. heap' = HeapAround[block]
      BY <1>0, AtBlock
    <2> QED
      BY <1>0, <2>1, <2>2 DEF Clean, HeapNames, Returns, Running
  <1>4. Rows' /\ Samples'
    <2>1. NcLen \in Nat /\ L = NcLen /\ NcLen = L'
      BY <1>0, Kept, Lengths, AtBlock DEF NcLen, L
    <2>2. DOMAIN out = 0 .. L - 1 /\ \A t \in 0 .. L - 1 : out[t] = 0
      BY <1>0, <2>1 DEF Rows
    <2> QED
      BY <1>0, <2>1, <2>2 DEF Rows, Samples, Returns, Running
  <1> QED
    BY <1>1, <1>2, <1>3, <1>4

-----------------------------------------------------------------------------
(* The residual blocks.                                                    *)

(* The buffers of a block are apart, and those it works on have L rows.    *)
LEMMA BlockFacts ==
  ASSUME block \in 1 .. 6, frames \in Nat \ {0}
  PROVE  /\ Name \notin Around[block] \cup Plain \cup {Input}
         /\ Input \notin Around[block] \cup Plain
         /\ "style" \notin Around[block]
         /\ RowsOf(Name) = L /\ RowsOf(Input) = L /\ RowsOf("style") = 1
         /\ L \in Nat \ {0}
         /\ Return[block] \in Returns
  <1> USE DEF Plain, NoiseSaved, RowsOf, Returns
  <1>1. CASE block = 1
    BY <1>1, AtBlock, Lengths
  <1>2. CASE block = 2
    BY <1>2, AtBlock, Lengths
  <1>3. CASE block = 3
    BY <1>3, AtBlock, Lengths
  <1>4. CASE block = 4
    BY <1>4, AtBlock, Lengths
  <1>5. CASE block = 5
    BY <1>5, AtBlock, Lengths
  <1>6. CASE block = 6
    BY <1>6, AtBlock, Lengths
  <1> QED
    BY <1>1, <1>2, <1>3, <1>4, <1>5, <1>6

(* What a step of a block does not change.                                 *)
LEMMA BlockKept ==
  ASSUME UNCHANGED <<mode, frames, block>>
  PROVE  /\ Name' = Name /\ Input' = Input /\ L' = L /\ Elem' = Elem /\ Carried' = Carried
         /\ (Consume <=> Consume') /\ (Small <=> Small') /\ After' = After
         /\ \A b : RowsOf(b)' = RowsOf(b)
         /\ \A n, e : Mapped(n, e)' = Mapped(n, e)
  <1>1. L0' = L0 /\ L1' = L1 /\ Carried' = Carried /\ \A b : RowsOf(b)' = RowsOf(b)
    BY Kept
  <1>2. Name' = Name /\ Input' = Input /\ Elem' = Elem /\ L' = L
    BY <1>1 DEF Name, Input, Elem, L
  <1>3. (Consume <=> Consume') /\ (Small <=> Small')
    BY <1>2 DEF Consume, Small
  <1>4. After' = After
    BY <1>2, <1>3 DEF After
  <1>5. \A n, e : Mapped(n, e)' = Mapped(n, e)
    BY DEF Mapped, PageCount
  <1> QED
    BY <1>1, <1>2, <1>3, <1>4, <1>5

(* A short signal goes through a block at once.                            *)
LEMMA StepHifiSmall ==
  ASSUME IInv, HifiSmall
  PROVE  IInv'
  <1> USE DEF IInv, HifiSmall
  <1>0. /\ pc = "hifi" /\ pc' = Return[block] /\ UNCHANGED <<mode, frames, block, heap>>
        /\ frames \in Nat \ {0} /\ block \in 1 .. 6 /\ pc' \in Returns
        /\ DOMAIN host = Around[block] \cup {Input}
    <2>1. pc = "hifi" /\ frames \in Nat \ {0} /\ block \in 1 .. 6
      BY DEF Place
    <2> QED
      BY <2>1, BlockFacts DEF HostHeld, Names, Returns, Running
  <1>1. Place'
    BY <1>0 DEF Place, Stages, Returns, Running
  <1>2. HostHeld'
    <2>1. Names' = After
      BY <1>0, BlockKept DEF Names, Returns, Running
    <2> DEFINE left == IF Consume THEN Without(host, {Input}) ELSE host
    <2>2. host' = With(left, Name, Carry(L))
      OBVIOUS
    <2>3. /\ DOMAIN left = Around[block] \cup (IF Consume THEN {} ELSE {Input})
          /\ \A b \in DOMAIN left : b \in DOMAIN host /\ left[b] = host[b]
      BY <1>0, BlockFacts DEF Without, Restrict
    <2> HIDE DEF left
    <2>4. /\ DOMAIN host' = DOMAIN left \cup {Name}
          /\ host'[Name] = Mapped(L, Carried)
          /\ \A b \in DOMAIN left : b # Name => host'[b] = left[b]
      BY <2>2 DEF With, Carry, Carried
    <2>5. DOMAIN host' = After
      BY <2>3, <2>4 DEF After
    <2>6. \A b \in DOMAIN host : host[b] = Mapped(RowsOf(b), ElemOf(b))
      BY <1>0 DEF HostHeld
    <2>7. Name \notin Plain
      BY <1>0, BlockFacts
    <2>8. ASSUME NEW b \in After
          PROVE  host'[b] = Mapped(RowsOf(b), ElemOf(b))'
      <3>1. Mapped(RowsOf(b), ElemOf(b))' = Mapped(RowsOf(b), ElemOf(b)')
        BY <1>0, BlockKept DEF Mapped, PageCount
      <3>2. CASE b = Name
        <4>1. ElemOf(b)' = Carried /\ RowsOf(b) = L
          BY <1>0, <2>7, <3>2, BlockKept, BlockFacts DEF ElemOf, Returns, Running
        <4> QED
          BY <3>1, <3>2, <4>1, <2>4
      <3>3. CASE b # Name
        <4>1. ElemOf(b)' = ElemOf(b)
          BY <1>0, <3>3, BlockKept DEF ElemOf, Returns, Running
        <4>2. b \in DOMAIN left
          BY <3>3, <2>3 DEF After
        <4> QED
          BY <3>1, <3>3, <4>1, <4>2, <2>6, <2>3, <2>4
      <3> QED
        BY <3>2, <3>3
    <2> QED
      BY <1>0, <2>1, <2>5, <2>8 DEF HostHeld, Returns
  <1>3. Clean'
    <2>1. ReadAll(Input) = {} /\ FreeFault(Input) = {}
      BY <1>0, HostLive
    <2>2. faults' = {}
      BY <1>0, <2>1 DEF Clean, Stale
    <2>3. heap' = HeapAround[block]
      BY <1>0 DEF Clean, HeapNames, Returns, Running
    <2> QED
      BY <1>0, <2>2, <2>3 DEF Clean, HeapNames, Returns, Running
  <1>4. Rows' /\ Samples'
    <2>1. L \in Nat \ {0} /\ L' = L
      BY <1>0, BlockFacts, BlockKept
    <2>2. DOMAIN out = 0 .. L - 1 /\ \A t \in 0 .. L - 1 : out[t] = 0
      BY <1>0 DEF Rows
    <2> QED
      BY <1>0, <2>1, <2>2 DEF Rows, Samples, Returns, Running
  <1> QED
    BY <1>1, <1>2, <1>3, <1>4

(* A long one takes over its input's pages, or gets pages of its own.      *)
LEMMA StepHifiStart ==
  ASSUME IInv, HifiStart
  PROVE  IInv'
  <1> USE DEF IInv, HifiStart
  <1>0. /\ pc = "hifi" /\ pc' = "first" /\ UNCHANGED <<mode, frames, block>>
        /\ frames \in Nat \ {0} /\ block \in 1 .. 6
        /\ DOMAIN host = Around[block] \cup {Input}
    BY DEF Place, HostHeld, Names, Returns, Running
  <1>1. Place'
    BY <1>0, BlockKept DEF Place, Stages, Returns, Running
  <1>2. \A b \in DOMAIN host : host[b] = Mapped(RowsOf(b), ElemOf(b))
    BY <1>0 DEF HostHeld
  <1>3. HostHeld'
    <2> DEFINE left == IF Consume \/ Owns THEN Without(host, {Input}) ELSE host
               new  == IF Owns THEN host[Input] ELSE Mapped(L, Elem)
    <2>1. new = Mapped(L, Elem)
      <3>1. RowsOf(Input) = L /\ host[Input] = Mapped(L, ElemOf(Input))
        BY <1>0, <1>2, BlockFacts
      <3>2. host[Input].elem = ElemOf(Input)
        BY <3>1 DEF Mapped
      <3> QED
        BY <3>1, <3>2 DEF Owns
    <2>2. host' = With(With(left, Name, new), "style", Mapped(1, 4))
      OBVIOUS
    <2>3. /\ DOMAIN left = Around[block] \cup (IF Consume THEN {} ELSE {Input})
          /\ \A b \in DOMAIN left : b \in DOMAIN host /\ left[b] = host[b]
      BY <1>0, BlockFacts DEF Owns, Without, Restrict
    <2> HIDE DEF left, new
    <2>4. /\ DOMAIN host' = DOMAIN left \cup {Name, "style"}
          /\ host'["style"] = Mapped(1, 4)
          /\ Name # "style" => host'[Name] = Mapped(L, Elem)
          /\ \A b \in DOMAIN left : b \notin {Name, "style"} => host'[b] = left[b]
      BY <2>1, <2>2 DEF With
    <2>5. DOMAIN host' = After \cup {"style"}
      BY <2>3, <2>4 DEF After
    <2>6. Names' = After \cup {"style"}
      BY <1>0, BlockKept DEF Names, Returns, Running
    <2>7. Name # "style" /\ Name \notin Plain
      BY <1>0, BlockFacts DEF Plain
    <2>8. ASSUME NEW b \in After \cup {"style"}
          PROVE  host'[b] = Mapped(RowsOf(b), ElemOf(b))'
      <3>1. Mapped(RowsOf(b), ElemOf(b))' = Mapped(RowsOf(b), ElemOf(b)')
        BY <1>0, BlockKept DEF Mapped, PageCount
      <3>2. CASE b = Name
        <4>1. ElemOf(b)' = Elem /\ RowsOf(b) = L
          BY <1>0, <2>7, <3>2, BlockKept, BlockFacts DEF ElemOf, Running
        <4> QED
          BY <3>1, <3>2, <4>1, <2>4, <2>7
      <3>3. CASE b = "style"
        <4>1. ElemOf(b)' = 4 /\ RowsOf(b) = 1
          BY <3>3 DEF ElemOf, RowsOf, Plain, NoiseSaved
        <4> QED
          BY <3>1, <3>3, <4>1, <2>4
      <3>4. CASE b \notin {Name, "style"}
        <4>1. ElemOf(b)' = ElemOf(b)
          BY <1>0, <3>4, BlockKept DEF ElemOf, Running
        <4>2. b \in DOMAIN left
          BY <3>4, <2>3 DEF After
        <4> QED
          BY <3>1, <3>4, <4>1, <4>2, <1>2, <2>3, <2>4
      <3> QED
        BY <3>2, <3>3, <3>4
    <2> QED
      BY <1>0, <2>5, <2>6, <2>8 DEF HostHeld
  <1>4. Clean'
    <2>1. ReadAll(Input) = {} /\ FreeFault(Input) = {}
      BY <1>0, HostLive
    <2>2. faults' = {}
      BY <1>0, <2>1 DEF Clean, Stale
    <2>3. heap' = HeapAround[block] \cup {"h3"}
      BY <1>0 DEF Clean, HeapNames, Returns, Running
    <2> QED
      BY <1>0, <2>2, <2>3 DEF Clean, HeapNames, Returns, Running
  <1>5. Rows' /\ Samples'
    <2>1. L \in Nat \ {0} /\ L' = L
      BY <1>0, BlockFacts, BlockKept
    <2>2. DOMAIN out = 0 .. L - 1 /\ \A t \in 0 .. L - 1 : out[t] = 0
      BY <1>0 DEF Rows
    <2>3. stats' = 0
      BY <2>1, <2>2 DEF VersionOf
    <2> QED
      BY <1>0, <2>1, <2>2, <2>3 DEF Rows, Samples, Returns, Running
  <1> QED
    BY <1>1, <1>3, <1>4, <1>5

(* Where a pass over a residual block is.                                  *)
LEMMA InPass ==
  ASSUME IInv, pc \in Running
  PROVE  /\ frames \in Nat \ {0} /\ block \in 1 .. 6 /\ pc # "istft" /\ pc # "idle"
         /\ pc \notin Returns /\ k \in 0 .. 2 /\ a \in 0 .. L /\ L \in Nat \ {0}
         /\ DOMAIN host = After \cup {"style"} /\ faults = {}
         /\ heap = HeapAround[block] \cup {"h3"}
         /\ DOMAIN out = 0 .. L - 1 /\ DOMAIN h3 = 0 .. L - 1 /\ stats = k
         /\ RowsOf(Name) = L /\ ElemOf(Name) = Elem /\ Name \in DOMAIN host /\ Elem \in {2, 4}
  <1>1. /\ frames \in Nat \ {0} /\ block \in 1 .. 6 /\ pc # "istft" /\ pc # "idle"
        /\ pc \notin Returns /\ k \in 0 .. 2
    BY DEF IInv, Place, Running, Returns
  <1>2. L \in Nat \ {0} /\ RowsOf(Name) = L /\ Name \notin Plain
    BY <1>1, BlockFacts
  <1>3. DOMAIN host = After \cup {"style"}
    BY DEF IInv, HostHeld, Names, Running, Returns
  <1>4. faults = {} /\ heap = HeapAround[block] \cup {"h3"}
    BY DEF IInv, Clean, HeapNames, Running, Returns
  <1>5. DOMAIN out = 0 .. L - 1 /\ DOMAIN h3 = 0 .. L - 1 /\ stats = k /\ a \in 0 .. L
    BY <1>2 DEF IInv, Rows, Place
  <1>6. ElemOf(Name) = Elem /\ Name \in DOMAIN host /\ Elem \in {2, 4}
    BY <1>2, <1>3 DEF ElemOf, After, Elem
  <1> QED
    BY <1>1, <1>2, <1>3, <1>4, <1>5, <1>6

(* A pass leaves what is mapped and what is allocated alone.               *)
LEMMA PassKept ==
  ASSUME IInv, pc \in Running, pc' \in Running,
         UNCHANGED <<mode, frames, block, host, heap>>, faults' = {}
  PROVE  HostHeld' /\ Clean'
  <1>1. Names' = Names
    BY BlockKept DEF Names, Running, Returns
  <1>2. \A b : ElemOf(b)' = ElemOf(b) /\ RowsOf(b)' = RowsOf(b)
               /\ Mapped(RowsOf(b), ElemOf(b))' = Mapped(RowsOf(b)', ElemOf(b)')
    BY BlockKept DEF ElemOf, Mapped, PageCount
  <1>3. HostHeld'
    BY <1>1, <1>2 DEF IInv, HostHeld, Running
  <1>4. Clean'
    BY DEF IInv, Clean, HeapNames, Running, Returns
  <1> QED
    BY <1>3, <1>4

(* A segment of a pass reads what is there.                                *)
LEMMA PassReads ==
  ASSUME IInv, pc \in Running, a < L
  PROVE  /\ SegmentEnd(a, SegL, L) \in a + 1 .. L
         /\ HifiFault(SegmentEnd(a, SegL, L)) = {}
  <1> DEFINE b == SegmentEnd(a, SegL, L)
  <1>1. b \in a + 1 .. L /\ a \in Nat
    <2>1. a \in 0 .. L - 1 /\ SegL \in Nat \ {0} /\ L \in Nat
      <3>1. SegL \in Nat \ {0}
        BY SegmentAssumption
      <3> QED
        BY <3>1, InPass
    <2> QED
      BY <2>1, SegmentAdvances
  <1>2. Overlap \in Nat
    BY SegmentAssumption
  <1>3. Back(a, Overlap) \in Nat /\ Ahead(b, Overlap, L) \in 1 .. L
    BY <1>1, <1>2, InPass DEF Back, Ahead
  <1>4. ReadFault(Name, Back(a, Overlap), Ahead(b, Overlap, L), Elem) = {}
    BY <1>3, InPass, HostLive DEF IInv
  <1>5. ReadAll("style") = {}
    BY InPass, HostLive DEF IInv
  <1>6. Gone({"h3"}) = {}
    BY InPass DEF Gone
  <1> QED
    BY <1>1, <1>4, <1>5, <1>6 DEF HifiFault

(* Every row of a segment is right if the rows it is computed from are.    *)
LEMMA PassRight ==
  ASSUME IInv, pc \in Running, a < L, NEW reach \in 0 .. Overlap, NEW rows,
         \A i \in 0 .. L - 1 : rows[i] = k,
         NEW t \in a .. SegmentEnd(a, SegL, L) - 1
  PROVE  Convolved(rows, t, SegmentEnd(a, SegL, L), reach) = k
  <1>1. a \in 0 .. L - 1 /\ SegL \in Nat \ {0} /\ L \in Nat /\ Overlap \in Nat
    <2>1. SegL \in Nat \ {0} /\ Overlap \in Nat
      BY SegmentAssumption
    <2> QED
      BY <2>1, InPass
  <1>2. InWindow(t, SegmentEnd(a, SegL, L), reach)
    BY <1>1, HifiWindow DEF InWindow
  <1>3. \A i \in Near(t, reach, L) : i \in 0 .. L - 1
    <2>1. t \in Int
      BY <1>1, PassReads
    <2> QED
      BY <1>1, <2>1 DEF Near
  <1>4. stats = k
    BY InPass
  <1> QED
    BY <1>2, <1>3, <1>4 DEF Convolved

(* The first pass reads rows that this turn did not touch.                 *)
LEMMA StepHifiFirst ==
  ASSUME IInv, HifiFirst
  PROVE  IInv'
  <1> DEFINE b == SegmentEnd(a, SegL, L)
  <1>0. /\ pc = "first" /\ pc' = "first" /\ UNCHANGED <<mode, frames, block, k, host, heap>>
        /\ pc \in Running /\ a < L /\ a' = b /\ UNCHANGED <<out, stats, retired, samples>>
    BY DEF HifiFirst, Running
  <1>1. b \in a + 1 .. L /\ HifiFault(b) = {}
    BY <1>0, PassReads
  <1>2. faults' = {}
    BY <1>0, <1>1, InPass DEF HifiFirst
  <1>3. Place'
    BY <1>0, <1>1, InPass, BlockKept DEF IInv, Place, Stages, Returns, Running
  <1>4. HostHeld' /\ Clean'
    BY <1>0, <1>2, PassKept
  <1>5. Rows' /\ Samples'
    <2>1. /\ L' = L /\ a \in Nat /\ L \in Nat /\ DOMAIN h3 = 0 .. L - 1 /\ k \in 0 .. 2
          /\ stats = k /\ DOMAIN out = 0 .. L - 1
      BY <1>0, InPass, BlockKept
    <2>2. (\A t \in 0 .. L - 1 : out[t] = k) /\ \A t \in 0 .. a - 1 : h3[t] = k
      BY <1>0 DEF IInv, Rows
    <2>3. Reach1[k + 1] \in 0 .. Overlap
      <3>1. k + 1 \in 1 .. 3
        BY <2>1
      <3> QED
        BY <3>1, SegmentAssumption
    <2>4. \A t \in a .. b - 1 : Convolved(out, t, b, Reach1[k + 1]) = k
      BY <1>0, <2>2, <2>3, PassRight
    <2>5. h3' = [t \in DOMAIN h3 |-> IF a <= t /\ t < b
                                     THEN Convolved(out, t, b, Reach1[k + 1]) ELSE h3[t]]
      BY DEF HifiFirst
    <2> HIDE DEF b
    <2>6. DOMAIN h3' = 0 .. L - 1 /\ \A t \in 0 .. b - 1 : h3'[t] = k
      BY <1>1, <2>1, <2>2, <2>4, <2>5
    <2> QED
      BY <1>0, <1>1, <2>1, <2>2, <2>6 DEF Rows, Samples, Returns, Running
  <1> QED
    BY <1>3, <1>4, <1>5 DEF IInv

(* The deviation for the second pass is that of the first one's rows.      *)
LEMMA StepHifiMiddle ==
  ASSUME IInv, HifiMiddle
  PROVE  IInv'
  <1>0. /\ pc = "first" /\ pc' = "second" /\ UNCHANGED <<mode, frames, block, k, host, heap>>
        /\ pc \in Running /\ pc' \in Running /\ a = L /\ a' = 0 /\ stats' = VersionOf(h3)
        /\ UNCHANGED <<out, h3, retired, samples, faults>>
    BY DEF HifiMiddle, Running
  <1>1. Place'
    BY <1>0, InPass, BlockKept DEF IInv, Place, Stages, Returns, Running
  <1>2. HostHeld' /\ Clean'
    BY <1>0, InPass, PassKept
  <1>3. Rows' /\ Samples'
    <2>1. /\ L' = L /\ L \in Nat \ {0} /\ DOMAIN h3 = 0 .. L - 1 /\ DOMAIN out = 0 .. L - 1
          /\ k \in 0 .. 2
      BY <1>0, InPass, BlockKept
    <2>2. \A t \in 0 .. L - 1 : out[t] = k /\ h3[t] = k
      BY <1>0 DEF IInv, Rows
    <2>3. stats' = k
      BY <1>0, <2>1, <2>2 DEF VersionOf
    <2> QED
      BY <1>0, <2>1, <2>2, <2>3 DEF Rows, Samples, Returns, Running
  <1> QED
    BY <1>1, <1>2, <1>3 DEF IInv

(* The second pass updates in place, from rows of the first.               *)
LEMMA StepHifiSecond ==
  ASSUME IInv, HifiSecond
  PROVE  IInv'
  <1> DEFINE b == SegmentEnd(a, SegL, L)
  <1>0. /\ pc = "second" /\ pc' = "second" /\ UNCHANGED <<mode, frames, block, k, host, heap>>
        /\ pc \in Running /\ a < L /\ a' = b /\ UNCHANGED <<h3, stats, retired, samples>>
    BY DEF HifiSecond, Running
  <1>1. b \in a + 1 .. L /\ HifiFault(b) = {}
    BY <1>0, PassReads
  <1>2. faults' = {}
    BY <1>0, <1>1, InPass DEF HifiSecond
  <1>3. Place'
    BY <1>0, <1>1, InPass, BlockKept DEF IInv, Place, Stages, Returns, Running
  <1>4. HostHeld' /\ Clean'
    BY <1>0, <1>2, PassKept
  <1>5. Rows' /\ Samples'
    <2>1. /\ L' = L /\ a \in Nat /\ L \in Nat /\ DOMAIN h3 = 0 .. L - 1 /\ k \in 0 .. 2
          /\ stats = k /\ DOMAIN out = 0 .. L - 1
      BY <1>0, InPass, BlockKept
    <2>2. /\ \A t \in 0 .. L - 1 : h3[t] = k
          /\ \A t \in 0 .. L - 1 : out[t] = IF t < a THEN k + 1 ELSE k
      BY <1>0 DEF IInv, Rows
    <2>3. Reach2 \in 0 .. Overlap
      BY SegmentAssumption
    <2>4. \A t \in a .. b - 1 : Convolved(h3, t, b, Reach2) = k
      BY <1>0, <2>2, <2>3, PassRight
    <2>5. out' = [t \in DOMAIN out |->
                    IF a <= t /\ t < b
                    THEN IF out[t] = k /\ Convolved(h3, t, b, Reach2) = k
                         THEN k + 1 ELSE Wrong
                    ELSE out[t]]
      BY DEF HifiSecond
    <2> HIDE DEF b
    <2>6. DOMAIN out' = 0 .. L - 1
          /\ \A t \in 0 .. L - 1 : out'[t] = IF t < b THEN k + 1 ELSE k
      BY <1>1, <2>1, <2>2, <2>4, <2>5
    <2> QED
      BY <1>0, <1>1, <2>1, <2>2, <2>6 DEF Rows, Samples, Returns, Running
  <1> QED
    BY <1>3, <1>4, <1>5 DEF IInv

(* Every row was updated before the next dilation.                         *)
LEMMA StepHifiNext ==
  ASSUME IInv, HifiNext
  PROVE  IInv'
  <1>0. /\ pc = "second" /\ pc' = "first" /\ UNCHANGED <<mode, frames, block, host, heap>>
        /\ pc \in Running /\ pc' \in Running /\ a = L /\ a' = 0 /\ stats' = VersionOf(out)
        /\ UNCHANGED <<out, h3, retired, samples, faults>> /\ k < 2 /\ k' = k + 1
    BY DEF HifiNext, Running
  <1>1. Place'
    BY <1>0, InPass, BlockKept DEF IInv, Place, Stages, Returns, Running
  <1>2. HostHeld' /\ Clean'
    BY <1>0, InPass, PassKept
  <1>3. Rows' /\ Samples'
    <2>1. /\ L' = L /\ L \in Nat \ {0} /\ DOMAIN h3 = 0 .. L - 1 /\ DOMAIN out = 0 .. L - 1
          /\ k \in 0 .. 2
      BY <1>0, InPass, BlockKept
    <2>2. \A t \in 0 .. L - 1 : out[t] = IF t < a THEN k + 1 ELSE k
      BY <1>0 DEF IInv, Rows
    <2>3. \A t \in 0 .. L - 1 : out[t] = k + 1
      BY <1>0, <2>1, <2>2
    <2>4. stats' = k + 1
      BY <1>0, <2>1, <2>3 DEF VersionOf
    <2> QED
      BY <1>0, <2>1, <2>3, <2>4 DEF Rows, Samples, Returns, Running
  <1> QED
    BY <1>1, <1>2, <1>3 DEF IInv

(* The pages are halved if the output is to be carried as fp16.            *)
LEMMA StepHifiEnd ==
  ASSUME IInv, HifiEnd
  PROVE  IInv'
  <1>0. /\ pc = "second" /\ pc' = Return[block] /\ UNCHANGED <<mode, frames, block>>
        /\ pc \in Running /\ a = L /\ k = 2 /\ UNCHANGED <<a, k, out, retired, samples>>
        /\ host' = With(Without(host, {"style"}), Name, Compress(host[Name]))
    BY DEF HifiEnd, Running, stream
  <1>1. pc' \in Returns /\ block \in 1 .. 6 /\ frames \in Nat \ {0}
    BY <1>0, InPass, BlockFacts
  <1>2. Place'
    BY <1>0, <1>1, InPass DEF IInv, Place, Stages, Returns, Running
  <1>3. HostHeld'
    <2>1. Names' = After
      BY <1>0, <1>1, BlockKept DEF Names, Returns, Running
    <2>2. \A b \in DOMAIN host : host[b] = Mapped(RowsOf(b), ElemOf(b))
      BY <1>0, InPass DEF IInv, HostHeld
    <2>3. Name # "style" /\ Name \notin Plain /\ "style" \notin After
      BY <1>1, BlockFacts DEF Plain, After
    <2>4. Compress(host[Name]) = Mapped(L, Carried)
      <3>1. host[Name] = Mapped(L, Elem)
        BY <1>0, <2>2, InPass
      <3> QED
        BY <1>0, <3>1, InPass, CompressMapped DEF IInv, Place
    <2>5. /\ DOMAIN host' = (DOMAIN host \ {"style"}) \cup {Name}
          /\ host'[Name] = Mapped(L, Carried)
          /\ \A b \in DOMAIN host \ {"style"} : b # Name => host'[b] = host[b]
      BY <1>0, <2>4 DEF With, Without, Restrict
    <2>6. DOMAIN host = After \cup {"style"} /\ Name \in After
      BY <1>0, InPass DEF After
    <2>7. DOMAIN host' = After
      BY <2>3, <2>5, <2>6
    <2>8. ASSUME NEW b \in After
          PROVE  host'[b] = Mapped(RowsOf(b), ElemOf(b))'
      <3>1. Mapped(RowsOf(b), ElemOf(b))' = Mapped(RowsOf(b), ElemOf(b)')
        BY <1>0, BlockKept DEF Mapped, PageCount
      <3>2. CASE b = Name
        <4>1. ElemOf(b)' = Carried /\ RowsOf(b) = L
          BY <1>0, <1>1, <2>3, <3>2, BlockKept, BlockFacts DEF ElemOf, Returns, Running
        <4> QED
          BY <3>1, <3>2, <4>1, <2>5
      <3>3. CASE b # Name
        <4>1. ElemOf(b)' = ElemOf(b)
          BY <1>0, <1>1, <3>3, BlockKept DEF ElemOf, Returns, Running
        <4>2. host'[b] = host[b] /\ b \in DOMAIN host
          BY <2>3, <2>5, <2>6, <3>3
        <4> QED
          BY <3>1, <4>1, <4>2, <2>2
      <3> QED
        BY <3>2, <3>3
    <2> QED
      BY <1>1, <2>1, <2>7, <2>8 DEF HostHeld, Returns
  <1>4. Clean'
    <2>1. FreeFault("style") = {}
      BY <1>0, InPass, HostLive DEF IInv
    <2>2. heap = HeapAround[block] \cup {"h3"} /\ faults = {}
      BY <1>0, InPass
    <2>3. faults' = {}
      BY <2>1, <2>2 DEF HifiEnd, Gone
    <2>4. "h3" \notin HeapAround[block]
      BY <1>1, AtBlock
    <2>5. heap' = HeapAround[block]
      BY <2>2, <2>4 DEF HifiEnd
    <2> QED
      BY <1>0, <1>1, <2>3, <2>5 DEF Clean, HeapNames, Returns, Running
  <1>5. Rows' /\ Samples'
    <2>1. L' = L /\ L \in Nat /\ DOMAIN out = 0 .. L - 1
      BY <1>0, InPass, BlockKept
    <2>2. \A t \in 0 .. L - 1 : out[t] = IF t < a THEN k + 1 ELSE k
      BY <1>0 DEF IInv, Rows
    <2>3. \A t \in 0 .. L - 1 : out[t] = 3
      BY <1>0, <2>1, <2>2
    <2> QED
      BY <1>0, <1>1, <2>1, <2>3 DEF Rows, Samples, Returns, Running
  <1> QED
    BY <1>2, <1>3, <1>4, <1>5 DEF IInv

-----------------------------------------------------------------------------
(* build_generator() and the last stage.                                   *)

(* Where a block that returned returns to.                                 *)
LEMMA AtReturn ==
  ASSUME IInv, pc \in Returns
  PROVE  /\ frames \in Nat \ {0} /\ block \in 1 .. 6 /\ faults = {} /\ DOMAIN host = After
         /\ heap = HeapAround[block] /\ DOMAIN out = 0 .. L - 1
         /\ pc = "noiseEnd" => block = 2
         /\ pc = "r1" => block = 3
         /\ pc = "middle" => block = 4
         /\ pc = "r3" => block = 5
         /\ pc = "tail" => block = 6
  <1>1. frames \in Nat \ {0} /\ block \in 1 .. 6 /\ faults = {} /\ pc = Return[block]
    BY DEF IInv, Place, Clean, Returns
  <1>2. DOMAIN host = After
    BY DEF IInv, HostHeld, Names, Returns, Running
  <1>3. heap = HeapAround[block] /\ DOMAIN out = 0 .. L - 1
    BY DEF IInv, Clean, HeapNames, Rows, Returns, Running
  <1> QED
    BY <1>1, <1>2, <1>3, AtBlock

(* Buffers that are there are read and freed.                              *)
LEMMA Dropped ==
  ASSUME IInv, frames \in Nat \ {0}, pc # "istft", NEW S, S \subseteq DOMAIN host
  PROVE  Drop(S) = {} /\ UNION {FreeFault(b) : b \in S} = {}
  <1>1. \A b \in S : ReadAll(b) = {} /\ FreeFault(b) = {}
    BY HostLive DEF IInv
  <1> QED
    BY <1>1 DEF Drop

(* What the noise source saved is read and freed.                          *)
LEMMA StepNoiseEnd ==
  ASSUME IInv, NoiseEnd
  PROVE  IInv'
  <1>0. /\ pc = "noiseEnd" /\ pc' = "generator" /\ pc \in Returns /\ frames \in Nat \ {0}
        /\ UNCHANGED <<mode, frames, block>> /\ block = 2
        /\ heap = {"f0p", "dec"} /\ faults = {}
        /\ DOMAIN host = NoiseSaved \cup {"nr0", "nr1"}
    <2>1. /\ pc = "noiseEnd" /\ pc' = "generator" /\ pc \in Returns
          /\ UNCHANGED <<mode, frames, block>>
      BY DEF NoiseEnd, Returns
    <2> QED
      BY <2>1, AtReturn, AtBlock DEF After
  <1>1. Place'
    BY <1>0 DEF NoiseEnd, stream, IInv, Place, Stages, Returns, Running
  <1>2. HostHeld'
    <2>1. Names' = {"nr0", "nr1"}
      BY <1>0 DEF Names, Returns, Running
    <2>2. DOMAIN host' = {"nr0", "nr1"} /\ \A b \in {"nr0", "nr1"} : host'[b] = host[b]
      BY <1>0 DEF NoiseEnd, Without, Restrict, NoiseSaved
    <2>3. \A b \in {"nr0", "nr1"} : host[b] = Mapped(RowsOf(b), ElemOf(b))
      BY <1>0 DEF IInv, HostHeld
    <2>4. \A b : /\ RowsOf(b)' = RowsOf(b) /\ ElemOf(b)' = ElemOf(b)
                 /\ Mapped(RowsOf(b), ElemOf(b))' = Mapped(RowsOf(b)', ElemOf(b)')
      BY <1>0, Kept DEF Returns, Running, Mapped, PageCount
    <2> QED
      BY <1>0, <2>1, <2>2, <2>3, <2>4 DEF HostHeld
  <1>3. Clean'
    <2>1. Drop(NoiseSaved) = {}
      BY <1>0, Dropped
    <2>2. faults' = {}
      BY <1>0, <2>1 DEF NoiseEnd, Gone
    <2> QED
      BY <1>0, <2>2 DEF NoiseEnd, Clean, HeapNames, Returns, Running
  <1>4. Rows' /\ Samples'
    BY <1>0 DEF Rows, Samples, Returns, Running
  <1> QED
    BY <1>1, <1>2, <1>3, <1>4 DEF IInv

(* The input of two blocks is saved and the buffers behind it are freed.   *)
LEMMA StepFeed ==
  ASSUME IInv, pc \in {"generator", "middle"}, NEW drops, NEW next \in {3, 5}, NEW n,
         Feed(drops, next, n), frames \in Nat \ {0},
         next = 3 => n = L0 /\ heap = {"dec"},
         next = 5 => n = L1 /\ heap = {} /\ "p_sty" \in DOMAIN host,
         drops \subseteq DOMAIN host, "x" \notin DOMAIN host,
         (DOMAIN host \ drops) \cup {"x", "p_sty"} = Around[next] \cup {"x"}
  PROVE  IInv'
  <1>0. /\ pc' = "hifi" /\ block' = next /\ UNCHANGED <<mode, frames>> /\ faults = {}
        /\ host' = With(With(Without(host, drops), "x", Carry(n)), "p_sty", Mapped(1, 4))
    BY DEF IInv, Clean, Feed
  <1>1. Place'
    BY <1>0 DEF Feed, IInv, Place, Stages, Returns, Running
  <1>2. HostHeld'
    <2>1. Names' = Around[next] \cup {"x"}
      BY <1>0 DEF Names, Returns, Running, Input, Inputs
    <2>2. /\ DOMAIN host' = (DOMAIN host \ drops) \cup {"x", "p_sty"}
          /\ host'["x"] = Mapped(n, Carried) /\ host'["p_sty"] = Mapped(1, 4)
          /\ \A b \in DOMAIN host \ drops : b \notin {"x", "p_sty"} => host'[b] = host[b]
      BY <1>0 DEF With, Without, Restrict, Carry, Carried
    <2>3. \A b \in DOMAIN host : host[b] = Mapped(RowsOf(b), ElemOf(b))
      BY DEF IInv, HostHeld
    <2>4. ASSUME NEW b \in DOMAIN host' PROVE host'[b] = Mapped(RowsOf(b), ElemOf(b))'
      <3>1. Mapped(RowsOf(b), ElemOf(b))' = Mapped(RowsOf(b)', ElemOf(b)')
        BY DEF Mapped, PageCount
      <3>2. ElemOf(b)' = ElemOf(b)
        BY <1>0, Kept DEF Running
      <3>3. CASE b = "x"
        <4>1. RowsOf(b)' = n /\ ElemOf(b) = Carried
          BY <1>0, <3>3, Kept DEF RowsOf, ElemOf, Plain, NoiseSaved, Running
        <4> QED
          BY <3>1, <3>2, <3>3, <4>1, <2>2
      <3>4. CASE b = "p_sty"
        <4>1. RowsOf(b)' = 1 /\ ElemOf(b) = 4
          BY <3>4 DEF RowsOf, ElemOf, Plain
        <4> QED
          BY <3>1, <3>2, <3>4, <4>1, <2>2
      <3>5. CASE b \notin {"x", "p_sty"}
        <4>1. RowsOf(b)' = RowsOf(b)
          BY <1>0, <3>5, Kept
        <4> QED
          BY <3>1, <3>2, <3>5, <4>1, <2>2, <2>3
      <3> QED
        BY <3>3, <3>4, <3>5
    <2> QED
      BY <1>0, <2>1, <2>2, <2>4 DEF HostHeld
  <1>3. Clean'
    <2>1. Drop(drops) = {} /\ Overwritten("x") = {}
      BY Dropped DEF Overwritten
    <2>2. next = 5 => ReadAll("p_sty") = {}
      BY HostLive DEF IInv
    <2>3. next = 3 => Gone({"dec"}) = {}
      BY DEF Gone
    <2>4. faults' = {}
      BY <1>0, <2>1, <2>2, <2>3 DEF Feed
    <2>5. heap' = {} /\ HeapAround[next] = {} /\ fresh' = {"x", "style"}
      BY DEF Feed, HeapAround
    <2> QED
      BY <1>0, <2>4, <2>5 DEF Clean, HeapNames, Returns, Running
  <1>4. Rows' /\ Samples'
    <2>1. n = L'
      BY <1>0, Kept DEF L
    <2> QED
      BY <1>0, <2>1 DEF Feed, Rows, Samples, Returns, Running
  <1> QED
    BY <1>1, <1>2, <1>3, <1>4 DEF IInv

(* The first of the two stages of the generator ...                        *)
LEMMA StepGenerator ==
  ASSUME IInv, Generator
  PROVE  IInv'
  <1>1. pc = "generator" /\ Feed({"nr0"}, 3, L0)
    BY DEF Generator
  <1>2. frames \in Nat \ {0} /\ heap = {"dec"} /\ DOMAIN host = {"nr0", "nr1"}
    BY <1>1 DEF IInv, Place, Clean, HostHeld, HeapNames, Names, Returns, Running
  <1>3. (DOMAIN host \ {"nr0"}) \cup {"x", "p_sty"} = Around[3] \cup {"x"}
    BY <1>2 DEF Around
  <1> QED
    BY <1>1, <1>2, <1>3, StepFeed

(* ... and the second.                                                     *)
LEMMA StepMiddle ==
  ASSUME IInv, Middle
  PROVE  IInv'
  <1>1. pc = "middle" /\ Feed({"r0", "r1", "nr1"}, 5, L1)
    BY DEF Middle
  <1>2. frames \in Nat \ {0} /\ heap = {} /\ DOMAIN host = {"nr1", "p_sty", "r0", "r1"}
    BY <1>1, AtReturn, AtBlock DEF Returns, After
  <1>3. (DOMAIN host \ {"r0", "r1", "nr1"}) \cup {"x", "p_sty"} = Around[5] \cup {"x"}
    BY <1>2 DEF Around
  <1> QED
    BY <1>1, <1>2, <1>3, StepFeed

(* The second block of a stage finds the same input.                       *)
LEMMA StepAgain ==
  ASSUME IInv, BlockR1 \/ BlockR3
  PROVE  IInv'
  <1>0. /\ pc \in Returns /\ pc' = "hifi" /\ UNCHANGED <<mode, frames, host, heap>>
        /\ \/ pc = "r1" /\ block' = 4
           \/ pc = "r3" /\ block' = 6
        /\ "style" \in fresh' /\ out' = [t \in DOMAIN out |-> 0]
        /\ faults' = faults \cup ReadAll("p_sty") /\ UNCHANGED <<k, a, retired, samples>>
    BY DEF BlockR1, BlockR3, Again, Returns
  <1>1. \/ block = 3 /\ block' = 4
        \/ block = 5 /\ block' = 6
    BY <1>0, AtReturn
  <1>2. frames \in Nat \ {0} /\ "p_sty" \in DOMAIN host /\ faults = {} /\ heap = {}
        /\ DOMAIN out = 0 .. L - 1
    BY <1>0, <1>1, AtReturn, AtBlock DEF After
  <1>3. Place'
    BY <1>0, <1>1 DEF IInv, Place, Stages, Returns, Running
  <1>4. HostHeld'
    <2>1. Names = IF block = 3 THEN {"nr1", "p_sty", "r0", "x"} ELSE {"p_sty", "r2", "x"}
      BY <1>0, <1>1, AtBlock DEF Names, After, Returns, Running
    <2>2. Names' = IF block = 3 THEN {"nr1", "p_sty", "r0", "x"} ELSE {"p_sty", "r2", "x"}
      BY <1>0, <1>1 DEF Names, Around, Input, Inputs, Returns, Running
    <2> QED
      BY <1>0, <1>1, <2>1, <2>2, HostKept DEF IInv, Returns, Running
  <1>5. Clean'
    <2>1. ReadAll("p_sty") = {}
      BY <1>0, <1>2, HostLive DEF IInv, Returns
    <2>2. HeapAround[block'] = {}
      BY <1>1 DEF HeapAround
    <2> QED
      BY <1>0, <1>2, <2>1, <2>2 DEF Clean, HeapNames, Returns, Running
  <1>6. Rows' /\ Samples'
    <2>1. L' = L
      BY <1>0, <1>1, Kept DEF L
    <2> QED
      BY <1>0, <1>2, <2>1 DEF Rows, Samples, Returns, Running
  <1> QED
    BY <1>3, <1>4, <1>5, <1>6 DEF IInv

(* What the constants of the last stage are.                               *)
LEMMA LastStage ==
  /\ Page \in Nat \ {0} /\ Kb \in Nat \ {0} /\ PadCp \in Nat /\ SegI \in Nat \ {0}
  /\ Trim \in Nat /\ 2 * Trim <= Kb /\ TailDrop \in Nat
  /\ Carried \in {2, 4}
  BY SegmentAssumption DEF Carried

(* The last stage begins with both buffers whole.                          *)
LEMMA StepTailStart ==
  ASSUME IInv, TailStart
  PROVE  IInv'
  <1>0. /\ pc = "tail" /\ pc \in Returns /\ pc' = "istft" /\ UNCHANGED <<mode, frames, block>>
        /\ retired' = 0 /\ a' = 0 /\ audio' = [p \in 0 .. AudioLen(L1, Kb) - 1 |-> FALSE]
        /\ UNCHANGED <<k, out, h3, stats, samples>>
    BY DEF TailStart, Returns
  <1>1. frames \in Nat \ {0} /\ block = 6 /\ faults = {} /\ heap = {}
        /\ DOMAIN host = {"p_sty", "r2", "r3"}
    BY <1>0, AtReturn, AtBlock DEF After
  <1>2. L1 \in Nat \ {0} /\ L1' = L1 /\ Carried' = Carried
    BY <1>0, <1>1, Lengths, Kept
  <1>3. host' = Without(host, {"p_sty"}) /\ faults' = {}
    <2>1. {"p_sty"} \cup (DOMAIN host \cap {"x"}) = {"p_sty"}
      BY <1>1
    <2>2. UNION {FreeFault(b) : b \in {"p_sty"}} = {}
      BY <1>0, <1>1, Dropped
    <2> QED
      BY <1>1, <2>1, <2>2 DEF TailStart
  <1>4. Place'
    BY <1>0 DEF IInv, Place, Stages, Returns, Running
  <1>5. HostHeld'
    <2>1. Names' = {"r2", "r3"}
      BY <1>0 DEF Names, Returns, Running
    <2>2. DOMAIN host' = {"r2", "r3"} /\ \A b \in {"r2", "r3"} : host'[b] = host[b]
      BY <1>1, <1>3 DEF Without, Restrict
    <2>3. ASSUME NEW b \in {"r2", "r3"} PROVE host'[b] = Left(L1, Carried, retired)'
      <3>1. host[b] = Mapped(RowsOf(b), ElemOf(b))
        BY <1>0, <1>1 DEF IInv, HostHeld
      <3>2. RowsOf(b) = L1 /\ ElemOf(b) = Carried
        BY <1>0 DEF RowsOf, ElemOf, Plain, NoiseSaved, Running
      <3>3. Left(L1, Carried, retired)' = Mapped(L1, Carried)
        BY <1>0, <1>2 DEF Left, Mapped, PageCount
      <3> QED
        BY <2>2, <3>1, <3>2, <3>3
    <2> QED
      BY <1>0, <2>1, <2>2, <2>3 DEF HostHeld
  <1>6. Clean'
    BY <1>0, <1>1, <1>3 DEF TailStart, Clean, HeapNames, Returns, Running
  <1>7. Rows'
    BY <1>0 DEF Rows, Returns, Running
  <1>8. Samples'
    <2>1. SamplesEnd(0, L1, Kb) = 0
      BY <1>2 DEF SamplesEnd
    <2>2. 0 <= PagesBefore(FirstRow(0, Kb, PadCp), Carried, Page)
      <3>1. FirstRow(0, Kb, PadCp) \in Nat
        BY LastStage DEF FirstRow, FrameOverlap, Back
      <3>2. PagesBefore(FirstRow(0, Kb, PadCp), Carried, Page) \in Nat
        BY <1>2, <3>1, LastStage, PagesHeld
      <3> QED
        BY <3>2
    <2> QED
      BY <1>0, <1>2, <2>1, <2>2 DEF Samples
  <1> QED
    BY <1>4, <1>5, <1>6, <1>7, <1>8 DEF IInv

(* Where the last stage is.                                                *)
LEMMA InTail ==
  ASSUME IInv, pc = "istft"
  PROVE  /\ frames \in Nat \ {0} /\ L1 \in Nat \ {0} /\ a \in 0 .. L1 /\ retired \in Nat
         /\ heap = {"audio"} /\ faults = {} /\ DOMAIN host = {"r2", "r3"}
         /\ \A b \in {"r2", "r3"} : /\ host[b] = Left(L1, Carried, retired)
                                    /\ host[b].elem = Carried
                                    /\ host[b].pages = retired .. PageCount(L1 * Carried) - 1
         /\ DOMAIN audio = 0 .. AudioLen(L1, Kb) - 1
         /\ AudioLen(L1, Kb) \in Nat
  <1>1. frames \in Nat \ {0} /\ a \in Nat /\ retired \in Nat
    BY DEF IInv, Place
  <1>2. L1 \in Nat \ {0}
    BY <1>1, Lengths
  <1>3. a \in 0 .. L1 /\ DOMAIN audio = 0 .. AudioLen(L1, Kb) - 1
    BY <1>1, <1>2 DEF IInv, Samples
  <1>4. heap = {"audio"} /\ faults = {} /\ DOMAIN host = {"r2", "r3"}
    BY DEF IInv, Clean, HeapNames, HostHeld, Names, Returns, Running
  <1>5. \A b \in {"r2", "r3"} : host[b] = Left(L1, Carried, retired)
    BY DEF IInv, HostHeld
  <1>6. AudioLen(L1, Kb) \in Nat
    BY <1>2, LastStage DEF AudioLen
  <1> QED
    BY <1>1, <1>2, <1>3, <1>4, <1>5, <1>6 DEF Left

(* The windows of the last stage only move forward.                        *)
LEMMA WindowsForward ==
  ASSUME NEW x \in Nat, NEW y \in Nat, x <= y, NEW e \in {2, 4}
  PROVE  /\ FirstRow(x, Kb, PadCp) \in 0 .. x
         /\ PagesBefore(FirstRow(x, Kb, PadCp), e, Page)
              <= PagesBefore(FirstRow(y, Kb, PadCp), e, Page)
  <1>1. PICK ov \in Nat : ov = FrameOverlap(Kb) + PadCp
    BY LastStage DEF FrameOverlap
  <1>2. PICK i \in Nat, j \in Nat :
          i = FirstRow(x, Kb, PadCp) /\ j = FirstRow(y, Kb, PadCp) /\ i <= j /\ i <= x
    BY <1>1 DEF FirstRow, Back
  <1>3. PICK ie \in Nat, je \in Nat : ie = i * e /\ je = j * e /\ ie <= je
    BY <1>2
  <1>4. ie \div Page <= je \div Page
    BY <1>3, Halves
  <1> QED
    BY <1>2, <1>3, <1>4 DEF PagesBefore

(* A segment gives back pages and still reads all of its window.           *)
LEMMA StepIstftSegment ==
  ASSUME IInv, IstftSegment
  PROVE  IInv'
  <1> DEFINE b   == SegmentEnd(a, SegI, L1)
             lo  == FirstRow(a, Kb, PadCp)
             hi  == Ahead(b, PadCp, L1)
             end == PagesBefore(lo, Carried, Page)
             all == PageCount(L1 * Carried)
  <1>0. /\ pc = "istft" /\ pc' = "istft" /\ a < L1 /\ a' = b
        /\ UNCHANGED <<mode, frames, block, k, out, h3, stats, samples, heap>>
    BY DEF IstftSegment
  <1>1. /\ L1 \in Nat \ {0} /\ a \in 0 .. L1 - 1 /\ retired \in Nat
        /\ L1' = L1 /\ Carried' = Carried /\ Carried \in {2, 4}
    BY <1>0, InTail, Kept, LastStage
  <1>2. b \in a + 1 .. L1 /\ b \in Nat
    BY <1>1, SegmentAdvances, LastStage
  <1>3. lo \in 0 .. a /\ lo \in Nat /\ hi \in 1 .. L1
    <2>1. lo \in 0 .. a
      BY <1>1, WindowsForward
    <2>2. hi \in 1 .. L1
      BY <1>1, <1>2, LastStage DEF Ahead
    <2> QED
      BY <1>1, <2>1, <2>2
  <1>4. end \in Nat /\ retired <= end /\ all \in Int
        /\ PagesOf(lo, hi, Carried) \subseteq end .. all - 1
    <2>1. end \in Nat /\ PagesOf(lo, hi, Carried) \subseteq end .. all - 1
      BY <1>1, <1>3, PagesHeld
    <2>2. retired <= end
      BY <1>0 DEF IInv, Samples
    <2>3. all \in Int
      BY <1>1, LastStage DEF PageCount
    <2> QED
      BY <2>1, <2>2, <2>3
  <1>5. Retire(lo) = end
    BY <1>0, InTail DEF Retire
  <1>6. retired' = end
    <2>1. retired' = IF Retire(lo) > retired THEN Retire(lo) ELSE retired
      BY DEF IstftSegment
    <2> HIDE DEF lo, end
    <2> QED
      BY <1>1, <1>4, <1>5, <2>1
  <1>7. /\ DOMAIN host' = {"r2", "r3"}
        /\ \A x \in {"r2", "r3"} : host'[x] = Left(L1, Carried, end)
    <2>1. host' = [x \in DOMAIN host |-> IF x \in {"r2", "r3"}
                     THEN [host[x] EXCEPT !.pages = @ \ (retired .. retired' - 1)] ELSE host[x]]
      BY DEF IstftSegment
    <2> HIDE DEF lo, end, all
    <2>2. (retired .. all - 1) \ (retired .. end - 1) = end .. all - 1
      BY <1>1, <1>4
    <2>3. ASSUME NEW x \in {"r2", "r3"} PROVE host'[x] = Left(L1, Carried, end)
      <3>1. PICK p, q : p = retired .. all - 1 /\ q = end .. all - 1
        OBVIOUS
      <3>2. host[x] = [rows |-> L1, elem |-> Carried, pages |-> p]
        BY <1>0, <3>1, InTail DEF Left, all
      <3>3. host[x].pages \ (retired .. retired' - 1) = q
        BY <1>6, <2>2, <3>1, <3>2
      <3>4. host'[x] = [host[x] EXCEPT !.pages = q]
        BY <1>0, <2>1, <3>3, InTail
      <3>5. @ = [rows |-> L1, elem |-> Carried, pages |-> q]
        BY <3>2
      <3> QED
        BY <3>1, <3>4, <3>5 DEF Left, all
    <2> QED
      BY <1>0, <2>1, <2>3, InTail
  <1>8. faults' = {}
    <2>1. \A x \in {"r2", "r3"} : PagesOf(lo, hi, host["r2"].elem) \subseteq host'[x].pages
      <3>1. Left(L1, Carried, end).pages = end .. all - 1
        BY DEF Left
      <3>2. host["r2"].elem = Carried
        BY <1>0, InTail
      <3> HIDE DEF lo, hi, end, all
      <3> QED
        BY <1>4, <1>7, <3>1, <3>2
    <2>2. faults' = faults \cup Gone({"audio"}) \cup
             UNION {IF PagesOf(lo, hi, host["r2"].elem) \subseteq host'[x].pages
                    THEN {} ELSE {<<"pages", x>>} : x \in {"r2", "r3"}}
      BY DEF IstftSegment
    <2>3. Gone({"audio"}) = {} /\ faults = {}
      BY <1>0, InTail DEF Gone
    <2> HIDE DEF lo, hi
    <2> QED
      BY <2>1, <2>2, <2>3
  <1>9. Place'
    BY <1>0, <1>2, <1>4, <1>6 DEF IInv, Place, Stages, Returns, Running
  <1>10. HostHeld'
    <2>1. Names' = {"r2", "r3"}
      BY <1>0 DEF Names, Returns, Running
    <2>2. Left(L1, Carried, retired)' = Left(L1, Carried, end)
      BY <1>1, <1>6 DEF Left, PageCount
    <2> QED
      BY <1>0, <1>7, <2>1, <2>2 DEF HostHeld
  <1>11. Clean' /\ Rows'
    BY <1>0, <1>8 DEF IInv, Clean, Rows, HeapNames, Returns, Running
  <1>12. Samples'
    <2>1. end <= PagesBefore(FirstRow(b, Kb, PadCp), Carried, Page)
      BY <1>1, <1>2, WindowsForward
    <2>2. DOMAIN audio = 0 .. AudioLen(L1, Kb) - 1 /\ AudioLen(L1, Kb) \in Nat
          /\ \A p \in DOMAIN audio : p < SamplesEnd(a, L1, Kb) => audio[p]
      BY <1>0, InTail DEF IInv, Samples
    <2>3. audio' = [p \in DOMAIN audio |->
                      IF FirstSample(a) <= p /\ p < SamplesEnd(b, L1, Kb)
                      THEN FramesInWindow(p, b) ELSE audio[p]]
      BY DEF IstftSegment
    <2>4. ASSUME NEW p \in DOMAIN audio, p < SamplesEnd(b, L1, Kb) PROVE audio'[p]
      <3>1. p \in Nat
        BY <2>2
      <3>2. CASE FirstSample(a) <= p
        <4>1. p \in FirstSample(a) .. SamplesEnd(b, L1, Kb) - 1
          BY <1>1, <1>2, <2>4, <3>1, <3>2, LastStage DEF FirstSample, SamplesEnd, AudioLen
        <4>2. FramesOf(p, Kb, L1) \subseteq FirstFrame(a, Kb) .. b - 1
          BY <1>1, <4>1, IstftFrames, LastStage
        <4>3. \A f \in FirstFrame(a, Kb) .. b - 1 : Near(f, PadCp, L1) \subseteq lo .. hi - 1
          BY <1>1, IstftRows, LastStage
        <4>4. FramesInWindow(p, b)
          BY <4>2, <4>3 DEF FramesInWindow
        <4> QED
          BY <2>3, <2>4, <3>2, <4>4
      <3>3. CASE ~ (FirstSample(a) <= p)
        <4>1. p < SamplesEnd(a, L1, Kb)
          BY <1>1, <3>1, <3>3 DEF FirstSample, SamplesEnd
        <4>2. audio[p]
          BY <2>2, <4>1
        <4> QED
          BY <2>3, <3>3, <4>2
      <3> QED
        BY <3>2, <3>3
    <2>5. DOMAIN audio' = DOMAIN audio
      BY <2>3
    <2> HIDE DEF b, end
    <2> QED
      BY <1>0, <1>1, <1>2, <1>6, <2>1, <2>2, <2>4, <2>5 DEF Samples
  <1> QED
    BY <1>9, <1>10, <1>11, <1>12 DEF IInv

(* The end gives back the rest.                                            *)
LEMMA StepFinish ==
  ASSUME IInv, Finish
  PROVE  IInv'
  <1>0. pc = "istft" /\ pc' = "idle"
    BY DEF Finish
  <1>1. samples' \in Nat
    <2>1. PICK n \in Nat : n = AudioLen(L1, Kb) - 2 * Trim
      BY <1>0, InTail, LastStage, SMTT(30) DEF AudioLen
    <2>2. samples' = IF n > TailDrop THEN n - TailDrop ELSE n
      BY <2>1, SMTT(30) DEF Finish
    <2> QED
      BY <2>1, <2>2, LastStage
  <1>2. Place'
    BY <1>1 DEF Finish, IInv, Place, Stages, Returns, Running
  <1>3. host' = <<>>
    <2>1. host' = [x \in {} |-> host[x]]
      BY <1>0, InTail DEF Finish, Without, Restrict
    <2> QED
      BY <2>1
  <1>4. HostHeld'
    <2>1. Names' = {}
      BY <1>0 DEF Names, Returns, Running
    <2>2. DOMAIN host' = {}
      BY <1>3
    <2> QED
      BY <1>0, <1>3, <2>1, <2>2 DEF HostHeld
  <1>5. faults' = {}
    <2>1. \A x \in {"r2", "r3"} :
            host[x].pages = retired .. PageCount(L1 * host["r2"].elem) - 1
      BY <1>0, InTail
    <2>2. Gone({"audio"}) = {} /\ faults = {}
      BY <1>0, InTail DEF Gone
    <2> QED
      BY <2>1, <2>2 DEF Finish
  <1>6. Clean' /\ Rows' /\ Samples'
    <2>1. heap' = {}
      BY <1>0, InTail DEF Finish
    <2> QED
      BY <1>0, <1>5, <2>1 DEF Clean, Rows, Samples, HeapNames, Returns, Running
  <1> QED
    BY <1>2, <1>4, <1>6 DEF IInv

-----------------------------------------------------------------------------
(* The theorems.                                                           *)

(* It holds when the process starts ...                                    *)
LEMMA Initially == Init => IInv
  <1> SUFFICES ASSUME Init PROVE IInv
    OBVIOUS
  <1>1. Place
    BY DEF Init, Place, Stages, Returns, Running
  <1>2. HostHeld
    BY DEF Init, HostHeld, Names, Returns, Running
  <1>3. Clean /\ Rows /\ Samples
    BY DEF Init, Clean, Rows, Samples, HeapNames, Returns, Running
  <1> QED
    BY <1>1, <1>2, <1>3 DEF IInv

(* ... and each step keeps it.                                             *)
LEMMA Step == IInv /\ [Next]_vars => IInv'
  <1> SUFFICES ASSUME IInv, [Next]_vars PROVE IInv'
    OBVIOUS
  <1>1. CASE UNCHANGED vars
    <2>1. Place'
      BY <1>1, BlockKept DEF vars, IInv, Place
    <2>2. HostHeld'
      <3>1. Names' = Names
        BY <1>1, BlockKept DEF vars, Names
      <3>2. \A b : Mapped(RowsOf(b), ElemOf(b))' = Mapped(RowsOf(b), ElemOf(b))
        <4> SUFFICES ASSUME NEW b
                     PROVE  Mapped(RowsOf(b), ElemOf(b))' = Mapped(RowsOf(b), ElemOf(b))
          OBVIOUS
        <4>1. RowsOf(b)' = RowsOf(b) /\ ElemOf(b)' = ElemOf(b)
          BY <1>1, BlockKept DEF vars, ElemOf
        <4> QED
          BY <4>1 DEF Mapped, PageCount
      <3>3. Left(L1, Carried, retired)' = Left(L1, Carried, retired)
        BY <1>1, Kept DEF vars, Left, PageCount
      <3> QED
        BY <1>1, <3>1, <3>2, <3>3 DEF vars, IInv, HostHeld
    <2>3. Clean'
      BY <1>1 DEF vars, IInv, Clean, HeapNames
    <2>4. Rows' /\ Samples'
      BY <1>1, BlockKept, Kept DEF vars, IInv, Rows, Samples, NcLen
    <2> QED
      BY <2>1, <2>2, <2>3, <2>4 DEF IInv
  <1>2. CASE Next
    BY <1>2, StepSetCarry, StepStart, StepLayer, StepTextStage, StepHeap, StepNoiseStart,
       StepSingenSegment, StepExcite, StepStftSegment, StepNc0Start, StepNc1Start,
       StepNcSegment, StepNcEnd, StepHifiSmall, StepHifiStart, StepHifiFirst,
       StepHifiMiddle, StepHifiSecond, StepHifiNext, StepHifiEnd, StepNoiseEnd,
       StepGenerator, StepMiddle, StepAgain, StepTailStart, StepIstftSegment, StepFinish
       DEF Next
  <1> QED
    BY <1>1, <1>2

(* At each stage of kittens_synthesize() exactly the buffers it still      *)
(* needs are mapped or allocated, and the rows done so far are right.      *)
THEOREM StagesHold == Spec => []IInv
  BY Initially, Step, PTL DEF Spec

(* The variables keep their types.                                         *)
THEOREM TypeCorrect == Spec => []TypeOK
  <1>1. IInv => TypeOK
    <2> SUFFICES ASSUME IInv PROVE TypeOK
      OBVIOUS
    <2>1. CASE pc = "istft"
      <3>1. DOMAIN host = {"r2", "r3"} /\ \A b \in {"r2", "r3"} : host[b].elem = Carried
        BY <2>1, InTail
      <3>2. {"r2", "r3"} \subseteq Buffers
        BY DEF Buffers, Blocks
      <3> QED
        BY <3>1, <3>2, LastStage DEF IInv, Place, TypeOK
    <2>2. CASE pc = "idle"
      <3>1. DOMAIN host = {}
        BY <2>2 DEF IInv, HostHeld, Names, Returns, Running
      <3> QED
        BY <3>1 DEF IInv, Place, TypeOK
    <2>3. CASE pc \notin {"istft", "idle"}
      <3>1. frames \in Nat \ {0}
        BY <2>3 DEF IInv, Place
      <3>2. \A b \in DOMAIN host : host[b].elem \in {2, 4}
        BY <2>3, <3>1, HostLive, Sizes DEF IInv
      <3>3. DOMAIN host \subseteq Buffers
        <4>1. {"nr0", "nr1", "r0", "r1", "r2", "r3"} \cup Plain \cup {"nc0", "nc1", "x"}
                \subseteq Buffers
          BY DEF Buffers, Blocks, Plain, NoiseSaved
        <4>2. block \in 1 .. 6 => Around[block] \cup {Name, Input}
                \subseteq {"nr0", "nr1", "r0", "r1", "r2", "r3"} \cup Plain
                            \cup {"nc0", "nc1", "x"}
          BY AtBlock DEF Plain
        <4>3. pc \in Returns \cup Running \cup {"nc", "hifi"} => block \in 1 .. 6
          BY DEF IInv, Place
        <4>4. Names \subseteq {"nr0", "nr1", "r0", "r1", "r2", "r3"} \cup Plain
                                \cup {"nc0", "nc1", "x"}
          BY <4>2, <4>3 DEF Names, After, Plain, Returns, Running
        <4> QED
          BY <4>1, <4>4 DEF IInv, HostHeld
      <3> QED
        BY <3>2, <3>3 DEF IInv, Place, TypeOK
    <2> QED
      BY <2>1, <2>2, <2>3
  <1> QED
    BY <1>1, StagesHold, PTL

(* No stage uses a tensor of the arena that a reset ended, a page that was *)
(* given back, or a row in another width, for signals of every length.     *)
THEOREM AllReadsLive == Spec => []ReadsLive
  <1>1. IInv => ReadsLive
    <2> SUFFICES ASSUME IInv PROVE ReadsLive
      OBVIOUS
    <2>1. faults = {}
      BY DEF IInv, Clean
    <2>2. pc = "istft" => OneWidth
      BY InTail DEF OneWidth, Carried
    <2> QED
      BY <2>1, <2>2 DEF ReadsLive, ArenaFresh, PagesLive
  <1> QED
    BY <1>1, StagesHold, PTL

(* What was obtained is given back exactly once, and nothing is left when  *)
(* the samples are returned.                                               *)
THEOREM AllFreedOnce == Spec => []FreedOnce
  <1>1. IInv => FreedOnce
    <2> SUFFICES ASSUME IInv PROVE FreedOnce
      OBVIOUS
    <2>1. faults = {}
      BY DEF IInv, Clean
    <2>2. pc = "idle" => host = <<>> /\ heap = {}
      BY DEF IInv, HostHeld, Clean, HeapNames, Returns, Running
    <2> QED
      BY <2>1, <2>2 DEF FreedOnce, UnmappedOnce, NothingKept
  <1> QED
    BY <1>1, StagesHold, PTL

(* By segments or at once: the same signal, whatever the lengths of the    *)
(* signal, the segments and the kernels within the overlap.                *)
THEOREM SegmentsWhole == Spec => []WholeSignal
  <1>1. IInv => WholeSignal
    <2> SUFFICES ASSUME IInv PROVE WholeSignal
      OBVIOUS
    <2>1. pc \in Returns => \A t \in DOMAIN out : out[t] = 3
      BY DEF IInv, Rows
    <2>2. pc = "hifi" => \A t \in DOMAIN out : out[t] = 0
      BY DEF IInv, Rows
    <2>3. ASSUME pc = "istft", a = L1, NEW p \in DOMAIN audio PROVE audio[p]
      <3>1. p < SamplesEnd(a, L1, Kb)
        BY <2>3, InTail DEF SamplesEnd
      <3> QED
        BY <2>3, <3>1 DEF IInv, Samples
    <2> QED
      BY <2>1, <2>2, <2>3 DEF WholeSignal, SegmentsExact, SamplesExact, Returns
  <1> QED
    BY <1>1, StagesHold, PTL

=============================================================================
