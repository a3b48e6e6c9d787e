------------------------------ MODULE Synthesis ------------------------------
(***************************************************************************)
(* kittens_synthesize(), src/src/kittens.c: phonemes to samples in one     *)
(* scratch arena that is reset again and again, so that whatever must      *)
(* outlive a reset is copied to the heap or to pages of its own.  Long     *)
(* signals are computed by segments, partly in place; pages are given back *)
(* as soon as they were read for the last time.                            *)
(*                                                                         *)
(* A row is one element of 4 bytes, or of 2 when it is carried as fp16.    *)
(* What the numbers are is left out; each row says instead whether it was  *)
(* computed from the very rows the whole signal would give it.             *)
(***************************************************************************)
EXTENDS Windows, Sequences, FiniteSets, Functions, SequencesExt

CONSTANTS
  Durations,            \* the frames of each phoneme, one sequence per input
  Layers,               \* layers of the text encoder
  Page,                 \* bytes per page
  Hop,                  \* samples per half frame, 300
  SegF, SegU, SegV,     \* NOISE_SEG_F, _U, _V
  SegL, Overlap,        \* HIFI_SEG_L, HIFI_SEG_OVERLAP
  SegI,                 \* ISTFT_SEG_L
  Reach1, Reach2,       \* d * (K1 - 1) / 2 for each k, (K2 - 1) / 2
  K0,                   \* kernel of nc0
  PadCp, Kb, Trim,      \* kernels of the last stage, istft_trim
  TailDrop              \* samples dropped at the end, if there are more

ASSUME SegmentAssumption ==
  /\ {SegF, SegU, SegV, SegL, SegI, Page, Kb, K0} \subseteq Nat \ {0}
  /\ {Overlap, Reach2, PadCp, Trim} \subseteq Nat
  /\ Reach1 \in [1 .. 3 -> 0 .. Overlap]
  /\ Reach2 <= Overlap
  /\ Hop \in Nat \ {0} /\ TailDrop \in Nat
  /\ 2 * Trim <= Kb

TotalFrames(durs) == FoldSeq(+, 0, durs)

(* Each phoneme has a frame; nc0 fits the shortest signal with its padding. *)
ASSUME DurationsAssumption ==
  /\ \A durs \in Durations : TotalFrames(durs) \in Nat \ {0}
  /\ K0 <= ConvLen(2 * Hop, 20, 5, 10) + 6

VARIABLES
  pc,       \* the stage
  mode,     \* g_carry_fp16
  frames,   \* F
  block,    \* which residual block runs
  k,        \* its dilation, or the layer of the encoder
  a,        \* where the segment begins
  out, h3,  \* the rows of out_host and h3_host: how often updated, or Wrong
  stats,    \* what mean and deviation were taken of
  audio,    \* the samples written, and whether each is right
  retired,  \* pages of r2 and r3 already given back
  host,     \* pages that are mapped, by buffer
  heap,     \* buffers that are allocated
  fresh,    \* tensors made since the last reset of the arena
  faults,   \* uses of what is gone
  samples   \* how many samples were returned last

vars == <<pc, mode, frames, block, k, a, out, h3, stats, audio, retired, host,
          heap, fresh, faults, samples>>
stream == <<out, h3, stats, audio, retired, samples>>

Wrong == -1

L1 == ConvLen(2 * frames * Hop, 20, 5, 10)
L0 == ConvLen(L1, K0, 6, 3)

-----------------------------------------------------------------------------
(* Pages.  A buffer of host_alloc() or save() is mapped for itself.        *)

PageCount(bytes) == (bytes + Page - 1) \div Page
Mapped(rows, elem) == [rows |-> rows, elem |-> elem,
                       pages |-> 0 .. PageCount(rows * elem) - 1]
Carry(rows) == Mapped(rows, IF mode >= 1 THEN 2 ELSE 4)

(* The fault of reading rows lo .. hi - 1.                                 *)
PagesOf(lo, hi, elem) == PagesOfRows(lo, hi, elem, Page)
ReadFault(b, lo, hi, elem) ==
  IF /\ b \in DOMAIN host
     /\ host[b].elem = elem
     /\ PagesOf(lo, hi, elem) \subseteq host[b].pages
  THEN {} ELSE {<<"pages", b>>}
ReadAll(b) ==
  IF b \in DOMAIN host THEN ReadFault(b, 0, host[b].rows, host[b].elem)
                       ELSE {<<"pages", b>>}

(* host_free(): what it unmaps must be what is mapped.                     *)
FreeFault(b) ==
  IF b \in DOMAIN host /\ host[b] = Mapped(host[b].rows, host[b].elem)
  THEN {} ELSE {<<"unmap", b>>}

Without(table, names) == Restrict(table, DOMAIN table \ names)
With(table, b, buffer) == [x \in DOMAIN table \cup {b} |->
                             IF x = b THEN buffer ELSE table[x]]

Stale(tensors) == {<<"arena", t>> : t \in tensors \ fresh}
Gone(buffers) == {<<"heap", b>> : b \in buffers \ heap}

-----------------------------------------------------------------------------
(* Text, durations, prosody, decoder.                                      *)

Init ==
  /\ pc = "idle" /\ mode \in 0 .. 2 /\ frames = 0
  /\ block = 0 /\ k = 0 /\ a = 0
  /\ out = <<>> /\ h3 = <<>> /\ stats = Wrong /\ audio = <<>> /\ retired = 0
  /\ host = <<>> /\ heap = {} /\ fresh = {} /\ faults = {} /\ samples = 0

(* kittens_set_carry_fp16(), between two calls.                            *)
SetCarry ==
  /\ pc = "idle"
  /\ mode' \in 0 .. 2
  /\ UNCHANGED <<pc, frames, block, k, a, stream, host, heap, fresh, faults>>

(* The predictor gives each phoneme at least one frame.  Style and LSTM    *)
(* state are saved before the encoder's resets.                            *)
Start(durs) ==
  /\ pc = "idle"
  /\ frames' = TotalFrames(durs)
  /\ host' = [b \in {"style_pr", "h0", "c0"} |-> Mapped(1, 4)]
  /\ fresh' = {"h"}
  /\ pc' = "albert" /\ k' = 0
  /\ UNCHANGED <<mode, block, a, stream, heap, faults>>

(* One layer; but for the first it begins with a reset that h survives.    *)
Layer ==
  /\ pc = "albert" /\ k < Layers
  /\ k' = k + 1
  /\ faults' = faults \cup Stale({"h"})
  /\ fresh' = {"h"}
  /\ UNCHANGED <<pc, mode, frames, block, a, stream, host, heap>>

TextStage ==
  /\ pc = "albert" /\ k = Layers
  /\ LET saved == {"style_pr", "h0", "c0"}
     IN  /\ faults' = faults \cup Stale({"h"})
                        \cup UNION {ReadAll(b) \cup FreeFault(b) : b \in saved}
         /\ host' = Without(host, saved)
         /\ fresh' = fresh \cup saved
  /\ heap' = heap \cup {"prosody", "text", "dur"}
  /\ pc' = "regulate"
  /\ UNCHANGED <<mode, frames, block, k, a, stream>>

(* A stage that reads and frees buffers of the heap and fills others, with *)
(* the arena reset first.                                                  *)
Stage(here, next, reads, fills, frees) ==
  /\ pc = here /\ pc' = next
  /\ faults' = faults \cup Gone(reads \cup frees)
  /\ heap' = (heap \cup fills) \ frees
  /\ fresh' = {}
  /\ UNCHANGED <<mode, frames, block, k, a, stream, host>>

Regulate == Stage("regulate", "front", {"prosody", "text", "dur"},
                  {"prosody_lr", "text_lr"}, {"prosody", "text", "dur"})
GenFront == Stage("front", "decoder", {"prosody_lr"}, {"f0p", "np"}, {"prosody_lr"})
Decoder == Stage("decoder", "noise", {"text_lr", "f0p", "np"}, {"dec"}, {"text_lr", "np"})

-----------------------------------------------------------------------------
(* The noise source: harmonics, excitation, transform, two convolutions.   *)

NoiseSaved == {"fpf", "ps", "f0", "sr", "sty"}

NoiseStart ==
  /\ pc = "noise"
  /\ faults' = faults \cup Gone({"f0p"})
  /\ host' = [b \in DOMAIN host \cup NoiseSaved |->
                IF b \in {"fpf", "ps", "f0"} THEN Mapped(2 * frames, 4)
                ELSE IF b \in NoiseSaved THEN Mapped(1, 4) ELSE host[b]]
  /\ heap' = heap \cup {"singen"}
  /\ fresh' = {}
  /\ a' = 0 /\ pc' = "singen"
  /\ UNCHANGED <<mode, frames, block, k, stream>>

SingenSegment ==
  LET b == SegmentEnd(a, SegF, 2 * frames)
  IN  /\ pc = "singen" /\ a < 2 * frames
      /\ faults' = faults \cup Gone({"singen"}) \cup ReadAll("sr")
                     \cup UNION {ReadFault(x, a, b, 4) : x \in {"fpf", "ps", "f0"}}
      /\ fresh' = {}
      /\ a' = b
      /\ UNCHANGED <<pc, mode, frames, block, k, stream, host, heap>>

Excite ==
  /\ pc = "singen" /\ a = 2 * frames
  /\ faults' = faults \cup Gone({"singen"})
  /\ heap' = (heap \cup {"exc", "stft"}) \ {"singen"}
  /\ fresh' = {}
  /\ out' = [u \in 0 .. L1 - 1 |-> Wrong]
  /\ a' = 0 /\ pc' = "stft"
  /\ UNCHANGED <<mode, frames, block, k, h3, stats, audio, retired, samples, host>>

(* Rows va .. vb - 1 of a convolution, from a slice of n rows.             *)
FromSlice(n, rows, va, vb, K, stride, pad) ==
  [v \in DOMAIN rows |-> IF v < va \/ v >= vb THEN rows[v]
                         ELSE IF SliceGives(v, va, vb - va, n, K, stride, pad) THEN 0
                         ELSE Wrong]

Sliced(rows, va, vb, K, stride, pad) ==
  FromSlice(SliceRows(vb - va, K, stride), rows, va, vb, K, stride, pad)

StftSegment ==
  LET b == SegmentEnd(a, SegU, L1)
  IN  /\ pc = "stft" /\ a < L1
      /\ faults' = faults \cup Gone({"exc", "stft"})
      /\ out' = Sliced(out, a, b, 20, 5, 10)
      /\ fresh' = {}
      /\ a' = b
      /\ UNCHANGED <<pc, mode, frames, block, k, h3, stats, audio, retired, samples, host, heap>>

(* nc0: K0, stride 6, pad 3; nc1: one row each.                            *)
NcName == IF block = 1 THEN "nc0" ELSE "nc1"
NcLen == IF block = 1 THEN L0 ELSE L1

NcStart(here, next, drops) ==
  /\ pc = here
  /\ block' = next
  /\ heap' = heap \ drops
  /\ LET len == IF next = 1 THEN L0 ELSE L1
     IN  /\ host' = With(host, IF next = 1 THEN "nc0" ELSE "nc1", Carry(len))
         /\ out' = [v \in 0 .. len - 1 |-> Wrong]
  /\ a' = 0 /\ pc' = "nc"
  /\ UNCHANGED <<mode, frames, k, h3, stats, audio, retired, samples, fresh, faults>>

Nc0Start == pc = "stft" /\ a = L1 /\ NcStart("stft", 1, {"exc"})
Nc1Start == NcStart("nc1", 2, {})

NcSegment ==
  LET b == SegmentEnd(a, SegV, NcLen)
  IN  /\ pc = "nc" /\ a < NcLen
      /\ faults' = faults \cup Gone({"stft"})
                     \cup ReadFault(NcName, a, b, IF mode >= 1 THEN 2 ELSE 4)
      /\ out' = IF block = 1 THEN Sliced(out, a, b, K0, 6, 3) ELSE Sliced(out, a, b, 1, 1, 0)
      /\ fresh' = {}
      /\ a' = b
      /\ UNCHANGED <<pc, mode, frames, block, k, h3, stats, audio, retired, samples, host, heap>>

NcEnd ==
  /\ pc = "nc" /\ a = NcLen
  /\ faults' = faults \cup ReadAll("sty")
  /\ heap' = IF block = 1 THEN heap ELSE heap \ {"stft"}
  /\ fresh' = {"style"}
  /\ pc' = "hifi"
  /\ UNCHANGED <<mode, frames, block, k, a, stream, host>>

-----------------------------------------------------------------------------
(* build_hifi_block(), called six times.                                   *)

Blocks == <<"nr0", "nr1", "r0", "r1", "r2", "r3">>
Inputs == <<"nc0", "nc1", "x", "x", "x", "x">>
Return == <<"nc1", "noiseEnd", "r1", "middle", "r3", "tail">>

Name == Blocks[block]
Input == Inputs[block]
Consume == block \in {1, 2, 4, 6}
L == IF block \in {1, 3, 4} THEN L0 ELSE L1
Small == L <= SegL + 2 * Overlap
Elem == IF mode >= 2 THEN 2 ELSE 4      \* in place, while the block runs

(* save(style), reset; a short signal is done at once in the arena.        *)
HifiSmall ==
  /\ pc = "hifi" /\ Small
  /\ faults' = faults \cup Stale({"style"}) \cup ReadAll(Input)
                 \cup (IF Consume THEN FreeFault(Input) ELSE {})
  /\ host' = With(IF Consume THEN Without(host, {Input}) ELSE host, Name, Carry(L))
  /\ out' = [t \in DOMAIN out |-> IF out[t] = 0 THEN 3 ELSE Wrong]
  /\ fresh' = {}
  /\ pc' = Return[block]
  /\ UNCHANGED <<mode, frames, block, k, a, h3, stats, audio, retired, samples, heap>>

(* The version all rows have, if they have the same.                       *)
VersionOf(rows) == IF \A t \in DOMAIN rows : rows[t] = rows[0] THEN rows[0] ELSE Wrong

(* The input's pages become the output's: px->fp16 is mode >= 1.           *)
Owns == Consume /\ host[Input].elem = Elem

HifiStart ==
  /\ pc = "hifi" /\ ~Small
  /\ faults' = faults \cup Stale({"style"}) \cup ReadAll(Input)
                 \cup (IF Consume /\ ~Owns THEN FreeFault(Input) ELSE {})
  /\ host' = LET left == IF Consume \/ Owns THEN Without(host, {Input}) ELSE host
             IN  With(With(left, Name, IF Owns THEN host[Input] ELSE Mapped(L, Elem)),
                      "style", Mapped(1, 4))
  /\ heap' = heap \cup {"h3"}
  /\ h3' = [t \in DOMAIN out |-> Wrong]
  /\ stats' = VersionOf(out)
  /\ fresh' = {}
  /\ k' = 0 /\ a' = 0 /\ pc' = "first"
  /\ UNCHANGED <<mode, frames, block, out, audio, retired, samples>>

(* The window of segment a .. b - 1 holds the rows that row t depends on.  *)
InWindow(t, b, reach) ==
  Near(t, reach, L) \subseteq Back(a, Overlap) .. Ahead(b, Overlap, L) - 1

(* A segment of a pass: row t of it is right when the rows it depends on   *)
(* are in the window, of this turn, as are those of mean and deviation.    *)
Convolved(rows, t, b, reach) ==
  IF /\ InWindow(t, b, reach) /\ stats = k
     /\ \A i \in Near(t, reach, L) : rows[i] = k
  THEN k ELSE Wrong

HifiFault(b) == ReadFault(Name, Back(a, Overlap), Ahead(b, Overlap, L), Elem)
                  \cup Gone({"h3"}) \cup ReadAll("style")

(* A bug: the first convolution is written over its own input.             *)
FirstInPlace ==
  LET b == SegmentEnd(a, SegL, L)
      new == [t \in DOMAIN out |-> IF a <= t /\ t < b
                                   THEN IF Convolved(out, t, b, Reach1[k + 1]) = k
                                        THEN k + 1 ELSE Wrong
                                   ELSE out[t]]
  IN  /\ pc = "first" /\ a < L
      /\ out' = new /\ h3' = [t \in DOMAIN h3 |-> IF new[t] = k + 1 THEN k ELSE h3[t]]
      /\ faults' = faults \cup HifiFault(b)
      /\ fresh' = {} /\ a' = b
      /\ UNCHANGED <<pc, mode, frames, block, k, stats, audio, retired, samples, host, heap>>

(* The first pass goes from out_host to h3_host ...                        *)
HifiFirst ==
  LET b == SegmentEnd(a, SegL, L)
  IN  /\ pc = "first" /\ a < L
      /\ h3' = [t \in DOMAIN h3 |-> IF a <= t /\ t < b
                                    THEN Convolved(out, t, b, Reach1[k + 1]) ELSE h3[t]]
      /\ faults' = faults \cup HifiFault(b)
      /\ fresh' = {} /\ a' = b
      /\ UNCHANGED <<pc, mode, frames, block, k, out, stats, audio, retired, samples, host, heap>>

HifiMiddle ==
  /\ pc = "first" /\ a = L
  /\ stats' = VersionOf(h3)
  /\ a' = 0 /\ pc' = "second"
  /\ UNCHANGED <<mode, frames, block, k, out, h3, audio, retired, samples, host, heap, fresh, faults>>

(* ... and the second from h3_host is added to out_host.                   *)
HifiSecond ==
  LET b == SegmentEnd(a, SegL, L)
  IN  /\ pc = "second" /\ a < L
      /\ out' = [t \in DOMAIN out |->
                   IF a <= t /\ t < b
                   THEN IF out[t] = k /\ Convolved(h3, t, b, Reach2) = k
                        THEN k + 1 ELSE Wrong
                   ELSE out[t]]
      /\ faults' = faults \cup HifiFault(b)
      /\ fresh' = {} /\ a' = b
      /\ UNCHANGED <<pc, mode, frames, block, k, h3, stats, audio, retired, samples, host, heap>>

HifiNext ==
  /\ pc = "second" /\ a = L /\ k < 2
  /\ stats' = VersionOf(out)
  /\ k' = k + 1 /\ a' = 0 /\ pc' = "first"
  /\ UNCHANGED <<mode, frames, block, out, h3, audio, retired, samples, host, heap, fresh, faults>>

(* A bug: the width is set, the pages behind it are kept.                  *)
CompressKeeps(h) ==
  IF mode >= 1 /\ h.elem = 4 THEN [h EXCEPT !.elem = 2] ELSE h

(* A bug: what is halved already is halved again.                          *)
CompressAgain(h) ==
  IF mode >= 1
  THEN [h EXCEPT !.elem = @ \div 2, !.pages = @ \cap 0 .. PageCount(h.rows * 2) - 1]
  ELSE h

(* hifi_out_compress(): half the width, and the pages behind it go.        *)
Compress(h) ==
  IF mode >= 1 /\ h.elem = 4
  THEN [h EXCEPT !.elem = 2, !.pages = @ \cap 0 .. PageCount(h.rows * 2) - 1]
  ELSE h

HifiEnd ==
  /\ pc = "second" /\ a = L /\ k = 2
  /\ host' = With(Without(host, {"style"}), Name, Compress(host[Name]))
  /\ heap' = heap \ {"h3"}
  /\ faults' = faults \cup FreeFault("style") \cup Gone({"h3"})
  /\ fresh' = {}
  /\ pc' = Return[block]
  /\ UNCHANGED <<mode, frames, block, k, a, stream>>

-----------------------------------------------------------------------------
(* build_generator() and the last stage.                                   *)

(* hifi_materialize(), and what is freed by its size.                      *)
Drop(buffers) == UNION {ReadAll(b) \cup FreeFault(b) : b \in buffers}

NoiseEnd ==
  /\ pc = "noiseEnd"
  /\ faults' = faults \cup Drop(NoiseSaved) \cup Gone({"f0p"})
  /\ host' = Without(host, NoiseSaved)
  /\ heap' = heap \ {"f0p"}
  /\ pc' = "generator"
  /\ UNCHANGED <<mode, frames, block, k, a, stream, fresh>>

(* A struct savept that is assigned while it still owns pages loses them.  *)
Overwritten(b) == IF b \in DOMAIN host THEN {<<"unmap", b>>} ELSE {}

(* x of n rows becomes the input of the next two blocks.                   *)
Feed(drops, next, n) ==
  /\ faults' = faults \cup Drop(drops) \cup Overwritten("x") \cup (IF next = 5 THEN ReadAll("p_sty")
                                                        ELSE Gone({"dec"}))
  /\ host' = With(With(Without(host, drops), "x", Carry(n)), "p_sty", Mapped(1, 4))
  /\ heap' = heap \ {"dec"}
  /\ fresh' = {"x", "style"}
  /\ out' = [t \in 0 .. n - 1 |-> 0]
  /\ block' = next /\ pc' = "hifi"
  /\ UNCHANGED <<mode, frames, k, a, h3, stats, audio, retired, samples>>

Generator == pc = "generator" /\ Feed({"nr0"}, 3, L0)
Middle == pc = "middle" /\ Feed({"r0", "r1", "nr1"}, 5, L1)

(* The second block on the same input: the style is fetched again.         *)
Again(here, next) ==
  /\ pc = here
  /\ faults' = faults \cup ReadAll("p_sty")
  /\ fresh' = fresh \cup {"style"}
  /\ out' = [t \in DOMAIN out |-> 0]
  /\ block' = next /\ pc' = "hifi"
  /\ UNCHANGED <<mode, frames, k, a, h3, stats, audio, retired, samples, host, heap>>

BlockR1 == Again("r1", 4)
BlockR3 == Again("r3", 6)

TailStart ==
  /\ pc = "tail"
  /\ LET frees == {"p_sty"} \cup (DOMAIN host \cap {"x"})
     IN  /\ faults' = faults \cup UNION {FreeFault(b) : b \in frees}
         /\ host' = Without(host, frees)
  /\ heap' = heap \cup {"audio"}
  /\ audio' = [p \in 0 .. AudioLen(L1, Kb) - 1 |-> FALSE]
  /\ retired' = 0
  /\ a' = 0 /\ pc' = "istft"
  /\ UNCHANGED <<mode, frames, block, k, out, h3, stats, samples, fresh>>

(* A bug: what lies before the segment is retired, not before its window.  *)
RetireSegment(lo) == PagesBefore(a, host["r2"].elem, Page)

(* host_retire_prefix(): whole pages before the window.                    *)
Retire(lo) == PagesBefore(lo, host["r2"].elem, Page)

(* All the frames of sample p are computed, each from all of its rows.     *)
FramesInWindow(p, b) ==
  /\ FramesOf(p, Kb, L1) \subseteq FirstFrame(a, Kb) .. b - 1
  /\ \A f \in FramesOf(p, Kb, L1) :
       Near(f, PadCp, L1) \subseteq FirstRow(a, Kb, PadCp) .. Ahead(b, PadCp, L1) - 1

IstftSegment ==
  LET b   == SegmentEnd(a, SegI, L1)
      lo  == FirstRow(a, Kb, PadCp)
      end == IF Retire(lo) > retired THEN Retire(lo) ELSE retired
      kept(h) == [h EXCEPT !.pages = @ \ (retired .. end - 1)]
      left == [x \in DOMAIN host |-> IF x \in {"r2", "r3"} THEN kept(host[x]) ELSE host[x]]
  IN  /\ pc = "istft" /\ a < L1
      /\ host' = left
      /\ retired' = end
      /\ faults' = faults \cup Gone({"audio"}) \cup
           UNION {IF PagesOf(lo, Ahead(b, PadCp, L1), host["r2"].elem) \subseteq left[x].pages
                  THEN {} ELSE {<<"pages", x>>} : x \in {"r2", "r3"}}
      /\ audio' = [p \in DOMAIN audio |->
                     IF FirstSample(a) <= p /\ p < SamplesEnd(b, L1, Kb)
                     THEN FramesInWindow(p, b) ELSE audio[p]]
      /\ fresh' = {} /\ a' = b
      /\ UNCHANGED <<pc, mode, frames, block, k, out, h3, stats, samples, heap>>

(* host_free_rest() unmaps what is left; trimmed and without its tail the  *)
(* signal is returned, the arena is reset and the locals are gone.         *)
Finish ==
  /\ pc = "istft" /\ a = L1
  /\ LET rest == retired .. PageCount(L1 * host["r2"].elem) - 1
     IN  faults' = faults \cup Gone({"audio"}) \cup
           UNION {IF host[x].pages = rest THEN {} ELSE {<<"unmap", x>>} : x \in {"r2", "r3"}}
  /\ LET n == AudioLen(L1, Kb) - 2 * Trim
     IN  samples' = IF n > TailDrop THEN n - TailDrop ELSE n
  /\ host' = Without(host, {"r2", "r3"})
  /\ heap' = heap \ {"audio"}
  /\ fresh' = {}
  /\ frames' = 0 /\ block' = 0 /\ k' = 0 /\ a' = 0 /\ retired' = 0
  /\ out' = <<>> /\ h3' = <<>> /\ audio' = <<>> /\ stats' = Wrong
  /\ pc' = "idle"
  /\ UNCHANGED mode

Next ==
  \/ SetCarry \/ \E durs \in Durations : Start(durs)
  \/ Layer \/ TextStage \/ Regulate \/ GenFront \/ Decoder
  \/ NoiseStart \/ SingenSegment \/ Excite \/ StftSegment
  \/ Nc0Start \/ Nc1Start \/ NcSegment \/ NcEnd
  \/ HifiSmall \/ HifiStart \/ HifiFirst \/ HifiMiddle \/ HifiSecond \/ HifiNext \/ HifiEnd
  \/ NoiseEnd \/ Generator \/ Middle \/ BlockR1 \/ BlockR3
  \/ TailStart \/ IstftSegment \/ Finish

Spec == Init /\ [][Next]_vars

-----------------------------------------------------------------------------
Buffers == {"style_pr", "h0", "c0", "style", "p_sty", "nc0", "nc1", "x"} \cup NoiseSaved
             \cup {Blocks[j] : j \in 1 .. 6}

TypeOK ==
  /\ mode \in 0 .. 2 /\ frames \in Nat /\ block \in 0 .. 6
  /\ a \in Nat /\ samples \in Nat
  /\ DOMAIN host \subseteq Buffers
  /\ \A b \in DOMAIN host : host[b].elem \in {2, 4}
  /\ retired \in Nat

(* No tensor of the scratch arena is used after the arena was reset under  *)
(* it: what is needed later was saved.                                     *)
ArenaFresh == ~ \E f \in faults : f[1] = "arena"

(* The last stage reads two buffers under one flag for their width.        *)
OneWidth == host["r2"].elem = host["r3"].elem
             /\ host["r2"].elem = (IF mode >= 1 THEN 2 ELSE 4)

(* No row is read from a page that was given back, from a buffer that was  *)
(* freed or taken over, or as fp16 when it is not, whatever is carried.    *)
PagesLive ==
  /\ ~ \E f \in faults : f[1] \in {"pages", "heap"}
  /\ pc = "istft" => OneWidth

(* Whatever a stage reads is still there, in the arena, on the heap or in  *)
(* pages.                                                                  *)
ReadsLive == ArenaFresh /\ PagesLive

(* Pages are unmapped exactly once: the compression of a buffer, the       *)
(* prefixes retired from it and its end add up to what was mapped.         *)
UnmappedOnce == ~ \E f \in faults : f[1] = "unmap"

(* Segment by segment, the convolutions of the noise and the residual      *)
(* blocks give what the whole signal at once would give: no row of it from *)
(* rows the window lacks, or that were already updated in place.           *)
SegmentsExact ==
  /\ pc \in {"nc1", "noiseEnd", "r1", "middle", "r3", "tail"} =>
       \A t \in DOMAIN out : out[t] = 3
  /\ pc = "hifi" => \A t \in DOMAIN out : out[t] = 0

(* Every sample that is returned was written, with all its frames.         *)
SamplesExact == pc = "istft" /\ a = L1 => \A p \in DOMAIN audio : audio[p]

(* When the samples are returned no buffer is left.                        *)
NothingKept == pc = "idle" => host = <<>> /\ heap = {}

(* What was obtained is given back, once.                                  *)
FreedOnce == UnmappedOnce /\ NothingKept

(* Segments give the signal that the whole at once would give.             *)
WholeSignal == SegmentsExact /\ SamplesExact

=============================================================================
