------------------------------- MODULE Windows -------------------------------
(***************************************************************************)
(* The windows of src/src/kittens.c: long signals are computed a segment   *)
(* at a time, each from a window of its input that must hold all that the  *)
(* segment's rows depend on.  Rows, frames and samples count from 0.       *)
(***************************************************************************)
EXTENDS Integers

(* A segment begins at a; it ends before, and the window reaches ...       *)
SegmentEnd(a, len, L) == IF a + len > L THEN L ELSE a + len
Back(a, n) == IF a - n < 0 THEN 0 ELSE a - n
Ahead(b, n, L) == IF b + n > L THEN L ELSE b + n

-----------------------------------------------------------------------------
(* Convolutions.                                                           *)

(* tensor_conv_out_len() without dilation.                                 *)
ConvLen(L, K, stride, pad) == ((L + 2 * pad - (K - 1) - 1) \div stride) + 1

(* The rows of 0 .. L - 1 that row t of a convolution of odd length reads, *)
(* padded to keep the length: reach = dilation * (K - 1) / 2.              *)
Near(t, reach, L) == {i \in t - reach .. t + reach : 0 <= i /\ i < L}

(* The rows, of the signal or of the zeroes around it, that row v of a     *)
(* strided convolution reads.                                              *)
Under(v, K, stride, pad) == stride * v - pad .. stride * v - pad + K - 1

(* The slice that gives rows va .. va + n - 1: where it starts in the      *)
(* signal and how many rows it has.                                        *)
SliceStart(va, stride, pad) == va * stride - pad
SliceRows(n, K, stride) == (n - 1) * stride + K

(* A slice of so many rows has to give count rows from va on, row v from   *)
(* the rows of the signal that the convolution of the whole would read.    *)
SliceGives(v, va, count, rows, K, stride, pad) ==
  LET reads == Under(v - va, K, stride, 0)
  IN  /\ ConvLen(rows, K, stride, 0) = count
      /\ reads \subseteq 0 .. rows - 1
      /\ {SliceStart(va, stride, pad) + i : i \in reads} = Under(v, K, stride, pad)

-----------------------------------------------------------------------------
(* The inverse transform: frame f adds to samples 5 f .. 5 f + Kb - 1.     *)

AudioLen(L, Kb) == (L - 1) * 5 + Kb
FramesOf(p, Kb, L) == {f \in 0 .. L - 1 : 5 * f <= p /\ p < 5 * f + Kb}
FrameOverlap(Kb) == (Kb + 3) \div 5

(* Of the segment a .. b - 1: the first frame it computes, the samples it  *)
(* keeps.                                                                  *)
FirstFrame(a, Kb) == Back(a, FrameOverlap(Kb))
FirstRow(a, Kb, pad) == Back(a, FrameOverlap(Kb) + pad)
FirstSample(a) == a * 5
SamplesEnd(b, L, Kb) == IF b = L THEN AudioLen(L, Kb) ELSE b * 5

-----------------------------------------------------------------------------
(* The pages that hold rows lo .. hi - 1 of elem bytes each, and how many  *)
(* pages lie wholly before row lo.                                         *)
PagesOfRows(lo, hi, elem, page) == (lo * elem) \div page .. (hi * elem - 1) \div page
PagesBefore(lo, elem, page) == (lo * elem) \div page

=============================================================================
