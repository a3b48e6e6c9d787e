----------------------------- MODULE MCTraceRing -----------------------------
(***************************************************************************)
(* The trace ring for TLC.  Two writers race for the lock, the ring holds  *)
(* two entries and wraps, an observer may trace from its callback.         *)
(***************************************************************************)
EXTENDS TraceRing, TLC

(* Writers are interchangeable, and so are observers.                      *)
Symmetry == Permutations(Writers) \cup Permutations(Observers)

=============================================================================
