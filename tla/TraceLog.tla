------------------------------- MODULE TraceLog -------------------------------
(***************************************************************************)
(* What the trace ring of src/src/trace.c promises its readers: a log that *)
(* only grows, of which the last entries can be read and never change.     *)
(* While one entry is being written the slot it takes is not readable, so  *)
(* the promise covers Capacity - 1 entries.                                *)
(***************************************************************************)
EXTENDS Integers

CONSTANT Capacity

VARIABLES head, window

vars == <<head, window>>

(* The indices below h that no writer can be rewriting.                    *)
Retained(h) == {i \in (h - Capacity + 1) .. (h - 1) : i >= 0}

Init ==
  /\ head = 0
  /\ window = [i \in {} |-> 0]

(* One more entry, whatever it is; the ones still retained are unchanged.  *)
Append ==
  /\ head' = head + 1
  /\ DOMAIN window' = Retained(head + 1)
  /\ \A i \in Retained(head + 1) \ {head} : window'[i] = window[i]

Spec == Init /\ [][Append]_vars

=============================================================================
