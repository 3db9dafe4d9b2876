--------------------------- MODULE MCAcquisition ---------------------------
(* Model values for Acquisition: callers, generations and slots are each    *)
(* interchangeable, so the safety runs may identify them.                   *)
EXTENDS Acquisition, TLC

CONSTANTS c1, c2, g1, g2, r1, r2

MCCallers == {c1, c2}
MCGens == {g1, g2}
MCSlots == {r1, r2}

Symmetry ==
  Permutations(MCCallers) \cup Permutations(MCGens) \cup Permutations(MCSlots)
=============================================================================
