----------------------------- MODULE MCDomain -----------------------------
(* Model values for Domain.  Generations are interchangeable, and so are the *)
(* callers that stop the domain, so the safety runs may identify them.       *)
EXTENDS Domain, TLC

CONSTANTS g1, g2, s1, s2

MCGens == {g1, g2}
MCStoppers == {s1, s2}
Symmetry == Permutations(MCGens) \cup Permutations(MCStoppers)
=============================================================================
