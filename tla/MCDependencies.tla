--------------------------- MODULE MCDependencies ---------------------------
(* The dependency graph of the run of module Dependencies: two generations  *)
(* that may lease each other, which gives chains both ways and a cycle.     *)
EXTENDS Dependencies

CONSTANTS g1, g2

Pair == {g1, g2}
EachOther == {<<g1, g2>>, <<g2, g1>>}
=============================================================================
