-------------------------- MODULE MCRegistryLocks --------------------------
(* Two keys in two shards, whose interfaces may look up both, and so the key *)
(* they are looked up by; two lookups at a time.                             *)
EXTENDS RegistryLocks, TLC

CONSTANTS k1, k2, s1, s2, t1, t2, n1, n2

MCShard == (k1 :> 1) @@ (k2 :> 2)
MCLookups == {k1, k2} \X {k1, k2}
MCThreads == {t1, t2}
MCNested == {n1, n2}
MCSlots == {s1, s2}
Symmetry ==
  Permutations(MCThreads) \cup Permutations(MCNested) \cup Permutations(MCSlots)
=============================================================================
