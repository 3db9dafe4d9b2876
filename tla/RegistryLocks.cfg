\* Two threads, two keys in two shards, two slots that are used again and again, and
\* two lookups at a time of any of the keys in the Drop of an interface.
SPECIFICATION LocksSpec
CONSTANTS
  k1 = k1
  k2 = k2
  s1 = s1
  s2 = s2
  t1 = t1
  t2 = t2
  n1 = n1
  n2 = n2
  Threads <- MCThreads
  Nested <- MCNested
  Keys = {k1, k2}
  Slots <- MCSlots
  Shard <- MCShard
  Lookups <- MCLookups
  MaxNum = 2
  None = None
\* A lookup that goes backwards may block every thread for ever.
CHECK_DEADLOCK FALSE
\* Threads, lookups and slots are interchangeable.
SYMMETRY Symmetry
INVARIANTS
  LocksTypeOK
  OnlyBackwardLookUpsBlock
PROPERTIES
  CallsAreAtomic
