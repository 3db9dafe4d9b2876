\* Two generations that may lease each other, and one terminate(): leases keep
\* what they are on, and what no path of leases reaches is reclaimed.
SPECIFICATION DepFair
CONSTANTS
  g1 = g1
  g2 = g2
  Gens <- Pair
  Stoppers = {s1}
  Calls = {"terminate"}
  Results = {"Completed"}
  Outside = Outside
  None = None
  Edges <- EachOther
\* Everything may be over, and nobody has to give up a lease.
CHECK_DEADLOCK FALSE
INVARIANTS
  DepTypeOK
  DependencyAlive
  OutcomeReleasesDependencies
PROPERTIES
  NoResurrection
  UnreachableIsReclaimed
