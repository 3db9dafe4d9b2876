\* All calls of the context, against each other.
SPECIFICATION Spec
CONSTANTS
  c1 = c1
  c2 = c2
  g1 = g1
  g2 = g2
  r1 = r1
  r2 = r2
  Callers <- MCCallers
  Gens <- MCGens
  Slots <- MCSlots
  Keys = {k1}
  Stoppers = {}
  Calls = {}
  Results = {"Completed"}
  Ops = {"get_or_spawn", "try_get_or_spawn", "spawn", "unique", "get", "upgrade", "clone"}
  None = None
SYMMETRY Symmetry
\* The system stops when no slot or generation is left to the callers.
CHECK_DEADLOCK FALSE
INVARIANTS
  ReservationHasOneOwner
  LeasedIsRegistered
  WaiterHasNotifier
PROPERTIES
  KeepsRegistry
  KeepsIdentity
