\* terminate() against two calls: what it leaves in the map, and to whom.
SPECIFICATION Spec
CONSTANTS
  c1 = c1
  c2 = c2
  g1 = g1
  g2 = g2
  r1 = r1
  r2 = r2
  Callers <- MCCallers
  Gens <- MCGens
  Slots <- MCSlots
  Keys = {k1}
  Stoppers = {s1}
  Calls = {"terminate"}
  Results = {"Completed"}
  Ops = {"get_or_spawn", "get", "clone"}
  None = None
SYMMETRY Symmetry
\* The system stops when no slot or generation is left to the callers.
CHECK_DEADLOCK FALSE
INVARIANTS
  AcquisitionTypeOK
  OneActivePerKey
  LeaseKeepsAlive
  OutcomeAfterCleanup
  StoppedMapIsReservations
