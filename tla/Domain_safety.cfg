\* Two generations and two callers of any of the three calls, all interleavings.
SPECIFICATION DomainSpec
CONSTANTS
  g1 = g1
  g2 = g2
  s1 = s1
  s2 = s2
  Gens <- MCGens
  Stoppers <- MCStoppers
  Calls = {"cancel", "shutdown", "terminate"}
  Results = {"Completed", "Failed", "Panicked"}
SYMMETRY Symmetry
\* A domain whose generations are closed and whose callers returned stops.
CHECK_DEADLOCK FALSE
INVARIANTS
  TypeOK
  TerminatedIsQuiescent
  NoLostWakeup
  ShutdownHasAnEnder
  CancelSignalsEveryTask
PROPERTIES
  KeepsLifecycle
