\* shutdown() with tasks that cooperate, terminate() with tasks that do not.
SPECIFICATION StubbornSpec
CONSTANTS
  Gens = {g1, g2}
  Stoppers = {s1}
  Calls = {"shutdown", "terminate"}
  Results = {"Completed"}
CHECK_DEADLOCK FALSE
PROPERTIES
  CooperativeStopReturns
  TerminateReturns
  KeepsLifecycleLive
