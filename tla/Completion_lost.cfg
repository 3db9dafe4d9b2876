\* A runtime lost after the first poll of a supervising task, which leaves the
\* control of its generation Active.
SPECIFICATION CompletionFair
CONSTANTS
  Gens = {g1}
  Stoppers = {s1}
  Observers = {o1}
  Calls = {"shutdown"}
  Results = {"Completed"}
  Faults = {"polled"}
  None = None
CHECK_DEADLOCK FALSE
INVARIANT
  FinishedIsNotGranted
