\* A runtime lost before the first poll of a supervising task, against
\* terminate()'s promise to end in quiescence.
SPECIFICATION CompletionFair
CONSTANTS
  Gens = {g1}
  Stoppers = {s1}
  Observers = {o1}
  Calls = {"terminate"}
  Results = {"Completed"}
  Faults = {"unpolled"}
  None = None
CHECK_DEADLOCK FALSE
PROPERTY
  StopReturns
