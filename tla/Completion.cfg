\* One generation and two observers of any kind, losses of its runtime at any
\* point, stopped or not.
SPECIFICATION CompletionFair
CONSTANTS
  Gens = {g1}
  Stoppers = {s1}
  Observers = {o1, o2}
  Calls = {"shutdown"}
  Results = {"Completed"}
  Faults = {"unpolled", "polled"}
  None = None
\* Everything may be dropped or over.
CHECK_DEADLOCK FALSE
INVARIANTS
  CompletionTypeOK
  ObserversTellTheOutcome
  TerminatedIsSettled
PROPERTIES
  ObserverReturns
  StopSurvivesLoss
  VerdictIsFinal
