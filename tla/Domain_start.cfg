\* The documented start order, against a generation the domain refuses.
SPECIFICATION DomainSpec
CONSTANTS
  Gens = {g1}
  Stoppers = {s1}
  Calls = {"cancel"}
  Results = {"Completed"}
CHECK_DEADLOCK FALSE
INVARIANT
  TaskStartsAfterRegistration
