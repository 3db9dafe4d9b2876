\* shutdown() against two acquisitions with one generation and two slots: nobody
\* is left waiting, and what nobody holds is reclaimed.
SPECIFICATION FairSpec
CONSTANTS
  Callers = {c1, c2}
  Gens = {g1}
  Slots = {r1, r2}
  Keys = {k1}
  Stoppers = {s1}
  Calls = {"shutdown"}
  Results = {"Completed"}
  Ops = {"get_or_spawn"}
  None = None
\* The system stops when no slot or generation is left to the callers.
CHECK_DEADLOCK FALSE
PROPERTIES
  WaiterIsWoken
  UnleasedIsReclaimed
