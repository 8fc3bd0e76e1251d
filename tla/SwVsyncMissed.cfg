SPECIFICATION Spec
CONSTANTS
  Callers = {c1, c2}
  Periods = {2, 3}
  Word = 12
  MaxTime = 9
  MaxCalls = 3
  MaxUevents = 1
INVARIANTS
  NextIsAhead
CHECK_DEADLOCK FALSE
