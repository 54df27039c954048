\* Two offers, two calls in flight, an entry may expire at any time of its own
\* or after the life of the manager.
SPECIFICATION FairSpec
CONSTANTS
  NONE = NONE
  Ids = {"k1", "k2"}
  Codes = {"p1", "s1", "p2"}
  KeyObject <- MCKeyObject
  MaxCalls = 2
  ExpiresIn = 0
  Expiries <- MCExpiries
  MaxTime = 1
INVARIANTS StatesTypeOK LiveIsFindable
PROPERTIES LookupSpec RoutineClears
CHECK_DEADLOCK FALSE
