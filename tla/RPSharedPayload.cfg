\* Two calls at once: the request of one carries the values of the other.
SPECIFICATION Spec
CONSTANTS
  NONE = NONE
  c1 = c1
  c2 = c2
  s1 = s1
  s2 = s2
  n1 = n1
  n2 = n2
  CorrIds = {c1, c2}
  Values = {s1, s2, n1, n2}
  HashCode <- InjectiveHash
  QueryIds = {}
  Request <- AllRequests
  Response <- AllResponses
  Callbacks = {FALSE}
  MaxAge = 1
  MaxTime = 0
  Calls = {1, 2}
  Verifications = {}
  PassBys = {"REFERENCE", "VALUE", "NONE"}
  Serial = FALSE
  FreshIds = TRUE
  FreshStates = TRUE
  Arguments <- UriArguments
INVARIANTS RequestKeepsItsValues
