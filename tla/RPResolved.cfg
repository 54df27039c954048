\* One call, every way to build its request, two responses to it at once.
SPECIFICATION FairSpec
CONSTANTS
  NONE = NONE
  c1 = c1
  c2 = c2
  s1 = s1
  s2 = s2
  n1 = n1
  n2 = n2
  CorrIds = {c1}
  Values = {s1, n1}
  HashCode <- InjectiveHash
  QueryIds = {q1}
  Request <- AllRequests
  Response <- AllResponses
  Callbacks = {FALSE, TRUE}
  MaxAge = 1
  MaxTime = 2
  Calls = {1}
  Verifications = {1, 2}
  PassBys = {"REFERENCE", "VALUE", "NONE"}
  Serial = TRUE
  FreshIds = TRUE
  FreshStates = TRUE
  Arguments <- AllArguments
PROPERTIES ResponseResolved
