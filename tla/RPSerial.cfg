\* Serial calls that may reuse a correlation id or a state, whose
\* states have the same hash.
SPECIFICATION Spec
CONSTANTS
  NONE = NONE
  c1 = c1
  c2 = c2
  s1 = s1
  s2 = s2
  n1 = n1
  n2 = n2
  CorrIds = {c1, c2}
  Values = {s1, s2, n1, n2}
  HashCode <- CollidingStates
  QueryIds = {}
  Request <- AllRequests
  Response <- AllResponses
  Callbacks = {FALSE}
  MaxAge = 1
  MaxTime = 2
  Calls = {k1, k2}
  Verifications = {1}
  PassBys = {"REFERENCE", "VALUE"}
  Serial = TRUE
  FreshIds = FALSE
  FreshStates = FALSE
  Arguments <- UriArguments
SYMMETRY Symmetry
INVARIANTS TransactionsTypeOK LiveRequestIsFindable MappedHasRecord
PROPERTIES VerifiedForItsCall EntryLeavesWithItsTransaction
