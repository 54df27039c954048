\* An RP that passes its requests without a request object.
SPECIFICATION Spec
CONSTANTS
  NONE = NONE
  REJECTED = REJECTED
  u1 = u1
  u2 = u2
  Uris = {u1, u2}
  Transactions = {1}
  RPs <- UnsignedRPs
  OPs <- AllOPs
  Calls <- UnsignedCalls
  Holdings = {{"jwt"}}
INVARIANT UnsignedRequestsAccepted
CHECK_DEADLOCK FALSE
