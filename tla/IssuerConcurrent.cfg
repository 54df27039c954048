\* The issuer signs its own access tokens: one offer with both grants, two
\* requests in flight, everything may expire under them.  Callbacks settle, and
\* the challenge endpoint is disabled as by default.
SPECIFICATION FairSpec
CONSTANTS
  NONE = NONE
  Offers = {o1}
  Codes = {c1, c2}
  CorrIds = {k1}
  Nonces = {n1}
  Requests = {r1, r2}
  Events = {"credential_accepted"}
  SessionLife = 0
  CodeLife = 1
  NonceLife = 0
  ProofLife = 0
  MaxTime = 1
  OwnTokens = {TRUE}
  ExternalClaims = {}
  ForeignState = FALSE
  ReuseCodes = FALSE
  ChallengeEnabled = FALSE
INVARIANTS NonceUseBounded
PROPERTIES  ReceivedIsResolved
