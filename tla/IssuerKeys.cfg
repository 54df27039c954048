\* Two offers under one correlation id, the issuer's own tokens or those of an
\* external authorization server with the code under both names, credential
\* requests that name the other offer's issuer state, the challenge endpoint,
\* expiry of the two stores one after the other.
SPECIFICATION Spec
CONSTANTS
  NONE = NONE
  Offers = {o1, o2}
  Codes = {c1, c2}
  CorrIds = {k1}
  Nonces = {}
  Requests = {r1}
  Events = {"credential_accepted"}
  SessionLife = 0
  CodeLife = 1
  NonceLife = 0
  ProofLife = 0
  MaxTime = 1
  OwnTokens = {TRUE, FALSE}
  ExternalClaims = {"preAuthorizedCode", "pre-authorized_code"}
  ForeignState = TRUE
  ReuseCodes = FALSE
  ChallengeEnabled = TRUE
SYMMETRY Symmetry
INVARIANTS TypeOK SignedOnRedeemedCode   NotifiedOnlyAfterIssue
