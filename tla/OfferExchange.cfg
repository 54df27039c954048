\* Two offers from one grants object, a wallet that reads URIs and shows them again.
SPECIFICATION Spec
CONSTANTS
  NONE = NONE
  Configs = {"a", "b"}
  Clients = {"c1", "c2"}
  Ids = {"k1", "k2"}
  Wallets = {"w1"}
  Requests <- MCRequests
INVARIANTS TermsSurviveTheURI PinAgreement
PROPERTIES ReferenceNotReplayed
CHECK_DEADLOCK FALSE
