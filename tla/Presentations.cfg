\* Two transactions of an RP that passes signed requests by reference or by
\* value, with every key and client id that fit, and a wallet with a response
\* mode of its own.
SPECIFICATION Spec
CONSTANTS
  NONE = NONE
  REJECTED = REJECTED
  u1 = u1
  u2 = u2
  Uris = {u1, u2}
  Transactions = {1, 2}
  RPs <- SignedRPs
  OPs <- AllOPs
  Calls <- SignedCalls
  Holdings = {{"jwt"}, {"mdoc"}, {"jwt", "mdoc"}}
INVARIANTS OwnMessagesAccepted SignedValuesPrevail EncryptedAsAsked
CHECK_DEADLOCK FALSE
