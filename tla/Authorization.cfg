SPECIFICATION Spec
CONSTANTS
    NONE = NONE
    c1 = c1
    c2 = c2
    a1 = a1
    a2 = a2
    Configs <- MCConfigs
    Calls <- MCCalls
    Sites <- MCSites
    Requests <- MCRequests
    Wallets <- MCWallets
    MaxUrls = 2
SYMMETRY CallsAlike
INVARIANTS
    AuthorizationTypeOK
    ClientsAgree
    RequiredParIsUsed
    RequestUriIsStored
    CodeIsRedeemable
CHECK_DEADLOCK FALSE
