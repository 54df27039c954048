SPECIFICATION FairSpec
CONSTANTS
    c1 = c1
    c2 = c2
    a1 = a1
    a2 = a2
    NONE = NONE
    Configs <- MCConfigs
    Calls <- MCCalls
    Wallets <- MCWallets
    TokenArgs <- MCTokenArgs
    CredentialArgs <- MCCredentialArgs
    MaxStarts = 3
    MaxNonces = 2
    MaxPolls = 1
CHECK_DEADLOCK FALSE
INVARIANTS WalletTypeOK CodeRedeemedOnce ProofHasNonce
PROPERTY CallsEnd
