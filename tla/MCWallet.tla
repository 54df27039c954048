---- MODULE MCWallet ----
EXTENDS Wallet

CONSTANTS c1, c2, a1, a2

MCConfigs == {c1, c2}
MCCalls == {a1, a2}

W(kind, offer, nonceAt, deferredAt) ==
    [kind |-> kind, offer |-> offer, client |-> TRUE, v1 |-> FALSE, flow |-> FALSE,
     nonceAt |-> nonceAt, deferredAt |-> deferredAt, verifier |-> TRUE, code |-> FALSE,
     keys |-> {}, token |-> NONE, nonce |-> NONE]
O(flows, configs, tx) == [flows |-> flows, configs |-> configs, tx |-> tx]
Pin == [mode |-> "numeric", length |-> 4]

MCWallets ==
    {W(k, O({"pre-authorized_code"}, {c1}, Pin), TRUE, d) : k \in Kinds, d \in BOOLEAN}
    \cup {W(k, O({"authorization_code"}, {c1, c2}, NONE), TRUE, FALSE) : k \in Kinds}
    \cup {W("general", O(Grants, {c1}, NONE), FALSE, TRUE),
          [W("general", NONE, TRUE, FALSE) EXCEPT !.flow = TRUE],
          [W("general", NONE, TRUE, FALSE) EXCEPT !.v1 = TRUE, !.flow = TRUE],
          W("V15", NONE, FALSE, FALSE)}

T(dpop, pin, code) == [dpop |-> dpop, pin |-> pin, code |-> code, assertion |-> FALSE, callback |-> FALSE]
D4 == [alphabet |-> "digits", length |-> 4]
MCTokenArgs ==
    {T("none", D4, FALSE), T("algorithms", D4, FALSE), T("algorithms", NONE, TRUE),
     T("options", NONE, TRUE), T("none", [D4 EXCEPT !.length = 5], FALSE),
     [T("none", NONE, TRUE) EXCEPT !.assertion = TRUE]}

C(keys, config, identifier, dpop, await) ==
    [keys |-> keys, config |-> config, identifier |-> identifier, dpop |-> dpop, await |-> await]
MCCredentialArgs ==
    {C({"kid"}, NONE, NONE, TRUE, TRUE), C({"jwk"}, c2, NONE, FALSE, FALSE),
     C({"kid", "jwk"}, c1, NONE, FALSE, FALSE), C({"kid"}, NONE, c2, FALSE, TRUE)}
====
