---- MODULE MCAuthorization ----
EXTENDS Authorization

CONSTANTS c1, c2, a1, a2

MCConfigs == {c1, c2}
MCCalls == {a1, a2}
CallsAlike == Permutations(MCCalls)

BareIssuer == [f \in {"credential", "token", "deferred", "nonce", "challenge",
                      "authorization", "servers", "server", "par"} |-> NONE]
                  @@ [configs |-> {c1}, requirePar |-> FALSE]

ServerDoc(host, parAt, required) ==
    [authorization |-> host, token |-> host, challenge |-> NONE, credential |-> NONE,
     deferred |-> NONE, par |-> parAt, requirePar |-> required]

BareSetup == [issuer |-> "given", servers |-> NONE, asClient |-> "none", tokenOff |-> "no", signer |-> TRUE,
              challenge |-> "off", location |-> "AT_BOTH", basePath |-> FALSE, configs |-> {c1}]

Nothing == [h \in Hosts |-> NONE]

\* The issuer's own server, with its document; or an external one
Internal(ci, setup, doc) == [setup |-> setup, ci |-> ci, oidc |-> Nothing,
                        oauth |-> [Nothing EXCEPT !["self"] = doc]]
External(ci, servers, asClient, oidc, oauth) ==
    [setup |-> [BareSetup EXCEPT !.servers = servers, !.asClient = asClient],
     ci |-> [ci EXCEPT !.servers = servers],
     oidc |-> [Nothing EXCEPT !["as"] = oidc], oauth |-> [Nothing EXCEPT !["as"] = oauth]]

IssuerDocsHere == {BareIssuer, [BareIssuer EXCEPT !.authorization = "self", !.credential = "self"]}

MCSites ==
    {Internal(ci, BareSetup, ServerDoc("self", p, r)) :
        ci \in IssuerDocsHere, p \in {NONE, "self"}, r \in BOOLEAN}
    \cup {Internal(BareIssuer, [BareSetup EXCEPT !.location = l], NONE) : l \in {"AT_BOTH", "AT_ROOT_PATH"}}
    \cup {Internal([BareIssuer EXCEPT !.servers = s], [BareSetup EXCEPT !.servers = s], NONE) :
            s \in {<<>>, <<"self">>}}
    \cup {Internal([BareIssuer EXCEPT !.token = "as"], BareSetup, ServerDoc("self", NONE, FALSE)),
          Internal([BareIssuer EXCEPT !.server = "as"], BareSetup, NONE),
          Internal([BareIssuer EXCEPT !.par = "self", !.requirePar = TRUE], BareSetup, NONE),
          Internal(NONE, [BareSetup EXCEPT !.configs = {}], ServerDoc("self", "self", FALSE)),
          Internal(BareIssuer, [BareSetup EXCEPT !.signer = FALSE], NONE),
          Internal(BareIssuer, [BareSetup EXCEPT !.issuer = "environment"], NONE)}
    \cup {External(ci, <<"as">>, "issuer", ServerDoc("as", p, r), NONE) :
            ci \in IssuerDocsHere, p \in {NONE, "as"}, r \in BOOLEAN}
    \cup {External(BareIssuer, s, "issuer", NONE, d) :
            s \in {<<"as">>, <<"as", "self">>},
            d \in {NONE, [ServerDoc("as", "as", FALSE) EXCEPT !.credential = "as", !.deferred = "as"]}}
    \cup {External([BareIssuer EXCEPT !.credential = "self", !.deferred = "self"], <<"as">>, "issuer",
                   NONE, [ServerDoc("as", "as", TRUE) EXCEPT !.credential = "as"])}

\* Servers that take their issuer from the environment
MCEnvironmentSites ==
    {Internal(BareIssuer, [BareSetup EXCEPT !.issuer = "environment", !.servers = s], NONE) :
        s \in {NONE, <<"self">>}}

MCRequests ==
    {NoOpts,
     [NoOpts EXCEPT !.scope = "openid", !.redirect = "r1", !.client = "client"],
     [NoOpts EXCEPT !.details = {c1}, !.redirect = "r2", !.object = "signed", !.client = "client"],
     [NoOpts EXCEPT !.scope = "other", !.redirect = "app", !.parMode = "NEVER"],
     [NoOpts EXCEPT !.details = {c2}, !.redirect = "r1", !.parMode = "REQUIRE", !.object = "uri"]}

MCWallets == [kind : {"general", "V15"}, offered : BOOLEAN, own : BOOLEAN]
                \cup {[kind |-> "V1", offered |-> TRUE, own |-> FALSE]}
====
