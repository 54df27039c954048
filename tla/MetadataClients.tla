---------------------------- MODULE MetadataClients ----------------------------
(***************************************************************************)
(* How a wallet finds an issuer's endpoints: the three MetadataClients, as *)
(* operators without state on the documents the well-known locations       *)
(* answer with.                                                            *)
(*                                                                         *)
(* An endpoint is represented by the host that serves it, Guess stands for *)
(* `${issuer}/token` or `${issuer}/credential`, made up by the client, and *)
(* a document that is not there by NONE.                                   *)
(***************************************************************************)
EXTENDS Sequences, TLC

CONSTANTS
    Configs,   \* credential configuration ids
    NONE       \* undefined

Issuer == "self"
Hosts  == {Issuer, "as"}
Guess  == "guess"
Failed == [error |-> TRUE]

Optional(S) == S \cup {NONE}

\* /.well-known/openid-credential-issuer
IssuerDocs ==
    [credential : Optional(Hosts), token : Optional(Hosts), deferred : Optional(Hosts),
     nonce : Optional(Hosts), challenge : Optional(Hosts), authorization : Optional(Hosts),
     servers : Optional({<<>>, <<"self">>, <<"as">>, <<"as", "self">>}),
     server : Optional(Hosts), par : Optional(Hosts), requirePar : BOOLEAN,
     configs : SUBSET Configs]

\* /.well-known/openid-configuration or /.well-known/oauth-authorization-server
ServerDocs ==
    [authorization : Optional(Hosts), token : Optional(Hosts), challenge : Optional(Hosts),
     credential : Optional(Hosts), deferred : Optional(Hosts), par : Optional(Hosts),
     requirePar : BOOLEAN]

\* general: MetadataClient; the others are named for their protocol version
Variants == {"general", "V15", "V1"}

\* Which client serves which wallet: MetadataClient hands an offer to the V15
\* client, and only issuers without an offer to itself.
VariantFor(kind, offered) == IF kind = "general" /\ offered THEN "V15" ELSE kind

-----------------------------------------------------------------------------

\* A V15 client that looks for the server at the issuer only
ServersOfIssuer(variant, ci) ==
    IF ci # NONE /\ ci.servers # NONE /\ variant # "V15" THEN ci.servers ELSE <<Issuer>>

\* The authorization servers the issuer names. The V1 client keeps the issuer
\* itself when the list is empty, the general one reads the singular name.
ServersOf(variant, ci) ==
    IF ci = NONE THEN <<Issuer>>
    ELSE IF ci.servers # NONE /\ ~(variant = "V1" /\ ci.servers = <<>>) THEN ci.servers
    ELSE IF ci.servers = NONE /\ variant = "general" /\ ci.server # NONE THEN <<ci.server>>
    ELSE <<Issuer>>

\* Only the first server is asked; an empty list has no first (a TypeError).
CanAsk(variant, ci) == ServersOf(variant, ci) # <<>>
AskedServer(variant, ci) == Head(ServersOf(variant, ci))

\* Without an issuer document the general client gives up at once.
NeedsIssuerDoc(variant) == variant = "general"

\* A separate authorization server must publish a document, for its token
\* endpoint cannot be guessed.
ServerMissing(servers, as) == as = NONE /\ \A i \in DOMAIN servers : servers[i] # Issuer

\* What the issuer's document and the server's document must agree on
Conflicting(ci, as) ==
    /\ as # NONE
    /\ \/ as.token = NONE
       \/ /\ ci # NONE
          /\ \/ ci.challenge # NONE /\ as.challenge # ci.challenge
             \/ ci.token # NONE /\ as.token # ci.token

Field(doc, f) == IF doc = NONE THEN NONE ELSE doc[f]
Or(a, b) == IF a # NONE THEN a ELSE b

\* determineTokenURL: the caller's server, the metadata, then a guess
TokenURL(asOpts, metadata) == Or(asOpts, Or(metadata, Guess))

\* The issuer's credential and deferred endpoint win over the server's.
CredentialOf(ci, as) == Or(Field(ci, "credential"), Field(as, "credential"))
DeferredOf(ci, as)   == Or(Field(ci, "deferred"), Field(as, "deferred"))
TokenOf(ci, as)      == IF as # NONE THEN as.token ELSE Field(ci, "token")

\* A server with a document answers for the challenge endpoint.
ChallengeOf(ci, as)  == IF as # NONE THEN as.challenge ELSE Field(ci, "challenge")

\* The issuer metadata the V15 and the V1 client hand out is rebuilt from the
\* parts they know: the authorization and the challenge endpoint, the token
\* endpoint, the singular server and pushed requests are dropped. With no issuer document
\* they take the server's for it, which names no configurations.
RebuiltIssuerDoc(variant, ci, as) ==
    LET servers == ServersOf(variant, ci)
    IN  [credential |-> Or(CredentialOf(ci, as), Guess),
         token |-> NONE, challenge |-> NONE, authorization |-> NONE, server |-> NONE,
         par |-> NONE, requirePar |-> FALSE,
         deferred |-> DeferredOf(ci, as), nonce |-> Field(ci, "nonce"),
         servers |-> IF ci # NONE /\ ci.servers \notin {NONE, <<>>} THEN ci.servers ELSE servers,
         configs |-> IF ci = NONE THEN {} ELSE ci.configs]

\* The result: top-level endpoints, then the two documents. The V1 client
\* puts the issuer's under credentialIssuerMetadataFieldNamesV1_0.
Result(variant, ci, as) ==
    [token |-> Or(TokenOf(ci, as), Guess),
     credential |-> Or(CredentialOf(ci, as), Guess),
     challenge |-> ChallengeOf(ci, as),
     deferred |-> IF variant = "general" THEN DeferredOf(ci, as) ELSE NONE,
     nonce |-> IF variant = "general" THEN ci.nonce ELSE NONE,
     authorization |-> IF variant = "general" THEN Field(as, "authorization") ELSE NONE,
     ci |-> CASE variant = "general" -> ci
              [] variant = "V15" -> RebuiltIssuerDoc(variant, ci, as)
              [] variant = "V1" -> NONE,
     ciV1 |-> IF variant = "V1" THEN RebuiltIssuerDoc(variant, ci, as) ELSE NONE,
     as |-> as]

\* retrieveAllMetadata once the answers are in. Guessing can be turned off
\* (errorOnNotFound), which no wallet does.
Merge(variant, ci, as, errorOnNotFound) ==
    IF \/ ci = NONE /\ NeedsIssuerDoc(variant)
       \/ ServerMissing(ServersOf(variant, ci), as)
       \/ Conflicting(ci, as)
       \/ errorOnNotFound /\ NONE \in {TokenOf(ci, as), CredentialOf(ci, as)}
    THEN Failed
    ELSE Result(variant, ci, as)

\* The whole of a discovery in which every location answers: at most three
\* requests, the OAuth document only where there is no OpenID configuration.
RetrieveAll(variant, site) ==
    IF \/ site.ci = NONE /\ NeedsIssuerDoc(variant)
       \/ ~CanAsk(variant, site.ci)
    THEN Failed
    ELSE LET host == AskedServer(variant, site.ci)
         IN  Merge(variant, site.ci, Or(site.oidc[host], site.oauth[host]), FALSE)
=============================================================================
