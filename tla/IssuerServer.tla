------------------------------ MODULE IssuerServer ------------------------------
(***************************************************************************)
(* What an OID4VCIServer serves, from the options it is constructed with,  *)
(* as operators without state, and its pushed authorization request        *)
(* endpoint.                                                               *)
(*                                                                         *)
(* A setup is                                                              *)
(*   issuer      the VcIssuer is given, or built from the environment       *)
(*   servers     authorization_servers of the issuer metadata, where       *)
(*               "self" is the credential issuer, "child" an address under *)
(*               it and "as" another host                                  *)
(*   asClient    who sets the client metadata for an external server       *)
(*   tokenOff    how the token endpoint is turned off, if it is            *)
(*   signer      whether an access token signer callback is given          *)
(*   challenge   the authorization challenge options                       *)
(*   location    where the well-known documents are served                 *)
(*   basePath    whether the base url has a path                           *)
(*   configs     the credential configurations supported                   *)
(***************************************************************************)
EXTENDS Sequences, FiniteSets

CONSTANTS Configs, NONE

Setups ==
    [issuer : {"given", "environment"}, servers : {NONE, <<>>, <<"self">>, <<"child">>, <<"as">>, <<"as", "self">>},
     asClient : {"none", "server", "issuer"}, tokenOff : {"no", "option", "env"},
     signer : BOOLEAN, challenge : {"off", "on", "noRequest", "noVerify"},
     location : {"AT_CONTEXT_PATH", "AT_ROOT_PATH", "AT_BOTH"},
     basePath : BOOLEAN, configs : SUBSET Configs]

Named(setup) == IF setup.servers = NONE THEN {} ELSE {setup.servers[i] : i \in DOMAIN setup.servers}

\* isExternalAS: an address that does not contain the issuer's
ExternalAS(setup) == "as" \in Named(setup)

\* Not enabled with an external server, or with client metadata on the issuer
HandsOver(setup) == ExternalAS(setup) \/ setup.asClient = "issuer"

\* isTokenEndpointDisabled as the constructor calls it, with both options, ...
TokenDisabled(setup) == setup.tokenOff # "no" \/ setup.asClient = "server"

\* ... and as assertAccessTokenHandling does, which is called without the token
\* endpoint's options and looks at the issuer's client metadata
AssertSeesDisabled(setup) == setup.tokenOff = "env" \/ setup.asClient = "issuer"

\* assertAccessTokenHandling
TokenHandlingFits(setup) ==
    IF AssertSeesDisabled(setup)
    THEN Named(setup) # {}
    ELSE Named(setup) \subseteq {"self"} /\ setup.asClient = "none"

\* The credential endpoint's default token verification reads the first server.
VerifierFits(setup) == setup.asClient = "none" \/ setup.servers # NONE

\* accessTokenEndpoint is reached, and does not return early
ServesToken(setup) == ~TokenDisabled(setup) /\ ~HandsOver(setup)

ChallengeFits(setup) == setup.challenge \in {"off", "on"}

\* buildVCIFromEnvironment calls these setters of its VcIssuerBuilder ...
EnvironmentSets == {"authorization_servers", "credential_endpoint", "nonce_endpoint",
                    "credential_issuer", "configurations", "offers", "nonces"}
\* ... and build, which throws without one of these
BuildNeeds == {"offers", "nonces", "authorization_metadata", "credential_endpoint",
               "credential_issuer", "configurations"}
IssuerFits(setup) == setup.issuer = "environment" => BuildNeeds \subseteq EnvironmentSets

\* The constructor throws at the first of these that does not hold.
Starts(setup) ==
    /\ IssuerFits(setup)
    /\ VerifierFits(setup)
    /\ TokenHandlingFits(setup)
    /\ ServesToken(setup) => setup.signer
    /\ ChallengeFits(setup)

\* The documents are served under the base path, or at the root with the base
\* path appended, which there must be one for.
AtContextPath(setup) == setup.location \in {"AT_CONTEXT_PATH", "AT_BOTH"}
AtRoot(setup) == setup.basePath /\ setup.location \in {"AT_ROOT_PATH", "AT_BOTH"}

ServesPar(setup) == ~HandsOver(setup)

\* Endpoints of a server that started. Status, payload and nonce are served
\* unless their option and the environment both say no.
Served(setup) ==
    {"credential", "offer", "create_offer", "status", "payload", "nonce"}
        \cup {e \in {"par"} : ServesPar(setup)}
        \cup {e \in {"token"} : ServesToken(setup)}
        \cup {e \in {"challenge"} : setup.challenge = "on"}
        \cup {e \in {"metadata"} : AtContextPath(setup)}
        \cup {e \in {"root_metadata"} : AtRoot(setup)}

-----------------------------------------------------------------------------
(* POST /par *)

\* validateRequestBody: all of the required fields, one of the conditional
ValidBody(body) ==
    /\ NONE \notin {body.client, body.challenge, body.redirect}
    /\ body.scope # NONE \/ body.details # NONE

\* The client, which is not registered yet: these redirect uris, these scopes
Redirects == {"r1", "r2"}
Scopes    == {"openid", "test"}

\* The status the endpoint answers with. A body with details alone passes
\* the check and then fails where its scope is split.
ParStatus(setup, body) ==
    CASE ~ValidBody(body) -> 400
      [] body.redirect \notin Redirects -> 400
      [] body.scope = NONE -> 500
      [] body.scope \notin Scopes -> 400
      [] body.details # NONE /\ ~(body.details \subseteq setup.configs) -> 400
      [] OTHER -> 201

\* Requests the endpoint keeps for the authorization endpoint; and a variant
\* that keeps only those with details
ParKeptWithDetails(status, body) == status = 201 /\ body.details # NONE
ParKept(status, body) == status = 201
=============================================================================
