----------------------------- MODULE Authorization -----------------------------
(***************************************************************************)
(* A wallet that discovers an issuer's endpoints and prepares an           *)
(* authorization request: OpenID4VCIClient and its versions with           *)
(* MetadataClients and AuthorizationCodeClient, against an issuer's server *)
(* (IssuerServer) and an external authorization server.                    *)
(*                                                                         *)
(* The wallet object is shared by concurrent calls, which interleave where *)
(* they await an answer or the application's signature. A location may     *)
(* answer, fail with an HTTP status, or not be reached at all.             *)
(***************************************************************************)
EXTENDS Naturals, FiniteSets, MetadataClients

CONSTANTS
    Calls,      \* concurrent calls of the application
    Sites,      \* the issuers and servers a wallet may meet
    Requests,   \* options of createAuthorizationRequestUrl
    Wallets,    \* [kind, offered, own]: the client, whether it holds an offer,
                \* whether the application supplies the code verifier
    MaxUrls     \* bound: calls of createAuthorizationRequestUrl

INSTANCE IssuerServer

ASSUME AuthorizationConstants == MaxUrls \in Nat \ {0} /\ NONE \notin Nat

VARIABLES
    site,     \* [setup, ci, oidc, oauth]: the server's options, the documents
    up,       \* the issuer's server: off, up, or failed to start
    wallet,   \* the client's state
    calls,    \* the calls in flight
    par,      \* pushed requests, by request_uri
    gone,     \* request_uris whose timer fired
    code,     \* what the authorization code was issued for
    token,    \* the token request sent with it
    urls,     \* how many calls asked for a URL
    overlap   \* history: two of them were in flight at once

vars == <<site, up, wallet, calls, par, gone, code, token, urls, overlap>>

\* Code verifiers: generated by a call, or the application's own. A challenge is
\* represented by the verifier it was computed from.
Own       == 0
Verifiers == 0 .. MaxUrls

\* AuthorizationRequestOpts; object is the request object mode with what it needs
Opts == [scope : Optional({"openid", "test", "other"}), details : Optional(SUBSET Configs),
         redirect : Optional({"r1", "r2", "app"}), client : Optional({"client"}),
         parMode : Optional({"REQUIRE", "AUTO", "NEVER"}),
         object : Optional({"uri", "signed", "unsigned"})]

\* Sites publish documents of the known shapes, calls are made with options and
\* wallets are of the known kinds.
ASSUME InputsAssumption ==
    /\ Sites \subseteq [setup : Setups, ci : Optional(IssuerDocs),
                        oidc : [Hosts -> Optional(ServerDocs)], oauth : [Hosts -> Optional(ServerDocs)]]
    /\ Requests \subseteq Opts
    /\ Wallets \subseteq [kind : Variants, offered : BOOLEAN, own : BOOLEAN]

NoOpts == [f \in {"scope", "details", "redirect", "client", "parMode", "object"} |-> NONE]

Idle == [step |-> "idle", ci |-> NONE, query |-> NONE]

\* The parameters of a request, and what it was made from
Query == [challenge : Verifiers, redirect : Optional({"r1", "r2", "app"}),
          client : Optional({"client"}), scope : {"openid", "test", "other"},
          details : Optional(SUBSET Configs), endpoint : Hosts, mode : {"REQUIRE", "AUTO", "NEVER"},
          parAt : Optional(Hosts), required : BOOLEAN, object : Optional({"uri", "signed", "unsigned"}),
          request_uri : Optional(1 .. MaxUrls)]

Init ==
    /\ site \in Sites
    /\ up = "off"
    /\ \E w \in Wallets :
         wallet = [kind |-> w.kind, offered |-> w.offered, own |-> w.own, meta |-> NONE,
                   url |-> NONE, opts |-> NoOpts,
                   pkce |-> [verifier |-> NONE, challenge |-> NONE]]
    /\ calls = [c \in Calls |-> Idle]
    /\ par = [id \in {} |-> NONE] /\ gone = {}
    /\ code = NONE /\ token = NONE
    /\ urls = 0 /\ overlap = FALSE

-----------------------------------------------------------------------------
(* The servers *)

\* new OID4VCIServer
StartServer ==
    /\ up = "off"
    /\ up' = IF Starts(site.setup) THEN "up" ELSE "failed"
    /\ UNCHANGED <<site, wallet, calls, par, gone, code, token, urls, overlap>>

\* What a location holds: the issuer's documents where its server puts them
Reachable(host) == host # Issuer \/ up = "up"
Published(host, doc) ==
    IF host # Issuer \/ "metadata" \in Served(site.setup) THEN doc ELSE NONE

\* An HTTP failure is taken for a document that is not there.
Answers(host, doc) ==
    {[reached |-> TRUE, doc |-> d] : d \in {x \in {Published(host, doc), NONE} : Reachable(host)}}
        \cup {[reached |-> FALSE, doc |-> NONE]}

-----------------------------------------------------------------------------
(* retrieveServerMetadata *)

Variant == VariantFor(wallet.kind, wallet.offered)

\* issuerSupportedFlowTypes: the offer's, or one if the metadata says so
FlowSupported(w) ==
    w.offered \/ (w.meta # NONE /\ w.meta.ci # NONE /\ w.meta.ci.authorization # NONE)

\* assertIssuerData
IssuerDataPresent(w) == w.meta # NONE => FlowSupported(w)

\* The V1 client fetches every time, the others when nothing is known yet.
RetrieveServerMetadata(c) ==
    /\ calls[c].step = "idle"
    /\ wallet.meta = NONE \/ wallet.kind = "V1"
    /\ calls' = [calls EXCEPT ![c].step = "ci"]
    /\ UNCHANGED <<site, up, wallet, par, gone, code, token, urls, overlap>>

\* The answer to openid-credential-issuer
IssuerAnswers(c) ==
    /\ calls[c].step = "ci"
    /\ \E a \in Answers(Issuer, site.ci) :
         calls' = [calls EXCEPT ![c] =
             IF ~a.reached \/ (a.doc = NONE /\ NeedsIssuerDoc(Variant)) \/ ~CanAsk(Variant, a.doc)
             THEN Idle
             ELSE [@ EXCEPT !.step = "oidc", !.ci = a.doc]]
    /\ UNCHANGED <<site, up, wallet, par, gone, code, token, urls, overlap>>

\* The answer to openid-configuration, and if there is none, to
\* oauth-authorization-server; then the documents are merged.
ServerAnswers(c) ==
    /\ calls[c].step \in {"oidc", "oauth"}
    /\ LET ci   == calls[c].ci
           host == AskedServer(Variant, ci)
           doc  == IF calls[c].step = "oidc" THEN site.oidc[host] ELSE site.oauth[host]
       IN  \E a \in Answers(host, doc) :
             LET result == Merge(Variant, ci, a.doc, FALSE)
                 again  == a.reached /\ a.doc = NONE /\ calls[c].step = "oidc"
                 found  == a.reached /\ ~again /\ result # Failed
             IN  /\ calls' = [calls EXCEPT ![c] = IF again THEN [@ EXCEPT !.step = "oauth"] ELSE Idle]
                 /\ wallet' = IF found THEN [wallet EXCEPT !.meta = result] ELSE wallet
    /\ UNCHANGED <<site, up, par, gone, code, token, urls, overlap>>

-----------------------------------------------------------------------------
(* createAuthorizationRequestUrl *)

\* A generator that makes a new verifier on every call and keeps the challenge
GeneratePKCEAnew(pkce, own, fresh) ==
    LET verifier == IF own THEN Own ELSE fresh
    IN  [verifier |-> verifier, challenge |-> Or(pkce.challenge, verifier)]

\* {...pkce, ...opts.pkce}, then what is missing is generated: a verifier the
\* application supplies later keeps the challenge of an earlier one.
GeneratePKCE(pkce, own, fresh) ==
    LET verifier == IF own THEN Own ELSE Or(pkce.verifier, fresh)
    IN  [verifier |-> verifier, challenge |-> Or(pkce.challenge, verifier)]

\* syncAuthorizationRequestOpts
SyncOpts(old, new) == [f \in DOMAIN old |-> Or(new[f], old[f])]

\* An authorization_endpoint in the issuer's document is copied over the one
\* that discovery found.
WithIssuerEndpoint(meta) ==
    IF Field(meta.ci, "authorization") # NONE
    THEN [meta EXCEPT !.authorization = meta.ci.authorization]
    ELSE meta

\* filterSupportedCredentials, for a request with neither scope nor details
FromOffer(meta) == site.setup.configs \cap Field(meta.ci, "configs")
DetailsOf(w, meta, o) ==
    IF o.scope = NONE /\ o.details = NONE THEN FromOffer(meta) ELSE o.details

AuthorizationEndpoint(meta) ==
    Or(meta.authorization, Or(Field(meta.as, "authorization"), Field(meta.ci, "authorization")))

\* Where the server has no document, the issuer's stands for it.
AuthorizationMetadata(meta) == Or(meta.as, meta.ci)
ParEndpoint(meta) == Field(AuthorizationMetadata(meta), "par")

\* The server's own requirement is above the caller's mode, and not below it.
RequiresPar(meta) == Field(AuthorizationMetadata(meta), "requirePar") = TRUE
ParModeOfCaller(meta, o) ==
    Or(o.parMode, IF RequiresPar(meta) THEN "REQUIRE" ELSE IF o.client # NONE THEN "AUTO" ELSE "NEVER")
ParMode(meta, o) ==
    IF RequiresPar(meta) THEN "REQUIRE"
    ELSE Or(o.parMode, IF o.client # NONE THEN "AUTO" ELSE "NEVER")

QueryOf(w, meta, pkce, o) ==
    [challenge |-> pkce.challenge, redirect |-> o.redirect, client |-> o.client,
     scope |-> Or(o.scope, "openid"), details |-> DetailsOf(w, meta, o),
     endpoint |-> AuthorizationEndpoint(meta), mode |-> ParMode(meta, o),
     parAt |-> ParEndpoint(meta), required |-> RequiresPar(meta),
     object |-> o.object, request_uri |-> NONE]

\* A preparation that does not look for the authorization endpoint
CanPrepareAnywhere(w, meta, o) ==
    /\ w.kind # "V1"
    /\ o.scope = NONE /\ o.details = NONE => w.offered /\ DetailsOf(w, meta, o) # {}
    /\ ParMode(meta, o) = "REQUIRE" => ParEndpoint(meta) # NONE

\* What the request is refused for before anything is sent
CanPrepare(w, meta, o) ==
    /\ w.kind # "V1"
    /\ o.scope = NONE /\ o.details = NONE => w.offered /\ DetailsOf(w, meta, o) # {}
    /\ AuthorizationEndpoint(meta) # NONE
    /\ ParMode(meta, o) = "REQUIRE" => ParEndpoint(meta) # NONE

\* createSignedAuthRequestWhenNeeded, after the request was pushed
ObjectFits(q) == q.object \in {NONE, "signed"}

\* What the call does once no push is outstanding
Proceed(c, w, q) ==
    IF q.object = "signed"
    THEN wallet' = w /\ calls' = [calls EXCEPT ![c] = [step |-> "sign", ci |-> NONE, query |-> q]]
    ELSE /\ calls' = [calls EXCEPT ![c] = Idle]
         /\ wallet' = IF ObjectFits(q) THEN [w EXCEPT !.url = q] ELSE w

\* A URL that is known is handed out again; otherwise the verifier and the
\* options are settled before the metadata is looked at.
CreateAuthorizationRequestUrl(c, new) ==
    /\ calls[c].step = "idle"
    /\ urls < MaxUrls
    /\ wallet.url = NONE
    /\ urls' = urls + 1
    /\ overlap' = (overlap \/ \E d \in Calls : calls[d].step \in {"par", "sign"})
    /\ LET o    == SyncOpts(wallet.opts, new)
           pkce == GeneratePKCE(wallet.pkce, wallet.own, urls + 1)
           meta == IF wallet.meta = NONE THEN NONE ELSE WithIssuerEndpoint(wallet.meta)
           w    == IF wallet.kind = "V1" THEN wallet
                   ELSE [wallet EXCEPT !.pkce = pkce, !.opts = o, !.meta = meta]
       IN  IF meta = NONE \/ ~CanPrepare(w, meta, o)
           THEN wallet' = w /\ UNCHANGED calls
           ELSE LET q == QueryOf(w, meta, pkce, o)
                IN  IF q.parAt # NONE /\ q.mode # "NEVER"
                    THEN /\ wallet' = w
                         /\ calls' = [calls EXCEPT ![c] = [step |-> "par", ci |-> NONE, query |-> q]]
                    ELSE Proceed(c, w, q)
    /\ UNCHANGED <<site, up, par, gone, code, token>>

\* The statuses the endpoint may answer with: the issuer's server by its own
\* handler, another server as it likes, 0 for a server that is not reached.
ParStatuses(q) ==
    IF q.parAt # Issuer THEN {0, 201, 400}
    ELSE IF up # "up" THEN {0}
    ELSE IF "par" \notin Served(site.setup) THEN {0, 404}
    ELSE {0, ParStatus(site.setup, q)}

\* A pushed request is answered. A refusal is an error when the mode is
\* REQUIRE, and otherwise the parameters go into the URL.
ParAnswers(c) ==
    /\ calls[c].step = "par"
    /\ LET q  == calls[c].query
           id == Cardinality(DOMAIN par) + 1
       IN  \E status \in ParStatuses(q) :
             IF status = 201
             THEN /\ par' = IF ParKept(status, q)
                            THEN [i \in DOMAIN par \cup {id} |-> IF i = id THEN q ELSE par[i]]
                            ELSE par
                  /\ Proceed(c, wallet, [q EXCEPT !.request_uri = id])
             ELSE /\ UNCHANGED par
                  /\ IF status = 0 \/ q.mode = "REQUIRE"
                     THEN calls' = [calls EXCEPT ![c] = Idle] /\ UNCHANGED wallet
                     ELSE Proceed(c, wallet, q)
    /\ UNCHANGED <<site, up, gone, code, token, urls, overlap>>

\* The application signed the request object.
Signed(c) ==
    /\ calls[c].step = "sign"
    /\ wallet' = [wallet EXCEPT !.url = calls[c].query]
    /\ calls' = [calls EXCEPT ![c] = Idle]
    /\ UNCHANGED <<site, up, par, gone, code, token, urls, overlap>>

\* setTimeout of the pushed request
ParExpires(id) ==
    /\ id \in DOMAIN par \ gone
    /\ gone' = gone \cup {id}
    /\ UNCHANGED <<site, up, wallet, calls, par, code, token, urls, overlap>>

-----------------------------------------------------------------------------
(* What the URL is for *)

\* The user follows the URL; the server issues a code for the request.
Authorize ==
    /\ wallet.url # NONE /\ code = NONE
    /\ LET id == wallet.url.request_uri
       IN  IF id = NONE THEN code' = wallet.url
           ELSE id \in DOMAIN par \ gone /\ code' = par[id]
    /\ UNCHANGED <<site, up, wallet, calls, par, gone, token, urls, overlap>>

\* acquireAccessToken with that code: the verifier the client holds, and the
\* redirect uri it remembers
RequestToken ==
    /\ code # NONE /\ token = NONE
    /\ IssuerDataPresent(wallet) /\ wallet.meta # NONE
    /\ token' = [verifier |-> wallet.pkce.verifier, redirect |-> wallet.opts.redirect,
                 at |-> TokenURL(NONE, wallet.meta.token)]
    /\ UNCHANGED <<site, up, wallet, calls, par, gone, code, urls, overlap>>

\* exportState and fromState in a new process: the calls are lost.
Restore ==
    /\ wallet.kind # "V1"
    /\ \E c \in Calls : calls[c] # Idle
    /\ calls' = [c \in Calls |-> Idle]
    /\ UNCHANGED <<site, up, wallet, par, gone, code, token, urls, overlap>>

Next ==
    \/ StartServer
    \/ \E c \in Calls : RetrieveServerMetadata(c)
    \/ \E c \in Calls : IssuerAnswers(c)
    \/ \E c \in Calls : ServerAnswers(c)
    \/ \E c \in Calls : \E new \in Requests : CreateAuthorizationRequestUrl(c, new)
    \/ \E c \in Calls : ParAnswers(c)
    \/ \E c \in Calls : Signed(c)
    \/ \E id \in 1 .. MaxUrls : ParExpires(id)
    \/ Authorize
    \/ RequestToken
    \/ Restore

Spec == Init /\ [][Next]_vars

-----------------------------------------------------------------------------
(* Properties *)

\* Type invariant: a request that was prepared has an endpoint to go to and a
\* challenge, a result of discovery has a token and a credential endpoint
\* (AuthorizationCodeClient.createAuthorizationRequestUrl, retrieveAllMetadata).
AuthorizationTypeOK ==
    /\ site \in Sites /\ up \in {"off", "up", "failed"}
    /\ wallet.meta # NONE => {wallet.meta.token, wallet.meta.credential} \subseteq Hosts \cup {Guess}
    /\ wallet.url \in Optional(Query)
    /\ wallet.opts \in Opts
    /\ wallet.pkce \in [verifier : Optional(Verifiers), challenge : Optional(Verifiers)]
    /\ \A c \in Calls : /\ calls[c].step \in {"idle", "ci", "oidc", "oauth", "par", "sign"}
                        /\ calls[c].query \in Optional(Query)
    /\ DOMAIN par \subseteq 1 .. MaxUrls /\ gone \subseteq DOMAIN par
    /\ \A id \in DOMAIN par : par[id] \in Query
    /\ code \in Optional(Query)
    /\ urls \in 0 .. MaxUrls /\ overlap \in BOOLEAN

\* Whatever client a wallet uses, it sends the token request and the credential
\* request to the same place, where the issuer names its servers in the list
\* all of them read (the three retrieveAllMetadata).
ClientsAgree ==
    (site.ci # NONE => site.ci.server = NONE /\ site.ci.servers # <<>>) =>
        \A v, w \in Variants :
            LET a == RetrieveAll(v, site)
                b == RetrieveAll(w, site)
            IN  Failed \notin {a, b} => a.token = b.token /\ a.credential = b.credential

\* A server that requires pushed requests never gets the parameters in the
\* URL, whatever mode the caller asks for and however the push ended
\* (parMode in createAuthorizationRequestUrl).
RequiredParIsUsed ==
    wallet.url # NONE /\ wallet.url.required => wallet.url.request_uri # NONE

\* A request_uri in a URL is one the server keeps, until its timer fires
\* (authRequestsData in pushedAuthorizationEndpoint).
RequestUriIsStored ==
    wallet.url # NONE /\ wallet.url.request_uri # NONE => wallet.url.request_uri \in DOMAIN par

\* The token request proves the code: its verifier is the one whose challenge
\* the code was issued for, and it names the same redirect uri, although other
\* calls failed, were repeated or came later. Two calls at once may mix their
\* options (calculatePKCEOpts, syncAuthorizationRequestOpts).
CodeIsRedeemable ==
    token # NONE /\ ~overlap =>
        token.verifier = code.challenge /\ token.redirect = code.redirect

\* "If not supplied as argument, it will be fully configured from environment
\* variables" (OID4VCIServer's constructor): a server starts without an issuer
\* where it would start with one.
EnvironmentConfigures ==
    up = "failed" => ~Starts([site.setup EXCEPT !.issuer = "given"])

\* A server that starts has a token endpoint or names a server that has one
\* (the error of assertAccessTokenHandling, OID4VCIServer.ts:309).
TokenEndpointSomewhere ==
    up = "up" => "token" \in Served(site.setup) \/ Named(site.setup) # {}
=============================================================================
