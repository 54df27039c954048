----------------------------- MODULE Presentations -----------------------------
(***************************************************************************)
(* Presentations from end to end: an RP creates requests, an OP verifies   *)
(* them, answers with an ID token and presentations, and submits the       *)
(* answer in the clear or encrypted; the RP's endpoint takes it apart and  *)
(* verifies it.  The steps of several transactions interleave; each step   *)
(* is one call of the library, whose awaits RPTransactions takes apart.    *)
(*                                                                         *)
(* Both applications are honest: the wallet presents what it is asked for, *)
(* with the nonce of the request, and the RP's passes the query it asked   *)
(* for to the verification.  What they send may arrive late and twice.     *)
(***************************************************************************)
EXTENDS PresentationRequests

CONSTANTS
    REJECTED,       \* a verification that failed
    Transactions,
    RPs,            \* configurations of the relying party
    OPs,            \* configurations of the wallet
    Calls,          \* calls an RP of a configuration may make
    Holdings        \* formats a wallet may present: sets of "jwt" and "mdoc"

\* How the request object is passed, the key it is signed with, what
\* withClientId and the client metadata name, and the rest of the builder's
\* options with the targets they are for
RPConfigs ==
    [passBy : {"REFERENCE", "VALUE", "NONE", "unset"}, method : {"did", "x5c", "jwk", "custom"},
     scheme : {"redirect_uri", "decentralized_identifier"},
     client : ClientIds \cup {NONE}, metaClient : ClientIds \cup {NONE}, entity : {"entity", NONE},
     type : {{"id_token"}, {"vp_token"}, {"id_token", "vp_token"}, NONE},
     mode : ResponseModes \cup {NONE}, query : {"meta", "noMeta", NONE},
     redirect : Uris \cup {NONE}, targets : Targets, version : {"D28", "V1"}]

OPConfigs == [mode : ResponseModes \cup {NONE}, issuer : {"self", "did", "other", NONE},
              method : {"did", "x5c", "jwk", "custom"}, version : {"D28", "V1", "V1_0", NONE}]

CallArgs == [uri : Uris \cup {NONE}, uriType : {"redirect_uri", "response_uri", NONE},
             targets : Targets, byReference : BOOLEAN]

ASSUME ConfigurationsAssumption ==
    /\ RPs \subseteq RPConfigs /\ OPs \subseteq OPConfigs
    /\ \A c \in RPs : Calls[c] \subseteq CallArgs
    /\ Holdings \subseteq (SUBSET {"jwt", "mdoc"}) \ {{}}

\* Values that are made up for a transaction: a state, and the nonce of a
\* request that has none is a hash of its state
States(t) == {<<"state", t>>, <<"made", <<t, "uri">>>>, <<"made", <<t, "stored">>>>}
Made(t) == States(t) \cup {<<"nonce", t>>} \cup {<<"hash", s>> : s \in States(t)}

\* What a property of a payload may be; a request is fetched from a place named
\* after its transaction.
Values == {NONE, "entity", "meta", "noMeta"} \cup ClientIds \cup Uris \cup ResponseModes
          \cup (SUBSET {"id_token", "vp_token"}) \cup Transactions \cup UNION {Made(t) : t \in Transactions}
Payloads == [Fields -> Values]

\* A client id is not taken for a URI, and what is absent or was rejected not for
\* a value.
ASSUME ValuesAssumption ==
    /\ Uris \cap ClientIds = {}
    /\ NONE \notin Uris \cup ClientIds \cup ResponseModes \cup Transactions \cup CallArgs \cup {"redirect_uri"}
    /\ NONE \notin Payloads /\ \A t \in Transactions : NONE \notin Made(t)
    /\ NONE \notin [formats : SUBSET {"jwt", "mdoc"}, nonce : Values]
    /\ REJECTED \notin {"none", "verified", "refused", NONE}
    /\ REJECTED \notin [unsigned : Payloads, object : Payloads \cup {NONE},
                        merged : Payloads, uri : Values]

VARIABLES
    rp, op,     \* the configurations, fixed
    opts,       \* the RP's options, which its calls write
    call,       \* the arguments of each transaction's call
    request,    \* [uri, jwt]: what the URI says and carries, and `stored', the
                \* request the RP keeps, with the object it serves by reference
    wallet,     \* what the wallet made of the request
    response,   \* its response
    posted,     \* messages on their way to the RP, which may arrive again; `of'
                \* is the transaction they answer
    outcome     \* of the last verification by the RP

vars == <<rp, op, opts, call, request, wallet, response, posted, outcome>>

Each(v) == [t \in Transactions |-> v]

Init ==
    /\ rp \in RPs /\ op \in OPs
    /\ opts = BuiltOpts(rp)
    /\ call = Each(NONE)
    /\ request = Each(NONE)
    /\ wallet = Each(NONE)
    /\ response = Each(NONE)
    /\ posted = {}
    /\ outcome = Each("none")

-----------------------------------------------------------------------------
(* The relying party creates requests *)

\* The request of the URI and the one that is stored are built one after the
\* other; values that are made up differ.
Built(new, a, t) ==
    LET passBy == PassBy(rp, a)
        object(made) == IF passBy = "NONE" THEN NONE
                        ELSE Signed(rp, ObjectPayload(new, <<t, made>>))
        sent == RequestPayload(rp, new)
    IN  [uri |-> URIPayload(passBy, sent, object("uri"), t),
         jwt |-> IF passBy = "VALUE" THEN object("uri") ELSE NONE,
         stored |-> [unsigned |-> sent, object |-> object("stored")]]

Buildable(new, a) ==
    PassBy(rp, a) = "NONE" \/ CanSign(rp, ObjectPayload(new, "any"))

CreateRequest(t, a) ==
    LET new == NewOpts(rp, opts, a, t)
    IN  /\ call[t] = NONE
        /\ call' = [call EXCEPT ![t] = a]
        /\ opts' = new.opts
        /\ request' = [request EXCEPT ![t] =
               IF new.ok /\ Buildable(new.opts, a) THEN Built(new.opts, a, t) ELSE NONE]
        /\ UNCHANGED <<rp, op, wallet, response, posted, outcome>>

\* What the RP reads from the request it stored
Stored(t) == Merged(request[t].stored.unsigned, request[t].stored.object)

-----------------------------------------------------------------------------
(* The wallet *)

\* The request object of the URI, or the one the RP serves by reference
ObjectOf(t) ==
    IF request[t].uri.request_uri # NONE THEN request[t].stored.object ELSE request[t].jwt

\* OP.verifyAuthorizationRequest, also again, when client metadata or the
\* request object could not be fetched before
VerifyRequest(t) ==
    LET unsigned == request[t].uri
        object == ObjectOf(t)
    IN  /\ request[t] # NONE /\ response[t] = NONE
        /\ wallet' = [wallet EXCEPT ![t] =
               IF Verifies(unsigned, object, rp.method)
                 THEN [unsigned |-> unsigned, object |-> object,
                       merged |-> Merged(unsigned, object),
                       uri |-> VerifiedURI(Merged(unsigned, object))]
                 ELSE REJECTED]
        /\ UNCHANGED <<rp, op, opts, call, request, response, posted, outcome>>

Verified(t) == wallet[t] \notin {NONE, REJECTED}

\* IDToken.jwt: the issuer a signing method leaves must be self-issued or a DID.
CanIssue == \/ op.method = "custom" /\ op.issuer \in {"self", "did"}
            \/ op.method = "did" /\ op.issuer \in {"self", "did"}

\* The version to answer with is the application's, which the request must be
\* of, or else the latest of those it may be of.
AnswersVersion == op.version \in {"D28", "V1", NONE}

TypesOf(p) == OrElse(p.response_type, {})

\* createIDTokenPayload and createResponsePayload; holding is what it presents.
ResponseTo(p, target, holding) ==
    [to |-> target, state |-> p.state,
     idToken |-> IF "id_token" \in TypesOf(p)
                   THEN [aud |-> p.client_id, nonce |-> p.nonce, state |-> p.state] ELSE NONE,
     vpToken |-> IF holding = {} THEN NONE
                 ELSE [formats |-> holding,
                       nonce |-> IF "jwt" \in holding THEN p.nonce ELSE NONE]]

\* OP.createAuthorizationResponse: for a request object of mode direct_post it
\* looks for the response_uri among the unsigned properties first.
ResponseTarget(w) ==
    IF w.object # NONE /\ w.object.response_mode = "direct_post"
      THEN OrElse(w.unsigned.response_uri, w.uri)
      ELSE w.uri

CreateResponse(t, holding) ==
    LET p == wallet[t].merged
    IN  /\ Verified(t) /\ response[t] = NONE
        /\ (holding # {}) = (p.dcql_query # NONE)
        /\ op.issuer # NONE /\ AnswersVersion
        /\ "id_token" \in TypesOf(p) => CanIssue
        /\ "vp_token" \in TypesOf(p) => holding # {}
        /\ response' = [response EXCEPT ![t] =
               ResponseTo(p, ResponseTarget(wallet[t]), holding)]
        /\ UNCHANGED <<rp, op, opts, call, request, wallet, posted, outcome>>

\* A mutant in which the wallet's own mode comes first.
SubmitModeOwnFirst(t) ==
    IF op.mode # NONE THEN op.mode
    ELSE IF wallet[t].object # NONE THEN wallet[t].object.response_mode ELSE NONE

\* The response mode of the request object, or else the wallet's own
SubmitMode(t) ==
    IF wallet[t].object # NONE /\ wallet[t].object.response_mode # NONE
      THEN wallet[t].object.response_mode ELSE op.mode

JarmModes == {"direct_post.jwt", "query.jwt", "fragment.jwt"}

\* OP.submitAuthorizationResponse, and again when it is not answered.  The
\* application encrypts with the request's nonce as `apv'.
Submit(t) ==
    LET mode == SubmitMode(t)
        encrypted == mode \in JarmModes
    IN  /\ response[t] # NONE
        /\ op.mode # NONE => mode \in {"post", "form_post", "direct_post"} \cup JarmModes
        /\ encrypted => /\ mode = "direct_post.jwt"
                        /\ response[t].idToken # NONE \/ response[t].vpToken # NONE
        /\ posted' = posted \cup {[of |-> t, to |-> response[t].to, body |-> response[t],
                                   encrypted |-> encrypted,
                                   apv |-> IF encrypted THEN wallet[t].merged.nonce ELSE NONE]}
        /\ UNCHANGED <<rp, op, opts, call, request, wallet, response, outcome>>

-----------------------------------------------------------------------------
(* The relying party verifies responses *)

\* getCorrelationIdByState
Correlated(m) ==
    {t \in Transactions : request[t] # NONE /\ Stored(t).state = m.body.state}

\* processJarmAuthorizationResponse and jarmAuthResponseDirectPostJwtValidate,
\* which know only responses with a vp_token
JarmValid(m, t) ==
    m.encrypted =>
        /\ m.body.vpToken # NONE
        /\ "mdoc" \in m.body.vpToken.formats => m.apv = Stored(t).nonce

\* The audience the RP expects of ID tokens
Audience == OrElse(rp.client, OrElse(rp.metaClient, opts.request.client_id))

IDTokenValid(token) ==
    token # NONE => /\ token.nonce # NONE
                    /\ token.aud = Audience

\* The nonces of ID token and presentations; a presentation of mdocs alone
\* shows none.
Nonces(body) ==
    {token.nonce : token \in {body.idToken, body.vpToken} \ {NONE}} \ {NONE}

\* AuthorizationResponse.verify: state, ID token, a vp_token exactly if the
\* application passes a query, and one nonce, the one asked for.
ResponseValid(body, t) ==
    /\ body.state # NONE /\ body.state = Stored(t).state
    /\ body.idToken # NONE => body.idToken.state = body.state
    /\ IDTokenValid(body.idToken)
    /\ (body.vpToken # NONE) = (rp.query # NONE)
    /\ Nonces(body) \subseteq {Stored(t).nonce}

\* A message arrives at the endpoint.  Where its state leads to no transaction
\* the one it answers stays without; the application's verification callbacks
\* may refuse what the library accepts.
ReceiveResponse(m) ==
    LET found == Correlated(m)
    IN  \E t \in IF found = {} THEN {m.of} ELSE found, result \in {"verified", "refused"} :
          /\ outcome' = [outcome EXCEPT ![t] =
                 IF found # {} /\ JarmValid(m, t) /\ ResponseValid(m.body, t)
                   THEN result ELSE REJECTED]
          /\ UNCHANGED <<rp, op, opts, call, request, wallet, response, posted>>

Next ==
    \/ \E t \in Transactions :
          \/ \E a \in Calls[rp] : CreateRequest(t, a)
          \/ VerifyRequest(t)
          \/ \E holding \in Holdings \cup {{}} : CreateResponse(t, holding)
          \/ Submit(t)
    \/ \E m \in posted : ReceiveResponse(m)

Spec == Init /\ [][Next]_vars

-----------------------------------------------------------------------------
(* Configurations of a relying party *)

\* Every request has an object, with what the builder was told in it.
SendsObjects(c) == c.passBy # "NONE" /\ InObject(c.targets)

\* No request names both a redirect_uri and a response_uri.
OneKindOfURI(c, kind) ==
    IF c.redirect # NONE THEN kind = "redirect_uri"
    ELSE \A a \in Calls[c] : OrElse(a.uriType, "response_uri") = kind

\* All requests ask for the response at one place.
OneURI(c, kind, uri) ==
    /\ OneKindOfURI(c, kind)
    /\ IF c.redirect # NONE THEN uri = c.redirect ELSE \A a \in Calls[c] : a.uri = uri

\* The object's client id is the audience, and one the signer's method is for.
ClientOf(c) == OrElse(c.client, [prefix |-> "decentralized_identifier", of |-> "client"])
ClientFits(c) ==
    /\ c.client = NONE => /\ c.method = "did" /\ c.scheme = "decentralized_identifier"
                          /\ c.metaClient = ClientOf(c)
    /\ \/ ClientOf(c).prefix \in {NONE, "https"}
       \/ ClientOf(c).prefix \in {"did", "decentralized_identifier"} /\ c.method = "did"
       \/ ClientOf(c).prefix = "x509_san_dns" /\ c.method = "x5c"
       \/ ClientOf(c).prefix = "openid_federation" /\ c.entity # NONE

\* Calls put state and nonce into the object, and responses are encrypted only
\* where presentations are asked for.
Fits(c) ==
    /\ SendsObjects(c) /\ ClientFits(c)
    /\ \E kind \in {"redirect_uri", "response_uri"} : OneKindOfURI(c, kind)
    /\ \A a \in Calls[c] : InObject(a.targets)
    /\ c.mode = "direct_post.jwt" => c.query # NONE

-----------------------------------------------------------------------------
(* Properties *)

\* Whatever this library's RP asks, its OP accepts, and whatever the OP
\* answers, the RP accepts unless its callbacks refuse: both sides agree on
\* client id, audience, state and nonce after the values were spread over two
\* payloads, kept in options other calls write, merged and encrypted
\* (RP.newAuthorizationRequestOpts, AuthorizationRequest.verify,
\* AuthorizationResponse.verify, processJarmAuthorizationResponse).
OwnMessagesAccepted ==
    \A t \in Transactions : REJECTED \notin {wallet[t], outcome[t]}

\* A response to a request that has a request object uses the values of that
\* object and goes where it says, whatever older values the unsigned part
\* still holds (mergeOAuth2AndOpenIdInRequestPayload, OP.ts:137).
SignedValuesPrevail ==
    \A t \in Transactions :
        LET object == wallet[t].object
            answer == response[t]
        IN  answer # NONE /\ object # NONE =>
              /\ answer.state = object.state
              /\ answer.to \in {object.response_uri, object.redirect_uri}
              /\ answer.idToken # NONE => /\ answer.idToken.aud = object.client_id
                                          /\ answer.idToken.nonce = object.nonce
              /\ answer.vpToken # NONE => answer.vpToken.nonce \in {object.nonce, NONE}

\* A response is encrypted exactly when the RP asked for direct_post.jwt; the
\* wallet's own response mode changes nothing (OP.submitAuthorizationResponse).
EncryptedAsAsked ==
    \A m \in posted : m.encrypted = (rp.mode = "direct_post.jwt")

\* A request passed without a request object, as RPBuilder.withRequestByNone
\* prepares it for the redirect_uri prefix, is accepted by this library's OP.
UnsignedRequestsAccepted ==
    rp.passBy = "NONE" => \A t \in Transactions : wallet[t] # REJECTED
=============================================================================
