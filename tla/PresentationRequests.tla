------------------------- MODULE PresentationRequests -------------------------
(***************************************************************************)
(* The requests of a relying party and what a wallet makes of them: the    *)
(* options an RPBuilder collects, the request object and the request       *)
(* payload built from them, the URI that carries one or both, and the      *)
(* checks of AuthorizationRequest.verify on the other side.                *)
(*                                                                         *)
(* A payload is a record of the properties the checks tell apart; absent   *)
(* ones are NONE.  A client id is a prefix and what follows it.            *)
(***************************************************************************)
CONSTANTS NONE, Uris

Prefixes == {"did", "decentralized_identifier", "x509_san_dns", "redirect_uri",
             "verifier_attestation", "openid_federation", "https", "other", NONE}

ClientIds == [prefix : Prefixes, of : Uris \cup {"client"}]

Targets == {NONE, "request", "object", "both"}

ResponseModes == {"direct_post", "direct_post.jwt", "query.jwt", "fragment.jwt",
                  "post", "form_post", "query", "fragment", "jwt"}

Fields == {"client_id", "entity_id", "redirect_uri", "response_uri", "response_type",
           "response_mode", "dcql_query", "state", "nonce", "request_uri"}

OrElse(v, default) == IF v = NONE THEN default ELSE v

NoPayload == [f \in Fields |-> NONE]

\* {...a, ...b}
Merge(a, b) == [f \in Fields |-> IF b[f] # NONE THEN b[f] ELSE a[f]]

-----------------------------------------------------------------------------
(* The relying party's options *)

\* assignIfAuth and assignIfRequestObject as the builder calls them
InRequest(targets) == targets \in {"request", "both"}
InObject(targets) == targets \in {NONE, "object", "both"}

\* What the application told the builder, all for the same targets
Configured(rp) ==
    [NoPayload EXCEPT !.client_id = rp.client, !.entity_id = rp.entity,
                      !.response_type = rp.type, !.response_mode = rp.mode,
                      !.dcql_query = rp.query, !.redirect_uri = rp.redirect]

BuiltOpts(rp) ==
    [request |-> IF InRequest(rp.targets) THEN Configured(rp) ELSE NoPayload,
     object  |-> IF InObject(rp.targets) THEN Configured(rp) ELSE NoPayload]

\* A redirect_uri of an earlier call wins over the URI of this one.
ResponseURI(o, a) ==
    LET redirect == Merge(o.request, o.object).redirect_uri
        response == Merge(o.request, o.object).response_uri
    IN  IF redirect # NONE THEN [type |-> "redirect_uri", uri |-> redirect]
        ELSE [type |-> IF a.uriType = NONE THEN "response_uri" ELSE a.uriType,
              uri |-> IF a.uri # NONE THEN a.uri ELSE response]

\* The URI is written into both payloads of the options, into the request's
\* only where it has none and no request object is fetched by reference.
WithResponseURI(o, r, byReference) ==
    [request |-> IF byReference \/ o.request[r.type] # NONE THEN o.request
                 ELSE [o.request EXCEPT ![r.type] = r.uri],
     object  |-> [o.object EXCEPT ![r.type] = r.uri]]

\* A mutant with the default target of requests without an object.
WithStateAndNonceUnsigned(o, t, targets, passBy) ==
    LET to == OrElse(targets, "request")
        Set(p) == [p EXCEPT !.state = <<"state", t>>, !.nonce = <<"nonce", t>>]
    IN  [request |-> IF to \in {"request", "both"} THEN Set(o.request) ELSE o.request,
         object  |-> IF to \in {"object", "both"} THEN Set(o.object) ELSE o.object]

\* State and nonce go where their targets say, by default into the object of
\* requests that have one.
WithStateAndNonce(o, t, targets, passBy) ==
    LET to == OrElse(targets, IF passBy = "NONE" THEN "request" ELSE "object")
        Set(p) == [p EXCEPT !.state = <<"state", t>>, !.nonce = <<"nonce", t>>]
    IN  [request |-> IF to \in {"request", "both"} THEN Set(o.request) ELSE o.request,
         object  |-> IF to \in {"object", "both"} THEN Set(o.object) ELSE o.object]

\* Object.assign(payload, requestObject.payload), which copies undefined too
WithObjectInRequest(o, rp) ==
    [o EXCEPT !.request = [f \in Fields |->
        IF o.object[f] # NONE \/ Configured(rp)[f] # NONE THEN o.object[f]
        ELSE o.request[f]]]

\* How a call passes the request object: a reference URI of its own decides
\* where the builder left it open.
PassBy(rp, a) == IF a.byReference THEN "REFERENCE" ELSE rp.passBy

\* newAuthorizationRequestOpts: the options after it, and whether it returned
NewOpts(rp, o, a, t) ==
    LET byReference == a.byReference \/ rp.passBy = "REFERENCE"
        r  == ResponseURI(o, a)
        o1 == WithResponseURI(o, r, byReference)
        o2 == WithStateAndNonce(o1, t, a.targets, rp.passBy)
    IN  IF r.uri = NONE THEN [opts |-> o, ok |-> FALSE]
        ELSE IF a.byReference /\ rp.passBy \in {"VALUE", "NONE"}
          THEN [opts |-> o1, ok |-> FALSE]
        ELSE [opts |-> IF rp.passBy = "NONE" THEN WithObjectInRequest(o2, rp) ELSE o2,
              ok |-> PassBy(rp, a) # "unset"]

-----------------------------------------------------------------------------
(* Request object, request payload and URI *)

\* createRequestObjectPayload; a state that is missing is made up, so is a nonce.
ObjectPayload(o, made) ==
    LET state == OrElse(o.object.state, <<"made", made>>)
    IN  [o.object EXCEPT !.response_type = OrElse(@, {"id_token"}),
                         !.response_mode = OrElse(@, "direct_post"),
                         !.state = state,
                         !.nonce = OrElse(@, <<"hash", state>>)]

\* The client id RequestObject.toJwt settles on for a DID without one
DidClientId(rp, p) ==
    LET uri == OrElse(p.response_uri, p.redirect_uri)
    IN  IF rp.scheme = "redirect_uri" /\ uri # NONE
          THEN [prefix |-> "redirect_uri", of |-> uri]
          ELSE [prefix |-> "decentralized_identifier", of |-> "client"]

\* RequestObject.toJwt: the payload it signs
Signed(rp, p) ==
    IF rp.method = "did" /\ p.client_id = NONE
      THEN [p EXCEPT !.client_id = DidClientId(rp, p)] ELSE p

\* It needs a client id to sign with a bare key, and URI refuses a query
\* without meta where the RP is of version 1.
CanSign(rp, p) ==
    /\ rp.method = "jwk" => p.client_id # NONE
    /\ rp.version = "V1" => p.dcql_query # "noMeta"

\* createAuthorizationRequestPayload
RequestPayload(rp, o) ==
    [o.request EXCEPT !.client_id = OrElse(rp.metaClient, @)]

\* URI.fromAuthorizationRequestPayload: what the query of the URI says
URIPayload(passBy, request, object, reference) ==
    LET uri == OrElse(request.response_uri, request.redirect_uri) IN
    IF passBy = "REFERENCE"
      THEN [NoPayload EXCEPT !.request_uri = reference, !.client_id = object.client_id]
    ELSE IF passBy = "VALUE" THEN [request EXCEPT !.request_uri = NONE]
    ELSE IF uri = NONE THEN request
    ELSE [request EXCEPT !.client_id = [prefix |-> "redirect_uri", of |-> uri]]

-----------------------------------------------------------------------------
(* The wallet's checks *)

\* getRequestObjectJwtVerifier finds a verifier for the client id and the
\* header that the method of the signer has left.  A header with an
\* attestation is not among those this library writes.
HasVerifier(object, method) ==
    /\ object.client_id # NONE
    /\ LET prefix == object.client_id.prefix
           uris == {object.redirect_uri, object.response_uri} \ {NONE}
       IN  \/ prefix \in {NONE, "https"}
           \/ prefix \in {"did", "decentralized_identifier"} /\ method = "did"
           \/ prefix = "x509_san_dns" /\ method = "x5c"
           \/ prefix = "redirect_uri" /\ \A u \in uris : u = object.client_id
           \/ prefix = "openid_federation" /\ object.entity_id # NONE

\* A mutant that takes the unsigned value where there is one.
MergedUnsignedFirst(unsigned, object) ==
    IF object = NONE THEN unsigned ELSE Merge(object, unsigned)

\* The properties of the request as the wallet sees it: signed ones prevail.
Merged(unsigned, object) ==
    IF object = NONE THEN unsigned ELSE Merge(unsigned, object)

\* Where AuthorizationRequest.verify finds the response to go
VerifiedURI(p) ==
    IF p.redirect_uri # NONE THEN p.redirect_uri
    ELSE IF p.response_uri # NONE THEN p.response_uri
    ELSE p.client_id

\* The checks of AuthorizationRequest.verify
Verifies(unsigned, object, method) ==
    LET p == Merged(unsigned, object)
    IN  /\ object # NONE => HasVerifier(object, method)
        /\ p.client_id # NONE
        /\ p.redirect_uri = NONE \/ p.response_uri = NONE
        /\ VerifiedURI(p) = p.client_id => p.client_id.prefix = "redirect_uri"
        /\ p.client_id.prefix = "redirect_uri" => p.client_id = VerifiedURI(p)
=============================================================================
