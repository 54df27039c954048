----------------------------- MODULE WalletRequests -----------------------------
(***************************************************************************)
(* The requests a wallet sends once it has an offer or an issuer: the      *)
(* token request, the proof of possession, the credential request, whether *)
(* a DPoP proof is sent, and how the answers are read, without state.      *)
(*                                                                         *)
(* A PIN is its alphabet and its length, a URL the endpoint it belongs to, *)
(* a signature whether it verifies.                                        *)
(***************************************************************************)
EXTENDS Naturals, FiniteSets, Sequences

CONSTANTS
    Configs,   \* credential configuration ids
    NONE       \* undefined

ASSUME WalletConstants == NONE \notin Configs \cup Nat

Optional(S) == S \cup {NONE}
Or(a, b) == IF a # NONE THEN a ELSE b
Refused == [error |-> TRUE]

-----------------------------------------------------------------------------
(* The token request *)

\* tx_code of an offer; length 0 is a length that is not set
TxCodes == [mode : {"numeric", "text", NONE}, length : {0, 4}]
Pins == [alphabet : {"digits", "letters", "jws"}, length : {3, 4, 5}]

\* assertAlphanumericPin: a length is an upper bound, and only with a mode
Alphabet(mode) ==
    CASE mode = "numeric" -> {"digits"}
      [] mode = "text" -> {"digits", "letters"}
      [] OTHER -> {"digits", "letters", "jws"}
PinFits(tx, pin) ==
    IF tx = NONE THEN pin = NONE
    ELSE /\ pin # NONE
         /\ pin.alphabet \in Alphabet(tx.mode)
         /\ tx.mode # NONE /\ tx.length # 0 => pin.length <= tx.length

\* createAccessTokenRequest: a client that could use either grant takes the
\* authorization code, and so does one without an offer
TokenRequest(offer, code, verifier, pin) ==
    IF offer = NONE \/ "authorization_code" \in offer.flows
    THEN [grant |-> "authorization_code", code |-> code, verifier |-> verifier, pin |-> NONE]
    ELSE IF "pre-authorized_code" \in offer.flows /\ PinFits(offer.tx, pin)
    THEN [grant |-> "pre-authorized_code", code |-> TRUE, verifier |-> FALSE, pin |-> pin]
    ELSE Refused

\* validate
ValidTokenRequest(r, tx) ==
    /\ r # Refused
    /\ r.code
    /\ IF r.grant = "authorization_code" THEN r.verifier ELSE PinFits(tx, r.pin)

\* createJwtBearerClientAssertion: an assertion is added when it is asked for,
\* which takes all that it names; acquireAccessToken asks by itself when it
\* has a client, a key and a callback
AsksAssertion(o) == o.type \/ (o.client /\ o.kid /\ o.callback)
AssertionFits(o) == AsksAssertion(o) => o.client /\ o.kid /\ o.callback

-----------------------------------------------------------------------------
(* The credential request *)

\* fromCredentialOfferRequest: a sole id of the offer is selected;
\* fromCredentialIssuer: what the caller names
BuilderOfOffer(offer) ==
    [config |-> IF Cardinality(offer.configs) = 1 THEN CHOOSE c \in offer.configs : TRUE ELSE NONE,
     identifier |-> NONE]
BuilderOfIssuer(config, identifier) == [config |-> config, identifier |-> identifier]
RequestBuilder(offer, config, identifier) ==
    IF offer = NONE THEN BuilderOfIssuer(config, identifier) ELSE BuilderOfOffer(offer)

\* The V15 client's acquireCredentials: an identifier, else a configuration id
Selected(b, config, identifier) ==
    IF identifier # NONE THEN [b EXCEPT !.identifier = identifier]
    ELSE IF config # NONE THEN [b EXCEPT !.config = config] ELSE b

\* findAuthorizationDetail: the one the caller prefers, else the first
DetailOf(details, preferred) ==
    LET named == SelectSeq(details, LAMBDA d : preferred # NONE
                                       /\ (d.config = preferred \/ preferred \in d.identifiers))
    IN  CASE details = <<>> -> NONE
          [] named # <<>> -> Head(named)
          [] OTHER -> Head(details)

\* createCredentialRequestImpl: identifiers of the authorization detail, a
\* configuration id, then the identifier of the call
RequestBody(b, identifier, detail) ==
    LET config == Or(IF detail = NONE THEN NONE ELSE detail.config, b.config)
    IN  IF detail # NONE /\ detail.identifiers # {}
        THEN [config |-> NONE, identifier |-> CHOOSE i \in detail.identifiers : TRUE]
        ELSE IF config # NONE THEN [config |-> config, identifier |-> NONE]
        ELSE IF identifier # NONE THEN [config |-> NONE, identifier |-> identifier]
        ELSE Refused

\* createJWT of a proof: audience from the issuer, the keys and the nonce of
\* the builder, the client id only where no pre-authorized code is offered
ProofClient(offer, client) ==
    IF client /\ (offer = NONE \/ offer.flows = {"authorization_code"}) THEN TRUE ELSE FALSE
Proof(nonce, keys, client) == [aud |-> "issuer", nonce |-> nonce, keys |-> keys, iss |-> client]

\* isDeferredCredentialResponse: a success status, no credentials, a way to ask again
IsDeferred(r) == r.ok /\ ~r.credentials /\ r.transaction

\* assertNonFatalError and isDeferredCredentialIssuancePending while polling
Fatal(r) == ~r.ok /\ r.error = "invalid_transaction_id"
Pending(r) == IsDeferred(r) \/ (~r.ok /\ r.error = "issuance_pending")

-----------------------------------------------------------------------------
(* DPoP *)

\* openIdFetch: the scheme follows the header
Scheme(proof) == IF proof THEN "DPoP" ELSE "Bearer"

\* shouldRetryTokenRequestWithDPoPNonce, shouldRetryResourceRequestWithDPoPNonce:
\* the answer demands a nonce and names it; one that names none ends the call
\* like any other error
DemandsNonce(r) == ~r.ok /\ r.error = "use_dpop_nonce"
=============================================================================
