--------------------------- MODULE CredentialOffers ---------------------------
(***************************************************************************)
(* How a credential offer is built, turned into a URI and read back: the   *)
(* issuer's CredentialOfferUtils, the common CredentialOfferUtil and the   *)
(* wallet's CredentialOfferClients, as operators without state.            *)
(*                                                                         *)
(* An offer keeps what the protocol acts on: the configuration ids, the    *)
(* pre-authorized code and its tx_code, the issuer state, the client id.   *)
(* A URI is a record of its scheme, its base and the parameter it carries. *)
(***************************************************************************)
EXTENDS Naturals, FiniteSets

CONSTANTS
    Configs,   \* credential configuration ids of the issuer's metadata
    Clients,   \* client ids
    NONE       \* undefined

\* Codes and issuer states: supplied by the caller or generated, per offer.
Origins == {"given", "fresh"}

\* An issuer state that is a JWT names the client in its claims.
StateKinds == Origins \cup {"jwt"}

ASSUME OfferConstants == NONE \notin Configs \cup Clients \cup StateKinds

\* tx_code of a grant: NONE, or its length (0 when the length is not set).
TxCodes == {NONE, 0, 4, 5, 6}

\* The grants object a caller supplies (CredentialOfferGrantInput): which
\* grants are present, which code each carries.
GrantInput == [pre : {NONE} \cup Origins, tx : TxCodes,
               auth : {NONE} \cup StateKinds]

\* The offer payload; grants is FALSE when the payload has no grants.
Offer == [configs : SUBSET Configs, grants : BOOLEAN, pre : {NONE} \cup Origins,
          tx : TxCodes, state : {NONE} \cup StateKinds, client : Clients \cup {NONE}]

Versions == {"VER_1_0_15", "VER_UNKNOWN"}

-----------------------------------------------------------------------------
(* The issuer *)

\* createCredentialOfferURI first settles the length of the tx_code, in the
\* caller's own grant object: pinLength fills in a length that is missing, and
\* adds the tx_code when there is none; a length that is still not set is 4.
PinLengthInto(g, pinLength) ==
    LET tx == IF pinLength # NONE /\ g.pre # NONE /\ g.tx \in {NONE, 0} THEN pinLength ELSE g.tx
    IN  [g EXCEPT !.tx = IF tx = 0 THEN 4 ELSE tx]

\* createCredentialOfferGrants: codes that are absent are generated
CreateGrants(g) ==
    [grants |-> g.pre # NONE \/ g.auth # NONE,
     pre    |-> g.pre,
     tx     |-> IF g.pre = NONE THEN NONE ELSE IF g.tx = 0 THEN 4 ELSE g.tx,
     state  |-> g.auth]

\* createCredentialOfferObject: the ids the caller names, or all of them
CreateOfferObject(g, ids, client) ==
    LET created == CreateGrants(g)
    IN  [configs |-> IF ids = NONE THEN Configs ELSE ids,
         grants |-> created.grants, pre |-> created.pre, tx |-> created.tx,
         state |-> created.state, client |-> client]

\* parseCredentialOfferSchemeAndBaseUri.  A base URI is "bare" (no scheme) or an
\* https one; the issuer's identifier is an https URL.
SchemeOf(scheme, base) ==
    IF scheme # NONE THEN scheme
    ELSE IF base = "https" THEN "https" ELSE "openid-credential-offer"
SchemeFits(scheme, base) ==
    base # NONE \/ SchemeOf(scheme, base) \in {"openid-credential-offer", "haip", "https"}

BaseOf(scheme, base) ==
    IF base # NONE
    THEN IF base = "https" /\ SchemeOf(scheme, base) # "https" THEN "https" ELSE "bare"
    ELSE IF SchemeOf(scheme, base) = "https" THEN "bare" ELSE "empty"

\* createCredentialOfferURIFromObject
OfferURI(o, mode, scheme, base, ref) ==
    [scheme |-> SchemeOf(scheme, base), base |-> BaseOf(scheme, base),
     param  |-> IF mode = "REFERENCE" THEN "credential_offer_uri" ELSE "credential_offer",
     offer  |-> IF mode = "REFERENCE" THEN NONE ELSE o,
     ref    |-> IF mode = "REFERENCE" THEN ref ELSE NONE]

-----------------------------------------------------------------------------
(* Reading an offer *)

\* determineSpecVersionFromScheme: the offer URI of the known schemes settles
\* it; an inline offer does not, since sniffOfferVersion recognises no key.
SniffOfferVersion(o) == "VER_UNKNOWN"
VersionFromScheme(uri) ==
    IF /\ uri.scheme = "openid-credential-offer"
       /\ uri.param = "credential_offer_uri"
    THEN "VER_1_0_15"
    ELSE SniffOfferVersion(uri.offer)

\* determineSpecVersionFromURI: unknown counts as 15
VersionFromURI(uri) ==
    IF VersionFromScheme(uri) = "VER_UNKNOWN" THEN "VER_1_0_15" ELSE VersionFromScheme(uri)

\* getStateFromCredentialOfferPayload: the issuer state before the code
StateFromOffer(o) == IF o.state # NONE THEN o.state ELSE o.pre

\* The client a state that is a JWT names.
JwtClient == CHOOSE c \in Clients : TRUE
\* Mutant: the client of the state comes first.
ClientFromOfferState(o) ==
    IF StateFromOffer(o) = "jwt" THEN JwtClient ELSE o.client

\* getClientIdFromCredentialOfferPayload: the offer's client, else the state's
ClientFromOffer(o) ==
    IF o.client # NONE THEN o.client
    ELSE IF StateFromOffer(o) = "jwt" THEN JwtClient ELSE NONE

\* determineFlowType: a flow for each grant that has its code
FlowTypes(o) ==
    {f \in {"authorization_code", "pre-authorized_code"} :
        IF f = "authorization_code" THEN o.state # NONE ELSE o.pre # NONE}

\* toUniformCredentialOfferRequest with the payload at hand; versions from 15
\* on, the unknown one included, keep the payload as it is
UniformRequest(o, version) ==
    [offer |-> o, version |-> version, supportedFlows |-> FlowTypes(o)]

\* constructBaseResponse; whether a PIN is asked for is left to fromURI
BaseResponse(uri, request) ==
    [offer |-> request.offer, version |-> request.version,
     supportedFlows |-> request.supportedFlows,
     scheme |-> uri.scheme, base |-> uri.base,
     clientId |-> ClientFromOffer(request.offer),
     issuerState |-> request.offer.state,
     preAuthorizedCode |-> request.offer.pre,
     txCode |-> request.offer.tx,
     userPinRequired |-> FALSE]

\* Mutant: the PIN is asked for with any pre-authorized code.
UserPinOfCode(o) == o.pre # NONE

\* The PIN is asked for when the grant has a tx_code: CredentialOfferClient.fromURI
UserPinRequired(o) == o.tx # NONE

\* CredentialOfferClientV1_0_15.fromURI once the offer is at hand, fetched or inline
FromURI(uri, o) ==
    [BaseResponse(uri, UniformRequest(o, VersionFromURI(uri)))
        EXCEPT !.userPinRequired = UserPinRequired(o)]

\* CredentialOfferClientV1_0.fromURI
FromURIV1(uri, o) == FromURI(uri, o)

\* CredentialOfferClient.fromURI; user_pin_required, of earlier drafts, is in no
\* offer of this issuer
FromURIAnyVersion(uri, o) == FromURI(uri, o)

\* CredentialOfferClientV1_0_15.toURI: a request read from a URI never has a
\* credential_offer_uri, so it is the JSON of the offer; the base is used as
\* it is when it holds the scheme, which it does after fromURI
ToURI(request) ==
    [scheme |-> request.scheme, base |-> request.base, param |-> "credential_offer",
     offer |-> request.offer, ref |-> NONE]

\* CredentialOfferClientV1_0.toURI
ToURIV1(request) == ToURI(request)

\* What a reader makes of a URI of CredentialOfferClient.toURI, which encodes the
\* offer property by property behind 'credential_offer=': the value ends at the
\* next '=', so the offer is the name of its first property, and the payload
\* spreads that string: no configurations, no grants.
Garbled == [configs |-> {}, grants |-> FALSE, pre |-> NONE, tx |-> NONE,
            state |-> NONE, client |-> NONE]

\* CredentialOfferClient.toURI
ToURIAnyVersion(request) ==
    [scheme |-> request.scheme, base |-> request.base, param |-> "credential_offer",
     offer |-> Garbled, ref |-> NONE]

\* convertJsonToURI parses an offer that is a string: a name is no JSON and throws
Encodable(request) == request.offer # Garbled
===============================================================================
