---------------------------- MODULE OfferExchange ----------------------------
(***************************************************************************)
(* An application creates offers over REST, wallets read their URIs, hand  *)
(* them on and come back for the ones sent by reference; meanwhile offers  *)
(* are redeemed and deleted.  The application keeps one grants object and  *)
(* passes it again for each offer, as a program that calls                 *)
(* createCredentialOfferURI itself may.                                    *)
(***************************************************************************)
EXTENDS CredentialOffers

CONSTANTS
    Ids,       \* correlation ids of the offers
    Wallets,
    Requests   \* what the application asks for

\* A request of the application: [ids, client, mode, scheme, base, pinLength].
ASSUME RequestsAssumption ==
    Requests \subseteq [ids : (SUBSET Configs) \cup {NONE}, client : Clients \cup {NONE},
                        mode : {"VALUE", "REFERENCE"}, scheme : {NONE, "haip", "http", "https"},
                        base : {NONE, "bare", "https"}, pinLength : {NONE, 5, 6}]

Session == [offer : Offer, txCode : TxCodes, status : {"OFFER_CREATED", "REDEEMED"}]

\* Undefined is no session, and the path without ':id' is that of no offer.
ASSUME SessionsAssumption == NONE \notin Session /\ "none" \notin Ids

VARIABLES
    grants,    \* the application's grants object
    hasIdPath, \* does the reference path the server was set up with hold ':id'?
    sessions,  \* correlation id -> its Session, NONE before and once deleted
    sent,      \* URIs shown, [scheme, base, param, offer, ref], with their session
               \* and whether CredentialOfferClient.toURI made them
    read,      \* what each wallet made of the last URI it read
    \* history:
    gone       \* offers redeemed or deleted

vars == <<grants, hasIdPath, sessions, sent, read, gone>>

\* Codes the caller supplies are its own affair: it names each one once.
Init ==
    /\ grants \in {g \in GrantInput : g.pre = NONE => g.tx = NONE}
    /\ hasIdPath \in BOOLEAN
    /\ sessions = [i \in Ids |-> NONE]
    /\ sent = {}
    /\ read = [w \in Wallets |-> NONE]
    /\ gone = {}

\* createCredentialOfferEndpoint refuses a body without grants or ids;
\* createCredentialOfferURI goes on to store the session and answers the URI
Accepted(r) ==
    /\ grants.pre # NONE \/ grants.auth # NONE
    /\ r.ids # NONE /\ r.ids # {}
    /\ SchemeFits(r.scheme, r.base)

\* buildCredentialOfferReferenceUri with the ':id' of its path, if it has one,
\* replaced by the correlation id
ReferenceUri(i) == IF hasIdPath THEN i ELSE "none"

\* The PIN has exactly the digits the tx_code of the offer announces.
PinDigits(o) == o.tx

CreateOffer(i, r) ==
    LET g == PinLengthInto(grants, r.pinLength)
        o == CreateOfferObject(g, r.ids, r.client)
    IN  /\ sessions[i] = NONE /\ i \notin gone
        /\ Accepted(r)
        /\ \A j \in Ids : sessions[j] # NONE => "given" \notin {grants.pre, grants.auth}
        /\ grants' = g
        /\ sessions' = [sessions EXCEPT ![i] =
               [offer |-> o, txCode |-> PinDigits(o), status |-> "OFFER_CREATED"]]
        /\ sent' = sent \cup {[id |-> i, byProperty |-> FALSE, uri |->
                       OfferURI(o, r.mode, r.scheme, r.base, ReferenceUri(i))]}
        /\ UNCHANGED <<hasIdPath, read, gone>>

\* The PIN length settled in the caller's object outlives a request refused later
RefuseOffer(r) ==
    /\ grants.pre # NONE \/ grants.auth # NONE
    /\ r.ids # NONE /\ r.ids # {}
    /\ ~SchemeFits(r.scheme, r.base)
    /\ grants' = PinLengthInto(grants, r.pinLength)
    /\ UNCHANGED <<hasIdPath, sessions, sent, read, gone>>

\* Mutant: the endpoint answers whatever the status of the session.
ReferenceAnswerAny(ref) == IF ref \in Ids /\ sessions[ref] # NONE
                           THEN sessions[ref].offer ELSE NONE

\* getCredentialOfferReferenceEndpoint: the offer while nobody has redeemed it
ReferenceAnswer(ref) ==
    IF ref \in Ids /\ sessions[ref] # NONE /\ sessions[ref].status = "OFFER_CREATED"
    THEN sessions[ref].offer ELSE NONE

\* handleCredentialOfferUri fetches what the URI refers to
OfferAt(uri) == IF uri.param = "credential_offer_uri" THEN ReferenceAnswer(uri.ref)
                ELSE uri.offer

\* A wallet reads a URI; it keeps nothing when the reference is not answered.
ReadURI(w, s) ==
    /\ OfferAt(s.uri) # NONE
    /\ \E got \in {FromURI(s.uri, OfferAt(s.uri)), FromURIV1(s.uri, OfferAt(s.uri)),
                   FromURIAnyVersion(s.uri, OfferAt(s.uri))} :
           read' = [read EXCEPT ![w] =
               [id |-> s.id, byProperty |-> s.byProperty, by |-> s.uri.param, got |-> got]]
    /\ UNCHANGED <<grants, hasIdPath, sessions, sent, gone>>

\* The URIs the clients' toURIs make of a request.
HandedOn(request) ==
    {[byProperty |-> FALSE, uri |-> ToURI(request)],
     [byProperty |-> FALSE, uri |-> ToURIV1(request)],
     [byProperty |-> TRUE, uri |-> ToURIAnyVersion(request)]}

\* A wallet shows the offer it has read to another one; toURI may also throw.
HandOn(w) ==
    /\ read[w] # NONE
    /\ Encodable(read[w].got)
    /\ \E made \in HandedOn(read[w].got) :
           sent' = sent \cup {[id |-> read[w].id, byProperty |-> made.byProperty, uri |-> made.uri]}
    /\ UNCHANGED <<grants, hasIdPath, sessions, read, gone>>

\* The token endpoint has accepted the code of the offer.
Redeem(i) ==
    /\ sessions[i] # NONE /\ sessions[i].status = "OFFER_CREATED"
    /\ sessions' = [sessions EXCEPT ![i].status = "REDEEMED"]
    /\ gone' = gone \cup {i}
    /\ UNCHANGED <<grants, hasIdPath, sent, read>>

\* deleteCredentialOfferEndpoint
DeleteOffer(i) ==
    /\ sessions[i] # NONE
    /\ sessions' = [sessions EXCEPT ![i] = NONE]
    /\ gone' = gone \cup {i}
    /\ UNCHANGED <<grants, hasIdPath, sent, read>>

Next ==
    \/ \E i \in Ids, r \in Requests : CreateOffer(i, r)
    \/ \E r \in Requests : RefuseOffer(r)
    \/ \E w \in Wallets, s \in sent : ReadURI(w, s)
    \/ \E w \in Wallets : HandOn(w)
    \/ \E i \in Ids : Redeem(i) \/ DeleteOffer(i)

Spec == Init /\ [][Next]_vars

-----------------------------------------------------------------------------
(* Properties *)

Wallet(w) == read[w].got

\* The codes, the configurations and the client of the wallet's offer are o's.
ActsOn(w, o) ==
    /\ Wallet(w).offer.configs = o.configs
    /\ Wallet(w).preAuthorizedCode = o.pre
    /\ Wallet(w).issuerState = o.state
    /\ o.client # NONE => Wallet(w).clientId = o.client

\* A wallet acts on the terms the issuer recorded, over any number of hand-overs,
\* and on none at all when CredentialOfferClient.toURI made the URI: never on
\* other ones.
TermsSurviveTheURI ==
    \A w \in Wallets : read[w] # NONE /\ sessions[read[w].id] # NONE =>
        \/ ActsOn(w, sessions[read[w].id].offer)
        \/ /\ read[w].byProperty
           /\ Wallet(w).supportedFlows = {} /\ Wallet(w).clientId = NONE

\* 'v11 changed from encoding every param to a encoded json object with a
\* credential_offer param key' (CredentialOfferClient.ts:72): whichever client
\* made the URI, what is read back is the offer.
EncodedJsonReadBack ==
    \A w \in Wallets : read[w] # NONE /\ sessions[read[w].id] # NONE =>
        ActsOn(w, sessions[read[w].id].offer)

\* A wallet that can go on with its offer asks its holder for a PIN exactly when
\* the token endpoint will compare one (session.txCode), and for as many digits
\* as were generated.
PinAgreement ==
    \A w \in Wallets : read[w] # NONE /\ sessions[read[w].id] # NONE
                         /\ Wallet(w).supportedFlows # {} =>
        /\ Wallet(w).userPinRequired <=> sessions[read[w].id].txCode # NONE
        /\ Wallet(w).txCode = sessions[read[w].id].txCode

\* An offer that was redeemed or deleted is not given out by reference again.
ReferenceNotReplayed ==
    [][\A w \in Wallets : read'[w] # read[w] /\ read'[w].by = "credential_offer_uri"
          => read'[w].id \notin gone]_vars
===============================================================================
