---------------------------- MODULE IssuerSessions ----------------------------
(***************************************************************************)
(* The issuer's credential-offer sessions: what VcIssuer, the token        *)
(* functions and the REST endpoints do to the three state managers         *)
(* credentialOfferSessions, uris and cNonces.                              *)
(*                                                                         *)
(* The stores are MemoryStates: a Map from a string to a REFERENCE, so one *)
(* session object can be stored under two keys and an endpoint that holds  *)
(* the object across an await changes what every other endpoint reads.     *)
(* `heap' holds the objects and `credentialOfferSessions' the references.  *)
(*                                                                         *)
(* Node runs the continuations of resolved promises to completion, so the  *)
(* awaits on MemoryStates are no scheduling points; the awaits on the      *)
(* application's callbacks (token signer, proof verifier, data supplier    *)
(* and credential signer, presentation verifier) are.  A request waiting   *)
(* for a callback is a record of `proc'; each step between two callbacks   *)
(* is one action.                                                          *)
(***************************************************************************)
EXTENDS Naturals, FiniteSets

CONSTANTS
    Offers,       \* identities of session objects, one per created offer
    Codes,        \* pre-authorized codes and issuer states
    CorrIds,      \* correlation ids of offers
    Nonces,       \* c_nonce values the nonce endpoint may generate
    Requests,     \* requests that may wait for a callback at the same time
    NONE,         \* undefined
    Events,       \* notification events a wallet may send
    SessionLife,  \* sessionLifeTimeInSec
    CodeLife,     \* preAuthorizedCodeExpirationDuration
    NonceLife,    \* cNonceExpiresIn
    ProofLife,    \* tokenExpiresIn as the credential endpoint uses it
    MaxTime,      \* bound on the clock
    OwnTokens,    \* may access tokens be the issuer's own (TRUE), or those of an
                  \* external authorization server (FALSE)?
    ExternalClaims, \* claims an external authorization server puts in its tokens
    ForeignState, \* may a credential request name another offer's issuer_state?
    ReuseCodes,   \* may the creator of an offer supply a code already in use?
    ChallengeEnabled \* authorizationChallengeOpts.enabled

Ids  == Codes \cup CorrIds
Time == 0 .. MaxTime

ClaimNames == {"preAuthorizedCode", "issuer_state", "pre-authorized_code"}
AllEvents  == {"credential_accepted", "credential_deleted", "credential_failure"}

ASSUME LifeAssumption ==
    /\ {SessionLife, CodeLife, NonceLife, ProofLife, MaxTime} \subseteq Nat
ASSUME ConfigAssumption ==
    /\ OwnTokens \subseteq BOOLEAN /\ ExternalClaims \subseteq ClaimNames
    /\ {ForeignState, ReuseCodes, ChallengeEnabled} \subseteq BOOLEAN
    /\ Events \subseteq AllEvents

NotificationStatus == {"NOTIFICATION_CREDENTIAL_ACCEPTED",
                       "NOTIFICATION_CREDENTIAL_DELETED",
                       "NOTIFICATION_CREDENTIAL_FAILURE"}
IssueStatus == {"OFFER_CREATED", "ACCESS_TOKEN_REQUESTED", "ACCESS_TOKEN_CREATED",
                "CREDENTIAL_REQUEST_RECEIVED", "CREDENTIAL_ISSUED", "ERROR"}
               \cup NotificationStatus

\* A CredentialOfferSession; createdAt + SessionLife is its expiresAt.
Session == [preAuthorizedCode : Codes \cup {NONE}, issuerState : Codes \cup {NONE},
            txCode : BOOLEAN, status : IssueStatus,
            notification : AllEvents \cup {NONE}, authorizationCode : BOOLEAN,
            createdAt : Time]

\* A URIState, stored under its correlation id.
URIState == [preAuthorizedCode : Codes \cup {NONE}, issuerState : Codes \cup {NONE},
             createdAt : Time]

ASSUME NoneAssumption ==
    /\ NONE \notin Offers \cup Codes \cup CorrIds \cup Nonces
    /\ NONE \notin Session /\ NONE \notin URIState /\ NONE \notin Time

\* The claims of an access token that the endpoints read.
Token == [ClaimNames -> Codes \cup {NONE}]

\* What a request holds while it waits for a callback: the session objects it
\* fetched (pre, auth), its IssuerCorrelation (code, state), the issuer_state
\* of the request body, and the nonce and iat of the proof.
Continuation ==
    [pc : {"idle", "signToken", "verifyProof", "issue", "challenge"},
     pre : Offers \cup {NONE}, auth : Offers \cup {NONE},
     code : Codes \cup {NONE}, state : Codes \cup {NONE},
     body : Codes \cup {NONE}, nonce : Nonces \cup {NONE}, iat : Time]

Idle == [pc |-> "idle", pre |-> NONE, auth |-> NONE, code |-> NONE,
         state |-> NONE, body |-> NONE, nonce |-> NONE, iat |-> 0]

VARIABLES
    heap,        \* session objects; NONE for an object not yet created
    credentialOfferSessions, \* key -> session object
    uris,        \* correlation id -> URIState
    cNonces,     \* nonce -> time of creation
    tokens,      \* access tokens handed out
    proc,        \* requests waiting for a callback
    now,         \* the clock
    own,         \* does the issuer sign the access tokens itself?
    \* history, read by no action but the environment's:
    minted,      \* nonces the nonce endpoint has handed out
    redeemed,    \* offers whose code the token endpoint accepted
    issued,      \* offers for which a credential was signed
    disclosed,   \* offers whose notification_id a wallet has received
    uses,        \* credentials signed for each nonce
    refused      \* offers whose holder's notification was turned down

stores  == <<credentialOfferSessions, uris, cNonces>>
\* own never changes; the rest is history.
history == <<own, minted, redeemed, issued, disclosed, uses, refused>>
vars    == <<heap, credentialOfferSessions, uris, cNonces, tokens, proc, now, own,
             minted, redeemed, issued, disclosed, uses, refused>>

-----------------------------------------------------------------------------
(* The stores *)

\* a ?? b
OrElse(a, b) == IF a # NONE THEN a ELSE b

\* MemoryStates.get, of an optional key
Get(key) == IF key = NONE THEN NONE ELSE credentialOfferSessions[key]

\* The map after MemoryStates.set(key, o)
Stored(key, o) == [credentialOfferSessions EXCEPT ![key] = o]

\* getCredentialOfferSessionById: through the uri entry of that correlation id
\* (by code, then by issuer state), else as a key of the sessions themselves
GetById(id) ==
    IF uris[id] = NONE THEN Get(id)
    ELSE OrElse(Get(uris[id].preAuthorizedCode),
                OrElse(Get(uris[id].issuerState), Get(id)))

Reachable(o) == \E k \in Ids : credentialOfferSessions[k] = o

\* The heap after a status is assigned to the objects of a set
WithStatus(objs, st) ==
    [o \in Offers |-> IF o \in objs THEN [heap[o] EXCEPT !.status = st]
                                    ELSE heap[o]]

\* The objects updateSession reaches: those now stored under the given keys
Reached(keys) == {Get(k) : k \in keys} \ {NONE}

\* updateSession({preAuthorizedCode, issuerState, error})
UpdateSessionError(keys) == heap' = WithStatus(Reached(keys), "ERROR")

Waits(r, c) == proc' = [proc EXCEPT ![r] = c]
Ends(r)     == proc' = [proc EXCEPT ![r] = Idle]

-----------------------------------------------------------------------------
(* Offers *)

InUse(c) == \E o \in Offers : heap[o] # NONE
                /\ c \in {heap[o].preAuthorizedCode, heap[o].issuerState}

\* createCredentialOfferURI stores one object under both of its keys.
CreateOffer(o, corrId, code, state, pin) ==
    /\ heap[o] = NONE
    /\ code # NONE \/ state # NONE
    /\ ReuseCodes \/ (code # state /\ \A c \in {code, state} \ {NONE} : ~InUse(c))
    /\ heap' = [heap EXCEPT ![o] =
                  [preAuthorizedCode |-> code, issuerState |-> state,
                   txCode |-> pin, status |-> "OFFER_CREATED",
                   notification |-> NONE, authorizationCode |-> FALSE,
                   createdAt |-> now]]
    /\ uris' = [uris EXCEPT ![corrId] =
                  [preAuthorizedCode |-> code, issuerState |-> state,
                   createdAt |-> now]]
    /\ credentialOfferSessions' =
         [k \in Ids |-> IF k \in {code, state} THEN o ELSE credentialOfferSessions[k]]
    /\ UNCHANGED <<cNonces, tokens, proc, now, history>>

\* deleteCredentialOfferSessionById: both keys of the session, not its uri.
DeleteOffer(id) ==
    LET o == GetById(id) IN
    /\ o # NONE
    /\ credentialOfferSessions' =
         [k \in Ids |-> IF k \in {heap[o].preAuthorizedCode, heap[o].issuerState}
                        THEN NONE ELSE credentialOfferSessions[k]]
    /\ UNCHANGED <<heap, uris, cNonces, tokens, proc, now, history>>

-----------------------------------------------------------------------------
(* The token endpoint *)

\* What assertValidAccessTokenRequest demands once it has marked the session.
\* tx says what the request's tx_code is: absent, right or wrong.
AcceptsTokenRequest(o, code, tx) ==
    /\ heap[o].preAuthorizedCode = code
    /\ tx = IF heap[o].txCode THEN "right" ELSE "absent"
    /\ now < heap[o].createdAt + CodeLife

\* Mutant: the error response of the middleware lacks its return.
GoesOnToSignAnyway(accepted, dpop) == ~dpop

\* verifyTokenRequest calls next() only after a valid request, and
\* handleTokenRequest turns down a DPoP header it is not configured for.
GoesOnToSign(accepted, dpop) == accepted /\ ~dpop

\* verifyTokenRequest, then handleTokenRequest up to the signer callback.
\* dpop: the request has a DPoP header, which this endpoint turns down.
TokenRequest(r, code, tx, dpop) ==
    LET o == credentialOfferSessions[code]
        accepted == AcceptsTokenRequest(o, code, tx)
    IN
    /\ own
    /\ proc[r].pc = "idle"
    /\ o # NONE
    /\ heap' = WithStatus({o}, "ACCESS_TOKEN_REQUESTED")
    /\ IF GoesOnToSign(accepted, dpop)
         THEN Waits(r, [Idle EXCEPT !.pc = "signToken", !.pre = o, !.code = code])
         ELSE UNCHANGED proc
    /\ redeemed' = IF accepted THEN redeemed \cup {o} ELSE redeemed
    /\ UNCHANGED <<stores, tokens, now, own, minted, issued, disclosed, uses, refused>>

\* generateAccessToken puts the code in the claim preAuthorizedCode.
InternalToken(code) ==
    [c \in ClaimNames |-> IF c = "preAuthorizedCode" THEN code ELSE NONE]

\* createAccessTokenResponse after the signer: the object fetched before it is
\* marked and stored again under the code.
TokenSigned(r) ==
    LET p == proc[r] IN
    /\ p.pc = "signToken"
    /\ heap' = WithStatus({p.pre}, "ACCESS_TOKEN_CREATED")
    /\ credentialOfferSessions' = Stored(p.code, p.pre)
    /\ tokens' = tokens \cup {InternalToken(p.code)}
    /\ Ends(r)
    /\ UNCHANGED <<uris, cNonces, now, history>>

\* The signer callback throws: 400, and the session keeps its status.
TokenSigningFails(r) ==
    /\ proc[r].pc = "signToken"
    /\ Ends(r)
    /\ UNCHANGED <<heap, stores, tokens, now, history>>

\* The token of an external authorization server for the offer o.
ExternalToken(o) ==
    [c \in ClaimNames |->
        IF c \notin ExternalClaims THEN NONE
        ELSE IF c = "issuer_state" THEN heap[o].issuerState
             ELSE heap[o].preAuthorizedCode]

ExternalAuthorization(o) ==
    /\ ~own
    /\ heap[o] # NONE
    /\ tokens' = tokens \cup {ExternalToken(o)}
    /\ UNCHANGED <<heap, stores, proc, now, history>>

-----------------------------------------------------------------------------
(* The authorization challenge endpoint *)

\* Second round: auth_session names a session, whose object is fetched before
\* the presentation is verified.
ChallengeRequest(r, state) ==
    LET o == credentialOfferSessions[state] IN
    /\ ChallengeEnabled
    /\ proc[r].pc = "idle"
    /\ o # NONE
    /\ Waits(r, [Idle EXCEPT !.pc = "challenge", !.auth = o, !.state = state])
    /\ UNCHANGED <<heap, stores, tokens, now, history>>

\* The presentation verifies: the code is written to the object, which is
\* stored again under auth_session.
ChallengeVerified(r) ==
    LET p == proc[r] IN
    /\ p.pc = "challenge"
    /\ heap' = [heap EXCEPT ![p.auth].authorizationCode = TRUE]
    /\ credentialOfferSessions' = Stored(p.state, p.auth)
    /\ Ends(r)
    /\ UNCHANGED <<uris, cNonces, tokens, now, history>>

ChallengeRejected(r) ==
    /\ proc[r].pc = "challenge"
    /\ Ends(r)
    /\ UNCHANGED <<heap, stores, tokens, now, history>>

-----------------------------------------------------------------------------
(* The nonce endpoint *)

Nonce(n) ==
    /\ n \notin minted
    /\ cNonces' = [cNonces EXCEPT ![n] = now]
    /\ minted' = minted \cup {n}
    /\ UNCHANGED <<heap, credentialOfferSessions, uris, tokens, proc, now, own,
                   redeemed, issued, disclosed, uses, refused>>

-----------------------------------------------------------------------------
(* The credential endpoint *)

\* Sessions an access token identifies
Owns(t, o) == /\ heap[o] # NONE
              /\ \/ t["preAuthorizedCode"] \in {heap[o].preAuthorizedCode} \ {NONE}
                 \/ t["issuer_state"] \in {heap[o].issuerState} \ {NONE}

\* The issuer_state a wallet may put in the request body: of its own offer,
\* or of any offer it knows.
BodyStates(t) ==
    {NONE} \cup {heap[o].issuerState :
                   o \in {x \in Offers : heap[x] # NONE /\ (ForeignState \/ Owns(t, x))}}

\* getCredentialEndpoint reads the token, issueCredential checks the request
\* and the proof's JWT goes to jwtVerifyCallback.
CredentialRequest(r, t, body, n) ==
    /\ proc[r].pc = "idle"
    /\ t \in tokens
    /\ body \in BodyStates(t)
    /\ n \in minted \cup {NONE}
    /\ Waits(r, [Idle EXCEPT !.pc = "verifyProof",
                             !.code = t["preAuthorizedCode"],
                             !.state = t["issuer_state"],
                             !.body = body, !.nonce = n, !.iat = now])
    /\ UNCHANGED <<heap, stores, tokens, now, history>>

\* A request issueCredential turns down before the proof is looked at: an
\* unknown credential configuration or identifier, or no jwt proof.
MalformedCredentialRequest(t) ==
    /\ t \in tokens
    /\ UpdateSessionError({t["preAuthorizedCode"], t["issuer_state"]})
    /\ UNCHANGED <<stores, tokens, proc, now, history>>

\* Mutant: updateSession writes the session of a key back though it is gone.
RequestFailsUpsert(r, keys) ==
    /\ UpdateSessionError(keys)
    /\ credentialOfferSessions' =
         [k \in Ids |-> IF k \in keys /\ InUse(k)
            THEN CHOOSE o \in Offers : heap[o] # NONE
                   /\ k \in {heap[o].preAuthorizedCode, heap[o].issuerState}
            ELSE credentialOfferSessions[k]]
    /\ Ends(r)
    /\ UNCHANGED <<uris, cNonces, tokens, now, history>>

\* issueCredential's catch: updateSession by the correlation of the request
RequestFails(r, keys) ==
    /\ UpdateSessionError(keys)
    /\ Ends(r)
    /\ UNCHANGED <<stores, tokens, now, history>>

\* jwtVerifyCallback throws.
ProofRejected(r) ==
    /\ proc[r].pc = "verifyProof"
    /\ RequestFails(r, {proc[r].code, proc[r].state})

\* validateCredentialRequestProof's issuer_state, and the sessions it fetches
IssuerStateOf(p) == OrElse(p.body, p.state)
PreAuthSession(p) == Get(p.code)
AuthSession(p)    == Get(IssuerStateOf(p))

NonceKnown(p) == p.nonce # NONE => cNonces[p.nonce] # NONE
StateKnown(p) == IssuerStateOf(p) # NONE => AuthSession(p) # NONE

\* The time the proof's iat is measured from: the session's creation when
\* there is an issuer state, else the nonce's.
ProofBase(p) == IF IssuerStateOf(p) # NONE THEN heap[AuthSession(p)].createdAt
                ELSE cNonces[p.nonce]

\* Every check of validateCredentialRequestProof on stored state
ProofAccepted(p) ==
    LET pre == PreAuthSession(p)  auth == AuthSession(p) IN
    /\ p.nonce # NONE \/ IssuerStateOf(p) # NONE
    /\ NonceKnown(p)
    /\ StateKnown(p)
    /\ pre # NONE \/ auth # NONE
    /\ pre # NONE => heap[pre].preAuthorizedCode = p.code
    /\ auth # NONE => heap[auth].issuerState = IssuerStateOf(p)
    /\ p.iat <= ProofBase(p) + ProofLife

\* The proof verifies and every check passes: both sessions are marked, and
\* the request goes on to the data supplier and the signer with the objects.
ProofVerified(r) ==
    LET p == proc[r]  pre == PreAuthSession(p)  auth == AuthSession(p) IN
    /\ p.pc = "verifyProof"
    /\ ProofAccepted(p)
    /\ heap' = WithStatus({pre, auth}, "CREDENTIAL_REQUEST_RECEIVED")
    /\ Waits(r, [p EXCEPT !.pc = "issue", !.pre = pre, !.auth = auth,
                          !.state = OrElse(p.state, IssuerStateOf(p))])
    /\ UNCHANGED <<stores, tokens, now, history>>

\* A check fails, on stored state or (goodClaims = FALSE) on the proof's
\* typ, alg, key, iss or aud: both catches mark what they can find.
ProofInvalid(r, goodClaims) ==
    LET p == proc[r]
        known == NonceKnown(p) /\ AuthSession(p) # NONE
    IN
    /\ p.pc = "verifyProof"
    /\ ~(goodClaims /\ ProofAccepted(p))
    /\ RequestFails(r, {p.code, p.state}
                         \cup (IF known THEN {IssuerStateOf(p)} ELSE {}))

\* Mutant: only the pre-authorized session is considered.
IssuingSessionPreOnly(p) == p.pre

\* The session issueCredential takes the offer and the notification_id from
IssuingSession(p) == OrElse(p.pre, p.auth)

\* Mutant: the issuer state takes precedence over the pre-authorized code.
IssuingKeyStateFirst(p) == OrElse(p.state, p.code)

\* The key it is stored under again
IssuingKey(p) == IF p.pre # NONE THEN p.code ELSE p.state

\* Mutant: the nonce is only removed when there is an issuer state.
SpendNonceAuthOnly(p) ==
    IF p.nonce = NONE \/ p.auth = NONE THEN cNonces
    ELSE [cNonces EXCEPT ![p.nonce] = NONE]

\* cNonces.delete of the proof's nonce, if it has one
SpendNonce(p) == IF p.nonce = NONE THEN cNonces
                 ELSE [cNonces EXCEPT ![p.nonce] = NONE]

\* The effects of a signed credential, before the response is built
Sign(p) ==
    /\ credentialOfferSessions' = Stored(IssuingKey(p), IssuingSession(p))
    /\ cNonces' = SpendNonce(p)
    /\ uses' = IF p.nonce = NONE THEN uses
               ELSE [uses EXCEPT ![p.nonce] = @ + 1]
    /\ issued' = issued \cup {IssuingSession(p)}

\* Data supplier and signer succeed: the nonce is removed, the session marked
\* and stored again, and the wallet gets the credential and notification_id.
CredentialIssued(r) ==
    LET p == proc[r] IN
    /\ p.pc = "issue"
    /\ Sign(p)
    /\ heap' = WithStatus({IssuingSession(p)}, "CREDENTIAL_ISSUED")
    /\ disclosed' = disclosed \cup {IssuingSession(p)}
    /\ Ends(r)
    /\ UNCHANGED <<uris, tokens, now, own, minted, redeemed, refused>>

\* The same, but the request asked for an unsupported subject_proof_mode: the
\* error comes after all that and marks the sessions of the correlation.
CredentialIssuedThenRejected(r) ==
    LET p == proc[r]
        found == {IF k = IssuingKey(p) THEN IssuingSession(p) ELSE Get(k) :
                    k \in {p.code, p.state} \ {NONE}} \ {NONE}
    IN
    /\ p.pc = "issue"
    /\ Sign(p)
    /\ heap' = WithStatus(found, "ERROR")
    /\ Ends(r)
    /\ UNCHANGED <<uris, tokens, now, own, minted, redeemed, disclosed, refused>>

\* Mutant: the catch forgets the pre-authorized code.
IssuanceFailsStateOnly(r) ==
    /\ proc[r].pc = "issue"
    /\ RequestFails(r, {proc[r].state})

\* The data supplier or the signer fails.
IssuanceFails(r) ==
    /\ proc[r].pc = "issue"
    /\ RequestFails(r, {proc[r].code, proc[r].state})

-----------------------------------------------------------------------------
(* The notification endpoint *)

StatusOf(event) ==
    CASE event = "credential_accepted" -> "NOTIFICATION_CREDENTIAL_ACCEPTED"
      [] event = "credential_deleted"  -> "NOTIFICATION_CREDENTIAL_DELETED"
      [] event = "credential_failure"  -> "NOTIFICATION_CREDENTIAL_FAILURE"

\* Mutant: any session will do, whatever its notification_id.
IdMatchesAny(found, id) == found # NONE

\* The notification_id check of processNotification
IdMatches(found, id) == found = id

\* processNotification, by the claim pre-authorized_code of the token.  id is
\* the session whose notification_id the wallet sends.
NotificationRequest(t, id, event) ==
    LET key == t["pre-authorized_code"]
        found == IF key = NONE THEN NONE ELSE GetById(key)
        o == Get(key)
    IN
    /\ t \in tokens
    /\ id \in disclosed
    /\ IF IdMatches(found, id)
         THEN /\ heap' = IF o = NONE THEN heap
                         ELSE [heap EXCEPT ![o].status = StatusOf(event),
                                           ![o].notification = event]
              /\ UNCHANGED refused
         ELSE /\ refused' = IF Owns(t, id) /\ Reachable(id) THEN refused \cup {id} ELSE refused
              /\ UNCHANGED heap
    /\ UNCHANGED <<stores, tokens, proc, now, own, minted, redeemed, issued, disclosed, uses>>

-----------------------------------------------------------------------------
(* Time and the cleanup routines, one per store *)

Tick == /\ now < MaxTime
        /\ now' = now + 1
        /\ UNCHANGED <<heap, stores, tokens, proc, history>>

Expired(createdAt, life) == createdAt + life < now

CleanupSessions ==
    /\ credentialOfferSessions' =
         [k \in Ids |->
            IF Get(k) # NONE /\ Expired(heap[Get(k)].createdAt, SessionLife)
            THEN NONE ELSE Get(k)]
    /\ UNCHANGED <<heap, uris, cNonces, tokens, proc, now, history>>

CleanupUris ==
    /\ uris' = [k \in Ids |->
                  IF uris[k] # NONE /\ Expired(uris[k].createdAt, SessionLife)
                  THEN NONE ELSE uris[k]]
    /\ UNCHANGED <<heap, credentialOfferSessions, cNonces, tokens, proc, now, history>>

CleanupNonces ==
    /\ cNonces' = [n \in Nonces |->
                     IF cNonces[n] # NONE /\ Expired(cNonces[n], NonceLife)
                     THEN NONE ELSE cNonces[n]]
    /\ UNCHANGED <<heap, credentialOfferSessions, uris, tokens, proc, now, history>>

-----------------------------------------------------------------------------
Init ==
    /\ heap = [o \in Offers |-> NONE]
    /\ credentialOfferSessions = [k \in Ids |-> NONE]
    /\ uris = [k \in Ids |-> NONE]
    /\ cNonces = [n \in Nonces |-> NONE]
    /\ tokens = {}
    /\ proc = [r \in Requests |-> Idle]
    /\ now = 0
    /\ own \in OwnTokens
    /\ minted = {} /\ redeemed = {} /\ issued = {} /\ disclosed = {} /\ refused = {}
    /\ uses = [n \in Nonces |-> 0]

\* A callback the request waits for has settled.
Settle(r) ==
    \/ TokenSigned(r) \/ TokenSigningFails(r)
    \/ ChallengeVerified(r) \/ ChallengeRejected(r)
    \/ ProofRejected(r) \/ ProofVerified(r)
    \/ \E good \in BOOLEAN : ProofInvalid(r, good)
    \/ CredentialIssued(r) \/ CredentialIssuedThenRejected(r) \/ IssuanceFails(r)

Arrive(r) ==
    \/ \E c \in Codes, tx \in {"absent", "right", "wrong"}, dpop \in BOOLEAN :
         TokenRequest(r, c, tx, dpop)
    \/ \E c \in Codes : ChallengeRequest(r, c)
    \/ \E t \in tokens, body \in Codes \cup {NONE}, n \in Nonces \cup {NONE} :
         CredentialRequest(r, t, body, n)

Next ==
    \/ \E o \in Offers, k \in CorrIds, c, s \in Codes \cup {NONE}, pin \in BOOLEAN :
         CreateOffer(o, k, c, s, pin)
    \/ \E id \in Ids : DeleteOffer(id)
    \/ \E r \in Requests : Arrive(r) \/ Settle(r)
    \/ \E o \in Offers : ExternalAuthorization(o)
    \/ \E n \in Nonces : Nonce(n)
    \/ \E t \in tokens : MalformedCredentialRequest(t)
    \/ \E t \in tokens, id \in Offers, e \in Events : NotificationRequest(t, id, e)
    \/ Tick \/ CleanupSessions \/ CleanupUris \/ CleanupNonces

Spec == Init /\ [][Next]_vars

\* Every callback the application supplied settles: it answers or throws.
CallbacksSettle == \A r \in Requests : WF_vars(Settle(r))

FairSpec == Spec /\ CallbacksSettle

-----------------------------------------------------------------------------
(* Properties *)

\* The variables have the types the code gives them.
TypeOK ==
    /\ heap \in [Offers -> Session \cup {NONE}]
    /\ credentialOfferSessions \in [Ids -> Offers \cup {NONE}]
    /\ uris \in [Ids -> URIState \cup {NONE}]
    /\ cNonces \in [Nonces -> Time \cup {NONE}]
    /\ tokens \subseteq Token
    /\ proc \in [Requests -> Continuation]
    /\ now \in Time
    /\ minted \subseteq Nonces
    /\ uses \in [Nonces -> Nat]
    /\ {redeemed, issued, disclosed, refused} \subseteq SUBSET Offers

\* A key finds only the session that carries it as its pre-authorized code or
\* issuer state, whatever requests stored sessions again in the meantime:
\* the checks of VcIssuer.ts:836 and 844 never meet a session of another key.
StoredUnderOwnKey ==
    \A k \in Ids : LET o == credentialOfferSessions[k] IN
        o # NONE => /\ heap[o] # NONE
                    /\ k \in {heap[o].preAuthorizedCode, heap[o].issuerState}

\* The status and deletion endpoints, given a correlation id, find the session
\* of the offer created under it or none, through deletions, expiry of the two
\* stores at different times and sessions stored again by requests in flight.
CorrelationFindsItsOffer ==
    \A k \in CorrIds : uris[k] # NONE /\ GetById(k) # NONE =>
        /\ heap[GetById(k)].preAuthorizedCode = uris[k].preAuthorizedCode
        /\ heap[GetById(k)].issuerState = uris[k].issuerState

\* A notification moves only the session of a credential that was issued:
\* processNotification and updateSession look the session up by different
\* functions and must reach the same one.
NotifiedOnlyAfterIssue ==
    \A o \in Offers : heap[o] # NONE /\ heap[o].status \in NotificationStatus
                        => o \in issued

\* Where the issuer signs its own tokens, a request reaches the signer only with
\* the code of an offer whose token request was accepted, although the credential endpoint never reads the
\* session's status, and where a session is found by that code it is that
\* offer's.  Only when it is gone does the body's issuer_state decide alone
\* (VcIssuer.ts:473, 783), and then the offer signed for may be any.
SignedOnRedeemedCode ==
    \A r \in Requests : own /\ proc[r].pc = "issue" =>
        \E o \in redeemed : /\ heap[o].preAuthorizedCode = proc[r].code
                            /\ proc[r].pre \in {o, NONE}

\* Requests past validation that carry the nonce
InFlight(n) == {r \in Requests : proc[r].pc = "issue" /\ proc[r].nonce = n}

\* The nonce is deleted only after the signer's await, so requests that were
\* validated before can still use it, but no others: a nonce serves at most
\* as many credentials as requests were in flight together.
NonceUseBounded ==
    \A n \in Nonces : uses[n] > 0 =>
        /\ cNonces[n] = NONE
        /\ uses[n] + Cardinality(InFlight(n)) <= Cardinality(Requests)

Holds(r, o) == o \in {proc[r].pre, proc[r].auth}

\* A key that finds no session (never created, deleted or expired) comes to
\* find one only by creating an offer or through a request that fetched that
\* session before it went.
StoredOnlyByCreatorOrHolder ==
    [][\A k \in Ids :
         LET o == credentialOfferSessions'[k] IN
         Get(k) = NONE /\ o # NONE => \/ heap[o] = NONE
                                      \/ \E r \in Requests : Holds(r, o)]_vars

Received(o) == /\ Reachable(o)
               /\ heap[o].status = "CREDENTIAL_REQUEST_RECEIVED"

\* A session that can be looked up does not stay in CREDENTIAL_REQUEST_RECEIVED
\* once the callbacks settle: it is issued, fails, or is gone.
ReceivedIsResolved == \A o \in Offers : Received(o) ~> ~Received(o)

\* A wallet that got a credential can report on it with the access token it
\* used (StateManager.types.ts:34 to 36).
NotificationsCorrelate == refused = {}

=============================================================================
