--------------------------------- MODULE Wallet ---------------------------------
(***************************************************************************)
(* A wallet that turns an offer into credentials: acquireAccessToken and   *)
(* acquireCredentials of OpenID4VCIClient and OpenID4VCIClientV1_0_15,     *)
(* with AccessTokenClient, CredentialRequestClient and the DPoP helpers,   *)
(* against the token, nonce and credential endpoints of this repository's  *)
(* issuer or of another server.                                            *)
(*                                                                         *)
(* Calls share the client's state and interleave where they await an       *)
(* answer or the application's signature.  Of a DPoP proof the model keeps *)
(* that a request carries one.  The client may be exported and restored,   *)
(* which loses the calls.                                                  *)
(***************************************************************************)
EXTENDS WalletRequests

CONSTANTS
    Calls,          \* calls of the application that may be in flight at once
    Wallets,        \* clients before their first call
    TokenArgs,      \* arguments of acquireAccessToken
    CredentialArgs, \* arguments of acquireCredentials
    MaxStarts,      \* bound: calls that are started
    MaxNonces,      \* bound: nonces of the nonce endpoint
    MaxPolls        \* bound: answers that issuance is pending

ASSUME WalletAssumption == {MaxStarts, MaxNonces, MaxPolls} \subseteq Nat

VARIABLES
    own,       \* this repository's issuer, or another server?
    wallet,    \* the client's state
    calls,     \* the calls in flight
    nonces,    \* nonces handed out so far
    spent,     \* nonces credentials were issued for
    polls,     \* answers that issuance is pending
    starts,    \* calls started
    accepted,  \* history: token requests accepted, with the token's number
    overlap,   \* history: two token requests were in flight at once
    lost,      \* history: an accepted token request did not reach the state
    refused    \* history: nonces of proofs another server turned down

vars == <<own, wallet, calls, nonces, spent, polls, starts, accepted, overlap, lost, refused>>
history == <<accepted, overlap, lost, refused>>

Kinds  == {"general", "V15"}
Grants == {"authorization_code", "pre-authorized_code"}
Keys   == {"kid", "jwk"}
Token  == 1 .. MaxStarts
Nonces == 1 .. MaxNonces

Offers == [flows : SUBSET Grants, configs : SUBSET Configs, tx : Optional(TxCodes)]
WalletState ==
    [kind : Kinds, offer : Optional(Offers), client : BOOLEAN, v1 : BOOLEAN, flow : BOOLEAN,
     nonceAt : BOOLEAN, deferredAt : BOOLEAN, verifier : BOOLEAN, code : BOOLEAN,
     keys : SUBSET Keys, token : Optional(Token), nonce : Optional(Nonces)]
Proofs == [aud : {"issuer"}, nonce : Optional(Nonces), keys : SUBSET Keys, iss : BOOLEAN]

ASSUME WalletsAssumption ==
    /\ \A w \in Wallets : w \in WalletState /\ w.nonce = NONE
    /\ \A a \in CredentialArgs : a.keys \subseteq Keys /\ a.dpop \in BOOLEAN
    /\ NONE \notin Proofs

\* A call in flight. args are its own, the rest is what it has read of the state.
Steps == {"idle", "token", "tokenRetry", "nonce", "sign", "credential", "credentialRetry", "deferred"}
Idle  == [step |-> "idle", args |-> NONE, request |-> NONE, token |-> NONE, proof |-> NONE,
          dpop |-> FALSE, state |-> FALSE, denied |-> FALSE]

CallOK(r) ==
    /\ r.step \in Steps /\ r.dpop \in BOOLEAN /\ r.state \in BOOLEAN /\ r.denied \in BOOLEAN
    /\ r.token \in Optional(Token)
    /\ r.proof # NONE => r.proof.nonce \in Optional(Nonces) /\ r.proof.keys \subseteq Keys
    /\ r.step \in {"sign", "credential", "credentialRetry", "deferred"} => r.token # NONE /\ r.proof # NONE

Init ==
    /\ own \in BOOLEAN
    /\ wallet \in Wallets
    /\ calls = [c \in Calls |-> Idle]
    /\ nonces = 0 /\ spent = {} /\ polls = 0 /\ starts = 0
    /\ accepted = 0 /\ overlap = FALSE /\ lost = FALSE /\ refused = {}

\* version: an offer settles it, else the metadata
Version(w) == IF w.offer = NONE /\ w.v1 THEN "V1_0" ELSE "V15"

\* issuerSupportedFlowTypes, assertIssuerData
Flows(w) == IF w.offer # NONE THEN w.offer.flows
            ELSE IF w.flow THEN {"authorization_code"} ELSE {}
IssuerData(w) == w.offer # NONE \/ Flows(w) # {}

Tx(w) == IF w.offer = NONE THEN NONE ELSE w.offer.tx
Step(c, r) == calls' = [calls EXCEPT ![c] = r]
Start == starts < MaxStarts /\ starts' = starts + 1

-----------------------------------------------------------------------------
(* acquireAccessToken *)

\* The token response of the state is handed out again.
NeedsToken(w) == w.token = NONE

\* The first attempt carries a DPoP proof if the options list algorithms; the
\* retry does not look at the list.
TokenDPoP(a) == a.dpop = "algorithms"

\* A code that is passed in is kept; then the request is made and validated.
AcquireAccessToken(c, a) ==
    /\ calls[c].step = "idle" /\ Start
    /\ LET w  == [wallet EXCEPT !.code = @ \/ a.code]
           r  == TokenRequest(w.offer, w.code, w.verifier, a.pin)
           as == [type |-> a.assertion, client |-> w.client, kid |-> "kid" \in w.keys, callback |-> a.callback]
       IN  /\ wallet' = w
           /\ IF /\ IssuerData(w) /\ NeedsToken(w)
                 /\ AssertionFits(as) /\ ValidTokenRequest(r, Tx(w))
              THEN /\ Step(c, [Idle EXCEPT !.step = "token", !.args = a, !.request = r, !.dpop = TokenDPoP(a)])
                   /\ overlap' = (overlap \/ \E d \in Calls : calls[d].step \in {"token", "tokenRetry"})
              ELSE UNCHANGED <<calls, overlap>>
    /\ UNCHANGED <<own, nonces, spent, polls, accepted, lost, refused>>

\* Answers of a token endpoint. This repository's serves the pre-authorized code
\* only and is never given DPoP options: it refuses a request with a proof and
\* binds no token. Another server may demand a nonce, and bind the token.
Error(e) == [ok |-> FALSE, error |-> e]
OwnTokenAnswers(r, proof) ==
    IF r.grant # "pre-authorized_code" \/ proof THEN {Error("invalid_request")}
    ELSE {Error("invalid_grant"), [ok |-> TRUE, bound |-> FALSE, nonce |-> FALSE]}
OtherTokenAnswers(proof) ==
    {Error("invalid_grant"), Error("use_dpop_nonce")}
        \cup [ok : {TRUE}, bound : {proof, FALSE}, nonce : {FALSE, nonces < MaxNonces}]

\* A token that is not bound, asked for with DPoP options, is thrown away.
TokenAnswer(c) ==
    /\ calls[c].step \in {"token", "tokenRetry"}
    /\ \E r \in IF own THEN OwnTokenAnswers(calls[c].request, calls[c].dpop)
                ELSE OtherTokenAnswers(calls[c].dpop) :
         LET opts  == calls[c].args.dpop # "none"
             retry == DemandsNonce(r) /\ opts /\ calls[c].step = "token"
             typed == r.ok /\ (opts => r.bound)
         IN  /\ Step(c, IF retry THEN [calls[c] EXCEPT !.step = "tokenRetry", !.dpop = TRUE] ELSE Idle)
             /\ accepted' = IF r.ok THEN accepted + 1 ELSE accepted
             /\ lost' = (lost \/ (r.ok /\ ~typed))
             /\ nonces' = IF r.ok /\ r.nonce THEN nonces + 1 ELSE nonces
             /\ wallet' = IF ~typed THEN wallet
                          ELSE [wallet EXCEPT !.token = accepted', !.nonce = IF r.nonce THEN nonces' ELSE @]
    /\ UNCHANGED <<own, spent, polls, starts, overlap, refused>>

-----------------------------------------------------------------------------
(* acquireCredentials *)

\* The general client's request is always the one its offer selects.
Builder(w, a) ==
    IF w.kind = "V15" THEN Selected(RequestBuilder(w.offer, a.config, a.identifier), a.config, a.identifier)
    ELSE RequestBuilder(w.offer, NONE, NONE)

\* The issuer state goes back where a code was used and no nonce is cached.
SendsIssuerState(w) == "authorization_code" \in Flows(w) /\ w.code /\ w.nonce = NONE

\* A builder that is not given the token
ToSignWithoutToken(w, a, token, state) ==
    [Idle EXCEPT !.step = "sign", !.args = a, !.state = state,
                 !.request = Builder(w, a),
                 !.proof = Proof(w.nonce, w.keys, ProofClient(w.offer, w.client))]

\* With a nonce, if there is to be one, the proof is handed to the signer.
ToSign(w, a, token, state) ==
    [Idle EXCEPT !.step = "sign", !.args = a, !.token = token, !.state = state,
                 !.request = Builder(w, a),
                 !.proof = Proof(w.nonce, w.keys, ProofClient(w.offer, w.client))]

\* The general client reads the token once it has a nonce, the V15 client
\* before it asks for one.
NonceFirst(w) == w.nonce = NONE /\ (w.kind = "V15" \/ (Version(w) = "V15" /\ w.nonceAt))

AcquireCredentials(c, a) ==
    /\ calls[c].step = "idle" /\ Start
    /\ LET w == [wallet EXCEPT !.keys = @ \cup a.keys]
           ready == [Idle EXCEPT !.step = "nonce", !.args = a, !.token = w.token,
                                 !.state = SendsIssuerState(w)]
       IN  IF a.keys = Keys THEN UNCHANGED <<wallet, calls>>
           ELSE /\ wallet' = w
                /\ CASE NonceFirst(w) -> IF w.kind = "V15" /\ (w.token = NONE \/ ~w.nonceAt)
                                         THEN UNCHANGED calls ELSE Step(c, ready)
                     [] ~NonceFirst(w) /\ w.token = NONE -> UNCHANGED calls
                     [] OTHER -> Step(c, ToSign(w, a, w.token, SendsIssuerState(w)))
    /\ UNCHANGED <<own, nonces, spent, polls, history>>

\* A delegate that keeps the nonce to itself
StoredNonceV15Only(w, n) == IF w.kind = "V15" THEN n ELSE NONE

\* acquireNonce; acquireNonceViaV15Delegate copies the nonce back
StoredNonce(w, n) == n

NonceAnswer(c) ==
    /\ calls[c].step = "nonce"
    /\ \/ /\ Step(c, Idle) /\ UNCHANGED <<wallet, nonces>>
       \/ /\ nonces < MaxNonces
          /\ nonces' = nonces + 1
          /\ LET w     == [wallet EXCEPT !.nonce = StoredNonce(wallet, nonces')]
                 v15   == w.kind = "V15"
                 token == IF v15 THEN calls[c].token ELSE w.token
                 state == IF v15 THEN calls[c].state ELSE SendsIssuerState(w)
             IN  /\ wallet' = w
                 /\ Step(c, IF token = NONE THEN Idle ELSE ToSign(w, calls[c].args, token, state))
    /\ UNCHANGED <<own, spent, polls, starts, history>>

\* The proof is signed, or the application fails. Only now a request that
\* names no credential is refused. No builder sets authorization details.
ProofSigned(c) ==
    /\ calls[c].step = "sign"
    /\ LET a    == calls[c].args
           id   == IF wallet.kind = "V15" THEN a.identifier ELSE NONE
           body == RequestBody(calls[c].request, id, DetailOf(<<>>, id))
       IN  \/ Step(c, Idle)
           \/ /\ body # Refused
              /\ Step(c, [calls[c] EXCEPT !.step = "credential", !.request = body, !.dpop = a.dpop])
    /\ UNCHANGED <<own, wallet, nonces, spent, polls, starts, history>>

\* Answers of a credential endpoint; transaction: the credential is deferred.
\* This repository's issuer reads a token with the scheme Bearer only.
Issued == [ok |-> TRUE, credentials |-> TRUE, transaction |-> FALSE]
Deferred == [ok |-> TRUE, credentials |-> FALSE, transaction |-> TRUE]
NonceFits(p) == p.nonce # NONE /\ p.nonce \notin spent
OwnCredentialAnswers(r) ==
    IF Scheme(r.dpop) = "DPoP" THEN {Error("invalid_request")}
    ELSE {Error("invalid_request")}
        \cup {x \in {Issued} : NonceFits(r.proof) /\ Cardinality(r.proof.keys) = 1}
OtherCredentialAnswers(r) ==
    {Error("invalid_proof"), Error("use_dpop_nonce")}
        \cup {x \in {Issued, Deferred} : NonceFits(r.proof) \/ ~wallet.nonceAt}

\* An error ends the call: what acquireCredentials throws for an answer is a
\* message without a status, which shouldRetryWithFreshNonce looks for.
CredentialAnswer(c) ==
    /\ calls[c].step \in {"credential", "credentialRetry"}
    /\ \E r \in IF own THEN OwnCredentialAnswers(calls[c]) ELSE OtherCredentialAnswers(calls[c]) :
         LET retry == DemandsNonce(r) /\ calls[c].args.dpop /\ calls[c].step = "credential"
             nonce == {calls[c].proof.nonce} \ {NONE}
         IN  /\ spent' = IF r.ok THEN spent \cup nonce ELSE spent
             /\ refused' = IF ~r.ok /\ r.error = "invalid_proof" THEN refused \cup nonce ELSE refused
             /\ Step(c, CASE retry -> [calls[c] EXCEPT !.step = "credentialRetry"]
                          [] r.ok /\ IsDeferred(r) /\ calls[c].args.await /\ wallet.deferredAt ->
                               [calls[c] EXCEPT !.step = "deferred", !.dpop = FALSE]
                          [] OTHER -> Idle)
    /\ UNCHANGED <<own, wallet, nonces, polls, starts, accepted, overlap, lost>>

\* A loop that takes any error for pending
KeepsPollingOnErrors(r) == ~(r.ok /\ r.credentials)

\* The deferred endpoint is polled, with a bearer token, while it says that
\* issuance is pending; credentials, a fatal or another error end the loop.
KeepsPolling(r) == ~(r.ok /\ r.credentials) /\ ~Fatal(r) /\ Pending(r)

\* Issuance is pending for a while, then it is decided, and denied for good.
DeferredAnswers(r) ==
    {Error("invalid_transaction_id"), Error("invalid_request")}
        \cup {x \in {Error("issuance_pending")} : polls < MaxPolls /\ ~r.denied}
        \cup {x \in {Issued} : ~r.denied}

DeferredAnswer(c) ==
    /\ calls[c].step = "deferred"
    /\ \E r \in DeferredAnswers(calls[c]) :
         /\ polls' = IF polls < MaxPolls THEN polls + 1 ELSE polls
         /\ Step(c, IF KeepsPolling(r)
                    THEN [calls[c] EXCEPT !.denied = ~r.ok /\ r.error # "issuance_pending"] ELSE Idle)
    /\ UNCHANGED <<own, wallet, nonces, spent, starts, history>>

-----------------------------------------------------------------------------
(* exportState and fromState *)

\* A constructor that does not take the token response over
RestoredWithoutToken(w) == [w EXCEPT !.nonce = NONE, !.token = NONE]

\* The constructors keep the token response and drop the nonce.
Restored(w) == [w EXCEPT !.nonce = NONE]

Restore ==
    /\ \E k \in Kinds : wallet' = [Restored(wallet) EXCEPT !.kind = k]
    /\ calls' = [c \in Calls |-> Idle]
    /\ lost' = (lost \/ \E c \in Calls : calls[c].step \in {"token", "tokenRetry"})
    /\ UNCHANGED <<own, nonces, spent, polls, starts, accepted, overlap, refused>>

Answer(c) == \/ TokenAnswer(c)
             \/ NonceAnswer(c)
             \/ ProofSigned(c)
             \/ CredentialAnswer(c)
             \/ DeferredAnswer(c)

Next ==
    \/ \E c \in Calls, a \in TokenArgs : AcquireAccessToken(c, a)
    \/ \E c \in Calls, a \in CredentialArgs : AcquireCredentials(c, a)
    \/ \E c \in Calls : Answer(c)
    \/ Restore

Spec == Init /\ [][Next]_vars

\* Servers answer and the application's signers return, each call's in turn.
FairSpec == Spec /\ \A c \in Calls : WF_vars(Answer(c))

-----------------------------------------------------------------------------
(* Properties *)

\* Type invariant: calls, the client's state and the counters; a request for a
\* credential has a token and a proof (acquireCredentials, both clients).
WalletTypeOK ==
    /\ own \in BOOLEAN
    /\ wallet \in WalletState
    /\ \A c \in Calls : CallOK(calls[c])
    /\ nonces \in 0 .. MaxNonces /\ spent \cup refused \subseteq 1 .. nonces
    /\ polls \in 0 .. MaxPolls /\ starts \in 0 .. MaxStarts
    /\ accepted \in 0 .. MaxStarts

\* A code is redeemed once: a client that was given a token response never asks
\* for another, restored or not, unless two calls asked at once or an answer
\* was lost (acquireAccessToken, the constructors' accessTokenResponse).
CodeRedeemedOnce == accepted > 1 => overlap \/ lost

\* Where the issuer has a nonce endpoint, no proof is made without a nonce, and
\* none with a nonce the endpoint did not hand out (acquireNonceViaV15Delegate,
\* cachedCNonce). A V1_0 issuer without an offer is asked without one.
ProofHasNonce ==
    \A c \in Calls : calls[c].step \in {"sign", "credential", "credentialRetry"} =>
        /\ wallet.nonceAt /\ Version(wallet) = "V15" => calls[c].proof.nonce # NONE
        /\ calls[c].proof.nonce # NONE => calls[c].proof.nonce <= nonces

\* Every call ends once the servers answer, deferred credentials included
\* (acquireDeferredCredential).
CallsEnd == \A c \in Calls : calls[c].step # "idle" ~> calls[c].step = "idle"

\* "Only one must be present": a proof names its key in one way
\* (KID_JWK_X5C_ERROR in acquireCredentials).
OneKeyPerProof ==
    \A c \in Calls : calls[c].proof # NONE => calls[c].proof.keys # Keys

\* "one retry with fresh nonce + rebuilt proof" (OpenID4VCIClient.ts:558): the
\* general client does not keep a nonce with which a proof was turned down.
RefusedNonceIsDropped ==
    wallet.kind = "general" /\ wallet.nonceAt => wallet.nonce \notin refused
=============================================================================
