# A TLA+ development for OID4VC

This directory models the OID4VC mono-repository, checks it with TLC on small instances
and proves part of it with TLAPS for every instance. Paths below are relative to the
repository; `P/` stands for `packages/`.

OID4VC is a set of TypeScript libraries for issuing verifiable credentials (OpenID4VCI:
issuer, REST endpoints, wallet client) and for presenting them (SIOPv2 and OpenID4VP:
relying party and OpenID provider). The libraries run in an application that supplies the
callbacks: signers, verifiers, data suppliers, lookups and, if it wants, its own stores.

## 1. Inventory

| Component | State | Operations | Interacts through | What makes it correct |
|---|---|---|---|---|
| Issuer: offer sessions (`P/issuer/lib/VcIssuer.ts`) | `credentialOfferSessions`, `uris`, `cNonces` | create, look up, delete an offer; issue a credential; process a notification | shared session objects with the token and REST functions; callbacks of the application | a key finds the session that carries it; a nonce is not reused at will; every received request ends as issued or as an error |
| Issuer: access tokens (`P/issuer/lib/tokens/index.ts`, `P/issuer-rest/lib/IssuerTokenEndpoint.ts`) | the sessions' status | validate a token request, sign a token | `credentialOfferSessions`; the token's claims, which the credential and notification endpoints read | a token only for a known code with the right PIN, in time |
| Issuer: REST endpoints (`P/issuer-rest/lib`) | pushed authorization requests and their timers | which routes a server has; tokens, nonces, credentials, notifications, challenges, offers, pushed requests, metadata | `VcIssuer` | a step of the protocol only after the one before it |
| Issuer: state managers (`P/issuer/lib/state-manager`) | one map and one timer per store; a mapping store and a value store behind a lookup | get, set, delete, expire, look up by another key, start and stop timers | by reference, or calls to a store the application supplies | what is stored is found until it expires or is deleted, by its own id only |
| Issuer: offer construction (`P/issuer/lib/functions`, `P/oid4vci-common/lib/functions/CredentialOfferUtil.ts`) | the caller's grants object | build offer, grants, PIN length and URI; parse it again | URIs, by value and by reference | a wallet reads the terms the session records |
| Issuer: builders (`P/issuer/lib/builder`) | what was set so far, shared with caller and result | setters, builds | objects handed in and out | what was validated stays valid; a running issuer loses nothing |
| Relying party: transactions (`P/siop-oid4vp/lib/rp/RP.ts`) | the options every call shares | create a request (URI), signal its retrieval, verify a response | events; application callbacks | a request carries what its call was given; a response is only verified for its own transaction |
| Relying party: sessions (`P/siop-oid4vp/lib/rp/InMemoryRPSessionManager.ts`) | records of requests and responses, mappings by hash of nonce and state, query ids, callbacks | eight event handlers, lookups, deletion, expiry | events of the RP | a state or nonce finds its transaction and no other, and only while it lives |
| Requests and responses (`P/siop-oid4vp/lib/authorization-request`, `.../authorization-response`, `.../request-object`, `.../id-token`) | the options with their targets | options to payload and request object, URI, verification of either side | messages | both sides read the same request; what is signed wins |
| OpenID provider (`P/siop-oid4vp/lib/op`) | none that lasts | verify a request, build and submit a response | HTTP to the RP | the response answers the request it was built for, where and how that asked for it |
| Wallet client: discovery and authorization (`P/client/lib`: the three `MetadataClient`s, `AuthorizationCodeClient`, `OpenID4VCIClient`) | endpoint metadata, PKCE and authorization options, the authorization URL | fetch metadata, create an authorization URL, push a request, take the code | HTTP to issuer and authorization server; signer of request objects | one server is asked for everything; a required push is used; the code can be redeemed |
| Wallet client: credentials (`P/client/lib`: `AccessTokenClient`, `CredentialRequestClient`, the clients) | token, nonce, DPoP nonce, keys | acquire token, nonce, credential; deferred polling; DPoP retry; restore | HTTP; signers | a code is sent once; proofs carry a nonce; calls end |
| DPoP and JWT helpers (`P/common/lib`) | none | make and check a DPoP proof; choose a verifier | both sides of a request | a proof made for a request is taken for it |
| JARM (`P/jarm/lib`) | none | decide on and take encrypted responses | request and metadata | encrypted exactly when asked |
| OID4VCI functions (`P/oid4vci-common/lib`) | none | proofs, offers, polling, HTTP | all of the above | |
| DID adapter, callback example | none | cryptography, demonstration | | not modelled |

Hard behaviours. Node runs one continuation at a time, but every `await` on a callback of
the application lets other requests run, and all objects are shared by reference: state
read before a callback is stale after it, and what is written after it may undo a deletion
or an expiry. Stores expire independently. Sessions have two keys, and three claims and
fields say which one a request is about. The relying party keeps one options object for
all calls and writes each call's values into it. Its session manager learns of everything
by events whose handlers may fail in the middle. A request exists as parameters, as a
signed object and as what the RP stored, built one after the other from two sets of
options. A wallet object serves concurrent calls that retry, poll and store what they
learnt. `PROJECT.json` lists each of these places with its line and the properties aimed
at it.

## 2. Modules

Modules without state are libraries of operators on which a module with state builds.

| State machine | Built on | Instances | Proofs |
|---|---|---|---|
| `IssuerSessions` | | `MCIssuerSessions` | `IssuerSessions_proofs` |
| `LookupStates` (refines `IdStore`) | `MemoryStates`, twice | `MCLookupStates` | `LookupStates_proofs` |
| `OfferExchange` | `CredentialOffers` | `MCOfferExchange` | `OfferExchange_proofs` |
| `IssuerBuilders` | | (constants only) | `IssuerBuilders_proofs` |
| `Authorization` | `MetadataClients`, `IssuerServer` | `MCAuthorization` | `Authorization_proofs` |
| `Wallet` | `WalletRequests` | `MCWallet` | `Wallet_proofs` |
| `RPSessions` | | | `RPTransactions_proofs` |
| `RPTransactions` | `RPSessions` | `MCRPTransactions` | `RPTransactions_proofs` |
| `Presentations` | `PresentationRequests` | `MCPresentations` | `Presentations_proofs` |

### The issuer

`IssuerSessions` — the issuer's sessions, the token endpoint with the pre-authorized code
grant, the challenge, nonce, credential and notification endpoints.

* `heap` holds the session *objects* and `credentialOfferSessions` the *references*, since
  a `MemoryStates` map stores references and an object under two keys is one object.
  `uris` and `cNonces` are the other two stores. `proc` holds the requests that wait for
  a callback, with exactly the objects and ids their closures hold. `tokens` are the
  access tokens handed out, `now` is the clock. The rest is history for the properties.
* One action per endpoint up to its first callback (`CreateOffer`, `DeleteOffer`,
  `TokenRequest`, `ChallengeRequest`, `Nonce`, `CredentialRequest`, `NotificationRequest`,
  `MalformedCredentialRequest`) and one per way a callback ends (`TokenSigned`,
  `TokenSigningFails`, `ProofVerified`, `ProofRejected`, `ProofInvalid`, `CredentialIssued`,
  `CredentialIssuedThenRejected`, `IssuanceFails`, `ChallengeVerified`,
  `ChallengeRejected`). `Cleanup*` is one run of a store's expiry timer.
* `own` says whether the issuer signs the access tokens itself or takes those of an external
  authorization server, which carry the claims `ExternalClaims`; `OwnTokens` says which of the
  two a run looks at (`issuer_keys` at both). `ForeignState` lets a wallet name another
  offer's `issuer_state` in a credential request, which the API accepts; the run `issuer_keys`
  lets it.
* Two ways through the token functions never change a session and are absent from it:
  the `authorization_code` branch of `assertValidAccessTokenRequest` always ends in
  'Invalid authorization code', since no code writes `authorization_code` into a pushed
  request, and PINs of text mode never match. `txCode` stands for a numeric PIN.

`MemoryStates` is one manager: a map of entries with their times, and the interval timer,
which does not start again after a stop because its id is kept. `LookupStates` is
`LookupStateManager` over two of them, one of mappings and one of sessions, either of which
an application may implement over a network: `setMapped` and `delete` are calls with one
step per manager (`SetMappedKey`, `SetMappedValue`; `DeleteRead`, `DeleteKey`,
`DeleteValue`) that interleave with others and may break off (`CallRejected`). Reads are
the operators `GetThrough` and `MultiGet`. `IdStore` is what they are for: one store that
finds by correlation id what was stored for it. `Lookup == INSTANCE IdStore WITH found <-
...` maps each id to what `MultiGet` returns, and `LookupSpec` is checked and proved.

`CredentialOffers` has the functions that build an offer, turn it into a URI and read it
in the wallet; a URI is a record of scheme, base and parameter. `OfferExchange` moves
offers between an issuer whose caller passes one grants object to every call (the code
writes the PIN length into it), and wallets that read a URI, show it again and fetch the
references, while offers are redeemed and deleted. `HandedOn` has the `toURI` of all three
clients; what `CredentialOfferClient.toURI` makes is `Garbled`, an offer without its
configurations and grants, and reading it and encoding it again throws (`Encodable`).

`IssuerBuilders` keeps of the four builders what can be shared, validated or refused. A
built document refers to its builder's lists and proof objects, so calls on the builder and
edits by the caller go through to it: `lists` has the arrays that somebody may write into
while others hold them (the caller's binding methods and authorization servers, and the
array `withAuthorizationServer` starts and pushes onto), and builders and documents hold
references to them (`ListOf`). A setter that stores a string is the name of its property
in a set.

`IssuerServer` computes from a server's options whether the constructor succeeds, which
endpoints it serves and what a pushed authorization request is answered.

### The wallet client

`MetadataClients` is the discovery of the three clients, on documents that are records of
endpoints. `Authorization` puts them into a wallet: fetch the documents one await at a
time, create an authorization URL with PKCE (`calculatePKCEOpts`), push it where the server
wants that, sign a request object, take a code and make the token request. `site` is the
set of documents that exist, `up` whether the issuer's server runs (`IssuerServer`), `par`
the pushed requests and `gone` those whose timer fired. Two calls on one wallet interleave
at each await; `overlap` records that two were in flight at once.

`WalletRequests` has the checks and retries of token and credential requests, proofs of
possession, and how answers are read. Of DPoP both modules keep which requests carry a
proof and when a demanded nonce leads to a retry; what a proof says is left out, since
this repository's token endpoint passes no DPoP options on (`oid4vci-api-functions.ts` 269
to 284) and so refuses every proof before `verifyDPoP`. `Wallet` is `acquireAccessToken` and
`acquireCredentials` step by step (`TokenAnswer`, `NonceAnswer`, `ProofSigned`,
`CredentialAnswer`, `DeferredAnswer`) against this repository's issuer (`OwnTokenAnswers`,
`OwnCredentialAnswers`: what its endpoints accept) or any other server (every answer the
protocol has). The client may be exported and restored at any time (`Restore`), which ends its
calls and drops the cached nonce.

### The relying party and the OpenID provider

`RPSessions` — the session manager of the relying party. `sessions` has its six maps. A
handler contains no suspending await, so it is an operator from state to state
(`RequestCreatedSuccess`, ..., `ResponseVerifiedFailed`), built from `Cleanup`,
`UpdateRequest` and `UpdateResponse` in the order of the code; `UpdateRequest` stops where
`updateMapping` throws and keeps what was stored before. `SessionsSpec` lets *any* event
come at *any* time. `HashCode` is a constant, so collisions are part of the model.

`RPTransactions` — `RP`, on top of it. `payload` is the options object all calls share,
`call` the progress of each call of `createAuthorizationRequest(URI)` between the query
lookup and the signatures, `verif` the verifications that wait for a callback. The three
ways to pass a request object differ in what is signed, and therefore in where a call
waits. Which of the application's habits are assumed is a constant: `Serial` (a call is
awaited before the next is made), `FreshIds`, `FreshStates`, and `Arguments`. Nonces are
always fresh, and a response always has a nonce (of the ID token or the presentation; the
code skips the check without one). The correlation id of a response is any id, whether a
request is stored under it or not: the application may give one, or have it looked up by
the state (`RP.ts` 255). `createAuthorizationRequest` without request object is
left out: it looks a query up and then does not put it into the request.

`PresentationRequests` — what a request says: the builder's options with their targets
(`BuiltOpts`), what a call writes into them (`NewOpts`, which stays for the next call), the
payload and the request object made from them, the URI, and on the other side the checks of
`AuthorizationRequest.verify` (`Verifies`), the merge of both payloads and the OP's choice
of a response URI. A payload is a record of the properties the checks tell apart; a client
id is a prefix and a rest. `Presentations` takes several transactions through it:
`CreateRequest`, `VerifyRequest`, `CreateResponse`, `Submit` (in the clear or encrypted) and
`ReceiveResponse`, which may read a message late and twice. Both applications are honest:
the wallet presents what it is asked for with the nonce of the request, and the RP passes
to the verification the query it asked for. Here each call of the library is one step;
`RPTransactions` is where its awaits are taken apart.

### Scheduling

Awaits on values that are there already, on `MemoryStates` and on the in-memory session
manager resolve within the turn and are no interleaving points; awaits on callbacks of the
application and on HTTP answers are. `LookupStates` alone models stores whose calls take
time. Requests whose continuations interleave within one turn of the event loop are left
out.

## 3. Runs

Runs that pass:

| Run | Question | Instance |
|---|---|---|
| `issuer_concurrent` | May a nonce be used by a request that was not in flight, a removed session come back by itself, a received request stay unresolved? | one offer with two keys, two requests in flight, lives of 0 with one tick, so that everything may expire under a request; fairness |
| `issuer_keys` | Does every key and correlation id keep finding its own offer? Does a notification move only sessions of issued credentials? Is an own token's credential signed only with the code of an accepted token request, and for its offer while its session is there, although the body may name another offer? | two offers under one correlation id, one request that may name the other's `issuer_state`, own tokens or external ones with the code under both names, sessions deleted or expired after their tokens were signed, challenges, expiry of the stores one by one |
| `state_managers` | Are two stores with calls that interleave and break off one store by correlation id? Is a live session findable? Does a running timer clear? | two offers, three codes, two calls at once, an expiry per entry or per store; fairness |
| `offer_exchange` | Does a wallet act on the terms of the session and never on other ones, whoever showed it the URI? Do wallet and token endpoint agree on the PIN? | two offers from one grants object, eight kinds of request, a wallet that reads URIs and shows them again through any of the three clients |
| `issuer_builders` | Does what was validated at a build stay valid, and are built lists emptied by the caller only, while builders and documents share their arrays? | fresh or partly configured builders of both versions, any three calls |
| `authorization` | Do the clients ask one server for everything? Is a required push used, and can the code be redeemed? | about thirty sites of documents and server options, three clients, two calls at once, two pushed requests that may fail or expire |
| `wallet` | Is a code sent once? Do proofs carry a nonce that was handed out? Does every call end? | two of three calls at once, two nonces, one answer that defers, demands of a DPoP nonce, a restore; own issuer or another; fairness |
| `rp_serial` | Is a response that was compared with a stored request verified only for the call that made it, and does the holder of a request find it? Do mappings lead to stored requests, and are they never taken over? | two serial calls with ids and states that may be reused and whose states have one hash, responses under any correlation id, request objects by value and by reference, deletion and expiry during a verification |
| `rp_resolved` | Is every received response resolved? | one call with or without a query, three ways to pass the request, two responses at once; fairness |
| `presentations` | Do both sides accept each other's messages, do signed values win, is a response encrypted exactly when asked? | two transactions, nine identities of the RP with five kinds of question and two targets of the options, two response URIs, a wallet with a response mode of its own |

Runs that show a disagreement between the code and what is written about it:

| Run | What it shows |
|---|---|
| `rp_shared_payload` | of two concurrent calls one gets the state and nonce of the other |
| `presentation_unsigned` | a request passed by NONE carries a client id that the library's own OP refuses |

Bounds. Two requests (calls, responses) are enough for every interleaving of a pair of
handlers, and the properties relate at most two sessions. The clock is as long as the longest
life plus the tick that makes it expire: `MaxTime` 1 with lives of 0, 2 with a `MaxAge` of 1;
runs about something else have no ticks. Two codes give one offer both keys or two offers one
each. `issuer_keys` has no nonces and one request, for what it asks relates sessions and keys
and not two requests; its proofs have no nonce, which the code accepts of requests with an
issuer state. Callback URIs of requests (`Callbacks`), which never change what is found, are
left to `rp_resolved`, which has one call. In `wallet` one deferral (`MaxPolls`) shows a poll
that is answered by another wait and one that is answered by a credential; a third start after
two calls shows what state they left. In `authorization` two URLs (`MaxUrls`) are one that is
replaced by another. In `issuer_builders` a first call fills a builder, a second builds, a
third edits what was built; the partly configured starts are states that longer sequences of
setters reach. Symmetry is used for invariants and step properties only, and only over sets
whose elements the constants treat alike; `RPTransactions` uses the identity as hash for that
reason.

Fairness. `FairSpec` of `IssuerSessions` and `RPTransactions` assumes that a callback the
application supplied settles: it answers or throws. A promise that stays pending would leave
the request where it is in the code, too. In `LookupStates` an interval that is alive comes
round. In `Wallet` each call's server or signer answers in the end, possibly with an error.
No fairness is assumed of clients, of the clock or of expiry.

Deadlock is checked in the runs of `IssuerSessions` and `RPTransactions`, which always have
a next step. The others stop: a builder after its calls, a wallet after its starts, an
exchange when every offer was read, presentations when all are answered. Their checks of
progress are `CallsEnd` and `RoutineClears`.

Each property of a passing run has a mutant, a definition changed the way a bug would
change the code, under which the run fails; its comment says what it changes.

### Disagreements without a run

Some statements found in comments, documents or tests do not hold of the code. They are kept
as definitions where the models state them; none of the runs uses them.

* Issuer. With tokens of another server and a body that names another offer's
  `issuer_state`, `StoredUnderOwnKey` fails (`VcIssuer.ts` 582 stores the session under the
  correlation's key) and so does `ReceivedIsResolved`: the request marks two sessions as
  received (840, 848) and resolves one (572 to 583), where `StateManager.types.ts` 32 says
  "Next state would either be error or issued". With the issuer's own tokens a body may name
  another offer, too: create two offers, redeem the code of the first, delete its session or
  let it expire, and request a credential with the token and the second offer's
  `issuer_state`. The session is looked up by that alone (`VcIssuer.ts` 473, 783), so a
  credential is issued for an offer whose code nobody redeemed, and its session becomes
  ISSUED. `SignedOnRedeemedCode` says what remains: the request has the code of *an*
  accepted token request, and a session found by the code is that offer's.
  `NotificationsCorrelate`: the notification endpoint reads a claim that the issuer's own
  tokens do not have.
* Offers. `EncodedJsonReadBack`: `CredentialOfferClient.ts` 72 says "v11 changed from
  encoding every param to a encoded json object with a credential_offer param key", but
  `toURI` (86) calls `convertJsonToURI` without the mode that stringifies, so the offer is
  encoded property by property; what `fromURI` reads of it is no offer, and the grants are
  lost. The test that would show it (`IssuanceInitiation.spec.ts` 52) is skipped.
* Set-up. `TokenEndpointSomewhere`: a server whose token endpoint is off starts when the
  metadata name the issuer itself as the only authorization server, with no token endpoint
  anywhere (`OID4VCIServer.ts` 305 to 311). `EnvironmentConfigures`: a server without an
  issuer, "fully configured from environment variables", never starts, for its builder's
  `build` needs authorization server metadata nothing sets. `ConfigurationsMerged`:
  `VcIssuerBuilder.ts` 202 drops the configurations of the metadata builder.
* Wallet. `OneKeyPerProof`: the check for "only one" key looks at the arguments of one call
  and not at the key an earlier call stored. `RefusedNonceIsDropped`: for an error answer
  `acquireCredentials` throws an error without status and response (`OpenID4VCIClient.ts` 539
  to 541), exactly what `shouldRetryWithFreshNonce` (867 to 897) looks for, so the "one retry
  with fresh nonce + rebuilt proof" (558) is never reached and the refused nonce stays cached.
  Against this repository's issuer a wallet with DPoP options gets no token: the token
  endpoint refuses the proof, and where none is sent the wallet throws the unbound token away.
* Relying party. `QueryIsTheCalls`: the query of one call is in the requests of later
  calls. `RequestRecordsHoldRequests`: a reported failure replaces the stored request by
  undefined. `CreatedIsRegistered`: a request may be
  removed by the handler that registers it. A response under a correlation id without a
  stored request is compared with no state and no nonce (`RP.ts` 487 to 493,
  `AuthorizationResponse.ts` 135, 162) and counts as verified; `VerifiedForItsCall` is about
  responses that were compared. A verification that ends after its transaction was started
  anew under the same id is recorded in the new one.
* What a request says. A `redirect_uri` of one call stays and wins over the response URI of
  later ones. The OP prefers the unsigned `response_uri`, which stays from an RP's first
  call, over the signed one of a request passed by value (`OP.ts` 137); `SignedValuesPrevail`
  is therefore checked with one URI per RP that passes by value. Options targeted at
  the request payload alone (`state`, `nonce`) are overridden by the request object's
  defaults. A request signed with a DID and no client id gets, by the default scheme, an id
  with the prefix `redirect_uri`, which the OP refuses like an unsigned one. A
  pre-registered client id with '-' or '_' is read as a prefix (`ClientIdentifierUtils`).
* What a response says. An ID token signed with an x5c or a jwk is refused, since its issuer
  has to be self-issued or a DID. An ID token that reaches an RP without an audience to
  compare is refused. JARM works with a `vp_token` only, and a response mode of `jwt` is not
  taken for JARM. The instances of `presentations` avoid these configurations, the model
  has them.

## 4. Proofs

All constants are arbitrary: any number of offers, codes, requests, calls, values, any
hash function, any lives. The modules' named `ASSUME`s say that bounds and lives are
numbers, that NONE is none of the values, that a client id is not also a URI, that
inputs are of the kinds the code takes, that each offer has its own codes, and that a
wallet starts with keys the model knows and without a nonce. Some theorems have a
condition of their own, which their statement names; without it the property is not
claimed for every value of the constants.

* `TypeCorrect`. `TypeOK` is not inductive: a handler writes statuses through references.
  `NoDangling` adds that no store and no request refers to an object that was never
  created, `Held` says what a request holds at each callback.
* `OwnKeyCorrect`. A session stored again after a callback is stored under a key its
  request remembers. `KeyInv` says that what a request holds still carries that key; with
  such tokens the correlation has no issuer state of its own, which is what excludes the
  first disagreement above. It is for tokens without an `issuer_state`: those the issuer
  signs, and the instance of `issuer_keys`.
* `ReturnsOnlyThroughHolder`. Of the actions only those that go on after a callback store
  a session again (`StoringStep`), and they store the one their request holds.
* `NoncesBounded`, for a finite set of requests. `NonceInv` says that a nonce that has
  served was minted and is not minted again; each use takes its request out of those in
  flight, and after the first use nobody gets in.
* `CorrelationCorrect`, where correlation ids are apart from codes, codes are not used
  twice and no token carries an `issuer_state`. `UrisInv` ties an entry of `uris` to the
  offer it was made for, `DistinctKeys` says that no two sessions share a code.
* `NotifiedCorrect`, where correlation ids are apart from codes. `NotifiedInv` says that a
  notification id is disclosed only once its credential is issued; keys that are apart make
  the two lookups of the handler reach one session.
* `RedeemedCorrect`, for tokens of this issuer and codes that are used once, whatever
  `issuer_state` the bodies name. The credential endpoint looks at no status, so `RightsInv`
  follows the right itself: from the redeemed code to the token that names it, to the
  session the request finds by it, to the signer's callback.
* `MappingsCorrect`. The invariant `Good` says of a state what
  `MappedHasRecord` says of `sessions`, so that it can be shown of the intermediate states
  of a handler: a record is stored before it is mapped, and removed with its mappings, so
  the state is good wherever `updateMapping` throws.
* `EntriesLeaveCorrectly`. `UpdateRequest` keeps every mapping (`Keeps`), removal takes only
  those of removed ids (`Leaves`), and each handler is one after the other.
* `TransactionsTypeCorrect`, `TransactionsMapped`. `TransactionsInv` adds what a waiting
  call or verification holds, which makes its event one the manager has; every step of the
  RP is then a step of `SessionsNext` or leaves the manager alone (the lemma
  `ImplementsSessions`), so the manager's invariants hold as the RP drives it.
* `SerialCallsKeepValues`, `VerifiedCorrect`, `LiveRequestsFindable`, for an application
  that awaits each call before the next (`Serial`), the last also for nonces whose hashes
  differ. Then the payload that calls share belongs to the one call in progress
  (`OwnPayload`), so every stored request and mapping is of a call for its correlation id
  (`RecordsOf`, `MappingsOf`) and what a verification awaits is its own (`AwaitsOwn`).
  `rp_shared_payload` shows that the first of them needs `Serial`.
* `WalletTypeCorrect`, `RedeemedOnce`, `ProofsHaveNonces`. `CallInv` says of a call what stays
  true while others change the client: its proof has a nonce handed out before. `Counted`
  charges every accepted token request to a start; `OneToken` says that, until requests
  overlap or an answer is lost, the client asks with one call and only while it has no token.
* `RequiredParUsed`, `RequestUrisStored`, `CodesRedeemable`. A request goes from `ToPush` to
  `Pushed`, and the server keeps what it was pushed as other requests come in. `OneRequest`
  says that, until two requests are prepared at once, verifier and redirect uri of the
  client are those of the request under way, then of the URL, then of the code.
* `StatesTypeCorrect`, `LiveSessionsFindable`, `LookupImplementsIdStore`. The invariant of
  `LookupStates_proofs` says that an entry belongs to the offer of its key and has that
  offer's times (`EntriesOwned`), that a call in flight is about keys of its offer
  (`CallsOwned`), and that the mapping of an offer nobody deleted is stored before its
  sessions and expires no earlier (`MappingOutlasts`). `MultiGet` then has a closed
  form: an id finds its own session or nothing (`LookupFinds`), which makes every step one
  of `IdStore`.
* `TermsSurvive`, `PinsAgree`, `NoReplayByReference`. `SessionsSound` says that a session's
  PIN is the one its offer announces, `SentSound` that a URI holds the offer of its session,
  refers to it, or is one `CredentialOfferClient.toURI` made and leads nowhere. That needs
  `Taken`: the id of an offer that was shown is not given to another, not even after its
  deletion. What the caller's grants object holds at a call is an input like any other, so
  writing into it does no harm to offers made before.
* `ValidatedProofsKept`, `BuiltListsHold`, `ConfigurationsStay`. Proof types that were
  validated are copied into the entry (`EntrySound`), so no object that the builder or the
  caller can still write stands for them. Lists are shared, so what was empty when it was
  built would stay so: the 1.0 builders check it again at the build (`BuildsNoneEmpty`), and
  among the calls that write into a shared list only the caller's own edit takes from it
  (`OnlyTheCallerEmpties`). What an issuer shares with its builder, a record of configurations
  (`IssuerSound`), is only added to.
* `ClientsFindTheSame`, `AuthorizationTypeCorrect`. The first, which takes two clients and
  any documents, has no need of an invariant. It is for the documents the property names:
  no singular `authorization_server` and no empty list of servers, which the clients read
  in different ways. `AuthorizationTypeOK` bounds the pushed requests, which takes
  `TypeInv`: those that are stored and those that are on their way (`PushesCounted`) are no
  more than the URLs asked for.
* `SignedPrevail`, `EncryptionAsAsked`, `OwnMessagesAgree`. A payload's values come from
  options that every call of the RP writes (`OptsInv`), go into two request objects and the
  URI (`Carries`), through the wallet's merge (`WalletOK`) and into the answer, which
  `PresentationsInv` follows. The theorems name the configurations of the RP they are for.
  `SignedPrevail`: one that passes requests by value names one URI in all its calls.
  `EncryptionAsAsked`: the options are in the request objects (`SendsObjects`).
  `OwnMessagesAgree`: `Fits`, that is `SendsObjects`, a client id that goes with the
  signer's key and is the audience, one kind of URI, state and nonce in the object, and
  encryption only of presentations. Each condition excludes one of the disagreements of
  section 3, and none restricts the wallet, the order of messages or their number.
  `SignedConfigurationsFit` has TLC evaluate that every configuration of the run
  `presentations` is one of these.

Every invariant, action property and refinement of the runs that pass is thus proved. What
stays with TLC is liveness under fairness (`ReceivedIsResolved`, `RoutineClears`,
`CallsEnd`, `ResponseResolved`), which with ENABLED is beyond the prover, as is induction
over data. The mutants and the two runs that end in a violation are TLC's, too.

## 5. Not modelled

* Cryptography, DID resolution, encodings: their outcome is a choice or a flag. The
  DID adapter consists of them. Display data, format tables and the offers of drafts
  before 15.
* What a DPoP proof says and how `verifyDPoP` checks it.
* Stores of the application other than a slow or failing one (`LookupStates`).
* Whether a presentation answers a DCQL query, verifier attestations, registration
  metadata, the verification of credentials.
* In the wallet: the authorization challenge and the notification call. In the issuer's
  server: rate limits, CORS and the status endpoint, which only reads.
* In the relying party: `response_redirect_uri` and the POST to a callback URL, which
  change no state of the library. In JARM: the choice of algorithms.
* The callback example.

## 6. Plan

1. Proofs: what liveness rests on as safety (a callback that waits can settle, and each
   way of settling resolves its sessions), and weaker conditions for `OwnMessagesAgree`.
2. The authorization challenge between wallet and issuer, on `Authorization` and
   `IssuerSessions`.
3. DCQL match results and the choice of JARM algorithms as operators against a reference.
