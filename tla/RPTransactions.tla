---------------------------- MODULE RPTransactions ----------------------------
(***************************************************************************)
(* The relying party's transactions: RP.createAuthorizationRequest(URI),   *)
(* signalAuthRequestRetrieved and verifyAuthorizationResponse, which emit  *)
(* the events that RPSessions handles.                                     *)
(*                                                                         *)
(* newAuthorizationRequestOpts copies the RP's options only one level      *)
(* deep, so every call writes its state, nonce and DCQL query into the     *)
(* same payload object, `payload' here, and reads it again after each      *)
(* await: on the query lookup and on createJwtCallback.  Only those two    *)
(* and the callbacks of a verification suspend a call; what runs between   *)
(* them is one action.                                                     *)
(***************************************************************************)
EXTENDS RPSessions

CONSTANTS
    Calls,          \* calls of createAuthorizationRequest(URI)
    Verifications,  \* responses that may be under verification at once
    PassBys,        \* ways to pass the request object the RP may be built with
    Serial,         \* does the application await a call before the next?
    FreshIds,       \* does it use each correlation id once?
    FreshStates,    \* does it use each state once?
    Arguments       \* the arguments of calls that may occur

ASSUME TransactionsAssumption ==
    /\ PassBys \subseteq {"REFERENCE", "VALUE", "NONE"}
    /\ {Serial, FreshIds, FreshStates} \subseteq BOOLEAN
    /\ Request = [state : Values, nonce : Values, query : QueryIds \cup {NONE}]
    /\ Response = [call : Calls, state : Values, nonce : Values]

\* The arguments of a call
Args == [correlationId : CorrIds, state : Values, nonce : Values,
         queryId : QueryIds \cup {NONE}, callback : Callbacks, uri : BOOLEAN]

ASSUME ArgumentsAssumption == Arguments \subseteq Args

\* A call in progress.  uri is the request in the URI it returns, request the
\* one it hands to the session manager.
CallState == [pc : {"new", "lookup", "signUri", "sign", "done", "failed"},
              uri : Request \cup {NONE}, request : Request \cup {NONE}]

\* A verification in progress; nonce is what the request asked for, if known.
VerificationState ==
    [pc : {"idle", "verify"}, correlationId : CorrIds \cup {NONE},
     response : Response \cup {NONE}, nonce : Values \cup {NONE}]

IdleVerification ==
    [pc |-> "idle", correlationId |-> NONE, response |-> NONE, nonce |-> NONE]

VARIABLES
    args,     \* the arguments of each call, fixed by the application
    passBy,   \* how this RP passes its request object
    payload,  \* state, nonce and query in the options all calls share
    call,     \* progress of each call
    verif     \* verifications waiting for a callback

vars == <<sessions, now, args, passBy, payload, call, verif>>

-----------------------------------------------------------------------------
(* Creation of a request *)

\* Mutant: the state is not written.
WrittenNonceOnly(k) == [payload EXCEPT !.nonce = args[k].nonce]

\* newAuthorizationRequestOpts writes the state and nonce of the call.
Written(k) == [payload EXCEPT !.state = args[k].state, !.nonce = args[k].nonce]

\* ON_AUTH_REQUEST_CREATED_SUCCESS.  Only createAuthorizationRequestURI has a
\* callback to register.
CreatedEvent(k, request) ==
    [correlationId |-> args[k].correlationId, subject |-> request,
     queryId |-> args[k].queryId, callback |-> args[k].uri /\ args[k].callback]

\* The call ends with the event; uri is the request in the URI it returns.
Created(k, uri, request) ==
    /\ call' = [call EXCEPT ![k] = [pc |-> "done", uri |-> uri, request |-> request]]
    /\ sessions' = RequestCreatedSuccess(sessions, CreatedEvent(k, request))

\* URI.fromOpts and AuthorizationRequest.fromOpts up to the first signature:
\* by reference only the URI is signed here, by value both requests are.
Build(k, p) ==
    \/ /\ passBy = "NONE" \/ (passBy = "REFERENCE" /\ ~args[k].uri)
       /\ Created(k, p, p)
    \/ /\ passBy # "NONE" /\ args[k].uri
       /\ call' = [call EXCEPT ![k].pc = "signUri", ![k].uri = p]
       /\ UNCHANGED sessions
    \/ /\ passBy = "VALUE" /\ ~args[k].uri
       /\ call' = [call EXCEPT ![k].pc = "sign", ![k].uri = p, ![k].request = p]
       /\ UNCHANGED sessions

InProgress(k) == call[k].pc \in {"lookup", "signUri", "sign"}

StartCall(k) ==
    /\ call[k].pc = "new"
    /\ Serial => \A j \in Calls : ~InProgress(j)
    /\ payload' = Written(k)
    /\ IF args[k].queryId # NONE
         THEN /\ call' = [call EXCEPT ![k].pc = "lookup"]
              /\ UNCHANGED sessions
         ELSE Build(k, payload')
    /\ UNCHANGED <<now, args, passBy, verif>>

\* dcqlQueryLookupCallback answers: the query goes into the shared payload.
QueryFound(k) ==
    /\ call[k].pc = "lookup"
    /\ payload' = [payload EXCEPT !.query = args[k].queryId]
    /\ Build(k, payload')
    /\ UNCHANGED <<now, args, passBy, verif>>

\* It throws outside of the try: no event is emitted.
QueryLookupFails(k) ==
    /\ call[k].pc = "lookup"
    /\ call' = [call EXCEPT ![k].pc = "failed"]
    /\ UNCHANGED <<sessions, now, args, passBy, payload, verif>>

\* The request of the URI is signed; the request for the session manager is
\* built from the payload as it is now, and signed too when passed by value.
UriSigned(k) ==
    /\ call[k].pc = "signUri"
    /\ IF passBy = "VALUE"
         THEN /\ call' = [call EXCEPT ![k].pc = "sign", ![k].request = payload]
              /\ UNCHANGED sessions
         ELSE Created(k, call[k].uri, payload)
    /\ UNCHANGED <<now, args, passBy, payload, verif>>

RequestSigned(k) ==
    /\ call[k].pc = "sign"
    /\ Created(k, call[k].uri, call[k].request)
    /\ UNCHANGED <<now, args, passBy, payload, verif>>

\* createJwtCallback throws: ON_AUTH_REQUEST_CREATED_FAILED
SigningFails(k) ==
    /\ call[k].pc \in {"signUri", "sign"}
    /\ call' = [call EXCEPT ![k].pc = "failed"]
    /\ sessions' = RequestCreatedFailed(sessions, args[k].correlationId)
    /\ UNCHANGED <<now, args, passBy, payload, verif>>

-----------------------------------------------------------------------------
(* Retrieval of a request *)

\* signalAuthRequestRetrieved throws when there is no record.
SignalRetrieved(c) ==
    /\ sessions.authorizationRequests[c] # NONE
    /\ \/ sessions' = RequestSentSuccess(sessions, c)
       \/ sessions' = RequestSentFailed(sessions, c)
    /\ UNCHANGED <<now, args, passBy, payload, call, verif>>

-----------------------------------------------------------------------------
(* Verification of a response *)

\* The requests a wallet may have seen: the one of the URI or, by reference,
\* the one of the session that the application serves at the reference.
Seen(k) == IF call[k].pc # "done" THEN {}
           ELSE IF passBy = "REFERENCE" THEN {call[k].uri, call[k].request}
           ELSE {call[k].uri}

Responses(k) == {[call |-> k, state |-> q.state, nonce |-> q.nonce] : q \in Seen(k)}

\* A response is taken for the correlation id c: the one its state leads to, or
\* one the application gives.  That may be any, one without a request included;
\* the application gives no state or nonce to compare with.

\* AuthorizationResponse.fromPayload throws.
MalformedResponse(r, c) ==
    /\ sessions' = ResponseReceivedFailed(sessions, c, r)
    /\ UNCHANGED <<now, args, passBy, payload, call, verif>>

\* Without a record there is no state to compare with, and no nonce.
StateMatches(record, r) == record = NONE \/ record.request.state = r.state

\* verifyAuthorizationResponse up to the first callback.  A record without
\* request makes it throw before ON_AUTH_RESPONSE_RECEIVED_SUCCESS.
ResponseArrives(v, r, c) ==
    LET record == sessions.authorizationRequests[c] IN
    /\ verif[v].pc = "idle"
    /\ IF record # NONE /\ record.request = NONE
         THEN /\ sessions' = ResponseVerifiedFailed(sessions, c, r)
              /\ UNCHANGED verif
       ELSE IF ~StateMatches(record, r)
         THEN /\ sessions' = ResponseVerifiedFailed(
                               ResponseReceivedSuccess(sessions, c, r), c, r)
              /\ UNCHANGED verif
       ELSE /\ sessions' = ResponseReceivedSuccess(sessions, c, r)
            /\ verif' = [verif EXCEPT ![v] =
                 [pc |-> "verify", correlationId |-> c, response |-> r,
                  nonce |-> IF record = NONE THEN NONE ELSE record.request.nonce]]
    /\ UNCHANGED <<now, args, passBy, payload, call>>

\* Mutant: the nonce of the request is not compared.
NonceMatchesAny(p) == TRUE

NonceMatches(p) == p.nonce \in {NONE, p.response.nonce}

\* The callbacks accept and the nonce is that of the request.
ResponseVerified(v) ==
    LET p == verif[v] IN
    /\ p.pc = "verify"
    /\ NonceMatches(p)
    /\ sessions' = ResponseVerifiedSuccess(sessions, p.correlationId, p.response)
    /\ verif' = [verif EXCEPT ![v] = IdleVerification]
    /\ UNCHANGED <<now, args, passBy, payload, call>>

\* Mutant: the failure is not reported.
ResponseRejectedSilently(v) ==
    /\ verif[v].pc = "verify"
    /\ verif' = [verif EXCEPT ![v] = IdleVerification]
    /\ UNCHANGED <<sessions, now, args, passBy, payload, call>>

\* A callback rejects, or the nonce does not match.
ResponseRejected(v) ==
    LET p == verif[v] IN
    /\ p.pc = "verify"
    /\ sessions' = ResponseVerifiedFailed(sessions, p.correlationId, p.response)
    /\ verif' = [verif EXCEPT ![v] = IdleVerification]
    /\ UNCHANGED <<now, args, passBy, payload, call>>

-----------------------------------------------------------------------------
\* Nonces are always fresh, ids and states as the constants say.  Without a
\* request object only createAuthorizationRequestURI is modelled: there
\* createAuthorizationRequest looks a query up and then leaves it out.
InitArgs ==
    /\ passBy = "NONE" => \A k \in Calls : args[k].uri
    /\ \A j, k \in Calls : j # k =>
         /\ args[j].nonce \notin {args[k].nonce, args[k].state}
         /\ FreshStates => args[j].state # args[k].state
         /\ FreshIds => args[j].correlationId # args[k].correlationId

Init ==
    /\ SessionsInit
    /\ passBy \in PassBys
    /\ args \in [Calls -> Arguments] /\ InitArgs
    /\ payload = [state |-> NONE, nonce |-> NONE, query |-> NONE]
    /\ call = [k \in Calls |-> [pc |-> "new", uri |-> NONE, request |-> NONE]]
    /\ verif = [v \in Verifications |-> IdleVerification]

Idle == UNCHANGED <<args, passBy, payload, call, verif>>

Next ==
    \/ \E k \in Calls : \/ StartCall(k) \/ QueryFound(k) \/ QueryLookupFails(k)
                        \/ UriSigned(k) \/ RequestSigned(k) \/ SigningFails(k)
    \/ \E c \in CorrIds : SignalRetrieved(c) \/ (DeleteState(c) /\ Idle)
    \/ \E k \in Calls : \E r \in Responses(k) : \E c \in CorrIds :
         \/ MalformedResponse(r, c)
         \/ \E v \in Verifications : ResponseArrives(v, r, c)
    \/ \E v \in Verifications : ResponseVerified(v) \/ ResponseRejected(v)
    \/ Tick /\ Idle

Spec == Init /\ [][Next]_vars

\* The callbacks of a verification settle.
FairSpec ==
    Spec /\ \A v \in Verifications : WF_vars(ResponseVerified(v) \/ ResponseRejected(v))

-----------------------------------------------------------------------------
(* Properties *)

\* Every field has its type, and the shared payload has a state and a nonce as
\* soon as a call may read it.
TransactionsTypeOK ==
    /\ SessionsTypeOK
    /\ args \in [Calls -> Args] /\ passBy \in PassBys
    /\ payload \in Request \/ \A k \in Calls : call[k].pc = "new"
    /\ call \in [Calls -> CallState]
    /\ verif \in [Verifications -> VerificationState]

\* A response that was compared with a stored request and comes to count as
\* verified answers the very call that made this request: not another call with
\* the same state, nor an earlier or later one under the same correlation id,
\* and not the call of another id the application confuses it with.  The request
\* is the one stored when the response arrived, whatever was deleted, expired or
\* started anew while the callbacks ran.  Under an id without a request nothing
\* is compared and the property says nothing (RP.ts:487-493).
VerifiedForItsCall ==
    [][\A v \in Verifications :
         LET p == verif[v]
             record == sessions'.authorizationResponses[p.correlationId]
         IN  /\ p.pc = "verify" /\ verif'[v] # p
             /\ record.status = "authorization_response_verified"
             /\ p.nonce # NONE
             => /\ args[p.response.call].correlationId = p.correlationId
                /\ args[p.response.call].nonce = p.nonce]_vars

\* The holder of a live request finds its transaction: as long as a request is
\* stored, its state and nonce lead to it, unless another transaction uses its
\* state or one with the same hash.  Correlation ids may be used again.
LiveRequestIsFindable ==
    \A c \in CorrIds :
       LET q == sessions.authorizationRequests[c].request IN
       /\ sessions.authorizationRequests[c] # NONE
       /\ q # NONE
       /\ \A k \in Calls : HashCode[args[k].state] = HashCode[q.state]
                              => args[k].correlationId = c
       => /\ sessions.stateMapping[HashCode[q.state]] = c
          /\ sessions.nonceMapping[HashCode[q.nonce]] = c

Received(c) ==
    /\ sessions.authorizationResponses[c] # NONE
    /\ sessions.authorizationResponses[c].status = "authorization_response_received"

\* A received response does not stay in that status once the callbacks of its
\* verification have settled, also with two responses to one request.
ResponseResolved == \A c \in CorrIds : Received(c) ~> ~Received(c)

\* README of siop-oid4vp: the nonce and state given to the call are those of
\* the request it creates, in the URI and in the session.
RequestKeepsItsValues ==
    \A k \in Calls : call[k].pc = "done" =>
       \A q \in {call[k].uri, call[k].request} :
          q.state = args[k].state /\ q.nonce = args[k].nonce

\* README of siop-oid4vp: the query the RP was configured with is in every
\* request whose call names no other.
QueryIsTheCalls ==
    \A k \in Calls : call[k].pc = "done" => call[k].request.query = args[k].queryId

\* types/SessionManager.ts: a stored request state has a request.
RequestRecordsHoldRequests ==
    \A c \in CorrIds :
       sessions.authorizationRequests[c] # NONE =>
          sessions.authorizationRequests[c].request # NONE

\* IT.spec.ts: a request that was just created is registered.
CreatedIsRegistered ==
    [][\A k \in Calls : call[k].pc # "done" /\ call'[k].pc = "done" =>
         sessions'.authorizationRequests[args[k].correlationId] # NONE]_vars
=============================================================================
