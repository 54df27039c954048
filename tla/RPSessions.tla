------------------------------ MODULE RPSessions ------------------------------
(***************************************************************************)
(* The relying party's session manager, InMemoryRPSessionManager: records  *)
(* of authorization requests and responses by correlation id, and mappings *)
(* from the hash of a request's nonce and state to its correlation id.     *)
(*                                                                         *)
(* It changes its state in the handlers of eight events of the RP.  They   *)
(* contain no await that suspends, so a handler is one atomic function of  *)
(* the state.  Here any event may come at any time; RPTransactions says    *)
(* which events the RP emits.                                              *)
(***************************************************************************)
EXTENDS Naturals, FiniteSets

CONSTANTS
    CorrIds,      \* correlation ids
    Values,       \* the strings used as states and nonces
    HashCode,     \* hashCode of each value: collisions are possible
    QueryIds,     \* ids of DCQL queries, and the queries they stand for
    Request,      \* the authorization requests that may occur
    Response,     \* the authorization responses that may occur
    Callbacks,    \* whether a request may come with a callback of its own
    NONE,         \* undefined
    MaxAge,       \* maxAgeInSeconds, 0 for no expiry
    MaxTime       \* bound on the clock

ASSUME RPAssumption ==
    /\ MaxAge \in Nat /\ MaxTime \in Nat
    /\ DOMAIN HashCode = Values
    /\ Callbacks \in {{FALSE}, BOOLEAN}
    /\ NONE \notin CorrIds \cup Values \cup QueryIds

\* What a request carries, in its request object or its payload.  query NONE
\* is the DCQL query the RP was configured with.
ASSUME RequestAssumption ==
    Request \subseteq [state : Values, nonce : Values, query : QueryIds \cup {NONE}]

Time   == 0 .. MaxTime
Hashes == {HashCode[v] : v \in Values}

RequestStatus  == {"authorization_request_created",
                   "authorization_request_retrieved", "error"}
ResponseStatus == {"authorization_response_received",
                   "authorization_response_verified", "error"}

AuthorizationRequestState ==
    [request : Request \cup {NONE}, queryId : QueryIds \cup {NONE},
     status : RequestStatus, lastUpdated : Time]
AuthorizationResponseState ==
    [response : Response, queryId : QueryIds \cup {NONE},
     status : ResponseStatus, lastUpdated : Time]

ASSUME RPNoneAssumption ==
    NONE \notin Request \cup AuthorizationRequestState \cup AuthorizationResponseState

Sessions ==
    [authorizationRequests  : [CorrIds -> AuthorizationRequestState \cup {NONE}],
     authorizationResponses : [CorrIds -> AuthorizationResponseState \cup {NONE}],
     nonceMapping    : [Hashes -> CorrIds \cup {NONE}],
     stateMapping    : [Hashes -> CorrIds \cup {NONE}],
     queryIdMapping  : [CorrIds -> QueryIds \cup {NONE}],
     callbackMapping : [CorrIds -> BOOLEAN]]

NoSessions ==
    [authorizationRequests  |-> [c \in CorrIds |-> NONE],
     authorizationResponses |-> [c \in CorrIds |-> NONE],
     nonceMapping    |-> [h \in Hashes |-> NONE],
     stateMapping    |-> [h \in Hashes |-> NONE],
     queryIdMapping  |-> [c \in CorrIds |-> NONE],
     callbackMapping |-> [c \in CorrIds |-> FALSE]]

\* An event of a request.  subject is NONE when the event reports a failure.
RequestEvent ==
    [correlationId : CorrIds, subject : Request \cup {NONE},
     queryId : QueryIds \cup {NONE}, callback : Callbacks]

VARIABLES sessions, now

sessionVars == <<sessions, now>>

-----------------------------------------------------------------------------
(* Removal *)

\* Mutant: only the request record goes.
ForgottenRequestOnly(s, cs) ==
    [s EXCEPT !.authorizationRequests = [c \in CorrIds |-> IF c \in cs THEN NONE ELSE @[c]]]

\* Mutant: the record of the request stays.
ForgottenKeepingRequest(s, cs) ==
    [s EXCEPT
       !.authorizationResponses = [c \in CorrIds |-> IF c \in cs THEN NONE ELSE @[c]],
       !.nonceMapping = [h \in Hashes |-> IF @[h] \in cs THEN NONE ELSE @[h]],
       !.stateMapping = [h \in Hashes |-> IF @[h] \in cs THEN NONE ELSE @[h]]]

\* deleteStateForCorrelationId of every id of cs: both mappings and both
\* records, but neither the query id nor the callback.
Forgotten(s, cs) ==
    [s EXCEPT
       !.authorizationRequests  = [c \in CorrIds |-> IF c \in cs THEN NONE ELSE @[c]],
       !.authorizationResponses = [c \in CorrIds |-> IF c \in cs THEN NONE ELSE @[c]],
       !.nonceMapping = [h \in Hashes |-> IF @[h] \in cs THEN NONE ELSE @[h]],
       !.stateMapping = [h \in Hashes |-> IF @[h] \in cs THEN NONE ELSE @[h]]]

Old(record) == /\ record # NONE
               /\ MaxAge # 0
               /\ now > record.lastUpdated + MaxAge

\* Ids whose request or response is too old
Expired(s) == {c \in CorrIds : \/ Old(s.authorizationRequests[c])
                               \/ Old(s.authorizationResponses[c])}

Cleanup(s) == Forgotten(s, Expired(s))

-----------------------------------------------------------------------------
(* updateState *)

\* a ?? b
OrElse(a, b) == IF a # NONE THEN a ELSE b

\* Mutant: an entry of another correlation id is overwritten.
MappableAlways(mapping, value, c) == TRUE

\* updateMapping throws when the hash belongs to another correlation id.
Mappable(mapping, value, c) == mapping[HashCode[value]] \in {NONE, c}

\* The record is stored first; what follows is skipped when a mapping throws,
\* as it does for an event without subject, and the error is only logged.
UpdateRequest(s, e, status) ==
    LET c == e.correlationId
        stored == [s EXCEPT !.authorizationRequests[c] =
                     [request |-> e.subject, status |-> status, lastUpdated |-> now,
                      queryId |-> OrElse(e.queryId, s.queryIdMapping[c])]]
        withNonce == [stored EXCEPT !.nonceMapping[HashCode[e.subject.nonce]] = c]
        withState == [withNonce EXCEPT !.stateMapping[HashCode[e.subject.state]] = c]
    IN
    IF e.subject = NONE \/ ~Mappable(s.nonceMapping, e.subject.nonce, c) THEN stored
    ELSE IF ~Mappable(s.stateMapping, e.subject.state, c) THEN withNonce
    ELSE [withState EXCEPT !.queryIdMapping[c] = OrElse(e.queryId, @),
                           !.callbackMapping[c] = @ \/ e.callback]

UpdateResponse(s, c, response, status) ==
    [s EXCEPT !.authorizationResponses[c] =
       [response |-> response, queryId |-> s.queryIdMapping[c],
        status |-> status, lastUpdated |-> now]]

-----------------------------------------------------------------------------
(* The handlers: the state after each event.  All but the first clean up     *)
(* before they update; the events of a verification do not clean up.         *)

FailedEvent(c) == [correlationId |-> c, subject |-> NONE, queryId |-> NONE, callback |-> FALSE]

RequestCreatedSuccess(s, e) ==
    Cleanup(UpdateRequest(s, e, "authorization_request_created"))

RequestCreatedFailed(s, c) == UpdateRequest(Cleanup(s), FailedEvent(c), "error")

\* signalAuthRequestRetrieved passes on the request it finds before the event.
RequestSentSuccess(s, c) ==
    UpdateRequest(Cleanup(s),
                  [FailedEvent(c) EXCEPT !.subject = s.authorizationRequests[c].request],
                  "authorization_request_retrieved")

RequestSentFailed(s, c) == UpdateRequest(Cleanup(s), FailedEvent(c), "error")

ResponseReceivedSuccess(s, c, r) ==
    UpdateResponse(Cleanup(s), c, r, "authorization_response_received")

ResponseReceivedFailed(s, c, r) == UpdateResponse(Cleanup(s), c, r, "error")

ResponseVerifiedSuccess(s, c, r) ==
    UpdateResponse(s, c, r, "authorization_response_verified")

ResponseVerifiedFailed(s, c, r) == UpdateResponse(s, c, r, "error")

-----------------------------------------------------------------------------
(* The manager under any stream of events *)

RequestEvents ==
    \/ \E e \in RequestEvent : /\ e.subject # NONE
                               /\ sessions' = RequestCreatedSuccess(sessions, e)
    \/ \E c \in CorrIds : sessions' = RequestCreatedFailed(sessions, c)
    \/ \E c \in CorrIds : /\ sessions.authorizationRequests[c] # NONE
                          /\ \/ sessions' = RequestSentSuccess(sessions, c)
                             \/ sessions' = RequestSentFailed(sessions, c)

ResponseEvents ==
    \E c \in CorrIds, r \in Response :
       \/ sessions' = ResponseReceivedSuccess(sessions, c, r)
       \/ sessions' = ResponseReceivedFailed(sessions, c, r)
       \/ sessions' = ResponseVerifiedSuccess(sessions, c, r)
       \/ sessions' = ResponseVerifiedFailed(sessions, c, r)
       \* both within one turn, when the state does not match
       \/ sessions' = ResponseVerifiedFailed(ResponseReceivedSuccess(sessions, c, r), c, r)

\* deleteStateForCorrelationId, called by the application
DeleteState(c) == /\ sessions' = Forgotten(sessions, {c})
                  /\ UNCHANGED now

Tick == /\ now < MaxTime
        /\ now' = now + 1
        /\ UNCHANGED sessions

SessionsInit == sessions = NoSessions /\ now = 0

SessionsNext ==
    \/ RequestEvents /\ UNCHANGED now
    \/ ResponseEvents /\ UNCHANGED now
    \/ \E c \in CorrIds : DeleteState(c)
    \/ Tick

SessionsSpec == SessionsInit /\ [][SessionsNext]_sessionVars

-----------------------------------------------------------------------------
(* Properties *)

\* The records and mappings have the types of types/SessionManager.ts, but
\* that a request may be missing from its record.
SessionsTypeOK == sessions \in Sessions /\ now \in Time

\* A correlation id found by state or nonce has a request record, whatever
\* was mapped, refused, expired or deleted before: getFromMapping finds a
\* record whenever getCorrelationIdImpl finds an id.
MappedHasRecord ==
    \A h \in Hashes :
       \A c \in {sessions.nonceMapping[h], sessions.stateMapping[h]} \ {NONE} :
          sessions.authorizationRequests[c] # NONE

\* A state or nonce that leads to one transaction does not come to lead to
\* another, or to none, while that transaction is neither deleted nor expired.
EntryLeavesWithItsTransaction ==
    [][\A h \in Hashes :
         LET c == sessions.stateMapping[h]  d == sessions.nonceMapping[h] IN
         /\ c # NONE /\ sessions'.stateMapping[h] # c =>
              c \in Expired(sessions) \/ sessions'.authorizationRequests[c] = NONE
         /\ d # NONE /\ sessions'.nonceMapping[h] # d =>
              d \in Expired(sessions) \/ sessions'.authorizationRequests[d] = NONE
      ]_sessionVars

=============================================================================
