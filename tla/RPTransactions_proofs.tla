------------------------ MODULE RPTransactions_proofs ------------------------
(***************************************************************************)
(* Proofs about the relying party.  First its session manager: for any     *)
(* ids, values, hash function and maximum age, and any stream of events,   *)
(* its state keeps its type and every mapping leads to a stored request.   *)
(* Then its transactions: every step of the RP is a step of the manager or *)
(* leaves the manager alone, so what holds of any stream of events holds   *)
(* of the RP, and with one call at a time each request, response and       *)
(* mapping belongs to its own call.                                        *)
(***************************************************************************)
EXTENDS RPTransactions, TLAPS

\* Every mapping of s leads to a stored request.
Linked(s) ==
    \A h \in Hashes :
       /\ s.nonceMapping[h] # NONE => s.authorizationRequests[s.nonceMapping[h]] # NONE
       /\ s.stateMapping[h] # NONE => s.authorizationRequests[s.stateMapping[h]] # NONE

Good(s) == s \in Sessions /\ Linked(s)

USE DEF Time

-----------------------------------------------------------------------------
(* The records and requests are distinct from NONE, and values have hashes. *)

LEMMA RecordFacts ==
    /\ \A r \in AuthorizationRequestState : r # NONE
    /\ \A r \in AuthorizationResponseState : r # NONE
    /\ \A r \in Request : r # NONE /\ r.nonce \in Values /\ r.state \in Values
    /\ \A v \in Values : HashCode[v] \in Hashes
  BY RPNoneAssumption, RequestAssumption DEF Hashes

\* No state is stored at the start.
LEMMA NoSessionsGood == Good(NoSessions)
  BY DEF Good, Linked, NoSessions, Sessions

\* Removing correlation ids together with their mappings keeps a good state
\* good: no mapping is left that leads to a removed record.
LEMMA ForgottenGood ==
  ASSUME NEW s, Good(s), NEW cs
  PROVE  Good(Forgotten(s, cs))
<1> DEFINE t == Forgotten(s, cs)
<1>1. s \in Sessions /\ Linked(s)
  BY DEF Good
<1>2. /\ t.authorizationRequests =
           [c \in CorrIds |-> IF c \in cs THEN NONE ELSE s.authorizationRequests[c]]
      /\ t.authorizationResponses =
           [c \in CorrIds |-> IF c \in cs THEN NONE ELSE s.authorizationResponses[c]]
      /\ t.nonceMapping =
           [h \in Hashes |-> IF s.nonceMapping[h] \in cs THEN NONE ELSE s.nonceMapping[h]]
      /\ t.stateMapping =
           [h \in Hashes |-> IF s.stateMapping[h] \in cs THEN NONE ELSE s.stateMapping[h]]
  BY <1>1 DEF Forgotten, Sessions
<1>3. t \in Sessions
  BY <1>1 DEF Forgotten, Sessions
<1>4. Linked(t)
  <2> SUFFICES ASSUME NEW h \in Hashes
               PROVE  /\ t.nonceMapping[h] # NONE =>
                           t.authorizationRequests[t.nonceMapping[h]] # NONE
                      /\ t.stateMapping[h] # NONE =>
                           t.authorizationRequests[t.stateMapping[h]] # NONE
    BY DEF Linked
  <2>1. /\ s.nonceMapping[h] \in CorrIds \cup {NONE}
        /\ s.stateMapping[h] \in CorrIds \cup {NONE}
    BY <1>1 DEF Sessions
  <2> HIDE DEF t
  <2> QED
    BY <1>1, <1>2, <2>1 DEF Linked
<1> HIDE DEF t
<1>5. QED
  BY <1>3, <1>4 DEF Good, t

LEMMA CleanupGood ==
  ASSUME NEW s, Good(s)
  PROVE  Good(Cleanup(s))
BY ForgottenGood DEF Cleanup

\* A request is stored before anything is mapped to it, so the state is good
\* wherever the handler stops.
LEMMA UpdateRequestGood ==
  ASSUME NEW s, Good(s), NEW e \in RequestEvent, NEW status \in RequestStatus,
         now \in Time
  PROVE  Good(UpdateRequest(s, e, status))
<1> DEFINE c == e.correlationId
           record == [request |-> e.subject, status |-> status, lastUpdated |-> now,
                      queryId |-> OrElse(e.queryId, s.queryIdMapping[c])]
           stored == [s EXCEPT !.authorizationRequests[c] = record]
           withNonce == [stored EXCEPT !.nonceMapping[HashCode[e.subject.nonce]] = c]
           withState == [withNonce EXCEPT !.stateMapping[HashCode[e.subject.state]] = c]
           final == [withState EXCEPT !.queryIdMapping[c] = OrElse(e.queryId, @),
                                      !.callbackMapping[c] = @ \/ e.callback]
<1>1. s \in Sessions /\ Linked(s)
  BY DEF Good
<1>2. c \in CorrIds /\ e.subject \in Request \cup {NONE} /\ e.queryId \in QueryIds \cup {NONE}
      /\ e.callback \in BOOLEAN
  BY RPAssumption DEF RequestEvent
<1>3. c # NONE
  BY <1>2, RPAssumption
<1>4. record \in AuthorizationRequestState /\ record # NONE
  <2>1. s.queryIdMapping[c] \in QueryIds \cup {NONE}
    BY <1>1, <1>2 DEF Sessions
  <2>2. OrElse(e.queryId, s.queryIdMapping[c]) \in QueryIds \cup {NONE}
    BY <1>2, <2>1 DEF OrElse
  <2>3. record \in AuthorizationRequestState
    BY <1>2, <2>2 DEF AuthorizationRequestState
  <2> QED
    BY <2>3, RecordFacts
<1> HIDE DEF record, c
<1>5. Good(stored)
  <2>1. stored \in Sessions
    BY <1>1, <1>2, <1>4 DEF Sessions
  <2>2. /\ stored.nonceMapping = s.nonceMapping
        /\ stored.stateMapping = s.stateMapping
        /\ \A d \in CorrIds : stored.authorizationRequests[d] =
                                IF d = c THEN record ELSE s.authorizationRequests[d]
    BY <1>1, <1>2 DEF Sessions
  <2>3. \A h \in Hashes : /\ s.nonceMapping[h] \in CorrIds \cup {NONE}
                          /\ s.stateMapping[h] \in CorrIds \cup {NONE}
    BY <1>1 DEF Sessions
  <2> HIDE DEF stored
  <2> QED
    BY <1>1, <1>4, <2>1, <2>2, <2>3 DEF Good, Linked
<1>6. stored.authorizationRequests[c] # NONE
  BY <1>1, <1>2, <1>4 DEF Sessions
<1> HIDE DEF stored
<1>7. CASE e.subject = NONE
  BY <1>5, <1>7 DEF UpdateRequest, stored, record, c
<1>8. CASE e.subject # NONE
  <2>1. e.subject \in Request
    BY <1>2, <1>8
  <2> DEFINE hn == HashCode[e.subject.nonce]
             hs == HashCode[e.subject.state]
  <2>2. hn \in Hashes /\ hs \in Hashes
    BY <2>1, RecordFacts
  <2> HIDE DEF hn, hs
  <2>3. Good(withNonce) /\ withNonce.authorizationRequests[c] # NONE
    <3>1. withNonce = [stored EXCEPT !.nonceMapping[hn] = c]
      BY DEF hn
    <3>2. withNonce \in Sessions
      BY <1>2, <1>5, <2>2, <3>1 DEF Good, Sessions
    <3>3. /\ withNonce.stateMapping = stored.stateMapping
          /\ withNonce.authorizationRequests = stored.authorizationRequests
          /\ \A h \in Hashes : withNonce.nonceMapping[h] =
                                 IF h = hn THEN c ELSE stored.nonceMapping[h]
      BY <1>5, <2>2, <3>1 DEF Good, Sessions
    <3> HIDE DEF withNonce
    <3> QED
      BY <1>5, <1>6, <3>2, <3>3 DEF Good, Linked
  <2> HIDE DEF withNonce
  <2>4. Good(withState)
    <3>1. withState = [withNonce EXCEPT !.stateMapping[hs] = c]
      BY DEF hs
    <3>2. withState \in Sessions
      BY <1>2, <2>2, <2>3, <3>1 DEF Good, Sessions
    <3>3. /\ withState.nonceMapping = withNonce.nonceMapping
          /\ withState.authorizationRequests = withNonce.authorizationRequests
          /\ \A h \in Hashes : withState.stateMapping[h] =
                                 IF h = hs THEN c ELSE withNonce.stateMapping[h]
      BY <2>2, <2>3, <3>1 DEF Good, Sessions
    <3> HIDE DEF withState
    <3> QED
      BY <2>3, <3>2, <3>3 DEF Good, Linked
  <2> HIDE DEF withState
  <2>5. Good(final)
    <3>1. /\ withState.queryIdMapping \in [CorrIds -> QueryIds \cup {NONE}]
          /\ withState.callbackMapping \in [CorrIds -> BOOLEAN]
      BY <2>4 DEF Good, Sessions
    <3>2. /\ OrElse(e.queryId, withState.queryIdMapping[c]) \in QueryIds \cup {NONE}
          /\ (withState.callbackMapping[c] \/ e.callback) \in BOOLEAN
      BY <1>2, <3>1 DEF OrElse
    <3>3. final \in Sessions
      BY <2>4, <3>1, <3>2 DEF Good, Sessions
    <3>4. /\ final.nonceMapping = withState.nonceMapping
          /\ final.stateMapping = withState.stateMapping
          /\ final.authorizationRequests = withState.authorizationRequests
      BY <2>4 DEF Good, Sessions
    <3> HIDE DEF final
    <3> QED
      BY <2>4, <3>3, <3>4 DEF Good, Linked
  <2> HIDE DEF final
  <2>6. \/ UpdateRequest(s, e, status) = stored
        \/ UpdateRequest(s, e, status) = withNonce
        \/ UpdateRequest(s, e, status) = final
    BY DEF UpdateRequest, final, withState, withNonce, stored, record, c
  <2> QED
    BY <1>5, <2>3, <2>5, <2>6
<1> QED
  BY <1>7, <1>8

LEMMA UpdateResponseGood ==
  ASSUME NEW s, Good(s), NEW c \in CorrIds, NEW r \in Response,
         NEW status \in ResponseStatus, now \in Time
  PROVE  Good(UpdateResponse(s, c, r, status))
<1> DEFINE record == [response |-> r, queryId |-> s.queryIdMapping[c],
                      status |-> status, lastUpdated |-> now]
           t == [s EXCEPT !.authorizationResponses[c] = record]
<1>1. s \in Sessions /\ Linked(s)
  BY DEF Good
<1>2. record \in AuthorizationResponseState
  BY <1>1 DEF AuthorizationResponseState, Sessions
<1> HIDE DEF record
<1>3. t \in Sessions
  BY <1>1, <1>2 DEF Sessions
<1>4. /\ t.nonceMapping = s.nonceMapping /\ t.stateMapping = s.stateMapping
      /\ t.authorizationRequests = s.authorizationRequests
  BY <1>1 DEF Sessions
<1> HIDE DEF t
<1>5. Good(t)
  BY <1>1, <1>3, <1>4 DEF Good, Linked
<1> QED
  BY <1>5 DEF UpdateResponse, t, record

-----------------------------------------------------------------------------
(* The handlers *)

LEMMA FailedEventType == \A c \in CorrIds : FailedEvent(c) \in RequestEvent
  BY RPAssumption DEF FailedEvent, RequestEvent

\* The request that signalAuthRequestRetrieved passes on makes a proper event.
LEMMA SentEventType ==
  ASSUME NEW s, Good(s), NEW c \in CorrIds, s.authorizationRequests[c] # NONE
  PROVE  [FailedEvent(c) EXCEPT !.subject = s.authorizationRequests[c].request]
           \in RequestEvent
<1>1. s.authorizationRequests[c] \in AuthorizationRequestState
  BY DEF Good, Sessions
<1>2. s.authorizationRequests[c].request \in Request \cup {NONE}
  BY <1>1 DEF AuthorizationRequestState
<1> QED
  BY <1>2, RPAssumption DEF FailedEvent, RequestEvent

LEMMA RequestHandlersGood ==
  ASSUME NEW s, Good(s), now \in Time
  PROVE  /\ \A e \in RequestEvent : Good(RequestCreatedSuccess(s, e))
         /\ \A c \in CorrIds : /\ Good(RequestCreatedFailed(s, c))
                               /\ Good(RequestSentFailed(s, c))
                               /\ s.authorizationRequests[c] # NONE =>
                                    Good(RequestSentSuccess(s, c))
<1>1. /\ "authorization_request_created" \in RequestStatus
      /\ "authorization_request_retrieved" \in RequestStatus
      /\ "error" \in RequestStatus
  BY DEF RequestStatus
<1>2. ASSUME NEW e \in RequestEvent PROVE Good(RequestCreatedSuccess(s, e))
  BY <1>1, UpdateRequestGood, CleanupGood DEF RequestCreatedSuccess
<1>3. Good(Cleanup(s))
  BY CleanupGood
<1>4. ASSUME NEW c \in CorrIds
      PROVE  Good(RequestCreatedFailed(s, c)) /\ Good(RequestSentFailed(s, c))
  <2>1. FailedEvent(c) \in RequestEvent
    BY FailedEventType
  <2> QED
    BY <1>1, <1>3, <2>1, UpdateRequestGood DEF RequestCreatedFailed, RequestSentFailed
<1>5. ASSUME NEW c \in CorrIds, s.authorizationRequests[c] # NONE
      PROVE  Good(RequestSentSuccess(s, c))
  BY <1>1, <1>3, <1>5, SentEventType, UpdateRequestGood DEF RequestSentSuccess
<1> QED
  BY <1>2, <1>4, <1>5

LEMMA ResponseHandlersGood ==
  ASSUME NEW s, Good(s), NEW c \in CorrIds, NEW r \in Response, now \in Time
  PROVE  /\ Good(ResponseReceivedSuccess(s, c, r))
         /\ Good(ResponseReceivedFailed(s, c, r))
         /\ Good(ResponseVerifiedSuccess(s, c, r))
         /\ Good(ResponseVerifiedFailed(s, c, r))
<1>1. /\ "authorization_response_received" \in ResponseStatus
      /\ "authorization_response_verified" \in ResponseStatus
      /\ "error" \in ResponseStatus
  BY DEF ResponseStatus
<1>2. Good(Cleanup(s))
  BY CleanupGood
<1> QED
  BY <1>1, <1>2, UpdateResponseGood
     DEF ResponseReceivedSuccess, ResponseReceivedFailed,
         ResponseVerifiedSuccess, ResponseVerifiedFailed

-----------------------------------------------------------------------------
(* The invariant *)

SessionsInv == Good(sessions) /\ now \in Time

LEMMA SessionsInitInv == SessionsInit => SessionsInv
<1> SUFFICES ASSUME SessionsInit PROVE SessionsInv
  OBVIOUS
<1>1. now \in Time
  BY RPAssumption DEF SessionsInit
<1> QED
  BY <1>1, NoSessionsGood DEF SessionsInit, SessionsInv

LEMMA SessionsNextInv == SessionsInv /\ [SessionsNext]_sessionVars => SessionsInv'
<1> SUFFICES ASSUME SessionsInv, [SessionsNext]_sessionVars PROVE SessionsInv'
  OBVIOUS
<1>0. Good(sessions) /\ now \in Time
  BY DEF SessionsInv
<1>1. CASE RequestEvents /\ UNCHANGED now
  <2>1. ASSUME NEW e \in RequestEvent, sessions' = RequestCreatedSuccess(sessions, e)
        PROVE  Good(sessions')
    BY <1>0, <2>1, RequestHandlersGood
  <2>2. ASSUME NEW c \in CorrIds, sessions' = RequestCreatedFailed(sessions, c)
        PROVE  Good(sessions')
    BY <1>0, <2>2, RequestHandlersGood
  <2>3. ASSUME NEW c \in CorrIds, sessions.authorizationRequests[c] # NONE,
               sessions' = RequestSentSuccess(sessions, c)
        PROVE  Good(sessions')
    BY <1>0, <2>3, RequestHandlersGood
  <2>4. ASSUME NEW c \in CorrIds, sessions' = RequestSentFailed(sessions, c)
        PROVE  Good(sessions')
    BY <1>0, <2>4, RequestHandlersGood
  <2>5. Good(sessions')
    BY <1>1, <2>1, <2>2, <2>3, <2>4 DEF RequestEvents
  <2> QED
    BY <1>0, <1>1, <2>5 DEF SessionsInv, Good, Linked
<1>2. CASE ResponseEvents /\ UNCHANGED now
  <2>1. PICK c \in CorrIds, r \in Response :
          \/ sessions' = ResponseReceivedSuccess(sessions, c, r)
          \/ sessions' = ResponseReceivedFailed(sessions, c, r)
          \/ sessions' = ResponseVerifiedSuccess(sessions, c, r)
          \/ sessions' = ResponseVerifiedFailed(sessions, c, r)
          \/ sessions' = ResponseVerifiedFailed(
                           ResponseReceivedSuccess(sessions, c, r), c, r)
    BY <1>2 DEF ResponseEvents
  <2>2. Good(ResponseReceivedSuccess(sessions, c, r))
    BY <1>0, ResponseHandlersGood
  <2>3. Good(ResponseVerifiedFailed(ResponseReceivedSuccess(sessions, c, r), c, r))
    BY <1>0, <2>2, ResponseHandlersGood
  <2>4. Good(sessions')
    BY <1>0, <2>1, <2>3, ResponseHandlersGood
  <2> QED
    BY <1>0, <1>2, <2>4 DEF SessionsInv, Good, Linked
<1>3. ASSUME NEW c \in CorrIds, DeleteState(c) PROVE SessionsInv'
  <2>1. Good(sessions')
    BY <1>0, <1>3, ForgottenGood DEF DeleteState
  <2> QED
    BY <1>0, <1>3, <2>1 DEF DeleteState, SessionsInv, Good, Linked
<1>4. CASE Tick
  <2>1. now' \in Time /\ sessions' = sessions
    BY <1>0, <1>4, RPAssumption DEF Tick
  <2> QED
    BY <1>0, <2>1 DEF SessionsInv, Good, Linked
<1>5. CASE UNCHANGED sessionVars
  BY <1>0, <1>5 DEF sessionVars, SessionsInv, Good, Linked
<1> QED
  BY <1>1, <1>2, <1>3, <1>4, <1>5 DEF SessionsNext

LEMMA SessionsInvariant == SessionsSpec => []SessionsInv
  BY SessionsInitInv, SessionsNextInv, PTL DEF SessionsSpec

\* The invariant says what the two checked properties say.
LEMMA SessionsInvImplies == SessionsInv => SessionsTypeOK /\ MappedHasRecord
<1> SUFFICES ASSUME SessionsInv PROVE SessionsTypeOK /\ MappedHasRecord
  OBVIOUS
<1>1. SessionsTypeOK
  BY DEF SessionsInv, Good, SessionsTypeOK
<1>2. MappedHasRecord
  BY DEF SessionsInv, Good, Linked, MappedHasRecord
<1> QED
  BY <1>1, <1>2

\* A correlation id found by state or nonce always has a request record, for
\* every hash function and maximum age.
THEOREM MappingsCorrect == SessionsSpec => []MappedHasRecord
  BY SessionsInvariant, SessionsInvImplies, PTL

-----------------------------------------------------------------------------
(* What becomes of the mappings in a step *)

\* From s to t no mapping changes its correlation id.
Keeps(s, t) ==
    \A h \in Hashes :
       /\ s.nonceMapping[h] # NONE => t.nonceMapping[h] = s.nonceMapping[h]
       /\ s.stateMapping[h] # NONE => t.stateMapping[h] = s.stateMapping[h]

\* A mapping that changes belonged to a correlation id of cs, or to one whose
\* request is gone.
Leaves(s, t, cs) ==
    \A h \in Hashes :
       LET c == s.stateMapping[h]  d == s.nonceMapping[h] IN
       /\ c # NONE /\ t.stateMapping[h] # c => c \in cs \/ t.authorizationRequests[c] = NONE
       /\ d # NONE /\ t.nonceMapping[h] # d => d \in cs \/ t.authorizationRequests[d] = NONE

\* updateMapping never overwrites the mapping of another correlation id.
LEMMA UpdateRequestKeeps ==
  ASSUME NEW s, Good(s), NEW e \in RequestEvent, NEW status \in RequestStatus
  PROVE  Keeps(s, UpdateRequest(s, e, status))
<1> DEFINE c == e.correlationId
           t == UpdateRequest(s, e, status)
           hn == HashCode[e.subject.nonce]
           hs == HashCode[e.subject.state]
<1>1. s \in Sessions
  BY DEF Good
<1>2. CASE e.subject = NONE \/ ~Mappable(s.nonceMapping, e.subject.nonce, c)
  <2>1. t.nonceMapping = s.nonceMapping /\ t.stateMapping = s.stateMapping
    BY <1>1, <1>2 DEF UpdateRequest, Sessions
  <2> QED
    BY <2>1 DEF Keeps
<1>3. CASE /\ ~(e.subject = NONE \/ ~Mappable(s.nonceMapping, e.subject.nonce, c))
           /\ ~Mappable(s.stateMapping, e.subject.state, c)
  <2>1. /\ t.nonceMapping = [s.nonceMapping EXCEPT ![hn] = c]
        /\ t.stateMapping = s.stateMapping
    BY <1>1, <1>3 DEF UpdateRequest, Sessions
  <2>2. s.nonceMapping[hn] \in {NONE, c}
    BY <1>3 DEF Mappable
  <2>3. s.nonceMapping \in [Hashes -> CorrIds \cup {NONE}]
    BY <1>1 DEF Sessions
  <2> HIDE DEF t, hn, c
  <2>4. Keeps(s, t)
    BY <2>1, <2>2, <2>3 DEF Keeps
  <2> QED
    BY <2>4 DEF t
<1>4. CASE /\ ~(e.subject = NONE \/ ~Mappable(s.nonceMapping, e.subject.nonce, c))
           /\ Mappable(s.stateMapping, e.subject.state, c)
  <2>1. /\ t.nonceMapping = [s.nonceMapping EXCEPT ![hn] = c]
        /\ t.stateMapping = [s.stateMapping EXCEPT ![hs] = c]
    BY <1>1, <1>4 DEF UpdateRequest, Sessions
  <2>2. s.nonceMapping[hn] \in {NONE, c} /\ s.stateMapping[hs] \in {NONE, c}
    BY <1>4 DEF Mappable
  <2>3. /\ s.nonceMapping \in [Hashes -> CorrIds \cup {NONE}]
        /\ s.stateMapping \in [Hashes -> CorrIds \cup {NONE}]
    BY <1>1 DEF Sessions
  <2> HIDE DEF t, hn, hs, c
  <2>4. Keeps(s, t)
    BY <2>1, <2>2, <2>3 DEF Keeps
  <2> QED
    BY <2>4 DEF t
<1> QED
  BY <1>2, <1>3, <1>4

LEMMA UpdateResponseKeeps ==
  ASSUME NEW s, Good(s), NEW c, NEW r, NEW status
  PROVE  Keeps(s, UpdateResponse(s, c, r, status))
<1>1. s \in Sessions
  BY DEF Good
<1>2. /\ UpdateResponse(s, c, r, status).nonceMapping = s.nonceMapping
      /\ UpdateResponse(s, c, r, status).stateMapping = s.stateMapping
  BY <1>1 DEF UpdateResponse, Sessions
<1> QED
  BY <1>2 DEF Keeps

\* A mapping is removed only with its correlation id.
LEMMA ForgottenLeaves ==
  ASSUME NEW s, Good(s), NEW cs
  PROVE  Leaves(s, Forgotten(s, cs), cs)
<1>1. s \in Sessions
  BY DEF Good
<1>2. /\ Forgotten(s, cs).nonceMapping =
           [h \in Hashes |-> IF s.nonceMapping[h] \in cs THEN NONE ELSE s.nonceMapping[h]]
      /\ Forgotten(s, cs).stateMapping =
           [h \in Hashes |-> IF s.stateMapping[h] \in cs THEN NONE ELSE s.stateMapping[h]]
  BY <1>1 DEF Forgotten, Sessions
<1> QED
  BY <1>2 DEF Leaves

\* Its request is removed, too.
LEMMA ForgottenRemoves ==
  ASSUME NEW s, Good(s), NEW cs, NEW c \in CorrIds, c \in cs
  PROVE  Forgotten(s, cs).authorizationRequests[c] = NONE
<1>1. s \in Sessions
  BY DEF Good
<1>2. Forgotten(s, cs).authorizationRequests =
           [d \in CorrIds |-> IF d \in cs THEN NONE ELSE s.authorizationRequests[d]]
  BY <1>1 DEF Forgotten, Sessions
<1> QED
  BY <1>2

\* Update after cleanup, as in all handlers but the first
LEMMA CleanupThenKeeps ==
  ASSUME NEW s, Good(s), NEW u, Keeps(Cleanup(s), u)
  PROVE  Leaves(s, u, Expired(s))
<1>1. s \in Sessions
  BY DEF Good
<1>2. /\ Cleanup(s).nonceMapping =
           [h \in Hashes |-> IF s.nonceMapping[h] \in Expired(s) THEN NONE
                                                                 ELSE s.nonceMapping[h]]
      /\ Cleanup(s).stateMapping =
           [h \in Hashes |-> IF s.stateMapping[h] \in Expired(s) THEN NONE
                                                                 ELSE s.stateMapping[h]]
  BY <1>1 DEF Cleanup, Forgotten, Sessions
<1> QED
  BY <1>2 DEF Leaves, Keeps

\* Cleanup after the update, as in the first handler
LEMMA KeepsThenCleanup ==
  ASSUME NEW s, NEW t, Good(s), Good(t), Keeps(s, t)
  PROVE  Leaves(s, Cleanup(t), Expired(s))
<1>1. Leaves(t, Cleanup(t), Expired(t))
  BY ForgottenLeaves DEF Cleanup
<1>2. \A c \in Expired(t) : Cleanup(t).authorizationRequests[c] = NONE
  <2>1. Expired(t) \subseteq CorrIds
    BY DEF Expired
  <2> QED
    BY <2>1, ForgottenRemoves DEF Cleanup
<1> QED
  BY <1>1, <1>2 DEF Leaves, Keeps

LEMMA KeepsLeaves ==
  ASSUME NEW s, NEW t, NEW cs, Keeps(s, t)
  PROVE  Leaves(s, t, cs)
  BY DEF Keeps, Leaves

LEMMA SessionsNextLeaves ==
  ASSUME SessionsInv, [SessionsNext]_sessionVars
  PROVE  Leaves(sessions, sessions', Expired(sessions))
<1>0. Good(sessions) /\ now \in Time /\ Good(Cleanup(sessions))
  BY CleanupGood DEF SessionsInv
<1>st. /\ "authorization_request_created" \in RequestStatus
       /\ "authorization_request_retrieved" \in RequestStatus
       /\ "error" \in RequestStatus
       /\ "authorization_response_received" \in ResponseStatus
  BY DEF RequestStatus, ResponseStatus
<1>1. ASSUME NEW e \in RequestEvent, sessions' = RequestCreatedSuccess(sessions, e)
      PROVE  Leaves(sessions, sessions', Expired(sessions))
  <2> DEFINE t == UpdateRequest(sessions, e, "authorization_request_created")
  <2>1. Good(t) /\ Keeps(sessions, t)
    BY <1>0, <1>st, UpdateRequestGood, UpdateRequestKeeps
  <2>2. sessions' = Cleanup(t)
    BY <1>1 DEF RequestCreatedSuccess
  <2> HIDE DEF t
  <2> QED
    BY <1>0, <2>1, <2>2, KeepsThenCleanup
<1>2. ASSUME NEW e \in RequestEvent, NEW status \in RequestStatus,
             sessions' = UpdateRequest(Cleanup(sessions), e, status)
      PROVE  Leaves(sessions, sessions', Expired(sessions))
  BY <1>0, <1>2, UpdateRequestKeeps, CleanupThenKeeps
<1>3. CASE RequestEvents /\ UNCHANGED now
  <2>1. \A c \in CorrIds : FailedEvent(c) \in RequestEvent
    BY FailedEventType
  <2>2. \A c \in CorrIds : sessions.authorizationRequests[c] # NONE =>
          [FailedEvent(c) EXCEPT !.subject = sessions.authorizationRequests[c].request]
             \in RequestEvent
    BY <1>0, SentEventType
  <2> QED
    BY <1>st, <1>1, <1>2, <1>3, <2>1, <2>2
       DEF RequestEvents, RequestCreatedFailed, RequestSentSuccess, RequestSentFailed
<1>4. CASE ResponseEvents /\ UNCHANGED now
  <2>1. PICK c \in CorrIds, r \in Response :
          \/ sessions' = ResponseReceivedSuccess(sessions, c, r)
          \/ sessions' = ResponseReceivedFailed(sessions, c, r)
          \/ sessions' = ResponseVerifiedSuccess(sessions, c, r)
          \/ sessions' = ResponseVerifiedFailed(sessions, c, r)
          \/ sessions' = ResponseVerifiedFailed(
                           ResponseReceivedSuccess(sessions, c, r), c, r)
    BY <1>4 DEF ResponseEvents
  <2>2. CASE \/ sessions' = ResponseReceivedSuccess(sessions, c, r)
             \/ sessions' = ResponseReceivedFailed(sessions, c, r)
    BY <1>0, <2>2, UpdateResponseKeeps, CleanupThenKeeps
       DEF ResponseReceivedSuccess, ResponseReceivedFailed
  <2>3. CASE \/ sessions' = ResponseVerifiedSuccess(sessions, c, r)
             \/ sessions' = ResponseVerifiedFailed(sessions, c, r)
    BY <1>0, <2>3, UpdateResponseKeeps, KeepsLeaves
       DEF ResponseVerifiedSuccess, ResponseVerifiedFailed
  <2>4. CASE sessions' = ResponseVerifiedFailed(
                           ResponseReceivedSuccess(sessions, c, r), c, r)
    <3> DEFINE t == ResponseReceivedSuccess(sessions, c, r)
    <3>1. Good(t) /\ Keeps(Cleanup(sessions), t)
      BY <1>0, <1>st, UpdateResponseGood, UpdateResponseKeeps DEF ResponseReceivedSuccess
    <3> HIDE DEF t
    <3>2. Keeps(t, ResponseVerifiedFailed(t, c, r))
      BY <3>1, UpdateResponseKeeps DEF ResponseVerifiedFailed
    <3>3. Keeps(Cleanup(sessions), ResponseVerifiedFailed(t, c, r))
      BY <3>1, <3>2 DEF Keeps
    <3> QED
      BY <1>0, <2>4, <3>3, CleanupThenKeeps DEF t
  <2> QED
    BY <2>1, <2>2, <2>3, <2>4
<1>5. ASSUME NEW c \in CorrIds, DeleteState(c)
      PROVE  Leaves(sessions, sessions', Expired(sessions))
  <2>1. Leaves(sessions, sessions', {c})
    BY <1>0, <1>5, ForgottenLeaves DEF DeleteState
  <2>2. sessions'.authorizationRequests[c] = NONE
    BY <1>0, <1>5, ForgottenRemoves DEF DeleteState
  <2> QED
    BY <2>1, <2>2 DEF Leaves
<1>6. CASE Tick \/ UNCHANGED sessionVars
  BY <1>6 DEF Tick, sessionVars, Leaves
<1> QED
  BY <1>3, <1>4, <1>5, <1>6 DEF SessionsNext

\* A state or nonce is not taken over by another transaction, nor lost, while
\* its own transaction lives.
THEOREM EntriesLeaveCorrectly == SessionsSpec => EntryLeavesWithItsTransaction
<1>1. SessionsInv /\ [SessionsNext]_sessionVars =>
        [\A h \in Hashes :
           LET c == sessions.stateMapping[h]  d == sessions.nonceMapping[h] IN
           /\ c # NONE /\ sessions'.stateMapping[h] # c =>
                c \in Expired(sessions) \/ sessions'.authorizationRequests[c] = NONE
           /\ d # NONE /\ sessions'.nonceMapping[h] # d =>
                d \in Expired(sessions) \/ sessions'.authorizationRequests[d] = NONE
        ]_sessionVars
  BY SessionsNextLeaves DEF Leaves
<1> QED
  BY <1>1, SessionsInvariant, PTL DEF SessionsSpec, EntryLeavesWithItsTransaction

-----------------------------------------------------------------------------
(* Transactions *)

\* What a call in progress holds of the requests it has built
CallsOK(f) ==
    /\ f \in [Calls -> CallState]
    /\ \A k \in Calls : /\ f[k].pc = "sign" => f[k].request \in Request
                        /\ f[k].pc \in {"signUri", "sign"} => f[k].uri \in Request
                        /\ f[k].pc = "done" => /\ f[k].uri \in Request
                                               /\ f[k].request \in Request

VerificationsOK(f) ==
    /\ f \in [Verifications -> VerificationState]
    /\ \A v \in Verifications : f[v].pc = "verify" => /\ f[v].correlationId \in CorrIds
                                                      /\ f[v].response \in Response

\* A call reads the payload only after it, or another call, has written it.
PayloadOK(p, f) ==
    /\ p \in [state : Values \cup {NONE}, nonce : Values \cup {NONE},
              query : QueryIds \cup {NONE}]
    /\ p \in Request \/ \A k \in Calls : f[k].pc = "new"

TransactionsInv ==
    /\ SessionsInv
    /\ args \in [Calls -> Args]
    /\ passBy \in PassBys
    /\ PayloadOK(payload, call)
    /\ CallsOK(call)
    /\ VerificationsOK(verif)

-----------------------------------------------------------------------------
(* Facts about the values *)

LEMMA RequestType == Request = [state : Values, nonce : Values, query : QueryIds \cup {NONE}]
  BY TransactionsAssumption

LEMMA ArgumentTypes ==
  ASSUME TransactionsInv, NEW k \in Calls
  PROVE  /\ args[k].correlationId \in CorrIds
         /\ args[k].state \in Values /\ args[k].nonce \in Values
         /\ args[k].queryId \in QueryIds \cup {NONE}
         /\ args[k].callback \in Callbacks /\ args[k].uri \in BOOLEAN
  BY DEF TransactionsInv, Args

\* A call that reports its success sends a proper event.
LEMMA CreatedEventType ==
  ASSUME TransactionsInv, NEW k \in Calls, NEW q \in Request
  PROVE  CreatedEvent(k, q) \in RequestEvent /\ CreatedEvent(k, q).subject # NONE
<1>1. (args[k].uri /\ args[k].callback) \in Callbacks
  BY ArgumentTypes, RPAssumption
<1>2. q # NONE
  BY RecordFacts
<1> QED
  BY <1>1, <1>2, ArgumentTypes DEF CreatedEvent, RequestEvent

\* The payload is a request once the state and nonce of a call are in it.
LEMMA WrittenType ==
  ASSUME TransactionsInv, NEW k \in Calls
  PROVE  Written(k) \in Request
<1>1. args[k].state \in Values /\ args[k].nonce \in Values
  BY ArgumentTypes
<1> QED
  BY <1>1, RequestType DEF Written, TransactionsInv, PayloadOK

-----------------------------------------------------------------------------
(* What the steps of a call do to the manager and to the calls *)

\* The manager handles an event of a request or nothing.
RequestStep == (RequestEvents \/ UNCHANGED sessions) /\ UNCHANGED now

LEMMA CreatedStep ==
  ASSUME TransactionsInv, NEW k \in Calls, NEW u \in Request, NEW q \in Request,
         Created(k, u, q)
  PROVE  RequestEvents /\ CallsOK(call')
<1>1. RequestEvents
  BY CreatedEventType DEF Created, RequestEvents
<1>2. [pc |-> "done", uri |-> u, request |-> q] \in CallState
  BY DEF CallState
<1>3. CallsOK(call')
  BY <1>2 DEF Created, CallsOK, TransactionsInv
<1> QED
  BY <1>1, <1>3

LEMMA BuildStep ==
  ASSUME TransactionsInv, NEW k \in Calls, NEW p \in Request, Build(k, p)
  PROVE  (RequestEvents \/ UNCHANGED sessions) /\ CallsOK(call')
<1>1. CASE Created(k, p, p)
  BY <1>1, CreatedStep
<1>2. CASE /\ call' = [call EXCEPT ![k].pc = "signUri", ![k].uri = p]
           /\ UNCHANGED sessions
  <2>1. [call[k] EXCEPT !.pc = "signUri", !.uri = p] \in CallState
    BY DEF CallState, CallsOK, TransactionsInv
  <2>2. CallsOK(call')
    BY <1>2, <2>1 DEF CallsOK, TransactionsInv, CallState
  <2> QED
    BY <1>2, <2>2
<1>3. CASE /\ call' = [call EXCEPT ![k].pc = "sign", ![k].uri = p, ![k].request = p]
           /\ UNCHANGED sessions
  <2>1. [call[k] EXCEPT !.pc = "sign", !.uri = p, !.request = p] \in CallState
    BY DEF CallState, CallsOK, TransactionsInv
  <2>2. CallsOK(call')
    BY <1>3, <2>1 DEF CallsOK, TransactionsInv, CallState
  <2> QED
    BY <1>3, <2>2
<1> QED
  BY <1>1, <1>2, <1>3 DEF Build

\* One step of a call: a request event or none, and every field keeps its type.
CallStep(k) ==
    \/ StartCall(k) \/ QueryFound(k) \/ QueryLookupFails(k)
    \/ UriSigned(k) \/ RequestSigned(k) \/ SigningFails(k)

LEMMA RequestIsPayload == \A q \in Request :
    q \in [state : Values \cup {NONE}, nonce : Values \cup {NONE}, query : QueryIds \cup {NONE}]
  BY RequestType

LEMMA CallSteps ==
  ASSUME TransactionsInv, NEW k \in Calls, CallStep(k)
  PROVE  RequestStep /\ CallsOK(call') /\ PayloadOK(payload', call')
<1> USE DEF RequestStep
<1>0. /\ CallsOK(call) /\ PayloadOK(payload, call)
      /\ call[k] \in CallState
      /\ call[k].pc # "new" => payload \in Request
  BY DEF TransactionsInv, CallsOK, PayloadOK
<1>1. CASE StartCall(k)
  <2>1. payload' \in Request /\ UNCHANGED now
    BY <1>1, WrittenType DEF StartCall
  <2>2. CASE Build(k, payload')
    BY <2>1, <2>2, BuildStep, RequestIsPayload DEF PayloadOK
  <2>3. CASE call' = [call EXCEPT ![k].pc = "lookup"] /\ UNCHANGED sessions
    <3>1. [call[k] EXCEPT !.pc = "lookup"] \in CallState
      BY <1>0 DEF CallState
    <3>2. CallsOK(call')
      BY <1>0, <2>3, <3>1 DEF CallsOK, CallState
    <3> QED
      BY <2>1, <2>3, <3>2, RequestIsPayload DEF PayloadOK
  <2> QED
    BY <1>1, <2>2, <2>3 DEF StartCall
<1>2. CASE QueryFound(k)
  <2>1. args[k].queryId \in QueryIds \cup {NONE}
    BY ArgumentTypes
  <2>2. payload \in Request
    BY <1>0, <1>2 DEF QueryFound
  <2>3. payload' \in Request
    BY <1>2, <2>1, <2>2, RequestType DEF QueryFound
  <2> QED
    BY <1>2, <2>3, BuildStep, RequestIsPayload DEF QueryFound, PayloadOK
<1>3. CASE QueryLookupFails(k)
  <2>1. [call[k] EXCEPT !.pc = "failed"] \in CallState
    BY <1>0 DEF CallState
  <2>2. CallsOK(call')
    BY <1>0, <1>3, <2>1 DEF QueryLookupFails, CallsOK, CallState
  <2> QED
    BY <1>0, <1>3, <2>2 DEF QueryLookupFails, PayloadOK
<1>4. CASE UriSigned(k)
  <2>1. payload \in Request /\ call[k].uri \in Request
    BY <1>0, <1>4 DEF UriSigned, CallsOK
  <2>2. CASE Created(k, call[k].uri, payload)
    BY <1>0, <1>4, <2>1, <2>2, CreatedStep DEF UriSigned, PayloadOK
  <2>3. CASE /\ call' = [call EXCEPT ![k].pc = "sign", ![k].request = payload]
             /\ UNCHANGED sessions
    <3>1. [call[k] EXCEPT !.pc = "sign", !.request = payload] \in CallState
      BY <1>0, <2>1 DEF CallState
    <3>2. CallsOK(call')
      BY <1>0, <2>1, <2>3, <3>1 DEF CallsOK, CallState
    <3> QED
      BY <1>4, <2>1, <2>3, <3>2, RequestIsPayload DEF UriSigned, PayloadOK
  <2> QED
    BY <1>4, <2>2, <2>3 DEF UriSigned
<1>5. CASE RequestSigned(k)
  <2>1. payload \in Request /\ call[k].uri \in Request /\ call[k].request \in Request
    BY <1>0, <1>5 DEF RequestSigned, CallsOK
  <2> QED
    BY <1>0, <1>5, <2>1, CreatedStep DEF RequestSigned, PayloadOK
<1>6. CASE SigningFails(k)
  <2>1. [call[k] EXCEPT !.pc = "failed"] \in CallState
    BY <1>0 DEF CallState
  <2>2. CallsOK(call')
    BY <1>0, <1>6, <2>1 DEF SigningFails, CallsOK, CallState
  <2>3. RequestEvents
    BY <1>6, ArgumentTypes DEF SigningFails, RequestEvents
  <2> QED
    BY <1>0, <1>6, <2>2, <2>3 DEF SigningFails, PayloadOK
<1> QED
  BY <1>1, <1>2, <1>3, <1>4, <1>5, <1>6 DEF CallStep

-----------------------------------------------------------------------------
(* Verification of responses *)

\* A response answers a request in a call's hands.
LEMMA ResponseTypes ==
  ASSUME TransactionsInv, NEW k \in Calls, NEW r \in Responses(k)
  PROVE  r \in Response
<1>1. PICK q \in Seen(k) : r = [call |-> k, state |-> q.state, nonce |-> q.nonce]
  BY DEF Responses
<1>2. q \in Request
  BY DEF Seen, CallsOK, TransactionsInv
<1> QED
  BY <1>1, <1>2, RequestType, TransactionsAssumption

ResponseStep == ResponseEvents /\ UNCHANGED now

LEMMA ArrivalStep ==
  ASSUME TransactionsInv, NEW v \in Verifications, NEW r \in Response, NEW c \in CorrIds,
         ResponseArrives(v, r, c)
  PROVE  ResponseStep /\ VerificationsOK(verif')
<1> DEFINE record == sessions.authorizationRequests[c]
           p == [pc |-> "verify", correlationId |-> c, response |-> r,
                 nonce |-> IF record = NONE THEN NONE ELSE record.request.nonce]
<1>0. VerificationsOK(verif) /\ record \in AuthorizationRequestState \cup {NONE}
  BY DEF TransactionsInv, SessionsInv, Good, Sessions
<1>1. CASE sessions' = ResponseVerifiedFailed(sessions, c, r) /\ UNCHANGED verif
  BY <1>0, <1>1 DEF ResponseStep, ResponseEvents, ResponseArrives, VerificationsOK
<1>2. CASE /\ sessions' = ResponseVerifiedFailed(ResponseReceivedSuccess(sessions, c, r), c, r)
           /\ UNCHANGED verif
  BY <1>0, <1>2 DEF ResponseStep, ResponseEvents, ResponseArrives, VerificationsOK
<1>3. CASE /\ ~(record # NONE /\ record.request = NONE)
           /\ sessions' = ResponseReceivedSuccess(sessions, c, r)
           /\ verif' = [verif EXCEPT ![v] = p]
  <2>1. record = NONE \/ record.request \in Request
    BY <1>0, <1>3 DEF AuthorizationRequestState
  <2>2. p.nonce \in Values \cup {NONE}
    BY <2>1, RecordFacts
  <2>3. p \in VerificationState
    BY <2>2 DEF VerificationState
  <2> HIDE DEF record
  <2>4. VerificationsOK(verif')
    BY <1>0, <1>3, <2>3 DEF VerificationsOK
  <2> QED
    BY <1>3, <2>4 DEF ResponseStep, ResponseEvents, ResponseArrives
<1> QED
  BY <1>1, <1>2, <1>3 DEF ResponseArrives

LEMMA IdleType == IdleVerification \in VerificationState /\ IdleVerification.pc # "verify"
  BY DEF IdleVerification, VerificationState

LEMMA SettledStep ==
  ASSUME TransactionsInv, NEW v \in Verifications, ResponseVerified(v) \/ ResponseRejected(v)
  PROVE  ResponseStep /\ VerificationsOK(verif')
<1>1. VerificationsOK(verif)
  BY DEF TransactionsInv
<1>2. verif[v].correlationId \in CorrIds /\ verif[v].response \in Response
  BY <1>1 DEF VerificationsOK, ResponseVerified, ResponseRejected
<1>3. VerificationsOK(verif')
  BY <1>1, IdleType DEF VerificationsOK, ResponseVerified, ResponseRejected
<1> QED
  BY <1>2, <1>3 DEF ResponseStep, ResponseEvents, ResponseVerified, ResponseRejected

-----------------------------------------------------------------------------
(* Every step *)

LEMMA TransactionsInit == Init => TransactionsInv /\ SessionsInit
<1> SUFFICES ASSUME Init PROVE TransactionsInv /\ SessionsInit
  OBVIOUS
<1>1. SessionsInit /\ SessionsInv
  BY SessionsInitInv DEF Init
<1>2. args \in [Calls -> Args] /\ passBy \in PassBys
  BY ArgumentsAssumption DEF Init
<1>3. PayloadOK(payload, call) /\ CallsOK(call)
  BY DEF Init, PayloadOK, CallsOK, CallState
<1>4. VerificationsOK(verif)
  BY IdleType DEF Init, VerificationsOK
<1> QED
  BY <1>1, <1>2, <1>3, <1>4 DEF TransactionsInv

LEMMA StepOfSessions ==
  TransactionsInv /\ [Next]_vars => [SessionsNext]_sessionVars /\ TransactionsInv'
<1> SUFFICES ASSUME TransactionsInv, [Next]_vars
             PROVE  [SessionsNext]_sessionVars /\ TransactionsInv'
  OBVIOUS
<1>1. ASSUME [SessionsNext]_sessionVars, UNCHANGED <<args, passBy>>,
             PayloadOK(payload', call'), CallsOK(call'), VerificationsOK(verif')
      PROVE  [SessionsNext]_sessionVars /\ TransactionsInv'
  BY <1>1, SessionsNextInv DEF TransactionsInv, PayloadOK, CallsOK, VerificationsOK
<1>0. PayloadOK(payload, call) /\ CallsOK(call) /\ VerificationsOK(verif)
  BY DEF TransactionsInv
<1> USE DEF PayloadOK, CallsOK, VerificationsOK
<1>2. ASSUME NEW k \in Calls, CallStep(k)
      PROVE  [SessionsNext]_sessionVars /\ TransactionsInv'
  <2>1. RequestStep /\ CallsOK(call') /\ PayloadOK(payload', call')
    BY <1>2, CallSteps
  <2>2. UNCHANGED <<args, passBy, verif>>
    BY <1>2 DEF CallStep, StartCall, QueryFound, QueryLookupFails, UriSigned,
                RequestSigned, SigningFails
  <2>3. [SessionsNext]_sessionVars
    BY <2>1 DEF RequestStep, SessionsNext, sessionVars
  <2> QED
    BY <1>0, <1>1, <2>1, <2>2, <2>3
<1>3. ASSUME NEW c \in CorrIds, SignalRetrieved(c)
      PROVE  [SessionsNext]_sessionVars /\ TransactionsInv'
  <2>1. [SessionsNext]_sessionVars
    BY <1>3 DEF SignalRetrieved, SessionsNext, RequestEvents
  <2> QED
    BY <1>0, <1>1, <1>3, <2>1 DEF SignalRetrieved
<1>4. ASSUME NEW c \in CorrIds, DeleteState(c), Idle
      PROVE  [SessionsNext]_sessionVars /\ TransactionsInv'
  BY <1>0, <1>1, <1>4 DEF SessionsNext, Idle
<1>5. ASSUME NEW k \in Calls, NEW r \in Responses(k), NEW c \in CorrIds,
             MalformedResponse(r, c) \/ \E v \in Verifications : ResponseArrives(v, r, c)
      PROVE  [SessionsNext]_sessionVars /\ TransactionsInv'
  <2>1. r \in Response
    BY <1>5, ResponseTypes
  <2>2. ResponseStep /\ VerificationsOK(verif')
    BY <1>0, <1>5, <2>1, ArrivalStep DEF MalformedResponse, ResponseStep, ResponseEvents
  <2>3. UNCHANGED <<args, passBy, payload, call>>
    BY <1>5 DEF MalformedResponse, ResponseArrives
  <2>4. [SessionsNext]_sessionVars
    BY <2>2 DEF ResponseStep, SessionsNext
  <2> QED
    BY <1>0, <1>1, <2>2, <2>3, <2>4
<1>6. ASSUME NEW v \in Verifications, ResponseVerified(v) \/ ResponseRejected(v)
      PROVE  [SessionsNext]_sessionVars /\ TransactionsInv'
  <2>1. ResponseStep /\ VerificationsOK(verif')
    BY <1>6, SettledStep
  <2>2. UNCHANGED <<args, passBy, payload, call>>
    BY <1>6 DEF ResponseVerified, ResponseRejected
  <2>3. [SessionsNext]_sessionVars
    BY <2>1 DEF ResponseStep, SessionsNext
  <2> QED
    BY <1>0, <1>1, <2>1, <2>2, <2>3
<1>7. CASE Tick /\ Idle
  BY <1>0, <1>1, <1>7 DEF SessionsNext, Idle
<1>8. CASE UNCHANGED vars
  BY <1>0, <1>1, <1>8 DEF vars, sessionVars
<1> QED
  BY <1>2, <1>3, <1>4, <1>5, <1>6, <1>7, <1>8 DEF Next, CallStep

LEMMA TransactionsInvariant == Spec => []TransactionsInv
<1>1. Init => TransactionsInv
  BY TransactionsInit
<1>2. TransactionsInv /\ [Next]_vars => TransactionsInv'
  BY StepOfSessions
<1> QED
  BY <1>1, <1>2, PTL DEF Spec

\* The type invariant of the transactions, for any number of calls.
THEOREM TransactionsTypeCorrect == Spec => []TransactionsTypeOK
<1>1. TransactionsInv => TransactionsTypeOK
  BY SessionsInvImplies
     DEF TransactionsInv, TransactionsTypeOK, CallsOK, VerificationsOK, PayloadOK
<1> QED
  BY <1>1, TransactionsInvariant, PTL

\* The RP drives its session manager through the manager's events, so that what
\* holds of the manager under any events holds under the RP.
LEMMA ImplementsSessions == Spec => SessionsSpec
<1>1. Init => SessionsInit
  BY TransactionsInit
<1>2. TransactionsInv /\ [Next]_vars => [SessionsNext]_sessionVars
  BY StepOfSessions
<1> QED
  BY <1>1, <1>2, TransactionsInvariant, PTL DEF Spec, SessionsSpec

\* Whatever the RP does, a state or nonce that finds a transaction finds its
\* request.
THEOREM TransactionsMapped == Spec => []MappedHasRecord
  BY ImplementsSessions, MappingsCorrect, PTL

-----------------------------------------------------------------------------
(* What the session manager knows of the calls.  a stands for args.          *)

OfCall(a, k, q) == q.state = a[k].state /\ q.nonce = a[k].nonce

\* A stored request is one of a call for its correlation id.
RecordsOf(a, s) ==
    \A c \in CorrIds :
       LET q == s.authorizationRequests[c].request IN
       s.authorizationRequests[c] # NONE /\ q # NONE =>
          \E k \in Calls : a[k].correlationId = c /\ OfCall(a, k, q)

\* A mapping leads to the correlation id of a call with such a value.
MappingsOf(a, s) ==
    \A h \in Hashes :
       /\ s.nonceMapping[h] # NONE =>
            \E k \in Calls : a[k].correlationId = s.nonceMapping[h] /\ HashCode[a[k].nonce] = h
       /\ s.stateMapping[h] # NONE =>
            \E k \in Calls : a[k].correlationId = s.stateMapping[h] /\ HashCode[a[k].state] = h

\* No other transaction uses the state of q or one with its hash.
Alone(a, c, q) ==
    \A k \in Calls : HashCode[a[k].state] = HashCode[q.state] => a[k].correlationId = c

FindsLive(a, s) ==
    \A c \in CorrIds :
       LET q == s.authorizationRequests[c].request IN
       s.authorizationRequests[c] # NONE /\ q # NONE /\ Alone(a, c, q) =>
          /\ s.stateMapping[HashCode[q.state]] = c
          /\ s.nonceMapping[HashCode[q.nonce]] = c

\* Nonces, which are fresh, have hashes of their own.
NonceHashes(a) == \A j, k \in Calls : j # k => HashCode[a[j].nonce] # HashCode[a[k].nonce]

ManagerOf(a, s) ==
    /\ RecordsOf(a, s)
    /\ MappingsOf(a, s)
    /\ NonceHashes(a) => FindsLive(a, s)

-----------------------------------------------------------------------------
(* The handlers *)

LEMMA ForgottenOf ==
  ASSUME NEW a, NEW s, Good(s), ManagerOf(a, s), NEW cs
  PROVE  ManagerOf(a, Forgotten(s, cs))
<1> DEFINE t == Forgotten(s, cs)
<1>1. s \in Sessions
  BY DEF Good
<1>2. /\ t.authorizationRequests =
           [c \in CorrIds |-> IF c \in cs THEN NONE ELSE s.authorizationRequests[c]]
      /\ t.authorizationResponses =
           [c \in CorrIds |-> IF c \in cs THEN NONE ELSE s.authorizationResponses[c]]
      /\ t.nonceMapping =
           [h \in Hashes |-> IF s.nonceMapping[h] \in cs THEN NONE ELSE s.nonceMapping[h]]
      /\ t.stateMapping =
           [h \in Hashes |-> IF s.stateMapping[h] \in cs THEN NONE ELSE s.stateMapping[h]]
  BY <1>1 DEF Forgotten, Sessions
<1>3. \A c \in CorrIds : s.authorizationRequests[c] \in AuthorizationRequestState \cup {NONE}
  BY <1>1 DEF Sessions
<1> HIDE DEF t
<1>4. RecordsOf(a, t)
  BY <1>2 DEF ManagerOf, RecordsOf
<1>5. MappingsOf(a, t)
  BY <1>2 DEF ManagerOf, MappingsOf
<1>7. ASSUME FindsLive(a, s) PROVE FindsLive(a, t)
  <2> SUFFICES ASSUME NEW c \in CorrIds, t.authorizationRequests[c] # NONE,
                      t.authorizationRequests[c].request # NONE,
                      Alone(a, c, t.authorizationRequests[c].request)
               PROVE  /\ t.stateMapping[HashCode[t.authorizationRequests[c].request.state]] = c
                      /\ t.nonceMapping[HashCode[t.authorizationRequests[c].request.nonce]] = c
    BY DEF FindsLive
  <2> DEFINE q == s.authorizationRequests[c].request
  <2>1. c \notin cs /\ t.authorizationRequests[c] = s.authorizationRequests[c]
    BY <1>2
  <2>2. q \in Request
    BY <1>3, <2>1 DEF AuthorizationRequestState
  <2>3. HashCode[q.state] \in Hashes /\ HashCode[q.nonce] \in Hashes
    BY <2>2, RecordFacts
  <2>4. s.stateMapping[HashCode[q.state]] = c /\ s.nonceMapping[HashCode[q.nonce]] = c
    BY <1>7, <2>1 DEF FindsLive
  <2> QED
    BY <1>2, <2>1, <2>3, <2>4
<1> QED
  BY <1>4, <1>5, <1>7 DEF ManagerOf, t

LEMMA CleanupOf ==
  ASSUME NEW a, NEW s, Good(s), ManagerOf(a, s)
  PROVE  Good(Cleanup(s)) /\ ManagerOf(a, Cleanup(s))
BY ForgottenOf, CleanupGood DEF Cleanup

\* A response is stored; nothing else changes.
LEMMA UpdateResponseOf ==
  ASSUME NEW a, NEW s, Good(s), ManagerOf(a, s), NEW c \in CorrIds, NEW r, NEW status
  PROVE  ManagerOf(a, UpdateResponse(s, c, r, status))
<1> DEFINE record == [response |-> r, queryId |-> s.queryIdMapping[c],
                      status |-> status, lastUpdated |-> now]
           t == UpdateResponse(s, c, r, status)
<1>1. s \in Sessions
  BY DEF Good
<1>2. /\ t.authorizationRequests = s.authorizationRequests
      /\ t.authorizationResponses = [s.authorizationResponses EXCEPT ![c] = record]
      /\ t.nonceMapping = s.nonceMapping /\ t.stateMapping = s.stateMapping
  BY <1>1 DEF UpdateResponse, Sessions
<1>3. record.status = status /\ record.response = r
  OBVIOUS
<1> HIDE DEF t, record
<1>5. RecordsOf(a, t) /\ MappingsOf(a, t) /\ (NonceHashes(a) => FindsLive(a, t))
  BY <1>2 DEF ManagerOf, RecordsOf, MappingsOf, FindsLive
<1> QED
  BY <1>5 DEF ManagerOf, t

\* An event of a call that is for the correlation id and has the values of the
\* event's request; an event without request may be anyone's.
EventOf(a, e) ==
    e.subject # NONE =>
       \E k \in Calls : a[k].correlationId = e.correlationId /\ OfCall(a, k, e.subject)

LEMMA UpdateRequestOf ==
  ASSUME NEW a, NEW s, Good(s), ManagerOf(a, s), NEW e \in RequestEvent, EventOf(a, e),
         NEW status \in RequestStatus, now \in Time
  PROVE  ManagerOf(a, UpdateRequest(s, e, status))
<1> DEFINE c == e.correlationId
           q == e.subject
           t == UpdateRequest(s, e, status)
           hn == HashCode[q.nonce]
           hs == HashCode[q.state]
           record == [request |-> q, status |-> status, lastUpdated |-> now,
                      queryId |-> OrElse(e.queryId, s.queryIdMapping[c])]
           Fits == Mappable(s.nonceMapping, q.nonce, c) /\ Mappable(s.stateMapping, q.state, c)
<1>1. /\ s \in Sessions /\ c \in CorrIds /\ c # NONE /\ q \in Request \cup {NONE}
      /\ q # NONE => hn \in Hashes /\ hs \in Hashes
  BY RPAssumption, RecordFacts DEF Good, RequestEvent
<1>2. record.request = q
  OBVIOUS
<1>3. /\ t.authorizationRequests = [s.authorizationRequests EXCEPT ![c] = record]
      /\ t.authorizationResponses = s.authorizationResponses
  BY <1>1 DEF UpdateRequest, Sessions
<1>4. /\ \/ t.nonceMapping = s.nonceMapping
         \/ q # NONE /\ t.nonceMapping = [s.nonceMapping EXCEPT ![hn] = c]
      /\ \/ t.stateMapping = s.stateMapping
         \/ q # NONE /\ t.stateMapping = [s.stateMapping EXCEPT ![hs] = c]
  BY <1>1 DEF UpdateRequest, Sessions
<1>5. q # NONE /\ Fits => /\ t.nonceMapping = [s.nonceMapping EXCEPT ![hn] = c]
                          /\ t.stateMapping = [s.stateMapping EXCEPT ![hs] = c]
  BY <1>1 DEF UpdateRequest, Sessions
<1>6. Keeps(s, t)
  BY UpdateRequestKeeps
<1>7. q # NONE => \E k \in Calls : a[k].correlationId = c /\ OfCall(a, k, q)
  BY DEF EventOf
<1>8. /\ s.authorizationRequests \in [CorrIds -> AuthorizationRequestState \cup {NONE}]
      /\ s.nonceMapping \in [Hashes -> CorrIds \cup {NONE}]
      /\ s.stateMapping \in [Hashes -> CorrIds \cup {NONE}]
  BY <1>1 DEF Sessions
<1> HIDE DEF t, record, hn, hs, Fits
<1>9. RecordsOf(a, t)
  <2>1. ASSUME NEW d \in CorrIds, d # c
        PROVE  t.authorizationRequests[d] = s.authorizationRequests[d]
    BY <1>3, <1>8, <2>1
  <2>2. t.authorizationRequests[c].request = q
    BY <1>1, <1>2, <1>3, <1>8
  <2> HIDE DEF c, q
  <2> QED
    BY <1>7, <2>1, <2>2 DEF ManagerOf, RecordsOf
<1>10. MappingsOf(a, t)
  <2>1. q # NONE => \E k \in Calls : /\ a[k].correlationId = c
                                     /\ HashCode[a[k].nonce] = hn /\ HashCode[a[k].state] = hs
    BY <1>7 DEF OfCall, hn, hs
  <2>2. \A h \in Hashes : /\ \/ t.nonceMapping[h] = s.nonceMapping[h]
                             \/ q # NONE /\ h = hn /\ t.nonceMapping[h] = c
                          /\ \/ t.stateMapping[h] = s.stateMapping[h]
                             \/ q # NONE /\ h = hs /\ t.stateMapping[h] = c
    BY <1>1, <1>4, <1>8
  <2> HIDE DEF c, q
  <2> QED
    BY <2>1, <2>2 DEF ManagerOf, MappingsOf
<1>12. ASSUME NonceHashes(a) PROVE FindsLive(a, t)
  <2>1. ASSUME NEW d \in CorrIds, d # c, t.authorizationRequests[d] # NONE,
               t.authorizationRequests[d].request # NONE,
               Alone(a, d, t.authorizationRequests[d].request)
        PROVE  /\ t.stateMapping[HashCode[t.authorizationRequests[d].request.state]] = d
               /\ t.nonceMapping[HashCode[t.authorizationRequests[d].request.nonce]] = d
    <3>1. t.authorizationRequests[d] = s.authorizationRequests[d]
      BY <1>3, <1>8, <2>1
    <3> DEFINE p == s.authorizationRequests[d].request
    <3>2. p \in Request
      BY <1>8, <2>1, <3>1 DEF AuthorizationRequestState
    <3>3. HashCode[p.state] \in Hashes /\ HashCode[p.nonce] \in Hashes /\ d # NONE
      BY <3>2, RecordFacts, RPAssumption
    <3>4. s.stateMapping[HashCode[p.state]] = d /\ s.nonceMapping[HashCode[p.nonce]] = d
      BY <1>12, <2>1, <3>1 DEF ManagerOf, FindsLive
    <3> QED
      BY <1>6, <3>1, <3>3, <3>4 DEF Keeps
  <2>2. ASSUME q # NONE, Alone(a, c, q)
        PROVE  t.stateMapping[hs] = c /\ t.nonceMapping[hn] = c
    <3>1. PICK k \in Calls : a[k].correlationId = c /\ OfCall(a, k, q)
      BY <1>7, <2>2
    <3>2. s.nonceMapping[hn] \in {NONE, c}
      <4>1. ASSUME s.nonceMapping[hn] # NONE PROVE s.nonceMapping[hn] = c
        <5>1. PICK j \in Calls : /\ a[j].correlationId = s.nonceMapping[hn]
                                 /\ HashCode[a[j].nonce] = hn
          BY <1>1, <2>2, <4>1 DEF ManagerOf, MappingsOf
        <5>2. j = k
          BY <1>12, <3>1, <5>1 DEF NonceHashes, OfCall, hn
        <5> QED
          BY <3>1, <5>1, <5>2
      <4> QED
        BY <4>1
    <3>3. s.stateMapping[hs] \in {NONE, c}
      BY <1>1, <2>2 DEF ManagerOf, MappingsOf, Alone, hs
    <3>4. Fits
      BY <3>2, <3>3 DEF Fits, Mappable, hn, hs
    <3> QED
      BY <1>1, <1>5, <1>8, <2>2, <3>4
  <2>3. t.authorizationRequests[c].request = q
    BY <1>1, <1>2, <1>3, <1>8
  <2> HIDE DEF c, q
  <2> QED
    BY <2>1, <2>2, <2>3 DEF FindsLive, hn, hs
<1> QED
  BY <1>9, <1>10, <1>12 DEF ManagerOf, t

LEMMA HandlersOf ==
  ASSUME NEW a, NEW s, Good(s), ManagerOf(a, s), now \in Time
  PROVE  /\ \A e \in RequestEvent : EventOf(a, e) => ManagerOf(a, RequestCreatedSuccess(s, e))
         /\ \A c \in CorrIds : /\ ManagerOf(a, RequestCreatedFailed(s, c))
                               /\ ManagerOf(a, RequestSentFailed(s, c))
                               /\ s.authorizationRequests[c] # NONE =>
                                    ManagerOf(a, RequestSentSuccess(s, c))
         /\ \A c \in CorrIds, r \in Response :
              /\ ManagerOf(a, ResponseReceivedSuccess(s, c, r))
              /\ Good(ResponseReceivedSuccess(s, c, r))
              /\ ManagerOf(a, ResponseReceivedFailed(s, c, r))
              /\ ManagerOf(a, ResponseVerifiedFailed(s, c, r))
              /\ ManagerOf(a, ResponseVerifiedSuccess(s, c, r))
<1>0. /\ "authorization_request_created" \in RequestStatus
      /\ "authorization_request_retrieved" \in RequestStatus
      /\ "error" \in RequestStatus
  BY DEF RequestStatus
<1>1. Good(Cleanup(s)) /\ ManagerOf(a, Cleanup(s))
  BY CleanupOf
<1>2. ASSUME NEW e \in RequestEvent, EventOf(a, e)
      PROVE  ManagerOf(a, RequestCreatedSuccess(s, e))
  <2> DEFINE t == UpdateRequest(s, e, "authorization_request_created")
  <2>1. Good(t) /\ ManagerOf(a, t)
    BY <1>0, <1>2, UpdateRequestGood, UpdateRequestOf
  <2> HIDE DEF t
  <2>2. ManagerOf(a, Cleanup(t))
    BY <2>1, CleanupOf
  <2> QED
    BY <2>2 DEF RequestCreatedSuccess, t
<1>3. ASSUME NEW c \in CorrIds
      PROVE  ManagerOf(a, RequestCreatedFailed(s, c)) /\ ManagerOf(a, RequestSentFailed(s, c))
  <2>1. FailedEvent(c) \in RequestEvent /\ EventOf(a, FailedEvent(c))
    BY FailedEventType DEF FailedEvent, EventOf
  <2> QED
    BY <1>0, <1>1, <2>1, UpdateRequestOf DEF RequestCreatedFailed, RequestSentFailed
<1>4. ASSUME NEW c \in CorrIds, s.authorizationRequests[c] # NONE
      PROVE  ManagerOf(a, RequestSentSuccess(s, c))
  <2> DEFINE e == [FailedEvent(c) EXCEPT !.subject = s.authorizationRequests[c].request]
  <2>1. e \in RequestEvent
    BY <1>4, SentEventType
  <2>2. e.correlationId = c /\ e.subject = s.authorizationRequests[c].request
    BY DEF FailedEvent
  <2> HIDE DEF e
  <2>3. EventOf(a, e)
    BY <1>4, <2>2 DEF EventOf, ManagerOf, RecordsOf
  <2>4. ManagerOf(a, UpdateRequest(Cleanup(s), e, "authorization_request_retrieved"))
    BY <1>0, <1>1, <2>1, <2>3, UpdateRequestOf
  <2> QED
    BY <2>4 DEF RequestSentSuccess, e
<1>5. ASSUME NEW c \in CorrIds, NEW r \in Response
      PROVE  /\ ManagerOf(a, ResponseReceivedSuccess(s, c, r))
             /\ Good(ResponseReceivedSuccess(s, c, r))
             /\ ManagerOf(a, ResponseReceivedFailed(s, c, r))
             /\ ManagerOf(a, ResponseVerifiedFailed(s, c, r))
             /\ ManagerOf(a, ResponseVerifiedSuccess(s, c, r))
  BY <1>1, UpdateResponseOf, ResponseHandlersGood
     DEF ResponseReceivedSuccess, ResponseReceivedFailed, ResponseVerifiedFailed,
         ResponseVerifiedSuccess
<1> QED
  BY <1>2, <1>3, <1>4, <1>5

-----------------------------------------------------------------------------
(* Calls *)

\* The requests that a call holds are its own.
HoldsOwn(a, f) ==
    \A k \in Calls :
       /\ f[k].pc \in {"signUri", "sign", "done"} => OfCall(a, k, f[k].uri)
       /\ f[k].pc \in {"sign", "done"} => OfCall(a, k, f[k].request)

\* Only one call is in progress, and the shared payload is its own.  This is
\* what the application's await establishes.
OwnPayload ==
    /\ HoldsOwn(args, call)
    /\ \A k \in Calls : InProgress(k) =>
          /\ \A j \in Calls : InProgress(j) => j = k
          /\ OfCall(args, k, payload)

\* A call that has built a request x of its own is alone in progress.
LEMMA OwnStep ==
  ASSUME TransactionsInv, OwnPayload, UNCHANGED args, NEW k \in Calls, NEW x,
         call' = [call EXCEPT ![k] = x], \A j \in Calls : InProgress(j) => j = k,
         OfCall(args, k, payload'),
         x.pc \in {"signUri", "sign", "done"} => OfCall(args, k, x.uri),
         x.pc \in {"sign", "done"} => OfCall(args, k, x.request)
  PROVE  OwnPayload'
<1>1. \A j \in Calls : call'[j] = IF j = k THEN x ELSE call[j]
  BY DEF TransactionsInv, CallsOK
<1>2. HoldsOwn(args, call')
  BY <1>1 DEF OwnPayload, HoldsOwn
<1>3. \A j \in Calls : InProgress(j)' => j = k
  BY <1>1 DEF InProgress
<1> QED
  BY <1>2, <1>3 DEF OwnPayload

LEMMA CreatedOf ==
  ASSUME TransactionsInv, ManagerOf(args, sessions), NEW k \in Calls, NEW u \in Request,
         NEW q \in Request, OfCall(args, k, q), Created(k, u, q)
  PROVE  ManagerOf(args, sessions')
<1>1. CreatedEvent(k, q) \in RequestEvent
  BY CreatedEventType
<1>2. EventOf(args, CreatedEvent(k, q))
  BY DEF EventOf, CreatedEvent
<1>3. Good(sessions) /\ now \in Time
  BY DEF TransactionsInv, SessionsInv
<1> QED
  BY <1>1, <1>2, <1>3, HandlersOf DEF Created

LEMMA BuildOf ==
  ASSUME TransactionsInv, OwnPayload, ManagerOf(args, sessions), UNCHANGED args,
         NEW k \in Calls, \A j \in Calls : InProgress(j) => j = k,
         payload' \in Request, OfCall(args, k, payload'), Build(k, payload')
  PROVE  OwnPayload' /\ ManagerOf(args, sessions')
<1>0. call[k] \in CallState
  BY DEF TransactionsInv, CallsOK
<1>1. CASE Created(k, payload', payload')
  <2>1. ManagerOf(args, sessions')
    BY <1>1, CreatedOf
  <2>2. call' = [call EXCEPT ![k] = [pc |-> "done", uri |-> payload', request |-> payload']]
    BY <1>1 DEF Created
  <2>3. OwnPayload'
    BY <2>2, OwnStep
  <2> QED
    BY <2>1, <2>3
<1>2. CASE /\ call' = [call EXCEPT ![k].pc = "signUri", ![k].uri = payload']
           /\ UNCHANGED sessions
  <2> DEFINE x == [call[k] EXCEPT !.pc = "signUri", !.uri = payload']
  <2>1. x.pc = "signUri" /\ x.uri = payload' /\ call' = [call EXCEPT ![k] = x]
    BY <1>0, <1>2 DEF CallState, TransactionsInv, CallsOK
  <2> HIDE DEF x
  <2>2. OwnPayload'
    BY <2>1, OwnStep
  <2> QED
    BY <1>2, <2>2
<1>3. CASE /\ call' = [call EXCEPT ![k].pc = "sign", ![k].uri = payload', ![k].request = payload']
           /\ UNCHANGED sessions
  <2> DEFINE x == [call[k] EXCEPT !.pc = "sign", !.uri = payload', !.request = payload']
  <2>1. /\ x.pc = "sign" /\ x.uri = payload' /\ x.request = payload'
        /\ call' = [call EXCEPT ![k] = x]
    BY <1>0, <1>3 DEF CallState, TransactionsInv, CallsOK
  <2> HIDE DEF x
  <2>2. OwnPayload'
    BY <2>1, OwnStep
  <2> QED
    BY <1>3, <2>2
<1> QED
  BY <1>1, <1>2, <1>3 DEF Build

LEMMA CallStepOf ==
  ASSUME Serial, TransactionsInv, OwnPayload, ManagerOf(args, sessions),
         NEW k \in Calls, CallStep(k)
  PROVE  OwnPayload' /\ ManagerOf(args, sessions')
<1>0. /\ UNCHANGED args /\ call[k] \in CallState /\ Good(sessions) /\ now \in Time
      /\ call[k].pc # "new" => payload \in Request
      /\ InProgress(k) => (\A j \in Calls : InProgress(j) => j = k) /\ OfCall(args, k, payload)
  BY DEF CallStep, StartCall, QueryFound, QueryLookupFails, UriSigned, RequestSigned,
         SigningFails, TransactionsInv, CallsOK, SessionsInv, PayloadOK, OwnPayload
<1>1. CASE StartCall(k)
  <2>1. payload' \in Request /\ OfCall(args, k, payload') /\ \A j \in Calls : InProgress(j) => j = k
    <3>1. payload \in [state : Values \cup {NONE}, nonce : Values \cup {NONE},
                       query : QueryIds \cup {NONE}]
      BY DEF TransactionsInv, PayloadOK
    <3> QED
      BY <1>1, <3>1, WrittenType DEF StartCall, Written, OfCall
  <2>2. CASE Build(k, payload')
    BY <1>0, <2>1, <2>2, BuildOf
  <2>3. CASE call' = [call EXCEPT ![k].pc = "lookup"] /\ UNCHANGED sessions
    <3> DEFINE x == [call[k] EXCEPT !.pc = "lookup"]
    <3>1. x.pc = "lookup" /\ call' = [call EXCEPT ![k] = x]
      BY <1>0, <2>3 DEF CallState, TransactionsInv, CallsOK
    <3> HIDE DEF x
    <3> QED
      BY <1>0, <2>1, <2>3, <3>1, OwnStep
  <2> QED
    BY <1>1, <2>2, <2>3 DEF StartCall
<1>2. CASE QueryFound(k)
  <2>1. payload \in Request /\ InProgress(k) /\ args[k].queryId \in QueryIds \cup {NONE}
    BY <1>0, <1>2, ArgumentTypes DEF QueryFound, InProgress
  <2>2. payload' = [payload EXCEPT !.query = args[k].queryId] /\ Build(k, payload')
    BY <1>2 DEF QueryFound
  <2>3. payload' \in Request /\ OfCall(args, k, payload')
    BY <1>0, <2>1, <2>2, RequestType DEF OfCall
  <2> QED
    BY <1>0, <2>1, <2>2, <2>3, BuildOf
<1>3. CASE QueryLookupFails(k) \/ SigningFails(k)
  <2> DEFINE x == [call[k] EXCEPT !.pc = "failed"]
  <2>1. InProgress(k) /\ UNCHANGED payload
    BY <1>3 DEF QueryLookupFails, SigningFails, InProgress
  <2>2. x.pc = "failed" /\ call' = [call EXCEPT ![k] = x]
    BY <1>0, <1>3 DEF QueryLookupFails, SigningFails, CallState, TransactionsInv, CallsOK
  <2> HIDE DEF x
  <2>3. OwnPayload'
    BY <1>0, <2>1, <2>2, OwnStep
  <2>4. ManagerOf(args, sessions')
    BY <1>0, <1>3, ArgumentTypes, HandlersOf DEF QueryLookupFails, SigningFails
  <2> QED
    BY <2>3, <2>4
<1>4. CASE UriSigned(k)
  <2>1. /\ InProgress(k) /\ payload \in Request /\ UNCHANGED payload
        /\ call[k].uri \in Request /\ OfCall(args, k, call[k].uri)
    BY <1>0, <1>4 DEF UriSigned, InProgress, TransactionsInv, CallsOK, OwnPayload, HoldsOwn
  <2>2. CASE Created(k, call[k].uri, payload)
    <3>1. ManagerOf(args, sessions')
      BY <1>0, <2>1, <2>2, CreatedOf
    <3>2. call' = [call EXCEPT ![k] = [pc |-> "done", uri |-> call[k].uri, request |-> payload]]
      BY <2>2 DEF Created
    <3>3. OwnPayload'
      BY <1>0, <2>1, <3>2, OwnStep
    <3> QED
      BY <3>1, <3>3
  <2>3. CASE /\ call' = [call EXCEPT ![k].pc = "sign", ![k].request = payload]
             /\ UNCHANGED sessions
    <3> DEFINE x == [call[k] EXCEPT !.pc = "sign", !.request = payload]
    <3>1. /\ x.pc = "sign" /\ x.uri = call[k].uri /\ x.request = payload
          /\ call' = [call EXCEPT ![k] = x]
      BY <1>0, <2>3 DEF CallState, TransactionsInv, CallsOK
    <3> HIDE DEF x
    <3>2. OwnPayload'
      BY <1>0, <2>1, <3>1, OwnStep
    <3> QED
      BY <1>0, <2>3, <3>2
  <2> QED
    BY <1>4, <2>2, <2>3 DEF UriSigned
<1>5. CASE RequestSigned(k)
  <2>1. /\ InProgress(k) /\ UNCHANGED payload /\ Created(k, call[k].uri, call[k].request)
        /\ call[k].uri \in Request /\ OfCall(args, k, call[k].uri)
        /\ call[k].request \in Request /\ OfCall(args, k, call[k].request)
    BY <1>5 DEF RequestSigned, InProgress, TransactionsInv, CallsOK, OwnPayload, HoldsOwn
  <2>2. ManagerOf(args, sessions')
    BY <1>0, <2>1, CreatedOf
  <2>3. call' = [call EXCEPT ![k] = [pc |-> "done", uri |-> call[k].uri,
                                     request |-> call[k].request]]
    BY <2>1 DEF Created
  <2>4. OwnPayload'
    BY <1>0, <2>1, <2>3, OwnStep
  <2> QED
    BY <2>2, <2>4
<1> QED
  BY <1>1, <1>2, <1>3, <1>4, <1>5 DEF CallStep

-----------------------------------------------------------------------------
(* Verifications *)

\* A verification waits with a response of a call and, where a request was stored
\* when it arrived, with the nonce of a call for its correlation id.
AwaitsOwn(a, f) ==
    \A v \in Verifications : f[v].pc = "verify" =>
       /\ f[v].response.nonce = a[f[v].response.call].nonce
       /\ f[v].nonce # NONE =>
            \E k \in Calls : a[k].correlationId = f[v].correlationId /\ f[v].nonce = a[k].nonce

LEMMA ResponseOf ==
  ASSUME TransactionsInv, OwnPayload, NEW k \in Calls, NEW r \in Responses(k)
  PROVE  r.call = k /\ r.nonce = args[k].nonce
<1>1. PICK q \in Seen(k) : r = [call |-> k, state |-> q.state, nonce |-> q.nonce]
  BY DEF Responses
<1>2. call[k].pc = "done" /\ q \in {call[k].uri, call[k].request}
  BY DEF Seen
<1> QED
  BY <1>1, <1>2 DEF OwnPayload, HoldsOwn, OfCall

LEMMA ArrivesOf ==
  ASSUME TransactionsInv, OwnPayload, ManagerOf(args, sessions), AwaitsOwn(args, verif),
         NEW k \in Calls, NEW r \in Responses(k), NEW c \in CorrIds,
         NEW v \in Verifications, ResponseArrives(v, r, c)
  PROVE  ManagerOf(args, sessions') /\ AwaitsOwn(args, verif')
<1> DEFINE record == sessions.authorizationRequests[c]
           p == [pc |-> "verify", correlationId |-> c, response |-> r,
                 nonce |-> IF record = NONE THEN NONE ELSE record.request.nonce]
           received == ResponseReceivedSuccess(sessions, c, r)
<1>0. r \in Response /\ c \in CorrIds /\ Good(sessions) /\ now \in Time
  BY ResponseTypes DEF TransactionsInv, SessionsInv
<1>1. ManagerOf(args, received) /\ Good(received)
  BY <1>0, HandlersOf
<1>2. ManagerOf(args, ResponseVerifiedFailed(received, c, r))
  <2> HIDE DEF received
  <2> QED
    BY <1>0, <1>1, HandlersOf
<1>3. ManagerOf(args, sessions')
  BY <1>0, <1>1, <1>2, HandlersOf DEF ResponseArrives
<1>4. CASE UNCHANGED verif
  BY <1>3, <1>4
<1>5. CASE /\ ~(record # NONE /\ record.request = NONE)
           /\ verif' = [verif EXCEPT ![v] = p]
  <2>1. p.pc = "verify" /\ p.correlationId = c /\ p.response = r
    OBVIOUS
  <2>2. r.call = k /\ r.nonce = args[k].nonce
    BY ResponseOf
  <2>3. CASE record = NONE
    <3>1. p.nonce = NONE
      BY <2>3
    <3> HIDE DEF p
    <3>2. AwaitsOwn(args, verif')
      BY <1>5, <2>1, <2>2, <3>1 DEF AwaitsOwn, TransactionsInv, VerificationsOK
    <3> QED
      BY <1>3, <3>2
  <2>4. CASE record # NONE
    <3>1. p.nonce = record.request.nonce /\ record.request # NONE
      BY <1>5, <2>4
    <3>2. record \in AuthorizationRequestState
      BY <1>0, <2>4 DEF Good, Sessions
    <3>3. p.nonce # NONE
      BY <3>1, <3>2, RecordFacts, RPAssumption DEF AuthorizationRequestState
    <3>4. PICK j \in Calls : args[j].correlationId = c /\ p.nonce = args[j].nonce
      BY <1>0, <2>4, <3>1 DEF ManagerOf, RecordsOf, OfCall
    <3> HIDE DEF p, record
    <3>5. AwaitsOwn(args, verif')
      BY <1>5, <2>1, <2>2, <3>3, <3>4 DEF AwaitsOwn, TransactionsInv, VerificationsOK
    <3> QED
      BY <1>3, <3>5
  <2> QED
    BY <2>3, <2>4
<1> QED
  BY <1>4, <1>5 DEF ResponseArrives

LEMMA SettlesOf ==
  ASSUME TransactionsInv, ManagerOf(args, sessions), AwaitsOwn(args, verif),
         NEW v \in Verifications, ResponseVerified(v) \/ ResponseRejected(v)
  PROVE  ManagerOf(args, sessions') /\ AwaitsOwn(args, verif')
<1> DEFINE p == verif[v]
<1>1. /\ p.correlationId \in CorrIds /\ p.response \in Response
      /\ Good(sessions) /\ now \in Time
  BY DEF ResponseVerified, ResponseRejected, TransactionsInv, SessionsInv, VerificationsOK
<1>2. ManagerOf(args, sessions')
  BY <1>1, HandlersOf DEF ResponseVerified, ResponseRejected
<1>3. AwaitsOwn(args, verif')
  BY IdleType DEF ResponseVerified, ResponseRejected, AwaitsOwn, TransactionsInv, VerificationsOK
<1> QED
  BY <1>2, <1>3

\* The nonce of a verified response is that of a request of its transaction, and
\* nonces are fresh, so that it answers the call of this request.
LEMMA VerifiedAnswersItsCall ==
  ASSUME TransactionsInv, InitArgs, AwaitsOwn(args, verif),
         NEW v \in Verifications, ResponseVerified(v), verif[v].nonce # NONE
  PROVE  /\ args[verif[v].response.call].correlationId = verif[v].correlationId
         /\ args[verif[v].response.call].nonce = verif[v].nonce
<1> DEFINE p == verif[v]
<1>1. p.pc = "verify" /\ p.response \in Response /\ p.nonce = p.response.nonce
  BY DEF ResponseVerified, NonceMatches, TransactionsInv, VerificationsOK
<1>2. p.response.call \in Calls
  BY <1>1, TransactionsAssumption
<1>3. p.response.nonce = args[p.response.call].nonce
  BY <1>1 DEF AwaitsOwn
<1>4. PICK k \in Calls : args[k].correlationId = p.correlationId /\ p.nonce = args[k].nonce
  BY <1>1 DEF AwaitsOwn
<1>5. k = p.response.call
  BY <1>1, <1>2, <1>3, <1>4 DEF InitArgs
<1> QED
  BY <1>1, <1>3, <1>4, <1>5

\* Only a verified response changes both its verification and the record to
\* verified: a rejected one leaves an error, an arriving one an idle slot.
LEMMA VerifiedStep ==
  ASSUME TransactionsInv, [Next]_vars, NEW v \in Verifications,
         verif[v].pc = "verify", verif'[v] # verif[v],
         sessions'.authorizationResponses[verif[v].correlationId].status
           = "authorization_response_verified"
  PROVE  ResponseVerified(v)
<1> DEFINE p == verif[v]
<1>1. VerificationsOK(verif) /\ sessions \in Sessions /\ p.correlationId \in CorrIds
  BY DEF TransactionsInv, SessionsInv, Good, VerificationsOK
<1>2. ~ResponseRejected(v)
  BY <1>1 DEF ResponseRejected, ResponseVerifiedFailed, UpdateResponse, Sessions
<1>3. \A w \in Verifications : w # v => ~(ResponseVerified(w) \/ ResponseRejected(w))
  BY <1>1 DEF ResponseVerified, ResponseRejected, VerificationsOK
<1>4. \A k \in Calls : \A r \in Responses(k), c \in CorrIds, w \in Verifications :
          ~ResponseArrives(w, r, c)
  BY <1>1 DEF ResponseArrives, VerificationsOK
<1>5. ASSUME UNCHANGED verif PROVE FALSE
  BY <1>5
<1> QED
  BY <1>2, <1>3, <1>4, <1>5
     DEF Next, StartCall, QueryFound, QueryLookupFails, UriSigned, RequestSigned,
         SigningFails, SignalRetrieved, Idle, MalformedResponse, vars

-----------------------------------------------------------------------------
(* Every step *)

SerialInv ==
    /\ TransactionsInv
    /\ InitArgs
    /\ OwnPayload
    /\ ManagerOf(args, sessions)
    /\ AwaitsOwn(args, verif)

LEMMA SerialInit == Init => SerialInv
<1> SUFFICES ASSUME Init PROVE SerialInv
  OBVIOUS
<1>1. TransactionsInv /\ InitArgs /\ sessions = NoSessions
  BY TransactionsInit DEF Init, SessionsInit
<1>2. OwnPayload
  BY DEF Init, OwnPayload, HoldsOwn, InProgress
<1>3. ManagerOf(args, NoSessions)
  BY DEF ManagerOf, RecordsOf, MappingsOf, FindsLive, NoSessions
<1>4. AwaitsOwn(args, verif)
  BY IdleType DEF Init, AwaitsOwn
<1> QED
  BY <1>1, <1>2, <1>3, <1>4 DEF SerialInv

LEMMA SerialNext == ASSUME Serial PROVE SerialInv /\ [Next]_vars => SerialInv'
<1> SUFFICES ASSUME SerialInv, [Next]_vars PROVE SerialInv'
  OBVIOUS
<1>0. /\ TransactionsInv /\ TransactionsInv' /\ InitArgs /\ OwnPayload
      /\ ManagerOf(args, sessions) /\ AwaitsOwn(args, verif)
      /\ Good(sessions) /\ now \in Time
  BY StepOfSessions DEF SerialInv, TransactionsInv, SessionsInv
<1>1. ASSUME UNCHANGED <<args, passBy>>, OwnPayload', ManagerOf(args, sessions'),
             AwaitsOwn(args, verif')
      PROVE  SerialInv'
  <2>1. InitArgs'
    BY <1>0, <1>1 DEF InitArgs
  <2>2. ManagerOf(args, sessions)' /\ AwaitsOwn(args, verif)'
    BY <1>1
  <2> QED
    BY <1>0, <1>1, <2>1, <2>2 DEF SerialInv
<1>2. ASSUME UNCHANGED <<args, passBy, payload, call>>, ManagerOf(args, sessions'),
             AwaitsOwn(args, verif')
      PROVE  SerialInv'
  BY <1>0, <1>1, <1>2 DEF OwnPayload, InProgress
<1>3. ASSUME NEW k \in Calls, CallStep(k) PROVE SerialInv'
  <2>1. OwnPayload' /\ ManagerOf(args, sessions')
    BY <1>0, <1>3, CallStepOf
  <2>2. UNCHANGED <<args, passBy, verif>>
    BY <1>3 DEF CallStep, StartCall, QueryFound, QueryLookupFails, UriSigned,
                RequestSigned, SigningFails
  <2> QED
    BY <1>0, <1>1, <2>1, <2>2
<1>4. ASSUME NEW c \in CorrIds, SignalRetrieved(c) PROVE SerialInv'
  <2>1. ManagerOf(args, sessions')
    BY <1>0, <1>4, HandlersOf DEF SignalRetrieved
  <2> QED
    BY <1>0, <1>2, <1>4, <2>1 DEF SignalRetrieved
<1>5. ASSUME NEW c \in CorrIds, DeleteState(c), Idle PROVE SerialInv'
  <2>1. ManagerOf(args, sessions')
    BY <1>0, <1>5, ForgottenOf DEF DeleteState
  <2> QED
    BY <1>0, <1>2, <1>5, <2>1 DEF Idle
<1>6. ASSUME NEW k \in Calls, NEW r \in Responses(k), NEW c \in CorrIds,
             MalformedResponse(r, c)
      PROVE  SerialInv'
  <2>1. ManagerOf(args, sessions')
    BY <1>0, <1>6, ResponseTypes, HandlersOf DEF MalformedResponse
  <2> QED
    BY <1>0, <1>2, <1>6, <2>1 DEF MalformedResponse
<1>7. ASSUME NEW k \in Calls, NEW r \in Responses(k), NEW c \in CorrIds,
             NEW v \in Verifications, ResponseArrives(v, r, c)
      PROVE  SerialInv'
  <2>1. ManagerOf(args, sessions') /\ AwaitsOwn(args, verif')
    BY <1>0, <1>7, ArrivesOf
  <2> QED
    BY <1>2, <1>7, <2>1 DEF ResponseArrives
<1>8. ASSUME NEW v \in Verifications, ResponseVerified(v) \/ ResponseRejected(v)
      PROVE  SerialInv'
  <2>1. ManagerOf(args, sessions') /\ AwaitsOwn(args, verif')
    BY <1>0, <1>8, SettlesOf
  <2> QED
    BY <1>2, <1>8, <2>1 DEF ResponseVerified, ResponseRejected
<1>9. CASE (Tick /\ Idle) \/ UNCHANGED vars
  BY <1>0, <1>2, <1>9 DEF Tick, Idle, vars
<1> QED
  BY <1>3, <1>4, <1>5, <1>6, <1>7, <1>8, <1>9 DEF Next, CallStep

LEMMA SerialInvariant == ASSUME Serial PROVE Spec => []SerialInv
  BY SerialInit, SerialNext, PTL DEF Spec

\* Where the application awaits each call, every request has the state and the
\* nonce of its call, though all calls write them into the same object.  Run
\* rp_shared_payload shows the opposite for calls that overlap
\* (RequestKeepsItsValues).
THEOREM SerialCallsKeepValues == ASSUME Serial PROVE Spec => []RequestKeepsItsValues
<1>1. SerialInv => RequestKeepsItsValues
  BY DEF SerialInv, OwnPayload, HoldsOwn, OfCall, RequestKeepsItsValues
<1> QED
  BY <1>1, SerialInvariant, PTL

\* Where the application awaits each call, a response that was compared with a
\* stored request and counts as verified answers the call of this request: for
\* any number of calls and verifications at once, any hash function, whatever
\* correlation ids the application gives or uses again, and transactions
\* deleted, expired or started anew during the verification
\* (VerifiedForItsCall; run rp_serial).
THEOREM VerifiedCorrect == ASSUME Serial PROVE Spec => VerifiedForItsCall
<1> DEFINE Answered ==
      \A v \in Verifications :
         LET p == verif[v]
             record == sessions'.authorizationResponses[p.correlationId]
         IN  /\ p.pc = "verify" /\ verif'[v] # p
             /\ record.status = "authorization_response_verified"
             /\ p.nonce # NONE
             => /\ args[p.response.call].correlationId = p.correlationId
                /\ args[p.response.call].nonce = p.nonce
<1>1. SerialInv /\ [Next]_vars => Answered
  BY VerifiedStep, VerifiedAnswersItsCall DEF SerialInv
<1>2. SerialInv /\ [Next]_vars => [Answered]_vars
  BY <1>1
<1> QED
  BY <1>2, SerialInvariant, PTL DEF Spec, VerifiedForItsCall

\* Where the application awaits each call and no two nonces have the same hash,
\* a live request is found by its state and nonce unless another transaction
\* uses its state or one with the same hash (LiveRequestIsFindable; run
\* rp_serial).
THEOREM LiveRequestsFindable ==
  ASSUME Serial,
         \A x, y \in Arguments : x.nonce # y.nonce => HashCode[x.nonce] # HashCode[y.nonce]
  PROVE  Spec => []LiveRequestIsFindable
<1> DEFINE ArgsInv == args \in [Calls -> Arguments]
<1>1. Spec => []ArgsInv
  <2>1. Init => ArgsInv
    BY DEF Init
  <2>2. ArgsInv /\ [Next]_vars => ArgsInv'
    BY DEF Next, StartCall, QueryFound, QueryLookupFails, UriSigned, RequestSigned,
           SigningFails, SignalRetrieved, Idle, MalformedResponse, ResponseArrives,
           ResponseVerified, ResponseRejected, vars
  <2> QED
    BY <2>1, <2>2, PTL DEF Spec
<1>2. SerialInv /\ ArgsInv => LiveRequestIsFindable
  <2> SUFFICES ASSUME SerialInv, ArgsInv PROVE LiveRequestIsFindable
    OBVIOUS
  <2>1. NonceHashes(args)
    BY DEF SerialInv, InitArgs, NonceHashes
  <2> QED
    BY <2>1 DEF SerialInv, ManagerOf, FindsLive, Alone, LiveRequestIsFindable
<1> QED
  BY <1>1, <1>2, SerialInvariant, PTL
=============================================================================
