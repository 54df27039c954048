----------------------------- MODULE LookupStates -----------------------------
(***************************************************************************)
(* LookupStateManager: a manager of values (offer sessions) reached        *)
(* through a manager of mappings (uris).  A mapping is stored under one of *)
(* its own properties, the lookup property of the manager that stores it;  *)
(* a reader names another property, which holds the key of the value.      *)
(*                                                                         *)
(* Both managers are IStateManagers: an application may supply external    *)
(* ones, whose calls take time and may be rejected.  So setMapped and      *)
(* delete are calls with a step per manager, between which other calls     *)
(* run, and a call may end between its steps.                              *)
(*                                                                         *)
(* The callers are those of createCredentialOfferURI: an offer has one     *)
(* mapping object and one session object, stored once for each of its keys *)
(* (the pre-authorized code and the issuer state) under its correlation id.*)
(***************************************************************************)
EXTENDS Naturals, FiniteSets

CONSTANTS
    Ids,        \* correlation ids, one per offer
    Codes,      \* pre-authorized codes and issuer states
    KeyObject,  \* the codes of each offer: Ids -> [property -> code or NONE]
    MaxCalls,   \* bound on the calls of setMapped and delete in flight
    NONE,       \* undefined
    ExpiresIn,  \* expiresInMS of both managers
    Expiries,   \* the expiries each offer may carry, NONE among them
    MaxTime     \* bound on the clock

Props   == {"preAuthorizedCode", "issuerState", "correlationId"}
Lookups == <<"preAuthorizedCode", "issuerState", "correlationId">>
Keys    == Ids \cup Codes
Mapping == [Props -> Keys \cup {NONE}]

ASSUME LookupConstants ==
    /\ Ids \cap Codes = {} /\ NONE \notin Keys
    /\ {ExpiresIn, MaxTime, MaxCalls} \subseteq Nat
    /\ Expiries \in [Ids -> SUBSET ((0 .. MaxTime) \cup {NONE})]
    /\ NONE \notin Nat
\* Each offer draws its own codes.
ASSUME KeyObjectAssumption ==
    /\ KeyObject \in [Ids -> Mapping]
    /\ \A i \in Ids : KeyObject[i].correlationId = i
    /\ \A i \in Ids, p \in Props \ {"correlationId"} :
          KeyObject[i][p] \in Codes \cup {NONE}
    /\ \A i, j \in Ids, p, q \in Props :
          i # j => KeyObject[i][p] # KeyObject[j][q] \/ KeyObject[i][p] = NONE

VARIABLES
    mapStates, mapTimer, mapTicking,   \* keyValueMapper
    valStates, valTimer, valTicking,   \* valueStateManager
    calls,     \* calls in flight; two equal ones count as one
    now,       \* the clock
    \* history:
    offers,    \* the times of the objects the caller made for each id
    deleted,   \* ids a delete was called for, and those with a setMapped in flight
               \* while the stores were cleared
    wanted     \* "off"; "on" once the routine is started; "stopped" for good

mapVars == <<mapStates, mapTimer, mapTicking>>
valVars == <<valStates, valTimer, valTicking>>
vars    == <<mapVars, valVars, calls, now, offers, deleted, wanted>>

Mapper == INSTANCE MemoryStates WITH
    states <- mapStates, cleanupIntervalId <- mapTimer, ticking <- mapTicking,
    Values <- Mapping
Sessions == INSTANCE MemoryStates WITH
    states <- valStates, cleanupIntervalId <- valTimer, ticking <- valTicking,
    Values <- Ids

Time  == 0 .. MaxTime
Times == [createdAt : Time, expiresAt : Time \cup {NONE}]

ASSUME LookupNone ==
    NONE \notin Times /\ NONE \notin Mapper!Entry /\ NONE \notin Sessions!Entry

\* A call in flight: setMapped has stored its mapping and goes on to the value;
\* delete has read the key of the value and goes on to the mapping, then to
\* the value.
Call == [pc : {"setValue", "deleteKey", "deleteValue"}, id : Ids, key : Keys]

StatesTypeOK ==
    /\ Mapper!StatesOK /\ Sessions!StatesOK
    /\ calls \in SUBSET Call
    /\ now \in Time
    /\ offers \in [Ids -> Times \cup {NONE}]
    /\ deleted \in SUBSET Ids
    /\ wanted \in {"off", "on", "stopped"}

-----------------------------------------------------------------------------
(* Reading *)

\* The key of the value that mapping `id' holds under property p.
ValueId(p, id) == IF Mapper!Has(id) THEN Mapper!Get(id)[p] ELSE NONE

\* LookupStateManager.get with lookup property p; the value of has is whether
\* this is a value, that of getAsserted an error when it is NONE
GetThrough(p, id) == IF ValueId(p, id) = NONE THEN NONE
                     ELSE Sessions!Get(ValueId(p, id))

\* lookupStateManagerMultiGet: the lookups in order, then the value's own key
MultiGet(id) ==
    IF \E n \in 1 .. 3 : GetThrough(Lookups[n], id) # NONE
    THEN LET first == CHOOSE n \in 1 .. 3 :
                         /\ GetThrough(Lookups[n], id) # NONE
                         /\ \A m \in 1 .. n - 1 : GetThrough(Lookups[m], id) = NONE
         IN  GetThrough(Lookups[first], id)
    ELSE Sessions!Get(id)

-----------------------------------------------------------------------------
(* Storing *)

Entry(i, v) == [createdAt |-> offers'[i].createdAt,
                expiresAt |-> offers'[i].expiresAt, value |-> v]

\* Mutant: the mapping is stored under the key of the value.
MappedUnderValueKey(i, p) == KeyObject[i][p]

\* Mutant: the property the mapping is stored under does not tell offers apart.
MappedUnderShared(i, p) == CHOOSE j \in Ids : TRUE

\* setMapped stores the mapping under its own lookup property.
MappedUnder(i, p) == KeyObject[i].correlationId

\* setMapped(KeyObject[i][p], KeyObject[i], i): its first half.  The caller made
\* the objects of the offer when it first stored them.
SetMappedKey(i, p) ==
    /\ Cardinality(calls) < MaxCalls
    /\ KeyObject[i][p] # NONE /\ p # "correlationId"
    /\ \/ offers[i] # NONE /\ UNCHANGED offers
       \/ /\ offers[i] = NONE
          /\ \E t \in Expiries[i] :
                offers' = [offers EXCEPT ![i] = [createdAt |-> now, expiresAt |-> t]]
    /\ Mapper!Set(MappedUnder(i, p), Entry(i, KeyObject[i]))
    /\ calls' = calls \cup {[pc |-> "setValue", id |-> i, key |-> KeyObject[i][p]]}
    /\ UNCHANGED <<mapTimer, mapTicking, valVars, now, deleted, wanted>>

SetMappedValue(c) ==
    /\ c.pc = "setValue"
    /\ UNCHANGED offers
    /\ Sessions!Set(c.key, Entry(c.id, c.id))
    /\ calls' = calls \ {c}
    /\ UNCHANGED <<mapVars, valTimer, valTicking, now, deleted, wanted>>

-----------------------------------------------------------------------------
(* Deleting *)

\* Mutant: a mapping without the key goes on.
DerivedAlways(v) == TRUE

\* assertedValueId throws when no key could be derived.
Derived(v) == v # NONE

\* delete(id) of a manager with lookup property p, up to its first await
DeleteRead(i, p) ==
    /\ Cardinality(calls) < MaxCalls
    /\ Derived(ValueId(p, i))
    /\ calls' = calls \cup {[pc |-> "deleteKey", id |-> i, key |-> ValueId(p, i)]}
    /\ deleted' = deleted \cup {i}
    /\ UNCHANGED <<mapVars, valVars, now, offers, wanted>>

DeleteKey(c) ==
    /\ c.pc = "deleteKey"
    /\ Mapper!Delete(c.id)
    /\ calls' = (calls \ {c}) \cup {[c EXCEPT !.pc = "deleteValue"]}
    /\ UNCHANGED <<mapTimer, mapTicking, valVars, now, offers, deleted, wanted>>

DeleteValue(c) ==
    /\ c.pc = "deleteValue"
    /\ Sessions!Delete(c.key)
    /\ calls' = calls \ {c}
    /\ UNCHANGED <<mapVars, valTimer, valTicking, now, offers, deleted, wanted>>

\* An external manager rejects the next step of a call: what is done stays done.
CallRejected(c) ==
    /\ calls' = calls \ {c}
    /\ UNCHANGED <<mapVars, valVars, now, offers, deleted, wanted>>

-----------------------------------------------------------------------------
(* Both managers at once; nothing is awaited in between *)

ClearBoth ==
    /\ Mapper!ClearAll /\ Sessions!ClearAll
    /\ deleted' = deleted \cup {c.id : c \in calls}
    /\ UNCHANGED <<mapTimer, mapTicking, valTimer, valTicking, calls, now, offers, wanted>>

\* clearExpired(timestamp), of a time that may be still to come
ClearExpiredBoth(ts) ==
    /\ Mapper!ClearExpired(ts) /\ Sessions!ClearExpired(ts)
    /\ deleted' = IF ts <= now THEN deleted ELSE deleted \cup {c.id : c \in calls}
    /\ UNCHANGED <<mapTimer, mapTicking, valTimer, valTicking, calls, now, offers, wanted>>

\* Mutant: the mapper's routine is not started.
StartValuesOnly ==
    /\ Sessions!StartCleanupRoutine
    /\ wanted' = IF wanted = "off" THEN "on" ELSE wanted
    /\ UNCHANGED <<mapVars, valStates, calls, now, offers, deleted>>

StartRoutines ==
    /\ Mapper!StartCleanupRoutine /\ Sessions!StartCleanupRoutine
    /\ wanted' = IF wanted = "off" THEN "on" ELSE wanted
    /\ UNCHANGED <<mapStates, valStates, calls, now, offers, deleted>>

StopRoutines ==
    /\ Mapper!StopCleanupRoutine /\ Sessions!StopCleanupRoutine
    /\ wanted' = "stopped"
    /\ UNCHANGED <<mapStates, valStates, calls, now, offers, deleted>>

\* The interval of a manager comes round.
MapperCleanup ==
    /\ mapTicking
    /\ Mapper!ClearExpired(now)
    /\ UNCHANGED <<mapTimer, mapTicking, valVars, calls, now, offers, deleted, wanted>>

SessionsCleanup ==
    /\ valTicking
    /\ Sessions!ClearExpired(now)
    /\ UNCHANGED <<mapVars, valTimer, valTicking, calls, now, offers, deleted, wanted>>

Tick ==
    /\ now < MaxTime
    /\ now' = now + 1
    /\ UNCHANGED <<mapVars, valVars, calls, offers, deleted, wanted>>

Init ==
    /\ Mapper!Empty /\ Sessions!Empty
    /\ calls = {}
    /\ now = 0
    /\ offers = [i \in Ids |-> NONE]
    /\ deleted = {}
    /\ wanted = "off"

Next ==
    \/ \E i \in Ids, p \in Props : SetMappedKey(i, p) \/ DeleteRead(i, p)
    \/ \E c \in calls : \/ SetMappedValue(c) \/ DeleteKey(c)
                        \/ DeleteValue(c) \/ CallRejected(c)
    \/ ClearBoth
    \/ \E ts \in Time : ClearExpiredBoth(ts)
    \/ StartRoutines \/ StopRoutines
    \/ MapperCleanup \/ SessionsCleanup
    \/ Tick

Spec == Init /\ [][Next]_vars

\* An interval that is alive comes round.
FairSpec == Spec /\ WF_vars(MapperCleanup) /\ WF_vars(SessionsCleanup)

-----------------------------------------------------------------------------
(* Properties *)

\* To those who look offers up by their correlation id, two managers with two
\* lives and calls that interleave and break off are one store by id
\* (lookupStateManagerMultiGet, setMapped, delete).
Lookup == INSTANCE IdStore WITH found <- [i \in Ids |-> MultiGet(i)]
LookupSpec == Lookup!Spec

\* A session that is stored and not expired is found by its correlation id unless
\* a delete was called for that id or the stores were cleared while a setMapped for
\* it was between its two halves: the mapping, stored by another call at
\* another time in another manager, is there as long as any session it leads to.
LiveIsFindable ==
    \A i \in Ids : \A p \in Props \ {"correlationId"} :
        LET k == KeyObject[i][p] IN
        (k # NONE /\ i \notin deleted /\ valStates[k] # NONE
            /\ ~Sessions!Expired(valStates[k], now)) => MultiGet(i) = i

\* Once the cleanup routines are started, and as long as they are not stopped,
\* an expired mapping and an expired session leave the store.
ExpiredMapping(k) == mapStates[k] # NONE /\ Mapper!Expired(mapStates[k], now)
ExpiredSession(k) == valStates[k] # NONE /\ Sessions!Expired(valStates[k], now)
RoutineClears ==
    /\ \A i \in Ids :
          (wanted = "on" /\ ExpiredMapping(i)) ~> (~ExpiredMapping(i) \/ wanted = "stopped")
    /\ \A k \in Codes :
          (wanted = "on" /\ ExpiredSession(k)) ~> (~ExpiredSession(k) \/ wanted = "stopped")
===============================================================================
