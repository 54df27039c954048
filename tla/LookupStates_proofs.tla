-------------------------- MODULE LookupStates_proofs --------------------------
(***************************************************************************)
(* For any number of offers, codes and calls in flight: the two managers   *)
(* keep their types, together they implement IdStore, and a live session   *)
(* is found by its correlation id.                                         *)
(***************************************************************************)
EXTENDS LookupStates, TLAPS

\* k is one of the codes of offer i.
Owns(i, k) == k \in Codes /\ \E p \in Props : KeyObject[i][p] = k

\* Every mapping is the one of the offer it is stored under, and every session
\* is stored under a code of its own offer, both with the times of that offer.
EntriesOwned ==
    /\ \A k \in Keys : mapStates[k] # NONE =>
          /\ k \in Ids /\ offers[k] # NONE
          /\ mapStates[k].value = KeyObject[k]
          /\ mapStates[k].createdAt = offers[k].createdAt
          /\ mapStates[k].expiresAt = offers[k].expiresAt
    /\ \A k \in Keys : valStates[k] # NONE =>
          /\ valStates[k].value \in Ids /\ Owns(valStates[k].value, k)
          /\ offers[valStates[k].value] # NONE
          /\ valStates[k].createdAt = offers[valStates[k].value].createdAt
          /\ valStates[k].expiresAt = offers[valStates[k].value].expiresAt

\* A setMapped in flight goes on to a code of its offer; a delete in flight
\* concerns an offer that counts as deleted, and a key of that offer.
CallsOwned ==
    \A c \in calls :
        /\ c.pc = "setValue" => Owns(c.id, c.key) /\ offers[c.id] # NONE
        /\ c.pc # "setValue" => /\ c.id \in deleted
                                /\ \E p \in Props : KeyObject[c.id][p] = c.key

\* Something of offer i is stored, or about to be.
Kept(i) == \/ \E k \in Keys : valStates[k] # NONE /\ valStates[k].value = i
           \/ \E c \in calls : c.pc = "setValue" /\ c.id = i

\* The mapping of a live offer is there before its sessions and outlasts them.
MappingOutlasts ==
    \A i \in Ids \ deleted :
        Kept(i) /\ ~Mapper!Expired(offers[i], now) => mapStates[i] # NONE

IInv == StatesTypeOK /\ EntriesOwned /\ CallsOwned /\ MappingOutlasts

-----------------------------------------------------------------------------
(* Facts about the constants and the entries *)

LEMMA KeyFacts ==
    /\ Ids \subseteq Keys /\ Codes \subseteq Keys /\ NONE \notin Keys
    /\ \A i \in Ids : KeyObject[i] \in Mapping
    /\ \A i \in Ids, p \in Props : KeyObject[i][p] \in Keys \cup {NONE}
    /\ \A i, j \in Ids : \A k : Owns(i, k) /\ Owns(j, k) => i = j
  BY LookupConstants, KeyObjectAssumption DEF Keys, Mapping, Owns

LEMMA EntryFacts ==
    /\ \A e \in Mapper!Entry \cup {NONE} : e # NONE => e \in Mapper!Entry
    /\ \A e \in Sessions!Entry \cup {NONE} : e # NONE => e \in Sessions!Entry
    /\ \A e, ts : Sessions!Expired(e, ts) = Mapper!Expired(e, ts)
  BY DEF Mapper!Expired, Sessions!Expired

\* What has expired stays expired, and expiry depends on the times alone.
LEMMA ExpiryFacts ==
    /\ \A t \in Times, a, b \in Time :
          a <= b /\ Mapper!Expired(t, a) => Mapper!Expired(t, b)
    /\ \A e, t, ts : e.createdAt = t.createdAt /\ e.expiresAt = t.expiresAt
          => (Mapper!Expired(e, ts) <=> Mapper!Expired(t, ts))
<1>1. ASSUME NEW t \in Times, NEW a \in Time, NEW b \in Time,
             a <= b, Mapper!Expired(t, a)
      PROVE  Mapper!Expired(t, b)
  <2>1. /\ t.createdAt \in Nat /\ t.expiresAt \in Nat \cup {NONE}
        /\ a \in Nat /\ b \in Nat /\ ExpiresIn \in Nat
    BY LookupConstants DEF Times, Time
  <2>2. CASE t.expiresAt \in {NONE, 0}
    BY <1>1, <2>1, <2>2 DEF Mapper!Expired
  <2>3. CASE t.expiresAt \notin {NONE, 0}
    BY <1>1, <2>1, <2>3 DEF Mapper!Expired
  <2> QED BY <2>2, <2>3
<1>2. \A e, t, ts : e.createdAt = t.createdAt /\ e.expiresAt = t.expiresAt
          => (Mapper!Expired(e, ts) <=> Mapper!Expired(t, ts))
  BY DEF Mapper!Expired
<1> QED BY <1>1, <1>2

\* What a lookup by correlation id returns: the offer itself while its mapping
\* is stored and one of its sessions is.
Findable(i) == /\ mapStates[i] # NONE
               /\ \E p \in Props : KeyObject[i][p] # NONE /\ valStates[KeyObject[i][p]] # NONE

LEMMA LookupFinds ==
  ASSUME StatesTypeOK, EntriesOwned, NEW i \in Ids
  PROVE  MultiGet(i) = IF Findable(i) THEN i ELSE NONE
<1>1. /\ mapStates \in [Keys -> Mapper!Entry \cup {NONE}]
      /\ valStates \in [Keys -> Sessions!Entry \cup {NONE}]
      /\ i \in Keys
  BY KeyFacts DEF StatesTypeOK, Mapper!StatesOK, Sessions!StatesOK
<1>2. valStates[i] = NONE
  BY <1>1, KeyFacts, LookupConstants DEF EntriesOwned, Owns
<1>3. \A p \in Props : GetThrough(p, i) = IF /\ mapStates[i] # NONE
                                           /\ KeyObject[i][p] # NONE
                                           /\ valStates[KeyObject[i][p]] # NONE
                                        THEN i ELSE NONE
  <2> SUFFICES ASSUME NEW p \in Props
               PROVE  GetThrough(p, i) = IF /\ mapStates[i] # NONE
                                            /\ KeyObject[i][p] # NONE
                                            /\ valStates[KeyObject[i][p]] # NONE
                                         THEN i ELSE NONE
    OBVIOUS
  <2>1. ValueId(p, i) = IF mapStates[i] # NONE THEN KeyObject[i][p] ELSE NONE
    BY <1>1 DEF ValueId, Mapper!Has, Mapper!Get, EntriesOwned
  <2>2. ASSUME KeyObject[i][p] # NONE, valStates[KeyObject[i][p]] # NONE
        PROVE  valStates[KeyObject[i][p]].value = i
    <3>1. KeyObject[i][p] \in Keys
      BY <2>2, KeyFacts
    <3>2. /\ Owns(valStates[KeyObject[i][p]].value, KeyObject[i][p])
          /\ valStates[KeyObject[i][p]].value \in Ids
      BY <2>2, <3>1 DEF EntriesOwned
    <3>3. Owns(i, KeyObject[i][p])
      BY <3>2 DEF Owns
    <3> QED BY <3>2, <3>3, KeyFacts
  <2> QED BY <2>1, <2>2 DEF GetThrough, Sessions!Get, Sessions!Has
<1>4. {Lookups[n] : n \in 1 .. 3} = Props /\ \A n \in 1 .. 3 : Lookups[n] \in Props
  <2>1. Lookups[1] = "preAuthorizedCode" /\ Lookups[2] = "issuerState"
        /\ Lookups[3] = "correlationId"
    BY DEF Lookups
  <2>2. 1 .. 3 = {1, 2, 3}
    OBVIOUS
  <2> QED BY <2>1, <2>2 DEF Props
<1>5. Sessions!Get(i) = NONE
  BY <1>2 DEF Sessions!Get, Sessions!Has
<1>6. NONE # i
  BY LookupConstants DEF Keys
<1>7. CASE Findable(i)
  <2>1. \E n \in 1 .. 3 : GetThrough(Lookups[n], i) # NONE
    BY <1>3, <1>4, <1>6, <1>7 DEF Findable
  <2>2. PICK f \in 1 .. 3 : /\ GetThrough(Lookups[f], i) # NONE
                            /\ \A m \in 1 .. f - 1 : GetThrough(Lookups[m], i) = NONE
    <3> DEFINE G(n) == GetThrough(Lookups[n], i) # NONE
    <3>0. G(1) \/ G(2) \/ G(3)
      BY <2>1
    <3>1. CASE G(1)
      <4>1. 1 \in 1 .. 3 /\ 1 .. (1 - 1) = {}
        OBVIOUS
      <4> QED BY <3>1, <4>1
    <3>2. CASE ~G(1) /\ G(2)
      <4>1. 2 \in 1 .. 3 /\ 1 .. (2 - 1) = {1}
        OBVIOUS
      <4> QED BY <3>2, <4>1
    <3>3. CASE ~G(1) /\ ~G(2) /\ G(3)
      <4>1. 3 \in 1 .. 3 /\ 1 .. (3 - 1) = {1, 2}
        OBVIOUS
      <4> QED BY <3>3, <4>1
    <3> QED BY <3>0, <3>1, <3>2, <3>3
  <2> DEFINE First == CHOOSE n \in 1 .. 3 :
                         /\ GetThrough(Lookups[n], i) # NONE
                         /\ \A m \in 1 .. n - 1 : GetThrough(Lookups[m], i) = NONE
  <2>3. First \in 1 .. 3 /\ GetThrough(Lookups[First], i) # NONE
    BY <2>2
  <2>4. GetThrough(Lookups[First], i) = i
    BY <2>3, <1>3, <1>4
  <2> QED BY <2>1, <2>4, <1>7 DEF MultiGet
<1>8. CASE ~Findable(i)
  <2>1. \A n \in 1 .. 3 : GetThrough(Lookups[n], i) = NONE
    BY <1>3, <1>4, <1>8 DEF Findable
  <2> QED BY <2>1, <1>5, <1>8 DEF MultiGet
<1> QED BY <1>7, <1>8

-----------------------------------------------------------------------------
(* Steps that only remove entries or end calls *)

Types == /\ mapStates \in [Keys -> Mapper!Entry \cup {NONE}]
         /\ valStates \in [Keys -> Sessions!Entry \cup {NONE}]
         /\ calls \in SUBSET Call /\ now \in Time
         /\ offers \in [Ids -> Times \cup {NONE}]
         /\ deleted \in SUBSET Ids

LEMMA TypesOfState == StatesTypeOK => Types
  BY DEF StatesTypeOK, Types, Mapper!StatesOK, Sessions!StatesOK

Shrinks ==
    /\ mapStates' \in [Keys -> Mapper!Entry \cup {NONE}]
    /\ valStates' \in [Keys -> Sessions!Entry \cup {NONE}]
    /\ \A k \in Keys : mapStates'[k] \in {mapStates[k], NONE}
    /\ \A k \in Keys : valStates'[k] \in {valStates[k], NONE}
    /\ {mapTimer', mapTicking', valTimer', valTicking'} \subseteq BOOLEAN
    /\ calls' \subseteq calls /\ now' \in Time /\ offers' = offers
    /\ deleted \subseteq deleted' /\ deleted' \subseteq Ids
    /\ wanted' \in {"off", "on", "stopped"}

LEMMA ShrinkingKeepsOwners ==
  ASSUME IInv, Shrinks
  PROVE  StatesTypeOK' /\ EntriesOwned' /\ CallsOwned'
<1>1. StatesTypeOK'
  BY DEF IInv, Shrinks, StatesTypeOK, Mapper!StatesOK, Sessions!StatesOK
<1>2. EntriesOwned'
  <2>1. \A k \in Keys : mapStates'[k] # NONE =>
          /\ k \in Ids /\ offers'[k] # NONE
          /\ mapStates'[k].value = KeyObject[k]
          /\ mapStates'[k].createdAt = offers'[k].createdAt
          /\ mapStates'[k].expiresAt = offers'[k].expiresAt
    BY DEF IInv, Shrinks, EntriesOwned
  <2>2. \A k \in Keys : valStates'[k] # NONE =>
          /\ valStates'[k].value \in Ids /\ Owns(valStates'[k].value, k)
          /\ offers'[valStates'[k].value] # NONE
          /\ valStates'[k].createdAt = offers'[valStates'[k].value].createdAt
          /\ valStates'[k].expiresAt = offers'[valStates'[k].value].expiresAt
    BY DEF IInv, Shrinks, EntriesOwned
  <2> QED BY <2>1, <2>2 DEF EntriesOwned
<1>3. CallsOwned'
  BY DEF IInv, Shrinks, CallsOwned
<1> QED BY <1>1, <1>2, <1>3

\* A step that removes nothing of a mapping that has not expired also keeps the
\* mappings of live offers.
LEMMA ShrinkingKeepsMappings ==
  ASSUME IInv, Shrinks, now <= now',
         NEW ts \in Time,
         ts <= now',
         \A k \in Ids \ deleted' : \/ mapStates'[k] = mapStates[k]
                                   \/ Mapper!Expired(mapStates[k], ts)
  PROVE  IInv'
<1>1. StatesTypeOK' /\ EntriesOwned' /\ CallsOwned'
  BY ShrinkingKeepsOwners
<1>2. ASSUME NEW i \in Ids \ deleted', Kept(i)', ~Mapper!Expired(offers[i], now)'
      PROVE  mapStates'[i] # NONE
  <2>1. Kept(i)
    BY <1>2 DEF Kept, Shrinks
  <2>2. i \in Ids \ deleted /\ i \in Keys
    BY KeyFacts DEF Shrinks
  <2>3. offers[i] # NONE /\ offers[i] \in Times /\ now \in Time /\ now' \in Time
    BY <2>1, <2>2, TypesOfState DEF IInv, Types, Kept, EntriesOwned, CallsOwned, Shrinks
  <2>4. ~Mapper!Expired(offers[i], now')
    BY <1>2 DEF Shrinks, Mapper!Expired
  <2>5. ~Mapper!Expired(offers[i], now) /\ ~Mapper!Expired(offers[i], ts)
    BY <2>3, <2>4, ExpiryFacts
  <2>6. mapStates[i] # NONE
    BY <2>1, <2>2, <2>5 DEF IInv, MappingOutlasts
  <2>7. ~Mapper!Expired(mapStates[i], ts)
    BY <2>2, <2>5, <2>6, ExpiryFacts DEF IInv, EntriesOwned
  <2> QED BY <1>2, <2>6, <2>7
<1>3. MappingOutlasts'
  BY <1>2 DEF MappingOutlasts
<1> QED BY <1>1, <1>3 DEF IInv

-----------------------------------------------------------------------------
(* The inductive invariant *)

LEMMA InitGood == Init => IInv
<1> SUFFICES ASSUME Init PROVE IInv
  OBVIOUS
<1>1. StatesTypeOK
  <2>1. Mapper!StatesOK /\ Sessions!StatesOK
    BY DEF Init, Mapper!StatesOK, Sessions!StatesOK, Mapper!Empty, Sessions!Empty
  <2>2. now \in Time
    BY LookupConstants DEF Init, Time
  <2> QED BY <2>1, <2>2 DEF Init, StatesTypeOK
<1>2. EntriesOwned /\ CallsOwned
  BY DEF Init, EntriesOwned, CallsOwned, Mapper!Empty, Sessions!Empty
<1>3. MappingOutlasts
  BY DEF Init, MappingOutlasts, Kept, Sessions!Empty
<1> QED BY <1>1, <1>2, <1>3 DEF IInv

\* The first half of setMapped: the mapping of the offer is there from now on.
LEMMA SetMappedKeyGood ==
  ASSUME IInv, NEW i \in Ids, NEW p \in Props, SetMappedKey(i, p)
  PROVE  IInv'
<1> DEFINE e == Entry(i, KeyObject[i])
           c == [pc |-> "setValue", id |-> i, key |-> KeyObject[i][p]]
<1>1. Types /\ i \in Keys /\ KeyObject[i] \in Mapping
  BY KeyFacts, TypesOfState DEF IInv
<1>2. /\ offers' \in [Ids -> Times \cup {NONE}] /\ offers'[i] \in Times
      /\ \A j \in Ids : offers[j] # NONE => offers'[j] = offers[j]
      /\ \A j \in Ids \ {i} : offers'[j] = offers[j]
  <2>1. CASE offers[i] # NONE /\ UNCHANGED offers
    BY <1>1, <2>1 DEF Types
  <2>2. ASSUME NEW t \in Expiries[i], offers[i] = NONE,
               offers' = [offers EXCEPT ![i] = [createdAt |-> now, expiresAt |-> t]]
        PROVE  <1>2!1 /\ <1>2!2 /\ <1>2!3
    <3>1. t \in Time \cup {NONE}
      BY <2>2, LookupConstants DEF Time
    <3>2. [createdAt |-> now, expiresAt |-> t] \in Times
      BY <1>1, <3>1 DEF Types, Times
    <3> QED BY <1>1, <2>2, <3>2 DEF Types
  <2> QED BY <2>1, <2>2 DEF SetMappedKey
<1>3. e \in Mapper!Entry /\ e # NONE
  <2>1. offers'[i].createdAt \in Time /\ offers'[i].expiresAt \in Time \cup {NONE}
    BY <1>2 DEF Times
  <2>2. Mapper!Time = Time
    BY DEF Mapper!Time, Time
  <2>3. e \in Mapper!Entry
    BY <1>1, <2>1, <2>2 DEF Entry, Mapper!Entry
  <2> QED BY <2>3, LookupNone
<1>4. /\ mapStates' = [mapStates EXCEPT ![i] = e]
      /\ UNCHANGED <<mapTimer, mapTicking, valVars, now, deleted, wanted>>
      /\ calls' = calls \cup {c}
  BY KeyObjectAssumption DEF SetMappedKey, MappedUnder, Mapper!Set
<1>5. c \in Call /\ Owns(i, KeyObject[i][p])
  BY KeyFacts, KeyObjectAssumption DEF SetMappedKey, Call, Owns
<1>6. StatesTypeOK'
  BY <1>1, <1>2, <1>3, <1>4, <1>5
     DEF IInv, StatesTypeOK, Types, valVars, Mapper!StatesOK, Sessions!StatesOK
<1>7. EntriesOwned'
  <2>1. ASSUME NEW k \in Keys, mapStates'[k] # NONE
        PROVE  /\ k \in Ids /\ offers'[k] # NONE
               /\ mapStates'[k].value = KeyObject[k]
               /\ mapStates'[k].createdAt = offers'[k].createdAt
               /\ mapStates'[k].expiresAt = offers'[k].expiresAt
    <3>1. CASE k = i
      BY <3>1, <1>1, <1>2, <1>4, LookupNone DEF Types, Entry
    <3>2. CASE k # i
      BY <3>2, <2>1, <1>1, <1>2, <1>4 DEF Types, IInv, EntriesOwned
    <3> QED BY <3>1, <3>2
  <2>2. \A k \in Keys : valStates'[k] # NONE =>
          /\ valStates'[k].value \in Ids /\ Owns(valStates'[k].value, k)
          /\ offers'[valStates'[k].value] # NONE
          /\ valStates'[k].createdAt = offers'[valStates'[k].value].createdAt
          /\ valStates'[k].expiresAt = offers'[valStates'[k].value].expiresAt
    BY <1>2, <1>4 DEF IInv, EntriesOwned, valVars
  <2> QED BY <2>1, <2>2 DEF EntriesOwned
<1>8. CallsOwned'
  <2>1. \A d \in calls' : d \in calls \/ d = c
    BY <1>4
  <2>2. offers'[i] # NONE
    BY <1>2, LookupNone
  <2>3. \A d \in calls : d.id \in Ids
    BY <1>1 DEF Types, Call
  <2> QED BY <2>1, <2>2, <2>3, <1>2, <1>4, <1>5 DEF IInv, CallsOwned
<1>9. MappingOutlasts'
  <2> SUFFICES ASSUME NEW j \in Ids \ deleted, Kept(j)', ~Mapper!Expired(offers[j], now)'
               PROVE  mapStates'[j] # NONE
    BY <1>4 DEF MappingOutlasts
  <2>1. CASE j = i
    BY <2>1, <1>1, <1>3, <1>4 DEF Types
  <2>2. CASE j # i
    <3>1. Kept(j)
      BY <2>2, <1>4 DEF Kept, valVars
    <3>2. ~Mapper!Expired(offers[j], now)
      BY <2>2, <1>2, <1>4 DEF Mapper!Expired
    <3>3. j \in Keys
      BY KeyFacts
    <3> QED BY <2>2, <3>1, <3>2, <3>3, <1>1, <1>4 DEF IInv, MappingOutlasts, Types
  <2> QED BY <2>1, <2>2
<1> QED BY <1>6, <1>7, <1>8, <1>9 DEF IInv

\* The second half: the session was announced by the call in flight.
LEMMA SetMappedValueGood ==
  ASSUME IInv, NEW c \in calls, SetMappedValue(c)
  PROVE  IInv'
<1> DEFINE e == Entry(c.id, c.id)
<1>1. Types /\ c \in Call /\ Owns(c.id, c.key) /\ offers[c.id] # NONE
      /\ c.id \in Ids /\ c.key \in Keys
  BY TypesOfState DEF IInv, Types, SetMappedValue, CallsOwned, Call
<1>2. /\ valStates' = [valStates EXCEPT ![c.key] = e]
      /\ calls' = calls \ {c} /\ offers' = offers
      /\ UNCHANGED <<mapVars, valTimer, valTicking, now, deleted, wanted>>
  BY DEF SetMappedValue, Sessions!Set
<1>3. e \in Sessions!Entry /\ e # NONE /\ e.value = c.id
      /\ e.createdAt = offers[c.id].createdAt /\ e.expiresAt = offers[c.id].expiresAt
  <2>1. offers[c.id] \in Times
    BY <1>1 DEF Types
  <2>2. Sessions!Time = Time
    BY DEF Sessions!Time, Time
  <2>3. e \in Sessions!Entry
    BY <1>1, <1>2, <2>1, <2>2 DEF Entry, Sessions!Entry, Times
  <2> QED BY <1>2, <2>3, LookupNone DEF Entry
<1>4. StatesTypeOK'
  BY <1>1, <1>2, <1>3
     DEF IInv, StatesTypeOK, Types, mapVars, Mapper!StatesOK, Sessions!StatesOK
<1>5. EntriesOwned'
  <2>1. ASSUME NEW k \in Keys, valStates'[k] # NONE
        PROVE  /\ valStates'[k].value \in Ids /\ Owns(valStates'[k].value, k)
               /\ offers'[valStates'[k].value] # NONE
               /\ valStates'[k].createdAt = offers'[valStates'[k].value].createdAt
               /\ valStates'[k].expiresAt = offers'[valStates'[k].value].expiresAt
    <3>1. CASE k = c.key
      <4>1. valStates'[k] = e
        BY <3>1, <1>1, <1>2 DEF Types
      <4> QED BY <3>1, <4>1, <1>1, <1>2, <1>3
    <3>2. CASE k # c.key
      <4>1. valStates'[k] = valStates[k]
        BY <3>2, <1>1, <1>2 DEF Types
      <4> QED BY <2>1, <4>1, <1>2 DEF IInv, EntriesOwned
    <3> QED BY <3>1, <3>2
  <2>2. \A k \in Keys : mapStates'[k] # NONE =>
          /\ k \in Ids /\ offers'[k] # NONE
          /\ mapStates'[k].value = KeyObject[k]
          /\ mapStates'[k].createdAt = offers'[k].createdAt
          /\ mapStates'[k].expiresAt = offers'[k].expiresAt
    BY <1>2 DEF IInv, EntriesOwned, mapVars
  <2> QED BY <2>1, <2>2 DEF EntriesOwned
<1>6. CallsOwned'
  BY <1>2 DEF IInv, CallsOwned
<1>7. MappingOutlasts'
  <2> SUFFICES ASSUME NEW j \in Ids \ deleted, Kept(j)', ~Mapper!Expired(offers[j], now)'
               PROVE  mapStates'[j] # NONE
    BY <1>2 DEF MappingOutlasts
  <2>1. Kept(j)
    <3>1. CASE j = c.id
      BY <3>1 DEF Kept, SetMappedValue
    <3>2. CASE j # c.id
      <4>1. \A k \in Keys : valStates'[k] # NONE /\ valStates'[k].value = j
                            => valStates[k] # NONE /\ valStates[k].value = j
        <5> SUFFICES ASSUME NEW k \in Keys, valStates'[k] # NONE, valStates'[k].value = j
                     PROVE  valStates[k] # NONE /\ valStates[k].value = j
          OBVIOUS
        <5>1. k # c.key
          BY <3>2, <1>1, <1>2, <1>3 DEF Types
        <5> QED BY <5>1, <1>1, <1>2 DEF Types
      <4> QED BY <4>1, <1>2 DEF Kept
    <3> QED BY <3>1, <3>2
  <2>2. ~Mapper!Expired(offers[j], now)
    BY <1>2 DEF Mapper!Expired
  <2> QED BY <2>1, <2>2, <1>2 DEF IInv, MappingOutlasts, mapVars
<1> QED BY <1>4, <1>5, <1>6, <1>7 DEF IInv

\* delete reads the mapping, which is the one of its offer.
LEMMA DeleteReadGood ==
  ASSUME IInv, NEW i \in Ids, NEW p \in Props, DeleteRead(i, p)
  PROVE  IInv'
<1> DEFINE c == [pc |-> "deleteKey", id |-> i, key |-> ValueId(p, i)]
<1>1. Types /\ i \in Keys
  BY KeyFacts, TypesOfState DEF IInv
<1>2. ValueId(p, i) = KeyObject[i][p] /\ KeyObject[i][p] \in Keys
  BY <1>1, KeyFacts DEF DeleteRead, Derived, ValueId, Mapper!Has, Mapper!Get, IInv, EntriesOwned
<1>3. calls' = calls \cup {c} /\ c \in Call /\ deleted' = deleted \cup {i}
      /\ UNCHANGED <<mapVars, valVars, now, offers, wanted>>
  BY <1>2 DEF DeleteRead, Call
<1>4. StatesTypeOK'
  BY <1>1, <1>3
     DEF IInv, StatesTypeOK, Types, mapVars, valVars, Mapper!StatesOK, Sessions!StatesOK
<1>5. EntriesOwned'
  BY <1>3 DEF IInv, EntriesOwned, mapVars, valVars
<1>6. CallsOwned'
  <2>1. c.pc # "setValue" /\ c.id = i /\ KeyObject[i][p] = c.key
    BY <1>2
  <2> QED BY <2>1, <1>3 DEF IInv, CallsOwned
<1>7. MappingOutlasts'
  <2>1. \A j : Kept(j)' <=> Kept(j)
    BY <1>3 DEF Kept, valVars
  <2> QED BY <2>1, <1>3 DEF IInv, MappingOutlasts, mapVars, Mapper!Expired
<1> QED BY <1>4, <1>5, <1>6, <1>7 DEF IInv

\* delete removes the mapping of an offer that counts as deleted.
LEMMA DeleteKeyGood ==
  ASSUME IInv, NEW c \in calls, DeleteKey(c)
  PROVE  IInv'
<1> DEFINE d == [c EXCEPT !.pc = "deleteValue"]
<1>1. Types /\ c \in Call /\ c.id \in deleted /\ c.id \in Keys
  BY TypesOfState, KeyFacts DEF IInv, Types, DeleteKey, CallsOwned, Call
<1>2. /\ mapStates' = [mapStates EXCEPT ![c.id] = NONE]
      /\ calls' = (calls \ {c}) \cup {d}
      /\ UNCHANGED <<mapTimer, mapTicking, valVars, now, offers, deleted, wanted>>
  BY DEF DeleteKey, Mapper!Delete
<1>3. d \in Call /\ d.pc = "deleteValue" /\ d.id = c.id /\ d.key = c.key
  BY <1>1 DEF Call
<1>4. StatesTypeOK'
  BY <1>1, <1>2, <1>3
     DEF IInv, StatesTypeOK, Types, valVars, Mapper!StatesOK, Sessions!StatesOK
<1>5. EntriesOwned'
  <2>1. \A k \in Keys : mapStates'[k] # NONE => mapStates'[k] = mapStates[k]
    BY <1>1, <1>2 DEF Types
  <2> QED BY <2>1, <1>2 DEF IInv, EntriesOwned, valVars
<1>6. CallsOwned'
  <2>1. \E p \in Props : KeyObject[c.id][p] = c.key
    BY DEF IInv, CallsOwned, DeleteKey
  <2> QED BY <2>1, <1>1, <1>2, <1>3 DEF IInv, CallsOwned
<1>7. MappingOutlasts'
  <2>1. \A j : Kept(j)' => Kept(j)
    BY <1>2, <1>3 DEF Kept, valVars
  <2>2. \A j \in Ids \ deleted : mapStates'[j] = mapStates[j]
    BY <1>1, <1>2, KeyFacts DEF Types
  <2> QED BY <2>1, <2>2, <1>2 DEF IInv, MappingOutlasts, Mapper!Expired
<1> QED BY <1>4, <1>5, <1>6, <1>7 DEF IInv

\* What the actions that only remove have in common.
LEMMA DeleteValueGood ==
  ASSUME IInv, NEW c \in calls, DeleteValue(c)
  PROVE  IInv'
<1>1. Types /\ c.key \in Keys
  BY TypesOfState DEF IInv, Types, Call
<1>2. Shrinks /\ now' = now /\ mapStates' = mapStates
  BY <1>1 DEF Types, DeleteValue, Sessions!Delete, Shrinks, mapVars, IInv, StatesTypeOK,
     Mapper!StatesOK, Sessions!StatesOK
<1>3. now \in Time /\ now <= now
  BY <1>1, LookupConstants DEF Types, Time
<1> QED BY <1>2, <1>3, ShrinkingKeepsMappings

LEMMA QuietStepsGood ==
  ASSUME IInv, \/ \E c \in calls : CallRejected(c)
               \/ StartRoutines \/ StopRoutines \/ Tick
  PROVE  IInv'
<1>1. Types
  BY TypesOfState DEF IInv
<1>2. now' \in Time /\ now \in Time /\ now <= now' /\ now' <= now'
  BY <1>1, LookupConstants DEF Types, Time, CallRejected, StartRoutines, StopRoutines, Tick
<1>3. mapStates' = mapStates /\ valStates' = valStates
  BY DEF CallRejected, StartRoutines, StopRoutines, Tick, mapVars, valVars
<1>4. /\ {mapTimer', mapTicking', valTimer', valTicking'} \subseteq BOOLEAN
      /\ wanted' \in {"off", "on", "stopped"}
  BY DEF IInv, StatesTypeOK, Mapper!StatesOK, Sessions!StatesOK, mapVars, valVars,
     CallRejected, StartRoutines, StopRoutines, Tick,
     Mapper!StartCleanupRoutine, Sessions!StartCleanupRoutine,
     Mapper!StopCleanupRoutine, Sessions!StopCleanupRoutine
<1>5. calls' \subseteq calls /\ offers' = offers /\ deleted' = deleted
  BY DEF CallRejected, StartRoutines, StopRoutines, Tick
<1>6. Shrinks
  BY <1>1, <1>2, <1>3, <1>4, <1>5 DEF Shrinks, Types
<1> QED BY <1>2, <1>3, <1>6, ShrinkingKeepsMappings

LEMMA CleanupsGood ==
  ASSUME IInv, MapperCleanup \/ SessionsCleanup
  PROVE  IInv'
<1>1. Types /\ now' = now /\ now \in Time /\ now <= now
  BY TypesOfState, LookupConstants DEF IInv, Types, Time, MapperCleanup, SessionsCleanup
<1>2. Shrinks
  BY <1>1 DEF Shrinks, Types, IInv, StatesTypeOK, Mapper!StatesOK, Sessions!StatesOK,
     mapVars, valVars, MapperCleanup, SessionsCleanup,
     Mapper!ClearExpired, Sessions!ClearExpired
<1>3. \A k \in Keys : \/ mapStates'[k] = mapStates[k]
                      \/ Mapper!Expired(mapStates[k], now)
  BY <1>1 DEF Types, MapperCleanup, SessionsCleanup, Mapper!ClearExpired, mapVars
<1> QED BY <1>1, <1>2, <1>3, KeyFacts, ShrinkingKeepsMappings

\* Clearing at a time to come removes mappings that have not expired: then every
\* session of such a mapping goes too, and those about to be stored count as
\* deleted.
LEMMA ClearingGood ==
  ASSUME IInv, ClearBoth \/ \E ts \in Time : ClearExpiredBoth(ts)
  PROVE  IInv'
<1>1. Types /\ now' = now /\ now \in Time /\ now <= now
  BY TypesOfState, LookupConstants
     DEF IInv, Types, Time, ClearBoth, ClearExpiredBoth
<1>2. {c.id : c \in calls} \subseteq Ids
  BY <1>1 DEF Types, Call
<1>3. Shrinks /\ calls' = calls
  BY <1>1, <1>2 DEF Shrinks, Types, IInv, StatesTypeOK, Mapper!StatesOK, Sessions!StatesOK,
     ClearBoth, ClearExpiredBoth, Mapper!ClearExpired, Sessions!ClearExpired,
     Mapper!ClearAll, Sessions!ClearAll
<1>4. ASSUME NEW ts \in Time, ClearExpiredBoth(ts), ts <= now
      PROVE  IInv'
  <2>1. \A k \in Keys : \/ mapStates'[k] = mapStates[k]
                        \/ Mapper!Expired(mapStates[k], ts)
    BY <1>4, <1>1 DEF Types, ClearExpiredBoth, Mapper!ClearExpired
  <2> QED BY <1>1, <1>3, <1>4, <2>1, KeyFacts, ShrinkingKeepsMappings
<1>5. ASSUME NEW ts \in Time, ClearExpiredBoth(ts), ~(ts <= now)
      PROVE  IInv'
  <2>1. StatesTypeOK' /\ EntriesOwned' /\ CallsOwned'
    BY <1>3, ShrinkingKeepsOwners
  <2>2. ASSUME NEW i \in Ids \ deleted', Kept(i)', ~Mapper!Expired(offers[i], now)'
        PROVE  mapStates'[i] # NONE
    <3>1. i \in Ids \ deleted /\ i \in Keys /\ ~\E c \in calls : c.id = i
      BY <1>5, KeyFacts DEF ClearExpiredBoth
    <3>2. PICK k \in Keys : valStates'[k] # NONE /\ valStates'[k].value = i
      BY <2>2, <3>1, <1>3 DEF Kept
    <3>3. /\ valStates'[k] = valStates[k] /\ valStates[k] # NONE
          /\ ~Sessions!Expired(valStates[k], ts)
      BY <1>5, <3>2, <1>1 DEF Types, ClearExpiredBoth, Sessions!ClearExpired, Sessions!Has
    <3>4. /\ valStates[k].createdAt = offers[i].createdAt
          /\ valStates[k].expiresAt = offers[i].expiresAt
      BY <3>2, <3>3 DEF IInv, EntriesOwned
    <3>5. ~Mapper!Expired(offers[i], ts)
      BY <3>3, <3>4, EntryFacts, ExpiryFacts
    <3>6. Kept(i)
      BY <3>2, <3>3 DEF Kept
    <3>7. ~Mapper!Expired(offers[i], now)
      BY <2>2, <1>1, <1>3 DEF Shrinks, Mapper!Expired
    <3>8. mapStates[i] # NONE
      BY <3>1, <3>6, <3>7 DEF IInv, MappingOutlasts
    <3>9. ~Mapper!Expired(mapStates[i], ts)
      BY <3>1, <3>5, <3>8, ExpiryFacts DEF IInv, EntriesOwned
    <3> QED BY <1>5, <3>1, <3>8, <3>9, <1>1 DEF Types, ClearExpiredBoth, Mapper!ClearExpired
  <2> QED BY <2>1, <2>2 DEF IInv, MappingOutlasts
<1>6. ASSUME ClearBoth
      PROVE  IInv'
  <2>1. StatesTypeOK' /\ EntriesOwned' /\ CallsOwned'
    BY <1>3, ShrinkingKeepsOwners
  <2>2. ASSUME NEW i \in Ids \ deleted', Kept(i)'
        PROVE  FALSE
    <3>1. ~\E c \in calls : c.id = i
      BY <1>6 DEF ClearBoth
    <3>2. \A k \in Keys : valStates'[k] = NONE
      BY <1>6 DEF ClearBoth, Sessions!ClearAll
    <3> QED BY <2>2, <3>1, <3>2, <1>3 DEF Kept
  <2> QED BY <2>1, <2>2 DEF IInv, MappingOutlasts
<1> QED BY <1>4, <1>5, <1>6

LEMMA StepGood == IInv /\ [Next]_vars => IInv'
<1> SUFFICES ASSUME IInv, [Next]_vars PROVE IInv'
  OBVIOUS
<1>1. CASE \E i \in Ids, p \in Props : SetMappedKey(i, p) \/ DeleteRead(i, p)
  BY <1>1, SetMappedKeyGood, DeleteReadGood
<1>2. CASE \E c \in calls : SetMappedValue(c) \/ DeleteKey(c) \/ DeleteValue(c)
  BY <1>2, SetMappedValueGood, DeleteKeyGood, DeleteValueGood
<1>3. CASE \/ \E c \in calls : CallRejected(c)
           \/ StartRoutines \/ StopRoutines \/ Tick
  BY <1>3, QuietStepsGood
<1>4. CASE MapperCleanup \/ SessionsCleanup
  BY <1>4, CleanupsGood
<1>5. CASE ClearBoth \/ \E ts \in Time : ClearExpiredBoth(ts)
  BY <1>5, ClearingGood
<1>6. CASE UNCHANGED vars
  BY <1>6 DEF vars, mapVars, valVars, IInv, StatesTypeOK, Mapper!StatesOK, Sessions!StatesOK,
     EntriesOwned, CallsOwned, MappingOutlasts, Kept, Mapper!Expired
<1> QED BY <1>1, <1>2, <1>3, <1>4, <1>5, <1>6 DEF Next

LEMMA Inductive == Spec => []IInv
  BY InitGood, StepGood, PTL DEF Spec

\* The two managers and the calls in flight keep their types (MemoryStates).
THEOREM StatesTypeCorrect == Spec => []StatesTypeOK
<1>1. IInv => StatesTypeOK
  BY DEF IInv
<1> QED BY <1>1, Inductive, PTL

\* A live session is found by its correlation id (lookupStateManagerMultiGet)
\* whatever the other offers, calls and cleanups do.
THEOREM LiveSessionsFindable == Spec => []LiveIsFindable
<1>1. IInv => LiveIsFindable
  <2> SUFFICES ASSUME IInv, NEW i \in Ids, NEW p \in Props \ {"correlationId"},
                      KeyObject[i][p] # NONE, i \notin deleted,
                      valStates[KeyObject[i][p]] # NONE,
                      ~Sessions!Expired(valStates[KeyObject[i][p]], now)
               PROVE  MultiGet(i) = i
    BY DEF LiveIsFindable
  <2> DEFINE k == KeyObject[i][p]
  <2>1. k \in Keys /\ i \in Keys
    BY KeyFacts
  <2>2. valStates[k].value \in Ids /\ Owns(valStates[k].value, k)
    BY <2>1 DEF IInv, EntriesOwned
  <2>3. Owns(i, k)
    BY <2>2 DEF Owns
  <2>4. valStates[k].value = i
    BY <2>2, <2>3, KeyFacts
  <2>5. Kept(i)
    BY <2>1, <2>4 DEF Kept
  <2>6. ~Mapper!Expired(offers[i], now)
    BY <2>1, <2>4, EntryFacts, ExpiryFacts DEF IInv, EntriesOwned
  <2>7. mapStates[i] # NONE
    BY <2>5, <2>6 DEF IInv, MappingOutlasts
  <2>8. Findable(i)
    BY <2>7 DEF Findable
  <2> QED BY <2>8, LookupFinds DEF IInv
<1> QED BY <1>1, Inductive, PTL

-----------------------------------------------------------------------------
(* The refinement *)

Found == [i \in Ids |-> MultiGet(i)]

FoundOK == Found = [i \in Ids |-> IF Findable(i) THEN i ELSE NONE]

LEMMA FoundIsOwn == IInv => FoundOK
  BY LookupFinds DEF IInv, Found, FoundOK

LEMMA FoundIsOwnNext ==
  ASSUME IInv'
  PROVE  Found' = [i \in Ids |-> IF Findable(i)' THEN i ELSE NONE]
<1>1. FoundOK'
  BY FoundIsOwn, PTL
<1> QED BY <1>1 DEF FoundOK

\* A step that changes at most one offer's entries is a call on that offer.
LEMMA CallRefines ==
  ASSUME IInv, IInv', NEW i \in Ids,
         \A j \in Ids \ {i} : Findable(j)' <=> Findable(j)
  PROVE  \E v \in {i, NONE} : Found' = [Found EXCEPT ![i] = v]
<1> DEFINE v == IF Findable(i)' THEN i ELSE NONE
<1>1. v \in {i, NONE}
  OBVIOUS
<1>2. Found' = [Found EXCEPT ![i] = v]
  BY FoundIsOwn, FoundIsOwnNext DEF FoundOK
<1> QED BY <1>1, <1>2

\* A step that makes nothing findable is a step of the store itself.
LEMMA ForgetRefines ==
  ASSUME IInv, IInv', \A j \in Ids : Findable(j)' => Findable(j)
  PROVE  \E S \in SUBSET Ids : Found' = [i \in Ids |-> IF i \in S THEN NONE ELSE Found[i]]
<1> DEFINE S == {j \in Ids : ~Findable(j)'}
<1>1. S \in SUBSET Ids
  OBVIOUS
<1>2. Found' = [i \in Ids |-> IF i \in S THEN NONE ELSE Found[i]]
  BY FoundIsOwn, FoundIsOwnNext DEF FoundOK
<1> QED BY <1>1, <1>2

LEMMA StepRefines ==
  ASSUME IInv, IInv', [Next]_vars
  PROVE  \/ \E S \in SUBSET Ids : Found' = [i \in Ids |-> IF i \in S THEN NONE ELSE Found[i]]
         \/ \E i \in Ids : \E v \in {i, NONE} : Found' = [Found EXCEPT ![i] = v]
<1>1. Types
  BY TypesOfState DEF IInv
<1>2. ASSUME NEW i \in Ids, NEW p \in Props, SetMappedKey(i, p)
      PROVE  \A j \in Ids \ {i} : Findable(j)' <=> Findable(j)
  BY <1>1, <1>2, KeyFacts, KeyObjectAssumption
     DEF Types, Findable, SetMappedKey, MappedUnder, Mapper!Set, valVars
<1>3. ASSUME NEW c \in calls, SetMappedValue(c)
      PROVE  c.id \in Ids /\ \A j \in Ids \ {c.id} : Findable(j)' <=> Findable(j)
  <2>1. c.id \in Ids /\ Owns(c.id, c.key) /\ c.key \in Keys
    BY <1>1, <1>3 DEF Types, Call, IInv, CallsOwned, SetMappedValue
  <2>2. \A j \in Ids \ {c.id}, p \in Props : KeyObject[j][p] # c.key
    BY <2>1, KeyFacts DEF Owns
  <2> QED BY <1>1, <1>3, <2>1, <2>2, KeyFacts
          DEF Types, Findable, SetMappedValue, Sessions!Set, mapVars
<1>4. ASSUME \A k \in Keys : /\ mapStates'[k] \in {mapStates[k], NONE}
                             /\ valStates'[k] \in {valStates[k], NONE}
      PROVE  \A j \in Ids : Findable(j)' => Findable(j)
  BY <1>4, KeyFacts DEF Findable
<1>5. CASE \E i \in Ids, p \in Props : SetMappedKey(i, p)
  BY <1>5, <1>2, CallRefines
<1>6. CASE \E c \in calls : SetMappedValue(c)
  BY <1>6, <1>3, CallRefines
<1>7. CASE \/ \E i \in Ids, p \in Props : DeleteRead(i, p)
           \/ \E c \in calls : DeleteKey(c) \/ DeleteValue(c) \/ CallRejected(c)
  <2>1. \A k \in Keys : /\ mapStates'[k] \in {mapStates[k], NONE}
                        /\ valStates'[k] \in {valStates[k], NONE}
    BY <1>1, <1>7 DEF Types, DeleteRead, DeleteKey, DeleteValue, CallRejected,
       Mapper!Delete, Sessions!Delete, mapVars, valVars
  <2> QED BY <2>1, <1>4, ForgetRefines
<1>8. CASE \/ ClearBoth \/ \E ts \in Time : ClearExpiredBoth(ts)
           \/ MapperCleanup \/ SessionsCleanup
  <2>1. \A k \in Keys : /\ mapStates'[k] \in {mapStates[k], NONE}
                        /\ valStates'[k] \in {valStates[k], NONE}
    BY <1>1, <1>8 DEF Types, ClearBoth, ClearExpiredBoth, MapperCleanup, SessionsCleanup,
       Mapper!ClearAll, Sessions!ClearAll, Mapper!ClearExpired, Sessions!ClearExpired,
       mapVars, valVars
  <2> QED BY <2>1, <1>4, ForgetRefines
<1>9. CASE StartRoutines \/ StopRoutines \/ Tick \/ UNCHANGED vars
  <2>1. \A k \in Keys : /\ mapStates'[k] \in {mapStates[k], NONE}
                        /\ valStates'[k] \in {valStates[k], NONE}
    BY <1>9 DEF StartRoutines, StopRoutines, Tick, vars, mapVars, valVars
  <2> QED BY <2>1, <1>4, ForgetRefines
<1> QED BY <1>5, <1>6, <1>7, <1>8, <1>9 DEF Next

\* LookupStateManager over two expiring managers, with calls that interleave and
\* break off, implements the store by id.
THEOREM LookupImplementsIdStore == Spec => LookupSpec
<1>1. Init => Lookup!Init
  <2> SUFFICES ASSUME Init PROVE Lookup!Init
    OBVIOUS
  <2>1. \A i \in Ids : ~Findable(i)
    BY KeyFacts DEF Init, Mapper!Empty, Findable
  <2>2. Found = [i \in Ids |-> NONE]
    BY <2>1, InitGood, FoundIsOwn DEF FoundOK
  <2> QED BY <2>2 DEF Lookup!Init, Found
<1>2. IInv /\ IInv' /\ [Next]_vars => [Lookup!Next]_Found
  BY StepRefines DEF Lookup!Next, Lookup!Call, Lookup!Forget, Found
<1> QED BY <1>1, <1>2, Inductive, PTL DEF Spec, LookupSpec, Lookup!Spec, Found
===============================================================================
