------------------------- MODULE OfferExchange_proofs -------------------------
(***************************************************************************)
(* Theorems about offers on their way from the issuer to wallets, for any  *)
(* configurations, clients, offers, wallets and requests, and over any     *)
(* number of hand-overs.                                                   *)
(***************************************************************************)
EXTENDS OfferExchange, TLAPS

ExchangeTypes ==
    /\ grants \in GrantInput
    /\ sessions \in [Ids -> Session \cup {NONE}]
    /\ DOMAIN read = Wallets

\* The PIN of a session is the one its offer announces, and a session nobody has
\* redeemed was not deleted either.
SessionsSound ==
    \A i \in Ids : sessions[i] # NONE =>
        /\ sessions[i].txCode = sessions[i].offer.tx
        /\ sessions[i].status = "OFFER_CREATED" => i \notin gone

\* An id of an offer that has been shown is not used for another one.
Taken(i) == i \in Ids /\ (sessions[i] # NONE \/ i \in gone)

\* What is read off a URI: the offer of its session, or nothing of it.
OfferRead(s, o) == o = IF s.byProperty THEN Garbled ELSE sessions[s.id].offer

\* A URI refers to its session, holds the offer of the session or garbles it.
SentSound ==
    \A s \in sent :
        /\ Taken(s.id)
        /\ s.uri.param = "credential_offer_uri" =>
               s.uri.ref \in {s.id, "none"} /\ ~s.byProperty
        /\ s.uri.param # "credential_offer_uri" /\ sessions[s.id] # NONE =>
               OfferRead(s, s.uri.offer)

\* What a client reads off an offer.
ReadOff(got) ==
    /\ got.preAuthorizedCode = got.offer.pre
    /\ got.issuerState = got.offer.state
    /\ got.clientId = ClientFromOffer(got.offer)
    /\ got.txCode = got.offer.tx
    /\ got.userPinRequired <=> got.offer.tx # NONE
    /\ got.supportedFlows = FlowTypes(got.offer)

ReadSound ==
    \A w \in Wallets : read[w] # NONE =>
        /\ Taken(read[w].id)
        /\ ReadOff(read[w].got)
        /\ sessions[read[w].id] # NONE => OfferRead(read[w], read[w].got.offer)

ExchangeInv == ExchangeTypes /\ SessionsSound /\ SentSound /\ ReadSound

-----------------------------------------------------------------------------
(* Building and reading an offer *)

\* The fields of an accepted request.
LEMMA RequestTypes ==
  ASSUME NEW r \in Requests
  PROVE  /\ r.ids \in (SUBSET Configs) \cup {NONE} /\ r.client \in Clients \cup {NONE}
         /\ r.pinLength \in {NONE, 5, 6}
BY RequestsAssumption

\* Settling the PIN length keeps the grants object one the caller could have written.
LEMMA PinLengthType ==
  ASSUME NEW g \in GrantInput, NEW n \in {NONE, 5, 6}
  PROVE  PinLengthInto(g, n) \in GrantInput
<1> DEFINE tx == IF n # NONE /\ g.pre # NONE /\ g.tx \in {NONE, 0} THEN n ELSE g.tx
           set == IF tx = 0 THEN 4 ELSE tx
<1>1. set \in TxCodes
  BY DEF GrantInput, TxCodes
<1>2. PinLengthInto(g, n) = [g EXCEPT !.tx = set]
  BY DEF PinLengthInto
<1> HIDE DEF set
<1> QED
  BY <1>1, <1>2 DEF GrantInput

\* What createCredentialOfferObject makes is an offer.
LEMMA OfferType ==
  ASSUME NEW g \in GrantInput, NEW ids \in SUBSET Configs, NEW client \in Clients \cup {NONE}
  PROVE  CreateOfferObject(g, ids, client) \in Offer
<1> DEFINE o == CreateOfferObject(g, ids, client)
           present == g.pre # NONE \/ g.auth # NONE
           configs == IF ids = NONE THEN Configs ELSE ids
           tx == IF g.pre = NONE THEN NONE ELSE IF g.tx = 0 THEN 4 ELSE g.tx
<1>1. o = [configs |-> configs, grants |-> present, pre |-> g.pre, tx |-> tx,
           state |-> g.auth, client |-> client]
  BY DEF CreateOfferObject, CreateGrants
<1>2. /\ configs \in SUBSET Configs /\ present \in BOOLEAN /\ g.pre \in {NONE} \cup Origins
      /\ tx \in TxCodes /\ g.auth \in {NONE} \cup StateKinds
  BY DEF GrantInput, TxCodes
<1> HIDE DEF o, present, configs, tx
<1>3. o \in Offer
  BY <1>1, <1>2 DEF Offer
<1> QED
  BY <1>3 DEF o

\* Every client reads the same terms off an offer, whatever the URI.
LEMMA ReadsTheTerms ==
  ASSUME NEW uri, NEW o
  PROVE  ReadOff(FromURI(uri, o)) /\ FromURI(uri, o).offer = o
<1> DEFINE base == BaseResponse(uri, UniformRequest(o, VersionFromURI(uri)))
           pin == UserPinRequired(o)
<1>1. /\ base.offer = o /\ base.preAuthorizedCode = o.pre /\ base.issuerState = o.state
      /\ base.clientId = ClientFromOffer(o) /\ base.txCode = o.tx
      /\ base.supportedFlows = FlowTypes(o) /\ "userPinRequired" \in DOMAIN base
      /\ {"offer", "preAuthorizedCode", "issuerState", "clientId", "txCode",
          "supportedFlows"} \subseteq DOMAIN base
  BY DEF BaseResponse, UniformRequest
<1>2. pin <=> o.tx # NONE
  BY DEF UserPinRequired
<1>3. FromURI(uri, o) = [base EXCEPT !.userPinRequired = pin]
  BY DEF FromURI
<1> HIDE DEF base, pin
<1>4. /\ FromURI(uri, o).offer = o /\ FromURI(uri, o).preAuthorizedCode = o.pre
      /\ FromURI(uri, o).issuerState = o.state /\ FromURI(uri, o).clientId = ClientFromOffer(o)
      /\ FromURI(uri, o).txCode = o.tx /\ FromURI(uri, o).supportedFlows = FlowTypes(o)
      /\ FromURI(uri, o).userPinRequired = pin
  BY <1>1, <1>3
<1> QED
  BY <1>2, <1>4 DEF ReadOff

\* A reference is answered with the offer of its own session, while nobody has
\* redeemed it.
LEMMA OfferAtItsSession ==
  ASSUME ExchangeInv, NEW s \in sent, OfferAt(s.uri) # NONE
  PROVE  /\ sessions[s.id] # NONE => OfferRead(s, OfferAt(s.uri))
         /\ s.uri.param = "credential_offer_uri" => s.id \notin gone
<1>1. CASE s.uri.param = "credential_offer_uri"
  <2>1. s.uri.ref = s.id /\ s.id \in Ids /\ ~s.byProperty
    BY <1>1, SessionsAssumption DEF OfferAt, ReferenceAnswer, ExchangeInv, SentSound, Taken
  <2> QED
    BY <1>1, <2>1 DEF OfferAt, OfferRead, ReferenceAnswer, ExchangeInv, SessionsSound
<1>2. CASE s.uri.param # "credential_offer_uri"
  BY <1>2 DEF OfferAt, ExchangeInv, SentSound
<1> QED
  BY <1>1, <1>2

-----------------------------------------------------------------------------
(* The invariant: the start, and one lemma per action *)

LEMMA ExchangeInit == Init => ExchangeInv
  BY DEF Init, ExchangeInv, ExchangeTypes, SessionsSound, SentSound, ReadSound

LEMMA CreateOfferKeeps ==
  ASSUME ExchangeInv, NEW i \in Ids, NEW r \in Requests, CreateOffer(i, r)
  PROVE  ExchangeInv' /\ UNCHANGED <<read, gone>>
<1> DEFINE g == PinLengthInto(grants, r.pinLength)
           o == CreateOfferObject(g, r.ids, r.client)
           new == [offer |-> o, txCode |-> PinDigits(o), status |-> "OFFER_CREATED"]
           uri == OfferURI(o, r.mode, r.scheme, r.base, ReferenceUri(i))
<1>1. /\ sessions[i] = NONE /\ i \notin gone /\ Accepted(r)
      /\ grants' = g /\ sessions' = [sessions EXCEPT ![i] = new]
      /\ sent' = sent \cup {[id |-> i, byProperty |-> FALSE, uri |-> uri]}
      /\ UNCHANGED <<hasIdPath, read, gone>>
  BY DEF CreateOffer
<1>2. g \in GrantInput /\ o \in Offer
  BY <1>1, RequestTypes, PinLengthType, OfferType DEF ExchangeInv, ExchangeTypes, Accepted
<1>3. uri.param = "credential_offer_uri" => uri.ref \in {i, "none"}
  BY DEF OfferURI, ReferenceUri
<1>4. uri.param # "credential_offer_uri" => uri.offer = o
  BY DEF OfferURI
<1> HIDE DEF g, o, uri
<1>5. new \in Session /\ new # NONE /\ new.txCode = new.offer.tx /\ new.offer = o
  <2>1. o.tx \in TxCodes
    BY <1>2 DEF Offer
  <2> QED
    BY <1>2, <2>1, SessionsAssumption DEF Session, PinDigits
<1> HIDE DEF new
<1>6. ExchangeTypes'
  BY <1>1, <1>2, <1>5 DEF ExchangeInv, ExchangeTypes
<1>7. sessions'[i] = new /\ \A j \in Ids \ {i} : sessions'[j] = sessions[j]
  BY <1>1 DEF ExchangeInv, ExchangeTypes
<1>8. SessionsSound'
  BY <1>1, <1>5, <1>7 DEF ExchangeInv, SessionsSound
<1>9. \A j : Taken(j) => Taken(j)' /\ j # i /\ sessions'[j] = sessions[j]
  BY <1>1, <1>7 DEF Taken
<1>10. SentSound'
  <2>1. \A s \in sent : /\ Taken(s.id)'
                        /\ s.uri.param = "credential_offer_uri" =>
                               s.uri.ref \in {s.id, "none"} /\ ~s.byProperty
                        /\ s.uri.param # "credential_offer_uri" /\ sessions'[s.id] # NONE =>
                               OfferRead(s, s.uri.offer)'
    BY <1>9 DEF ExchangeInv, SentSound, OfferRead
  <2>2. Taken(i)'
    BY <1>5, <1>7 DEF Taken
  <2> QED
    BY <1>1, <1>3, <1>4, <1>5, <1>7, <2>1, <2>2 DEF SentSound, OfferRead
<1>11. ReadSound'
  BY <1>1, <1>9 DEF ExchangeInv, ReadSound, OfferRead
<1> QED
  BY <1>1, <1>6, <1>8, <1>10, <1>11 DEF ExchangeInv

LEMMA RefuseOfferKeeps ==
  ASSUME ExchangeInv, NEW r \in Requests, RefuseOffer(r)
  PROVE  ExchangeInv' /\ UNCHANGED <<read, gone>>
<1>1. grants' \in GrantInput
  BY RequestTypes, PinLengthType DEF RefuseOffer, ExchangeInv, ExchangeTypes
<1> QED
  BY <1>1 DEF RefuseOffer, ExchangeInv, ExchangeTypes, SessionsSound, SentSound, ReadSound, Taken,
              OfferRead

\* Reading also says when an offer may still be had by reference.
LEMMA ReadURIKeeps ==
  ASSUME ExchangeInv, NEW w \in Wallets, NEW s \in sent, ReadURI(w, s)
  PROVE  /\ ExchangeInv'
         /\ \A v \in Wallets : read'[v] # read[v] /\ read'[v].by = "credential_offer_uri"
              => read'[v].id \notin gone
<1> DEFINE entry(got) == [id |-> s.id, byProperty |-> s.byProperty, by |-> s.uri.param,
                          got |-> got]
<1>1. PICK got : /\ read' = [read EXCEPT ![w] = entry(got)]
                 /\ got = FromURI(s.uri, OfferAt(s.uri))
  BY DEF ReadURI, FromURIV1, FromURIAnyVersion
<1>2. OfferAt(s.uri) # NONE /\ UNCHANGED <<grants, hasIdPath, sessions, sent, gone>>
  BY DEF ReadURI
<1>3. ReadOff(got) /\ got.offer = OfferAt(s.uri)
  BY <1>1, ReadsTheTerms
<1>4. /\ Taken(s.id)
      /\ sessions[s.id] # NONE => OfferRead(s, got.offer)
      /\ s.uri.param = "credential_offer_uri" => s.id \notin gone
  BY <1>2, <1>3, OfferAtItsSession DEF ExchangeInv, SentSound
<1>5. /\ DOMAIN read' = Wallets /\ \A v \in Wallets \ {w} : read'[v] = read[v]
      /\ read'[w] = entry(got)
  BY <1>1 DEF ExchangeInv, ExchangeTypes
<1>6. ReadSound'
  BY <1>2, <1>3, <1>4, <1>5 DEF ExchangeInv, ReadSound, Taken, OfferRead
<1>7. ExchangeInv'
  BY <1>2, <1>5, <1>6 DEF ExchangeInv, ExchangeTypes, SessionsSound, SentSound, Taken, OfferRead
<1> QED
  BY <1>4, <1>5, <1>7

\* What is handed on is the offer that was read, or nothing of it; what was
\* garbled is not handed on.
LEMMA HandOnKeeps ==
  ASSUME ExchangeInv, NEW w \in Wallets, HandOn(w)
  PROVE  ExchangeInv' /\ UNCHANGED <<read, gone>>
<1> DEFINE entry(made) == [id |-> read[w].id, byProperty |-> made.byProperty, uri |-> made.uri]
<1>1. PICK made \in HandedOn(read[w].got) : sent' = sent \cup {entry(made)}
  BY DEF HandOn
<1>2. /\ read[w] # NONE /\ read[w].got.offer # Garbled
      /\ UNCHANGED <<grants, hasIdPath, sessions, read, gone>>
  BY DEF HandOn, Encodable
<1>3. /\ made.uri.param = "credential_offer"
      /\ made.byProperty => made.uri.offer = Garbled
      /\ ~made.byProperty => made.uri.offer = read[w].got.offer
  BY <1>1 DEF HandedOn, ToURI, ToURIV1, ToURIAnyVersion
<1>4. /\ Taken(read[w].id)
      /\ sessions[read[w].id] # NONE => read[w].got.offer = sessions[read[w].id].offer
  BY <1>2 DEF ExchangeInv, ReadSound, OfferRead
<1>5. /\ Taken(entry(made).id)
      /\ sessions[entry(made).id] # NONE => OfferRead(entry(made), entry(made).uri.offer)
  BY <1>3, <1>4 DEF OfferRead
<1>6. SentSound'
  BY <1>1, <1>2, <1>3, <1>5 DEF ExchangeInv, SentSound, Taken, OfferRead
<1> QED
  BY <1>2, <1>6 DEF ExchangeInv, ExchangeTypes, SessionsSound, ReadSound, Taken, OfferRead

\* A session that is gone stays under its id or leaves it for good.
LEMMA GoneKeeps ==
  ASSUME ExchangeInv, NEW i \in Ids, Redeem(i) \/ DeleteOffer(i)
  PROVE  ExchangeInv' /\ UNCHANGED read
<1>1. /\ sessions[i] # NONE /\ gone' = gone \cup {i} /\ sessions[i] \in Session
      /\ UNCHANGED <<grants, hasIdPath, sent, read>>
  BY DEF Redeem, DeleteOffer, ExchangeInv, ExchangeTypes
<1>2. /\ sessions' \in [Ids -> Session \cup {NONE}]
      /\ \A j \in Ids \ {i} : sessions'[j] = sessions[j]
      /\ sessions'[i] # NONE => /\ sessions'[i].offer = sessions[i].offer
                                /\ sessions'[i].txCode = sessions[i].txCode
                                /\ sessions'[i].status = "REDEEMED"
  <2>1. CASE Redeem(i)
    <3> DEFINE redeemed == [sessions[i] EXCEPT !.status = "REDEEMED"]
    <3>1. /\ redeemed \in Session /\ redeemed.offer = sessions[i].offer
          /\ redeemed.txCode = sessions[i].txCode /\ redeemed.status = "REDEEMED"
      BY <1>1 DEF Session
    <3>2. sessions' = [sessions EXCEPT ![i] = redeemed]
      BY <2>1 DEF Redeem
    <3> HIDE DEF redeemed
    <3> QED
      BY <3>1, <3>2 DEF ExchangeInv, ExchangeTypes
  <2>2. CASE DeleteOffer(i)
    BY <2>2 DEF DeleteOffer, ExchangeInv, ExchangeTypes
  <2> QED
    BY <2>1, <2>2
<1>3. \A j \in Ids : sessions'[j] # NONE => sessions[j] # NONE /\ sessions'[j].offer = sessions[j].offer
  BY <1>1, <1>2
<1>4. \A j : Taken(j) => Taken(j)'
  BY <1>1, <1>2 DEF Taken
<1>5. SessionsSound'
  BY <1>1, <1>2 DEF ExchangeInv, SessionsSound
<1>6. SentSound' /\ ReadSound'
  BY <1>1, <1>3, <1>4 DEF ExchangeInv, SentSound, ReadSound, Taken, OfferRead
<1> QED
  BY <1>1, <1>2, <1>5, <1>6 DEF ExchangeInv, ExchangeTypes

LEMMA ExchangeNext ==
  ASSUME ExchangeInv, [Next]_vars
  PROVE  /\ ExchangeInv'
         /\ \A w \in Wallets : read'[w] # read[w] /\ read'[w].by = "credential_offer_uri"
              => read'[w].id \notin gone
<1>1. CASE UNCHANGED vars
  BY <1>1 DEF vars, ExchangeInv, ExchangeTypes, SessionsSound, SentSound, ReadSound, Taken,
              OfferRead
<1>2. CASE Next
  BY <1>2, CreateOfferKeeps, RefuseOfferKeeps, ReadURIKeeps, HandOnKeeps, GoneKeeps DEF Next
<1> QED
  BY <1>1, <1>2

LEMMA ExchangeInvariant == Spec => []ExchangeInv
  BY ExchangeInit, ExchangeNext, PTL DEF Spec

-----------------------------------------------------------------------------
(* Theorems *)

\* Nobody goes on with an offer that was garbled on its way.
LEMMA GarbledLeadsNowhere == FlowTypes(Garbled) = {} /\ ClientFromOffer(Garbled) = NONE
<1>1. StateFromOffer(Garbled) # "jwt"
  BY OfferConstants DEF Garbled, StateFromOffer, StateKinds
<1> QED
  BY <1>1 DEF FlowTypes, Garbled, ClientFromOffer

\* Whatever mode, scheme and base an offer was sent with and however often it
\* was handed on, by whichever client, a wallet acts on the configurations, codes
\* and client the issuer recorded for it, or, when CredentialOfferClient.toURI
\* made the URI, on none.
THEOREM TermsSurvive == Spec => []TermsSurviveTheURI
<1>1. ASSUME ExchangeInv PROVE TermsSurviveTheURI
  <2> SUFFICES ASSUME NEW w \in Wallets, read[w] # NONE, sessions[read[w].id] # NONE
               PROVE  \/ ActsOn(w, sessions[read[w].id].offer)
                      \/ /\ read[w].byProperty
                         /\ Wallet(w).supportedFlows = {} /\ Wallet(w).clientId = NONE
    BY DEF TermsSurviveTheURI
  <2>1. ReadOff(read[w].got) /\ OfferRead(read[w], read[w].got.offer)
    BY <1>1 DEF ExchangeInv, ReadSound
  <2>2. CASE read[w].byProperty
    BY <2>1, <2>2, GarbledLeadsNowhere DEF ReadOff, OfferRead, Wallet
  <2>3. CASE ~read[w].byProperty
    BY <2>1, <2>3 DEF ReadOff, OfferRead, Wallet, ActsOn, ClientFromOffer
  <2> QED
    BY <2>2, <2>3
<1> QED
  BY <1>1, ExchangeInvariant, PTL

\* A wallet that can go on with its offer asks for a PIN exactly when the token
\* endpoint compares one, and for as many digits, although the length is settled
\* in an object that other offers share.
THEOREM PinsAgree == Spec => []PinAgreement
<1>1. ASSUME ExchangeInv PROVE PinAgreement
  <2> SUFFICES ASSUME NEW w \in Wallets, read[w] # NONE, sessions[read[w].id] # NONE,
                      Wallet(w).supportedFlows # {}
               PROVE  /\ Wallet(w).userPinRequired <=> sessions[read[w].id].txCode # NONE
                      /\ Wallet(w).txCode = sessions[read[w].id].txCode
    BY DEF PinAgreement
  <2>1. ReadOff(read[w].got) /\ OfferRead(read[w], read[w].got.offer) /\ Taken(read[w].id)
    BY <1>1 DEF ExchangeInv, ReadSound
  <2>2. read[w].got.offer = sessions[read[w].id].offer
    BY <2>1, GarbledLeadsNowhere DEF ReadOff, OfferRead, Wallet
  <2>3. CASE read[w].id \in Ids
    BY <1>1, <2>1, <2>2, <2>3 DEF ExchangeInv, SessionsSound, ReadOff, Wallet
  <2> QED
    BY <2>1, <2>3 DEF Taken
<1> QED
  BY <1>1, ExchangeInvariant, PTL

\* The reference endpoint gives no offer out again that was redeemed or deleted.
THEOREM NoReplayByReference == Spec => ReferenceNotReplayed
<1>1. ExchangeInv /\ [Next]_vars =>
        [\A w \in Wallets : read'[w] # read[w] /\ read'[w].by = "credential_offer_uri"
           => read'[w].id \notin gone]_vars
  BY ExchangeNext
<1> QED
  BY <1>1, ExchangeInvariant, PTL DEF Spec, ReferenceNotReplayed
=============================================================================
