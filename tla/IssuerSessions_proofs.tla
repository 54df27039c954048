------------------------ MODULE IssuerSessions_proofs -------------------------
(***************************************************************************)
(* Theorems about the issuer's sessions, for any number of offers, codes,  *)
(* nonces and requests.                                                    *)
(***************************************************************************)
EXTENDS IssuerSessions, TLAPS, FiniteSetTheorems

-----------------------------------------------------------------------------
(* Type correctness *)

\* Every reference leads to an object that was created: the stores and the
\* requests in flight hold no dangling one.  TypeOK is not inductive without
\* it, as a status is written through the references.
NoDangling ==
    /\ \A k \in Ids : Get(k) # NONE => heap[Get(k)] # NONE
    /\ \A r \in Requests :
         /\ proc[r].pre # NONE => heap[proc[r].pre] # NONE
         /\ proc[r].auth # NONE => heap[proc[r].auth] # NONE

\* What requests hold at each callback.
Held ==
    \A r \in Requests :
      /\ proc[r].pc = "signToken" => proc[r].pre # NONE /\ proc[r].code # NONE
      /\ proc[r].pc = "challenge" => proc[r].auth # NONE /\ proc[r].state # NONE
      /\ proc[r].pc = "issue" =>
           /\ proc[r].pre # NONE => proc[r].code # NONE
           /\ proc[r].pre # NONE \/ (proc[r].auth # NONE /\ proc[r].state # NONE)

TInv == TypeOK /\ NoDangling /\ Held

\* h2 has every object of h1, with its keys
Extends(h1, h2) ==
    \A o \in Offers : h1[o] # NONE =>
        /\ h2[o] # NONE
        /\ h2[o].preAuthorizedCode = h1[o].preAuthorizedCode
        /\ h2[o].issuerState = h1[o].issuerState

\* Writing a status to created objects keeps the heap's type and its keys.
LEMMA StatusWrite ==
    ASSUME TypeOK, NEW objs, NEW st \in IssueStatus,
           \A o \in Offers \cap objs : heap[o] # NONE
    PROVE  /\ WithStatus(objs, st) \in [Offers -> Session \cup {NONE}]
           /\ Extends(heap, WithStatus(objs, st))
<1>1. ASSUME NEW o \in Offers
      PROVE  /\ WithStatus(objs, st)[o] \in Session \cup {NONE}
             /\ heap[o] # NONE =>
                  /\ WithStatus(objs, st)[o] # NONE
                  /\ WithStatus(objs, st)[o].preAuthorizedCode = heap[o].preAuthorizedCode
                  /\ WithStatus(objs, st)[o].issuerState = heap[o].issuerState
  <2>1. CASE o \in objs
    <3>1. heap[o] \in Session
      BY <2>1 DEF TypeOK
    <3>2. WithStatus(objs, st)[o] = [heap[o] EXCEPT !.status = st]
      BY <2>1 DEF WithStatus
    <3>3. WithStatus(objs, st)[o] \in Session
      BY <3>1, <3>2 DEF Session
    <3> QED
      BY <3>1, <3>2, <3>3, NoneAssumption DEF Session
  <2>2. CASE o \notin objs
    BY <2>2 DEF WithStatus, TypeOK
  <2> QED
    BY <2>1, <2>2
<1>2. WithStatus(objs, st) \in [Offers -> Session \cup {NONE}]
  BY <1>1 DEF WithStatus
<1> QED
  BY <1>1, <1>2 DEF Extends

\* What is fetched from the store is an object that was created.
LEMMA Fetched ==
    ASSUME TInv, NEW k \in Ids \cup {NONE}
    PROVE  /\ Get(k) \in Offers \cup {NONE}
           /\ Get(k) # NONE => heap[Get(k)] # NONE /\ heap[Get(k)] \in Session
BY NoneAssumption DEF TInv, TypeOK, NoDangling, Get

\* The objects an updateSession with an error writes to were created.
LEMMA ErrorWrite ==
    ASSUME TInv, NEW keys \in SUBSET (Codes \cup {NONE})
    PROVE  /\ WithStatus(Reached(keys), "ERROR") \in [Offers -> Session \cup {NONE}]
           /\ Extends(heap, WithStatus(Reached(keys), "ERROR"))
<1>1. \A o \in Offers \cap Reached(keys) : heap[o] # NONE
  BY Fetched DEF Reached, Ids
<1>2. "ERROR" \in IssueStatus
  BY DEF IssueStatus
<1> QED
  BY <1>1, <1>2, StatusWrite DEF TInv

\* References stay good while objects keep existing and every new reference
\* leads to an object of the new heap.
LEMMA NewReferences ==
    ASSUME TInv, Extends(heap, heap'),
           credentialOfferSessions' \in [Ids -> Offers \cup {NONE}],
           \A k \in Ids : \/ credentialOfferSessions'[k] = credentialOfferSessions[k]
                          \/ credentialOfferSessions'[k] = NONE
                          \/ heap'[credentialOfferSessions'[k]] # NONE,
           proc' \in [Requests -> Continuation],
           \A r \in Requests :
             /\ proc'[r].pre \in {proc[r].pre, NONE} \/ heap'[proc'[r].pre] # NONE
             /\ proc'[r].auth \in {proc[r].auth, NONE} \/ heap'[proc'[r].auth] # NONE
    PROVE  NoDangling'
<1>1. ASSUME NEW k \in Ids, Get(k)' # NONE
      PROVE  heap'[Get(k)'] # NONE
  BY <1>1, NoneAssumption DEF TInv, NoDangling, Get, Extends, Ids, TypeOK
<1>2. ASSUME NEW r \in Requests
      PROVE  /\ proc'[r].pre # NONE => heap'[proc'[r].pre] # NONE
             /\ proc'[r].auth # NONE => heap'[proc'[r].auth] # NONE
  <2>1. proc[r] \in Continuation /\ proc'[r] \in Continuation
    BY DEF TInv, TypeOK
  <2> QED
    BY <2>1 DEF TInv, NoDangling, Extends, Continuation
<1> QED
  BY <1>1, <1>2 DEF NoDangling

LEMMA IdleType == Idle \in Continuation
BY LifeAssumption DEF Idle, Continuation, Time

\* A request that ends keeps the types and drops its references.
LEMMA EndsType ==
    ASSUME TInv, NEW r \in Requests, Ends(r)
    PROVE  /\ proc' \in [Requests -> Continuation]
           /\ Held'
           /\ \A q \in Requests : /\ proc'[q].pre \in {proc[q].pre, NONE}
                                 /\ proc'[q].auth \in {proc[q].auth, NONE}
<1>1. proc' \in [Requests -> Continuation]
  BY IdleType DEF TInv, TypeOK, Ends
<1>2. \A q \in Requests : proc'[q] \in {proc[q], Idle}
  BY DEF TInv, TypeOK, Ends
<1>3. Held'
  BY <1>2 DEF TInv, Held, Idle
<1> QED
  BY <1>1, <1>2, <1>3 DEF Idle

\* A heap that did not change.
LEMMA SameHeap == ASSUME TypeOK, UNCHANGED heap PROVE Extends(heap, heap')
BY DEF Extends

-----------------------------------------------------------------------------
(* One lemma per action: TInv is preserved and no object loses its keys. *)

LEMMA CreateOfferType ==
    ASSUME TInv, NEW o \in Offers, NEW k \in CorrIds, NEW c \in Codes \cup {NONE},
           NEW s \in Codes \cup {NONE}, NEW pin \in BOOLEAN,
           CreateOffer(o, k, c, s, pin)
    PROVE  TInv' /\ Extends(heap, heap')
<1> DEFINE new == [preAuthorizedCode |-> c, issuerState |-> s,
                   txCode |-> pin, status |-> "OFFER_CREATED",
                   notification |-> NONE, authorizationCode |-> FALSE,
                   createdAt |-> now]
<1>0. new \in Session
  BY DEF TInv, TypeOK, Session, IssueStatus
<1>1. new \in Session /\ new # NONE
  BY <1>0, NoneAssumption
<1>2. heap' = [heap EXCEPT ![o] = new] /\ heap[o] = NONE
  BY DEF CreateOffer
<1> HIDE DEF new
<1>3. heap' \in [Offers -> Session \cup {NONE}] /\ Extends(heap, heap') /\ heap'[o] # NONE
  BY <1>1, <1>2 DEF TInv, TypeOK, Extends
<1>4. credentialOfferSessions' \in [Ids -> Offers \cup {NONE}]
  BY DEF CreateOffer, TInv, TypeOK
<1>5. \A i \in Ids : credentialOfferSessions'[i] \in {o, credentialOfferSessions[i]}
  BY DEF CreateOffer, TInv, TypeOK
<1>6. uris' \in [Ids -> URIState \cup {NONE}]
  BY DEF CreateOffer, TInv, TypeOK, URIState
<1>7. UNCHANGED <<cNonces, tokens, proc, now, minted, redeemed, issued, disclosed, uses, refused>>
  BY DEF CreateOffer, history
<1>8. NoDangling'
  <2>1. proc' \in [Requests -> Continuation]
    BY <1>7 DEF TInv, TypeOK
  <2> QED
    BY <1>3, <1>4, <1>5, <1>7, <2>1, NewReferences
<1>9. TypeOK'
  BY <1>3, <1>4, <1>6, <1>7 DEF TInv, TypeOK
<1> QED
  BY <1>3, <1>7, <1>8, <1>9 DEF TInv, Held

LEMMA DeleteOfferType ==
    ASSUME TInv, NEW id \in Ids, DeleteOffer(id)
    PROVE  TInv' /\ Extends(heap, heap')
<1>1. UNCHANGED <<heap, uris, cNonces, tokens, proc, now, minted, redeemed, issued,
                  disclosed, uses, refused>>
  BY DEF DeleteOffer, history
<1>2. credentialOfferSessions' \in [Ids -> Offers \cup {NONE}]
  BY DEF DeleteOffer, TInv, TypeOK
<1>3. \A i \in Ids : credentialOfferSessions'[i] \in {credentialOfferSessions[i], NONE}
  BY DEF DeleteOffer, TInv, TypeOK
<1>4. TypeOK'
  BY <1>1, <1>2 DEF TInv, TypeOK
<1>5. NoDangling'
  BY <1>1, <1>2, <1>3, <1>4, SameHeap, NewReferences DEF TInv, TypeOK
<1> QED
  BY <1>1, <1>4, <1>5, SameHeap DEF TInv, Held

LEMMA TokenRequestType ==
    ASSUME TInv, NEW r \in Requests, NEW c \in Codes,
           NEW tx \in {"absent", "right", "wrong"}, NEW dpop \in BOOLEAN,
           TokenRequest(r, c, tx, dpop)
    PROVE  TInv' /\ Extends(heap, heap')
<1> DEFINE o == credentialOfferSessions[c]
           w == [Idle EXCEPT !.pc = "signToken", !.pre = o, !.code = c]
<1>1. o \in Offers /\ heap[o] # NONE
  BY Fetched, NoneAssumption DEF TokenRequest, Get, Ids, TInv, TypeOK
<1>2. heap' \in [Offers -> Session \cup {NONE}] /\ Extends(heap, heap')
  <2>1. heap' = WithStatus({o}, "ACCESS_TOKEN_REQUESTED")
    BY DEF TokenRequest
  <2> QED
    BY <1>1, <2>1, StatusWrite DEF TInv, IssueStatus
<1>3. w \in Continuation
  BY <1>1, IdleType DEF Continuation, Idle
<1>4. proc' \in [Requests -> Continuation]
  BY <1>3 DEF TokenRequest, Waits, TInv, TypeOK
<1>5. \A q \in Requests : proc'[q] \in {proc[q], w}
  BY DEF TokenRequest, Waits, TInv, TypeOK
<1>6. w.pre = o /\ w.auth = NONE /\ w.pc = "signToken" /\ w.code = c
  BY DEF Idle
<1>7. redeemed' \subseteq Offers
  BY <1>1 DEF TokenRequest, TInv, TypeOK
<1>8. UNCHANGED <<credentialOfferSessions, uris, cNonces, tokens, now, minted, issued,
                  disclosed, uses, refused>>
  BY DEF TokenRequest, stores
<1> HIDE DEF w, o
<1>9. NoDangling'
  <2>1. heap'[o] # NONE
    BY <1>1, <1>2 DEF Extends
  <2>2. credentialOfferSessions' \in [Ids -> Offers \cup {NONE}]
    BY <1>8 DEF TInv, TypeOK
  <2> QED
    BY <1>2, <1>4, <1>5, <1>6, <1>8, <2>1, <2>2, NewReferences
<1>10. TypeOK'
  BY <1>2, <1>4, <1>7, <1>8 DEF TInv, TypeOK
<1>11. Held'
  BY <1>1, <1>5, <1>6, NoneAssumption DEF TInv, Held
<1> QED
  BY <1>2, <1>9, <1>10, <1>11 DEF TInv

\* A request in flight, its objects and what it stores
LEMMA InFlightType ==
    ASSUME TInv, NEW r \in Requests
    PROVE  /\ proc[r] \in Continuation
           /\ proc[r].pre # NONE => heap[proc[r].pre] # NONE
           /\ proc[r].auth # NONE => heap[proc[r].auth] # NONE
BY DEF TInv, TypeOK, NoDangling

\* What a request stores again on its way out keeps the store's references good.
LEMMA StoreAgain ==
    ASSUME TInv, NEW r \in Requests, Ends(r), Extends(heap, heap'),
           NEW key \in Codes, NEW o \in Offers, heap[o] # NONE,
           credentialOfferSessions' = Stored(key, o)
    PROVE  /\ credentialOfferSessions' \in [Ids -> Offers \cup {NONE}]
           /\ proc' \in [Requests -> Continuation]
           /\ NoDangling' /\ Held'
<1>1. credentialOfferSessions' \in [Ids -> Offers \cup {NONE}]
  BY DEF Stored, TInv, TypeOK
<1>2. \A k \in Ids : credentialOfferSessions'[k] \in {o, credentialOfferSessions[k]}
  BY DEF Stored, TInv, TypeOK
<1>3. heap'[o] # NONE
  BY DEF Extends
<1> QED
  BY <1>1, <1>2, <1>3, EndsType, NewReferences DEF TInv

\* A request that ends without storing anything
LEMMA EndsKeepsReferences ==
    ASSUME TInv, NEW r \in Requests, Ends(r), Extends(heap, heap'),
           UNCHANGED credentialOfferSessions
    PROVE  proc' \in [Requests -> Continuation] /\ NoDangling' /\ Held'
<1>1. credentialOfferSessions' \in [Ids -> Offers \cup {NONE}]
  BY DEF TInv, TypeOK
<1> QED
  BY <1>1, EndsType, NewReferences DEF TInv

LEMMA TokenSignedType ==
    ASSUME TInv, NEW r \in Requests, TokenSigned(r)
    PROVE  TInv' /\ Extends(heap, heap')
<1> DEFINE p == proc[r]
<1>1. p.pre \in Offers /\ heap[p.pre] # NONE /\ p.code \in Codes
  BY InFlightType DEF TokenSigned, TInv, Held, Continuation
<1>2. heap' \in [Offers -> Session \cup {NONE}] /\ Extends(heap, heap')
  BY <1>1, StatusWrite DEF TokenSigned, TInv, IssueStatus
<1>3. tokens' \subseteq Token
  BY <1>1 DEF TokenSigned, InternalToken, Token, TInv, TypeOK
<1>4. UNCHANGED <<uris, cNonces, now, minted, redeemed, issued, disclosed, uses, refused>>
  BY DEF TokenSigned, history
<1>5. /\ credentialOfferSessions' \in [Ids -> Offers \cup {NONE}]
      /\ proc' \in [Requests -> Continuation]
      /\ NoDangling' /\ Held'
  BY <1>1, <1>2, StoreAgain DEF TokenSigned
<1> QED
  BY <1>2, <1>3, <1>4, <1>5 DEF TInv, TypeOK

\* A request ends and changes nothing else.
LEMMA EndsOnlyType ==
    ASSUME TInv, NEW r \in Requests, Ends(r),
           UNCHANGED <<heap, stores, tokens, now, history>>
    PROVE  TInv' /\ Extends(heap, heap')
<1>1. proc' \in [Requests -> Continuation] /\ NoDangling' /\ Held'
  BY SameHeap, EndsKeepsReferences DEF TInv, stores
<1> QED
  BY <1>1, SameHeap DEF TInv, TypeOK, stores, history

LEMMA ExternalAuthorizationType ==
    ASSUME TInv, NEW o \in Offers, ExternalAuthorization(o)
    PROVE  TInv' /\ Extends(heap, heap')
<1>1. heap[o] \in Session
  BY DEF ExternalAuthorization, TInv, TypeOK
<1>2. ExternalToken(o) \in Token
  BY <1>1 DEF ExternalToken, Token, Session
<1>3. UNCHANGED <<heap, credentialOfferSessions, uris, cNonces, proc, now, minted,
                  redeemed, issued, disclosed, uses, refused>>
  BY DEF ExternalAuthorization, stores, history
<1>4. tokens' \subseteq Token
  BY <1>2 DEF ExternalAuthorization, TInv, TypeOK
<1> QED
  BY <1>3, <1>4, SameHeap DEF TInv, TypeOK, NoDangling, Held, Get

LEMMA ChallengeRequestType ==
    ASSUME TInv, NEW r \in Requests, NEW c \in Codes, ChallengeRequest(r, c)
    PROVE  TInv' /\ Extends(heap, heap')
<1> DEFINE o == credentialOfferSessions[c]
           w == [Idle EXCEPT !.pc = "challenge", !.auth = o, !.state = c]
<1>1. o \in Offers /\ heap[o] # NONE
  BY Fetched, NoneAssumption DEF ChallengeRequest, Get, Ids, TInv, TypeOK
<1>2. w \in Continuation
  BY <1>1, IdleType DEF Continuation, Idle
<1>3. w.pre = NONE /\ w.auth = o /\ w.state = c /\ w.pc = "challenge"
  BY DEF Idle
<1>4. /\ proc' \in [Requests -> Continuation]
      /\ \A q \in Requests : proc'[q] \in {proc[q], w}
  BY <1>2 DEF ChallengeRequest, Waits, TInv, TypeOK
<1>5. UNCHANGED <<heap, credentialOfferSessions, uris, cNonces, tokens, now, minted,
                  redeemed, issued, disclosed, uses, refused>>
  BY DEF ChallengeRequest, stores, history
<1> HIDE DEF o, w
<1>6. NoDangling'
  <2>1. Extends(heap, heap') /\ heap'[o] # NONE
    BY <1>1, <1>5, SameHeap DEF TInv
  <2>2. credentialOfferSessions' \in [Ids -> Offers \cup {NONE}]
    BY <1>5 DEF TInv, TypeOK
  <2> QED
    BY <1>3, <1>4, <1>5, <2>1, <2>2, NewReferences
<1>7. Held'
  BY <1>1, <1>3, <1>4, NoneAssumption DEF TInv, Held
<1> QED
  BY <1>4, <1>5, <1>6, <1>7, SameHeap DEF TInv, TypeOK

LEMMA ChallengeVerifiedType ==
    ASSUME TInv, NEW r \in Requests, ChallengeVerified(r)
    PROVE  TInv' /\ Extends(heap, heap')
<1> DEFINE p == proc[r]
<1>1. p.auth \in Offers /\ heap[p.auth] \in Session /\ p.state \in Codes
      /\ heap[p.auth] # NONE
  BY InFlightType DEF ChallengeVerified, TInv, Held, Continuation, TypeOK
<1>2. heap' = [heap EXCEPT ![p.auth].authorizationCode = TRUE]
  BY DEF ChallengeVerified
<1>3. heap' \in [Offers -> Session \cup {NONE}] /\ Extends(heap, heap')
  <2> DEFINE new == [heap[p.auth] EXCEPT !.authorizationCode = TRUE]
  <2>1. new \in Session /\ new.preAuthorizedCode = heap[p.auth].preAuthorizedCode
        /\ new.issuerState = heap[p.auth].issuerState
    BY <1>1 DEF Session
  <2>2. heap' = [heap EXCEPT ![p.auth] = new]
    BY <1>2
  <2> HIDE DEF new, p
  <2> QED
    BY <1>1, <2>1, <2>2, NoneAssumption DEF TInv, TypeOK, Extends
<1>4. UNCHANGED <<uris, cNonces, tokens, now, minted, redeemed, issued, disclosed,
                  uses, refused>>
  BY DEF ChallengeVerified, history
<1>5. /\ credentialOfferSessions' \in [Ids -> Offers \cup {NONE}]
      /\ proc' \in [Requests -> Continuation]
      /\ NoDangling' /\ Held'
  BY <1>1, <1>3, StoreAgain DEF ChallengeVerified
<1> QED
  BY <1>3, <1>4, <1>5 DEF TInv, TypeOK

LEMMA NonceType ==
    ASSUME TInv, NEW n \in Nonces, Nonce(n)
    PROVE  TInv' /\ Extends(heap, heap')
BY SameHeap DEF Nonce, TInv, TypeOK, NoDangling, Held, Get

LEMMA CredentialRequestType ==
    ASSUME TInv, NEW r \in Requests, NEW t \in tokens,
           NEW body \in Codes \cup {NONE}, NEW n \in Nonces \cup {NONE},
           CredentialRequest(r, t, body, n)
    PROVE  TInv' /\ Extends(heap, heap')
<1> DEFINE w == [Idle EXCEPT !.pc = "verifyProof",
                             !.code = t["preAuthorizedCode"],
                             !.state = t["issuer_state"],
                             !.body = body, !.nonce = n, !.iat = now]
<1>1. /\ t["preAuthorizedCode"] \in Codes \cup {NONE}
      /\ t["issuer_state"] \in Codes \cup {NONE}
  BY DEF TInv, TypeOK, Token, ClaimNames
<1>2. w \in Continuation
  BY <1>1, IdleType DEF Continuation, Idle, TInv, TypeOK
<1>3. w.pre = NONE /\ w.auth = NONE /\ w.pc = "verifyProof"
  BY DEF Idle
<1>4. /\ proc' \in [Requests -> Continuation]
      /\ \A q \in Requests : proc'[q] \in {proc[q], w}
  BY <1>2 DEF CredentialRequest, Waits, TInv, TypeOK
<1>5. UNCHANGED <<heap, credentialOfferSessions, uris, cNonces, tokens, now, minted,
                  redeemed, issued, disclosed, uses, refused>>
  BY DEF CredentialRequest, stores, history
<1> HIDE DEF w
<1>6. NoDangling'
  <2>1. credentialOfferSessions' \in [Ids -> Offers \cup {NONE}] /\ Extends(heap, heap')
    BY <1>5, SameHeap DEF TInv, TypeOK
  <2> QED
    BY <1>3, <1>4, <1>5, <2>1, NewReferences
<1>7. Held'
  BY <1>3, <1>4 DEF TInv, Held
<1> QED
  BY <1>4, <1>5, <1>6, <1>7, SameHeap DEF TInv, TypeOK

LEMMA MalformedCredentialRequestType ==
    ASSUME TInv, NEW t \in tokens, MalformedCredentialRequest(t)
    PROVE  TInv' /\ Extends(heap, heap')
<1> DEFINE keys == {t["preAuthorizedCode"], t["issuer_state"]}
<1>1. keys \subseteq Codes \cup {NONE}
  BY DEF TInv, TypeOK, Token, ClaimNames
<1>2. heap' \in [Offers -> Session \cup {NONE}] /\ Extends(heap, heap')
  BY <1>1, ErrorWrite DEF MalformedCredentialRequest, UpdateSessionError
<1>3. UNCHANGED <<credentialOfferSessions, uris, cNonces, tokens, proc, now, minted,
                  redeemed, issued, disclosed, uses, refused>>
  BY DEF MalformedCredentialRequest, stores, history
<1>4. TypeOK'
  BY <1>2, <1>3 DEF TInv, TypeOK
<1>5. NoDangling'
  BY <1>2, <1>3, <1>4, NewReferences DEF TypeOK
<1>6. Held'
  BY <1>3 DEF TInv, Held
<1> QED
  BY <1>2, <1>4, <1>5, <1>6 DEF TInv

LEMMA RequestFailsType ==
    ASSUME TInv, NEW r \in Requests, NEW keys \in SUBSET (Codes \cup {NONE}),
           RequestFails(r, keys)
    PROVE  TInv' /\ Extends(heap, heap')
<1>1. heap' \in [Offers -> Session \cup {NONE}] /\ Extends(heap, heap')
  BY ErrorWrite DEF RequestFails, UpdateSessionError
<1>2. UNCHANGED <<credentialOfferSessions, uris, cNonces, tokens, now, minted,
                  redeemed, issued, disclosed, uses, refused>>
  BY DEF RequestFails, stores, history
<1>3. proc' \in [Requests -> Continuation] /\ NoDangling' /\ Held'
  BY <1>1, <1>2, EndsKeepsReferences DEF RequestFails
<1> QED
  BY <1>1, <1>2, <1>3 DEF TInv, TypeOK

\* The three ways a credential request fails after its proof was sent off.
LEMMA FailureType ==
    ASSUME TInv, NEW r \in Requests,
           \/ ProofRejected(r)
           \/ \E good \in BOOLEAN : ProofInvalid(r, good)
           \/ IssuanceFails(r)
    PROVE  TInv' /\ Extends(heap, heap')
<1>1. /\ {proc[r].code, proc[r].state} \in SUBSET (Codes \cup {NONE})
      /\ IssuerStateOf(proc[r]) \in Codes \cup {NONE}
  BY DEF TInv, TypeOK, Continuation, IssuerStateOf, OrElse
<1>2. CASE ProofRejected(r)
  BY <1>1, <1>2, RequestFailsType DEF ProofRejected
<1>3. CASE IssuanceFails(r)
  BY <1>1, <1>3, RequestFailsType DEF IssuanceFails
<1>4. ASSUME NEW good \in BOOLEAN, ProofInvalid(r, good)
      PROVE  TInv' /\ Extends(heap, heap')
  <2>1. PICK keys \in SUBSET (Codes \cup {NONE}) : RequestFails(r, keys)
    BY <1>1, <1>4 DEF ProofInvalid
  <2> QED
    BY <2>1, RequestFailsType
<1> QED
  BY <1>2, <1>3, <1>4

\* What validation fetches
LEMMA ValidatedSessions ==
    ASSUME TInv, NEW p \in Continuation
    PROVE  /\ IssuerStateOf(p) \in Codes \cup {NONE}
           /\ PreAuthSession(p) \in Offers \cup {NONE}
           /\ AuthSession(p) \in Offers \cup {NONE}
           /\ PreAuthSession(p) # NONE => p.code # NONE /\ heap[PreAuthSession(p)] # NONE
           /\ AuthSession(p) # NONE => IssuerStateOf(p) # NONE /\ heap[AuthSession(p)] # NONE
<1>1. p.code \in Ids \cup {NONE} /\ IssuerStateOf(p) \in Codes \cup {NONE}
  BY DEF Continuation, Ids, IssuerStateOf, OrElse
<1>2. IssuerStateOf(p) \in Ids \cup {NONE}
  BY <1>1 DEF Ids
<1>3. Get(NONE) = NONE
  BY DEF Get
<1> QED
  BY <1>1, <1>2, <1>3, Fetched DEF PreAuthSession, AuthSession

LEMMA ProofVerifiedType ==
    ASSUME TInv, NEW r \in Requests, ProofVerified(r)
    PROVE  TInv' /\ Extends(heap, heap')
<1> DEFINE p == proc[r]
           pre == PreAuthSession(p)
           auth == AuthSession(p)
           w == [p EXCEPT !.pc = "issue", !.pre = pre, !.auth = auth,
                          !.state = OrElse(p.state, IssuerStateOf(p))]
<1>1. p \in Continuation
  BY DEF TInv, TypeOK
<1>2. /\ pre \in Offers \cup {NONE} /\ auth \in Offers \cup {NONE}
      /\ IssuerStateOf(p) \in Codes \cup {NONE}
      /\ pre # NONE => p.code # NONE /\ heap[pre] # NONE
      /\ auth # NONE => IssuerStateOf(p) # NONE /\ heap[auth] # NONE
  BY <1>1, ValidatedSessions
<1>3. pre # NONE \/ auth # NONE
  BY DEF ProofVerified, ProofAccepted
<1>4. w \in Continuation
  BY <1>1, <1>2 DEF Continuation, OrElse
<1>5. /\ w.pc = "issue" /\ w.pre = pre /\ w.auth = auth /\ w.code = p.code
      /\ w.state = OrElse(p.state, IssuerStateOf(p))
  BY <1>1 DEF Continuation
<1>6. proc' = [proc EXCEPT ![r] = w]
  BY DEF ProofVerified, Waits
<1>7. heap' = WithStatus({pre, auth}, "CREDENTIAL_REQUEST_RECEIVED")
  BY DEF ProofVerified
<1>8. UNCHANGED <<credentialOfferSessions, uris, cNonces, tokens, now, minted,
                  redeemed, issued, disclosed, uses, refused>>
  BY DEF ProofVerified, stores, history
<1> HIDE DEF w, pre, auth
<1>9. heap' \in [Offers -> Session \cup {NONE}] /\ Extends(heap, heap')
  <2>1. \A o \in Offers \cap {pre, auth} : heap[o] # NONE
    BY <1>2, NoneAssumption
  <2> QED
    BY <1>7, <2>1, StatusWrite DEF TInv, IssueStatus
<1>10. /\ proc' \in [Requests -> Continuation]
       /\ \A q \in Requests : proc'[q] \in {proc[q], w}
  BY <1>4, <1>6 DEF TInv, TypeOK
<1>11. NoDangling'
  <2>1. credentialOfferSessions' \in [Ids -> Offers \cup {NONE}]
    BY <1>8 DEF TInv, TypeOK
  <2>2. /\ pre # NONE => heap'[pre] # NONE
        /\ auth # NONE => heap'[auth] # NONE
    BY <1>2, <1>9 DEF Extends
  <2> QED
    BY <1>5, <1>8, <1>9, <1>10, <2>1, <2>2, NewReferences
<1>12. Held'
  BY <1>2, <1>3, <1>5, <1>10 DEF TInv, Held, OrElse
<1> QED
  BY <1>8, <1>9, <1>10, <1>11, <1>12 DEF TInv, TypeOK

\* The session and key of an issuance
LEMMA Issuing ==
    ASSUME TInv, NEW r \in Requests, proc[r].pc = "issue"
    PROVE  /\ IssuingSession(proc[r]) \in Offers
           /\ heap[IssuingSession(proc[r])] # NONE
           /\ IssuingKey(proc[r]) \in Codes
BY InFlightType DEF TInv, Held, Continuation, IssuingSession, IssuingKey, OrElse

LEMMA SignType ==
    ASSUME TInv, NEW r \in Requests, proc[r].pc = "issue", Sign(proc[r])
    PROVE  /\ cNonces' \in [Nonces -> Time \cup {NONE}]
           /\ uses' \in [Nonces -> Nat]
           /\ issued' \subseteq Offers
<1>1. proc[r].nonce \in Nonces \cup {NONE}
  BY DEF TInv, TypeOK, Continuation
<1>2. issued' \subseteq Offers
  BY Issuing DEF Sign, TInv, TypeOK
<1> QED
  BY <1>1, <1>2 DEF Sign, SpendNonce, TInv, TypeOK

LEMMA CredentialIssuedType ==
    ASSUME TInv, NEW r \in Requests, CredentialIssued(r)
    PROVE  TInv' /\ Extends(heap, heap')
<1> DEFINE o == IssuingSession(proc[r])
<1>1. proc[r].pc = "issue" /\ Sign(proc[r]) /\ Ends(r)
  BY DEF CredentialIssued
<1>2. o \in Offers /\ heap[o] # NONE /\ IssuingKey(proc[r]) \in Codes
  BY <1>1, Issuing
<1>3. heap' \in [Offers -> Session \cup {NONE}] /\ Extends(heap, heap')
  BY <1>2, StatusWrite DEF CredentialIssued, TInv, IssueStatus
<1>4. /\ credentialOfferSessions' \in [Ids -> Offers \cup {NONE}]
      /\ proc' \in [Requests -> Continuation]
      /\ NoDangling' /\ Held'
  BY <1>1, <1>2, <1>3, StoreAgain DEF Sign
<1>5. disclosed' \subseteq Offers
  BY <1>2 DEF CredentialIssued, TInv, TypeOK
<1>6. UNCHANGED <<uris, tokens, now, minted, redeemed, refused>>
  BY DEF CredentialIssued
<1> QED
  BY <1>1, <1>3, <1>4, <1>5, <1>6, SignType DEF TInv, TypeOK

LEMMA CredentialIssuedThenRejectedType ==
    ASSUME TInv, NEW r \in Requests, CredentialIssuedThenRejected(r)
    PROVE  TInv' /\ Extends(heap, heap')
<1> DEFINE p == proc[r]
           found == {IF k = IssuingKey(p) THEN IssuingSession(p) ELSE Get(k) :
                       k \in {p.code, p.state} \ {NONE}} \ {NONE}
<1>1. p.pc = "issue" /\ Sign(p) /\ Ends(r) /\ heap' = WithStatus(found, "ERROR")
  BY DEF CredentialIssuedThenRejected
<1>2. /\ IssuingSession(p) \in Offers /\ heap[IssuingSession(p)] # NONE
      /\ IssuingKey(p) \in Codes
  BY <1>1, Issuing
<1>3. \A o \in Offers \cap found : heap[o] # NONE
  <2>1. {p.code, p.state} \subseteq Ids \cup {NONE}
    BY DEF TInv, TypeOK, Continuation, Ids
  <2> QED
    BY <1>2, <2>1, Fetched
<1>4. heap' \in [Offers -> Session \cup {NONE}] /\ Extends(heap, heap')
  BY <1>1, <1>3, StatusWrite DEF TInv, IssueStatus
<1>5. /\ credentialOfferSessions' \in [Ids -> Offers \cup {NONE}]
      /\ proc' \in [Requests -> Continuation]
      /\ NoDangling' /\ Held'
  BY <1>1, <1>2, <1>4, StoreAgain DEF Sign
<1>6. UNCHANGED <<uris, tokens, now, minted, redeemed, disclosed, refused>>
  BY DEF CredentialIssuedThenRejected
<1> QED
  BY <1>1, <1>4, <1>5, <1>6, SignType DEF TInv, TypeOK

LEMMA NotificationRequestType ==
    ASSUME TInv, NEW t \in tokens, NEW id \in Offers, NEW e \in Events,
           NotificationRequest(t, id, e)
    PROVE  TInv' /\ Extends(heap, heap')
<1> DEFINE o == Get(t["pre-authorized_code"])
           new == [heap[o] EXCEPT !.status = StatusOf(e), !.notification = e]
<1>1. t["pre-authorized_code"] \in Ids \cup {NONE}
  BY DEF TInv, TypeOK, Token, ClaimNames, Ids
<1>2. StatusOf(e) \in IssueStatus /\ e \in AllEvents
  BY ConfigAssumption DEF StatusOf, IssueStatus, NotificationStatus, AllEvents
<1>3. CASE o # NONE /\ heap' = [heap EXCEPT ![o] = new]
  <2>1. o \in Offers /\ heap[o] \in Session /\ heap[o] # NONE
    BY <1>1, <1>3, Fetched
  <2>2. /\ new \in Session
        /\ new.preAuthorizedCode = heap[o].preAuthorizedCode
        /\ new.issuerState = heap[o].issuerState
    BY <1>2, <2>1 DEF Session
  <2> HIDE DEF new, o
  <2> QED
    <3>1. heap' \in [Offers -> Session \cup {NONE}] /\ Extends(heap, heap')
      BY <1>3, <2>1, <2>2, NoneAssumption DEF TInv, TypeOK, Extends
    <3>2. UNCHANGED <<credentialOfferSessions, uris, cNonces, tokens, proc, now, minted,
                      redeemed, issued, disclosed, uses>>
      BY DEF NotificationRequest, stores
    <3>3. refused' \subseteq Offers
      BY DEF NotificationRequest, TInv, TypeOK
    <3>4. TypeOK'
      BY <3>1, <3>2, <3>3 DEF TInv, TypeOK
    <3>5. NoDangling'
      BY <3>1, <3>2, <3>4, NewReferences DEF TypeOK
    <3> QED
      BY <3>1, <3>2, <3>4, <3>5 DEF TInv, Held
<1>4. CASE UNCHANGED heap
  <2>1. UNCHANGED <<credentialOfferSessions, uris, cNonces, tokens, proc, now, minted,
                    redeemed, issued, disclosed, uses>>
    BY DEF NotificationRequest, stores
  <2>2. refused' \subseteq Offers
    BY DEF NotificationRequest, TInv, TypeOK
  <2> QED
    BY <1>4, <2>1, <2>2, SameHeap DEF TInv, TypeOK, NoDangling, Held, Get
<1> QED
  BY <1>3, <1>4 DEF NotificationRequest

LEMMA TickType ==
    ASSUME TInv, Tick PROVE TInv' /\ Extends(heap, heap')
<1>1. now' \in Time
  BY LifeAssumption DEF Tick, Time, TInv, TypeOK
<1> QED
  BY <1>1, SameHeap DEF Tick, stores, history, TInv, TypeOK, NoDangling, Held, Get

LEMMA CleanupSessionsType ==
    ASSUME TInv, CleanupSessions PROVE TInv' /\ Extends(heap, heap')
<1>1. /\ credentialOfferSessions' \in [Ids -> Offers \cup {NONE}]
      /\ \A k \in Ids : credentialOfferSessions'[k] \in {credentialOfferSessions[k], NONE}
  <2>1. \A k \in Ids : k # NONE
    BY NoneAssumption DEF Ids
  <2> QED
    BY <2>1 DEF CleanupSessions, Get, TInv, TypeOK
<1>2. UNCHANGED <<heap, uris, cNonces, tokens, proc, now, minted, redeemed, issued,
                  disclosed, uses, refused>>
  BY DEF CleanupSessions, history
<1>3. TypeOK'
  BY <1>1, <1>2 DEF TInv, TypeOK
<1>4. NoDangling'
  BY <1>1, <1>2, <1>3, SameHeap, NewReferences DEF TInv, TypeOK
<1> QED
  BY <1>2, <1>3, <1>4, SameHeap DEF TInv, Held

\* The cleanup of the other two stores leaves the sessions alone.
LEMMA CleanupOthersType ==
    ASSUME TInv, CleanupUris \/ CleanupNonces PROVE TInv' /\ Extends(heap, heap')
<1>1. CASE CleanupUris
  BY <1>1, SameHeap DEF CleanupUris, history, TInv, TypeOK, NoDangling, Held, Get
<1>2. CASE CleanupNonces
  BY <1>2, SameHeap DEF CleanupNonces, history, TInv, TypeOK, NoDangling, Held, Get
<1> QED
  BY <1>1, <1>2

LEMMA TypeInit == Init => TInv
BY LifeAssumption, IdleType
   DEF Init, TInv, TypeOK, NoDangling, Held, Idle, Get, Time

LEMMA TypeStutter == TInv /\ UNCHANGED vars => TInv'
BY DEF vars, TInv, TypeOK, NoDangling, Held, Get

LEMMA TypeNext == TInv /\ Next => TInv' /\ Extends(heap, heap')
<1> SUFFICES ASSUME TInv, Next PROVE TInv' /\ Extends(heap, heap')
  OBVIOUS
<1>1. ASSUME NEW o \in Offers, NEW k \in CorrIds, NEW c \in Codes \cup {NONE},
             NEW s \in Codes \cup {NONE}, NEW pin \in BOOLEAN, CreateOffer(o, k, c, s, pin)
      PROVE  TInv' /\ Extends(heap, heap')
  BY <1>1, CreateOfferType
<1>2. ASSUME NEW id \in Ids, DeleteOffer(id) PROVE TInv' /\ Extends(heap, heap')
  BY <1>2, DeleteOfferType
<1>3. ASSUME NEW r \in Requests, Arrive(r) PROVE TInv' /\ Extends(heap, heap')
  BY <1>3, TokenRequestType, ChallengeRequestType, CredentialRequestType DEF Arrive
<1>4. ASSUME NEW r \in Requests, Settle(r) PROVE TInv' /\ Extends(heap, heap')
  <2>1. CASE TokenSigned(r)
    BY <2>1, TokenSignedType
  <2>2. CASE TokenSigningFails(r) \/ ChallengeRejected(r)
    BY <2>2, EndsOnlyType DEF TokenSigningFails, ChallengeRejected
  <2>3. CASE ChallengeVerified(r)
    BY <2>3, ChallengeVerifiedType
  <2>4. CASE ProofRejected(r) \/ (\E good \in BOOLEAN : ProofInvalid(r, good)) \/ IssuanceFails(r)
    BY <2>4, FailureType
  <2>5. CASE ProofVerified(r)
    BY <2>5, ProofVerifiedType
  <2>6. CASE CredentialIssued(r)
    BY <2>6, CredentialIssuedType
  <2>7. CASE CredentialIssuedThenRejected(r)
    BY <2>7, CredentialIssuedThenRejectedType
  <2> QED
    BY <1>4, <2>1, <2>2, <2>3, <2>4, <2>5, <2>6, <2>7 DEF Settle
<1>5. ASSUME NEW o \in Offers, ExternalAuthorization(o) PROVE TInv' /\ Extends(heap, heap')
  BY <1>5, ExternalAuthorizationType
<1>6. ASSUME NEW n \in Nonces, Nonce(n) PROVE TInv' /\ Extends(heap, heap')
  BY <1>6, NonceType
<1>7. ASSUME NEW t \in tokens, MalformedCredentialRequest(t) PROVE TInv' /\ Extends(heap, heap')
  BY <1>7, MalformedCredentialRequestType
<1>8. ASSUME NEW t \in tokens, NEW id \in Offers, NEW e \in Events,
             NotificationRequest(t, id, e)
      PROVE  TInv' /\ Extends(heap, heap')
  BY <1>8, NotificationRequestType
<1>9. CASE Tick
  BY <1>9, TickType
<1>10. CASE CleanupSessions
  BY <1>10, CleanupSessionsType
<1>11. CASE CleanupUris \/ CleanupNonces
  BY <1>11, CleanupOthersType
<1> QED
  BY <1>1, <1>2, <1>3, <1>4, <1>5, <1>6, <1>7, <1>8, <1>9, <1>10, <1>11 DEF Next

\* TInv is an invariant: besides the types, no store and no request in flight
\* ever holds a reference to an object that was not created.
THEOREM TypeInvariant == Spec => []TInv
<1>1. Init => TInv
  BY TypeInit
<1>2. TInv /\ [Next]_vars => TInv'
  BY TypeNext, TypeStutter
<1> QED
  BY <1>1, <1>2, PTL DEF Spec

\* The issuer's variables keep their types, for every number of offers, codes,
\* nonces and concurrent requests (TypeOK; run issuer_keys).
THEOREM TypeCorrect == Spec => []TypeOK
<1>1. TInv => TypeOK
  BY DEF TInv
<1> QED
  BY <1>1, TypeInvariant, PTL

-----------------------------------------------------------------------------
(* Sessions are found under their own keys *)

Carries(h, o, k) == h[o] # NONE /\ k \in {h[o].preAuthorizedCode, h[o].issuerState}

\* What a request in flight knows of the keys of the sessions it holds: this is
\* what makes storing them again harmless.
KnowsKeys(h, p) ==
    /\ p.pc = "signToken" => h[p.pre].preAuthorizedCode = p.code
    /\ p.pc = "challenge" => Carries(h, p.auth, p.state)
    /\ p.pc = "verifyProof" => p.state = NONE
    /\ p.pc = "issue" => /\ p.pre # NONE => h[p.pre].preAuthorizedCode = p.code
                         /\ p.auth # NONE => h[p.auth].issuerState = p.state

KeyInv ==
    /\ \A t \in tokens : t["issuer_state"] = NONE
    /\ \A k \in Ids : Get(k) # NONE => Carries(heap, Get(k), k)
    /\ \A r \in Requests : KnowsKeys(heap, proc[r])

\* What a request knows stays true while objects keep their keys.
LEMMA StillKnows ==
    ASSUME TInv, NEW r \in Requests, KnowsKeys(heap, proc[r]), Extends(heap, heap')
    PROVE  KnowsKeys(heap', proc[r])
<1>1. /\ proc[r].pre \in Offers \cup {NONE}
      /\ proc[r].auth \in Offers \cup {NONE}
      /\ proc[r].pre # NONE => heap[proc[r].pre] # NONE
      /\ proc[r].auth # NONE => heap[proc[r].auth] # NONE
      /\ proc[r].pc = "signToken" => proc[r].pre # NONE
      /\ proc[r].pc = "challenge" => proc[r].auth # NONE
  BY InFlightType DEF Continuation, TInv, Held
<1> QED
  BY <1>1 DEF KnowsKeys, Carries, Extends

\* KeyInv is kept by a step that stores sessions under keys they carry, and
\* after which each request either waits as before or knows its keys.
LEMMA KeysKept ==
    ASSUME TInv, TInv', KeyInv, Extends(heap, heap'),
           \A k \in Ids : \/ credentialOfferSessions'[k] \in {credentialOfferSessions[k], NONE}
                          \/ Carries(heap', credentialOfferSessions'[k], k),
           \A r \in Requests : proc'[r] = proc[r] \/ KnowsKeys(heap', proc'[r]),
           \A t \in tokens' : t["issuer_state"] = NONE
    PROVE  KeyInv'
<1>1. ASSUME NEW k \in Ids, Get(k)' # NONE PROVE Carries(heap', Get(k)', k)
  <2>1. k # NONE
    BY NoneAssumption DEF Ids
  <2>2. CASE credentialOfferSessions'[k] = credentialOfferSessions[k]
    <3>1. /\ Get(k) = credentialOfferSessions[k] /\ Get(k)' = Get(k)
          /\ Get(k) \in Offers
      BY <1>1, <2>1, <2>2 DEF Get, TInv, TypeOK
    <3> QED
      BY <1>1, <3>1 DEF KeyInv, Carries, Extends
  <2> QED
    BY <1>1, <2>1, <2>2 DEF Get
<1>2. ASSUME NEW r \in Requests PROVE KnowsKeys(heap', proc'[r])
  BY StillKnows DEF KeyInv
<1> QED
  BY <1>1, <1>2 DEF KeyInv, Carries, KnowsKeys

LEMMA IdleKnows == ASSUME NEW h PROVE KnowsKeys(h, Idle)
BY DEF KnowsKeys, Idle

\* A request that ends knows its keys trivially.
LEMMA EndsKnows ==
    ASSUME TInv, NEW r \in Requests, Ends(r), NEW h
    PROVE  \A q \in Requests : proc'[q] = proc[q] \/ KnowsKeys(h, proc'[q])
<1>1. \A q \in Requests : proc'[q] \in {proc[q], Idle}
  BY DEF Ends, TInv, TypeOK
<1> QED
  BY <1>1, IdleKnows

\* Steps that store no session, hand out no token and let no request go on
LEMMA KeysQuiet ==
    ASSUME TInv, TInv', KeyInv, Extends(heap, heap'), UNCHANGED tokens,
           \A k \in Ids : credentialOfferSessions'[k] \in {credentialOfferSessions[k], NONE},
           \A r \in Requests : proc'[r] \in {proc[r], Idle}
    PROVE  KeyInv'
BY KeysKept, IdleKnows DEF KeyInv

LEMMA EndsQuiet ==
    ASSUME TInv, TInv', KeyInv, Extends(heap, heap'), UNCHANGED tokens,
           UNCHANGED credentialOfferSessions, NEW r \in Requests, Ends(r)
    PROVE  KeyInv'
BY KeysQuiet DEF Ends, TInv, TypeOK

LEMMA IdleQuiet ==
    ASSUME TInv, TInv', KeyInv, Extends(heap, heap'),
           UNCHANGED <<tokens, credentialOfferSessions, proc>>
    PROVE  KeyInv'
BY KeysQuiet

LEMMA CreateOfferKeys ==
    ASSUME TInv, TInv', KeyInv, Extends(heap, heap'),
           NEW o \in Offers, NEW k \in CorrIds, NEW c \in Codes \cup {NONE},
           NEW s \in Codes \cup {NONE}, NEW pin \in BOOLEAN, CreateOffer(o, k, c, s, pin)
    PROVE  KeyInv'
<1>1. heap'[o] # NONE /\ heap'[o].preAuthorizedCode = c /\ heap'[o].issuerState = s
  <2> DEFINE new == [preAuthorizedCode |-> c, issuerState |-> s,
                     txCode |-> pin, status |-> "OFFER_CREATED",
                     notification |-> NONE, authorizationCode |-> FALSE,
                     createdAt |-> now]
  <2>1. new \in Session
    BY DEF TInv, TypeOK, Session, IssueStatus
  <2>2. heap'[o] = new
    BY DEF CreateOffer, TInv, TypeOK
  <2>3. new # NONE
    BY <2>1, NoneAssumption
  <2>4. new.preAuthorizedCode = c /\ new.issuerState = s
    OBVIOUS
  <2> HIDE DEF new
  <2> QED
    BY <2>2, <2>3, <2>4
<1>2. ASSUME NEW i \in Ids
      PROVE  \/ credentialOfferSessions'[i] = credentialOfferSessions[i]
             \/ credentialOfferSessions'[i] = o /\ i \in {c, s}
  BY DEF CreateOffer
<1>3. proc' = proc /\ tokens' = tokens
  BY DEF CreateOffer
<1> QED
  BY <1>1, <1>2, <1>3, KeysKept DEF Carries, KeyInv

LEMMA TokenRequestKeys ==
    ASSUME TInv, TInv', KeyInv, Extends(heap, heap'), NEW r \in Requests, NEW c \in Codes,
           NEW tx \in {"absent", "right", "wrong"}, NEW dpop \in BOOLEAN,
           TokenRequest(r, c, tx, dpop)
    PROVE  KeyInv'
<1> DEFINE o == credentialOfferSessions[c]
           w == [Idle EXCEPT !.pc = "signToken", !.pre = o, !.code = c]
<1>1. o \in Offers /\ heap[o] # NONE
  BY Fetched, NoneAssumption DEF TokenRequest, Get, Ids, TInv, TypeOK
<1>2. w.pc = "signToken" /\ w.pre = o /\ w.code = c
  BY DEF Idle
<1>3. proc' # proc => heap[o].preAuthorizedCode = c
  BY DEF TokenRequest, GoesOnToSign, AcceptsTokenRequest
<1>4. proc' = proc \/ proc' = [proc EXCEPT ![r] = w]
  BY DEF TokenRequest, Waits
<1> HIDE DEF w, o
<1>5. proc' # proc => KnowsKeys(heap', w)
  BY <1>1, <1>2, <1>3 DEF KnowsKeys, Extends
<1>6. \A q \in Requests : proc'[q] = proc[q] \/ KnowsKeys(heap', proc'[q])
  BY <1>4, <1>5 DEF TInv, TypeOK
<1> QED
  BY <1>6, KeysKept DEF TokenRequest, stores, KeyInv

LEMMA TokenSignedKeys ==
    ASSUME TInv, TInv', KeyInv, Extends(heap, heap'), NEW r \in Requests, TokenSigned(r)
    PROVE  KeyInv'
<1> DEFINE p == proc[r]
<1>1. p.pre \in Offers /\ heap[p.pre] # NONE /\ heap[p.pre].preAuthorizedCode = p.code
  BY InFlightType DEF TokenSigned, TInv, Held, KeyInv, KnowsKeys, Continuation
<1>2. \A k \in Ids : \/ credentialOfferSessions'[k] = credentialOfferSessions[k]
                     \/ Carries(heap', credentialOfferSessions'[k], k)
  BY <1>1 DEF TokenSigned, Stored, Carries, Extends, TInv, TypeOK
<1>3. \A t \in tokens' : t["issuer_state"] = NONE
  BY DEF TokenSigned, InternalToken, KeyInv, ClaimNames
<1> QED
  BY <1>2, <1>3, EndsKnows, KeysKept DEF TokenSigned

LEMMA ChallengeRequestKeys ==
    ASSUME TInv, TInv', KeyInv, Extends(heap, heap'), NEW r \in Requests,
           NEW c \in Codes, ChallengeRequest(r, c)
    PROVE  KeyInv'
<1> DEFINE o == credentialOfferSessions[c]
           w == [Idle EXCEPT !.pc = "challenge", !.auth = o, !.state = c]
<1>1. c \in Ids /\ c # NONE /\ Get(c) = o /\ o # NONE
  BY NoneAssumption DEF ChallengeRequest, Get, Ids
<1>2. o \in Offers /\ Carries(heap, o, c)
  BY <1>1 DEF KeyInv, TInv, TypeOK
<1>3. w.pc = "challenge" /\ w.auth = o /\ w.state = c
  BY DEF Idle
<1>4. KnowsKeys(heap', w)
  <2>1. Carries(heap', o, c)
    BY <1>2 DEF Carries, Extends
  <2> HIDE DEF w, o
  <2> QED
    BY <1>3, <2>1 DEF KnowsKeys
<1>5. \A q \in Requests : proc'[q] = proc[q] \/ KnowsKeys(heap', proc'[q])
  BY <1>4 DEF ChallengeRequest, Waits, TInv, TypeOK
<1> QED
  BY <1>5, KeysKept DEF ChallengeRequest, stores, KeyInv

LEMMA ChallengeVerifiedKeys ==
    ASSUME TInv, TInv', KeyInv, Extends(heap, heap'), NEW r \in Requests, ChallengeVerified(r)
    PROVE  KeyInv'
<1> DEFINE p == proc[r]
<1>1. p.auth \in Offers /\ Carries(heap, p.auth, p.state)
  BY InFlightType DEF ChallengeVerified, TInv, Held, KeyInv, KnowsKeys, Continuation
<1>2. \A k \in Ids : \/ credentialOfferSessions'[k] = credentialOfferSessions[k]
                     \/ Carries(heap', credentialOfferSessions'[k], k)
  BY <1>1 DEF ChallengeVerified, Stored, Carries, Extends, TInv, TypeOK
<1> QED
  BY <1>2, EndsKnows, KeysKept DEF ChallengeVerified, KeyInv

LEMMA CredentialRequestKeys ==
    ASSUME TInv, TInv', KeyInv, Extends(heap, heap'), NEW r \in Requests, NEW t \in tokens,
           NEW body \in Codes \cup {NONE}, NEW n \in Nonces \cup {NONE},
           CredentialRequest(r, t, body, n)
    PROVE  KeyInv'
<1> DEFINE w == [Idle EXCEPT !.pc = "verifyProof",
                             !.code = t["preAuthorizedCode"],
                             !.state = t["issuer_state"],
                             !.body = body, !.nonce = n, !.iat = now]
<1>1. w.pc = "verifyProof" /\ w.state = NONE
  BY DEF Idle, KeyInv
<1>2. proc' = [proc EXCEPT ![r] = w]
  BY DEF CredentialRequest, Waits
<1> HIDE DEF w
<1>3. \A q \in Requests : proc'[q] = proc[q] \/ KnowsKeys(heap', proc'[q])
  BY <1>1, <1>2 DEF KnowsKeys, TInv, TypeOK
<1> QED
  BY <1>3, KeysKept DEF CredentialRequest, stores, KeyInv

LEMMA ProofVerifiedKeys ==
    ASSUME TInv, TInv', KeyInv, Extends(heap, heap'), NEW r \in Requests, ProofVerified(r)
    PROVE  KeyInv'
<1> DEFINE p == proc[r]
           pre == PreAuthSession(p)
           auth == AuthSession(p)
           w == [p EXCEPT !.pc = "issue", !.pre = pre, !.auth = auth,
                          !.state = OrElse(p.state, IssuerStateOf(p))]
<1>1. p \in Continuation /\ p.pc = "verifyProof" /\ p.state = NONE
  BY DEF ProofVerified, KeyInv, KnowsKeys, TInv, TypeOK
<1>2. /\ pre \in Offers \cup {NONE} /\ auth \in Offers \cup {NONE}
      /\ pre # NONE => heap[pre] # NONE
      /\ auth # NONE => heap[auth] # NONE
  BY <1>1, ValidatedSessions
<1>3. /\ pre # NONE => heap[pre].preAuthorizedCode = p.code
      /\ auth # NONE => heap[auth].issuerState = IssuerStateOf(p)
  BY DEF ProofVerified, ProofAccepted
<1>4. /\ w.pc = "issue" /\ w.pre = pre /\ w.auth = auth /\ w.code = p.code
      /\ w.state = IssuerStateOf(p)
  BY <1>1 DEF Continuation, OrElse
<1>5. proc' = [proc EXCEPT ![r] = w]
  BY DEF ProofVerified, Waits
<1> HIDE DEF w, pre, auth
<1>6. KnowsKeys(heap', w)
  BY <1>2, <1>3, <1>4 DEF KnowsKeys, Extends
<1>7. \A q \in Requests : proc'[q] = proc[q] \/ KnowsKeys(heap', proc'[q])
  BY <1>5, <1>6 DEF TInv, TypeOK
<1> QED
  BY <1>7, KeysKept DEF ProofVerified, stores, KeyInv

\* A signed credential's session is stored under a key it carries.
LEMMA SignKeys ==
    ASSUME TInv, TInv', KeyInv, Extends(heap, heap'), NEW r \in Requests,
           proc[r].pc = "issue", Sign(proc[r]), Ends(r), UNCHANGED tokens
    PROVE  KeyInv'
<1> DEFINE o == IssuingSession(proc[r])
           key == IssuingKey(proc[r])
<1>1. o \in Offers /\ heap[o] # NONE /\ key \in Codes
  BY Issuing
<1>2. Carries(heap, o, key)
  <2>1. /\ proc[r].pre # NONE => heap[proc[r].pre].preAuthorizedCode = proc[r].code
        /\ proc[r].auth # NONE => heap[proc[r].auth].issuerState = proc[r].state
    BY DEF KeyInv, KnowsKeys
  <2>2. o \in {proc[r].pre, proc[r].auth} /\ o # NONE
    BY <1>1, NoneAssumption DEF IssuingSession, OrElse
  <2>3. CASE proc[r].pre # NONE
    BY <1>1, <2>1, <2>3 DEF Carries, IssuingSession, IssuingKey, OrElse
  <2>4. CASE proc[r].pre = NONE
    BY <1>1, <2>1, <2>2, <2>4 DEF Carries, IssuingSession, IssuingKey, OrElse
  <2> QED
    BY <2>3, <2>4
<1>3. credentialOfferSessions' = Stored(key, o)
  BY DEF Sign
<1> HIDE DEF o, key
<1>4. \A k \in Ids : \/ credentialOfferSessions'[k] = credentialOfferSessions[k]
                     \/ Carries(heap', credentialOfferSessions'[k], k)
  BY <1>1, <1>2, <1>3 DEF Stored, Carries, Extends, TInv, TypeOK
<1> QED
  BY <1>4, EndsKnows, KeysKept DEF KeyInv

LEMMA KeyInit == Init => KeyInv
BY NoneAssumption, IdleKnows DEF Init, KeyInv, Get

LEMMA KeyNext ==
    ASSUME own \/ "issuer_state" \notin ExternalClaims, TInv, KeyInv, [Next]_vars
    PROVE  KeyInv'
<1>1. TInv' /\ Extends(heap, heap')
  BY TypeNext, TypeStutter, SameHeap DEF TInv, vars
<1>2. ASSUME NEW o \in Offers, NEW k \in CorrIds, NEW c \in Codes \cup {NONE},
             NEW s \in Codes \cup {NONE}, NEW pin \in BOOLEAN, CreateOffer(o, k, c, s, pin)
      PROVE  KeyInv'
  BY <1>1, <1>2, CreateOfferKeys
<1>3. ASSUME NEW id \in Ids, DeleteOffer(id) PROVE KeyInv'
  BY <1>1, <1>3, KeysQuiet DEF DeleteOffer
<1>4. ASSUME NEW r \in Requests, Arrive(r) PROVE KeyInv'
  BY <1>1, <1>4, TokenRequestKeys, ChallengeRequestKeys, CredentialRequestKeys DEF Arrive
<1>5. ASSUME NEW r \in Requests, Settle(r) PROVE KeyInv'
  <2>1. CASE TokenSigned(r)
    BY <1>1, <2>1, TokenSignedKeys
  <2>2. CASE TokenSigningFails(r) \/ ChallengeRejected(r)
    BY <1>1, <2>2, EndsQuiet DEF TokenSigningFails, ChallengeRejected, stores
  <2>3. CASE ChallengeVerified(r)
    BY <1>1, <2>3, ChallengeVerifiedKeys
  <2>4. CASE ProofRejected(r) \/ (\E good \in BOOLEAN : ProofInvalid(r, good)) \/ IssuanceFails(r)
    BY <1>1, <2>4, EndsQuiet DEF ProofRejected, ProofInvalid, IssuanceFails, RequestFails, stores
  <2>5. CASE ProofVerified(r)
    BY <1>1, <2>5, ProofVerifiedKeys
  <2>6. CASE CredentialIssued(r) \/ CredentialIssuedThenRejected(r)
    BY <1>1, <2>6, SignKeys DEF CredentialIssued, CredentialIssuedThenRejected
  <2> QED
    BY <1>5, <2>1, <2>2, <2>3, <2>4, <2>5, <2>6 DEF Settle
<1>6. ASSUME NEW o \in Offers, ExternalAuthorization(o) PROVE KeyInv'
  <2>1. ExternalToken(o)["issuer_state"] = NONE
    BY <1>6 DEF ExternalAuthorization, ExternalToken, ClaimNames
  <2>2. \A t \in tokens' : t["issuer_state"] = NONE
    BY <1>6, <2>1 DEF ExternalAuthorization, KeyInv
  <2> QED
    BY <1>1, <1>6, <2>2, KeysKept DEF ExternalAuthorization, stores
<1>7. ASSUME NEW n \in Nonces, Nonce(n) PROVE KeyInv'
  BY <1>1, <1>7, IdleQuiet DEF Nonce
<1>8. ASSUME NEW t \in tokens, MalformedCredentialRequest(t) PROVE KeyInv'
  BY <1>1, <1>8, IdleQuiet DEF MalformedCredentialRequest, stores
<1>9. ASSUME NEW t \in tokens, NEW id \in Offers, NEW e \in Events,
             NotificationRequest(t, id, e)
      PROVE  KeyInv'
  BY <1>1, <1>9, IdleQuiet DEF NotificationRequest, stores
<1>10. CASE Tick
  BY <1>1, <1>10, IdleQuiet DEF Tick, stores
<1>11. CASE CleanupSessions
  <2>1. \A k \in Ids : credentialOfferSessions'[k] \in {credentialOfferSessions[k], NONE}
    BY <1>11, NoneAssumption DEF CleanupSessions, Get, Ids
  <2> QED
    BY <1>1, <1>11, <2>1, KeysQuiet DEF CleanupSessions
<1>12. CASE CleanupUris \/ CleanupNonces
  BY <1>1, <1>12, IdleQuiet DEF CleanupUris, CleanupNonces
<1>13. CASE UNCHANGED vars
  BY <1>1, <1>13, IdleQuiet DEF vars
<1> QED
  BY <1>2, <1>3, <1>4, <1>5, <1>6, <1>7, <1>8, <1>9, <1>10, <1>11, <1>12, <1>13 DEF Next

\* A key finds only the session that carries it, for any number of offers and
\* concurrent requests, even when wallets name foreign issuer states and
\* creators reuse codes, as long as no token carries an issuer_state, which the
\* issuer's own tokens never do (StoredUnderOwnKey; run issuer_keys).
THEOREM OwnKeyCorrect ==
    ASSUME "issuer_state" \notin ExternalClaims
    PROVE  Spec => []StoredUnderOwnKey
<1>1. TInv /\ KeyInv => StoredUnderOwnKey
  BY NoneAssumption DEF TInv, KeyInv, StoredUnderOwnKey, Carries, Get, Ids
<1>2. Spec => [](TInv /\ KeyInv)
  <2>1. Init => TInv /\ KeyInv
    BY TypeInit, KeyInit
  <2>2. TInv /\ KeyInv /\ [Next]_vars => (TInv /\ KeyInv)'
    BY KeyNext, TypeNext, TypeStutter
  <2> QED
    BY <2>1, <2>2, PTL DEF Spec
<1> QED
  BY <1>1, <1>2, PTL

-----------------------------------------------------------------------------
(* Sessions that come back *)

\* Where a key found nothing, a step stores a new session or one that a request
\* held before.
LEMMA StoringStep ==
    ASSUME TInv, [Next]_vars, NEW k \in Ids,
           Get(k) = NONE, credentialOfferSessions'[k] # NONE
    PROVE  \/ heap[credentialOfferSessions'[k]] = NONE
           \/ \E r \in Requests : Holds(r, credentialOfferSessions'[k])
<1>0. credentialOfferSessions[k] = NONE
  BY NoneAssumption DEF Get, Ids
<1>1. ASSUME NEW o \in Offers, NEW i \in CorrIds, NEW c \in Codes \cup {NONE},
             NEW s \in Codes \cup {NONE}, NEW pin \in BOOLEAN, CreateOffer(o, i, c, s, pin)
      PROVE  heap[credentialOfferSessions'[k]] = NONE
  BY <1>0, <1>1 DEF CreateOffer
<1>2. ASSUME NEW id \in Ids, DeleteOffer(id) PROVE FALSE
  BY <1>0, <1>2 DEF DeleteOffer
<1>3. ASSUME NEW r \in Requests, Arrive(r) PROVE FALSE
  BY <1>0, <1>3 DEF Arrive, TokenRequest, ChallengeRequest, CredentialRequest, stores
<1>4. ASSUME NEW r \in Requests, Settle(r) PROVE Holds(r, credentialOfferSessions'[k])
  <2>1. CASE TokenSigned(r)
    BY <1>0, <2>1 DEF TokenSigned, Stored, Holds, TInv, TypeOK
  <2>2. CASE TokenSigningFails(r) \/ ChallengeRejected(r)
    BY <1>0, <2>2 DEF TokenSigningFails, ChallengeRejected, stores
  <2>3. CASE ChallengeVerified(r)
    BY <1>0, <2>3 DEF ChallengeVerified, Stored, Holds, TInv, TypeOK
  <2>4. CASE ProofRejected(r) \/ (\E good \in BOOLEAN : ProofInvalid(r, good)) \/ IssuanceFails(r)
    BY <1>0, <2>4 DEF ProofRejected, ProofInvalid, IssuanceFails, RequestFails, stores
  <2>5. CASE ProofVerified(r)
    BY <1>0, <2>5 DEF ProofVerified, stores
  <2>6. CASE CredentialIssued(r) \/ CredentialIssuedThenRejected(r)
    <3>1. credentialOfferSessions' = Stored(IssuingKey(proc[r]), IssuingSession(proc[r]))
      BY <2>6 DEF CredentialIssued, CredentialIssuedThenRejected, Sign
    <3>2. credentialOfferSessions'[k] = IssuingSession(proc[r])
      BY <1>0, <3>1 DEF Stored, TInv, TypeOK
    <3> QED
      BY <3>2 DEF IssuingSession, OrElse, Holds
  <2> QED
    BY <1>4, <2>1, <2>2, <2>3, <2>4, <2>5, <2>6 DEF Settle
<1>5. ASSUME NEW o \in Offers, ExternalAuthorization(o) PROVE FALSE
  BY <1>0, <1>5 DEF ExternalAuthorization, stores
<1>6. ASSUME NEW n \in Nonces, Nonce(n) PROVE FALSE
  BY <1>0, <1>6 DEF Nonce
<1>7. ASSUME NEW t \in tokens, MalformedCredentialRequest(t) PROVE FALSE
  BY <1>0, <1>7 DEF MalformedCredentialRequest, stores
<1>8. ASSUME NEW t \in tokens, NEW id \in Offers, NEW e \in Events,
             NotificationRequest(t, id, e)
      PROVE  FALSE
  BY <1>0, <1>8 DEF NotificationRequest, stores
<1>9. CASE Tick \/ CleanupUris \/ CleanupNonces \/ UNCHANGED vars
  BY <1>0, <1>9 DEF Tick, CleanupUris, CleanupNonces, stores, vars
<1>10. CASE CleanupSessions
  BY <1>0, <1>10 DEF CleanupSessions, Get
<1> QED
  BY <1>1, <1>2, <1>3, <1>4, <1>5, <1>6, <1>7, <1>8, <1>9, <1>10 DEF Next

\* However many requests store sessions after their callbacks, a deleted or
\* expired session returns only through one that fetched it before
\* (StoredOnlyByCreatorOrHolder; run issuer_concurrent).
THEOREM ReturnsOnlyThroughHolder == Spec => StoredOnlyByCreatorOrHolder
<1>1. TInv /\ [Next]_vars =>
        [\A k \in Ids :
           LET o == credentialOfferSessions'[k] IN
           Get(k) = NONE /\ o # NONE => \/ heap[o] = NONE
                                        \/ \E r \in Requests : Holds(r, o)]_vars
  BY StoringStep
<1> QED
  BY <1>1, TypeInvariant, PTL DEF Spec, StoredOnlyByCreatorOrHolder

-----------------------------------------------------------------------------
(* The use of nonces *)

\* NonceUseBounded needs to know that a nonce that served was handed out, since
\* one that is handed out is new, and that so were those of requests.
NonceInv ==
    /\ \A n \in Nonces : uses[n] > 0 => n \in minted
    /\ \A r \in Requests : proc[r].nonce \in minted \cup {NONE}
    /\ NonceUseBounded

\* Requests in flight for a nonce are never more than there are requests.
LEMMA InFlightFinite ==
    ASSUME IsFiniteSet(Requests), NEW n
    PROVE  /\ IsFiniteSet(InFlight(n)) /\ InFlight(n) \subseteq Requests
           /\ Cardinality(InFlight(n)) \in Nat /\ Cardinality(Requests) \in Nat
           /\ Cardinality(InFlight(n)) <= Cardinality(Requests)
           /\ \A S \in SUBSET InFlight(n) : /\ Cardinality(S) \in Nat
                                            /\ Cardinality(S) <= Cardinality(InFlight(n))
<1>1. InFlight(n) \in SUBSET Requests
  BY DEF InFlight
<1>2. IsFiniteSet(InFlight(n)) /\ Cardinality(InFlight(n)) <= Cardinality(Requests)
  BY <1>1, FS_Subset
<1>3. \A S \in SUBSET InFlight(n) : IsFiniteSet(S) /\ Cardinality(S) <= Cardinality(InFlight(n))
  BY <1>2, FS_Subset
<1> QED
  BY <1>1, <1>2, <1>3, FS_CardinalityType

\* Steps that sign nothing and hand out no nonce: no request with a nonce that
\* served comes to issue.
LEMMA NoncesQuiet ==
    ASSUME IsFiniteSet(Requests), TInv, NonceInv, UNCHANGED <<minted, uses>>,
           \A n \in Nonces : cNonces'[n] \in {cNonces[n], NONE},
           \A r \in Requests : /\ proc'[r].nonce \in minted \cup {NONE}
                               /\ proc'[r].pc = "issue" =>
                                     \/ proc'[r] = proc[r]
                                     \/ \A n \in Nonces : proc'[r].nonce = n => uses[n] = 0
    PROVE  NonceInv'
<1>1. ASSUME NEW n \in Nonces, uses[n] > 0
      PROVE  cNonces'[n] = NONE /\ uses[n] + Cardinality(InFlight(n)') <= Cardinality(Requests)
  <2>1. uses[n] \in Nat
    BY DEF TInv, TypeOK
  <2>2. ASSUME NEW r \in Requests, proc'[r].pc = "issue", proc'[r].nonce = n
        PROVE  proc[r].pc = "issue" /\ proc[r].nonce = n
    <3>1. uses[n] # 0
      BY <1>1, <2>1
    <3> QED
      BY <2>2, <3>1
  <2>3. InFlight(n)' \in SUBSET InFlight(n)
    BY <2>2 DEF InFlight
  <2>4. cNonces[n] = NONE /\ uses[n] + Cardinality(InFlight(n)) <= Cardinality(Requests)
    BY <1>1 DEF NonceInv, NonceUseBounded
  <2> QED
    BY <2>1, <2>3, <2>4, InFlightFinite
<1>2. NonceUseBounded'
  BY <1>1 DEF NonceUseBounded
<1> QED
  BY <1>2 DEF NonceInv

LEMMA EndsNonces ==
    ASSUME IsFiniteSet(Requests), TInv, NonceInv, NEW r \in Requests, Ends(r),
           UNCHANGED <<minted, uses, cNonces>>
    PROVE  NonceInv'
<1>1. \A q \in Requests : proc'[q] \in {proc[q], Idle}
  BY DEF Ends, TInv, TypeOK
<1>2. \A q \in Requests : /\ proc'[q].nonce \in minted \cup {NONE}
                          /\ proc'[q].pc = "issue" => proc'[q] = proc[q]
  BY <1>1 DEF Idle, NonceInv
<1> QED
  BY <1>2, NoncesQuiet

\* A request starts to wait for another callback than the signer of credentials.
LEMMA WaitsNonces ==
    ASSUME IsFiniteSet(Requests), TInv, NonceInv, NEW r \in Requests, NEW w, Waits(r, w),
           w.pc # "issue", w.nonce \in minted \cup {NONE}, UNCHANGED <<minted, uses, cNonces>>
    PROVE  NonceInv'
<1>1. \A q \in Requests : proc'[q] \in {proc[q], w}
  BY DEF Waits, TInv, TypeOK
<1> QED
  BY <1>1, NoncesQuiet DEF NonceInv

LEMMA TokenRequestNonces ==
    ASSUME IsFiniteSet(Requests), TInv, NonceInv, NEW r \in Requests, NEW c \in Codes,
           NEW tx \in {"absent", "right", "wrong"}, NEW dpop \in BOOLEAN,
           TokenRequest(r, c, tx, dpop)
    PROVE  NonceInv'
<1> DEFINE w == [Idle EXCEPT !.pc = "signToken", !.pre = credentialOfferSessions[c], !.code = c]
<1>1. w.pc = "signToken" /\ w.nonce = NONE
  BY DEF Idle
<1>2. UNCHANGED proc \/ Waits(r, w)
  BY DEF TokenRequest
<1>3. UNCHANGED <<minted, uses, cNonces>>
  BY DEF TokenRequest, stores
<1> HIDE DEF w
<1>4. CASE UNCHANGED proc
  BY <1>3, <1>4, NoncesQuiet DEF NonceInv
<1>5. CASE Waits(r, w)
  BY <1>1, <1>3, <1>5, WaitsNonces
<1> QED
  BY <1>2, <1>4, <1>5

LEMMA ArriveNonces ==
    ASSUME IsFiniteSet(Requests), TInv, NonceInv, NEW r \in Requests, Arrive(r)
    PROVE  NonceInv'
<1>1. ASSUME NEW c \in Codes, ChallengeRequest(r, c) PROVE NonceInv'
  <2> DEFINE w == [Idle EXCEPT !.pc = "challenge", !.auth = credentialOfferSessions[c], !.state = c]
  <2>1. w.pc = "challenge" /\ w.nonce = NONE
    BY DEF Idle
  <2>2. Waits(r, w) /\ UNCHANGED <<minted, uses, cNonces>>
    BY <1>1 DEF ChallengeRequest, stores, history
  <2> HIDE DEF w
  <2> QED
    BY <2>1, <2>2, WaitsNonces
<1>2. ASSUME NEW t \in tokens, NEW body \in Codes \cup {NONE}, NEW n \in Nonces \cup {NONE},
             CredentialRequest(r, t, body, n)
      PROVE  NonceInv'
  <2> DEFINE w == [Idle EXCEPT !.pc = "verifyProof",
                               !.code = t["preAuthorizedCode"],
                               !.state = t["issuer_state"],
                               !.body = body, !.nonce = n, !.iat = now]
  <2>1. w.pc = "verifyProof" /\ w.nonce = n
    BY DEF Idle
  <2>2. Waits(r, w) /\ n \in minted \cup {NONE} /\ UNCHANGED <<minted, uses, cNonces>>
    BY <1>2 DEF CredentialRequest, stores, history
  <2> HIDE DEF w
  <2> QED
    BY <2>1, <2>2, WaitsNonces
<1> QED
  BY <1>1, <1>2, TokenRequestNonces DEF Arrive

\* A request that passes validation has a nonce the endpoint still knows, so
\* none that served.
LEMMA ProofVerifiedNonces ==
    ASSUME IsFiniteSet(Requests), TInv, NonceInv, NEW r \in Requests, ProofVerified(r)
    PROVE  NonceInv'
<1> DEFINE p == proc[r]
           w == [p EXCEPT !.pc = "issue", !.pre = PreAuthSession(p), !.auth = AuthSession(p),
                          !.state = OrElse(p.state, IssuerStateOf(p))]
<1>1. w.nonce = p.nonce
  BY DEF TInv, TypeOK, Continuation
<1>2. \A q \in Requests : proc'[q] = proc[q] \/ (q = r /\ proc'[q] = w)
  BY DEF ProofVerified, Waits, TInv, TypeOK
<1>3. \A n \in Nonces : p.nonce = n => cNonces[n] # NONE
  BY NoneAssumption DEF ProofVerified, ProofAccepted, NonceKnown
<1>4. \A n \in Nonces : p.nonce = n => uses[n] = 0
  BY <1>3 DEF NonceInv, NonceUseBounded, TInv, TypeOK
<1>5. UNCHANGED <<minted, uses, cNonces>>
  BY DEF ProofVerified, stores, history
<1> HIDE DEF w
<1>6. \A q \in Requests : /\ proc'[q].nonce \in minted \cup {NONE}
                          /\ \/ proc'[q] = proc[q]
                             \/ \A n \in Nonces : proc'[q].nonce = n => uses[n] = 0
  BY <1>1, <1>2, <1>4 DEF NonceInv
<1> QED
  BY <1>5, <1>6, NoncesQuiet

\* A credential uses its nonce once more, removes it, and its request is no
\* longer in flight.
LEMMA SignNonces ==
    ASSUME IsFiniteSet(Requests), TInv, NonceInv, NEW r \in Requests,
           proc[r].pc = "issue", Sign(proc[r]), Ends(r), UNCHANGED minted
    PROVE  NonceInv'
<1> DEFINE n0 == proc[r].nonce
<1>0. n0 \in Nonces \cup {NONE} /\ Idle.pc # "issue" /\ Idle.nonce = NONE
  BY DEF TInv, TypeOK, Continuation, Idle
<1>1. CASE n0 = NONE
  BY <1>1, EndsNonces DEF Sign, SpendNonce
<1>2. CASE n0 # NONE
  <2>1. /\ n0 \in Nonces /\ n0 \in minted
        /\ cNonces' = [cNonces EXCEPT ![n0] = NONE]
        /\ uses' = [uses EXCEPT ![n0] = @ + 1]
    BY <1>0, <1>2 DEF Sign, SpendNonce, NonceInv
  <2>2. \A q \in Requests : proc'[q] = IF q = r THEN Idle ELSE proc[q]
    BY DEF Ends, TInv, TypeOK
  <2>3. \A n \in Nonces : /\ InFlight(n)' = InFlight(n) \ {r}
                          /\ uses[n] \in Nat
    BY <1>0, <2>2 DEF InFlight, TInv, TypeOK
  <2>4. ASSUME NEW n \in Nonces, uses'[n] > 0
        PROVE  /\ n \in minted /\ cNonces'[n] = NONE
               /\ uses'[n] + Cardinality(InFlight(n)') <= Cardinality(Requests)
    <3>1. CASE n = n0
      <4>1. r \in InFlight(n) /\ uses'[n] = uses[n] + 1 /\ cNonces'[n] = NONE
        BY <2>1, <3>1 DEF InFlight, TInv, TypeOK
      <4>2. Cardinality(InFlight(n)') = Cardinality(InFlight(n)) - 1
        BY <2>3, <4>1, InFlightFinite, FS_RemoveElement
      <4>3. uses[n] + Cardinality(InFlight(n)) <= Cardinality(Requests)
        <5>1. CASE uses[n] = 0
          BY <5>1, InFlightFinite
        <5>2. CASE uses[n] # 0
          BY <2>3, <5>2 DEF NonceInv, NonceUseBounded
        <5> QED
          BY <5>1, <5>2
      <4> QED
        BY <2>1, <2>3, <3>1, <4>1, <4>2, <4>3, InFlightFinite
    <3>2. CASE n # n0
      <4>1. uses'[n] = uses[n] /\ cNonces'[n] = cNonces[n]
        BY <2>1, <3>2 DEF TInv, TypeOK
      <4>2. InFlight(n)' = InFlight(n)
        BY <2>3, <3>2 DEF InFlight
      <4> QED
        BY <2>4, <4>1, <4>2 DEF NonceInv, NonceUseBounded
    <3> QED
      BY <3>1, <3>2
  <2>5. \A q \in Requests : proc'[q].nonce \in minted \cup {NONE}
    BY <1>0, <2>2 DEF NonceInv
  <2> QED
    BY <2>4, <2>5 DEF NonceInv, NonceUseBounded
<1> QED
  BY <1>1, <1>2

LEMMA NonceNonces ==
    ASSUME IsFiniteSet(Requests), TInv, NonceInv, NEW n \in Nonces, Nonce(n)
    PROVE  NonceInv'
<1>1. /\ minted' = minted \cup {n} /\ n \notin minted /\ UNCHANGED <<uses, proc>>
      /\ \A m \in Nonces : m # n => cNonces'[m] = cNonces[m]
  BY DEF Nonce, TInv, TypeOK
<1>2. \A m \in Nonces : uses[m] > 0 => m # n
  BY <1>1 DEF NonceInv
<1>3. \A m \in Nonces : InFlight(m)' = InFlight(m)
  BY <1>1 DEF InFlight
<1>4. NonceUseBounded'
  BY <1>1, <1>2, <1>3 DEF NonceInv, NonceUseBounded
<1> QED
  BY <1>1, <1>4 DEF NonceInv

LEMMA NonceInit == Init /\ IsFiniteSet(Requests) => NonceInv
BY DEF Init, NonceInv, NonceUseBounded, Idle

LEMMA NonceNext ==
    ASSUME IsFiniteSet(Requests), TInv, NonceInv, [Next]_vars
    PROVE  NonceInv'
<1>1. CASE UNCHANGED <<minted, uses, proc, cNonces>>
  BY <1>1, NoncesQuiet DEF NonceInv
<1>2. ASSUME NEW o \in Offers, NEW k \in CorrIds, NEW c \in Codes \cup {NONE},
             NEW s \in Codes \cup {NONE}, NEW pin \in BOOLEAN, CreateOffer(o, k, c, s, pin)
      PROVE  NonceInv'
  BY <1>1, <1>2 DEF CreateOffer, history
<1>3. ASSUME NEW id \in Ids, DeleteOffer(id) PROVE NonceInv'
  BY <1>1, <1>3 DEF DeleteOffer, history
<1>4. ASSUME NEW r \in Requests, Settle(r) PROVE NonceInv'
  <2>1. CASE \/ TokenSigned(r) \/ TokenSigningFails(r)
             \/ ChallengeVerified(r) \/ ChallengeRejected(r)
    BY <2>1, EndsNonces
       DEF TokenSigned, TokenSigningFails, ChallengeVerified, ChallengeRejected, stores, history
  <2>2. CASE ProofRejected(r) \/ (\E good \in BOOLEAN : ProofInvalid(r, good)) \/ IssuanceFails(r)
    BY <2>2, EndsNonces
       DEF ProofRejected, ProofInvalid, IssuanceFails, RequestFails, stores, history
  <2>3. CASE ProofVerified(r)
    BY <2>3, ProofVerifiedNonces
  <2>4. CASE CredentialIssued(r) \/ CredentialIssuedThenRejected(r)
    BY <2>4, SignNonces DEF CredentialIssued, CredentialIssuedThenRejected
  <2> QED
    BY <1>4, <2>1, <2>2, <2>3, <2>4 DEF Settle
<1>5. ASSUME NEW o \in Offers, ExternalAuthorization(o) PROVE NonceInv'
  BY <1>1, <1>5 DEF ExternalAuthorization, stores, history
<1>6. ASSUME NEW t \in tokens, MalformedCredentialRequest(t) PROVE NonceInv'
  BY <1>1, <1>6 DEF MalformedCredentialRequest, stores, history
<1>7. ASSUME NEW t \in tokens, NEW id \in Offers, NEW e \in Events,
             NotificationRequest(t, id, e)
      PROVE  NonceInv'
  BY <1>1, <1>7 DEF NotificationRequest, stores
<1>8. CASE Tick \/ CleanupSessions \/ CleanupUris \/ UNCHANGED vars
  BY <1>1, <1>8 DEF Tick, CleanupSessions, CleanupUris, stores, history, vars
<1>9. CASE CleanupNonces
  <2>1. \A n \in Nonces : cNonces'[n] \in {cNonces[n], NONE}
    BY <1>9 DEF CleanupNonces
  <2> QED
    BY <1>9, <2>1, NoncesQuiet DEF CleanupNonces, history, NonceInv
<1> QED
  BY <1>2, <1>3, <1>4, <1>5, <1>6, <1>7, <1>8, <1>9, ArriveNonces, NonceNonces DEF Next

\* A nonce serves at most as many credentials as requests were in flight
\* together, for any number of them, and serves no later one
\* (NonceUseBounded; run issuer_concurrent).
THEOREM NoncesBounded ==
    ASSUME IsFiniteSet(Requests)
    PROVE  Spec => []NonceUseBounded
<1>1. Init => TInv /\ NonceInv
  BY TypeInit, NonceInit
<1>2. TInv /\ NonceInv /\ [Next]_vars => (TInv /\ NonceInv)'
  BY TypeNext, TypeStutter, NonceNext
<1>3. NonceInv => NonceUseBounded
  BY DEF NonceInv
<1> QED
  BY <1>1, <1>2, <1>3, PTL DEF Spec

-----------------------------------------------------------------------------
(* Sessions keep their keys, and no two have one in common *)

\* What a step does to the session objects: it creates one, writes a status
\* that does not report on a notification, or is one of the two that write
\* something else.
LEMMA HeapSteps ==
    ASSUME TInv, [Next]_vars
    PROVE  \/ \E o \in Offers, k \in CorrIds, c, s \in Codes \cup {NONE}, pin \in BOOLEAN :
                CreateOffer(o, k, c, s, pin)
           \/ \E objs \in SUBSET (Offers \cup {NONE}), st \in IssueStatus \ NotificationStatus :
                /\ \A o \in Offers \cap objs : heap[o] # NONE
                /\ heap' = WithStatus(objs, st)
           \/ \E r \in Requests : ChallengeVerified(r)
           \/ \E t \in tokens, id \in Offers, e \in Events : NotificationRequest(t, id, e)
           \/ UNCHANGED heap
<1> DEFINE Writes(objs, st) ==
             /\ objs \in SUBSET (Offers \cup {NONE}) /\ st \in IssueStatus \ NotificationStatus
             /\ \A o \in Offers \cap objs : heap[o] # NONE
             /\ heap' = WithStatus(objs, st)
<1>0. {"ACCESS_TOKEN_REQUESTED", "ACCESS_TOKEN_CREATED", "CREDENTIAL_REQUEST_RECEIVED",
       "CREDENTIAL_ISSUED", "ERROR"} \subseteq IssueStatus \ NotificationStatus
  BY DEF IssueStatus, NotificationStatus
<1>1. ASSUME NEW keys \in SUBSET (Codes \cup {NONE}), UpdateSessionError(keys)
      PROVE  Writes(Reached(keys), "ERROR")
  <2>1. Reached(keys) \in SUBSET (Offers \cup {NONE})
    BY Fetched DEF Reached, Ids
  <2>2. \A o \in Offers \cap Reached(keys) : heap[o] # NONE
    BY Fetched DEF Reached, Ids
  <2> QED
    BY <1>0, <1>1, <2>1, <2>2 DEF UpdateSessionError
<1>2. ASSUME NEW r \in Requests, Arrive(r)
      PROVE  UNCHANGED heap \/ \E objs, st : Writes(objs, st)
  <2>1. ASSUME NEW c \in Codes, NEW tx, NEW dpop, TokenRequest(r, c, tx, dpop)
        PROVE  Writes({credentialOfferSessions[c]}, "ACCESS_TOKEN_REQUESTED")
    <3>1. credentialOfferSessions[c] \in Offers /\ heap[credentialOfferSessions[c]] # NONE
      BY <2>1, Fetched, NoneAssumption DEF TokenRequest, Get, Ids, TInv, TypeOK
    <3> QED
      BY <1>0, <2>1, <3>1 DEF TokenRequest
  <2> QED
    BY <1>2, <2>1 DEF Arrive, ChallengeRequest, CredentialRequest
<1>3. ASSUME NEW r \in Requests, Settle(r)
      PROVE  UNCHANGED heap \/ ChallengeVerified(r) \/ \E objs, st : Writes(objs, st)
  <2>1. CASE TokenSigned(r)
    <3>1. proc[r].pre \in Offers /\ heap[proc[r].pre] # NONE
      BY <2>1, InFlightType DEF TokenSigned, TInv, Held, Continuation
    <3>2. Writes({proc[r].pre}, "ACCESS_TOKEN_CREATED")
      BY <1>0, <2>1, <3>1 DEF TokenSigned
    <3> QED
      BY <3>2
  <2>2. CASE TokenSigningFails(r) \/ ChallengeRejected(r)
    BY <2>2 DEF TokenSigningFails, ChallengeRejected
  <2>3. ASSUME NEW keys \in SUBSET (Codes \cup {NONE}), RequestFails(r, keys)
        PROVE  \E objs, st : Writes(objs, st)
    BY <1>1, <2>3 DEF RequestFails
  <2>4. CASE ProofRejected(r) \/ (\E good \in BOOLEAN : ProofInvalid(r, good)) \/ IssuanceFails(r)
    <3>1. /\ {proc[r].code, proc[r].state} \in SUBSET (Codes \cup {NONE})
          /\ IssuerStateOf(proc[r]) \in Codes \cup {NONE}
      BY DEF TInv, TypeOK, Continuation, IssuerStateOf, OrElse
    <3>2. \E keys \in SUBSET (Codes \cup {NONE}) : RequestFails(r, keys)
      BY <2>4, <3>1 DEF ProofRejected, ProofInvalid, IssuanceFails
    <3> QED
      BY <2>3, <3>2
  <2>5. CASE ProofVerified(r)
    <3>1. /\ {PreAuthSession(proc[r]), AuthSession(proc[r])} \in SUBSET (Offers \cup {NONE})
          /\ \A o \in Offers \cap {PreAuthSession(proc[r]), AuthSession(proc[r])} : heap[o] # NONE
      BY InFlightType, ValidatedSessions, NoneAssumption
    <3>2. heap' = WithStatus({PreAuthSession(proc[r]), AuthSession(proc[r])},
                             "CREDENTIAL_REQUEST_RECEIVED")
      BY <2>5 DEF ProofVerified
    <3>3. Writes({PreAuthSession(proc[r]), AuthSession(proc[r])}, "CREDENTIAL_REQUEST_RECEIVED")
      BY <1>0, <3>1, <3>2
    <3> QED
      BY <3>3
  <2>6. CASE CredentialIssued(r)
    <3>1. IssuingSession(proc[r]) \in Offers /\ heap[IssuingSession(proc[r])] # NONE
      BY <2>6, Issuing DEF CredentialIssued
    <3>2. Writes({IssuingSession(proc[r])}, "CREDENTIAL_ISSUED")
      BY <1>0, <2>6, <3>1 DEF CredentialIssued
    <3> QED
      BY <3>2
  <2>7. CASE CredentialIssuedThenRejected(r)
    <3> DEFINE p == proc[r]
               found == {IF k = IssuingKey(p) THEN IssuingSession(p) ELSE Get(k) :
                           k \in {p.code, p.state} \ {NONE}} \ {NONE}
    <3>1. IssuingSession(p) \in Offers /\ heap[IssuingSession(p)] # NONE
      BY <2>7, Issuing DEF CredentialIssuedThenRejected
    <3>2. {p.code, p.state} \subseteq Ids \cup {NONE}
      BY DEF TInv, TypeOK, Continuation, Ids
    <3>3. \A o \in found : o \in Offers \cup {NONE} /\ (o # NONE => heap[o] # NONE)
      BY <3>1, <3>2, Fetched
    <3>4. heap' = WithStatus(found, "ERROR")
      BY <2>7 DEF CredentialIssuedThenRejected
    <3> HIDE DEF found
    <3>5. Writes(found, "ERROR")
      BY <1>0, <3>3, <3>4, NoneAssumption
    <3> QED
      BY <3>5
  <2> QED
    BY <1>3, <2>1, <2>2, <2>4, <2>5, <2>6, <2>7 DEF Settle
<1>4. ASSUME NEW t \in tokens, MalformedCredentialRequest(t)
      PROVE  \E objs, st : Writes(objs, st)
  <2>1. {t["preAuthorizedCode"], t["issuer_state"]} \in SUBSET (Codes \cup {NONE})
    BY DEF TInv, TypeOK, Token, ClaimNames
  <2> QED
    BY <1>1, <1>4, <2>1 DEF MalformedCredentialRequest
<1>5. ASSUME \/ \E id \in Ids : DeleteOffer(id)
             \/ \E o \in Offers : ExternalAuthorization(o)
             \/ \E n \in Nonces : Nonce(n)
             \/ Tick \/ CleanupSessions \/ CleanupUris \/ CleanupNonces
             \/ UNCHANGED vars
      PROVE  UNCHANGED heap
  BY <1>5 DEF DeleteOffer, ExternalAuthorization, Nonce, Tick, CleanupSessions,
              CleanupUris, CleanupNonces, vars
<1>6. (\E objs, st : Writes(objs, st)) =>
        \E objs \in SUBSET (Offers \cup {NONE}), st \in IssueStatus \ NotificationStatus :
           /\ \A o \in Offers \cap objs : heap[o] # NONE
           /\ heap' = WithStatus(objs, st)
  OBVIOUS
<1> HIDE DEF Writes
<1> QED
  BY <1>2, <1>3, <1>4, <1>5, <1>6 DEF Next

\* Only CreateOffer adds an object.
LEMMA OnlyCreationAdds ==
    ASSUME TInv, [Next]_vars, NEW x \in Offers, heap[x] = NONE, heap'[x] # NONE
    PROVE  \E k \in CorrIds, c, s \in Codes \cup {NONE}, pin \in BOOLEAN :
             CreateOffer(x, k, c, s, pin)
<1>1. ASSUME NEW o \in Offers, NEW k \in CorrIds, NEW c \in Codes \cup {NONE},
             NEW s \in Codes \cup {NONE}, NEW pin \in BOOLEAN, CreateOffer(o, k, c, s, pin)
      PROVE  CreateOffer(x, k, c, s, pin)
  <2>1. x = o
    BY <1>1 DEF CreateOffer
  <2> QED
    BY <1>1, <2>1
<1>2. ASSUME NEW objs \in SUBSET (Offers \cup {NONE}), NEW st \in IssueStatus \ NotificationStatus,
             \A o \in Offers \cap objs : heap[o] # NONE, heap' = WithStatus(objs, st)
      PROVE  FALSE
  BY <1>2 DEF WithStatus
<1>3. ASSUME NEW r \in Requests, ChallengeVerified(r) PROVE FALSE
  <2>1. proc[r].auth \in Offers /\ heap[proc[r].auth] # NONE
    BY <1>3, InFlightType DEF ChallengeVerified, TInv, Held, Continuation
  <2> QED
    BY <1>3, <2>1 DEF ChallengeVerified
<1>4. ASSUME NEW t \in tokens, NEW id \in Offers, NEW e \in Events,
             NotificationRequest(t, id, e)
      PROVE  FALSE
  <2> DEFINE o == Get(t["pre-authorized_code"])
  <2>1. o # NONE => heap[o] # NONE
    BY Fetched DEF TInv, TypeOK, Token, ClaimNames, Ids
  <2>2. heap' = heap \/ (o # NONE /\ heap' = [heap EXCEPT ![o].status = StatusOf(e),
                                                         ![o].notification = e])
    BY <1>4 DEF NotificationRequest
  <2> HIDE DEF o
  <2> QED
    BY <2>1, <2>2 DEF TInv, TypeOK
<1>5. CASE UNCHANGED heap
  BY <1>5
<1>6. (\E o \in Offers, k \in CorrIds, c, s \in Codes \cup {NONE}, pin \in BOOLEAN :
          CreateOffer(o, k, c, s, pin)) =>
        \E k \in CorrIds, c, s \in Codes \cup {NONE}, pin \in BOOLEAN :
          CreateOffer(x, k, c, s, pin)
  BY <1>1
<1>7. ~ \E objs \in SUBSET (Offers \cup {NONE}), st \in IssueStatus \ NotificationStatus :
          /\ \A o \in Offers \cap objs : heap[o] # NONE
          /\ heap' = WithStatus(objs, st)
  BY <1>2
<1>8. /\ ~ \E r \in Requests : ChallengeVerified(r)
      /\ ~ \E t \in tokens, id \in Offers, e \in Events : NotificationRequest(t, id, e)
  BY <1>3, <1>4
<1>9. ~ UNCHANGED heap
  BY <1>5
<1> QED
  BY <1>6, <1>7, <1>8, <1>9, HeapSteps

KeysOf(h, o) == {h[o].preAuthorizedCode, h[o].issuerState} \ {NONE}

\* Where creators use fresh codes, a code belongs to one offer, in one role.
DistinctKeys ==
    /\ \A o \in Offers : heap[o] # NONE /\ heap[o].preAuthorizedCode # NONE
          => heap[o].preAuthorizedCode # heap[o].issuerState
    /\ \A o, x \in Offers : heap[o] # NONE /\ heap[x] # NONE /\ o # x
          => KeysOf(heap, o) \cap KeysOf(heap, x) = {}

\* What CreateOffer puts into the heap and the uris
LEMMA Created ==
    ASSUME TInv, NEW o \in Offers, NEW k \in CorrIds, NEW c \in Codes \cup {NONE},
           NEW s \in Codes \cup {NONE}, NEW pin \in BOOLEAN, CreateOffer(o, k, c, s, pin)
    PROVE  /\ heap[o] = NONE /\ heap'[o] # NONE
           /\ heap'[o].preAuthorizedCode = c /\ heap'[o].issuerState = s
           /\ heap'[o].status = "OFFER_CREATED"
           /\ \A x \in Offers \ {o} : heap'[x] = heap[x]
           /\ uris'[k].preAuthorizedCode = c /\ uris'[k].issuerState = s
           /\ \A i \in Ids \ {k} : uris'[i] = uris[i]
<1> DEFINE new == [preAuthorizedCode |-> c, issuerState |-> s,
                   txCode |-> pin, status |-> "OFFER_CREATED",
                   notification |-> NONE, authorizationCode |-> FALSE,
                   createdAt |-> now]
           uri == [preAuthorizedCode |-> c, issuerState |-> s, createdAt |-> now]
<1>1. new \in Session
  BY DEF TInv, TypeOK, Session, IssueStatus
<1>2. heap' = [heap EXCEPT ![o] = new] /\ uris' = [uris EXCEPT ![k] = uri] /\ heap[o] = NONE
  BY DEF CreateOffer
<1>3. new # NONE
  BY <1>1, NoneAssumption
<1>4. /\ new.preAuthorizedCode = c /\ new.issuerState = s /\ new.status = "OFFER_CREATED"
      /\ uri.preAuthorizedCode = c /\ uri.issuerState = s
  OBVIOUS
<1> HIDE DEF new, uri
<1> QED
  BY <1>2, <1>3, <1>4 DEF TInv, TypeOK, Ids

LEMMA DistinctNext ==
    ASSUME ~ReuseCodes, TInv, TInv', DistinctKeys, [Next]_vars, Extends(heap, heap')
    PROVE  DistinctKeys'
<1>1. ASSUME NEW o \in Offers, NEW k \in CorrIds, NEW c \in Codes \cup {NONE},
             NEW s \in Codes \cup {NONE}, NEW pin \in BOOLEAN, CreateOffer(o, k, c, s, pin)
      PROVE  DistinctKeys'
  <2>1. c # s /\ \A i \in {c, s} \ {NONE} : ~InUse(i)
    BY <1>1 DEF CreateOffer
  <2>2. \A x \in Offers : heap[x] # NONE => KeysOf(heap, x) \cap {c, s} = {}
    BY <2>1 DEF InUse, KeysOf
  <2>3. /\ KeysOf(heap', o) = {c, s} \ {NONE}
        /\ \A x \in Offers \ {o} : KeysOf(heap', x) = KeysOf(heap, x) /\ heap'[x] = heap[x]
    BY <1>1, Created DEF KeysOf
  <2>4. \A x \in Offers : heap'[x] # NONE /\ heap'[x].preAuthorizedCode # NONE
           => heap'[x].preAuthorizedCode # heap'[x].issuerState
    BY <1>1, <2>1, Created DEF DistinctKeys
  <2>5. \A x, y \in Offers : heap'[x] # NONE /\ heap'[y] # NONE /\ x # y
           => KeysOf(heap', x) \cap KeysOf(heap', y) = {}
    BY <2>2, <2>3 DEF DistinctKeys
  <2> QED
    BY <2>4, <2>5 DEF DistinctKeys, KeysOf
<1>2. CASE \A x \in Offers : heap'[x] # NONE => heap[x] # NONE
  <2>1. \A x \in Offers : heap'[x] # NONE =>
           /\ heap[x] # NONE
           /\ heap'[x].preAuthorizedCode = heap[x].preAuthorizedCode
           /\ heap'[x].issuerState = heap[x].issuerState
           /\ KeysOf(heap', x) = KeysOf(heap, x)
    BY <1>2 DEF Extends, KeysOf
  <2>2. \A x, y \in Offers : heap'[x] # NONE /\ heap'[y] # NONE /\ x # y
           => KeysOf(heap', x) \cap KeysOf(heap', y) = {}
    BY <2>1 DEF DistinctKeys
  <2>3. \A x \in Offers : heap'[x] # NONE /\ heap'[x].preAuthorizedCode # NONE
           => heap'[x].preAuthorizedCode # heap'[x].issuerState
    BY <2>1 DEF DistinctKeys
  <2> QED
    BY <2>2, <2>3 DEF DistinctKeys, KeysOf
<1> QED
  BY <1>1, <1>2, OnlyCreationAdds

\* An offer is known by any key it has.
LEMMA OneOffer ==
    ASSUME DistinctKeys, NEW o \in Offers, NEW x \in Offers, NEW k, k # NONE,
           Carries(heap, o, k), Carries(heap, x, k)
    PROVE  o = x
BY DEF DistinctKeys, Carries, KeysOf

-----------------------------------------------------------------------------
(* Correlation ids *)

\* A uri entry is stored under a correlation id and describes an offer.
UrisInv ==
    \A k \in Ids : uris[k] # NONE =>
        /\ k \in CorrIds
        /\ \E o \in Offers : /\ heap[o] # NONE
                             /\ heap[o].preAuthorizedCode = uris[k].preAuthorizedCode
                             /\ heap[o].issuerState = uris[k].issuerState

LEMMA UrisNext ==
    ASSUME TInv, TInv', UrisInv, [Next]_vars, Extends(heap, heap')
    PROVE  UrisInv'
<1>1. ASSUME NEW o \in Offers, NEW k \in CorrIds, NEW c \in Codes \cup {NONE},
             NEW s \in Codes \cup {NONE}, NEW pin \in BOOLEAN, CreateOffer(o, k, c, s, pin)
      PROVE  UrisInv'
  <2>1. /\ k \in CorrIds /\ heap'[o] # NONE
        /\ heap'[o].preAuthorizedCode = uris'[k].preAuthorizedCode
        /\ heap'[o].issuerState = uris'[k].issuerState
    BY <1>1, Created
  <2>2. \A i \in Ids \ {k} : uris'[i] = uris[i]
    BY <1>1, Created
  <2>3. ASSUME NEW i \in Ids \ {k}, uris'[i] # NONE
        PROVE  /\ i \in CorrIds
               /\ \E x \in Offers : /\ heap'[x] # NONE
                                    /\ heap'[x].preAuthorizedCode = uris'[i].preAuthorizedCode
                                    /\ heap'[x].issuerState = uris'[i].issuerState
    BY <2>2, <2>3 DEF UrisInv, Extends
  <2> QED
    BY <2>1, <2>3 DEF UrisInv
<1>2. CASE \A k \in Ids : uris'[k] \in {uris[k], NONE}
  BY <1>2 DEF UrisInv, Extends
<1>3. ASSUME ~ \E o \in Offers, k \in CorrIds, c, s \in Codes \cup {NONE}, pin \in BOOLEAN :
                 CreateOffer(o, k, c, s, pin)
      PROVE  \A k \in Ids : uris'[k] \in {uris[k], NONE}
  <2>1. CASE CleanupUris
    BY <2>1 DEF CleanupUris
  <2>2. ASSUME NEW r \in Requests, Arrive(r) \/ Settle(r) PROVE UNCHANGED uris
    BY <2>2 DEF Arrive, Settle, TokenRequest, ChallengeRequest, CredentialRequest, TokenSigned,
                TokenSigningFails, ChallengeVerified, ChallengeRejected, ProofRejected,
                ProofVerified, ProofInvalid, CredentialIssued, CredentialIssuedThenRejected,
                IssuanceFails, RequestFails, stores
  <2>3. ASSUME \/ \E id \in Ids : DeleteOffer(id)
               \/ \E o \in Offers : ExternalAuthorization(o)
               \/ \E n \in Nonces : Nonce(n)
               \/ \E t \in tokens : MalformedCredentialRequest(t)
               \/ \E t \in tokens, id \in Offers, e \in Events : NotificationRequest(t, id, e)
               \/ Tick \/ CleanupSessions \/ CleanupNonces \/ UNCHANGED vars
        PROVE  UNCHANGED uris
    BY <2>3 DEF DeleteOffer, ExternalAuthorization, Nonce, MalformedCredentialRequest,
                NotificationRequest, Tick, CleanupSessions, CleanupNonces, stores, vars
  <2> QED
    BY <1>3, <2>1, <2>2, <2>3 DEF Next
<1> QED
  BY <1>1, <1>2, <1>3

\* Codes, which are random, are no correlation ids.
KeysApart == Codes \cap CorrIds = {}

LEMMA FoundByCorrelation ==
    ASSUME KeysApart, TInv, KeyInv, DistinctKeys, UrisInv
    PROVE  CorrelationFindsItsOffer
<1> SUFFICES ASSUME NEW k \in CorrIds, uris[k] # NONE, GetById(k) # NONE
             PROVE  /\ heap[GetById(k)].preAuthorizedCode = uris[k].preAuthorizedCode
                    /\ heap[GetById(k)].issuerState = uris[k].issuerState
  BY DEF CorrelationFindsItsOffer
<1>1. k \in Ids /\ k \notin Codes
  BY DEF KeysApart, Ids
<1>2. PICK o \in Offers : /\ heap[o] # NONE
                          /\ heap[o].preAuthorizedCode = uris[k].preAuthorizedCode
                          /\ heap[o].issuerState = uris[k].issuerState
  BY <1>1 DEF UrisInv
<1>3. heap[o] \in Session
  BY <1>2 DEF TInv, TypeOK
<1>4. ASSUME NEW i \in Ids \cup {NONE}, Get(i) # NONE
      PROVE  Get(i) \in Offers /\ i # NONE /\ Carries(heap, Get(i), i) /\ i \in Codes
  <2>1. i # NONE /\ i \in Ids
    BY <1>4 DEF Get
  <2>2. Get(i) \in Offers /\ heap[Get(i)] \in Session
    BY <1>4, Fetched
  <2> QED
    BY <1>4, <2>1, <2>2 DEF KeyInv, Carries, Session
<1>5. Get(k) = NONE
  BY <1>1, <1>4
<1>6. PICK i \in {uris[k].preAuthorizedCode, uris[k].issuerState} :
         Get(i) # NONE /\ GetById(k) = Get(i)
  BY <1>5 DEF GetById, OrElse
<1>7. i \in Ids \cup {NONE}
  BY <1>2, <1>3 DEF Session, Ids
<1>8. Carries(heap, o, i)
  BY <1>2 DEF Carries
<1>9. GetById(k) = o
  BY <1>4, <1>6, <1>7, <1>8, OneOffer
<1> QED
  BY <1>2, <1>9

LEMMA KeysInit == Init => DistinctKeys /\ UrisInv
BY DEF Init, DistinctKeys, UrisInv

\* Whatever is deleted, expires in one store before the other, or is stored
\* again by a request, a correlation id finds the session of its own offer or
\* none (CorrelationFindsItsOffer; run issuer_keys).
THEOREM CorrelationCorrect ==
    ASSUME KeysApart, ~ReuseCodes, "issuer_state" \notin ExternalClaims
    PROVE  Spec => []CorrelationFindsItsOffer
<1> DEFINE Inv == TInv /\ KeyInv /\ DistinctKeys /\ UrisInv
<1>1. Init => Inv
  BY TypeInit, KeyInit, KeysInit
<1>2. Inv /\ [Next]_vars => Inv'
  <2> SUFFICES ASSUME Inv, [Next]_vars PROVE Inv'
    OBVIOUS
  <2>1. TInv' /\ Extends(heap, heap')
    BY TypeNext, TypeStutter, SameHeap DEF TInv, vars
  <2> QED
    BY <2>1, KeyNext, DistinctNext, UrisNext
<1>3. Inv => CorrelationFindsItsOffer
  BY FoundByCorrelation
<1> QED
  BY <1>1, <1>2, <1>3, PTL DEF Spec

-----------------------------------------------------------------------------
(* Notifications *)

\* A notification_id reaches a wallet only with a credential.
NotifiedInv ==
    /\ disclosed \subseteq issued
    /\ \A k \in Ids : uris[k] # NONE => k \in CorrIds
    /\ NotifiedOnlyAfterIssue

\* Only a signed credential changes what is issued and disclosed.
LEMMA IssuedGrows ==
    ASSUME TInv, [Next]_vars, disclosed \subseteq issued
    PROVE  issued \subseteq issued' /\ disclosed' \subseteq issued'
<1>1. ASSUME NEW r \in Requests, Arrive(r) \/ Settle(r)
      PROVE  issued \subseteq issued' /\ disclosed' \subseteq issued'
  <2>1. CASE CredentialIssued(r) \/ CredentialIssuedThenRejected(r)
    BY <2>1 DEF CredentialIssued, CredentialIssuedThenRejected, Sign
  <2>2. CASE Arrive(r)
    BY <2>2 DEF Arrive, TokenRequest, ChallengeRequest, CredentialRequest, history
  <2>3. CASE \/ TokenSigned(r) \/ TokenSigningFails(r)
             \/ ChallengeVerified(r) \/ ChallengeRejected(r)
             \/ ProofRejected(r) \/ ProofVerified(r)
             \/ (\E good \in BOOLEAN : ProofInvalid(r, good)) \/ IssuanceFails(r)
    BY <2>3 DEF TokenSigned, TokenSigningFails, ChallengeVerified, ChallengeRejected,
                ProofRejected, ProofVerified, ProofInvalid, IssuanceFails, RequestFails, history
  <2> QED
    BY <1>1, <2>1, <2>2, <2>3 DEF Settle
<1>2. ASSUME ~ \E r \in Requests : Arrive(r) \/ Settle(r)
      PROVE  UNCHANGED <<issued, disclosed>>
  BY <1>2 DEF Next, CreateOffer, DeleteOffer, ExternalAuthorization, Nonce,
              MalformedCredentialRequest, NotificationRequest, Tick, CleanupSessions,
              CleanupUris, CleanupNonces, history, vars
<1> QED
  BY <1>1, <1>2

\* processNotification and updateSession find the same session for the code
\* of a token, as no uri entry has a code as its key.
LEMMA NotificationReachesIssued ==
    ASSUME KeysApart, TInv, NotifiedInv, NEW t \in tokens, NEW id \in Offers,
           NEW e \in Events, NotificationRequest(t, id, e)
    PROVE  UNCHANGED heap \/ \E o \in issued : \A x \in Offers \ {o} : heap'[x] = heap[x]
<1> DEFINE key == t["pre-authorized_code"]
<1>1. key \in Codes \cup {NONE}
  BY DEF TInv, TypeOK, Token, ClaimNames
<1>2. CASE key = NONE
  BY <1>2 DEF NotificationRequest, Get
<1>3. CASE key # NONE
  <2>1. key \in Ids /\ uris[key] = NONE
    BY <1>1, <1>3 DEF NotifiedInv, KeysApart, Ids
  <2>2. GetById(key) = Get(key)
    BY <2>1 DEF GetById
  <2>3. \/ UNCHANGED heap
        \/ /\ Get(key) = id /\ id \in disclosed
           /\ heap' = [heap EXCEPT ![Get(key)].status = StatusOf(e),
                                   ![Get(key)].notification = e]
    BY <1>3, <2>2 DEF NotificationRequest, IdMatches
  <2> QED
    BY <2>3 DEF NotifiedInv, TInv, TypeOK
<1> QED
  BY <1>2, <1>3

LEMMA NotifiedNext ==
    ASSUME KeysApart, TInv, TInv', NotifiedInv, [Next]_vars,
           \A k \in Ids : uris'[k] # NONE => k \in CorrIds
    PROVE  NotifiedInv'
<1> DEFINE Reported(h, o) == h[o] # NONE /\ h[o].status \in NotificationStatus
<1>1. issued \subseteq issued' /\ disclosed' \subseteq issued'
  BY IssuedGrows DEF NotifiedInv
<1>2. \A o \in Offers : Reported(heap, o) => o \in issued
  BY DEF NotifiedInv, NotifiedOnlyAfterIssue
<1>3. ASSUME NEW x \in Offers, NEW o \in Offers, NEW k \in CorrIds, NEW c \in Codes \cup {NONE},
             NEW s \in Codes \cup {NONE}, NEW pin \in BOOLEAN, CreateOffer(o, k, c, s, pin),
             Reported(heap', x)
      PROVE  Reported(heap, x)
  <2>1. heap'[o].status = "OFFER_CREATED" /\ \A y \in Offers \ {o} : heap'[y] = heap[y]
    BY <1>3, Created
  <2> QED
    BY <1>3, <2>1 DEF NotificationStatus
<1>4. ASSUME NEW x \in Offers, NEW objs \in SUBSET (Offers \cup {NONE}),
             NEW st \in IssueStatus \ NotificationStatus,
             \A o \in Offers \cap objs : heap[o] # NONE,
             heap' = WithStatus(objs, st), Reported(heap', x)
      PROVE  Reported(heap, x)
  <2>1. CASE x \in objs
    <3>1. heap[x] \in Session /\ heap'[x] = [heap[x] EXCEPT !.status = st]
      BY <1>4, <2>1 DEF WithStatus, TInv, TypeOK
    <3>2. heap'[x].status = st
      BY <3>1 DEF Session
    <3> QED
      BY <1>4, <3>2
  <2>2. CASE x \notin objs
    BY <1>4, <2>2 DEF WithStatus
  <2> QED
    BY <2>1, <2>2
<1>5. ASSUME NEW x \in Offers, NEW r \in Requests, ChallengeVerified(r), Reported(heap', x)
      PROVE  Reported(heap, x)
  <2>1. proc[r].auth \in Offers /\ heap[proc[r].auth] # NONE
    BY <1>5, InFlightType DEF ChallengeVerified, TInv, Held, Continuation
  <2>2. heap' = [heap EXCEPT ![proc[r].auth].authorizationCode = TRUE]
    BY <1>5 DEF ChallengeVerified
  <2>3. heap[proc[r].auth] \in Session
    BY <2>1 DEF TInv, TypeOK
  <2>4. heap'[x] = heap[x] \/ (x = proc[r].auth /\ heap'[x].status = heap[x].status)
    BY <2>1, <2>2, <2>3 DEF TInv, TypeOK, Session
  <2> QED
    BY <1>5, <2>1, <2>4
<1> HIDE DEF Reported
<1>6. ASSUME NEW x \in Offers, Reported(heap', x) PROVE x \in issued
  <2>1. CASE Reported(heap, x)
    BY <1>2, <2>1
  <2>2. CASE ~Reported(heap, x)
    <3>1. ~ \E o \in Offers, k \in CorrIds, c, s \in Codes \cup {NONE}, pin \in BOOLEAN :
              CreateOffer(o, k, c, s, pin)
      BY <1>3, <1>6, <2>2
    <3>2. ~ \E objs \in SUBSET (Offers \cup {NONE}), st \in IssueStatus \ NotificationStatus :
              /\ \A o \in Offers \cap objs : heap[o] # NONE
              /\ heap' = WithStatus(objs, st)
      BY <1>4, <1>6, <2>2
    <3>3. ~ UNCHANGED heap /\ ~ \E r \in Requests : ChallengeVerified(r)
      BY <1>5, <1>6, <2>2
    <3>4. \E t \in tokens, id \in Offers, e \in Events : NotificationRequest(t, id, e)
      BY <3>1, <3>2, <3>3, HeapSteps
    <3>5. PICK o \in issued : \A y \in Offers \ {o} : heap'[y] = heap[y]
      BY <3>3, <3>4, NotificationReachesIssued
    <3> QED
      BY <1>6, <2>2, <3>5 DEF Reported
  <2> QED
    BY <2>1, <2>2
<1>7. NotifiedOnlyAfterIssue'
  BY <1>1, <1>6 DEF NotifiedOnlyAfterIssue, Reported
<1> QED
  BY <1>1, <1>7 DEF NotifiedInv

\* A notification moves only the session of an offer a credential was signed
\* for, for any number of offers and even where creators reuse codes, as long
\* as no code is a correlation id (NotifiedOnlyAfterIssue; run issuer_keys).
THEOREM NotifiedCorrect ==
    ASSUME KeysApart
    PROVE  Spec => []NotifiedOnlyAfterIssue
<1> DEFINE Inv == TInv /\ UrisInv /\ NotifiedInv
<1>1. Init => Inv
  BY TypeInit, KeysInit DEF Init, NotifiedInv, NotifiedOnlyAfterIssue
<1>2. Inv /\ [Next]_vars => Inv'
  <2> SUFFICES ASSUME Inv, [Next]_vars PROVE Inv'
    OBVIOUS
  <2>1. TInv' /\ Extends(heap, heap')
    BY TypeNext, TypeStutter, SameHeap DEF TInv, vars
  <2>2. UrisInv'
    BY <2>1, UrisNext
  <2> QED
    BY <2>1, <2>2, NotifiedNext DEF UrisInv
<1>3. Inv => NotifiedOnlyAfterIssue
  BY DEF NotifiedInv
<1> QED
  BY <1>1, <1>2, <1>3, PTL DEF Spec

-----------------------------------------------------------------------------
(* The signer is reached with redeemed codes only *)

\* A redeemed offer has the code as its pre-authorized code.
RedeemedCode(h, red, c) ==
    c # NONE /\ \E o \in red : h[o] # NONE /\ h[o].preAuthorizedCode = c

\* The code a request in flight goes on with is a redeemed offer's, and a
\* session fetched by it that offer's.
Rightful(h, red, p) ==
    /\ p.pc = "signToken" => p.pre \in red
    /\ p.pc = "verifyProof" => RedeemedCode(h, red, p.code)
    /\ p.pc = "issue" => \E o \in red : /\ h[o] # NONE /\ h[o].preAuthorizedCode = p.code
                                       /\ p.pre \in {o, NONE}

\* SignedOnRedeemedCode is not inductive: the right to a credential comes from
\* the token's code, and passes through the requests to the signer.
RightsInv ==
    /\ \A t \in tokens : RedeemedCode(heap, redeemed, t["preAuthorizedCode"])
    /\ \A r \in Requests : Rightful(heap, redeemed, proc[r])

\* RightsInv is kept by steps whose new tokens and continuations are rightful.
LEMMA RightsKept ==
    ASSUME TInv, RightsInv, Extends(heap, heap'), redeemed \subseteq redeemed',
           \A t \in tokens' : t \in tokens \/ RedeemedCode(heap', redeemed', t["preAuthorizedCode"]),
           \A r \in Requests : proc'[r] = proc[r] \/ Rightful(heap', redeemed', proc'[r])
    PROVE  RightsInv'
<1>1. redeemed \subseteq Offers
  BY DEF TInv, TypeOK
<1>2. ASSUME NEW c, RedeemedCode(heap, redeemed, c) PROVE RedeemedCode(heap', redeemed', c)
  BY <1>1, <1>2 DEF RedeemedCode, Extends
<1>3. ASSUME NEW r \in Requests, Rightful(heap, redeemed, proc[r])
      PROVE  Rightful(heap', redeemed', proc[r])
  <2>1. ASSUME proc[r].pc = "issue"
        PROVE  \E o \in redeemed' : /\ heap'[o] # NONE /\ heap'[o].preAuthorizedCode = proc[r].code
                                    /\ proc[r].pre \in {o, NONE}
    BY <1>1, <1>3, <2>1 DEF Rightful, Extends
  <2> QED
    BY <1>2, <1>3, <2>1 DEF Rightful
<1>4. \A r \in Requests : Rightful(heap', redeemed', proc'[r])
  BY <1>3 DEF RightsInv
<1>5. \A t \in tokens' : RedeemedCode(heap', redeemed', t["preAuthorizedCode"])
  BY <1>2 DEF RightsInv
<1> QED
  BY <1>4, <1>5 DEF RightsInv

LEMMA IdleRightful == ASSUME NEW h, NEW red PROVE Rightful(h, red, Idle)
BY DEF Rightful, Idle

LEMMA EndsRightful ==
    ASSUME TInv, NEW r \in Requests, Ends(r), NEW h, NEW red
    PROVE  \A q \in Requests : proc'[q] = proc[q] \/ Rightful(h, red, proc'[q])
<1>1. \A q \in Requests : proc'[q] \in {proc[q], Idle}
  BY DEF Ends, TInv, TypeOK
<1> QED
  BY <1>1, IdleRightful

LEMMA WaitsRightful ==
    ASSUME TInv, NEW r \in Requests, NEW w, Waits(r, w), NEW h, NEW red, Rightful(h, red, w)
    PROVE  \A q \in Requests : proc'[q] = proc[q] \/ Rightful(h, red, proc'[q])
BY DEF Waits, TInv, TypeOK

LEMMA RightsQuiet ==
    ASSUME TInv, RightsInv, Extends(heap, heap'), UNCHANGED <<tokens, redeemed>>,
           UNCHANGED proc \/ \E r \in Requests : Ends(r)
    PROVE  RightsInv'
<1>1. \A q \in Requests : proc'[q] = proc[q] \/ Rightful(heap', redeemed', proc'[q])
  BY EndsRightful
<1> QED
  BY <1>1, RightsKept

LEMMA TokenRequestRights ==
    ASSUME TInv, RightsInv, Extends(heap, heap'), NEW r \in Requests, NEW c \in Codes,
           NEW tx \in {"absent", "right", "wrong"}, NEW dpop \in BOOLEAN,
           TokenRequest(r, c, tx, dpop)
    PROVE  RightsInv'
<1> DEFINE o == credentialOfferSessions[c]
           w == [Idle EXCEPT !.pc = "signToken", !.pre = o, !.code = c]
<1>1. w.pc = "signToken" /\ w.pre = o
  BY DEF Idle
<1>2. /\ UNCHANGED tokens /\ redeemed \subseteq redeemed'
      /\ UNCHANGED proc \/ (Waits(r, w) /\ o \in redeemed')
  BY DEF TokenRequest, GoesOnToSign
<1> HIDE DEF w
<1>3. o \in redeemed' => Rightful(heap', redeemed', w)
  BY <1>1 DEF Rightful
<1>4. \A q \in Requests : proc'[q] = proc[q] \/ Rightful(heap', redeemed', proc'[q])
  BY <1>2, <1>3, WaitsRightful
<1> QED
  BY <1>2, <1>4, RightsKept

LEMMA TokenSignedRights ==
    ASSUME TInv, KeyInv, RightsInv, Extends(heap, heap'), NEW r \in Requests, TokenSigned(r)
    PROVE  RightsInv'
<1> DEFINE p == proc[r]
<1>1. /\ p.pre \in redeemed /\ p.pre \in Offers /\ heap[p.pre] # NONE
      /\ heap[p.pre].preAuthorizedCode = p.code /\ p.code # NONE
  BY InFlightType
     DEF TokenSigned, TInv, Held, Continuation, KeyInv, KnowsKeys, RightsInv, Rightful
<1>2. UNCHANGED redeemed
  BY DEF TokenSigned, history
<1>3. RedeemedCode(heap', redeemed', p.code)
  BY <1>1, <1>2 DEF RedeemedCode, Extends
<1>4. InternalToken(p.code)["preAuthorizedCode"] = p.code
  BY DEF InternalToken, ClaimNames
<1>5. \A t \in tokens' : t \in tokens \/ RedeemedCode(heap', redeemed', t["preAuthorizedCode"])
  BY <1>3, <1>4 DEF TokenSigned
<1>6. \A q \in Requests : proc'[q] = proc[q] \/ Rightful(heap', redeemed', proc'[q])
  BY EndsRightful DEF TokenSigned
<1> QED
  BY <1>2, <1>5, <1>6, RightsKept

LEMMA CredentialRequestRights ==
    ASSUME TInv, RightsInv, Extends(heap, heap'),
           NEW r \in Requests, NEW t \in tokens, NEW body \in Codes \cup {NONE},
           NEW n \in Nonces \cup {NONE}, CredentialRequest(r, t, body, n)
    PROVE  RightsInv'
<1> DEFINE w == [Idle EXCEPT !.pc = "verifyProof",
                             !.code = t["preAuthorizedCode"],
                             !.state = t["issuer_state"],
                             !.body = body, !.nonce = n, !.iat = now]
<1>1. w.pc = "verifyProof" /\ w.code = t["preAuthorizedCode"]
  BY DEF Idle
<1>2. Waits(r, w) /\ UNCHANGED <<heap, tokens, redeemed>>
  BY DEF CredentialRequest, history
<1> HIDE DEF w
<1>3. Rightful(heap', redeemed', w)
  BY <1>1, <1>2 DEF Rightful, RightsInv
<1>4. \A q \in Requests : proc'[q] = proc[q] \/ Rightful(heap', redeemed', proc'[q])
  BY <1>2, <1>3, WaitsRightful
<1> QED
  BY <1>2, <1>4, RightsKept

\* Validation fetches by the code the redeemed offer or none, whichever session
\* the body's issuer state leads to.
LEMMA ProofVerifiedRights ==
    ASSUME TInv, DistinctKeys, RightsInv, Extends(heap, heap'),
           NEW r \in Requests, ProofVerified(r)
    PROVE  RightsInv'
<1> DEFINE p == proc[r]
           pre == PreAuthSession(p)
           w == [p EXCEPT !.pc = "issue", !.pre = pre, !.auth = AuthSession(p),
                          !.state = OrElse(p.state, IssuerStateOf(p))]
<1>1. p \in Continuation /\ p.pc = "verifyProof" /\ RedeemedCode(heap, redeemed, p.code)
  BY DEF ProofVerified, RightsInv, Rightful, TInv, TypeOK
<1>2. /\ pre \in Offers \cup {NONE}
      /\ pre # NONE => heap[pre] # NONE
  BY <1>1, ValidatedSessions
<1>3. pre # NONE => heap[pre].preAuthorizedCode = p.code
  BY DEF ProofVerified, ProofAccepted
<1>4. w.pc = "issue" /\ w.pre = pre /\ w.code = p.code
  BY <1>1 DEF Continuation
<1>5. Waits(r, w) /\ UNCHANGED <<tokens, redeemed>>
  BY DEF ProofVerified, history
<1> HIDE DEF w, pre
<1>6. PICK o \in redeemed : heap[o] # NONE /\ heap[o].preAuthorizedCode = p.code
  BY <1>1 DEF RedeemedCode
<1>7. o \in Offers /\ Carries(heap, o, p.code) /\ p.code # NONE
  BY <1>1, <1>6 DEF RedeemedCode, Carries, TInv, TypeOK
<1>8. pre \in {o, NONE}
  <2>1. ASSUME pre # NONE PROVE pre = o
    <3>1. pre \in Offers /\ Carries(heap, pre, p.code)
      BY <1>2, <1>3, <2>1 DEF Carries
    <3> QED
      BY <1>7, <3>1, OneOffer
  <2> QED
    BY <2>1
<1>9. heap'[o] # NONE /\ heap'[o].preAuthorizedCode = p.code
  BY <1>6, <1>7 DEF Extends
<1>10. Rightful(heap', redeemed', w)
  BY <1>4, <1>5, <1>6, <1>8, <1>9 DEF Rightful
<1>11. \A q \in Requests : proc'[q] = proc[q] \/ Rightful(heap', redeemed', proc'[q])
  BY <1>5, <1>10, WaitsRightful
<1> QED
  BY <1>5, <1>11, RightsKept

LEMMA RightsInit == Init => RightsInv
BY IdleRightful DEF Init, RightsInv

LEMMA RightsNext ==
    ASSUME own, TInv, KeyInv, DistinctKeys, RightsInv,
           [Next]_vars, Extends(heap, heap')
    PROVE  RightsInv'
<1>1. ASSUME NEW r \in Requests, Arrive(r) PROVE RightsInv'
  <2>1. ASSUME NEW c \in Codes, ChallengeRequest(r, c) PROVE RightsInv'
    <3> DEFINE w == [Idle EXCEPT !.pc = "challenge", !.auth = credentialOfferSessions[c], !.state = c]
    <3>1. w.pc = "challenge"
      BY DEF Idle
    <3>2. Waits(r, w) /\ UNCHANGED <<tokens, redeemed>>
      BY <2>1 DEF ChallengeRequest, history
    <3> HIDE DEF w
    <3>3. Rightful(heap', redeemed', w)
      BY <3>1 DEF Rightful
    <3>4. \A q \in Requests : proc'[q] = proc[q] \/ Rightful(heap', redeemed', proc'[q])
      BY <3>2, <3>3, WaitsRightful
    <3> QED
      BY <3>2, <3>4, RightsKept
  <2> QED
    BY <1>1, <2>1, TokenRequestRights, CredentialRequestRights DEF Arrive
<1>2. ASSUME NEW r \in Requests, Settle(r) PROVE RightsInv'
  <2>1. CASE TokenSigned(r)
    BY <2>1, TokenSignedRights
  <2>2. CASE TokenSigningFails(r) \/ ChallengeVerified(r) \/ ChallengeRejected(r)
    BY <2>2, RightsQuiet DEF TokenSigningFails, ChallengeVerified, ChallengeRejected, history
  <2>3. CASE ProofRejected(r) \/ (\E good \in BOOLEAN : ProofInvalid(r, good)) \/ IssuanceFails(r)
    BY <2>3, RightsQuiet DEF ProofRejected, ProofInvalid, IssuanceFails, RequestFails, history
  <2>4. CASE ProofVerified(r)
    BY <2>4, ProofVerifiedRights
  <2>5. CASE CredentialIssued(r) \/ CredentialIssuedThenRejected(r)
    BY <2>5, RightsQuiet DEF CredentialIssued, CredentialIssuedThenRejected
  <2> QED
    BY <1>2, <2>1, <2>2, <2>3, <2>4, <2>5 DEF Settle
<1>3. ASSUME ~ \E r \in Requests : Arrive(r) \/ Settle(r)
      PROVE  UNCHANGED <<tokens, redeemed, proc>>
  BY <1>3 DEF Next, CreateOffer, DeleteOffer, ExternalAuthorization, Nonce,
              MalformedCredentialRequest, NotificationRequest, Tick, CleanupSessions,
              CleanupUris, CleanupNonces, history, vars
<1> QED
  BY <1>1, <1>2, <1>3, RightsQuiet

\* Who signs the tokens never changes.
LEMMA OwnStays == [Next]_vars => own' = own
<1>1. ASSUME NEW r \in Requests, Arrive(r) PROVE own' = own
  BY <1>1 DEF Arrive, TokenRequest, ChallengeRequest, CredentialRequest, history
<1>2. ASSUME NEW r \in Requests, Settle(r) PROVE own' = own
  BY <1>2 DEF Settle, TokenSigned, TokenSigningFails, ChallengeVerified, ChallengeRejected,
              ProofRejected, ProofInvalid, ProofVerified, IssuanceFails, RequestFails,
              CredentialIssued, CredentialIssuedThenRejected, history
<1> QED
  BY <1>1, <1>2 DEF Next, CreateOffer, DeleteOffer, ExternalAuthorization, Nonce,
                    MalformedCredentialRequest, NotificationRequest, Tick, CleanupSessions,
                    CleanupUris, CleanupNonces, history, vars

\* Where the issuer signs its own tokens and creators use fresh codes, a request
\* reaches the signer only with the code of an offer the token endpoint
\* accepted, and with that offer's session if any is found by the code; for any
\* number of offers and requests in flight, whatever issuer_state the bodies
\* name (SignedOnRedeemedCode; run issuer_keys).
THEOREM RedeemedCorrect == ASSUME ~ReuseCodes PROVE Spec => []SignedOnRedeemedCode
<1> DEFINE Inv == TInv /\ DistinctKeys /\ (own => KeyInv /\ RightsInv)
<1>1. Init => Inv
  BY TypeInit, KeyInit, KeysInit, RightsInit
<1>2. Inv /\ [Next]_vars => Inv'
  <2> SUFFICES ASSUME Inv, [Next]_vars PROVE Inv'
    OBVIOUS
  <2>1. TInv' /\ Extends(heap, heap')
    BY TypeNext, TypeStutter, SameHeap DEF TInv, vars
  <2>2. DistinctKeys'
    BY <2>1, DistinctNext DEF TInv
  <2>3. own' => KeyInv' /\ RightsInv'
    BY <2>1, OwnStays, KeyNext, RightsNext
  <2> QED
    BY <2>1, <2>2, <2>3
<1>3. Inv => SignedOnRedeemedCode
  BY DEF RightsInv, Rightful, SignedOnRedeemedCode
<1> QED
  BY <1>1, <1>2, <1>3, PTL DEF Spec
=============================================================================
