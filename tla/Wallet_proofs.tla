----------------------------- MODULE Wallet_proofs -----------------------------
(***************************************************************************)
(* What holds of a wallet for any number of calls in flight: types, the    *)
(* nonces and DPoP proofs of its requests, and that a code is redeemed     *)
(* once.  A call keeps what it has read of the client's state, which the   *)
(* answers of other calls go on changing; CallInv says what of it stays    *)
(* true.                                                                   *)
(***************************************************************************)
EXTENDS Wallet, FiniteSetTheorems, TLAPS

Asks(r) == r.step \in {"token", "tokenRetry"}
Asking  == {c \in Calls : Asks(calls[c])}
\* What holds of a call r, given the client w and n nonces handed out.
CallInv(r, w, n) ==
    /\ DOMAIN r = DOMAIN Idle
    /\ CallOK(r)
    /\ r.proof # NONE /\ r.proof.nonce # NONE => r.proof.nonce <= n
    /\ r.step \in {"sign", "credential", "credentialRetry"} /\ w.nonceAt /\ Version(w) = "V15"
          => r.proof.nonce # NONE
    /\ r.step \in {"nonce", "sign"} => r.args \in CredentialArgs

CallsInv == /\ calls = [c \in Calls |-> calls[c]]
            /\ \A c \in Calls : CallInv(calls[c], wallet, nonces)

StateInv ==
    /\ own \in BOOLEAN
    /\ wallet \in WalletState
    /\ wallet.nonce # NONE => wallet.nonce <= nonces
    /\ nonces \in 0 .. MaxNonces /\ spent \cup refused \subseteq 1 .. nonces
    /\ polls \in 0 .. MaxPolls

\* Every acceptance answers a start.
Counted ==
    /\ starts \in 0 .. MaxStarts /\ accepted \in Nat
    /\ IsFiniteSet(Asking)
    /\ accepted + Cardinality(Asking) <= starts

\* Until requests overlap or an answer is lost, the client asks only without a
\* token, with one call, and keeps what it was given.
OneToken ==
    ~overlap /\ ~lost =>
        /\ accepted <= 1
        /\ accepted = 1 => wallet.token # NONE
        /\ \A c \in Asking : wallet.token = NONE /\ Asking = {c}

WalletInv == StateInv /\ CallsInv /\ Counted /\ OneToken

\* What no step changes
SameIssuer(w, v) == v.nonceAt = w.nonceAt /\ v.offer = w.offer /\ v.v1 = w.v1

-----------------------------------------------------------------------------
(* Calls *)

LEMMA Bounds == /\ MaxStarts \in Nat /\ MaxNonces \in Nat /\ MaxPolls \in Nat
                /\ NONE \notin Nat /\ NONE \notin Token /\ NONE \notin Proofs
BY WalletAssumption, WalletConstants, WalletsAssumption DEF Token

\* A record of a call with one field set
LEMMA IdleDomain ==
    DOMAIN Idle = {"step", "args", "request", "token", "proof", "dpop", "state", "denied"}
BY DEF Idle

\* A call that waits keeps its invariant while others change the client.
LEMMA CallKept ==
  ASSUME NEW r, NEW w, NEW v, NEW m \in Nat, NEW n \in Nat,
         CallInv(r, w, m), m <= n, SameIssuer(w, v)
  PROVE  CallInv(r, v, n)
<1>1. Version(v) = Version(w)
  BY DEF SameIssuer, Version
<1>2. r.proof # NONE /\ r.proof.nonce # NONE => r.proof.nonce <= n
  <2> SUFFICES ASSUME r.proof # NONE, r.proof.nonce # NONE PROVE r.proof.nonce <= n
    OBVIOUS
  <2>1. r.proof.nonce \in 1 .. MaxNonces /\ r.proof.nonce <= m
    BY DEF CallInv, CallOK, Optional, Nonces
  <2> QED
    BY <2>1, Bounds
<1> QED
  BY <1>1, <1>2 DEF CallInv, SameIssuer

LEMMA IdleInv ==
  ASSUME NEW w, NEW n
  PROVE  CallInv(Idle, w, n)
BY DEF CallInv, CallOK, Idle, Steps, Optional, Asks

\* A step of one call, with the others kept
LEMMA StepCalls ==
  ASSUME NEW c \in Calls, NEW r, NEW w, NEW n, CallsInv, Step(c, r),
         wallet' = w, nonces' = n,
         nonces \in Nat, n \in Nat, nonces <= n, SameIssuer(wallet, w),
         CallInv(r, w, n)
  PROVE  CallsInv'
<1>1. calls' = [calls EXCEPT ![c] = r] /\ DOMAIN calls = Calls
  BY DEF Step, CallsInv
<1>2. calls' = [d \in Calls |-> calls'[d]]
  BY <1>1
<1>3. ASSUME NEW d \in Calls PROVE CallInv(calls'[d], wallet', nonces')
  <2>1. CASE d = c
    <3>1. calls'[d] = r
      BY <1>1, <2>1
    <3> QED
      BY <3>1
  <2>2. CASE d # c
    <3>1. calls'[d] = calls[d]
      BY <1>1, <2>2
    <3>2. CallInv(calls[d], wallet, nonces)
      BY DEF CallsInv
    <3>3. CallInv(calls[d], w, n)
      BY <3>2, CallKept
    <3> QED
      BY <3>1, <3>3
  <2> QED
    BY <2>1, <2>2
<1> QED
  BY <1>2, <1>3 DEF CallsInv

\* No call moves.
LEMMA KeptCalls ==
  ASSUME CallsInv, calls' = calls,
         nonces \in Nat, nonces' \in Nat, nonces <= nonces', SameIssuer(wallet, wallet')
  PROVE  CallsInv'
<1>1. ASSUME NEW d \in Calls PROVE CallInv(calls[d], wallet', nonces')
  <2>1. CallInv(calls[d], wallet, nonces)
    BY DEF CallsInv
  <2> QED
    BY <2>1, CallKept
<1> QED
  BY <1>1 DEF CallsInv

LEMMA AskingStep ==
  ASSUME NEW c \in Calls, NEW r, CallsInv, Step(c, r)
  PROVE  Asking' = IF Asks(r) THEN Asking \cup {c} ELSE Asking \ {c}
<1>1. calls' = [calls EXCEPT ![c] = r] /\ DOMAIN calls = Calls
  BY DEF Step, CallsInv
<1>2. \A d \in Calls : Asks(calls'[d]) <=> IF d = c THEN Asks(r) ELSE Asks(calls[d])
  BY <1>1
<1> QED
  BY <1>2 DEF Asking

\* What a step on credentials or a nonce leaves alone: it neither asks for a
\* token nor answers, and the token of the client stays.
LEMMA NobodyAsks ==
  ASSUME Counted, OneToken, Asking' = Asking, UNCHANGED <<accepted, overlap, lost>>,
         wallet'.token = wallet.token, starts' \in starts .. MaxStarts
  PROVE  Counted' /\ OneToken'
<1>1. Cardinality(Asking) \in Nat
  BY FS_CardinalityType DEF Counted
<1>2. Counted'
  BY <1>1 DEF Counted
<1>3. OneToken'
  BY DEF OneToken
<1> QED
  BY <1>2, <1>3

-----------------------------------------------------------------------------
(* acquireAccessToken *)

LEMMA AcquireAccessTokenKeeps ==
  ASSUME NEW c \in Calls, NEW a, WalletInv, AcquireAccessToken(c, a)
  PROVE  WalletInv'
<1> USE Bounds
<1> DEFINE w == [wallet EXCEPT !.code = @ \/ a.code]
           r == TokenRequest(w.offer, w.code, w.verifier, a.pin)
           t == [Idle EXCEPT !.step = "token", !.args = a, !.request = r, !.dpop = TokenDPoP(a)]
<1>1. /\ calls[c].step = "idle" /\ starts < MaxStarts /\ starts' = starts + 1
      /\ wallet' = w
      /\ UNCHANGED <<own, nonces, spent, polls, accepted, lost, refused>>
      /\ \/ /\ NeedsToken(w) /\ Step(c, t)
            /\ overlap' = (overlap \/ \E d \in Calls : calls[d].step \in {"token", "tokenRetry"})
         \/ UNCHANGED <<calls, overlap>>
  BY DEF AcquireAccessToken, Start
<1>2. StateInv /\ CallsInv /\ Counted /\ OneToken
  BY DEF WalletInv
<1>3. /\ w \in WalletState /\ SameIssuer(wallet, w)
      /\ w.token = wallet.token /\ w.nonce = wallet.nonce
  BY <1>2 DEF StateInv, WalletState, SameIssuer
<1>4. StateInv'
  BY <1>1, <1>2, <1>3 DEF StateInv
<1>5. nonces \in Nat /\ Asking \subseteq Calls /\ c \notin Asking /\ Cardinality(Asking) \in Nat
  BY <1>1, <1>2, FS_CardinalityType DEF StateInv, Asking, Asks, Counted
<1>6. CASE NeedsToken(w) /\ Step(c, t)
            /\ overlap' = (overlap \/ \E d \in Calls : calls[d].step \in {"token", "tokenRetry"})
  <2>1. /\ t.step = "token" /\ DOMAIN t = DOMAIN Idle /\ t.dpop = TokenDPoP(a)
        /\ t.proof = NONE /\ t.token = NONE
        /\ t.state = FALSE /\ t.denied = FALSE
    BY DEF Idle
  <2>2. CallInv(t, w, nonces)
    <3>1. TokenDPoP(a) \in BOOLEAN
      BY DEF TokenDPoP
    <3> HIDE DEF t, w
    <3>2. CallOK(t)
      BY <2>1, <3>1 DEF CallOK, Optional, Steps
    <3> QED
      BY <2>1, <3>2 DEF CallInv
  <2>3. CallsInv'
    <3> HIDE DEF t, w
    <3> QED
      BY <1>1, <1>2, <1>3, <1>5, <1>6, <2>2, StepCalls
  <2>4. Asking' = Asking \cup {c}
    <3>1. Asks(t)
      BY <2>1 DEF Asks
    <3> HIDE DEF t
    <3> QED
      BY <1>2, <1>6, <3>1, AskingStep
  <2>5. Cardinality(Asking') = Cardinality(Asking) + 1 /\ IsFiniteSet(Asking')
    BY <1>2, <1>5, <2>4, FS_AddElement DEF Counted
  <2>6. Counted'
    BY <1>1, <1>2, <1>5, <2>5 DEF Counted
  <2>7. OneToken'
    <3> SUFFICES ASSUME ~overlap', ~lost' PROVE OneToken'
      BY DEF OneToken
    <3>1. Asking = {} /\ ~overlap /\ ~lost
      BY <1>1, <1>6 DEF Asking, Asks
    <3>2. wallet'.token = wallet.token /\ wallet.token = NONE
      BY <1>1, <1>3, <1>6 DEF NeedsToken
    <3> QED
      BY <1>1, <1>2, <2>4, <3>1, <3>2 DEF OneToken
  <2> QED
    BY <1>4, <2>3, <2>6, <2>7 DEF WalletInv
<1>7. CASE UNCHANGED <<calls, overlap>>
  <2>1. CallsInv'
    BY <1>1, <1>2, <1>3, <1>5, <1>7, KeptCalls
  <2>2. Asking' = Asking
    BY <1>7 DEF Asking
  <2>3. starts' \in starts .. MaxStarts
    BY <1>1, <1>2 DEF Counted
  <2>4. wallet'.token = wallet.token
    BY <1>1, <1>3
  <2> QED
    BY <1>1, <1>2, <1>4, <1>7, <2>1, <2>2, <2>3, <2>4, NobodyAsks DEF WalletInv
<1> QED
  BY <1>1, <1>6, <1>7

\* Answers of either token endpoint
LEMMA TokenAnswers ==
  ASSUME NEW q, NEW p \in BOOLEAN, NEW r \in IF own THEN OwnTokenAnswers(q, p) ELSE OtherTokenAnswers(p)
  PROVE  /\ r.ok \in BOOLEAN
         /\ r.ok => r.bound \in BOOLEAN /\ r.nonce \in BOOLEAN /\ (r.nonce => nonces < MaxNonces)
<1>1. \/ \E e \in {"invalid_request", "invalid_grant", "use_dpop_nonce"} : r = Error(e)
      \/ r = [ok |-> TRUE, bound |-> FALSE, nonce |-> FALSE]
      \/ r \in [ok : {TRUE}, bound : {p, FALSE}, nonce : {FALSE, nonces < MaxNonces}]
  BY DEF OwnTokenAnswers, OtherTokenAnswers
<1>2. CASE \E e \in {"invalid_request", "invalid_grant", "use_dpop_nonce"} : r = Error(e)
  BY <1>2 DEF Error
<1>3. CASE r = [ok |-> TRUE, bound |-> FALSE, nonce |-> FALSE]
  BY <1>3
<1>4. CASE r \in [ok : {TRUE}, bound : {p, FALSE}, nonce : {FALSE, nonces < MaxNonces}]
  <2>1. r.ok = TRUE /\ r.bound \in {p, FALSE} /\ r.nonce \in {FALSE, nonces < MaxNonces}
    BY <1>4
  <2>2. r.bound \in BOOLEAN
    BY <2>1, Zenon
  <2>3. r.nonce \in BOOLEAN
    <3>1. r.nonce = FALSE \/ r.nonce = (nonces < MaxNonces)
      BY <2>1
    <3>2. CASE r.nonce = FALSE
      BY <3>2
    <3>3. CASE r.nonce = (nonces < MaxNonces)
      BY <3>3
    <3> QED
      BY <3>1, <3>2, <3>3
  <2>4. r.nonce => nonces < MaxNonces
    BY <2>1
  <2> QED
    BY <2>1, <2>2, <2>3, <2>4
<1> QED
  BY <1>1, <1>2, <1>3, <1>4

\* What an answer r to the call c does
TokenAnswered(c, r) ==
    LET opts  == calls[c].args.dpop # "none"
        retry == DemandsNonce(r) /\ opts /\ calls[c].step = "token"
        typed == r.ok /\ (opts => r.bound)
    IN  /\ Step(c, IF retry THEN [calls[c] EXCEPT !.step = "tokenRetry", !.dpop = TRUE] ELSE Idle)
        /\ accepted' = IF r.ok THEN accepted + 1 ELSE accepted
        /\ lost' = (lost \/ (r.ok /\ ~typed))
        /\ nonces' = IF r.ok /\ r.nonce THEN nonces + 1 ELSE nonces
        /\ wallet' = IF ~typed THEN wallet
                     ELSE [wallet EXCEPT !.token = accepted', !.nonce = IF r.nonce THEN nonces' ELSE @]

LEMMA TokenAnswerKeeps ==
  ASSUME NEW c \in Calls, WalletInv, TokenAnswer(c)
  PROVE  WalletInv'
<1> USE Bounds
<1>1. StateInv /\ CallsInv /\ Counted /\ OneToken
  BY DEF WalletInv
<1>2. Asks(calls[c]) /\ UNCHANGED <<own, spent, polls, starts, overlap, refused>>
  BY DEF TokenAnswer, Asks
<1>4. PICK r \in IF own THEN OwnTokenAnswers(calls[c].request, calls[c].dpop)
                 ELSE OtherTokenAnswers(calls[c].dpop) : TokenAnswered(c, r)
  BY DEF TokenAnswer, TokenAnswered
<1> DEFINE opts  == calls[c].args.dpop # "none"
           retry == DemandsNonce(r) /\ opts /\ calls[c].step = "token"
           typed == r.ok /\ (opts => r.bound)
           again == [calls[c] EXCEPT !.step = "tokenRetry", !.dpop = TRUE]
           next  == IF retry THEN again ELSE Idle
<1>7. CallInv(calls[c], wallet, nonces)
  BY <1>1 DEF CallsInv
<1>5. /\ r.ok \in BOOLEAN
      /\ r.ok => r.bound \in BOOLEAN /\ r.nonce \in BOOLEAN /\ (r.nonce => nonces < MaxNonces)
  <2>1. calls[c].dpop \in BOOLEAN
    BY <1>7 DEF CallInv, CallOK
  <2> QED
    BY <2>1, TokenAnswers
<1>6. DemandsNonce(r) => ~r.ok
  BY DEF DemandsNonce
\* A request in flight is one more start than there are answers.
<1>8. /\ Cardinality(Asking \ {c}) = Cardinality(Asking) - 1
      /\ Cardinality(Asking) \in Nat /\ Cardinality(Asking \ {c}) \in Nat
      /\ IsFiniteSet(Asking \ {c})
  <2>1. c \in Asking /\ IsFiniteSet(Asking)
    BY <1>1, <1>2 DEF Asking, Counted
  <2> QED
    BY <2>1, FS_RemoveElement, FS_CardinalityType
<1>9. accepted + 1 \in 1 .. MaxStarts
  BY <1>1, <1>8 DEF Counted
<1>10. /\ nonces \in Nat /\ nonces' \in 0 .. MaxNonces /\ nonces <= nonces'
  BY <1>1, <1>4, <1>5 DEF StateInv, TokenAnswered
<1>11. CASE typed
  <2>1. /\ Step(c, Idle) /\ accepted' = accepted + 1 /\ (lost' <=> lost)
        /\ wallet' = [wallet EXCEPT !.token = accepted', !.nonce = IF r.nonce THEN nonces' ELSE @]
        /\ nonces' = IF r.nonce THEN nonces + 1 ELSE nonces
    BY <1>4, <1>6, <1>11 DEF TokenAnswered
  <2>2. accepted' \in Token
    BY <1>5, <1>9, <1>11, <2>1 DEF Token
  <2>3. wallet.nonce \in Optional(Nonces) /\ DOMAIN wallet = DOMAIN wallet'
    BY <1>1, <2>1 DEF StateInv, WalletState
  <2>4. wallet'.nonce = IF r.nonce THEN nonces' ELSE wallet.nonce
    BY <1>1, <2>1 DEF StateInv, WalletState
  <2>5. wallet'.nonce \in Optional(Nonces) /\ (wallet'.nonce # NONE => wallet'.nonce <= nonces')
    BY <1>1, <1>5, <1>10, <1>11, <2>1, <2>3, <2>4 DEF StateInv, Optional, Nonces
  <2>6. /\ wallet'.token = accepted'
        /\ SameIssuer(wallet, wallet')
    BY <1>1, <2>1 DEF StateInv, WalletState, SameIssuer
  <2>7. wallet' \in WalletState
    <3>1. wallet'.token \in Optional(Token)
      BY <2>2, <2>6 DEF Optional
    <3> DEFINE t == wallet'.token
               n == wallet'.nonce
    <3>2. wallet' = [wallet EXCEPT !.token = t, !.nonce = n]
      BY <2>1, <2>4, <2>6, <1>1 DEF StateInv, WalletState
    <3>3. t \in Optional(Token) /\ n \in Optional(Nonces)
      BY <3>1, <2>5
    <3> HIDE DEF t, n
    <3> QED
      BY <1>1, <3>2, <3>3 DEF StateInv, WalletState
  <2>8. StateInv'
    BY <1>1, <1>2, <1>10, <2>1, <2>5, <2>7 DEF StateInv
  <2>9. CallsInv'
    BY <1>1, <1>2, <1>10, <2>1, <2>6, IdleInv, StepCalls
  <2>10. Asking' = Asking \ {c}
    BY <1>1, <2>1, AskingStep DEF Asks, Idle
  <2>11. Counted'
    BY <1>1, <1>2, <1>8, <2>1, <2>10 DEF Counted
  <2>12. OneToken'
    <3> SUFFICES ASSUME ~overlap', ~lost' PROVE OneToken'
      BY DEF OneToken
    <3>1. c \in Asking /\ wallet.token = NONE /\ Asking = {c} /\ accepted <= 1
          /\ (accepted = 1 => wallet.token # NONE)
      BY <1>1, <1>2, <2>1 DEF OneToken, Asking
    <3>2. accepted' = 1 /\ Asking' = {} /\ wallet'.token # NONE
      BY <1>1, <2>1, <2>2, <2>6, <2>10, <3>1 DEF Counted
    <3> QED
      BY <3>2 DEF OneToken
  <2> QED
    BY <2>8, <2>9, <2>11, <2>12 DEF WalletInv
<1>12. CASE ~typed
  <2>1. /\ Step(c, next) /\ wallet' = wallet
        /\ accepted' = IF r.ok THEN accepted + 1 ELSE accepted
        /\ r.ok => lost'
        /\ ~r.ok => lost' = (lost \/ FALSE)
    BY <1>4, <1>12 DEF TokenAnswered
  <2>4. StateInv'
    <3>1. wallet.nonce # NONE => wallet.nonce \in Nat
      BY <1>1 DEF StateInv, WalletState, Optional, Nonces
    <3>2. wallet'.nonce # NONE => wallet'.nonce <= nonces'
      BY <1>1, <1>10, <2>1, <3>1 DEF StateInv
    <3>3. (spent \cup refused)' \subseteq 1 .. nonces'
      BY <1>1, <1>2, <1>10 DEF StateInv
    <3> QED
      BY <1>1, <1>2, <1>10, <2>1, <3>2, <3>3 DEF StateInv
  <2>5. CallInv(next, wallet, nonces')
    <3>1. CASE ~retry
      BY <3>1, IdleInv
    <3>2. CASE retry
      <4>1. /\ DOMAIN again = DOMAIN Idle /\ again.step = "tokenRetry" /\ again.dpop = TRUE
            /\ again.token = calls[c].token /\ again.proof = calls[c].proof
            /\ again.state = calls[c].state /\ again.denied = calls[c].denied
        BY <1>7, IdleDomain DEF CallInv
      <4> HIDE DEF again
      <4>5. CallOK(again)
        BY <1>7, <4>1 DEF CallInv, CallOK, Steps
      <4>6. CallInv(again, wallet, nonces)
        BY <1>7, <4>1, <4>5 DEF CallInv
      <4>7. CallInv(again, wallet, nonces')
        BY <4>6, <1>10, CallKept DEF SameIssuer
      <4> QED
        BY <3>2, <4>7
    <3> QED
      BY <3>1, <3>2
  <2>6. CallsInv'
    <3> HIDE DEF next
    <3>1. SameIssuer(wallet, wallet)
      BY DEF SameIssuer
    <3> QED
      BY <1>1, <1>2, <1>10, <2>1, <2>5, <3>1, StepCalls
  <2>7. /\ Asks(next) <=> retry
        /\ Asking' = IF retry THEN Asking ELSE Asking \ {c}
    <3>1. Asks(next) <=> retry
      <4>1. CASE retry
        <5>1. again.step = "tokenRetry"
          BY <1>7, IdleDomain DEF CallInv
        <5> QED
          BY <4>1, <5>1 DEF Asks
      <4>2. CASE ~retry
        BY <4>2 DEF Asks, Idle
      <4> QED
        BY <4>1, <4>2
    <3> HIDE DEF next, retry
    <3>2. c \in Asking
      BY <1>2 DEF Asking
    <3> QED
      BY <1>1, <2>1, <3>1, <3>2, AskingStep
  <2>8. Counted'
    BY <1>1, <1>2, <1>6, <1>8, <2>1, <2>7 DEF Counted
  <2>9. OneToken'
    <3> SUFFICES ASSUME ~overlap', ~lost' PROVE OneToken'
      BY DEF OneToken
    <3>1. ~r.ok /\ ~lost /\ ~overlap /\ accepted' = accepted
      BY <1>2, <1>5, <2>1
    <3> QED
      BY <1>1, <2>1, <2>7, <3>1 DEF OneToken
  <2> QED
    BY <2>4, <2>6, <2>8, <2>9 DEF WalletInv
<1> QED
  BY <1>11, <1>12

-----------------------------------------------------------------------------
(* acquireCredentials *)

\* The calls of credentials neither ask for tokens nor answer for them.
LEMMA CredentialStep ==
  ASSUME WalletInv, NEW c \in Calls, ~Asks(calls[c]),
         NEW r, Step(c, r), ~Asks(r), CallInv(r, wallet', nonces'),
         StateInv', nonces <= nonces', SameIssuer(wallet, wallet'),
         wallet'.token = wallet.token,
         UNCHANGED <<accepted, overlap, lost>>, starts' \in starts .. MaxStarts
  PROVE  WalletInv'
<1>1. StateInv /\ CallsInv /\ Counted /\ OneToken
  BY DEF WalletInv
<1>2. CallsInv'
  BY <1>1, StepCalls DEF StateInv
<1>3. Asking' = Asking
  BY <1>1, AskingStep DEF Asking
<1> QED
  BY <1>1, <1>2, <1>3, NobodyAsks DEF WalletInv

\* A proof for the signer, made from a client that has a nonce or needs none
LEMMA ToSignInv ==
  ASSUME NEW w \in WalletState, NEW n \in Nat, w.nonce # NONE => w.nonce <= n,
         NEW a \in CredentialArgs, NEW token \in Token, NEW state \in BOOLEAN,
         w.nonceAt /\ Version(w) = "V15" => w.nonce # NONE
  PROVE  /\ CallInv(ToSign(w, a, token, state), w, n)
         /\ ~Asks(ToSign(w, a, token, state))
<1> USE Bounds
<1> DEFINE r == ToSign(w, a, token, state)
           p == Proof(w.nonce, w.keys, ProofClient(w.offer, w.client))
<1>1. /\ DOMAIN r = DOMAIN Idle /\ r.step = "sign" /\ r.args = a /\ r.token = token /\ r.proof = p
      /\ r.state = state /\ r.dpop = FALSE /\ r.denied = FALSE
  BY DEF ToSign, Idle
<1>2. p \in Proofs /\ p.nonce = w.nonce /\ p.keys = w.keys
  <2>1. w.nonce \in Optional(Nonces) /\ w.keys \in SUBSET Keys
    BY DEF WalletState
  <2>2. ProofClient(w.offer, w.client) \in BOOLEAN
    BY DEF ProofClient
  <2> QED
    BY <2>1, <2>2 DEF Proof, Proofs
<1>3. p # NONE /\ p.nonce \in Optional(Nonces) /\ p.keys \subseteq Keys
  BY <1>2 DEF WalletState
<1> HIDE DEF r, p
<1>4. CallOK(r)
  BY <1>1, <1>3 DEF CallOK, Steps, Optional
<1> QED
  BY <1>1, <1>2, <1>3, <1>4 DEF CallInv, Asks, r

\* A call that waits for a nonce
LEMMA ReadyInv ==
  ASSUME NEW a \in CredentialArgs, NEW token \in Optional(Token), NEW state \in BOOLEAN, NEW w, NEW n
  PROVE  LET r == [Idle EXCEPT !.step = "nonce", !.args = a, !.token = token, !.state = state]
         IN  CallInv(r, w, n) /\ ~Asks(r)
<1> DEFINE r == [Idle EXCEPT !.step = "nonce", !.args = a, !.token = token, !.state = state]
<1>1. /\ DOMAIN r = DOMAIN Idle /\ r.step = "nonce" /\ r.args = a /\ r.token = token /\ r.proof = NONE
      /\ r.state = state /\ r.dpop = FALSE /\ r.denied = FALSE
  BY DEF Idle
<1> HIDE DEF r
<1>2. CallOK(r)
  BY <1>1 DEF CallOK, Steps, Optional
<1>3. CallInv(r, w, n) /\ ~Asks(r)
  BY <1>1, <1>2 DEF CallInv, Asks
<1> QED
  BY <1>3 DEF r

LEMMA AcquireCredentialsKeeps ==
  ASSUME NEW c \in Calls, NEW a \in CredentialArgs, WalletInv, AcquireCredentials(c, a)
  PROVE  WalletInv'
<1> USE Bounds
<1> DEFINE w == [wallet EXCEPT !.keys = @ \cup a.keys]
           state == SendsIssuerState(w)
           ready == [Idle EXCEPT !.step = "nonce", !.args = a, !.token = w.token, !.state = state]
           sign  == ToSign(w, a, w.token, state)
<1>1. StateInv /\ CallsInv /\ Counted /\ OneToken
  BY DEF WalletInv
<1>2. /\ calls[c].step = "idle" /\ starts < MaxStarts /\ starts' = starts + 1
      /\ UNCHANGED <<own, nonces, spent, polls, accepted, overlap, lost, refused>>
      /\ \/ wallet' = wallet /\ calls' = calls
         \/ wallet' = w /\ calls' = calls
         \/ wallet' = w /\ Step(c, ready)
         \/ wallet' = w /\ Step(c, sign) /\ ~NonceFirst(w) /\ w.token # NONE
  BY DEF AcquireCredentials, Start, history
<1>3. /\ w \in WalletState /\ SameIssuer(wallet, w)
      /\ w.token = wallet.token /\ w.nonce = wallet.nonce /\ w.kind = wallet.kind
  <2>1. a.keys \subseteq Keys
    BY WalletsAssumption
  <2> QED
    BY <1>1, <2>1 DEF StateInv, WalletState, SameIssuer
<1>4. /\ wallet' \in {wallet, w} /\ SameIssuer(wallet, wallet')
      /\ wallet'.token = wallet.token /\ wallet'.nonce = wallet.nonce /\ wallet' \in WalletState
  BY <1>1, <1>2, <1>3 DEF StateInv, SameIssuer
<1>5. StateInv'
  BY <1>1, <1>2, <1>4 DEF StateInv
<1>6. /\ starts' \in starts .. MaxStarts /\ nonces \in Nat /\ nonces <= nonces'
      /\ ~Asks(calls[c]) /\ nonces' = nonces
  BY <1>1, <1>2 DEF Counted, StateInv, Asks
<1>7. state \in BOOLEAN
  BY DEF SendsIssuerState
<1> HIDE DEF w, state
<1>8. CASE calls' = calls
  <2>1. CallsInv'
    BY <1>1, <1>2, <1>4, <1>6, <1>8, KeptCalls
  <2>2. Asking' = Asking
    BY <1>8 DEF Asking
  <2> QED
    BY <1>1, <1>2, <1>4, <1>5, <1>6, <2>1, <2>2, NobodyAsks DEF WalletInv
<1>9. CASE wallet' = w /\ Step(c, ready)
  <2>1. CallInv(ready, wallet', nonces') /\ ~Asks(ready)
    <3>1. w.token \in Optional(Token)
      BY <1>3 DEF WalletState
    <3> QED
      BY <1>7, <3>1, ReadyInv
  <2> HIDE DEF ready
  <2> QED
    BY <1>2, <1>4, <1>5, <1>6, <1>9, <2>1, CredentialStep
<1>10. CASE wallet' = w /\ Step(c, sign) /\ ~NonceFirst(w) /\ w.token # NONE
  <2>1. w.token \in Token
    BY <1>3, <1>10 DEF WalletState, Optional
  <2>2. w.nonceAt /\ Version(w) = "V15" => w.nonce # NONE
    BY <1>10 DEF NonceFirst
  <2>3. w.nonce # NONE => w.nonce <= nonces
    BY <1>1, <1>3 DEF StateInv
  <2>4. CallInv(sign, wallet', nonces') /\ ~Asks(sign)
    BY <1>3, <1>6, <1>7, <1>10, <2>1, <2>2, <2>3, ToSignInv
  <2> HIDE DEF sign
  <2> QED
    BY <1>2, <1>4, <1>5, <1>6, <1>10, <2>4, CredentialStep
<1> QED
  BY <1>2, <1>8, <1>9, <1>10

LEMMA NonceAnswerKeeps ==
  ASSUME NEW c \in Calls, WalletInv, NonceAnswer(c)
  PROVE  WalletInv'
<1> USE Bounds
<1>1. StateInv /\ CallsInv /\ Counted /\ OneToken
  BY DEF WalletInv
<1>2. /\ calls[c].step = "nonce" /\ ~Asks(calls[c])
      /\ UNCHANGED <<own, spent, polls, starts, accepted, overlap, lost, refused>>
  BY DEF NonceAnswer, Asks, history
<1>3. starts' \in starts .. MaxStarts /\ nonces \in Nat
  BY <1>1, <1>2 DEF Counted, StateInv
<1>4. CASE Step(c, Idle) /\ UNCHANGED <<wallet, nonces>>
  <2>1. StateInv'
    BY <1>1, <1>2, <1>4 DEF StateInv
  <2>2. ~Asks(Idle) /\ SameIssuer(wallet, wallet')
    BY <1>4 DEF Asks, Idle, SameIssuer
  <2> QED
    BY <1>2, <1>3, <1>4, <2>1, <2>2, IdleInv, CredentialStep
<1>5. CASE ~(Step(c, Idle) /\ UNCHANGED <<wallet, nonces>>)
  <2> DEFINE w == [wallet EXCEPT !.nonce = nonces + 1]
             token == IF wallet.kind = "V15" THEN calls[c].token ELSE w.token
             state == IF wallet.kind = "V15" THEN calls[c].state ELSE SendsIssuerState(w)
             sign == ToSign(w, calls[c].args, token, state)
  <2>1. /\ nonces < MaxNonces /\ nonces' = nonces + 1 /\ wallet' = w
        /\ Step(c, IF token = NONE THEN Idle ELSE sign)
    BY <1>5 DEF NonceAnswer, StoredNonce
  <2>2. /\ w \in WalletState /\ SameIssuer(wallet, w)
        /\ w.token = wallet.token /\ w.nonce = nonces + 1
    <3>1. nonces + 1 \in Optional(Nonces)
      BY <1>1, <1>3, <2>1 DEF StateInv, Optional, Nonces
    <3> QED
      BY <1>1, <3>1 DEF StateInv, WalletState, SameIssuer
  <2>3. token \in Optional(Token) /\ state \in BOOLEAN /\ calls[c].args \in CredentialArgs
    <3>1. calls[c].token \in Optional(Token) /\ calls[c].state \in BOOLEAN /\ calls[c].args \in CredentialArgs
      BY <1>1, <1>2 DEF CallsInv, CallInv, CallOK
    <3>2. w.token \in Optional(Token)
      BY <2>2 DEF WalletState
    <3>3. SendsIssuerState(w) \in BOOLEAN
      BY DEF SendsIssuerState
    <3> HIDE DEF w
    <3> QED
      BY <3>1, <3>2, <3>3
  <2> HIDE DEF w, token, state
  <2>4. StateInv'
    <3>1. nonces' \in 0 .. MaxNonces /\ (spent \cup refused)' \subseteq 1 .. nonces'
      BY <1>1, <1>2, <1>3, <2>1 DEF StateInv
    <3>2. wallet'.nonce <= nonces'
      BY <1>3, <2>1, <2>2
    <3> QED
      BY <1>1, <1>2, <2>1, <2>2, <3>1, <3>2 DEF StateInv
  <2>5. nonces' \in Nat /\ nonces <= nonces' /\ w.nonce # NONE /\ w.nonce <= nonces'
    BY <1>3, <2>1, <2>2
  <2>6. CASE token = NONE
    <3>1. ~Asks(Idle)
      BY DEF Asks, Idle
    <3> QED
      BY <1>2, <1>3, <2>1, <2>2, <2>4, <2>5, <2>6, <3>1, IdleInv, CredentialStep
  <2>7. CASE token # NONE
    <3>1. token \in Token
      BY <2>3, <2>7 DEF Optional
    <3>2. CallInv(sign, wallet', nonces') /\ ~Asks(sign)
      BY <2>1, <2>2, <2>3, <2>5, <3>1, ToSignInv
    <3> HIDE DEF sign
    <3> QED
      BY <1>2, <1>3, <2>1, <2>2, <2>4, <2>5, <2>7, <3>2, CredentialStep
  <2> QED
    BY <2>6, <2>7
<1> QED
  BY <1>4, <1>5

\* The calls end, or go on with what they hold.
LEMMA EndsInv ==
  ASSUME WalletInv, NEW c \in Calls, ~Asks(calls[c]), Step(c, Idle),
         StateInv', nonces' = nonces, UNCHANGED <<own, wallet, starts, accepted, overlap, lost>>
  PROVE  WalletInv'
<1>1. ~Asks(Idle) /\ SameIssuer(wallet, wallet')
  BY DEF Asks, Idle, SameIssuer
<1>2. starts' \in starts .. MaxStarts /\ nonces \in Nat
  BY Bounds DEF WalletInv, Counted, StateInv
<1> QED
  BY <1>1, <1>2, IdleInv, CredentialStep

LEMMA GoesOnInv ==
  ASSUME WalletInv, NEW c \in Calls, ~Asks(calls[c]), NEW r, Step(c, r), ~Asks(r),
         CallInv(r, wallet, nonces),
         StateInv', nonces' = nonces, UNCHANGED <<own, wallet, starts, accepted, overlap, lost>>
  PROVE  WalletInv'
<1>1. SameIssuer(wallet, wallet')
  BY DEF SameIssuer
<1>2. starts' \in starts .. MaxStarts /\ nonces \in Nat
  BY Bounds DEF WalletInv, Counted, StateInv
<1> QED
  BY <1>1, <1>2, CredentialStep

\* A call that is sent, with a DPoP proof or without
LEMMA SentInv ==
  ASSUME NEW r, NEW q, NEW w, NEW n, CallInv(r, w, n), r.step \in {"sign", "credential"},
         DOMAIN q = DOMAIN Idle, q.step \in {"credential", "credentialRetry"}, q.dpop \in BOOLEAN,
         q.token = r.token, q.proof = r.proof, q.state = r.state, q.denied = r.denied
  PROVE  CallInv(q, w, n) /\ ~Asks(q)
<1>1. CallOK(q)
  BY DEF CallInv, CallOK, Steps
<1> QED
  BY <1>1 DEF CallInv, Asks

LEMMA ProofSignedKeeps ==
  ASSUME NEW c \in Calls, WalletInv, ProofSigned(c)
  PROVE  WalletInv'
<1> USE Bounds
<1> DEFINE a    == calls[c].args
           id   == IF wallet.kind = "V15" THEN a.identifier ELSE NONE
           body == RequestBody(calls[c].request, id, DetailOf(<<>>, id))
           q    == [calls[c] EXCEPT !.step = "credential", !.request = body, !.dpop = a.dpop]
<1>1. StateInv /\ CallsInv /\ Counted /\ OneToken
  BY DEF WalletInv
<1>2. /\ calls[c].step = "sign" /\ ~Asks(calls[c]) /\ nonces' = nonces
      /\ UNCHANGED <<own, wallet, starts, accepted, overlap, lost>>
      /\ UNCHANGED <<spent, polls, refused>>
  BY DEF ProofSigned, Asks, history
<1>3. Step(c, Idle) \/ Step(c, q)
  BY DEF ProofSigned
<1>4. StateInv'
  BY <1>1, <1>2 DEF StateInv
<1>5. CASE Step(c, Idle)
  BY <1>2, <1>4, <1>5, EndsInv
<1>6. CASE Step(c, q)
  <2>1. CallInv(calls[c], wallet, nonces)
    BY <1>1 DEF CallsInv
  <2>2. a.dpop \in BOOLEAN
    BY <1>2, <2>1, WalletsAssumption DEF CallInv
  <2> HIDE DEF body
  <2>3. /\ DOMAIN q = DOMAIN Idle /\ q.step = "credential" /\ q.dpop = a.dpop
        /\ q.token = calls[c].token /\ q.proof = calls[c].proof
        /\ q.state = calls[c].state /\ q.denied = calls[c].denied
    BY <2>1, IdleDomain DEF CallInv
  <2> HIDE DEF q
  <2>4. CallInv(q, wallet, nonces) /\ ~Asks(q)
    BY <1>2, <2>1, <2>2, <2>3, SentInv
  <2> QED
    BY <1>2, <1>4, <1>6, <2>4, GoesOnInv
<1> QED
  BY <1>3, <1>5, <1>6

LEMMA CredentialAnswerKeeps ==
  ASSUME NEW c \in Calls, WalletInv, CredentialAnswer(c)
  PROVE  WalletInv'
<1> USE Bounds
<1> DEFINE again == [calls[c] EXCEPT !.step = "credentialRetry"]
           defer == [calls[c] EXCEPT !.step = "deferred", !.dpop = FALSE]
           nonce == {calls[c].proof.nonce} \ {NONE}
<1>1. StateInv /\ CallsInv /\ Counted /\ OneToken
  BY DEF WalletInv
<1>2. /\ calls[c].step \in {"credential", "credentialRetry"} /\ ~Asks(calls[c])
      /\ UNCHANGED <<own, wallet, nonces, polls, starts, accepted, overlap, lost>>
  BY DEF CredentialAnswer, Asks
<1>3. /\ spent' \subseteq spent \cup nonce /\ refused' \subseteq refused \cup nonce
      /\ \/ calls[c].step = "credential" /\ Step(c, again)
         \/ Step(c, defer) \/ Step(c, Idle)
  BY DEF CredentialAnswer
<1>4. CallInv(calls[c], wallet, nonces)
  BY <1>1 DEF CallsInv
<1>5. nonce \subseteq 1 .. nonces
  <2>1. calls[c].proof # NONE /\ calls[c].proof.nonce \in Optional(Nonces)
    BY <1>2, <1>4 DEF CallInv, CallOK
  <2>2. calls[c].proof.nonce # NONE => calls[c].proof.nonce <= nonces
    BY <1>4, <2>1 DEF CallInv
  <2> QED
    BY <1>1, <2>1, <2>2 DEF StateInv, Optional, Nonces
<1> HIDE DEF nonce
<1>6. StateInv'
  BY <1>1, <1>2, <1>3, <1>5 DEF StateInv
<1>7. CASE Step(c, Idle)
  BY <1>2, <1>6, <1>7, EndsInv
<1>8. CASE Step(c, defer)
  <2>1. /\ DOMAIN defer = DOMAIN Idle /\ defer.step = "deferred" /\ defer.dpop = FALSE
        /\ defer.token = calls[c].token /\ defer.proof = calls[c].proof
        /\ defer.state = calls[c].state /\ defer.denied = calls[c].denied
    BY <1>4, IdleDomain DEF CallInv
  <2> HIDE DEF defer
  <2>2. CallOK(defer)
    BY <1>2, <1>4, <2>1 DEF CallInv, CallOK, Steps
  <2>3. CallInv(defer, wallet, nonces) /\ ~Asks(defer)
    BY <1>4, <2>1, <2>2 DEF CallInv, Asks
  <2> QED
    BY <1>2, <1>6, <1>8, <2>3, GoesOnInv
<1>9. CASE calls[c].step = "credential" /\ Step(c, again)
  <2>1. /\ DOMAIN again = DOMAIN Idle /\ again.step = "credentialRetry" /\ again.dpop = calls[c].dpop
        /\ again.token = calls[c].token /\ again.proof = calls[c].proof
        /\ again.state = calls[c].state /\ again.denied = calls[c].denied
    BY <1>4, IdleDomain DEF CallInv
  <2>2. calls[c].dpop \in BOOLEAN
    BY <1>4 DEF CallInv, CallOK
  <2> HIDE DEF again
  <2>3. CallInv(again, wallet, nonces) /\ ~Asks(again)
    BY <1>4, <1>9, <2>1, <2>2, SentInv
  <2> QED
    BY <1>2, <1>6, <1>9, <2>3, GoesOnInv
<1> QED
  BY <1>3, <1>7, <1>8, <1>9

LEMMA DeferredAnswerKeeps ==
  ASSUME NEW c \in Calls, WalletInv, DeferredAnswer(c)
  PROVE  WalletInv'
<1> USE Bounds
<1> DEFINE again(b) == [calls[c] EXCEPT !.denied = b]
<1>1. StateInv /\ CallsInv /\ Counted /\ OneToken
  BY DEF WalletInv
<1>2. /\ calls[c].step = "deferred" /\ ~Asks(calls[c]) /\ nonces' = nonces
      /\ UNCHANGED <<own, wallet, starts, accepted, overlap, lost>>
      /\ UNCHANGED <<spent, refused>>
  BY DEF DeferredAnswer, Asks, history
<1>3. PICK r \in DeferredAnswers(calls[c]) :
         /\ polls' = IF polls < MaxPolls THEN polls + 1 ELSE polls
         /\ \/ Step(c, [calls[c] EXCEPT !.denied = ~r.ok /\ r.error # "issuance_pending"])
            \/ Step(c, Idle)
  BY DEF DeferredAnswer
<1>4. StateInv'
  BY <1>1, <1>2, <1>3 DEF StateInv
<1>5. CASE Step(c, Idle)
  BY <1>2, <1>4, <1>5, EndsInv
<1>6. CASE ~Step(c, Idle)
  <2> DEFINE b == ~r.ok /\ r.error # "issuance_pending"
             q == [calls[c] EXCEPT !.denied = b]
  <2>1. Step(c, q)
    BY <1>3, <1>6
  <2>2. b \in BOOLEAN
    OBVIOUS
  <2>3. CallInv(calls[c], wallet, nonces)
    BY <1>1 DEF CallsInv
  <2> HIDE DEF b
  <2>4. /\ DOMAIN q = DOMAIN Idle /\ q.step = "deferred" /\ q.dpop = calls[c].dpop
        /\ q.token = calls[c].token /\ q.proof = calls[c].proof
        /\ q.state = calls[c].state /\ q.denied = b
    BY <1>2, <2>3, IdleDomain DEF CallInv
  <2> HIDE DEF q
  <2>5. CallOK(q)
    BY <1>2, <2>2, <2>3, <2>4 DEF CallInv, CallOK, Steps
  <2>6. CallInv(q, wallet, nonces) /\ ~Asks(q)
    BY <2>3, <2>4, <2>5 DEF CallInv, Asks
  <2> QED
    BY <1>2, <1>4, <2>1, <2>6, GoesOnInv
<1> QED
  BY <1>5, <1>6

-----------------------------------------------------------------------------
(* exportState and fromState *)

LEMMA RestoreKeeps ==
  ASSUME WalletInv, Restore
  PROVE  WalletInv'
<1> USE Bounds
<1>1. StateInv /\ CallsInv /\ Counted /\ OneToken
  BY DEF WalletInv
<1>2. PICK k \in Kinds : wallet' = [Restored(wallet) EXCEPT !.kind = k]
  BY DEF Restore
<1>3. /\ calls' = [c \in Calls |-> Idle]
      /\ lost' = (lost \/ \E c \in Calls : calls[c].step \in {"token", "tokenRetry"})
      /\ UNCHANGED <<own, nonces, spent, polls, starts, accepted, overlap, refused>>
  BY DEF Restore
<1>4. wallet' \in WalletState /\ wallet'.nonce = NONE /\ wallet'.token = wallet.token
  <2>1. NONE \in Optional(Nonces)
    BY DEF Optional
  <2>2. wallet' = [[wallet EXCEPT !.nonce = NONE] EXCEPT !.kind = k]
    BY <1>2 DEF Restored
  <2> QED
    BY <1>1, <2>1, <2>2 DEF StateInv, WalletState
<1>5. StateInv'
  BY <1>1, <1>3, <1>4 DEF StateInv
<1>6. CallsInv'
  BY <1>3, IdleInv DEF CallsInv
<1>7. Asking' = {}
  BY <1>3 DEF Asking, Asks, Idle
<1>8. Counted'
  <2>1. Cardinality(Asking) \in Nat /\ Cardinality({}) = 0 /\ IsFiniteSet({})
    BY <1>1, FS_CardinalityType, FS_EmptySet DEF Counted
  <2> QED
    BY <1>1, <1>3, <1>7, <2>1 DEF Counted
<1>9. OneToken'
  BY <1>1, <1>3, <1>4, <1>7 DEF OneToken
<1> QED
  BY <1>5, <1>6, <1>8, <1>9 DEF WalletInv

-----------------------------------------------------------------------------
(* The invariant and its theorems *)

LEMMA WalletInit == Init => WalletInv
<1> SUFFICES ASSUME Init PROVE WalletInv
  OBVIOUS
<1> USE Bounds
<1>1. wallet \in WalletState /\ wallet.nonce = NONE
  BY WalletsAssumption DEF Init
<1>2. StateInv
  BY <1>1 DEF Init, StateInv, Optional
<1>3. CallsInv
  BY IdleInv DEF Init, CallsInv
<1>4. Asking = {}
  BY DEF Init, Asking, Asks, Idle
<1>5. Counted
  BY <1>4, FS_EmptySet DEF Init, Counted
<1>6. OneToken
  BY <1>4 DEF Init, OneToken
<1> QED
  BY <1>2, <1>3, <1>5, <1>6 DEF WalletInv

LEMMA WalletStep == WalletInv /\ [Next]_vars => WalletInv'
<1> SUFFICES ASSUME WalletInv, [Next]_vars PROVE WalletInv'
  OBVIOUS
<1>1. CASE \E c \in Calls, a \in TokenArgs : AcquireAccessToken(c, a)
  BY <1>1, AcquireAccessTokenKeeps
<1>2. CASE \E c \in Calls, a \in CredentialArgs : AcquireCredentials(c, a)
  BY <1>2, AcquireCredentialsKeeps
<1>3. ASSUME NEW c \in Calls, Answer(c) PROVE WalletInv'
  BY <1>3, TokenAnswerKeeps, NonceAnswerKeeps, ProofSignedKeeps, CredentialAnswerKeeps,
     DeferredAnswerKeeps DEF Answer
<1>4. CASE Restore
  BY <1>4, RestoreKeeps
<1>5. CASE UNCHANGED vars
  <2>1. Asking' = Asking
    BY <1>5 DEF vars, Asking
  <2>2. CallsInv'
    BY <1>5 DEF vars, CallsInv, WalletInv
  <2>3. StateInv' /\ Counted' /\ OneToken'
    BY <1>5, <2>1 DEF vars, StateInv, Counted, OneToken, WalletInv
  <2> QED
    BY <2>2, <2>3 DEF WalletInv
<1> QED
  BY <1>1, <1>2, <1>3, <1>4, <1>5 DEF Next

LEMMA WalletInvariant == Spec => []WalletInv
BY WalletInit, WalletStep, PTL DEF Spec

\* Types for any number of calls (acquireAccessToken, acquireCredentials): no
\* more token requests are accepted than calls were started, no nonce is used
\* that was not handed out.
THEOREM WalletTypeCorrect == Spec => []WalletTypeOK
<1>1. WalletInv => WalletTypeOK
  <2> SUFFICES ASSUME WalletInv PROVE WalletTypeOK
    OBVIOUS
  <2>1. Cardinality(Asking) \in Nat
    BY FS_CardinalityType DEF WalletInv, Counted
  <2>2. accepted \in 0 .. MaxStarts
    BY <2>1, Bounds DEF WalletInv, Counted
  <2> QED
    BY <2>2 DEF WalletInv, StateInv, CallsInv, CallInv, Counted, WalletTypeOK
<1> QED
  BY <1>1, WalletInvariant, PTL

\* A code is redeemed once, whatever calls, retries and restores come between
\* (acquireAccessToken, the constructors' accessTokenResponse).
THEOREM RedeemedOnce == Spec => []CodeRedeemedOnce
<1>1. WalletInv => CodeRedeemedOnce
  BY DEF WalletInv, OneToken, Counted, CodeRedeemedOnce
<1> QED
  BY <1>1, WalletInvariant, PTL

\* A proof of possession has a nonce where the issuer has a nonce endpoint, and
\* one it handed out (acquireNonceViaV15Delegate, cachedCNonce).
THEOREM ProofsHaveNonces == Spec => []ProofHasNonce
<1>1. WalletInv => ProofHasNonce
  <2> SUFFICES ASSUME WalletInv, NEW c \in Calls,
                      calls[c].step \in {"sign", "credential", "credentialRetry"}
               PROVE  /\ wallet.nonceAt /\ Version(wallet) = "V15" => calls[c].proof.nonce # NONE
                      /\ calls[c].proof.nonce # NONE => calls[c].proof.nonce <= nonces
    BY DEF ProofHasNonce
  <2>1. CallInv(calls[c], wallet, nonces)
    BY DEF WalletInv, CallsInv
  <2>2. calls[c].proof # NONE
    BY <2>1 DEF CallInv, CallOK
  <2> QED
    BY <2>1, <2>2 DEF CallInv
<1> QED
  BY <1>1, WalletInvariant, PTL
=============================================================================
