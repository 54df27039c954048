------------------------- MODULE Authorization_proofs -------------------------
(***************************************************************************)
(* What holds of the requests a wallet prepares, for any number of calls,  *)
(* issuers and servers: requests that must be pushed are, their uris are   *)
(* known to the server, and the code is redeemable.  Between preparing a   *)
(* request and using it lie the answer of the server and the signature of  *)
(* the application, while other calls change the wallet.                   *)
(***************************************************************************)
EXTENDS Authorization, FiniteSetTheorems, TLAPS

QueryFields == {"challenge", "redirect", "client", "scope", "details", "endpoint", "mode",
                "parAt", "required", "object", "request_uri"}
CallFields  == {"step", "ci", "query"}
WalletFields == {"kind", "offered", "own", "meta", "url", "opts", "pkce"}

\* A request_uri in q is kept, for the same challenge and redirect uri.
Stored(q, p) ==
    q.request_uri # NONE =>
        /\ q.request_uri \in DOMAIN p
        /\ p[q.request_uri].challenge = q.challenge
        /\ p[q.request_uri].redirect = q.redirect

\* A request that is about to be pushed, and one that needs no push any more
ToPush(q) == DOMAIN q = QueryFields /\ q.request_uri = NONE /\ (q.required => q.mode = "REQUIRE")
Pushed(q, p) == Stored(q, p) /\ (q.required => q.request_uri # NONE)

Busy(r) == r.step \in {"par", "sign"}

CallInv(r, p) ==
    /\ DOMAIN r = CallFields
    /\ r.step = "par" => ToPush(r.query)
    /\ r.step = "sign" => Pushed(r.query, p)

ParInv == \E n \in Nat : DOMAIN par = 1 .. n

CallsInv == /\ calls = [c \in Calls |-> calls[c]]
            /\ \A c \in Calls : CallInv(calls[c], par)

\* What a request was made from is what the wallet will send with its code.
Matches(q, w) == q.challenge = w.pkce.verifier /\ q.redirect = w.opts.redirect

WalletInv ==
    /\ DOMAIN wallet = WalletFields
    /\ wallet.pkce.challenge = wallet.pkce.verifier
    /\ wallet.own => wallet.pkce.verifier \in {NONE, Own}
    /\ wallet.url # NONE => Pushed(wallet.url, par)

\* Until two requests are prepared at once, one of them is under way or the URL
\* is settled, and so is the code.
OneRequest ==
    ~overlap =>
        /\ \A c, d \in Calls : Busy(calls[c]) /\ Busy(calls[d]) => c = d
        /\ \A c \in Calls : Busy(calls[c]) => wallet.url = NONE /\ Matches(calls[c].query, wallet)
        /\ wallet.url # NONE => Matches(wallet.url, wallet)
        /\ code # NONE => wallet.url # NONE /\ Matches(code, wallet)
        /\ token # NONE => /\ code # NONE
                           /\ token.verifier = code.challenge /\ token.redirect = code.redirect

Inv == ParInv /\ CallsInv /\ WalletInv /\ OneRequest

-----------------------------------------------------------------------------

\* The application's own verifier, or the first one generated, is kept.
LEMMA PkceAgrees ==
  ASSUME NEW pkce, NEW own, NEW fresh, pkce.challenge = pkce.verifier,
         own => pkce.verifier \in {NONE, Own}
  PROVE  /\ GeneratePKCE(pkce, own, fresh).challenge = GeneratePKCE(pkce, own, fresh).verifier
         /\ own => GeneratePKCE(pkce, own, fresh).verifier = Own
BY DEF GeneratePKCE, Or

LEMMA FreshUri ==
  ASSUME ParInv, NEW id, id = Cardinality(DOMAIN par) + 1
  PROVE  id \in Nat /\ id \notin DOMAIN par /\ \E n \in Nat : DOMAIN par \cup {id} = 1 .. n
<1>1. PICK n \in Nat : DOMAIN par = 1 .. n
  BY DEF ParInv
<1>2. Cardinality(1 .. n) = n
  BY <1>1, FS_Interval
<1>3. id = n + 1
  BY <1>1, <1>2
<1> QED
  BY <1>1, <1>3

\* A request that was stored stays stored when another is kept, one that was
\* pushed stays pushed.
LEMMA StoredKept ==
  ASSUME NEW id, id \notin DOMAIN par, NEW q, NEW r,
         DOMAIN par' = DOMAIN par \cup {id}, \A x \in DOMAIN par : par'[x] = par[x]
  PROVE  /\ Stored(r, par) => Stored(r, par')
         /\ Pushed(r, par) => Pushed(r, par')
         /\ CallInv(r, par) => CallInv(r, par')
<1>1. \A u : Stored(u, par) => Stored(u, par')
  BY DEF Stored
<1> QED
  BY <1>1 DEF Pushed, CallInv

\* A call moves on and nothing else changes but, if it is done, the URL.
LEMMA Idles == CallInv(Idle, par) /\ ~Busy(Idle)
BY DEF CallInv, Idle, Busy, CallFields

LEMMA CallSteps ==
  ASSUME NEW c \in Calls, NEW r, calls' = [calls EXCEPT ![c] = r],
         CallsInv, \A d \in Calls : CallInv(calls[d], par) => CallInv(calls[d], par'),
         CallInv(r, par')
  PROVE  CallsInv'
BY DEF CallsInv

\* Discovery: calls that are not about a request
LEMMA DiscoveryKeeps ==
  ASSUME Inv, NEW c \in Calls, NEW r, ~Busy(calls[c]), ~Busy(r), DOMAIN r = CallFields,
         calls' = [calls EXCEPT ![c] = r], UNCHANGED <<par, code, token, overlap>>,
         DOMAIN wallet' = WalletFields, wallet'.pkce = wallet.pkce, wallet'.own = wallet.own,
         wallet'.url = wallet.url, wallet'.opts = wallet.opts
  PROVE  Inv'
<1>1. ParInv' /\ WalletInv'
  BY DEF Inv, ParInv, WalletInv
<1>2. CallsInv'
  <2>1. CallInv(r, par)
    BY DEF CallInv, Busy
  <2> QED
    BY <2>1, CallSteps DEF Inv
<1>3. \A d \in Calls : calls'[d] = IF d = c THEN r ELSE calls[d]
  BY DEF Inv, CallsInv
<1>4. \A q : Matches(q, wallet') <=> Matches(q, wallet)
  BY DEF Matches
<1>5. OneRequest'
  BY <1>3, <1>4 DEF Inv, OneRequest
<1> QED
  BY <1>1, <1>2, <1>5 DEF Inv

LEMMA RetrieveKeeps ==
  ASSUME Inv, NEW c \in Calls, RetrieveServerMetadata(c)
  PROVE  Inv'
<1> DEFINE r == [calls[c] EXCEPT !.step = "ci"]
<1>1. CallInv(calls[c], par) /\ calls[c].step = "idle"
  BY DEF Inv, CallsInv, RetrieveServerMetadata
<1>2. DOMAIN r = CallFields /\ r.step = "ci"
  BY <1>1 DEF CallInv, CallFields
<1>3. calls' = [calls EXCEPT ![c] = r]
  BY DEF RetrieveServerMetadata, Inv, CallsInv
<1> HIDE DEF r
<1> QED
  BY <1>1, <1>2, <1>3, DiscoveryKeeps DEF RetrieveServerMetadata, Busy, Inv, WalletInv

LEMMA IssuerAnswersKeeps ==
  ASSUME Inv, NEW c \in Calls, IssuerAnswers(c)
  PROVE  Inv'
<1> DEFINE r(doc) == [calls[c] EXCEPT !.step = "oidc", !.ci = doc]
<1>1. CallInv(calls[c], par) /\ calls[c].step = "ci" /\ UNCHANGED <<wallet, par, code, token, overlap>>
  BY DEF Inv, CallsInv, IssuerAnswers
<1>2. PICK doc : calls' = [calls EXCEPT ![c] = Idle] \/ calls' = [calls EXCEPT ![c] = r(doc)]
  BY DEF IssuerAnswers, Inv, CallsInv
<1>3. DOMAIN r(doc) = CallFields /\ r(doc).step = "oidc"
  BY <1>1 DEF CallInv, CallFields
<1>4. DOMAIN Idle = CallFields /\ ~Busy(Idle)
  BY DEF Idle, CallFields, Busy
<1> HIDE DEF r
<1> QED
  BY <1>1, <1>2, <1>3, <1>4, DiscoveryKeeps DEF Busy, Inv, WalletInv

LEMMA ServerAnswersKeeps ==
  ASSUME Inv, NEW c \in Calls, ServerAnswers(c)
  PROVE  Inv'
<1> DEFINE r == [calls[c] EXCEPT !.step = "oauth"]
<1>1. CallInv(calls[c], par) /\ calls[c].step \in {"oidc", "oauth"} /\ UNCHANGED <<par, code, token, overlap>>
  BY DEF Inv, CallsInv, ServerAnswers
<1>2. PICK meta :
        /\ calls' = [calls EXCEPT ![c] = Idle] \/ calls' = [calls EXCEPT ![c] = r]
        /\ wallet' = wallet \/ wallet' = [wallet EXCEPT !.meta = meta]
  BY DEF ServerAnswers, Inv, CallsInv
<1>3. DOMAIN r = CallFields /\ r.step = "oauth"
  BY <1>1 DEF CallInv, CallFields
<1>4. DOMAIN Idle = CallFields /\ ~Busy(Idle)
  BY DEF Idle, CallFields, Busy
<1>5. /\ DOMAIN wallet' = WalletFields /\ wallet'.pkce = wallet.pkce /\ wallet'.own = wallet.own
      /\ wallet'.url = wallet.url /\ wallet'.opts = wallet.opts
  BY <1>2 DEF Inv, WalletInv, WalletFields
<1> HIDE DEF r
<1> QED
  BY <1>1, <1>2, <1>3, <1>4, <1>5, DiscoveryKeeps DEF Busy

\* A call about a request moves to r and leaves the client as w; unless
\* requests overlapped, it is the only one and what it leaves agrees.
LEMMA Settles ==
  ASSUME Inv, NEW c \in Calls, NEW r, NEW w,
         calls' = [calls EXCEPT ![c] = r], wallet' = w, ParInv',
         \A d \in Calls : CallInv(calls[d], par) => CallInv(calls[d], par'),
         CallInv(r, par'), DOMAIN w = WalletFields,
         w.pkce.challenge = w.pkce.verifier, w.own => w.pkce.verifier \in {NONE, Own},
         w.url # NONE => Pushed(w.url, par'),
         UNCHANGED <<code, token>>,
         ~overlap' => /\ \A d \in Calls : Busy(calls[d]) => d = c
                      /\ Busy(r) => w.url = NONE /\ Matches(r.query, w)
                      /\ w.url # NONE => Matches(w.url, w)
                      /\ code = NONE /\ token = NONE
  PROVE  Inv'
<1>1. WalletInv'
  BY DEF WalletInv
<1>2. CallsInv'
  BY CallSteps DEF Inv
<1>3. \A d \in Calls : calls'[d] = IF d = c THEN r ELSE calls[d]
  BY DEF Inv, CallsInv
<1>4. OneRequest'
  BY <1>3 DEF OneRequest
<1> QED
  BY <1>1, <1>2, <1>4 DEF Inv

LEMMA ProceedKeeps ==
  ASSUME Inv, NEW c \in Calls, NEW q, NEW w, Proceed(c, w, q), ParInv',
         \A d \in Calls : CallInv(calls[d], par) => CallInv(calls[d], par'),
         Pushed(q, par'), DOMAIN w = WalletFields,
         w.pkce.challenge = w.pkce.verifier, w.own => w.pkce.verifier \in {NONE, Own},
         w.url # NONE => Pushed(w.url, par'),
         UNCHANGED <<code, token>>,
         ~overlap' => /\ \A d \in Calls : Busy(calls[d]) => d = c
                      /\ w.url = NONE /\ Matches(q, w)
                      /\ code = NONE /\ token = NONE
  PROVE  Inv'
<1> DEFINE s == [step |-> "sign", ci |-> NONE, query |-> q]
           v == [w EXCEPT !.url = q]
<1>1. /\ DOMAIN v = WalletFields /\ v.pkce = w.pkce /\ v.own = w.own /\ v.url = q
      /\ Matches(q, w) => Matches(q, v)
  BY DEF WalletFields, Matches
<1>2. CallInv(s, par') /\ s.query = q
  BY DEF CallInv, CallFields
<1>3. CallInv(Idle, par') /\ ~Busy(Idle)
  BY DEF CallInv, Idle, Busy, CallFields
<1>4. \/ wallet' = w /\ calls' = [calls EXCEPT ![c] = s]
      \/ wallet' \in {w, v} /\ calls' = [calls EXCEPT ![c] = Idle]
  BY DEF Proceed
<1> HIDE DEF s, v
<1>5. CASE wallet' = w /\ calls' = [calls EXCEPT ![c] = s]
  BY <1>2, <1>5, Settles
<1>6. CASE wallet' = w /\ calls' = [calls EXCEPT ![c] = Idle]
  BY <1>3, <1>6, Settles
<1>7. CASE wallet' = v /\ calls' = [calls EXCEPT ![c] = Idle]
  BY <1>1, <1>3, <1>7, Settles
<1> QED
  BY <1>4, <1>5, <1>6, <1>7

-----------------------------------------------------------------------------
(* createAuthorizationRequestUrl *)

\* A request made from the client's options and verifier
LEMMA QueryMatches ==
  ASSUME NEW w, NEW meta, NEW pkce, NEW o
  PROVE  LET q == QueryOf(w, meta, pkce, o)
         IN  /\ DOMAIN q = QueryFields /\ q.request_uri = NONE
             /\ q.challenge = pkce.challenge /\ q.redirect = o.redirect
             /\ q.required => q.mode = "REQUIRE"
             /\ q.parAt = ParEndpoint(meta) /\ q.mode = ParMode(meta, o)
BY DEF QueryOf, QueryFields, ParMode

LEMMA CreateKeeps ==
  ASSUME Inv, NEW c \in Calls, NEW new, CreateAuthorizationRequestUrl(c, new)
  PROVE  Inv'
<1> DEFINE o    == SyncOpts(wallet.opts, new)
           pkce == GeneratePKCE(wallet.pkce, wallet.own, urls + 1)
           meta == IF wallet.meta = NONE THEN NONE ELSE WithIssuerEndpoint(wallet.meta)
           w    == IF wallet.kind = "V1" THEN wallet
                   ELSE [wallet EXCEPT !.pkce = pkce, !.opts = o, !.meta = meta]
           q    == QueryOf(w, meta, pkce, o)
           pars == [step |-> "par", ci |-> NONE, query |-> q]
<1>1. /\ calls[c].step = "idle" /\ wallet.url = NONE /\ UNCHANGED <<par, code, token>>
      /\ overlap' = (overlap \/ \E d \in Calls : calls[d].step \in {"par", "sign"})
  BY DEF CreateAuthorizationRequestUrl
<1>2. \/ wallet' = w /\ calls' = calls
      \/ CanPrepare(w, meta, o) /\ q.parAt # NONE /\ wallet' = w /\ calls' = [calls EXCEPT ![c] = pars]
      \/ CanPrepare(w, meta, o) /\ ~(q.parAt # NONE /\ q.mode # "NEVER") /\ Proceed(c, w, q)
  BY DEF CreateAuthorizationRequestUrl
<1>3. /\ wallet.pkce.challenge = wallet.pkce.verifier
      /\ wallet.own => wallet.pkce.verifier \in {NONE, Own}
      /\ DOMAIN wallet = WalletFields
  BY DEF Inv, WalletInv
<1>4. pkce.challenge = pkce.verifier /\ (wallet.own => pkce.verifier = Own)
  BY <1>3, PkceAgrees
<1> HIDE DEF pkce, o, meta
<1>5. /\ DOMAIN w = WalletFields /\ w.url = NONE
      /\ w.pkce.challenge = w.pkce.verifier /\ (w.own => w.pkce.verifier \in {NONE, Own})
      /\ w.kind # "V1" => w.pkce = pkce /\ w.opts = o
  BY <1>1, <1>3, <1>4 DEF WalletFields
<1> HIDE DEF w
<1>6. /\ DOMAIN q = QueryFields /\ q.request_uri = NONE
      /\ q.challenge = pkce.challenge /\ q.redirect = o.redirect
      /\ q.required => q.mode = "REQUIRE"
      /\ q.parAt = ParEndpoint(meta) /\ q.mode = ParMode(meta, o)
  BY QueryMatches
<1> HIDE DEF q
<1>7. CanPrepare(w, meta, o) => Matches(q, w) /\ (q.mode = "REQUIRE" => q.parAt # NONE)
  BY <1>4, <1>5, <1>6 DEF CanPrepare, Matches
<1>8. ~overlap' => /\ ~overlap /\ \A d \in Calls : ~Busy(calls[d])
                   /\ code = NONE /\ token = NONE
  BY <1>1 DEF Busy, Inv, OneRequest
<1>9. ParInv' /\ \A d \in Calls : CallInv(calls[d], par) => CallInv(calls[d], par')
  BY <1>1 DEF Inv, ParInv
<1>10. CASE wallet' = w /\ calls' = calls
  <2>1. CallInv(calls[c], par') /\ ~Busy(calls[c])
    BY <1>1, <1>9 DEF Inv, CallsInv, Busy
  <2>2. calls' = [calls EXCEPT ![c] = calls[c]]
    BY <1>10 DEF Inv, CallsInv
  <2> QED
    BY <1>1, <1>5, <1>8, <1>9, <1>10, <2>1, <2>2, Settles
<1>11. CASE CanPrepare(w, meta, o) /\ wallet' = w /\ calls' = [calls EXCEPT ![c] = pars]
  <2>1. CallInv(pars, par') /\ pars.query = q
    BY <1>6 DEF CallInv, CallFields, ToPush
  <2> HIDE DEF pars
  <2> QED
    BY <1>1, <1>5, <1>7, <1>8, <1>9, <1>11, <2>1, Settles
<1>12. CASE CanPrepare(w, meta, o) /\ ~(q.parAt # NONE /\ q.mode # "NEVER") /\ Proceed(c, w, q)
  <2>1. Pushed(q, par')
    BY <1>6, <1>7, <1>12 DEF Pushed, Stored
  <2> QED
    BY <1>1, <1>5, <1>7, <1>8, <1>9, <1>12, <2>1, ProceedKeeps
<1> QED
  BY <1>2, <1>10, <1>11, <1>12

LEMMA ParAnswersKeeps ==
  ASSUME Inv, NEW c \in Calls, ParAnswers(c)
  PROVE  Inv'
<1> DEFINE q  == calls[c].query
           id == Cardinality(DOMAIN par) + 1
           p  == [q EXCEPT !.request_uri = id]
<1>1. calls[c].step = "par" /\ UNCHANGED <<code, token, overlap>>
  BY DEF ParAnswers
<1>2. \/ par' = [i \in DOMAIN par \cup {id} |-> IF i = id THEN q ELSE par[i]] /\ Proceed(c, wallet, p)
      \/ par' = par /\ calls' = [calls EXCEPT ![c] = Idle] /\ wallet' = wallet
      \/ par' = par /\ q.mode # "REQUIRE" /\ Proceed(c, wallet, q)
  BY DEF ParAnswers, ParKept
<1>3. ToPush(q)
  BY <1>1 DEF Inv, CallsInv, CallInv
<1>4. /\ DOMAIN wallet = WalletFields /\ wallet.pkce.challenge = wallet.pkce.verifier
      /\ wallet.own => wallet.pkce.verifier \in {NONE, Own}
      /\ wallet.url # NONE => Pushed(wallet.url, par)
  BY DEF Inv, WalletInv
<1>5. ~overlap' => /\ \A d \in Calls : Busy(calls[d]) => d = c
                   /\ wallet.url = NONE /\ Matches(q, wallet)
                   /\ code = NONE /\ token = NONE
  BY <1>1 DEF Busy, Inv, OneRequest
<1>6. CASE par' = [i \in DOMAIN par \cup {id} |-> IF i = id THEN q ELSE par[i]] /\ Proceed(c, wallet, p)
  <2>1. /\ id \in Nat /\ id \notin DOMAIN par /\ \E n \in Nat : DOMAIN par \cup {id} = 1 .. n
    BY FreshUri DEF Inv
  <2>2. /\ p.request_uri = id /\ p.challenge = q.challenge /\ p.redirect = q.redirect
        /\ p.required = q.required
    BY <1>3 DEF ToPush, QueryFields
  <2> HIDE DEF q, id, p
  <2>3. /\ DOMAIN par' = DOMAIN par \cup {id} /\ par'[id] = q
        /\ \A x \in DOMAIN par : par'[x] = par[x]
    BY <1>6, <2>1
  <2>4. ParInv'
    BY <2>1, <2>3 DEF ParInv
  <2>5. \A d \in Calls : CallInv(calls[d], par) => CallInv(calls[d], par')
    BY <2>1, <2>3, StoredKept
  <2>6. wallet.url # NONE => Pushed(wallet.url, par')
    BY <1>4, <2>1, <2>3, StoredKept
  <2>7. Pushed(p, par')
    <3>1. id # NONE
      BY <2>1, AuthorizationConstants
    <3> QED
      BY <2>2, <2>3, <3>1 DEF Pushed, Stored
  <2>8. Matches(q, wallet) => Matches(p, wallet)
    BY <2>2 DEF Matches
  <2> QED
    BY <1>1, <1>4, <1>5, <1>6, <2>4, <2>5, <2>6, <2>7, <2>8, ProceedKeeps
<1>7. CASE par' = par /\ calls' = [calls EXCEPT ![c] = Idle] /\ wallet' = wallet
  <2>1. ParInv' /\ CallInv(Idle, par') /\ ~Busy(Idle)
        /\ \A d \in Calls : CallInv(calls[d], par) => CallInv(calls[d], par')
    BY <1>7, Idles DEF Inv, ParInv
  <2> QED
    BY <1>1, <1>4, <1>5, <1>7, <2>1, Settles
<1>8. CASE par' = par /\ q.mode # "REQUIRE" /\ Proceed(c, wallet, q)
  <2>1. Pushed(q, par')
    BY <1>3, <1>8 DEF ToPush, Pushed, Stored
  <2>2. ParInv' /\ \A d \in Calls : CallInv(calls[d], par) => CallInv(calls[d], par')
    BY <1>8 DEF Inv, ParInv
  <2> HIDE DEF q
  <2> QED
    BY <1>1, <1>4, <1>5, <1>8, <2>1, <2>2, ProceedKeeps
<1> QED
  BY <1>2, <1>6, <1>7, <1>8

LEMMA SignedKeeps ==
  ASSUME Inv, NEW c \in Calls, Signed(c)
  PROVE  Inv'
<1> DEFINE q == calls[c].query
           v == [wallet EXCEPT !.url = q]
<1>1. /\ calls[c].step = "sign" /\ UNCHANGED <<par, code, token, overlap>>
      /\ wallet' = v /\ calls' = [calls EXCEPT ![c] = Idle]
  BY DEF Signed
<1>2. Pushed(q, par')
  BY <1>1 DEF Inv, CallsInv, CallInv
<1>3. /\ DOMAIN v = WalletFields /\ v.pkce = wallet.pkce /\ v.own = wallet.own /\ v.url = q
      /\ Matches(q, wallet) => Matches(q, v)
  BY DEF Inv, WalletInv, WalletFields, Matches
<1>4. ~overlap' => /\ \A d \in Calls : Busy(calls[d]) => d = c
                   /\ Matches(q, wallet) /\ code = NONE /\ token = NONE
  BY <1>1 DEF Busy, Inv, OneRequest
<1>5. ParInv' /\ CallInv(Idle, par') /\ ~Busy(Idle)
      /\ \A d \in Calls : CallInv(calls[d], par) => CallInv(calls[d], par')
  BY <1>1, Idles DEF Inv, ParInv
<1>6. v.pkce.challenge = v.pkce.verifier /\ (v.own => v.pkce.verifier \in {NONE, Own})
  BY <1>3 DEF Inv, WalletInv
<1> HIDE DEF q, v
<1> QED
  BY <1>1, <1>2, <1>3, <1>4, <1>5, <1>6, Settles

-----------------------------------------------------------------------------
(* The invariant and its theorems *)

LEMMA AuthorizeKeeps == Inv /\ Authorize => Inv'
<1> SUFFICES ASSUME Inv, Authorize PROVE Inv'
  OBVIOUS
<1>1. /\ wallet.url # NONE /\ UNCHANGED <<wallet, calls, par, token, overlap>> /\ code = NONE
      /\ IF wallet.url.request_uri = NONE THEN code' = wallet.url
         ELSE code' = par[wallet.url.request_uri]
  BY DEF Authorize
<1>2. code'.challenge = wallet.url.challenge /\ code'.redirect = wallet.url.redirect
  BY <1>1 DEF Inv, WalletInv, Pushed, Stored
<1>3. ParInv' /\ CallsInv' /\ WalletInv'
  BY <1>1 DEF Inv, ParInv, CallsInv, WalletInv
<1>4. Matches(wallet.url, wallet) => Matches(code', wallet)
  BY <1>2 DEF Matches
<1>5. OneRequest'
  BY <1>1, <1>4 DEF Inv, OneRequest
<1> QED
  BY <1>3, <1>5 DEF Inv

LEMMA RequestTokenKeeps == Inv /\ RequestToken => Inv'
<1> SUFFICES ASSUME Inv, RequestToken PROVE Inv'
  OBVIOUS
<1>1. /\ code # NONE /\ UNCHANGED <<wallet, calls, par, code, overlap>>
      /\ token'.verifier = wallet.pkce.verifier /\ token'.redirect = wallet.opts.redirect
  BY DEF RequestToken
<1>2. ParInv' /\ CallsInv' /\ WalletInv'
  BY <1>1 DEF Inv, ParInv, CallsInv, WalletInv
<1>3. OneRequest'
  BY <1>1 DEF Inv, OneRequest, Matches
<1> QED
  BY <1>2, <1>3 DEF Inv

\* The calls of the old process are gone, what the client learnt is kept.
LEMMA RestoreKeeps == Inv /\ Restore => Inv'
<1> SUFFICES ASSUME Inv, Restore PROVE Inv'
  OBVIOUS
<1>1. calls' = [c \in Calls |-> Idle] /\ UNCHANGED <<par, wallet, code, token, overlap>>
  BY DEF Restore
<1>2. CallInv(Idle, par') /\ ~Busy(Idle)
  BY <1>1, Idles
<1>3. ParInv' /\ CallsInv' /\ WalletInv'
  BY <1>1, <1>2 DEF Inv, ParInv, CallsInv, WalletInv
<1>4. OneRequest'
  BY <1>1, <1>2 DEF Inv, OneRequest
<1> QED
  BY <1>3, <1>4 DEF Inv

LEMMA OthersKeep == Inv /\ UNCHANGED <<par, calls, wallet, code, token, overlap>> => Inv'
BY DEF Inv, ParInv, CallsInv, WalletInv, OneRequest

LEMMA AuthorizationInit == Init => Inv
<1> SUFFICES ASSUME Init PROVE Inv
  OBVIOUS
<1>1. PICK u \in Wallets :
        wallet = [kind |-> u.kind, offered |-> u.offered, own |-> u.own, meta |-> NONE,
                  url |-> NONE, opts |-> NoOpts,
                  pkce |-> [verifier |-> NONE, challenge |-> NONE]]
  BY DEF Init
<1>2. WalletInv
  BY <1>1 DEF WalletInv, WalletFields
<1>3. ParInv
  <2>1. DOMAIN par = 1 .. 0 /\ 0 \in Nat
    BY DEF Init
  <2> QED
    BY <2>1 DEF ParInv
<1>4. calls = [c \in Calls |-> Idle] /\ code = NONE /\ token = NONE
  BY DEF Init
<1>5. CallsInv
  BY <1>4, Idles DEF CallsInv
<1>6. OneRequest
  BY <1>1, <1>4, Idles DEF OneRequest
<1> QED
  BY <1>2, <1>3, <1>5, <1>6 DEF Inv

LEMMA AuthorizationStep == Inv /\ [Next]_vars => Inv'
<1> SUFFICES ASSUME Inv, [Next]_vars PROVE Inv'
  OBVIOUS
<1>1. CASE StartServer \/ (\E id \in 1 .. MaxUrls : ParExpires(id)) \/ UNCHANGED vars
  BY <1>1, OthersKeep DEF StartServer, ParExpires, vars
<1>2. ASSUME NEW c \in Calls,
             \/ RetrieveServerMetadata(c) \/ IssuerAnswers(c) \/ ServerAnswers(c)
             \/ ParAnswers(c) \/ Signed(c)
      PROVE  Inv'
  BY <1>2, RetrieveKeeps, IssuerAnswersKeeps, ServerAnswersKeeps, ParAnswersKeeps, SignedKeeps
<1>3. ASSUME NEW c \in Calls, NEW new \in Requests, CreateAuthorizationRequestUrl(c, new)
      PROVE  Inv'
  BY <1>3, CreateKeeps
<1>4. CASE Authorize \/ RequestToken \/ Restore
  BY <1>4, AuthorizeKeeps, RequestTokenKeeps, RestoreKeeps
<1> QED
  BY <1>1, <1>2, <1>3, <1>4 DEF Next

LEMMA AuthorizationInvariant == Spec => []Inv
BY AuthorizationInit, AuthorizationStep, PTL DEF Spec

\* Where the server requires pushed requests, no URL carries the parameters,
\* whatever the caller asks for, also with other calls between the push and its
\* answer (parMode in createAuthorizationRequestUrl).
THEOREM RequiredParUsed == Spec => []RequiredParIsUsed
<1>1. Inv => RequiredParIsUsed
  BY DEF Inv, WalletInv, Pushed, RequiredParIsUsed
<1> QED
  BY <1>1, AuthorizationInvariant, PTL

\* A request_uri in the URL is one the server was given and keeps
\* (authRequestsData in pushedAuthorizationEndpoint).
THEOREM RequestUrisStored == Spec => []RequestUriIsStored
<1>1. Inv => RequestUriIsStored
  BY DEF Inv, WalletInv, Pushed, Stored, RequestUriIsStored
<1> QED
  BY <1>1, AuthorizationInvariant, PTL

\* The code can be redeemed: failed and repeated calls, other calls' discovery
\* and a restored client leave the verifier and the redirect uri of the request
\* (calculatePKCEOpts, syncAuthorizationRequestOpts).
THEOREM CodesRedeemable == Spec => []CodeIsRedeemable
<1>1. Inv => CodeIsRedeemable
  BY DEF Inv, OneRequest, CodeIsRedeemable
<1> QED
  BY <1>1, AuthorizationInvariant, PTL

-----------------------------------------------------------------------------
(* The clients' discoveries, compared *)

\* Where the issuer has no singular server and no empty list, every client
\* reads the same servers.
LEMMA SameServers ==
  ASSUME NEW ci, ci # NONE => ci.server = NONE /\ ci.servers # <<>>, NEW v, NEW w
  PROVE  ServersOf(v, ci) = ServersOf(w, ci)
BY DEF ServersOf

\* What is not a failure has the endpoints both documents settle.
LEMMA ResultEndpoints ==
  ASSUME NEW v, NEW ci, NEW as
  PROVE  /\ Result(v, ci, as).token = Or(TokenOf(ci, as), Guess)
         /\ Result(v, ci, as).credential = Or(CredentialOf(ci, as), Guess)
BY DEF Result

LEMMA RetrievedEndpoints ==
  ASSUME NEW v, NEW doc, RetrieveAll(v, site) = Result(v, site.ci, doc)
  PROVE  /\ RetrieveAll(v, site).token = Or(TokenOf(site.ci, doc), Guess)
         /\ RetrieveAll(v, site).credential = Or(CredentialOf(site.ci, doc), Guess)
BY ResultEndpoints

\* The three clients send the token and the credential request to the same
\* places, for any documents at the well-known locations.
THEOREM ClientsFindTheSame == Spec => []ClientsAgree
<1>1. ClientsAgree
  <2> SUFFICES ASSUME site.ci # NONE => site.ci.server = NONE /\ site.ci.servers # <<>>,
                      NEW v \in Variants, NEW w \in Variants,
                      Failed \notin {RetrieveAll(v, site), RetrieveAll(w, site)}
               PROVE  /\ RetrieveAll(v, site).token = RetrieveAll(w, site).token
                      /\ RetrieveAll(v, site).credential = RetrieveAll(w, site).credential
    BY DEF ClientsAgree
  <2>1. AskedServer(v, site.ci) = AskedServer(w, site.ci)
    BY SameServers DEF AskedServer
  <2>2. PICK doc : /\ RetrieveAll(v, site) = Result(v, site.ci, doc)
                   /\ RetrieveAll(w, site) = Result(w, site.ci, doc)
    BY <2>1 DEF RetrieveAll, Merge
  <2> QED
    BY <2>2, RetrievedEndpoints
<1> QED
  BY <1>1, PTL

-----------------------------------------------------------------------------
(* Type correctness *)

\* What discovery found: endpoints to send requests to, or none.
MetaFields == {"token", "credential", "challenge", "deferred", "nonce", "authorization",
               "ci", "ciV1", "as"}
MetaTyped(m) ==
    m # NONE =>
        /\ DOMAIN m = MetaFields
        /\ m.token \in Hosts \cup {Guess} /\ m.credential \in Hosts \cup {Guess}
        /\ m.authorization \in Optional(Hosts)
        /\ Field(m.ci, "authorization") \in Optional(Hosts)
        /\ Field(m.as, "authorization") \in Optional(Hosts)
        /\ ParEndpoint(m) \in Optional(Hosts)

Pkces == [verifier : Optional(Verifiers), challenge : Optional(Verifiers)]

WalletTyped(w) ==
    /\ DOMAIN w = WalletFields
    /\ w.kind \in Variants
    /\ MetaTyped(w.meta)
    /\ w.url \in Optional(Query)
    /\ w.opts \in Opts
    /\ w.pkce \in Pkces

\* A call that asks a server has an issuer's document that names one for it.
CallTyped(r, variant) ==
    /\ DOMAIN r = CallFields
    /\ r.step \in {"idle", "ci", "oidc", "oauth", "par", "sign"}
    /\ r.query \in Optional(Query)
    /\ r.step \in {"par", "sign"} => r.query \in Query
    /\ r.step \in {"oidc", "oauth"} => r.ci \in Optional(IssuerDocs) /\ CanAsk(variant, r.ci)

CallsTyped == /\ calls = [c \in Calls |-> calls[c]]
              /\ \A c \in Calls : CallTyped(calls[c], Variant)

\* Every pushed request, answered or not, is one a URL was asked for.
Pushing(f) == {c \in Calls : f[c].step = "par"}
PushesCounted ==
    /\ IsFiniteSet(Pushing(calls))
    /\ Cardinality(DOMAIN par) + Cardinality(Pushing(calls)) <= urls

ParTyped == /\ gone \subseteq DOMAIN par
            /\ \A id \in DOMAIN par : par[id] \in Query

TypeInv ==
    /\ site \in Sites /\ up \in {"off", "up", "failed"}
    /\ code \in Optional(Query)
    /\ urls \in 0 .. MaxUrls /\ overlap \in BOOLEAN
    /\ WalletTyped(wallet) /\ CallsTyped /\ PushesCounted /\ ParTyped

LEMMA SiteTyped ==
  ASSUME NEW s \in Sites
  PROVE  /\ s.ci \in Optional(IssuerDocs)
         /\ \A h \in Hosts : s.oidc[h] \in Optional(ServerDocs) /\ s.oauth[h] \in Optional(ServerDocs)
         /\ s.setup.configs \subseteq Configs
<1>1. s \in [setup : Setups, ci : Optional(IssuerDocs),
             oidc : [Hosts -> Optional(ServerDocs)], oauth : [Hosts -> Optional(ServerDocs)]]
  BY InputsAssumption
<1>2. s.setup \in Setups
  BY <1>1
<1>3. s.setup.configs \subseteq Configs
  BY <1>2 DEF Setups
<1> QED
  BY <1>1, <1>3

\* The server that is asked is one the issuer may name.
LEMMA AskedHost ==
  ASSUME NEW v, NEW ci \in Optional(IssuerDocs), CanAsk(v, ci)
  PROVE  AskedServer(v, ci) \in Hosts
<1>1. \/ ServersOf(v, ci) = <<Issuer>>
      \/ ci # NONE /\ ci.servers # NONE /\ ServersOf(v, ci) = ci.servers
      \/ ci # NONE /\ ci.server # NONE /\ ServersOf(v, ci) = <<ci.server>>
  BY DEF ServersOf
<1>2. ci # NONE => ci \in IssuerDocs
  BY DEF Optional
<1>3. CASE ServersOf(v, ci) = <<Issuer>>
  BY <1>3 DEF AskedServer, Hosts
<1>4. CASE ci # NONE /\ ci.servers # NONE /\ ServersOf(v, ci) = ci.servers
  <2>1. ci.servers \in {<<"self">>, <<"as">>, <<"as", "self">>}
    BY <1>2, <1>4 DEF CanAsk, IssuerDocs, Optional
  <2> QED
    BY <1>4, <2>1 DEF AskedServer, Hosts, Issuer
<1>5. CASE ci # NONE /\ ci.server # NONE /\ ServersOf(v, ci) = <<ci.server>>
  <2>1. ci.server \in Hosts
    BY <1>2, <1>5 DEF IssuerDocs, Optional
  <2> QED
    BY <1>5, <2>1 DEF AskedServer
<1> QED
  BY <1>1, <1>3, <1>4, <1>5

\* What the documents say of an endpoint is a host or nothing.
LEMMA DocFields ==
  ASSUME NEW ci \in Optional(IssuerDocs), NEW as \in Optional(ServerDocs)
  PROVE  /\ Field(ci, "authorization") \in Optional(Hosts)
         /\ Field(as, "authorization") \in Optional(Hosts)
         /\ Field(as, "par") \in Optional(Hosts) /\ Field(ci, "par") \in Optional(Hosts)
         /\ TokenOf(ci, as) \in Optional(Hosts)
         /\ CredentialOf(ci, as) \in Optional(Hosts)
BY DEF Field, TokenOf, CredentialOf, Or, Optional, IssuerDocs, ServerDocs

LEMMA ResultTyped ==
  ASSUME NEW v \in Variants, NEW ci \in Optional(IssuerDocs), NEW as \in Optional(ServerDocs),
         v = "general" => ci # NONE
  PROVE  MetaTyped(Result(v, ci, as))
<1> DEFINE m == Result(v, ci, as)
<1>1. /\ m.token = Or(TokenOf(ci, as), Guess) /\ m.credential = Or(CredentialOf(ci, as), Guess)
      /\ m.authorization = IF v = "general" THEN Field(as, "authorization") ELSE NONE
      /\ m.as = as /\ DOMAIN m = MetaFields
  BY DEF Result, MetaFields
<1>2. Field(m.ci, "authorization") \in Optional(Hosts) /\ Field(m.ci, "par") \in Optional(Hosts)
  <2>1. v = "general" => m.ci = ci
    BY Zenon DEF Result
  <2>2. v = "V15" => m.ci = RebuiltIssuerDoc(v, ci, as)
    BY Zenon DEF Result
  <2>3. v = "V1" => m.ci = NONE
    BY Zenon DEF Result
  <2>4. RebuiltIssuerDoc(v, ci, as).authorization = NONE /\ RebuiltIssuerDoc(v, ci, as).par = NONE
    BY DEF RebuiltIssuerDoc
  <2> HIDE DEF m
  <2> QED
    BY <2>1, <2>2, <2>3, <2>4, DocFields DEF Variants, Field, Optional
<1> HIDE DEF m
<1>3. MetaTyped(m)
  BY <1>1, <1>2, DocFields DEF MetaTyped, ParEndpoint, AuthorizationMetadata, Or, Optional
<1> QED
  BY <1>3 DEF m

LEMMA MergeTyped ==
  ASSUME NEW v \in Variants, NEW ci \in Optional(IssuerDocs), NEW as \in Optional(ServerDocs),
         Merge(v, ci, as, FALSE) # Failed
  PROVE  MetaTyped(Merge(v, ci, as, FALSE))
<1>1. Merge(v, ci, as, FALSE) = Result(v, ci, as) /\ (v = "general" => ci # NONE)
  BY DEF Merge, NeedsIssuerDoc
<1> QED
  BY <1>1, ResultTyped

\* The client's options stay options, its verifier one of the verifiers.
LEMMA SyncTyped ==
  ASSUME NEW old \in Opts, NEW new \in Opts
  PROVE  SyncOpts(old, new) \in Opts
BY DEF SyncOpts, Opts, Or, Optional

LEMMA PkceTyped ==
  ASSUME NEW pkce \in Pkces, NEW own, NEW fresh \in Verifiers
  PROVE  /\ GeneratePKCE(pkce, own, fresh) \in Pkces
         /\ GeneratePKCE(pkce, own, fresh).challenge \in Verifiers
<1>1. Own \in Verifiers
  BY AuthorizationConstants DEF Own, Verifiers
<1> QED
  BY <1>1 DEF GeneratePKCE, Pkces, Or, Optional

LEMMA IssuerEndpointTyped ==
  ASSUME NEW m, m # NONE, MetaTyped(m)
  PROVE  MetaTyped(WithIssuerEndpoint(m))
<1>1. CASE Field(m.ci, "authorization") = NONE
  BY <1>1 DEF WithIssuerEndpoint
<1>2. CASE Field(m.ci, "authorization") # NONE
  <2> DEFINE n == [m EXCEPT !.authorization = m.ci.authorization]
  <2>1. m.ci.authorization \in Optional(Hosts)
    BY <1>2 DEF MetaTyped, Field
  <2>2. /\ DOMAIN n = MetaFields /\ n.token = m.token /\ n.credential = m.credential
        /\ n.ci = m.ci /\ n.as = m.as /\ n.authorization \in Optional(Hosts)
    BY <2>1 DEF MetaTyped, MetaFields
  <2> HIDE DEF n
  <2>3. MetaTyped(n)
    BY <2>2 DEF MetaTyped, ParEndpoint, AuthorizationMetadata
  <2> QED
    BY <1>2, <2>3 DEF WithIssuerEndpoint, n
<1> QED
  BY <1>1, <1>2

\* A request that can be prepared is complete.
LEMMA QueryTyped ==
  ASSUME site \in Sites, NEW w, NEW meta, meta # NONE, MetaTyped(meta), NEW o \in Opts,
         NEW pkce, pkce.challenge \in Verifiers, CanPrepare(w, meta, o)
  PROVE  QueryOf(w, meta, pkce, o) \in Query
<1> DEFINE q == QueryOf(w, meta, pkce, o)
           details == DetailsOf(w, meta, o)
           endpoint == AuthorizationEndpoint(meta)
           mode == ParMode(meta, o)
           required == RequiresPar(meta)
           parAt == ParEndpoint(meta)
           scope == Or(o.scope, "openid")
<1>1. q = [challenge |-> pkce.challenge, redirect |-> o.redirect, client |-> o.client,
           scope |-> scope, details |-> details, endpoint |-> endpoint, mode |-> mode,
           parAt |-> parAt, required |-> required, object |-> o.object, request_uri |-> NONE]
  BY DEF QueryOf
<1>2. /\ o.redirect \in Optional({"r1", "r2", "app"}) /\ o.client \in Optional({"client"})
      /\ o.object \in Optional({"uri", "signed", "unsigned"})
      /\ o.details \in Optional(SUBSET Configs) /\ o.parMode \in Optional({"REQUIRE", "AUTO", "NEVER"})
      /\ o.scope \in Optional({"openid", "test", "other"})
  BY DEF Opts
<1>3. details \in Optional(SUBSET Configs)
  <2>1. FromOffer(meta) \in SUBSET Configs
    BY SiteTyped DEF FromOffer
  <2> QED
    BY <1>2, <2>1 DEF DetailsOf, Optional
<1>4. endpoint \in Hosts
  <2>1. endpoint # NONE
    BY DEF CanPrepare
  <2> QED
    BY <2>1 DEF AuthorizationEndpoint, MetaTyped, Or, Optional
<1>5. mode \in {"REQUIRE", "AUTO", "NEVER"}
  BY <1>2 DEF ParMode, Or, Optional
<1>6. required \in BOOLEAN
  BY DEF RequiresPar
<1>7. parAt \in Optional(Hosts) /\ scope \in {"openid", "test", "other"}
  BY <1>2 DEF MetaTyped, Or, Optional
<1>8. NONE \in Optional(1 .. MaxUrls)
  BY DEF Optional
<1> HIDE DEF q, details, endpoint, mode, required, parAt, scope
<1>9. q \in Query
  BY <1>1, <1>2, <1>3, <1>4, <1>5, <1>6, <1>7, <1>8 DEF Query
<1> QED
  BY <1>9 DEF q

LEMMA UriTyped ==
  ASSUME NEW q \in Query, NEW id \in 1 .. MaxUrls
  PROVE  [q EXCEPT !.request_uri = id] \in Query
BY DEF Query, Optional

-----------------------------------------------------------------------------
(* Types are kept by every step *)

\* Requests that are being pushed: one more at most, one less when it is answered.
LEMMA PushStep ==
  ASSUME CallsTyped, NEW c \in Calls, NEW r, calls' = [calls EXCEPT ![c] = r],
         IsFiniteSet(Pushing(calls))
  PROVE  LET before == Cardinality(Pushing(calls))
             after  == Cardinality(Pushing(calls'))
         IN  /\ before \in Nat /\ after \in Nat /\ IsFiniteSet(Pushing(calls'))
             /\ after <= before + 1
             /\ r.step # "par" => after <= before
             /\ r.step # "par" /\ calls[c].step = "par" => after = before - 1
<1> DEFINE P == Pushing(calls)
<1>1. \A d \in Calls : calls'[d] = IF d = c THEN r ELSE calls[d]
  BY DEF CallsTyped
<1>2. Pushing(calls') = IF r.step = "par" THEN P \cup {c} ELSE P \ {c}
  BY <1>1 DEF Pushing
<1>3. c \in P <=> calls[c].step = "par"
  BY DEF Pushing
<1>4. /\ IsFiniteSet(P \cup {c}) /\ IsFiniteSet(P \ {c}) /\ Cardinality(P) \in Nat
      /\ Cardinality(P \cup {c}) = IF c \in P THEN Cardinality(P) ELSE Cardinality(P) + 1
      /\ Cardinality(P \ {c}) = IF c \in P THEN Cardinality(P) - 1 ELSE Cardinality(P)
  BY FS_AddElement, FS_RemoveElement, FS_CardinalityType
<1>5. Cardinality(P \cup {c}) \in Nat /\ Cardinality(P \ {c}) \in Nat
  BY <1>4, FS_CardinalityType
<1> HIDE DEF P
<1> QED
  BY <1>2, <1>3, <1>4, <1>5 DEF P

\* The pushed requests are numbered in the order they came.
LEMMA ParCounted ==
  ASSUME ParInv
  PROVE  Cardinality(DOMAIN par) \in Nat /\ DOMAIN par = 1 .. Cardinality(DOMAIN par)
<1>1. PICK n \in Nat : DOMAIN par = 1 .. n
  BY DEF ParInv
<1>2. Cardinality(1 .. n) = n
  BY <1>1, FS_Interval
<1> QED
  BY <1>1, <1>2

LEMMA IdleTyped == ASSUME NEW v PROVE CallTyped(Idle, v)
BY DEF CallTyped, Idle, CallFields, Optional

\* A call moves on; what it pushes and what is stored is counted apart.
LEMMA TypesSettle ==
  ASSUME TypeInv, NEW c \in Calls, NEW r, calls' = [calls EXCEPT ![c] = r],
         CallTyped(r, Variant), WalletTyped(wallet'),
         wallet'.kind = wallet.kind, wallet'.offered = wallet.offered,
         UNCHANGED <<site, up, code>>, urls' \in 0 .. MaxUrls, overlap' \in BOOLEAN,
         PushesCounted', ParTyped'
  PROVE  TypeInv'
<1>1. Variant' = Variant
  BY DEF Variant
<1>2. CallsTyped'
  BY <1>1 DEF TypeInv, CallsTyped
<1> QED
  BY <1>2 DEF TypeInv

\* A call that pushes nothing: discovery
LEMMA DiscoveryTyped ==
  ASSUME TypeInv, NEW c \in Calls, NEW r, calls' = [calls EXCEPT ![c] = r],
         CallTyped(r, Variant), r.step # "par", WalletTyped(wallet'),
         wallet'.kind = wallet.kind, wallet'.offered = wallet.offered,
         ParInv, UNCHANGED <<site, up, code, par, gone, urls, overlap>>
  PROVE  TypeInv'
<1>1. /\ IsFiniteSet(Pushing(calls')) /\ Cardinality(Pushing(calls')) \in Nat
      /\ Cardinality(Pushing(calls)) \in Nat
      /\ Cardinality(Pushing(calls')) <= Cardinality(Pushing(calls))
  BY PushStep DEF TypeInv, PushesCounted
<1>2. Cardinality(DOMAIN par) \in Nat /\ urls \in Nat
  BY ParCounted, AuthorizationConstants DEF TypeInv
<1>3. PushesCounted' /\ ParTyped'
  BY <1>1, <1>2 DEF TypeInv, PushesCounted, ParTyped
<1> QED
  BY <1>3, TypesSettle DEF TypeInv

LEMMA RetrieveTyped ==
  ASSUME TypeInv, ParInv, NEW c \in Calls, RetrieveServerMetadata(c)
  PROVE  TypeInv'
<1> DEFINE r == [calls[c] EXCEPT !.step = "ci"]
<1>1. CallTyped(calls[c], Variant) /\ calls' = [calls EXCEPT ![c] = r]
  BY DEF TypeInv, CallsTyped, RetrieveServerMetadata
<1>2. DOMAIN r = CallFields /\ r.step = "ci" /\ r.query = calls[c].query
  BY <1>1 DEF CallTyped, CallFields
<1> HIDE DEF r
<1>3. CallTyped(r, Variant)
  BY <1>1, <1>2 DEF CallTyped
<1>4. UNCHANGED <<site, up, wallet, par, gone, code, token, urls, overlap>>
  BY DEF RetrieveServerMetadata
<1> QED
  BY <1>1, <1>2, <1>3, <1>4, DiscoveryTyped DEF TypeInv

LEMMA IssuerAnswersTyped ==
  ASSUME TypeInv, ParInv, NEW c \in Calls, IssuerAnswers(c)
  PROVE  TypeInv'
<1> DEFINE r(doc) == [calls[c] EXCEPT !.step = "oidc", !.ci = doc]
<1>1. CallTyped(calls[c], Variant) /\ UNCHANGED <<site, up, wallet, par, gone, code, token, urls, overlap>>
  BY DEF TypeInv, CallsTyped, IssuerAnswers
<1>2. PICK a \in Answers(Issuer, site.ci) :
         calls' = [calls EXCEPT ![c] =
             IF ~a.reached \/ (a.doc = NONE /\ NeedsIssuerDoc(Variant)) \/ ~CanAsk(Variant, a.doc)
             THEN Idle
             ELSE [calls[c] EXCEPT !.step = "oidc", !.ci = a.doc]]
  BY DEF IssuerAnswers, TypeInv, CallsTyped
<1>3. a.doc \in {site.ci, NONE}
  BY DEF Answers, Published
<1>4. a.doc \in Optional(IssuerDocs)
  BY <1>3, SiteTyped DEF TypeInv, Optional
<1>5. \/ calls' = [calls EXCEPT ![c] = Idle]
      \/ CanAsk(Variant, a.doc) /\ calls' = [calls EXCEPT ![c] = r(a.doc)]
  BY <1>2
<1>6. /\ DOMAIN r(a.doc) = CallFields /\ r(a.doc).step = "oidc" /\ r(a.doc).ci = a.doc
      /\ r(a.doc).query = calls[c].query
  BY <1>1 DEF CallTyped, CallFields
<1>7. Idle.step # "par"
  BY DEF Idle
<1> HIDE DEF r
<1>8. CASE calls' = [calls EXCEPT ![c] = Idle]
  BY <1>1, <1>7, <1>8, IdleTyped, DiscoveryTyped DEF TypeInv
<1>9. CASE CanAsk(Variant, a.doc) /\ calls' = [calls EXCEPT ![c] = r(a.doc)]
  <2>1. CallTyped(r(a.doc), Variant)
    BY <1>1, <1>4, <1>6, <1>9 DEF CallTyped
  <2> QED
    BY <1>1, <1>6, <1>9, <2>1, DiscoveryTyped DEF TypeInv
<1> QED
  BY <1>5, <1>8, <1>9

LEMMA ServerAnswersTyped ==
  ASSUME TypeInv, ParInv, NEW c \in Calls, ServerAnswers(c)
  PROVE  TypeInv'
<1> DEFINE ci   == calls[c].ci
           host == AskedServer(Variant, ci)
           r    == [calls[c] EXCEPT !.step = "oauth"]
           found(doc) == [wallet EXCEPT !.meta = Merge(Variant, ci, doc, FALSE)]
<1>1. /\ CallTyped(calls[c], Variant) /\ calls[c].step \in {"oidc", "oauth"}
      /\ UNCHANGED <<site, up, par, gone, code, token, urls, overlap>>
  BY DEF TypeInv, CallsTyped, ServerAnswers
<1>2. PICK doc, a :
        /\ doc \in {site.oidc[host], site.oauth[host]} /\ a \in Answers(host, doc)
        /\ calls' = [calls EXCEPT ![c] = Idle] \/ calls' = [calls EXCEPT ![c] = r]
        /\ \/ wallet' = wallet
           \/ Merge(Variant, ci, a.doc, FALSE) # Failed /\ wallet' = found(a.doc)
  BY DEF ServerAnswers, TypeInv, CallsTyped
<1>3. ci \in Optional(IssuerDocs) /\ host \in Hosts
  BY <1>1, AskedHost DEF CallTyped
<1>4. doc \in Optional(ServerDocs)
  BY <1>2, <1>3, SiteTyped DEF TypeInv
<1>5. a.doc \in Optional(ServerDocs)
  BY <1>2, <1>4 DEF Answers, Published, Optional
<1>6. Variant \in Variants
  BY DEF TypeInv, WalletTyped, Variant, VariantFor, Variants
<1>7. WalletTyped(wallet') /\ wallet'.kind = wallet.kind /\ wallet'.offered = wallet.offered
  <2>1. CASE wallet' = wallet
    BY <2>1 DEF TypeInv
  <2>2. CASE Merge(Variant, ci, a.doc, FALSE) # Failed /\ wallet' = found(a.doc)
    <3> DEFINE m == Merge(Variant, ci, a.doc, FALSE)
    <3>1. MetaTyped(m)
      BY <1>3, <1>5, <1>6, <2>2, MergeTyped
    <3>2. wallet' = [wallet EXCEPT !.meta = m]
      BY <2>2
    <3> HIDE DEF m
    <3> QED
      BY <3>1, <3>2 DEF TypeInv, WalletTyped, WalletFields
  <2> QED
    BY <1>2, <2>1, <2>2
<1>8. /\ DOMAIN r = CallFields /\ r.step = "oauth" /\ r.ci = ci /\ r.query = calls[c].query
  BY <1>1 DEF CallTyped, CallFields
<1>9. CallTyped(Idle, Variant) /\ Idle.step # "par"
  BY IdleTyped DEF Idle
<1> HIDE DEF r
<1>10. CallTyped(r, Variant)
  BY <1>1, <1>8 DEF CallTyped
<1> QED
  BY <1>1, <1>2, <1>7, <1>8, <1>9, <1>10, DiscoveryTyped

\* What is left of a call with a request once no push is outstanding
LEMMA ProceedTyped ==
  ASSUME NEW c \in Calls, NEW q \in Query, NEW w, WalletTyped(w), Proceed(c, w, q)
  PROVE  /\ \E r : /\ calls' = [calls EXCEPT ![c] = r]
                   /\ CallTyped(r, Variant) /\ r.step \in {"idle", "sign"}
         /\ WalletTyped(wallet') /\ wallet'.kind = w.kind /\ wallet'.offered = w.offered
<1> DEFINE s == [step |-> "sign", ci |-> NONE, query |-> q]
           v == [w EXCEPT !.url = q]
<1>1. WalletTyped(v) /\ v.kind = w.kind /\ v.offered = w.offered
  BY DEF WalletTyped, WalletFields, Optional
<1>2. CallTyped(s, Variant) /\ s.step = "sign"
  BY DEF CallTyped, CallFields, Optional
<1>3. CallTyped(Idle, Variant) /\ Idle.step = "idle"
  BY IdleTyped DEF Idle
<1>4. \/ wallet' = w /\ calls' = [calls EXCEPT ![c] = s]
      \/ wallet' \in {w, v} /\ calls' = [calls EXCEPT ![c] = Idle]
  BY DEF Proceed
<1> HIDE DEF s, v
<1> QED
  BY <1>1, <1>2, <1>3, <1>4

\* A call for a URL: one more push at most, for one more call.
LEMMA CreateTyped ==
  ASSUME TypeInv, ParInv, NEW c \in Calls, NEW new \in Requests,
         CreateAuthorizationRequestUrl(c, new)
  PROVE  TypeInv'
<1> DEFINE o    == SyncOpts(wallet.opts, new)
           pkce == GeneratePKCE(wallet.pkce, wallet.own, urls + 1)
           meta == IF wallet.meta = NONE THEN NONE ELSE WithIssuerEndpoint(wallet.meta)
           w    == IF wallet.kind = "V1" THEN wallet
                   ELSE [wallet EXCEPT !.pkce = pkce, !.opts = o, !.meta = meta]
           q    == QueryOf(w, meta, pkce, o)
           pars == [step |-> "par", ci |-> NONE, query |-> q]
<1>1. /\ calls[c].step = "idle" /\ urls < MaxUrls /\ urls' = urls + 1
      /\ overlap' = (overlap \/ \E d \in Calls : calls[d].step \in {"par", "sign"})
      /\ UNCHANGED <<site, up, par, gone, code, token>>
  BY DEF CreateAuthorizationRequestUrl
<1>2. \/ wallet' = w /\ calls' = calls
      \/ meta # NONE /\ CanPrepare(w, meta, o) /\ wallet' = w /\ calls' = [calls EXCEPT ![c] = pars]
      \/ meta # NONE /\ CanPrepare(w, meta, o) /\ Proceed(c, w, q)
  BY DEF CreateAuthorizationRequestUrl
<1>3. WalletTyped(wallet) /\ site \in Sites /\ urls \in 0 .. MaxUrls /\ overlap \in BOOLEAN
  BY DEF TypeInv
<1>4. urls \in Nat /\ MaxUrls \in Nat /\ urls + 1 \in Verifiers
  BY <1>1, <1>3, AuthorizationConstants DEF Verifiers
<1>5. o \in Opts
  BY <1>3, InputsAssumption, SyncTyped DEF WalletTyped
<1>6. pkce \in Pkces /\ pkce.challenge \in Verifiers
  BY <1>3, <1>4, PkceTyped DEF WalletTyped
<1>7. MetaTyped(meta)
  <2>1. CASE wallet.meta = NONE
    BY <2>1 DEF MetaTyped
  <2>2. CASE wallet.meta # NONE
    BY <1>3, <2>2, IssuerEndpointTyped DEF WalletTyped
  <2> QED
    BY <2>1, <2>2
<1> HIDE DEF o, pkce, meta
<1>8. WalletTyped(w) /\ w.kind = wallet.kind /\ w.offered = wallet.offered
  <2>1. CASE wallet.kind = "V1"
    BY <1>3, <2>1
  <2>2. CASE wallet.kind # "V1"
    BY <1>3, <1>5, <1>6, <1>7, <2>2 DEF WalletTyped, WalletFields
  <2> QED
    BY <2>1, <2>2
<1> HIDE DEF w
<1>9. meta # NONE /\ CanPrepare(w, meta, o) => q \in Query
  BY <1>3, <1>5, <1>6, <1>7, QueryTyped
<1>10. q \in Query => CallTyped(pars, Variant) /\ pars.step = "par"
  BY DEF CallTyped, CallFields, Optional
<1> HIDE DEF q, pars
<1>11. overlap' \in BOOLEAN /\ urls' \in 0 .. MaxUrls /\ ParTyped' /\ urls' = urls + 1
  BY <1>1, <1>3, <1>4 DEF TypeInv, ParTyped
<1>12. ASSUME NEW r, calls' = [calls EXCEPT ![c] = r] PROVE PushesCounted'
  <2>1. /\ IsFiniteSet(Pushing(calls')) /\ Cardinality(Pushing(calls')) \in Nat
        /\ Cardinality(Pushing(calls)) \in Nat
        /\ Cardinality(Pushing(calls')) <= Cardinality(Pushing(calls)) + 1
    BY <1>12, PushStep DEF TypeInv, PushesCounted
  <2>2. /\ Cardinality(DOMAIN par) \in Nat
        /\ Cardinality(DOMAIN par) + Cardinality(Pushing(calls)) <= urls
    BY ParCounted DEF TypeInv, PushesCounted
  <2> QED
    BY <1>1, <1>4, <2>1, <2>2 DEF PushesCounted
<1>13. CASE wallet' = w /\ calls' = calls
  <2>1. CallTyped(calls[c], Variant) /\ calls' = [calls EXCEPT ![c] = calls[c]]
    BY <1>13 DEF TypeInv, CallsTyped
  <2> QED
    BY <1>1, <1>8, <1>11, <1>12, <1>13, <2>1, TypesSettle
<1>14. CASE meta # NONE /\ CanPrepare(w, meta, o) /\ wallet' = w /\ calls' = [calls EXCEPT ![c] = pars]
  BY <1>1, <1>8, <1>9, <1>10, <1>11, <1>12, <1>14, TypesSettle
<1>15. CASE meta # NONE /\ CanPrepare(w, meta, o) /\ Proceed(c, w, q)
  <2>1. /\ \E r : calls' = [calls EXCEPT ![c] = r] /\ CallTyped(r, Variant)
        /\ WalletTyped(wallet') /\ wallet'.kind = w.kind /\ wallet'.offered = w.offered
    BY <1>8, <1>9, <1>15, ProceedTyped
  <2> QED
    BY <1>1, <1>8, <1>11, <1>12, <2>1, TypesSettle
<1> QED
  BY <1>2, <1>13, <1>14, <1>15

\* An answered push: it is no longer outstanding, and stored at most once.
LEMMA AnsweredTyped ==
  ASSUME TypeInv, ParInv, NEW c \in Calls, calls[c].step = "par",
         NEW r, calls' = [calls EXCEPT ![c] = r], CallTyped(r, Variant), r.step # "par",
         WalletTyped(wallet'), wallet'.kind = wallet.kind, wallet'.offered = wallet.offered,
         UNCHANGED <<site, up, gone, code, urls, overlap>>,
         NEW q \in Query, NEW id, id = Cardinality(DOMAIN par) + 1,
         \/ par' = par
         \/ par' = [i \in DOMAIN par \cup {id} |-> IF i = id THEN q ELSE par[i]]
  PROVE  TypeInv'
<1>1. /\ IsFiniteSet(Pushing(calls')) /\ Cardinality(Pushing(calls')) \in Nat
      /\ Cardinality(Pushing(calls)) \in Nat
      /\ Cardinality(Pushing(calls')) = Cardinality(Pushing(calls)) - 1
  BY PushStep DEF TypeInv, PushesCounted
<1>2. Cardinality(DOMAIN par) \in Nat /\ urls \in Nat
  BY ParCounted, AuthorizationConstants DEF TypeInv
<1>3. Cardinality(DOMAIN par) + Cardinality(Pushing(calls)) <= urls
  BY DEF TypeInv, PushesCounted
<1>4. Cardinality(DOMAIN par') \in {Cardinality(DOMAIN par), Cardinality(DOMAIN par) + 1}
  <2>1. CASE par' = par
    BY <2>1
  <2>2. CASE par' = [i \in DOMAIN par \cup {id} |-> IF i = id THEN q ELSE par[i]]
    <3>1. id \notin DOMAIN par
      BY FreshUri
    <3>2. IsFiniteSet(DOMAIN par)
      BY ParCounted, FS_Interval
    <3>3. DOMAIN par' = DOMAIN par \cup {id}
      BY <2>2
    <3> QED
      BY <3>1, <3>2, <3>3, FS_AddElement
  <2> QED
    BY <2>1, <2>2
<1>5. PushesCounted'
  BY <1>1, <1>2, <1>3, <1>4 DEF PushesCounted
<1>6. ParTyped'
  BY DEF TypeInv, ParTyped
<1> QED
  BY <1>5, <1>6, TypesSettle DEF TypeInv

LEMMA ParAnswersTyped ==
  ASSUME TypeInv, ParInv, NEW c \in Calls, ParAnswers(c)
  PROVE  TypeInv'
<1> DEFINE q  == calls[c].query
           id == Cardinality(DOMAIN par) + 1
           p  == [q EXCEPT !.request_uri = id]
<1>1. calls[c].step = "par" /\ UNCHANGED <<site, up, gone, code, token, urls, overlap>>
  BY DEF ParAnswers
<1>2. /\ \/ par' = par
         \/ par' = [i \in DOMAIN par \cup {id} |-> IF i = id THEN q ELSE par[i]]
      /\ \/ Proceed(c, wallet, p)
         \/ calls' = [calls EXCEPT ![c] = Idle] /\ wallet' = wallet
         \/ Proceed(c, wallet, q)
  BY DEF ParAnswers
<1>3. q \in Query /\ WalletTyped(wallet)
  BY <1>1 DEF TypeInv, CallsTyped, CallTyped
<1>4. p \in Query
  <2>1. c \in Pushing(calls) /\ IsFiniteSet(Pushing(calls))
    BY <1>1 DEF Pushing, TypeInv, PushesCounted
  <2>2. Cardinality(Pushing(calls)) \in Nat /\ Cardinality(Pushing(calls)) # 0
    BY <2>1, FS_CardinalityType, FS_EmptySet
  <2>3. /\ Cardinality(DOMAIN par) \in Nat /\ urls \in Nat /\ urls <= MaxUrls /\ MaxUrls \in Nat
        /\ Cardinality(DOMAIN par) + Cardinality(Pushing(calls)) <= urls
    BY ParCounted, AuthorizationConstants DEF TypeInv, PushesCounted
  <2>4. id \in 1 .. MaxUrls
    BY <2>2, <2>3
  <2> QED
    BY <1>3, <2>4, UriTyped
<1>5. CallTyped(Idle, Variant) /\ Idle.step # "par"
  BY IdleTyped DEF Idle
<1> HIDE DEF p, q
<1>6. \E r : /\ calls' = [calls EXCEPT ![c] = r] /\ CallTyped(r, Variant) /\ r.step # "par"
             /\ WalletTyped(wallet') /\ wallet'.kind = wallet.kind /\ wallet'.offered = wallet.offered
  <2>1. CASE \E x \in Query : Proceed(c, wallet, x)
    <3>1. PICK r : /\ calls' = [calls EXCEPT ![c] = r] /\ CallTyped(r, Variant)
                   /\ r.step \in {"idle", "sign"} /\ WalletTyped(wallet')
                   /\ wallet'.kind = wallet.kind /\ wallet'.offered = wallet.offered
      BY <1>3, <2>1, ProceedTyped
    <3> QED
      BY <3>1
  <2>2. CASE calls' = [calls EXCEPT ![c] = Idle] /\ wallet' = wallet
    BY <1>3, <1>5, <2>2
  <2> QED
    BY <1>2, <1>3, <1>4, <2>1, <2>2
<1> QED
  BY <1>1, <1>2, <1>3, <1>6, AnsweredTyped

LEMMA SignedTyped ==
  ASSUME TypeInv, ParInv, NEW c \in Calls, Signed(c)
  PROVE  TypeInv'
<1> DEFINE v == [wallet EXCEPT !.url = calls[c].query]
<1>1. /\ calls[c].step = "sign" /\ UNCHANGED <<site, up, par, gone, code, token, urls, overlap>>
      /\ wallet' = v /\ calls' = [calls EXCEPT ![c] = Idle]
  BY DEF Signed
<1>2. calls[c].query \in Query /\ WalletTyped(wallet)
  BY <1>1 DEF TypeInv, CallsTyped, CallTyped
<1>3. WalletTyped(v) /\ v.kind = wallet.kind /\ v.offered = wallet.offered
  BY <1>2 DEF WalletTyped, WalletFields, Optional
<1>4. CallTyped(Idle, Variant) /\ Idle.step # "par"
  BY IdleTyped DEF Idle
<1> HIDE DEF v
<1> QED
  BY <1>1, <1>3, <1>4, DiscoveryTyped

LEMMA RestoreTyped == TypeInv /\ ParInv /\ Restore => TypeInv'
<1> SUFFICES ASSUME TypeInv, ParInv, Restore PROVE TypeInv'
  OBVIOUS
<1>1. /\ calls' = [c \in Calls |-> Idle]
      /\ UNCHANGED <<site, up, wallet, par, gone, code, token, urls, overlap>>
  BY DEF Restore
<1>2. CallsTyped'
  BY <1>1, IdleTyped DEF CallsTyped
<1>3. Pushing(calls') = {}
  BY <1>1 DEF Pushing, Idle
<1>4. IsFiniteSet(Pushing(calls')) /\ Cardinality(Pushing(calls')) = 0
  BY <1>3, FS_EmptySet
<1>5. /\ Cardinality(DOMAIN par) \in Nat /\ urls \in Nat
      /\ IsFiniteSet(Pushing(calls)) /\ Cardinality(DOMAIN par) + Cardinality(Pushing(calls)) <= urls
  BY ParCounted, AuthorizationConstants DEF TypeInv, PushesCounted
<1>6. Cardinality(Pushing(calls)) \in Nat
  BY <1>5, FS_CardinalityType
<1>7. PushesCounted'
  BY <1>1, <1>4, <1>5, <1>6 DEF PushesCounted
<1> QED
  BY <1>1, <1>2, <1>7 DEF TypeInv, ParTyped

\* Steps of the servers and the user, and of the client once it has a code
LEMMA OthersTyped ==
  ASSUME TypeInv, UNCHANGED <<site, wallet, calls, par, urls, overlap>>,
         up' \in {"off", "up", "failed"}, code' \in Optional(Query), gone' \subseteq DOMAIN par
  PROVE  TypeInv'
<1>1. CallsTyped' /\ PushesCounted' /\ ParTyped'
  BY DEF TypeInv, CallsTyped, PushesCounted, ParTyped, Variant
<1> QED
  BY <1>1 DEF TypeInv

LEMMA TypesInit == Init => TypeInv
<1> SUFFICES ASSUME Init PROVE TypeInv
  OBVIOUS
<1>1. PICK u \in Wallets :
        wallet = [kind |-> u.kind, offered |-> u.offered, own |-> u.own, meta |-> NONE,
                  url |-> NONE, opts |-> NoOpts,
                  pkce |-> [verifier |-> NONE, challenge |-> NONE]]
  BY DEF Init
<1>2. WalletTyped(wallet)
  <2>1. NoOpts \in Opts
    BY DEF NoOpts, Opts, Optional
  <2>2. u.kind \in Variants
    BY InputsAssumption
  <2> QED
    BY <1>1, <2>1, <2>2 DEF WalletTyped, WalletFields, MetaTyped, Pkces, Optional
<1>3. calls = [c \in Calls |-> Idle] /\ par = [id \in {} |-> NONE] /\ gone = {} /\ urls = 0
  BY DEF Init
<1>4. CallsTyped
  BY <1>3, IdleTyped DEF CallsTyped
<1>5. Pushing(calls) = {} /\ DOMAIN par = {}
  BY <1>3 DEF Pushing, Idle
<1>6. PushesCounted
  <2>1. IsFiniteSet({}) /\ Cardinality({}) = 0
    BY FS_EmptySet
  <2>2. /\ IsFiniteSet(Pushing(calls))
        /\ Cardinality(DOMAIN par) = 0 /\ Cardinality(Pushing(calls)) = 0
    BY <1>5, <2>1
  <2> QED
    BY <1>3, <2>2 DEF PushesCounted
<1>7. ParTyped
  BY <1>3, <1>5 DEF ParTyped
<1>8. site \in Sites /\ up = "off" /\ code = NONE /\ overlap = FALSE /\ urls \in 0 .. MaxUrls
  BY AuthorizationConstants DEF Init
<1> QED
  BY <1>2, <1>4, <1>6, <1>7, <1>8 DEF TypeInv, Optional

LEMMA TypesStep == TypeInv /\ Inv /\ [Next]_vars => TypeInv'
<1> SUFFICES ASSUME TypeInv, Inv, [Next]_vars PROVE TypeInv'
  OBVIOUS
<1>0. ParInv
  BY DEF Inv
<1>1. CASE StartServer
  BY <1>1, OthersTyped DEF StartServer, TypeInv, ParTyped
<1>2. CASE \E id \in 1 .. MaxUrls : ParExpires(id)
  BY <1>2, OthersTyped DEF ParExpires, TypeInv, ParTyped
<1>3. CASE Authorize
  <2>1. code' = wallet.url \/ \E id \in DOMAIN par : code' = par[id]
    BY <1>3 DEF Authorize
  <2>2. code' \in Optional(Query)
    BY <2>1 DEF TypeInv, WalletTyped, ParTyped, Optional
  <2> QED
    BY <1>3, <2>2, OthersTyped DEF Authorize, TypeInv, ParTyped
<1>4. CASE RequestToken \/ UNCHANGED vars
  BY <1>4, OthersTyped DEF RequestToken, vars, TypeInv, ParTyped
<1>5. CASE Restore
  BY <1>0, <1>5, RestoreTyped
<1>6. ASSUME NEW c \in Calls,
             \/ RetrieveServerMetadata(c) \/ IssuerAnswers(c) \/ ServerAnswers(c)
             \/ ParAnswers(c) \/ Signed(c)
      PROVE  TypeInv'
  BY <1>0, <1>6, RetrieveTyped, IssuerAnswersTyped, ServerAnswersTyped, ParAnswersTyped, SignedTyped
<1>7. ASSUME NEW c \in Calls, NEW new \in Requests, CreateAuthorizationRequestUrl(c, new)
      PROVE  TypeInv'
  BY <1>0, <1>7, CreateTyped
<1> QED
  BY <1>1, <1>2, <1>3, <1>4, <1>5, <1>6, <1>7 DEF Next

\* A prepared request has an endpoint and a challenge, a result of discovery a
\* token and a credential endpoint, and the server stores no more pushed
\* requests than URLs were asked for (createAuthorizationRequestUrl,
\* retrieveAllMetadata).
THEOREM AuthorizationTypeCorrect == Spec => []AuthorizationTypeOK
<1>1. TypeInv /\ ParInv => AuthorizationTypeOK
  <2> SUFFICES ASSUME TypeInv, ParInv PROVE AuthorizationTypeOK
    OBVIOUS
  <2>1. DOMAIN par \subseteq 1 .. MaxUrls
    <3>1. /\ Cardinality(DOMAIN par) \in Nat /\ DOMAIN par = 1 .. Cardinality(DOMAIN par)
          /\ urls \in Nat /\ urls <= MaxUrls /\ MaxUrls \in Nat
          /\ Cardinality(DOMAIN par) + Cardinality(Pushing(calls)) <= urls
      BY ParCounted, AuthorizationConstants DEF TypeInv, PushesCounted
    <3>2. Cardinality(Pushing(calls)) \in Nat
      BY FS_CardinalityType DEF TypeInv, PushesCounted
    <3> QED
      BY <3>1, <3>2
  <2>2. /\ wallet.meta # NONE => {wallet.meta.token, wallet.meta.credential} \subseteq Hosts \cup {Guess}
        /\ wallet.url \in Optional(Query) /\ wallet.opts \in Opts
        /\ wallet.pkce \in [verifier : Optional(Verifiers), challenge : Optional(Verifiers)]
    BY DEF TypeInv, WalletTyped, MetaTyped, Pkces
  <2>3. \A c \in Calls : /\ calls[c].step \in {"idle", "ci", "oidc", "oauth", "par", "sign"}
                         /\ calls[c].query \in Optional(Query)
    BY DEF TypeInv, CallsTyped, CallTyped
  <2> QED
    BY <2>1, <2>2, <2>3 DEF TypeInv, ParTyped, AuthorizationTypeOK
<1>2. Inv => ParInv
  BY DEF Inv
<1> QED
  BY <1>1, <1>2, TypesInit, TypesStep, AuthorizationInvariant, PTL DEF Spec
===============================================================================
