------------------------- MODULE Presentations_proofs -------------------------
(***************************************************************************)
(* What holds of presentations for any transactions, wallets and           *)
(* configurations of a relying party.  The values of a request pass        *)
(* through options that every call writes, two payloads built from them,   *)
(* and the wallet's merge of what it received; the proofs follow them from *)
(* the builder to the RP's verification of the answer.                     *)
(***************************************************************************)
EXTENDS Presentations, TLAPS

URIFields == {"redirect_uri", "response_uri"}
Written   == URIFields \cup {"state", "nonce"}

\* A payload of the options: URIs where they belong, states and nonces of calls
OptionPayload(p) ==
    /\ p \in Payloads
    /\ \A f \in URIFields : p[f] \in Uris \cup {NONE}
    /\ p.state \in {NONE} \cup {<<"state", t>> : t \in Transactions}
    /\ p.nonce \in {NONE} \cup {<<"nonce", t>> : t \in Transactions}

\* What a configuration fixes, calls leave alone.
OptsOK(c, o) ==
    /\ OptionPayload(o.request) /\ OptionPayload(o.object)
    /\ \A f \in Fields \ Written : /\ o.request[f] = BuiltOpts(c).request[f]
                                   /\ o.object[f] = BuiltOpts(c).object[f]

\* The URIs in the options are of the one kind, and the one URI.
OptsURIs(c, o) ==
    /\ c.redirect # NONE => o.request.redirect_uri # NONE \/ o.object.redirect_uri # NONE
    /\ \A kind \in URIFields : OneKindOfURI(c, kind) =>
          \A f \in URIFields \ {kind} : o.request[f] = NONE /\ o.object[f] = NONE
    /\ \A kind \in URIFields : \A uri : OneURI(c, kind, uri) =>
          o.request[kind] \in {NONE, uri} /\ o.object[kind] \in {NONE, uri}

-----------------------------------------------------------------------------
(* Configurations and values *)

LEMMA ConfigFacts ==
  ASSUME NEW c \in RPs
  PROVE  /\ c.client \in ClientIds \cup {NONE} /\ c.metaClient \in ClientIds \cup {NONE}
         /\ c.entity \in {"entity", NONE} /\ c.mode \in ResponseModes \cup {NONE}
         /\ c.query \in {"meta", "noMeta", NONE} /\ c.redirect \in Uris \cup {NONE}
         /\ c.type \in (SUBSET {"id_token", "vp_token"}) \cup {NONE}
         /\ c.targets \in Targets /\ c.passBy \in {"REFERENCE", "VALUE", "NONE", "unset"}
<1>1. c \in RPConfigs
  BY ConfigurationsAssumption
<1> QED
  BY <1>1 DEF RPConfigs

LEMMA CallFacts ==
  ASSUME NEW c \in RPs, NEW a \in Calls[c]
  PROVE  /\ a.uri \in Uris \cup {NONE} /\ a.uriType \in URIFields \cup {NONE}
         /\ a.targets \in Targets /\ a \in CallArgs /\ a # NONE
<1>1. a \in CallArgs
  BY ConfigurationsAssumption
<1> QED
  BY <1>1, ValuesAssumption DEF CallArgs, URIFields

LEMMA FieldsKnown ==
  /\ Fields = Written \cup {"client_id", "entity_id", "response_type", "response_mode",
                            "dcql_query", "request_uri"}
  /\ Written = {"redirect_uri", "response_uri", "state", "nonce"}
BY DEF Fields, Written, URIFields

LEMMA ValuesKnown ==
  /\ NONE \in Values /\ ClientIds \subseteq Values /\ Uris \subseteq Values
  /\ ResponseModes \subseteq Values /\ "direct_post" \in ResponseModes
  /\ (SUBSET {"id_token", "vp_token"}) \subseteq Values /\ {"entity", "meta", "noMeta"} \subseteq Values
  /\ Transactions \subseteq Values /\ \A t \in Transactions : Made(t) \subseteq Values
BY DEF Values, ResponseModes

LEMMA MadeKnown ==
  ASSUME NEW t \in Transactions
  PROVE  /\ <<"state", t>> \in Values /\ <<"nonce", t>> \in Values
         /\ <<"state", t>> # NONE /\ <<"nonce", t>> # NONE
         /\ \A s \in States(t) : s \in Values /\ s # NONE
         /\ \A s \in States(t) : <<"hash", s>> \in Values /\ <<"hash", s>> # NONE
BY ValuesKnown, ValuesAssumption DEF Made, States

LEMMA MergeFields ==
  ASSUME NEW p \in Payloads, NEW q \in Payloads
  PROVE  /\ Merge(p, q) \in Payloads
         /\ \A f \in Fields : Merge(p, q)[f] = IF q[f] # NONE THEN q[f] ELSE p[f]
BY DEF Merge, Payloads

LEMMA BuiltOptsOK ==
  ASSUME NEW c \in RPs
  PROVE  OptsOK(c, BuiltOpts(c)) /\ OptsURIs(c, BuiltOpts(c))
<1> DEFINE b == BuiltOpts(c)
           p == Configured(c)
<1>1. /\ b.request \in {p, NoPayload} /\ b.object \in {p, NoPayload}
      /\ b.request = p \/ b.object = p
  BY ConfigFacts DEF BuiltOpts, InRequest, InObject, Targets
<1>2. /\ p \in [Fields -> Values] /\ p.redirect_uri = c.redirect /\ p.response_uri = NONE
      /\ p.state = NONE /\ p.nonce = NONE
  BY ConfigFacts, ValuesKnown DEF Configured, NoPayload, Fields
<1>3. NoPayload \in [Fields -> Values] /\ \A f \in Fields : NoPayload[f] = NONE
  BY ValuesKnown DEF NoPayload
<1>4. OptionPayload(p) /\ OptionPayload(NoPayload)
  BY <1>2, <1>3, ConfigFacts, FieldsKnown DEF OptionPayload, Payloads, URIFields
<1> HIDE DEF p, b
<1>5. OptsOK(c, b)
  BY <1>1, <1>4 DEF OptsOK, b
<1>6. OptsURIs(c, b)
  <2>1. \A f \in Fields : NoPayload[f] = NONE
    BY <1>3
  <2>2. {"redirect_uri", "response_uri"} \subseteq Fields
    BY DEF Fields
  <2>3. \A kind \in URIFields : OneKindOfURI(c, kind) =>
          \A f \in URIFields \ {kind} : p[f] = NONE
    BY <1>2 DEF OneKindOfURI, URIFields
  <2>4. \A kind \in URIFields : \A uri : OneURI(c, kind, uri) => p[kind] \in {NONE, uri}
    BY <1>2 DEF OneURI, URIFields
  <2> QED
    BY <1>1, <1>2, <2>1, <2>2, <2>3, <2>4 DEF OptsURIs, URIFields
<1> QED
  BY <1>5, <1>6 DEF b

-----------------------------------------------------------------------------
(* What a call writes into the options *)

LEMMA ResponseURIKnown ==
  ASSUME NEW c \in RPs, NEW o, OptsOK(c, o), NEW a \in Calls[c]
  PROVE  LET r == ResponseURI(o, a)
         IN  r.type \in URIFields /\ r.uri \in Uris \cup {NONE}
<1> DEFINE m == Merge(o.request, o.object)
<1>1. \A f \in URIFields : m[f] \in Uris \cup {NONE}
  BY MergeFields, FieldsKnown DEF OptsOK, OptionPayload, URIFields
<1> HIDE DEF m
<1>2. ResponseURI(o, a) =
        IF m.redirect_uri # NONE THEN [type |-> "redirect_uri", uri |-> m.redirect_uri]
        ELSE [type |-> IF a.uriType = NONE THEN "response_uri" ELSE a.uriType,
              uri |-> IF a.uri # NONE THEN a.uri ELSE m.response_uri]
  BY DEF ResponseURI, m
<1> QED
  BY <1>1, <1>2, CallFacts DEF URIFields

\* The kind of URI is the configuration's, and so is the URI.
LEMMA ResponseURIOfKind ==
  ASSUME NEW c \in RPs, NEW o, OptsOK(c, o), OptsURIs(c, o), NEW a \in Calls[c],
         NEW kind \in URIFields, OneKindOfURI(c, kind)
  PROVE  /\ ResponseURI(o, a).type = kind
         /\ \A uri : OneURI(c, kind, uri) => ResponseURI(o, a).uri = uri
<1> DEFINE m == Merge(o.request, o.object)
<1>1. \A f \in URIFields : m[f] = IF o.object[f] # NONE THEN o.object[f] ELSE o.request[f]
  BY MergeFields, FieldsKnown DEF OptsOK, OptionPayload, URIFields
<1> HIDE DEF m
<1>2. ResponseURI(o, a) =
        IF m.redirect_uri # NONE THEN [type |-> "redirect_uri", uri |-> m.redirect_uri]
        ELSE [type |-> IF a.uriType = NONE THEN "response_uri" ELSE a.uriType,
              uri |-> IF a.uri # NONE THEN a.uri ELSE m.response_uri]
  BY DEF ResponseURI, m
<1>3. m.redirect_uri # NONE => kind = "redirect_uri"
  BY <1>1 DEF OptsURIs, URIFields
<1>4. ResponseURI(o, a).type = kind
  <2>1. CASE m.redirect_uri # NONE
    BY <1>2, <1>3, <2>1
  <2>2. CASE m.redirect_uri = NONE
    <3>1. c.redirect = NONE
      BY <1>1, <2>2 DEF OptsURIs, URIFields
    <3> QED
      BY <1>2, <2>2, <3>1 DEF OneKindOfURI, OrElse
  <2> QED
    BY <2>1, <2>2
<1>5. ASSUME NEW uri, OneURI(c, kind, uri)
      PROVE  ResponseURI(o, a).uri = uri
  <2>1. m[kind] \in {NONE, uri}
    BY <1>1, <1>5 DEF OptsURIs
  <2>2. CASE m.redirect_uri # NONE
    BY <1>2, <1>3, <2>1, <2>2
  <2>3. CASE m.redirect_uri = NONE
    <3>1. c.redirect = NONE
      BY <1>1, <2>3 DEF OptsURIs, URIFields
    <3>2. a.uri = uri
      BY <1>5, <3>1 DEF OneURI
    <3>3. kind # "response_uri" => m.response_uri = NONE
      BY <1>1 DEF OptsURIs, URIFields
    <3> QED
      BY <1>2, <2>1, <2>3, <3>2, <3>3
  <2> QED
    BY <2>2, <2>3
<1> QED
  BY <1>4, <1>5

LEMMA URIWritten ==
  ASSUME NEW o, OptionPayload(o.request), OptionPayload(o.object), NEW r,
         r.type \in URIFields, r.uri \in Uris \cup {NONE}, NEW b
  PROVE  LET n == WithResponseURI(o, r, b)
         IN  /\ OptionPayload(n.request) /\ OptionPayload(n.object)
             /\ n.object[r.type] = r.uri
             /\ n.request[r.type] \in {o.request[r.type], r.uri}
             /\ o.request[r.type] # NONE => n.request[r.type] = o.request[r.type]
             /\ \A f \in Fields \ {r.type} : n.request[f] = o.request[f] /\ n.object[f] = o.object[f]
<1> DEFINE n == WithResponseURI(o, r, b)
           u == [o.request EXCEPT ![r.type] = r.uri]
           v == [o.object EXCEPT ![r.type] = r.uri]
<1>1. n.object = v /\ n.request \in {o.request, u} /\ (o.request[r.type] # NONE => n.request = o.request)
  BY DEF WithResponseURI
<1>2. /\ u \in Payloads /\ v \in Payloads /\ u[r.type] = r.uri /\ v[r.type] = r.uri
      /\ \A f \in Fields \ {r.type} : u[f] = o.request[f] /\ v[f] = o.object[f]
  BY ValuesKnown, FieldsKnown DEF OptionPayload, Payloads, URIFields
<1> HIDE DEF n, u, v
<1>3. ASSUME NEW p, NEW q, OptionPayload(p), q \in Payloads, q[r.type] = r.uri,
             \A f \in Fields \ {r.type} : q[f] = p[f]
      PROVE  OptionPayload(q)
  BY <1>3, FieldsKnown DEF OptionPayload, URIFields
<1>4. OptionPayload(u) /\ OptionPayload(v)
  BY <1>2, <1>3
<1> QED
  BY <1>1, <1>2, <1>4 DEF n

LEMMA StateWritten ==
  ASSUME NEW o, OptionPayload(o.request), OptionPayload(o.object),
         NEW t \in Transactions, NEW targets, NEW passBy
  PROVE  LET n == WithStateAndNonce(o, t, targets, passBy)
         IN  /\ OptionPayload(n.request) /\ OptionPayload(n.object)
             /\ \A f \in Fields \ {"state", "nonce"} :
                   n.request[f] = o.request[f] /\ n.object[f] = o.object[f]
             /\ passBy # "NONE" /\ InObject(targets) =>
                   n.object.state = <<"state", t>> /\ n.object.nonce = <<"nonce", t>>
<1> DEFINE n == WithStateAndNonce(o, t, targets, passBy)
           Set(p) == [p EXCEPT !.state = <<"state", t>>, !.nonce = <<"nonce", t>>]
<1>1. /\ n.request \in {o.request, Set(o.request)} /\ n.object \in {o.object, Set(o.object)}
      /\ passBy # "NONE" /\ InObject(targets) => n.object = Set(o.object)
  BY ValuesAssumption DEF WithStateAndNonce, OrElse, InObject
<1>2. ASSUME NEW p, OptionPayload(p)
      PROVE  /\ OptionPayload(Set(p)) /\ Set(p).state = <<"state", t>> /\ Set(p).nonce = <<"nonce", t>>
             /\ \A f \in Fields \ {"state", "nonce"} : Set(p)[f] = p[f]
  <2> DEFINE q == Set(p)
  <2>1. /\ q \in Payloads /\ q.state = <<"state", t>> /\ q.nonce = <<"nonce", t>>
        /\ \A f \in Fields \ {"state", "nonce"} : q[f] = p[f]
    BY <1>2, MadeKnown, FieldsKnown DEF OptionPayload, Payloads
  <2> HIDE DEF q
  <2>2. OptionPayload(q)
    BY <1>2, <2>1, FieldsKnown DEF OptionPayload, URIFields
  <2> QED
    BY <2>1, <2>2 DEF q
<1> HIDE DEF n, Set
<1> QED
  BY <1>1, <1>2 DEF n

\* The options after a call, whether it returned or not; and what is in them
\* where it did
LEMMA NewOptsOK ==
  ASSUME NEW c \in RPs, c.passBy # "NONE", NEW o, OptsOK(c, o), OptsURIs(c, o),
         NEW a \in Calls[c], NEW t \in Transactions
  PROVE  LET n == NewOpts(c, o, a, t)
             r == ResponseURI(o, a)
         IN  /\ OptsOK(c, n.opts) /\ OptsURIs(c, n.opts)
             /\ n.ok => /\ r.uri # NONE /\ n.opts.object[r.type] = r.uri
                        /\ PassBy(c, a) # "unset"
             /\ n.ok /\ InObject(a.targets) => /\ n.opts.object.state = <<"state", t>>
                                               /\ n.opts.object.nonce = <<"nonce", t>>
<1> DEFINE r  == ResponseURI(o, a)
           by == a.byReference \/ c.passBy = "REFERENCE"
           o1 == WithResponseURI(o, r, by)
           o2 == WithStateAndNonce(o1, t, a.targets, c.passBy)
           n  == NewOpts(c, o, a, t)
<1>1. /\ n.opts \in {o, o1, o2}
      /\ r.uri = NONE => n.opts = o
      /\ n.ok => r.uri # NONE /\ n.opts = o2 /\ PassBy(c, a) # "unset"
  BY DEF NewOpts
<1>2. r.type \in URIFields /\ r.uri \in Uris \cup {NONE}
  BY ResponseURIKnown
<1> HIDE DEF n, by
<1>3. /\ OptionPayload(o1.request) /\ OptionPayload(o1.object)
      /\ o1.object[r.type] = r.uri
      /\ o1.request[r.type] \in {o.request[r.type], r.uri}
      /\ o.request[r.type] # NONE => o1.request[r.type] = o.request[r.type]
      /\ \A f \in Fields \ {r.type} : o1.request[f] = o.request[f] /\ o1.object[f] = o.object[f]
  BY <1>2, URIWritten DEF OptsOK
<1> HIDE DEF o1
<1>4. /\ OptionPayload(o2.request) /\ OptionPayload(o2.object)
      /\ \A f \in Fields \ {"state", "nonce"} :
            o2.request[f] = o1.request[f] /\ o2.object[f] = o1.object[f]
      /\ InObject(a.targets) =>
            o2.object.state = <<"state", t>> /\ o2.object.nonce = <<"nonce", t>>
  BY <1>3, StateWritten
<1> HIDE DEF o2
<1>5. ASSUME r.uri # NONE
      PROVE  OptsURIs(c, o1)
  <2>1. ASSUME NEW kind \in URIFields, OneKindOfURI(c, kind), NEW f \in URIFields \ {kind}
        PROVE  o1.request[f] = NONE /\ o1.object[f] = NONE
    <3>1. r.type = kind
      BY <2>1, ResponseURIOfKind
    <3>2. f \in Fields \ {r.type}
      BY <2>1, <3>1, FieldsKnown DEF URIFields
    <3>3. o.request[f] = NONE /\ o.object[f] = NONE
      BY <2>1 DEF OptsURIs
    <3> QED
      BY <1>3, <3>2, <3>3
  <2>2. ASSUME NEW kind \in URIFields, NEW uri, OneURI(c, kind, uri)
        PROVE  o1.request[kind] \in {NONE, uri} /\ o1.object[kind] \in {NONE, uri}
    <3>1. OneKindOfURI(c, kind)
      BY <2>2 DEF OneURI
    <3>2. r.type = kind /\ r.uri = uri
      BY <2>2, <3>1, ResponseURIOfKind
    <3>3. o.request[kind] \in {NONE, uri} /\ o.object[kind] \in {NONE, uri}
      BY <2>2 DEF OptsURIs
    <3> QED
      BY <1>3, <3>2, <3>3
  <2>3. ASSUME c.redirect # NONE
        PROVE  o1.request.redirect_uri # NONE \/ o1.object.redirect_uri # NONE
    <3>1. OneKindOfURI(c, "redirect_uri") /\ "redirect_uri" \in URIFields
      BY <2>3 DEF OneKindOfURI, URIFields
    <3>2. r.type = "redirect_uri"
      BY <3>1, ResponseURIOfKind
    <3> QED
      BY <1>3, <1>5, <3>2
  <2> QED
    BY <2>1, <2>2, <2>3 DEF OptsURIs
<1>6. ASSUME OptsURIs(c, o1)
      PROVE  OptsURIs(c, o2)
  <2>1. \A f \in URIFields : o2.request[f] = o1.request[f] /\ o2.object[f] = o1.object[f]
    BY <1>4, FieldsKnown DEF URIFields
  <2>2. o2.request.redirect_uri = o1.request.redirect_uri /\ o2.object.redirect_uri = o1.object.redirect_uri
    BY <2>1 DEF URIFields
  <2> QED
    BY <1>6, <2>1, <2>2 DEF OptsURIs
<1>7. OptsURIs(c, n.opts)
  BY <1>1, <1>5, <1>6
<1>8. OptsOK(c, o1) /\ OptsOK(c, o2)
  BY <1>2, <1>3, <1>4, FieldsKnown DEF OptsOK, URIFields
<1>9. r.uri # NONE /\ n.ok => n.opts.object[r.type] = r.uri
  BY <1>1, <1>2, <1>3, <1>4, FieldsKnown DEF URIFields
<1> QED
  BY <1>1, <1>4, <1>7, <1>8, <1>9 DEF n

-----------------------------------------------------------------------------
(* The request object *)

\* An object as it is signed: what it needs is in it, the rest is as the
\* options have it.
ObjectOfOpts(c, p, q) ==
    /\ q \in Payloads
    /\ q.state # NONE /\ q.nonce # NONE
    /\ p.state # NONE => q.state = p.state
    /\ p.nonce # NONE => q.nonce = p.nonce
    /\ q.response_mode = OrElse(p.response_mode, "direct_post")
    /\ \A f \in URIFields \cup {"entity_id", "dcql_query", "request_uri"} : q[f] = p[f]
    /\ q.client_id = IF c.method = "did" /\ p.client_id = NONE THEN DidClientId(c, q) ELSE p.client_id

LEMMA ObjectSigned ==
  ASSUME NEW c \in RPs, NEW o, OptsOK(c, o), NEW t \in Transactions, NEW made \in {"uri", "stored"}
  PROVE  ObjectOfOpts(c, o.object, Signed(c, ObjectPayload(o, <<t, made>>)))
<1> DEFINE p     == o.object
           state == OrElse(p.state, <<"made", <<t, made>>>>)
           nonce == OrElse(p.nonce, <<"hash", state>>)
           v == ObjectPayload(o, <<t, made>>)
           q == Signed(c, v)
<1>1. OptionPayload(p)
  BY DEF OptsOK
<1>2. \E u \in Transactions : state \in States(u)
  BY <1>1 DEF OptionPayload, OrElse, States
<1>3. state \in Values /\ state # NONE /\ <<"hash", state>> \in Values /\ <<"hash", state>> # NONE
  BY <1>2, MadeKnown
<1>4. nonce \in Values /\ nonce # NONE
  BY <1>1, <1>3, MadeKnown DEF OptionPayload, OrElse
<1>5. /\ p.state # NONE => state = p.state
      /\ p.nonce # NONE => nonce = p.nonce
  BY DEF OrElse
<1> HIDE DEF p
<1>6. v = [p EXCEPT !.response_type = OrElse(p.response_type, {"id_token"}),
                    !.response_mode = OrElse(p.response_mode, "direct_post"),
                    !.state = state, !.nonce = nonce]
  BY DEF ObjectPayload, p
<1> HIDE DEF state, nonce, v
<1>7. /\ OrElse(p.response_type, {"id_token"}) \in Values
      /\ OrElse(p.response_mode, "direct_post") \in Values
  BY <1>1, ValuesKnown, FieldsKnown DEF OptionPayload, Payloads, OrElse
<1>8. /\ v \in Payloads /\ v.state = state /\ v.nonce = nonce
      /\ v.response_mode = OrElse(p.response_mode, "direct_post")
      /\ \A f \in URIFields \cup {"entity_id", "dcql_query", "request_uri", "client_id"} : v[f] = p[f]
  BY <1>1, <1>3, <1>4, <1>6, <1>7, FieldsKnown DEF OptionPayload, Payloads, URIFields
<1>9. CASE c.method = "did" /\ v.client_id = NONE
  <2>1. q = [v EXCEPT !.client_id = DidClientId(c, v)]
    BY <1>9 DEF Signed
  <2>2. DidClientId(c, v) \in Values
    <3>1. v.redirect_uri \in Uris \cup {NONE} /\ v.response_uri \in Uris \cup {NONE}
      BY <1>1, <1>8 DEF OptionPayload, URIFields
    <3>2. DidClientId(c, v) \in ClientIds
      BY <3>1 DEF DidClientId, ClientIds, Prefixes, OrElse
    <3> QED
      BY <3>2, ValuesKnown
  <2> HIDE DEF q
  <2>3. /\ q \in Payloads /\ q.client_id = DidClientId(c, v)
        /\ \A f \in Fields \ {"client_id"} : q[f] = v[f]
    BY <1>8, <2>1, <2>2, FieldsKnown DEF Payloads
  <2>4. DidClientId(c, v) = DidClientId(c, q)
    BY <2>3, FieldsKnown DEF DidClientId
  <2>5. p.client_id = NONE
    BY <1>8, <1>9
  <2>6. ObjectOfOpts(c, p, q)
    BY <1>3, <1>4, <1>5, <1>8, <1>9, <2>3, <2>4, <2>5, FieldsKnown DEF ObjectOfOpts, URIFields
  <2> QED
    BY <2>6 DEF q, p, v
<1>10. CASE ~(c.method = "did" /\ v.client_id = NONE)
  <2>1. q = v
    BY <1>10 DEF Signed
  <2>2. ~(c.method = "did" /\ p.client_id = NONE)
    BY <1>8, <1>10
  <2> HIDE DEF q
  <2>3. ObjectOfOpts(c, p, q)
    BY <1>3, <1>4, <1>5, <1>8, <2>1, <2>2 DEF ObjectOfOpts
  <2> QED
    BY <2>3 DEF q, p, v
<1> QED
  BY <1>9, <1>10

\* What a request carries: u is its unsigned part, q its object.
Carries(c, t, u, q) ==
    LET b == BuiltOpts(c) IN
    /\ u \in Payloads /\ q \in Payloads
    /\ q.state # NONE /\ q.nonce # NONE
    /\ (\A a \in Calls[c] : InObject(a.targets)) => q.state = <<"state", t>> /\ q.nonce = <<"nonce", t>>
    /\ q.response_mode = OrElse(b.object.response_mode, "direct_post")
    /\ q.entity_id = b.object.entity_id /\ q.dcql_query = b.object.dcql_query
    /\ u.dcql_query \in {NONE, b.request.dcql_query}
    /\ q.client_id = IF c.method = "did" /\ b.object.client_id = NONE THEN DidClientId(c, q)
                     ELSE b.object.client_id
    /\ \A f \in URIFields : u[f] \in Uris \cup {NONE} /\ q[f] \in Uris \cup {NONE}
    /\ \E f \in URIFields : q[f] # NONE
    /\ \A kind \in URIFields : OneKindOfURI(c, kind) =>
          \A f \in URIFields \ {kind} : u[f] = NONE /\ q[f] = NONE
    /\ \A kind \in URIFields : \A uri : OneURI(c, kind, uri) =>
          u[kind] \in {NONE, uri} /\ q[kind] \in {NONE, uri}

\* The object the wallet gets, and what it gets it with
Seen(r) == IF r.uri.request_uri # NONE THEN r.stored.object ELSE r.jwt
RequestOK(c, t, r) ==
    IF c.passBy = "NONE" THEN Seen(r) = NONE
    ELSE /\ Carries(c, t, r.uri, Seen(r))
         /\ Carries(c, t, r.stored.unsigned, r.stored.object)
         /\ c.passBy # "VALUE" => \A f \in URIFields : r.uri[f] = NONE

LEMMA CarriesOpts ==
  ASSUME NEW c \in RPs, NEW o, OptsOK(c, o), OptsURIs(c, o), NEW t \in Transactions,
         NEW g \in URIFields, o.object[g] # NONE,
         (\A a \in Calls[c] : InObject(a.targets)) =>
            o.object.state = <<"state", t>> /\ o.object.nonce = <<"nonce", t>>,
         NEW q, ObjectOfOpts(c, o.object, q), NEW u \in Payloads,
         \A f \in URIFields \cup {"dcql_query"} : u[f] \in {NONE, o.request[f]}
  PROVE  Carries(c, t, u, q)
<1> DEFINE b == BuiltOpts(c)
<1>1. \A f \in Fields \ Written : o.request[f] = b.request[f] /\ o.object[f] = b.object[f]
  BY DEF OptsOK
<1>2. /\ o.object.response_mode = b.object.response_mode /\ o.object.entity_id = b.object.entity_id
      /\ o.object.dcql_query = b.object.dcql_query /\ o.object.client_id = b.object.client_id
      /\ o.request.dcql_query = b.request.dcql_query
  BY <1>1, FieldsKnown
<1> HIDE DEF b
<1>3. /\ q \in Payloads /\ q.state # NONE /\ q.nonce # NONE
      /\ q.response_mode = OrElse(b.object.response_mode, "direct_post")
      /\ q.entity_id = b.object.entity_id /\ q.dcql_query = b.object.dcql_query
      /\ \A f \in URIFields : q[f] = o.object[f]
      /\ q.client_id = IF c.method = "did" /\ b.object.client_id = NONE THEN DidClientId(c, q)
                       ELSE b.object.client_id
  BY <1>2 DEF ObjectOfOpts
<1>4. u.dcql_query \in {NONE, b.request.dcql_query} /\ \A f \in URIFields : u[f] \in {NONE, o.request[f]}
  BY <1>2
<1>5. \A f \in URIFields : u[f] \in Uris \cup {NONE} /\ q[f] \in Uris \cup {NONE}
  BY <1>3, <1>4 DEF OptsOK, OptionPayload
<1>6. (\A a \in Calls[c] : InObject(a.targets)) => q.state = <<"state", t>> /\ q.nonce = <<"nonce", t>>
  BY MadeKnown DEF ObjectOfOpts
<1>7. \A kind \in URIFields : OneKindOfURI(c, kind) =>
          \A f \in URIFields \ {kind} : u[f] = NONE /\ q[f] = NONE
  BY <1>3, <1>4 DEF OptsURIs
<1>8. \A kind \in URIFields : \A uri : OneURI(c, kind, uri) =>
          u[kind] \in {NONE, uri} /\ q[kind] \in {NONE, uri}
  BY <1>3, <1>4 DEF OptsURIs
<1>9. \E f \in URIFields : q[f] # NONE
  BY <1>3
<1> QED
  BY <1>3, <1>4, <1>5, <1>6, <1>7, <1>8, <1>9 DEF Carries, b

LEMMA BuiltOK ==
  ASSUME rp \in RPs, rp.passBy # "NONE", NEW new, OptsOK(rp, new), OptsURIs(rp, new),
         NEW t \in Transactions, NEW a \in Calls[rp], PassBy(rp, a) # "unset",
         NEW g \in URIFields, new.object[g] # NONE,
         (\A x \in Calls[rp] : InObject(x.targets)) =>
            new.object.state = <<"state", t>> /\ new.object.nonce = <<"nonce", t>>
  PROVE  RequestOK(rp, t, Built(new, a, t))
<1> DEFINE b == Built(new, a, t)
           sent == RequestPayload(rp, new)
           obj(made) == Signed(rp, ObjectPayload(new, <<t, made>>))
           carried == URIPayload(PassBy(rp, a), sent, obj("uri"), t)
<1>1. PassBy(rp, a) \in {"REFERENCE", "VALUE"} /\ (PassBy(rp, a) = "VALUE" => rp.passBy = "VALUE")
  BY ConfigFacts DEF PassBy
<1>2. /\ b.uri = carried /\ b.stored.unsigned = sent /\ b.stored.object = obj("stored")
      /\ PassBy(rp, a) = "VALUE" => b.jwt = obj("uri")
  BY <1>1 DEF Built
<1>3. ObjectOfOpts(rp, new.object, obj("uri")) /\ ObjectOfOpts(rp, new.object, obj("stored"))
  BY ObjectSigned
<1>4. OptionPayload(new.request)
  BY DEF OptsOK
<1>5. /\ sent \in Payloads /\ \A f \in Fields \ {"client_id"} : sent[f] = new.request[f]
  BY <1>4, ConfigFacts, ValuesKnown, FieldsKnown DEF RequestPayload, OptionPayload, Payloads, OrElse
<1> HIDE DEF obj, sent, b
<1>6. CASE PassBy(rp, a) = "REFERENCE"
  <2>1. /\ carried \in Payloads /\ carried.request_uri = t
        /\ \A f \in URIFields \cup {"dcql_query"} : carried[f] = NONE
    <3>1. carried = [NoPayload EXCEPT !.request_uri = t, !.client_id = obj("uri").client_id]
      BY <1>6 DEF URIPayload
    <3>2. obj("uri").client_id \in Values
      BY <1>3, FieldsKnown DEF ObjectOfOpts, Payloads
    <3> DEFINE id == obj("uri").client_id
    <3> HIDE DEF id, carried
    <3>3. NoPayload = [f \in Fields |-> NONE] /\ t \in Values /\ NONE \in Values
      BY ValuesKnown DEF NoPayload
    <3>4. carried = [NoPayload EXCEPT !.request_uri = t, !.client_id = id] /\ id \in Values
      BY <3>1, <3>2 DEF id
    <3>5. \A f \in Fields : carried[f] = IF f = "client_id" THEN id
                                         ELSE IF f = "request_uri" THEN t ELSE NONE
      BY <3>3, <3>4
    <3>6. carried \in Payloads
      BY <3>3, <3>4 DEF Payloads
    <3> QED
      BY <3>5, <3>6, FieldsKnown DEF URIFields
  <2> HIDE DEF carried
  <2>2. t # NONE
    BY ValuesAssumption
  <2>3. Seen(b) = obj("stored")
    BY <1>2, <2>1, <2>2 DEF Seen
  <2>4. Carries(rp, t, carried, obj("stored"))
    BY <1>3, <2>1, CarriesOpts
  <2>5. Carries(rp, t, sent, obj("stored"))
    BY <1>3, <1>5, FieldsKnown, CarriesOpts DEF URIFields
  <2>6. RequestOK(rp, t, b)
    BY <1>2, <2>1, <2>3, <2>4, <2>5 DEF RequestOK
  <2> QED
    BY <2>6 DEF b
<1>7. CASE PassBy(rp, a) = "VALUE"
  <2>1. /\ carried \in Payloads /\ carried.request_uri = NONE
        /\ \A f \in URIFields \cup {"dcql_query"} : carried[f] = new.request[f]
    <3>1. carried = [sent EXCEPT !.request_uri = NONE]
      BY <1>7 DEF URIPayload
    <3> QED
      BY <1>5, <3>1, ValuesKnown, FieldsKnown DEF Payloads, URIFields
  <2> HIDE DEF carried
  <2>2. Seen(b) = obj("uri")
    BY <1>2, <1>7, <2>1 DEF Seen
  <2>3. Carries(rp, t, carried, obj("uri"))
    BY <1>3, <2>1, CarriesOpts
  <2>4. Carries(rp, t, sent, obj("stored"))
    BY <1>3, <1>5, FieldsKnown, CarriesOpts DEF URIFields
  <2>5. RequestOK(rp, t, b)
    BY <1>1, <1>2, <1>7, <2>2, <2>3, <2>4 DEF RequestOK
  <2> QED
    BY <2>5 DEF b
<1> QED
  BY <1>1, <1>6, <1>7

\* Where no object is to be sent, none is.
LEMMA BuiltUnsigned ==
  ASSUME rp.passBy = "NONE", NEW new, NEW a, NEW t, ~a.byReference
  PROVE  RequestOK(rp, t, Built(new, a, t))
<1>1. PassBy(rp, a) = "NONE"
  BY DEF PassBy
<1>2. Built(new, a, t).stored.object = NONE /\ Built(new, a, t).jwt = NONE
  BY <1>1 DEF Built
<1> QED
  BY <1>2 DEF RequestOK, Seen

-----------------------------------------------------------------------------
(* The invariant *)

\* What the wallet made of a request it accepted
WalletOK(c, t, w) ==
    /\ w.merged = Merged(w.unsigned, w.object) /\ w.uri = VerifiedURI(w.merged)
    /\ IF c.passBy = "NONE" THEN w.object = NONE
       ELSE /\ Carries(c, t, w.unsigned, w.object)
            /\ c.passBy # "VALUE" => \A f \in URIFields : w.unsigned[f] = NONE
            /\ w.object.client_id # NONE

ResponseOK(t) ==
    response[t] # NONE =>
        /\ WalletOK(rp, t, wallet[t])
        /\ \E holding \in Holdings \cup {{}} :
              /\ (holding # {}) = (wallet[t].merged.dcql_query # NONE)
              /\ response[t] = ResponseTo(wallet[t].merged, ResponseTarget(wallet[t]), holding)

\* A message is the response of its transaction, as that was asked for.
MessageOK(m) ==
    /\ m.of \in Transactions /\ response[m.of] # NONE /\ m.body = response[m.of]
    /\ m.encrypted = (SubmitMode(m.of) \in JarmModes)
    /\ m.encrypted => /\ SubmitMode(m.of) = "direct_post.jwt"
                      /\ m.apv = wallet[m.of].merged.nonce

OptsInv == rp.passBy # "NONE" => OptsOK(rp, opts) /\ OptsURIs(rp, opts)
RequestsInv == \A t \in Transactions : request[t] # NONE => RequestOK(rp, t, request[t])
WalletsInv == \A t \in Transactions : wallet[t] \notin {NONE, REJECTED} => WalletOK(rp, t, wallet[t])
ResponsesInv == \A t \in Transactions : ResponseOK(t)
MessagesInv == \A m \in posted : MessageOK(m)
Domains == /\ DOMAIN call = Transactions /\ DOMAIN request = Transactions
           /\ DOMAIN wallet = Transactions /\ DOMAIN response = Transactions
           /\ DOMAIN outcome = Transactions

PresentationsInv ==
    /\ rp \in RPs /\ Domains
    /\ OptsInv /\ RequestsInv /\ WalletsInv /\ ResponsesInv /\ MessagesInv

LEMMA PresentationsInit == Init => PresentationsInv
<1> SUFFICES ASSUME Init PROVE PresentationsInv
  OBVIOUS
<1>1. rp \in RPs /\ opts = BuiltOpts(rp) /\ posted = {}
  BY DEF Init
<1>2. \A t \in Transactions : request[t] = NONE /\ wallet[t] = NONE /\ response[t] = NONE
  BY DEF Init, Each
<1>3. Domains
  BY DEF Init, Each, Domains
<1>4. OptsInv
  BY <1>1, BuiltOptsOK DEF OptsInv
<1> QED
  BY <1>1, <1>2, <1>3, <1>4
     DEF PresentationsInv, RequestsInv, WalletsInv, ResponsesInv, ResponseOK, MessagesInv

LEMMA CreateRequestKeeps ==
  ASSUME PresentationsInv, NEW t \in Transactions, NEW a \in Calls[rp], CreateRequest(t, a)
  PROVE  PresentationsInv'
<1> DEFINE new == NewOpts(rp, opts, a, t)
           r   == ResponseURI(opts, a)
           b   == Built(new.opts, a, t)
<1>1. /\ opts' = new.opts /\ UNCHANGED <<rp, op, wallet, response, posted, outcome>>
      /\ \E x : call' = [call EXCEPT ![t] = x]
      /\ \/ new.ok /\ request' = [request EXCEPT ![t] = b]
         \/ request' = [request EXCEPT ![t] = NONE]
  BY DEF CreateRequest
<1>2. rp \in RPs /\ Domains
  BY DEF PresentationsInv
<1>3. WalletsInv' /\ ResponsesInv'
  BY <1>1 DEF PresentationsInv, WalletsInv, ResponsesInv, ResponseOK, ResponseTarget
<1>4. MessagesInv'
  BY <1>1 DEF PresentationsInv, MessagesInv, MessageOK, SubmitMode
<1>5. Domains'
  <2> HIDE DEF b
  <2> QED
    BY <1>1, <1>2 DEF Domains
<1>6. CASE rp.passBy # "NONE"
  <2>1. OptsOK(rp, opts) /\ OptsURIs(rp, opts)
    BY <1>6 DEF PresentationsInv, OptsInv
  <2>2. /\ OptsOK(rp, new.opts) /\ OptsURIs(rp, new.opts)
        /\ new.ok => /\ r.uri # NONE /\ new.opts.object[r.type] = r.uri
                     /\ PassBy(rp, a) # "unset"
        /\ new.ok /\ InObject(a.targets) => /\ new.opts.object.state = <<"state", t>>
                                            /\ new.opts.object.nonce = <<"nonce", t>>
    BY <1>2, <1>6, <2>1, NewOptsOK
  <2>3. r.type \in URIFields
    BY <1>2, <2>1, ResponseURIKnown
  <2> HIDE DEF new, r
  <2>4. new.ok => RequestOK(rp, t, b)
    BY <1>2, <1>6, <2>2, <2>3, BuiltOK
  <2> HIDE DEF b
  <2>5. RequestsInv'
    BY <1>1, <1>2, <2>4 DEF RequestsInv, PresentationsInv, Domains
  <2>6. OptsInv'
    BY <1>1, <2>2 DEF OptsInv
  <2> QED
    BY <1>1, <1>2, <1>3, <1>4, <1>5, <2>5, <2>6 DEF PresentationsInv
<1>7. CASE rp.passBy = "NONE"
  <2>1. new.ok => ~a.byReference
    BY <1>7 DEF NewOpts
  <2> HIDE DEF new, r
  <2>2. new.ok => RequestOK(rp, t, b)
    BY <1>7, <2>1, BuiltUnsigned
  <2> HIDE DEF b
  <2>3. RequestsInv'
    BY <1>1, <1>2, <2>2 DEF RequestsInv, PresentationsInv, Domains
  <2>4. OptsInv'
    BY <1>1, <1>7 DEF OptsInv
  <2> QED
    BY <1>1, <1>2, <1>3, <1>4, <1>5, <2>3, <2>4 DEF PresentationsInv
<1> QED
  BY <1>6, <1>7

LEMMA VerifyRequestKeeps ==
  ASSUME PresentationsInv, NEW t \in Transactions, VerifyRequest(t)
  PROVE  PresentationsInv'
<1> DEFINE unsigned == request[t].uri
           object == ObjectOf(t)
           w == [unsigned |-> unsigned, object |-> object, merged |-> Merged(unsigned, object),
                 uri |-> VerifiedURI(Merged(unsigned, object))]
<1>1. /\ request[t] # NONE /\ response[t] = NONE
      /\ UNCHANGED <<rp, op, opts, call, request, response, posted, outcome>>
      /\ \/ Verifies(unsigned, object, rp.method) /\ wallet' = [wallet EXCEPT ![t] = w]
         \/ wallet' = [wallet EXCEPT ![t] = REJECTED]
  BY DEF VerifyRequest
<1>2. RequestOK(rp, t, request[t]) /\ object = Seen(request[t])
  BY <1>1 DEF PresentationsInv, RequestsInv, ObjectOf, Seen
<1>3. Verifies(unsigned, object, rp.method) => WalletOK(rp, t, w)
  <2> SUFFICES ASSUME Verifies(unsigned, object, rp.method) PROVE WalletOK(rp, t, w)
    OBVIOUS
  <2>1. object # NONE => object.client_id # NONE
    BY DEF Verifies, HasVerifier
  <2>2. /\ w.unsigned = unsigned /\ w.object = object /\ w.merged = Merged(unsigned, object)
        /\ w.uri = VerifiedURI(w.merged)
    OBVIOUS
  <2> HIDE DEF w, unsigned, object
  <2>3. rp.passBy # "NONE" => /\ Carries(rp, t, unsigned, object)
                              /\ rp.passBy # "VALUE" => \A f \in URIFields : unsigned[f] = NONE
                              /\ object # NONE
    BY <1>2, ValuesAssumption DEF RequestOK, Carries, unsigned
  <2>4. rp.passBy = "NONE" => object = NONE
    BY <1>2 DEF RequestOK
  <2> QED
    BY <2>1, <2>2, <2>3, <2>4 DEF WalletOK
<1> HIDE DEF w, unsigned, object
<1>4. \A u \in Transactions : wallet'[u] = wallet[u] \/ u = t
  BY <1>1 DEF PresentationsInv, Domains
<1>5. WalletsInv'
  BY <1>1, <1>3 DEF PresentationsInv, Domains, WalletsInv
<1>6. ResponsesInv'
  BY <1>1, <1>4 DEF PresentationsInv, ResponsesInv, ResponseOK, ResponseTarget
<1>7. MessagesInv'
  BY <1>1, <1>4 DEF PresentationsInv, MessagesInv, MessageOK, SubmitMode
<1> QED
  BY <1>1, <1>5, <1>6, <1>7 DEF PresentationsInv, Domains, OptsInv, RequestsInv

LEMMA CreateResponseKeeps ==
  ASSUME PresentationsInv, NEW t \in Transactions, NEW holding \in Holdings \cup {{}},
         CreateResponse(t, holding)
  PROVE  PresentationsInv'
<1> DEFINE answer == ResponseTo(wallet[t].merged, ResponseTarget(wallet[t]), holding)
<1>1. /\ wallet[t] \notin {NONE, REJECTED} /\ response[t] = NONE
      /\ (holding # {}) = (wallet[t].merged.dcql_query # NONE)
      /\ response' = [response EXCEPT ![t] = answer]
      /\ UNCHANGED <<rp, op, opts, call, request, wallet, posted, outcome>>
  BY DEF CreateResponse, Verified
<1>2. WalletOK(rp, t, wallet[t])
  BY <1>1 DEF PresentationsInv, WalletsInv
<1> HIDE DEF answer
<1>3. /\ DOMAIN response' = Transactions /\ response'[t] = answer
      /\ \A u \in Transactions \ {t} : response'[u] = response[u]
  BY <1>1 DEF PresentationsInv, Domains
<1>4. ResponsesInv'
  <2> SUFFICES ASSUME NEW u \in Transactions PROVE ResponseOK(u)'
    BY DEF ResponsesInv
  <2>1. CASE u = t
    BY <1>1, <1>2, <1>3, <2>1 DEF ResponseOK, ResponseTarget, answer
  <2>2. CASE u # t
    BY <1>1, <1>3, <2>2 DEF PresentationsInv, ResponsesInv, ResponseOK, ResponseTarget
  <2> QED
    BY <2>1, <2>2
<1>5. MessagesInv'
  BY <1>1, <1>3 DEF PresentationsInv, MessagesInv, MessageOK, SubmitMode
<1> QED
  BY <1>1, <1>3, <1>4, <1>5 DEF PresentationsInv, Domains, OptsInv, RequestsInv, WalletsInv

LEMMA SubmitKeeps ==
  ASSUME PresentationsInv, NEW t \in Transactions, Submit(t)
  PROVE  PresentationsInv'
<1> DEFINE encrypted == SubmitMode(t) \in JarmModes
           m == [of |-> t, to |-> response[t].to, body |-> response[t], encrypted |-> encrypted,
                 apv |-> IF encrypted THEN wallet[t].merged.nonce ELSE NONE]
<1>1. /\ response[t] # NONE /\ (encrypted => SubmitMode(t) = "direct_post.jwt")
      /\ posted' = posted \cup {m}
      /\ UNCHANGED <<rp, op, opts, call, request, wallet, response, outcome>>
  BY DEF Submit
<1>2. /\ m.of = t /\ m.body = response[t] /\ m.encrypted = (SubmitMode(t) \in JarmModes)
      /\ m.encrypted => m.apv = wallet[t].merged.nonce
  OBVIOUS
<1>3. MessageOK(m)
  <2> HIDE DEF m
  <2> QED
    BY <1>1, <1>2 DEF MessageOK
<1> HIDE DEF m
<1>4. MessagesInv'
  BY <1>1, <1>3 DEF PresentationsInv, MessagesInv, MessageOK, SubmitMode
<1> QED
  BY <1>1, <1>4 DEF PresentationsInv, Domains, OptsInv, RequestsInv, WalletsInv, ResponsesInv,
                    ResponseOK, ResponseTarget

LEMMA ReceiveKeeps ==
  ASSUME PresentationsInv, UNCHANGED <<rp, op, opts, call, request, wallet, response, posted>>,
         DOMAIN outcome' = DOMAIN outcome
  PROVE  PresentationsInv'
BY DEF PresentationsInv, Domains, OptsInv, RequestsInv, WalletsInv, ResponsesInv, ResponseOK,
       ResponseTarget, MessagesInv, MessageOK, SubmitMode

LEMMA PresentationsStep == PresentationsInv /\ [Next]_vars => PresentationsInv'
<1> SUFFICES ASSUME PresentationsInv, [Next]_vars PROVE PresentationsInv'
  OBVIOUS
<1>1. ASSUME NEW t \in Transactions, NEW a \in Calls[rp], CreateRequest(t, a)
      PROVE  PresentationsInv'
  BY <1>1, CreateRequestKeeps
<1>2. ASSUME NEW t \in Transactions, VerifyRequest(t) \/ Submit(t)
      PROVE  PresentationsInv'
  BY <1>2, VerifyRequestKeeps, SubmitKeeps
<1>3. ASSUME NEW t \in Transactions, NEW holding \in Holdings \cup {{}}, CreateResponse(t, holding)
      PROVE  PresentationsInv'
  BY <1>3, CreateResponseKeeps
<1>4. ASSUME NEW m \in posted, ReceiveResponse(m)
      PROVE  PresentationsInv'
  BY <1>4, ReceiveKeeps DEF ReceiveResponse
<1>5. CASE UNCHANGED vars
  BY <1>5, ReceiveKeeps DEF vars
<1> QED
  BY <1>1, <1>2, <1>3, <1>4, <1>5 DEF Next

LEMMA PresentationsInvariant == Spec => []PresentationsInv
BY PresentationsInit, PresentationsStep, PTL DEF Spec

-----------------------------------------------------------------------------
(* What the wallet reads from a request and its object *)

LEMMA SignedRead ==
  ASSUME NEW c, NEW t, NEW w, WalletOK(c, t, w), c.passBy # "NONE"
  PROVE  /\ w.object # NONE
         /\ \A f \in Fields : w.merged[f] = IF w.object[f] # NONE THEN w.object[f] ELSE w.unsigned[f]
         /\ w.merged.state = w.object.state /\ w.merged.nonce = w.object.nonce
         /\ w.merged.client_id = w.object.client_id
<1>1. Carries(c, t, w.unsigned, w.object) /\ w.object.client_id # NONE
      /\ w.merged = Merged(w.unsigned, w.object)
  BY DEF WalletOK
<1>2. w.object # NONE
  BY <1>1, ValuesAssumption DEF Carries
<1>3. w.merged = Merge(w.unsigned, w.object)
  BY <1>1, <1>2 DEF Merged
<1>4. \A f \in Fields : w.merged[f] = IF w.object[f] # NONE THEN w.object[f] ELSE w.unsigned[f]
  BY <1>1, <1>3, MergeFields DEF Carries
<1> QED
  BY <1>1, <1>2, <1>4, FieldsKnown DEF Carries

\* Where the unsigned part names no other place, the answer goes where the
\* object says.
LEMMA TargetSigned ==
  ASSUME NEW c, NEW t, NEW w, WalletOK(c, t, w), c.passBy # "NONE",
         c.passBy = "VALUE" => \E kind \in URIFields, uri \in Uris : OneURI(c, kind, uri)
  PROVE  ResponseTarget(w) \in {w.object.response_uri, w.object.redirect_uri}
<1> DEFINE p == w.merged
           u == w.unsigned
           q == w.object
<1>1. /\ Carries(c, t, u, q) /\ w.uri = VerifiedURI(p)
      /\ c.passBy # "VALUE" => \A f \in URIFields : u[f] = NONE
  BY DEF WalletOK
<1>2. /\ p.redirect_uri = IF q.redirect_uri # NONE THEN q.redirect_uri ELSE u.redirect_uri
      /\ p.response_uri = IF q.response_uri # NONE THEN q.response_uri ELSE u.response_uri
  BY SignedRead, FieldsKnown
<1>3. q.redirect_uri # NONE \/ q.response_uri # NONE
  BY <1>1 DEF Carries, URIFields
<1>4. ResponseTarget(w) = VerifiedURI(p) \/ (u.response_uri # NONE /\ ResponseTarget(w) = u.response_uri)
  BY <1>1 DEF ResponseTarget, OrElse
<1>5. VerifiedURI(p) = IF p.redirect_uri # NONE THEN p.redirect_uri
                       ELSE IF p.response_uri # NONE THEN p.response_uri ELSE p.client_id
  BY DEF VerifiedURI
<1>6. CASE c.passBy # "VALUE"
  <2>1. u.redirect_uri = NONE /\ u.response_uri = NONE
    BY <1>1, <1>6 DEF URIFields
  <2> HIDE DEF p, q, u
  <2>2. ResponseTarget(w) \in {q.response_uri, q.redirect_uri}
    BY <1>2, <1>3, <1>4, <1>5, <2>1
  <2> QED
    BY <2>2 DEF q
<1>7. CASE c.passBy = "VALUE"
  <2>1. PICK kind \in URIFields, uri \in Uris : OneURI(c, kind, uri)
    BY <1>7
  <2>2. OneKindOfURI(c, kind)
    BY <2>1 DEF OneURI
  <2>3. /\ u[kind] \in {NONE, uri} /\ q[kind] \in {NONE, uri}
        /\ \A f \in URIFields \ {kind} : u[f] = NONE /\ q[f] = NONE
    BY <1>1, <2>1, <2>2 DEF Carries
  <2> HIDE DEF p, q, u
  <2>4. CASE kind = "redirect_uri"
    <3>1. u.response_uri = NONE /\ q.response_uri = NONE /\ q.redirect_uri = uri
      BY <1>3, <2>3, <2>4 DEF URIFields
    <3>2. ResponseTarget(w) = q.redirect_uri
      BY <1>2, <1>3, <1>4, <1>5, <3>1
    <3> QED
      BY <3>2 DEF q
  <2>5. CASE kind = "response_uri"
    <3>1. u.redirect_uri = NONE /\ q.redirect_uri = NONE /\ q.response_uri = uri
          /\ u.response_uri \in {NONE, uri}
      BY <1>3, <2>3, <2>5 DEF URIFields
    <3>2. ResponseTarget(w) = q.response_uri
      BY <1>2, <1>3, <1>4, <1>5, <3>1
    <3> QED
      BY <3>2 DEF q
  <2> QED
    BY <2>4, <2>5 DEF URIFields
<1> QED
  BY <1>6, <1>7

-----------------------------------------------------------------------------
(* Theorems *)

\* A signed state, nonce, client id and place for the response are what the
\* answer has, whatever the unsigned part of the request says of them; where
\* the unsigned part is sent along, calls keep to one URI, for OP.ts:137 prefers
\* an unsigned response_uri (mergeOAuth2AndOpenIdInRequestPayload).
THEOREM SignedPrevail ==
  ASSUME \A c \in RPs : c.passBy = "VALUE" => \E kind \in URIFields, uri \in Uris : OneURI(c, kind, uri)
  PROVE  Spec => []SignedValuesPrevail
<1>1. PresentationsInv => SignedValuesPrevail
  <2> SUFFICES ASSUME PresentationsInv, NEW t \in Transactions,
                      response[t] # NONE, wallet[t].object # NONE
               PROVE  LET object == wallet[t].object
                          answer == response[t]
                      IN  /\ answer.state = object.state
                          /\ answer.to \in {object.response_uri, object.redirect_uri}
                          /\ answer.idToken # NONE => /\ answer.idToken.aud = object.client_id
                                                      /\ answer.idToken.nonce = object.nonce
                          /\ answer.vpToken # NONE => answer.vpToken.nonce \in {object.nonce, NONE}
    BY DEF SignedValuesPrevail
  <2>1. WalletOK(rp, t, wallet[t]) /\ rp \in RPs
    BY DEF PresentationsInv, ResponsesInv, ResponseOK
  <2>2. PICK holding \in Holdings \cup {{}} :
           response[t] = ResponseTo(wallet[t].merged, ResponseTarget(wallet[t]), holding)
    BY DEF PresentationsInv, ResponsesInv, ResponseOK
  <2>3. rp.passBy # "NONE"
    BY <2>1 DEF WalletOK
  <2>4. /\ wallet[t].merged.state = wallet[t].object.state
        /\ wallet[t].merged.nonce = wallet[t].object.nonce
        /\ wallet[t].merged.client_id = wallet[t].object.client_id
    BY <2>1, <2>3, SignedRead
  <2>5. ResponseTarget(wallet[t]) \in {wallet[t].object.response_uri, wallet[t].object.redirect_uri}
    BY <2>1, <2>3, TargetSigned
  <2> QED
    BY <2>2, <2>4, <2>5 DEF ResponseTo
<1> QED
  BY <1>1, PresentationsInvariant, PTL

\* The RP's response mode, not the wallet's, decides on encryption, where the
\* RP's requests have an object with its options (submitAuthorizationResponse).
THEOREM EncryptionAsAsked ==
  ASSUME \A c \in RPs : SendsObjects(c)
  PROVE  Spec => []EncryptedAsAsked
<1>1. PresentationsInv => EncryptedAsAsked
  <2> SUFFICES ASSUME PresentationsInv, NEW m \in posted
               PROVE  m.encrypted = (rp.mode = "direct_post.jwt")
    BY DEF EncryptedAsAsked
  <2> DEFINE t == m.of
             w == wallet[t]
  <2>1. /\ t \in Transactions /\ response[t] # NONE
        /\ m.encrypted = (SubmitMode(t) \in JarmModes)
        /\ m.encrypted => SubmitMode(t) = "direct_post.jwt"
    BY DEF PresentationsInv, MessagesInv, MessageOK
  <2>2. WalletOK(rp, t, w) /\ rp \in RPs
    BY <2>1 DEF PresentationsInv, ResponsesInv, ResponseOK
  <2>3. rp.passBy # "NONE" /\ InObject(rp.targets)
    BY <2>2 DEF SendsObjects
  <2>4. w.object # NONE
    BY <2>2, <2>3, SignedRead
  <2>5. BuiltOpts(rp).object = Configured(rp)
    BY <2>3 DEF BuiltOpts
  <2>6. Configured(rp).response_mode = rp.mode
    BY DEF Configured, NoPayload, Fields
  <2>7. w.object.response_mode = OrElse(rp.mode, "direct_post")
    BY <2>2, <2>3, <2>5, <2>6 DEF WalletOK, Carries
  <2>8. OrElse(rp.mode, "direct_post") # NONE
    BY ValuesKnown, ValuesAssumption DEF OrElse
  <2>9. SubmitMode(t) = OrElse(rp.mode, "direct_post")
    BY <2>4, <2>7, <2>8 DEF SubmitMode
  <2>10. (OrElse(rp.mode, "direct_post") = "direct_post.jwt") <=> rp.mode = "direct_post.jwt"
    BY ValuesAssumption DEF OrElse, ResponseModes
  <2>11. m.encrypted <=> SubmitMode(t) = "direct_post.jwt"
    BY <2>1 DEF JarmModes
  <2>12. m.encrypted \in BOOLEAN
    BY <2>1
  <2> QED
    BY <2>9, <2>10, <2>11, <2>12
<1> QED
  BY <1>1, PresentationsInvariant, PTL

-----------------------------------------------------------------------------
(* Both sides agree, where the configuration fits *)

AcceptInv ==
    \A t \in Transactions :
        /\ request[t] # NONE => call[t] # NONE
        /\ wallet[t] # NONE => request[t] # NONE
        /\ response[t] # NONE => wallet[t] # NONE
        /\ wallet[t] # REJECTED /\ outcome[t] \in {"none", "verified", "refused"}

LEMMA ClientKnown ==
  ASSUME NEW c \in RPs, ClientFits(c)
  PROVE  /\ ClientOf(c) \in ClientIds /\ ClientOf(c) # NONE /\ ClientOf(c).prefix # "redirect_uri"
         /\ OrElse(c.client, c.metaClient) = ClientOf(c)
<1>1. ClientOf(c) \in ClientIds
  BY ConfigFacts DEF ClientOf, OrElse, ClientIds, Prefixes
<1>2. ClientOf(c) # NONE
  BY <1>1, ValuesAssumption
<1>3. ClientOf(c).prefix # "redirect_uri"
  BY ValuesAssumption DEF ClientFits
<1>4. OrElse(c.client, c.metaClient) = ClientOf(c)
  BY DEF ClientFits, ClientOf, OrElse
<1> QED
  BY <1>1, <1>2, <1>3, <1>4

LEMMA CarriesFitting ==
  ASSUME NEW c \in RPs, Fits(c), NEW t, NEW u, NEW q, Carries(c, t, u, q)
  PROVE  /\ q.state = <<"state", t>> /\ q.nonce = <<"nonce", t>>
         /\ q.client_id = ClientOf(c) /\ q.entity_id = c.entity
         /\ q.dcql_query = c.query /\ u.dcql_query \in {NONE, c.query}
         /\ q.response_mode = OrElse(c.mode, "direct_post")
         /\ \E kind \in URIFields : /\ q[kind] \in Uris /\ u[kind] \in Uris \cup {NONE}
                                    /\ \A f \in URIFields \ {kind} : u[f] = NONE /\ q[f] = NONE
<1> DEFINE b == BuiltOpts(c)
<1>1. InObject(c.targets) /\ b.object = Configured(c) /\ b.request \in {Configured(c), NoPayload}
  BY DEF Fits, SendsObjects, BuiltOpts
<1>2. /\ Configured(c).client_id = c.client /\ Configured(c).entity_id = c.entity
      /\ Configured(c).dcql_query = c.query /\ Configured(c).response_mode = c.mode
      /\ NoPayload.dcql_query = NONE
  BY DEF Configured, NoPayload, Fields
<1>3. /\ q.state = <<"state", t>> /\ q.nonce = <<"nonce", t>> /\ q.entity_id = c.entity
      /\ q.dcql_query = c.query /\ u.dcql_query \in {NONE, c.query}
      /\ q.response_mode = OrElse(c.mode, "direct_post")
      /\ q.client_id = IF c.method = "did" /\ c.client = NONE THEN DidClientId(c, q) ELSE c.client
  BY <1>1, <1>2 DEF Carries, Fits
<1>4. q.client_id = ClientOf(c)
  <2>1. CASE c.client = NONE
    <3>1. c.method = "did" /\ c.scheme # "redirect_uri"
      BY <2>1 DEF Fits, ClientFits
    <3> QED
      BY <1>3, <2>1, <3>1 DEF DidClientId, ClientOf, OrElse
  <2>2. CASE c.client # NONE
    BY <1>3, <2>2 DEF ClientOf, OrElse
  <2> QED
    BY <2>1, <2>2
<1>5. PICK kind \in URIFields : OneKindOfURI(c, kind)
  BY DEF Fits, URIFields
<1>6. \A f \in URIFields \ {kind} : u[f] = NONE /\ q[f] = NONE
  BY <1>5 DEF Carries
<1>7. q[kind] \in Uris /\ u[kind] \in Uris \cup {NONE}
  BY <1>6 DEF Carries
<1> QED
  BY <1>3, <1>4, <1>6, <1>7

\* The wallet accepts the object, whatever is sent along with it.
LEMMA Acceptable ==
  ASSUME NEW c \in RPs, Fits(c), NEW t, NEW u, NEW q, Carries(c, t, u, q)
  PROVE  /\ Verifies(u, q, c.method)
         /\ Merged(u, q) \in Payloads /\ VerifiedURI(Merged(u, q)) \in Values
         /\ Merged(u, q).state = <<"state", t>> /\ Merged(u, q).nonce = <<"nonce", t>>
         /\ Merged(u, q).client_id = ClientOf(c) /\ Merged(u, q).dcql_query = c.query
<1> DEFINE p == Merged(u, q)
<1>1. /\ q.state = <<"state", t>> /\ q.nonce = <<"nonce", t>>
      /\ q.client_id = ClientOf(c) /\ q.entity_id = c.entity
      /\ q.dcql_query = c.query /\ u.dcql_query \in {NONE, c.query}
  BY CarriesFitting
<1>2. u \in Payloads /\ q \in Payloads /\ q.state # NONE /\ q.nonce # NONE /\ q # NONE
  BY ValuesAssumption DEF Carries
<1>3. p \in Payloads /\ \A f \in Fields : p[f] = IF q[f] # NONE THEN q[f] ELSE u[f]
  BY <1>2, MergeFields DEF Merged
<1> HIDE DEF p
<1>4. ClientFits(c) /\ ClientOf(c) \in ClientIds /\ ClientOf(c) # NONE
      /\ ClientOf(c).prefix # "redirect_uri"
  BY ClientKnown DEF Fits
<1>5. /\ p.state = <<"state", t>> /\ p.nonce = <<"nonce", t>> /\ p.client_id = ClientOf(c)
      /\ p.dcql_query = c.query
  BY <1>1, <1>2, <1>3, <1>4, FieldsKnown
<1>6. PICK kind \in URIFields : /\ q[kind] \in Uris
                                /\ \A f \in URIFields \ {kind} : u[f] = NONE /\ q[f] = NONE
  BY CarriesFitting
<1>7. p[kind] \in Uris /\ p[kind] # NONE /\ \A f \in URIFields \ {kind} : p[f] = NONE
  <2>1. URIFields \subseteq Fields
    BY FieldsKnown DEF Written
  <2>2. q[kind] # NONE
    BY <1>6, ValuesAssumption
  <2> QED
    BY <1>3, <1>6, <2>1, <2>2
<1>8. VerifiedURI(p) \in Uris /\ (p.redirect_uri = NONE \/ p.response_uri = NONE)
  BY <1>7 DEF VerifiedURI, URIFields
<1>9. VerifiedURI(p) # p.client_id /\ VerifiedURI(p) \in Values
  BY <1>4, <1>5, <1>8, ValuesAssumption, ValuesKnown
<1>10. HasVerifier(q, c.method)
  BY <1>1, <1>4 DEF HasVerifier, ClientFits
<1>11. Verifies(u, q, c.method)
  BY <1>4, <1>5, <1>8, <1>9, <1>10 DEF Verifies, p
<1> QED
  BY <1>3, <1>5, <1>9, <1>11 DEF p

\* The state of a stored request is its own.
LEMMA StoredKnown ==
  ASSUME PresentationsInv, Fits(rp), NEW t \in Transactions, request[t] # NONE
  PROVE  Stored(t).state = <<"state", t>> /\ Stored(t).nonce = <<"nonce", t>>
<1>1. rp \in RPs /\ rp.passBy # "NONE" /\ RequestOK(rp, t, request[t])
  BY DEF PresentationsInv, RequestsInv, Fits, SendsObjects
<1>2. Carries(rp, t, request[t].stored.unsigned, request[t].stored.object)
  BY <1>1 DEF RequestOK
<1> QED
  BY <1>1, <1>2, Acceptable DEF Stored

LEMMA AnswerKnown ==
  ASSUME PresentationsInv, Fits(rp), NEW t \in Transactions, response[t] # NONE
  PROVE  LET body == response[t]
             p == wallet[t].merged
         IN  /\ body.state = <<"state", t>> /\ p.nonce = <<"nonce", t>>
             /\ body.idToken # NONE => /\ body.idToken.state = <<"state", t>>
                                       /\ body.idToken.nonce = <<"nonce", t>>
                                       /\ body.idToken.aud = ClientOf(rp)
             /\ (body.vpToken # NONE) <=> (rp.query # NONE)
             /\ body.vpToken # NONE => body.vpToken.nonce \in {NONE, <<"nonce", t>>}
             /\ SubmitMode(t) = OrElse(rp.mode, "direct_post")
<1> DEFINE p == wallet[t].merged
           body == response[t]
<1>1. rp \in RPs /\ rp.passBy # "NONE" /\ WalletOK(rp, t, wallet[t])
  BY DEF PresentationsInv, ResponsesInv, ResponseOK, Fits, SendsObjects
<1>2. Carries(rp, t, wallet[t].unsigned, wallet[t].object)
      /\ p = Merged(wallet[t].unsigned, wallet[t].object)
  BY <1>1 DEF WalletOK
<1>3. /\ p.state = <<"state", t>> /\ p.nonce = <<"nonce", t>>
      /\ p.client_id = ClientOf(rp) /\ p.dcql_query = rp.query
  BY <1>1, <1>2, Acceptable
<1>4. PICK holding \in Holdings \cup {{}} :
         /\ (holding # {}) = (p.dcql_query # NONE)
         /\ body = ResponseTo(p, ResponseTarget(wallet[t]), holding)
  BY DEF PresentationsInv, ResponsesInv, ResponseOK
<1> HIDE DEF p
<1>5. /\ body.state = p.state
      /\ body.idToken # NONE => body.idToken = [aud |-> p.client_id, nonce |-> p.nonce, state |-> p.state]
      /\ body.vpToken = IF holding = {} THEN NONE
                        ELSE [formats |-> holding, nonce |-> IF "jwt" \in holding THEN p.nonce ELSE NONE]
  BY <1>4 DEF ResponseTo
<1> HIDE DEF body
<1>6. holding # {} => body.vpToken # NONE
  <2> SUFFICES ASSUME holding # {} PROVE body.vpToken # NONE
    OBVIOUS
  <2>1. holding \in SUBSET {"jwt", "mdoc"}
    BY ConfigurationsAssumption
  <2>2. (IF "jwt" \in holding THEN p.nonce ELSE NONE) \in Values
    BY <1>3, MadeKnown, ValuesKnown
  <2>3. body.vpToken \in [formats : SUBSET {"jwt", "mdoc"}, nonce : Values]
    BY <1>5, <2>1, <2>2
  <2> QED
    BY <2>3, ValuesAssumption
<1>7. (body.vpToken # NONE) <=> (rp.query # NONE)
  BY <1>3, <1>4, <1>5, <1>6
<1>8. body.vpToken # NONE => body.vpToken.nonce \in {NONE, <<"nonce", t>>}
  BY <1>3, <1>5
<1>9. SubmitMode(t) = OrElse(rp.mode, "direct_post")
  <2>1. wallet[t].object # NONE
    BY <1>1, SignedRead
  <2>2. wallet[t].object.response_mode = OrElse(rp.mode, "direct_post")
    BY <1>1, <1>2, CarriesFitting
  <2>3. OrElse(rp.mode, "direct_post") # NONE
    BY ValuesKnown, ValuesAssumption DEF OrElse
  <2> QED
    BY <2>1, <2>2, <2>3 DEF SubmitMode
<1> QED
  BY <1>3, <1>5, <1>7, <1>8, <1>9 DEF body, p

\* A message leads to its own transaction, which accepts it.
LEMMA MessageAccepted ==
  ASSUME PresentationsInv, AcceptInv, Fits(rp), NEW m \in posted
  PROVE  /\ m.of \in Transactions /\ Correlated(m) = {m.of}
         /\ JarmValid(m, m.of) /\ ResponseValid(m.body, m.of)
<1> DEFINE t == m.of
           body == m.body
<1>1. MessageOK(m) /\ t \in Transactions /\ response[t] # NONE /\ body = response[t]
  BY DEF PresentationsInv, MessagesInv, MessageOK
<1>2. request[t] # NONE
  BY <1>1 DEF AcceptInv
<1>3. /\ body.state = <<"state", t>>
      /\ body.idToken # NONE => /\ body.idToken.state = <<"state", t>>
                                /\ body.idToken.nonce = <<"nonce", t>>
                                /\ body.idToken.aud = ClientOf(rp)
      /\ (body.vpToken # NONE) <=> (rp.query # NONE)
      /\ body.vpToken # NONE => body.vpToken.nonce \in {NONE, <<"nonce", t>>}
      /\ SubmitMode(t) = OrElse(rp.mode, "direct_post") /\ wallet[t].merged.nonce = <<"nonce", t>>
  BY <1>1, AnswerKnown
<1>4. Stored(t).state = <<"state", t>> /\ Stored(t).nonce = <<"nonce", t>>
  BY <1>1, <1>2, StoredKnown
<1>5. Correlated(m) = {t}
  <2>1. \A u \in Transactions : request[u] # NONE => Stored(u).state = <<"state", u>>
    BY StoredKnown
  <2>2. \A u : <<"state", u>> = <<"state", t>> => u = t
    OBVIOUS
  <2> HIDE DEF t
  <2>3. m.body.state = <<"state", t>>
    BY <1>3
  <2> QED
    BY <1>1, <1>2, <2>1, <2>2, <2>3 DEF Correlated
<1>6. JarmValid(m, t)
  <2> SUFFICES ASSUME m.encrypted
               PROVE  m.body.vpToken # NONE /\ m.apv = Stored(t).nonce
    BY DEF JarmValid
  <2>1. SubmitMode(t) = "direct_post.jwt" /\ m.apv = wallet[t].merged.nonce
    BY <1>1 DEF MessageOK
  <2>2. rp.mode = "direct_post.jwt"
    BY <1>3, <2>1 DEF OrElse
  <2>3. rp.query # NONE
    BY <2>2 DEF Fits
  <2> QED
    BY <1>3, <1>4, <2>1, <2>3
<1>7. IDTokenValid(body.idToken)
  <2> SUFFICES ASSUME body.idToken # NONE
               PROVE  body.idToken.nonce # NONE /\ body.idToken.aud = Audience
    BY DEF IDTokenValid
  <2>1. rp \in RPs /\ ClientFits(rp)
    BY DEF PresentationsInv, Fits
  <2>2. OrElse(rp.client, rp.metaClient) = ClientOf(rp) /\ ClientOf(rp) # NONE
    BY <2>1, ClientKnown
  <2>3. Audience = ClientOf(rp)
    BY <2>2 DEF Audience, OrElse
  <2>4. <<"nonce", t>> # NONE
    BY <1>1, MadeKnown
  <2> QED
    BY <1>3, <2>3, <2>4
<1>8. Nonces(body) \subseteq {Stored(t).nonce}
  BY <1>3, <1>4 DEF Nonces
<1>9. <<"state", t>> # NONE
  BY <1>1, MadeKnown
<1>10. (body.vpToken # NONE) = (rp.query # NONE)
  BY <1>3
<1>11. ResponseValid(body, t)
  BY <1>3, <1>4, <1>7, <1>8, <1>9, <1>10 DEF ResponseValid
<1> QED
  BY <1>1, <1>5, <1>6, <1>11

LEMMA AcceptStep ==
  ASSUME \A c \in RPs : Fits(c)
  PROVE  PresentationsInv /\ AcceptInv /\ [Next]_vars => AcceptInv'
<1> SUFFICES ASSUME PresentationsInv, AcceptInv, [Next]_vars PROVE AcceptInv'
  OBVIOUS
<1>0. rp \in RPs /\ Fits(rp) /\ Domains
  BY DEF PresentationsInv
<1>1. ASSUME NEW t \in Transactions, NEW a \in Calls[rp], CreateRequest(t, a)
      PROVE  AcceptInv'
  <2>1. a # NONE
    BY <1>0, CallFacts
  <2>2. /\ call' = [call EXCEPT ![t] = a] /\ call[t] = NONE
        /\ \E x : request' = [request EXCEPT ![t] = x]
        /\ UNCHANGED <<wallet, response, outcome>>
    BY <1>1 DEF CreateRequest
  <2>3. wallet[t] = NONE
    BY <2>2 DEF AcceptInv
  <2>4. \A u \in Transactions : /\ call'[u] = (IF u = t THEN a ELSE call[u])
                                /\ u # t => request'[u] = request[u]
    BY <1>0, <2>2 DEF Domains
  <2>5. wallet' = wallet /\ response' = response /\ outcome' = outcome
    BY <2>2
  <2>6. ASSUME NEW u \in Transactions
        PROVE  /\ request'[u] # NONE => call'[u] # NONE
               /\ wallet'[u] # NONE => request'[u] # NONE
    BY <2>1, <2>3, <2>4, <2>5, <2>6 DEF AcceptInv
  <2> QED
    BY <2>5, <2>6 DEF AcceptInv
<1>2. ASSUME NEW t \in Transactions, VerifyRequest(t)
      PROVE  AcceptInv'
  <2> DEFINE unsigned == request[t].uri
             object == ObjectOf(t)
             w == [unsigned |-> unsigned, object |-> object, merged |-> Merged(unsigned, object),
                   uri |-> VerifiedURI(Merged(unsigned, object))]
  <2>1. /\ request[t] # NONE
        /\ wallet' = [wallet EXCEPT ![t] = IF Verifies(unsigned, object, rp.method) THEN w ELSE REJECTED]
        /\ UNCHANGED <<call, request, response, outcome>>
    BY <1>2 DEF VerifyRequest
  <2>2. Carries(rp, t, unsigned, object)
    <3>1. RequestOK(rp, t, request[t]) /\ object = Seen(request[t])
      BY <2>1 DEF PresentationsInv, RequestsInv, ObjectOf, Seen
    <3> QED
      BY <1>0, <3>1 DEF RequestOK, Fits, SendsObjects
  <2>3. /\ Verifies(unsigned, object, rp.method) /\ unsigned \in Payloads /\ object \in Payloads
        /\ Merged(unsigned, object) \in Payloads /\ VerifiedURI(Merged(unsigned, object)) \in Values
    BY <1>0, <2>2, Acceptable DEF Carries
  <2>4. w # REJECTED
    <3>1. w \in [unsigned : Payloads, object : Payloads \cup {NONE}, merged : Payloads, uri : Values]
      BY <2>3
    <3> QED
      BY <3>1, ValuesAssumption
  <2>5. wallet' = [wallet EXCEPT ![t] = w]
    BY <2>1, <2>3
  <2> HIDE DEF w, unsigned, object
  <2>6. \A u \in Transactions : wallet'[u] = IF u = t THEN w ELSE wallet[u]
    BY <1>0, <2>5 DEF Domains
  <2>7. response[t] = NONE
    BY <1>2 DEF VerifyRequest
  <2> QED
    BY <2>1, <2>4, <2>6, <2>7 DEF AcceptInv
<1>3. ASSUME NEW t \in Transactions, NEW holding, CreateResponse(t, holding)
      PROVE  AcceptInv'
  <2>1. /\ wallet[t] # NONE /\ \E x : response' = [response EXCEPT ![t] = x]
        /\ UNCHANGED <<call, request, wallet, outcome>>
    BY <1>3 DEF CreateResponse, Verified
  <2>2. \A u \in Transactions : u # t => response'[u] = response[u]
    BY <1>0, <2>1 DEF Domains
  <2> QED
    BY <2>1, <2>2 DEF AcceptInv
<1>4. ASSUME NEW t \in Transactions, Submit(t)
      PROVE  AcceptInv'
  BY <1>4 DEF Submit, AcceptInv
<1>5. ASSUME NEW m \in posted, ReceiveResponse(m)
      PROVE  AcceptInv'
  <2>1. /\ m.of \in Transactions /\ Correlated(m) = {m.of}
        /\ JarmValid(m, m.of) /\ ResponseValid(m.body, m.of)
    BY <1>0, MessageAccepted
  <2>2. \E result \in {"verified", "refused"} : outcome' = [outcome EXCEPT ![m.of] = result]
    BY <1>5, <2>1 DEF ReceiveResponse
  <2>3. UNCHANGED <<call, request, wallet, response>>
    BY <1>5 DEF ReceiveResponse
  <2>4. \A u \in Transactions : outcome'[u] = outcome[u] \/ outcome'[u] \in {"verified", "refused"}
    BY <1>0, <2>2 DEF Domains
  <2> QED
    BY <2>3, <2>4 DEF AcceptInv
<1>6. CASE UNCHANGED vars
  BY <1>6 DEF vars, AcceptInv
<1> QED
  BY <1>1, <1>2, <1>3, <1>4, <1>5, <1>6 DEF Next

\* What the RP asks, the OP accepts, and what the OP answers, the RP accepts:
\* for any number of transactions, any wallet and any configuration that fits,
\* with messages in any order and repeated (RP.newAuthorizationRequestOpts,
\* AuthorizationRequest.verify, AuthorizationResponse.verify,
\* processJarmAuthorizationResponse).
THEOREM OwnMessagesAgree ==
  ASSUME \A c \in RPs : Fits(c)
  PROVE  Spec => []OwnMessagesAccepted
<1>1. Init => AcceptInv
  BY ValuesAssumption DEF Init, Each, AcceptInv
<1>2. PresentationsInv /\ AcceptInv /\ [Next]_vars => AcceptInv'
  BY AcceptStep
<1>3. AcceptInv => OwnMessagesAccepted
  BY ValuesAssumption DEF AcceptInv, OwnMessagesAccepted
<1> QED
  BY <1>1, <1>2, <1>3, PresentationsInvariant, PTL DEF Spec

===============================================================================
