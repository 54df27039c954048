---------------------------- MODULE IssuerBuilders ----------------------------
(***************************************************************************)
(* The builders an application sets an issuer up with: the builder of a    *)
(* credential configuration, that of the issuer metadata (both in versions *)
(* 15 and 1.0), that of the authorization server metadata, and the         *)
(* VcIssuerBuilder that puts them together.                                *)
(*                                                                         *)
(* Builders hand out what they hold: a built document may share objects    *)
(* with its builder or with the caller, so a later call on a builder, or   *)
(* an edit of an object the caller kept, may change what was built.  Only  *)
(* what can be shared or refused is kept; a setter that stores a string is *)
(* the name of its property in a set.                                      *)
(***************************************************************************)
EXTENDS Naturals, FiniteSets

CONSTANTS
    Names,      \* credential names (configuration ids)
    MaxCalls,   \* bound on the calls after the configuration Init starts from
    NONE        \* undefined

Formats == {"dc+sd-jwt", "mso_mdoc", "jwt_vc_json"}
FormatKeys == {"vct", "doctype", "credential_definition"}

\* The arrays somebody may write into while others hold them: the binding methods
\* and the authorization servers a caller supplied, and the array of servers the
\* metadata builder started itself.  Another list is a value, "empty" or "some".
ListObjs == {"methods", "servers", "own"}
Lists == {NONE, "empty", "some"} \cup ListObjs

Versions == {"V1_15", "V1_0"}
MetaFields == {"credential_issuer", "credential_endpoint", "nonce_endpoint"}
AsFields == {"issuer", "response_types_supported", "token_endpoint"}

\* The algorithms of a proof type, "absent" when the object does not name it.
Proofs == {"absent", "empty", "some"}

\* Undefined is no name, no list and no configuration.
ASSUME BuilderConstants ==
    /\ MaxCalls \in Nat
    /\ NONE \notin Names \cup {"empty", "some"} \cup ListObjs
    /\ NONE \notin [by : {"caller", "builder"}, format : Formats, keys : SUBSET FormatKeys,
                    binding : {"empty", "some"}, proofs : Proofs]

VARIABLES
    version,   \* of the credential and issuer metadata builders
    cred,      \* CredentialSupportedBuilder: [name, format, keys, binding, proofs]; a
               \* proof type is a value, or names the object of proofObjs it came in
    proofObjs, \* the proof type objects: the builder's own and one of the caller's
    lists,     \* what each of ListObjs has: "empty" or "some"
    meta,      \* IssuerMetadataBuilder: its fields and configs, shared with doc
    doc,       \* the issuer metadata it built last, NONE before
    asMeta,    \* AuthorizationServerMetadataBuilder; shared with what it built
    vc,        \* VcIssuerBuilder; its configs are NONE when they are not set
    issuer,    \* the VcIssuer built, NONE before; shared: are its configurations
               \* still the VcIssuerBuilder's object?
    calls

vars == <<version, cred, proofObjs, lists, meta, doc, asMeta, vc, issuer, calls>>

NoConfigs == [n \in Names |-> NONE]
Configured(c) == {n \in Names : c[n] # NONE}

\* What a caller supplies as a configuration, with the given proof algorithms.
CallerEntry(p) == [by |-> "caller", format |-> "jwt_vc_json",
                   keys |-> {"credential_definition"}, binding |-> "some", proofs |-> p]

\* What the proof types of an entry say now.
ProofOf(e) == IF e.proofs \in {"own", "caller"} THEN proofObjs[e.proofs] ELSE e.proofs

\* What a list has now.
ListOf(l) == IF l \in ListObjs THEN lists[l] ELSE l

\* Fresh builders, or ones on which the obvious setters have been called.
Init ==
    /\ version \in Versions
    /\ \E n \in Names, f \in Formats \cup {NONE}, k \in FormatKeys :
           cred = [name |-> n, format |-> f, keys |-> {k}, binding |-> NONE, proofs |-> NONE]
    /\ proofObjs = [o \in {"own", "caller"} |-> "absent"]
    /\ \E l \in {"empty", "some"} :
           lists = [methods |-> l, servers |-> l, own |-> "empty"]
    /\ \E f \in {{}, MetaFields} :
           /\ meta = [fields |-> f, servers |-> NONE, configs |-> NoConfigs,
                      supported |-> f # {}]
           /\ asMeta = IF f = {} THEN {} ELSE AsFields
    /\ doc = NONE
    /\ \E f \in {{}, {"credential_issuer", "credential_endpoint"}} :
           vc = [fields |-> f, servers |-> NONE, as |-> IF f = {} THEN NONE ELSE "other",
                 configs |-> IF f = {} THEN NONE
                             ELSE [NoConfigs EXCEPT ![CHOOSE n \in Names : TRUE] = CallerEntry("some")],
                 states |-> IF f = {} THEN {} ELSE {"offers", "nonces"},
                 client |-> FALSE, verify |-> NONE, builder |-> FALSE]
    /\ issuer = NONE
    /\ calls = 0

Call == calls < MaxCalls /\ calls' = calls + 1

-----------------------------------------------------------------------------
(* CredentialSupportedBuilder *)

BuiltUnchanged == UNCHANGED <<version, meta, doc, asMeta, vc, issuer>>
CredUnchanged == BuiltUnchanged /\ UNCHANGED lists

\* withFormat, withCredentialName, and the property of the format: withVct,
\* withDoctype, withCredentialDefinition
WithFormatNameKey(f, n, k) ==
    /\ Call
    /\ cred' = [cred EXCEPT !.format = f, !.name = n, !.keys = @ \cup {k}]
    /\ UNCHANGED proofObjs /\ CredUnchanged

\* A list appended to a list, both copied into a new one, or the caller's own list
\* stored when there is none.
Appended(old, a) ==
    IF old = NONE THEN a
    ELSE IF "some" \in {ListOf(old), ListOf(a)} THEN "some" ELSE "empty"

\* addCryptographicBindingMethod and withCryptographicBindingMethod, and alike
\* those of the signing algorithms: 1.0 refuses to replace by an empty list
AddBinding(a) ==
    /\ Call
    /\ cred' = [cred EXCEPT !.binding = Appended(@, a)]
    /\ UNCHANGED proofObjs /\ CredUnchanged
WithBinding(a) ==
    /\ Call
    /\ version = "V1_0" => ListOf(a) # "empty"
    /\ cred' = [cred EXCEPT !.binding = a]
    /\ UNCHANGED proofObjs /\ CredUnchanged

\* addProofTypesSupported writes into the object at hand, the caller's if
\* withProofTypesSupported has stored it
AddProofType(p) ==
    /\ Call
    /\ cred' = [cred EXCEPT !.proofs = IF @ = NONE THEN "own" ELSE @]
    /\ proofObjs' = [proofObjs EXCEPT ![cred'.proofs] = p]
    /\ CredUnchanged
WithProofTypes ==
    /\ Call
    /\ cred' = [cred EXCEPT !.proofs = "caller"]
    /\ UNCHANGED proofObjs /\ CredUnchanged

\* The caller edits the proof types it supplied.
CallerEditsProofs(p) ==
    /\ Call
    /\ proofObjs' = [proofObjs EXCEPT !["caller"] = p]
    /\ UNCHANGED cred /\ CredUnchanged

\* The caller edits a list it supplied.
CallerEditsList(l, v) ==
    /\ Call
    /\ lists' = [lists EXCEPT ![l] = v]
    /\ UNCHANGED <<cred, proofObjs>> /\ BuiltUnchanged

\* The property each format needs; 1.0 asks none of a format it does not know.
NeededKey == [f \in Formats |->
    IF f = "dc+sd-jwt" THEN "vct" ELSE IF f = "mso_mdoc" THEN "doctype" ELSE "credential_definition"]

HeldProofs == IF cred.proofs = NONE THEN "absent" ELSE proofObjs[cred.proofs]

\* Mutant: build hands out the object it has validated.
BuiltProofsShared == IF HeldProofs = "absent" THEN "absent" ELSE cred.proofs

\* build copies the proof types it has validated
BuiltProofs == HeldProofs

CredBuilds ==
    /\ cred.format # NONE /\ cred.name # NONE
    /\ NeededKey[cred.format] \in cred.keys
    /\ HeldProofs # "empty"

\* CredentialSupportedBuilderV1_0.build also validates the lists
CredBuildsV1 == CredBuilds /\ ListOf(cred.binding) # "empty"

CanBuildEntry == IF version = "V1_0" THEN CredBuildsV1 ELSE CredBuilds

\* build hands out the lists the builder holds, the caller's among them
BuiltEntry == [by |-> "builder", format |-> cred.format,
               keys |-> {NeededKey[cred.format]}, binding |-> cred.binding,
               proofs |-> BuiltProofs]

-----------------------------------------------------------------------------
(* IssuerMetadataBuilder *)

MetaUnchanged == UNCHANGED <<version, cred, proofObjs, doc, asMeta, vc, issuer>>

\* withCredentialIssuer, withCredentialEndpoint, withNonceEndpoint, ...
MetaWith(f) ==
    /\ Call
    /\ meta' = [meta EXCEPT !.fields = @ \cup {f}]
    /\ UNCHANGED lists /\ MetaUnchanged

\* Mutant: withAuthorizationServers fills the array at hand anew.
WithServersInPlace ==
    /\ Call
    /\ version = "V1_0" => lists["servers"] # "empty"
    /\ meta' = [meta EXCEPT !.servers = IF @ = NONE THEN "servers" ELSE @]
    /\ lists' = [lists EXCEPT ![meta'.servers] = lists["servers"]]
    /\ MetaUnchanged

\* withAuthorizationServers stores the caller's array.  (The displays, which build
\* copies into an array of its own, are left out.)
WithServers ==
    /\ Call
    /\ version = "V1_0" => lists["servers"] # "empty"
    /\ meta' = [meta EXCEPT !.servers = "servers"]
    /\ UNCHANGED lists /\ MetaUnchanged

\* withAuthorizationServer pushes onto the array at hand, which the caller and a
\* document may hold
PushServer ==
    /\ Call
    /\ meta' = [meta EXCEPT !.servers = IF @ = NONE THEN "own" ELSE @]
    /\ lists' = [lists EXCEPT ![meta'.servers] = "some"]
    /\ MetaUnchanged

\* addSupportedCredentialBuilder, newSupportedCredentialBuilder
AddSupportedBuilder ==
    /\ Call
    /\ meta' = [meta EXCEPT !.supported = TRUE]
    /\ UNCHANGED lists /\ MetaUnchanged

\* addCredentialConfigurationsSupported takes what the caller wrote
AddConfiguration(n, p) ==
    /\ Call
    /\ meta' = [meta EXCEPT !.configs[n] = CallerEntry(p)]
    /\ UNCHANGED lists /\ MetaUnchanged

\* The configurations after build: it adds what its credential builders build to
\* its own record, which the document shares.
BuiltConfigs == IF meta.supported THEN [meta.configs EXCEPT ![cred.name] = BuiltEntry]
                ELSE meta.configs

MetaBuilds ==
    /\ {"credential_issuer", "credential_endpoint"} \subseteq meta.fields
    /\ meta.supported => CanBuildEntry
    /\ Configured(BuiltConfigs) # {}

\* IssuerMetadataBuilderV1_0.build also validates the authorization servers
MetaBuildsV1 == MetaBuilds /\ ListOf(meta.servers) # "empty"

CanBuildMeta == IF version = "V1_0" THEN MetaBuildsV1 ELSE MetaBuilds

\* The document: it holds the builder's array of servers and, as the module does
\* not repeat, the builder's record of configurations.
BuiltDoc == [servers |-> meta.servers]

BuildMeta ==
    /\ Call
    /\ CanBuildMeta
    /\ meta' = [meta EXCEPT !.configs = BuiltConfigs]
    /\ doc' = BuiltDoc
    /\ UNCHANGED <<version, cred, proofObjs, lists, asMeta, vc, issuer>>

-----------------------------------------------------------------------------
(* AuthorizationServerMetadataBuilder *)

\* The setters; each assigns one property of the metadata object.
AsWith(f) ==
    /\ Call
    /\ asMeta' = asMeta \cup {f}
    /\ UNCHANGED <<version, cred, proofObjs, lists, meta, doc, vc, issuer>>

\* build hands out the object the setters write to
AsBuilds == {"issuer", "response_types_supported"} \subseteq asMeta

-----------------------------------------------------------------------------
(* VcIssuerBuilder *)

VcUnchanged == UNCHANGED <<version, cred, proofObjs, lists, meta, doc, asMeta>>

\* withIssuerMetadata stores the caller's metadata in place of what was set
WithIssuerMetadata(n) ==
    /\ Call
    /\ vc' = [vc EXCEPT !.fields = MetaFields, !.servers = "some",
                        !.configs = [NoConfigs EXCEPT ![n] = CallerEntry("some")]]
    /\ issuer' = IF issuer = NONE THEN NONE ELSE [issuer EXCEPT !.shared = FALSE]
    /\ VcUnchanged

\* withCredentialIssuer, withCredentialEndpoint, withNonceEndpoint,
\* withAuthorizationServers, the displays
VcWith(f) ==
    /\ Call
    /\ vc' = [vc EXCEPT !.fields = @ \cup {f}, !.servers = "some"]
    /\ UNCHANGED issuer /\ VcUnchanged

\* Mutant: withCredentialConfigurationsSupported empties the object at hand.
WithConfigurationsInPlace(n) ==
    /\ Call
    /\ vc' = [vc EXCEPT !.configs = [NoConfigs EXCEPT ![n] = CallerEntry("some")]]
    /\ issuer' = IF issuer # NONE /\ issuer.shared
                 THEN [issuer EXCEPT !.configs = vc'.configs] ELSE issuer
    /\ VcUnchanged

\* withCredentialConfigurationsSupported starts a new object ...
WithConfigurations(n) ==
    /\ Call
    /\ vc' = [vc EXCEPT !.configs = [NoConfigs EXCEPT ![n] = CallerEntry("some")]]
    /\ issuer' = IF issuer = NONE THEN NONE ELSE [issuer EXCEPT !.shared = FALSE]
    /\ VcUnchanged

\* ... addCredentialConfigurationsSupported writes into the one at hand, which a
\* built issuer may share
VcAddConfiguration(n) ==
    /\ Call
    /\ vc' = [vc EXCEPT !.configs =
                  [(IF @ = NONE THEN NoConfigs ELSE @) EXCEPT ![n] = CallerEntry("some")]]
    /\ issuer' = IF issuer # NONE /\ issuer.shared
                 THEN [issuer EXCEPT !.configs[n] = CallerEntry("some")] ELSE issuer
    /\ VcUnchanged

\* withAuthorizationMetadata, with what the builder built or another document
WithAuthorizationMetadata(a) ==
    /\ Call
    /\ a = "built" => AsBuilds
    /\ vc' = [vc EXCEPT !.as = a]
    /\ UNCHANGED issuer /\ VcUnchanged

\* withIssuerMetadataBuilder takes the builder of version 15
WithMetadataBuilder ==
    /\ Call
    /\ version = "V1_15"
    /\ vc' = [vc EXCEPT !.builder = TRUE]
    /\ UNCHANGED issuer /\ VcUnchanged

\* The state managers, given or in memory
WithStates(s) ==
    /\ Call
    /\ vc' = [vc EXCEPT !.states = @ \cup {s}]
    /\ UNCHANGED issuer /\ VcUnchanged

\* withASClientMetadata, withASClientMetadataParams; withJWTVerifyCallback
WithClientOrVerify(client, verify) ==
    /\ Call
    /\ vc' = [vc EXCEPT !.client = @ \/ client, !.verify = IF verify THEN "given" ELSE @]
    /\ UNCHANGED issuer /\ VcUnchanged

\* The metadata build merges: the metadata builder's document over the properties
\* set here, the configurations set here alone
MergedFields == vc.fields \cup (IF vc.builder THEN meta.fields ELSE {})
MergedServers == IF vc.builder /\ meta.servers # NONE THEN meta.servers ELSE vc.servers
MergedConfigs == vc.configs

\* The metadata object is empty until a setter has been called.
MetadataSet == vc.fields # {} \/ vc.servers # NONE \/ vc.configs # NONE

\* An issuer with an OIDC client verifies tokens through its authorization server
Verifier == IF vc.client /\ vc.verify = NONE THEN "oidc" ELSE vc.verify

VcBuilds ==
    /\ {"offers", "nonces"} \subseteq vc.states
    /\ MetadataSet
    /\ vc.as # NONE
    /\ vc.builder => CanBuildMeta
    /\ {"credential_endpoint", "credential_issuer"} \subseteq MergedFields
    /\ vc.configs # NONE
    /\ vc.client /\ vc.verify = NONE =>
           "credential_issuer" \in vc.fields /\ vc.servers # NONE

BuildIssuer ==
    /\ Call
    /\ VcBuilds
    /\ issuer' = [fields |-> MergedFields, servers |-> MergedServers,
                  configs |-> MergedConfigs, shared |-> TRUE, as |-> vc.as,
                  uris |-> IF "uris" \in vc.states THEN "given" ELSE "memory",
                  verify |-> Verifier]
    /\ vc' = [vc EXCEPT !.verify = Verifier]
    /\ meta' = IF vc.builder THEN [meta EXCEPT !.configs = BuiltConfigs] ELSE meta
    /\ UNCHANGED <<version, cred, proofObjs, lists, doc, asMeta>>

-----------------------------------------------------------------------------
Next ==
    \/ \E f \in Formats, n \in Names, k \in FormatKeys : WithFormatNameKey(f, n, k)
    \/ \E a \in {"empty", "some", "methods"} : AddBinding(a) \/ WithBinding(a)
    \/ \E p \in {"empty", "some"} : AddProofType(p) \/ CallerEditsProofs(p)
    \/ \E l \in {"methods", "servers"}, v \in {"empty", "some"} : CallerEditsList(l, v)
    \/ WithProofTypes
    \/ \E f \in MetaFields : MetaWith(f) \/ VcWith(f)
    \/ WithServers \/ PushServer \/ AddSupportedBuilder \/ BuildMeta
    \/ \E n \in Names, p \in {"some", "empty"} : AddConfiguration(n, p)
    \/ \E f \in AsFields : AsWith(f)
    \/ \E n \in Names : WithIssuerMetadata(n) \/ WithConfigurations(n) \/ VcAddConfiguration(n)
    \/ \E a \in {"other", "built"} : WithAuthorizationMetadata(a)
    \/ WithMetadataBuilder \/ BuildIssuer
    \/ \E s \in {"offers", "nonces", "uris"} : WithStates(s)
    \/ \E c, v \in BOOLEAN : WithClientOrVerify(c, v)

Spec == Init /\ [][Next]_vars

-----------------------------------------------------------------------------
(* Properties *)

\* "The value that passed validation must not be rewritten by the caller after
\* build()" (CredentialSupportedBuilder.build): a configuration the builder built
\* never says that a proof type has no algorithms, whatever the builder and the
\* caller do to their objects later.
ValidatedProofsStay ==
    \A n \in Names : meta.configs[n] # NONE /\ meta.configs[n].by = "builder"
        => ProofOf(meta.configs[n]) # "empty"

\* The built configurations and the built document that have an empty list.
EmptyMethods(n) == meta.configs[n] # NONE /\ ListOf(meta.configs[n].binding) = "empty"
EmptyServers == doc # NONE /\ ListOf(doc.servers) = "empty"

\* "Arrays must be non-empty if present": what the 1.0 builders build has no empty
\* list, and no call on a builder, of either version, empties a list of what was
\* built, although both hold the same arrays.  Only the caller's own edit can.
BuiltListsNotEmptied ==
    [][/\ version = "V1_0" \/ (doc' = doc /\ meta'.configs = meta.configs)
       /\ \A l \in {"methods", "servers"} : ~CallerEditsList(l, "empty")
       => /\ EmptyServers' => EmptyServers
          /\ \A n \in Names : EmptyMethods(n)' => EmptyMethods(n)]_vars

\* A running issuer never stops supporting a configuration it was built with, and
\* its endpoints stay, although it shares objects with its builder.
NothingWithdrawn ==
    [][issuer # NONE /\ ~BuildIssuer =>
          /\ Configured(issuer.configs) \subseteq Configured(issuer'.configs)
          /\ issuer'.fields = issuer.fields]_vars

\* "Let's make sure these get merged correctly" (VcIssuerBuilder.build): an issuer
\* supports what its metadata builder supports.
ConfigurationsMerged ==
    [][BuildIssuer /\ vc.builder =>
          Configured(meta'.configs) \subseteq Configured(issuer'.configs)]_vars
===============================================================================
