------------------------ MODULE IssuerBuilders_proofs -------------------------
(***************************************************************************)
(* Theorems about the builders, for any credential names and any number of *)
(* calls: what a build has validated stays valid although builders, the    *)
(* documents they built and the caller share objects, and a built issuer   *)
(* loses nothing.                                                          *)
(***************************************************************************)
EXTENDS IssuerBuilders, TLAPS

\* The credential builder; its proof types are one of the two objects.
BuildersTypes ==
    /\ cred \in [name : Names, format : Formats \cup {NONE}, keys : SUBSET FormatKeys,
                 binding : Lists, proofs : {NONE, "own", "caller"}]
    /\ proofObjs \in [{"own", "caller"} -> Proofs]
    /\ lists \in [ListObjs -> {"empty", "some"}]
    /\ DOMAIN meta = {"fields", "servers", "configs", "supported"}
    /\ meta.servers \in {NONE, "servers", "own"}
    /\ DOMAIN vc = {"fields", "servers", "as", "configs", "states", "client", "verify", "builder"}

\* What the metadata builder holds under a name: a configuration it built has
\* proof types of its own, which no object of another's stands for.
EntrySound(e) == e # NONE /\ e.by = "builder" => e.proofs \in {"absent", "some"}

EntriesSound ==
    /\ DOMAIN meta.configs = Names
    /\ \A n \in Names : EntrySound(meta.configs[n])

\* The configurations of the VcIssuerBuilder and of the issuer it built.
IssuerSound ==
    /\ vc.configs # NONE => DOMAIN vc.configs = Names
    /\ issuer # NONE => /\ {"fields", "configs", "shared"} \subseteq DOMAIN issuer
                        /\ DOMAIN issuer.configs = Names

BuildersInv == BuildersTypes /\ EntriesSound /\ IssuerSound

\* A step leaves no list of what is built empty that was not before.
NoneEmptied ==
    /\ EmptyServers' => EmptyServers
    /\ \A n \in Names : EmptyMethods(n)' => EmptyMethods(n)

-----------------------------------------------------------------------------
(* What is built *)

\* What the caller supplies is a configuration, and sound.
LEMMA CallerEntrySound ==
  ASSUME NEW p \in Proofs
  PROVE  CallerEntry(p) # NONE /\ EntrySound(CallerEntry(p))
BY BuilderConstants DEF CallerEntry, EntrySound, Formats, FormatKeys

\* A configuration the builder builds: the validated algorithms are copied.
LEMMA BuiltEntrySound ==
  ASSUME BuildersInv, CanBuildEntry
  PROVE  /\ EntrySound(BuiltEntry)
         /\ version = "V1_0" => ListOf(BuiltEntry.binding) # "empty"
<1>1. CredBuilds /\ (version = "V1_0" => ListOf(cred.binding) # "empty")
  BY DEF CanBuildEntry, CredBuildsV1
<1>2. BuiltProofs \in {"absent", "some"}
  BY <1>1 DEF CredBuilds, BuiltProofs, HeldProofs, BuildersInv, BuildersTypes, Proofs
<1> QED
  BY <1>1, <1>2 DEF EntrySound, BuiltEntry

\* The configurations of the metadata builder after a build.
LEMMA BuiltConfigsSound ==
  ASSUME BuildersInv, CanBuildMeta
  PROVE  /\ DOMAIN BuiltConfigs = Names
         /\ \A n \in Names :
                /\ EntrySound(BuiltConfigs[n])
                /\ version = "V1_0" /\ BuiltConfigs[n] # meta.configs[n] =>
                       ListOf(BuiltConfigs[n].binding) # "empty"
<1>1. meta.supported => /\ EntrySound(BuiltEntry)
                        /\ version = "V1_0" => ListOf(BuiltEntry.binding) # "empty"
  BY BuiltEntrySound DEF CanBuildMeta, MetaBuildsV1, MetaBuilds
<1>2. DOMAIN meta.configs = Names /\ \A n \in Names : EntrySound(meta.configs[n])
  BY DEF BuildersInv, EntriesSound
<1>3. CASE meta.supported
  BY <1>1, <1>2, <1>3 DEF BuiltConfigs
<1>4. CASE ~meta.supported
  BY <1>2, <1>4 DEF BuiltConfigs
<1> QED
  BY <1>3, <1>4

\* The 1.0 document has no empty list.
LEMMA BuiltDocSound ==
  ASSUME CanBuildMeta, version = "V1_0"
  PROVE  ListOf(BuiltDoc.servers) # "empty"
BY DEF CanBuildMeta, MetaBuildsV1, BuiltDoc

-----------------------------------------------------------------------------
(* The invariant holds at the start and is kept by each builder's calls. *)

LEMMA BuildersInit == Init => BuildersInv
<1> SUFFICES ASSUME Init PROVE BuildersInv
  OBVIOUS
<1>1. BuildersTypes
  BY DEF Init, BuildersTypes, Lists, ListObjs, Proofs
<1>2. EntriesSound
  BY DEF Init, EntriesSound, EntrySound, NoConfigs
<1>4. IssuerSound
  BY DEF Init, IssuerSound, NoConfigs
<1> QED
  BY <1>1, <1>2, <1>4 DEF BuildersInv

\* CredentialSupportedBuilder: its calls reach nothing that was built.
LEMMA CredentialBuilderKeeps ==
  ASSUME BuildersInv,
         \/ \E f \in Formats, n \in Names, k \in FormatKeys : WithFormatNameKey(f, n, k)
         \/ \E a \in {"empty", "some", "methods"} : AddBinding(a) \/ WithBinding(a)
         \/ \E p \in {"empty", "some"} : AddProofType(p) \/ CallerEditsProofs(p)
         \/ \E l \in {"methods", "servers"}, v \in {"empty", "some"} : CallerEditsList(l, v)
         \/ WithProofTypes
  PROVE  BuildersInv' /\ UNCHANGED issuer
<1>1. BuiltUnchanged
  BY DEF WithFormatNameKey, AddBinding, WithBinding, AddProofType, CallerEditsProofs,
         WithProofTypes, CallerEditsList, CredUnchanged
<1>2. ASSUME NEW f \in Formats, NEW n \in Names, NEW k \in FormatKeys, WithFormatNameKey(f, n, k)
      PROVE  BuildersTypes'
  BY <1>1, <1>2 DEF BuildersInv, BuildersTypes, WithFormatNameKey, CredUnchanged, BuiltUnchanged
<1>3. ASSUME NEW a \in {"empty", "some", "methods"}, AddBinding(a) \/ WithBinding(a)
      PROVE  BuildersTypes'
  <2>1. a \in Lists /\ Appended(cred.binding, a) \in Lists
    BY DEF Lists, ListObjs, Appended
  <2>2. PICK b \in Lists : cred' = [cred EXCEPT !.binding = b]
    BY <1>3, <2>1 DEF AddBinding, WithBinding
  <2> QED
    BY <1>1, <1>3, <2>2 DEF BuildersInv, BuildersTypes, AddBinding, WithBinding, CredUnchanged,
                            BuiltUnchanged
<1>4. ASSUME NEW p \in {"empty", "some"}, AddProofType(p)
      PROVE  BuildersTypes'
  BY <1>1, <1>4 DEF BuildersInv, BuildersTypes, AddProofType, CredUnchanged, BuiltUnchanged, Proofs
<1>5. ASSUME NEW p \in {"empty", "some"}, CallerEditsProofs(p)
      PROVE  BuildersTypes'
  BY <1>1, <1>5 DEF BuildersInv, BuildersTypes, CallerEditsProofs, CredUnchanged, BuiltUnchanged, Proofs
<1>6. ASSUME WithProofTypes PROVE BuildersTypes'
  BY <1>1, <1>6 DEF BuildersInv, BuildersTypes, WithProofTypes, CredUnchanged, BuiltUnchanged
<1>7. ASSUME NEW l \in {"methods", "servers"}, NEW v \in {"empty", "some"}, CallerEditsList(l, v)
      PROVE  BuildersTypes'
  BY <1>1, <1>7 DEF BuildersInv, BuildersTypes, CallerEditsList, BuiltUnchanged, ListObjs
<1>8. BuildersTypes'
  BY <1>2, <1>3, <1>4, <1>5, <1>6, <1>7
<1>9. EntriesSound' /\ IssuerSound' /\ UNCHANGED issuer
  BY <1>1 DEF BuildersInv, EntriesSound, IssuerSound, BuiltUnchanged
<1> QED
  BY <1>8, <1>9 DEF BuildersInv

\* IssuerMetadataBuilder: what it builds has been validated.
LEMMA MetadataBuilderKeeps ==
  ASSUME BuildersInv,
         \/ \E f \in MetaFields : MetaWith(f)
         \/ WithServers \/ PushServer \/ AddSupportedBuilder \/ BuildMeta
         \/ \E n \in Names, p \in {"some", "empty"} : AddConfiguration(n, p)
  PROVE  BuildersInv' /\ UNCHANGED issuer
<1>1. UNCHANGED <<version, cred, proofObjs, vc, issuer>>
  BY DEF MetaWith, WithServers, PushServer, AddSupportedBuilder, BuildMeta, AddConfiguration,
         MetaUnchanged
<1>2. ASSUME DOMAIN meta' = DOMAIN meta, meta'.servers \in {NONE, "servers", "own"},
             lists' \in [ListObjs -> {"empty", "some"}], EntriesSound'
      PROVE  BuildersInv'
  BY <1>1, <1>2 DEF BuildersInv, BuildersTypes, IssuerSound
<1>3. /\ DOMAIN meta = {"fields", "servers", "configs", "supported"}
      /\ meta.servers \in {NONE, "servers", "own"}
      /\ lists \in [ListObjs -> {"empty", "some"}] /\ EntriesSound
  BY DEF BuildersInv, BuildersTypes
<1>4. ASSUME NEW f \in MetaFields, MetaWith(f) PROVE BuildersInv'
  BY <1>2, <1>3, <1>4 DEF MetaWith, EntriesSound
<1>5. ASSUME WithServers PROVE BuildersInv'
  BY <1>2, <1>3, <1>5 DEF WithServers, EntriesSound
<1>6. ASSUME PushServer PROVE BuildersInv'
  <2>1. /\ meta'.servers \in {"servers", "own"} /\ DOMAIN meta' = DOMAIN meta
        /\ meta'.configs = meta.configs
    BY <1>3, <1>6 DEF PushServer
  <2>2. lists' \in [ListObjs -> {"empty", "some"}]
    BY <1>3, <1>6, <2>1 DEF PushServer
  <2> QED
    BY <1>2, <1>3, <2>1, <2>2 DEF EntriesSound
<1>7. ASSUME AddSupportedBuilder PROVE BuildersInv'
  BY <1>2, <1>3, <1>7 DEF AddSupportedBuilder, EntriesSound
<1>8. ASSUME BuildMeta PROVE BuildersInv'
  <2>1. /\ meta'.configs = BuiltConfigs /\ DOMAIN meta' = DOMAIN meta
        /\ meta'.servers = meta.servers /\ UNCHANGED lists
    BY <1>3, <1>8 DEF BuildMeta
  <2>2. EntriesSound'
    BY <1>8, <2>1, BuiltConfigsSound DEF BuildMeta, EntriesSound
  <2> QED
    BY <1>2, <1>3, <2>1, <2>2
<1>9. ASSUME NEW n \in Names, NEW p \in {"some", "empty"}, AddConfiguration(n, p) PROVE BuildersInv'
  <2>1. /\ meta'.configs = [meta.configs EXCEPT ![n] = CallerEntry(p)]
        /\ DOMAIN meta' = DOMAIN meta /\ meta'.servers = meta.servers /\ UNCHANGED lists
    BY <1>3, <1>9 DEF AddConfiguration
  <2>2. EntrySound(CallerEntry(p))
    BY CallerEntrySound DEF Proofs
  <2>3. EntriesSound'
    BY <1>3, <2>1, <2>2 DEF EntriesSound
  <2> QED
    BY <1>2, <1>3, <2>1, <2>3
<1> QED
  BY <1>1, <1>4, <1>5, <1>6, <1>7, <1>8, <1>9

\* The setters of the authorization server metadata reach nothing else.
LEMMA AsBuilderKeeps ==
  ASSUME BuildersInv, NEW f \in AsFields, AsWith(f)
  PROVE  BuildersInv' /\ UNCHANGED issuer
BY DEF AsWith, BuildersInv, BuildersTypes, EntriesSound, IssuerSound

\* The setters of VcIssuerBuilder: they change a built issuer by an added
\* configuration at most.
LEMMA VcSettersKeep ==
  ASSUME BuildersInv,
         \/ \E f \in MetaFields : VcWith(f)
         \/ \E n \in Names : WithIssuerMetadata(n) \/ WithConfigurations(n) \/ VcAddConfiguration(n)
         \/ \E a \in {"other", "built"} : WithAuthorizationMetadata(a)
         \/ WithMetadataBuilder
         \/ \E s \in {"offers", "nonces", "uris"} : WithStates(s)
         \/ \E c, v \in BOOLEAN : WithClientOrVerify(c, v)
  PROVE  /\ BuildersInv'
         /\ issuer # NONE => /\ Configured(issuer.configs) \subseteq Configured(issuer'.configs)
                             /\ issuer'.fields = issuer.fields
<1> DEFINE Kept == /\ IssuerSound' /\ DOMAIN vc' = DOMAIN vc
                   /\ issuer # NONE =>
                        /\ Configured(issuer.configs) \subseteq Configured(issuer'.configs)
                        /\ issuer'.fields = issuer.fields
<1>1. VcUnchanged
  BY DEF VcWith, WithIssuerMetadata, WithConfigurations, VcAddConfiguration,
         WithAuthorizationMetadata, WithMetadataBuilder, WithStates, WithClientOrVerify
<1>2. DOMAIN vc = {"fields", "servers", "as", "configs", "states", "client", "verify", "builder"}
      /\ IssuerSound
  BY DEF BuildersInv, BuildersTypes
<1>3. ASSUME vc'.configs = vc.configs, DOMAIN vc' = DOMAIN vc, UNCHANGED issuer PROVE Kept
  BY <1>2, <1>3 DEF IssuerSound
<1>4. ASSUME NEW f \in MetaFields, VcWith(f) PROVE Kept
  BY <1>2, <1>3, <1>4 DEF VcWith
<1>5. ASSUME NEW n \in Names, WithIssuerMetadata(n) \/ WithConfigurations(n) PROVE Kept
  <2>1. DOMAIN vc'.configs = Names /\ DOMAIN vc' = DOMAIN vc
    BY <1>2, <1>5 DEF WithIssuerMetadata, WithConfigurations, NoConfigs
  <2>2. issuer' = IF issuer = NONE THEN NONE ELSE [issuer EXCEPT !.shared = FALSE]
    BY <1>5 DEF WithIssuerMetadata, WithConfigurations
  <2>3. issuer # NONE => /\ DOMAIN issuer' = DOMAIN issuer
                         /\ issuer'.configs = issuer.configs /\ issuer'.fields = issuer.fields
    BY <1>2, <2>2 DEF IssuerSound
  <2> QED
    BY <1>2, <2>1, <2>2, <2>3 DEF IssuerSound
<1>6. ASSUME NEW n \in Names, VcAddConfiguration(n) PROVE Kept
  <2>1. DOMAIN vc'.configs = Names /\ DOMAIN vc' = DOMAIN vc
    BY <1>2, <1>6 DEF VcAddConfiguration, NoConfigs, IssuerSound
  <2>2. CallerEntry("some") # NONE
    BY CallerEntrySound DEF Proofs
  <2>3. CASE issuer # NONE /\ issuer.shared
    <3>1. issuer' = [issuer EXCEPT !.configs[n] = CallerEntry("some")]
      BY <1>6, <2>3 DEF VcAddConfiguration
    <3>2. /\ DOMAIN issuer' = DOMAIN issuer /\ issuer'.fields = issuer.fields
          /\ issuer'.configs = [issuer.configs EXCEPT ![n] = CallerEntry("some")]
      BY <1>2, <2>3, <3>1 DEF IssuerSound
    <3>3. DOMAIN issuer'.configs = Names
      BY <1>2, <2>3, <3>2 DEF IssuerSound
    <3>4. Configured(issuer.configs) \subseteq Configured(issuer'.configs)
      BY <1>2, <2>2, <2>3, <3>2 DEF IssuerSound, Configured
    <3> QED
      BY <1>2, <2>1, <2>3, <3>2, <3>3, <3>4 DEF IssuerSound
  <2>4. CASE ~(issuer # NONE /\ issuer.shared)
    <3>1. UNCHANGED issuer
      BY <1>6, <2>4 DEF VcAddConfiguration
    <3> QED
      BY <1>2, <2>1, <3>1 DEF IssuerSound
  <2> QED
    BY <2>3, <2>4
<1>7. ASSUME NEW a \in {"other", "built"}, WithAuthorizationMetadata(a) PROVE Kept
  BY <1>2, <1>3, <1>7 DEF WithAuthorizationMetadata
<1>8. ASSUME WithMetadataBuilder PROVE Kept
  BY <1>2, <1>3, <1>8 DEF WithMetadataBuilder
<1>9. ASSUME NEW s \in {"offers", "nonces", "uris"}, WithStates(s) PROVE Kept
  BY <1>2, <1>3, <1>9 DEF WithStates
<1>10. ASSUME NEW c \in BOOLEAN, NEW v \in BOOLEAN, WithClientOrVerify(c, v) PROVE Kept
  BY <1>2, <1>3, <1>10 DEF WithClientOrVerify
<1>11. Kept
  BY <1>4, <1>5, <1>6, <1>7, <1>8, <1>9, <1>10
<1>12. BuildersTypes' /\ EntriesSound'
  BY <1>1, <1>11 DEF BuildersInv, BuildersTypes, EntriesSound, VcUnchanged
<1> QED
  BY <1>11, <1>12 DEF BuildersInv

\* VcIssuerBuilder.build also builds the metadata of the builder it was given.
LEMMA IssuerBuildKeeps ==
  ASSUME BuildersInv, BuildIssuer
  PROVE  BuildersInv'
<1>1. UNCHANGED <<version, cred, proofObjs, lists, doc>>
  BY DEF BuildIssuer
<1>2. IssuerSound' /\ DOMAIN vc' = DOMAIN vc
  BY DEF BuildIssuer, VcBuilds, MergedConfigs, BuildersInv, BuildersTypes, IssuerSound
<1>3. CASE vc.builder
  <2>1. /\ CanBuildMeta /\ DOMAIN meta' = DOMAIN meta /\ meta'.configs = BuiltConfigs
        /\ meta'.servers = meta.servers
    BY <1>3 DEF BuildIssuer, VcBuilds, BuildersInv, BuildersTypes
  <2>2. EntriesSound'
    BY <1>1, <2>1, BuiltConfigsSound DEF EntriesSound
  <2> QED
    BY <1>1, <1>2, <2>1, <2>2 DEF BuildersInv, BuildersTypes
<1>4. CASE ~vc.builder
  <2>1. UNCHANGED meta
    BY <1>4 DEF BuildIssuer
  <2> QED
    BY <1>1, <1>2, <2>1 DEF BuildersInv, BuildersTypes, EntriesSound
<1> QED
  BY <1>3, <1>4

\* Every step, with what it does to a built issuer.
LEMMA BuildersNext ==
  ASSUME BuildersInv, [Next]_vars
  PROVE  /\ BuildersInv'
         /\ issuer # NONE /\ ~BuildIssuer =>
               /\ Configured(issuer.configs) \subseteq Configured(issuer'.configs)
               /\ issuer'.fields = issuer.fields
<1>1. CASE BuildIssuer
  BY <1>1, IssuerBuildKeeps
<1>2. CASE UNCHANGED vars
  BY <1>2 DEF vars, BuildersInv, BuildersTypes, EntriesSound, IssuerSound
<1>3. CASE Next /\ ~BuildIssuer
  BY <1>3, CredentialBuilderKeeps, MetadataBuilderKeeps, AsBuilderKeeps, VcSettersKeep
     DEF Next
<1> QED
  BY <1>1, <1>2, <1>3

-----------------------------------------------------------------------------
(* The lists of what is built *)

\* Lists that are filled, or left alone, empty nothing.
LEMMA FilledOrLeft ==
  ASSUME BuildersInv, doc' = doc, meta'.configs = meta.configs,
         \A l \in ListObjs : lists'[l] = "empty" => lists[l] = "empty"
  PROVE  NoneEmptied
BY DEF NoneEmptied, EmptyServers, EmptyMethods, ListOf

\* Configurations under some names replaced by ones with non-empty lists.
LEMMA FilledConfigs ==
  ASSUME BuildersInv, UNCHANGED lists, doc' = doc \/ ListOf(doc'.servers) # "empty",
         \A n \in Names : meta'.configs[n] = meta.configs[n]
                          \/ ListOf(meta'.configs[n].binding) # "empty"
  PROVE  NoneEmptied
BY DEF NoneEmptied, EmptyServers, EmptyMethods, ListOf

\* What the 1.0 builders build has no empty list.
LEMMA BuildsNoneEmpty ==
  ASSUME BuildersInv, version = "V1_0", BuildMeta \/ BuildIssuer
  PROVE  NoneEmptied
<1>1. UNCHANGED lists
  BY DEF BuildMeta, BuildIssuer
<1>2. DOMAIN meta = {"fields", "servers", "configs", "supported"}
  BY DEF BuildersInv, BuildersTypes
<1>3. CASE BuildMeta
  <2>1. CanBuildMeta /\ meta'.configs = BuiltConfigs /\ doc' = BuiltDoc
    BY <1>2, <1>3 DEF BuildMeta
  <2>2. ListOf(BuiltDoc.servers) # "empty"
    BY <2>1, BuiltDocSound
  <2>3. \A n \in Names : BuiltConfigs[n] = meta.configs[n]
                         \/ ListOf(BuiltConfigs[n].binding) # "empty"
    BY <2>1, BuiltConfigsSound
  <2> QED
    BY <1>1, <2>1, <2>2, <2>3, FilledConfigs
<1>4. CASE BuildIssuer /\ vc.builder
  <2>1. CanBuildMeta /\ meta'.configs = BuiltConfigs /\ doc' = doc
    BY <1>2, <1>4 DEF BuildIssuer, VcBuilds
  <2>2. \A n \in Names : BuiltConfigs[n] = meta.configs[n]
                         \/ ListOf(BuiltConfigs[n].binding) # "empty"
    BY <2>1, BuiltConfigsSound
  <2> QED
    BY <1>1, <2>1, <2>2, FilledConfigs
<1>5. CASE BuildIssuer /\ ~vc.builder
  BY <1>1, <1>5, FilledOrLeft DEF BuildIssuer
<1> QED
  BY <1>3, <1>4, <1>5

\* Every step but a build of version 15 and the caller's own emptying.
LEMMA OnlyTheCallerEmpties ==
  ASSUME BuildersInv, [Next]_vars,
         version = "V1_0" \/ (doc' = doc /\ meta'.configs = meta.configs),
         \A l \in {"methods", "servers"} : ~CallerEditsList(l, "empty")
  PROVE  NoneEmptied
<1>1. /\ DOMAIN meta = {"fields", "servers", "configs", "supported"}
      /\ meta.servers \in {NONE, "servers", "own"} /\ DOMAIN lists = ListObjs
      /\ DOMAIN meta.configs = Names
  BY DEF BuildersInv, BuildersTypes, EntriesSound
<1>2. CASE BuildMeta \/ BuildIssuer
  <2>1. UNCHANGED lists
    BY <1>2 DEF BuildMeta, BuildIssuer
  <2> QED
    BY <1>2, <2>1, BuildsNoneEmpty, FilledOrLeft
<1>3. ASSUME NEW l \in {"methods", "servers"}, NEW v \in {"empty", "some"}, CallerEditsList(l, v)
      PROVE  NoneEmptied
  <2>1. v = "some"
    BY <1>3
  <2>2. lists' = [lists EXCEPT ![l] = "some"] /\ doc' = doc /\ meta' = meta
    BY <1>3, <2>1 DEF CallerEditsList, BuiltUnchanged
  <2> QED
    BY <1>1, <2>2, FilledOrLeft
<1>4. CASE PushServer
  <2>1. doc' = doc /\ meta'.configs = meta.configs /\ lists' = [lists EXCEPT ![meta'.servers] = "some"]
    BY <1>1, <1>4 DEF PushServer, MetaUnchanged
  <2> QED
    BY <1>1, <2>1, FilledOrLeft
<1>5. ASSUME NEW n \in Names, NEW p \in {"some", "empty"}, AddConfiguration(n, p)
      PROVE  NoneEmptied
  <2>1. /\ UNCHANGED <<lists, doc>>
        /\ meta'.configs = [meta.configs EXCEPT ![n] = CallerEntry(p)]
    BY <1>1, <1>5 DEF AddConfiguration, MetaUnchanged
  <2>2. ListOf(CallerEntry(p).binding) # "empty"
    BY DEF CallerEntry, ListOf, ListObjs
  <2> QED
    BY <1>1, <2>1, <2>2, FilledConfigs
<1>6. CASE \/ \E f \in Formats, n \in Names, k \in FormatKeys : WithFormatNameKey(f, n, k)
           \/ \E a \in {"empty", "some", "methods"} : AddBinding(a) \/ WithBinding(a)
           \/ \E p \in {"empty", "some"} : AddProofType(p) \/ CallerEditsProofs(p)
           \/ WithProofTypes
           \/ \E f \in MetaFields : MetaWith(f)
           \/ WithServers \/ AddSupportedBuilder
  <2>1. UNCHANGED <<lists, doc>> /\ meta'.configs = meta.configs
    BY <1>1, <1>6 DEF WithFormatNameKey, AddBinding, WithBinding, AddProofType, CallerEditsProofs,
       WithProofTypes, MetaWith, WithServers, AddSupportedBuilder, CredUnchanged, BuiltUnchanged,
       MetaUnchanged
  <2> QED
    BY <2>1, FilledOrLeft
<1>7. CASE \/ UNCHANGED vars
           \/ \E f \in AsFields : AsWith(f)
           \/ \E f \in MetaFields : VcWith(f)
           \/ \E n \in Names : WithIssuerMetadata(n) \/ WithConfigurations(n) \/ VcAddConfiguration(n)
           \/ \E a \in {"other", "built"} : WithAuthorizationMetadata(a)
           \/ WithMetadataBuilder
           \/ \E s \in {"offers", "nonces", "uris"} : WithStates(s)
           \/ \E c, v \in BOOLEAN : WithClientOrVerify(c, v)
  <2>1. UNCHANGED <<lists, doc, meta>>
    BY <1>7 DEF vars, AsWith, VcWith, WithIssuerMetadata, WithConfigurations, VcAddConfiguration,
       WithAuthorizationMetadata, WithMetadataBuilder, WithStates, WithClientOrVerify, VcUnchanged
  <2> QED
    BY <2>1, FilledOrLeft
<1> QED
  BY <1>2, <1>3, <1>4, <1>5, <1>6, <1>7 DEF Next

LEMMA BuildersInvariant == Spec => []BuildersInv
  BY BuildersInit, BuildersNext, PTL DEF Spec

-----------------------------------------------------------------------------
(* Theorems *)

\* CredentialSupportedBuilder.build copies the proof types it has validated:
\* whatever the builder and the caller do to the objects they keep, a
\* configuration that was built never says that a proof type has no algorithms.
THEOREM ValidatedProofsKept == Spec => []ValidatedProofsStay
<1>1. BuildersInv => ValidatedProofsStay
  BY DEF BuildersInv, EntriesSound, EntrySound, ValidatedProofsStay, ProofOf
<1> QED
  BY <1>1, BuildersInvariant, PTL

\* Only the caller empties a list of what was built: the 1.0 builders validate the
\* lists again when they build, the caller having had the time to empty its own,
\* and the calls on the builders of both versions, which write into lists that
\* documents hold, take nothing from them.
THEOREM BuiltListsHold == Spec => BuiltListsNotEmptied
<1>1. ASSUME BuildersInv, [Next]_vars,
             version = "V1_0" \/ (doc' = doc /\ meta'.configs = meta.configs),
             \A l \in {"methods", "servers"} : ~CallerEditsList(l, "empty")
      PROVE  NoneEmptied
  BY <1>1, OnlyTheCallerEmpties
<1>2. BuildersInv /\ [Next]_vars =>
        [/\ version = "V1_0" \/ (doc' = doc /\ meta'.configs = meta.configs)
         /\ \A l \in {"methods", "servers"} : ~CallerEditsList(l, "empty")
         => /\ EmptyServers' => EmptyServers
            /\ \A n \in Names : EmptyMethods(n)' => EmptyMethods(n)]_vars
  BY <1>1 DEF NoneEmptied
<1> QED
  BY <1>2, BuildersInvariant, PTL DEF Spec, BuiltListsNotEmptied

\* A running issuer keeps its endpoints and every configuration it was built
\* with, although it shares the configurations object with its builder.
THEOREM ConfigurationsStay == Spec => NothingWithdrawn
<1>1. BuildersInv /\ [Next]_vars =>
        [issuer # NONE /\ ~BuildIssuer =>
            /\ Configured(issuer.configs) \subseteq Configured(issuer'.configs)
            /\ issuer'.fields = issuer.fields]_vars
  BY BuildersNext
<1> QED
  BY <1>1, BuildersInvariant, PTL DEF Spec, NothingWithdrawn
=============================================================================
