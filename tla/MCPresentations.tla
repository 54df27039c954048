---------------------------- MODULE MCPresentations ----------------------------
(* Instances of Presentations for TLC. *)
EXTENDS Presentations, TLC

CONSTANTS u1, u2

Id(p) == [prefix |-> p, of |-> "client"]

\* Ways to pass a request, keys to sign it with and client ids that fit them
Identities ==
    {[passBy |-> "VALUE", method |-> k[1], client |-> Id(k[2])] :
        k \in {<<"did", "did">>, <<"did", "decentralized_identifier">>, <<"did", NONE>>,
               <<"x5c", "x509_san_dns">>, <<"jwk", "https">>}} \cup
    {[passBy |-> "REFERENCE", method |-> k[1], client |-> Id(k[2])] :
        k \in {<<"did", "decentralized_identifier">>, <<"jwk", NONE>>,
               <<"custom", "openid_federation">>}}

\* What is asked for: ID tokens, presentations or both, in the clear or
\* encrypted, which takes a vp_token
Questions ==
    {[type |-> {"id_token"}, query |-> NONE, mode |-> NONE]} \cup
    {[type |-> ty, query |-> "meta", mode |-> m] :
        ty \in {{"vp_token"}, {"id_token", "vp_token"}}, m \in {"direct_post", "direct_post.jwt"}}

\* The builder's options go into the request object, into both or where they
\* go by default.  A DID without client id gets one by the scheme, which the
\* RP's metadata name.
SignedRPs ==
    {i @@ q @@ [scheme |-> "redirect_uri", metaClient |-> NONE, entity |-> "entity",
                redirect |-> NONE, targets |-> ta, version |-> "V1"] :
        i \in Identities, q \in Questions, ta \in {NONE, "both"}} \cup
    {q @@ [passBy |-> "REFERENCE", method |-> "did", client |-> NONE,
           scheme |-> "decentralized_identifier", metaClient |-> Id("decentralized_identifier"),
           entity |-> NONE, redirect |-> NONE, targets |-> NONE, version |-> "D28"] :
        q \in Questions}

UnsignedRPs ==
    {[passBy |-> "NONE", method |-> "custom", client |-> c, type |-> {"vp_token"},
      query |-> "meta", mode |-> "direct_post", scheme |-> "redirect_uri",
      metaClient |-> NONE, entity |-> NONE, redirect |-> NONE, targets |-> NONE,
      version |-> "V1"] : c \in {NONE, Id("https")}}

AllOPs == {[mode |-> m, issuer |-> i, method |-> k, version |-> NONE] :
             m \in {"direct_post", "direct_post.jwt"}, i \in {"self"}, k \in {"did"}}

\* An RP that sends its options unsigned too keeps to one response URI.
SignedCalls == [c \in SignedRPs |->
    {[uri |-> u, uriType |-> NONE, targets |-> ta, byReference |-> FALSE] :
        u \in IF c.passBy = "REFERENCE" THEN {u1, u2} ELSE {u1}, ta \in {NONE, "both"}}]

UnsignedCalls == [c \in UnsignedRPs |->
    {[uri |-> u1, uriType |-> NONE, targets |-> NONE, byReference |-> FALSE]}]

\* The runs' signed requests are of configurations that fit, and those whose
\* unsigned part names a URI keep to one.
ASSUME SignedConfigurationsFit ==
    \A c \in RPs \cap SignedRPs :
        /\ Fits(c)
        /\ c.passBy = "VALUE" => \E u \in Uris : OneURI(c, "response_uri", u)
=============================================================================
