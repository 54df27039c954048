--------------------------- MODULE MCOfferExchange ---------------------------
(* Instances of OfferExchange for TLC. *)
EXTENDS OfferExchange

R(ids, client, mode, scheme, base, pin) ==
    [ids |-> ids, client |-> client, mode |-> mode, scheme |-> scheme,
     base |-> base, pinLength |-> pin]

\* Each refusal, each scheme and base, both modes, with and without a PIN length.
MCRequests ==
    {R({"a"}, NONE, "VALUE", NONE, NONE, NONE),
     R({"a", "b"}, "c1", "REFERENCE", NONE, NONE, 5),
     R({"b"}, NONE, "REFERENCE", "haip", "https", 6),
     R({"a"}, "c2", "VALUE", NONE, "https", 5),
     R({"a"}, NONE, "VALUE", "https", NONE, NONE),
     R({"a"}, NONE, "VALUE", "http", NONE, 6),
     R({}, NONE, "VALUE", NONE, NONE, NONE), R(NONE, NONE, "VALUE", NONE, NONE, NONE)}
===============================================================================
