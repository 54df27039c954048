---------------------------- MODULE MCLookupStates ----------------------------
(* Instances of LookupStates for TLC: one offer with both keys and one with a  *)
(* pre-authorized code only.                                                   *)
EXTENDS LookupStates

MCKeyObject ==
    [i \in {"k1", "k2"} |->
        IF i = "k1" THEN [preAuthorizedCode |-> "p1", issuerState |-> "s1", correlationId |-> "k1"]
                    ELSE [preAuthorizedCode |-> "p2", issuerState |-> NONE, correlationId |-> "k2"]]

\* Only the first offer may carry an expiry of its own.
MCExpiries == [i \in {"k1", "k2"} |-> IF i = "k1" THEN {NONE, 1} ELSE {NONE}]
===============================================================================
