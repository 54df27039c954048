--------------------------- MODULE MCIssuerSessions ---------------------------
(* Instances of IssuerSessions for TLC.                                      *)
EXTENDS IssuerSessions, TLC

\* Offers, requests and nonces are interchangeable; so are codes, as each offer
\* draws its own.
Symmetry == Permutations(Offers) \cup Permutations(Requests)
            \cup Permutations(Nonces) \cup Permutations(Codes)
            \cup Permutations(CorrIds)
=============================================================================
