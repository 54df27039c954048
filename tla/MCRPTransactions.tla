--------------------------- MODULE MCRPTransactions ---------------------------
(* Instances of RPTransactions for TLC: two calls, each with its own nonce.  *)
EXTENDS RPTransactions, TLC

CONSTANTS c1, c2, s1, s2, n1, n2

InjectiveHash == [v \in Values |-> v]

\* The two states collide, and nothing else.
CollidingStates == [InjectiveHash EXCEPT ![s2] = s1]

AllRequests  == [state : Values, nonce : Values, query : QueryIds \cup {NONE}]
AllResponses == [call : Calls, state : Values, nonce : Values]

\* States and nonces are taken from sets of their own.
AllArguments ==
    [correlationId : CorrIds, state : Values \ {n1, n2}, nonce : Values \ {s1, s2},
     queryId : QueryIds \cup {NONE}, callback : Callbacks, uri : BOOLEAN]

\* Calls that return a URI
UriArguments == {a \in AllArguments : a.uri}

\* Sound for safety: the constants treat ids alike, and nonces, and calls.
Symmetry == Permutations(CorrIds) \cup Permutations(Values \cap {n1, n2})
            \cup Permutations(Calls)
=============================================================================
