------------------------------- MODULE IdStore --------------------------------
(***************************************************************************)
(* What a store behind a lookup promises to those who ask by id: an id     *)
(* finds what was stored for it or nothing; a call that stores or deletes  *)
(* changes what its own id finds and no other; and expiry makes things     *)
(* unfindable, never findable.                                             *)
(***************************************************************************)
CONSTANTS Ids, NONE

VARIABLE found     \* what a lookup by each id returns

Init == found = [i \in Ids |-> NONE]

\* A step of a call on id.
Call(id) == \E v \in {id, NONE} : found' = [found EXCEPT ![id] = v]

\* A step of the store itself.
Forget == \E S \in SUBSET Ids :
              found' = [i \in Ids |-> IF i \in S THEN NONE ELSE found[i]]

Next == Forget \/ \E id \in Ids : Call(id)

Spec == Init /\ [][Next]_found
===============================================================================
