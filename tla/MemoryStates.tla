----------------------------- MODULE MemoryStates -----------------------------
(***************************************************************************)
(* One in-memory state manager: a Map from a key to an entry that carries  *)
(* the time of its creation and perhaps an expiry of its own, and the      *)
(* interval timer of its cleanup routine.  The module is instantiated once *)
(* per manager; every operation of the class runs to completion without a  *)
(* scheduling point, so it is one action.                                  *)
(***************************************************************************)
EXTENDS Naturals

CONSTANTS
    Keys,       \* the strings used as ids
    Values,     \* what an entry holds
    NONE,       \* undefined
    ExpiresIn,  \* expiresInMS
    MaxTime     \* bound on the clock

VARIABLES
    states,            \* key -> entry, or NONE
    cleanupIntervalId, \* is the field set?
    ticking            \* is the interval it names alive?

Time  == 0 .. MaxTime
Entry == [createdAt : Time, expiresAt : Time \cup {NONE}, value : Values]

StatesOK == /\ states \in [Keys -> Entry \cup {NONE}]
            /\ cleanupIntervalId \in BOOLEAN
            /\ ticking \in BOOLEAN

Empty == /\ states = [k \in Keys |-> NONE]
         /\ cleanupIntervalId = FALSE
         /\ ticking = FALSE

\* An expiry of 0 is as good as none.
Expired(e, ts) == IF e.expiresAt \in {NONE, 0} THEN e.createdAt + ExpiresIn < ts
                                               ELSE e.expiresAt < ts

Has(k) == states[k] # NONE

\* get; for getAsserted NONE stands for the error
Get(k) == IF Has(k) THEN states[k].value ELSE NONE

Set(k, e)  == states' = [states EXCEPT ![k] = e]
Delete(k)  == states' = [states EXCEPT ![k] = NONE]
ClearAll   == states' = [k \in Keys |-> NONE]

ClearExpired(ts) ==
    states' = [k \in Keys |-> IF Has(k) /\ Expired(states[k], ts) THEN NONE
                                                                  ELSE states[k]]

\* A second start while the field is set does nothing.
StartCleanupRoutine ==
    /\ cleanupIntervalId' = TRUE
    /\ ticking' = (ticking \/ ~cleanupIntervalId)

\* The interval dies, the field stays set.
StopCleanupRoutine ==
    /\ ticking' = FALSE
    /\ UNCHANGED cleanupIntervalId
===============================================================================
