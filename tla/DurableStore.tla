---------------------------- MODULE DurableStore ----------------------------
(***************************************************************************)
(* What log, checkpoint and restart promise the users of the database: a   *)
(* store whose transactions are atomic and durable.  A transaction that is *)
(* running changes nothing here.  A commit that has been answered survives *)
(* every crash; one that a crash interrupts takes place or does not.       *)
(***************************************************************************)
CONSTANTS Items, Values

VARIABLES
    store,     \* the values committed transactions left
    doubt,     \* the store with the writes of the commit in progress
    up         \* the server runs

Init == store \in [Items -> Values] /\ doubt = store /\ up = TRUE

\* A transaction asks for its writes to be committed.
Commit ==
    /\ up /\ doubt = store
    /\ doubt' \in [Items -> Values]
    /\ UNCHANGED <<store, up>>

\* Its commit is answered.
Settle ==
    /\ up
    /\ store' = doubt
    /\ UNCHANGED <<doubt, up>>

Crash ==
    /\ up /\ up' = FALSE
    /\ store' \in {store, doubt} /\ doubt' = store'

Restart == ~up /\ up' = TRUE /\ UNCHANGED <<store, doubt>>

Next == Settle \/ Commit \/ Crash \/ Restart

Spec == Init /\ [][Next]_<<store, doubt, up>>

=============================================================================
