-------------------------- MODULE TwoPhaseLocking --------------------------
(***************************************************************************)
(* What the lock manager promises the rest of openML: strict two-phase     *)
(* table locks.  A transaction gathers locks that are compatible with the  *)
(* others' and gives them back all at once, when it ends; only the lock on *)
(* a system table may go earlier, when a cursor closes.  Who waits and who *)
(* is served first is not part of the promise.                             *)
(***************************************************************************)
EXTENDS Naturals

CONSTANTS
    Trans,       \* transactions
    Table,       \* tables
    SysTable,    \* tables whose lock may be given back early
    Mode,        \* lock modes, a subset of Nat; 0 is no lock
    Comp(_, _)   \* compatibility of two modes

VARIABLES
    active,      \* active[x]: transaction x has begun and not ended
    held         \* held[t][x]: the mode in which x has t locked

\* No two transactions hold locks on a table that conflict.
Compatible ==
    \A t \in Table : \A x, y \in Trans : x # y => Comp(held[t][x], held[t][y])

\* Only a transaction that runs holds locks.
Owned == \A t \in Table : \A x \in Trans : held[t][x] # 0 => active[x]

\* The step takes no lock from x and weakens none.
Keeps(x) == \A t \in Table : held[t][x] <= held'[t][x]

Begin(x) ==
    /\ active' = [active EXCEPT ![x] = TRUE]
    /\ held' = held

\* Locks are taken or strengthened.
Acquire ==
    /\ \A x \in Trans : Keeps(x)
    /\ active' = active

\* x gives back all its locks; the others may get what they waited for.
End(x) ==
    /\ \A t \in Table : held'[t][x] = 0
    /\ \A y \in Trans \ {x} : Keeps(y)
    /\ active' = [active EXCEPT ![x] = FALSE]

\* x gives back one system table.
Close(x, t) ==
    /\ held'[t][x] = 0
    /\ \A u \in Table \ {t} : held'[u][x] = held[u][x]
    /\ \A y \in Trans \ {x} : Keeps(y)
    /\ active' = active

Init ==
    /\ active = [x \in Trans |-> FALSE]
    /\ held = [t \in Table |-> [x \in Trans |-> 0]]

Next ==
    /\ held' \in [Table -> [Trans -> Mode]]
    /\ Compatible' /\ Owned'
    /\ \/ Acquire
       \/ \E x \in Trans : Begin(x) \/ End(x)
       \/ \E x \in Trans, t \in SysTable : Close(x, t)

Spec == Init /\ [][Next]_<<active, held>>

=============================================================================
