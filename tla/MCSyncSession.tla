--------------------------- MODULE MCSyncSession ---------------------------
(* Instances of SyncSession for TLC. *)
EXTENDS SyncSession, TLC

CONSTANTS
    a, b,         \* clients
    x, y          \* a row that is deleted, a row that is updated

(* All rows belong to the first data source. *)
FirstDsn == [r \in Rows |-> 1]

(* Every client deletes x and updates y. *)
DeleteXUpdateY == {[by |-> c, row |-> r, del |-> r = x] : c \in Clients, r \in Rows}

Symmetry == Permutations(Clients)
=============================================================================
