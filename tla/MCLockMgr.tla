----------------------------- MODULE MCLockMgr -----------------------------
(* Instances of LockMgr for TLC. *)
EXTENDS LockMgr

\* Transactions that are treated alike are interchangeable in safety runs.
Symmetry == Permutations(RU) \cup Permutations(Trans \ RU)
=============================================================================
