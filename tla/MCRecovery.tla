----------------------------- MODULE MCRecovery -----------------------------
(* Instances of Recovery for TLC. *)
EXTENDS Recovery, TLC

Symmetry == Permutations(Items)

\* Two transactions that write and two updates, one checkpoint before the
\* first crash and one after it.
FewRecords == "UPDATE" :> 2 @@ "TRANS_BEGIN" :> 2 @@ "BEGIN_CHKPT" :> 3
=============================================================================
