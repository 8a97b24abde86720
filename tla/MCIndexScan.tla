---------------------------- MODULE MCIndexScan ----------------------------
(* Instances of IndexScan for TLC. *)
EXTENDS IndexScan

\* Three records share a key.
Keys6 == <<1, 2, 2, 2, 3, 4>>
Keys7 == <<1, 2, 2, 2, 3, 4, 5>>
=============================================================================
