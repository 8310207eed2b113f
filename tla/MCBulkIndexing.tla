--------------------------- MODULE MCBulkIndexing ---------------------------
(* Instances of BulkIndexing for TLC.                                      *)
EXTENDS BulkIndexing, TLC

Symmetry == Permutations(Docs) \cup Permutations(Requests)

=============================================================================
