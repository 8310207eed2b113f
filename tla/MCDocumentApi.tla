---------------------------- MODULE MCDocumentApi ----------------------------
(* DocumentApi for TLC: requests that ask for the same are alike. *)
EXTENDS DocumentApi, TLC

RequestSymmetry == Permutations(Requests)

=============================================================================
