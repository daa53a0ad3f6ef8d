----------------------------- MODULE MCSendOrder ------------------------------
(* SendOrder with two or three requests and each kind of importer. *)
EXTENDS SendOrder, TLC

\* Requests differ in nothing but their names.
RequestSymmetry == Permutations(Requests)
=============================================================================
