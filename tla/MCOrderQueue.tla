----------------------------- MODULE MCOrderQueue -----------------------------
(* OrderQueue with a few requests and a channel they can fill. *)
EXTENDS OrderQueue, TLC

\* Requests differ in nothing but their names.
RequestSymmetry == Permutations(Requests)
=============================================================================
