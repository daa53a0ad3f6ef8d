-------------------------- MODULE MCOrderNumberStore --------------------------
(* OrderNumberStore with a handful of calls, one crash and one I/O error. *)
EXTENDS OrderNumberStore
=============================================================================
