------------------------------ MODULE MCSettings ------------------------------
(* Settings with a few clicks on either window. *)
EXTENDS Settings
=============================================================================
