--------------------------- MODULE MCServiceControl ---------------------------
(* ServiceControl with a bound on every external event. *)
EXTENDS ServiceControl
=============================================================================
