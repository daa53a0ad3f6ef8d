--------------------------- MODULE MCPostOrderHook ----------------------------
(* PostOrderHook with settings that print and mail, only print, or no hook. *)
EXTENDS PostOrderHook

MCPdfConfigs ==
  {[hooked |-> hooked, remote |-> TRUE, print |-> TRUE, email |-> hooked] : hooked \in BOOLEAN}
  \cup {[hooked |-> TRUE, remote |-> TRUE, print |-> TRUE, email |-> FALSE]}
=============================================================================
