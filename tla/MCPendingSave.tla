--------------------------- MODULE MCPendingSave ---------------------------
(* TLC instance of PendingSave: the actor and another task, every image.  *)
EXTENDS PendingSave

MCKinds == {"config", "text", "info"}

=============================================================================
