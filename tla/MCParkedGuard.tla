--------------------------- MODULE MCParkedGuard ---------------------------
(* The steps at which a kill leaves nothing half-done. *)
EXTENDS ParkedGuard

SafeSteps == {"push", "ready", "restore", "pop"}
=============================================================================
