--------------------------- MODULE MCModuleWatcher ---------------------------
(* The values ModuleWatcher is checked with are all in the configurations. *)
EXTENDS ModuleWatcher
=============================================================================
