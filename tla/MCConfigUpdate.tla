--------------------------- MODULE MCConfigUpdate ---------------------------
(* The values ConfigUpdate is checked with are all in the configuration.   *)
EXTENDS ConfigUpdate
=============================================================================
