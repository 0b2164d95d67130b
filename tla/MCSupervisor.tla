---------------------------- MODULE MCSupervisor ----------------------------
(* The values Supervisor is checked with are all in the configurations.    *)
EXTENDS Supervisor
=============================================================================
