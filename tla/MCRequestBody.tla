--------------------------- MODULE MCRequestBody ---------------------------
(* The values RequestBody is checked with are all in the configurations.   *)
EXTENDS RequestBody
=============================================================================
