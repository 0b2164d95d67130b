--------------------------- MODULE MCScriptManager ---------------------------
(* The values ScriptManager is checked with.                               *)
EXTENDS ScriptManager
=============================================================================
