---------------------------- MODULE MCRotatingLog ----------------------------
(* The values RotatingLog is checked with.                                 *)
EXTENDS RotatingLog

\* logging.max_size left out, negative, and set to less than the default.
SomeSettings == {0, -1, 2, 3}
=============================================================================
