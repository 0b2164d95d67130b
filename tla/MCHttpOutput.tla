---------------------------- MODULE MCHttpOutput ----------------------------
(* The values HttpOutput is checked with.                                  *)
EXTENDS HttpOutput, TLC

\* max_retries: -1, the retries are not counted.
Forever == -1

\* The batches are interchangeable, and so are the hosts.  Sound for safety
\* only: a run with a liveness property has no symmetry.
Symmetry == Permutations(Batches) \cup Permutations(Hosts)
=============================================================================
