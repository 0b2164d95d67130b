----------------------------- MODULE MCFilebeat -----------------------------
(* The values Filebeat is checked with.                                    *)
EXTENDS Filebeat

\* max_retries: -1, the retries are not counted.
Forever == -1

\* The batches, in the order of the file.
Numbers == 1 .. LastBatch
=============================================================================
