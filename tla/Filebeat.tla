------------------------------ MODULE Filebeat ------------------------------
(***************************************************************************)
(* The filebeat process around the output of HttpOutput: what a crash      *)
(* loses, what the registry keeps, and what is sent again.                 *)
(*                                                                         *)
(* filebeat/main.go says how it works: "registrar: records positions of    *)
(* files read" and "input uses the registrar information, on restart, to   *)
(* determine where in each file to restart a harvester".  The registrar is *)
(* Beats' own; here it is a position in the one file the batches are read  *)
(* from, in the order of their numbers.  The process dies by itself, or by *)
(* the panic of makeEvent, and the wrapper starts it again (Supervisor).   *)
(***************************************************************************)
EXTENDS HttpOutput

CONSTANTS
  LastBatch,   \* the batches are 1 .. LastBatch, as they are in the file
  MaxCrashes   \* bound: how often the process dies

ASSUME FilebeatAssumption ==
  /\ LastBatch \in Nat /\ Batches = 1 .. LastBatch
  /\ MaxCrashes \in Nat

VARIABLES
  alive,     \* the process runs
  crashes,   \* how often it died
  registry,  \* the batches up to this one are recorded as done
  poison,    \* events whose timestamp, in UTC, is out of the years 0 to 9999
  replayed,  \* events that were stored, but not recorded, when the process died
  failed     \* events that makeEvent has failed to encode

procVars == <<alive, crashes, registry, poison, replayed, failed>>
fvars == <<vars, procVars>>

-----------------------------------------------------------------------------
\* The worker is at makeEvent, with all the events of the body to be.
Encodes(w) == pc[w] = "publish" /\ connected[active[w]]

\* makeEvent cannot marshal such an event: eventMap stays nil, and the
\* assignment of its first field panics, before anything is sent.
Panics(w) == Encodes(w) /\ Body(w) \cap poison # {}

\* A step of HttpOutput, by a process that runs.
Runs == alive /\ UNCHANGED procVars

WorkerRuns(w)   == Runs /\ ~Panics(w) /\ WorkerStep(w)
ReceiverRuns(w) == Runs /\ Respond(w)
NetworkRuns(w)  == Runs /\ Misbehave(w)

\* What does not need the process.
OutageEnds == Settle /\ UNCHANGED procVars
Elsewhere  == (\E S \in late : LateStore(S)) /\ UNCHANGED procVars

\* Whether a harvester starts at or before the batch.
ReadAgainAll(b) == TRUE                                             \* mutant
ReadAgain(b) == b > registry

\* The process is gone with all it had in memory: the next one reads what the
\* registry does not record.  Nobody sees the answers of the requests under
\* way, which may still reach a receiver.
Dies ==
  LET inFlight == {w \in Workers : pc[w] = "wait"}
      unseen   == {w \in inFlight : answer[w] = "sent"}
  IN
  /\ alive /\ crashes < MaxCrashes
  /\ alive' = FALSE /\ crashes' = crashes + 1
  /\ replayed' = replayed \cup {e \in stored : e[1] > registry}
  /\ unsure' = unsure \cup UNION {Body(w) : w \in inFlight}
  /\ \E W \in SUBSET unseen : late' = late \cup {Body(w) : w \in W}
  /\ loc'    = [b \in Batches |-> IF ReadAgain(b) THEN "queue" ELSE "acked"]
  /\ ttl'    = [b \in Batches |-> InitialTTL]
  /\ first'  = [b \in Batches |-> 1]
  /\ pc'     = [w \in Workers |-> "idle"]
  /\ wconn'  = [w \in Workers |-> FALSE]
  /\ active' = [w \in Workers |-> IF LoadBalance THEN w ELSE NoHost]
  /\ cur'    = [w \in Workers |-> NoBatch]
  /\ at'     = [w \in Workers |-> 1]
  /\ connected' = [h \in Hosts |-> FALSE]
  /\ answer' = [w \in Workers |-> "none"]
  /\ UNCHANGED <<registry, poison, stored, dup, rejected, tries, calm, misled>>

\* Killed, out of memory, a fault of Beats; or the panic of one worker.
Crash == Dies /\ UNCHANGED failed
Panic(w) ==
  /\ Panics(w) /\ Dies
  /\ failed' = failed \cup (Body(w) \cap poison)

\* The wrapper's goroutine sees the exit and starts the next process.
Restart ==
  /\ ~alive
  /\ alive' = TRUE
  /\ UNCHANGED <<vars, crashes, registry, poison, replayed, failed>>

\* The pipeline passes acknowledgements on in the order of the events, and the
\* registrar writes them down.
PersistAny ==                                                       \* mutant
  /\ alive
  /\ \E b \in Batches : b > registry /\ loc[b] \in {"acked", "dropped"} /\ registry' = b
  /\ UNCHANGED <<vars, alive, crashes, poison, replayed, failed>>
Persist ==
  /\ alive /\ registry < LastBatch
  /\ loc[registry + 1] \in {"acked", "dropped"}
  /\ registry' = registry + 1
  /\ UNCHANGED <<vars, alive, crashes, poison, replayed, failed>>

-----------------------------------------------------------------------------
FilebeatInit ==
  /\ Init
  /\ alive = TRUE /\ crashes = 0 /\ registry = 0
  /\ replayed = {} /\ failed = {}
  /\ poison = {} \/ \E e \in Events : poison = {e}

FilebeatNext ==
  \/ \E w \in Workers : WorkerRuns(w) \/ ReceiverRuns(w) \/ NetworkRuns(w) \/ Panic(w)
  \/ OutageEnds \/ Elsewhere
  \/ Crash \/ Restart \/ Persist

FilebeatSpec == FilebeatInit /\ [][FilebeatNext]_fvars

\* The Go scheduler runs every worker, the backoff timer fires, a receiver that
\* works answers, and the outage ends; the wrapper starts the process again (what
\* Supervisor's StaysUp is about), and the registrar gets to write.
FilebeatFairSpec ==
  /\ FilebeatSpec
  /\ \A w \in Workers : WF_fvars(WorkerRuns(w)) /\ WF_fvars(ReceiverRuns(w))
  /\ WF_fvars(OutageEnds)
  /\ WF_fvars(Restart) /\ WF_fvars(Persist)

-----------------------------------------------------------------------------
(* Properties                                                              *)

Recorded == (1 .. registry) \X Index

\* What is recorded as done was stored or refused for good, or a receiver
\* redirected it, or, with batch_publish, its request had no complete answer:
\* whenever the process dies, all else that it forgets is read again (at least
\* once).
RegistryTrails ==
  Recorded \subseteq Settled \cup misled \cup (IF BatchPublish THEN unsure ELSE {})

\* Through any number of restarts an event is stored twice only if one of its
\* requests had no complete answer, or the process died between its storing and
\* the record of it.  What the registry records is never sent again.
DuplicatesExplained == dup \subseteq unsure \cup replayed

\* docs/architecture.md: "JSON encoding failures are treated as non-retryable",
\* and client.go where it looks for them: "don't retry unencodable values".  An
\* event that failed to be encoded does not come to makeEvent again.
NotRetried == \A w \in Workers : Encodes(w) => Body(w) \cap failed = {}

\* What the code does with an event that cannot be encoded: it is neither sent
\* nor given up; the process dies of it each time it gets there, and the registry
\* never passes it, nor what follows it.
StuckAtPoison ==
  \A e \in poison : e \notin Settled \cup misled \cup unsure /\ e \notin Recorded

\* Without such an event, and once the outage and the crashes end, everything
\* is acknowledged and comes to be recorded.
AllRecorded == poison = {} => <>(registry = LastBatch)
=============================================================================
