--------------------------- MODULE Filebeat_proofs ---------------------------
(***************************************************************************)
(* Proofs about Filebeat, for any number of batches, workers and deaths:   *)
(* what the registry may record, and what an event does that cannot be     *)
(* encoded.                                                                *)
(***************************************************************************)
EXTENDS Filebeat, HttpOutput_proofs

\* A step is one of HttpOutput, in which no worker sends what cannot be
\* encoded; the end of the process; its restart; or a record.
LEMMA ProcessSteps ==
  ASSUME TypeInv, [FilebeatNext]_fvars
  PROVE  \/ /\ [Next]_vars /\ UNCHANGED <<registry, poison>>
            /\ \A w \in Workers : pc[w] = "publish" /\ pc'[w] = "wait" => ~Panics(w)
         \/ Dies
         \/ Persist
<1> DEFINE Outputs ==
       /\ [Next]_vars /\ UNCHANGED <<registry, poison>>
       /\ \A w \in Workers : pc[w] = "publish" /\ pc'[w] = "wait" => ~Panics(w)
<1>1. ASSUME NEW v \in Workers, WorkerRuns(v) PROVE Outputs
  <2>1. WorkerStep(v) /\ ~Panics(v) /\ UNCHANGED <<registry, poison>>
    BY <1>1 DEF WorkerRuns, Runs, procVars
  <2>2. ASSUME NEW w \in Workers, pc[w] = "publish", pc'[w] = "wait" PROVE w = v
    BY <2>1, <2>2 DEF WorkerStep, Connect, Take, NotConnected, Post, Published,
                      PublishRejected, PublishRefused, EndBackoff, Fail, Advance,
                      TypeInv, TypeOK
  <2> QED BY <2>1, <2>2 DEF Next
<1>2. ASSUME NEW v \in Workers, ReceiverRuns(v) \/ NetworkRuns(v) PROVE Outputs
  <2>1. Respond(v) \/ Misbehave(v)
    BY <1>2 DEF ReceiverRuns, NetworkRuns
  <2>2. UNCHANGED <<registry, poison>>
    BY <1>2 DEF ReceiverRuns, NetworkRuns, Runs, procVars
  <2>3. ASSUME NEW w \in Workers, pc[w] = "publish" PROVE pc'[w] # "wait"
    BY <2>1, <2>3 DEF Respond, Accept, Reject, Misbehave, Refuse, OtherAnswers,
                      AnswerCutShort, NetworkError, AfterBrokenAnswer, Fail, Advance,
                      workerVars, TypeInv, TypeOK
  <2> QED BY <2>1, <2>2, <2>3 DEF Next
<1>3. ASSUME NEW S \in late, LateStore(S), UNCHANGED procVars PROVE Outputs
  BY <1>3 DEF Next, LateStore, workerVars, procVars
<1>4. ASSUME Settle, UNCHANGED procVars PROVE Outputs
  BY <1>4 DEF Next, Settle, workerVars, procVars
<1>5. ASSUME Restart \/ UNCHANGED fvars PROVE Outputs
  BY <1>5 DEF Restart, fvars, vars, workerVars, procVars
<1> QED
  BY <1>1, <1>2, <1>3, <1>4, <1>5
     DEF FilebeatNext, Panic, Crash, OutageEnds, Elsewhere

-----------------------------------------------------------------------------
(* The registry                                                            *)

\* What the registry has passed was settled, or had no answer.
RecordInv ==
  /\ registry \in 0 .. LastBatch
  /\ Recorded \subseteq Settled \cup Unanswered

\* The output's own facts hold in every process, and give-ups do not occur.
ProcessInv == Base /\ PassedInv /\ KeptInv /\ RecordInv

\* The batches are numbered from 1.
LEMMA BatchesTyped == LastBatch \in Nat /\ Batches = 1 .. LastBatch
BY FilebeatAssumption DEF FilebeatAssumption

\* Where retries are not counted, a new batch cannot run out of them.
LEMMA NeverRunsOut == ~Counted => Guaranteed \/ InitialTTL = 0
BY ConfigAssumption DEF ConfigAssumption, Counted, InitialTTL

\* The first process starts with nothing recorded.
LEMMA ProcessInit == ~Counted /\ FilebeatInit => ProcessInv
<1> SUFFICES ASSUME ~Counted, FilebeatInit PROVE ProcessInv
  OBVIOUS
<1>1. Init /\ registry = 0
  BY DEF FilebeatInit
<1>2. Base /\ PassedInv
  BY <1>1, BaseInit, PassedInit
<1>3. KeptInv
  BY <1>1, NeverRunsOut DEF Init, KeptInv
<1>4. RecordInv
  BY <1>1, BatchesTyped DEF RecordInv, Recorded
<1> QED BY <1>2, <1>3, <1>4 DEF ProcessInv

\* The next process starts with idle workers and batches that nobody has.
LEMMA DeathBase ==
  ASSUME Base, Dies
  PROVE  Base'
<1> USE DEF Dies
<1>1. TypeInv'
  <2>1. TypeInv
    BY DEF Base
  <2>2. UNION {Body(w) : w \in {v \in Workers : pc[v] = "wait"}} \subseteq Events
    BY <2>1, BodyTyped
  <2>3. unsure' \subseteq Events
    BY <2>1, <2>2 DEF TypeInv, TypeOK
  <2>4. late' \subseteq SUBSET Events
    BY <2>1, BodyTyped DEF TypeInv, TypeOK
  <2>5. TypeOK'
    <3>1. loc' \in [Batches -> {"queue", "out", "acked", "dropped"}]
      OBVIOUS
    <3>2. ttl' \in [Batches -> Int] /\ first' \in [Batches -> Index]
      BY ConstantsTyped
    <3>3. /\ pc' \in [Workers -> {"idle", "publish", "wait", "backoff"}]
          /\ wconn' \in [Workers -> BOOLEAN]
          /\ cur' \in [Workers -> Batches \cup {NoBatch}]
          /\ at' \in [Workers -> Index]
      BY ConstantsTyped
    <3>4. active' \in [Workers -> Hosts \cup {NoHost}]
      BY DEF Workers
    <3>5. /\ connected' \in [Hosts -> BOOLEAN]
          /\ answer' \in [Workers -> {"none", "sent", "ok", "rejected", "refused", "redirected"}]
      OBVIOUS
    <3>6. UNCHANGED <<stored, dup, rejected, tries, calm, misled>>
      OBVIOUS
    <3> QED BY <2>1, <2>3, <2>4, <3>1, <3>2, <3>3, <3>4, <3>5, <3>6 DEF TypeInv, TypeOK
  <2>6. ASSUME NEW w \in Workers PROVE Holding(w)'
    BY DEF Holding
  <2> QED BY <2>5, <2>6 DEF TypeInv
<1>2. OneOwner' /\ LoopInv'
  BY ConstantsTyped DEF OneOwner, LoopInv
<1>3. AnswerInv'
  BY DEF Base, AnswerInv
<1> QED BY <1>1, <1>2, <1>3 DEF Base

\* A death keeps the histories and the registry, and all that it leaves behind
\* the loop are the recorded batches.
LEMMA DeathKeeps ==
  ASSUME ~Counted, ProcessInv, Dies
  PROVE  ProcessInv'
<1> USE DEF Dies
<1>1. Base'
  BY DeathBase DEF ProcessInv
<1>2. (Settled \cup Unanswered) \subseteq (Settled \cup Unanswered)'
  BY DEF Settled, Unanswered
<1>3. RecordInv'
  BY <1>2 DEF ProcessInv, RecordInv, Recorded
<1>4. PassedInv'
  <2> SUFFICES ASSUME NEW b \in Batches, NEW i \in Index, Behind(b, i)'
               PROVE  <<b, i>> \in (Settled \cup Unanswered)'
    BY DEF PassedInv, Index
  <2>1. loc'[b] = "acked"
    BY ConstantsTyped DEF Behind, Index
  <2>2. b <= registry
    BY <2>1, BatchesTyped DEF ReadAgain, ProcessInv, RecordInv
  <2>3. <<b, i>> \in Recorded
    BY <2>2, BatchesTyped DEF Recorded, ProcessInv, RecordInv
  <2> QED BY <2>3, <1>2 DEF ProcessInv, RecordInv
<1>5. KeptInv'
  BY NeverRunsOut DEF KeptInv
<1> QED BY <1>1, <1>3, <1>4, <1>5 DEF ProcessInv

\* A record is of a batch that was acknowledged, all of which is behind.
LEMMA PersistKeeps ==
  ASSUME ProcessInv, Persist
  PROVE  ProcessInv'
<1>1. UNCHANGED vars
  BY DEF Persist
<1>2. UNCHANGED <<loc, ttl, first, pc, cur, at, wconn, active, connected, answer, late,
                  stored, dup, rejected, unsure, misled, tries, calm>>
  BY <1>1 DEF vars, batchVars, workerVars, netVars, history
<1>3. Base'
  BY <1>1, BaseNext DEF ProcessInv
<1>4. PassedInv'
  BY <1>1, PassedNext DEF ProcessInv
<1>5. KeptInv'
  BY <1>2 DEF ProcessInv, KeptInv
<1>6. registry + 1 \in Batches /\ registry' = registry + 1 /\ registry' \in 0 .. LastBatch
  BY BatchesTyped DEF Persist, ProcessInv, RecordInv
<1>7. loc[registry + 1] = "acked"
  BY <1>6 DEF Persist, ProcessInv, KeptInv
<1>8. ASSUME NEW i \in Index PROVE <<registry + 1, i>> \in Settled \cup Unanswered
  BY <1>6, <1>7 DEF ProcessInv, PassedInv, Behind
<1>9. Recorded' \subseteq Settled \cup Unanswered
  <2> SUFFICES ASSUME NEW b \in 1 .. registry + 1, NEW i \in Index
               PROVE  <<b, i>> \in Settled \cup Unanswered
    BY <1>6 DEF Recorded, Index
  <2>1. CASE b = registry + 1
    BY <2>1, <1>8
  <2>2. CASE b # registry + 1
    BY <2>2, BatchesTyped DEF ProcessInv, RecordInv, Recorded
  <2> QED BY <2>1, <2>2
<1>10. (Settled \cup Unanswered)' = Settled \cup Unanswered
  BY <1>2 DEF Settled, Unanswered
<1> QED BY <1>3, <1>4, <1>5, <1>6, <1>9, <1>10 DEF ProcessInv, RecordInv

\* The facts survive every step, deaths and restarts included.
LEMMA ProcessNext == ~Counted /\ ProcessInv /\ [FilebeatNext]_fvars => ProcessInv'
<1> SUFFICES ASSUME ~Counted, ProcessInv, [FilebeatNext]_fvars PROVE ProcessInv'
  OBVIOUS
<1>1. ASSUME [Next]_vars, UNCHANGED registry PROVE ProcessInv'
  <2>1. Base' /\ PassedInv' /\ KeptInv'
    BY <1>1, BaseNext, PassedNext, KeptNext DEF ProcessInv
  <2>2. (Settled \cup Unanswered) \subseteq (Settled \cup Unanswered)'
    BY <1>1, Effects DEF ProcessInv, Base, Settled, Unanswered
  <2>3. RecordInv'
    BY <1>1, <2>2 DEF ProcessInv, RecordInv, Recorded
  <2> QED BY <2>1, <2>3 DEF ProcessInv
<1> QED BY <1>1, ProcessSteps, DeathKeeps, PersistKeeps DEF ProcessInv, Base

\* So they hold throughout.
LEMMA ProcessAlways ==
  ASSUME ~Counted
  PROVE  FilebeatSpec => []ProcessInv
<1>1. FilebeatInit => ProcessInv
  BY ProcessInit
<1>2. ProcessInv /\ [FilebeatNext]_fvars => ProcessInv'
  BY ProcessNext
<1> QED BY <1>1, <1>2, PTL DEF FilebeatSpec

\* Retried for ever: what the registry records was stored or refused for good by a
\* receiver, or redirected by it, or, in batch mode, had a request without a
\* complete answer, and nothing else, through any number of deaths of filebeat.
THEOREM TrailsCorrect ==
  ASSUME ~Counted
  PROVE  FilebeatSpec => []RegistryTrails
<1>1. ProcessInv => RegistryTrails
  BY DEF ProcessInv, RecordInv, RegistryTrails, Unanswered
<1> QED BY <1>1, ProcessAlways, PTL

\* One by one, and where no receiver redirects, only what a receiver stored or
\* refused for good is recorded.
THEOREM RecordedCorrect ==
  ASSUME ~BatchPublish, ~Redirects, ~Counted
  PROVE  FilebeatSpec => [](Recorded \subseteq Settled)
<1>1. ProcessInv => Recorded \subseteq Settled
  BY DEF ProcessInv, RecordInv, Base, AnswerInv, Unanswered
<1> QED BY <1>1, ProcessAlways, PTL

\* What an acknowledgement means in one process it means in all of them: what the
\* next process takes for acknowledged was accounted for, too.
THEOREM AccountedThroughDeaths ==
  ASSUME ~Counted
  PROVE  FilebeatSpec => []AckedAccounted
<1>1. ProcessInv => AckedAccounted
  BY DEF ProcessInv, PassedInv, AckedAccounted, Behind, Unanswered
<1> QED BY <1>1, ProcessAlways, PTL

-----------------------------------------------------------------------------
(* What is sent again                                                      *)

\* A stored event that a death makes the next process read again is noted.
LEMMA ReplayNext ==
  Base /\ Doubt(replayed) /\ [FilebeatNext]_fvars => (Base /\ Doubt(replayed))'
<1> SUFFICES ASSUME Base, Doubt(replayed), [FilebeatNext]_fvars
             PROVE  (Base /\ Doubt(replayed))'
  OBVIOUS
<1>1. ASSUME [Next]_vars, UNCHANGED replayed PROVE (Base /\ Doubt(replayed))'
  <2>1. Base'
    BY <1>1, BaseNext
  <2>2. PICK R : R = replayed
    OBVIOUS
  <2>3. Doubt(R)'
    BY <1>1, <2>2, DoubtNext
  <2>4. replayed' = R
    BY <1>1, <2>2
  <2> QED BY <2>1, <2>3, <2>4
<1>2. CASE Dies
  <2>1. Base'
    BY <1>2, DeathBase
  <2>2. dup' \subseteq unsure' \cup replayed'
    BY <1>2 DEF Dies, Doubt
  <2>3. \A S \in late' : S \subseteq unsure'
    BY <1>2 DEF Dies, Doubt
  <2>4. ASSUME NEW b \in Batches, NEW i \in Index, <<b, i>> \in stored', ~Behind(b, i)'
        PROVE  <<b, i>> \in replayed'
    BY <1>2, <2>4 DEF Dies, ReadAgain, Behind
  <2> QED BY <2>1, <2>2, <2>3, <2>4 DEF Doubt
<1>3. ([Next]_vars /\ UNCHANGED replayed) \/ Dies
  BY DEF FilebeatNext, fvars, procVars, WorkerRuns, ReceiverRuns, NetworkRuns, Runs, Next,
         Panic, Crash, OutageEnds, Elsewhere, Restart, Persist
<1> QED BY <1>1, <1>2, <1>3

\* In every mode, through any number of deaths of filebeat, an event is stored
\* twice only if one of its requests had no complete answer, or filebeat died
\* between its storing and the record of it.
THEOREM DuplicatesCorrect == FilebeatSpec => []DuplicatesExplained
<1>1. FilebeatInit => Base /\ Doubt(replayed)
  BY BaseInit DEF FilebeatInit, Init, Doubt
<1>2. Doubt(replayed) => DuplicatesExplained
  BY DEF Doubt, DuplicatesExplained
<1> QED BY <1>1, <1>2, ReplayNext, PTL DEF FilebeatSpec

-----------------------------------------------------------------------------
(* An event that cannot be encoded                                         *)

\* The event left the client, or a receiver or the client said so.
WentOut(e) ==
  \/ e \in Settled \cup misled \cup unsure
  \/ \E S \in late : e \in S
  \/ \E w \in Workers : pc[w] = "wait" /\ e \in Body(w)

PoisonInv == \A e \in poison : ~WentOut(e)

\* What the histories gain was in a request.
LEMMA HistoriesGain ==
  ASSUME TypeInv, [Next]_vars, NEW e \in (Settled \cup misled \cup unsure)'
  PROVE  WentOut(e)
<1> USE DEF TypeInv, TypeOK, Holding, Settled, WentOut
<1>1. ASSUME NEW v \in Workers, WorkerStep(v) PROVE WentOut(e)
  BY <1>1 DEF WorkerStep, Connect, Take, NotConnected, Post, Published, PublishRejected,
              PublishRefused, EndBackoff, history
<1>2. ASSUME NEW v \in Workers, Respond(v) PROVE WentOut(e)
  BY <1>2 DEF Respond, Accept, Reject, Stores
<1>3. ASSUME NEW v \in Workers, Misbehave(v) PROVE WentOut(e)
  BY <1>3 DEF Misbehave, Refuse, OtherAnswers, AnswerCutShort, NetworkError, history
<1>4. ASSUME NEW S \in late, LateStore(S) PROVE WentOut(e)
  BY <1>4 DEF LateStore, Stores
<1>5. ASSUME Settle \/ UNCHANGED vars PROVE WentOut(e)
  BY <1>5 DEF Settle, vars, history
<1> QED BY <1>1, <1>2, <1>3, <1>4, <1>5 DEF Next

\* An event goes out by the Post of the request that carries it, and in no
\* other way.
LEMMA GoesOut ==
  ASSUME TypeInv, OneOwner, [Next]_vars, NEW e, WentOut(e)', ~WentOut(e)
  PROVE  \E w \in Workers : Post(w) /\ pc'[w] = "wait" /\ e \in Body(w)
<1>1. e \notin (Settled \cup misled \cup unsure)'
  BY HistoriesGain
<1>2. ASSUME NEW S \in late', e \in S PROVE FALSE
  BY <1>2, Effects DEF WentOut, Fresh
<1>3. PICK w \in Workers : pc'[w] = "wait" /\ e \in Body(w)'
  BY <1>1, <1>2 DEF WentOut
<1>4. pc[w] # "wait"
  BY <1>3, BodyStable DEF WentOut
<1>5. Post(w)
  BY <1>3, <1>4, RetrySteps DEF Take, Passes, GivesBack, Advance, Fail, Post, TypeInv, TypeOK
<1>6. Body(w)' = Body(w)
  BY <1>5 DEF Post, Body, batchVars
<1> QED BY <1>3, <1>5, <1>6

\* makeEvent stands before the Post; and a death sends nothing new.
LEMMA PoisonNext ==
  Base /\ PoisonInv /\ [FilebeatNext]_fvars => PoisonInv'
<1> SUFFICES ASSUME Base, PoisonInv, [FilebeatNext]_fvars,
                    NEW e \in poison', WentOut(e)'
             PROVE  FALSE
  BY DEF PoisonInv
<1>1. ASSUME [Next]_vars, UNCHANGED poison,
             \A w \in Workers : pc[w] = "publish" /\ pc'[w] = "wait" => ~Panics(w)
      PROVE  FALSE
  <2>1. PICK w \in Workers : Post(w) /\ pc'[w] = "wait" /\ e \in Body(w)
    BY <1>1, GoesOut DEF Base, PoisonInv
  <2> QED BY <1>1, <2>1 DEF Post, Panics, Encodes
<1>2. CASE Dies
  <2>1. ~WentOut(e)
    BY <1>2 DEF Dies, PoisonInv
  <2>2. e \notin (Settled \cup misled \cup unsure)'
    BY <1>2, <2>1 DEF Dies, WentOut, Settled
  <2>3. ASSUME NEW S \in late', e \in S PROVE FALSE
    BY <1>2, <2>1, <2>3 DEF Dies, WentOut
  <2>4. ASSUME NEW w \in Workers PROVE pc'[w] # "wait"
    BY <1>2 DEF Dies
  <2> QED BY <2>2, <2>3, <2>4 DEF WentOut
<1>3. CASE Persist
  <2>1. UNCHANGED <<poison, first, pc, cur, at, late, stored, rejected, misled, unsure>>
    BY <1>3 DEF Persist, vars, batchVars, workerVars, netVars, history
  <2>2. WentOut(e)' <=> WentOut(e)
    BY <2>1 DEF WentOut, Settled, Body
  <2> QED BY <2>1, <2>2 DEF PoisonInv
<1> QED BY <1>1, <1>2, <1>3, ProcessSteps DEF Base

\* Retried for ever, an event that cannot be encoded is neither sent nor
\* recorded, in either mode, however often filebeat dies of it.
THEOREM StuckCorrect ==
  ASSUME ~Counted
  PROVE  FilebeatSpec => []StuckAtPoison
<1>1. ProcessInv /\ PoisonInv => StuckAtPoison
  BY DEF ProcessInv, RecordInv, PoisonInv, WentOut, StuckAtPoison, Unanswered
<1>2. FilebeatInit => ProcessInv /\ PoisonInv
  <2>1. FilebeatInit => PoisonInv
    BY DEF FilebeatInit, Init, PoisonInv, WentOut, Settled
  <2> QED BY <2>1, ProcessInit
<1>3. ProcessInv /\ PoisonInv /\ [FilebeatNext]_fvars => (ProcessInv /\ PoisonInv)'
  BY ProcessNext, PoisonNext DEF ProcessInv
<1> QED BY <1>1, <1>2, <1>3, PTL DEF FilebeatSpec

-----------------------------------------------------------------------------
(* What the liveness of the registry rests on                              *)

\* While there is something to record, the wrapper can restart the process, the
\* registrar can write, or a worker that does not panic can go on.
RecordInHand ==
  poison = {} /\ registry < LastBatch =>
    \/ ~alive
    \/ loc[registry + 1] \in {"acked", "dropped"}
    \/ \E w \in Workers : CanStep(w) /\ ~Panics(w)

\* A death leaves no batch behind: what is not recorded is in the hands of the process
\* that runs, or of the wrapper, in every mode and after any number of deaths.
THEOREM RecordInHandCorrect == FilebeatSpec => []RecordInHand
<1> DEFINE I == Base /\ registry \in 0 .. LastBatch
<1>1. FilebeatInit => I
  BY BaseInit, BatchesTyped DEF FilebeatInit
<1>2. I /\ [FilebeatNext]_fvars => I'
  <2> SUFFICES ASSUME I, [FilebeatNext]_fvars PROVE I'
    OBVIOUS
  <2>1. CASE [Next]_vars /\ UNCHANGED registry
    BY <2>1, BaseNext
  <2>2. CASE Dies
    BY <2>2, DeathBase DEF Dies
  <2>3. CASE Persist
    <3>1. Base'
      BY <2>3, BaseNext DEF Persist
    <3>2. registry' \in 0 .. LastBatch
      BY <2>3, BatchesTyped DEF Persist
    <3> QED BY <3>1, <3>2
  <2> QED BY <2>1, <2>2, <2>3, ProcessSteps DEF Base
<1>3. I => RecordInHand
  <2> SUFFICES ASSUME Base, registry \in 0 .. LastBatch, poison = {}, registry < LastBatch,
                      loc[registry + 1] \notin {"acked", "dropped"}
      PROVE  \E w \in Workers : CanStep(w) /\ ~Panics(w)
    BY DEF RecordInHand
  <2>1. registry + 1 \in Batches
    BY BatchesTyped
  <2>2. loc[registry + 1] \in {"queue", "out"}
    BY <2>1 DEF Base, TypeInv, TypeOK
  <2>3. BatchInHand
    BY InHands DEF Base
  <2>4. \E w \in Workers : CanStep(w)
    BY <2>1, <2>2, <2>3 DEF BatchInHand
  <2> QED BY <2>4 DEF Panics
<1> HIDE DEF I
<1> QED BY <1>1, <1>2, <1>3, PTL DEF FilebeatSpec
=============================================================================
