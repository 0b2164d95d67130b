-------------------------- MODULE HttpOutput_proofs --------------------------
(***************************************************************************)
(* Proofs about HttpOutput, for any hosts, batches, batch length, retries  *)
(* and mode.                                                               *)
(***************************************************************************)
EXTENDS HttpOutput, TLAPS

\* The configuration, unfolded once for the provers.
LEMMA ConstantsTyped ==
  /\ BatchLen \in Nat /\ BatchLen >= 1 /\ 1 \in Index
  /\ MaxRetries \in Int /\ InitialTTL \in Int /\ TriesCap \in Int
  /\ NoBatch \notin Batches
BY ConfigAssumption DEF ConfigAssumption, InitialTTL, TriesCap, Index

-----------------------------------------------------------------------------
(* Type correctness                                                        *)

\* What a worker holds while it publishes.
Holding(w) ==
  /\ pc[w] \in {"publish", "wait"} => cur[w] \in Batches
  /\ pc[w] \in {"idle", "backoff"} => cur[w] = NoBatch
  /\ answer[w] # "none" <=> pc[w] = "wait"

TypeInv == TypeOK /\ \A w \in Workers : Holding(w)

\* A body holds events.
LEMMA BodyTyped ==
  ASSUME TypeInv, NEW w \in Workers, pc[w] = "wait" \/ pc[w] = "publish"
  PROVE  Body(w) \in SUBSET Events
BY ConstantsTyped DEF TypeInv, TypeOK, Holding, Body, Events, Index

\* The next turn of the loop keeps the types, and what the workers hold.
LEMMA AdvanceTyped ==
  ASSUME TypeInv, NEW w \in Workers, pc[w] = "wait", Advance(w), Over(w)
  PROVE  /\ loc' \in [Batches -> {"queue", "out", "acked", "dropped"}]
         /\ cur' \in [Workers -> Batches \cup {NoBatch}]
         /\ at' \in [Workers -> Index]
         /\ pc' \in [Workers -> {"idle", "publish", "wait", "backoff"}]
         /\ answer' \in [Workers -> {"none", "sent", "ok", "rejected", "refused", "redirected"}]
         /\ \A v \in Workers : Holding(v)'
<1> USE ConstantsTyped DEF TypeInv, TypeOK, Advance, Over, Index
<1>1. CASE BatchPublish \/ at[w] = BatchLen
  BY <1>1 DEF Holding
<1>2. CASE ~(BatchPublish \/ at[w] = BatchLen)
  BY <1>2 DEF Holding
<1> QED BY <1>1, <1>2

\* So does giving the rest of the batch back.
LEMMA FailTyped ==
  ASSUME TypeInv, NEW w \in Workers, pc[w] \in {"publish", "wait"}, Fail(w),
         \/ Over(w)
         \/ pc[w] = "publish" /\ UNCHANGED answer
  PROVE  /\ loc' \in [Batches -> {"queue", "out", "acked", "dropped"}]
         /\ ttl' \in [Batches -> Int]
         /\ first' \in [Batches -> Index]
         /\ cur' \in [Workers -> Batches \cup {NoBatch}]
         /\ at' \in [Workers -> Index]
         /\ pc' \in [Workers -> {"idle", "publish", "wait", "backoff"}]
         /\ answer' \in [Workers -> {"none", "sent", "ok", "rejected", "refused", "redirected"}]
         /\ \A v \in Workers : Holding(v)'
<1> USE ConstantsTyped DEF TypeInv, TypeOK
<1>1. ReducedTTL(ttl[cur[w]]) \in Int
  BY DEF Holding, ReducedTTL
<1>2. cur[w] \in Batches /\ at[w] \in Index
  BY DEF Holding
<1>3. /\ ttl' \in [Batches -> Int]
      /\ first' \in [Batches -> Index]
      /\ loc' \in [Batches -> {"queue", "out", "acked", "dropped"}]
  BY <1>1, <1>2 DEF Fail, Left
<1>4. /\ cur' = [cur EXCEPT ![w] = NoBatch]
      /\ at' = [at EXCEPT ![w] = 1]
      /\ pc' = [pc EXCEPT ![w] = "backoff"]
      /\ answer' = [answer EXCEPT ![w] = "none"]
  BY DEF Fail, Over, Holding
<1>5. /\ cur' \in [Workers -> Batches \cup {NoBatch}]
      /\ at' \in [Workers -> Index]
      /\ pc' \in [Workers -> {"idle", "publish", "wait", "backoff"}]
      /\ answer' \in [Workers -> {"none", "sent", "ok", "rejected", "refused", "redirected"}]
  BY <1>4
<1>6. \A v \in Workers : Holding(v)'
  BY <1>4 DEF Holding
<1> QED BY <1>3, <1>5, <1>6

\* The types hold at the start, ...
LEMMA TypeInit == Init => TypeInv
<1> SUFFICES ASSUME Init PROVE TypeInv
  OBVIOUS
<1>1. active \in [Workers -> Hosts \cup {NoHost}]
  BY DEF Init, Workers
<1> QED BY <1>1, ConstantsTyped DEF Init, TypeInv, TypeOK, Holding

\* ... and every step of a worker, a receiver or the network keeps them.
LEMMA TypeNext == TypeInv /\ [Next]_vars => TypeInv'
<1> SUFFICES ASSUME TypeInv, [Next]_vars PROVE TypeInv'
  OBVIOUS
<1> USE ConstantsTyped
<1>1. ASSUME NEW w \in Workers, Connect(w) PROVE TypeInv'
  <2>1. NextHosts(w) \subseteq Hosts
    BY DEF NextHosts, Workers
  <2> QED BY <1>1, <2>1 DEF TypeInv, TypeOK, Connect, Holding, batchVars, netVars, history
<1>2. ASSUME NEW w \in Workers, NEW b \in Batches, Take(w, b) PROVE TypeInv'
  BY <1>2 DEF TypeInv, TypeOK, Take, Holding, netVars, history
<1>3. ASSUME NEW w \in Workers, NotConnected(w) PROVE TypeInv'
  BY <1>3, FailTyped DEF TypeInv, TypeOK, NotConnected, Disconnect, Fail, netVars, history
<1>4. ASSUME NEW w \in Workers, Post(w) PROVE TypeInv'
  BY <1>4 DEF TypeInv, TypeOK, Post, Holding, batchVars
<1>5. ASSUME NEW w \in Workers, Published(w) PROVE TypeInv'
  BY <1>5, AdvanceTyped DEF TypeInv, TypeOK, Published, Advance, history
<1>6. ASSUME NEW w \in Workers, PublishRejected(w) PROVE TypeInv'
  BY <1>6, AdvanceTyped DEF TypeInv, TypeOK, PublishRejected, Disconnect, Advance, history
<1>7. ASSUME NEW w \in Workers, PublishRefused(w) PROVE TypeInv'
  BY <1>7, FailTyped DEF TypeInv, TypeOK, PublishRefused, Disconnect, Fail, history
<1>8. ASSUME NEW w \in Workers, AnswerCutShort(w) \/ NetworkError(w) PROVE TypeInv'
  <2>1. pc[w] = "wait" /\ Disconnect(w) /\ Over(w) /\ AfterBrokenAnswer(w)
    BY <1>8 DEF AnswerCutShort, NetworkError
  <2>2. /\ unsure' \in SUBSET Events /\ late' \in SUBSET SUBSET Events
        /\ UNCHANGED <<stored, dup, rejected, misled, tries, calm>>
    BY <1>8, <2>1, BodyTyped DEF AnswerCutShort, NetworkError, TypeInv, TypeOK
  <2>3. CASE Advance(w)
    BY <2>1, <2>2, <2>3, AdvanceTyped DEF TypeInv, TypeOK, Disconnect, Advance
  <2>4. CASE Fail(w)
    BY <2>1, <2>2, <2>4, FailTyped DEF TypeInv, TypeOK, Disconnect, Fail
  <2> QED BY <2>1, <2>3, <2>4 DEF AfterBrokenAnswer
<1>9. ASSUME NEW w \in Workers, EndBackoff(w) PROVE TypeInv'
  BY <1>9 DEF TypeInv, TypeOK, EndBackoff, Holding, batchVars, netVars, history
<1>10. ASSUME NEW w \in Workers, Respond(w) \/ Refuse(w) PROVE TypeInv'
  <2>1. pc[w] = "wait"
    BY <1>10 DEF Respond, Accept, Reject, Refuse, OtherAnswers, TypeInv, Holding
  <2>2. Body(w) \in SUBSET Events
    BY <2>1, BodyTyped
  <2> QED BY <1>10, <2>1, <2>2 DEF Respond, Accept, Reject, Refuse, OtherAnswers, Stores,
             TypeInv, TypeOK, Holding, batchVars, workerVars, history
<1>11. ASSUME NEW S \in late, LateStore(S) PROVE TypeInv'
  BY <1>11 DEF LateStore, Stores, TypeInv, TypeOK, Holding, batchVars, workerVars
<1>12. CASE Settle
  BY <1>12 DEF Settle, TypeInv, TypeOK, Holding, batchVars, workerVars, netVars, history
<1>13. CASE UNCHANGED vars
  BY <1>13 DEF vars, TypeInv, TypeOK, Holding, batchVars, workerVars, netVars, history
<1> QED BY <1>1, <1>2, <1>3, <1>4, <1>5, <1>6, <1>7, <1>8, <1>9, <1>10, <1>11, <1>12, <1>13
        DEF Next, WorkerStep, Misbehave

\* Every variable keeps its type, in every mode and for every instance.
THEOREM TypeCorrect == Spec => []TypeOK
<1>1. Spec => []TypeInv
  BY TypeInit, TypeNext, PTL DEF Spec
<1> QED BY <1>1, PTL DEF TypeInv

-----------------------------------------------------------------------------
(* One owner for every batch that Publish holds                            *)

\* The worker takes its request for published: on an answer, or, with
\* batch_publish, without one.
Passes(w) ==
  /\ pc[w] = "wait" /\ Advance(w)
  /\ \/ answer[w] \in {"ok", "redirected", "rejected"}
     \/ BatchPublish /\ Body(w) \subseteq unsure'

\* The worker gives the rest back: nothing was sent, or it was refused or
\* redirected, or it does not know.
GivesBack(w) ==
  /\ pc[w] \in {"publish", "wait"} /\ Fail(w)
  /\ answer[w] \in {"none", "refused", "redirected"} \/ Body(w) \subseteq unsure'

\* The steps that move a batch, or the loop over its events.
LEMMA Moves ==
  ASSUME TypeInv, [Next]_vars
  PROVE  \/ \E w \in Workers : \E b \in Batches : Take(w, b)
         \/ \E w \in Workers : Passes(w)
         \/ \E w \in Workers : GivesBack(w)
         \/ UNCHANGED <<loc, first, cur, at>>
<1> USE DEF Passes, GivesBack
<1>1. ASSUME NEW w \in Workers, WorkerStep(w)
      PROVE  \/ \E b \in Batches : Take(w, b)
             \/ Passes(w)
             \/ GivesBack(w)
             \/ UNCHANGED <<loc, first, cur, at>>
  BY <1>1 DEF WorkerStep, Connect, NotConnected, Post, Published, PublishRejected,
              PublishRefused, RefusedAnswer, EndBackoff, batchVars, TypeInv, Holding
<1>2. ASSUME NEW w \in Workers, Misbehave(w)
      PROVE  \/ Passes(w)
             \/ GivesBack(w)
             \/ UNCHANGED <<loc, first, cur, at>>
  BY <1>2 DEF Misbehave, Refuse, OtherAnswers, AnswerCutShort, NetworkError,
              AfterBrokenAnswer, batchVars, workerVars
<1>3. ASSUME NEW w \in Workers, Respond(w) PROVE UNCHANGED <<loc, first, cur, at>>
  BY <1>3 DEF Respond, Accept, Reject, batchVars, workerVars
<1>4. ASSUME NEW S \in late, LateStore(S) PROVE UNCHANGED <<loc, first, cur, at>>
  BY <1>4 DEF LateStore, batchVars, workerVars
<1>5. CASE Settle \/ UNCHANGED vars
  BY <1>5 DEF Settle, vars, batchVars, workerVars
<1> QED BY <1>1, <1>2, <1>3, <1>4, <1>5 DEF Next

\* Publish takes a batch from the queue and hands it on exactly once.
LEMMA OwnerNext == TypeInv /\ OneOwner /\ [Next]_vars => OneOwner'
<1> SUFFICES ASSUME TypeInv, OneOwner, [Next]_vars PROVE OneOwner'
  OBVIOUS
<1> USE ConstantsTyped DEF TypeInv, TypeOK, OneOwner
<1>1. ASSUME NEW w \in Workers, NEW b \in Batches, Take(w, b) PROVE OneOwner'
  <2>1. cur[w] = NoBatch /\ \A v \in Workers : cur[v] # b
    BY <1>1 DEF Take, Queued, Holding
  <2>2. loc' = [loc EXCEPT ![b] = "out"] /\ cur' = [cur EXCEPT ![w] = b]
    BY <1>1 DEF Take
  <2> QED BY <2>1, <2>2
<1>2. ASSUME NEW w \in Workers, Passes(w) PROVE OneOwner'
  <2>1. cur[w] \in Batches
    BY <1>2 DEF Passes, Holding
  <2>2. CASE BatchPublish \/ at[w] = BatchLen
    <3>1. loc' = [loc EXCEPT ![cur[w]] = "acked"] /\ cur' = [cur EXCEPT ![w] = NoBatch]
      BY <1>2, <2>2 DEF Passes, Advance
    <3> QED BY <2>1, <3>1
  <2>3. CASE ~(BatchPublish \/ at[w] = BatchLen)
    BY <1>2, <2>3 DEF Passes, Advance
  <2> QED BY <2>2, <2>3
<1>3. ASSUME NEW w \in Workers, GivesBack(w) PROVE OneOwner'
  <2>1. cur[w] \in Batches
    BY <1>3 DEF GivesBack, Holding
  <2>2. PICK l \in {"queue", "dropped"} :
          loc' = [loc EXCEPT ![cur[w]] = l] /\ cur' = [cur EXCEPT ![w] = NoBatch]
    BY <1>3 DEF GivesBack, Fail
  <2> QED BY <2>1, <2>2
<1>4. CASE UNCHANGED <<loc, first, cur, at>>
  BY <1>4
<1> QED BY <1>1, <1>2, <1>3, <1>4, Moves

\* No step loses a batch or has two workers publish it.
THEOREM OwnerCorrect == Spec => []OneOwner
<1>1. Init => OneOwner
  BY DEF Init, OneOwner
<1>2. TypeInv /\ OneOwner /\ [Next]_vars => (TypeInv /\ OneOwner)'
  BY TypeNext, OwnerNext
<1> QED BY <1>1, <1>2, TypeInit, PTL DEF Spec

-----------------------------------------------------------------------------
(* What was published is behind the loop                                   *)

\* The events of a batch that the output takes for published.
Behind(b, i) ==
  \/ loc[b] = "acked" \/ i < first[b]
  \/ \E w \in Workers : cur[w] = b /\ i < at[w]

\* A worker starts from the first event that is left and never goes back; with
\* batch_publish there is no loop.
LoopInv ==
  \A w \in Workers : cur[w] \in Batches =>
    first[cur[w]] <= at[w] /\ (BatchPublish => at[w] = first[cur[w]])

\* The loop variable starts at the first event left and moves only forward;
\* batch_publish does not move it.
LEMMA LoopNext == TypeInv /\ OneOwner /\ LoopInv /\ [Next]_vars => LoopInv'
<1> SUFFICES ASSUME TypeInv, OneOwner, LoopInv, [Next]_vars PROVE LoopInv'
  OBVIOUS
<1> USE ConstantsTyped DEF TypeInv, TypeOK, LoopInv, Index
<1>1. ASSUME NEW w \in Workers, NEW b \in Batches, Take(w, b) PROVE LoopInv'
  BY <1>1 DEF Take
<1>2. ASSUME NEW w \in Workers, Passes(w) PROVE LoopInv'
  BY <1>2 DEF Passes, Advance
<1>3. ASSUME NEW w \in Workers, GivesBack(w) PROVE LoopInv'
  BY <1>3 DEF GivesBack, Fail, Left, OneOwner, Holding
<1>4. CASE UNCHANGED <<loc, first, cur, at>>
  BY <1>4
<1> QED BY <1>1, <1>2, <1>3, <1>4, Moves

\* What was behind stays behind, and all that a step adds is the body of the
\* request it takes for published.
LEMMA BehindNext ==
  ASSUME TypeInv, OneOwner, LoopInv, [Next]_vars, NEW b \in Batches, NEW i \in Index
  PROVE  /\ Behind(b, i) => Behind(b, i)'
         /\ Behind(b, i)' => \/ Behind(b, i)
                             \/ \E w \in Workers : Passes(w) /\ <<b, i>> \in Body(w)
         /\ \A w \in Workers : Passes(w) /\ <<b, i>> \in Body(w) => Behind(b, i)'
<1> USE ConstantsTyped DEF TypeInv, TypeOK, LoopInv, Behind, Index
<1>1. \A w \in Workers : Passes(w) /\ <<b, i>> \in Body(w) => Behind(b, i)'
  BY DEF Passes, Advance, Body, Holding
<1>2. ASSUME NEW w \in Workers, NEW c \in Batches, Take(w, c)
      PROVE  Behind(b, i)' <=> Behind(b, i)
  BY <1>2 DEF Take, Queued, Holding
<1>3. ASSUME NEW w \in Workers, Passes(w)
      PROVE  /\ Behind(b, i) => Behind(b, i)'
             /\ Behind(b, i)' => Behind(b, i) \/ <<b, i>> \in Body(w)
  <2>1. cur[w] \in Batches
    BY <1>3 DEF Passes, Holding
  <2>2. CASE BatchPublish \/ at[w] = BatchLen
    BY <1>3, <2>1, <2>2 DEF Passes, Advance, Body
  <2>3. CASE ~(BatchPublish \/ at[w] = BatchLen)
    BY <1>3, <2>1, <2>3 DEF Passes, Advance, Body
  <2> QED BY <2>2, <2>3
<1>4. ASSUME NEW w \in Workers, GivesBack(w)
      PROVE  Behind(b, i)' <=> Behind(b, i)
  <2>1. cur[w] \in Batches /\ loc[cur[w]] = "out"
    BY <1>4 DEF GivesBack, Holding, OneOwner
  <2>2. /\ first' = [first EXCEPT ![cur[w]] = at[w]]
        /\ cur' = [cur EXCEPT ![w] = NoBatch]
        /\ at' = [at EXCEPT ![w] = 1]
    BY <1>4 DEF GivesBack, Fail, Left
  <2>3. loc'[b] = "acked" <=> loc[b] = "acked"
    BY <1>4, <2>1 DEF GivesBack, Fail
  <2> QED BY <2>1, <2>2, <2>3
<1>5. ASSUME UNCHANGED <<loc, first, cur, at>> PROVE Behind(b, i)' <=> Behind(b, i)
  BY <1>5
<1> HIDE DEF TypeInv, TypeOK, LoopInv, Behind, Index
<1>6. Behind(b, i) => Behind(b, i)'
  BY <1>2, <1>3, <1>4, <1>5, Moves
<1>7. Behind(b, i)' => \/ Behind(b, i)
                       \/ \E w \in Workers : Passes(w) /\ <<b, i>> \in Body(w)
  BY <1>2, <1>3, <1>4, <1>5, Moves
<1> QED BY <1>1, <1>6, <1>7

\* A request keeps its body until it is over.
LEMMA BodyStable ==
  ASSUME TypeInv, OneOwner, [Next]_vars, NEW w \in Workers,
         pc[w] = "wait", pc'[w] = "wait"
  PROVE  Body(w)' = Body(w)
<1> USE DEF TypeInv, TypeOK
<1>1. ASSUME NEW v \in Workers, NEW b \in Batches, Take(v, b) PROVE Body(w)' = Body(w)
  BY <1>1 DEF Take, Body, batchVars
<1>2. ASSUME NEW v \in Workers, Passes(v) PROVE Body(w)' = Body(w)
  <2>1. v # w /\ UNCHANGED first
    BY <1>2 DEF Passes, Advance
  <2>2. cur'[w] = cur[w] /\ at'[w] = at[w]
    BY <1>2, <2>1 DEF Passes, Advance
  <2> QED BY <2>1, <2>2 DEF Body
<1>3. ASSUME NEW v \in Workers, GivesBack(v) PROVE Body(w)' = Body(w)
  <2>1. v # w
    BY <1>3 DEF GivesBack, Fail
  <2>2. cur[v] # cur[w] /\ cur[v] \in Batches /\ cur[w] \in Batches
    BY <1>3, <2>1, ConstantsTyped DEF GivesBack, OneOwner, Holding
  <2>3. cur'[w] = cur[w] /\ at'[w] = at[w] /\ first'[cur[w]] = first[cur[w]]
    BY <1>3, <2>1, <2>2 DEF GivesBack, Fail
  <2> QED BY <2>3 DEF Body
<1>4. CASE UNCHANGED <<loc, first, cur, at>>
  BY <1>4 DEF Body
<1> QED BY <1>1, <1>2, <1>3, <1>4, Moves

-----------------------------------------------------------------------------
(* Nothing is acknowledged that was not settled                            *)

\* A receiver has not answered the request yet.
Fresh(w) == pc[w] = "wait" /\ answer[w] = "sent"

\* What the histories and the answers may gain in a step.
LEMMA Effects ==
  ASSUME TypeInv, [Next]_vars
  PROVE  /\ stored \subseteq stored' /\ rejected \subseteq rejected' /\ unsure \subseteq unsure'
         /\ misled \subseteq misled' /\ (misled = {} /\ ~Redirects => misled' = {})
         /\ \A w \in Workers :
              /\ answer'[w] = "ok" => answer[w] = "ok" \/ (Fresh(w) /\ Body(w) \subseteq stored')
              /\ answer'[w] = "rejected" => answer[w] = "rejected" \/ (Fresh(w) /\ Body(w) \subseteq rejected')
              /\ answer'[w] = "redirected" => answer[w] = "redirected" \/ (Fresh(w) /\ Body(w) \subseteq misled')
         /\ \/ UNCHANGED <<stored, dup>>
            \/ \E w \in Workers : Accept(w)
            \/ \E S \in late : LateStore(S)
         /\ \A S \in late' : \/ S \in late
                             \/ \E w \in Workers : /\ Fresh(w)
                                                   /\ S = Body(w) /\ S \subseteq unsure'
<1> DEFINE Goal(w) ==
       /\ answer'[w] = "ok" => answer[w] = "ok" \/ (Fresh(w) /\ Body(w) \subseteq stored')
       /\ answer'[w] = "rejected" => answer[w] = "rejected" \/ (Fresh(w) /\ Body(w) \subseteq rejected')
       /\ answer'[w] = "redirected" => answer[w] = "redirected" \/ (Fresh(w) /\ Body(w) \subseteq misled')
<1> USE DEF TypeInv, TypeOK
<1>1. ASSUME NEW v \in Workers, WorkerStep(v)
      PROVE  /\ UNCHANGED <<stored, dup, rejected, unsure, misled, late>>
             /\ answer' \in {answer, [answer EXCEPT ![v] = "none"], [answer EXCEPT ![v] = "sent"]}
  BY <1>1 DEF WorkerStep, Connect, Take, NotConnected, Post, Published, PublishRejected,
              PublishRefused, EndBackoff, Over, batchVars, netVars, history
<1>2. ASSUME NEW v \in Workers, AnswerCutShort(v) \/ NetworkError(v)
      PROVE  /\ UNCHANGED <<stored, dup, rejected, misled>> /\ unsure' = unsure \cup Body(v)
             /\ answer' = [answer EXCEPT ![v] = "none"] /\ pc[v] = "wait"
             /\ late' = late \/ (answer[v] = "sent" /\ late' = late \cup {Body(v)})
  BY <1>2 DEF AnswerCutShort, NetworkError, Over
<1>3. ASSUME NEW v \in Workers, Respond(v) \/ Refuse(v)
      PROVE  /\ UNCHANGED <<unsure, late>> /\ stored \subseteq stored' /\ rejected \subseteq rejected'
             /\ UNCHANGED <<stored, dup>> \/ Accept(v)
             /\ Fresh(v)
             /\ \/ answer' = [answer EXCEPT ![v] = "ok"] /\ Body(v) \subseteq stored'
                \/ answer' = [answer EXCEPT ![v] = "rejected"] /\ Body(v) \subseteq rejected'
                \/ answer' = [answer EXCEPT ![v] = "refused"]
                \/ answer' = [answer EXCEPT ![v] = "redirected"] /\ Body(v) \subseteq misled'
             /\ misled \subseteq misled' /\ (Redirects \/ UNCHANGED misled)
  BY <1>3 DEF Respond, Accept, Reject, Refuse, OtherAnswers, Stores, history, Fresh, Holding
<1>4. ASSUME NEW S \in late, LateStore(S)
      PROVE  /\ UNCHANGED <<rejected, unsure, misled, answer>> /\ late' \subseteq late
             /\ stored \subseteq stored'
  BY <1>4 DEF LateStore, Stores
<1>5. ASSUME Settle \/ UNCHANGED vars
      PROVE  UNCHANGED <<stored, dup, rejected, unsure, misled, answer, late>>
  BY <1>5 DEF Settle, vars, netVars, history
<1>6. /\ stored \subseteq stored' /\ rejected \subseteq rejected' /\ unsure \subseteq unsure'
      /\ misled \subseteq misled' /\ (misled = {} /\ ~Redirects => misled' = {})
  BY <1>1, <1>2, <1>3, <1>4, <1>5 DEF Next, Misbehave
<1>7. \A w \in Workers : Goal(w)
  BY <1>1, <1>2, <1>3, <1>4, <1>5 DEF Next, Misbehave
<1>8. \/ UNCHANGED <<stored, dup>>
      \/ \E w \in Workers : Accept(w)
      \/ \E S \in late : LateStore(S)
  BY <1>1, <1>2, <1>3, <1>5 DEF Next, Misbehave
<1>9. \A S \in late' : \/ S \in late
                       \/ \E w \in Workers : /\ Fresh(w)
                                             /\ S = Body(w) /\ S \subseteq unsure'
  BY <1>1, <1>2, <1>3, <1>4, <1>5 DEF Next, Misbehave, Fresh
<1> QED BY <1>6, <1>7, <1>8, <1>9

\* An answer that arrived is used, or lost with its request.
LEMMA AnswerKept ==
  ASSUME TypeInv, [Next]_vars, NEW w \in Workers, answer[w] = "ok"
  PROVE  Passes(w) \/ Body(w) \subseteq unsure' \/ answer'[w] = "ok"
<1> USE DEF TypeInv, TypeOK, Holding
<1>1. ASSUME NEW v \in Workers, WorkerStep(v) PROVE Passes(w) \/ answer'[w] = "ok"
  BY <1>1 DEF WorkerStep, Connect, Take, NotConnected, Post, Published, PublishRejected,
              PublishRefused, RefusedAnswer, EndBackoff, Over, netVars, Passes
<1>2. ASSUME NEW v \in Workers, Respond(v) \/ Misbehave(v)
      PROVE  Body(w) \subseteq unsure' \/ answer'[w] = "ok"
  BY <1>2 DEF Respond, Accept, Reject, Misbehave, Refuse, OtherAnswers, AnswerCutShort,
              NetworkError, Over
<1>3. ASSUME NEW S \in late, LateStore(S) PROVE answer'[w] = "ok"
  BY <1>3 DEF LateStore
<1>4. ASSUME Settle \/ UNCHANGED vars PROVE answer'[w] = "ok"
  BY <1>4 DEF Settle, vars, netVars
<1> QED BY <1>1, <1>2, <1>3, <1>4 DEF Next

\* An answer in transit says what the receiver did.
AnswerInv ==
  /\ \A w \in Workers :
       /\ answer[w] = "ok" => Body(w) \subseteq stored
       /\ answer[w] = "rejected" => Body(w) \subseteq rejected
       /\ answer[w] = "redirected" => Body(w) \subseteq misled
  /\ Redirects \/ misled = {}

Base == TypeInv /\ OneOwner /\ LoopInv /\ AnswerInv

\* The facts about batches, loops and answers hold at the start, ...
LEMMA BaseInit == Init => Base
BY TypeInit, ConstantsTyped DEF Init, Base, OneOwner, LoopInv, AnswerInv

\* ... and are kept together by every step.
LEMMA BaseNext == Base /\ [Next]_vars => Base'
<1> SUFFICES ASSUME Base, [Next]_vars PROVE Base'
  OBVIOUS
<1>1. TypeInv' /\ OneOwner' /\ LoopInv'
  BY TypeNext, OwnerNext, LoopNext DEF Base
<1>2. ASSUME NEW w \in Workers, answer'[w] \in {"ok", "rejected", "redirected"}
      PROVE  /\ answer'[w] = "ok" => Body(w)' \subseteq stored'
             /\ answer'[w] = "rejected" => Body(w)' \subseteq rejected'
             /\ answer'[w] = "redirected" => Body(w)' \subseteq misled'
  <2>1. pc'[w] = "wait"
    BY <1>1, <1>2 DEF TypeInv, Holding
  <2>2. pc[w] = "wait"
    BY <1>2, Effects DEF Base, TypeInv, Holding, Fresh
  <2> QED BY <1>2, <2>1, <2>2, BodyStable, Effects DEF Base, AnswerInv
<1>3. (Redirects \/ misled = {})'
  BY Effects DEF Base, AnswerInv
<1> QED BY <1>1, <1>2, <1>3 DEF Base, AnswerInv

\* What is acknowledged without an answer to its POST: with batch_publish what
\* had none, and what was redirected.
Unanswered == (IF BatchPublish THEN unsure ELSE {}) \cup misled

\* Every event behind the loop was settled; this is what makes the
\* acknowledgement, the suffix given back and the loop agree.
PassedInv ==
  \A b \in Batches, i \in Index : Behind(b, i) => <<b, i>> \in Settled \cup Unanswered

\* Nothing is behind at the start.
LEMMA PassedInit == Init => PassedInv
BY ConstantsTyped DEF Init, PassedInv, Behind, Index

\* What comes to be behind was settled, or its POST has no answer.
LEMMA PassedNext == Base /\ PassedInv /\ [Next]_vars => PassedInv'
<1> SUFFICES ASSUME Base, PassedInv, [Next]_vars,
                    NEW b \in Batches, NEW i \in Index, Behind(b, i)'
             PROVE  <<b, i>> \in (Settled \cup Unanswered)'
  BY DEF PassedInv, Index
<1>1. Settled \cup Unanswered \subseteq (Settled \cup Unanswered)'
  BY Effects DEF Base, Settled, Unanswered
<1>2. CASE Behind(b, i)
  BY <1>1, <1>2 DEF PassedInv
<1>3. ASSUME NEW w \in Workers, Passes(w), <<b, i>> \in Body(w)
      PROVE  <<b, i>> \in (Settled \cup Unanswered)'
  <2>1. CASE answer[w] \in {"ok", "redirected", "rejected"}
    <3>1. <<b, i>> \in Settled \cup Unanswered
      BY <1>3, <2>1 DEF Base, AnswerInv, Settled, Unanswered
    <3> QED BY <3>1, <1>1
  <2>2. CASE BatchPublish /\ Body(w) \subseteq unsure'
    BY <1>3, <2>2 DEF Unanswered
  <2> QED BY <1>3, <2>1, <2>2 DEF Passes
<1> QED BY <1>2, <1>3, BehindNext DEF Base

\* So the facts hold throughout.
LEMMA BasePassed == Spec => [](Base /\ PassedInv)
<1>1. Init => Base /\ PassedInv
  BY BaseInit, PassedInit
<1>2. Base /\ PassedInv /\ [Next]_vars => (Base /\ PassedInv)'
  BY BaseNext, PassedNext
<1> QED BY <1>1, <1>2, PTL DEF Spec

\* Events published one by one: every event of an acknowledged batch was
\* stored by a receiver or refused by it with 400 or 500, whatever fails.
THEOREM AckedCorrect ==
  ASSUME ~BatchPublish, ~Redirects
  PROVE  Spec => []AckedSettled
<1>1. Base /\ PassedInv => AckedSettled
  BY DEF Base, AnswerInv, PassedInv, AckedSettled, Behind, Unanswered
<1> QED BY <1>1, BasePassed, PTL

\* In every mode, an event of an acknowledged batch was settled, or went out in
\* a request that ended without a complete answer or was redirected.
THEOREM AckedAccountedCorrect == Spec => []AckedAccounted
<1>1. PassedInv => AckedAccounted
  BY DEF PassedInv, AckedAccounted, Behind, Unanswered
<1> QED BY <1>1, BasePassed, PTL

-----------------------------------------------------------------------------
(* Order                                                                   *)

\* An event follows only settled ones.
Follows(b, j) == \A i \in 1 .. j - 1 : <<b, i>> \in Settled

\* So it is with the requests that may still arrive.
OrderInv ==
  /\ InOrder
  /\ \A S \in late : \A b \in Batches, j \in Index : <<b, j>> \in S => Follows(b, j)

\* A body goes out only when all that precede it were settled, and a late
\* request was such a body.
LEMMA OrderNext ==
  ~BatchPublish /\ ~Redirects /\ Base /\ PassedInv /\ OrderInv /\ [Next]_vars => OrderInv'
<1> SUFFICES ASSUME ~BatchPublish, ~Redirects, Base, PassedInv, OrderInv, [Next]_vars
             PROVE  OrderInv'
  OBVIOUS
<1>1. Settled \subseteq Settled'
  BY Effects DEF Base, Settled
<1>2. ASSUME NEW w \in Workers, pc[w] = "wait", NEW b \in Batches, NEW j \in Index,
             <<b, j>> \in Body(w)
      PROVE  Follows(b, j)
  <2>1. cur[w] = b /\ at[w] = j
    BY <1>2 DEF Body
  <2>2. \A i \in 1 .. j - 1 : i \in Index /\ Behind(b, i)
    BY <2>1, ConstantsTyped DEF Behind, Index
  <2> QED BY <2>2 DEF PassedInv, Unanswered, Base, AnswerInv, Follows
<1>3. ASSUME NEW b \in Batches, NEW j \in Index, <<b, j>> \in stored' PROVE Follows(b, j)
  <2>1. CASE <<b, j>> \in stored
    BY <2>1 DEF OrderInv, InOrder, Follows
  <2>2. ASSUME NEW w \in Workers, Accept(w), <<b, j>> \notin stored PROVE Follows(b, j)
    BY <1>2, <1>3, <2>2 DEF Accept, Stores, Base, TypeInv, Holding
  <2>3. ASSUME NEW S \in late, LateStore(S), <<b, j>> \notin stored PROVE Follows(b, j)
    BY <1>3, <2>3 DEF LateStore, Stores, OrderInv
  <2> QED BY <1>3, <2>1, <2>2, <2>3, Effects DEF Base
<1>4. ASSUME NEW S \in late', NEW b \in Batches, NEW j \in Index, <<b, j>> \in S
      PROVE  Follows(b, j)
  <2>1. CASE S \in late
    BY <1>4, <2>1 DEF OrderInv
  <2>2. ASSUME NEW w \in Workers, Fresh(w), S = Body(w) PROVE Follows(b, j)
    BY <1>2, <1>4, <2>2 DEF Fresh
  <2> QED BY <2>1, <2>2, Effects DEF Base
<1> QED BY <1>1, <1>3, <1>4 DEF OrderInv, InOrder, Follows

\* Published one by one, an event is stored only after all that precede it in
\* its batch were settled.
THEOREM OrderCorrect ==
  ASSUME ~BatchPublish, ~Redirects
  PROVE  Spec => []InOrder
<1>1. Init => OrderInv
  BY DEF Init, OrderInv, InOrder
<1>2. Base /\ PassedInv /\ OrderInv /\ [Next]_vars => OrderInv'
  BY OrderNext
<1>3. OrderInv => InOrder
  BY DEF OrderInv
<1> QED BY <1>1, <1>2, <1>3, BasePassed, PTL DEF Spec

-----------------------------------------------------------------------------
(* Duplicates                                                              *)

\* A stored event that may be sent again is in doubt, or one of R, which are
\* none while the process lives (see Filebeat_proofs).
Doubt(R) ==
  /\ dup \subseteq unsure \cup R
  /\ \A S \in late : S \subseteq unsure
  /\ \A b \in Batches, i \in Index : <<b, i>> \in stored =>
       \/ <<b, i>> \in unsure \cup R
       \/ Behind(b, i)
       \/ \E w \in Workers : answer[w] = "ok" /\ <<b, i>> \in Body(w)

\* An event that was stored and may be sent again is in doubt.
LEMMA DoubtNext ==
  ASSUME NEW R, Base, Doubt(R), [Next]_vars
  PROVE  Doubt(R)'
<1>1. \A S \in late' : S \subseteq unsure'
  BY Effects DEF Base, Doubt
<1>2. ASSUME NEW w \in Workers, Fresh(w), NEW b \in Batches, NEW i \in Index,
             <<b, i>> \in Body(w), <<b, i>> \in stored
      PROVE  <<b, i>> \in unsure \cup R
  <2>1. ~Behind(b, i)
    <3>1. cur[w] = b /\ loc[b] = "out" /\ \A v \in Workers : cur[v] = b => v = w
      BY <1>2, ConstantsTyped DEF Fresh, Body, Base, TypeInv, Holding, OneOwner
    <3>2. first[b] <= at[w] /\ (BatchPublish => at[w] = first[b]) /\ first[b] \in Int /\ at[w] \in Int /\ i \in Int
      BY <3>1, ConstantsTyped DEF Base, TypeInv, TypeOK, LoopInv, Index
    <3>3. i >= first[b] /\ (BatchPublish \/ i = at[w])
      BY <1>2, <3>1, <3>2, ConstantsTyped DEF Body
    <3> QED BY <3>1, <3>2, <3>3 DEF Behind
  <2>2. ASSUME NEW v \in Workers, answer[v] = "ok", <<b, i>> \in Body(v) PROVE FALSE
    BY <1>2, <2>2, ConstantsTyped DEF Fresh, Body, Base, TypeInv, Holding, OneOwner
  <2> QED BY <1>2, <2>1, <2>2 DEF Doubt
<1>3. dup' \subseteq unsure' \cup R
  <2>1. ASSUME NEW w \in Workers, Accept(w) PROVE dup' \subseteq unsure \cup R
    <3>1. Fresh(w) /\ dup' = dup \cup (stored \cap Body(w))
      BY <2>1 DEF Accept, Stores, Fresh, Base, TypeInv, Holding
    <3>2. Body(w) \subseteq Batches \X Index
      BY <3>1, BodyTyped DEF Base, Fresh, Events
    <3> QED BY <1>2, <3>1, <3>2 DEF Doubt
  <2>2. ASSUME NEW S \in late, LateStore(S) PROVE dup' \subseteq unsure \cup R
    BY <2>2 DEF LateStore, Stores, Doubt
  <2> QED BY <2>1, <2>2, Effects DEF Base, Doubt
<1>4. ASSUME NEW b \in Batches, NEW i \in Index, <<b, i>> \in stored'
      PROVE  \/ <<b, i>> \in unsure' \cup R
             \/ Behind(b, i)'
             \/ \E w \in Workers : answer'[w] = "ok" /\ <<b, i>> \in Body(w)'
  <2>1. CASE <<b, i>> \in unsure \cup R \/ Behind(b, i)
    BY <2>1, Effects, BehindNext DEF Base
  <2>2. ASSUME NEW w \in Workers, answer[w] = "ok", <<b, i>> \in Body(w)
        PROVE  \/ <<b, i>> \in unsure'
               \/ Behind(b, i)'
               \/ answer'[w] = "ok" /\ <<b, i>> \in Body(w)'
    <3>1. \/ Passes(w)
          \/ Body(w) \subseteq unsure'
          \/ answer'[w] = "ok"
      BY <2>2, AnswerKept DEF Base
    <3>2. CASE Passes(w)
      BY <2>2, <3>2, BehindNext DEF Base
    <3>3. CASE answer'[w] = "ok"
      <4>1. pc[w] = "wait" /\ pc'[w] = "wait"
        BY <2>2, <3>3, TypeNext DEF Base, TypeInv, Holding
      <4> QED BY <2>2, <3>3, <4>1, BodyStable DEF Base
    <3> QED BY <2>2, <3>1, <3>2, <3>3
  <2>3. ASSUME NEW w \in Workers, Accept(w), <<b, i>> \notin stored
        PROVE  answer'[w] = "ok" /\ <<b, i>> \in Body(w)'
    BY <1>4, <2>3 DEF Accept, Stores, Body, batchVars, workerVars, Base, TypeInv, TypeOK
  <2>4. ASSUME NEW S \in late, LateStore(S), <<b, i>> \notin stored
        PROVE  <<b, i>> \in unsure'
    BY <1>4, <2>4 DEF LateStore, Stores, Doubt
  <2> QED BY <1>4, <2>1, <2>2, <2>3, <2>4, Effects DEF Base, Doubt
<1> QED BY <1>1, <1>3, <1>4 DEF Doubt

\* In every mode, an event is stored twice only if one of its requests ended
\* without a complete answer.
THEOREM NoDuplicateCorrect == Spec => []NoDuplicateWithoutDoubt
<1>1. Init => Base /\ Doubt({})
  BY BaseInit DEF Init, Doubt
<1>2. Base /\ Doubt({}) /\ [Next]_vars => (Base /\ Doubt({}))'
  BY BaseNext, DoubtNext
<1>3. Doubt({}) => NoDuplicateWithoutDoubt
  BY DEF Doubt, NoDuplicateWithoutDoubt
<1> QED BY <1>1, <1>2, <1>3, PTL DEF Spec

-----------------------------------------------------------------------------
(* Retries                                                                 *)

\* The steps that move a batch, count a request or end one.
LEMMA RetrySteps ==
  ASSUME TypeInv, [Next]_vars
  PROVE  \/ \E w \in Workers, b \in Batches : Take(w, b)
         \/ \E w \in Workers : Passes(w) /\ UNCHANGED tries
         \/ \E w \in Workers : GivesBack(w) /\ UNCHANGED tries
         \/ \E w \in Workers : Post(w)
         \/ /\ UNCHANGED <<loc, ttl, first, cur, at, tries>>
            /\ \A w \in Workers : pc'[w] = "wait" <=> pc[w] = "wait"
<1> USE DEF Passes, GivesBack
<1> DEFINE Quiet == /\ UNCHANGED <<loc, ttl, first, cur, at, tries>>
                    /\ \A w \in Workers : pc'[w] = "wait" <=> pc[w] = "wait"
<1>1. ASSUME NEW w \in Workers, WorkerStep(w)
      PROVE  \/ \E b \in Batches : Take(w, b)
             \/ Passes(w) /\ UNCHANGED tries
             \/ GivesBack(w) /\ UNCHANGED tries
             \/ Post(w)
             \/ Quiet
  <2>1. CASE Connect(w) \/ EndBackoff(w)
    BY <2>1 DEF Connect, EndBackoff, batchVars, history, TypeInv, TypeOK
  <2>2. CASE ~(Connect(w) \/ EndBackoff(w))
    BY <1>1, <2>2 DEF WorkerStep, NotConnected, Published, PublishRejected,
                      PublishRefused, RefusedAnswer, history, TypeInv, Holding
  <2> QED BY <2>1, <2>2
<1>2. ASSUME NEW w \in Workers, Misbehave(w)
      PROVE  \/ Passes(w) /\ UNCHANGED tries
             \/ GivesBack(w) /\ UNCHANGED tries
             \/ Quiet
  BY <1>2 DEF Misbehave, Refuse, OtherAnswers, AnswerCutShort, NetworkError,
              AfterBrokenAnswer, batchVars, workerVars, history
<1>3. ASSUME NEW w \in Workers, Respond(w) PROVE Quiet
  BY <1>3 DEF Respond, Accept, Reject, batchVars, workerVars
<1>4. ASSUME NEW S \in late, LateStore(S) PROVE Quiet
  BY <1>4 DEF LateStore, batchVars, workerVars
<1>5. CASE Settle \/ UNCHANGED vars
  BY <1>5 DEF Settle, vars, batchVars, workerVars, history
<1> QED BY <1>1, <1>2, <1>3, <1>4, <1>5 DEF Next

-----------------------------------------------------------------------------
(* max_retries bounds the requests                                         *)

\* Retries are counted, and may run out.
Counted == ~Guaranteed /\ MaxRetries >= 0

\* A request that is out was paid for by no retry yet.
Unpaid(w, i) == IF pc[w] = "wait" /\ <<cur[w], i>> \in Body(w) THEN 1 ELSE 0

\* What an event was sent and what its batch has left add up to no more than a
\* new batch has; an event behind the loop is not sent again.
BudgetInv ==
  /\ \A b \in Batches, i \in Index : tries[<<b, i>>] <= InitialTTL
  /\ \A b \in Batches : loc[b] \in {"queue", "out"} => ttl[b] >= 1
  /\ \A b \in Batches, i \in Index :
       loc[b] = "queue" /\ i >= first[b] => tries[<<b, i>>] + ttl[b] <= InitialTTL
  /\ \A w \in Workers, i \in Index :
       cur[w] \in Batches /\ i >= at[w] =>
         tries[<<cur[w], i>>] + ttl[cur[w]] <= InitialTTL + Unpaid(w, i)

\* A new batch has all its retries.
LEMMA BudgetInit == Counted /\ Init => BudgetInv
BY ConstantsTyped DEF Counted, Init, BudgetInv, InitialTTL, Events

\* A request takes one of what is left, and a retry pays for it.
LEMMA BudgetNext == Counted /\ Base /\ BudgetInv /\ [Next]_vars => BudgetInv'
<1> SUFFICES ASSUME Counted, Base, BudgetInv, [Next]_vars PROVE BudgetInv'
  OBVIOUS
<1> USE ConstantsTyped DEF Base, TypeInv, TypeOK, Index
<1>1. ASSUME NEW w \in Workers, NEW b \in Batches, Take(w, b) PROVE BudgetInv'
  <2>1. /\ loc' = [loc EXCEPT ![b] = "out"] /\ cur' = [cur EXCEPT ![w] = b]
        /\ at' = [at EXCEPT ![w] = first[b]] /\ pc' = [pc EXCEPT ![w] = "publish"]
        /\ UNCHANGED <<ttl, first, tries>> /\ loc[b] = "queue"
    BY <1>1 DEF Take, history, Queued
  <2>2. ASSUME NEW v \in Workers, v # w, NEW i \in Index PROVE Unpaid(v, i)' = Unpaid(v, i)
    BY <2>1, <2>2 DEF Unpaid, Body
  <2>3. \A i \in Index : Unpaid(w, i)' = 0
    BY <2>1 DEF Unpaid
  <2> QED BY <2>1, <2>2, <2>3 DEF BudgetInv
<1>2. ASSUME NEW w \in Workers, Passes(w), UNCHANGED tries PROVE BudgetInv'
  <2>1. cur[w] \in Batches /\ loc[cur[w]] = "out" /\ UNCHANGED <<ttl, first, tries>>
    BY <1>2 DEF Passes, Advance, Holding, OneOwner
  <2>2. ASSUME NEW v \in Workers, v # w, NEW i \in Index
        PROVE  cur'[v] = cur[v] /\ at'[v] = at[v] /\ Unpaid(v, i)' = Unpaid(v, i)
    BY <1>2, <2>1, <2>2 DEF Passes, Advance, Unpaid, Body
  <2>3. CASE BatchPublish \/ at[w] = BatchLen
    <3>1. loc' = [loc EXCEPT ![cur[w]] = "acked"] /\ cur' = [cur EXCEPT ![w] = NoBatch]
      BY <1>2, <2>3 DEF Passes, Advance
    <3> QED BY <2>1, <2>2, <3>1 DEF BudgetInv
  <2>4. CASE ~(BatchPublish \/ at[w] = BatchLen)
    <3>1. at' = [at EXCEPT ![w] = @ + 1] /\ pc' = [pc EXCEPT ![w] = "publish"] /\ UNCHANGED <<loc, cur>>
      BY <1>2, <2>4 DEF Passes, Advance
    <3>2. \A i \in Index : i >= at[w] + 1 => Unpaid(w, i) = 0
      BY <2>4 DEF Unpaid, Body
    <3>3. ASSUME NEW v \in Workers, NEW i \in Index, cur[v] \in Batches, i >= at'[v]
          PROVE  tries[<<cur[v], i>>] + ttl[cur[v]] <= InitialTTL + Unpaid(v, i)'
      <4>1. CASE v = w
        <5>1. i >= at[w] + 1 /\ i >= at[w] /\ Unpaid(w, i) = 0 /\ Unpaid(w, i)' = 0
          BY <3>1, <3>2, <3>3, <4>1 DEF Unpaid
        <5> QED BY <3>3, <4>1, <5>1 DEF BudgetInv
      <4>2. CASE v # w
        BY <2>2, <3>3, <4>2 DEF BudgetInv
      <4> QED BY <4>1, <4>2
    <3> QED BY <2>1, <3>1, <3>3 DEF BudgetInv
  <2> QED BY <2>3, <2>4
<1>3. ASSUME NEW w \in Workers, GivesBack(w), UNCHANGED tries PROVE BudgetInv'
  <2> DEFINE b == cur[w]
  <2>1. b \in Batches /\ loc[b] = "out" /\ ttl[b] >= 1
    BY <1>3 DEF GivesBack, Holding, OneOwner, BudgetInv
  <2>2. /\ first' = [first EXCEPT ![b] = at[w]]
        /\ ttl' = [ttl EXCEPT ![b] = ttl[b] - 1]
        /\ loc' = [loc EXCEPT ![b] = IF ttl[b] > 1 THEN "queue" ELSE "dropped"]
        /\ cur' = [cur EXCEPT ![w] = NoBatch]
        /\ at' = [at EXCEPT ![w] = 1]
        /\ pc' = [pc EXCEPT ![w] = "backoff"]
    <3>1. ReducedTTL(ttl[b]) = ttl[b] - 1 /\ (Alive(ttl[b]) <=> ttl[b] > 1)
      BY <2>1 DEF ReducedTTL, Alive, Counted
    <3>2. Fail(w)
      BY <1>3 DEF GivesBack
    <3> HIDE DEF Base, TypeInv, Index
    <3> QED BY <3>1, <3>2, <2>1 DEF Fail, Left
  <2>3. ASSUME NEW v \in Workers, v # w, cur[v] \in Batches, NEW i \in Index
        PROVE  /\ cur'[v] = cur[v] /\ at'[v] = at[v] /\ cur[v] # b
               /\ Unpaid(v, i)' = Unpaid(v, i)
    BY <2>1, <2>2, <2>3 DEF OneOwner, Unpaid, Body
  <2>4. \A i \in Index : i >= at[w] => tries[<<b, i>>] + ttl[b] <= InitialTTL + 1
    <3> SUFFICES ASSUME NEW i \in Index, i >= at[w]
                 PROVE  tries[<<b, i>>] + ttl[b] <= InitialTTL + 1
      OBVIOUS
    <3>1. Unpaid(w, i) \in {0, 1} /\ tries[<<b, i>>] \in Nat
      BY <2>1 DEF Unpaid, Events
    <3> QED BY <2>1, <3>1 DEF BudgetInv
  <2>5. \A c \in Batches, i \in Index : tries[<<c, i>>] \in Nat
    BY DEF Events
  <2> QED BY <1>3, <2>1, <2>2, <2>3, <2>4, <2>5 DEF BudgetInv
<1>4. ASSUME NEW w \in Workers, Post(w) PROVE BudgetInv'
  <2>1. cur[w] \in Batches /\ loc[cur[w]] = "out" /\ pc[w] = "publish"
    BY <1>4 DEF Post, Holding, OneOwner
  <2>2. /\ UNCHANGED <<loc, ttl, first, cur, at>> /\ pc' = [pc EXCEPT ![w] = "wait"]
        /\ \A v \in Workers : Body(v)' = Body(v)
    BY <1>4 DEF Post, batchVars, Body
  <2>3. ASSUME NEW c \in Batches, NEW i \in Index
        PROVE  /\ tries[<<c, i>>] \in Nat
               /\ <<c, i>> \notin Body(w) => tries'[<<c, i>>] = tries[<<c, i>>]
               /\ <<c, i>> \in Body(w) => c = cur[w] /\ i >= at[w] /\ tries'[<<c, i>>] <= tries[<<c, i>>] + 1
    BY <1>4, <2>1 DEF Post, Events, Body, LoopInv
  <2>4. ASSUME NEW i \in Index
        PROVE  Unpaid(w, i) = 0 /\ Unpaid(w, i)' = IF <<cur[w], i>> \in Body(w) THEN 1 ELSE 0
    BY <2>1, <2>2 DEF Unpaid
  <2>5. ASSUME NEW v \in Workers, v # w, cur[v] \in Batches, NEW i \in Index
        PROVE  cur[v] # cur[w] /\ Unpaid(v, i)' = Unpaid(v, i)
    BY <2>1, <2>2, <2>5 DEF OneOwner, Unpaid
  <2>6. \A c \in Batches, i \in Index : tries[<<c, i>>] \in Int /\ tries'[<<c, i>>] \in Int
    BY TypeNext DEF Events
  <2>7. \A c \in Batches, i \in Index : tries'[<<c, i>>] <= InitialTTL
    <3> SUFFICES ASSUME NEW c \in Batches, NEW i \in Index, <<c, i>> \in Body(w)
                 PROVE  tries'[<<c, i>>] <= InitialTTL
      BY <2>3 DEF BudgetInv
    <3>1. c = cur[w] /\ i >= at[w] /\ Unpaid(w, i) = 0
      BY <2>3, <2>4
    <3>2. tries[<<c, i>>] + ttl[c] <= InitialTTL /\ ttl[c] >= 1 /\ ttl[c] \in Int
      BY <2>1, <3>1 DEF BudgetInv
    <3>3. tries'[<<c, i>>] <= tries[<<c, i>>] + 1 /\ tries[<<c, i>>] \in Nat
      BY <2>3
    <3>4. tries'[<<c, i>>] \in Int
      BY <2>6
    <3> HIDE DEF Base, TypeInv, TypeOK, Index
    <3> QED BY <3>2, <3>3, <3>4
  <2>8. \A c \in Batches, i \in Index :
          loc'[c] = "queue" /\ i >= first'[c] => tries'[<<c, i>>] + ttl'[c] <= InitialTTL
    BY <2>1, <2>2, <2>3 DEF BudgetInv
  <2>9. ASSUME NEW v \in Workers, NEW i \in Index, cur[v] \in Batches, i >= at[v]
        PROVE  tries'[<<cur[v], i>>] + ttl[cur[v]] <= InitialTTL + Unpaid(v, i)'
    <3>1. CASE v = w
      <4>1. tries[<<cur[w], i>>] + ttl[cur[w]] <= InitialTTL /\ ttl[cur[w]] \in Int
        BY <2>1, <2>4, <2>9, <3>1 DEF BudgetInv
      <4>2. tries[<<cur[w], i>>] \in Int /\ tries'[<<cur[w], i>>] \in Int
        BY <2>1, <2>6
      <4> HIDE DEF Base, TypeInv, TypeOK, Index
      <4>3. CASE <<cur[w], i>> \in Body(w)
        BY <2>1, <2>3, <2>4, <3>1, <4>1, <4>3, <4>2
      <4>4. CASE <<cur[w], i>> \notin Body(w)
        BY <2>1, <2>3, <2>4, <3>1, <4>1, <4>4
      <4> QED BY <4>3, <4>4
    <3>2. CASE v # w
      <4>1. <<cur[v], i>> \notin Body(w)
        BY <2>3, <2>5, <2>9, <3>2
      <4> QED BY <2>3, <2>5, <2>9, <3>2, <4>1 DEF BudgetInv
    <3> QED BY <3>1, <3>2
  <2> QED BY <2>2, <2>7, <2>8, <2>9 DEF BudgetInv
<1>5. ASSUME UNCHANGED <<loc, ttl, first, cur, at, tries>>,
             \A w \in Workers : pc'[w] = "wait" <=> pc[w] = "wait"
      PROVE  BudgetInv'
  <2>1. \A w \in Workers, i \in Index : Unpaid(w, i)' = Unpaid(w, i)
    BY <1>5 DEF Unpaid, Body
  <2> QED BY <1>5, <2>1 DEF BudgetInv
<1> QED BY <1>1, <1>2, <1>3, <1>4, <1>5, RetrySteps

\* No event that may be given up is sent more than max_retries + 1 times, in
\* any mode and through any hosts.
THEOREM BudgetCorrect == Spec => []RetryBudget
<1>1. Counted /\ BudgetInv => RetryBudget
  BY ConstantsTyped DEF BudgetInv, RetryBudget, InitialTTL, Events
<1>2. ~Counted => RetryBudget
  BY DEF Counted, RetryBudget
<1>3. Counted /\ Init => Base /\ BudgetInv
  BY BaseInit, BudgetInit
<1>4. Counted /\ Base /\ BudgetInv /\ [Next]_vars => (Base /\ BudgetInv)'
  BY BaseNext, BudgetNext
<1>5. CASE Counted
  BY <1>1, <1>3, <1>4, <1>5, PTL DEF Spec
<1>6. CASE ~Counted
  BY <1>2, <1>6, PTL
<1> QED BY <1>5, <1>6
-----------------------------------------------------------------------------
(* What is given up was sent                                               *)

\* Where retries are not counted, no batch is dropped.
KeptInv ==
  \A b \in Batches : loc[b] # "dropped" /\ (Guaranteed \/ ttl[b] = 0)

\* A retry that is not counted never runs out.
LEMMA KeptNext == ~Counted /\ Base /\ KeptInv /\ [Next]_vars => KeptInv'
<1> SUFFICES ASSUME ~Counted, Base, KeptInv, [Next]_vars PROVE KeptInv'
  OBVIOUS
<1> USE DEF Base, TypeInv, TypeOK, KeptInv
<1>1. ASSUME NEW w \in Workers, NEW b \in Batches, Take(w, b) PROVE KeptInv'
  BY <1>1 DEF Take
<1>2. ASSUME NEW w \in Workers, Passes(w) PROVE KeptInv'
  BY <1>2 DEF Passes, Advance
<1>3. ASSUME NEW w \in Workers, GivesBack(w) PROVE KeptInv'
  <2>1. cur[w] \in Batches /\ Fail(w)
    BY <1>3 DEF GivesBack, Holding
  <2>2. Alive(ttl[cur[w]]) /\ (Guaranteed \/ ReducedTTL(ttl[cur[w]]) = 0)
    BY <2>1 DEF Alive, ReducedTTL
  <2> QED BY <2>1, <2>2 DEF Fail
<1>4. ASSUME NEW w \in Workers, Post(w) PROVE KeptInv'
  BY <1>4 DEF Post, batchVars
<1>5. CASE UNCHANGED <<loc, ttl, first, cur, at, tries>>
  BY <1>5
<1> QED BY <1>1, <1>2, <1>3, <1>4, <1>5, RetrySteps

\* A worker that publishes is connected, by what it believes and by the flag of
\* its host, unless an answer of 400 or 500 cleared the flag, which may be the
\* answer to the GET after a redirect; no other worker has that host.
ConnInv ==
  \A w \in Workers :
    /\ LoadBalance => active[w] = w
    /\ wconn[w] => active[w] \in Hosts
    /\ pc[w] \in {"publish", "wait"} => wconn[w]
    /\ wconn[w] /\ pc[w] # "backoff" => connected[active[w]] \/ rejected \cup misled # {}

\* A request that is out was counted.
SentInv == \A w \in Workers : pc[w] = "wait" => tries[<<cur[w], at[w]>>] > 0

\* A failure clears the flag of the worker's own host only, and the worker backs
\* off; a rejection stays on record.
LEMMA ConnNext == ~BatchPublish /\ Base /\ ConnInv /\ [Next]_vars => ConnInv'
<1> SUFFICES ASSUME ~BatchPublish, Base, ConnInv, [Next]_vars PROVE ConnInv'
  OBVIOUS
<1> USE DEF Base, TypeInv, TypeOK, ConnInv
<1> DEFINE Noted == rejected \subseteq rejected' /\ misled \subseteq misled'
<1>1. ASSUME NEW w \in Workers, Connect(w) PROVE ConnInv'
  <2>1. PICK h \in NextHosts(w) : /\ active' = [active EXCEPT ![w] = h]
                                 /\ connected' = [connected EXCEPT ![h] = TRUE]
    BY <1>1 DEF Connect
  <2>2. h \in Hosts /\ (LoadBalance => h = w)
    BY DEF NextHosts, Workers
  <2> QED BY <1>1, <2>1, <2>2 DEF Connect, history
<1>2. ASSUME NEW w \in Workers, NEW b \in Batches, Take(w, b) PROVE ConnInv'
  BY <1>2 DEF Take, history
<1>3. ASSUME NEW w \in Workers, Fail(w), Disconnect(w), Noted
      PROVE  ConnInv'
  <2>1. /\ pc' = [pc EXCEPT ![w] = "backoff"] /\ UNCHANGED <<wconn, active>>
        /\ connected' = [connected EXCEPT ![active[w]] = FALSE]
    BY <1>3 DEF Fail, Disconnect
  <2>2. ASSUME NEW v \in Workers, v # w
        PROVE  active[v] # active[w]
    BY <2>2 DEF Workers
  <2> QED BY <1>3, <2>1, <2>2
<1>4. ASSUME NEW w \in Workers, Post(w) PROVE ConnInv'
  BY <1>4 DEF Post
<1>5. ASSUME NEW w \in Workers, Published(w) PROVE ConnInv'
  BY <1>5 DEF Published, Advance, history
<1>6. ASSUME NEW w \in Workers, PublishRejected(w) PROVE ConnInv'
  <2>1. Body(w) # {}
    BY <1>6, ConstantsTyped DEF PublishRejected, Body, Index
  <2>2. rejected \cup misled # {}
    BY <1>6, <2>1 DEF PublishRejected, AnswerInv
  <2> QED BY <1>6, <2>2 DEF PublishRejected, Advance, history
<1>7. ASSUME NEW w \in Workers, EndBackoff(w) PROVE ConnInv'
  BY <1>7 DEF EndBackoff, history
<1>8. ASSUME UNCHANGED <<workerVars, connected>>, Noted PROVE ConnInv'
  BY <1>8 DEF workerVars
<1>9. Noted
  BY Effects
<1>10. ASSUME NEW w \in Workers, WorkerStep(w) PROVE ConnInv'
  BY <1>1, <1>2, <1>3, <1>4, <1>5, <1>6, <1>7, <1>9, <1>10
     DEF WorkerStep, NotConnected, PublishRefused
<1>11. ASSUME NEW w \in Workers, Respond(w) \/ Misbehave(w) PROVE ConnInv'
  BY <1>3, <1>8, <1>9, <1>11
     DEF Respond, Accept, Reject, Misbehave, Refuse, OtherAnswers, AnswerCutShort, NetworkError,
         AfterBrokenAnswer
<1>12. ASSUME NEW S \in late, LateStore(S) PROVE ConnInv'
  BY <1>8, <1>9, <1>12 DEF LateStore
<1>13. CASE Settle \/ UNCHANGED vars
  BY <1>8, <1>9, <1>13 DEF Settle, vars
<1> QED BY <1>10, <1>11, <1>12, <1>13 DEF Next

\* Each request is counted when it goes out.
LEMMA SentNext == Counted /\ Base /\ SentInv /\ [Next]_vars => SentInv'
<1> SUFFICES ASSUME Counted, Base, SentInv, [Next]_vars PROVE SentInv'
  OBVIOUS
<1> USE DEF Base, TypeInv, TypeOK, SentInv
<1>1. ASSUME NEW w \in Workers, NEW b \in Batches, Take(w, b) PROVE SentInv'
  BY <1>1 DEF Take, history
<1>2. ASSUME NEW w \in Workers, Passes(w), UNCHANGED tries PROVE SentInv'
  BY <1>2 DEF Passes, Advance
<1>3. ASSUME NEW w \in Workers, GivesBack(w), UNCHANGED tries PROVE SentInv'
  BY <1>3 DEF GivesBack, Fail
<1>4. ASSUME NEW w \in Workers, Post(w) PROVE SentInv'
  <2>1. /\ UNCHANGED <<cur, at>> /\ pc' = [pc EXCEPT ![w] = "wait"]
        /\ cur[w] \in Batches /\ at[w] \in Index
    BY <1>4 DEF Post, Holding
  <2>2. \A e \in Events : tries[e] > 0 => tries'[e] > 0
    BY <1>4 DEF Post
  <2>3. tries'[<<cur[w], at[w]>>] > 0
    BY <1>4, <2>1, ConstantsTyped DEF Post, Body, Events, Index, LoopInv, TriesCap, Counted
  <2> QED BY <2>1, <2>2, <2>3 DEF Holding, Events
<1>5. ASSUME UNCHANGED <<loc, ttl, first, cur, at, tries>>,
             \A w \in Workers : pc'[w] = "wait" <=> pc[w] = "wait"
      PROVE  SentInv'
  BY <1>5
<1> QED BY <1>1, <1>2, <1>3, <1>4, <1>5, RetrySteps

\* A batch that is given back before anything was sent finds the flag cleared.
LEMMA NotSent ==
  ASSUME TypeInv, [Next]_vars, NEW w \in Workers, pc[w] = "publish", pc'[w] = "backoff"
  PROVE  ~connected[active[w]]
<1> USE DEF TypeInv, TypeOK
<1>1. ASSUME NEW v \in Workers, WorkerStep(v) PROVE ~connected[active[w]]
  BY <1>1 DEF WorkerStep, Connect, Take, NotConnected, Post, Published, PublishRejected,
              PublishRefused, EndBackoff, Advance, Fail
<1>2. ASSUME NEW v \in Workers, Respond(v) \/ Misbehave(v) PROVE FALSE
  BY <1>2 DEF Respond, Accept, Reject, Misbehave, Refuse, OtherAnswers, AnswerCutShort,
              NetworkError, AfterBrokenAnswer, Advance, Fail, workerVars
<1>3. ASSUME NEW S \in late, LateStore(S) PROVE FALSE
  BY <1>3 DEF LateStore, workerVars
<1>4. ASSUME Settle \/ UNCHANGED vars PROVE FALSE
  BY <1>4 DEF Settle, vars, workerVars
<1> QED BY <1>1, <1>2, <1>3, <1>4 DEF Next

\* A batch is dropped with what its last request carried, or by a flag that an
\* answer of 400 or 500 cleared.
LEMMA DropNext ==
  Counted /\ Base /\ ConnInv /\ SentInv /\ DropNeedsAttempt /\ [Next]_vars => DropNeedsAttempt'
<1> SUFFICES ASSUME Counted, Base, ConnInv, SentInv, DropNeedsAttempt, [Next]_vars
             PROVE  DropNeedsAttempt'
  OBVIOUS
<1> USE DEF Base, TypeInv, TypeOK, DropNeedsAttempt
<1>1. rejected \subseteq rejected' /\ misled \subseteq misled'
  BY Effects
<1>2. ASSUME NEW w \in Workers, NEW b \in Batches, Take(w, b) PROVE DropNeedsAttempt'
  BY <1>1, <1>2 DEF Take, history
<1>3. ASSUME NEW w \in Workers, Passes(w), UNCHANGED tries PROVE DropNeedsAttempt'
  BY <1>1, <1>3 DEF Passes, Advance
<1>4. ASSUME NEW w \in Workers, GivesBack(w), UNCHANGED tries PROVE DropNeedsAttempt'
  <2>1. cur[w] \in Batches /\ Fail(w)
    BY <1>4 DEF GivesBack, Holding
  <2>2. tries[<<cur[w], at[w]>>] > 0 \/ rejected \cup misled # {}
    <3>1. CASE pc[w] = "wait"
      BY <3>1 DEF SentInv
    <3>2. CASE pc[w] = "publish"
      <4>1. ~connected[active[w]]
        BY <2>1, <3>2, NotSent DEF Fail
      <4> QED BY <3>2, <4>1 DEF ConnInv
    <3> QED BY <1>4, <3>1, <3>2 DEF GivesBack
  <2> QED BY <1>1, <1>4, <2>1, <2>2 DEF Fail, Left
<1>5. ASSUME NEW w \in Workers, Post(w) PROVE DropNeedsAttempt'
  <2>1. \A e \in Events : tries[e] > 0 => tries'[e] > 0
    BY <1>5 DEF Post
  <2>2. UNCHANGED <<loc, first, rejected, misled>>
    BY <1>5 DEF Post, batchVars
  <2> QED BY <2>1, <2>2 DEF Events
<1>6. CASE UNCHANGED <<loc, ttl, first, cur, at, tries>>
  BY <1>1, <1>6
<1> QED BY <1>2, <1>3, <1>4, <1>5, <1>6, RetrySteps

\* Published one by one, no event is given up that was never sent, unless some
\* receiver answered 400 or 500 before, or redirected.
THEOREM DropCorrect ==
  ASSUME ~BatchPublish
  PROVE  Spec => []DropNeedsAttempt
<1> DEFINE Inv == Base /\ ConnInv /\ SentInv /\ DropNeedsAttempt
<1>1. Init => Base /\ ConnInv /\ SentInv /\ DropNeedsAttempt
  BY BaseInit DEF Init, ConnInv, SentInv, DropNeedsAttempt
<1>2. CASE Counted
  <2>1. Inv /\ [Next]_vars => Inv'
    BY <1>2, BaseNext, ConnNext, SentNext, DropNext
  <2> QED BY <1>1, <2>1, PTL DEF Spec
<1>3. CASE ~Counted
  <2>1. Init => KeptInv
    BY <1>3, ConfigAssumption DEF Init, KeptInv, Counted, InitialTTL, ConfigAssumption
  <2>2. Base /\ KeptInv /\ [Next]_vars => (Base /\ KeptInv)'
    BY <1>3, BaseNext, KeptNext
  <2>3. KeptInv => DropNeedsAttempt
    BY DEF KeptInv, DropNeedsAttempt
  <2> QED BY <1>1, <2>1, <2>2, <2>3, PTL DEF Spec
<1> QED BY <1>2, <1>3

-----------------------------------------------------------------------------
(* Delivery: what the output promises, event by event                      *)

\* What is owed and what expired, seen from the batches, ...
LEMMA OwedIs ==
  ASSUME TypeOK
  PROVE  /\ Owed \subseteq Events /\ Expired \subseteq Events
         /\ \A b \in Batches, i \in Index :
              /\ <<b, i>> \in Owed <=> loc[b] \in {"queue", "out"} /\ i >= first[b]
              /\ <<b, i>> \in Expired <=> loc[b] = "dropped" /\ i >= first[b]
BY ConstantsTyped DEF Owed, Expired, Rest, Events, TypeOK, Index

\* ... and the same after a step.
LEMMA OwedIsNext ==
  ASSUME TypeOK'
  PROVE  /\ Owed' \subseteq Events /\ Expired' \subseteq Events
         /\ \A b \in Batches, i \in Index :
              /\ <<b, i>> \in Owed' <=> loc'[b] \in {"queue", "out"} /\ i >= first'[b]
              /\ <<b, i>> \in Expired' <=> loc'[b] = "dropped" /\ i >= first'[b]
BY ConstantsTyped DEF Owed, Expired, Rest, Events, TypeOK, Index

\* At the start everything is owed.
LEMMA OwedInit == Init => Promise!Init
<1> SUFFICES ASSUME Init PROVE Promise!Init
  OBVIOUS
<1>1. Owed = Events
  BY ConstantsTyped DEF Init, Owed, Rest, Events, Index
<1>2. Expired = {}
  BY DEF Init, Expired
<1> QED BY <1>1, <1>2 DEF Init, Promise!Init

\* A step that stores or refuses events leaves the batches alone.
LEMMA Answers ==
  ASSUME [Next]_vars, UNCHANGED <<stored, rejected>> => FALSE
  PROVE  /\ UNCHANGED <<loc, first>>
         /\ \/ stored \subseteq stored' /\ UNCHANGED rejected
            \/ rejected \subseteq rejected' /\ UNCHANGED stored
<1>1. ASSUME NEW w \in Workers, Respond(w)
      PROVE  /\ UNCHANGED <<loc, first>>
             /\ \/ stored \subseteq stored' /\ UNCHANGED rejected
                \/ rejected \subseteq rejected' /\ UNCHANGED stored
  BY <1>1 DEF Respond, Accept, Reject, Stores, batchVars
<1>2. ASSUME NEW S \in late, LateStore(S)
      PROVE  UNCHANGED <<loc, first, rejected>> /\ stored \subseteq stored'
  BY <1>2 DEF LateStore, Stores, batchVars
<1>3. ASSUME NEW w \in Workers, WorkerStep(w) PROVE UNCHANGED <<stored, rejected>>
  BY <1>3 DEF WorkerStep, Connect, Take, NotConnected, Post, Published, PublishRejected,
              PublishRefused, EndBackoff, history
<1>4. ASSUME NEW w \in Workers, Misbehave(w) PROVE UNCHANGED <<stored, rejected>>
  BY <1>4 DEF Misbehave, Refuse, OtherAnswers, AnswerCutShort, NetworkError, history
<1>5. ASSUME Settle \/ UNCHANGED vars PROVE UNCHANGED <<stored, rejected>>
  BY <1>5 DEF Settle, vars, history
<1> QED BY <1>1, <1>2, <1>3, <1>4, <1>5 DEF Next

\* The batches move only forward: an event leaves Owed for good.
LEMMA Releases ==
  ASSUME Base, [Next]_vars, NEW b \in Batches, NEW i \in Index
  PROVE  /\ <<b, i>> \in Owed' => <<b, i>> \in Owed
         /\ <<b, i>> \in Expired => <<b, i>> \in Expired'
         /\ <<b, i>> \in Expired' /\ <<b, i>> \notin Expired =>
              <<b, i>> \in Owed /\ <<b, i>> \notin Owed' /\ ~Guaranteed
         /\ <<b, i>> \in Owed /\ <<b, i>> \notin Owed' =>
              Behind(b, i)' \/ <<b, i>> \in Expired'
<1> DEFINE G ==
      /\ loc'[b] \in {"queue", "out"} /\ i >= first'[b] =>
           loc[b] \in {"queue", "out"} /\ i >= first[b]
      /\ loc[b] = "dropped" /\ i >= first[b] => loc'[b] = "dropped" /\ i >= first'[b]
      /\ (loc'[b] = "dropped" /\ i >= first'[b]) /\ ~(loc[b] = "dropped" /\ i >= first[b]) =>
           /\ loc[b] \in {"queue", "out"} /\ i >= first[b]
           /\ ~Guaranteed
      /\ (loc[b] \in {"queue", "out"} /\ i >= first[b])
           /\ ~(loc'[b] \in {"queue", "out"} /\ i >= first'[b]) =>
             Behind(b, i)' \/ (loc'[b] = "dropped" /\ i >= first'[b])
<1> USE ConstantsTyped DEF Base, TypeInv, TypeOK, Index
<1>1. ASSUME NEW w \in Workers, NEW c \in Batches, Take(w, c) PROVE G
  BY <1>1 DEF Take, Queued
<1>2. ASSUME NEW w \in Workers, Passes(w) PROVE G
  <2>1. cur[w] \in Batches /\ loc[cur[w]] = "out" /\ first' = first
    BY <1>2 DEF Passes, Advance, Holding, OneOwner
  <2>2. loc' = loc \/ loc' = [loc EXCEPT ![cur[w]] = "acked"]
    BY <1>2 DEF Passes, Advance
  <2> QED BY <2>1, <2>2 DEF Behind
<1>3. ASSUME NEW w \in Workers, GivesBack(w) PROVE G
  <2>1. cur[w] \in Batches /\ loc[cur[w]] = "out" /\ first[cur[w]] <= at[w]
    BY <1>3 DEF GivesBack, Holding, OneOwner, LoopInv
  <2>2. /\ first' = [first EXCEPT ![cur[w]] = at[w]]
        /\ \/ loc' = [loc EXCEPT ![cur[w]] = "queue"]
           \/ loc' = [loc EXCEPT ![cur[w]] = "dropped"] /\ ~Guaranteed
    BY <1>3 DEF GivesBack, Fail, Left, Alive
  <2> QED BY <2>1, <2>2 DEF Behind
<1>4. ASSUME UNCHANGED <<loc, first, cur, at>> PROVE G
  BY <1>4
<1>5. G
  BY <1>1, <1>2, <1>3, <1>4, Moves
<1>6. TypeOK'
  BY TypeNext
<1> QED BY <1>5, <1>6, OwedIs, OwedIsNext

\* Every step of the output is a step of the promise, or leaves it alone.
LEMMA PromiseNext ==
  ASSUME ~BatchPublish, ~Redirects, Base, PassedInv, [Next]_vars
  PROVE  [Promise!Next]_Promise!vars
<1>1. TypeOK /\ TypeOK' /\ PassedInv' /\ misled' = {}
  BY BaseNext, PassedNext DEF Base, TypeInv, AnswerInv
<1>2. CASE UNCHANGED <<stored, rejected>>
  <2>1. Owed' \in SUBSET Owed
    BY <1>1, Releases, OwedIsNext DEF Events
  <2>2. Expired \subseteq Expired' /\ (Guaranteed => Expired' = Expired)
    BY <1>1, Releases, OwedIs, OwedIsNext DEF Events
  <2>3. Expired' \in SUBSET (Expired \cup (Owed \ Owed'))
    BY <1>1, Releases, OwedIsNext DEF Events
  <2>4. Owed \ Owed' \subseteq stored \cup rejected \cup Expired'
    <3> SUFFICES ASSUME NEW b \in Batches, NEW i \in Index,
                        <<b, i>> \in Owed, <<b, i>> \notin Owed', <<b, i>> \notin Expired'
                 PROVE  <<b, i>> \in stored \cup rejected
      BY <1>1, OwedIs DEF Events
    <3> QED BY <1>1, <1>2, Releases DEF PassedInv, Settled, Unanswered
  <2> QED BY <1>2, <2>1, <2>2, <2>3, <2>4 DEF Promise!Next, Promise!Release
<1>3. CASE ~UNCHANGED <<stored, rejected>>
  <2>1. UNCHANGED <<Owed, Expired>>
    BY <1>3, Answers DEF Owed, Expired, Rest
  <2>2. stored' \in SUBSET Events /\ rejected' \in SUBSET Events
    BY <1>1 DEF TypeOK
  <2> QED BY <1>3, <2>1, <2>2, Answers DEF Promise!Next, Promise!Store, Promise!Reject
<1> QED BY <1>2, <1>3

\* Published one by one, the output keeps the promise of Delivery through any
\* interleaving of workers, failures, retries and late requests.
THEOREM Refinement ==
  ASSUME ~BatchPublish, ~Redirects
  PROVE  Spec => KeepsPromise
<1>1. Base /\ PassedInv /\ [Next]_vars => [Promise!Next]_Promise!vars
  BY PromiseNext
<1> QED BY <1>1, OwedInit, BasePassed, PTL DEF Spec, KeepsPromise, Promise!Spec

\* So no event is lost: it is owed, stored, refused for good, or its retries
\* ran out, and those of a guaranteed event never do.
THEOREM NothingLost ==
  ASSUME ~BatchPublish, ~Redirects
  PROVE  Spec => []Promise!NothingLost
<1>1. Promise!Init => Promise!NothingLost
  BY DEF Promise!Init, Promise!NothingLost
<1>2. Promise!NothingLost /\ [Promise!Next]_Promise!vars => Promise!NothingLost'
  BY DEF Promise!NothingLost, Promise!Next, Promise!Store, Promise!Reject, Promise!Release,
         Promise!vars
<1>3. Promise!Spec => []Promise!NothingLost
  BY <1>1, <1>2, PTL DEF Promise!Spec
<1> QED BY <1>3, Refinement, PTL DEF KeepsPromise

-----------------------------------------------------------------------------
(* What the liveness of the output rests on                                *)

\* The guards of WorkerStep(w), with those of Respond(w) for a request that is out.
CanStep(w) ==
  \/ pc[w] = "idle" /\ (\E b \in Batches : Queued(b)) /\ (wconn[w] \/ NextHosts(w) # {})
  \/ pc[w] \in {"publish", "backoff"}
  \/ pc[w] = "wait" /\ answer[w] \in {"sent", "ok", "redirected", "rejected", "refused"}

\* A batch that is not settled is in the hands of a worker that can go on, or in the
\* queue, where every worker can go on: none is waited for in vain.
BatchInHand ==
  \A b \in Batches :
    /\ loc[b] = "out" => \E w \in Workers : cur[w] = b /\ CanStep(w)
    /\ loc[b] = "queue" => Workers # {} /\ \A w \in Workers : CanStep(w)

\* Who has a batch can go on, whatever became of its request, and so can anyone who
\* may take one.
LEMMA InHands == TypeInv /\ OneOwner => BatchInHand
<1> SUFFICES ASSUME TypeInv, OneOwner, NEW b \in Batches
    PROVE  /\ loc[b] = "out" => \E w \in Workers : cur[w] = b /\ CanStep(w)
           /\ loc[b] = "queue" => Workers # {} /\ \A w \in Workers : CanStep(w)
  BY DEF BatchInHand
<1>1. ASSUME NEW w \in Workers, pc[w] # "idle" PROVE CanStep(w)
  BY <1>1 DEF TypeInv, TypeOK, Holding, CanStep
<1>2. ASSUME NEW w \in Workers PROVE NextHosts(w) # {}
  BY ConfigAssumption DEF ConfigAssumption, NextHosts
<1>3. Workers # {}
  BY ConfigAssumption DEF ConfigAssumption, Workers
<1>4. ASSUME loc[b] = "out" PROVE \E w \in Workers : cur[w] = b /\ CanStep(w)
  <2>1. PICK w \in Workers : cur[w] = b
    BY <1>4 DEF OneOwner
  <2>2. pc[w] # "idle"
    BY <2>1, ConstantsTyped DEF TypeInv, Holding
  <2> QED BY <1>1, <2>1, <2>2
<1>5. ASSUME loc[b] = "queue", NEW w \in Workers PROVE CanStep(w)
  BY <1>1, <1>2, <1>5 DEF CanStep, Queued
<1> QED BY <1>3, <1>4, <1>5

\* No configuration, no failure and no number of workers stops the output while there
\* is a batch to settle.
THEOREM BatchInHandCorrect == Spec => []BatchInHand
<1>1. Init => TypeInv /\ OneOwner
  BY TypeInit DEF Init, OneOwner
<1> QED BY <1>1, InHands, TypeNext, OwnerNext, PTL DEF Spec

\* The events the output has not passed.
Unpassed == {e \in Events : ~Behind(e[1], e[2])}

\* Where a worker is on its way round: from a failure by the backoff to the connection,
\* and on to an answer that passes an event.
Phase(w) ==
  CASE pc[w] = "wait" /\ answer[w] = "refused" -> 9
    [] pc[w] = "idle" /\ wconn[w] /\ ~connected[active[w]] -> 8
    [] pc[w] = "publish" /\ ~connected[active[w]] -> 7
    [] pc[w] = "backoff" -> 6
    [] pc[w] = "idle" /\ ~wconn[w] -> 5
    [] pc[w] = "idle" /\ wconn[w] /\ connected[active[w]] -> 4
    [] pc[w] = "publish" /\ connected[active[w]] -> 3
    [] pc[w] = "wait" /\ answer[w] = "sent" -> 2
    [] pc[w] = "wait" /\ answer[w] \in {"ok", "redirected", "rejected"} -> 1

\* A step after the outage. Those of a worker, and of the receiver it asked, pass an
\* event or bring that worker nearer to it, and put no other worker back.
CalmStep ==
  /\ calm' /\ Unpassed' \subseteq Unpassed
  /\ \A w \in Workers : WorkerStep(w) \/ Respond(w) =>
       /\ Unpassed' # Unpassed \/ Phase(w)' < Phase(w)
       /\ \A v \in Workers \ {w} : Phase(v)' = Phase(v)
  /\ \/ \E w \in Workers : WorkerStep(w) \/ Respond(w)
     \/ \A v \in Workers : Phase(v)' = Phase(v)

\* A worker has a host of its own, by the time it is connected.
HostInv ==
  \A w \in Workers :
    /\ LoadBalance => active[w] = w
    /\ wconn[w] => active[w] \in Hosts
    /\ pc[w] \in {"publish", "wait"} => wconn[w]

\* Only Connect takes another host, and publishing begins after it.
LEMMA HostNext == TypeInv /\ HostInv /\ [Next]_vars => HostInv'
<1> SUFFICES ASSUME TypeInv, HostInv, [Next]_vars PROVE HostInv'
  OBVIOUS
<1> USE DEF TypeInv, TypeOK, HostInv
<1>1. ASSUME NEW w \in Workers, Connect(w) PROVE HostInv'
  <2>1. PICK h \in NextHosts(w) : active' = [active EXCEPT ![w] = h]
    BY <1>1 DEF Connect
  <2>2. h \in Hosts /\ (LoadBalance => h = w)
    BY DEF NextHosts, Workers
  <2> QED BY <1>1, <2>1, <2>2 DEF Connect
<1>2. ASSUME NEW w \in Workers, NEW b \in Batches, Take(w, b) PROVE HostInv'
  BY <1>2 DEF Take
<1>3. ASSUME NEW w \in Workers, Fail(w) PROVE HostInv'
  BY <1>3 DEF Fail
<1>4. ASSUME NEW w \in Workers, Advance(w), pc[w] = "wait" PROVE HostInv'
  BY <1>4 DEF Advance
<1>5. ASSUME NEW w \in Workers, Post(w) PROVE HostInv'
  BY <1>5 DEF Post
<1>6. ASSUME NEW w \in Workers, EndBackoff(w) PROVE HostInv'
  BY <1>6 DEF EndBackoff
<1>7. ASSUME UNCHANGED workerVars PROVE HostInv'
  BY <1>7 DEF workerVars
<1>8. ASSUME NEW w \in Workers, WorkerStep(w) PROVE HostInv'
  BY <1>1, <1>2, <1>3, <1>4, <1>5, <1>6, <1>8
     DEF WorkerStep, NotConnected, Published, PublishRejected, PublishRefused
<1>9. ASSUME NEW w \in Workers, Respond(w) \/ Misbehave(w) PROVE HostInv'
  BY <1>3, <1>4, <1>7, <1>9
     DEF Respond, Accept, Reject, Misbehave, Refuse, OtherAnswers, AnswerCutShort, NetworkError,
         AfterBrokenAnswer
<1>10. ASSUME NEW S \in late, LateStore(S) PROVE HostInv'
  BY <1>7, <1>10 DEF LateStore
<1>11. CASE Settle \/ UNCHANGED vars
  BY <1>7, <1>11 DEF Settle, vars
<1> QED BY <1>8, <1>9, <1>10, <1>11 DEF Next

\* So a step of one worker is none of another's business.
LEMMA PhaseElsewhere ==
  ASSUME TypeInv, HostInv, NEW w \in Workers, WorkerStep(w) \/ Respond(w),
         NEW v \in Workers, v # w
  PROVE  Phase(v)' = Phase(v)
<1> USE DEF TypeInv, TypeOK, HostInv
<1>1. LoadBalance /\ active[w] = w /\ active[v] = v /\ w \in Hosts /\ v \in Hosts
  BY DEF Workers
<1>2. /\ pc'[v] = pc[v] /\ wconn'[v] = wconn[v] /\ active'[v] = active[v]
      /\ answer'[v] = answer[v]
  BY DEF WorkerStep, Connect, Take, NotConnected, Post, Published, PublishRejected,
         PublishRefused, EndBackoff, Respond, Accept, Reject, Advance, Fail, Over, netVars,
         workerVars
<1>3. connected'[v] = connected[v]
  <2>1. ASSUME NEW h \in {w}, connected' = [connected EXCEPT ![h] = TRUE] PROVE connected'[v] = connected[v]
    BY <2>1
  <2>2. ASSUME Disconnect(w) PROVE connected'[v] = connected[v]
    BY <1>1, <2>2 DEF Disconnect
  <2>3. Connect(w) => connected'[v] = connected[v]
    BY <1>1, <2>1 DEF Connect, NextHosts
  <2> QED BY <2>2, <2>3 DEF WorkerStep, Take, NotConnected, Post, Published, PublishRejected,
         PublishRefused, EndBackoff, Respond, Accept, Reject
<1> QED BY <1>1, <1>2, <1>3 DEF Phase

\* An answer that is passed on passes the event the loop is at.
LEMMA PassedOne ==
  ASSUME Base, [Next]_vars, NEW w \in Workers, Passes(w)
  PROVE  Unpassed' # Unpassed
<1>1. cur[w] \in Batches /\ at[w] \in Index /\ first[cur[w]] \in Index
  BY DEF Base, TypeInv, TypeOK, Holding, Passes
<1>2. PICK b \in Batches, i \in Index : b = cur[w] /\ i = at[w]
  BY <1>1
<1>3. <<b, i>> \in Body(w)
  BY <1>1, <1>2, ConstantsTyped DEF Base, LoopInv, Index, Body
<1>4. ~Behind(b, i)
  <2>1. loc[b] = "out" /\ \A v \in Workers : cur[v] = b => v = w
    BY <1>1, <1>2, ConstantsTyped DEF Base, OneOwner
  <2>2. first[b] <= i
    BY <1>1, <1>2 DEF Base, LoopInv
  <2> QED BY <1>1, <1>2, <2>1, <2>2, ConstantsTyped DEF Behind, Index
<1>5. Behind(b, i)'
  BY <1>3, BehindNext DEF Base
<1>6. <<b, i>> \in Unpassed /\ <<b, i>> \notin Unpassed'
  BY <1>4, <1>5 DEF Unpassed, Events
<1> QED BY <1>6

\* The steps of a worker that passes nothing take it nearer to doing so.
LEMMA PhaseDown ==
  ASSUME TypeInv, HostInv, calm, NEW w \in Workers, WorkerStep(w) \/ Respond(w)
  PROVE  Passes(w) \/ Phase(w)' < Phase(w)
<1> USE DEF TypeInv, TypeOK, HostInv, Holding
<1>1. CASE Connect(w)
  <2>1. PICK h \in NextHosts(w) : /\ active' = [active EXCEPT ![w] = h]
                                 /\ connected' = [connected EXCEPT ![h] = TRUE]
    BY <1>1 DEF Connect
  <2>2. h \in Hosts
    BY DEF NextHosts, Workers
  <2>3. pc[w] = "idle" /\ ~wconn[w] /\ pc'[w] = "idle" /\ wconn'[w] /\ connected'[active'[w]]
    BY <1>1, <2>1, <2>2 DEF Connect
  <2>4. Phase(w) = 5 /\ Phase(w)' = 4
    BY <2>3 DEF Phase
  <2> QED BY <2>4
<1>2. ASSUME NEW b \in Batches, Take(w, b) PROVE Phase(w)' < Phase(w)
  <2>1. /\ pc[w] = "idle" /\ wconn[w] /\ pc'[w] = "publish"
        /\ connected' = connected /\ active' = active
    BY <1>2 DEF Take
  <2>2. CASE connected[active[w]]
    <3>1. Phase(w) = 4 /\ Phase(w)' = 3
      BY <2>1, <2>2 DEF Phase
    <3> QED BY <3>1
  <2>3. CASE ~connected[active[w]]
    <3>1. Phase(w) = 8 /\ Phase(w)' = 7
      BY <2>1, <2>3 DEF Phase
    <3> QED BY <3>1
  <2> QED BY <2>2, <2>3
<1>3. CASE NotConnected(w)
  <2>1. pc[w] = "publish" /\ ~connected[active[w]] /\ pc'[w] = "backoff"
    BY <1>3 DEF NotConnected, Fail
  <2>2. Phase(w) = 7 /\ Phase(w)' = 6
    BY <2>1 DEF Phase
  <2> QED BY <2>2
<1>4. CASE Post(w)
  <2>1. /\ pc[w] = "publish" /\ connected[active[w]]
        /\ pc'[w] = "wait" /\ answer'[w] = "sent"
    BY <1>4 DEF Post
  <2>2. Phase(w) = 3 /\ Phase(w)' = 2
    BY <2>1 DEF Phase
  <2> QED BY <2>2
<1>5. CASE Published(w) \/ PublishRejected(w)
  BY <1>5 DEF Published, PublishRejected, Passes
<1>6. CASE PublishRefused(w)
  <2>1. pc[w] = "wait" /\ answer[w] = "refused" /\ pc'[w] = "backoff"
    BY <1>6 DEF PublishRefused, RefusedAnswer, Fail
  <2>2. Phase(w) = 9 /\ Phase(w)' = 6
    BY <2>1 DEF Phase
  <2> QED BY <2>2
<1>7. CASE EndBackoff(w)
  <2>1. pc[w] = "backoff" /\ pc'[w] = "idle" /\ ~wconn'[w]
    BY <1>7 DEF EndBackoff
  <2>2. Phase(w) = 6 /\ Phase(w)' = 5
    BY <2>1 DEF Phase
  <2> QED BY <2>2
<1>8. CASE Respond(w)
  <2>1. /\ pc[w] = "wait" /\ answer[w] = "sent"
        /\ pc'[w] = "wait" /\ answer'[w] \in {"ok", "rejected"}
    BY <1>8 DEF Respond, Accept, Reject, workerVars
  <2>2. Phase(w) = 2 /\ Phase(w)' = 1
    BY <2>1 DEF Phase
  <2> QED BY <2>2
<1> QED BY <1>1, <1>2, <1>3, <1>4, <1>5, <1>6, <1>7, <1>8 DEF WorkerStep

\* Nothing fails any more, and what a step does not pass it does not undo.
LEMMA CalmNext == Base /\ HostInv /\ calm /\ [Next]_vars => CalmStep
<1> SUFFICES ASSUME Base, HostInv, calm, [Next]_vars PROVE CalmStep
  OBVIOUS
<1>1. Unpassed' \subseteq Unpassed
  <2>1. \A b \in Batches, i \in Index : Behind(b, i) => Behind(b, i)'
    BY BehindNext DEF Base
  <2> QED BY <2>1 DEF Unpassed, Events
<1>2. ASSUME NEW w \in Workers, WorkerStep(w) \/ Respond(w)
      PROVE  /\ Unpassed' # Unpassed \/ Phase(w)' < Phase(w)
             /\ \A v \in Workers \ {w} : Phase(v)' = Phase(v)
  BY <1>2, PhaseDown, PassedOne, PhaseElsewhere DEF Base
<1>3. ASSUME \A w \in Workers : ~(WorkerStep(w) \/ Respond(w))
      PROVE  \A v \in Workers : Phase(v)' = Phase(v)
  <2>1. \/ \E S \in late : LateStore(S)
        \/ UNCHANGED vars
    BY <1>3 DEF Next, Misbehave, Refuse, OtherAnswers, AnswerCutShort, NetworkError, Settle
  <2>2. UNCHANGED <<pc, wconn, active, connected, answer>>
    BY <2>1 DEF LateStore, vars, workerVars, netVars
  <2> QED BY <2>2 DEF Phase
<1>4. calm'
  <2>1. \A w \in Workers : WorkerStep(w) \/ Respond(w) => calm' = calm
    BY DEF WorkerStep, Connect, Take, NotConnected, Post, Published, PublishRejected,
           PublishRefused, EndBackoff, Respond, Accept, Reject
  <2>2. \A w \in Workers : ~Misbehave(w)
    BY DEF Misbehave, Refuse, OtherAnswers, AnswerCutShort, NetworkError
  <2> QED BY <2>1, <2>2 DEF Next, LateStore, Settle, vars
<1> QED BY <1>1, <1>2, <1>3, <1>4 DEF CalmStep

\* The safety that AllRecorded needs (Filebeat), in every mode, for any number of events,
\* workers and retries, for ever included. Once the outage is over, a step of a worker or of
\* its receiver passes an event, of which there are only so many, or goes one of at most
\* nine phases on; no step goes back, nor puts another worker back. With
\* BatchInHandCorrect and a fair scheduler no batch of finitely many can then stay
\* unsettled.
THEOREM CalmCorrect == Spec => [][calm => CalmStep]_vars
<1>1. Init => HostInv
  BY DEF Init, HostInv, Workers
<1>2. Init => Base
  BY BaseInit
<1>3. Base /\ HostInv /\ [Next]_vars => (Base /\ HostInv)'
  BY BaseNext, HostNext DEF Base
<1>4. Base /\ HostInv /\ [Next]_vars => [calm => CalmStep]_vars
  BY CalmNext
<1> QED BY <1>1, <1>2, <1>3, <1>4, PTL DEF Spec
=============================================================================
