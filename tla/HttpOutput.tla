----------------------------- MODULE HttpOutput -----------------------------
(***************************************************************************)
(* The http output of libbeat/outputs/http: the Client that publishes a    *)
(* batch of events by POST, the Connection whose flag it consults, and     *)
(* around it the parts of libbeat that drive it (the output workers, the   *)
(* failover client, the backoff wrapper, the retryer), which are not in    *)
(* this repository and are modelled from how http.go and client.go use     *)
(* them.  At the other end are the receivers and a network that may lose,  *)
(* delay or cut short any request.                                         *)
(*                                                                         *)
(* An event is <<b, i>>: the i-th event of batch b.  client.go returns     *)
(* data[index:] on an error, so what is left of a batch is always the      *)
(* suffix that starts at first[b].                                         *)
(*                                                                         *)
(* The worker's loop runs Publish to its end before it takes another       *)
(* batch, so a Connection has one user and the steps of Publish interleave *)
(* only with other workers, the receivers and the network.                 *)
(***************************************************************************)
EXTENDS Integers

CONSTANTS
  Hosts,        \* the configured hosts, one Connection each
  Batches,      \* the batches the pipeline hands to the output
  BatchLen,     \* the number of events in a batch
  BatchPublish, \* config.BatchPublish: one request per batch, or per event
  LoadBalance,  \* config.LoadBalance: one worker per host, or one with failover
  MaxRetries,   \* config.MaxRetries; -1 is "for ever"
  Guaranteed,   \* the events are sent with GuaranteedSend, as Filebeat does
  Redirects,    \* a receiver may answer 301/302/303 with a Location
  Failover,     \* the single worker that runs when LoadBalance is off
  NoHost, NoBatch

ASSUME ConfigAssumption ==
  /\ Hosts # {}
  /\ BatchLen \in Nat \ {0}
  /\ MaxRetries \in Int /\ MaxRetries >= -1
  /\ {BatchPublish, LoadBalance, Guaranteed, Redirects} \subseteq BOOLEAN
  /\ NoHost \notin Hosts /\ NoBatch \notin Batches

Workers == IF LoadBalance THEN Hosts ELSE {Failover}
Index   == 1 .. BatchLen
Events  == Batches \X Index

VARIABLES
  loc,        \* where a batch is: "queue", "out" (at a worker), "acked", "dropped"
  ttl,        \* retries a batch has left; none are counted at or below 0
  first,      \* the first event of a batch that is not known to be published
  pc,         \* what a worker is doing: "idle", "publish", "wait", "backoff"
  wconn,      \* the worker believes that its client is connected
  active,     \* the host whose client the worker uses
  cur,        \* the batch a worker is publishing
  at,         \* the loop variable of publishEvents: the event it is at
  connected,  \* Connection.connected, per host
  answer,     \* what became of the worker's request
  late,       \* requests the client gave up that a receiver may still process
  stored,     \* events some receiver has stored (it answered 2xx)
  dup,        \* events stored more than once
  rejected,   \* events in a request a receiver answered 400 or 500
  unsure,     \* events in a request that ended without a complete answer
  misled,     \* events in a request that a receiver redirected
  tries,      \* requests that carried the event, counted up to TriesCap
  calm        \* the receivers and the network have stopped failing

batchVars  == <<loc, ttl, first>>
workerVars == <<pc, wconn, active, cur, at>>
netVars    == <<answer, late>>
history    == <<stored, dup, rejected, unsure, misled, tries>>
vars == <<batchVars, workerVars, connected, netVars, history, calm>>

-----------------------------------------------------------------------------
(* Helpers                                                                 *)

\* Bound: requests are counted up to one more than the retries allow, and not
\* at all where no retry is.
TriesCap == IF MaxRetries < 0 THEN 0 ELSE MaxRetries + 2

Queued(b) == loc[b] = "queue"

\* batch_publish sends what is left of the batch in one body, otherwise the
\* body is the event the loop is at.
Body(w) ==
  IF BatchPublish THEN {cur[w]} \X (first[cur[w]] .. BatchLen)
                  ELSE {<<cur[w], at[w]>>}

\* The failover client picks a host other than the one that failed, if any.
NextHosts(w) ==
  LET others == Hosts \ {active[w]}
  IN IF LoadBalance THEN {w} ELSE IF others = {} THEN Hosts ELSE others

\* timeToLive of a new batch; reduceTTL, and whether it keeps the batch.
InitialTTLHigh == MaxRetries + 2                                    \* mutant
InitialTTL == MaxRetries + 1
ReducedTTL(n) ==
  IF n <= 0 THEN n ELSE IF n > 1 THEN n - 1 ELSE IF Guaranteed THEN -1 ELSE 0
Alive(n) == n # 1 \/ Guaranteed

\* Close, and every failure seen by execHTTPRequest, clears the flag.
Disconnect(w) == connected' = [connected EXCEPT ![active[w]] = FALSE]

\* batch.ACK() when nothing is left, else the next turn of the loop.
Advance(w) ==
  /\ IF BatchPublish \/ at[w] = BatchLen
       THEN /\ loc' = [loc EXCEPT ![cur[w]] = "acked"]
            /\ cur' = [cur EXCEPT ![w] = NoBatch]
            /\ at'  = [at EXCEPT ![w] = 1]
            /\ pc'  = [pc EXCEPT ![w] = "idle"]
       ELSE /\ at' = [at EXCEPT ![w] = @ + 1]
            /\ pc' = [pc EXCEPT ![w] = "publish"]
            /\ UNCHANGED <<loc, cur>>
  /\ UNCHANGED <<ttl, first, wconn, active>>

\* data[index:], what PublishEvents returns after an error.
LeftAll(w)   == first[cur[w]]                                       \* mutant
LeftSkip(w)  == IF at[w] < BatchLen THEN at[w] + 1 ELSE at[w]       \* mutant
LeftPast(w)  == at[w] + 1                                           \* mutant
Left(w) == at[w]

\* batch.RetryEvents(data[index:]); the retryer queues the batch again or drops
\* it; Publish returns the error, so the wrapper closes the client and waits.
Fail(w) ==
  LET b == cur[w] IN
  /\ first' = [first EXCEPT ![b] = Left(w)]
  /\ ttl'   = [ttl EXCEPT ![b] = ReducedTTL(@)]
  /\ loc'   = [loc EXCEPT ![b] = IF Alive(ttl[b]) THEN "queue" ELSE "dropped"]
  /\ cur'   = [cur EXCEPT ![w] = NoBatch]
  /\ at'    = [at EXCEPT ![w] = 1]
  /\ pc'    = [pc EXCEPT ![w] = "backoff"]
  /\ UNCHANGED <<wconn, active>>

\* Neither status branch of BatchPublishEvent matches when there is no status;
\* PublishEvent looks at the flag once more before it returns.
AfterBrokenAnswerAcks(w) == Advance(w)                              \* mutant
AfterBrokenAnswer(w) == IF BatchPublish THEN Advance(w) ELSE Fail(w)

Stores(S) ==
  /\ stored' = stored \cup S
  /\ dup' = dup \cup (stored \cap S)

-----------------------------------------------------------------------------
(* The worker and the client                                               *)

\* A worker that is not connected gives the batch it got back (Cancelled, which
\* costs no retry) and connects; Connection.Connect only sets the flag.
ConnectOnlyWorker(w) ==                                             \* mutant
  /\ pc[w] = "idle" /\ ~wconn[w]
  /\ \E b \in Batches : Queued(b)
  /\ \E h \in NextHosts(w) : active' = [active EXCEPT ![w] = h]
  /\ wconn' = [wconn EXCEPT ![w] = TRUE]
  /\ UNCHANGED <<batchVars, pc, cur, at, connected, netVars, history, calm>>
Connect(w) ==
  /\ pc[w] = "idle" /\ ~wconn[w]
  /\ \E b \in Batches : Queued(b)
  /\ \E h \in NextHosts(w) :
       /\ active' = [active EXCEPT ![w] = h]
       /\ connected' = [connected EXCEPT ![h] = TRUE]
  /\ wconn' = [wconn EXCEPT ![w] = TRUE]
  /\ UNCHANGED <<batchVars, pc, cur, at, netVars, history, calm>>

\* Publish(batch): the events to publish are those left in the batch.
TakeShared(w, b) ==                                                 \* mutant
  /\ pc[w] = "idle" /\ wconn[w] /\ Queued(b)
  /\ cur' = [cur EXCEPT ![w] = b]
  /\ at'  = [at EXCEPT ![w] = first[b]]
  /\ pc'  = [pc EXCEPT ![w] = "publish"]
  /\ UNCHANGED <<batchVars, wconn, active, connected, netVars, history, calm>>
Take(w, b) ==
  /\ pc[w] = "idle" /\ wconn[w] /\ Queued(b)
  /\ loc' = [loc EXCEPT ![b] = "out"]
  /\ cur' = [cur EXCEPT ![w] = b]
  /\ at'  = [at EXCEPT ![w] = first[b]]
  /\ pc'  = [pc EXCEPT ![w] = "publish"]
  /\ UNCHANGED <<ttl, first, wconn, active, connected, netVars, history, calm>>

\* publishEvents and PublishEvent return ErrNotConnected before they send.
NotConnected(w) ==
  /\ pc[w] = "publish" /\ ~connected[active[w]]
  /\ Fail(w)
  /\ Disconnect(w)
  /\ UNCHANGED <<netVars, history, calm>>

\* The body is encoded and the request goes out.
Post(w) ==
  /\ pc[w] = "publish" /\ connected[active[w]]
  /\ pc' = [pc EXCEPT ![w] = "wait"]
  /\ answer' = [answer EXCEPT ![w] = "sent"]
  /\ tries' = [e \in Events |-> IF e \in Body(w) /\ tries[e] < TriesCap
                                  THEN tries[e] + 1 ELSE tries[e]]
  /\ UNCHANGED <<batchVars, wconn, active, cur, at, connected, late,
                 stored, dup, rejected, unsure, misled, calm>>

\* The answer arrived: the request is over.
Over(w) == answer' = [answer EXCEPT ![w] = "none"]

\* A redirected POST is followed by a GET without a body, and the answer to the
\* GET is the one the client sees: any of those of a POST.

\* Status below 300, body read.
Published(w) ==
  /\ pc[w] = "wait" /\ answer[w] \in {"ok", "redirected"}
  /\ Advance(w) /\ Over(w)
  /\ UNCHANGED <<connected, late, history, calm>>

\* Status 400 or 500: the flag is cleared, and nil is returned.
PublishRejected(w) ==
  /\ pc[w] = "wait" /\ answer[w] \in {"rejected", "redirected"}
  /\ Disconnect(w) /\ Advance(w) /\ Over(w)
  /\ UNCHANGED <<late, history, calm>>

\* Any other status from 300 on: the error is returned.
RefusedAnswer(w) == answer[w] = "refused" \/ (answer[w] = "redirected" /\ ~calm)
PublishRefusedAcks(w) ==                                            \* mutant
  /\ pc[w] = "wait" /\ RefusedAnswer(w)
  /\ Disconnect(w) /\ Advance(w) /\ Over(w)
  /\ UNCHANGED <<late, history, calm>>
PublishRefused(w) ==
  /\ pc[w] = "wait" /\ RefusedAnswer(w)
  /\ Disconnect(w) /\ Fail(w) /\ Over(w)
  /\ UNCHANGED <<late, history, calm>>

\* Status below 300, but reading the body failed.
AnswerCutShort(w) ==
  /\ ~calm
  /\ pc[w] = "wait" /\ answer[w] \in {"ok", "redirected"}
  /\ Disconnect(w) /\ AfterBrokenAnswer(w) /\ Over(w)
  /\ unsure' = unsure \cup Body(w)
  /\ UNCHANGED <<late, stored, dup, rejected, misled, tries, calm>>

\* http.Do returned an error: no connection, a reset, or the client's Timeout.
\* A request that no receiver has looked at yet may still reach one.
NetworkError(w) ==
  /\ ~calm
  /\ pc[w] = "wait"
  /\ Disconnect(w) /\ AfterBrokenAnswer(w) /\ Over(w)
  /\ unsure' = unsure \cup Body(w)
  /\ \/ UNCHANGED late
     \/ answer[w] = "sent" /\ late' = late \cup {Body(w)}
  /\ UNCHANGED <<stored, dup, rejected, misled, tries, calm>>

\* WaitOnError returned, and the worker's loop takes the error as a lost
\* connection.
EndBackoff(w) ==
  /\ pc[w] = "backoff"
  /\ pc' = [pc EXCEPT ![w] = "idle"]
  /\ wconn' = [wconn EXCEPT ![w] = FALSE]
  /\ UNCHANGED <<batchVars, active, cur, at, connected, netVars, history, calm>>

WorkerStep(w) ==
  \/ Connect(w)
  \/ \E b \in Batches : Take(w, b)
  \/ NotConnected(w)
  \/ Post(w)
  \/ Published(w)
  \/ PublishRejected(w)
  \/ PublishRefused(w)
  \/ EndBackoff(w)

-----------------------------------------------------------------------------
(* The receivers and the network                                           *)

\* A receiver stores every event of a request it answers with 2xx.
Accept(w) ==
  /\ answer[w] = "sent"
  /\ answer' = [answer EXCEPT ![w] = "ok"]
  /\ Stores(Body(w))
  /\ UNCHANGED <<batchVars, workerVars, connected, late, rejected, unsure,
                 misled, tries, calm>>

\* 400 or 500.
Reject(w) ==
  /\ answer[w] = "sent"
  /\ answer' = [answer EXCEPT ![w] = "rejected"]
  /\ rejected' = rejected \cup Body(w)
  /\ UNCHANGED <<batchVars, workerVars, connected, late, stored, dup, unsure,
                 misled, tries, calm>>

\* Another status from 300 on.  With a Location, a 301, 302 or 303 is not what
\* the client sees: NewClient gives http.Client no CheckRedirect, so it follows
\* with a GET, which is under way from here on.  (A 307 or 308 has the POST sent
\* again: its answer is the receiver's.)
OtherAnswers == {"refused"} \cup IF Redirects THEN {"redirected"} ELSE {}
Refuse(w) ==
  /\ ~calm
  /\ answer[w] = "sent"
  /\ \E a \in OtherAnswers : answer' = [answer EXCEPT ![w] = a]
  /\ misled' = IF answer'[w] = "redirected" THEN misled \cup Body(w) ELSE misled
  /\ UNCHANGED <<batchVars, workerVars, connected, late, stored, dup, rejected,
                 unsure, tries, calm>>

\* A request the client has given up is processed after all.
LateStore(S) ==
  /\ S \in late
  /\ late' = late \ {S}
  /\ Stores(S)
  /\ UNCHANGED <<batchVars, workerVars, connected, answer, rejected, unsure,
                 misled, tries, calm>>

\* From some moment on nothing fails; used by liveness only (see Filebeat).
Settle ==
  /\ ~calm
  /\ calm' = TRUE
  /\ UNCHANGED <<batchVars, workerVars, connected, netVars, history>>

Respond(w) == Accept(w) \/ Reject(w)
Misbehave(w) == Refuse(w) \/ AnswerCutShort(w) \/ NetworkError(w)

-----------------------------------------------------------------------------
Init ==
  /\ loc    = [b \in Batches |-> "queue"]
  /\ ttl    = [b \in Batches |-> InitialTTL]
  /\ first  = [b \in Batches |-> 1]
  /\ pc     = [w \in Workers |-> "idle"]
  /\ wconn  = [w \in Workers |-> FALSE]
  /\ active = [w \in Workers |-> IF LoadBalance THEN w ELSE NoHost]
  /\ cur    = [w \in Workers |-> NoBatch]
  /\ at     = [w \in Workers |-> 1]
  /\ connected = [h \in Hosts |-> FALSE]
  /\ answer = [w \in Workers |-> "none"]
  /\ late = {}
  /\ stored = {} /\ dup = {} /\ rejected = {} /\ unsure = {} /\ misled = {}
  /\ tries = [e \in Events |-> 0]
  /\ calm = FALSE

Next ==
  \/ \E w \in Workers : WorkerStep(w) \/ Respond(w) \/ Misbehave(w)
  \/ \E S \in late : LateStore(S)
  \/ Settle

Spec == Init /\ [][Next]_vars

-----------------------------------------------------------------------------
(* Properties                                                              *)

Settled == stored \cup rejected

\* Every variable has its type.
TypeOK ==
  /\ loc \in [Batches -> {"queue", "out", "acked", "dropped"}]
  /\ ttl \in [Batches -> Int]
  /\ first \in [Batches -> Index]
  /\ pc \in [Workers -> {"idle", "publish", "wait", "backoff"}]
  /\ wconn \in [Workers -> BOOLEAN]
  /\ active \in [Workers -> Hosts \cup {NoHost}]
  /\ cur \in [Workers -> Batches \cup {NoBatch}]
  /\ at \in [Workers -> Index]
  /\ connected \in [Hosts -> BOOLEAN]
  /\ answer \in [Workers -> {"none", "sent", "ok", "rejected", "refused", "redirected"}]
  /\ late \in SUBSET SUBSET Events
  /\ stored \in SUBSET Events /\ dup \in SUBSET Events
  /\ rejected \in SUBSET Events /\ unsure \in SUBSET Events
  /\ misled \in SUBSET Events
  /\ tries \in [Events -> Nat]
  /\ calm \in BOOLEAN

\* A batch that Publish holds belongs to exactly one worker: no ACK, retry or
\* drop loses a batch on its way (which would stop the input behind it) or has
\* it published by two workers at once.
OneOwner ==
  /\ \A b \in Batches : loc[b] = "out" => \E w \in Workers : cur[w] = b
  /\ \A w, v \in Workers : cur[w] = cur[v] /\ cur[w] # NoBatch => w = v
  /\ \A w \in Workers : cur[w] # NoBatch => loc[cur[w]] = "out"

\* An acknowledged batch was settled: a receiver stored each of its events or
\* refused it with 400 or 500 (client.go, Publish: ACK when publishEvents
\* leaves nothing; PublishEvent's last look at the flag is what carries it).
AckedSettled ==
  \A b \in Batches : loc[b] = "acked" => \A i \in Index : <<b, i>> \in Settled

\* With batch_publish, and with redirects, the most that can be said of an
\* acknowledged event: it was settled, or its request ended without a complete
\* answer, or a receiver redirected it.
AckedAccounted ==
  \A b \in Batches : loc[b] = "acked" =>
    \A i \in Index : <<b, i>> \in Settled \cup unsure \cup misled

\* An event is stored twice only if the client could not know better: one of
\* its requests ended without a complete answer.  data[index:] leaves out what
\* was published, and a batch is not handed to two workers.
NoDuplicateWithoutDoubt == dup \subseteq unsure

\* One by one, an event is stored only when all that precede it in its batch
\* were settled, through every retry, reconnect and change of host.
InOrder ==
  \A b \in Batches : \A j \in Index : <<b, j>> \in stored =>
    \A i \in 1 .. j - 1 : <<b, i>> \in Settled

\* max_retries bounds the requests that carry an event, unless it must not be
\* given up (retries are counted per batch, but a request needs a live ttl).
RetryBudget ==
  ~Guaranteed /\ MaxRetries >= 0 =>
    \A e \in Events : tries[e] <= MaxRetries + 1

\* No event is given up for want of retries unless it was sent at least once,
\* or a receiver answered 400 or 500 to some event before, or to the GET that
\* followed a redirect: that answer clears Connection.connected behind the
\* worker's back, and the next call pays.
DropNeedsAttempt ==
  \A b \in Batches : loc[b] = "dropped" =>
    tries[<<b, first[b]>>] > 0 \/ rejected \cup misled # {}

(* The promise of the output, Delivery, for events that are published one  *)
(* by one: an event is owed while its batch is queued or at a worker and   *)
(* it is not known to be published.                                        *)
Rest(b) == {b} \X (first[b] .. BatchLen)
Owed    == UNION {Rest(b) : b \in {c \in Batches : loc[c] \in {"queue", "out"}}}
Expired == UNION {Rest(b) : b \in {c \in Batches : loc[c] = "dropped"}}

Promise == INSTANCE Delivery WITH owed <- Owed, expired <- Expired

\* Every step of the output is a step the promise allows.
KeepsPromise == Promise!Spec

=============================================================================
