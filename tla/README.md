# TLA+ for beats-http-output

Specifications of FILEBEAT_HTTP_OUTPUT: the `http` output of Filebeat
(`libbeat/outputs/http`) and the wrapper that supervises a `filebeatexc`
process and runs scripts beside it (`main.go`, `script`). The modules are
translated from the Go code; the comment above a definition says what it stands
for, and `PROJECT.json` names its lines ("map"), the TLC runs, the mutants that
each property catches, the hazards and the findings.

## The system

| component | state | operations | hard because |
|---|---|---|---|
| http output client (`client.go`, `http.go`, `config.go`) | `Connection.connected`, the events left of a batch, a batch's retries | `Connect`, `Close`, `Publish`, `publishEvents`, `BatchPublishEvent`, `PublishEvent`, `execHTTPRequest` | many workers, requests that fail after they were processed, a flag changed by one function and read by another, retries of a suffix |
| body encoders (`enc.go`) | one buffer per `Connection` | `Marshal`, `Reader`, `AddHeader`; `Add`, `AddRaw` (unused) | the transport may still read what `Marshal` resets |
| url helpers (`url.go`) | none | `addToURL`, `parseProxyURL` | |
| supervisor (`main.go`, `enum/enum.go`) | `cmd`, `enum.Mu`, a goroutine per child | `startFileBeat`, `Wait`, restart, deferred kill | `cmd` is shared without the mutex |
| script manager (`script/manager.go`, `registry.go`) | `stopCh`, `wg`, a ticker per script | `Start`, `Stop`, `runScript` | Start may fail half way; Stop races ticks |
| module watcher (`script/module_watcher.go`) | `baseline`, `initialized`, `lastReadFailures` | `Run`, `scan`, `diffSnapshots` | files change while they are read |
| runtime configuration (`config/config.go`) | the modules file filebeat.yml | `LoadRuntimeConfig`, `UpdateFilebeatConfig` | the file is rewritten in place while filebeat may read it; an error in the middle of a list |
| logging (`infra/log.go`, `configure.go`) | `logFiles`, `GlobalLog` | `InitGlobalLogger`, `Log` | five writers on one file, each of which rotates it |
| filebeat entry (`filebeat/main.go`) | the process; Beats' registry | start, restart | what was sent is not what is recorded when it dies |
| `test.go`, `module/` | | | a load generator, data |

How they interact. Filebeat's pipeline hands batches to output workers; a worker
owns a `NetworkClient`, which is the `Client` of `client.go` wrapped in
`outputs.WithBackoff` (and in a failover client when `loadbalance` is off). The
client posts to a receiver and answers the pipeline through
`batch.ACK`/`batch.RetryEvents`. All that runs in `filebeatexc`. The wrapper is
another process: `main` starts `filebeatexc`, a goroutine waits for it and starts
the next one, and the script manager runs the module watcher on a ticker. The
wrapper and filebeat share only the file system: the log, the modules directory
that the watcher reads, and filebeat.yml, which `UpdateFilebeatConfig` (an
exported function that nothing in the repository calls) rewrites.

What must hold: an acknowledged event was stored, or refused for good; none is
lost on the way from worker to worker; one is stored twice only when the client
could not know better; `max_retries` means what it says; after an outage
everything is delivered. One child runs, it is waited for and replaced when it
exits, and none outlives the wrapper. Nothing is logged about files that did
not happen, and no change is missed for ever. After `Stop` no script runs, and
until then each one does. What filebeat records as done was delivered, through
any restarts. An update of filebeat.yml reports what became of the file. The log
keeps its lines in order, within its size.

## Modules

**HttpOutput.tla** - the workers, the client and the network. An event is
`<<b, i>>`; what is left of a batch is its suffix from `first[b]`, since
`publishEvents` returns `data[index:]`. A worker's `pc` is where `Publish` is:
`Take` is its start, `Post` everything up to `http.Do`, and `Published`,
`PublishRejected`, `PublishRefused`, `AnswerCutShort`, `NetworkError` and
`NotConnected` are its ways through `execHTTPRequest` and back. `Advance` is the
next turn of the loop, or `batch.ACK()`; `Fail` is `RetryEvents` with the
returned error, which makes the backoff wrapper close the client and the worker
lose its connection (`EndBackoff`, `Connect`). Publish is synchronous and a
`Connection` has one user, so its steps interleave with other workers and with
the network only. External, from how this code uses them: the retryer's
accounting (`InitialTTL`, `ReducedTTL`, `Alive`: a batch starts with
`max_retries + 1`, a guaranteed one goes on with -1, a batch given back before
it was published, `Cancelled`, costs nothing), the failover client
(`NextHosts`), the receivers (`Accept`, `Reject`, `Refuse`) and the
network (`NetworkError` may leave its request in `late`, for `LateStore`). After a
redirect (one of `OtherAnswers`) the client sees the answer to the GET, which may be any of those to a
POST: a 2xx, a 400 or 500, another status, one cut short, or none.
`stored`, `dup`, `rejected`, `unsure`, `misled` and `tries` are histories for
the properties.

**Delivery.tla** - what the output promises, without workers, hosts or requests:
an event is owed until it is stored, refused for good, or out of retries.
`HttpOutput!Promise` is the refinement mapping: an event is owed while it is in
the rest of a batch that is queued or at a worker.

**HttpOutput_proofs.tla** holds the theorems about HttpOutput and that it
implements Delivery; a **_proofs** module beside Filebeat, Supervisor,
ScriptManager, ModuleWatcher, RequestBody, RotatingLog and ConfigUpdate holds
those about that module.

**Filebeat.tla** - extends HttpOutput with the process it runs in: `Dies` takes
everything in memory with it (requests under way may still arrive), `Restart` is
the wrapper's, and the registry, as the comment in `filebeat/main.go` describes
it, is the number of batches recorded as done (`Persist`, Beats' own), in the order
of the file they were read from. `WorkerRuns`, `ReceiverRuns` and `NetworkRuns` are
HttpOutput's steps by a process that is alive. `Panic` is `makeEvent` (client.go
363-386) with an event that `encoding/json` cannot encode (`poison`): the map
stays nil, the assignment panics, and with it dies the process; `failed` remembers
the event.

**Supervisor.tla** - `main` and one goroutine per command. `startFileBeat` is
the steps `Lock`, `NotFound`/`Command`, `Start`/`StartFails`, `Return`, with the
mutex held from `Lock` to the end, and every access to the global `cmd` a step
of its own where the code does not hold it: `Store` (line 59), `Wait` (line
102), `Kill` (the check at line 47) and `KillProcess` (line 48, which reads `cmd`
again and may find another command). Commands are numbered as `exec.Command` makes them.
Around it `main` goes through `LoadRuntimeConfig`, `InitGlobalLogger`,
`NewManager` and `StartScripts`. With `BadConfig` each may fail: the first three
end `main` before anything runs, the last one leads to the deferred `Kill`
(`scripts = "bad"`), or, with an interval of 0s, to the `Panic` of
`time.NewTicker`, which runs nothing that is deferred. Without a script that
ticks, `select {}` ends in the runtime's deadlock error once every goroutine has
given up (`AllAsleep`). `missed` records a start that found no binary.

**ScriptManager.tla** - `Start`, `Stop` and `runScript`, with the ticker's
channel of one place. Scripts may have intervals that do not parse (`Start`
returns an error) or that are not positive (`time.NewTicker` panics). The order
of the scripts is that of a map, so any. `Stop` may be called again, which finds
`stopCh` closed.

**ModuleWatcher.tla** - `Begin` lists the directory, each `Read`/`ReadFails`
reads one file, `Initialize`/`Report` end the run; in between others write,
remove and lock files. Contents stand for their SHA-256. A directory that cannot
be listed is passed over (`BeginUnlisted`). `handleReadFailure` logs an error
once, and again when it changes; `word` is the last that was logged about a file.

**RequestBody.tla** - the one buffer a `Connection` has. `Reset`, `Encode` and
`Reader` are `Marshal` and `Reader` of `enc.go` for json and json_lines, plain
and gzip; `NewRequest` takes the buffer's length for Content-Length, `DoReturns`
goes on to the next body or, after a failure, to the same one again. `Send`,
`FindEmpty`, `EndOfBody` and `Abandon` are the transport, external: by the
contract of `http.Client.Do` it may still read a request's body after `Do` has
returned. What it reads then belongs to the next body, and goes out as part of the
older request: `sent`, `length` and `owner` are kept for each request. A request is
`tainted` if the buffer was read for another one when its body was encoded, or was
still read for it when the buffer was reset. HttpOutput takes a body for the set of
its events; this module says when that is so.

**RotatingLog.tla** - a lumberjack writer per level, all with one Filename.
`Log` is `Logger.Log` up to the call of lumberjack, and lumberjack's
`openExistingOrNew`, `openNew`, `rotate` and `Write` (external, v2.2.1) are steps
between system calls, since each writer has its own mutex. A file that a writer
created has an offset, one that it found is opened with O_APPEND. The goroutine of a
rotation may `Compress` a backup, `Remove` it when MaxBackups newer ones exist, or
`Expire` it with all that are older (max_age). Sizes are counted in lines.

**ConfigUpdate.tla** - `UpdateFilebeatConfig`. `Begin` and `Malformed` are its
start, `Add`/`Unreadable` a turn of its loop, `Open` (which truncates),
`WriteSome`, `WriteFails` and `Written` are `ioutil.WriteFile`; `Crash` may come
anywhere, filebeat's `Reload` and others' `ModuleFile` too, which makes any of the
files, filebeat.yml included, unreadable for a while. An entry named
"filebeat" copies the file that is being made. `ideal` is what the file would be
if no write had been broken off.

The **MC** modules instantiate these for TLC. MCHttpOutput defines the symmetry
and names -1 (`Forever`), MCFilebeat numbers the batches, MCRotatingLog lists the
settings of max_size.

## Runs

| run | question | result |
|---|---|---|
| OneByOne | who owns a batch; what do ACK, drop, duplicate and order mean; is Delivery implemented | holds |
| Filebeat | with `batch_publish`, what does an ACK mean, what does a restart lose or send again, is everything recorded after an outage | what is acknowledged or recorded was settled, or its request had no complete answer or was redirected; only the unrecorded and the doubtful is sent again; yes, unless an event cannot be encoded |
| PoisonIsRetried | is an event that cannot be encoded given up, as documented | **no**: the process dies of it and meets it again |
| BatchErrorIsAcked | is an ACK in batch mode a delivery | **no**: a network error is acknowledged |
| RedirectIsAcked | is a redirect an error, as documented | **no**: the GET that follows acknowledges |
| Supervised | one child, waited for, replaced, not outliving main | holds, but for main's late store, a binary that is away at the moment of the restart, and a panic |
| SupervisorLateStore | is it restarted with a binary that is always there | **no**: line 59 |
| Body | does a complete request carry the whole body and nothing else, whatever the requests before left | holds, unless the buffer was shared; then the request the client waits for carries the end of its body, an older one may carry a part of its own followed by later bodies, and none anything from before |
| Watcher | is the log true and complete; is an error that lasts the last word about its file | holds, but for deletions logged when the directory cannot be listed |
| Manager | quiet after Stop, running before | holds |
| RotatingLog | what is lost, what is max_backups worth, how large does a file get, is the order kept | a line is lost only where levels share a file, or with a backup that is too old or one too many; a single writer keeps its latest lines; a file has max_size per level; order is kept |
| ConfigUpdate | does the answer tell what became of the file; is a part of it put right | holds; a part is put right by the next successful call that does not copy it |

The four violations are the findings of `PROJECT.json`, with the lines of the
documentation or code they contradict. `AckedSettled` is checked where it holds
(OneByOne) and violated in batch mode and with redirects.

The passing runs hold with exceptions that are facts about the code:

- `RegistryTrails`, `AckedAccounted`: an event whose POST was redirected, or, with
  `batch_publish`, whose request had no complete answer, is acknowledged and recorded
  as done. With events one by one only the redirect is left (`TrailsCorrect`).
- `AllRecorded`: one event with a timestamp out of the years 0 to 9999 kills filebeat
  each time it is read, and nothing behind it is ever recorded (`StuckCorrect`); that
  `docs/architecture.md` says the opposite is the finding of PoisonIsRetried.
- `DropNeedsAttempt`: an event may be given up without being sent after another was
  answered 400 or 500, or redirected to a place that answers so.
- `WholeUnlessShared`: `Marshal` resets a buffer that the transport of an earlier
  request may still read. That reader takes away the head of the new body. The
  receiver then gets the rest as a complete request (`SuffixAtWorst`), or, if the
  earlier request was answered early, may get that one completed with what is not
  its own: a mix of two bodies. The client no longer waits for its answer then.
  `NothingStale` says how far the mix can go: later bodies only, and in order.
- `StaysUp`: a restart that finds no binary is not tried again (`missed`), though
  `docs/项目技术文档.md` promises restarts.
- `ReportsAreTrue`: an unreadable directory is logged as the deletion of its
  files; `CatchesUp` shows that the log is put right.
- `SizeBound` is tight: max_size is per level, not per file, contrary to the
  comment at log.go:14 and docs/configuration.md:73. `OwnFilesKeepAll` needs its premise: levels share the file
  (log.go:48 speaks of different ones), so the one that made it overwrites what
  others appended, and after a rotation the others keep writing to the backup,
  which is compressed and removed. Its exception for removed backups is what
  max_backups and max_age ask for; but a rotation that comes early, after a restart
  or from another level, counts as a backup like any other, and `LatestKept` says
  what one writer can rely on. `compress: false` has no effect
  (config.go:92).
- `DamageHeals`: a list that names "filebeat" takes a broken file for a whole one.
  `AnswerTells` says that *all* of the list was written; an entry with a mode
  other than 0 and 1 adds nothing, while the comment and the message at
  config.go:152-153 call the second mode 2.

**Bounds.** OneByOne: two hosts, two batches of two events, one retry. Two
batches are needed for a batch to change workers while another is published, two
events for a suffix that is neither empty nor the batch, two hosts for a
late request at one to race the retry at the other, one retry for the budget to
run out after a failure and after `ErrNotConnected`. `TriesCap` stops counting
one above the budget. Symmetry permutes batches and hosts; it is not used where
liveness is checked. The case with three events, retries for ever and a
guarantee is covered by the theorems, which hold for all values. Filebeat: two
hosts with failover, two batches of two events in one request each, two deaths: a
batch may be given back and follow the other, be stored and not recorded, be late at
one host and repeated at the other, and be sent by three processes; retries are for
ever and redirects allowed. Publishing one by one is OneByOne's and the theorems'.
Supervisor: at
most three crashes (`MaxCrashes`); two are enough for the late store to bring
back a command that has exited, and `TypeOK` shows that `Cmds` does not run
out. Watcher: two files, two contents, four changes by others (`MaxChanges`):
a file can be written, locked, written and unlocked again between and during
scans. Body: three bodies of three events and two requests: the earlier one may be
answered early, go on with any part of the body encoded after it, and be complete
or not before the later one is; with a third body the buffer is reset under both.
Manager: three scripts, every combination of intervals. RotatingLog: two levels,
a size of two to four lines, one backup, three lines each and two restarts: each
level can fill and rotate the file under the other, a new process can find it half
full, and up to three backups go beyond the one that is kept.
ConfigUpdate: two calls, lists of up to two entries: an error after a good
entry, and a second call over what the first left.
`CHECK_DEADLOCK FALSE` where the system may stop: all batches settled or
recorded, the supervisor gone, the scripts stopped, the last line logged. The
watcher and the updates' surroundings never stop, and deadlock is checked.

**Fairness.** Filebeat, and HttpOutput in it: every worker keeps taking the steps it
can (Go schedules it, the client's Timeout ends a request, the backoff timer fires),
a receiver that is asked answers, and `Settle` ends the outage; nothing obliges a
receiver to accept rather than reject, or the network to deliver late requests. The
wrapper restarts the process (Supervisor's StaysUp), the registrar writes; deaths are
bounded, so they end. HttpOutput by itself is checked for safety only.
Supervisor: threads run, children need not crash. ScriptManager: runs end,
tickers tick, and `select`, which picks at random among ready cases, does not
pass over a closed `stopCh` for ever (strong fairness of `TakeStop`); nobody has
to call `Stop`. ModuleWatcher: the ticker brings runs, and they end.
ConfigUpdate: a call goes on, and filebeat looks at the file every `reload.period`;
nobody has to call, and the process may die.

**Mutants.** Each module holds mutated forms of its definitions, marked
`\* mutant` and used by nothing, one for every property of a run: a suffix off
by one, a batch not removed from the queue, an error that acknowledges, a
missing `wg.Add`, a mutex not released, and so on.

## Proofs

Each theorem holds for all values of the constants that the ASSUME of its module
admits: any hosts, batches, lengths, retries, children's crashes, scripts, files
or bodies. Where a theorem needs more, its statement says so; the two violation
runs of HttpOutput show that `~BatchPublish` (events one by one) and `~Redirects`
cannot be dropped.

HttpOutput_proofs:

- `TypeCorrect`: TypeOK, with what a worker holds in each state (`Holding`).
- `OwnerCorrect`: OneOwner is inductive with the types: `Take` needs a queued
  batch, and `Advance` and `Fail` are the only ways out of a worker.
- `AckedCorrect`, `AckedAccountedCorrect`: AckedSettled is not inductive, since
  an acknowledgement looks only at the loop variable. The strengthening is
  `PassedInv`: every event *behind* (before `first`, before `at`, or in an
  acknowledged batch) was settled, or was redirected, or, in batch mode, had no
  complete answer; it needs `LoopInv` (the loop starts at `first`) and
  `AnswerInv` (an answer that a worker has not read yet is in the histories).
  AckedAccounted follows in every mode, AckedSettled for events one by one
  without redirects.
- `OrderCorrect`: InOrder with the same statement for the requests in `late`.
- `NoDuplicateCorrect`: `Doubt`, what is stored and not in doubt is behind, or
  is the answer a worker is about to read; so it is in no body to come.
- `BudgetCorrect`: RetryBudget is not inductive, as retries belong to a batch and
  tries to an event. `BudgetInv`: what an event was sent and what its batch has
  left add up to at most `max_retries + 1`, where a request that is out was not
  paid for yet; an event behind the loop is sent no more.
- `DropCorrect` (one by one): a batch is dropped by a request that was counted
  (`SentInv`) or by `ErrNotConnected`, which a worker that believes in its
  connection meets only after a rejection or a redirect (`ConnInv`).

- `Refinement` (one by one, no redirects): Spec implements Delivery (`OwedInit`,
  `PromiseNext`: each step is a Store, a Reject, a Release or a stutter, from the
  same invariants); `NothingLost`, which Delivery implies, follows.
- `BatchInHandCorrect`, `CalmCorrect` (every mode): see progress, below.

Filebeat_proofs: the invariants of HttpOutput survive the death of the process
(`DeathBase`, `DeathKeeps`: what the next one takes for acknowledged is what was
recorded).

- `TrailsCorrect` and `AccountedThroughDeaths` (every mode, retries for ever):
  RegistryTrails and AckedAccounted, from `RecordInv` and `PassedInv`, as only an
  acknowledged batch is recorded, and only a recorded one is acknowledged from the
  start in the next process. `RecordedCorrect`: one by one and without redirects
  what is recorded was stored or refused for good.
- `DuplicatesCorrect` (every mode): `Doubt` with the `replayed` events added.
- `StuckCorrect` (retries for ever): an event comes into a history, a late
  request or a request under way by its `Post` only (`GoesOut`), and `makeEvent`
  is before it.

Supervisor_proofs: `SupervisorTypeCorrect`, `SupervisedCorrect`,
`OneChildCorrect` and `OutlivesCorrect`, from one inductive invariant: one thread
at most is on duty, starting a command or waiting for it (`DutyInv`); a command
that is to be started or returned is there (`CmdInv`); until a late store the
global `cmd` is the child that runs (`ChildInv`). `PaidInv` counts: every command
but the first is paid for by an exit, so the commands that the type allows do
not run out.

ScriptManager_proofs: `ManagerTypeCorrect` and `QuietCorrect`. `CountInv`: the
wait group's counter is the number of goroutines that have not called Done; so it
is never negative, and 0 only when none is left.

ModuleWatcher_proofs: `WatcherTypeCorrect`; `LogCorrect` (`KnownInv`: what the
log adds up to is the baseline in every state once there is one);
`ErrorWordCorrect` (`WordInv`: a file that could not be read takes its entry from
the baseline, so that no word but the error is logged of it); `ReportsCorrect`
(`ScanInv`: each file is accounted for by the baseline until the scan reads it,
and by the scan's own map from then on).

RequestBody_proofs: `BodyTypeCorrect`, `WholeCorrect`, `SuffixCorrect`,
`NothingStaleCorrect` and `NoneDroppedCorrect`. `PieceInv` speaks of the request the
client is at: a buffer holds a piece of the body that is being encoded or sent,
complete unless a reader took away its head, and what the transport has and what is
left add up to no more than was announced; so what is complete for the receiver is an
end of the body. `HistoryInv` speaks of every request, also those whose Do returned:
an untainted one has sent a beginning of its body, all of it if nothing is left in
the buffer. `LatestInv` bounds all cells in the buffers and requests by the body that
is encoded, which makes NothingStale inductive.

RotatingLog_proofs: `LogTypeCorrect`, and from its invariant `Typed` (a writer
that opens or rotates has no file open; the file under Filename is the youngest):

- `LevelOrderCorrect`. `LinesBefore`: a level's lines lie before the place its
  writer writes to next, although the writer's offset may be past the end of a
  file that another emptied. Then a new line has the highest number of its level
  and the last place.
- `OwnFilesCorrect`. `OwnKeeps`: while no other writer is a user of a level's
  files, its writer has the file under Filename, writes at its end and finds
  whatever it renames; a finished line is in a file, and that one, if removed and
  not too old, was `Pushed`: MaxBackups newer ones existed, and still count, since
  files never lose their number. It needs `Known`: who wrote to a file is a user of it, and
  a writer about to create a file finds one only if another just made it.
- `SizeBoundCorrect`. The bound is not inductive, as a file one line short of it
  could still have a writer. `Bound`: the length of a file and the `Room` of its
  writers, the lines each may still count, are at most max_size for each of the
  file's users. A step takes a line from the room, adds a user, or leaves the
  file no longer than one user's count (`BoundIfCounted`): so where it is emptied
  and written past its end.

ConfigUpdate_proofs: `UpdateTypeCorrect`, `AnswerCorrect` and `DamageCorrect`, for
lists of any length. The loop appends an entry's section turn by turn, and
AnswerTells and DamageHeals speak of what `FlattenSeq` makes of the whole list.
That is an induction over the list; it is done by `NatSetInduction`, which speaks
of a *set* of naturals and not of a predicate (the library's well-founded order
of finite sets gives it), and `Joined`, the first k entries' sections. The
invariant: `BuildInv` (what was built is Joined up to the entry the loop is at),
`CallInv` (what a call in progress was asked for is made of the file as it was when
the call began, which is `ideal` unless a write was broken off), `WriteInv` (what
is in the file so far is a beginning of what was asked for, so that a write that is
broken off leaves a proper one).

### Progress

The provers here do neither ENABLED nor fairness, so no liveness property is
proved. What is proved is the safety each of them rests on: that somebody can
always go on, where "can go on" is the guards of the steps written out, and that
going on leads somewhere, where a number or a set gets smaller. The last step,
from there to "eventually" under fairness, is TLC's.

- For AllRecorded, within a process: `BatchInHandCorrect` (a batch that is not settled is with a worker
  that can take a step, or queued where every worker can), and `CalmCorrect`:
  after the outage each step of a worker or of the receiver it asked passes an
  event for good (`Unpassed` shrinks) or takes that worker on one of nine
  phases (`Phase` falls: refused, reconnect, backoff, take, post, answer), never
  another worker back. It needs `HostInv`, that a worker has a host before it
  publishes. Retries for ever and every mode are included.
- For AllRecorded, through deaths: `RecordInHandCorrect` (with nothing that cannot be encoded, an
  unrecorded batch leaves the wrapper to restart, the registrar to write, or a
  worker that does not panic).
- For StaysUp: `InHandCorrect` (while main stays, unless a start was missed or an
  older command stored, a child runs or a thread on the way to start one can take
  a step), and `MutexCorrect` (`enum.Mu` is held by the one thread that is in
  `startFileBeat`, so each way out, the failures too, has released it). `HandInv`:
  somebody is on duty, and what he is to start is new.
- For StopEnds and KeepsRunning: `NobodyHangsCorrect` (while Stop waits, the
  counter is 0 or a goroutine it counts can go on; a started script can run or
  has a ticker). `GoesOnInv`: nobody is in `select` without a ticker.
- For CatchesUp: `QuietScanIsTrue` (from any state between two runs in which
  nothing is locked, if only the watcher moves, a scan that ends leaves the files
  as they are in the baseline, and when they are, no scan logs anything).
- For FilebeatCatchesUp: `CallEnds` (the steps a call has left are a number, each of
  its own lowers it, nobody else's raises it).

Only model-checked: the liveness properties themselves (AllRecorded, StaysUp, StopEnds, KeepsRunning, CatchesUp, FilebeatCatchesUp), and LatestKept, which
counts lines over all the files. Every other invariant of a passing run, and the
refinement, is a theorem.

## What is left out, and why

- In the client: logging, headers, TLS, proxy, authentication and the URL, which
  change no state. `ErrJSONEncodeFailed` cannot occur, as the body is made of
  already encoded parts; `publishEvents` never gets an empty batch; an URL that
  `http.NewRequest` refuses is refused by `MakeHTTP` before. An event that
  `makeEvent` cannot encode occurs in Filebeat only. url.go is string handling
  without state.
- In RequestBody: accesses to the buffer are atomic steps. They are unsynchronised
  in the code, so that a torn read may also panic or send bytes that belong to
  no event; the model shows what happens without that.
- `Clone`, `Add` and `AddRaw` are called by nothing.
- In Filebeat: the registry and the inputs are Beats' own and appear as a position
  in one file; a torn or lost registry file is not modelled.
- In RotatingLog: the change of the date (the name is made once), write errors, a
  process that dies in the middle of a line, and two backups whose names carry the
  same millisecond, or times in another order than they were renamed. The writer that `init` makes is used by `main` alone before
  `InitGlobalLogger`.
- In ConfigUpdate: the wording of the sections. `WriteConfigToFile` and
  `GetAgentID` are one call of ioutil each and called by nothing.
- What the components marked `not_modelled` in `PROJECT.json` do; see the plan.

## Plan

1. (done) HttpOutput with Delivery, its runs and theorems; Supervisor,
   ScriptManager, ModuleWatcher and RequestBody with their runs.
2. (done) Filebeat: the process, its restarts and the panic of `makeEvent`;
   ConfigUpdate; RotatingLog; the panic of a script and the missed restart in
   Supervisor; the repeated read errors in ModuleWatcher.
3. Compositions: the watcher under the manager (Stop waits for a scan), the
   supervisor's children as the process of Filebeat.
4. (done) Proofs of the safety of HttpOutput, Delivery, Filebeat, Supervisor,
   ScriptManager, ModuleWatcher, RequestBody, RotatingLog and ConfigUpdate, and of
   the safety that the liveness properties rest on.
