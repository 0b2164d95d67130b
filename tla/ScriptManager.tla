---------------------------- MODULE ScriptManager ----------------------------
(***************************************************************************)
(* The manager of script/manager.go: Start gives every script a goroutine  *)
(* that runs it once and then at every tick of its ticker; Stop closes     *)
(* stopCh and waits for the goroutines.  What Run does is left out (see    *)
(* ModuleWatcher): here it takes a while and may return an error.          *)
(***************************************************************************)
EXTENDS Naturals, FiniteSets

CONSTANTS
  Scripts,   \* the scripts whose factory returned an instance
  Intervals  \* kinds of Interval(): "positive", "zero" (or less), "unparsable"

ASSUME ManagerAssumption ==
  /\ IsFiniteSet(Scripts)
  /\ Intervals \subseteq {"positive", "zero", "unparsable"}

VARIABLES
  interval,  \* each script's, never changed
  mpc,       \* the caller: "start", "started", "failed", "wait", "stopped"
  todo,      \* the scripts Start has not come to
  stopCh,    \* stopCh is closed
  wg,        \* the wait group's counter
  spc,       \* a script's goroutine
  ticking,   \* its ticker exists
  tick,      \* the ticker's channel, of one place, holds a tick
  panicked   \* NewTicker panicked: the process is gone

vars == <<interval, mpc, todo, stopCh, wg, spc, ticking, tick, panicked>>

Active(s) == spc[s] \notin {"off", "done"}
GoTo(s, l) == spc' = [spc EXCEPT ![s] = l]

-----------------------------------------------------------------------------
(* Start and Stop                                                          *)

\* The interval parses: wg.Add(1) and the go statement.
StartScriptNoAdd(s) ==                                            \* mutant
  /\ ~panicked /\ mpc = "start" /\ s \in todo /\ interval[s] # "unparsable"
  /\ todo' = todo \ {s}
  /\ GoTo(s, "first")
  /\ UNCHANGED <<interval, mpc, stopCh, wg, ticking, tick, panicked>>
StartScript(s) ==
  /\ ~panicked /\ mpc = "start" /\ s \in todo /\ interval[s] # "unparsable"
  /\ todo' = todo \ {s}
  /\ wg' = wg + 1
  /\ GoTo(s, "first")
  /\ UNCHANGED <<interval, mpc, stopCh, ticking, tick, panicked>>

\* It does not: Start returns an error, and leaves running what it has started.
StartFails(s) ==
  /\ ~panicked /\ mpc = "start" /\ s \in todo /\ interval[s] = "unparsable"
  /\ mpc' = "failed"
  /\ UNCHANGED <<interval, todo, stopCh, wg, spc, ticking, tick, panicked>>

Started ==
  /\ ~panicked /\ mpc = "start" /\ todo = {}
  /\ mpc' = "started"
  /\ UNCHANGED <<interval, todo, stopCh, wg, spc, ticking, tick, panicked>>

\* Stop: main defers it, so it is called when Start failed; a second one finds
\* stopCh closed and does not close it again.
Stop ==
  /\ ~panicked /\ mpc \in {"started", "failed", "stopped"}
  /\ mpc' = "wait"
  /\ \/ stopCh /\ UNCHANGED stopCh
     \/ ~stopCh /\ stopCh' = TRUE
  /\ UNCHANGED <<interval, todo, wg, spc, ticking, tick, panicked>>

\* wg.Wait() returns.
StopReturns ==
  /\ ~panicked /\ mpc = "wait" /\ wg = 0
  /\ mpc' = "stopped"
  /\ UNCHANGED <<interval, todo, stopCh, wg, spc, ticking, tick, panicked>>

-----------------------------------------------------------------------------
(* runScript                                                               *)

\* Run returns, with or without an error: the error is logged.
RunEndsOnError(s) ==                                                \* mutant
  /\ ~panicked /\ spc[s] \in {"first", "run"}
  /\ \/ GoTo(s, IF spc[s] = "first" THEN "newticker" ELSE "select") /\ UNCHANGED wg
     \/ GoTo(s, "done") /\ wg' = wg - 1
  /\ UNCHANGED <<interval, mpc, todo, stopCh, ticking, tick, panicked>>
RunEnds(s) ==
  /\ ~panicked /\ spc[s] \in {"first", "run"}
  /\ GoTo(s, IF spc[s] = "first" THEN "newticker" ELSE "select")
  /\ UNCHANGED <<interval, mpc, todo, stopCh, wg, ticking, tick, panicked>>

\* time.NewTicker panics for an interval that is not positive.
NewTicker(s) ==
  /\ ~panicked /\ spc[s] = "newticker"
  /\ IF interval[s] = "zero"
       THEN panicked' = TRUE /\ UNCHANGED <<spc, ticking>>
       ELSE /\ ticking' = [ticking EXCEPT ![s] = TRUE]
            /\ GoTo(s, "select")
            /\ UNCHANGED panicked
  /\ UNCHANGED <<interval, mpc, todo, stopCh, wg, tick>>

\* select: the tick, ...
TakeTick(s) ==
  /\ ~panicked /\ spc[s] = "select" /\ tick[s]
  /\ tick' = [tick EXCEPT ![s] = FALSE]
  /\ GoTo(s, "run")
  /\ UNCHANGED <<interval, mpc, todo, stopCh, wg, ticking, panicked>>

\* ... or the stop: the deferred ticker.Stop() and wg.Done().
TakeStopDoneTwice(s) ==                                             \* mutant
  /\ ~panicked /\ spc[s] = "select" /\ stopCh
  /\ ticking' = [ticking EXCEPT ![s] = FALSE]
  /\ GoTo(s, "done")
  /\ wg' = wg - 2
  /\ UNCHANGED <<interval, mpc, todo, stopCh, tick, panicked>>
TakeStopNotDone(s) ==                                               \* mutant
  /\ ~panicked /\ spc[s] = "select" /\ stopCh
  /\ ticking' = [ticking EXCEPT ![s] = FALSE]
  /\ GoTo(s, "done")
  /\ UNCHANGED <<interval, mpc, todo, stopCh, wg, tick, panicked>>
TakeStop(s) ==
  /\ ~panicked /\ spc[s] = "select" /\ stopCh
  /\ ticking' = [ticking EXCEPT ![s] = FALSE]
  /\ GoTo(s, "done")
  /\ wg' = wg - 1
  /\ UNCHANGED <<interval, mpc, todo, stopCh, tick, panicked>>

\* The runtime's timer: a tick that finds the channel full is dropped.
Tick(s) ==
  /\ ~panicked /\ ticking[s] /\ ~tick[s]
  /\ tick' = [tick EXCEPT ![s] = TRUE]
  /\ UNCHANGED <<interval, mpc, todo, stopCh, wg, spc, ticking, panicked>>

-----------------------------------------------------------------------------
Init ==
  /\ interval \in [Scripts -> Intervals]
  /\ mpc = "start" /\ todo = Scripts /\ stopCh = FALSE /\ wg = 0
  /\ spc = [s \in Scripts |-> "off"]
  /\ ticking = [s \in Scripts |-> FALSE] /\ tick = [s \in Scripts |-> FALSE]
  /\ panicked = FALSE

Caller == (\E s \in Scripts : StartScript(s) \/ StartFails(s)) \/ Started
runScript(s) == RunEnds(s) \/ NewTicker(s) \/ TakeTick(s) \/ TakeStop(s)

Next ==
  \/ Caller \/ Stop \/ StopReturns
  \/ \E s \in Scripts : runScript(s) \/ Tick(s)

Spec == Init /\ [][Next]_vars

\* Run ends, timers fire, and select, which picks at random, does not pass over
\* a closed stopCh for ever while ticks keep coming.  Nobody has to call Stop.
FairSpec ==
  /\ Spec
  /\ WF_vars(Caller) /\ WF_vars(StopReturns)
  /\ \A s \in Scripts :
       WF_vars(runScript(s)) /\ WF_vars(Tick(s)) /\ SF_vars(TakeStop(s))

-----------------------------------------------------------------------------
(* Properties                                                              *)

\* Every variable has its type; a negative counter would be a panic.
TypeOK ==
  /\ interval \in [Scripts -> Intervals]
  /\ mpc \in {"start", "started", "failed", "wait", "stopped"}
  /\ todo \in SUBSET Scripts /\ stopCh \in BOOLEAN
  /\ wg \in 0 .. Cardinality(Scripts)
  /\ spc \in [Scripts -> {"off", "first", "newticker", "select", "run", "done"}]
  /\ ticking \in [Scripts -> BOOLEAN] /\ tick \in [Scripts -> BOOLEAN]
  /\ panicked \in BOOLEAN

\* After Stop has returned no script runs and none will, those that Start had
\* started before it failed included.
StoppedIsQuiet == mpc = "stopped" => \A s \in Scripts : ~Active(s) /\ ~ticking[s]

\* Stop returns, however often the ticks come, unless a ticker panicked.
StopEnds == [](stopCh => <>(mpc = "stopped" \/ panicked))

\* A script that was started runs again and again, whatever its runs return and
\* also when another script kept Start from finishing, until Stop or a panic.
KeepsRunning ==
  \A s \in Scripts :
    <>(spc[s] = "first") => []<>(spc[s] = "run") \/ <>(stopCh \/ panicked)
=============================================================================
