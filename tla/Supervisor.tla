----------------------------- MODULE Supervisor -----------------------------
(***************************************************************************)
(* The wrapper of main.go: main starts filebeatexc as a child process, a   *)
(* goroutine waits for the child and starts the next one when it exits.    *)
(* enum.Mu covers startFileBeat, but the global variable cmd is also       *)
(* stored by main after startFileBeat has released the mutex (line 59), is *)
(* read by the waiting goroutine (line 102) and by the deferred kill       *)
(* (lines 46-55) without it.                                               *)
(*                                                                         *)
(* Commands are numbered in the order exec.Command makes them.  The        *)
(* goroutine that Start of command c spawns is thread c; main is thread 0. *)
(***************************************************************************)
EXTENDS Naturals

CONSTANTS
  MaxCrashes,     \* bound: how often a child exits by itself
  BinaryStable,   \* ./filebeatexc is there, and starts, at all times
  BadConfig       \* the configuration, the log directory or a script may be at fault

ASSUME SupervisorAssumption ==
  /\ MaxCrashes \in Nat
  /\ {BinaryStable, BadConfig} \subseteq BOOLEAN

\* The first command, one for each exit of a child (the crashes and one kill)
\* and one that main's late store may cost: TypeOK says these are enough.
Cmds    == 1 .. MaxCrashes + 3
Main    == 0
Threads == Cmds \cup {Main}
Nil     == 0

VARIABLES
  pc,        \* where a thread is
  mu,        \* the threads that hold enum.Mu
  cmd,       \* the global variable
  made,      \* commands made so far
  proc,      \* a command's process: "new" (no process), "running", "exited"
  waitedOn,  \* commands whose Wait was called
  target,    \* the command a goroutine waits for
  ret,       \* what startFileBeat returned to main
  binary,    \* filebeatexc is there and starts
  crashes,   \* children that exited by themselves
  scripts,   \* the script of the configuration: "none", "runs" on its ticker, "bad"
             \* or "zero" (an interval that does not parse, or is 0s), "panicked"
  lateStore, \* main's store brought an older command back
  afterKill, \* children started after main's deferred kill
  missed     \* startFileBeat was called while filebeatexc was not there

history == <<lateStore, afterKill, missed>>
vars == <<pc, mu, cmd, made, proc, waitedOn, target, ret, binary, crashes, scripts, history>>

Running == {c \in Cmds : proc[c] = "running"}
Alive   == pc[Main] # "gone"
MainIsLeaving == pc[Main] \in {"stop", "gone"}

GoTo(t, l) == pc' = [pc EXCEPT ![t] = l]

\* startFileBeat returns v: the deferred Unlock, and only main uses the value.
Finish(t, v) ==
  /\ mu' = mu \ {t}
  /\ IF t = Main THEN GoTo(t, "store") /\ ret' = v
                 ELSE GoTo(t, "done") /\ UNCHANGED ret

-----------------------------------------------------------------------------
(* startFileBeat, called by main and by the goroutines                     *)

Lock(t) ==
  /\ Alive /\ pc[t] = "lock" /\ mu = {}
  /\ mu' = {t}
  /\ GoTo(t, "check")
  /\ UNCHANGED <<cmd, made, proc, waitedOn, target, ret, binary, crashes, scripts, history>>

\* Stat or Chmod failed.
NotFound(t) ==
  /\ Alive /\ pc[t] = "check" /\ ~binary
  /\ Finish(t, Nil)
  /\ missed' = TRUE
  /\ UNCHANGED <<cmd, made, proc, waitedOn, target, binary, crashes, scripts, lateStore, afterKill>>

\* The file is there: cmd = exec.Command(...).
Command(t) ==
  /\ Alive /\ pc[t] = "check" /\ binary
  /\ made' = made + 1
  /\ cmd' = made + 1
  /\ GoTo(t, "start")
  /\ UNCHANGED <<mu, proc, waitedOn, target, ret, binary, crashes, scripts, history>>

\* cmd.Start() of whatever cmd is by now, and the go statement.
StartNoWaiter(t) ==                                                 \* mutant
  /\ Alive /\ pc[t] = "start" /\ proc[cmd] = "new" /\ binary
  /\ proc' = [proc EXCEPT ![cmd] = "running"]
  /\ GoTo(t, "return")
  /\ afterKill' = IF MainIsLeaving THEN afterKill \cup {cmd} ELSE afterKill
  /\ UNCHANGED <<mu, cmd, made, waitedOn, target, ret, binary, crashes, scripts, lateStore, missed>>
Start(t) ==
  /\ Alive /\ pc[t] = "start" /\ proc[cmd] = "new" /\ binary
  /\ proc' = [proc EXCEPT ![cmd] = "running"]
  /\ pc' = [pc EXCEPT ![t] = "return", ![cmd] = "wait"]
  /\ afterKill' = IF MainIsLeaving THEN afterKill \cup {cmd} ELSE afterKill
  /\ UNCHANGED <<mu, cmd, made, waitedOn, target, ret, binary, crashes, scripts, lateStore, missed>>

\* The file is gone since the check, or the command was started before
\* ("exec: already started").
StartFails(t) ==
  /\ Alive /\ pc[t] = "start" /\ (proc[cmd] # "new" \/ ~binary)
  /\ Finish(t, Nil)
  /\ missed' = (missed \/ ~binary)
  /\ UNCHANGED <<cmd, made, proc, waitedOn, target, binary, crashes, scripts, lateStore, afterKill>>

\* return cmd: the variable is read again, still under the mutex.
ReturnLocked(t) ==                                                  \* mutant
  /\ Alive /\ pc[t] = "return"
  /\ IF t = Main THEN GoTo(t, "store") /\ ret' = cmd
                 ELSE GoTo(t, "done") /\ UNCHANGED ret
  /\ UNCHANGED <<mu, cmd, made, proc, waitedOn, target, binary, crashes, scripts, history>>
Return(t) ==
  /\ Alive /\ pc[t] = "return"
  /\ Finish(t, cmd)
  /\ UNCHANGED <<cmd, made, proc, waitedOn, target, binary, crashes, scripts, history>>

startFileBeat(t) ==
  Lock(t) \/ NotFound(t) \/ Command(t) \/ Start(t) \/ StartFails(t) \/ Return(t)

-----------------------------------------------------------------------------
(* The goroutine that waits                                                *)

\* cmd.Wait() reads the variable.  A second Wait, or one of a command that was
\* not started, returns an error at once, which is only logged.
Wait(g) ==
  /\ Alive /\ pc[g] = "wait"
  /\ IF cmd \in waitedOn \/ proc[cmd] = "new"
       THEN GoTo(g, "lock") /\ UNCHANGED <<waitedOn, target>>
       ELSE /\ GoTo(g, "waiting")
            /\ waitedOn' = waitedOn \cup {cmd}
            /\ target' = [target EXCEPT ![g] = cmd]
  /\ UNCHANGED <<mu, cmd, made, proc, ret, binary, crashes, scripts, history>>

\* The child exited: the next startFileBeat.
ReapedEarly(g) ==                                                   \* mutant
  /\ Alive /\ pc[g] = "waiting"
  /\ GoTo(g, "lock")
  /\ UNCHANGED <<mu, cmd, made, proc, waitedOn, target, ret, binary, crashes, scripts, history>>
Reaped(g) ==
  /\ Alive /\ pc[g] = "waiting" /\ proc[target[g]] = "exited"
  /\ GoTo(g, "lock")
  /\ UNCHANGED <<mu, cmd, made, proc, waitedOn, target, ret, binary, crashes, scripts, history>>

-----------------------------------------------------------------------------
(* main                                                                    *)

\* A step of main that succeeds, or fails and makes main return or panic.
MainStepTo(from, to, failed) ==
  /\ pc[Main] = from
  /\ \/ GoTo(Main, to)
     \/ BadConfig /\ GoTo(Main, failed)
  /\ UNCHANGED <<mu, cmd, made, proc, waitedOn, target, ret, binary, crashes, scripts, history>>

\* Until the manager exists nothing is deferred.
LoadRuntimeConfig == MainStepTo("load", "log", "gone")
InitGlobalLogger  == MainStepTo("log", "manager", "gone")
NewManager        == MainStepTo("manager", "lock", "gone")

\* cmd = startFileBeat(configFile), after the unlock.
Store ==
  /\ pc[Main] = "store"
  /\ cmd' = ret
  /\ lateStore' = (lateStore \/ (cmd > ret /\ ret # Nil))
  /\ GoTo(Main, "scripts")
  /\ UNCHANGED <<mu, made, proc, waitedOn, target, ret, binary, crashes, scripts, afterKill, missed>>

\* manager.Start(), then select {}, or the deferred calls when it failed.
StartScripts ==
  /\ pc[Main] = "scripts"
  /\ GoTo(Main, IF scripts = "bad" THEN "kill" ELSE "blocked")
  /\ UNCHANGED <<mu, cmd, made, proc, waitedOn, target, ret, binary, crashes, scripts, history>>

\* NewTicker panics in the script's goroutine and the process is gone: nothing
\* that main deferred is run.
Panic ==
  /\ pc[Main] = "blocked" /\ scripts = "zero"
  /\ scripts' = "panicked"
  /\ GoTo(Main, "gone")
  /\ UNCHANGED <<mu, cmd, made, proc, waitedOn, target, ret, binary, crashes, history>>

\* The deferred check: a command without a process (cmd as exec.Command made it,
\* before its Start) is left alone.
Kill ==
  /\ pc[Main] = "kill"
  /\ GoTo(Main, IF cmd # Nil /\ proc[cmd] # "new" THEN "killing" ELSE "stop")
  /\ UNCHANGED <<mu, cmd, made, proc, waitedOn, target, ret, binary, crashes, scripts, history>>

\* The Kill, of the process that cmd has by now: the variable is read again, and
\* may have become a command without a process since the check.  Then the
\* dereference panics, and the calls deferred before still run.
KillNothing ==                                                      \* mutant
  /\ pc[Main] = "killing"
  /\ GoTo(Main, "stop")
  /\ UNCHANGED <<mu, cmd, made, proc, waitedOn, target, ret, binary, crashes, scripts, history>>
KillProcess ==
  /\ pc[Main] = "killing"
  /\ proc' = [c \in Cmds |-> IF c = cmd /\ proc[c] = "running" THEN "exited" ELSE proc[c]]
  /\ GoTo(Main, "stop")
  /\ UNCHANGED <<mu, cmd, made, waitedOn, target, ret, binary, crashes, scripts, history>>

\* manager.Stop() returns and the process exits, with all its goroutines.
Exit ==
  /\ pc[Main] = "stop"
  /\ GoTo(Main, "gone")
  /\ UNCHANGED <<mu, cmd, made, proc, waitedOn, target, ret, binary, crashes, scripts, history>>

\* select {} with no goroutine left is a fatal error of the runtime.
AllAsleep ==
  /\ pc[Main] = "blocked" /\ scripts = "none"
  /\ \A g \in Cmds : pc[g] \in {"off", "done"}
  /\ GoTo(Main, "gone")
  /\ UNCHANGED <<mu, cmd, made, proc, waitedOn, target, ret, binary, crashes, scripts, history>>

-----------------------------------------------------------------------------
(* The operating system                                                    *)

Crash(c) ==
  /\ proc[c] = "running" /\ crashes < MaxCrashes
  /\ proc' = [proc EXCEPT ![c] = "exited"]
  /\ crashes' = crashes + 1
  /\ UNCHANGED <<pc, mu, cmd, made, waitedOn, target, ret, binary, scripts, history>>

\* filebeatexc is replaced: it is missing for a while.
ReplaceBinary ==
  /\ ~BinaryStable
  /\ binary' = ~binary
  /\ UNCHANGED <<pc, mu, cmd, made, proc, waitedOn, target, ret, crashes, scripts, history>>

-----------------------------------------------------------------------------
Init ==
  /\ pc = [t \in Threads |-> IF t = Main THEN "load" ELSE "off"]
  /\ mu = {}
  /\ cmd = Nil /\ made = 0 /\ ret = Nil
  /\ proc = [c \in Cmds |-> "new"]
  /\ waitedOn = {} /\ target = [c \in Cmds |-> Nil]
  /\ binary = TRUE
  /\ crashes = 0 /\ lateStore = FALSE /\ afterKill = {} /\ missed = FALSE
  /\ scripts \in {"none", "runs"} \cup (IF BadConfig THEN {"bad", "zero"} ELSE {})

Step(t) == startFileBeat(t) \/ (t # Main /\ (Wait(t) \/ Reaped(t)))
MainStep ==
  \/ LoadRuntimeConfig \/ InitGlobalLogger \/ NewManager
  \/ Store \/ StartScripts \/ Kill \/ KillProcess \/ Exit \/ Panic \/ AllAsleep

Next ==
  \/ \E t \in Threads : Step(t)
  \/ MainStep
  \/ \E c \in Cmds : Crash(c)
  \/ ReplaceBinary

Spec == Init /\ [][Next]_vars

\* Every thread that can run does; no child has to crash, no file to change.
FairSpec ==
  /\ Spec
  /\ \A t \in Threads : WF_vars(Step(t))
  /\ WF_vars(MainStep)

-----------------------------------------------------------------------------
(* Properties                                                              *)

\* Every variable has its type, and there are commands enough (Cmds).
TypeOK ==
  /\ pc \in [Threads -> {"off", "lock", "check", "start", "return", "wait", "waiting", "done",
                         "load", "log", "manager", "store", "scripts", "blocked", "kill", "killing", "stop", "gone"}]
  /\ mu \in SUBSET Threads
  /\ cmd \in Cmds \cup {Nil} /\ ret \in Cmds \cup {Nil}
  /\ made \in 0 .. MaxCrashes + 3
  /\ proc \in [Cmds -> {"new", "running", "exited"}]
  /\ waitedOn \in SUBSET Cmds /\ target \in [Cmds -> Cmds \cup {Nil}]
  /\ {binary, lateStore, missed} \subseteq BOOLEAN
  /\ scripts \in {"none", "runs", "bad", "zero", "panicked"}
  /\ crashes \in 0 .. MaxCrashes /\ afterKill \in SUBSET Cmds

\* A child that runs is waited for, or will be, by its own goroutine; only
\* main's store of an older command (line 59) breaks that.
Supervised ==
  Alive /\ ~lateStore => \A c \in Running :
    \/ pc[c] = "wait" /\ cmd = c
    \/ pc[c] = "waiting" /\ target[c] = c

\* Two children run at once, reading the same files and the same registry, only
\* after that store: the goroutine's Wait then hits a command already waited for.
OneChild == ~lateStore => \A c, d \in Running : c = d

\* What outlives main was started after the deferred Kill (the goroutine takes
\* the killed child for a crashed one while manager.Stop runs), unless a script's
\* panic took main away without it.
OutlivesOnlyStartedAfterKill ==
  pc[Main] = "gone" /\ ~lateStore /\ scripts # "panicked" => Running \subseteq afterKill

\* As long as main stays a crashed child is replaced, however often the file
\* comes and goes, unless a restart came just when it was not there: nobody
\* tries again after that; or main stored an older command.
StaysUp ==
  [](~missed /\ ~lateStore /\ pc[Main] \notin {"kill", "killing", "stop", "gone"}) => []<>(Running # {})

\* The documented promise, "restarts automatically after an abnormal exit", with
\* a file that is always there and no exclusion.
RestartsAlways == []<>(Running # {})
=============================================================================
