--------------------------- MODULE Supervisor_proofs ---------------------------
(***************************************************************************)
(* Proofs about Supervisor, for any number of crashes, with a file that    *)
(* comes and goes and a configuration that may be at fault.                *)
(***************************************************************************)
EXTENDS Supervisor, TLAPS

Beginning == {"load", "log", "manager", "lock", "check"}
Acting    == Beginning \cup {"start", "wait", "waiting"}

\* The duty to keep a child up is with one thread at a time: who starts a child
\* hands it to the goroutine of that child.
OnDuty(t) == t \in Threads /\ pc[t] \in Acting

\* The types, but for the bound on the commands.
Typed ==
  /\ pc \in [Threads -> {"off", "lock", "check", "start", "return", "wait", "waiting", "done",
                         "load", "log", "manager", "store", "scripts", "blocked", "kill", "killing", "stop", "gone"}]
  /\ mu \in SUBSET Threads
  /\ proc \in [Cmds -> {"new", "running", "exited"}]
  /\ waitedOn \in SUBSET Cmds /\ target \in [Cmds -> Cmds \cup {Nil}]
  /\ binary \in BOOLEAN /\ lateStore \in BOOLEAN /\ missed \in BOOLEAN
  /\ scripts \in {"none", "runs", "bad", "zero", "panicked"}
  /\ crashes \in 0 .. MaxCrashes /\ afterKill \in SUBSET Cmds
  /\ made \in Nat /\ cmd \in 0 .. made /\ ret \in 0 .. made

\* A goroutine belongs to a command that has a process, and its Wait is the
\* first of that command.
DutyInv ==
  /\ \A t, u \in Threads : OnDuty(t) /\ OnDuty(u) => t = u
  /\ \A c \in Cmds : /\ pc[c] = "off" <=> proc[c] = "new"
                     /\ c > made => proc[c] = "new"
                     /\ c \in waitedOn => proc[c] # "new"
                     /\ pc[c] = "wait" => c \notin waitedOn
                     /\ pc[c] \notin {"load", "log", "manager", "store", "scripts", "blocked",
                                      "kill", "killing", "stop", "gone"}
  /\ pc[Main] \notin {"off", "wait", "waiting", "done"}

\* There is a command to start, and to return; main has none to store only if
\* nobody is on duty.
CmdInv ==
  /\ \A t \in Threads : pc[t] \in {"start", "wait"} => cmd # Nil
  /\ pc[Main] = "return" => cmd # Nil
  /\ pc[Main] = "store" /\ ret = Nil => \A t \in Threads : ~OnDuty(t)
  /\ pc[Main] = "store" => ret <= cmd
  /\ lateStore => pc[Main] \notin Beginning \cup {"start", "return", "store"}

\* Commands are paid for by the exits of children: the crashes, main's kill, and
\* a Wait that main's late store makes fail.
One(b) == IF b THEN 1 ELSE 0
Paid == crashes + One(MainIsLeaving) + One(lateStore) + 1
Due(t) == \/ pc[t] \in Beginning
          \/ pc[t] = "wait" /\ (proc[t] = "exited" \/ cmd # t)
          \/ pc[t] = "waiting" /\ proc[target[t]] = "exited"
PaidInv ==
  /\ made <= Paid
  /\ \A t \in Threads : Due(t) => made + 1 <= Paid

\* Before a late store the global variable is the running child, which its own
\* goroutine waits for.
ChildInv ==
  ~lateStore =>
    /\ \A c \in Cmds : /\ pc[c] = "wait" => cmd = c
                       /\ pc[c] = "waiting" => target[c] = c
    /\ \A c \in Running : cmd = c /\ pc[c] \in {"wait", "waiting"}
    /\ MainIsLeaving /\ scripts # "panicked" => Running \subseteq afterKill

Inv == Typed /\ DutyInv /\ CmdInv /\ PaidInv /\ ChildInv

-----------------------------------------------------------------------------
\* The numbers are what they stand for.
LEMMA Numbers ==
  /\ MaxCrashes \in Nat /\ Cmds \subseteq Nat /\ 0 \notin Cmds
  /\ Threads = Cmds \cup {0} /\ Main = 0 /\ Nil = 0
  /\ \A n \in Nat : n # 0 /\ n <= MaxCrashes + 3 => n \in Cmds
BY SupervisorAssumption DEF SupervisorAssumption, Cmds, Threads, Main, Nil

\* What was paid for is no more than the commands there are.
LEMMA Enough ==
  ASSUME Inv
  PROVE  /\ made \in 0 .. MaxCrashes + 3
         /\ cmd \in Cmds \cup {Nil} /\ ret \in Cmds \cup {Nil}
BY Numbers DEF Inv, Typed, PaidInv, Paid, One

\* main is on duty at first, and nothing is made.
LEMMA InvInit == Init => Inv
<1> SUFFICES ASSUME Init PROVE Inv
  OBVIOUS
<1>1. Typed
  <2>1. crashes \in 0 .. MaxCrashes /\ cmd \in 0 .. made /\ ret \in 0 .. made
    BY Numbers DEF Init
  <2> QED BY <2>1 DEF Init, Typed
<1>2. DutyInv
  BY Numbers DEF Init, DutyInv, OnDuty, Acting, Beginning
<1>3. CmdInv /\ PaidInv /\ ChildInv
  BY Numbers DEF Init, CmdInv, PaidInv, ChildInv, Paid, One, Due, MainIsLeaving, Running, Beginning
<1> QED BY <1>1, <1>2, <1>3 DEF Inv

\* The actions, to split a step by.
LEMMA Actions ==
  ASSUME [Next]_vars
  PROVE  \/ \E t \in Threads : \/ Lock(t) \/ NotFound(t) \/ Command(t) \/ Start(t)
                               \/ StartFails(t) \/ Return(t)
         \/ \E g \in Cmds : Wait(g) \/ Reaped(g)
         \/ LoadRuntimeConfig \/ InitGlobalLogger \/ NewManager
         \/ Store \/ StartScripts \/ Kill \/ KillProcess \/ Exit \/ Panic \/ AllAsleep
         \/ \E c \in Cmds : Crash(c)
         \/ ReplaceBinary \/ UNCHANGED vars
BY DEF Next, Step, startFileBeat, MainStep, Threads

\* Every step keeps the types.
LEMMA TypedNext == Inv /\ [Next]_vars => Typed'
<1> SUFFICES ASSUME Inv, [Next]_vars PROVE Typed'
  OBVIOUS
<1> USE Numbers DEF GoTo, history
<1>0. Typed
  BY DEF Inv
<1>1. ASSUME NEW t \in Threads, Lock(t) \/ NotFound(t) \/ StartFails(t) \/ Return(t) PROVE Typed'
  <2>1. CASE Lock(t)
    BY <1>0, <2>1 DEF Typed, Lock
  <2>2. ASSUME NEW v \in 0 .. made, Finish(t, v) PROVE /\ mu' \in SUBSET Threads /\ ret' \in 0 .. made
                                                       /\ \/ pc' = [pc EXCEPT ![t] = "store"]
                                                          \/ pc' = [pc EXCEPT ![t] = "done"]
    BY <1>0, <2>2 DEF Typed, Finish
  <2>3. CASE NotFound(t)
    BY <1>0, <2>2, <2>3 DEF Typed, NotFound
  <2>4. CASE StartFails(t)
    BY <1>0, <2>2, <2>4 DEF Typed, StartFails
  <2>5. CASE Return(t)
    BY <1>0, <2>2, <2>5 DEF Typed, Return
  <2> QED BY <1>1, <2>1, <2>3, <2>4, <2>5
<1>2. ASSUME NEW t \in Threads, Command(t) PROVE Typed'
  BY <1>0, <1>2 DEF Typed, Command
<1>3. ASSUME NEW t \in Threads, Start(t) PROVE Typed'
  <2>1. cmd \in Cmds
    BY <1>3, Enough DEF Inv, CmdInv, Start
  <2> QED BY <1>0, <1>3, <2>1 DEF Typed, Start
<1>4. ASSUME NEW g \in Cmds, Wait(g) \/ Reaped(g) PROVE Typed'
  <2>1. Wait(g) => cmd \in Cmds
    BY <1>4, Enough DEF Inv, CmdInv, Wait
  <2>2. CASE Wait(g)
    <3>1. waitedOn' \in SUBSET Cmds /\ target' \in [Cmds -> Cmds \cup {Nil}]
      BY <1>0, <2>1, <2>2 DEF Typed, Wait
    <3>2. pc' = [pc EXCEPT ![g] = "lock"] \/ pc' = [pc EXCEPT ![g] = "waiting"]
      BY <2>2 DEF Wait
    <3> QED BY SMTT(30), <1>0, <2>2, <3>1, <3>2 DEF Typed, Wait
  <2>3. CASE Reaped(g)
    BY <1>0, <2>3 DEF Typed, Reaped
  <2> QED BY <1>4, <2>2, <2>3
<1>5. CASE LoadRuntimeConfig \/ InitGlobalLogger \/ NewManager
  <2>1. CASE LoadRuntimeConfig
    BY <1>0, <2>1 DEF Typed, LoadRuntimeConfig, MainStepTo
  <2>2. CASE InitGlobalLogger
    BY <1>0, <2>2 DEF Typed, InitGlobalLogger, MainStepTo
  <2>3. CASE NewManager
    BY <1>0, <2>3 DEF Typed, NewManager, MainStepTo
  <2> QED BY <1>5, <2>1, <2>2, <2>3
<1>6. CASE Store
  BY <1>0, <1>6 DEF Typed, Store
<1>7. CASE StartScripts \/ KillProcess \/ Exit \/ Panic \/ AllAsleep
  <2>1. CASE StartScripts
    BY <1>0, <2>1 DEF Typed, StartScripts
  <2>2. CASE KillProcess
    BY <1>0, <2>2 DEF Typed, KillProcess
  <2>3. CASE Exit
    BY <1>0, <2>3 DEF Typed, Exit
  <2>4. CASE Panic \/ AllAsleep
    BY <1>0, <2>4 DEF Typed, Panic, AllAsleep
  <2> QED BY <1>7, <2>1, <2>2, <2>3, <2>4
<1>10. CASE Kill
  <2>1. PICK l \in {"killing", "stop"} : pc' = [pc EXCEPT ![Main] = l]
    BY <1>10 DEF Kill
  <2> QED BY <1>0, <1>10, <2>1 DEF Typed, Kill
<1>8. ASSUME NEW c \in Cmds, Crash(c) PROVE Typed'
  BY <1>0, <1>8 DEF Typed, Crash
<1>9. CASE ReplaceBinary \/ UNCHANGED vars
  BY <1>0, <1>9 DEF Typed, ReplaceBinary, vars
<1> QED BY <1>1, <1>2, <1>3, <1>4, <1>5, <1>6, <1>7, <1>8, <1>9, <1>10, Actions

\* Only the start of a child puts another thread on duty, and takes off who
\* started it.
LEMMA DutyNext == Inv /\ [Next]_vars => DutyInv'
<1> SUFFICES ASSUME Inv, [Next]_vars PROVE DutyInv'
  OBVIOUS
<1> USE Numbers DEF GoTo, OnDuty, Acting, Beginning, Typed, DutyInv, Inv
<1>1. ASSUME NEW t \in Threads, NEW l, pc' = [pc EXCEPT ![t] = l],
             UNCHANGED <<made, proc, waitedOn>>,
             l \in Acting => pc[t] \in Acting, l # "wait",
             t = Main => l \notin {"off", "wait", "waiting", "done"},
             t \in Cmds => /\ pc[t] # "off"
                           /\ l \in {"lock", "check", "start", "return", "waiting", "done"}
      PROVE  DutyInv'
  BY <1>1
<1>2. ASSUME NEW t \in Threads, Lock(t) PROVE DutyInv'
  BY <1>1, <1>2 DEF Lock
<1>3. ASSUME NEW t \in Threads, NotFound(t) \/ StartFails(t) \/ Return(t) PROVE DutyInv'
  BY <1>1, <1>3 DEF NotFound, StartFails, Return, Finish
<1>4. ASSUME NEW t \in Threads, Command(t) PROVE DutyInv'
  BY <1>4 DEF Command
<1>5. ASSUME NEW t \in Threads, Start(t) PROVE DutyInv'
  <2>1. cmd \in Cmds /\ pc[cmd] = "off" /\ cmd # t /\ cmd <= made
    BY <1>5, Enough DEF CmdInv, Start
  <2> QED BY <1>5, <2>1 DEF Start
<1>6. ASSUME NEW g \in Cmds, Wait(g) PROVE DutyInv'
  <2>1. cmd \in Cmds
    BY <1>6, Enough DEF CmdInv, Wait
  <2> QED BY <1>6, <2>1 DEF Wait
<1>7. ASSUME NEW g \in Cmds, Reaped(g) PROVE DutyInv'
  BY <1>1, <1>7 DEF Reaped
<1>8. CASE LoadRuntimeConfig \/ InitGlobalLogger \/ NewManager
  BY <1>1, <1>8 DEF LoadRuntimeConfig, InitGlobalLogger, NewManager, MainStepTo
<1>9. CASE Store \/ StartScripts \/ Exit \/ Panic \/ AllAsleep
  BY <1>1, <1>9 DEF Store, StartScripts, Exit, Panic, AllAsleep
<1>10. CASE Kill \/ KillProcess
  <2>1. PICK l \in {"killing", "stop"} : pc' = [pc EXCEPT ![Main] = l]
    BY <1>10 DEF Kill, KillProcess
  <2>2. \A c \in Cmds : \/ proc'[c] = proc[c]
                        \/ proc[c] = "running" /\ proc'[c] = "exited"
    BY <1>10 DEF Kill, KillProcess
  <2>3. UNCHANGED <<made, waitedOn>> /\ pc[Main] \in {"kill", "killing"}
    BY <1>10 DEF Kill, KillProcess
  <2> QED BY <2>1, <2>2, <2>3
<1>11. ASSUME NEW c \in Cmds, Crash(c) PROVE DutyInv'
  BY <1>11 DEF Crash
<1>12. CASE ReplaceBinary \/ UNCHANGED vars
  BY <1>12 DEF ReplaceBinary, vars
<1> QED BY <1>2, <1>3, <1>4, <1>5, <1>6, <1>7, <1>8, <1>9, <1>10, <1>11, <1>12, Actions

\* cmd is set before it is started and, but for main's store, only by the
\* thread on duty.
LEMMA CmdNext == Inv /\ [Next]_vars => CmdInv'
<1> SUFFICES ASSUME Inv, [Next]_vars PROVE CmdInv'
  OBVIOUS
<1> USE Numbers DEF GoTo, OnDuty, Acting, Beginning, Typed, DutyInv, CmdInv, Inv, history
<1>1. ASSUME NEW t \in Threads, Lock(t) PROVE CmdInv'
  BY <1>1 DEF Lock
<1>2. ASSUME NEW t \in Threads, NotFound(t) \/ StartFails(t) PROVE CmdInv'
  BY <1>2 DEF NotFound, StartFails, Finish
<1>3. ASSUME NEW t \in Threads, Return(t) PROVE CmdInv'
  BY <1>3 DEF Return, Finish
<1>4. ASSUME NEW t \in Threads, Command(t) PROVE CmdInv'
  BY <1>4 DEF Command
<1>5. ASSUME NEW t \in Threads, Start(t) PROVE CmdInv'
  <2>1. cmd \in Cmds /\ pc[cmd] = "off" /\ cmd # t
    BY <1>5, Enough DEF Start
  <2> QED BY <1>5, <2>1 DEF Start
<1>6. ASSUME NEW g \in Cmds, Wait(g) \/ Reaped(g) PROVE CmdInv'
  BY <1>6 DEF Wait, Reaped
<1>7. CASE LoadRuntimeConfig \/ InitGlobalLogger \/ NewManager
  BY <1>7 DEF LoadRuntimeConfig, InitGlobalLogger, NewManager, MainStepTo
<1>8. CASE Store
  BY <1>8 DEF Store
<1>9. CASE StartScripts \/ Kill \/ KillProcess \/ Exit \/ Panic \/ AllAsleep
  BY <1>9 DEF StartScripts, Kill, KillProcess, Exit, Panic, AllAsleep
<1>10. ASSUME NEW c \in Cmds, Crash(c) PROVE CmdInv'
  BY <1>10 DEF Crash
<1>11. CASE ReplaceBinary \/ UNCHANGED vars
  BY <1>11 DEF ReplaceBinary, vars
<1> QED BY <1>1, <1>2, <1>3, <1>4, <1>5, <1>6, <1>7, <1>8, <1>9, <1>10, <1>11, Actions

\* But for a late store, main stores what cmd is already, or nothing while nobody
\* is on duty.
LEMMA StoreKeeps ==
  ASSUME Inv, Store, ~lateStore'
  PROVE  ret = Nil \/ cmd' = cmd
<1>1. cmd \in Nat /\ ret \in Nat /\ ret <= cmd
  BY DEF Inv, Typed, CmdInv, Store
<1>2. cmd' = ret /\ ~(cmd > ret /\ ret # Nil)
  BY DEF Store
<1> QED BY <1>1, <1>2

\* Who makes a command had been due to; who comes to be due was paid for.
LEMMA PaidNext == Inv /\ [Next]_vars => PaidInv'
<1> SUFFICES ASSUME Inv, [Next]_vars PROVE PaidInv'
  OBVIOUS
<1> USE Numbers DEF GoTo, Inv, Typed, history
<1>1. Typed' /\ DutyInv' /\ CmdInv'
  BY TypedNext, DutyNext, CmdNext
<1>2. made \in Nat /\ Paid \in Nat
  BY DEF Paid, One
<1>3. ASSUME made' = made, Paid' \in Nat, Paid < Paid' PROVE PaidInv'
  BY <1>2, <1>3 DEF PaidInv
<1>4. ASSUME made' = made, Paid' \in Nat, Paid <= Paid', \A t \in Threads : Due(t)' => Due(t)
      PROVE  PaidInv'
  BY <1>2, <1>4 DEF PaidInv
<1>5. ASSUME NEW t \in Threads, pc[t] \in Beginning \cup {"start"}, NEW l, pc' = [pc EXCEPT ![t] = l],
             l \notin {"wait", "waiting"}, l \in Beginning => pc[t] \in Beginning,
             UNCHANGED <<cmd, made, proc, target, crashes, lateStore>>
      PROVE  PaidInv'
  <2>1. \A u \in Threads : Due(u)' => Due(u)
    BY <1>5 DEF Due
  <2>2. MainIsLeaving => MainIsLeaving'
    BY <1>5 DEF MainIsLeaving, Beginning
  <2>3. Paid' \in Nat /\ Paid <= Paid'
    BY <1>5, <2>2 DEF Paid, One
  <2> QED BY <1>4, <1>5, <2>1, <2>3
<1>6. ASSUME NEW t \in Threads, Lock(t) \/ NotFound(t) \/ StartFails(t) PROVE PaidInv'
  BY <1>5, <1>6 DEF Lock, NotFound, StartFails, Finish, Beginning
<1>7. ASSUME NEW t \in Threads, Return(t) PROVE PaidInv'
  <2>1. \A u \in Threads : Due(u)' => Due(u)
    BY <1>7 DEF Return, Finish, Due, Beginning
  <2>2. MainIsLeaving' <=> MainIsLeaving
    BY <1>7 DEF Return, Finish, MainIsLeaving
  <2> QED BY <1>2, <1>4, <1>7, <2>1, <2>2 DEF Return, Paid, One
<1>8. ASSUME NEW t \in Threads, Command(t) PROVE PaidInv'
  <2>1. Due(t)
    BY <1>8 DEF Command, Due, Beginning
  <2>2. Paid' = Paid
    BY <1>8 DEF Command, Paid, One, MainIsLeaving
  <2>3. \A u \in Threads : ~Due(u)'
    BY <1>1, <1>8 DEF Command, DutyInv, OnDuty, Acting, Due, Beginning
  <2> QED BY <1>2, <1>8, <2>1, <2>2, <2>3 DEF Command, PaidInv
<1>9. ASSUME NEW t \in Threads, Start(t) PROVE PaidInv'
  <2>1. cmd \in Cmds /\ pc[cmd] = "off" /\ cmd # t
    BY <1>9, Enough DEF CmdInv, DutyInv, Start
  <2>2. \A u \in Threads : ~Due(u)'
    BY <1>1, <1>9, <2>1 DEF Start, DutyInv, OnDuty, Acting, Due, Beginning
  <2>3. Paid' = Paid
    BY <1>9, <2>1 DEF Start, Paid, One, MainIsLeaving
  <2> QED BY <1>2, <1>9, <2>2, <2>3 DEF Start, PaidInv
<1>10. ASSUME NEW g \in Cmds, Wait(g) \/ Reaped(g) PROVE PaidInv'
  <2>1. \A u \in Threads : Due(u)' => Due(u)
    BY <1>10 DEF Wait, Reaped, Due, Beginning, DutyInv, CmdInv
  <2>2. Paid' = Paid
    BY <1>10 DEF Wait, Reaped, Paid, One, MainIsLeaving
  <2> QED BY <1>2, <1>4, <1>10, <2>1, <2>2 DEF Wait, Reaped
<1>11. CASE LoadRuntimeConfig \/ InitGlobalLogger \/ NewManager
  BY <1>5, <1>11 DEF LoadRuntimeConfig, InitGlobalLogger, NewManager, MainStepTo, Beginning
<1>12. CASE Store
  <2>1. CASE lateStore'
    <3>1. ~lateStore /\ (MainIsLeaving' <=> MainIsLeaving)
      BY <1>12 DEF Store, CmdInv, MainIsLeaving
    <3> QED BY <1>2, <1>3, <1>12, <2>1, <3>1 DEF Store, Paid, One
  <2>2. CASE ~lateStore'
    <3>1. ret = Nil \/ cmd' = cmd
      BY <1>12, <2>2, StoreKeeps
    <3>2. \A u \in Threads : Due(u)' => Due(u)
      BY <1>12, <3>1 DEF Store, Due, Beginning, CmdInv, OnDuty, Acting
    <3>3. Paid' = Paid
      BY <1>12, <2>2 DEF Store, Paid, One, MainIsLeaving
    <3> QED BY <1>2, <1>4, <1>12, <3>2, <3>3 DEF Store
  <2> QED BY <2>1, <2>2
<1>13. CASE StartScripts \/ Exit \/ Panic \/ AllAsleep
  <2>1. \A u \in Threads : Due(u)' => Due(u)
    BY <1>13 DEF StartScripts, Exit, Panic, AllAsleep, Due, Beginning
  <2>2. MainIsLeaving => MainIsLeaving'
    BY <1>13 DEF StartScripts, Exit, Panic, AllAsleep, MainIsLeaving
  <2>3. UNCHANGED <<made, crashes, lateStore>>
    BY <1>13 DEF StartScripts, Exit, Panic, AllAsleep
  <2> QED BY <1>4, <2>1, <2>2, <2>3 DEF Paid, One
<1>14. CASE Kill \/ KillProcess
  <2>1. CASE MainIsLeaving'
    <3>1. ~MainIsLeaving /\ UNCHANGED <<made, crashes, lateStore>>
      BY <1>14 DEF Kill, KillProcess, MainIsLeaving
    <3> QED BY <1>2, <1>3, <2>1, <3>1 DEF Paid, One
  <2>2. CASE ~MainIsLeaving'
    <3>1. /\ Kill /\ pc' = [pc EXCEPT ![Main] = "killing"] /\ ~MainIsLeaving
          /\ UNCHANGED <<made, crashes, lateStore, cmd, proc, target>>
      BY <1>14, <2>2 DEF Kill, KillProcess, MainIsLeaving
    <3>2. \A u \in Threads : Due(u)' => Due(u)
      BY <3>1 DEF Due, Beginning
    <3> QED BY <1>2, <1>4, <2>2, <3>1, <3>2 DEF Paid, One
  <2> QED BY <2>1, <2>2
<1>15. ASSUME NEW c \in Cmds, Crash(c) PROVE PaidInv'
  BY <1>2, <1>3, <1>15 DEF Crash, Paid, One, MainIsLeaving
<1>16. CASE ReplaceBinary \/ UNCHANGED vars
  BY <1>16 DEF ReplaceBinary, vars, PaidInv, Paid, MainIsLeaving, Due
<1> QED BY <1>6, <1>7, <1>8, <1>9, <1>10, <1>11, <1>12, <1>13, <1>14, <1>15, <1>16, Actions

\* A child that runs has its goroutine on duty, so that nobody else makes a
\* command or starts one.
LEMMA ChildNext == Inv /\ [Next]_vars => ChildInv'
<1> SUFFICES ASSUME Inv, [Next]_vars, ~lateStore' PROVE ChildInv'
  BY DEF ChildInv
<1> USE Numbers DEF GoTo, Inv, Typed, history
<1>1. ~lateStore
  BY Actions DEF Lock, NotFound, Command, Start, StartFails, Return, Finish, Wait, Reaped,
                 LoadRuntimeConfig, InitGlobalLogger, NewManager, MainStepTo, Store, StartScripts,
                 Kill, KillProcess, Exit, Panic, AllAsleep, Crash, ReplaceBinary, vars
<1>2. ASSUME NEW t \in Threads, OnDuty(t), pc[t] \notin {"wait", "waiting"} PROVE Running = {}
  BY <1>1, <1>2 DEF ChildInv, DutyInv, OnDuty, Acting, Running
<1>3. ASSUME NEW t \in Threads, NEW l, pc' = [pc EXCEPT ![t] = l], l \notin {"wait", "waiting"},
             UNCHANGED <<cmd, proc, target, afterKill>>, pc[t] \notin {"wait", "waiting"},
             MainIsLeaving' /\ scripts' # "panicked" =>
               (MainIsLeaving /\ scripts # "panicked") \/ Running = {}
      PROVE  ChildInv'
  BY <1>1, <1>3 DEF ChildInv, Running
<1>4. ASSUME NEW t \in Threads, Lock(t) \/ NotFound(t) \/ StartFails(t) \/ Return(t) PROVE ChildInv'
  <2>1. PICK l \in {"check", "store", "done"} : pc' = [pc EXCEPT ![t] = l]
    BY <1>4 DEF Lock, NotFound, StartFails, Return, Finish
  <2>2. UNCHANGED <<cmd, proc, target, afterKill, scripts>> /\ pc[t] \in {"lock", "check", "start", "return"}
    BY <1>4 DEF Lock, NotFound, StartFails, Return
  <2>3. MainIsLeaving' => MainIsLeaving
    BY <2>1, <2>2 DEF MainIsLeaving
  <2> QED BY <1>3, <2>1, <2>2, <2>3
<1>5. ASSUME NEW t \in Threads, Command(t) PROVE ChildInv'
  <2>1. OnDuty(t) /\ Running = {}
    BY <1>2, <1>5 DEF Command, OnDuty, Acting, Beginning
  <2>2. \A c \in Cmds : pc'[c] \notin {"wait", "waiting"}
    BY <1>5, <2>1 DEF Command, DutyInv, OnDuty, Acting
  <2> QED BY <1>5, <2>1, <2>2 DEF Command, ChildInv, Running
<1>6. ASSUME NEW t \in Threads, Start(t) PROVE ChildInv'
  <2>1. cmd \in Cmds /\ pc[cmd] = "off" /\ cmd # t
    BY <1>6, Enough DEF CmdInv, DutyInv, Start
  <2>2. OnDuty(t) /\ Running = {}
    BY <1>2, <1>6 DEF Start, OnDuty, Acting
  <2>3. \A c \in Cmds \ {cmd} : pc'[c] \notin {"wait", "waiting"}
    BY <1>6, <2>1, <2>2 DEF Start, DutyInv, OnDuty, Acting
  <2>4. Running' = {cmd} /\ pc'[cmd] = "wait"
    BY <1>6, <2>1, <2>2 DEF Start, Running
  <2>5. MainIsLeaving' => afterKill' = afterKill \cup {cmd}
    BY <1>6, <2>1 DEF Start, MainIsLeaving
  <2> QED BY <1>6, <2>3, <2>4, <2>5 DEF Start, ChildInv
<1>7. ASSUME NEW g \in Cmds, Wait(g) PROVE ChildInv'
  <2>1. pc[g] = "wait" /\ cmd = g /\ g \notin waitedOn /\ proc[g] # "new"
    BY <1>1, <1>7 DEF Wait, ChildInv, DutyInv
  <2> QED BY <1>1, <1>7, <2>1 DEF Wait, ChildInv, Running, MainIsLeaving
<1>8. ASSUME NEW g \in Cmds, Reaped(g) PROVE ChildInv'
  BY <1>1, <1>8 DEF Reaped, ChildInv, Running, MainIsLeaving
<1>9. CASE LoadRuntimeConfig \/ InitGlobalLogger \/ NewManager
  <2>1. Running = {}
    BY <1>2, <1>9 DEF LoadRuntimeConfig, InitGlobalLogger, NewManager, MainStepTo, OnDuty, Acting, Beginning
  <2> QED BY <1>3, <1>9, <2>1 DEF LoadRuntimeConfig, InitGlobalLogger, NewManager, MainStepTo
<1>10. CASE Store
  <2>1. CASE cmd' = cmd
    <3>1. Main \in Threads /\ pc[Main] = "store" /\ pc' = [pc EXCEPT ![Main] = "scripts"]
      BY <1>10 DEF Store
    <3>2. ~MainIsLeaving'
      BY <3>1 DEF MainIsLeaving
    <3>3. UNCHANGED <<cmd, proc, target, afterKill>>
      BY <1>10, <2>1 DEF Store
    <3>4. "scripts" \notin {"wait", "waiting"} /\ pc[Main] \notin {"wait", "waiting"}
      BY <3>1
    <3> HIDE DEF MainIsLeaving, Inv, Typed, GoTo, history
    <3> QED BY <1>3, <3>1, <3>2, <3>3, <3>4
  <2>2. CASE ret = Nil
    BY <1>1, <1>10, <2>2 DEF Store, CmdInv, ChildInv, OnDuty, Acting, Running, MainIsLeaving
  <2> QED BY <1>10, <2>1, <2>2, StoreKeeps
<1>11. CASE StartScripts \/ Exit \/ Panic
  BY <1>3, <1>11 DEF StartScripts, Exit, Panic, MainIsLeaving
<1>12. CASE AllAsleep
  <2>1. Running = {}
    BY <1>1, <1>12 DEF AllAsleep, ChildInv, Running
  <2> QED BY <1>3, <1>12, <2>1 DEF AllAsleep
<1>13. CASE Kill
  <2>1. MainIsLeaving' => Running = {}
    BY <1>1, <1>13 DEF Kill, ChildInv, Running, MainIsLeaving
  <2>2. PICK l \in {"killing", "stop"} : pc' = [pc EXCEPT ![Main] = l]
    BY <1>13 DEF Kill
  <2> QED BY <1>3, <1>13, <2>1, <2>2 DEF Kill
<1>16. CASE KillProcess
  <2>1. Running' = {}
    BY <1>1, <1>16 DEF KillProcess, ChildInv, Running
  <2> QED BY <1>1, <1>16, <2>1 DEF KillProcess, ChildInv
<1>14. ASSUME NEW c \in Cmds, Crash(c) PROVE ChildInv'
  BY <1>1, <1>14 DEF Crash, ChildInv, Running, MainIsLeaving
<1>15. CASE ReplaceBinary \/ UNCHANGED vars
  BY <1>1, <1>15 DEF ReplaceBinary, vars, ChildInv, Running, MainIsLeaving
<1> QED BY <1>4, <1>5, <1>6, <1>7, <1>8, <1>9, <1>10, <1>11, <1>12, <1>13, <1>14, <1>15, <1>16, Actions

\* The invariant holds throughout.
LEMMA InvHolds == Spec => []Inv
<1>1. Inv /\ [Next]_vars => Inv'
  BY TypedNext, DutyNext, CmdNext, PaidNext, ChildNext DEF Inv
<1> QED BY <1>1, InvInit, PTL DEF Spec

-----------------------------------------------------------------------------
(* The properties                                                          *)

\* Every variable has its type; above all there are never more commands than
\* exits of children, main's late store and the first one account for: the
\* wrapper does not start children without end.
THEOREM SupervisorTypeCorrect == Spec => []TypeOK
<1>1. Inv => TypeOK
  BY Enough DEF Inv, Typed, TypeOK
<1> QED BY <1>1, InvHolds, PTL

\* Every child that runs is waited for by its own goroutine, until main's store
\* brings an older command back.
THEOREM SupervisedCorrect == Spec => []Supervised
<1>1. Inv => Supervised
  BY DEF Inv, Typed, DutyInv, ChildInv, Supervised, Running
<1> QED BY <1>1, InvHolds, PTL

\* Until then there is one child at most.
THEOREM OneChildCorrect == Spec => []OneChild
<1>1. Inv => OneChild
  BY DEF Inv, ChildInv, OneChild
<1> QED BY <1>1, InvHolds, PTL

\* And a child that is left when main is gone was started after main's Kill,
\* unless a script's panic took main away.
THEOREM OutlivesCorrect == Spec => []OutlivesOnlyStartedAfterKill
<1>1. Inv => OutlivesOnlyStartedAfterKill
  BY DEF Inv, ChildInv, MainIsLeaving, OutlivesOnlyStartedAfterKill
<1> QED BY <1>1, InvHolds, PTL

-----------------------------------------------------------------------------
(* What the liveness of the supervisor rests on                            *)

\* Where a thread holds enum.Mu.
InStart == {"check", "start", "return"}

\* enum.Mu is held by whoever is in startFileBeat, one thread at most, and is
\* given back on each of its ways out.
MutexHeld ==
  /\ \A t \in Threads : t \in mu <=> pc[t] \in InStart
  /\ \A t, u \in mu : t = u

\* The guards of Step(t) and of MainStep's steps up to Store.
CanStep(t) ==
  /\ Alive
  /\ \/ pc[t] = "lock" /\ mu = {}
     \/ pc[t] \in InStart
     \/ t = Main /\ pc[t] \in {"load", "log", "manager"}
     \/ t # Main /\ pc[t] = "wait"
     \/ t # Main /\ pc[t] = "waiting" /\ proc[target[t]] = "exited"

\* What StaysUp speaks of.
Expected == ~missed /\ ~lateStore /\ pc[Main] \notin {"kill", "killing", "stop", "gone"}

\* While a child is expected to run, one does or some thread on the way to start one
\* can take its next step: nobody has forgotten it, and nobody waits for the mutex
\* while no one who holds it can go on.
ChildInHand == Expected => Running # {} \/ \E t \in Threads : CanStep(t)

\* The duty is with somebody, and the command it is about to start is a new one.
HandInv ==
  /\ Expected => \E t \in Threads : OnDuty(t)
  /\ ~lateStore => \A t \in Threads : pc[t] = "start" => proc[cmd] = "new"

\* The mutex is taken by Lock and released by Finish; no other step goes in or out.
LEMMA MutexNext == Inv /\ MutexHeld /\ [Next]_vars => MutexHeld'
<1> SUFFICES ASSUME Inv, MutexHeld, [Next]_vars PROVE MutexHeld'
  OBVIOUS
<1> USE Numbers DEF GoTo, Inv, Typed, MutexHeld, InStart
<1>0. ASSUME NEW t \in Threads, NEW l, pc' = [pc EXCEPT ![t] = l], mu' = mu,
             l \in InStart <=> pc[t] \in InStart
      PROVE  MutexHeld'
  BY <1>0
<1>1. ASSUME NEW t \in Threads, Lock(t) PROVE MutexHeld'
  BY <1>1 DEF Lock
<1>2. ASSUME NEW t \in Threads, NotFound(t) \/ StartFails(t) \/ Return(t) PROVE MutexHeld'
  <2>1. ASSUME NEW v, Finish(t, v), pc[t] \in InStart PROVE MutexHeld'
    BY <2>1 DEF Finish
  <2>2. CASE NotFound(t)
    BY <2>1, <2>2 DEF NotFound
  <2>3. CASE StartFails(t)
    BY <2>1, <2>3 DEF StartFails
  <2>4. CASE Return(t)
    BY <2>1, <2>4 DEF Return
  <2> QED BY <1>2, <2>2, <2>3, <2>4
<1>3. ASSUME NEW t \in Threads, Command(t) PROVE MutexHeld'
  BY <1>3 DEF Command
<1>4. ASSUME NEW t \in Threads, Start(t) PROVE MutexHeld'
  <2>1. cmd \in Cmds /\ pc[cmd] = "off" /\ cmd # t
    BY <1>4, Enough DEF CmdInv, DutyInv, Start
  <2>2. mu' = mu /\ \A u \in Threads : pc'[u] \in InStart <=> pc[u] \in InStart
    BY <1>4, <2>1 DEF Start
  <2> QED BY <2>2
<1>5. ASSUME NEW g \in Cmds, Wait(g) \/ Reaped(g) PROVE MutexHeld'
  <2>1. PICK l \in {"lock", "waiting"} : pc' = [pc EXCEPT ![g] = l]
    BY <1>5 DEF Wait, Reaped
  <2> QED BY <1>0, <1>5, <2>1 DEF Wait, Reaped
<1>6. CASE LoadRuntimeConfig \/ InitGlobalLogger \/ NewManager
  BY <1>0, <1>6 DEF LoadRuntimeConfig, InitGlobalLogger, NewManager, MainStepTo
<1>7. CASE Store \/ StartScripts \/ Kill \/ KillProcess \/ Exit \/ Panic \/ AllAsleep
  BY <1>0, <1>7 DEF Store, StartScripts, Kill, KillProcess, Exit, Panic, AllAsleep
<1>8. ASSUME NEW c \in Cmds, Crash(c) PROVE MutexHeld'
  BY <1>8 DEF Crash
<1>9. CASE ReplaceBinary \/ UNCHANGED vars
  BY <1>9 DEF ReplaceBinary, vars
<1> QED BY <1>1, <1>2, <1>3, <1>4, <1>5, <1>6, <1>7, <1>8, <1>9, Actions

\* Who goes off duty started a child, and put its goroutine on duty, or found no
\* binary.
LEMMA HandNext == Inv /\ HandInv /\ [Next]_vars => HandInv'
<1> SUFFICES ASSUME Inv, HandInv, [Next]_vars PROVE HandInv'
  OBVIOUS
<1> USE Numbers DEF GoTo, Inv, Typed, HandInv, Expected, OnDuty, Acting, Beginning, history
<1>1. ASSUME NEW t \in Threads, NEW l, pc' = [pc EXCEPT ![t] = l], l # "start",
             UNCHANGED <<cmd, proc, missed, lateStore>>,
             \/ l \in Acting
             \/ pc[t] \notin Acting /\ (l \in {"kill", "killing", "stop", "gone"} \/ ~(t = Main /\ pc[t] \in {"kill", "killing", "stop", "gone"}))
             \/ t = Main /\ l = "gone"
      PROVE  HandInv'
  <2>1. \A u \in Threads : pc'[u] = "start" => pc[u] = "start"
    BY <1>1
  <2>2. Expected' => Expected \/ l \in Acting
    BY <1>1
  <2>3. Expected' => \E u \in Threads : OnDuty(u)'
    BY <1>1, <2>2
  <2> QED BY <1>1, <2>1, <2>3
<1>2. ASSUME NEW t \in Threads, Lock(t) PROVE HandInv'
  BY <1>1, <1>2 DEF Lock
<1>3. ASSUME NEW t \in Threads, NotFound(t) PROVE HandInv'
  BY <1>3 DEF NotFound, Finish
<1>4. ASSUME NEW t \in Threads, StartFails(t) PROVE HandInv'
  <2>1. lateStore' \/ missed'
    BY <1>4 DEF StartFails
  <2>2. \A u \in Threads : pc'[u] = "start" => pc[u] = "start"
    BY <1>4 DEF StartFails, Finish
  <2> QED BY <1>4, <2>1, <2>2 DEF StartFails
<1>5. ASSUME NEW t \in Threads, Command(t) PROVE HandInv'
  <2>1. proc'[cmd'] = "new"
    <3>1. made + 1 \in Cmds
      BY <1>5 DEF Command, PaidInv, Paid, One, Due
    <3>2. made + 1 > made
      OBVIOUS
    <3> QED BY <1>5, <3>1, <3>2 DEF Command, DutyInv
  <2> QED BY <1>5, <2>1 DEF Command
<1>6. ASSUME NEW t \in Threads, Start(t) PROVE HandInv'
  <2>1. cmd \in Cmds /\ pc[cmd] = "off" /\ cmd # t
    BY <1>6, Enough DEF CmdInv, DutyInv, Start
  <2>2. pc'[cmd] = "wait" /\ \A u \in Threads : pc'[u] # "start"
    BY <1>6, <2>1 DEF Start, DutyInv
  <2> QED BY <2>1, <2>2
<1>7. ASSUME NEW t \in Threads, Return(t) PROVE HandInv'
  BY <1>1, <1>7 DEF Return, Finish
<1>8. ASSUME NEW g \in Cmds, Wait(g) \/ Reaped(g) PROVE HandInv'
  <2>1. PICK l \in {"lock", "waiting"} : pc' = [pc EXCEPT ![g] = l]
    BY <1>8 DEF Wait, Reaped
  <2> QED BY <1>1, <1>8, <2>1 DEF Wait, Reaped
<1>9. CASE LoadRuntimeConfig \/ InitGlobalLogger \/ NewManager
  BY <1>1, <1>9 DEF LoadRuntimeConfig, InitGlobalLogger, NewManager, MainStepTo
<1>10. CASE Store
  <2>1. ~lateStore' => \A u \in Threads : pc[u] = "start" => cmd' = cmd
    BY <1>10, StoreKeeps DEF Store, CmdInv
  <2> QED BY <1>10, <2>1 DEF Store
<1>11. CASE StartScripts \/ Exit \/ Panic \/ AllAsleep
  BY <1>1, <1>11 DEF StartScripts, Exit, Panic, AllAsleep
<1>12. CASE Kill \/ KillProcess
  <2>1. PICK l \in {"killing", "stop"} : pc' = [pc EXCEPT ![Main] = l]
    BY <1>12 DEF Kill, KillProcess
  <2>2. ~Expected' /\ \A t \in Threads : pc'[t] = "start" => pc[t] = "start"
    BY <2>1
  <2>3. \A c \in Cmds : proc[c] = "new" => proc'[c] = "new"
    BY <1>12 DEF Kill, KillProcess
  <2>4. UNCHANGED <<cmd, lateStore>>
    BY <1>12 DEF Kill, KillProcess
  <2> QED BY <2>2, <2>3, <2>4, Enough DEF CmdInv
<1>13. ASSUME NEW c \in Cmds, Crash(c) PROVE HandInv'
  BY <1>13 DEF Crash
<1>14. CASE ReplaceBinary \/ UNCHANGED vars
  BY <1>14 DEF ReplaceBinary, vars
<1> QED BY <1>2, <1>3, <1>4, <1>5, <1>6, <1>7, <1>8, <1>9, <1>10, <1>11, <1>12, <1>13, <1>14, Actions

\* Both hold from the start.
LEMMA HandHolds == Spec => [](Inv /\ MutexHeld /\ HandInv)
<1>1. Init => Inv /\ MutexHeld /\ HandInv
  <2> SUFFICES ASSUME Init PROVE MutexHeld /\ HandInv
    BY InvInit
  <2>1. pc[Main] = "load" /\ Main \in Threads /\ \A t \in Threads : pc[t] \in {"load", "off"}
    BY Numbers DEF Init
  <2> QED BY <2>1 DEF Init, MutexHeld, InStart, HandInv, OnDuty, Acting, Beginning
<1>2. Inv /\ MutexHeld /\ HandInv /\ [Next]_vars => (Inv /\ MutexHeld /\ HandInv)'
  BY MutexNext, HandNext, TypedNext, DutyNext, CmdNext, PaidNext, ChildNext DEF Inv
<1> QED BY <1>1, <1>2, PTL DEF Spec

\* startFileBeat is a critical section: its mutex is held by the one thread that is in
\* it and by nobody else, so every way out, the failures too, gives it back.
THEOREM MutexCorrect == Spec => []MutexHeld
<1> QED BY HandHolds, PTL

\* Whoever is on duty can take a step, or waits for who can.
LEMMA InHand == Inv /\ MutexHeld /\ HandInv => ChildInHand
<1> SUFFICES ASSUME Inv, MutexHeld, HandInv, Expected, Running = {}
    PROVE  \E t \in Threads : CanStep(t)
  BY DEF ChildInHand
<1>1. PICK t \in Threads : OnDuty(t)
  BY DEF HandInv
<1>2. Alive /\ ~lateStore
  BY DEF Expected, Alive
<1>3. CASE pc[t] = "lock"
  <2>1. CASE mu = {}
    BY <1>2, <1>3, <2>1 DEF CanStep
  <2>2. CASE mu # {}
    <3>1. PICK u \in Threads : pc[u] \in InStart
      BY <2>2 DEF Inv, Typed, MutexHeld
    <3> QED BY <1>2, <3>1 DEF CanStep
  <2> QED BY <2>1, <2>2
<1>4. CASE pc[t] \in {"check", "start"}
  BY <1>2, <1>4 DEF CanStep, InStart
<1>5. CASE pc[t] \in {"load", "log", "manager"}
  <2>1. t = Main
    BY <1>5, Numbers DEF Inv, DutyInv
  <2> QED BY <1>2, <1>5, <2>1 DEF CanStep
<1>6. CASE pc[t] \in {"wait", "waiting"}
  <2>1. t # Main /\ t \in Cmds
    BY <1>6, Numbers DEF Inv, DutyInv
  <2>2. pc[t] = "waiting" => target[t] = t
    BY <1>2, <2>1 DEF Inv, ChildInv
  <2>3. proc[t] = "exited"
    BY <1>6, <2>1 DEF Inv, Typed, DutyInv, Running
  <2> QED BY <1>2, <1>6, <2>1, <2>2, <2>3 DEF CanStep
<1> QED BY <1>1, <1>3, <1>4, <1>5, <1>6 DEF OnDuty, Acting, Beginning

\* The safety that StaysUp needs, for any number of crashes: while main stays, no
\* restart came when the binary was away and no older command was stored, a child runs
\* or a thread that is to start one can take a step; with a fair scheduler that is all
\* that a restart after every crash takes.
THEOREM InHandCorrect == Spec => []ChildInHand
<1> QED BY HandHolds, InHand, PTL
=============================================================================
