------------------------- MODULE ScriptManager_proofs -------------------------
(***************************************************************************)
(* Proofs about ScriptManager, for any finite set of scripts and any       *)
(* intervals.                                                              *)
(***************************************************************************)
EXTENDS ScriptManager, FiniteSetTheorems, TLAPS

ActiveScripts == {s \in Scripts : Active(s)}

\* The types, but for the bound of the counter.
Typed ==
  /\ interval \in [Scripts -> Intervals]
  /\ mpc \in {"start", "started", "failed", "wait", "stopped"}
  /\ todo \in SUBSET Scripts /\ stopCh \in BOOLEAN
  /\ spc \in [Scripts -> {"off", "first", "newticker", "select", "run", "done"}]
  /\ ticking \in [Scripts -> BOOLEAN] /\ tick \in [Scripts -> BOOLEAN]
  /\ panicked \in BOOLEAN

\* The wait group counts the goroutines that have not ended, one each; Start
\* has not come to those of todo; only an active script has a ticker; and once
\* Stop has returned none is active.
CountInv ==
  /\ Typed
  /\ wg = Cardinality(ActiveScripts)
  /\ \A s \in todo : spc[s] = "off"
  /\ \A s \in Scripts : ticking[s] => Active(s)
  /\ mpc = "stopped" => ActiveScripts = {}

\* There are no more active scripts than scripts.
LEMMA ActiveFinite == IsFiniteSet(ActiveScripts) /\ Cardinality(ActiveScripts) \in 0 .. Cardinality(Scripts)
<1>1. IsFiniteSet(Scripts) /\ ActiveScripts \subseteq Scripts
  BY ManagerAssumption DEF ManagerAssumption, ActiveScripts
<1>2. IsFiniteSet(ActiveScripts) /\ Cardinality(ActiveScripts) <= Cardinality(Scripts)
  BY <1>1, FS_Subset
<1> QED BY <1>1, <1>2, FS_CardinalityType

\* Nothing runs at the start.
LEMMA CountInit == Init => CountInv
<1> SUFFICES ASSUME Init PROVE CountInv
  OBVIOUS
<1>1. ActiveScripts = {}
  BY DEF Init, ActiveScripts, Active
<1> QED BY <1>1, FS_EmptySet DEF Init, CountInv, Typed

\* wg.Add(1) comes with the goroutine, and its Done with the end of it.
LEMMA CountNext == CountInv /\ [Next]_vars => CountInv'
<1> SUFFICES ASSUME CountInv, [Next]_vars PROVE CountInv'
  OBVIOUS
<1> USE DEF CountInv, Typed
<1>1. ASSUME NEW s \in Scripts, StartScript(s) PROVE CountInv'
  <2>1. s \notin ActiveScripts /\ spc[s] = "off"
    BY <1>1 DEF StartScript, ActiveScripts, Active
  <2>2. ActiveScripts' = ActiveScripts \cup {s}
    BY <1>1, <2>1 DEF StartScript, GoTo, ActiveScripts, Active
  <2>3. Cardinality(ActiveScripts') = Cardinality(ActiveScripts) + 1
    BY <2>1, <2>2, ActiveFinite, FS_AddElement
  <2> QED BY <1>1, <2>1, <2>3 DEF StartScript, GoTo, Active
<1>2. ASSUME NEW s \in Scripts, TakeStop(s) PROVE CountInv'
  <2>1. s \in ActiveScripts
    BY <1>2 DEF TakeStop, ActiveScripts, Active
  <2>2. ActiveScripts' = ActiveScripts \ {s}
    BY <1>2, <2>1 DEF TakeStop, GoTo, ActiveScripts, Active
  <2>3. Cardinality(ActiveScripts') = Cardinality(ActiveScripts) - 1
    BY <2>1, <2>2, ActiveFinite, FS_RemoveElement
  <2> QED BY <1>2, <2>1, <2>2, <2>3 DEF TakeStop, GoTo, Active
<1>3. ASSUME NEW s \in Scripts, RunEnds(s) \/ NewTicker(s) \/ TakeTick(s) \/ Tick(s)
      PROVE  CountInv'
  <2>1. \A r \in Scripts : Active(r)' <=> Active(r)
    BY <1>3 DEF RunEnds, NewTicker, TakeTick, Tick, GoTo, Active
  <2>2. ActiveScripts' = ActiveScripts
    BY <2>1 DEF ActiveScripts
  <2>3. UNCHANGED <<interval, mpc, todo, stopCh, wg>>
    BY <1>3 DEF RunEnds, NewTicker, TakeTick, Tick
  <2>4. Typed'
    BY <1>3 DEF RunEnds, NewTicker, TakeTick, Tick, GoTo
  <2>5. \A r \in Scripts : ticking'[r] => ticking[r] \/ Active(r)
    BY <1>3 DEF RunEnds, NewTicker, TakeTick, Tick, Active
  <2>6. \A r \in todo : spc'[r] = "off"
    BY <1>3 DEF RunEnds, NewTicker, TakeTick, Tick, GoTo
  <2> QED BY <2>1, <2>2, <2>3, <2>4, <2>5, <2>6
<1>4. ASSUME UNCHANGED <<interval, spc, wg, ticking>>, Typed',
             todo' \subseteq todo, mpc' = "stopped" => mpc = "stopped" \/ wg = 0
      PROVE  CountInv'
  <2>1. ActiveScripts' = ActiveScripts
    BY <1>4 DEF ActiveScripts, Active
  <2>2. wg = 0 => ActiveScripts = {}
    BY ActiveFinite, FS_EmptySet
  <2> QED BY <1>4, <2>1, <2>2 DEF Active
<1>5. ASSUME NEW s \in Scripts, StartFails(s) PROVE CountInv'
  BY <1>4, <1>5 DEF StartFails
<1>6. CASE Started \/ Stop \/ StopReturns \/ UNCHANGED vars
  BY <1>4, <1>6 DEF Started, Stop, StopReturns, vars
<1> QED BY <1>1, <1>2, <1>3, <1>5, <1>6 DEF Next, Caller, runScript

\* The count holds throughout.
LEMMA CountHolds == Spec => []CountInv
BY CountInit, CountNext, PTL DEF Spec

\* Every variable keeps its type; above all the wait group's counter is never
\* negative, for which Go panics, and never more than the scripts.
THEOREM ManagerTypeCorrect == Spec => []TypeOK
<1>1. CountInv => TypeOK
  BY ActiveFinite DEF CountInv, Typed, TypeOK
<1> QED BY <1>1, CountHolds, PTL

\* When Stop has returned no script runs and no ticker is left, however many
\* there are and wherever Start stopped.
THEOREM QuietCorrect == Spec => []StoppedIsQuiet
<1>1. CountInv => StoppedIsQuiet
  BY DEF CountInv, StoppedIsQuiet, ActiveScripts
<1> QED BY <1>1, CountHolds, PTL

-----------------------------------------------------------------------------
(* What the liveness of the manager rests on                               *)

\* The guards of the steps of runScript.
CanRun(s) ==
  \/ spc[s] \in {"first", "run", "newticker"}
  \/ spc[s] = "select" /\ (tick[s] \/ stopCh)

\* A goroutine that waits in select has a ticker, and one that was started ends for
\* the stop alone, which Stop has closed by the time it waits.
GoesOnInv ==
  /\ \A s \in Scripts : /\ spc[s] \in {"select", "run"} => ticking[s]
                        /\ spc[s] = "done" => stopCh
  /\ mpc \in {"wait", "stopped"} <=> stopCh

\* Stop does not hang: while it waits the counter is 0 already, or a goroutine that it
\* counts can take a step. And no script that was started is forgotten: until the stop
\* it can run, or a tick will come that lets it.
NobodyHangs ==
  ~panicked =>
    /\ mpc = "wait" => wg = 0 \/ \E s \in Scripts : Active(s) /\ CanRun(s)
    /\ \A s \in Scripts : spc[s] # "off" /\ ~stopCh => CanRun(s) \/ ticking[s]

\* Each step keeps tickers and stop together.
LEMMA GoesOnNext == CountInv /\ GoesOnInv /\ [Next]_vars => GoesOnInv'
<1> SUFFICES ASSUME CountInv, GoesOnInv, [Next]_vars PROVE GoesOnInv'
  OBVIOUS
<1> USE DEF CountInv, Typed, GoesOnInv, GoTo
<1>1. ASSUME NEW s \in Scripts, StartScript(s) \/ StartFails(s) PROVE GoesOnInv'
  BY <1>1 DEF StartScript, StartFails
<1>2. ASSUME NEW s \in Scripts, RunEnds(s) PROVE GoesOnInv'
  BY <1>2 DEF RunEnds
<1>3. ASSUME NEW s \in Scripts, NewTicker(s) PROVE GoesOnInv'
  BY <1>3 DEF NewTicker
<1>4. ASSUME NEW s \in Scripts, TakeTick(s) PROVE GoesOnInv'
  BY <1>4 DEF TakeTick
<1>5. ASSUME NEW s \in Scripts, TakeStop(s) PROVE GoesOnInv'
  BY <1>5 DEF TakeStop
<1>6. ASSUME NEW s \in Scripts, Tick(s) PROVE GoesOnInv'
  BY <1>6 DEF Tick
<1>7. CASE Started \/ Stop \/ StopReturns \/ UNCHANGED vars
  BY <1>7 DEF Started, Stop, StopReturns, vars
<1> QED BY <1>1, <1>2, <1>3, <1>4, <1>5, <1>6, <1>7 DEF Next, Caller, runScript

\* The counter is positive only for a goroutine that is left, and each of those can
\* go on.
LEMMA NobodyHangsIn == CountInv /\ GoesOnInv => NobodyHangs
<1> SUFFICES ASSUME CountInv, GoesOnInv PROVE NobodyHangs
  OBVIOUS
<1>1. ASSUME mpc = "wait", wg # 0 PROVE \E s \in Scripts : Active(s) /\ CanRun(s)
  <2>1. ActiveScripts # {}
    BY <1>1, FS_EmptySet DEF CountInv
  <2>2. PICK s \in Scripts : Active(s)
    BY <2>1 DEF ActiveScripts
  <2> QED BY <1>1, <2>2 DEF CountInv, Typed, GoesOnInv, Active, CanRun
<1>2. ASSUME NEW s \in Scripts, spc[s] # "off", ~stopCh PROVE CanRun(s) \/ ticking[s]
  BY <1>2 DEF CountInv, Typed, GoesOnInv, CanRun
<1> QED BY <1>1, <1>2 DEF NobodyHangs

\* The safety that StopEnds and KeepsRunning need, for any scripts and wherever Start
\* stopped.
THEOREM NobodyHangsCorrect == Spec => []NobodyHangs
<1>1. Init => GoesOnInv
  BY DEF Init, GoesOnInv
<1> QED BY <1>1, CountInit, CountNext, GoesOnNext, NobodyHangsIn, PTL DEF Spec
=============================================================================
