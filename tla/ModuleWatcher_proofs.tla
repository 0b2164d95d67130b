------------------------- MODULE ModuleWatcher_proofs -------------------------
(***************************************************************************)
(* Proofs about ModuleWatcher, for any files, contents and errors, and any *)
(* bound on the changes.                                                   *)
(***************************************************************************)
EXTENDS ModuleWatcher, TLAPS

\* The map m is what the directory held when f was last read, or f was changed
\* since; f is missing from m only if it was not there or could not be seen.
Accounts(m, f) ==
  /\ m[f] # Absent /\ fs[f] = Absent => "removed" \in since[f]
  /\ m[f] # Absent /\ fs[f] \notin {Absent, m[f]} => "written" \in since[f]
  /\ m[f] = Absent /\ fs[f] # Absent => since[f] \cap {"written", "failed", "unlisted"} # {}

\* ReportsAreTrue, for one file the scan is done with.
TrueOf(f) ==
  /\ f \in Deleted => since[f] \cap {"removed", "unlisted"} # {}
  /\ f \in Modified => "written" \in seen[f]
  /\ f \in Created => seen[f] \cap {"written", "failed", "unlisted"} # {}

\* A file accounts for itself by the baseline, once there is one, until the scan
\* comes to it, and by the scan's own map from then on.
ScanInv ==
  \A f \in Files :
    /\ ~initialized => baseline[f] = Absent
    /\ initialized /\ (pc = "idle" \/ f \in toVisit) => Accounts(baseline, f)
    /\ pc = "scan" /\ f \in toVisit => files[f] = Absent
    /\ pc = "scan" /\ f \notin toVisit => Accounts(files, f) /\ (initialized => TrueOf(f))

\* Before a file is read nothing is known of it; and one that could not be read
\* takes its entry from the baseline, so that no other word is logged of it.
WordInv ==
  /\ ErrorIsLastWord
  /\ pc = "scan" =>
       \A f \in Files : lastReadFailures[f] # Absent => files[f] \in {Absent, baseline[f]}

KnownInv == initialized => known = Entries(baseline)

-----------------------------------------------------------------------------
(* Types                                                                   *)

\* Every map keeps its files and their entries.
LEMMA TypeNext == TypeOK /\ [Next]_vars => TypeOK'
<1> SUFFICES ASSUME TypeOK, [Next]_vars PROVE TypeOK'
  OBVIOUS
<1> USE WatcherAssumption DEF WatcherAssumption, TypeOK, fsVars, runVars
<1>1. CASE Begin
  BY <1>1 DEF Begin, Entries, Empty, NoEvent
<1>2. CASE BeginUnlisted
  BY <1>2 DEF BeginUnlisted, Empty, NoEvent
<1>3. ASSUME NEW f \in Files, Read(f) PROVE TypeOK'
  BY <1>3 DEF Read
<1>4. ASSUME NEW f \in Files, ReadFails(f) PROVE TypeOK'
  BY <1>4 DEF ReadFails, handleReadFailure, Note
<1>5. CASE Initialize
  BY <1>5 DEF Initialize, Entries
<1>6. CASE Report
  <2>1. word' \in [Files -> Errors \cup {NotExist, Absent, "created", "modified", "deleted"}]
    BY <1>6 DEF Report, Logged
  <2>2. known' \in SUBSET Files
    BY <1>6 DEF Report, Logged, Created, Deleted
  <2> QED BY <1>6, <2>1, <2>2 DEF Report
<1>7. ASSUME NEW f \in Files, NEW c \in Contents, Write(f, c) PROVE TypeOK'
  BY <1>7 DEF Write, Change, Note
<1>8. ASSUME NEW f \in Files, Remove(f) PROVE TypeOK'
  BY <1>8 DEF Remove, Change, Note
<1>9. ASSUME NEW f \in Files, NEW e \in Errors \cup {Absent}, Fault(f, e) PROVE TypeOK'
  BY <1>9 DEF Fault, Change
<1>10. CASE DirFault
  BY <1>10 DEF DirFault, Change
<1>11. CASE UNCHANGED vars
  BY <1>11 DEF vars
<1> QED
  BY <1>1, <1>2, <1>3, <1>4, <1>5, <1>6, <1>7, <1>8, <1>9, <1>10, <1>11 DEF Next, Run, Others

\* Every variable has its type.
THEOREM WatcherTypeCorrect == Spec => []TypeOK
<1>1. ASSUME Init PROVE TypeOK
  <2>1. Empty \in [Files -> {Absent}] /\ NoEvent \in [Files -> {{}}]
    BY DEF Empty, NoEvent
  <2>2. changes \in 0 .. MaxChanges
    BY <1>1, WatcherAssumption DEF WatcherAssumption, Init
  <2> QED BY <1>1, <2>1, <2>2 DEF Init, TypeOK
<1> QED BY <1>1, TypeNext, PTL DEF Spec

-----------------------------------------------------------------------------
(* The log                                                                 *)

\* What others do touches none of what the watcher keeps.
LEMMA OthersKeep ==
  ASSUME Others
  PROVE  UNCHANGED <<pc, toVisit, files, baseline, initialized, lastReadFailures, known, word, seen>>
BY DEF Others, Write, Remove, Fault, DirFault, Change, runVars

\* Created and Deleted are what the baseline gains and loses.
LEMMA KnownNext == KnownInv /\ [Next]_vars => KnownInv'
<1> SUFFICES ASSUME KnownInv, [Next]_vars PROVE KnownInv'
  OBVIOUS
<1> USE DEF KnownInv, runVars
<1>1. CASE Initialize
  BY <1>1 DEF Initialize, Entries
<1>2. CASE Report
  BY <1>2 DEF Report, Logged, Created, Deleted, Entries
<1>3. ASSUME UNCHANGED <<known, baseline, initialized>> PROVE KnownInv'
  BY <1>3 DEF Entries
<1>4. CASE Begin \/ BeginUnlisted \/ (\E f \in Files : Read(f) \/ ReadFails(f)) \/ UNCHANGED vars
  BY <1>3, <1>4 DEF Begin, BeginUnlisted, Read, ReadFails, vars
<1> QED BY <1>1, <1>2, <1>3, <1>4, OthersKeep DEF Next, Run

\* Between runs, what was logged since the baseline was taken adds up to the
\* files of the baseline, through read errors and listings that fail.
THEOREM LogCorrect == Spec => []LogAddsUp
<1>1. Init => KnownInv
  BY DEF Init, KnownInv
<1>2. KnownInv => LogAddsUp
  BY DEF KnownInv, LogAddsUp
<1> QED BY <1>1, <1>2, KnownNext, PTL DEF Spec

\* An error is logged when it is another than the last, and only what the scan
\* found different is logged over it.
LEMMA WordNext == TypeOK /\ WordInv /\ [Next]_vars => WordInv'
<1> SUFFICES ASSUME TypeOK, WordInv, [Next]_vars PROVE WordInv'
  OBVIOUS
<1> USE DEF TypeOK, WordInv, ErrorIsLastWord, runVars
<1>1. CASE Begin \/ BeginUnlisted
  BY <1>1 DEF Begin, BeginUnlisted, Empty
<1>2. ASSUME NEW f \in Files, Read(f) PROVE WordInv'
  BY <1>2 DEF Read
<1>3. ASSUME NEW f \in Files, ReadFails(f) PROVE WordInv'
  BY <1>3 DEF ReadFails, handleReadFailure
<1>4. CASE Initialize
  BY <1>4 DEF Initialize
<1>5. CASE Report
  <2>1. ASSUME NEW f \in Files, lastReadFailures'[f] # Absent
        PROVE  word'[f] \in {lastReadFailures'[f], "deleted"}
    <3>1. f \notin Created /\ f \notin Modified
      BY <1>5, <2>1 DEF Report, Created, Modified
    <3>2. word'[f] \in {word[f], "deleted"}
      BY <1>5, <3>1 DEF Report, Logged
    <3> QED BY <1>5, <2>1, <3>2 DEF Report
  <2> QED BY <1>5, <2>1 DEF Report
<1>6. CASE Others \/ UNCHANGED vars
  BY <1>6, OthersKeep DEF vars
<1> QED BY <1>1, <1>2, <1>3, <1>4, <1>5, <1>6 DEF Next, Run

\* The error a file could not be read with is the last word about it, unless
\* that is its deletion.
THEOREM ErrorWordCorrect == Spec => []ErrorIsLastWord
<1>1. Init => WordInv
  BY DEF Init, WordInv, ErrorIsLastWord, Empty
<1>2. WordInv => ErrorIsLastWord
  BY DEF WordInv
<1> QED BY <1>1, <1>2, WatcherTypeCorrect, WordNext, PTL DEF Spec

-----------------------------------------------------------------------------
(* The truth of the log                                                    *)

\* A change leaves its mark in since, so that both maps stay accounted for.
LEMMA ScanOthers == TypeOK /\ ScanInv /\ Others => ScanInv'
<1> SUFFICES ASSUME TypeOK, ScanInv, Others PROVE ScanInv'
  OBVIOUS
<1> USE WatcherAssumption DEF WatcherAssumption, TypeOK
<1>1. \A g \in Files : since[g] \subseteq since'[g]
  BY DEF Others, Write, Remove, Fault, DirFault, Note
<1>2. \A g \in Files : \/ fs'[g] = fs[g]
                       \/ fs'[g] # Absent /\ "written" \in since'[g]
                       \/ fs'[g] = Absent /\ "removed" \in since'[g]
  BY DEF Others, Write, Remove, Fault, DirFault, Note
<1>3. ASSUME NEW g \in Files, Accounts(baseline, g) PROVE Accounts(baseline, g)'
  BY <1>1, <1>2, <1>3, OthersKeep DEF Accounts
<1>4. ASSUME NEW g \in Files, Accounts(files, g) PROVE Accounts(files, g)'
  BY <1>1, <1>2, <1>4, OthersKeep DEF Accounts
<1>5. ASSUME NEW g \in Files, TrueOf(g) PROVE TrueOf(g)'
  BY <1>1, <1>5, OthersKeep DEF TrueOf, Deleted, Modified, Created
<1> QED BY <1>3, <1>4, <1>5, OthersKeep DEF ScanInv

\* A read takes a file from the baseline's account to the scan's.
LEMMA ScanNext == TypeOK /\ ScanInv /\ [Next]_vars => ScanInv'
<1> SUFFICES ASSUME TypeOK, ScanInv, [Next]_vars PROVE ScanInv'
  OBVIOUS
<1> USE WatcherAssumption DEF WatcherAssumption, TypeOK, fsVars, runVars
<1>1. CASE Begin
  BY <1>1 DEF Begin, ScanInv, Accounts, TrueOf, Deleted, Modified, Created, Entries, Empty
<1>2. CASE BeginUnlisted
  BY <1>2 DEF BeginUnlisted, ScanInv, Accounts, TrueOf, Deleted, Modified, Created, Empty
<1>3. ASSUME NEW f \in Files, pc = "scan", f \in toVisit, toVisit' = toVisit \ {f},
             UNCHANGED <<fs, pc, baseline, initialized>>,
             \A g \in Files \ {f} : /\ files'[g] = files[g]
                                    /\ since'[g] = since[g] /\ seen'[g] = seen[g],
             Accounts(files, f)', initialized => TrueOf(f)'
      PROVE  ScanInv'
  BY <1>3 DEF ScanInv, Accounts, TrueOf, Deleted, Modified, Created
<1>4. ASSUME NEW f \in Files, Read(f) PROVE ScanInv'
  <2>1. Accounts(files, f)' /\ (initialized => TrueOf(f)')
    BY <1>4 DEF Read, ScanInv, Accounts, TrueOf, Deleted, Modified, Created
  <2> QED BY <1>3, <1>4, <2>1 DEF Read
<1>5. ASSUME NEW f \in Files, ReadFails(f) PROVE ScanInv'
  <2>1. Accounts(files, f)'
    BY <1>5 DEF ReadFails, Note, ScanInv, Accounts
  <2>2. TrueOf(f)'
    BY <1>5 DEF ReadFails, TrueOf, Deleted, Modified, Created
  <2> QED BY <1>3, <1>5, <2>1, <2>2 DEF ReadFails, Note
<1>6. CASE Initialize
  BY <1>6 DEF Initialize, ScanInv, Accounts
<1>7. CASE Report
  BY <1>7 DEF Report, ScanInv, Accounts
<1>8. CASE UNCHANGED vars
  BY <1>8 DEF vars, ScanInv, Accounts, TrueOf, Deleted, Modified, Created
<1> QED BY <1>1, <1>2, <1>4, <1>5, <1>6, <1>7, <1>8, ScanOthers DEF Next, Run

\* Nothing is logged that did not happen, whatever others change while a scan
\* is between two files.
THEOREM ReportsCorrect == Spec => []ReportsAreTrue
<1>1. Init => ScanInv
  BY DEF Init, ScanInv, Empty
<1>2. TypeOK /\ ScanInv => ReportsAreTrue
  BY DEF ScanInv, TrueOf, ReportsAreTrue, Reporting, Deleted, Modified, Created
<1> QED BY <1>1, <1>2, WatcherTypeCorrect, ScanNext, PTL DEF Spec

-----------------------------------------------------------------------------
(* Catching up                                                             *)

\* From any state between two runs on, nobody changes anything and everything can
\* be read.
Quiet == TypeOK /\ pc = "idle" /\ fault = Empty /\ ~dirFault /\ [][Run]_vars

\* Then a scan has found what is there of the files it has come to, and no other.
FreshInv ==
  /\ TypeOK /\ fault = Empty /\ ~dirFault
  /\ pc = "scan" => /\ \A f \in toVisit : fs[f] # Absent
                    /\ \A f \in Files : files[f] = IF f \in toVisit THEN Absent ELSE fs[f]

\* No run leaves that.
LEMMA FreshNext == FreshInv /\ [Run]_vars => FreshInv'
<1> SUFFICES ASSUME FreshInv, [Run]_vars PROVE FreshInv'
  OBVIOUS
<1>1. TypeOK'
  BY TypeNext DEF FreshInv, Next
<1>2. UNCHANGED <<fault, dirFault, fs>>
  BY DEF Run, Begin, BeginUnlisted, Read, ReadFails, Initialize, Report, fsVars, vars
<1> USE DEF FreshInv, TypeOK
<1>3. CASE Begin
  BY <1>1, <1>2, <1>3 DEF Begin, Entries, Empty
<1>4. ASSUME NEW f \in Files, Read(f) PROVE FreshInv'
  BY <1>1, <1>2, <1>4 DEF Read
<1>5. ASSUME NEW f \in Files PROVE ~ReadFails(f)
  BY DEF ReadFails, Empty
<1>6. CASE Initialize \/ Report \/ UNCHANGED vars
  BY <1>1, <1>2, <1>6 DEF Initialize, Report, vars
<1> QED BY <1>3, <1>4, <1>5, <1>6 DEF Run, BeginUnlisted

\* A scan that is through leaves the truth in the baseline; when it is there, there is
\* nothing to log.
LEMMA FreshStep ==
  FreshInv /\ [Run]_vars =>
    /\ pc = "scan" /\ pc' = "idle" => baseline' = fs'
    /\ initialized /\ baseline = fs => UNCHANGED <<baseline, known, word>>
<1> SUFFICES ASSUME FreshInv, [Run]_vars
    PROVE  /\ pc = "scan" /\ pc' = "idle" => baseline' = fs'
           /\ initialized /\ baseline = fs => UNCHANGED <<baseline, known, word>>
  OBVIOUS
<1> USE DEF FreshInv, TypeOK
<1>1. CASE Initialize \/ Report
  <2>1. baseline' = files /\ fs' = fs /\ pc = "scan" /\ toVisit = {}
    BY <1>1 DEF Initialize, Report, fsVars
  <2>2. files = fs
    BY <2>1
  <2>3. ASSUME initialized, baseline = fs PROVE UNCHANGED <<known, word>>
    <3>1. Created = {} /\ Modified = {} /\ Deleted = {}
      BY <2>2, <2>3 DEF Created, Modified, Deleted
    <3>2. Logged
      BY <1>1, <2>3 DEF Initialize, Report
    <3> QED BY <3>1, <3>2 DEF Logged
  <2> QED BY <2>1, <2>2, <2>3
<1>2. CASE Begin \/ (\E f \in Files : Read(f)) \/ UNCHANGED vars
  BY <1>2 DEF Begin, Read, runVars, vars
<1>3. ASSUME NEW f \in Files PROVE ~ReadFails(f)
  BY DEF ReadFails, Empty
<1> QED BY <1>1, <1>2, <1>3 DEF Run, BeginUnlisted

\* The safety that CatchesUp needs. Whatever happened before, the first scan that
\* begins after the last change leaves the truth in the baseline, and from then on the
\* baseline stays and no scan logs anything: a change is put off, and not missed.
THEOREM QuietScanIsTrue ==
  Quiet => [][/\ pc = "scan" /\ pc' = "idle" => baseline' = fs'
              /\ initialized /\ baseline = fs => UNCHANGED <<baseline, known, word>>]_vars
<1>1. TypeOK /\ pc = "idle" /\ fault = Empty /\ ~dirFault => FreshInv
  BY DEF FreshInv
<1>2. FreshInv /\ [Run]_vars =>
        [/\ pc = "scan" /\ pc' = "idle" => baseline' = fs'
         /\ initialized /\ baseline = fs => UNCHANGED <<baseline, known, word>>]_vars
  BY FreshStep
<1> QED BY <1>1, <1>2, FreshNext, PTL DEF Quiet
=============================================================================
