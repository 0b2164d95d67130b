---------------------------- MODULE ModuleWatcher ----------------------------
(***************************************************************************)
(* The module watcher of script/module_watcher.go: Run scans a directory,  *)
(* compares what it read with the baseline of the previous run and logs    *)
(* what was created, modified or deleted.                                  *)
(*                                                                         *)
(* A scan lists the directory and then reads file by file, while others    *)
(* write, remove, lock and unlock the files.  A file's content stands for  *)
(* its SHA-256 as well.  Run holds its mutex throughout and has one caller *)
(* (the goroutine of the script manager), so there is one scan at a time.  *)
(***************************************************************************)
EXTENDS Naturals, FiniteSets

CONSTANTS
  Files,       \* paths relative to rootDir
  Contents,    \* what a file may hold, partly written content included
  Errors,      \* what os.ReadFile may fail with, for a file that is there
  NotExist,    \* what it fails with for one that is not
  Absent,      \* no file, or no entry of a map
  DirFails,    \* the directory itself may become unreadable
  MaxChanges   \* bound: how often others change something

ASSUME WatcherAssumption ==
  /\ Absent \notin Contents \cup Errors \cup {NotExist}
  /\ NotExist \notin Errors
  /\ DirFails \in BOOLEAN /\ MaxChanges \in Nat

VARIABLES
  fs,               \* what the directory holds
  fault,            \* the error that reading a file would give, or Absent
  dirFault,         \* the directory cannot be read
  changes,          \* changes made by others
  pc,               \* "idle" or "scan"
  toVisit,          \* what is left of the listing
  files,            \* what the scan has found, scan's local map
  baseline,         \* the map of the last run
  initialized,
  lastReadFailures,
  known,            \* the files that exist by what was logged since the baseline
  word,             \* the last that was logged about a file, or Absent
  since,            \* what happened to a file since it was last read
  seen              \* since, when the scan at hand read the file

fsVars   == <<fs, fault, dirFault, changes>>
runVars  == <<baseline, initialized>>
vars == <<fsVars, pc, toVisit, files, runVars, lastReadFailures, known, word, since, seen>>

Entries(m) == {f \in Files : m[f] # Absent}
Empty      == [f \in Files |-> Absent]
NoEvent    == [f \in Files |-> {}]

Note(f, e) == since' = [since EXCEPT ![f] = @ \cup {e}]

\* handleReadFailure logs an error that is not the one of the last time.
handleReadFailure(f) ==
  LET e == IF fs[f] = Absent THEN NotExist ELSE fault[f] IN
  /\ lastReadFailures' = [lastReadFailures EXCEPT ![f] = e]
  /\ word' = IF lastReadFailures[f] = e THEN word ELSE [word EXCEPT ![f] = e]

-----------------------------------------------------------------------------
(* Run                                                                     *)

\* walkDir lists the directory.
Begin ==
  /\ pc = "idle" /\ ~dirFault
  /\ pc' = "scan"
  /\ toVisit' = Entries(fs)
  /\ files' = Empty
  /\ seen' = NoEvent
  /\ UNCHANGED <<fsVars, runVars, lastReadFailures, known, word, since>>

\* A listing that fails is logged and passed over.
BeginUnlisted ==
  /\ pc = "idle" /\ dirFault
  /\ pc' = "scan"
  /\ toVisit' = {}
  /\ files' = Empty
  /\ seen' = NoEvent
  /\ since' = [f \in Files |-> since[f] \cup {"unlisted"}]
  /\ UNCHANGED <<fsVars, runVars, lastReadFailures, known, word>>

\* The read succeeds.
ReadRemembers(f) ==                                                 \* mutant
  /\ pc = "scan" /\ f \in toVisit
  /\ fs[f] # Absent /\ fault[f] = Absent
  /\ toVisit' = toVisit \ {f}
  /\ files' = [files EXCEPT ![f] = fs[f]]
  /\ seen'  = [seen EXCEPT ![f] = since[f]]
  /\ since' = [since EXCEPT ![f] = {}]
  /\ UNCHANGED <<fsVars, pc, runVars, lastReadFailures, known, word>>
Read(f) ==
  /\ pc = "scan" /\ f \in toVisit
  /\ fs[f] # Absent /\ fault[f] = Absent
  /\ toVisit' = toVisit \ {f}
  /\ files' = [files EXCEPT ![f] = fs[f]]
  /\ lastReadFailures' = [lastReadFailures EXCEPT ![f] = Absent]
  /\ seen'  = [seen EXCEPT ![f] = since[f]]
  /\ since' = [since EXCEPT ![f] = {}]
  /\ UNCHANGED <<fsVars, pc, runVars, known, word>>

\* The read fails, for a file that was removed since it was listed too: the
\* entry of the baseline, if there is one, is carried over.
ReadFailsDrops(f) ==                                                \* mutant
  /\ pc = "scan" /\ f \in toVisit
  /\ fs[f] = Absent \/ fault[f] # Absent
  /\ toVisit' = toVisit \ {f}
  /\ handleReadFailure(f)
  /\ Note(f, "failed")
  /\ UNCHANGED <<fsVars, pc, files, runVars, known, seen>>
ReadFailsHashesError(f) ==                                          \* mutant
  /\ pc = "scan" /\ f \in toVisit
  /\ fs[f] = Absent \/ fault[f] # Absent
  /\ toVisit' = toVisit \ {f}
  /\ files' = [files EXCEPT ![f] = NotExist]
  /\ handleReadFailure(f)
  /\ Note(f, "failed")
  /\ UNCHANGED <<fsVars, pc, runVars, known, seen>>
ReadFails(f) ==
  /\ pc = "scan" /\ f \in toVisit
  /\ fs[f] = Absent \/ fault[f] # Absent
  /\ toVisit' = toVisit \ {f}
  /\ files' = [files EXCEPT ![f] = baseline[f]]
  /\ handleReadFailure(f)
  /\ Note(f, "failed")
  /\ UNCHANGED <<fsVars, pc, runVars, known, seen>>

\* diffSnapshots(baseline, files).
Created  == {f \in Files : files[f] # Absent /\ baseline[f] = Absent}
Modified == {f \in Files : files[f] # Absent /\ baseline[f] # Absent /\ files[f] # baseline[f]}
DeletedUnread ==                                                    \* mutant
  {f \in Files : files[f] = Absent /\ baseline[f] # Absent /\ lastReadFailures[f] = Absent}
Deleted  == {f \in Files : files[f] = Absent /\ baseline[f] # Absent}

\* The messages Run logs.
Logged ==
  /\ known' = (known \cup Created) \ Deleted
  /\ word' = [f \in Files |-> CASE f \in Created -> "created" [] f \in Modified -> "modified"
                                [] f \in Deleted -> "deleted" [] OTHER -> word[f]]

\* The first run only takes the baseline.
Initialize ==
  /\ pc = "scan" /\ toVisit = {} /\ ~initialized
  /\ pc' = "idle"
  /\ baseline' = files /\ initialized' = TRUE
  /\ known' = Entries(files)
  /\ UNCHANGED <<fsVars, toVisit, files, lastReadFailures, word, since, seen>>

\* Later ones log the differences, then replace the baseline.
ReportKeeps ==                                                      \* mutant
  /\ pc = "scan" /\ toVisit = {} /\ initialized
  /\ pc' = "idle"
  /\ baseline' = IF Created = {} /\ Deleted = {} THEN baseline ELSE files
  /\ Logged
  /\ UNCHANGED <<fsVars, toVisit, files, initialized, lastReadFailures, since, seen>>
Report ==
  /\ pc = "scan" /\ toVisit = {} /\ initialized
  /\ pc' = "idle"
  /\ baseline' = files
  /\ Logged
  /\ UNCHANGED <<fsVars, toVisit, files, initialized, lastReadFailures, since, seen>>

-----------------------------------------------------------------------------
(* The others                                                              *)

Change ==
  /\ changes < MaxChanges
  /\ changes' = changes + 1
  /\ UNCHANGED <<pc, toVisit, files, runVars, lastReadFailures, known, word, seen>>

Write(f, c) ==
  /\ Change /\ fs[f] # c
  /\ fs' = [fs EXCEPT ![f] = c]
  /\ Note(f, "written")
  /\ UNCHANGED <<fault, dirFault>>

Remove(f) ==
  /\ Change /\ fs[f] # Absent
  /\ fs' = [fs EXCEPT ![f] = Absent]
  /\ fault' = [fault EXCEPT ![f] = Absent]
  /\ Note(f, "removed")
  /\ UNCHANGED dirFault

\* A file becomes unreadable, for one reason or another, or readable again.
Fault(f, e) ==
  /\ Change /\ fs[f] # Absent /\ fault[f] # e
  /\ fault' = [fault EXCEPT ![f] = e]
  /\ UNCHANGED <<fs, dirFault, since>>

DirFault ==
  /\ Change /\ DirFails
  /\ dirFault' = ~dirFault
  /\ UNCHANGED <<fs, fault, since>>

-----------------------------------------------------------------------------
Init ==
  /\ fs \in [Files -> Contents \cup {Absent}]
  /\ fault = Empty /\ dirFault = FALSE /\ changes = 0
  /\ pc = "idle" /\ toVisit = {} /\ files = Empty
  /\ baseline = Empty /\ initialized = FALSE
  /\ lastReadFailures = Empty
  /\ known = {} /\ word = Empty /\ since = NoEvent /\ seen = NoEvent

Run == Begin \/ BeginUnlisted \/ (\E f \in Files : Read(f) \/ ReadFails(f)) \/ Initialize \/ Report

Others ==
  \/ \E f \in Files : \/ \E c \in Contents : Write(f, c)
                      \/ Remove(f)
                      \/ \E e \in Errors \cup {Absent} : Fault(f, e)
  \/ DirFault

Next == Run \/ Others
Spec == Init /\ [][Next]_vars

\* The script manager's ticker brings the next run, and a run ends.
FairSpec == Spec /\ WF_vars(Run)

-----------------------------------------------------------------------------
(* Properties                                                              *)

\* Every variable has its type.
TypeOK ==
  /\ fs \in [Files -> Contents \cup {Absent}]
  /\ fault \in [Files -> Errors \cup {Absent}]
  /\ dirFault \in BOOLEAN /\ changes \in 0 .. MaxChanges
  /\ pc \in {"idle", "scan"} /\ toVisit \in SUBSET Files
  /\ files \in [Files -> Contents \cup {Absent}]
  /\ baseline \in [Files -> Contents \cup {Absent}] /\ initialized \in BOOLEAN
  /\ lastReadFailures \in [Files -> Errors \cup {NotExist, Absent}]
  /\ known \in SUBSET Files
  /\ word \in [Files -> Errors \cup {NotExist, Absent, "created", "modified", "deleted"}]
  /\ since \in [Files -> SUBSET {"written", "removed", "failed", "unlisted"}]
  /\ seen \in [Files -> SUBSET {"written", "removed", "failed", "unlisted"}]

Reporting == pc = "scan" /\ toVisit = {} /\ initialized

\* Nothing is logged that did not happen: modified only if it was written since
\* it was read before, deleted only if it was removed, created only if it was
\* written or could not be read before; or the directory could not be listed.
ReportsAreTrue ==
  Reporting =>
    /\ \A f \in Deleted : since[f] \cap {"removed", "unlisted"} # {}
    /\ \A f \in Modified : "written" \in seen[f]
    /\ \A f \in Created : seen[f] \cap {"written", "failed", "unlisted"} # {}

\* Between runs, the log since the baseline was taken accounts for every file
\* the watcher knows: no creation or deletion is dropped or logged twice.
LogAddsUp == pc = "idle" /\ initialized => known = Entries(baseline)

\* A file that could not be read when it was last tried has that error as the
\* last word of the log, though it is logged once and not again while it lasts;
\* or it was logged deleted since: lastReadFailures keeps the entry, and the
\* same error is passed over should the file come back.
ErrorIsLastWord ==
  \A f \in Files : lastReadFailures[f] # Absent => word[f] \in {lastReadFailures[f], "deleted"}

\* Once nothing changes and everything can be read, the baseline comes to be
\* what the directory holds: a change made during a scan, or behind a read
\* error, is only put off.
CatchesUp ==
  <>[](fault = Empty /\ ~dirFault) => <>[](pc = "idle" => baseline = fs)
=============================================================================
