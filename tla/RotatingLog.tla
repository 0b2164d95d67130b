----------------------------- MODULE RotatingLog -----------------------------
(***************************************************************************)
(* The log of the wrapper, infra/log.go and infra/configure.go: a writer   *)
(* per level, each a lumberjack.Logger with the same Filename, since the   *)
(* name is made of the module and the date and not of the level.           *)
(*                                                                         *)
(* lumberjack (external, v2.2.1) opens the file at a writer's first line,  *)
(* counts what that writer wrote, and rotates: it renames the file and     *)
(* creates a new one.  A file it finds is opened with O_APPEND, one it     *)
(* creates is not: its writer keeps an offset of its own.  A writer's      *)
(* mutex keeps its calls apart, but not the calls of different writers,    *)
(* whose system calls interleave.  A rotation leaves it to a goroutine to  *)
(* compress the backups and to remove those beyond MaxBackups or MaxAge.   *)
(*                                                                         *)
(* Lines have the same length, and sizes are counted in lines.  A file is  *)
(* the number under which it was created; the files are renamed in that    *)
(* order, which is taken for the order of the times in the backups' names. *)
(***************************************************************************)
EXTENDS Integers, Sequences, FiniteSets

CONSTANTS
  Levels,      \* the levels InitGlobalLogger makes a writer for
  Info,        \* the one that Log takes for a level it does not know
  Unknown,     \* such a level
  Settings,    \* what logging.max_size may be, 0 where it is left out
  DefaultSize, \* 100 in the code
  MaxBackups,  \* logging.max_backups, or the default for one that is not positive
  MaxLines,    \* bound: lines logged at a level
  MaxRestarts  \* bound: how often the wrapper is started again

ASSUME LogAssumption ==
  /\ IsFiniteSet(Levels) /\ Info \in Levels /\ Unknown \notin Levels
  /\ Settings \subseteq Int /\ {DefaultSize, MaxBackups} \subseteq Nat \ {0}
  /\ MaxLines \in Nat /\ MaxRestarts \in Nat

NoFile == 0
AtEnd == MaxLines + 1   \* for an offset: the end of the file, O_APPEND

VARIABLES
  MaxSize,   \* the size at which a writer rotates
  name,      \* the file under Filename, or NoFile
  data,      \* what the files hold: sequences of lines <<level, number>>
  archived,  \* backups whose file is gone: they were compressed, or removed
  removed,   \* backups that were removed, compressed or not, ...
  aged,      \* ... those of them for max_age
  file,      \* the file a writer has open
  off,       \* its offset
  size,      \* lumberjack's count of the file's size
  pc,        \* where a writer is in Write
  logged,    \* the lines of a level that Log was called with
  restarts,
  users      \* the writers that had to do with a file

backups    == <<archived, removed, aged>>
fileVars   == <<name, data, backups>>
writerVars == <<file, off, size>>
vars == <<MaxSize, fileVars, writerVars, pc, logged, restarts, users>>

Files == DOMAIN data
GoTo(l, where) == pc' = [pc EXCEPT ![l] = where]
Uses(l, f) == users' = [users EXCEPT ![f] = @ \cup {l}]

Hole == <<Unknown, 0>>
Larger(m, n) == IF m > n THEN m ELSE n

\* The line put at an offset; a gap before it reads as zeros.
PutAt(s, n, line) ==
  [i \in 1 .. Larger(n + 1, Len(s)) |->
     IF i = n + 1 THEN line ELSE IF i <= Len(s) THEN s[i] ELSE Hole]

-----------------------------------------------------------------------------
(* Log, and lumberjack's Write                                             *)

\* LoadRuntimeConfig fills in a max_size that is left out, InitGlobalLogger one
\* that is not positive.
InitGlobalLoggerPlain(n) == n                                       \* mutant
LoadRuntimeConfig(n) == IF n = 0 THEN DefaultSize ELSE n
InitGlobalLogger(n) == IF n <= 0 THEN DefaultSize ELSE n

\* logFiles[level], or logFiles["info"].
WriterOf(level) == IF level \in Levels THEN level ELSE Info

\* logger.Printf: a line that is longer than the limit is refused, and dropped;
\* a writer with no file opens one, a full one rotates, which closes its file.
LogNoLimit(level) ==                                                \* mutant
  LET l == WriterOf(level) IN
  /\ pc[l] = "idle" /\ logged[l] < MaxLines
  /\ logged' = [logged EXCEPT ![l] = @ + 1]
  /\ GoTo(l, IF file[l] = NoFile THEN "open" ELSE "write")
  /\ UNCHANGED <<MaxSize, fileVars, writerVars, restarts, users>>
Log(level) ==
  LET l == WriterOf(level)  full == size[l] + 1 > MaxSize IN
  /\ pc[l] = "idle" /\ logged[l] < MaxLines
  /\ logged' = [logged EXCEPT ![l] = @ + 1]
  /\ GoTo(l, IF 1 > MaxSize THEN "idle" ELSE IF file[l] = NoFile THEN "open"
             ELSE IF full THEN "stat" ELSE "write")
  /\ file' = [file EXCEPT ![l] = IF full THEN NoFile ELSE @]
  /\ UNCHANGED <<MaxSize, fileVars, off, size, restarts, users>>

\* openExistingOrNew looks at the file: there is none, it would be full, or it
\* is to be appended to.
StatAlwaysNew(l) ==                                                 \* mutant
  /\ pc[l] = "open"
  /\ GoTo(l, "stat")
  /\ UNCHANGED <<MaxSize, fileVars, writerVars, logged, restarts, users>>
StatExisting(l) ==
  /\ pc[l] = "open"
  /\ IF name # NoFile /\ Len(data[name]) + 1 < MaxSize
       THEN /\ size' = [size EXCEPT ![l] = Len(data[name])]
            /\ GoTo(l, "append")
       ELSE GoTo(l, "stat") /\ UNCHANGED size
  /\ UNCHANGED <<MaxSize, fileVars, file, off, logged, restarts, users>>

\* It opens it, unless it is gone by now.
OpenExistingAtStart(l) ==                                           \* mutant
  /\ pc[l] = "append" /\ name # NoFile
  /\ file' = [file EXCEPT ![l] = name]
  /\ off' = [off EXCEPT ![l] = 0]
  /\ GoTo(l, "write") /\ Uses(l, name)
  /\ UNCHANGED <<MaxSize, fileVars, size, logged, restarts>>
OpenExisting(l) ==
  /\ pc[l] = "append"
  /\ IF name # NoFile
       THEN /\ file' = [file EXCEPT ![l] = name]
            /\ off' = [off EXCEPT ![l] = AtEnd]
            /\ GoTo(l, "write") /\ Uses(l, name)
       ELSE GoTo(l, "stat") /\ UNCHANGED <<file, off, users>>
  /\ UNCHANGED <<MaxSize, fileVars, size, logged, restarts>>

\* openNew looks whether there is a file to be renamed.
StatNew(l) ==
  /\ pc[l] = "stat"
  /\ IF name # NoFile THEN GoTo(l, "rename") /\ Uses(l, name)
                      ELSE GoTo(l, "create") /\ UNCHANGED users
  /\ UNCHANGED <<MaxSize, fileVars, writerVars, logged, restarts>>

\* It becomes a backup.
Rename(l) ==
  /\ pc[l] = "rename" /\ name # NoFile
  /\ name' = NoFile
  /\ GoTo(l, "create") /\ Uses(l, name)
  /\ UNCHANGED <<MaxSize, data, backups, writerVars, logged, restarts>>

\* It is gone: Write returns the error, log.Logger drops it, and the line.
RenameFails(l) ==
  /\ pc[l] = "rename" /\ name = NoFile
  /\ GoTo(l, "idle")
  /\ UNCHANGED <<MaxSize, fileVars, writerVars, logged, restarts, users>>

\* O_CREATE and O_TRUNC: one that another writer just made is emptied.
Create(l) ==
  /\ pc[l] = "create"
  /\ IF name = NoFile
       THEN /\ data' = data \o << <<>> >> /\ name' = Len(data) + 1
            /\ users' = users \o << {l} >>
       ELSE /\ data' = [data EXCEPT ![name] = <<>>] /\ UNCHANGED name
            /\ Uses(l, name)
  /\ file' = [file EXCEPT ![l] = name']
  /\ off'  = [off EXCEPT ![l] = 0]
  /\ size' = [size EXCEPT ![l] = 0]
  /\ GoTo(l, "write")
  /\ UNCHANGED <<MaxSize, backups, logged, restarts>>

\* A file that was removed has no reader.
Write(l) ==
  LET f == file[l]  line == <<l, logged[l]>> IN
  /\ pc[l] = "write"
  /\ data' = IF f \in archived THEN data ELSE
       [data EXCEPT ![f] = PutAt(@, IF off[l] = AtEnd THEN Len(@) ELSE off[l], line)]
  /\ off'  = [off EXCEPT ![l] = IF @ = AtEnd THEN @ ELSE @ + 1]
  /\ size' = [size EXCEPT ![l] = @ + 1]
  /\ GoTo(l, "idle")
  /\ UNCHANGED <<MaxSize, name, backups, file, logged, restarts, users>>

-----------------------------------------------------------------------------
(* The goroutine of a rotation                                             *)

Backups == Files \ (removed \cup {name})
NewerThan(f) == {g \in Backups : g > f}

\* It compresses a backup and removes the file itself, ...
Compress(f) ==
  /\ f \in Files \ (archived \cup {name})
  /\ archived' = archived \cup {f}
  /\ UNCHANGED <<MaxSize, name, data, removed, aged, writerVars, pc, logged, restarts, users>>

\* ... removes one when there are MaxBackups newer ones, compressed or not, ...
RemoveOneMore(f) ==                                                 \* mutant
  /\ f \in Backups /\ Cardinality(NewerThan(f)) + 1 >= MaxBackups
  /\ archived' = archived \cup {f} /\ removed' = removed \cup {f}
  /\ UNCHANGED <<MaxSize, name, data, aged, writerVars, pc, logged, restarts, users>>
Remove(f) ==
  /\ f \in Backups /\ Cardinality(NewerThan(f)) >= MaxBackups
  /\ archived' = archived \cup {f} /\ removed' = removed \cup {f}
  /\ UNCHANGED <<MaxSize, name, data, aged, writerVars, pc, logged, restarts, users>>

\* ... and one that has become too old, with those that are older.
Expire(f) ==
  LET old == Backups \ NewerThan(f) IN
  /\ f \in Backups
  /\ archived' = archived \cup old /\ removed' = removed \cup old /\ aged' = aged \cup old
  /\ UNCHANGED <<MaxSize, name, data, writerVars, pc, logged, restarts, users>>

-----------------------------------------------------------------------------
\* The wrapper ends and is started again on the same day: InitGlobalLogger
\* makes new writers.
Restart ==
  /\ restarts < MaxRestarts
  /\ \A l \in Levels : pc[l] = "idle"
  /\ restarts' = restarts + 1
  /\ file' = [l \in Levels |-> NoFile]
  /\ off'  = [l \in Levels |-> 0]
  /\ size' = [l \in Levels |-> 0]
  /\ UNCHANGED <<MaxSize, fileVars, pc, logged, users>>

-----------------------------------------------------------------------------
\* The writers that InitGlobalLogger made have no file yet.
Init ==
  /\ \E n \in Settings : MaxSize = InitGlobalLogger(LoadRuntimeConfig(n))
  /\ name = NoFile /\ data = <<>>
  /\ archived = {} /\ removed = {} /\ aged = {}
  /\ file = [l \in Levels |-> NoFile]
  /\ off  = [l \in Levels |-> 0]
  /\ size = [l \in Levels |-> 0]
  /\ pc = [l \in Levels |-> "idle"]
  /\ logged = [l \in Levels |-> 0]
  /\ restarts = 0 /\ users = <<>>

Next ==
  \/ \E level \in Levels \cup {Unknown} : Log(level)
  \/ \E l \in Levels : \/ StatExisting(l) \/ OpenExisting(l)
                       \/ StatNew(l) \/ Rename(l) \/ RenameFails(l) \/ Create(l)
                       \/ Write(l)
  \/ \E f \in Files : Compress(f) \/ Remove(f) \/ Expire(f)
  \/ Restart

Spec == Init /\ [][Next]_vars

-----------------------------------------------------------------------------
(* Properties                                                              *)

Lines(f) == {data[f][i] : i \in DOMAIN data[f]}
Finished(l) == {l} \X (1 .. IF pc[l] = "idle" THEN logged[l] ELSE logged[l] - 1)

\* Every variable has its type.
TypeOK ==
  /\ MaxSize \in Settings \cup {DefaultSize} /\ MaxSize > 0
  /\ name \in Files \cup {NoFile}
  /\ data \in Seq(Seq((Levels \X (1 .. MaxLines)) \cup {Hole}))
  /\ archived \in SUBSET Files /\ removed \in SUBSET archived /\ aged \in SUBSET removed
  /\ file \in [Levels -> Files \cup {NoFile}]
  /\ off \in [Levels -> 0 .. AtEnd] /\ size \in [Levels -> 0 .. MaxSize]
  /\ pc \in [Levels -> {"idle", "open", "append", "stat", "rename", "create", "write"}]
  /\ logged \in [Levels -> 0 .. MaxLines] /\ restarts \in 0 .. MaxRestarts
  /\ users \in [Files -> SUBSET Levels]

\* A line is lost to another level, or with a backup that is too old or has
\* MaxBackups newer ones, and else never: a level whose files no other writer
\* opened, renamed or created has every line in a file or in such a backup.
OwnFilesKeepAll ==
  \A l \in Levels :
    (\A f \in Files : l \in users[f] => users[f] = {l}) =>
      \A line \in Finished(l) : \E f \in Files :
        /\ line \in Lines(f)
        /\ f \in removed \ aged => Cardinality({g \in Files \ {name} : g > f}) >= MaxBackups

\* What max_backups is worth: with one writer at work and no backup too old, its
\* last lines, as many as MaxBackups files hold (of which a restart may close
\* each a line short), are there.
LatestKept ==
  \A l \in Levels :
    aged = {} /\ (\A f \in Files : users[f] = {l}) =>
      \A line \in Finished(l) :
        Cardinality(Finished(l)) - line[2] < MaxBackups * (MaxSize - 1) =>
          \E f \in Files \ removed : line \in Lines(f)

\* Each writer counts only what it wrote itself since it opened the file, so a
\* file has max_size for each level, and no more than that.
SizeBound == \A f \in Files : Len(data[f]) <= MaxSize * Cardinality(Levels)

\* What is kept of a level is in the order it was logged, from file to file and
\* within each.
LevelInOrder ==
  \A f, g \in Files : \A i \in DOMAIN data[f] : \A j \in DOMAIN data[g] :
    LET p == data[f][i]  q == data[g][j] IN
    p[1] \in Levels /\ p[1] = q[1] /\ p[2] < q[2] => f < g \/ (f = g /\ i < j)
=============================================================================
