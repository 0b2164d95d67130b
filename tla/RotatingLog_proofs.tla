-------------------------- MODULE RotatingLog_proofs --------------------------
(***************************************************************************)
(* Proofs about RotatingLog, for any levels, sizes, lines and restarts.    *)
(***************************************************************************)
EXTENDS RotatingLog, SequenceTheorems, FiniteSetTheorems, TLAPS

USE DEF backups

\* What a file may hold at a place.
Cell == (Levels \X (1 .. MaxLines)) \cup {Hole}

\* The file under Filename is the youngest, and not yet compressed.
FilesTyped ==
  /\ MaxSize \in Settings \cup {DefaultSize} /\ MaxSize \in Nat \ {0}
  /\ data \in Seq(Seq(Cell)) /\ users \in Seq(SUBSET Levels) /\ Len(users) = Len(data)
  /\ name \in {NoFile, Len(data)}
  /\ archived \subseteq 1 .. Len(data) /\ (name # NoFile => name \notin archived)
  /\ removed \subseteq archived /\ aged \subseteq removed
  /\ restarts \in 0 .. MaxRestarts

WritersTyped ==
  /\ file \in [Levels -> 0 .. Len(data)]
  /\ off \in [Levels -> 0 .. AtEnd] /\ size \in [Levels -> 0 .. MaxSize]
  /\ pc \in [Levels -> {"idle", "open", "append", "stat", "rename", "create", "write"}]
  /\ logged \in [Levels -> 0 .. MaxLines]

\* A writer that opens or rotates has no file; one that has a file is among its
\* users.  An offset is no more than the lines that were written.
Holds(l) ==
  /\ pc[l] \in {"open", "append", "stat", "rename", "create"} => file[l] = NoFile
  /\ pc[l] = "write" => file[l] # NoFile
  /\ pc[l] \in {"append", "write"} => size[l] < MaxSize
  /\ pc[l] # "idle" => logged[l] >= 1
  /\ off[l] # AtEnd => off[l] <= IF pc[l] = "write" THEN logged[l] - 1 ELSE logged[l]
  /\ file[l] # NoFile => l \in users[file[l]]

Typed == FilesTyped /\ WritersTyped /\ \A l \in Levels : Holds(l)

-----------------------------------------------------------------------------
(* What the steps do to the files                                          *)

\* The constants, unfolded once.
LEMMA ConstantsTyped ==
  /\ IsFiniteSet(Levels) /\ Info \in Levels /\ Unknown \notin Levels
  /\ Settings \subseteq Int /\ DefaultSize \in Nat \ {0} /\ MaxBackups \in Nat \ {0}
  /\ MaxLines \in Nat /\ MaxRestarts \in Nat /\ NoFile = 0 /\ AtEnd = MaxLines + 1
BY LogAssumption DEF LogAssumption, NoFile, AtEnd

\* A line goes to its place and leaves the others; what is between is a hole.
LEMMA Put ==
  ASSUME NEW s \in Seq(Cell), NEW n \in Nat, NEW line \in Cell
  PROVE  /\ PutAt(s, n, line) \in Seq(Cell)
         /\ Len(PutAt(s, n, line)) = Larger(n + 1, Len(s))
         /\ \A i \in 1 .. Len(PutAt(s, n, line)) :
              PutAt(s, n, line)[i] =
                IF i = n + 1 THEN line ELSE IF i <= Len(s) THEN s[i] ELSE Hole
<1> DEFINE e(i) == IF i = n + 1 THEN line ELSE IF i <= Len(s) THEN s[i] ELSE Hole
           m == Larger(n + 1, Len(s))
<1>1. Len(s) \in Nat /\ m \in Nat
  BY DEF Larger
<1>2. \A i \in 1 .. m : e(i) \in Cell
  BY <1>1, ElementOfSeq DEF Cell
<1>3. [i \in 1 .. m |-> e(i)] \in Seq(Cell)
  BY <1>1, <1>2 DEF Cell
<1> QED BY <1>1, <1>3 DEF PutAt

\* One more at the end leaves what was there.
LEMMA Joined ==
  ASSUME NEW S, NEW s \in Seq(S), NEW x \in S
  PROVE  /\ s \o <<x>> \in Seq(S) /\ Len(s \o <<x>>) = Len(s) + 1
         /\ (s \o <<x>>)[Len(s) + 1] = x
         /\ \A i \in 1 .. Len(s) : (s \o <<x>>)[i] = s[i]
<1> DEFINE t == <<x>>
<1>1. t \in Seq(S) /\ Len(t) = 1 /\ t[1] = x
  OBVIOUS
<1> HIDE DEF t
<1>2. /\ s \o t \in Seq(S) /\ Len(s \o t) = Len(s) + Len(t)
      /\ \A i \in 1 .. Len(s) + Len(t) : (s \o t)[i] = IF i <= Len(s) THEN s[i] ELSE t[i - Len(s)]
  BY <1>1, ConcatProperties
<1>3. Len(s) \in Nat /\ Len(s) + 1 \in 1 .. Len(s) + 1 /\ (Len(s) + 1) - Len(s) = 1
  BY LenProperties
<1>4. /\ s \o t \in Seq(S) /\ Len(s \o t) = Len(s) + 1
      /\ (s \o t)[Len(s) + 1] = x
      /\ \A i \in 1 .. Len(s) : (s \o t)[i] = s[i]
  BY <1>1, <1>2, <1>3
<1> QED BY <1>4 DEF t

\* Where a writer's line goes.
Place(l) == IF off[l] = AtEnd THEN Len(data[file[l]]) ELSE off[l]

\* Write puts the line into the writer's file, unless that was removed.
LEMMA WriteData ==
  ASSUME Typed, NEW l \in Levels, Write(l)
  PROVE  /\ file[l] \in Files /\ Place(l) \in Nat /\ <<l, logged[l]>> \in Cell
         /\ data' \in Seq(Seq(Cell)) /\ Len(data') = Len(data)
         /\ \A g \in Files : g # file[l] => data'[g] = data[g]
         /\ file[l] \in archived => data' = data
         /\ file[l] \notin archived =>
              /\ Len(data'[file[l]]) = Larger(Place(l) + 1, Len(data[file[l]]))
              /\ \A i \in 1 .. Len(data'[file[l]]) :
                   data'[file[l]][i] =
                     IF i = Place(l) + 1 THEN <<l, logged[l]>>
                     ELSE IF i <= Len(data[file[l]]) THEN data[file[l]][i] ELSE Hole
<1> DEFINE f == file[l]
           line == <<l, logged[l]>>
           new == PutAt(data[f], Place(l), line)
<1>1. f \in 1 .. Len(data) /\ Files = 1 .. Len(data)
  <2>1. Files = 1 .. Len(data) /\ Len(data) \in Nat
    BY LenProperties DEF Typed, FilesTyped, Files
  <2>2. f \in 0 .. Len(data) /\ f # 0
    BY ConstantsTyped DEF Typed, WritersTyped, Holds, Write
  <2> QED BY <2>1, <2>2
<1>2. data[f] \in Seq(Cell)
  BY <1>1, ElementOfSeq DEF Typed, FilesTyped
<1>3. Place(l) \in Nat /\ line \in Cell
  <2>1. Len(data[f]) \in Nat
    BY <1>2, LenProperties
  <2>2. off[l] \in 0 .. AtEnd /\ logged[l] \in 1 .. MaxLines
    BY ConstantsTyped DEF Typed, WritersTyped, Holds, Write
  <2> QED BY <2>1, <2>2, ConstantsTyped DEF Place, Cell
<1> HIDE DEF f, line
<1>4. /\ new \in Seq(Cell) /\ Len(new) = Larger(Place(l) + 1, Len(data[f]))
      /\ \A i \in 1 .. Len(new) :
           new[i] = IF i = Place(l) + 1 THEN line
                    ELSE IF i <= Len(data[f]) THEN data[f][i] ELSE Hole
  <2> DEFINE n == Place(l)  s == data[f]
  <2>1. s \in Seq(Cell) /\ n \in Nat /\ line \in Cell
    BY <1>2, <1>3
  <2> HIDE DEF s, n
  <2>2. /\ PutAt(s, n, line) \in Seq(Cell)
        /\ Len(PutAt(s, n, line)) = Larger(n + 1, Len(s))
        /\ \A i \in 1 .. Len(PutAt(s, n, line)) :
             PutAt(s, n, line)[i] = IF i = n + 1 THEN line ELSE IF i <= Len(s) THEN s[i] ELSE Hole
    BY <2>1, Put
  <2> QED BY <2>2 DEF s, n
<1>5. data' = IF f \in archived THEN data ELSE [data EXCEPT ![f] = new]
  BY DEF Write, Place, f, line
<1>6. data \in Seq(Seq(Cell))
  BY DEF Typed, FilesTyped
<1> USE DEF f, line
<1> HIDE DEF new
<1>7. /\ [data EXCEPT ![f] = new] \in Seq(Seq(Cell))
      /\ Len([data EXCEPT ![f] = new]) = Len(data)
      /\ \A j \in 1 .. Len(data) : [data EXCEPT ![f] = new][j] = IF j = f THEN new ELSE data[j]
  BY <1>1, <1>4, <1>6, ExceptSeq
<1> QED BY <1>1, <1>3, <1>4, <1>5, <1>6, <1>7

\* Create leaves the writer with the youngest file, and that empty.
LEMMA CreateData ==
  ASSUME Typed, NEW l \in Levels, Create(l)
  PROVE  LET f == Len(data') IN
         /\ f = IF name = NoFile THEN Len(data) + 1 ELSE Len(data)
         /\ f # NoFile /\ name' = f /\ file' = [file EXCEPT ![l] = f]
         /\ data' \in Seq(Seq(Cell)) /\ data'[f] = <<>>
         /\ \A g \in Files : g # f => data'[g] = data[g] /\ users'[g] = users[g]
         /\ users' \in Seq(SUBSET Levels) /\ Len(users') = f
         /\ users'[f] = IF name = NoFile THEN {l} ELSE users[f] \cup {l}
<1> DEFINE U == SUBSET Levels
<1>1. /\ data \in Seq(Seq(Cell)) /\ users \in Seq(SUBSET Levels)
      /\ Len(users) = Len(data) /\ Len(data) \in Nat
      /\ Files = 1 .. Len(data) /\ name \in {0, Len(data)} /\ NoFile = 0
  BY ConstantsTyped DEF Typed, FilesTyped, Files
<1>4. file' = [file EXCEPT ![l] = name']
  BY DEF Create
<1>2. CASE name = NoFile
  <2>1. data' = data \o << <<>> >> /\ name' = Len(data) + 1 /\ users' = users \o << {l} >>
    BY <1>2 DEF Create
  <2>2. <<>> \in Seq(Cell) /\ {l} \in SUBSET Levels
    BY EmptySeq
  <2>3. /\ data' \in Seq(Seq(Cell)) /\ Len(data') = Len(data) + 1
        /\ data'[Len(data) + 1] = <<>> /\ \A i \in 1 .. Len(data) : data'[i] = data[i]
    BY <1>1, <2>1, <2>2, Joined
  <2>4. /\ users' \in Seq(SUBSET Levels) /\ Len(users') = Len(users) + 1
        /\ users'[Len(users) + 1] = {l} /\ \A i \in 1 .. Len(users) : users'[i] = users[i]
    <3> DEFINE x == {l}
    <3>1. users \in Seq(U) /\ x \in U /\ users' = users \o <<x>>
      BY <1>1, <2>1
    <3> HIDE DEF U, x
    <3>2. /\ users' \in Seq(U) /\ Len(users') = Len(users) + 1
          /\ users'[Len(users) + 1] = x /\ \A i \in 1 .. Len(users) : users'[i] = users[i]
      BY <3>1, Joined
    <3> QED BY <3>2 DEF U, x
  <2>5. /\ Len(data') = Len(data) + 1 /\ Len(users') = Len(data')
        /\ name' = Len(data') /\ file' = [file EXCEPT ![l] = Len(data')]
        /\ Len(data') # NoFile
    BY <1>1, <1>4, <2>1, <2>3, <2>4
  <2>6. \A g \in Files : data'[g] = data[g] /\ users'[g] = users[g]
    BY <1>1, <2>3, <2>4
  <2>7. data'[Len(data')] = <<>> /\ users'[Len(data')] = {l}
    BY <1>1, <2>3, <2>4
  <2> QED BY <1>2, <2>3, <2>4, <2>5, <2>6, <2>7
<1>3. CASE name # NoFile
  <2>1. /\ data' = [data EXCEPT ![name] = <<>>] /\ name' = name
        /\ users' = [users EXCEPT ![name] = @ \cup {l}]
    BY <1>3 DEF Create, Uses
  <2>2. name \in 1 .. Len(data) /\ name = Len(data)
    BY <1>1, <1>3
  <2>3. <<>> \in Seq(Cell) /\ users[name] \cup {l} \in SUBSET Levels
    BY <1>1, <2>2, ElementOfSeq, EmptySeq
  <2>4. /\ data' \in Seq(Seq(Cell)) /\ Len(data') = Len(data)
        /\ \A j \in 1 .. Len(data) : data'[j] = IF j = name THEN <<>> ELSE data[j]
    BY <1>1, <2>1, <2>2, <2>3, ExceptSeq
  <2>5. /\ users' \in Seq(SUBSET Levels) /\ Len(users') = Len(users)
        /\ \A j \in 1 .. Len(users) : users'[j] = IF j = name THEN users[name] \cup {l} ELSE users[j]
    BY <1>1, <2>1, <2>2, <2>3, ExceptSeq
  <2> QED BY <1>1, <1>3, <1>4, <2>1, <2>2, <2>4, <2>5
<1> QED BY <1>2, <1>3

\* A user more, of one file.
LEMMA UsesMore ==
  ASSUME Typed, NEW l \in Levels, NEW f \in 1 .. Len(data), Uses(l, f)
  PROVE  /\ users' \in Seq(SUBSET Levels) /\ Len(users') = Len(users)
         /\ \A g \in 1 .. Len(data) : users'[g] = IF g = f THEN users[f] \cup {l} ELSE users[g]
<1> DEFINE U == SUBSET Levels  x == users[f] \cup {l}
<1>1. users \in Seq(U) /\ Len(users) = Len(data) /\ f \in 1 .. Len(users)
  BY DEF Typed, FilesTyped
<1>2. x \in U
  BY <1>1, ElementOfSeq
<1>3. users' = [users EXCEPT ![f] = x]
  BY DEF Uses
<1> HIDE DEF U, x
<1>4. /\ users' \in Seq(U) /\ Len(users') = Len(users)
      /\ \A g \in 1 .. Len(users) : users'[g] = IF g = f THEN x ELSE users[g]
  BY <1>1, <1>2, <1>3, ExceptSeq
<1> QED BY <1>1, <1>4 DEF U, x

-----------------------------------------------------------------------------
(* Types                                                                   *)

\* max_size is positive once both defaults were applied.
LEMMA TypedInit == Init => Typed
<1> SUFFICES ASSUME Init PROVE Typed
  OBVIOUS
<1>1. MaxSize \in Settings \cup {DefaultSize} /\ MaxSize \in Nat \ {0}
  BY ConstantsTyped DEF Init, InitGlobalLogger, LoadRuntimeConfig
<1>2. <<>> \in Seq(Seq(Cell)) /\ <<>> \in Seq(SUBSET Levels) /\ Len(<<>>) = 0
  BY EmptySeq
<1> QED BY <1>1, <1>2, ConstantsTyped DEF Init, Typed, FilesTyped, WritersTyped, Holds

\* A step of a writer leaves the others as they are.
LEMMA OthersHold ==
  ASSUME Typed, NEW l \in Levels, UNCHANGED MaxSize,
         \A v \in Levels \ {l} :
           UNCHANGED <<file[v], off[v], size[v], logged[v], pc[v]>>,
         \A g \in Files : \A v \in Levels \ {l} : v \in users[g] => v \in users'[g],
         Holds(l)'
  PROVE  \A v \in Levels : Holds(v)'
<1> SUFFICES ASSUME NEW v \in Levels \ {l} PROVE Holds(v)'
  OBVIOUS
<1>1. Files = 1 .. Len(data) /\ Len(data) \in Nat /\ NoFile = 0
  BY LenProperties, ConstantsTyped DEF Typed, FilesTyped, Files
<1>2. file[v] \in 0 .. Len(data) /\ Holds(v)
  BY DEF Typed, WritersTyped
<1>3. file[v] # NoFile => file[v] \in Files /\ v \in users[file[v]]
  BY <1>1, <1>2 DEF Holds
<1> QED BY <1>2, <1>3 DEF Holds

\* Every variable keeps its type, and every writer what Holds says of it.
LEMMA TypedNext == Typed /\ [Next]_vars => Typed'
<1> SUFFICES ASSUME Typed, [Next]_vars PROVE Typed'
  OBVIOUS
<1> DEFINE Pcs == {"idle", "open", "append", "stat", "rename", "create", "write"}
<1>0. /\ Len(data) \in Nat /\ Files = 1 .. Len(data) /\ NoFile = 0 /\ AtEnd = MaxLines + 1
      /\ \A f \in Files : Len(data[f]) \in Nat
      /\ MaxSize \in Nat \ {0} /\ name \in {0, Len(data)} /\ MaxLines \in Nat
  BY LenProperties, ElementOfSeq, ConstantsTyped DEF Typed, FilesTyped, Files
<1>a. /\ file \in [Levels -> 0 .. Len(data)]
      /\ off \in [Levels -> 0 .. AtEnd] /\ size \in [Levels -> 0 .. MaxSize]
      /\ pc \in [Levels -> Pcs] /\ logged \in [Levels -> 0 .. MaxLines]
      /\ \A l \in Levels : Holds(l)
  BY DEF Typed, WritersTyped
<1> DEFINE Whole == WritersTyped' /\ \A v \in Levels : Holds(v)'
<1>1. ASSUME NEW level \in Levels \cup {Unknown}, Log(level) PROVE Typed'
  <2> DEFINE l == WriterOf(level)  full == size[l] + 1 > MaxSize
             c == IF file[l] = NoFile THEN "open" ELSE IF full THEN "stat" ELSE "write"
             f == IF full THEN NoFile ELSE file[l]
  <2>1. l \in Levels
    BY ConstantsTyped DEF WriterOf
  <2>2. /\ pc[l] = "idle" /\ logged[l] < MaxLines
        /\ logged' = [logged EXCEPT ![l] = logged[l] + 1]
        /\ pc' = [pc EXCEPT ![l] = c] /\ file' = [file EXCEPT ![l] = f]
        /\ UNCHANGED <<MaxSize, name, data, archived, removed, aged, off, size, restarts, users>>
    <3>1. pc' = [pc EXCEPT ![l] = IF 1 > MaxSize THEN "idle" ELSE c]
      BY <1>1 DEF Log, GoTo
    <3>2. ~(1 > MaxSize)
      BY <1>0
    <3> QED BY <1>1, <3>1, <3>2 DEF Log, fileVars
  <2>3. FilesTyped'
    BY <2>2 DEF Typed, FilesTyped
  <2> HIDE DEF l
  <2>4. Whole
    <3>a. WritersTyped'
      BY <1>0, <1>a, <2>1, <2>2 DEF WritersTyped, Holds
    <3>b. Holds(l)'
      BY <1>0, <1>a, <2>1, <2>2, <3>a DEF Holds
    <3>c. \A v \in Levels \ {l} : UNCHANGED <<file[v], off[v], size[v], logged[v], pc[v]>>
      BY <1>0, <1>a, <2>1, <2>2
    <3> QED BY <1>0, <1>a, <2>1, <2>2, <3>a, <3>b, <3>c, OthersHold
  <2> QED BY <2>3, <2>4 DEF Typed
<1>2. ASSUME NEW l \in Levels, StatExisting(l) PROVE Typed'
  <2>1. FilesTyped'
    BY <1>2 DEF StatExisting, fileVars, Typed, FilesTyped
  <2>2. CASE name # NoFile /\ Len(data[name]) + 1 < MaxSize
    <3>1. /\ size' = [size EXCEPT ![l] = Len(data[name])] /\ pc' = [pc EXCEPT ![l] = "append"]
          /\ pc[l] = "open"
          /\ UNCHANGED <<MaxSize, data, file, off, logged, users>>
      BY <1>2, <2>2 DEF StatExisting, GoTo, fileVars
    <3>2. Len(data[name]) \in 0 .. MaxSize /\ Len(data[name]) < MaxSize
      BY <1>0, <2>2
    <3>3. Whole
      <4>a. WritersTyped'
        BY <1>0, <1>a, <3>1, <3>2 DEF WritersTyped, Holds
      <4>b. Holds(l)'
        BY <1>0, <1>a, <3>1, <3>2, <4>a DEF Holds
      <4>c. \A v \in Levels \ {l} : UNCHANGED <<file[v], off[v], size[v], logged[v], pc[v]>>
        BY <1>0, <1>a, <3>1, <3>2
      <4> QED BY <1>0, <1>a, <3>1, <3>2, <4>a, <4>b, <4>c, OthersHold
    <3> QED BY <2>1, <3>3 DEF Typed
  <2>3. CASE ~(name # NoFile /\ Len(data[name]) + 1 < MaxSize)
    <3>1. /\ pc' = [pc EXCEPT ![l] = "stat"] /\ pc[l] = "open"
          /\ UNCHANGED <<MaxSize, data, file, off, size, logged, users>>
      BY <1>2, <2>3 DEF StatExisting, GoTo, fileVars
    <3>2. Whole
      <4>a. WritersTyped'
        BY <1>0, <1>a, <3>1 DEF WritersTyped, Holds
      <4>b. Holds(l)'
        BY <1>0, <1>a, <3>1, <4>a DEF Holds
      <4>c. \A v \in Levels \ {l} : UNCHANGED <<file[v], off[v], size[v], logged[v], pc[v]>>
        BY <1>0, <1>a, <3>1
      <4> QED BY <1>0, <1>a, <3>1, <4>a, <4>b, <4>c, OthersHold
    <3> QED BY <2>1, <3>2 DEF Typed
  <2> QED BY <2>2, <2>3
<1>3. ASSUME NEW l \in Levels, OpenExisting(l), name # NoFile PROVE Typed'
  <2>1. /\ Uses(l, name) /\ pc[l] = "append"
        /\ file' = [file EXCEPT ![l] = name] /\ off' = [off EXCEPT ![l] = AtEnd]
        /\ pc' = [pc EXCEPT ![l] = "write"]
        /\ UNCHANGED <<MaxSize, name, data, archived, removed, aged, size, logged, restarts>>
    BY <1>3 DEF OpenExisting, GoTo, fileVars
  <2>2. name \in 1 .. Len(data)
    BY <1>0, <1>3
  <2>3. /\ users' \in Seq(SUBSET Levels) /\ Len(users') = Len(users)
        /\ \A g \in 1 .. Len(data) : users'[g] = IF g = name THEN users[name] \cup {l} ELSE users[g]
    BY <2>1, <2>2, UsesMore
  <2>4. FilesTyped'
    BY <2>1, <2>3 DEF Typed, FilesTyped
  <2>5. l \in users'[name] /\ \A g \in Files : \A v \in Levels : v \in users[g] => v \in users'[g]
    BY <1>0, <2>2, <2>3
  <2>6. Whole
    <3>a. WritersTyped'
      BY <1>0, <1>a, <2>1, <2>2, <2>5 DEF WritersTyped, Holds
    <3>b. Holds(l)'
      BY <1>0, <1>a, <2>1, <2>2, <2>5, <3>a DEF Holds
    <3>c. \A v \in Levels \ {l} : UNCHANGED <<file[v], off[v], size[v], logged[v], pc[v]>>
      BY <1>0, <1>a, <2>1, <2>2, <2>5
    <3> QED BY <1>0, <1>a, <2>1, <2>2, <2>5, <3>a, <3>b, <3>c, OthersHold
  <2> QED BY <2>4, <2>6 DEF Typed
<1>4. ASSUME NEW l \in Levels, StatNew(l) \/ Rename(l), name # NoFile PROVE Typed'
  <2>1. /\ Uses(l, name) /\ pc[l] \in {"stat", "rename"} /\ name' \in {NoFile, name}
        /\ \E c \in {"rename", "create"} : pc' = [pc EXCEPT ![l] = c]
        /\ UNCHANGED <<MaxSize, data, archived, removed, aged, file, off, size, logged, restarts>>
    BY <1>4 DEF StatNew, Rename, GoTo, fileVars, writerVars
  <2>2. name \in 1 .. Len(data)
    BY <1>0, <1>4
  <2>3. /\ users' \in Seq(SUBSET Levels) /\ Len(users') = Len(users)
        /\ \A g \in 1 .. Len(data) : users'[g] = IF g = name THEN users[name] \cup {l} ELSE users[g]
    BY <2>1, <2>2, UsesMore
  <2>4. FilesTyped'
    BY <2>1, <2>3 DEF Typed, FilesTyped
  <2>5. \A g \in Files : \A v \in Levels : v \in users[g] => v \in users'[g]
    BY <1>0, <2>2, <2>3
  <2>6. PICK c \in {"rename", "create"} : pc' = [pc EXCEPT ![l] = c]
    BY <2>1
  <2>7. file[l] = NoFile /\ logged[l] >= 1 /\ (off[l] # AtEnd => off[l] <= logged[l])
    BY <1>a, <2>1 DEF Holds
  <2>8. Whole
    <3>a. WritersTyped'
      BY <1>0, <1>a, <2>1, <2>5, <2>6, <2>7 DEF WritersTyped, Holds
    <3>b. Holds(l)'
      BY <1>0, <1>a, <2>1, <2>5, <2>6, <2>7, <3>a DEF Holds
    <3>c. \A v \in Levels \ {l} : UNCHANGED <<file[v], off[v], size[v], logged[v], pc[v]>>
      BY <1>0, <1>a, <2>1, <2>5, <2>6, <2>7
    <3> QED BY <1>0, <1>a, <2>1, <2>5, <2>6, <2>7, <3>a, <3>b, <3>c, OthersHold
  <2> QED BY <2>4, <2>8 DEF Typed
<1>5. ASSUME NEW l \in Levels,
             RenameFails(l) \/ ((OpenExisting(l) \/ StatNew(l)) /\ name = NoFile)
      PROVE  Typed'
  <2>1. /\ pc[l] \in {"rename", "append", "stat"}
        /\ \E c \in {"idle", "stat", "create"} : pc' = [pc EXCEPT ![l] = c]
        /\ UNCHANGED <<MaxSize, name, data, archived, removed, aged, file, off, size, logged, restarts, users>>
    BY <1>5 DEF RenameFails, OpenExisting, StatNew, GoTo, fileVars, writerVars
  <2>2. FilesTyped'
    BY <2>1 DEF Typed, FilesTyped
  <2>3. PICK c \in {"idle", "stat", "create"} : pc' = [pc EXCEPT ![l] = c]
    BY <2>1
  <2>4. file[l] = NoFile /\ logged[l] >= 1 /\ (off[l] # AtEnd => off[l] <= logged[l])
    BY <1>a, <2>1 DEF Holds
  <2>5. Whole
    <3>a. WritersTyped'
      BY <1>0, <1>a, <2>1, <2>3, <2>4 DEF WritersTyped, Holds
    <3>b. Holds(l)'
      BY <1>0, <1>a, <2>1, <2>3, <2>4, <3>a DEF Holds
    <3>c. \A v \in Levels \ {l} : UNCHANGED <<file[v], off[v], size[v], logged[v], pc[v]>>
      BY <1>0, <1>a, <2>1, <2>3, <2>4
    <3> QED BY <1>0, <1>a, <2>1, <2>3, <2>4, <3>a, <3>b, <3>c, OthersHold
  <2> QED BY <2>2, <2>5 DEF Typed
<1>6. ASSUME NEW l \in Levels, Create(l) PROVE Typed'
  <2>1. /\ Len(data') = IF name = NoFile THEN Len(data) + 1 ELSE Len(data)
        /\ Len(data') # NoFile /\ name' = Len(data') /\ file' = [file EXCEPT ![l] = Len(data')]
        /\ data' \in Seq(Seq(Cell))
        /\ \A g \in Files : g # Len(data') => users'[g] = users[g]
        /\ users' \in Seq(SUBSET Levels) /\ Len(users') = Len(data')
        /\ users'[Len(data')] = IF name = NoFile THEN {l} ELSE users[Len(data')] \cup {l}
    BY <1>6, CreateData
  <2>2. /\ off' = [off EXCEPT ![l] = 0] /\ size' = [size EXCEPT ![l] = 0]
        /\ pc' = [pc EXCEPT ![l] = "write"] /\ pc[l] = "create"
        /\ UNCHANGED <<MaxSize, archived, removed, aged, logged, restarts>>
    BY <1>6 DEF Create, GoTo
  <2>3. FilesTyped'
    BY <1>0, <2>1, <2>2 DEF Typed, FilesTyped
  <2>4. \A g \in Files : \A v \in Levels : v \in users[g] => v \in users'[g]
    BY <1>0, <2>1
  <2>5. l \in users'[Len(data')] /\ Len(data') \in Nat /\ Len(data') >= Len(data)
    BY <1>0, <2>1
  <2>6. Whole
    <3>a. WritersTyped'
      BY <1>0, <1>a, <2>1, <2>2, <2>4, <2>5 DEF WritersTyped, Holds
    <3>b. Holds(l)'
      BY <1>0, <1>a, <2>1, <2>2, <2>4, <2>5, <3>a DEF Holds
    <3>c. \A v \in Levels \ {l} : UNCHANGED <<file[v], off[v], size[v], logged[v], pc[v]>>
      BY <1>0, <1>a, <2>1, <2>2, <2>4, <2>5
    <3> QED BY <1>0, <1>a, <2>1, <2>2, <2>4, <2>5, <3>a, <3>b, <3>c, OthersHold
  <2> QED BY <2>3, <2>6 DEF Typed
<1>7. ASSUME NEW l \in Levels, Write(l) PROVE Typed'
  <2>1. data' \in Seq(Seq(Cell)) /\ Len(data') = Len(data)
    BY <1>7, WriteData
  <2> DEFINE o == IF off[l] = AtEnd THEN off[l] ELSE off[l] + 1
  <2>2. /\ pc[l] = "write" /\ pc' = [pc EXCEPT ![l] = "idle"]
        /\ off' = [off EXCEPT ![l] = o] /\ size' = [size EXCEPT ![l] = size[l] + 1]
        /\ UNCHANGED <<MaxSize, name, archived, removed, aged, file, logged, restarts, users>>
    BY <1>7 DEF Write, GoTo
  <2>3. FilesTyped'
    BY <2>1, <2>2 DEF Typed, FilesTyped
  <2>4. /\ size[l] + 1 \in 0 .. MaxSize /\ o \in 0 .. AtEnd /\ (o # AtEnd => o <= logged[l])
        /\ file[l] # NoFile /\ l \in users[file[l]]
    BY <1>0, <1>a, <2>2 DEF Holds
  <2> HIDE DEF o
  <2>5. Whole
    <3>a. WritersTyped'
      BY <1>0, <1>a, <2>1, <2>2, <2>4 DEF WritersTyped, Holds
    <3>b. Holds(l)'
      BY <1>0, <1>a, <2>1, <2>2, <2>4, <3>a DEF Holds
    <3>c. \A v \in Levels \ {l} : UNCHANGED <<file[v], off[v], size[v], logged[v], pc[v]>>
      BY <1>0, <1>a, <2>1, <2>2, <2>4
    <3> QED BY <1>0, <1>a, <2>1, <2>2, <2>4, <3>a, <3>b, <3>c, OthersHold
  <2> QED BY <2>3, <2>5 DEF Typed
<1>8. ASSUME NEW f \in Files, Compress(f) \/ Remove(f) \/ Expire(f) PROVE Typed'
  <2>1. FilesTyped'
    <3>1. PICK gone \in SUBSET (Files \ {name}) :
            /\ archived' = archived \cup gone /\ aged' \subseteq aged \cup gone
            /\ \/ removed' = removed /\ aged' = aged
               \/ removed' = removed \cup gone
      <4>1. CASE Compress(f)
        BY <4>1 DEF Compress
      <4>2. CASE Remove(f)
        BY <4>2 DEF Remove, Backups
      <4>3. CASE Expire(f)
        <5>1. Backups \ NewerThan(f) \in SUBSET (Files \ {name})
          BY DEF Backups
        <5> QED BY <4>3, <5>1 DEF Expire
      <4> QED BY <1>8, <4>1, <4>2, <4>3
    <3>2. UNCHANGED <<MaxSize, name, data, users, restarts>>
      BY <1>8 DEF Compress, Remove, Expire
    <3>3. Files = 1 .. Len(data)
      BY LenProperties DEF Typed, FilesTyped, Files
    <3> QED BY <1>0, <3>1, <3>2, <3>3 DEF Typed, FilesTyped
  <2>2. WritersTyped' /\ \A v \in Levels : Holds(v)'
    BY <1>8 DEF Compress, Remove, Expire, writerVars, Typed, WritersTyped, Holds
  <2> QED BY <2>1, <2>2 DEF Typed
<1>9. CASE Restart
  <2>1. FilesTyped'
    BY <1>9, ConstantsTyped DEF Restart, fileVars, Typed, FilesTyped
  <2>2. WritersTyped' /\ \A v \in Levels : Holds(v)'
    BY <1>0, <1>9 DEF Restart, fileVars, Typed, WritersTyped, Holds
  <2> QED BY <2>1, <2>2 DEF Typed
<1>10. CASE UNCHANGED vars
  BY <1>10 DEF vars, fileVars, writerVars, Typed, FilesTyped, WritersTyped, Holds
<1> QED BY <1>1, <1>2, <1>3, <1>4, <1>5, <1>6, <1>7, <1>8, <1>9, <1>10 DEF Next, Rename

\* So the types hold throughout.
LEMMA TypedHolds == Spec => []Typed
<1>1. Typed /\ [Next]_vars => Typed'
  BY TypedNext
<1> QED BY <1>1, TypedInit, PTL DEF Spec

\* Every variable has its type; above all no writer counts more than max_size,
\* and max_size is positive.
THEOREM LogTypeCorrect == Spec => []TypeOK
<1>1. Typed => TypeOK
  <2> SUFFICES ASSUME Typed PROVE TypeOK
    OBVIOUS
  <2>1. Files = 1 .. Len(data) /\ Len(data) \in Nat
    BY LenProperties DEF Typed, FilesTyped, Files
  <2>2. users \in [Files -> SUBSET Levels]
    BY <2>1, LenProperties DEF Typed, FilesTyped
  <2>3. name \in Files \cup {NoFile} /\ file \in [Levels -> Files \cup {NoFile}]
    BY <2>1, ConstantsTyped DEF Typed, FilesTyped, WritersTyped
  <2>4. data \in Seq(Seq((Levels \X (1 .. MaxLines)) \cup {Hole}))
    BY DEF Typed, FilesTyped, Cell
  <2>5. /\ MaxSize \in Settings \cup {DefaultSize} /\ MaxSize > 0
        /\ archived \in SUBSET Files /\ removed \in SUBSET archived /\ aged \in SUBSET removed
        /\ restarts \in 0 .. MaxRestarts
    BY <2>1 DEF Typed, FilesTyped
  <2>6. WritersTyped
    BY DEF Typed
  <2> QED BY <2>2, <2>3, <2>4, <2>5, <2>6 DEF WritersTyped, TypeOK
<1> QED BY <1>1, TypedHolds, PTL

-----------------------------------------------------------------------------
(* Order                                                                   *)

\* Line n of a level is in file f at place i.
Line(l, f, i, n) == f \in Files /\ i \in 1 .. Len(data[f]) /\ data[f][i] = <<l, n>>

\* A level's writer is the only one to write its lines.
LEMMA LineSteps ==
  ASSUME Typed, [Next]_vars, NEW l \in Levels, NEW f, NEW i, NEW n, Line(l, f, i, n)'
  PROVE  \/ Line(l, f, i, n)
         \/ /\ Write(l) /\ file[l] \notin archived
            /\ f = file[l] /\ i = Place(l) + 1 /\ n = logged[l]
<1>0. Files = 1 .. Len(data) /\ Len(data) \in Nat
  BY LenProperties DEF Typed, FilesTyped, Files
<1>1. ASSUME NEW v \in Levels, Create(v) PROVE Line(l, f, i, n)
  <2>1. /\ Len(data') = IF name = NoFile THEN Len(data) + 1 ELSE Len(data)
        /\ data' \in Seq(Seq(Cell)) /\ data'[Len(data')] = <<>>
        /\ \A g \in Files : g # Len(data') => data'[g] = data[g]
    BY <1>1, CreateData
  <2>2. Files' = 1 .. Len(data')
    BY <2>1, LenProperties DEF Files
  <2>3. f # Len(data')
    BY <2>1 DEF Line
  <2>4. f \in Files
    BY <1>0, <2>1, <2>2, <2>3 DEF Line
  <2> QED BY <2>1, <2>3, <2>4 DEF Line
<1>2. ASSUME NEW v \in Levels, Write(v)
      PROVE  \/ Line(l, f, i, n)
             \/ /\ v = l /\ file[l] \notin archived
                /\ f = file[l] /\ i = Place(l) + 1 /\ n = logged[l]
  <2>1. /\ file[v] \in Files /\ data' \in Seq(Seq(Cell)) /\ Len(data') = Len(data)
        /\ \A g \in Files : g # file[v] => data'[g] = data[g]
        /\ file[v] \in archived => data' = data
        /\ file[v] \notin archived =>
              \A j \in 1 .. Len(data'[file[v]]) :
                data'[file[v]][j] =
                  IF j = Place(v) + 1 THEN <<v, logged[v]>>
                  ELSE IF j <= Len(data[file[v]]) THEN data[file[v]][j] ELSE Hole
    BY <1>2, WriteData
  <2>2. Files' = Files
    BY <1>0, <2>1, LenProperties DEF Files
  <2>3. CASE f # file[v] \/ file[v] \in archived
    BY <2>1, <2>2, <2>3 DEF Line
  <2>4. CASE f = file[v] /\ file[v] \notin archived
    <3>1. i \in 1 .. Len(data'[f]) /\ data'[f][i] = <<l, n>>
      BY <2>4 DEF Line
    <3>2. CASE i = Place(v) + 1
      BY <2>1, <2>4, <3>1, <3>2
    <3>3. CASE i # Place(v) + 1
      <4>1. <<l, n>> = IF i <= Len(data[f]) THEN data[f][i] ELSE Hole
        BY <2>1, <2>4, <3>1, <3>3
      <4>2. <<l, n>> # Hole
        BY ConstantsTyped DEF Hole
      <4>3. i <= Len(data[f]) /\ data[f][i] = <<l, n>>
        BY <4>1, <4>2
      <4> QED BY <2>1, <2>4, <3>1, <4>3 DEF Line
    <3> QED BY <3>2, <3>3
  <2> QED BY <2>3, <2>4
<1>3. CASE UNCHANGED data
  BY <1>3 DEF Line, Files
<1> QED BY <1>1, <1>2, <1>3 DEF Next, vars, fileVars, writerVars, Log, StatExisting,
     OpenExisting, StatNew, Rename, RenameFails, Compress, Remove, Expire, Restart

\* What a step may do to a writer's file and offset.
LEMMA FileSteps ==
  ASSUME Typed, [Next]_vars, NEW l \in Levels
  PROVE  \/ file'[l] = NoFile
         \/ UNCHANGED <<file[l], off[l]>> /\ ~Write(l)
         \/ OpenExisting(l) /\ name # NoFile
         \/ Create(l)
         \/ Write(l)
<1>0. file \in [Levels -> 0 .. Len(data)] /\ off \in [Levels -> 0 .. AtEnd]
  BY DEF Typed, WritersTyped
<1>1. ASSUME NEW level \in Levels \cup {Unknown}, Log(level)
      PROVE  file'[l] = NoFile \/ UNCHANGED <<file[l], off[l]>>
  BY <1>0, <1>1, ConstantsTyped DEF Log, WriterOf
<1>2. ASSUME NEW v \in Levels, OpenExisting(v) \/ Create(v) \/ Write(v)
      PROVE  \/ UNCHANGED <<file[l], off[l]>>
             \/ v = l /\ OpenExisting(l) /\ name # NoFile
             \/ v = l /\ (Create(l) \/ Write(l))
  BY <1>0, <1>2 DEF OpenExisting, Create, Write, writerVars
<1>3. CASE Restart
  BY <1>3 DEF Restart
<1>4. CASE UNCHANGED <<file, off>>
  BY <1>4
<1> QED BY <1>1, <1>2, <1>3, <1>4
     DEF Next, vars, writerVars, StatExisting, StatNew, Rename, RenameFails, Compress, Remove, Expire

\* How far Log counts.
LEMMA LoggedSteps ==
  ASSUME Typed, [Next]_vars, NEW l \in Levels
  PROVE  \/ UNCHANGED logged[l] /\ (pc'[l] # "idle" => pc[l] # "idle")
         \/ pc[l] = "idle" /\ logged'[l] = logged[l] + 1
<1>0. logged \in [Levels -> 0 .. MaxLines] /\ pc \in [Levels -> {"idle", "open", "append", "stat", "rename", "create", "write"}]
  BY DEF Typed, WritersTyped
<1>1. ASSUME NEW level \in Levels \cup {Unknown}, Log(level)
      PROVE  \/ UNCHANGED logged[l] /\ UNCHANGED pc[l]
             \/ pc[l] = "idle" /\ logged'[l] = logged[l] + 1
  <2>1. WriterOf(level) \in Levels
    BY ConstantsTyped DEF WriterOf
  <2>2. /\ pc[WriterOf(level)] = "idle"
        /\ logged' = [logged EXCEPT ![WriterOf(level)] = logged[WriterOf(level)] + 1]
        /\ \E c : pc' = [pc EXCEPT ![WriterOf(level)] = c]
    BY <1>1 DEF Log, GoTo
  <2> QED BY <1>0, <2>1, <2>2
<1>2. ASSUME NEW v \in Levels, StatExisting(v) \/ OpenExisting(v) \/ StatNew(v) \/ Rename(v)
             \/ RenameFails(v) \/ Create(v) \/ Write(v)
      PROVE  UNCHANGED logged[l] /\ (pc'[l] # "idle" => pc[l] # "idle")
  BY <1>0, <1>2 DEF StatExisting, OpenExisting, StatNew, Rename, RenameFails, Create, Write, GoTo
<1>3. CASE UNCHANGED <<logged, pc>>
  BY <1>3
<1> QED BY <1>1, <1>2, <1>3 DEF Next, vars, Compress, Remove, Expire, Restart

\* A level's lines lie before what its writer will write next.
LinesBefore ==
  \A l \in Levels, f \in Files, n \in 1 .. MaxLines : \A i \in 1 .. Len(data[f]) :
    Line(l, f, i, n) =>
      /\ n <= logged[l] /\ (pc[l] # "idle" => n < logged[l])
      /\ file[l] # NoFile => \/ f < file[l]
                             \/ f = file[l] /\ (off[l] = AtEnd \/ i <= off[l])

\* A line has a number.
LEMMA LineTyped ==
  ASSUME Typed, NEW l \in Levels, NEW f, NEW i, NEW n, Line(l, f, i, n)
  PROVE  /\ f \in 1 .. Len(data) /\ Len(data) \in Nat /\ f \in Files
         /\ i \in 1 .. Len(data[f]) /\ Len(data[f]) \in Nat /\ n \in 1 .. MaxLines
<1>1. f \in 1 .. Len(data) /\ Len(data) \in Nat /\ data[f] \in Seq(Cell)
  BY LenProperties, ElementOfSeq DEF Typed, FilesTyped, Line, Files
<1>2. Len(data[f]) \in Nat /\ <<l, n>> \in Cell
  BY <1>1, ElementOfSeq, LenProperties DEF Line
<1>3. <<l, n>> # Hole
  BY ConstantsTyped DEF Hole
<1> QED BY <1>1, <1>2, <1>3 DEF Line, Cell

\* The same after a step.
LEMMA LineTypedNext ==
  ASSUME Typed', NEW l \in Levels, NEW f, NEW i, NEW n, Line(l, f, i, n)'
  PROVE  /\ f \in 1 .. Len(data') /\ Len(data') \in Nat /\ f \in Files'
         /\ i \in 1 .. Len(data'[f]) /\ Len(data'[f]) \in Nat /\ n \in 1 .. MaxLines
<1>1. f \in 1 .. Len(data') /\ Len(data') \in Nat /\ data'[f] \in Seq(Cell)
  BY LenProperties, ElementOfSeq DEF Typed, FilesTyped, Line, Files
<1>2. Len(data'[f]) \in Nat /\ <<l, n>> \in Cell
  BY <1>1, ElementOfSeq, LenProperties DEF Line
<1>3. <<l, n>> # Hole
  BY ConstantsTyped DEF Hole
<1> QED BY <1>1, <1>2, <1>3 DEF Line, Cell

\* A writer opens the youngest file, at its end, or makes an empty one that is
\* younger than any with a line; and it goes on behind what it wrote.
LEMMA BeforeNext == Typed /\ LinesBefore /\ [Next]_vars => LinesBefore'
<1> SUFFICES ASSUME Typed, LinesBefore, [Next]_vars,
                    NEW l \in Levels, NEW f, NEW i, NEW n, Line(l, f, i, n)'
             PROVE  /\ n <= logged'[l] /\ (pc'[l] # "idle" => n < logged'[l])
                    /\ file'[l] # NoFile =>
                         \/ f < file'[l]
                         \/ f = file'[l] /\ (off'[l] = AtEnd \/ i <= off'[l])
  BY DEF LinesBefore
<1>0. Typed'
  BY TypedNext
<1>1. /\ f \in 1 .. Len(data') /\ Len(data') \in Nat /\ Len(data) \in Nat
      /\ i \in Nat /\ n \in 1 .. MaxLines /\ MaxLines \in Nat
  <2>1. f \in 1 .. Len(data') /\ Len(data') \in Nat /\ n \in 1 .. MaxLines
    BY <1>0, LineTypedNext
  <2>2. i \in 1 .. Len(data'[f]) /\ Len(data'[f]) \in Nat
    BY <1>0, LineTypedNext
  <2>3. Len(data) \in Nat
    BY LenProperties DEF Typed, FilesTyped
  <2> QED BY <2>1, <2>2, <2>3, ConstantsTyped
<1>2. /\ logged[l] \in Nat /\ off[l] \in 0 .. AtEnd /\ file[l] \in 0 .. Len(data)
      /\ AtEnd \in Nat /\ NoFile = 0
  BY ConstantsTyped DEF Typed, WritersTyped
<1>3. CASE Line(l, f, i, n)
  <2>1. /\ n <= logged[l] /\ (pc[l] # "idle" => n < logged[l])
        /\ file[l] # NoFile => \/ f < file[l]
                               \/ f = file[l] /\ (off[l] = AtEnd \/ i <= off[l])
    BY <1>3, LineTyped DEF LinesBefore
  <2>2. n <= logged'[l] /\ (pc'[l] # "idle" => n < logged'[l])
    BY <1>1, <1>2, <2>1, LoggedSteps
  <2>3. CASE OpenExisting(l) /\ name # NoFile
    <3>1. file'[l] = Len(data) /\ off'[l] = AtEnd
      BY <2>3 DEF OpenExisting, Typed, FilesTyped, WritersTyped
    <3>2. f \in 1 .. Len(data)
      BY <1>3, LineTyped
    <3> QED BY <1>1, <2>2, <3>1, <3>2
  <2>4. CASE Create(l)
    <3>1. file' = [file EXCEPT ![l] = Len(data')] /\ data'[Len(data')] = <<>>
      BY <2>4, CreateData
    <3>2. file'[l] = Len(data')
      BY <3>1 DEF Typed, WritersTyped
    <3>3. f # Len(data')
      BY <3>1 DEF Line
    <3> QED BY <1>1, <2>2, <3>2, <3>3
  <2>5. CASE Write(l)
    <3>1. UNCHANGED file /\ off' = [off EXCEPT ![l] = IF @ = AtEnd THEN @ ELSE @ + 1] /\ file[l] # NoFile
      BY <2>5 DEF Write, Typed, Holds
    <3>2. off'[l] = IF off[l] = AtEnd THEN AtEnd ELSE off[l] + 1
      BY <3>1 DEF Typed, WritersTyped
    <3> QED BY <1>1, <1>2, <2>1, <2>2, <3>1, <3>2
  <2> QED BY <2>1, <2>2, <2>3, <2>4, <2>5, FileSteps
<1>4. CASE /\ Write(l) /\ file[l] \notin archived
           /\ f = file[l] /\ i = Place(l) + 1 /\ n = logged[l]
  <2>1. /\ UNCHANGED <<file, logged>> /\ pc'[l] = "idle"
        /\ off' = [off EXCEPT ![l] = IF @ = AtEnd THEN @ ELSE @ + 1]
    BY <1>4 DEF Write, GoTo, Typed, WritersTyped
  <2>2. off'[l] = IF off[l] = AtEnd THEN AtEnd ELSE off[l] + 1
    BY <2>1 DEF Typed, WritersTyped
  <2> QED BY <1>1, <1>2, <1>4, <2>1, <2>2 DEF Place
<1> QED BY <1>3, <1>4, LineSteps

\* LevelInOrder, said of Line.
Ordered ==
  \A l \in Levels, f, g \in Files, m, n \in 1 .. MaxLines :
    \A i \in 1 .. Len(data[f]), j \in 1 .. Len(data[g]) :
      Line(l, f, i, m) /\ Line(l, g, j, n) /\ m < n => f < g \/ (f = g /\ i < j)

\* A new line has the highest number of its level, and the last place.
LEMMA OrderedNext == Typed /\ LinesBefore /\ Ordered /\ [Next]_vars => Ordered'
<1> SUFFICES ASSUME Typed, LinesBefore, Ordered, [Next]_vars, NEW l \in Levels,
                    NEW f, NEW g, NEW m, NEW n, NEW i, NEW j,
                    Line(l, f, i, m)', Line(l, g, j, n)', m < n
             PROVE  f < g \/ (f = g /\ i < j)
  BY DEF Ordered
<1>1. m \in 1 .. MaxLines /\ n \in 1 .. MaxLines /\ MaxLines \in Nat
  BY TypedNext, LineTypedNext, ConstantsTyped
<1> DEFINE New(h, k, r) == /\ Write(l) /\ h = file[l] /\ k = Place(l) + 1 /\ r = logged[l]
<1>2. Line(l, f, i, m) \/ New(f, i, m)
  BY LineSteps
<1>3. Line(l, g, j, n) \/ New(g, j, n)
  BY LineSteps
<1>4. CASE Line(l, f, i, m) /\ Line(l, g, j, n)
  BY <1>4, LineTyped DEF Ordered
<1>5. CASE Line(l, f, i, m) /\ New(g, j, n)
  <2>1. /\ f \in Files /\ f \in Nat /\ i \in 1 .. Len(data[f]) /\ Len(data[f]) \in Nat
    BY <1>5, LineTyped
  <2>2. file[l] # NoFile /\ off[l] \in 0 .. AtEnd /\ AtEnd \in Nat
    BY <1>5, ConstantsTyped DEF Write, Typed, WritersTyped, Holds
  <2>3. f < file[l] \/ (f = file[l] /\ (off[l] = AtEnd \/ i <= off[l]))
    BY <1>1, <1>5, <2>1, <2>2 DEF LinesBefore
  <2> QED BY <1>5, <2>1, <2>2, <2>3 DEF Place
<1>6. CASE New(f, i, m) /\ Line(l, g, j, n)
  <2>1. n < logged[l]
    BY <1>6, LineTyped DEF LinesBefore, Write
  <2>2. logged[l] \in Nat
    BY ConstantsTyped DEF Typed, WritersTyped
  <2> QED BY <1>1, <1>6, <2>1, <2>2
<1>7. CASE New(f, i, m) /\ New(g, j, n)
  BY <1>1, <1>7
<1> QED BY <1>2, <1>3, <1>4, <1>5, <1>6, <1>7

\* What is kept of a level is in the order it was logged, however many levels
\* write and rotate one file name.
THEOREM LevelOrderCorrect == Spec => []LevelInOrder
<1>1. Init => LinesBefore /\ Ordered
  BY DEF Init, LinesBefore, Ordered, Files
<1>2. Typed /\ LinesBefore /\ Ordered /\ [Next]_vars => (LinesBefore /\ Ordered)'
  BY BeforeNext, OrderedNext
<1>3. Typed /\ Ordered => LevelInOrder
  <2> SUFFICES ASSUME Typed, Ordered, NEW f \in Files, NEW g \in Files,
                      NEW i \in DOMAIN data[f], NEW j \in DOMAIN data[g],
                      data[f][i][1] \in Levels, data[f][i][1] = data[g][j][1],
                      data[f][i][2] < data[g][j][2]
               PROVE  f < g \/ (f = g /\ i < j)
    BY DEF LevelInOrder
  <2>1. /\ data[f] \in Seq(Cell) /\ data[g] \in Seq(Cell)
        /\ DOMAIN data[f] = 1 .. Len(data[f]) /\ DOMAIN data[g] = 1 .. Len(data[g])
    BY LenProperties, ElementOfSeq DEF Typed, FilesTyped, Files
  <2>2. data[f][i] \in Cell /\ data[g][j] \in Cell
    BY <2>1, ElementOfSeq
  <2>3. /\ data[f][i] = <<data[f][i][1], data[f][i][2]>>
        /\ data[g][j] = <<data[f][i][1], data[g][j][2]>>
    BY <2>2 DEF Cell, Hole
  <2>4. Line(data[f][i][1], f, i, data[f][i][2]) /\ Line(data[f][i][1], g, j, data[g][j][2])
    BY <2>1, <2>3 DEF Line
  <2> QED BY <2>1, <2>4, LineTyped DEF Ordered
<1> QED BY <1>1, <1>2, <1>3, TypedHolds, PTL DEF Spec

-----------------------------------------------------------------------------
(* A level with files of its own                                           *)

\* No other writer had to do with a file of this level's.
Own(l) == \A f \in Files : l \in users[f] => users[f] = {l}

\* Line n of a level was given to its file.
Done(l, n) == n <= logged[l] /\ (pc[l] # "idle" => n < logged[l])

\* Whoever wrote to a file used it, and a writer that is about to create a file
\* finds one only if another made it since it looked.
Known ==
  /\ \A l \in Levels, f \in Files, n \in 1 .. MaxLines : \A i \in 1 .. Len(data[f]) :
       Line(l, f, i, n) => l \in users[f]
  /\ \A l \in Levels :
       pc[l] = "create" /\ name # NoFile => \E u \in Levels \ {l} : u \in users[name]

\* Such a level has the file under Filename open, is at its end, renames no file
\* that is gone, and every line is somewhere.
Keeps(l) ==
  /\ file[l] # NoFile => file[l] = name /\ (off[l] = AtEnd \/ off[l] = Len(data[name]))
  /\ pc[l] = "rename" => name # NoFile /\ l \in users[name]
  /\ \A n \in 1 .. MaxLines :
       Done(l, n) => \E f \in Files : \E i \in 1 .. Len(data[f]) : Line(l, f, i, n)

OwnKeeps == \A l \in Levels : Own(l) => Keeps(l)

\* Files and their users are only added.
LEMMA UsersGrow ==
  ASSUME Typed, [Next]_vars
  PROVE  \A f \in Files : f \in Files' /\ users[f] \subseteq users'[f]
<1>0. Files = 1 .. Len(data) /\ Len(data) \in Nat /\ name \in {NoFile, Len(data)} /\ NoFile = 0
  BY LenProperties, ConstantsTyped DEF Typed, FilesTyped, Files
<1>1. ASSUME NEW l \in Levels, Create(l)
      PROVE  \A f \in Files : f \in Files' /\ users[f] \subseteq users'[f]
  <2>1. /\ Len(data') = IF name = NoFile THEN Len(data) + 1 ELSE Len(data)
        /\ data' \in Seq(Seq(Cell))
        /\ \A g \in Files : g # Len(data') => users'[g] = users[g]
        /\ users'[Len(data')] = IF name = NoFile THEN {l} ELSE users[Len(data')] \cup {l}
    BY <1>0, <1>1, CreateData
  <2>2. Files' = 1 .. Len(data')
    BY <2>1, LenProperties DEF Files
  <2>3. Len(data') \in Nat /\ Len(data) <= Len(data')
    BY <1>0, <2>1
  <2>4. ASSUME NEW f \in Files PROVE users[f] \subseteq users'[f]
    <3>1. CASE f = Len(data')
      BY <1>0, <2>1, <3>1
    <3>2. CASE f # Len(data')
      BY <2>1, <3>2
    <3> QED BY <3>1, <3>2
  <2> QED BY <1>0, <2>2, <2>3, <2>4
<1>2. ASSUME NEW l \in Levels, Write(l)
      PROVE  \A f \in Files : f \in Files' /\ users[f] \subseteq users'[f]
  <2>1. data' \in Seq(Seq(Cell)) /\ Len(data') = Len(data)
    BY <1>2, WriteData
  <2> QED BY <1>0, <1>2, <2>1, LenProperties DEF Write, Files
<1>3. ASSUME NEW l \in Levels, Uses(l, name), name # NoFile, UNCHANGED data
      PROVE  \A f \in Files : f \in Files' /\ users[f] \subseteq users'[f]
  <2>1. name \in 1 .. Len(data)
    BY <1>0, <1>3
  <2>2. \A g \in 1 .. Len(data) :
          users'[g] = IF g = name THEN users[name] \cup {l} ELSE users[g]
    BY <1>3, <2>1, UsesMore
  <2> QED BY <1>0, <1>3, <2>2 DEF Files
<1>4. CASE UNCHANGED <<data, users>>
  BY <1>4 DEF Files
<1> QED BY <1>1, <1>2, <1>3, <1>4 DEF Next, vars, fileVars, writerVars, Log, StatExisting,
     OpenExisting, StatNew, Rename, RenameFails, Compress, Remove, Expire, Restart

\* A level that has files of its own had them before.
LEMMA OwnBefore ==
  ASSUME Typed, [Next]_vars, NEW l \in Levels, Own(l)'
  PROVE  Own(l)
BY UsersGrow DEF Own

\* What a writer renames, empties or writes to it uses, with all that did.
LEMMA Touched ==
  ASSUME Typed, [Next]_vars, NEW v \in Levels
  PROVE  /\ Rename(v) => name \in Files' /\ v \in users'[name]
         /\ Create(v) /\ name # NoFile => name \in Files' /\ v \in users'[name]
         /\ Write(v) => file[v] \in Files' /\ v \in users'[file[v]]
<1>0. Files = 1 .. Len(data) /\ Len(data) \in Nat /\ name \in {NoFile, Len(data)} /\ NoFile = 0
  BY LenProperties, ConstantsTyped DEF Typed, FilesTyped, Files
<1>1. name # NoFile => name \in Files
  BY <1>0
<1>2. ASSUME Rename(v) PROVE name \in Files' /\ v \in users'[name]
  <2>1. name # NoFile /\ Uses(v, name)
    BY <1>2 DEF Rename
  <2>2. \A g \in 1 .. Len(data) :
          users'[g] = IF g = name THEN users[name] \cup {v} ELSE users[g]
    BY <1>0, <1>1, <2>1, UsesMore
  <2> QED BY <1>0, <1>1, <2>1, <2>2, UsersGrow
<1>3. ASSUME Create(v), name # NoFile PROVE name \in Files' /\ v \in users'[name]
  <2>1. Len(data') = Len(data) /\ users'[Len(data')] = users[Len(data')] \cup {v}
    BY <1>3, CreateData
  <2> QED BY <1>0, <1>1, <1>3, <2>1, UsersGrow
<1>4. ASSUME Write(v) PROVE file[v] \in Files' /\ v \in users'[file[v]]
  <2>1. file[v] # NoFile /\ file[v] \in 0 .. Len(data) /\ v \in users[file[v]]
    BY <1>4 DEF Write, Typed, WritersTyped, Holds
  <2> QED BY <1>0, <2>1, UsersGrow
<1> QED BY <1>2, <1>3, <1>4

\* A line was written by a user, and a file that comes up is another writer's.
LEMMA KnownNext == Typed /\ Known /\ [Next]_vars => Known'
<1> SUFFICES ASSUME Typed, Known, [Next]_vars PROVE Known'
  OBVIOUS
<1>0. /\ Files = 1 .. Len(data) /\ Len(data) \in Nat /\ name \in {NoFile, Len(data)} /\ NoFile = 0
      /\ pc \in [Levels -> {"idle", "open", "append", "stat", "rename", "create", "write"}]
  BY LenProperties, ConstantsTyped DEF Typed, FilesTyped, WritersTyped, Files
<1>1. ASSUME NEW l \in Levels, NEW f, NEW i, NEW n, Line(l, f, i, n)'
      PROVE  l \in users'[f]
  <2>1. CASE Line(l, f, i, n)
    <3>1. f \in Files /\ l \in users[f]
      BY <2>1, LineTyped DEF Known
    <3> QED BY <3>1, UsersGrow
  <2>2. CASE Write(l) /\ f = file[l]
    BY <2>2, Touched
  <2> QED BY <1>1, <2>1, <2>2, LineSteps
<1>2. ASSUME NEW l \in Levels, pc'[l] = "create", name' # NoFile
      PROVE  \E u \in Levels \ {l} : u \in users'[name']
  <2>1. CASE pc[l] = "create" /\ name # NoFile /\ name' = name
    <3>1. name \in Files
      BY <1>0, <2>1
    <3> QED BY <2>1, <3>1, UsersGrow DEF Known
  <2>2. CASE \E v \in Levels \ {l} : Create(v) /\ name = NoFile
    <3>1. PICK v \in Levels \ {l} : Create(v) /\ name = NoFile
      BY <2>2
    <3>2. users'[name'] = {v}
      BY <3>1, CreateData
    <3> QED BY <3>2
  <2>3. ASSUME NEW v \in Levels,
               StatExisting(v) \/ OpenExisting(v) \/ RenameFails(v) \/ Write(v)
        PROVE  pc[l] = "create" /\ name' = name
    BY <1>0, <1>2, <2>3
       DEF StatExisting, OpenExisting, RenameFails, Write, GoTo, fileVars
  <2>4. ASSUME NEW v \in Levels, StatNew(v) \/ Rename(v)
        PROVE  pc[l] = "create" /\ name' = name
    BY <1>0, <1>2, <2>4 DEF StatNew, Rename, GoTo, fileVars
  <2>5. ASSUME NEW v \in Levels, Create(v)
        PROVE  v # l /\ (name # NoFile => pc[l] = "create" /\ name' = name)
    BY <1>0, <1>2, <2>5 DEF Create, GoTo
  <2>6. ASSUME NEW level \in Levels \cup {Unknown}, Log(level)
        PROVE  pc[l] = "create" /\ name' = name
    BY <1>0, <1>2, <2>6, ConstantsTyped DEF Log, WriterOf, GoTo, fileVars
  <2>7. ASSUME UNCHANGED <<name, pc>> PROVE pc[l] = "create" /\ name' = name
    BY <1>2, <2>7
  <2> QED BY <1>2, <2>1, <2>2, <2>3, <2>4, <2>5, <2>6, <2>7
          DEF Next, vars, fileVars, Compress, Remove, Expire, Restart
<1> QED BY <1>1, <1>2 DEF Known

\* Its writer appends.
LEMMA OwnPlace ==
  ASSUME Typed, OwnKeeps, NEW l \in Levels, Own(l), Write(l)
  PROVE  /\ file[l] = name /\ name # NoFile /\ name \in Files /\ name \notin archived
         /\ Len(data[name]) \in Nat /\ Place(l) = Len(data[name])
<1>1. file[l] # NoFile
  BY DEF Write, Typed, Holds
<1>2. file[l] = name /\ (off[l] = AtEnd \/ off[l] = Len(data[name]))
  BY <1>1 DEF OwnKeeps, Keeps
<1>3. name \in Files /\ name \notin archived /\ data[name] \in Seq(Cell)
  BY <1>1, <1>2, LenProperties, ElementOfSeq, ConstantsTyped DEF Typed, FilesTyped, Files
<1> QED BY <1>1, <1>2, <1>3, LenProperties DEF Place

\* None of its lines is overwritten, and no file of its is emptied.
LEMMA LinesStay ==
  ASSUME Typed, Known, OwnKeeps, [Next]_vars, NEW l \in Levels, Own(l)',
         NEW f, NEW i, NEW n, Line(l, f, i, n)
  PROVE  Line(l, f, i, n)'
<1>0. Files = 1 .. Len(data) /\ Len(data) \in Nat /\ name \in {NoFile, Len(data)} /\ NoFile = 0
  BY LenProperties, ConstantsTyped DEF Typed, FilesTyped, Files
<1>1. f \in Files /\ f \in Files' /\ l \in users[f] /\ users'[f] = {l}
  <2>1. f \in Files /\ l \in users[f]
    BY LineTyped DEF Known
  <2>2. f \in Files' /\ l \in users'[f]
    BY <2>1, UsersGrow
  <2> QED BY <2>1, <2>2 DEF Own
<1>2. Own(l)
  BY OwnBefore
<1>3. i \in 1 .. Len(data[f]) /\ Len(data[f]) \in Nat /\ data[f][i] = <<l, n>>
  BY LineTyped DEF Line
<1>4. ASSUME NEW v \in Levels, Create(v) PROVE data'[f] = data[f]
  <2>1. CASE name # NoFile /\ f = name
    <3>1. v = l
      BY <1>1, <1>4, <2>1, Touched
    <3>2. \E u \in Levels \ {l} : u \in users[name]
      BY <1>4, <2>1, <3>1 DEF Known, Create
    <3> QED BY <1>1, <2>1, <3>2, UsersGrow
  <2>2. CASE name = NoFile \/ f # name
    <3>1. /\ Len(data') = IF name = NoFile THEN Len(data) + 1 ELSE Len(data)
          /\ \A g \in Files : g # Len(data') => data'[g] = data[g]
      BY <1>4, CreateData
    <3> QED BY <1>0, <1>1, <2>2, <3>1
  <2> QED BY <2>1, <2>2
<1>5. ASSUME NEW v \in Levels, Write(v)
      PROVE  i \in 1 .. Len(data'[f]) /\ data'[f][i] = data[f][i]
  <2>1. CASE f # file[v]
    BY <1>1, <1>3, <1>5, <2>1, WriteData
  <2>2. CASE f = file[v]
    <3>1. v = l
      BY <1>1, <1>5, <2>2, Touched
    <3>2. f = name /\ f \notin archived /\ Place(l) = Len(data[f])
      BY <1>2, <1>5, <2>2, <3>1, OwnPlace
    <3>3. /\ Len(data'[f]) = Larger(Place(l) + 1, Len(data[f]))
          /\ \A j \in 1 .. Len(data'[f]) :
               data'[f][j] = IF j = Place(l) + 1 THEN <<l, logged[l]>>
                             ELSE IF j <= Len(data[f]) THEN data[f][j] ELSE Hole
      <4>1. Write(l) /\ file[l] = f /\ file[l] \notin archived
        BY <1>5, <2>2, <3>1, <3>2
      <4>2. /\ Len(data'[file[l]]) = Larger(Place(l) + 1, Len(data[file[l]]))
            /\ \A j \in 1 .. Len(data'[file[l]]) :
                 data'[file[l]][j] =
                   IF j = Place(l) + 1 THEN <<l, logged[l]>>
                   ELSE IF j <= Len(data[file[l]]) THEN data[file[l]][j] ELSE Hole
        BY <4>1, WriteData
      <4> QED BY <4>1, <4>2
    <3> QED BY <1>3, <3>2, <3>3 DEF Larger
  <2> QED BY <2>1, <2>2
<1>6. CASE UNCHANGED data
  BY <1>6 DEF Line, Files
<1> QED BY <1>1, <1>3, <1>4, <1>5, <1>6 DEF Line, Next, vars, fileVars, writerVars, Log,
     StatExisting, OpenExisting, StatNew, Rename, RenameFails, Compress, Remove, Expire, Restart

\* A line is done when it was written, or could not be.
LEMMA DoneSteps ==
  ASSUME Typed, [Next]_vars, NEW l \in Levels, NEW n \in 1 .. MaxLines, Done(l, n)'
  PROVE  Done(l, n) \/ (n = logged[l] /\ (Write(l) \/ RenameFails(l)))
<1> DEFINE Pcs == {"idle", "open", "append", "stat", "rename", "create", "write"}
<1>0. /\ logged \in [Levels -> 0 .. MaxLines] /\ pc \in [Levels -> Pcs]
      /\ MaxSize \in Nat \ {0} /\ MaxLines \in Nat
  BY ConstantsTyped DEF Typed, FilesTyped, WritersTyped
<1>1. ASSUME NEW level \in Levels \cup {Unknown}, Log(level) PROVE Done(l, n)
  <2> DEFINE w == WriterOf(level)
             c == IF file[w] = NoFile THEN "open" ELSE IF size[w] + 1 > MaxSize THEN "stat" ELSE "write"
  <2>1. w \in Levels
    BY ConstantsTyped DEF WriterOf
  <2>2. ~(1 > MaxSize)
    BY <1>0
  <2>3. /\ pc[w] = "idle" /\ logged' = [logged EXCEPT ![w] = logged[w] + 1]
        /\ pc' = [pc EXCEPT ![w] = c]
    BY <1>1, <2>2 DEF Log, GoTo
  <2>4. c # "idle"
    OBVIOUS
  <2> HIDE DEF w, c
  <2> QED BY <1>0, <2>1, <2>3, <2>4 DEF Done
<1>2. ASSUME NEW v \in Levels,
             \/ StatExisting(v) \/ OpenExisting(v) \/ StatNew(v) \/ Rename(v) \/ Create(v)
             \/ (Write(v) \/ RenameFails(v)) /\ v # l
      PROVE  Done(l, n)
  <2>1. /\ UNCHANGED logged /\ pc[v] # "idle"
        /\ \E c : pc' = [pc EXCEPT ![v] = c] /\ (c # "idle" \/ v # l)
    BY <1>2 DEF StatExisting, OpenExisting, StatNew, Rename, RenameFails, Create, Write, GoTo
  <2> QED BY <1>0, <2>1 DEF Done
<1>3. ASSUME Write(l) \/ RenameFails(l) PROVE n <= logged[l] /\ logged[l] \in Nat
  BY <1>0, <1>3 DEF Done, Write, RenameFails
<1>4. CASE UNCHANGED <<logged, pc>>
  BY <1>4 DEF Done
<1> QED BY <1>0, <1>1, <1>2, <1>3, <1>4 DEF Done, Next, vars, Compress, Remove, Expire, Restart

\* The file under Filename comes and goes by these steps only.
LEMMA NameSteps ==
  ASSUME Typed, [Next]_vars
  PROVE  \/ UNCHANGED name
         \/ \E v \in Levels : Rename(v)
         \/ name = NoFile /\ \E v \in Levels : Create(v)
BY DEF Next, vars, fileVars, writerVars, Log, StatExisting, OpenExisting, StatNew,
       RenameFails, Create, Write, Compress, Remove, Expire, Restart

\* What Keeps says stays true as long as no other writer comes in.
LEMMA KeepsNext ==
  ASSUME Typed, Known, OwnKeeps, [Next]_vars, NEW l \in Levels, Own(l)'
  PROVE  Keeps(l)'
<1>0. /\ Files = 1 .. Len(data) /\ Len(data) \in Nat /\ name \in {NoFile, Len(data)} /\ NoFile = 0
      /\ file \in [Levels -> 0 .. Len(data)] /\ off \in [Levels -> 0 .. AtEnd]
      /\ pc \in [Levels -> {"idle", "open", "append", "stat", "rename", "create", "write"}]
      /\ Holds(l) /\ AtEnd \in Nat
  BY LenProperties, ConstantsTyped DEF Typed, FilesTyped, WritersTyped, Files
<1>1. Own(l) /\ Keeps(l)
  BY OwnBefore DEF OwnKeeps
<1>2. ASSUME NEW v \in Levels, NEW f \in Files, l \in users[f], v \in users'[f] PROVE v = l
  BY <1>2, UsersGrow DEF Own
<1>3. ASSUME name # NoFile, l \in users[name], name' # name PROVE Rename(l)
  <2>1. PICK v \in Levels : Rename(v)
    BY <1>3, NameSteps
  <2> QED BY <1>0, <1>2, <1>3, <2>1, Touched
<1>4. file'[l] # NoFile =>
        file'[l] = name' /\ (off'[l] = AtEnd \/ off'[l] = Len(data'[name']))
  <2> SUFFICES ASSUME file'[l] # NoFile
               PROVE  file'[l] = name' /\ (off'[l] = AtEnd \/ off'[l] = Len(data'[name']))
    OBVIOUS
  <2>1. CASE UNCHANGED <<file[l], off[l]>> /\ ~Write(l)
    <3>1. /\ file[l] = name /\ name # NoFile /\ name \in Files /\ l \in users[name]
          /\ off[l] = AtEnd \/ off[l] = Len(data[name])
      BY <1>0, <1>1, <2>1 DEF Keeps, Holds
    <3>2. pc[l] \notin {"rename", "create"}
      BY <1>0, <3>1 DEF Holds
    <3>3. name' = name
      BY <1>3, <3>1, <3>2 DEF Rename
    <3>4. ASSUME NEW v \in Levels, Create(v) PROVE FALSE
      BY <1>2, <3>1, <3>2, <3>4, Touched DEF Create
    <3>5. ASSUME NEW v \in Levels, Write(v) PROVE data'[name] = data[name]
      BY <1>2, <2>1, <3>1, <3>5, Touched, WriteData
    <3>6. data'[name] = data[name]
      BY <3>4, <3>5 DEF Next, vars, fileVars, writerVars, Log, StatExisting, OpenExisting,
         StatNew, Rename, RenameFails, Compress, Remove, Expire, Restart
    <3> QED BY <2>1, <3>1, <3>3, <3>6
  <2>2. CASE OpenExisting(l) /\ name # NoFile
    BY <1>0, <2>2 DEF OpenExisting, fileVars
  <2>3. CASE Create(l)
    <3>1. file'[l] = name' /\ off'[l] = 0
      BY <1>0, <2>3 DEF Create
    <3>2. data'[name'] = <<>>
      BY <2>3, CreateData
    <3> QED BY <3>1, <3>2, EmptySeq
  <2>4. CASE Write(l)
    <3>1. /\ file[l] = name /\ name \notin archived /\ name \in Files
          /\ Len(data[name]) \in Nat /\ Place(l) = Len(data[name])
      BY <1>1, <2>4, OwnPlace
    <3>2. UNCHANGED <<name, file>> /\ off' = [off EXCEPT ![l] = IF @ = AtEnd THEN @ ELSE @ + 1]
      BY <2>4 DEF Write
    <3>3. Len(data'[name]) = Larger(Place(l) + 1, Len(data[name]))
      BY <2>4, <3>1, WriteData
    <3>4. Len(data'[name]) = Len(data[name]) + 1
      BY <3>1, <3>3 DEF Larger
    <3>5. off'[l] = AtEnd \/ off'[l] = Place(l) + 1
      BY <1>0, <3>2 DEF Place
    <3> QED BY <3>1, <3>2, <3>4, <3>5
  <2> QED BY <2>1, <2>2, <2>3, <2>4, FileSteps
<1>5. pc'[l] = "rename" => name' # NoFile /\ l \in users'[name']
  <2> SUFFICES ASSUME pc'[l] = "rename" PROVE name' # NoFile /\ l \in users'[name']
    OBVIOUS
  <2>0. ~Rename(l)
    BY <1>0 DEF Rename, GoTo
  <2>1. CASE pc[l] = "rename"
    <3>1. name # NoFile /\ name \in Files /\ l \in users[name]
      BY <1>0, <1>1, <2>1 DEF Keeps
    <3>2. name' = name
      BY <1>3, <2>0, <3>1
    <3> QED BY <3>1, <3>2, UsersGrow
  <2>2. CASE StatNew(l) /\ name # NoFile
    <3>1. Uses(l, name) /\ name' = name /\ name \in 1 .. Len(data)
      BY <1>0, <2>2 DEF StatNew, fileVars
    <3>2. users'[name] = users[name] \cup {l}
      BY <3>1, UsesMore
    <3> QED BY <2>2, <3>1, <3>2
  <2>3. ASSUME NEW level \in Levels \cup {Unknown}, Log(level) PROVE pc[l] = "rename"
    BY <1>0, <2>3, ConstantsTyped DEF Log, WriterOf, GoTo
  <2>4. ASSUME NEW v \in Levels,
               \/ StatExisting(v) \/ OpenExisting(v) \/ Rename(v) \/ RenameFails(v)
               \/ Create(v) \/ Write(v)
               \/ StatNew(v) /\ ~(v = l /\ name # NoFile)
        PROVE  pc[l] = "rename"
    BY <1>0, <2>4 DEF StatExisting, OpenExisting, StatNew, Rename, RenameFails, Create, Write, GoTo
  <2>5. CASE UNCHANGED pc
    BY <2>1, <2>5
  <2> QED BY <2>1, <2>2, <2>3, <2>4, <2>5 DEF Next, vars, Compress, Remove, Expire, Restart
<1>6. ASSUME NEW n \in 1 .. MaxLines, Done(l, n)'
      PROVE  \E f \in Files' : \E i \in 1 .. Len(data'[f]) : Line(l, f, i, n)'
  <2>1. CASE Done(l, n)
    <3>1. PICK f \in Files : \E i \in 1 .. Len(data[f]) : Line(l, f, i, n)
      BY <1>1, <1>6, <2>1 DEF Keeps
    <3>2. PICK i \in 1 .. Len(data[f]) : Line(l, f, i, n)
      BY <3>1
    <3>3. Line(l, f, i, n)'
      BY <3>2, LinesStay
    <3> QED BY <3>3 DEF Line
  <2>2. CASE n = logged[l] /\ Write(l)
    <3>1. /\ file[l] = name /\ name \notin archived /\ name \in Files
          /\ Len(data[name]) \in Nat /\ Place(l) = Len(data[name])
      BY <1>1, <2>2, OwnPlace
    <3>2. /\ Len(data'[name]) = Larger(Place(l) + 1, Len(data[name]))
          /\ \A i \in 1 .. Len(data'[name]) :
               data'[name][i] = IF i = Place(l) + 1 THEN <<l, logged[l]>>
                                ELSE IF i <= Len(data[name]) THEN data[name][i] ELSE Hole
      BY <2>2, <3>1, WriteData
    <3>3. Place(l) + 1 \in 1 .. Len(data'[name])
      BY <3>1, <3>2 DEF Larger
    <3>4. PICK f \in Files, i \in Nat : f = name /\ i = Place(l) + 1
      BY <3>1
    <3>5. data'[f][i] = <<l, n>> /\ i \in 1 .. Len(data'[f])
      BY <2>2, <3>2, <3>3, <3>4
    <3>6. Line(l, f, i, n)'
      BY <3>5, UsersGrow DEF Line
    <3> QED BY <3>6 DEF Line
  <2>3. CASE RenameFails(l)
    BY <1>1, <2>3 DEF RenameFails, Keeps
  <2> QED BY <1>6, <2>1, <2>2, <2>3, DoneSteps
<1> QED BY <1>4, <1>5, <1>6 DEF Keeps

\* What retention removed before its time had newer backups enough.
Newer(f) == {g \in Files \ {name} : g > f}
Pushed == \A f \in removed \ aged : Cardinality(Newer(f)) >= MaxBackups

\* Backups are only added, so that what is newer stays.
LEMMA NewerGrow ==
  ASSUME Typed, [Next]_vars, NEW f \in Files
  PROVE  /\ Newer(f) \subseteq Newer(f)' /\ IsFiniteSet(Newer(f)')
         /\ Cardinality(Newer(f)) \in Nat /\ Cardinality(Newer(f)') \in Nat
         /\ Cardinality(Newer(f)) <= Cardinality(Newer(f)')
<1>1. Files = 1 .. Len(data) /\ Len(data) \in Nat /\ NoFile = 0 /\ name \in {0, Len(data)}
  BY LenProperties, ConstantsTyped DEF Typed, FilesTyped, Files
<1>2. Typed'
  BY TypedNext
<1>3. Files' = 1 .. Len(data)' /\ Len(data)' \in Nat
  BY <1>2, LenProperties DEF Typed, FilesTyped, Files
<1>4. Files \subseteq Files' /\ (name' = name \/ name' \notin Files \ {name})
  <2>1. CASE data' = data /\ (name' = name \/ name' = NoFile)
    <3>1. Files' = Files
      BY <2>1 DEF Files
    <3> QED BY <1>1, <2>1, <3>1
  <2>2. ASSUME NEW l \in Levels, Create(l) PROVE Files \subseteq Files' /\ (name' = name \/ name' \notin Files)
    <3>1. CASE name = NoFile
      <4>1. data' = data \o << <<>> >> /\ name' = Len(data) + 1
        BY <2>2, <3>1 DEF Create
      <4>2. Len(data') = Len(data) + 1
        BY <4>1, ConcatProperties DEF Typed, FilesTyped
      <4> QED BY <1>1, <1>3, <4>1, <4>2
    <3>2. CASE name # NoFile
      <4>1. name' = name /\ DOMAIN data' = DOMAIN data
        BY <2>2, <3>2 DEF Create
      <4> QED BY <4>1 DEF Files
    <3> QED BY <3>1, <3>2
  <2>3. ASSUME NEW l \in Levels, Write(l) PROVE name' = name /\ DOMAIN data' = DOMAIN data
    BY <2>3 DEF Write
  <2> QED BY <2>1, <2>2, <2>3 DEF Files, Next, vars, fileVars, writerVars, Log, StatExisting, OpenExisting,
        StatNew, Rename, RenameFails, Compress, Remove, Expire, Restart
<1>5. Newer(f) \subseteq Newer(f)'
  BY <1>4 DEF Newer
<1>6. IsFiniteSet(Files')
  BY <1>3, FS_Interval
<1>7. IsFiniteSet(Newer(f)')
  BY <1>6, FS_Subset DEF Newer
<1>8. Cardinality(Newer(f)) <= Cardinality(Newer(f)') /\ IsFiniteSet(Newer(f))
  BY <1>5, <1>7, FS_Subset
<1> QED BY <1>5, <1>7, <1>8, FS_CardinalityType

\* A backup is removed only when there are newer ones enough, or for its age.
LEMMA PushedNext == Typed /\ Pushed /\ [Next]_vars => Pushed'
<1> SUFFICES ASSUME Typed, Pushed, [Next]_vars, NEW f \in removed' \ aged'
             PROVE  Cardinality(Newer(f)') >= MaxBackups
  BY DEF Pushed, Newer
<1>1. removed \subseteq Files
  BY LenProperties DEF Typed, FilesTyped, Files
<1>2. MaxBackups \in Nat
  BY ConstantsTyped
<1>3. CASE f \in removed \ aged
  <2>1. Cardinality(Newer(f)) >= MaxBackups /\ f \in Files
    BY <1>1, <1>3 DEF Pushed
  <2> QED BY <1>2, <2>1, NewerGrow
<1>4. CASE f \notin removed \ aged
  <2>1. \/ \E g \in Files : Remove(g) \/ Expire(g)
        \/ removed' = removed /\ aged' = aged
    BY DEF Next, vars, fileVars, writerVars, Log, StatExisting, OpenExisting, StatNew, Rename,
           RenameFails, Create, Write, Compress, Restart
  <2>2. PICK g \in Files : Remove(g)
    BY <1>4, <2>1 DEF Expire
  <2>3. f = g /\ Cardinality(NewerThan(f)) >= MaxBackups
    BY <1>4, <2>2 DEF Remove
  <2>4. f \in Files /\ NewerThan(f) \subseteq Newer(f)
    BY <2>3 DEF NewerThan, Newer, Backups
  <2>5. IsFiniteSet(Newer(f))
    <3>1. IsFiniteSet(Files)
      <4>1. Files = 1 .. Len(data) /\ Len(data) \in Nat
        BY LenProperties DEF Typed, FilesTyped, Files
      <4> QED BY <4>1, FS_Interval
    <3> QED BY <3>1, FS_Subset DEF Newer
  <2>6. /\ Cardinality(NewerThan(f)) <= Cardinality(Newer(f)) /\ Cardinality(NewerThan(f)) \in Nat
    BY <2>4, <2>5, FS_Subset, FS_CardinalityType
  <2>7. /\ Cardinality(Newer(f)) <= Cardinality(Newer(f)')
        /\ Cardinality(Newer(f)) \in Nat /\ Cardinality(Newer(f)') \in Nat
    BY <2>4, NewerGrow
  <2> QED BY <1>2, <2>3, <2>6, <2>7
<1> QED BY <1>3, <1>4

\* A level whose files no other writer opened, renamed or created has every line in
\* a file, or in a backup that was too old or had MaxBackups newer ones, after any
\* rotations and restarts.
THEOREM OwnFilesCorrect == Spec => []OwnFilesKeepAll
<1>1. Init => Known /\ OwnKeeps /\ Pushed
  BY ConstantsTyped DEF Init, Known, OwnKeeps, Own, Keeps, Done, Files, Pushed
<1>2. Typed /\ Known /\ OwnKeeps /\ Pushed /\ [Next]_vars => (Known /\ OwnKeeps /\ Pushed)'
  BY KnownNext, KeepsNext, PushedNext DEF OwnKeeps
<1>3. Typed /\ OwnKeeps /\ Pushed => OwnFilesKeepAll
  <2> SUFFICES ASSUME Typed, OwnKeeps, Pushed, NEW l \in Levels, Own(l), NEW x \in Finished(l)
               PROVE  \E f \in Files :
                        /\ x \in Lines(f)
                        /\ f \in removed \ aged => Cardinality(Newer(f)) >= MaxBackups
    BY DEF OwnFilesKeepAll, Own, Newer
  <2>1. logged[l] \in 0 .. MaxLines /\ MaxLines \in Nat
    BY ConstantsTyped DEF Typed, WritersTyped
  <2>2. PICK n \in 1 .. MaxLines : x = <<l, n>> /\ Done(l, n)
    BY <2>1 DEF Finished, Done
  <2>3. PICK f \in Files : \E i \in 1 .. Len(data[f]) : Line(l, f, i, n)
    BY <2>2 DEF OwnKeeps, Keeps
  <2>4. DOMAIN data[f] = 1 .. Len(data[f])
    BY <2>3, LenProperties, ElementOfSeq DEF Typed, FilesTyped, Files
  <2>5. x \in Lines(f)
    BY <2>2, <2>3, <2>4 DEF Line, Lines
  <2> QED BY <2>5 DEF Pushed
<1> QED BY <1>1, <1>2, <1>3, TypedHolds, PTL DEF Spec

-----------------------------------------------------------------------------
(* Size                                                                    *)

\* The lines that the writers in K may still count up to m.
RoomOf(K, s, m) == {x \in K \X (1 .. m) : s[x[1]] < x[2]}

\* The users of a file that write to it, or return to it.
Keeping(f) == {l \in users[f] : file[l] = f \/ (pc[l] = "append" /\ name = f)}
Room(f) == RoomOf(Keeping(f), size, MaxSize)

\* A file has max_size for each of its users, and what they may still add is
\* part of that; the bound alone is not preserved by the next line.
Bound(f) == Len(data[f]) + Cardinality(Room(f)) <= MaxSize * Cardinality(users[f])

\* A writer's own offset is not past its count.
Counted(l) == file[l] # NoFile /\ off[l] # AtEnd => off[l] <= size[l]

Bounded == (\A f \in Files : Bound(f)) /\ \A l \in Levels : Counted(l)

\* Products of naturals grow with their factors.
LEMMA Times ==
  ASSUME NEW m \in Nat, NEW a \in Nat, NEW b \in Nat, a <= b
  PROVE  m * a \in Nat /\ m * a <= m * b /\ m * (a + 1) = m * a + m /\ m * 1 = m
<1>1. PICK k \in Nat : b = a + k
  <2>1. b - a \in Nat /\ b = a + (b - a)
    OBVIOUS
  <2> QED BY <2>1
<1>2. m * a \in Nat /\ m * k \in Nat
  OBVIOUS
<1>3. m * (a + k) = m * a + m * k
  OBVIOUS
<1> QED BY <1>1, <1>2, <1>3

\* The room of some users of a file, with what any one of them has counted.
LEMMA RoomCount ==
  ASSUME NEW m \in Nat, NEW U \in SUBSET Levels, NEW K \in SUBSET U, NEW s \in [Levels -> 0 .. m]
  PROVE  /\ IsFiniteSet(U) /\ Cardinality(U) \in Nat /\ Cardinality(U) <= Cardinality(Levels)
         /\ IsFiniteSet(RoomOf(K, s, m)) /\ Cardinality(RoomOf(K, s, m)) \in Nat
         /\ \A l \in U : Cardinality(RoomOf(K, s, m)) + s[l] <= m * Cardinality(U)
<1>1. IsFiniteSet(U) /\ Cardinality(U) \in Nat /\ Cardinality(U) <= Cardinality(Levels)
  BY ConstantsTyped, FS_Subset, FS_CardinalityType
<1>2. IsFiniteSet(RoomOf(K, s, m)) /\ Cardinality(RoomOf(K, s, m)) \in Nat
  <2>1. IsFiniteSet(1 .. m)
    BY FS_Interval
  <2>2. IsFiniteSet(U \X (1 .. m))
    BY <1>1, <2>1, FS_Product
  <2>3. RoomOf(K, s, m) \in SUBSET (U \X (1 .. m))
    BY DEF RoomOf
  <2> QED BY <2>2, <2>3, FS_Subset, FS_CardinalityType
<1>3. ASSUME NEW l \in U PROVE Cardinality(RoomOf(K, s, m)) + s[l] <= m * Cardinality(U)
  <2> DEFINE V == U \ {l}  A == V \X (1 .. m)  I == (s[l] + 1) .. m  B == {l} \X I
  <2>0. s[l] \in 0 .. m
    BY <1>3
  <2>1. /\ IsFiniteSet(V) /\ Cardinality(V) = Cardinality(U) - 1
    BY <1>1, <1>3, FS_RemoveElement
  <2>2. IsFiniteSet(1 .. m) /\ Cardinality(1 .. m) = m
    <3>1. 1 \in Int /\ m \in Int
      OBVIOUS
    <3> QED BY <3>1, FS_Interval
  <2>3. IsFiniteSet(I) /\ Cardinality(I) = m - s[l]
    <3> DEFINE a == s[l] + 1
    <3>1. a \in Int /\ m \in Int
      BY <2>0
    <3> HIDE DEF a
    <3>2. /\ IsFiniteSet(a .. m)
          /\ Cardinality(a .. m) = IF a > m THEN 0 ELSE m - a + 1
      BY <3>1, FS_Interval
    <3>3. (IF a > m THEN 0 ELSE m - a + 1) = m - s[l]
      BY <2>0 DEF a
    <3> QED BY <3>2, <3>3 DEF a
  <2>4. IsFiniteSet({l}) /\ Cardinality({l}) = 1
    BY FS_Singleton
  <2> HIDE DEF V, I
  <2>5. IsFiniteSet(A) /\ Cardinality(A) = Cardinality(V) * m
    BY <2>1, <2>2, FS_Product
  <2>6. IsFiniteSet(B) /\ Cardinality(B) = 1 * Cardinality(I)
    BY <2>3, <2>4, FS_Product
  <2>7. RoomOf(K, s, m) \in SUBSET (A \cup B)
    BY <2>0 DEF RoomOf, V, I
  <2> HIDE DEF A, B
  <2>8. /\ IsFiniteSet(A \cup B) /\ Cardinality(A \cap B) \in Nat
        /\ Cardinality(A \cup B) = Cardinality(A) + Cardinality(B) - Cardinality(A \cap B)
    BY <2>5, <2>6, FS_Union, FS_Subset, FS_CardinalityType
  <2>9. Cardinality(RoomOf(K, s, m)) <= Cardinality(A \cup B)
    BY <2>7, <2>8, FS_Subset
  <2>10. Cardinality(V) \in Nat /\ Cardinality(V) + 1 = Cardinality(U)
    BY <1>1, <2>1, FS_CardinalityType
  <2>11. m * Cardinality(U) = Cardinality(V) * m + m
    <3> DEFINE c == Cardinality(V)
    <3>1. c \in Nat /\ c + 1 = Cardinality(U)
      BY <2>10
    <3> HIDE DEF c
    <3>2. m * (c + 1) = c * m + m
      BY <3>1
    <3> QED BY <3>1, <3>2 DEF c
  <2>12. Cardinality(V) * m \in Nat
    BY <2>10
  <2> QED BY <1>2, <2>0, <2>3, <2>5, <2>6, <2>8, <2>9, <2>11, <2>12
<1> QED BY <1>1, <1>2, <1>3

\* A file that a step leaves no longer than what one of its users counts is
\* within bounds.
LEMMA BoundIfCounted ==
  ASSUME Typed', NEW f \in Files', NEW l \in users'[f], Len(data'[f]) <= size'[l]
  PROVE  Bound(f)'
<1>1. /\ users'[f] \in SUBSET Levels /\ MaxSize' \in Nat /\ size' \in [Levels -> 0 .. MaxSize']
      /\ Len(data'[f]) \in Nat
  BY LenProperties, ElementOfSeq DEF Typed, FilesTyped, WritersTyped, Files
<1>2. Keeping(f)' \in SUBSET users'[f]
  BY DEF Keeping
<1>3. /\ Cardinality(Room(f)') + size'[l] <= MaxSize' * Cardinality(users'[f])
      /\ Cardinality(users'[f]) \in Nat /\ Cardinality(Room(f)') \in Nat
  BY <1>1, <1>2, RoomCount DEF Room
<1>4. MaxSize' * Cardinality(users'[f]) \in Nat
  BY <1>1, <1>3, Times
<1> QED BY <1>1, <1>3, <1>4 DEF Bound

\* Who becomes a user of a file that was there.
LEMMA Joins ==
  ASSUME Typed, [Next]_vars, NEW f \in Files, NEW l \in users'[f] \ users[f]
  PROVE  \/ (OpenExisting(l) \/ Create(l)) /\ name = f
         \/ StatNew(l) \/ Rename(l)
<1>0. Files = 1 .. Len(data) /\ Len(data) \in Nat /\ name \in {NoFile, Len(data)} /\ NoFile = 0
  BY LenProperties, ConstantsTyped DEF Typed, FilesTyped, Files
<1>1. ASSUME NEW v \in Levels, Create(v) PROVE l = v /\ name = f
  <2>1. /\ Len(data') = IF name = NoFile THEN Len(data) + 1 ELSE Len(data)
        /\ \A g \in Files : g # Len(data') => users'[g] = users[g]
        /\ users'[Len(data')] = IF name = NoFile THEN {v} ELSE users[Len(data')] \cup {v}
    BY <1>0, <1>1, CreateData
  <2>2. f = Len(data')
    BY <2>1
  <2> QED BY <1>0, <2>1, <2>2
<1>2. ASSUME NEW v \in Levels, Uses(v, name), name # NoFile PROVE l = v /\ name = f
  <2>1. name \in 1 .. Len(data)
    BY <1>0, <1>2
  <2>2. \A g \in 1 .. Len(data) :
          users'[g] = IF g = name THEN users[name] \cup {v} ELSE users[g]
    BY <1>2, <2>1, UsesMore
  <2> QED BY <1>0, <2>2
<1>3. CASE UNCHANGED users
  BY <1>3
<1>4. CASE \/ \E level \in Levels \cup {Unknown} : Log(level)
           \/ \E v \in Levels : StatExisting(v) \/ RenameFails(v) \/ Write(v)
           \/ \E g \in Files : Compress(g) \/ Remove(g) \/ Expire(g)
           \/ Restart \/ UNCHANGED vars
  BY <1>3, <1>4
  DEF vars, Log, StatExisting, RenameFails, Write, Compress, Remove, Expire, Restart
<1>5. ASSUME NEW v \in Levels, OpenExisting(v)
      PROVE  OpenExisting(l) /\ name = f
  BY <1>2, <1>3, <1>5 DEF OpenExisting
<1>6. ASSUME NEW v \in Levels, StatNew(v) \/ Rename(v)
      PROVE  StatNew(l) \/ Rename(l)
  BY <1>2, <1>3, <1>6 DEF StatNew, Rename
<1> QED BY <1>1, <1>4, <1>5, <1>6 DEF Next

\* How a user comes to write to a file; one that wrote before counted no less.
LEMMA RoomSteps ==
  ASSUME Typed, [Next]_vars, NEW f \in Files, NEW l \in Keeping(f)'
  PROVE  \/ l \in Keeping(f) /\ size[l] <= size'[l]
         \/ name = f /\ ((OpenExisting(l) /\ l \notin users[f]) \/ StatExisting(l) \/ Create(l))
<1>0. /\ Files = 1 .. Len(data) /\ Len(data) \in Nat /\ name \in {NoFile, Len(data)} /\ NoFile = 0
      /\ l \in Levels /\ Holds(l) /\ f # NoFile
      /\ file \in [Levels -> 0 .. Len(data)] /\ size \in [Levels -> 0 .. MaxSize] /\ MaxSize \in Nat
      /\ pc \in [Levels -> {"idle", "open", "append", "stat", "rename", "create", "write"}]
  <2>1. Typed'
    BY TypedNext
  <2>2. f \in Files' /\ l \in users'[f]
    BY UsersGrow DEF Keeping
  <2>3. users'[f] \in SUBSET Levels
    BY <2>1, <2>2, LenProperties, ElementOfSeq DEF Typed, FilesTyped, Files
  <2>4. Files = 1 .. Len(data) /\ Len(data) \in Nat /\ name \in {NoFile, Len(data)} /\ NoFile = 0
    BY LenProperties, ConstantsTyped DEF Typed, FilesTyped, Files
  <2>5. l \in Levels /\ f # NoFile
    BY <2>2, <2>3, <2>4
  <2> QED BY <2>4, <2>5 DEF Typed, FilesTyped, WritersTyped
<1>1. l \in users'[f] /\ (file'[l] = f \/ (pc'[l] = "append" /\ name' = f))
  BY DEF Keeping
<1>2. ASSUME StatNew(l) \/ Rename(l) PROVE FALSE
  BY <1>0, <1>1, <1>2 DEF StatNew, Rename, GoTo, writerVars, Holds
<1>3. CASE l \notin users[f]
  <2>1. (OpenExisting(l) \/ Create(l)) /\ name = f
    BY <1>1, <1>2, <1>3, Joins
  <2> QED BY <1>3, <2>1
<1>4. ASSUME l \in users[f], file[l] = f \/ (pc[l] = "append" /\ name = f)
      PROVE  l \in Keeping(f)
  BY <1>4 DEF Keeping
<1>5. CASE l \in users[f]
  <2>1. ASSUME NEW level \in Levels \cup {Unknown}, Log(level)
        PROVE  size[l] <= size'[l] /\ (file[l] = f \/ (pc[l] = "append" /\ name = f))
    BY <1>0, <1>1, <2>1, ConstantsTyped DEF Log, WriterOf, GoTo, fileVars
  <2>2. ASSUME NEW v \in Levels, v # l,
               \/ StatExisting(v) \/ OpenExisting(v) \/ StatNew(v) \/ Rename(v)
               \/ RenameFails(v) \/ Create(v) \/ Write(v)
        PROVE  size[l] <= size'[l] /\ (file[l] = f \/ (pc[l] = "append" /\ name = f))
    <3>1. size'[l] = size[l] /\ file'[l] = file[l] /\ pc'[l] = pc[l]
      BY <1>0, <2>2 DEF StatExisting, OpenExisting, StatNew, Rename, RenameFails, Create,
         Write, GoTo, writerVars
    <3>2. name' = f => name = f
      BY <1>0, <2>2 DEF StatExisting, OpenExisting, StatNew, Rename, RenameFails, Create,
         Write, fileVars
    <3> QED BY <1>0, <1>1, <3>1, <3>2
  <2>3. ASSUME StatExisting(l) PROVE name = f
    BY <1>0, <1>1, <2>3 DEF StatExisting, GoTo, fileVars, Holds
  <2>4. ASSUME OpenExisting(l)
        PROVE  size[l] <= size'[l] /\ pc[l] = "append" /\ name = f
    BY <1>0, <1>1, <2>4 DEF OpenExisting, GoTo, fileVars, Holds
  <2>5. ASSUME RenameFails(l) PROVE FALSE
    BY <1>0, <1>1, <2>5 DEF RenameFails, GoTo, writerVars, Holds
  <2>6. ASSUME Create(l) PROVE name = f
    BY <1>0, <1>1, <2>6 DEF Create, GoTo
  <2>7. ASSUME Write(l) PROVE size[l] <= size'[l] /\ file[l] = f
    BY <1>0, <1>1, <2>7 DEF Write, GoTo
  <2>8. ASSUME Restart PROVE FALSE
    BY <1>0, <1>1, <2>8 DEF Restart
  <2>9. ASSUME UNCHANGED <<name, file, size, pc>>
        PROVE  size[l] <= size'[l] /\ (file[l] = f \/ (pc[l] = "append" /\ name = f))
    BY <1>0, <1>1, <2>9
  <2> DEFINE Goal ==
        \/ l \in Keeping(f) /\ size[l] <= size'[l]
        \/ name = f /\ ((OpenExisting(l) /\ l \notin users[f]) \/ StatExisting(l) \/ Create(l))
  <2>10. ASSUME NEW v \in Levels,
                \/ StatExisting(v) \/ OpenExisting(v) \/ StatNew(v) \/ Rename(v)
                \/ RenameFails(v) \/ Create(v) \/ Write(v)
         PROVE  Goal
    <3>1. CASE v = l
      BY <1>2, <1>4, <1>5, <2>3, <2>4, <2>5, <2>6, <2>7, <2>10, <3>1
    <3>2. CASE v # l
      BY <1>4, <1>5, <2>2, <2>10, <3>2
    <3> QED BY <3>1, <3>2
  <2>11. ASSUME NEW level \in Levels \cup {Unknown}, Log(level) PROVE Goal
    BY <1>4, <1>5, <2>1, <2>11
  <2>12. ASSUME UNCHANGED <<name, file, size, pc>> PROVE Goal
    BY <1>4, <1>5, <2>9, <2>12
  <2> HIDE DEF Goal
  <2>13. Goal
    BY <2>8, <2>10, <2>11, <2>12 DEF Next, vars, writerVars, fileVars, Compress, Remove, Expire
  <2> QED BY <2>13 DEF Goal
<1> QED BY <1>3, <1>5

\* A writer that creates a file counts from its start, and goes on with its offset.
LEMMA CountedNext ==
  ASSUME Typed, \A v \in Levels : Counted(v), [Next]_vars, NEW l \in Levels
  PROVE  Counted(l)'
<1> DEFINE Pcs == {"idle", "open", "append", "stat", "rename", "create", "write"}
<1>0. /\ file \in [Levels -> 0 .. Len(data)] /\ size \in [Levels -> 0 .. MaxSize] /\ MaxSize \in Nat
      /\ off \in [Levels -> 0 .. AtEnd] /\ AtEnd \in Nat /\ NoFile = 0
      /\ \A v \in Levels : Holds(v) /\ Counted(v)
  BY ConstantsTyped DEF Typed, FilesTyped, WritersTyped
<1>1. ASSUME NEW level \in Levels \cup {Unknown}, Log(level) PROVE Counted(l)'
  BY <1>0, <1>1, ConstantsTyped DEF Log, WriterOf, Counted
<1>2. ASSUME NEW v \in Levels, StatExisting(v) PROVE Counted(l)'
  BY <1>0, <1>2 DEF StatExisting, Counted, Holds
<1>3. ASSUME NEW v \in Levels, OpenExisting(v) PROVE Counted(l)'
  BY <1>0, <1>3 DEF OpenExisting, Counted
<1>4. ASSUME NEW v \in Levels, Create(v) PROVE Counted(l)'
  BY <1>0, <1>4 DEF Create, Counted
<1>5. ASSUME NEW v \in Levels, Write(v) PROVE Counted(l)'
  BY <1>0, <1>5 DEF Write, Counted
<1>6. CASE Restart
  BY <1>0, <1>6 DEF Restart, Counted
<1>7. CASE UNCHANGED writerVars
  BY <1>0, <1>7 DEF writerVars, Counted
<1> QED BY <1>1, <1>2, <1>3, <1>4, <1>5, <1>6, <1>7
     DEF Next, vars, StatNew, Rename, RenameFails, Compress, Remove, Expire

\* No one comes to write to a file: its room grows no more.
LEMMA RoomShrinks ==
  ASSUME Typed, [Next]_vars, NEW f \in Files,
         \A l \in Levels : name = f =>
           /\ OpenExisting(l) => l \in users[f]
           /\ StatExisting(l) => l \notin Keeping(f)'
           /\ ~Create(l)
  PROVE  MaxSize' = MaxSize /\ Room(f)' \subseteq Room(f)
<1>1. MaxSize' = MaxSize
  BY DEF Next, vars, Log, StatExisting, OpenExisting, StatNew, Rename, RenameFails, Create,
     Write, Compress, Remove, Expire, Restart
<1>2. \A l \in Keeping(f)' : l \in Keeping(f) /\ size[l] <= size'[l]
  <2>1. users'[f] \in SUBSET Levels
    BY SMTT(30), UsersGrow, TypedNext, LenProperties, ElementOfSeq DEF Typed, FilesTyped, Files
  <2>2. Keeping(f)' \subseteq Levels
    BY <2>1 DEF Keeping
  <2> QED BY <2>2, RoomSteps
<1>3. /\ size \in [Levels -> 0 .. MaxSize] /\ size' \in [Levels -> 0 .. MaxSize]
      /\ MaxSize \in Nat /\ Keeping(f) \subseteq Levels
  BY SMTT(30), <1>1, TypedNext, ElementOfSeq DEF Typed, FilesTyped, WritersTyped, Files, Keeping
<1>4. Room(f)' = {x \in Keeping(f)' \X (1 .. MaxSize) : size'[x[1]] < x[2]}
  BY <1>1 DEF Room, RoomOf
<1>5. Room(f) = {x \in Keeping(f) \X (1 .. MaxSize) : size[x[1]] < x[2]}
  BY DEF Room, RoomOf
<1>6. ASSUME NEW x \in Room(f)' PROVE x \in Room(f)
  <2>1. x[1] \in Keeping(f)' /\ x[2] \in 1 .. MaxSize /\ x = <<x[1], x[2]>> /\ size'[x[1]] < x[2]
    BY <1>4, <1>6
  <2>2. x[1] \in Keeping(f) /\ size[x[1]] <= size'[x[1]]
    BY <1>2, <2>1
  <2>3. size[x[1]] < x[2]
    BY <1>3, <2>1, <2>2
  <2> QED BY <1>5, <2>1, <2>2, <2>3
<1> QED BY <1>1, <1>6

\* The numbers of a file, before and after.
LEMMA Numbers ==
  ASSUME Typed, NEW f \in Files
  PROVE  /\ MaxSize \in Nat /\ users[f] \in SUBSET Levels /\ Len(data[f]) \in Nat
         /\ IsFiniteSet(users[f]) /\ Cardinality(users[f]) \in Nat
         /\ Cardinality(users[f]) <= Cardinality(Levels)
         /\ IsFiniteSet(Room(f)) /\ Cardinality(Room(f)) \in Nat
<1>1. /\ users[f] \in SUBSET Levels /\ MaxSize \in Nat /\ size \in [Levels -> 0 .. MaxSize]
      /\ Len(data[f]) \in Nat
  BY LenProperties, ElementOfSeq DEF Typed, FilesTyped, WritersTyped, Files
<1>2. Keeping(f) \in SUBSET users[f]
  BY DEF Keeping
<1> QED BY <1>1, <1>2, RoomCount DEF Room

\* A file that got no longer, and no more room, is within bounds as before.
LEMMA BoundStays ==
  ASSUME Typed, [Next]_vars, NEW f \in Files, Bound(f), MaxSize' = MaxSize,
         NEW k \in Nat, Len(data'[f]) <= Len(data[f]) + k, Len(data'[f]) \in Nat,
         IsFiniteSet(Room(f)'), Cardinality(Room(f)') + k <= Cardinality(Room(f))
  PROVE  Bound(f)'
<1>1. f \in Files' /\ users[f] \in SUBSET users'[f]
  BY UsersGrow
<1>2. users'[f] \in SUBSET Levels
  BY <1>1, TypedNext, LenProperties, ElementOfSeq DEF Typed, FilesTyped, Files
<1>3. IsFiniteSet(users'[f]) /\ Cardinality(users'[f]) \in Nat
  BY <1>2, ConstantsTyped, FS_Subset, FS_CardinalityType
<1>4. Cardinality(users[f]) <= Cardinality(users'[f])
  BY <1>1, <1>3, FS_Subset
<1>5. /\ MaxSize * Cardinality(users[f]) \in Nat
      /\ MaxSize * Cardinality(users[f]) <= MaxSize * Cardinality(users'[f])
  BY <1>3, <1>4, Numbers, Times
<1>6. MaxSize * Cardinality(users'[f]) \in Nat
  BY <1>3, Numbers, Times
<1>7. Cardinality(Room(f)') \in Nat
  BY FS_CardinalityType
<1>8. Len(data'[f]) + Cardinality(Room(f)') <= MaxSize * Cardinality(users'[f])
  <2> DEFINE a == MaxSize * Cardinality(users[f])  b == MaxSize * Cardinality(users'[f])
  <2>1. a \in Nat /\ b \in Nat /\ a <= b /\ Len(data[f]) + Cardinality(Room(f)) <= a
    BY <1>5, <1>6 DEF Bound
  <2> HIDE DEF a, b
  <2>2. Len(data'[f]) + Cardinality(Room(f)') <= b
    BY SMTT(30), <1>7, <2>1, Numbers
  <2> QED BY <2>2 DEF b
<1> QED BY <1>8 DEF Bound

\* A writer that was no user brings max_size with it.
LEMMA BoundWithUser ==
  ASSUME Typed, [Next]_vars, NEW f \in Files, Bound(f), NEW l \in Levels \ users[f],
         OpenExisting(l), name = f
  PROVE  Bound(f)'
<1>0. /\ f \in 1 .. Len(data) /\ f # NoFile /\ size \in [Levels -> 0 .. MaxSize] /\ MaxSize \in Nat
      /\ file \in [Levels -> 0 .. Len(data)]
      /\ pc \in [Levels -> {"idle", "open", "append", "stat", "rename", "create", "write"}]
  BY LenProperties, ConstantsTyped DEF Typed, FilesTyped, WritersTyped, Files
<1>1. /\ UNCHANGED <<MaxSize, name, data, size>> /\ Uses(l, f)
      /\ file' = [file EXCEPT ![l] = f] /\ pc' = [pc EXCEPT ![l] = "write"]
  BY <1>0 DEF OpenExisting, GoTo, fileVars
<1>2. users'[f] = users[f] \cup {l}
  BY <1>0, <1>1, UsesMore
<1>3. Keeping(f)' \subseteq Keeping(f) \cup {l}
  BY <1>0, <1>1, <1>2, Numbers DEF Keeping
<1>4. Room(f)' \subseteq Room(f) \cup RoomOf({l}, size, MaxSize)
  BY <1>1, <1>3 DEF Room, RoomOf
<1>5. /\ IsFiniteSet(RoomOf({l}, size, MaxSize)) /\ Cardinality(RoomOf({l}, size, MaxSize)) \in Nat
      /\ Cardinality(RoomOf({l}, size, MaxSize)) <= MaxSize
  <2>1. {l} \in SUBSET Levels /\ {l} \in SUBSET {l} /\ l \in {l} /\ Cardinality({l}) = 1
    BY FS_Singleton
  <2>2. /\ IsFiniteSet(RoomOf({l}, size, MaxSize)) /\ Cardinality(RoomOf({l}, size, MaxSize)) \in Nat
        /\ Cardinality(RoomOf({l}, size, MaxSize)) + size[l] <= MaxSize * 1
    BY <1>0, <2>1, RoomCount
  <2>3. size[l] \in Nat /\ MaxSize * 1 = MaxSize
    BY <1>0
  <2> QED BY <1>0, <2>2, <2>3
<1>6. /\ Cardinality(Room(f)') \in Nat
      /\ Cardinality(Room(f)') <= Cardinality(Room(f)) + MaxSize
  <2> DEFINE A == Room(f)  B == RoomOf({l}, size, MaxSize)  C == Room(f)'
  <2>1. IsFiniteSet(A) /\ IsFiniteSet(B) /\ Cardinality(A) \in Nat /\ Cardinality(B) \in Nat
        /\ C \in SUBSET (A \cup B) /\ Cardinality(B) <= MaxSize
    BY <1>4, <1>5, Numbers
  <2> HIDE DEF A, B, C
  <2>2. /\ IsFiniteSet(A \cup B)
        /\ Cardinality(A \cup B) = Cardinality(A) + Cardinality(B) - Cardinality(A \cap B)
    BY <2>1, FS_Union
  <2>3. Cardinality(A \cap B) \in Nat
    BY <2>1, FS_Subset, FS_CardinalityType
  <2>4. IsFiniteSet(C) /\ Cardinality(C) <= Cardinality(A \cup B) /\ Cardinality(C) \in Nat
    BY <2>1, <2>2, FS_Subset, FS_CardinalityType
  <2>5. Cardinality(C) \in Nat /\ Cardinality(C) <= Cardinality(A) + MaxSize
    BY <1>0, <2>1, <2>2, <2>3, <2>4
  <2> QED BY <2>5 DEF A, C
<1>7. Cardinality(users'[f]) = Cardinality(users[f]) + 1
  BY <1>2, Numbers, FS_AddElement
<1>8. /\ MaxSize * Cardinality(users[f]) \in Nat
      /\ MaxSize * (Cardinality(users[f]) + 1) = MaxSize * Cardinality(users[f]) + MaxSize
  BY Numbers, Times
<1>9. Len(data[f]) + Cardinality(Room(f)') <= MaxSize * Cardinality(users'[f])
  <2> DEFINE a == MaxSize * Cardinality(users[f])  b == MaxSize * Cardinality(users'[f])
  <2>1. a \in Nat /\ b = a + MaxSize /\ Len(data[f]) + Cardinality(Room(f)) <= a
    BY <1>7, <1>8 DEF Bound
  <2> HIDE DEF a, b
  <2>2. Len(data[f]) + Cardinality(Room(f)') <= b
    BY <1>0, <1>6, <2>1, Numbers
  <2> QED BY <2>2 DEF b
<1> QED BY <1>1, <1>9 DEF Bound

\* A line takes of its writer's room, or goes no further than its writer counts.
LEMMA BoundWrite ==
  ASSUME Typed, Bounded, [Next]_vars, NEW l \in Levels, Write(l), file[l] \notin archived,
         NEW f \in Files, f = file[l]
  PROVE  Bound(f)'
<1>0. /\ size \in [Levels -> 0 .. MaxSize] /\ MaxSize \in Nat /\ AtEnd \in Nat
      /\ off \in [Levels -> 0 .. AtEnd] /\ size[l] < MaxSize /\ f # NoFile /\ l \in users[f]
      /\ pc[l] = "write" /\ pc' = [pc EXCEPT ![l] = "idle"]
      /\ size' = [size EXCEPT ![l] = size[l] + 1] /\ UNCHANGED <<MaxSize, file, users, name>>
  <2>1. /\ pc[l] = "write" /\ pc' = [pc EXCEPT ![l] = "idle"]
        /\ size' = [size EXCEPT ![l] = size[l] + 1] /\ UNCHANGED <<MaxSize, file, users, name>>
    BY DEF Write, GoTo
  <2>2. Holds(l)
    BY DEF Typed
  <2>3. /\ size \in [Levels -> 0 .. MaxSize] /\ MaxSize \in Nat /\ AtEnd \in Nat
        /\ off \in [Levels -> 0 .. AtEnd]
    BY ConstantsTyped DEF Typed, FilesTyped, WritersTyped
  <2> QED BY <2>1, <2>2, <2>3 DEF Holds
<1>1. Bound(f) /\ Counted(l)
  BY DEF Bounded
<1>2. /\ Len(data[f]) \in Nat /\ Place(l) \in Nat /\ f \in Files'
      /\ Len(data'[f]) = Larger(Place(l) + 1, Len(data[f]))
  BY <1>0, Numbers, UsersGrow, WriteData DEF Place
<1>3. MaxSize' = MaxSize /\ Room(f)' \subseteq Room(f)
  <2>1. ASSUME NEW v \in Levels, StatExisting(v) \/ OpenExisting(v) \/ Create(v) PROVE FALSE
    <3>1. pc[v] # "write" /\ v # l /\ pc'[v] # pc[v]
      BY <1>0, <2>1 DEF StatExisting, OpenExisting, Create, GoTo, Typed, WritersTyped
    <3> QED BY <1>0, <3>1 DEF Typed, WritersTyped
  <2> QED BY <2>1, RoomShrinks
<1>4. CASE off[l] = AtEnd
  <2> DEFINE x == <<l, size[l] + 1>>
  <2>1. x \in Room(f) /\ x \notin Room(f)'
    <3>1. l \in Keeping(f) /\ size[l] + 1 \in 1 .. MaxSize
      BY <1>0 DEF Keeping
    <3>2. size'[l] = size[l] + 1
      BY <1>0
    <3> QED BY <1>0, <3>1, <3>2 DEF Room, RoomOf
  <2> HIDE DEF x
  <2>2. IsFiniteSet(Room(f) \ {x}) /\ Cardinality(Room(f) \ {x}) = Cardinality(Room(f)) - 1
    BY <2>1, Numbers, FS_RemoveElement
  <2>3. Room(f)' \in SUBSET (Room(f) \ {x})
    BY <1>3, <2>1
  <2>4. IsFiniteSet(Room(f)') /\ Cardinality(Room(f)') <= Cardinality(Room(f)) - 1
    <3> DEFINE C == Room(f)'  A == Room(f) \ {x}
    <3>1. IsFiniteSet(A) /\ C \in SUBSET A /\ Cardinality(A) = Cardinality(Room(f)) - 1
      BY <2>2, <2>3
    <3> HIDE DEF A, C
    <3>2. IsFiniteSet(C) /\ Cardinality(C) <= Cardinality(A)
      BY <3>1, FS_Subset
    <3> QED BY <3>1, <3>2 DEF C
  <2>5. Cardinality(Room(f)') + 1 <= Cardinality(Room(f))
    BY <2>4, Numbers, FS_CardinalityType
  <2>6. Len(data'[f]) \in Nat /\ Len(data'[f]) <= Len(data[f]) + 1
    BY <1>2, <1>4 DEF Place, Larger
  <2> QED BY <1>0, <1>1, <2>4, <2>5, <2>6, BoundStays
<1>5. CASE off[l] # AtEnd /\ Len(data[f]) <= off[l]
  <2>1. off[l] <= size[l] /\ Place(l) = off[l] /\ off[l] \in Nat /\ size[l] \in Nat
    BY <1>0, <1>1, <1>5 DEF Counted, Place
  <2>2. Len(data'[f]) <= size[l] + 1
    BY <1>2, <1>5, <2>1 DEF Larger
  <2>3. size'[l] = size[l] + 1 /\ l \in users'[f]
    BY <1>0
  <2> QED BY <1>2, <2>2, <2>3, TypedNext, BoundIfCounted
<1>6. CASE off[l] # AtEnd /\ ~(Len(data[f]) <= off[l])
  <2>1. Place(l) = off[l] /\ off[l] \in Nat
    BY <1>0, <1>6 DEF Place
  <2>2. Len(data'[f]) = Len(data[f])
    BY <1>2, <1>6, <2>1 DEF Larger
  <2>3. IsFiniteSet(Room(f)') /\ Cardinality(Room(f)') + 0 <= Cardinality(Room(f))
    <3> DEFINE C == Room(f)'
    <3>1. C \in SUBSET Room(f)
      BY <1>3
    <3> HIDE DEF C
    <3>2. IsFiniteSet(C) /\ Cardinality(C) <= Cardinality(Room(f)) /\ Cardinality(C) \in Nat
      BY <3>1, Numbers, FS_Subset, FS_CardinalityType
    <3> QED BY <3>2 DEF C
  <2>4. Len(data'[f]) <= Len(data[f]) + 0 /\ Len(data'[f]) \in Nat /\ 0 \in Nat
    BY <1>2, <2>2
  <2> QED BY <1>0, <1>1, <2>3, <2>4, BoundStays
<1> QED BY <1>4, <1>5, <1>6

\* Every step keeps every file within the bound.
LEMMA BoundNext == Typed /\ Bounded /\ [Next]_vars => Bounded'
<1> SUFFICES ASSUME Typed, Bounded, [Next]_vars, NEW f \in Files' PROVE Bound(f)'
  BY CountedNext DEF Bounded
<1>0. /\ Files = 1 .. Len(data) /\ Len(data) \in Nat /\ name \in {NoFile, Len(data)} /\ NoFile = 0
      /\ file \in [Levels -> 0 .. Len(data)] /\ size \in [Levels -> 0 .. MaxSize]
      /\ pc \in [Levels -> {"idle", "open", "append", "stat", "rename", "create", "write"}]
  BY LenProperties, ConstantsTyped DEF Typed, FilesTyped, WritersTyped, Files
<1>1. ASSUME NEW l \in Levels, Create(l), f = Len(data') PROVE Bound(f)'
  <2>1. data'[f] = <<>> /\ l \in users'[f]
    BY <1>1, CreateData
  <2>2. size'[l] = 0
    BY <1>0, <1>1 DEF Create
  <2> QED BY <2>1, <2>2, EmptySeq, TypedNext, BoundIfCounted
<1>2. f \in Files \/ \E l \in Levels : Create(l) /\ f = Len(data')
  <2>1. ASSUME NEW l \in Levels, Create(l) PROVE f \in Files \/ f = Len(data')
    <3>1. /\ Len(data') = IF name = NoFile THEN Len(data) + 1 ELSE Len(data)
          /\ data' \in Seq(Seq(Cell))
      BY <2>1, CreateData
    <3>2. f \in 1 .. Len(data')
      BY <3>1, LenProperties DEF Files
    <3> QED BY <1>0, <3>1, <3>2
  <2>2. ASSUME NEW l \in Levels, Write(l) PROVE f \in Files
    <3>1. data' \in Seq(Seq(Cell)) /\ Len(data') = Len(data)
      BY <2>2, WriteData
    <3> QED BY <1>0, <3>1, LenProperties DEF Files
  <2>3. CASE UNCHANGED data
    BY <2>3 DEF Files
  <2> QED BY <2>1, <2>2, <2>3 DEF Next, vars, fileVars, writerVars, Log, StatExisting,
       OpenExisting, StatNew, Rename, RenameFails, Compress, Remove, Expire, Restart
<1>3. ASSUME NEW l \in Levels, StatExisting(l), f \in Files, name = f, l \in Keeping(f)'
      PROVE  Bound(f)'
  <2>1. file'[l] = NoFile /\ f # NoFile
    BY <1>0, <1>3 DEF StatExisting, Typed, Holds
  <2>2. pc'[l] = "append"
    BY <1>3, <2>1 DEF Keeping
  <2>3. size'[l] = Len(data[f]) /\ data' = data
    BY <1>0, <1>3, <2>2 DEF StatExisting, GoTo, fileVars
  <2>4. l \in users'[f] /\ Len(data[f]) \in Nat
    BY <1>3, Numbers DEF Keeping
  <2> QED BY <2>3, <2>4, TypedNext, BoundIfCounted
<1>4. ASSUME NEW l \in Levels, OpenExisting(l), f \in Files, name = f, l \notin users[f]
      PROVE  Bound(f)'
  BY <1>4, BoundWithUser DEF Bounded
<1>5. ASSUME NEW l \in Levels, Write(l), f \in Files, f = file[l], file[l] \notin archived
      PROVE  Bound(f)'
  BY <1>5, BoundWrite
<1>6. ASSUME f \in Files,
             ~\E l \in Levels :
                \/ Create(l) /\ f = Len(data')
                \/ StatExisting(l) /\ name = f /\ l \in Keeping(f)'
                \/ OpenExisting(l) /\ name = f /\ l \notin users[f]
                \/ Write(l) /\ f = file[l] /\ file[l] \notin archived
      PROVE  Bound(f)'
  <2>1. ASSUME NEW l \in Levels, Create(l) PROVE name # f /\ data'[f] = data[f]
    <3>1. /\ Len(data') = IF name = NoFile THEN Len(data) + 1 ELSE Len(data)
          /\ \A g \in Files : g # Len(data') => data'[g] = data[g]
      BY <2>1, CreateData
    <3> QED BY <1>0, <1>6, <2>1, <3>1
  <2>2. ASSUME NEW l \in Levels, Write(l) PROVE data'[f] = data[f]
    BY <1>6, <2>2, WriteData
  <2>3. data'[f] = data[f]
    BY <2>1, <2>2 DEF Next, vars, fileVars, writerVars, Log, StatExisting, OpenExisting,
       StatNew, Rename, RenameFails, Compress, Remove, Expire, Restart
  <2>4. MaxSize' = MaxSize /\ Room(f)' \subseteq Room(f)
    <3>1. \A l \in Levels : name = f =>
            /\ OpenExisting(l) => l \in users[f]
            /\ StatExisting(l) => l \notin Keeping(f)'
            /\ ~Create(l)
      BY <1>6, <2>1
    <3> QED BY <1>6, <3>1, RoomShrinks
  <2>5. IsFiniteSet(Room(f)') /\ Cardinality(Room(f)') + 0 <= Cardinality(Room(f))
    <3> DEFINE C == Room(f)'
    <3>1. C \in SUBSET Room(f)
      BY <2>4
    <3> HIDE DEF C
    <3>2. IsFiniteSet(C) /\ Cardinality(C) <= Cardinality(Room(f)) /\ Cardinality(C) \in Nat
      BY <1>6, <3>1, Numbers, FS_Subset, FS_CardinalityType
    <3> QED BY <3>2 DEF C
  <2>6. Len(data'[f]) <= Len(data[f]) + 0 /\ Len(data'[f]) \in Nat /\ 0 \in Nat
    BY <1>6, <2>3, Numbers
  <2> QED BY <1>6, <2>4, <2>5, <2>6, BoundStays DEF Bounded
<1> QED BY <1>1, <1>2, <1>3, <1>4, <1>5, <1>6

\* A file under Filename may grow to max_size for every level, since each writer
\* counts for itself, and however they race it does not grow further.
THEOREM SizeBoundCorrect == Spec => []SizeBound
<1>1. Init => Bounded
  BY ConstantsTyped DEF Init, Bounded, Counted, Files
<1>2. Typed /\ Bounded /\ [Next]_vars => Bounded'
  BY BoundNext
<1>3. Typed /\ Bounded => SizeBound
  <2> SUFFICES ASSUME Typed, Bounded, NEW f \in Files
               PROVE  Len(data[f]) <= MaxSize * Cardinality(Levels)
    BY DEF SizeBound
  <2>1. /\ Cardinality(users[f]) <= Cardinality(Levels) /\ Cardinality(users[f]) \in Nat
        /\ MaxSize \in Nat /\ Len(data[f]) \in Nat /\ Cardinality(Room(f)) \in Nat
        /\ Cardinality(Levels) \in Nat
    BY Numbers, ConstantsTyped, FS_CardinalityType
  <2> DEFINE a == MaxSize * Cardinality(users[f])  b == MaxSize * Cardinality(Levels)
  <2>2. a \in Nat /\ a <= b /\ Len(data[f]) + Cardinality(Room(f)) <= a
    BY <2>1, Times DEF Bounded, Bound
  <2>3. b \in Nat
    BY <2>1, Times
  <2> HIDE DEF a, b
  <2>4. Len(data[f]) <= b
    BY <2>1, <2>2, <2>3
  <2> QED BY <2>4 DEF b
<1> QED BY <1>1, <1>2, <1>3, TypedHolds, PTL DEF Spec
=============================================================================
