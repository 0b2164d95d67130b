------------------------- MODULE ConfigUpdate_proofs -------------------------
(***************************************************************************)
(* Proofs about ConfigUpdate, for any modules, lists and number of calls.  *)
(* The loop of UpdateFilebeatConfig joins what its entries stand for turn  *)
(* by turn; that this is FlattenSeq of them all is an induction over the   *)
(* list, done here with sets of naturals.                                  *)
(***************************************************************************)
EXTENDS ConfigUpdate, SequenceTheorems, FiniteSetTheorems, TLAPS

\* Induction, of a set and not of a predicate: the intervals from 1 to what is
\* outside of T are finite sets, and the least of them leaves no room.
LEMMA NatSetInduction ==
  ASSUME NEW T \in SUBSET Nat, 0 \in T, \A n \in T : n + 1 \in T
  PROVE  T = Nat
<1> DEFINE W == {1 .. n : n \in Nat \ T}
           S == FiniteSubsetsOf(Nat)
           R == StrictSubsetOrdering(Nat)
<1> SUFFICES ASSUME NEW k \in Nat \ T PROVE FALSE
  OBVIOUS
<1>1. IsWellFoundedOn(R, S)
  BY FS_StrictSubsetOrderingWellFounded
<1>2. W \subseteq S
  <2> SUFFICES ASSUME NEW n \in Nat \ T PROVE 1 .. n \in S
    OBVIOUS
  <2>1. n \in Int /\ 1 \in Int /\ 1 .. n \subseteq Nat
    OBVIOUS
  <2>2. IsFiniteSet(1 .. n)
    BY <2>1, FS_Interval
  <2> QED BY <2>1, <2>2 DEF FiniteSubsetsOf
<1>3. W # {}
  OBVIOUS
<1> HIDE DEF R, S, W
<1>4. PICK w \in W : \A y \in W : ~ (<<y, w>> \in R)
  BY <1>1, <1>2, <1>3, WFMin
<1>5. PICK m \in Nat \ T : w = 1 .. m
  BY DEF W
<1>6. m # 0 /\ m - 1 \in Nat /\ m - 1 \notin T
  BY <1>5
<1>7. 1 .. (m - 1) \in W
  BY <1>6 DEF W
<1>8. <<1 .. (m - 1), 1 .. m>> \in R
  BY <1>5, <1>6 DEF R, StrictSubsetOrdering
<1> QED BY <1>4, <1>5, <1>7, <1>8

-----------------------------------------------------------------------------
(* FlattenSeq                                                              *)

\* The recursion of FlattenSeq, for the first n of the sequences s.
Flattens(f, s, n) ==
  f = [i \in 1 .. n |-> IF i = 1 THEN s[i] ELSE f[i - 1] \o s[i]]

\* What the first k of the sequences make together.
Joined(s, k) ==
  IF k = 0 THEN <<>> ELSE (CHOOSE f : Flattens(f, s, Len(s)))[k]

\* The recursion has a solution, whatever the sequences.
LEMMA FlattensExists ==
  ASSUME NEW s, NEW n \in Nat
  PROVE  \E f : Flattens(f, s, n)
<1> DEFINE T == {k \in Nat : \E f : Flattens(f, s, k)}
<1>1. 0 \in T
  <2>1. Flattens([i \in 1 .. 0 |-> 0], s, 0)
    BY DEF Flattens
  <2> QED BY <2>1
<1>2. ASSUME NEW k \in T PROVE k + 1 \in T
  <2>1. PICK f : Flattens(f, s, k)
    OBVIOUS
  <2> DEFINE v == IF k + 1 = 1 THEN s[k + 1] ELSE f[k] \o s[k + 1]
             g == [i \in 1 .. k + 1 |-> IF i = k + 1 THEN v ELSE f[i]]
  <2>2. \A i \in 1 .. k : g[i] = f[i]
    OBVIOUS
  <2>3. \A i \in 1 .. k : f[i] = IF i = 1 THEN s[i] ELSE f[i - 1] \o s[i]
    BY <2>1 DEF Flattens
  <2>4. g[k + 1] = v
    OBVIOUS
  <2>5. ASSUME NEW i \in 1 .. k + 1
        PROVE  g[i] = IF i = 1 THEN s[i] ELSE g[i - 1] \o s[i]
    <3>1. CASE i = k + 1
      <4>1. k # 0 => g[k] = f[k]
        BY <2>2
      <4> QED BY <2>4, <3>1, <4>1
    <3>2. CASE i # k + 1
      <4>1. i \in 1 .. k /\ (i # 1 => i - 1 \in 1 .. k)
        BY <3>2
      <4> QED BY <2>2, <2>3, <4>1
    <3> QED BY <3>1, <3>2
  <2>6. Flattens(g, s, k + 1)
    <3> DEFINE h == [i \in 1 .. k + 1 |-> IF i = 1 THEN s[i] ELSE g[i - 1] \o s[i]]
    <3>1. DOMAIN g = 1 .. k + 1 /\ DOMAIN h = 1 .. k + 1
      OBVIOUS
    <3>2. \A i \in 1 .. k + 1 : g[i] = h[i]
      BY <2>5
    <3>3. g = h
      BY <3>1, <3>2
    <3> QED BY <3>3 DEF Flattens
  <2> QED BY <2>6
<1> HIDE DEF T
<1>3. T \in SUBSET Nat
  BY DEF T
<1>4. T = Nat
  BY <1>1, <1>2, <1>3, NatSetInduction
<1> QED BY <1>4 DEF T

\* So Joined goes on with one sequence at a time.
LEMMA JoinedNext ==
  ASSUME NEW s, Len(s) \in Nat
  PROVE  /\ Joined(s, 0) = <<>>
         /\ \A k \in 1 .. Len(s) :
              Joined(s, k) = IF k = 1 THEN s[1] ELSE Joined(s, k - 1) \o s[k]
<1> DEFINE f == CHOOSE g : Flattens(g, s, Len(s))
<1>1. Flattens(f, s, Len(s))
  BY FlattensExists
<1> HIDE DEF f
<1>2. \A k \in 1 .. Len(s) : f[k] = IF k = 1 THEN s[1] ELSE f[k - 1] \o s[k]
  BY <1>1 DEF Flattens
<1>3. \A k : Joined(s, k) = IF k = 0 THEN <<>> ELSE f[k]
  BY DEF Joined, f
<1>4. Joined(s, 0) = <<>>
  BY <1>3
<1>5. ASSUME NEW k \in 1 .. Len(s)
      PROVE  Joined(s, k) = IF k = 1 THEN s[1] ELSE Joined(s, k - 1) \o s[k]
  <2>1. Joined(s, k) = f[k]
    BY <1>3
  <2>2. CASE k = 1
    BY <1>2, <2>1, <2>2
  <2>3. CASE k # 1
    <3>1. Joined(s, k - 1) = f[k - 1]
      BY <1>3, <2>3
    <3> QED BY <1>2, <2>1, <2>3, <3>1
  <2> QED BY <2>2, <2>3
<1> QED BY <1>4, <1>5

\* And all of them make FlattenSeq.
LEMMA JoinedAll ==
  ASSUME NEW S, NEW s \in Seq(S)
  PROVE  FlattenSeq(s) = Joined(s, Len(s))
<1>1. Len(s) \in Nat /\ (Len(s) = 0 => s = <<>>)
  BY LenProperties, EmptySeq
<1>2. CASE Len(s) = 0
  BY <1>1, <1>2 DEF FlattenSeq, Joined
<1>3. CASE Len(s) # 0
  <2>1. FlattenSeq(s) = (CHOOSE f : Flattens(f, s, Len(s)))[Len(s)]
    BY <1>3 DEF FlattenSeq, Flattens
  <2> QED BY <1>3, <2>1 DEF Joined
<1> QED BY <1>2, <1>3

\* Sequences over one set make one over that set.
LEMMA JoinedType ==
  ASSUME NEW S, NEW s \in Seq(Seq(S))
  PROVE  \A k \in 0 .. Len(s) : Joined(s, k) \in Seq(S)
<1> DEFINE T == {k \in Nat : k <= Len(s) => Joined(s, k) \in Seq(S)}
<1>0. Len(s) \in Nat /\ \A k \in 1 .. Len(s) : s[k] \in Seq(S)
  BY LenProperties, ElementOfSeq
<1>1. 0 \in T
  BY <1>0, JoinedNext, EmptySeq
<1>2. ASSUME NEW k \in T PROVE k + 1 \in T
  <2> SUFFICES ASSUME k + 1 <= Len(s) PROVE Joined(s, k + 1) \in Seq(S)
    OBVIOUS
  <2>1. k \in Nat /\ k + 1 \in 1 .. Len(s) /\ Joined(s, k) \in Seq(S) /\ s[k + 1] \in Seq(S)
    BY <1>0
  <2>2. Joined(s, k + 1) = IF k + 1 = 1 THEN s[1] ELSE Joined(s, (k + 1) - 1) \o s[k + 1]
    BY <1>0, <2>1, JoinedNext
  <2>3. (k + 1) - 1 = k
    BY <2>1
  <2>4. Joined(s, k) \o s[k + 1] \in Seq(S)
    BY <2>1, ConcatProperties
  <2> QED BY <2>1, <2>2, <2>3, <2>4
<1> HIDE DEF T
<1>3. T \in SUBSET Nat
  BY DEF T
<1>4. T = Nat
  BY <1>1, <1>2, <1>3, NatSetInduction
<1> QED BY <1>0, <1>4 DEF T

-----------------------------------------------------------------------------
(* Lists and sections                                                      *)

\* A part of the file.
Part == Names \X {"file", "custom"}

\* What the entries of a list stand for, in their order.
Parts(list, s) == [i \in DOMAIN list |-> Section(list[i], s)]

\* An entry that copies the file that is being made.
Copies(list) == \E i \in DOMAIN list : list[i].mode = 0 /\ list[i].name = Filebeat

\* The constants, unfolded once.
LEMMA ConstantsTyped == Filebeat \notin Modules /\ MaxEntries \in Nat /\ MaxUpdates \in Nat
BY UpdateAssumption DEF UpdateAssumption

\* An entry stands for a sequence of sections.
LEMMA SectionType ==
  ASSUME NEW e \in Entry, NEW s \in Seq(Part)
  PROVE  Section(e, s) \in Seq(Part)
<1>1. e.name \in Names /\ e.mode \in {0, 1, 2}
  BY DEF Entry
<1>2. <<e.name, "file">> \in Part /\ <<e.name, "custom">> \in Part
  BY <1>1 DEF Part
<1> HIDE DEF Part
<1>3. << <<e.name, "file">> >> \in Seq(Part) /\ << <<e.name, "custom">> >> \in Seq(Part)
  BY <1>2
<1>4. <<>> \in Seq(Part)
  BY EmptySeq
<1> QED BY <1>1, <1>3, <1>4 DEF Section

\* So a list stands for one, which the loop has joined when it is through.
LEMMA WantedIs ==
  ASSUME NEW list \in Seq(Entry), NEW s \in Seq(Part)
  PROVE  /\ Parts(list, s) \in Seq(Seq(Part)) /\ Len(Parts(list, s)) = Len(list)
         /\ \A i \in 1 .. Len(list) : Parts(list, s)[i] = Section(list[i], s)
         /\ Wanted(list, s) = Joined(Parts(list, s), Len(list))
         /\ Wanted(list, s) \in Seq(Part)
<1> DEFINE p == Parts(list, s)
<1>1. Len(list) \in Nat /\ DOMAIN list = 1 .. Len(list) /\ \A i \in 1 .. Len(list) : list[i] \in Entry
  BY LenProperties, ElementOfSeq
<1>2. \A i \in 1 .. Len(list) : Section(list[i], s) \in Seq(Part)
  BY <1>1, SectionType
<1> HIDE DEF Part
<1>3. p = [i \in 1 .. Len(list) |-> Section(list[i], s)]
  BY <1>1 DEF Parts
<1>4. p \in Seq(Seq(Part)) /\ Len(p) = Len(list)
  BY <1>1, <1>2, <1>3
<1>5. Wanted(list, s) = FlattenSeq(p)
  BY DEF Wanted, Parts
<1> HIDE DEF p
<1>6. FlattenSeq(p) = Joined(p, Len(p))
  BY <1>4, JoinedAll
<1>7. Joined(p, Len(p)) \in Seq(Part)
  BY <1>1, <1>4, JoinedType
<1>8. \A i \in 1 .. Len(list) : p[i] = Section(list[i], s)
  BY <1>3
<1> QED BY <1>4, <1>5, <1>6, <1>7, <1>8 DEF p

\* A turn of the loop joins what its entry stands for.
LEMMA JoinedTurn ==
  ASSUME NEW list \in Seq(Entry), NEW s \in Seq(Part), NEW k \in 1 .. Len(list)
  PROVE  /\ Joined(Parts(list, s), 0) = <<>>
         /\ Joined(Parts(list, s), k) = Joined(Parts(list, s), k - 1) \o Section(list[k], s)
         /\ Joined(Parts(list, s), k - 1) \in Seq(Part)
<1> DEFINE p == Parts(list, s)
<1>1. /\ p \in Seq(Seq(Part)) /\ Len(p) = Len(list) /\ Len(list) \in Nat
      /\ p[k] = Section(list[k], s) /\ p[k] \in Seq(Part)
  BY WantedIs, LenProperties, ElementOfSeq
<1> HIDE DEF p, Part
<1>2. /\ Joined(p, 0) = <<>>
      /\ Joined(p, k) = IF k = 1 THEN p[1] ELSE Joined(p, k - 1) \o p[k]
  BY <1>1, JoinedNext
<1>3. k - 1 \in 0 .. Len(p)
  BY <1>1
<1>4. Joined(p, k - 1) \in Seq(Part)
  BY <1>1, <1>3, JoinedType
<1>5. k = 1 => <<>> \o p[k] = p[1]
  BY <1>1, ConcatEmptySeq
<1>6. k = 1 => Joined(p, k - 1) = <<>>
  BY <1>2
<1>7. Joined(p, k) = Joined(p, k - 1) \o p[k]
  BY <1>2, <1>5, <1>6
<1> QED BY <1>1, <1>2, <1>4, <1>7 DEF p

\* fixInvalidJson takes the quotes away, and changes nothing that is wanted.
LEMMA FixedList ==
  ASSUME NEW list \in Lists
  PROVE  /\ fixInvalidJson(list) \in Seq(Entry) /\ Len(fixInvalidJson(list)) \in 0 .. MaxEntries
         /\ \A i \in DOMAIN fixInvalidJson(list) : ~fixInvalidJson(list)[i].quoted
         /\ \A s : Wanted(fixInvalidJson(list), s) = Wanted(list, s)
<1> DEFINE c == fixInvalidJson(list)
<1>1. PICK n \in 0 .. MaxEntries : list \in [1 .. n -> Entry]
  BY DEF Lists
<1>2. n \in Nat /\ MaxEntries \in Nat
  BY <1>1, ConstantsTyped
<1>3. c = [i \in 1 .. n |-> [list[i] EXCEPT !.quoted = FALSE]]
  BY <1>1 DEF fixInvalidJson
<1>4. ASSUME NEW i \in 1 .. n
      PROVE  /\ c[i] \in Entry /\ ~c[i].quoted
             /\ c[i].name = list[i].name /\ c[i].mode = list[i].mode
  <2>1. list[i] \in Entry /\ c[i] = [list[i] EXCEPT !.quoted = FALSE]
    BY <1>1, <1>3
  <2> QED BY <2>1 DEF Entry
<1>5. c \in Seq(Entry) /\ Len(c) = n
  BY <1>2, <1>3, <1>4
<1>6. ASSUME NEW s PROVE Parts(c, s) = Parts(list, s)
  <2>1. \A i \in 1 .. n : Section(c[i], s) = Section(list[i], s)
    BY <1>4 DEF Section
  <2>2. DOMAIN c = 1 .. n /\ DOMAIN list = 1 .. n
    BY <1>1, <1>3
  <2> HIDE DEF c
  <2> QED BY <2>1, <2>2 DEF Parts
<1>7. \A s : Wanted(c, s) = Wanted(list, s)
  BY <1>6 DEF Wanted, Parts
<1> QED BY <1>2, <1>3, <1>4, <1>5, <1>7

\* Only a list that copies the file depends on what it holds.
LEMMA WantedAnyway ==
  ASSUME NEW list \in Seq(Entry), ~Copies(list)
  PROVE  \A s, t : Wanted(list, s) = Wanted(list, t)
<1>1. ASSUME NEW s, NEW t, NEW i \in DOMAIN list
      PROVE  Section(list[i], s) = Section(list[i], t)
  <2>1. list[i].mode = 0 => list[i].name # Filebeat
    BY DEF Copies
  <2>2. list[i] \in Entry
    BY ElementOfSeq
  <2>3. list[i].mode \in {0, 1, 2}
    BY <2>2 DEF Entry
  <2> QED BY <2>1, <2>3 DEF Section
<1> QED BY <1>1 DEF Wanted

-----------------------------------------------------------------------------
(* The invariant                                                           *)

\* Every variable has its type, and the loop variable is one of the list.
Typed ==
  /\ TypeOK
  /\ Len(configs) \in 0 .. MaxEntries /\ at \in 1 .. Len(configs) + 1

\* The content is made from the file as it was, entry by entry.
BuildInv ==
  pc = "build" => yml = before /\ content = Joined(Parts(configs, before), at - 1)

\* What a call in progress is to do, and what it knows.
CallInv ==
  pc # "idle" =>
    /\ answer = "none"
    /\ asked = Wanted(configs, before) /\ idealNext = Wanted(configs, ideal)
    /\ ~damaged => before = ideal
    /\ Names \ present \subseteq missed
    /\ \A i \in DOMAIN configs : ~configs[i].quoted

\* The file holds the part of the content that has been written.
WriteInv ==
  pc = "write" =>
    /\ content = asked /\ Len(yml) <= Len(content)
    /\ \A i \in 1 .. Len(yml) : yml[i] = content[i]

\* All of it.
Inv == Typed /\ BuildInv /\ CallInv /\ WriteInv /\ AnswerTells /\ DamageHeals

\* The invariant holds to begin with.
LEMMA InitInv == Init => Inv
<1> SUFFICES ASSUME Init PROVE Inv
  OBVIOUS
<1>1. <<Filebeat, "file">> \in Part
  BY DEF Part, Names
<1>2. First \in Seq(Part) /\ <<>> \in Seq(Part)
  BY <1>1 DEF First
<1>3. Typed
  <2>1. First \in Sections /\ <<>> \in Sections
    BY <1>2 DEF Sections, Part
  <2>2. TypeOK
    <3>1. {yml, running, content, before, asked, ideal, idealNext} \subseteq Sections
      BY <2>1 DEF Init
    <3>2. configs \in Seq(Entry) /\ at \in 1 .. MaxEntries + 1 /\ updates \in 0 .. MaxUpdates
      BY ConstantsTyped DEF Init
    <3> QED BY <3>1, <3>2 DEF Init, TypeOK
  <2>3. Len(configs) = 0 /\ at = 1
    BY DEF Init
  <2> QED BY <2>2, <2>3, ConstantsTyped DEF Typed
<1> QED
  BY <1>3 DEF Init, Inv, BuildInv, CallInv, WriteInv, AnswerTells, DamageHeals

-----------------------------------------------------------------------------
(* One lemma per action, or group of them                                  *)

\* A call begins: the list is parsed and put right.
LEMMA BeginInv ==
  ASSUME Inv, NEW list \in Lists, Begin(list)
  PROVE  Inv'
<1>1. /\ configs' \in Seq(Entry) /\ Len(configs') \in 0 .. MaxEntries
      /\ \A i \in DOMAIN configs' : ~configs'[i].quoted
      /\ \A s : Wanted(configs', s) = Wanted(list, s)
  BY FixedList DEF Begin
<1>2. yml \in Seq(Part) /\ ideal \in Seq(Part) /\ updates \in 0 .. MaxUpdates
  BY DEF Inv, Typed, TypeOK, Sections, Part
<1>3. asked' \in Seq(Part) /\ idealNext' \in Seq(Part)
  BY <1>1, <1>2, WantedIs DEF Begin
<1>4. Typed'
  <2>1. updates' \in 0 .. MaxUpdates
    BY <1>2, ConstantsTyped DEF Begin
  <2>2. at' \in 1 .. Len(configs') + 1 /\ at' \in 1 .. MaxEntries + 1
    BY <1>1, ConstantsTyped DEF Begin
  <2>3. content' \in Seq(Part) /\ before' \in Seq(Part)
    BY <1>2 DEF Begin
  <2> QED
    BY <1>1, <1>3, <2>1, <2>2, <2>3
    DEF Inv, Typed, TypeOK, Sections, Part, Begin
<1>5. BuildInv'
  <2>1. at' - 1 = 0
    BY DEF Begin
  <2>2. Joined(Parts(configs', before'), 0) = <<>>
    BY DEF Joined
  <2> QED BY <2>1, <2>2 DEF BuildInv, Begin
<1>6. CallInv'
  <2>1. ~damaged => yml = ideal
    BY DEF Inv, DamageHeals, Begin
  <2> QED BY <1>1, <2>1 DEF CallInv, Begin
<1>7. WriteInv' /\ AnswerTells' /\ DamageHeals'
  BY DEF Inv, WriteInv, AnswerTells, DamageHeals, Begin
<1> QED BY <1>4, <1>5, <1>6, <1>7 DEF Inv

\* A call that returns leaves the types right, and nothing of a call behind.
LEMMA ReturnInv ==
  ASSUME Inv, NEW v \in {"none", "ok", "unread", "unopened", "unwritten"}, Return(v),
         UNCHANGED <<present, yml, running, before, asked, idealNext, missed>>,
         ideal' \in {ideal, idealNext}, damaged' \in BOOLEAN
  PROVE  Typed' /\ BuildInv' /\ CallInv' /\ WriteInv'
<1>1. configs' \in Seq(Entry) /\ Len(configs') = 0 /\ at' = 1 /\ content' \in Seq(Part)
  BY DEF Return
<1>2. Typed'
  BY <1>1, ConstantsTyped DEF Inv, Typed, TypeOK, Sections, Part, Return
<1> QED BY <1>2 DEF BuildInv, CallInv, WriteInv, Return

\* A turn of the loop that cannot read a file ends the call: that file is one of missed,
\* for no name is quoted any more.
LEMMA UnreadableInv == Inv /\ Unreadable => Inv'
<1> SUFFICES ASSUME Inv, Unreadable PROVE Inv'
  OBVIOUS
<1>1. Typed' /\ BuildInv' /\ CallInv' /\ WriteInv'
  <2>1. damaged' \in BOOLEAN /\ ideal' = ideal
    BY DEF Inv, Typed, TypeOK, Unreadable, history
  <2>2. Return("unread") /\ UNCHANGED <<present, yml, running, before, asked, idealNext, missed>>
    BY DEF Unreadable, history
  <2> QED BY <2>1, <2>2, ReturnInv
<1>2. missed # {}
  <2>1. configs \in Seq(Entry) /\ at \in 1 .. Len(configs)
    BY DEF Inv, Typed, TypeOK, Unreadable, Building
  <2>2. configs[at] \in Entry /\ at \in DOMAIN configs
    BY <2>1, ElementOfSeq
  <2>3. ~configs[at].quoted /\ Names \ present \subseteq missed
    BY <2>2 DEF Inv, CallInv, Unreadable, Building
  <2>4. configs[at].name \in Names /\ configs[at].name \notin present
    BY <2>2, <2>3 DEF Unreadable, Readable, Entry
  <2> QED BY <2>3, <2>4
<1>3. AnswerTells'
  BY <1>2 DEF Inv, BuildInv, AnswerTells, Unreadable, Building, Return, history
<1>4. DamageHeals'
  BY DEF Inv, DamageHeals, Unreadable, Building, Return, history
<1> QED BY <1>1, <1>3, <1>4 DEF Inv

\* A turn of the loop that adds an entry's part.
LEMMA AddInv == Inv /\ Add => Inv'
<1> SUFFICES ASSUME Inv, Add PROVE Inv'
  OBVIOUS
<1>1. /\ configs \in Seq(Entry) /\ at \in 1 .. Len(configs) /\ Len(configs) \in 0 .. MaxEntries
      /\ before \in Seq(Part) /\ yml = before
  BY DEF Inv, Typed, TypeOK, BuildInv, Sections, Part, Add, Building
<1>2. at' = at + 1 /\ content' = content \o Section(configs[at], yml)
  BY DEF Add
<1>3. content = Joined(Parts(configs, before), at - 1)
  BY DEF Inv, BuildInv, Add, Building
<1>4. content' = Joined(Parts(configs, before), at) /\ at = at' - 1
  <2> HIDE DEF Part
  <2>1. Joined(Parts(configs, before), at)
          = Joined(Parts(configs, before), at - 1) \o Section(configs[at], before)
    BY <1>1, JoinedTurn
  <2> QED BY <1>1, <1>2, <1>3, <2>1
<1>5. content' \in Seq(Part)
  <2>1. configs[at] \in Entry
    BY <1>1, ElementOfSeq
  <2>2. Section(configs[at], yml) \in Seq(Part)
    BY <1>1, <2>1, SectionType
  <2>3. content \in Seq(Part)
    BY DEF Inv, Typed, TypeOK, Sections, Part
  <2> HIDE DEF Part
  <2> QED BY <1>2, <2>2, <2>3, ConcatProperties
<1>6. Typed'
  <2>1. at' \in 1 .. MaxEntries + 1 /\ at' \in 1 .. Len(configs) + 1
    BY <1>1, <1>2, ConstantsTyped
  <2> QED BY <1>5, <2>1 DEF Inv, Typed, TypeOK, Sections, Part, Add, history
<1>7. BuildInv'
  BY <1>1, <1>4 DEF BuildInv, Add, history
<1>8. CallInv' /\ WriteInv'
  BY DEF Inv, CallInv, WriteInv, Add, Building, history
<1>9. AnswerTells' /\ DamageHeals'
  BY DEF Inv, AnswerTells, DamageHeals, Add, Building, history
<1> QED BY <1>6, <1>7, <1>8, <1>9 DEF Inv

\* The file is opened: all of the list has been joined by then.
LEMMA OpenInv == Inv /\ Open => Inv'
<1> SUFFICES ASSUME Inv, Open PROVE Inv'
  OBVIOUS
<1>1. /\ configs \in Seq(Entry) /\ at = Len(configs) + 1 /\ before \in Seq(Part)
      /\ Len(configs) \in Nat
  <2>1. configs \in Seq(Entry) /\ before \in Seq(Part)
    BY DEF Inv, Typed, TypeOK, Sections, Part
  <2>2. Len(configs) \in Nat
    BY <2>1, LenProperties
  <2>3. at \in 1 .. Len(configs) + 1 /\ at > Len(configs)
    BY DEF Inv, Typed, Open
  <2> QED BY <2>1, <2>2, <2>3
<1>2. content = asked
  <2>1. at - 1 = Len(configs)
    BY <1>1
  <2>2. content = Joined(Parts(configs, before), Len(configs))
    BY <2>1 DEF Inv, BuildInv, Open
  <2>3. asked = Wanted(configs, before)
    BY DEF Inv, CallInv, Open
  <2> HIDE DEF Part
  <2> QED BY <1>1, <2>2, <2>3, WantedIs
<1>3. Typed'
  BY DEF Inv, Typed, TypeOK, Sections, Open, history
<1>4. WriteInv'
  <2>1. yml' = <<>> /\ content' = content /\ asked' = asked /\ content \in Seq(Part)
    BY DEF Inv, Typed, TypeOK, Sections, Part, Open, history
  <2>2. Len(content) \in Nat /\ Len(yml') = 0
    BY <2>1, LenProperties
  <2> QED BY <1>2, <2>1, <2>2 DEF WriteInv
<1>5. BuildInv' /\ CallInv' /\ AnswerTells' /\ DamageHeals'
  BY DEF Inv, BuildInv, CallInv, AnswerTells, DamageHeals, Open, history
<1> QED BY <1>3, <1>4, <1>5 DEF Inv

\* It cannot be opened: nothing was touched.
LEMMA OpenFailsInv == Inv /\ OpenFails => Inv'
<1> SUFFICES ASSUME Inv, OpenFails PROVE Inv'
  OBVIOUS
<1>1. Typed' /\ BuildInv' /\ CallInv' /\ WriteInv'
  <2>1. damaged' \in BOOLEAN /\ ideal' = ideal
    BY DEF Inv, Typed, TypeOK, OpenFails, history
  <2>2. /\ Return("unopened")
        /\ UNCHANGED <<present, yml, running, before, asked, idealNext, missed>>
    BY DEF OpenFails, history
  <2> QED BY <2>1, <2>2, ReturnInv
<1>2. AnswerTells' /\ DamageHeals'
  BY DEF Inv, BuildInv, AnswerTells, DamageHeals, OpenFails, Return, history
<1> QED BY <1>1, <1>2 DEF Inv

\* It is written, as far as the content goes.
LEMMA WriteSomeInv == Inv /\ WriteSome => Inv'
<1> SUFFICES ASSUME Inv, WriteSome PROVE Inv'
  OBVIOUS
<1>1. yml \in Seq(Part) /\ content \in Seq(Part)
  BY DEF Inv, Typed, TypeOK, Sections, Part
<1> DEFINE n == Len(yml) + 1
<1>2. n \in 1 .. Len(content) /\ Len(yml) \in Nat /\ Len(content) \in Nat
  BY <1>1, LenProperties DEF WriteSome
<1>3. content[n] \in Part
  BY <1>1, <1>2, ElementOfSeq
<1> HIDE DEF Part
<1>4. yml' = Append(yml, content[n])
  BY DEF WriteSome
<1>5. /\ yml' \in Seq(Part) /\ Len(yml') = Len(yml) + 1 /\ yml'[n] = content[n]
      /\ \A i \in 1 .. Len(yml) : yml'[i] = yml[i]
  BY <1>1, <1>3, <1>4, AppendProperties
<1>6. Typed'
  BY <1>5 DEF Inv, Typed, TypeOK, Sections, Part, WriteSome, callVars, history
<1>7. WriteInv'
  <2>1. content' = content /\ asked' = asked /\ content = asked
    BY DEF Inv, WriteInv, WriteSome, callVars, history
  <2>2. \A i \in 1 .. Len(yml) : yml[i] = content[i]
    BY DEF Inv, WriteInv, WriteSome
  <2>3. \A i \in 1 .. Len(yml) + 1 : yml'[i] = content[i]
    BY <1>2, <1>5, <2>2
  <2> QED BY <1>2, <1>5, <2>1, <2>3 DEF WriteInv
<1>8. BuildInv' /\ CallInv' /\ AnswerTells' /\ DamageHeals'
  BY DEF Inv, BuildInv, CallInv, AnswerTells, DamageHeals, WriteSome, callVars, history
<1> QED BY <1>6, <1>7, <1>8 DEF Inv

\* The write is broken off, by an error.
LEMMA WriteFailsInv == Inv /\ WriteFails => Inv'
<1> SUFFICES ASSUME Inv, WriteFails PROVE Inv'
  OBVIOUS
<1>1. Typed' /\ BuildInv' /\ CallInv' /\ WriteInv'
  BY ReturnInv DEF WriteFails
<1>2. IsStrictPrefix(yml, asked)
  <2>1. yml \in Seq(Part) /\ asked \in Seq(Part)
    BY DEF Inv, Typed, TypeOK, Sections, Part
  <2> HIDE DEF Part
  <2>2. /\ content = asked /\ Len(yml) < Len(asked)
        /\ \A i \in 1 .. Len(yml) : yml[i] = asked[i]
    BY DEF Inv, WriteInv, WriteFails
  <2> DEFINE n == Len(yml)
             p == SubSeq(yml, 1, n)
             q == SubSeq(asked, 1, n)
  <2>3. n \in Nat /\ n \in Int /\ 1 \in Int /\ Len(asked) \in Nat
    BY <2>1, LenProperties
  <2>4. \A i \in 1 .. n : yml[i] \in Part /\ asked[i] \in Part
    BY <2>1, <2>2, <2>3, ElementOfSeq
  <2> HIDE DEF n
  <2>5. /\ p \in Seq(Part) /\ Len(p) = (IF 1 <= n THEN n - 1 + 1 ELSE 0)
        /\ \A i \in 1 .. n - 1 + 1 : p[i] = yml[1 + i - 1]
    BY <2>3, <2>4, SubSeqProperties
  <2>6. /\ q \in Seq(Part) /\ Len(q) = (IF 1 <= n THEN n - 1 + 1 ELSE 0)
        /\ \A i \in 1 .. n - 1 + 1 : q[i] = asked[1 + i - 1]
    BY <2>3, <2>4, SubSeqProperties
  <2> HIDE DEF p, q
  <2>7. Len(p) = n /\ Len(q) = n
    BY <2>3, <2>5, <2>6
  <2>8. \A i \in 1 .. n : p[i] = yml[i] /\ q[i] = asked[i]
    BY <2>3, <2>5, <2>6
  <2>9. \A i \in 1 .. Len(p) : p[i] = q[i]
    BY <2>2, <2>7, <2>8 DEF n
  <2>10. p = q
    BY <2>5, <2>6, <2>7, <2>9, SeqEqual
  <2> QED BY <2>2, <2>3, <2>10 DEF IsStrictPrefix, IsPrefix, n, p, q
<1>3. AnswerTells'
  BY <1>2 DEF AnswerTells, WriteFails, Return
<1>4. DamageHeals'
  BY DEF DamageHeals, WriteFails, Return
<1> QED BY <1>1, <1>3, <1>4 DEF Inv

\* The file is written: the answer is "ok", and the damage is put right unless
\* the list copies the file.
LEMMA WrittenInv == Inv /\ Written => Inv'
<1> SUFFICES ASSUME Inv, Written PROVE Inv'
  OBVIOUS
<1>1. Typed' /\ BuildInv' /\ CallInv' /\ WriteInv'
  <2>1. damaged' \in BOOLEAN
    BY DEF Inv, Typed, TypeOK, Written
  <2> QED BY <2>1, ReturnInv DEF Written
<1>2. yml = asked
  <2>1. yml \in Seq(Part) /\ content \in Seq(Part)
    BY DEF Inv, Typed, TypeOK, Sections, Part
  <2> HIDE DEF Part
  <2>2. Len(yml) = Len(content)
    BY <2>1, LenProperties DEF Inv, WriteInv, Written
  <2>3. \A i \in 1 .. Len(yml) : yml[i] = content[i]
    BY DEF Inv, WriteInv, Written
  <2>4. yml = content
    BY <2>1, <2>2, <2>3, SeqEqual
  <2> QED BY <2>4 DEF Inv, WriteInv, Written
<1>3. AnswerTells'
  BY <1>2 DEF AnswerTells, Written, Return
<1>4. ~damaged' => yml = idealNext
  <2>1. /\ asked = Wanted(configs, before) /\ idealNext = Wanted(configs, ideal)
        /\ ~damaged => before = ideal
    BY DEF Inv, CallInv, Written
  <2>2. ~damaged' => ~damaged \/ ~Copies(configs)
    BY DEF Written, Copies
  <2>3. configs \in Seq(Entry)
    BY DEF Inv, Typed, TypeOK
  <2>4. ~Copies(configs) => Wanted(configs, before) = Wanted(configs, ideal)
    BY <2>3, WantedAnyway
  <2> QED BY <1>2, <2>1, <2>2, <2>4
<1>5. DamageHeals'
  BY <1>4 DEF DamageHeals, Written, Return
<1> QED BY <1>1, <1>3, <1>5 DEF Inv

\* The process dies.
LEMMA CrashInv == Inv /\ Crash => Inv'
<1> SUFFICES ASSUME Inv, Crash PROVE Inv'
  OBVIOUS
<1>1. Typed' /\ BuildInv' /\ CallInv' /\ WriteInv'
  <2>1. damaged' \in BOOLEAN
    BY DEF Inv, Typed, TypeOK, Crash
  <2> QED BY <2>1, ReturnInv DEF Crash
<1>2. AnswerTells' /\ DamageHeals'
  BY DEF Inv, AnswerTells, DamageHeals, Crash, Return
<1> QED BY <1>1, <1>2 DEF Inv

\* A list that cannot be parsed, a module's file and filebeat's reading leave a
\* call alone.
LEMMA OthersInv ==
  Inv /\ (Malformed \/ (\E m \in Names : ModuleFile(m)) \/ Reload) => Inv'
<1> SUFFICES ASSUME Inv, Malformed \/ (\E m \in Names : ModuleFile(m)) \/ Reload
    PROVE  Inv'
  OBVIOUS
<1>1. CASE Malformed
  <2>1. Typed'
    <3>1. updates' \in 0 .. MaxUpdates
      BY <1>1, ConstantsTyped DEF Inv, Typed, TypeOK, Malformed
    <3> QED BY <1>1, <3>1 DEF Inv, Typed, TypeOK, Sections, Malformed
  <2>2. BuildInv' /\ CallInv' /\ WriteInv' /\ AnswerTells' /\ DamageHeals'
    BY <1>1 DEF Inv, BuildInv, CallInv, WriteInv, AnswerTells, DamageHeals, Malformed
  <2> QED BY <2>1, <2>2 DEF Inv
<1>2. ASSUME NEW m \in Names, ModuleFile(m) PROVE Inv'
  <2>1. Typed'
    BY <1>2 DEF Inv, Typed, TypeOK, Sections, ModuleFile, callVars, history
  <2>2. Names \ present' \subseteq missed' /\ missed \subseteq missed'
    BY <1>2 DEF ModuleFile
  <2>3. BuildInv' /\ CallInv' /\ WriteInv' /\ AnswerTells' /\ DamageHeals'
    BY <1>2, <2>2
    DEF Inv, BuildInv, CallInv, WriteInv, AnswerTells, DamageHeals, ModuleFile, callVars, history
  <2> QED BY <2>1, <2>3 DEF Inv
<1>3. CASE Reload
  <2>1. Typed'
    BY <1>3 DEF Inv, Typed, TypeOK, Sections, Reload, callVars, history
  <2>2. BuildInv' /\ CallInv' /\ WriteInv' /\ AnswerTells' /\ DamageHeals'
    BY <1>3
    DEF Inv, BuildInv, CallInv, WriteInv, AnswerTells, DamageHeals, Reload, callVars, history
  <2> QED BY <2>1, <2>2 DEF Inv
<1> QED BY <1>1, <1>2, <1>3

-----------------------------------------------------------------------------
(* The theorems                                                            *)

\* Every step keeps the invariant.
LEMMA NextInv == Inv /\ [Next]_vars => Inv'
<1> SUFFICES ASSUME Inv, [Next]_vars PROVE Inv'
  OBVIOUS
<1>1. CASE \E list \in Lists : Begin(list)
  BY <1>1, BeginInv
<1>2. CASE UpdateStep
  BY <1>2, UnreadableInv, AddInv, OpenInv, OpenFailsInv, WriteSomeInv, WriteFailsInv, WrittenInv
  DEF UpdateStep
<1>3. CASE Crash
  BY <1>3, CrashInv
<1>4. CASE Malformed \/ (\E m \in Names : ModuleFile(m)) \/ Reload
  BY <1>4, OthersInv
<1>5. CASE UNCHANGED vars
  BY <1>5
  DEF Inv, Typed, TypeOK, BuildInv, CallInv, WriteInv, AnswerTells, DamageHeals, vars, callVars,
      history
<1> QED BY <1>1, <1>2, <1>3, <1>4, <1>5 DEF Next

\* So it holds always.
LEMMA AlwaysInv == Spec => []Inv
<1> QED BY InitInv, NextInv, PTL DEF Spec

\* Every variable keeps its type.
THEOREM UpdateTypeCorrect == Spec => []TypeOK
<1>1. Inv => TypeOK
  BY DEF Inv, Typed
<1> QED BY <1>1, AlwaysInv, PTL

\* The answer of UpdateFilebeatConfig is true, for every list, of any length: "ok"
\* comes with all of it in the file, an error before the file is opened with the file
\* as it was, a failed write with a proper beginning of the sections, and one of the
\* files could not be read if that is what the answer says.
THEOREM AnswerCorrect == Spec => []AnswerTells
<1>1. Inv => AnswerTells
  BY DEF Inv
<1> QED BY <1>1, AlwaysInv, PTL

\* However many writes are broken off, a successful call whose list does not copy the
\* file puts it right: it holds what it would if no write had ever been broken off.
THEOREM DamageCorrect == Spec => []DamageHeals
<1>1. Inv => DamageHeals
  BY DEF Inv
<1> QED BY <1>1, AlwaysInv, PTL

-----------------------------------------------------------------------------
(* A call ends                                                             *)

\* The steps a call has before it at most: the turns of its loop, the opening, one
\* write for each section it was asked for, and the return.
StepsLeft ==
  CASE pc = "idle"  -> 0
    [] pc = "build" -> (Len(configs) + 1 - at) + Len(asked) + 2
    [] pc = "write" -> (Len(asked) - Len(yml)) + 1

\* It is a number, and a call in progress has a step left.
LEMMA StepsLeftType == Inv => StepsLeft \in Nat /\ (pc # "idle" => StepsLeft > 0)
<1> SUFFICES ASSUME Inv PROVE StepsLeft \in Nat /\ (pc # "idle" => StepsLeft > 0)
  OBVIOUS
<1>1. /\ asked \in Seq(Part) /\ yml \in Seq(Part) /\ configs \in Seq(Entry)
      /\ pc \in {"idle", "build", "write"} /\ at \in 1 .. Len(configs) + 1
  BY DEF Inv, Typed, TypeOK, Sections, Part
<1> HIDE DEF Part, Entry
<1>2. Len(asked) \in Nat /\ Len(yml) \in Nat /\ Len(configs) \in Nat
  BY <1>1, LenProperties
<1>3. pc = "write" => Len(yml) <= Len(asked)
  BY DEF Inv, WriteInv
<1> QED BY <1>1, <1>2, <1>3 DEF StepsLeft

\* Each step of a call takes one off, and nobody else's adds one.
LEMMA StepsLeftNext ==
  Inv /\ [Next]_vars /\ pc # "idle" =>
    (UpdateStep => StepsLeft' < StepsLeft) /\ StepsLeft' <= StepsLeft
<1> SUFFICES ASSUME Inv, [Next]_vars, pc # "idle"
    PROVE  (UpdateStep => StepsLeft' < StepsLeft) /\ StepsLeft' <= StepsLeft
  OBVIOUS
<1>1. StepsLeft \in Nat /\ StepsLeft > 0
  BY StepsLeftType
<1>2. /\ asked \in Seq(Part) /\ yml \in Seq(Part) /\ configs \in Seq(Entry)
      /\ content \in Seq(Part) /\ at \in 1 .. Len(configs) + 1
  BY DEF Inv, Typed, TypeOK, Sections, Part
<1> HIDE DEF Part, Entry
<1>3. Len(asked) \in Nat /\ Len(yml) \in Nat /\ Len(configs) \in Nat
  BY <1>2, LenProperties
<1>4. ASSUME pc' = "idle" PROVE StepsLeft' < StepsLeft /\ StepsLeft' <= StepsLeft
  <2>1. StepsLeft' = 0
    BY <1>4 DEF StepsLeft
  <2> QED BY <1>1, <2>1
<1>5. ASSUME Add PROVE StepsLeft' < StepsLeft /\ StepsLeft' <= StepsLeft
  <2>1. pc = "build" /\ pc' = "build" /\ at' = at + 1 /\ UNCHANGED <<configs, asked>>
    BY <1>5 DEF Add, Building, history
  <2> QED BY <1>2, <1>3, <2>1 DEF StepsLeft
<1>6. ASSUME Open PROVE StepsLeft' < StepsLeft /\ StepsLeft' <= StepsLeft
  <2>1. pc = "build" /\ pc' = "write" /\ Len(yml') = 0 /\ UNCHANGED asked
    BY <1>6 DEF Open, history
  <2>2. at - 1 = Len(configs)
    BY <1>2, <1>3, <1>6 DEF Open
  <2> QED BY SMTT(30), <1>2, <1>3, <2>1, <2>2 DEF StepsLeft
<1>7. ASSUME WriteSome PROVE StepsLeft' < StepsLeft /\ StepsLeft' <= StepsLeft
  <2>1. pc = "write" /\ pc' = "write" /\ UNCHANGED asked
    BY <1>7 DEF WriteSome, callVars, history
  <2>2. Len(yml) + 1 \in 1 .. Len(content)
    BY <1>2, <1>3, <1>7, LenProperties DEF WriteSome
  <2>3. content[Len(yml) + 1] \in Part
    BY <1>2, <2>2, ElementOfSeq
  <2>4. Len(yml') = Len(yml) + 1
    BY <1>2, <1>7, <2>3, AppendProperties DEF WriteSome
  <2> QED BY <1>3, <2>1, <2>4 DEF StepsLeft
<1>8. ASSUME (\E m \in Names : ModuleFile(m)) \/ Reload \/ UNCHANGED vars
      PROVE  StepsLeft' = StepsLeft
  <2>1. UNCHANGED <<yml, pc, configs, at, asked>>
    BY <1>8 DEF ModuleFile, Reload, vars, callVars, history
  <2> QED BY <2>1 DEF StepsLeft
<1>9. UpdateStep \/ Crash => StepsLeft' < StepsLeft /\ StepsLeft' <= StepsLeft
  BY <1>4, <1>5, <1>6, <1>7
  DEF UpdateStep, Unreadable, OpenFails, WriteFails, Written, Crash, Return
<1>10. \/ UpdateStep \/ Crash
       \/ (\E m \in Names : ModuleFile(m)) \/ Reload \/ UNCHANGED vars
  BY DEF Next, Begin, Malformed
<1> HIDE DEF UpdateStep, Crash
<1> QED BY <1>1, <1>8, <1>9, <1>10

\* UpdateFilebeatConfig ends: the steps that a call has left are counted by a number,
\* which each of its own steps lowers and no step of anybody else raises.
THEOREM CallEnds ==
  Spec => /\ [](StepsLeft \in Nat)
          /\ [][pc # "idle" => /\ UpdateStep => StepsLeft' < StepsLeft
                               /\ StepsLeft' <= StepsLeft]_vars
<1>1. Inv => StepsLeft \in Nat
  BY StepsLeftType
<1>2. Inv /\ [Next]_vars =>
        [pc # "idle" => /\ UpdateStep => StepsLeft' < StepsLeft
                        /\ StepsLeft' <= StepsLeft]_vars
  BY StepsLeftNext
<1> QED BY <1>1, <1>2, AlwaysInv, PTL DEF Spec
=============================================================================
