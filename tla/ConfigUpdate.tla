---------------------------- MODULE ConfigUpdate ----------------------------
(***************************************************************************)
(* UpdateFilebeatConfig of config/config.go: it makes filebeat.yml, the    *)
(* file that lists the modules, from a JSON list, and filebeat reads it    *)
(* again when it changes (filebeat.config.modules.reload in filebeat.yml). *)
(*                                                                         *)
(* A list entry names a module and a mode: 0 copies the module's own file  *)
(* from the same directory, 1 makes a section from the paths in the entry, *)
(* and any other adds nothing.  An entry may name "filebeat", whose file   *)
(* is the one being made.  A file is a sequence of sections; a section     *)
(* stands for as much of it as one write puts down.                        *)
(***************************************************************************)
EXTENDS Naturals, Sequences, SequencesExt

CONSTANTS
  Modules,    \* modules that may have a file of their own
  Filebeat,   \* the name "filebeat"
  MaxEntries, \* bound: entries of a list
  MaxUpdates  \* bound: calls of UpdateFilebeatConfig

ASSUME UpdateAssumption ==
  /\ Filebeat \notin Modules
  /\ {MaxEntries, MaxUpdates} \subseteq Nat

Names == Modules \cup {Filebeat}
Entry == [name : Names, quoted : BOOLEAN, mode : {0, 1, 2}]
Lists == UNION {[1 .. n -> Entry] : n \in 0 .. MaxEntries}

VARIABLES
  present,   \* the names whose files can be read
  yml,       \* what filebeat.yml holds
  running,   \* what filebeat read last
  pc,        \* "idle", "build", "write"
  configs,   \* the parsed list
  at,        \* the loop variable
  content,   \* filebeatConfigContent
  answer,    \* what the last call returned: "ok" or what failed
  updates,   \* calls so far
  before,    \* filebeat.yml when the call began
  asked,     \* what the call is to make of it
  ideal,     \* filebeat.yml if no write had ever been broken off
  idealNext, \* and what the call is to make of that
  damaged,   \* a write was broken off, and no list without "filebeat" followed
  missed     \* names whose files could not be read at some time during the call

callVars == <<pc, configs, at, content, answer, updates>>
history  == <<before, asked, ideal, idealNext, damaged>>
vars == <<present, yml, running, callVars, history, missed>>

\* ReadFile finds a file; a quoted name is that of none.
Readable(e) == ~e.quoted /\ e.name \in present

\* The sections an entry stands for, with s in filebeat.yml.
Section(e, s) ==
  CASE e.mode = 0 -> IF e.name = Filebeat THEN s ELSE << <<e.name, "file">> >>
    [] e.mode = 1 -> << <<e.name, "custom">> >>
    [] e.mode = 2 -> <<>>
Wanted(list, s) == FlattenSeq([i \in DOMAIN list |-> Section(list[i], s)])

\* fixInvalidJson takes the quotes off the names; it works on the list itself.
fixNothing(list) == list                                            \* mutant
fixInvalidJson(list) == [i \in DOMAIN list |-> [list[i] EXCEPT !.quoted = FALSE]]

-----------------------------------------------------------------------------
(* UpdateFilebeatConfig                                                    *)

Begin(list) ==
  /\ pc = "idle" /\ updates < MaxUpdates
  /\ updates' = updates + 1
  /\ pc' = "build" /\ at' = 1 /\ content' = <<>> /\ answer' = "none"
  /\ configs' = fixInvalidJson(list)
  /\ before' = yml
  /\ asked' = Wanted(list, yml) /\ idealNext' = Wanted(list, ideal)
  /\ missed' = Names \ present
  /\ UNCHANGED <<present, yml, running, ideal, damaged>>

\* The call returns an answer; its variables are gone.
Return(v) ==
  /\ pc' = "idle" /\ answer' = v
  /\ configs' = <<>> /\ at' = 1 /\ content' = <<>>
  /\ UNCHANGED updates

Malformed ==
  /\ pc = "idle" /\ updates < MaxUpdates
  /\ updates' = updates + 1 /\ answer' = "unparsed" /\ before' = yml
  /\ UNCHANGED <<present, yml, running, pc, configs, at, content, asked, ideal, idealNext,
                 damaged, missed>>

Building == pc = "build" /\ at <= Len(configs)

\* A file that cannot be read ends the call.
Unreadable ==
  /\ Building /\ configs[at].mode = 0 /\ ~Readable(configs[at])
  /\ Return("unread")
  /\ UNCHANGED <<present, yml, running, history, missed>>

\* An entry's part of the content: the module's file, or generated, or nothing.
AddErrorText ==                                                     \* mutant
  /\ Building
  /\ at' = at + 1
  /\ content' = content \o IF configs[at].mode = 0 /\ ~Readable(configs[at])
                             THEN << <<configs[at].name, "error">> >>
                             ELSE Section(configs[at], yml)
  /\ UNCHANGED <<present, yml, running, pc, configs, answer, updates, history, missed>>
Add ==
  /\ Building /\ (configs[at].mode = 0 => Readable(configs[at]))
  /\ at' = at + 1
  /\ content' = content \o Section(configs[at], yml)
  /\ UNCHANGED <<present, yml, running, pc, configs, answer, updates, history, missed>>

\* WriteFile opens the file, which empties it, or fails to.
OpenKeeps ==                                                        \* mutant
  /\ pc = "build" /\ at > Len(configs)
  /\ pc' = "write"
  /\ yml' = IF Len(yml) > Len(content) THEN yml ELSE <<>>
  /\ UNCHANGED <<present, running, configs, at, content, answer, updates, history, missed>>
Open ==
  /\ pc = "build" /\ at > Len(configs)
  /\ pc' = "write" /\ yml' = <<>>
  /\ UNCHANGED <<present, running, configs, at, content, answer, updates, history, missed>>
OpenFails ==
  /\ pc = "build" /\ at > Len(configs)
  /\ Return("unopened")
  /\ UNCHANGED <<present, yml, running, history, missed>>

\* It writes.
WriteSome ==
  /\ pc = "write" /\ Len(yml) < Len(content)
  /\ yml' = Append(yml, content[Len(yml) + 1])
  /\ UNCHANGED <<present, running, callVars, history, missed>>
WriteFails ==
  /\ pc = "write" /\ Len(yml) < Len(content)
  /\ Return("unwritten") /\ damaged' = TRUE
  /\ UNCHANGED <<present, yml, running, before, asked, ideal, idealNext, missed>>
Written ==
  /\ pc = "write" /\ Len(yml) >= Len(content)
  /\ Return("ok")
  /\ ideal' = idealNext
  /\ damaged' = (damaged /\ \E i \in DOMAIN configs :
                   configs[i].mode = 0 /\ configs[i].name = Filebeat)
  /\ UNCHANGED <<present, yml, running, before, asked, idealNext, missed>>

\* The process dies at any point of the call.
Crash ==
  /\ pc # "idle"
  /\ Return("none")
  /\ damaged' = (damaged \/ pc = "write")
  /\ UNCHANGED <<present, yml, running, before, asked, ideal, idealNext, missed>>

UpdateStep ==
  Unreadable \/ Add \/ Open \/ OpenFails \/ WriteSome \/ WriteFails \/ Written

-----------------------------------------------------------------------------
(* The others                                                              *)

\* A module's file is put there or taken away, or any of the files cannot be
\* read for a while.
ModuleFile(m) ==
  /\ present' = IF m \in present THEN present \ {m} ELSE present \cup {m}
  /\ missed' = missed \cup (Names \ present')
  /\ UNCHANGED <<yml, running, callVars, history>>

\* Filebeat finds the file changed and reads it, whoever may be writing it.
ReloadBySize ==                                                     \* mutant
  /\ Len(running) # Len(yml)
  /\ running' = yml
  /\ UNCHANGED <<present, yml, callVars, history, missed>>
Reload ==
  /\ running # yml
  /\ running' = yml
  /\ UNCHANGED <<present, yml, callVars, history, missed>>

-----------------------------------------------------------------------------
First == << <<Filebeat, "file">> >>   \* what the file holds to begin with

Init ==
  /\ present \in SUBSET Names
  /\ yml = First /\ running = First
  /\ pc = "idle" /\ configs = <<>> /\ at = 1 /\ content = <<>>
  /\ answer = "none" /\ updates = 0
  /\ before = First /\ asked = First /\ ideal = First /\ idealNext = First
  /\ damaged = FALSE /\ missed = {}

Next ==
  \/ \E list \in Lists : Begin(list)
  \/ Malformed \/ UpdateStep \/ Crash
  \/ \E m \in Names : ModuleFile(m)
  \/ Reload

Spec == Init /\ [][Next]_vars

\* A call goes on, and filebeat looks at the file every reload.period.
FairSpec == Spec /\ WF_vars(UpdateStep) /\ WF_vars(Reload)

-----------------------------------------------------------------------------
(* Properties                                                              *)

Sections == Seq(Names \X {"file", "custom"})

\* Every variable has its type.
TypeOK ==
  /\ present \in SUBSET Names /\ missed \in SUBSET Names
  /\ {yml, running, content, before, asked, ideal, idealNext} \subseteq Sections
  /\ pc \in {"idle", "build", "write"}
  /\ configs \in Seq(Entry) /\ at \in 1 .. MaxEntries + 1
  /\ answer \in {"none", "ok", "unparsed", "unread", "unopened", "unwritten"}
  /\ updates \in 0 .. MaxUpdates /\ damaged \in BOOLEAN

\* The answer tells what became of the file: all of the list was written, or
\* nothing was touched, although the errors come up in the middle of a list, or
\* what is left of it is the beginning of the list's sections and not all of them.
\* A file is said to be unreadable only if one was, quotes or not.
AnswerTells ==
  /\ answer = "ok" => yml = asked
  /\ answer \in {"unparsed", "unread", "unopened"} => yml = before
  /\ answer = "unread" => missed # {}
  /\ answer = "unwritten" => IsStrictPrefix(yml, asked)

\* A write that is broken off, by an error or the death of the process, leaves
\* a part of the file.  The next successful call puts that right, unless its
\* list names "filebeat", which takes the part for the whole.
DamageHeals == pc # "write" /\ ~damaged => yml = ideal

\* Filebeat may run with a part of the file meanwhile, but once the calls end
\* and the damage is put right it runs what was asked for.
FilebeatCatchesUp ==
  <>[](pc = "idle" /\ ~damaged) => <>[](running = ideal)
=============================================================================
