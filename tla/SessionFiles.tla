---------------------------- MODULE SessionFiles ----------------------------
(***************************************************************************)
(* The session files under ~/.omnicursor/sessions: <conversation>.json,    *)
(* the global current.json and the session_initialized flags, as the       *)
(* session-start, user-prompt-submit, stop and shell-guard hooks read and  *)
(* write them.                                                             *)
(*                                                                         *)
(* A hook is a process of its own and takes no lock.  merge_session_json   *)
(* reads the file, merges, then write_text truncates it and writes: three  *)
(* steps between which any other hook may run, or this one be killed.      *)
(*                                                                         *)
(* The value of a field is the hook that wrote it, so that two writes are  *)
(* told apart; ci_passing is "red" or "green".                             *)
(***************************************************************************)
EXTENDS Naturals, Sequences, FiniteSets, SequencesExt

CONSTANTS
  Conv,       \* conversations
  Hook,       \* hook processes
  Kinds,      \* which hooks Cursor launches, out of AllKinds
  Current,    \* the file current.json
  None,       \* a field that is absent or null
  Killable,   \* may a hook be killed between two steps?
  IoFaults    \* may a write fail?

AllKinds == {"session-start", "prompt", "stop", "shell"}

ASSUME KindAssumption == Kinds \subseteq AllKinds
ASSUME FlagAssumption == Killable \in BOOLEAN /\ IoFaults \in BOOLEAN
ASSUME NameAssumption == Current \notin Conv /\ None \notin Hook \cup Conv \cup {"red", "green"}

VARIABLES
  files,      \* the JSON files
  flag,       \* conversations whose session_initialized flag is there
  launched,   \* hooks that Cursor has launched
  conv,       \* per hook, the conversation it was launched for
  todo,       \* per hook, the file operations it has left
  step,       \* where it is in the first of them
  copy,       \* what it has read for the first of them
  gate,       \* shell-guard's answer to a done/completed transition
  linked,     \* per stop or shell hook, the prompt that it takes its event to belong to
  ledger,     \* per file, every update so far applied one after the other
  disturbed,  \* files on which writers overlapped, or one ended half-way
  earned      \* conversations whose CI has been green

vars == <<files, flag, launched, conv, todo, step, copy, gate, linked, ledger, disturbed, earned>>

File == Conv \cup {Current}
Field == {"conversation_id", "started_at", "last_prompt_at", "ci_passing",
          "session_outcome", "latest_correlation_id"}
Value == Hook \cup Conv \cup {"red", "green", None}
Data == [Field -> Value]
NoData == [x \in Field |-> None]

\* "garbled" is a file that no longer parses.
Content == [state : {"missing", "empty", "json", "garbled"}, data : Data]

\* {} unless the file holds one JSON object (read_session_json, read_session_context).
Load(f) == IF files[f].state = "json" THEN files[f].data ELSE NoData

\* The files with f no longer holding an object.
Marked(f, st) == [files EXCEPT ![f] = [state |-> st, data |-> NoData]]

Put(data, set) == [x \in Field |-> IF x \in DOMAIN set THEN set[x] ELSE data[x]]

\* The operations a script is made of; each names the file it works on.
Merge(f, set) == [op |-> "merge", file |-> f, set |-> set]
Overwrite(f, set) == [op |-> "overwrite", file |-> f, set |-> set]
Other(op, f) == [op |-> op, file |-> f, set |-> <<>>]

InitFields(h, c, last) ==
  [conversation_id |-> c, started_at |-> h, last_prompt_at |-> last, ci_passing |-> "red"]

\* What each script does to the files, in order.
Script(k, h, c) ==
  CASE k = "session-start" ->
         << Overwrite(Current, [conversation_id |-> c, started_at |-> h]),
            Merge(c, InitFields(h, c, None)) >>
    [] k = "prompt" ->
         << Other("check-flag", c),
            Merge(c, [last_prompt_at |-> h]),
            Merge(Current, [conversation_id |-> c, latest_correlation_id |-> h]) >>
    [] k = "stop" -> << Other("link", Current), Merge(c, [session_outcome |-> h]) >>
    [] k = "shell" -> << Other("link", Current), Other("guard", c) >>

Init ==
  /\ files = [f \in File |-> [state |-> "missing", data |-> NoData]]
  /\ flag = {}
  /\ launched = {}
  /\ conv \in [Hook -> Conv]
  /\ todo = [h \in Hook |-> <<>>]
  /\ step = [h \in Hook |-> "begin"]
  /\ copy = [h \in Hook |-> NoData]
  /\ gate = [h \in Hook |-> "none"]
  /\ linked = [h \in Hook |-> None]
  /\ ledger = [f \in File |-> NoData]
  /\ disturbed = {}
  /\ earned = {}

Busy(h) == todo[h] # <<>>
Job(h) == Head(todo[h])
At(h, op, s) == Busy(h) /\ Job(h).op = op /\ step[h] = s
Writing(h) == Busy(h) /\ Job(h).op \in {"merge", "overwrite"}

\* h is between the first and the last step of an update of f.
Holds(h, f) == Writing(h) /\ Job(h).file = f /\ step[h] \in {"truncate", "write"}
Contended(h, f) == \E g \in Hook \ {h} : Holds(g, f)

\* The next operation, if any, starts afresh.
Done(h) ==
  /\ todo' = [todo EXCEPT ![h] = Tail(@)]
  /\ step' = [step EXCEPT ![h] = "begin"]
  /\ copy' = [copy EXCEPT ![h] = NoData]

HookUnchanged == UNCHANGED <<launched, conv, linked>>

Launch(h) ==
  /\ h \notin launched
  /\ launched' = launched \cup {h}
  /\ \E k \in Kinds : todo' = [todo EXCEPT ![h] = Script(k, h, conv[h])]
  /\ UNCHANGED <<files, flag, conv, step, copy, gate, linked, ledger, disturbed, earned>>

\* Mutant of Read: the update starts from nothing.
ReadNothing(h) ==
  /\ At(h, "merge", "begin")
  /\ disturbed' = IF Contended(h, Job(h).file) THEN disturbed \cup {Job(h).file} ELSE disturbed
  /\ step' = [step EXCEPT ![h] = "truncate"]
  /\ UNCHANGED <<files, flag, todo, copy, ledger, earned>> /\ HookUnchanged /\ UNCHANGED gate

\* Mutant of Read: the file is opened for writing before it is read.
ReadAfterOpen(h) ==
  /\ At(h, "merge", "begin")
  /\ copy' = [copy EXCEPT ![h] = Load(Job(h).file)]
  /\ files' = Marked(Job(h).file, "empty")
  /\ disturbed' = IF Contended(h, Job(h).file) THEN disturbed \cup {Job(h).file} ELSE disturbed
  /\ step' = [step EXCEPT ![h] = "truncate"]
  /\ UNCHANGED <<flag, todo, ledger, earned>> /\ HookUnchanged /\ UNCHANGED gate

\* path.read_text.  An OSError reads as {}, on top of which the update is written.
Read(h) ==
  /\ At(h, "merge", "begin")
  /\ LET f == Job(h).file IN
       \/ /\ copy' = [copy EXCEPT ![h] = Load(f)]
          /\ disturbed' = IF Contended(h, f) THEN disturbed \cup {f} ELSE disturbed
       \/ /\ IoFaults
          /\ disturbed' = disturbed \cup {f}
          /\ UNCHANGED copy
  /\ step' = [step EXCEPT ![h] = "truncate"]
  /\ UNCHANGED <<files, flag, todo, ledger, earned>> /\ HookUnchanged /\ UNCHANGED gate

\* open(path, "w"): the file is empty from here until the write.
Truncate(h) ==
  /\ At(h, "merge", "truncate") \/ At(h, "overwrite", "begin")
  /\ LET f == Job(h).file IN
       /\ files' = Marked(f, "empty")
       /\ disturbed' = IF Contended(h, f) THEN disturbed \cup {f} ELSE disturbed
  /\ step' = [step EXCEPT ![h] = "write"]
  /\ UNCHANGED <<flag, todo, copy, ledger, earned>> /\ HookUnchanged /\ UNCHANGED gate

\* Mutant of Write: what the file held wins over the fields of the update.
WriteKeepsOld(h) ==
  /\ Writing(h) /\ step[h] = "write"
  /\ LET f == Job(h).file
         new == [x \in Field |-> IF copy[h][x] # None THEN copy[h][x] ELSE Put(NoData, Job(h).set)[x]]
     IN /\ files' = [files EXCEPT ![f] = [state |-> "json", data |-> new]]
        /\ ledger' = [ledger EXCEPT ![f] =
             Put(IF Job(h).op = "merge" THEN @ ELSE NoData, Job(h).set)]
  /\ Done(h)
  /\ UNCHANGED <<flag, disturbed, earned>> /\ HookUnchanged /\ UNCHANGED gate

\* The text goes to the start of the file.  If another hook has written since
\* the truncation, a longer text of its leaves a tail that no parser accepts.
Write(h) ==
  /\ Writing(h) /\ step[h] = "write"
  /\ LET f == Job(h).file
         new == [state |-> "json", data |-> Put(copy[h], Job(h).set)]
     IN /\ \/ files' = [files EXCEPT ![f] = new]
           \/ files[f].state # "empty" /\ files' = Marked(f, "garbled")
        /\ ledger' = [ledger EXCEPT ![f] =
             Put(IF Job(h).op = "merge" THEN @ ELSE NoData, Job(h).set)]
  /\ Done(h)
  /\ UNCHANGED <<flag, disturbed, earned>> /\ HookUnchanged /\ UNCHANGED gate

\* An OSError of the open or the write is swallowed and the script goes on; a file
\* that was already truncated stays empty.  In _init_session the overwrite and the
\* merge are in one try: the merge is skipped.
IoFails(h) ==
  /\ IoFaults
  /\ Writing(h)
  /\ step[h] # "begin" \/ Job(h).op = "overwrite"
  /\ disturbed' = IF step[h] = "write" THEN disturbed \cup {Job(h).file} ELSE disturbed
  /\ todo' = [todo EXCEPT ![h] = IF Job(h).op = "overwrite" THEN <<>> ELSE Tail(@)]
  /\ step' = [step EXCEPT ![h] = "begin"]
  /\ copy' = [copy EXCEPT ![h] = NoData]
  /\ UNCHANGED <<files, flag, ledger, earned>> /\ HookUnchanged /\ UNCHANGED gate

\* flag.exists(): a later prompt skips the initialisation, and so does one that
\* cannot make the directory of the flag.
CheckFlag(h) ==
  /\ At(h, "check-flag", "begin")
  /\ \/ (conv[h] \in flag \/ IoFaults) /\ Done(h)
     \/ /\ conv[h] \notin flag
        /\ todo' = [todo EXCEPT ![h] = <<Other("touch-flag", conv[h])>> \o Tail(@)]
        /\ UNCHANGED <<step, copy>>
  /\ UNCHANGED <<files, flag, ledger, disturbed, earned>> /\ HookUnchanged /\ UNCHANGED gate

\* flag.touch(), then the initial fields are merged; if touch fails they are not.
TouchFlag(h) ==
  /\ At(h, "touch-flag", "begin")
  /\ \/ /\ flag' = flag \cup {conv[h]}
        /\ todo' = [todo EXCEPT ![h] =
             <<Merge(conv[h], InitFields(h, conv[h], h))>> \o Tail(@)]
        /\ UNCHANGED <<step, copy>>
     \/ IoFaults /\ Done(h) /\ UNCHANGED flag
  /\ UNCHANGED <<files, ledger, disturbed, earned>> /\ HookUnchanged /\ UNCHANGED gate

\* read_session_context, {} when current.json cannot be read: the hook takes the id
\* it finds for its log line and its events.  Nobody compares the conversation.
Link(h) ==
  /\ At(h, "link", "begin")
  /\ \/ linked' = [linked EXCEPT ![h] = Load(Current)["latest_correlation_id"]]
     \/ IoFaults /\ UNCHANGED linked
  /\ Done(h)
  /\ UNCHANGED <<files, flag, launched, conv, gate, ledger, disturbed, earned>>

\* Mutant of Guard: only an explicit red denies, a file that says nothing allows.
GuardFailsOpen(h) ==
  /\ At(h, "guard", "begin")
  /\ gate' = [gate EXCEPT ![h] =
       IF Load(conv[h])["ci_passing"] = "red" THEN "deny" ELSE "allow"]
  /\ Done(h)
  /\ UNCHANGED <<files, flag, ledger, disturbed, earned>> /\ HookUnchanged

\* The DoD tier of guard_command, for a command that matches the transition
\* pattern: a file that is missing, cannot be read or does not parse denies.
Guard(h) ==
  /\ At(h, "guard", "begin")
  /\ \/ gate' = [gate EXCEPT ![h] =
          IF Load(conv[h])["ci_passing"] = "green" THEN "allow" ELSE "deny"]
     \/ IoFaults /\ gate' = [gate EXCEPT ![h] = "deny"]
  /\ Done(h)
  /\ UNCHANGED <<files, flag, ledger, disturbed, earned>> /\ HookUnchanged

\* The agent sets ci_passing once CI is green; how is outside the repository.
SetGreen(c) ==
  /\ files[c].state = "json"
  /\ LET green == [ci_passing |-> "green"] IN
       /\ files' = [files EXCEPT ![c] = [state |-> "json", data |-> Put(@.data, green)]]
       /\ ledger' = [ledger EXCEPT ![c] = Put(@, green)]
  /\ disturbed' = IF \E h \in Hook : Holds(h, c) THEN disturbed \cup {c} ELSE disturbed
  /\ earned' = earned \cup {c}
  /\ UNCHANGED <<flag, todo, step, copy>> /\ HookUnchanged /\ UNCHANGED gate

Kill(h) ==
  /\ Killable /\ Busy(h)
  /\ disturbed' = IF step[h] = "write" THEN disturbed \cup {Job(h).file} ELSE disturbed
  /\ todo' = [todo EXCEPT ![h] = <<>>]
  /\ step' = [step EXCEPT ![h] = "begin"]
  /\ copy' = [copy EXCEPT ![h] = NoData]
  /\ UNCHANGED <<files, flag, ledger, earned>> /\ HookUnchanged /\ UNCHANGED gate

HookStep(h) ==
  \/ Read(h) \/ Truncate(h) \/ Write(h) \/ IoFails(h)
  \/ CheckFlag(h) \/ TouchFlag(h) \/ Link(h) \/ Guard(h)

Next ==
  \/ \E h \in Hook : Launch(h) \/ HookStep(h) \/ Kill(h)
  \/ \E c \in Conv : SetGreen(c)

Spec == Init /\ [][Next]_vars

-----------------------------------------------------------------------------

TypeOK ==
  /\ files \in [File -> Content]
  /\ flag \subseteq Conv
  /\ launched \subseteq Hook
  /\ conv \in [Hook -> Conv]
  /\ step \in [Hook -> {"begin", "truncate", "write"}]
  /\ copy \in [Hook -> Data]
  /\ gate \in [Hook -> {"none", "allow", "deny"}]
  /\ linked \in [Hook -> Hook \cup {None}]
  /\ ledger \in [File -> Data]
  /\ disturbed \subseteq File
  /\ earned \subseteq Conv

\* A reader finds a file empty or garbled only while a hook is in the middle of
\* writing it, or after writers overlapped or one ended half-way.
TornOnlyByWriters ==
  \A f \in File :
    files[f].state \in {"empty", "garbled"} =>
      f \in disturbed \/ \E h \in Hook : Holds(h, f) /\ step[h] = "write"

\* As long as no two updates of a file overlapped, the file holds every update
\* ever made to it, each on top of the ones before: a merge loses nothing.
SerialMergesKeepEverything ==
  \A f \in File :
    (f \notin disturbed /\ \A h \in Hook : ~Holds(h, f)) => Load(f) = ledger[f]

\* The done/completed transition is let through only after CI was green for this
\* conversation; and once a session is initialised again it stays closed until CI
\* is green again, unless updates of the file overlapped.
GateSound ==
  [][\A h \in Hook : (gate[h] = "none" /\ gate'[h] = "allow") =>
       /\ conv[h] \in earned
       /\ ledger[conv[h]]["ci_passing"] = "green" \/ conv[h] \in disturbed]_vars

\* A stop or shell hook takes its event to belong to nobody, or to the prompt whose
\* write of current.json is the latest: never to an earlier one, whatever overlaps,
\* fails or is killed, and never out of a file that mixes two prompts.  That prompt
\* may be of another conversation, whose prompt wrote after the hook's own; the
\* conversation beside the id says so, if a hook looked (none does).
LinkIsLatest ==
  [][\A h \in Hook : linked'[h] \notin {linked[h], None} =>
       /\ linked'[h] = ledger[Current]["latest_correlation_id"]
       /\ Load(Current)["conversation_id"] = conv[linked'[h]]]_vars

=============================================================================
