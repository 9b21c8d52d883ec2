------------------------- MODULE SessionFilesProofs -------------------------
(***************************************************************************)
(* merge_session_json loses nothing and leaves nothing torn for a reader   *)
(* as long as updates of the file do not overlap, for any number of hooks  *)
(* and conversations, with kills and failing writes allowed or not; and    *)
(* the gate that reads the file opens only on a green that was earned.     *)
(***************************************************************************)
EXTENDS SessionFiles, TLAPS

Shape ==
  /\ todo = [h \in Hook |-> todo[h]]
  /\ step = [h \in Hook |-> step[h]]
  /\ copy = [h \in Hook |-> copy[h]]
  /\ ledger = [f \in File |-> ledger[f]]
  /\ files = [f \in File |-> [state |-> files[f].state, data |-> files[f].data]]

\* What the place of a hook within its operation says about the operation.
HookOK(h) ==
  /\ step[h] \in {"begin", "truncate", "write"}
  /\ step[h] = "begin" => copy[h] = NoData
  /\ step[h] = "truncate" => Busy(h) /\ Job(h).op = "merge"
  /\ step[h] = "write" => Writing(h) /\ (Job(h).op = "overwrite" => copy[h] = NoData)
  /\ h \notin launched => todo[h] = <<>>

\* A file whose updates never overlapped: at most one hook is updating it, from a
\* copy of all updates so far; it is empty while that hook writes and complete
\* otherwise.
FileOK(f) ==
  /\ \A g, h \in Hook : Holds(g, f) /\ Holds(h, f) => g = h
  /\ \A h \in Hook : Holds(h, f) /\ step[h] = "write" => files[f].state = "empty"
  /\ \A h \in Hook : Holds(h, f) /\ Job(h).op = "merge" => copy[h] = ledger[f]
  /\ (\A h \in Hook : Holds(h, f) => step[h] = "truncate") =>
       /\ files[f].state \in {"missing", "json"}
       /\ Load(f) = ledger[f]

IInv ==
  /\ Shape
  /\ \A h \in Hook : HookOK(h)
  /\ \A f \in File : f \notin disturbed => FileOK(f)

-----------------------------------------------------------------------------

LEMMA InitIInv == Init => IInv
<1> SUFFICES ASSUME Init PROVE IInv
  OBVIOUS
<1>1. Shape
  BY DEF Init, Shape
<1>2. \A h \in Hook : HookOK(h)
  BY DEF Init, HookOK
<1>3. \A f \in File : FileOK(f)
  BY DEF Init, FileOK, Holds, Writing, Busy, Load
<1> QED BY <1>1, <1>2, <1>3 DEF IInv

\* What a hook does leaves the other hooks where they are.
OthersKeep(h) ==
  \A g \in Hook \ {h} : /\ todo'[g] = todo[g] /\ step'[g] = step[g]
                        /\ copy'[g] = copy[g] /\ (g \in launched' <=> g \in launched)

LEMMA OthersHold ==
  ASSUME NEW h \in Hook, OthersKeep(h), NEW g \in Hook \ {h}
  PROVE  /\ HookOK(g) => HookOK(g)'
         /\ \A f \in File : Holds(g, f)' <=> Holds(g, f)
         /\ Job(g)' = Job(g)
BY DEF OthersKeep, HookOK, Holds, Writing, Busy, Job

\* A step in which h holds no file, before or after, and no file changes.
LEMMA IdleStep ==
  ASSUME IInv, NEW h \in Hook, OthersKeep(h), Shape', HookOK(h)',
         UNCHANGED <<files, ledger, disturbed>>, step[h] = "begin", step'[h] = "begin"
  PROVE  IInv'
<1>1. \A f \in File : ~Holds(h, f) /\ ~Holds(h, f)'
  BY DEF Holds
<1>2. \A g \in Hook : HookOK(g)'
  BY OthersHold DEF IInv
<1>3. ASSUME NEW f \in File, FileOK(f) PROVE FileOK(f)'
  <2>1. \A g \in Hook : /\ Holds(g, f)' <=> Holds(g, f)
                        /\ Holds(g, f) => Job(g)' = Job(g) /\ step'[g] = step[g] /\ copy'[g] = copy[g]
    BY <1>1, OthersHold DEF OthersKeep
  <2> QED BY <1>3, <2>1 DEF FileOK, Load
<1> QED BY <1>2, <1>3 DEF IInv

LEMMA ReadStep ==
  ASSUME IInv, NEW h \in Hook, Read(h)
  PROVE  IInv'
<1> DEFINE f0 == Job(h).file
<1>1. OthersKeep(h) /\ Shape'
  BY DEF Read, HookUnchanged, OthersKeep, IInv, Shape
<1>2. /\ step[h] = "begin" /\ Busy(h) /\ Job(h).op = "merge" /\ step'[h] = "truncate"
      /\ Job(h)' = Job(h) /\ Busy(h)' /\ todo[h] # <<>> /\ launched' = launched /\ todo'[h] = todo[h]
  BY DEF Read, At, HookUnchanged, IInv, Shape, Job, Busy
<1>3. \A g \in Hook : HookOK(g)'
  BY <1>1, <1>2, OthersHold DEF IInv, HookOK
<1>4. ASSUME NEW f \in File, f \notin disturbed' PROVE FileOK(f)'
  <2>1. f \notin disturbed /\ FileOK(f) /\ ~Holds(h, f)
    BY <1>4, <1>2 DEF Read, IInv, Holds
  <2>2. files' = files /\ ledger' = ledger
    BY DEF Read
  <2>3. CASE f # f0
    <3>1. ~Holds(h, f)'
      BY <2>3, <1>2 DEF Holds
    <3>2. \A g \in Hook : /\ Holds(g, f)' <=> Holds(g, f)
                          /\ Holds(g, f) => Job(g)' = Job(g) /\ step'[g] = step[g] /\ copy'[g] = copy[g]
      BY <1>1, <2>1, <3>1, OthersHold DEF OthersKeep
    <3> QED BY <2>1, <2>2, <3>2 DEF FileOK, Load
  <2>4. CASE f = f0
    <3>1. ~Contended(h, f) /\ copy'[h] = Load(f)
      BY <1>4, <2>4 DEF Read, IInv, Shape
    <3>2. \A g \in Hook \ {h} : ~Holds(g, f) /\ ~Holds(g, f)'
      BY <1>1, <3>1, OthersHold DEF Contended
    <3>3. Load(f) = ledger[f] /\ files[f].state \in {"missing", "json"}
      BY <2>1, <3>2 DEF FileOK
    <3>4. Load(f)' = Load(f)
      BY <2>2 DEF Load
    <3> QED BY <1>2, <2>2, <3>1, <3>2, <3>3, <3>4 DEF FileOK
  <2> QED BY <2>3, <2>4
<1> QED BY <1>1, <1>3, <1>4 DEF IInv

LEMMA TruncateStep ==
  ASSUME IInv, NEW h \in Hook, Truncate(h)
  PROVE  IInv'
<1> DEFINE f0 == Job(h).file
<1>1. OthersKeep(h) /\ Shape'
  BY DEF Truncate, Marked, HookUnchanged, OthersKeep, IInv, Shape
<1>2. /\ Writing(h) /\ Writing(h)' /\ step'[h] = "write" /\ Job(h)' = Job(h)
      /\ launched' = launched /\ todo'[h] = todo[h] /\ copy'[h] = copy[h]
      /\ Job(h).op = "overwrite" => step[h] = "begin"
      /\ step[h] \in {"begin", "truncate"}
  BY DEF Truncate, At, HookUnchanged, IInv, Shape, Job, Busy, Writing
<1>3. \A g \in Hook : HookOK(g)'
  BY <1>1, <1>2, OthersHold DEF IInv, HookOK, Writing, Busy
<1>4. ASSUME NEW f \in File, f \notin disturbed' PROVE FileOK(f)'
  <2>1. f \notin disturbed /\ FileOK(f)
    BY <1>4 DEF Truncate, IInv
  <2>2. ledger' = ledger
    BY DEF Truncate
  <2>3. CASE f # f0
    <3>1. ~Holds(h, f) /\ ~Holds(h, f)' /\ files'[f] = files[f]
      BY <2>3, <1>2 DEF Holds, Truncate, Marked, IInv, Shape
    <3>2. \A g \in Hook : /\ Holds(g, f)' <=> Holds(g, f)
                          /\ Holds(g, f) => Job(g)' = Job(g) /\ step'[g] = step[g] /\ copy'[g] = copy[g]
      BY <1>1, <3>1, OthersHold DEF OthersKeep
    <3>3. Load(f)' = Load(f)
      BY <3>1 DEF Load
    <3> QED BY <2>1, <2>2, <3>1, <3>2, <3>3 DEF FileOK
  <2>4. CASE f = f0
    <3>1. ~Contended(h, f) /\ files'[f].state = "empty"
      BY <1>4, <2>4 DEF Truncate, Marked, IInv, Shape
    <3>2. \A g \in Hook \ {h} : ~Holds(g, f)'
      BY <1>1, <3>1, OthersHold DEF Contended
    <3>3. Holds(h, f)' /\ step'[h] # "truncate"
      BY <1>2, <2>4 DEF Holds
    <3>4. Job(h).op = "merge" => Holds(h, f)
      BY <1>2, <2>4 DEF Truncate, At, Holds
    <3>5. Job(h)'.op = "merge" => copy'[h] = ledger'[f]
      BY <1>2, <2>1, <2>2, <3>4 DEF FileOK
    <3> QED BY <3>1, <3>2, <3>3, <3>5 DEF FileOK
  <2> QED BY <2>3, <2>4
<1> QED BY <1>1, <1>3, <1>4 DEF IInv

\* A hook that leaves its operation, at a point where the file is complete, or at
\* the write, after which the file counts as disturbed.
LEMMA LeaveStep ==
  ASSUME IInv, NEW h \in Hook, OthersKeep(h), Shape', HookOK(h)',
         UNCHANGED <<files, ledger>>, step'[h] = "begin",
         disturbed \subseteq disturbed',
         step[h] = "write" => Job(h).file \in disturbed'
  PROVE  IInv'
<1>1. \A g \in Hook : HookOK(g)'
  BY OthersHold DEF IInv
<1>2. ASSUME NEW f \in File, f \notin disturbed' PROVE FileOK(f)'
  <2>1. FileOK(f) /\ ~Holds(h, f)' /\ (Holds(h, f) => step[h] = "truncate")
    BY <1>2 DEF IInv, Holds, HookOK
  <2>2. \A g \in Hook \ {h} : /\ Holds(g, f)' <=> Holds(g, f)
                              /\ Job(g)' = Job(g) /\ step'[g] = step[g] /\ copy'[g] = copy[g]
    BY OthersHold DEF OthersKeep
  <2>3. Load(f)' = Load(f)
    BY DEF Load
  <2>4. (\A g \in Hook : Holds(g, f)' => step'[g] = "truncate")
          => \A g \in Hook : Holds(g, f) => step[g] = "truncate"
    BY <2>1, <2>2
  <2> QED BY <2>1, <2>2, <2>3, <2>4 DEF FileOK
<1> QED BY <1>1, <1>2 DEF IInv

LEMMA WriteStep ==
  ASSUME IInv, NEW h \in Hook, Write(h)
  PROVE  IInv'
<1> DEFINE f0 == Job(h).file
<1>1. OthersKeep(h) /\ Shape'
  <2>1. OthersKeep(h) /\ launched' = launched
    BY DEF Write, Done, HookUnchanged, OthersKeep, IInv, Shape
  <2>2. /\ todo' = [g \in Hook |-> todo'[g]] /\ step' = [g \in Hook |-> step'[g]]
        /\ copy' = [g \in Hook |-> copy'[g]] /\ ledger' = [f \in File |-> ledger'[f]]
    BY DEF Write, Done, IInv, Shape
  <2>3. files' = [f \in File |-> [state |-> files'[f].state, data |-> files'[f].data]]
    <3>1. CASE files' = [files EXCEPT ![f0] = [state |-> "json", data |-> Put(copy[h], Job(h).set)]]
      BY <3>1 DEF IInv, Shape
    <3>2. CASE files' = Marked(f0, "garbled")
      BY <3>2 DEF Marked, IInv, Shape
    <3> QED BY <3>1, <3>2 DEF Write
  <2> QED BY <2>1, <2>2, <2>3 DEF IInv, Shape
<1>2. /\ Writing(h) /\ step[h] = "write" /\ step'[h] = "begin" /\ copy'[h] = NoData
      /\ launched' = launched /\ todo[h] # <<>>
  BY DEF Write, Done, HookUnchanged, IInv, Shape, Writing, Busy
<1>3. \A g \in Hook : HookOK(g)'
  BY <1>1, <1>2, OthersHold DEF IInv, HookOK
<1>4. ASSUME NEW f \in File, f \notin disturbed' PROVE FileOK(f)'
  <2>1. FileOK(f) /\ ~Holds(h, f)'
    BY <1>4, <1>2 DEF Write, IInv, Holds
  <2>2. \A g \in Hook \ {h} : /\ Holds(g, f)' <=> Holds(g, f)
                              /\ Job(g)' = Job(g) /\ step'[g] = step[g] /\ copy'[g] = copy[g]
    BY <1>1, OthersHold DEF OthersKeep
  <2>3. CASE f # f0
    <3>1. ~Holds(h, f) /\ files'[f] = files[f] /\ ledger'[f] = ledger[f]
      BY <2>3 DEF Holds, Write, Marked, IInv, Shape
    <3>2. Load(f)' = Load(f)
      BY <3>1 DEF Load
    <3> QED BY <2>1, <2>2, <3>1, <3>2 DEF FileOK
  <2>4. CASE f = f0
    <3>1. Holds(h, f) /\ files[f].state = "empty"
      BY <1>2, <2>1, <2>4 DEF FileOK, Holds
    <3>2. \A g \in Hook : ~Holds(g, f)'
      BY <2>1, <2>2, <3>1 DEF FileOK
    <3>3. copy[h] = IF Job(h).op = "merge" THEN ledger[f] ELSE NoData
      BY <1>2, <2>1, <3>1 DEF FileOK, IInv, HookOK, Writing
    <3>4. /\ files'[f] = [state |-> "json", data |-> Put(copy[h], Job(h).set)]
          /\ ledger'[f] = Put(copy[h], Job(h).set)
      BY <2>4, <3>1, <3>3 DEF Write, Marked, IInv, Shape
    <3>5. files'[f].state = "json" /\ Load(f)' = ledger'[f]
      BY <3>4 DEF Load
    <3> QED BY <3>2, <3>5 DEF FileOK
  <2> QED BY <2>3, <2>4
<1> QED BY <1>1, <1>3, <1>4 DEF IInv

LEMMA SetGreenStep ==
  ASSUME IInv, NEW c \in Conv, SetGreen(c)
  PROVE  IInv'
<1>1. UNCHANGED <<todo, step, copy, launched>>
  BY DEF SetGreen, HookUnchanged
<1>2. Shape'
  BY <1>1 DEF SetGreen, IInv, Shape
<1>3. \A g \in Hook : HookOK(g)' /\ (\A f \in File : Holds(g, f)' <=> Holds(g, f)) /\ Job(g)' = Job(g)
  BY <1>1 DEF IInv, HookOK, Holds, Writing, Busy, Job
<1>4. ASSUME NEW f \in File, f \notin disturbed' PROVE FileOK(f)'
  <2>1. FileOK(f)
    BY <1>4 DEF SetGreen, IInv
  <2>2. CASE f # c
    <3>1. files'[f] = files[f] /\ ledger'[f] = ledger[f]
      BY <2>2 DEF SetGreen, IInv, Shape
    <3> QED BY <1>1, <1>3, <2>1, <3>1 DEF FileOK, Load
  <2>3. CASE f = c
    <3>1. \A g \in Hook : ~Holds(g, f) /\ ~Holds(g, f)'
      BY <1>3, <1>4, <2>3 DEF SetGreen
    <3>2. files[f].state = "json" /\ files[f].data = ledger[f]
      BY <2>1, <2>3, <3>1 DEF FileOK, SetGreen, Load
    <3>3. files'[f].state = "json" /\ files'[f].data = ledger'[f]
      BY <2>3, <3>2 DEF SetGreen, IInv, Shape
    <3> QED BY <3>1, <3>3 DEF FileOK, Load
  <2> QED BY <2>2, <2>3
<1> QED BY <1>2, <1>3, <1>4 DEF IInv

LEMMA NextKeepsIInv == IInv /\ [Next]_vars => IInv'
<1> SUFFICES ASSUME IInv, [Next]_vars PROVE IInv'
  OBVIOUS
<1> USE DEF HookUnchanged
<1>1. ASSUME NEW h \in Hook, Launch(h) PROVE IInv'
  <2>1. step[h] = "begin"
    BY <1>1 DEF Launch, IInv, HookOK, Writing, Busy
  <2>2. OthersKeep(h) /\ Shape'
    BY <1>1 DEF Launch, OthersKeep, IInv, Shape
  <2>3. /\ step'[h] = "begin" /\ copy'[h] = NoData /\ h \in launched'
        /\ UNCHANGED <<files, ledger, disturbed>>
    BY <1>1, <2>1, KindAssumption DEF Launch, IInv, Shape, HookOK, AllKinds
  <2>4. HookOK(h)'
    BY <2>3 DEF HookOK
  <2> QED BY <2>1, <2>2, <2>3, <2>4, IdleStep
<1>2. ASSUME NEW h \in Hook, Read(h) PROVE IInv'
  BY <1>2, ReadStep
<1>3. ASSUME NEW h \in Hook, Truncate(h) PROVE IInv'
  BY <1>3, TruncateStep
<1>4. ASSUME NEW h \in Hook, Write(h) PROVE IInv'
  BY <1>4, WriteStep
<1>5. ASSUME NEW h \in Hook, IoFails(h) PROVE IInv'
  <2>1. OthersKeep(h) /\ Shape'
    BY <1>5 DEF IoFails, Done, OthersKeep, IInv, Shape
  <2>2. step'[h] = "begin" /\ copy'[h] = NoData /\ launched' = launched /\ todo[h] # <<>>
    BY <1>5 DEF IoFails, Done, IInv, Shape, Writing, Busy
  <2>3. HookOK(h)'
    BY <2>2 DEF IInv, HookOK
  <2> QED BY <1>5, <2>1, <2>2, <2>3, LeaveStep DEF IoFails
<1>6. ASSUME NEW h \in Hook, CheckFlag(h) \/ TouchFlag(h) \/ Link(h) \/ Guard(h) PROVE IInv'
  <2>1. OthersKeep(h) /\ Shape'
    BY <1>6 DEF CheckFlag, TouchFlag, Link, Guard, Done, OthersKeep, IInv, Shape
  <2>2. /\ step[h] = "begin" /\ step'[h] = "begin" /\ copy'[h] = NoData
        /\ launched' = launched /\ todo[h] # <<>> /\ UNCHANGED <<files, ledger, disturbed>>
    BY <1>6 DEF CheckFlag, TouchFlag, Link, Guard, At, Busy, Done, IInv, Shape, HookOK
  <2>3. HookOK(h)'
    BY <2>2 DEF IInv, HookOK
  <2> QED BY <2>1, <2>2, <2>3, IdleStep
<1>7. ASSUME NEW h \in Hook, Kill(h) PROVE IInv'
  <2>1. OthersKeep(h) /\ Shape'
    BY <1>7 DEF Kill, OthersKeep, IInv, Shape
  <2>2. step'[h] = "begin" /\ copy'[h] = NoData /\ todo'[h] = <<>>
    BY <1>7 DEF Kill, IInv, Shape
  <2>3. HookOK(h)'
    BY <2>2 DEF HookOK
  <2> QED BY <1>7, <2>1, <2>2, <2>3, LeaveStep DEF Kill
<1>8. ASSUME NEW c \in Conv, SetGreen(c) PROVE IInv'
  BY <1>8, SetGreenStep
<1>9. CASE UNCHANGED vars
  BY <1>9 DEF vars, IInv, Shape, HookOK, FileOK, Holds, Writing, Busy, Job, Load
<1> QED
  BY <1>1, <1>2, <1>3, <1>4, <1>5, <1>6, <1>7, <1>8, <1>9 DEF Next, HookStep

\* Unless updates overlapped or one ended half-way, a session file holds every
\* update ever made to it.
THEOREM SerialMergesTheorem == Spec => []SerialMergesKeepEverything
<1>1. IInv => SerialMergesKeepEverything
  BY DEF IInv, FileOK, SerialMergesKeepEverything
<1> QED BY <1>1, InitIInv, NextKeepsIInv, PTL DEF Spec

\* A reader finds a file torn only during a write, unless updates of it overlapped
\* or one ended half-way.
THEOREM TornTheorem == Spec => []TornOnlyByWriters
<1>1. IInv => TornOnlyByWriters
  <2> SUFFICES ASSUME IInv, NEW f \in File, f \notin disturbed,
                      files[f].state \in {"empty", "garbled"}
               PROVE  \E h \in Hook : Holds(h, f) /\ step[h] = "write"
    BY DEF TornOnlyByWriters
  <2>1. ~(\A h \in Hook : Holds(h, f) => step[h] = "truncate")
    BY DEF IInv, FileOK
  <2> QED BY <2>1 DEF Holds
<1> QED BY <1>1, InitIInv, NextKeepsIInv, PTL DEF Spec

-----------------------------------------------------------------------------
\* Types, and the pair of fields that a prompt writes to current.json.

\* The operations that a hook may have left.
Jobs(h) ==
  LET c == conv[h] IN
    {Overwrite(Current, [conversation_id |-> c, started_at |-> h]),
     Merge(Current, [conversation_id |-> c, latest_correlation_id |-> h]),
     Merge(c, InitFields(h, c, None)), Merge(c, InitFields(h, c, h)),
     Merge(c, [last_prompt_at |-> h]), Merge(c, [session_outcome |-> h])}
    \cup {Other(op, f) : op \in {"check-flag", "touch-flag", "link", "guard"}, f \in File}

JobsOK ==
  /\ todo = [h \in Hook |-> todo[h]]
  /\ \A h \in Hook : todo[h] \in Seq(Jobs(h))

PairOK(data) ==
  data["latest_correlation_id"] # None =>
    /\ data["latest_correlation_id"] \in Hook
    /\ data["conversation_id"] = conv[data["latest_correlation_id"]]

\* Each prompt puts both fields of the pair in, into data that has none or both; what
\* is in the file is due to the latest prompt, or was taken out of it.
PairsOK ==
  /\ PairOK(files[Current].data)
  /\ files[Current].data["latest_correlation_id"] \in {None, ledger[Current]["latest_correlation_id"]}
  /\ \A h \in Hook : Writing(h) /\ Job(h).file = Current => PairOK(copy[h])

TInv == TypeOK /\ JobsOK /\ PairsOK

LEMMA InitTInv == Init => TInv
<1> SUFFICES ASSUME Init PROVE TInv
  OBVIOUS
<1>1. NoData \in Data /\ PairOK(NoData)
  BY DEF NoData, Data, Value, Field, PairOK
<1>2. TypeOK
  BY <1>1 DEF Init, TypeOK, Content
<1>3. JobsOK
  BY DEF Init, JobsOK
<1>4. PairsOK
  BY <1>1 DEF Init, PairsOK, File, Writing, Busy, NoData, Field
<1> QED BY <1>2, <1>3, <1>4 DEF TInv

LEMMA PutTyped ==
  ASSUME NEW data \in Data, NEW set, \A x \in Field : x \in DOMAIN set => set[x] \in Value
  PROVE  Put(data, set) \in Data
BY DEF Put, Data

\* What an update puts in.
LEMMA JobFacts ==
  ASSUME TInv, NEW h \in Hook, NEW j \in Jobs(h), j.op \in {"merge", "overwrite"}
  PROVE  /\ j.file \in File
         /\ \A x \in Field : x \in DOMAIN j.set => j.set[x] \in Value
         /\ j.file = Current /\ j.op = "merge" =>
              j.set = [conversation_id |-> conv[h], latest_correlation_id |-> h]
         /\ j.file = Current /\ j.op = "overwrite" =>
              j.set = [conversation_id |-> conv[h], started_at |-> h]
<1> USE DEF Merge, Overwrite
<1>1. conv[h] \in Conv /\ conv[h] # Current
  BY NameAssumption DEF TInv, TypeOK
<1>2. CASE j = Overwrite(Current, [conversation_id |-> conv[h], started_at |-> h])
  BY <1>1, <1>2 DEF File, Value
<1>3. CASE j = Merge(Current, [conversation_id |-> conv[h], latest_correlation_id |-> h])
  BY <1>1, <1>3 DEF File, Value
<1>4. CASE \E last \in {None, h} : j = Merge(conv[h], InitFields(h, conv[h], last))
  BY <1>1, <1>4 DEF File, Value, InitFields
<1>5. CASE j = Merge(conv[h], [last_prompt_at |-> h]) \/ j = Merge(conv[h], [session_outcome |-> h])
  BY <1>1, <1>5 DEF File, Value
<1>6. CASE \E op \in {"check-flag", "touch-flag", "link", "guard"}, f \in File : j = Other(op, f)
  BY <1>6 DEF Other
<1> QED BY <1>2, <1>3, <1>4, <1>5, <1>6 DEF Jobs

LEMMA ScriptTyped ==
  ASSUME NEW h \in Hook, NEW k \in AllKinds, conv[h] \in Conv
  PROVE  Script(k, h, conv[h]) \in Seq(Jobs(h))
<1> DEFINE c == conv[h]
<1>1. /\ Overwrite(Current, [conversation_id |-> c, started_at |-> h]) \in Jobs(h)
      /\ Merge(Current, [conversation_id |-> c, latest_correlation_id |-> h]) \in Jobs(h)
      /\ Merge(c, InitFields(h, c, None)) \in Jobs(h)
      /\ Merge(c, [last_prompt_at |-> h]) \in Jobs(h)
      /\ Merge(c, [session_outcome |-> h]) \in Jobs(h)
  BY DEF Jobs
<1>2. /\ Other("link", Current) \in Jobs(h) /\ Other("guard", c) \in Jobs(h)
      /\ Other("check-flag", c) \in Jobs(h)
  BY DEF Jobs, File
<1>3. CASE k = "session-start"
  BY <1>1, <1>3 DEF Script
<1>4. CASE k = "prompt"
  BY <1>1, <1>2, <1>4 DEF Script
<1>5. CASE k = "stop"
  BY <1>1, <1>2, <1>5 DEF Script
<1>6. CASE k = "shell"
  BY <1>1, <1>2, <1>6 DEF Script
<1> QED BY <1>3, <1>4, <1>5, <1>6 DEF AllKinds

\* The hooks other than h, and what one operation less leaves h with.
LEMMA JobsStep ==
  ASSUME TInv, conv' = conv, NEW h \in Hook, NEW ops \in Seq(Jobs(h)),
         todo' = [todo EXCEPT ![h] = ops]
  PROVE  JobsOK'
<1>1. \A g \in Hook : Jobs(g)' = Jobs(g)
  BY DEF Jobs
<1>2. \A g \in Hook : todo'[g] \in Seq(Jobs(g)')
  BY <1>1 DEF TInv, JobsOK
<1>3. todo' = [g \in Hook |-> todo'[g]]
  BY DEF TInv, JobsOK
<1> QED BY <1>2, <1>3 DEF JobsOK

LEMMA JobsKept ==
  ASSUME JobsOK, UNCHANGED <<conv, todo>>
  PROVE  JobsOK'
<1>1. \A g \in Hook : Jobs(g)' = Jobs(g)
  BY DEF Jobs
<1> QED BY <1>1 DEF JobsOK

LEMMA HeadJob ==
  ASSUME TInv, NEW h \in Hook, Busy(h)
  PROVE  Job(h) \in Jobs(h) /\ Tail(todo[h]) \in Seq(Jobs(h))
BY DEF TInv, JobsOK, Busy, Job

\* A step that finishes or drops operations of h and changes no file.
LEMMA NoFileStep ==
  ASSUME TInv, NEW h \in Hook, UNCHANGED <<conv, files, ledger>>, TypeOK', JobsOK',
         \A g \in Hook \ {h} : todo'[g] = todo[g] /\ copy'[g] = copy[g],
         copy'[h] = NoData
  PROVE  TInv'
<1>1. PairOK(NoData)'
  BY DEF PairOK, NoData, Field
<1>2. \A g \in Hook \ {h} : (Writing(g) <=> Writing(g)') /\ Job(g)' = Job(g)
  BY DEF Writing, Busy, Job
<1>3. \A g \in Hook \ {h} : Writing(g)' /\ Job(g)'.file = Current => PairOK(copy[g])
  BY <1>2 DEF TInv, PairsOK
<1>4. PairsOK'
  BY <1>1, <1>3 DEF TInv, PairsOK, PairOK
<1> QED BY <1>4 DEF TInv

LEMMA LoadTyped ==
  ASSUME TInv, NEW f \in File
  PROVE  Load(f) \in Data /\ (f = Current => PairOK(Load(f)))
<1>1. NoData \in Data /\ PairOK(NoData)
  BY DEF NoData, Data, Value, Field, PairOK
<1> QED BY <1>1 DEF Load, TInv, TypeOK, Content, PairsOK

LEMMA ReadTyped ==
  ASSUME TInv, IInv, NEW h \in Hook, Read(h)
  PROVE  TInv'
<1> DEFINE f == Job(h).file
<1>1. f \in File /\ Load(f) \in Data /\ (f = Current => PairOK(Load(f)))
  BY HeadJob, JobFacts, LoadTyped DEF Read, At
<1>2. PairOK(NoData) /\ copy[h] = NoData
  BY DEF PairOK, NoData, Field, IInv, HookOK, Read, At
<1>3. TypeOK'
  BY <1>1 DEF Read, HookUnchanged, TInv, TypeOK
<1>4. UNCHANGED <<todo, conv, files, ledger>>
  BY DEF Read, HookUnchanged
<1>5. JobsOK'
  BY <1>4, JobsKept DEF TInv
<1>6. copy' = [copy EXCEPT ![h] = Load(f)] \/ copy' = copy
  BY DEF Read
<1>7. PairsOK'
  <2>1. \A g \in Hook : Writing(g)' /\ Job(g)'.file = Current =>
          Writing(g) /\ Job(g).file = Current
    BY <1>4 DEF Writing, Busy, Job
  <2>2. \A g \in Hook : Writing(g) /\ Job(g).file = Current => PairOK(copy'[g])
    BY <1>1, <1>2, <1>6 DEF TInv, PairsOK, TypeOK
  <2> QED BY <1>4, <2>1, <2>2 DEF TInv, PairsOK, PairOK
<1> QED BY <1>3, <1>5, <1>7 DEF TInv

LEMMA TruncateTyped ==
  ASSUME TInv, NEW h \in Hook, Truncate(h)
  PROVE  TInv'
<1> DEFINE f == Job(h).file
<1>1. f \in File
  BY HeadJob, JobFacts DEF Truncate, At
<1>2. NoData \in Data /\ PairOK(NoData)
  BY DEF NoData, Data, Value, Field, PairOK
<1>3. UNCHANGED <<todo, conv, copy, ledger>> /\ files' = Marked(f, "empty")
  BY DEF Truncate, HookUnchanged
<1>4. TypeOK'
  BY <1>1, <1>2, <1>3 DEF Truncate, HookUnchanged, TInv, TypeOK, Marked, Content
<1>5. JobsOK'
  BY <1>3, JobsKept DEF TInv
<1>6. files'[Current].data = files[Current].data \/ files'[Current].data = NoData
  BY <1>3 DEF Marked, TInv, TypeOK, File
<1>7. /\ PairOK(files'[Current].data)
      /\ files'[Current].data["latest_correlation_id"] \in {None, ledger[Current]["latest_correlation_id"]}
  BY <1>2, <1>6 DEF TInv, PairsOK, NoData, Field
<1>8. PairsOK'
  BY <1>3, <1>7 DEF TInv, PairsOK, PairOK, Writing, Busy, Job
<1> QED BY <1>4, <1>5, <1>8 DEF TInv

LEMMA WriteTyped ==
  ASSUME TInv, IInv, NEW h \in Hook, Write(h)
  PROVE  TInv'
<1> DEFINE f == Job(h).file
           set == Job(h).set
           new == Put(copy[h], set)
<1>1. Writing(h) /\ Busy(h) /\ Job(h) \in Jobs(h) /\ Tail(todo[h]) \in Seq(Jobs(h))
  BY HeadJob DEF Write, Writing
<1>2. /\ f \in File
      /\ \A x \in Field : x \in DOMAIN set => set[x] \in Value
  BY <1>1, JobFacts DEF Writing
<1>3. NoData \in Data /\ PairOK(NoData)
  BY DEF NoData, Data, Value, Field, PairOK
<1>4. new \in Data /\ \A data \in Data : Put(data, set) \in Data
  BY <1>2, PutTyped DEF TInv, TypeOK
<1>5. f = Current => /\ PairOK(new)
                     /\ new["latest_correlation_id"] \in {None, ledger'[f]["latest_correlation_id"]}
  <2>1. CASE Job(h).op = "merge" /\ f = Current
    <3>1. set = [conversation_id |-> conv[h], latest_correlation_id |-> h]
      BY <1>1, <2>1, JobFacts
    <3>2. ledger'[f] = Put(ledger[f], set)
      BY <1>2, <2>1 DEF Write, TInv, TypeOK
    <3> QED BY <3>1, <3>2 DEF Put, PairOK, Field
  <2>2. CASE Job(h).op = "overwrite" /\ f = Current
    <3>1. set = [conversation_id |-> conv[h], started_at |-> h]
      BY <1>1, <2>2, JobFacts
    <3>2. copy[h] = NoData
      BY <2>2 DEF IInv, HookOK, Write
    <3> QED BY <3>1, <3>2 DEF Put, PairOK, NoData, Field
  <2> QED BY <1>1, <2>1, <2>2 DEF Writing
<1>6. /\ conv' = conv /\ todo' = [todo EXCEPT ![h] = Tail(todo[h])]
      /\ copy' = [copy EXCEPT ![h] = NoData] /\ step' = [step EXCEPT ![h] = "begin"]
  BY DEF Write, Done, HookUnchanged
<1>7. files' = [files EXCEPT ![f] = [state |-> "json", data |-> new]] \/ files' = Marked(f, "garbled")
  BY DEF Write
<1>8. files' \in [File -> Content]
  BY <1>2, <1>3, <1>4, <1>7 DEF TInv, TypeOK, Marked, Content
<1>9. ledger' \in [File -> Data]
  BY <1>2, <1>3, <1>4 DEF Write, TInv, TypeOK
<1>10. TypeOK'
  BY <1>3, <1>6, <1>8, <1>9 DEF Write, HookUnchanged, TInv, TypeOK
<1>11. JobsOK'
  BY <1>1, <1>6, JobsStep
<1>12. /\ PairOK(files'[Current].data)
       /\ files'[Current].data["latest_correlation_id"] \in {None, ledger'[Current]["latest_correlation_id"]}
  <2>1. CASE f # Current
    <3>1. files'[Current] = files[Current] /\ ledger'[Current] = ledger[Current]
      BY <1>2, <1>7, <2>1 DEF Marked, Write, TInv, TypeOK, File
    <3> QED BY <3>1 DEF TInv, PairsOK
  <2>2. CASE f = Current
    <3>1. files'[Current].data \in {new, NoData}
      BY <1>2, <1>7, <2>2 DEF Marked, TInv, TypeOK
    <3>2. NoData["latest_correlation_id"] = None
      BY DEF NoData, Field
    <3> QED BY <1>3, <1>5, <2>2, <3>1, <3>2
  <2> QED BY <2>1, <2>2
<1>13. \A g \in Hook : Writing(g)' /\ Job(g)'.file = Current => PairOK(copy'[g])
  <2>1. copy'[h] = NoData
    BY <1>6 DEF TInv, TypeOK
  <2>2. \A g \in Hook \ {h} : /\ Writing(g)' /\ Job(g)'.file = Current => Writing(g) /\ Job(g).file = Current
                              /\ copy'[g] = copy[g]
    BY <1>6 DEF Writing, Busy, Job, TInv, TypeOK, JobsOK
  <2> QED BY <1>3, <2>1, <2>2 DEF TInv, PairsOK
<1>14. PairsOK'
  BY <1>6, <1>12, <1>13 DEF PairsOK, PairOK
<1> QED BY <1>10, <1>11, <1>14 DEF TInv

LEMMA SetGreenTyped ==
  ASSUME TInv, NEW c \in Conv, SetGreen(c)
  PROVE  TInv'
<1> DEFINE green == [ci_passing |-> "green"]
<1>1. \A data \in Data : Put(data, green) \in Data
  BY PutTyped DEF Value
<1>2. c \in File /\ c # Current
  BY NameAssumption DEF File
<1>3. /\ files' = [files EXCEPT ![c] = [state |-> "json", data |-> Put(files[c].data, green)]]
      /\ ledger' = [ledger EXCEPT ![c] = Put(ledger[c], green)]
      /\ UNCHANGED <<todo, conv, copy>>
  BY DEF SetGreen, HookUnchanged
<1>4. files' \in [File -> Content] /\ ledger' \in [File -> Data]
  BY <1>1, <1>2, <1>3 DEF TInv, TypeOK, Content
<1>5. TypeOK'
  BY <1>2, <1>4 DEF SetGreen, HookUnchanged, TInv, TypeOK
<1>6. files'[Current] = files[Current] /\ ledger'[Current] = ledger[Current]
  BY <1>2, <1>3 DEF TInv, TypeOK
<1>7. PairsOK'
  BY <1>3, <1>6 DEF TInv, PairsOK, PairOK, Writing, Busy, Job
<1> QED BY <1>3, <1>5, <1>7, JobsKept DEF TInv

LEMMA NextKeepsTInv == TInv /\ IInv /\ [Next]_vars => TInv'
<1> SUFFICES ASSUME TInv, IInv, [Next]_vars PROVE TInv'
  OBVIOUS
<1> USE DEF HookUnchanged
<1>1. \A h \in Hook : step[h] = "begin" => copy[h] = NoData
  BY DEF IInv, HookOK
<1>2. NoData \in Data
  BY DEF NoData, Data, Value
<1>3. ASSUME NEW h \in Hook, Launch(h) PROVE TInv'
  <2>1. PICK k \in Kinds : todo' = [todo EXCEPT ![h] = Script(k, h, conv[h])]
    BY <1>3 DEF Launch
  <2>2. JobsOK'
    BY <1>3, <2>1, ScriptTyped, JobsStep, KindAssumption DEF Launch, TInv, TypeOK
  <2>3. TypeOK'
    BY <1>3 DEF Launch, TInv, TypeOK
  <2>4. copy[h] = NoData
    BY <1>1, <1>3 DEF Launch, IInv, HookOK, Writing, Busy
  <2>5. \A g \in Hook \ {h} : todo'[g] = todo[g] /\ copy'[g] = copy[g]
    BY <1>3, <2>1 DEF Launch, TInv, JobsOK
  <2> QED BY <1>3, <2>2, <2>3, <2>4, <2>5, NoFileStep DEF Launch
<1>4. ASSUME NEW h \in Hook, Read(h) \/ Truncate(h) \/ Write(h) PROVE TInv'
  BY <1>4, ReadTyped, TruncateTyped, WriteTyped
<1>5. ASSUME NEW h \in Hook, IoFails(h) PROVE TInv'
  <2>1. /\ Busy(h) /\ Job(h).op \in {"merge", "overwrite"}
        /\ <<>> \in Seq(Jobs(h))
    BY <1>5 DEF IoFails, Writing
  <2>2. Job(h) \in Jobs(h) /\ Tail(todo[h]) \in Seq(Jobs(h))
    BY <2>1, HeadJob
  <2>3. Job(h).file \in File
    BY <2>1, <2>2, JobFacts
  <2>4. \E ops \in Seq(Jobs(h)) : todo' = [todo EXCEPT ![h] = ops]
    BY <1>5, <2>1, <2>2 DEF IoFails
  <2>5. JobsOK'
    BY <1>5, <2>4, JobsStep DEF IoFails
  <2>6. disturbed' \subseteq File
    BY <1>5, <2>3 DEF IoFails, TInv, TypeOK
  <2>7. TypeOK'
    BY <1>2, <1>5, <2>6 DEF IoFails, TInv, TypeOK
  <2>8. copy'[h] = NoData /\ \A g \in Hook \ {h} : todo'[g] = todo[g] /\ copy'[g] = copy[g]
    BY <1>5, <2>4 DEF IoFails, TInv, TypeOK, JobsOK
  <2> QED BY <1>5, <2>5, <2>7, <2>8, NoFileStep DEF IoFails
<1>6. ASSUME NEW h \in Hook, CheckFlag(h) \/ TouchFlag(h) \/ Link(h) \/ Guard(h) PROVE TInv'
  <2>1. Tail(todo[h]) \in Seq(Jobs(h)) /\ copy[h] = NoData /\ conv[h] \in Conv
    BY <1>1, <1>6, HeadJob DEF CheckFlag, TouchFlag, Link, Guard, At, TInv, TypeOK
  <2>2. /\ <<Other("touch-flag", conv[h])>> \o Tail(todo[h]) \in Seq(Jobs(h))
        /\ <<Merge(conv[h], InitFields(h, conv[h], h))>> \o Tail(todo[h]) \in Seq(Jobs(h))
    BY <2>1 DEF Jobs, File
  <2>3. \E ops \in Seq(Jobs(h)) : todo' = [todo EXCEPT ![h] = ops]
    BY <1>6, <2>1, <2>2 DEF CheckFlag, TouchFlag, Link, Guard, Done
  <2>4. JobsOK'
    BY <1>6, <2>3, JobsStep DEF CheckFlag, TouchFlag, Link, Guard
  <2>5. copy' = copy \/ copy' = [copy EXCEPT ![h] = NoData]
    BY <1>6 DEF CheckFlag, TouchFlag, Link, Guard, Done
  <2>6. copy'[h] = NoData /\ \A g \in Hook \ {h} : todo'[g] = todo[g] /\ copy'[g] = copy[g]
    BY <2>1, <2>3, <2>5 DEF TInv, TypeOK, JobsOK
  <2>7. linked' \in [Hook -> Hook \cup {None}]
    <3>1. CASE Link(h)
      <4>1. Load(Current)["latest_correlation_id"] \in Hook \cup {None}
        BY LoadTyped DEF PairOK, File
      <4> QED BY <3>1, <4>1 DEF Link, TInv, TypeOK
    <3>2. CASE ~Link(h)
      BY <1>6, <3>2 DEF CheckFlag, TouchFlag, Guard, TInv, TypeOK
    <3> QED BY <3>1, <3>2
  <2>8. TypeOK'
    BY <1>2, <1>6, <2>1, <2>7 DEF CheckFlag, TouchFlag, Link, Guard, Done, TInv, TypeOK
  <2> QED BY <1>6, <2>4, <2>6, <2>8, NoFileStep DEF CheckFlag, TouchFlag, Link, Guard
<1>7. ASSUME NEW h \in Hook, Kill(h) PROVE TInv'
  <2>1. <<>> \in Seq(Jobs(h)) /\ todo' = [todo EXCEPT ![h] = <<>>]
    BY <1>7 DEF Kill
  <2>2. JobsOK'
    BY <1>7, <2>1, JobsStep DEF Kill
  <2>3. step[h] = "write" => Job(h).file \in File
    BY <1>7, HeadJob, JobFacts DEF Kill, IInv, HookOK, Writing
  <2>4. TypeOK'
    BY <1>2, <1>7, <2>3 DEF Kill, TInv, TypeOK
  <2>5. copy'[h] = NoData /\ \A g \in Hook \ {h} : todo'[g] = todo[g] /\ copy'[g] = copy[g]
    BY <1>7 DEF Kill, TInv, TypeOK, JobsOK
  <2> QED BY <1>7, <2>2, <2>4, <2>5, NoFileStep DEF Kill
<1>8. ASSUME NEW c \in Conv, SetGreen(c) PROVE TInv'
  BY <1>8, SetGreenTyped
<1>9. CASE UNCHANGED vars
  <2>1. TypeOK'
    BY <1>9 DEF vars, TInv, TypeOK
  <2>2. PairsOK'
    BY <1>9 DEF vars, TInv, PairsOK, PairOK, Writing, Busy, Job
  <2> QED BY <1>9, <2>1, <2>2, JobsKept DEF vars, TInv
<1> QED BY <1>3, <1>4, <1>5, <1>6, <1>7, <1>8, <1>9 DEF Next, HookStep

\* Whatever overlaps, fails or is killed: a hook that links does so to the prompt whose
\* write of current.json is the latest, and finds that prompt's conversation beside it.
THEOREM LinkTheorem == Spec => LinkIsLatest
<1> DEFINE Latest(h) == /\ linked'[h] = ledger[Current]["latest_correlation_id"]
                        /\ Load(Current)["conversation_id"] = conv[linked'[h]]
<1>1. ASSUME TInv, [Next]_vars, NEW h \in Hook, linked'[h] \notin {linked[h], None}
      PROVE  Latest(h)
  <2>1. PICK g \in Hook : Link(g) /\ linked' # linked
    BY <1>1 DEF Next, HookStep, HookUnchanged, vars, Launch, Read, Truncate, Write, IoFails, CheckFlag,
                      TouchFlag, Guard, SetGreen, Kill
  <2>2. /\ linked \in [Hook -> Hook \cup {None}]
        /\ linked' = [linked EXCEPT ![g] = Load(Current)["latest_correlation_id"]]
    BY <1>1, <2>1 DEF Link, TInv, TypeOK
  <2>3. g = h /\ linked'[h] = Load(Current)["latest_correlation_id"] /\ linked'[h] # None
    BY <1>1, <2>2
  <2>4. Load(Current) = files[Current].data
    BY <2>3 DEF Load, NoData, Field
  <2>5. linked'[h] \in {None, ledger[Current]["latest_correlation_id"]}
    BY <1>1, <2>3, <2>4 DEF TInv, PairsOK
  <2>6. PairOK(Load(Current))
    BY <1>1, LoadTyped DEF File
  <2> QED BY <2>3, <2>5, <2>6 DEF PairOK
<1>2. TInv /\ [Next]_vars => [\A h \in Hook : linked'[h] \notin {linked[h], None} => Latest(h)]_vars
  BY <1>1
<1> QED BY <1>2, InitIInv, NextKeepsIInv, InitTInv, NextKeepsTInv, PTL DEF Spec, LinkIsLatest

\* The values of every variable are of their types.
THEOREM TypesTheorem == Spec => []TypeOK
<1>1. TInv => TypeOK
  BY DEF TInv
<1> QED BY <1>1, InitIInv, NextKeepsIInv, InitTInv, NextKeepsTInv, PTL DEF Spec

-----------------------------------------------------------------------------
\* Green CI.  A hook never makes ci_passing green; it may carry a green it has read.
GreenEarned ==
  /\ \A c \in Conv : files[c].data["ci_passing"] = "green" => c \in earned
  /\ \A h \in Hook :
       (Writing(h) /\ Job(h).file \in Conv /\ copy[h]["ci_passing"] = "green")
         => Job(h).file \in earned

GInv == IInv /\ TInv /\ GreenEarned

LEMMA NoDataNotGreen == NoData["ci_passing"] # "green"
BY NameAssumption DEF NoData, Field

LEMMA InitGInv == Init => GInv
<1> SUFFICES ASSUME Init PROVE GInv
  OBVIOUS
<1>1. GreenEarned
  BY NoDataNotGreen DEF Init, GreenEarned, File, Writing, Busy
<1> QED BY <1>1, InitIInv, InitTInv DEF GInv

\* No update puts a green in.
LEMMA NoJobIsGreen ==
  ASSUME TInv, NEW h \in Hook, NEW j \in Jobs(h), j.op \in {"merge", "overwrite"}, j.file \in Conv,
         NEW data, Put(data, j.set)["ci_passing"] = "green"
  PROVE  data["ci_passing"] = "green"
<1> USE DEF Merge, Overwrite, Field, Put
<1>1. conv[h] \in Conv /\ Current \notin Conv /\ None # "green"
  BY NameAssumption DEF TInv, TypeOK
<1>2. CASE j = Overwrite(Current, [conversation_id |-> conv[h], started_at |-> h])
  BY <1>1, <1>2
<1>3. CASE j = Merge(Current, [conversation_id |-> conv[h], latest_correlation_id |-> h])
  BY <1>1, <1>3
<1>4. CASE \E last \in {None, h} : j = Merge(conv[h], InitFields(h, conv[h], last))
  BY <1>4 DEF InitFields
<1>5. CASE j = Merge(conv[h], [last_prompt_at |-> h]) \/ j = Merge(conv[h], [session_outcome |-> h])
  BY <1>5
<1>6. CASE \E op \in {"check-flag", "touch-flag", "link", "guard"}, f \in File : j = Other(op, f)
  BY <1>6 DEF Other
<1> QED BY <1>2, <1>3, <1>4, <1>5, <1>6 DEF Jobs

\* A step of one hook that changes no file and leaves its own copy empty.
LEMMA NoFileGreen ==
  ASSUME GreenEarned, NEW h \in Hook, UNCHANGED <<files, earned>>, copy'[h] = NoData,
         \A g \in Hook \ {h} : todo'[g] = todo[g] /\ copy'[g] = copy[g]
  PROVE  GreenEarned'
<1>1. \A g \in Hook \ {h} : (Writing(g)' <=> Writing(g)) /\ Job(g)' = Job(g)
  BY DEF Writing, Busy, Job
<1> QED BY <1>1, NoDataNotGreen DEF GreenEarned

LEMMA ReadGreen ==
  ASSUME GInv, NEW h \in Hook, Read(h)
  PROVE  GreenEarned'
<1>1. UNCHANGED <<todo, files, earned>>
  BY DEF Read
<1>2. Writing(h) /\ step[h] = "begin" /\ copy[h] = NoData
  BY DEF Read, At, Writing, GInv, IInv, HookOK
<1>3. copy' = [copy EXCEPT ![h] = Load(Job(h).file)] \/ copy' = copy
  BY DEF Read
<1>4. copy'[h] \in {Load(Job(h).file), NoData} /\ \A g \in Hook \ {h} : copy'[g] = copy[g]
  BY <1>2, <1>3 DEF GInv, TInv, TypeOK
<1>5. \A c \in Conv : Load(c)["ci_passing"] = "green" => c \in earned
  BY NoDataNotGreen DEF Load, GInv, GreenEarned
<1>6. \A g \in Hook : (Writing(g)' <=> Writing(g)) /\ Job(g)' = Job(g)
  BY <1>1 DEF Writing, Busy, Job
<1> QED BY <1>1, <1>4, <1>5, <1>6, NoDataNotGreen DEF GInv, GreenEarned

LEMMA TruncateGreen ==
  ASSUME GInv, NEW h \in Hook, Truncate(h)
  PROVE  GreenEarned'
<1>1. UNCHANGED <<todo, copy, earned>> /\ files' = Marked(Job(h).file, "empty")
  BY DEF Truncate
<1>2. \A c \in Conv : files'[c].data \in {files[c].data, NoData}
  BY <1>1 DEF Marked, File, GInv, TInv, TypeOK
<1>3. \A g \in Hook : (Writing(g)' <=> Writing(g)) /\ Job(g)' = Job(g)
  BY <1>1 DEF Writing, Busy, Job
<1> QED BY <1>1, <1>2, <1>3, NoDataNotGreen DEF GInv, GreenEarned

LEMMA WriteGreen ==
  ASSUME GInv, NEW h \in Hook, Write(h)
  PROVE  GreenEarned'
<1> DEFINE f == Job(h).file
           new == Put(copy[h], Job(h).set)
<1>1. Writing(h) /\ Job(h) \in Jobs(h)
  BY HeadJob DEF Write, Writing, GInv
<1>2. /\ todo' = [todo EXCEPT ![h] = Tail(todo[h])] /\ copy' = [copy EXCEPT ![h] = NoData]
      /\ earned' = earned
  BY DEF Write, Done
<1>3. files' = [files EXCEPT ![f] = [state |-> "json", data |-> new]] \/ files' = Marked(f, "garbled")
  BY DEF Write
<1>4. \A c \in Conv : \/ files'[c].data \in {files[c].data, NoData}
                      \/ c = f /\ files'[c].data = new
  BY <1>3 DEF Marked, File, GInv, TInv, TypeOK
<1>5. (f \in Conv /\ new["ci_passing"] = "green") => f \in earned
  BY <1>1, NoJobIsGreen DEF GInv, GreenEarned, Writing
<1>6. copy'[h] = NoData /\ \A g \in Hook \ {h} : todo'[g] = todo[g] /\ copy'[g] = copy[g]
  BY <1>2 DEF GInv, TInv, TypeOK, JobsOK
<1>7. \A g \in Hook \ {h} : (Writing(g)' <=> Writing(g)) /\ Job(g)' = Job(g)
  BY <1>6 DEF Writing, Busy, Job
<1>8. \A c \in Conv : files'[c].data["ci_passing"] = "green" => c \in earned
  BY <1>4, <1>5, NoDataNotGreen DEF GInv, GreenEarned
<1> QED BY <1>2, <1>6, <1>7, <1>8, NoDataNotGreen DEF GInv, GreenEarned

LEMMA SetGreenEarns ==
  ASSUME GInv, NEW c \in Conv, SetGreen(c)
  PROVE  GreenEarned'
<1>1. UNCHANGED <<todo, copy>> /\ earned' = earned \cup {c}
  BY DEF SetGreen
<1>2. \A d \in Conv \ {c} : files'[d] = files[d]
  BY DEF SetGreen, File, GInv, TInv, TypeOK
<1>3. \A g \in Hook : (Writing(g)' <=> Writing(g)) /\ Job(g)' = Job(g)
  BY <1>1 DEF Writing, Busy, Job
<1> QED BY <1>1, <1>2, <1>3 DEF GInv, GreenEarned

LEMMA NextKeepsGInv == GInv /\ [Next]_vars => GInv'
<1> SUFFICES ASSUME GInv, [Next]_vars PROVE GreenEarned'
  BY NextKeepsIInv, NextKeepsTInv DEF GInv
<1>1. \A h \in Hook : step[h] = "begin" => copy[h] = NoData
  BY DEF GInv, IInv, HookOK
<1>2. \A h \in Hook : h \notin launched => step[h] = "begin"
  BY DEF GInv, IInv, HookOK, Writing, Busy
<1>3. ASSUME NEW h \in Hook,
             Launch(h) \/ CheckFlag(h) \/ TouchFlag(h) \/ Link(h) \/ Guard(h) \/ IoFails(h) \/ Kill(h)
      PROVE  GreenEarned'
  <2>1. UNCHANGED <<files, earned>>
    BY <1>3 DEF Launch, CheckFlag, TouchFlag, Link, Guard, IoFails, Kill
  <2>2. \E ops : todo' = [todo EXCEPT ![h] = ops]
    BY <1>3 DEF Launch, CheckFlag, TouchFlag, Link, Guard, IoFails, Kill, Done
  <2>3. copy' = [copy EXCEPT ![h] = NoData] \/ (copy' = copy /\ copy[h] = NoData)
    BY <1>1, <1>2, <1>3 DEF Launch, CheckFlag, TouchFlag, Link, Guard, IoFails, Kill, Done, At
  <2>4. copy'[h] = NoData /\ \A g \in Hook \ {h} : todo'[g] = todo[g] /\ copy'[g] = copy[g]
    BY <2>2, <2>3 DEF GInv, TInv, TypeOK, JobsOK
  <2> QED BY <2>1, <2>4, NoFileGreen DEF GInv
<1>4. ASSUME NEW h \in Hook, Read(h) \/ Truncate(h) \/ Write(h) PROVE GreenEarned'
  BY <1>4, ReadGreen, TruncateGreen, WriteGreen
<1>5. ASSUME NEW c \in Conv, SetGreen(c) PROVE GreenEarned'
  BY <1>5, SetGreenEarns
<1>6. CASE UNCHANGED vars
  BY <1>6 DEF vars, GInv, GreenEarned, Writing, Busy, Job
<1> QED BY <1>3, <1>4, <1>5, <1>6 DEF Next, HookStep

\* What the gate lets through has had green CI in its own conversation; and the last
\* update of the file left it green, unless updates overlapped or one ended half-way.
THEOREM GateTheorem == Spec => GateSound
<1> DEFINE Sound(h) == /\ conv[h] \in earned
                       /\ ledger[conv[h]]["ci_passing"] = "green" \/ conv[h] \in disturbed
<1>1. ASSUME GInv, NEW h \in Hook, Guard(h), gate'[h] = "allow"
      PROVE  Sound(h)
  <2> DEFINE c == conv[h]
  <2>1. c \in Conv /\ c \in File /\ gate \in [Hook -> {"none", "allow", "deny"}]
    BY <1>1 DEF GInv, TInv, TypeOK, File
  <2>2. Load(c)["ci_passing"] = "green"
    BY <1>1, <2>1 DEF Guard
  <2>3. files[c].state = "json" /\ Load(c) = files[c].data
    BY <2>2, NoDataNotGreen DEF Load
  <2>4. c \in earned
    BY <1>1, <2>1, <2>2, <2>3 DEF GInv, GreenEarned
  <2>5. CASE c \notin disturbed
    <3>1. FileOK(c)
      BY <1>1, <2>1, <2>5 DEF GInv, IInv
    <3>2. \A g \in Hook : Holds(g, c) => step[g] = "truncate"
      BY <2>3, <3>1 DEF FileOK, Holds
    <3>3. Load(c) = ledger[c]
      BY <3>1, <3>2 DEF FileOK
    <3> QED BY <2>2, <2>4, <3>3
  <2> QED BY <2>4, <2>5
<1>2. ASSUME GInv, [Next]_vars, NEW h \in Hook, gate[h] = "none", gate'[h] = "allow"
      PROVE  Guard(h)
  <2>1. gate' # gate
    BY <1>2
  <2>2. PICK g \in Hook : Guard(g)
    BY <1>2, <2>1 DEF Next, HookStep, vars, Launch, Read, Truncate, Write, IoFails, CheckFlag,
                      TouchFlag, Link, SetGreen, Kill
  <2>3. g = h
    BY <1>2, <2>2 DEF Guard, GInv, TInv, TypeOK
  <2> QED BY <2>2, <2>3
<1>3. GInv /\ [Next]_vars =>
        [\A h \in Hook : (gate[h] = "none" /\ gate'[h] = "allow") => Sound(h)]_vars
  BY <1>1, <1>2
<1> QED BY <1>3, InitGInv, NextKeepsGInv, PTL DEF Spec, GateSound

=============================================================================
