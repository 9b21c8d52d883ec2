------------------------- MODULE PatternStoreProofs -------------------------
(***************************************************************************)
(* Whatever the patterns, the inputs and the number of processes:          *)
(* - as long as nobody replaces a version it has not read, be it because   *)
(*   its reading failed, learned_patterns.json is the result of all        *)
(*   updates in sequence, through kills and failed writes;                 *)
(* - the file is a store of whole versions (SnapshotStore);                *)
(* - the records in it are well typed and coherent, and a stop hook drops  *)
(*   no pattern that the two evictions do not call for.                    *)
(***************************************************************************)
EXTENDS PatternStore, OrderLemmas, FiniteSetTheorems, FunctionTheorems, TLAPS

Active == {"fetch", "save", "replace"}

\* Processes read versions that have existed, or none.
VersionsOK ==
  /\ pc \in [Process -> Active \cup {"idle", "done"}]
  /\ version \in Nat
  /\ base \in [Process -> Int]
  /\ \A p \in Process : base[p] <= version

\* A process that is working on the current version works on what it holds.
CopiesCurrent ==
  \A p \in Process : (pc[p] \in Active /\ base[p] = version) => loaded[p] = store

\* os.replace leaves a complete file, and no step leaves anything less.
IInv ==
  /\ VersionsOK
  /\ loaded \in [Process -> {loaded[p] : p \in Process}]
  /\ torn = FALSE
  /\ CopiesCurrent
  /\ ~overlapped => store = ledger

-----------------------------------------------------------------------------

LEMMA InitIInv == Init => IInv
BY DEF Init, IInv, VersionsOK, CopiesCurrent, Active, Process

\* A step that touches neither the file nor what the processes have read.
LEMMA ProcessStep ==
  ASSUME IInv, NEW p \in Process, NEW to \in Active \cup {"idle", "done"},
         to \in Active => pc[p] \in Active,
         pc' = [pc EXCEPT ![p] = to],
         UNCHANGED <<loaded, base>>, FileUnchanged
  PROVE  IInv'
BY DEF IInv, VersionsOK, CopiesCurrent, FileUnchanged

\* A process reads the current version, or none.
LEMMA ReadStep ==
  ASSUME IInv, NEW p \in Process, NEW to \in Active \cup {"idle", "done"},
         pc' = [pc EXCEPT ![p] = to], ReadFile(p), FileUnchanged
  PROVE  IInv'
<1>1. (loaded'[p] = store /\ base'[p] = version) \/ base'[p] = -1
  BY DEF ReadFile, IInv, VersionsOK, OnDisk, Unread
<1>2. \A q \in Process : q # p => loaded'[q] = loaded[q] /\ base'[q] = base[q] /\ pc'[q] = pc[q]
  BY DEF ReadFile, IInv, VersionsOK
<1>3. VersionsOK'
  <2>1. PICK b \in Int : base' = [base EXCEPT ![p] = b] /\ b <= version
    BY DEF ReadFile, IInv, VersionsOK, Unread
  <2>2. version' = version /\ version \in Nat
    BY DEF IInv, VersionsOK, FileUnchanged
  <2> QED BY <2>1, <2>2 DEF IInv, VersionsOK
<1>4. CopiesCurrent'
  BY <1>1, <1>2 DEF IInv, VersionsOK, CopiesCurrent, FileUnchanged
<1>5. loaded' \in [Process -> {loaded'[q] : q \in Process}]
  BY DEF ReadFile, IInv
<1> QED BY <1>3, <1>4, <1>5 DEF IInv, FileUnchanged

LEMMA ReplaceStep ==
  ASSUME IInv, NEW p \in Process, Replace(p)
  PROVE  IInv'
<1>1. pc[p] = "replace" /\ pc' = [pc EXCEPT ![p] = "done"]
  BY DEF Replace, Goto
<1>2. version' = version + 1 /\ UNCHANGED <<loaded, base>> /\ torn' = FALSE
  BY DEF Replace, own
<1>3. VersionsOK' /\ \A q \in Process : base'[q] # version'
  BY <1>1, <1>2 DEF IInv, VersionsOK
<1>4. CopiesCurrent'
  BY <1>3 DEF CopiesCurrent
<1>5. ~overlapped' => store' = ledger'
  <2> SUFFICES ASSUME ~overlapped' PROVE store' = ledger'
    OBVIOUS
  <2>1. ~overlapped /\ base[p] = version
    BY DEF Replace
  <2>2. loaded[p] = store /\ store = ledger
    BY <2>1, <1>1 DEF IInv, CopiesCurrent, Active
  <2> QED BY <2>2 DEF Replace
<1> QED BY <1>2, <1>3, <1>4, <1>5 DEF IInv

LEMMA NextKeepsIInv == IInv /\ [Next]_vars => IInv'
<1> SUFFICES ASSUME IInv, [Next]_vars PROVE IInv'
  OBVIOUS
<1>1. ASSUME NEW p \in Stop, Learn(p) PROVE IInv'
  <2>1. p \in Process /\ ReadFile(p) /\ FileUnchanged
    BY <1>1 DEF Learn, Process
  <2>2. Goto(p, "idle", "done") \/ Goto(p, "idle", "save")
    BY <1>1 DEF Learn
  <2> QED BY <2>1, <2>2, ReadStep DEF Goto, Active
<1>2. ASSUME NEW p \in Sync, ReadLocal(p) PROVE IInv'
  <2>1. p \in Process /\ FileUnchanged
    BY <1>2 DEF ReadLocal, Process
  <2>2. CASE Goto(p, "idle", "done") /\ UNCHANGED <<loaded, at, base>>
    BY <2>1, <2>2, ProcessStep DEF Goto, Active
  <2>3. CASE Goto(p, "idle", "fetch") /\ ReadFile(p)
    BY <2>1, <2>3, ReadStep DEF Goto, Active
  <2> QED BY <1>2, <2>2, <2>3 DEF ReadLocal
<1>3. ASSUME NEW p \in Sync, Fetch(p) PROVE IInv'
  <2>1. p \in Process /\ FileUnchanged /\ UNCHANGED <<loaded, base>>
    BY <1>3 DEF Fetch, Process
  <2>2. Goto(p, "fetch", "done") \/ Goto(p, "fetch", "save")
    BY <1>3 DEF Fetch
  <2> QED BY <2>1, <2>2, ProcessStep DEF Goto, Active
<1>4. ASSUME NEW p \in Process, WriteTmp(p) PROVE IInv'
  <2>1. FileUnchanged /\ UNCHANGED <<loaded, base>>
    BY <1>4 DEF WriteTmp, own
  <2>2. Goto(p, "save", "replace") \/ Goto(p, "save", "done")
    BY <1>4 DEF WriteTmp
  <2> QED BY <2>1, <2>2, ProcessStep DEF Goto, Active
<1>5. ASSUME NEW p \in Process, Replace(p) PROVE IInv'
  BY <1>5, ReplaceStep
<1>6. ASSUME NEW p \in Process, Kill(p) PROVE IInv'
  BY <1>6, ProcessStep DEF Kill, own, Active
<1>7. CASE Tick
  BY <1>7 DEF Tick, own, FileUnchanged, IInv, VersionsOK, CopiesCurrent
<1>8. CASE UNCHANGED vars
  BY <1>8 DEF vars, own, IInv, VersionsOK, CopiesCurrent
<1> QED
  BY <1>1, <1>2, <1>3, <1>4, <1>5, <1>6, <1>7, <1>8 DEF Next

\* The file holds the result of every completed update, in sequence, until a
\* process replaces a version other than the one it loaded: a later one, or any
\* at all when its reading failed.
THEOREM SerialSavesTheorem == Spec => []SerialSavesKeepEverything
<1>1. IInv => SerialSavesKeepEverything
  BY DEF IInv, SerialSavesKeepEverything, OnDisk
<1> QED BY <1>1, InitIInv, NextKeepsIInv, PTL DEF Spec

-----------------------------------------------------------------------------
\* The refinement: PatternStore implements SnapshotStore.

PhaseOf == [p \in Process |-> IF pc[p] \in {"idle", "done"} THEN pc[p] ELSE "holds"]
IntentOf == [p \in Process |-> Intent(p)]

\* What the processes hold are functions on all of them.
Held ==
  /\ loaded = [p \in Process |-> loaded[p]]
  /\ input = [p \in Process |-> input[p]]
  /\ at = [p \in Process |-> at[p]]
  /\ remote = [p \in Process |-> remote[p]]

LEMMA NextKeepsHeld == Held /\ [Next]_vars => Held'
<1> SUFFICES ASSUME Held, [Next]_vars PROVE Held'
  OBVIOUS
<1>1. ASSUME NEW p \in Stop, Learn(p) PROVE Held'
  BY <1>1 DEF Learn, ReadFile, Held
<1>2. ASSUME NEW p \in Sync, ReadLocal(p) PROVE Held'
  BY <1>2 DEF ReadLocal, ReadFile, Held
<1>3. ASSUME NEW p \in Sync, Fetch(p) PROVE Held'
  BY <1>3 DEF Fetch, Held
<1>4. CASE UNCHANGED own
  BY <1>4 DEF own, Held
<1> QED BY <1>1, <1>2, <1>3, <1>4 DEF Next, WriteTmp, Replace, Kill, Tick, vars

\* A process moves, and with it its phase, and nobody else's.
LEMMA PhaseStep ==
  ASSUME VersionsOK, NEW p \in Process, NEW from, NEW to, Goto(p, from, to)
  PROVE  PhaseOf' = [PhaseOf EXCEPT ![p] = IF to \in {"idle", "done"} THEN to ELSE "holds"]
BY DEF VersionsOK, Goto, PhaseOf

\* The intents of the others stay when a process changes only its own.
LEMMA IntentStep ==
  ASSUME Held, NEW p \in Process,
         \A q \in Process \ {p} : input'[q] = input[q] /\ at'[q] = at[q] /\ remote'[q] = remote[q]
  PROVE  \A q \in Process \ {p} : IntentOf'[q] = IntentOf[q]
BY DEF IntentOf, Intent

LEMMA ReadRefines ==
  ASSUME IInv, Held, NEW p \in Process, NEW to \in {"fetch", "save", "done"},
         Goto(p, "idle", to), ReadFile(p), FileUnchanged, UNCHANGED remote,
         \A q \in Process \ {p} : input'[q] = input[q]
  PROVE  Snapshots!Read(p)
<1>1. PhaseOf' = [PhaseOf EXCEPT ![p] = IF to \in {"idle", "done"} THEN to ELSE "holds"]
  BY PhaseStep DEF IInv
<1>2. PhaseOf[p] = "idle"
  BY DEF PhaseOf, Goto
<1>3. loaded'[p] \in {OnDisk, <<>>} /\ \A q \in Process \ {p} : loaded'[q] = loaded[q] /\ at'[q] = at[q]
  BY DEF ReadFile, Held
<1>4. \A q \in Process \ {p} : IntentOf'[q] = IntentOf[q]
  BY <1>3, IntentStep
<1>5. UNCHANGED OnDisk
  BY DEF FileUnchanged, OnDisk
<1> QED BY <1>1, <1>2, <1>3, <1>4, <1>5
        DEF Snapshots!Read, Snapshots!Goto, Snapshots!OthersKeep, PhaseOf, IntentOf

LEMMA DecideRefines ==
  ASSUME IInv, Held, NEW p \in Sync, Fetch(p)
  PROVE  Snapshots!Decide(p) \/ Snapshots!GiveUp(p)
<1>1. p \in Process /\ UNCHANGED <<loaded, input, at>> /\ UNCHANGED OnDisk
  BY DEF Fetch, Process, FileUnchanged, OnDisk
<1>2. PhaseOf[p] = "holds"
  BY <1>1 DEF Fetch, Goto, PhaseOf
<1>3. CASE Goto(p, "fetch", "done") /\ UNCHANGED remote
  <2>1. PhaseOf' = [PhaseOf EXCEPT ![p] = "done"]
    BY <1>1, <1>3, PhaseStep DEF IInv
  <2>2. UNCHANGED IntentOf
    BY <1>1, <1>3 DEF IntentOf, Intent
  <2> QED BY <1>1, <1>2, <2>1, <2>2 DEF Snapshots!GiveUp, Snapshots!Goto, PhaseOf, IntentOf
<1>4. CASE Goto(p, "fetch", "save") /\ \E list \in RemoteLists : remote' = [remote EXCEPT ![p] = list]
  <2>1. PhaseOf' = [PhaseOf EXCEPT ![p] = "holds"]
    BY <1>1, <1>4, PhaseStep DEF IInv
  <2>2. UNCHANGED PhaseOf
    BY <1>1, <1>2, <2>1 DEF PhaseOf
  <2>3. \A q \in Process \ {p} : IntentOf'[q] = IntentOf[q]
    BY <1>1, <1>4, IntentStep DEF Held
  <2> QED BY <1>1, <1>2, <2>2, <2>3 DEF Snapshots!Decide, Snapshots!OthersKeep, PhaseOf, IntentOf
<1> QED BY <1>3, <1>4 DEF Fetch

LEMMA InstallRefines ==
  ASSUME IInv, Held, NEW p \in Process, Replace(p)
  PROVE  Snapshots!Install(p)
<1>1. Goto(p, "replace", "done") /\ UNCHANGED own /\ torn' = FALSE /\ store' = Applied(p, loaded[p])
  BY DEF Replace
<1>2. PhaseOf[p] = "holds" /\ PhaseOf' = [PhaseOf EXCEPT ![p] = "done"]
  BY <1>1, PhaseStep DEF IInv, Goto, PhaseOf
<1>3. UNCHANGED <<loaded, IntentOf>>
  BY <1>1 DEF own, IntentOf, Intent
<1>4. OnDisk' = Updated(p, loaded[p], IntentOf[p])
  BY <1>1 DEF OnDisk, Applied, IntentOf
<1> QED BY <1>2, <1>3, <1>4 DEF Snapshots!Install, Snapshots!Goto, PhaseOf, IntentOf

\* A step that only ends a process, or only moves it on with its copy.
LEMMA MoveRefines ==
  ASSUME IInv, NEW p \in Process, NEW from, NEW to, Goto(p, from, to),
         (from = "save" /\ to = "replace") \/ (from # "done" /\ to = "done"),
         UNCHANGED own, FileUnchanged
  PROVE  Snapshots!GiveUp(p) \/ UNCHANGED <<OnDisk, loaded, IntentOf, PhaseOf>>
<1>1. PhaseOf' = [PhaseOf EXCEPT ![p] = IF to \in {"idle", "done"} THEN to ELSE "holds"]
  BY PhaseStep DEF IInv
<1>2. PhaseOf[p] = IF from \in {"idle", "done"} THEN from ELSE "holds"
  BY DEF PhaseOf, Goto
<1>3. UNCHANGED <<OnDisk, loaded, IntentOf>>
  BY DEF own, FileUnchanged, OnDisk, IntentOf, Intent
<1>4. CASE to = "done" /\ from # "done"
  BY <1>1, <1>2, <1>3, <1>4 DEF Snapshots!GiveUp, Snapshots!Goto, PhaseOf, IntentOf
<1>5. CASE to = "replace" /\ from = "save"
  <2>1. PhaseOf' = PhaseOf
    BY <1>1, <1>2, <1>5 DEF PhaseOf
  <2> QED BY <1>3, <2>1
<1> QED BY <1>4, <1>5

LEMMA NextRefines ==
  IInv /\ Held /\ [Next]_vars => [Snapshots!Next]_<<OnDisk, loaded, IntentOf, PhaseOf>>
<1> SUFFICES ASSUME IInv, Held, [Next]_vars
             PROVE  [Snapshots!Next]_<<OnDisk, loaded, IntentOf, PhaseOf>>
  OBVIOUS
<1>1. ASSUME NEW p \in Stop, Learn(p) PROVE Snapshots!Next
  <2>1. p \in Process /\ ReadFile(p) /\ FileUnchanged /\ UNCHANGED remote
    BY <1>1 DEF Learn, Process
  <2>2. \A q \in Process \ {p} : input'[q] = input[q]
    BY <1>1 DEF Learn, Held
  <2>3. Goto(p, "idle", "done") \/ Goto(p, "idle", "save")
    BY <1>1 DEF Learn
  <2> QED BY <2>1, <2>2, <2>3, ReadRefines DEF Snapshots!Next
<1>2. ASSUME NEW p \in Sync, ReadLocal(p)
      PROVE  [Snapshots!Next]_<<OnDisk, loaded, IntentOf, PhaseOf>>
  <2>1. p \in Process /\ FileUnchanged /\ UNCHANGED <<input, remote>>
    BY <1>2 DEF ReadLocal, Process
  <2>2. CASE Goto(p, "idle", "done") /\ UNCHANGED <<loaded, at, base>>
    BY <2>1, <2>2, MoveRefines DEF own, Snapshots!Next
  <2>3. CASE Goto(p, "idle", "fetch") /\ ReadFile(p)
    BY <2>1, <2>3, ReadRefines DEF Snapshots!Next
  <2> QED BY <1>2, <2>2, <2>3 DEF ReadLocal
<1>3. ASSUME NEW p \in Sync, Fetch(p) PROVE Snapshots!Next
  BY <1>3, DecideRefines DEF Snapshots!Next, Process
<1>4. ASSUME NEW p \in Process, WriteTmp(p)
      PROVE  [Snapshots!Next]_<<OnDisk, loaded, IntentOf, PhaseOf>>
  <2>1. UNCHANGED own /\ FileUnchanged /\ (Goto(p, "save", "replace") \/ Goto(p, "save", "done"))
    BY <1>4 DEF WriteTmp
  <2>2. CASE Goto(p, "save", "replace")
    BY <2>1, <2>2, MoveRefines DEF Snapshots!Next
  <2>3. CASE Goto(p, "save", "done")
    BY <2>1, <2>3, MoveRefines DEF Snapshots!Next
  <2> QED BY <2>1, <2>2, <2>3
<1>5. ASSUME NEW p \in Process, Replace(p) PROVE Snapshots!Next
  BY <1>5, InstallRefines DEF Snapshots!Next
<1>6. ASSUME NEW p \in Process, Kill(p)
      PROVE  [Snapshots!Next]_<<OnDisk, loaded, IntentOf, PhaseOf>>
  <2>1. UNCHANGED own /\ FileUnchanged /\ Goto(p, pc[p], "done") /\ pc[p] # "done"
    BY <1>6 DEF Kill, Goto
  <2> QED BY <2>1, MoveRefines DEF Snapshots!Next
<1>7. CASE Tick \/ UNCHANGED vars
  BY <1>7 DEF Tick, vars, own, FileUnchanged, OnDisk, IntentOf, Intent, PhaseOf
<1> QED BY <1>1, <1>2, <1>3, <1>4, <1>5, <1>6, <1>7 DEF Next

\* Whatever the processes and their inputs: the file behaves as a store of whole
\* versions, each made by one process from one version it has read in full, or
\* from no patterns when its reading failed.
THEOREM RefinementTheorem == Spec => ImplementsSnapshots
<1>1. Init => Snapshots!Init
  BY DEF Init, Snapshots!Init, OnDisk
<1>2. Init => Held
  BY DEF Init, Held
<1>3. IInv /\ Held /\ [Next]_vars => [Snapshots!Next]_<<OnDisk, loaded, IntentOf, PhaseOf>>
  BY NextRefines
<1>4. Spec => [](IInv /\ Held)
  BY <1>2, InitIInv, NextKeepsIInv, NextKeepsHeld, PTL DEF Spec
<1> QED BY <1>1, <1>3, <1>4, PTL DEF Spec, ImplementsSnapshots, Snapshots!Spec, IntentOf, PhaseOf

-----------------------------------------------------------------------------
(* The operators on one record and one list *)

\* An id that a record of this list lacks, or has although it goes with another key,
\* is ambiguous.
Known(r) == \A k \in Key : MisusesId(r, k) => IdOf[k] \in Ambiguous

List ==
  {ps \in Seq(Record) : Credited(ps) /\ Distinct(ps) /\ \A i \in DOMAIN ps : Known(ps[i])}

\* A list that was loaded: every record has an id.
FullList == {ps \in List : \A i \in DOMAIN ps : ps[i].pattern_id # NoId}

Input == [shown : [Pattern -> Nat], success : BOOLEAN, learned : Seq(Key)]

\* The records of the service and of the first file are what makes ids ambiguous.
LEMMA ForeignKnown ==
  ASSUME NEW list \in RemoteLists \cup InitialLists, NEW i \in DOMAIN list
  PROVE  Known(list[i])
<1>1. list[i] \in Foreign
  <2>1. list[i] \in ToSet(list)
    BY DEF ToSet
  <2> QED BY <2>1 DEF Foreign
<1> QED BY <1>1 DEF Known, Ambiguous

LEMMA DecayDueNat == ASSUME NEW days \in Int PROVE DecayDue(days) \in Nat
<1>1. CASE days > 30
  <2>1. 200 * (days - 30) + 30 \in Nat
    BY <1>1
  <2>2. (200 * (days - 30) + 30) \div 60 \in Nat
    BY <2>1
  <2> QED BY <1>1, <2>2 DEF DecayDue, DECAY_DAYS, DECAY_AMOUNT
<1>2. CASE ~(days > 30)
  BY <1>2 DEF DecayDue, DECAY_DAYS
<1> QED BY <1>1, <1>2

\* r has what s has, but for the weight and the day.
SameCounts(r, s) ==
  /\ r.key = s.key /\ r.pattern_id = s.pattern_id
  /\ r.injection_count = s.injection_count
  /\ r.utilization_successes = s.utilization_successes

\* Decay leaves a record a record, and its key, id and counts alone.
LEMMA DecayedRecord ==
  ASSUME NEW r \in Record, NEW day \in Nat,
         ~(r.weight = NoWeight /\ day - r.last_seen > DECAY_DAYS)
  PROVE  Decayed(r, day) \in Record /\ SameCounts(Decayed(r, day), r)
<1>0. r.last_seen \in Int /\ r.weight \in Weight \cup {NoWeight}
  BY DEF Record
<1>1. CASE ~(day - r.last_seen > DECAY_DAYS)
  BY <1>1 DEF Decayed, SameCounts
<1>2. CASE day - r.last_seen > DECAY_DAYS
  <2>1. PICK due \in Nat : due = DecayDue(day - r.last_seen)
    BY <1>0, DecayDueNat
  <2>2. PICK x \in Weight : x = r.weight
    BY <1>0, <1>2
  <2>3. x - due \in Int /\ x - due <= MostWeight
    BY WeightAssumption DEF Weight
  <2>4. PICK w \in Weight : w = AtLeast(x - due, WEIGHT_FLOOR)
    BY <2>3, WeightAssumption DEF AtLeast, Weight, WEIGHT_CAP, WEIGHT_FLOOR
  <2>5. Decayed(r, day) = [r EXCEPT !.weight = w]
    BY <1>2, <2>1, <2>2, <2>4 DEF Decayed
  <2>6. [r EXCEPT !.weight = w] \in Record /\ SameCounts([r EXCEPT !.weight = w], r)
    BY DEF Record, SameCounts
  <2> QED BY <2>5, <2>6
<1> QED BY <1>1, <1>2

LEMMA IdentifiedRecord ==
  ASSUME NEW r \in Record, Known(r)
  PROVE  /\ Identified(r) \in Record /\ Known(Identified(r)) /\ Identified(r).pattern_id \in Pattern
         /\ Identified(r).weight = r.weight /\ Identified(r).last_seen = r.last_seen
         /\ Identified(r).injection_count = r.injection_count
         /\ Identified(r).utilization_successes = r.utilization_successes
         /\ Identified(r) = r \/ Identified(r).pattern_id \in Ambiguous
         /\ r.pattern_id # NoId => Identified(r) = r
<1>1. CASE r.pattern_id # NoId
  BY <1>1 DEF Identified, Record
<1>2. CASE r.pattern_id = NoId
  <2>1. r.key \in Key
    BY DEF Record
  <2>2. PICK id \in Pattern : id = IdOf[r.key]
    BY <2>1, IdAssumption
  <2>3. Identified(r) = [r EXCEPT !.pattern_id = id]
    BY <1>2, <2>2 DEF Identified
  <2>4. id \in Ambiguous
    BY <1>2, <2>1, <2>2 DEF Known, MisusesId
  <2>5. PICK q \in Record : q = [r EXCEPT !.pattern_id = id]
    BY DEF Record
  <2>6. /\ q.pattern_id = id /\ q.key = r.key /\ q.weight = r.weight /\ q.last_seen = r.last_seen
        /\ q.injection_count = r.injection_count
        /\ q.utilization_successes = r.utilization_successes
    BY <2>5 DEF Record
  <2>7. Known(q)
    BY <2>2, <2>4, <2>6 DEF Known, MisusesId
  <2> QED BY <1>2, <2>3, <2>4, <2>5, <2>6, <2>7
<1> QED BY <1>1, <1>2

LEMMA RaisedWeight ==
  ASSUME NEW r \in Record, NEW amount \in Nat
  PROVE  Raised(r, amount) \in Weight
<1>1. PICK w \in Weight : w = WeightOr(r, INITIAL_WEIGHT)
  <2>1. r.weight \in Weight \cup {NoWeight}
    BY DEF Record
  <2> QED BY <2>1, WeightAssumption DEF WeightOr, Weight, INITIAL_WEIGHT, WEIGHT_CAP, WEIGHT_FLOOR
<1>2. AtMost(w + amount, WEIGHT_CAP) \in Weight
  <2>1. PICK sum \in Int : sum = w + amount /\ sum >= LeastWeight
    BY WeightAssumption DEF Weight
  <2> QED BY <2>1, WeightAssumption DEF AtMost, Weight, WEIGHT_CAP, WEIGHT_FLOOR
<1> QED BY <1>1, <1>2 DEF Raised

LEMMA CountedRecord ==
  ASSUME NEW r \in Record, r.pattern_id \in Pattern, NEW in \in Input, NEW day \in Nat
  PROVE  /\ Counted(r, in, day) \in Record
         /\ Counted(r, in, day).key = r.key
         /\ Counted(r, in, day).pattern_id = r.pattern_id
         /\ r.utilization_successes <= r.injection_count =>
              Counted(r, in, day).utilization_successes <= Counted(r, in, day).injection_count
<1>1. PICK n \in Nat : n = in.shown[r.pattern_id]
  BY DEF Input
<1>2. PICK w \in Weight : w = Raised(r, n * UTILIZATION_INCREMENT)
  <2>1. n * UTILIZATION_INCREMENT \in Nat
    BY DEF UTILIZATION_INCREMENT
  <2> QED BY <2>1, RaisedWeight
<1>3. PICK j \in Nat : j = r.injection_count + n
  BY DEF Record
<1>4. PICK u \in Nat : u = r.utilization_successes + n
  BY DEF Record
<1>5. r.utilization_successes \in Nat /\ r.injection_count \in Nat
  BY DEF Record
<1>6. PICK injected \in Record : injected = [r EXCEPT !.injection_count = j]
  BY DEF Record
<1>7. /\ injected.key = r.key /\ injected.pattern_id = r.pattern_id /\ injected.injection_count = j
      /\ injected.utilization_successes = r.utilization_successes /\ injected.weight = r.weight
  BY <1>6 DEF Record
<1>8. Raised(injected, n * UTILIZATION_INCREMENT) = w
  BY <1>2, <1>7 DEF Raised, WeightOr
<1>9. PICK used \in Record :
        used = [injected EXCEPT !.utilization_successes = u, !.weight = w, !.last_seen = day]
  <2>1. w \in Weight \cup {NoWeight} /\ day \in Int
    OBVIOUS
  <2>2. [injected EXCEPT !.utilization_successes = u, !.weight = w, !.last_seen = day] \in Record
    BY <2>1 DEF Record
  <2> QED BY <2>2
<1>10. used.key = r.key /\ used.pattern_id = r.pattern_id /\ used.injection_count = j
       /\ used.utilization_successes = u
  BY <1>7, <1>9 DEF Record
<1>11. Raised(r, n * UTILIZATION_INCREMENT) = w /\ injected.utilization_successes + n = u
  BY <1>2, <1>4, <1>7
<1>12. [injected EXCEPT !.utilization_successes = @ + n,
                        !.weight = Raised(r, n * UTILIZATION_INCREMENT), !.last_seen = day] = used
  BY <1>9, <1>11 DEF Record
<1>13. Counted(r, in, day) = injected \/ Counted(r, in, day) = used
  BY <1>1, <1>3, <1>6, <1>12 DEF Counted
<1>14. r.utilization_successes <= r.injection_count => r.utilization_successes <= j /\ u <= j
  BY <1>3, <1>4, <1>5
<1> QED BY <1>7, <1>10, <1>13, <1>14

LEMMA ReinforcedRecord ==
  ASSUME NEW r \in Record, NEW day \in Nat
  PROVE  Reinforced(r, day) \in Record /\ SameCounts(Reinforced(r, day), r)
<1>1. PICK w \in Weight : w = Raised(r, WEIGHT_INCREMENT)
  BY RaisedWeight DEF WEIGHT_INCREMENT
<1>2. Reinforced(r, day) = [r EXCEPT !.weight = w, !.last_seen = day]
  BY <1>1 DEF Reinforced
<1>3. w \in Weight \cup {NoWeight} /\ day \in Int
  OBVIOUS
<1>4. [r EXCEPT !.weight = w, !.last_seen = day] \in Record
  BY <1>3 DEF Record
<1>5. SameCounts([r EXCEPT !.weight = w, !.last_seen = day], r)
  BY DEF Record, SameCounts
<1> QED BY <1>2, <1>4, <1>5

LEMMA NewPatternRecord ==
  ASSUME NEW key \in Key, NEW day \in Nat
  PROVE  NewPattern(key, day) \in Record /\ Known(NewPattern(key, day))
<1>1. IdOf[key] \in Pattern /\ 600 \in Weight
  BY IdAssumption, WeightAssumption DEF Weight, WEIGHT_CAP, WEIGHT_FLOOR
<1>2. NewPattern(key, day) \in Record
  BY <1>1 DEF NewPattern, Record, INITIAL_WEIGHT
<1>3. NewPattern(key, day).key = key /\ NewPattern(key, day).pattern_id = IdOf[key]
  BY DEF NewPattern
<1> HIDE DEF NewPattern
<1>4. \A k \in Key : ~MisusesId(NewPattern(key, day), k)
  BY <1>1, <1>3, IdAssumption, NothingAssumption DEF MisusesId
<1> QED BY <1>2, <1>4 DEF Known

\* What Known, Distinct and Credited say of a list depends on keys, ids and counts.
LEMMA SameCountsKnown ==
  ASSUME NEW r, NEW s, SameCounts(r, s), Known(s)
  PROVE  Known(r)
BY DEF SameCounts, Known, MisusesId

LEMMA SameCountsList ==
  ASSUME NEW ps \in FullList, NEW new \in Seq(Record), DOMAIN new = DOMAIN ps,
         \A i \in DOMAIN ps : SameCounts(new[i], ps[i])
  PROVE  new \in FullList
<1>1. ps \in Seq(Record) /\ \A i \in DOMAIN ps : ps[i].pattern_id # NoId /\ Known(ps[i])
  BY DEF FullList, List
<1>2. \A i \in DOMAIN new : Known(new[i])
  BY <1>1, SameCountsKnown
<1>3. Credited(new)
  BY DEF FullList, List, Credited, SameCounts
<1>4. \A i, j \in DOMAIN new : SameIdentity(new[i], new[j]) => SameIdentity(ps[i], ps[j])
  BY <1>1 DEF SameIdentity, SameCounts
<1>5. Distinct(ps) /\ \A i \in DOMAIN ps : new[i].pattern_id = ps[i].pattern_id
  BY DEF FullList, List, SameCounts
<1>6. Distinct(new)
  BY <1>4, <1>5 DEF Distinct
<1> QED BY <1>1, <1>2, <1>3, <1>5, <1>6 DEF FullList, List

\* One more record, with an id that is new to the list, or else ambiguous.
LEMMA AppendList ==
  ASSUME NEW ps \in List, NEW r \in Record, Known(r),
         r.utilization_successes <= r.injection_count,
         \A i \in DOMAIN ps : SameIdentity(ps[i], r) => r.pattern_id \in Ambiguous
  PROVE  Append(ps, r) \in List
<1>1. ps \in Seq(Record) /\ Len(ps) \in Nat /\ DOMAIN ps = 1..Len(ps)
  BY DEF List
<1> DEFINE new == Append(ps, r)
<1>2. new \in Seq(Record) /\ DOMAIN new = 1..Len(ps) + 1
      /\ \A i \in 1..Len(ps) + 1 : new[i] = IF i <= Len(ps) THEN ps[i] ELSE r
  BY <1>1
<1> HIDE DEF new
<1>3. \A i \in DOMAIN new : Known(new[i])
  BY <1>1, <1>2 DEF List
<1>4. Credited(new)
  BY <1>1, <1>2 DEF List, Credited
<1>5. ASSUME NEW i \in DOMAIN new, NEW j \in DOMAIN new, SameIdentity(new[i], new[j])
      PROVE  i = j \/ new[i].pattern_id \in Ambiguous
  <2>1. CASE i <= Len(ps) /\ j <= Len(ps)
    BY <1>1, <1>2, <1>5, <2>1 DEF List, Distinct
  <2>2. CASE i <= Len(ps) /\ ~(j <= Len(ps))
    <3>1. i \in DOMAIN ps /\ new[i] = ps[i] /\ new[j] = r
      BY <1>1, <1>2, <2>2
    <3>2. SameIdentity(ps[i], r) /\ ps[i].pattern_id = r.pattern_id
      BY <1>5, <3>1 DEF SameIdentity
    <3> QED BY <3>1, <3>2
  <2>3. CASE ~(i <= Len(ps)) /\ j <= Len(ps)
    <3>1. j \in DOMAIN ps /\ new[j] = ps[j] /\ new[i] = r
      BY <1>1, <1>2, <2>3
    <3>2. SameIdentity(ps[j], r)
      BY <1>5, <3>1 DEF SameIdentity
    <3> QED BY <3>1, <3>2
  <2>4. CASE ~(i <= Len(ps)) /\ ~(j <= Len(ps))
    BY <1>1, <1>2, <2>4
  <2> QED BY <1>1, <1>2, <2>1, <2>2, <2>3, <2>4
<1>6. Distinct(new)
  BY <1>5 DEF Distinct
<1> QED BY <1>2, <1>3, <1>4, <1>6 DEF List, new

LEMMA UpsertType ==
  ASSUME NEW ps \in Seq(Record), NEW key \in Key, NEW day \in Nat
  PROVE  Upsert(ps, key, day) \in Seq(Record)
<1>1. NewPattern(key, day) \in Record /\ \A i \in DOMAIN ps : Reinforced(ps[i], day) \in Record
  BY NewPatternRecord, ReinforcedRecord
<1> DEFINE same == {i \in DOMAIN ps : ps[i].key = key}
<1>2. PICK n : n = Min(same)
  OBVIOUS
<1>3. CASE same = {}
  BY <1>1, <1>3 DEF Upsert
<1>4. CASE same # {}
  <2>1. Upsert(ps, key, day) = [i \in DOMAIN ps |-> IF i = n THEN Reinforced(ps[i], day) ELSE ps[i]]
    BY <1>2, <1>4 DEF Upsert
  <2> QED BY <1>1, <2>1
<1> QED BY <1>3, <1>4

LEMMA UpsertList ==
  ASSUME NEW ps \in FullList, NEW key \in Key, NEW day \in Nat
  PROVE  Upsert(ps, key, day) \in FullList
<1>0. ps \in List /\ ps \in Seq(Record) /\ Len(ps) \in Nat /\ DOMAIN ps = 1..Len(ps)
      /\ \A i \in DOMAIN ps : ps[i] \in Record /\ ps[i].pattern_id # NoId /\ Known(ps[i])
  BY DEF FullList, List
<1> DEFINE same == {i \in DOMAIN ps : ps[i].key = key}
<1>1. CASE same = {}
  <2>1. PICK r : r = NewPattern(key, day)
    OBVIOUS
  <2>2. r \in Record /\ Known(r) /\ r.key = key /\ r.pattern_id = IdOf[key]
        /\ r.utilization_successes <= r.injection_count
    BY <2>1, NewPatternRecord DEF NewPattern
  <2>3. r.pattern_id # NoId
    BY <2>2, IdAssumption, NothingAssumption
  <2>4. ASSUME NEW i \in DOMAIN ps, SameIdentity(ps[i], r) PROVE r.pattern_id \in Ambiguous
    <3>1. ps[i].key # key /\ ps[i].pattern_id = IdOf[key]
      BY <1>1, <2>2, <2>4 DEF SameIdentity
    <3> QED BY <1>0, <2>2, <3>1 DEF Known, MisusesId
  <2>5. Append(ps, r) \in List
    BY <1>0, <2>2, <2>4, AppendList
  <2>6. \A i \in DOMAIN Append(ps, r) : Append(ps, r)[i].pattern_id # NoId
    BY <1>0, <2>2, <2>3
  <2>7. Upsert(ps, key, day) = Append(ps, r)
    BY <1>1, <2>1 DEF Upsert
  <2> QED BY <2>5, <2>6, <2>7 DEF FullList
<1>2. CASE same # {}
  <2>1. PICK n : n = Min(same)
    OBVIOUS
  <2>2. PICK new : new = Upsert(ps, key, day)
    OBVIOUS
  <2>3. new = [i \in DOMAIN ps |-> IF i = n THEN Reinforced(ps[i], day) ELSE ps[i]]
    BY <1>2, <2>1, <2>2 DEF Upsert
  <2>4. new \in Seq(Record)
    BY <1>0, <2>2, UpsertType
  <2>5. \A i \in DOMAIN ps : SameCounts(new[i], ps[i])
    BY <1>0, <2>3, ReinforcedRecord DEF SameCounts
  <2> QED BY <2>2, <2>3, <2>4, <2>5, SameCountsList
<1> QED BY <1>1, <1>2

-----------------------------------------------------------------------------
(* The loops *)

LEMMA UpsertLoop ==
  ASSUME NEW first \in Seq(Record), NEW seq \in Seq(Key), NEW day \in Nat
  PROVE  \E g : /\ g[0] = first
                /\ \A n \in 1..Len(seq) : g[n] = Upsert(g[n - 1], seq[n], day)
                /\ FoldLeft(LAMBDA ps, key : Upsert(ps, key, day), first, seq) = g[Len(seq)]
<1> DEFINE F == [ps \in Seq(Record) |-> [key \in Key |-> Upsert(ps, key, day)]]
           Unrolls(it) == it = [s \in SUBSET (DOMAIN seq) |->
             IF s = {} THEN first ELSE Upsert(it[s \ {Max(s)}], seq[Max(s)], day)]
           it == CHOOSE it : Unrolls(it)
           g == [n \in 0..Len(seq) |-> it[1..n]]
<1>0. Len(seq) \in Nat /\ DOMAIN seq = 1..Len(seq) /\ \A i \in 1..Len(seq) : seq[i] \in Key
  OBVIOUS
<1>1. \E h : Unrolls(h)
  <2>1. F \in [Seq(Record) -> [Key -> Seq(Record)]]
    BY UpsertType
  <2>2. PICK h : Folds(Seq(Record), F, first, seq, h)
    <3> HIDE DEF F
    <3> QED BY <2>1, FoldExists
  <2>3. ASSUME NEW s \in SUBSET (DOMAIN seq), s # {}
        PROVE  F[h[s \ {Max(s)}]][seq[Max(s)]] = Upsert(h[s \ {Max(s)}], seq[Max(s)], day)
    <3>1. Max(s) \in s
      BY <1>0, <2>3, MaxIsThere
    <3>2. h[s \ {Max(s)}] \in Seq(Record) /\ seq[Max(s)] \in Key
      BY <1>0, <2>2, <3>1 DEF Folds
    <3> QED BY <3>2
  <2> HIDE DEF F
  <2>4. Unrolls(h)
    BY <2>2, <2>3 DEF Folds
  <2> QED BY <2>4
<1>2. Unrolls(it)
  BY <1>1
<1>3. FoldLeft(LAMBDA ps, key : Upsert(ps, key, day), first, seq) = it[DOMAIN seq]
  BY DEF FoldLeft, MapThenFoldSet
<1> HIDE DEF it
<1>4. g[0] = first
  <2>1. 1..0 = {} /\ 1..0 \in SUBSET (DOMAIN seq)
    OBVIOUS
  <2> QED BY <1>0, <1>2, <2>1
<1>5. ASSUME NEW n \in 1..Len(seq) PROVE g[n] = Upsert(g[n - 1], seq[n], day)
  <2>1. 1..n \in SUBSET (DOMAIN seq) /\ 1..n # {}
    <3>1. n \in 1..n /\ \A i \in 1..n : i \in 1..Len(seq)
      BY <1>0
    <3> QED BY <1>0, <3>1
  <2>2. Max(1..n) = n /\ (1..n) \ {Max(1..n)} = 1..n - 1
    BY <1>0, LastOfPrefix
  <2>3. it[1..n] = Upsert(it[(1..n) \ {Max(1..n)}], seq[Max(1..n)], day)
    BY <1>2, <2>1, Zenon
  <2>4. it[1..n] = Upsert(it[1..n - 1], seq[n], day)
    BY <2>2, <2>3, Zenon
  <2>5. n \in 0..Len(seq) /\ n - 1 \in 0..Len(seq)
    BY <1>0
  <2> QED BY <2>4, <2>5
<1>6. g[Len(seq)] = it[DOMAIN seq]
  BY <1>0
<1> HIDE DEF g
<1> QED BY <1>3, <1>4, <1>5, <1>6, Zenon


LEMMA LowUtilizationLoop ==
  ASSUME NEW seq \in Seq(Record)
  PROVE  \E g : /\ g[0] = <<>>
                /\ \A n \in 1..Len(seq) : g[n] = (IF PoorlyUsed(seq[n]) THEN g[n - 1] ELSE Append(g[n - 1], seq[n]))
                /\ FoldLeft(LAMBDA result, p : IF PoorlyUsed(p) THEN result ELSE Append(result, p), <<>>, seq) = g[Len(seq)]
<1> DEFINE F == [result \in Seq(Record) |-> [r \in Record |-> IF PoorlyUsed(r) THEN result ELSE Append(result, r)]]
           Unrolls(it) == it = [s \in SUBSET (DOMAIN seq) |->
             IF s = {} THEN <<>> ELSE (IF PoorlyUsed(seq[Max(s)]) THEN it[s \ {Max(s)}] ELSE Append(it[s \ {Max(s)}], seq[Max(s)]))]
           it == CHOOSE it : Unrolls(it)
           g == [n \in 0..Len(seq) |-> it[1..n]]
<1>0. Len(seq) \in Nat /\ DOMAIN seq = 1..Len(seq) /\ \A i \in 1..Len(seq) : seq[i] \in Record
  OBVIOUS
<1>1. \E h : Unrolls(h)
  <2>1. F \in [Seq(Record) -> [Record -> Seq(Record)]]
    OBVIOUS
  <2>2. PICK h : Folds(Seq(Record), F, <<>>, seq, h)
    <3>1. <<>> \in Seq(Record)
      OBVIOUS
    <3> HIDE DEF F
    <3> QED BY <2>1, <3>1, FoldExists
  <2>3. ASSUME NEW s \in SUBSET (DOMAIN seq), s # {}
        PROVE  F[h[s \ {Max(s)}]][seq[Max(s)]] = (IF PoorlyUsed(seq[Max(s)]) THEN h[s \ {Max(s)}] ELSE Append(h[s \ {Max(s)}], seq[Max(s)]))
    <3>1. Max(s) \in s
      BY <1>0, <2>3, MaxIsThere
    <3>2. h[s \ {Max(s)}] \in Seq(Record) /\ seq[Max(s)] \in Record
      BY <1>0, <2>2, <3>1 DEF Folds
    <3> QED BY <3>2
  <2> HIDE DEF F
  <2>4. Unrolls(h)
    BY <2>2, <2>3 DEF Folds
  <2> QED BY <2>4
<1>2. Unrolls(it)
  BY <1>1
<1>3. FoldLeft(LAMBDA result, p : IF PoorlyUsed(p) THEN result ELSE Append(result, p), <<>>, seq) = it[DOMAIN seq]
  BY DEF FoldLeft, MapThenFoldSet
<1> HIDE DEF it
<1>4. g[0] = <<>>
  <2>1. 1..0 = {} /\ 1..0 \in SUBSET (DOMAIN seq)
    OBVIOUS
  <2> QED BY <1>0, <1>2, <2>1
<1>5. ASSUME NEW n \in 1..Len(seq) PROVE g[n] = (IF PoorlyUsed(seq[n]) THEN g[n - 1] ELSE Append(g[n - 1], seq[n]))
  <2>1. 1..n \in SUBSET (DOMAIN seq) /\ 1..n # {}
    <3>1. n \in 1..n /\ \A i \in 1..n : i \in 1..Len(seq)
      BY <1>0
    <3> QED BY <1>0, <3>1
  <2>2. Max(1..n) = n /\ (1..n) \ {Max(1..n)} = 1..n - 1
    BY <1>0, LastOfPrefix
  <2>3. it[1..n] = (IF PoorlyUsed(seq[Max(1..n)]) THEN it[(1..n) \ {Max(1..n)}] ELSE Append(it[(1..n) \ {Max(1..n)}], seq[Max(1..n)]))
    BY <1>2, <2>1, Zenon
  <2>4. it[1..n] = (IF PoorlyUsed(seq[n]) THEN it[1..n - 1] ELSE Append(it[1..n - 1], seq[n]))
    BY <2>2, <2>3, Zenon
  <2>5. n \in 0..Len(seq) /\ n - 1 \in 0..Len(seq)
    BY <1>0
  <2> QED BY <2>4, <2>5
<1>6. g[Len(seq)] = it[DOMAIN seq]
  BY <1>0
<1> HIDE DEF g
<1> QED BY <1>3, <1>4, <1>5, <1>6, Zenon


\* Is a pattern in the list?
Met(merged, r) == \E i \in DOMAIN merged : SameIdentity(merged[i], r)

LEMMA MergeLoop ==
  ASSUME NEW first \in Seq(Record), NEW seq \in Seq(Record)
  PROVE  \E g : /\ g[0] = first
                /\ \A n \in 1..Len(seq) : g[n] = (IF Met(g[n - 1], seq[n]) THEN g[n - 1] ELSE Append(g[n - 1], seq[n]))
                /\ FoldLeft(LAMBDA merged, r : IF Met(merged, r) THEN merged ELSE Append(merged, r), first, seq) = g[Len(seq)]
<1> DEFINE F == [merged \in Seq(Record) |-> [r \in Record |->
                   IF Met(merged, r) THEN merged ELSE Append(merged, r)]]
           Unrolls(it) == it = [s \in SUBSET (DOMAIN seq) |->
             IF s = {} THEN first ELSE (IF Met(it[s \ {Max(s)}], seq[Max(s)]) THEN it[s \ {Max(s)}] ELSE Append(it[s \ {Max(s)}], seq[Max(s)]))]
           it == CHOOSE it : Unrolls(it)
           g == [n \in 0..Len(seq) |-> it[1..n]]
<1>0. Len(seq) \in Nat /\ DOMAIN seq = 1..Len(seq) /\ \A i \in 1..Len(seq) : seq[i] \in Record
  OBVIOUS
<1>1. \E h : Unrolls(h)
  <2>1. F \in [Seq(Record) -> [Record -> Seq(Record)]]
    OBVIOUS
  <2>2. PICK h : Folds(Seq(Record), F, first, seq, h)
    <3> HIDE DEF F
    <3> QED BY <2>1, FoldExists
  <2>3. ASSUME NEW s \in SUBSET (DOMAIN seq), s # {}
        PROVE  F[h[s \ {Max(s)}]][seq[Max(s)]] = (IF Met(h[s \ {Max(s)}], seq[Max(s)]) THEN h[s \ {Max(s)}] ELSE Append(h[s \ {Max(s)}], seq[Max(s)]))
    <3>1. Max(s) \in s
      BY <1>0, <2>3, MaxIsThere
    <3>2. h[s \ {Max(s)}] \in Seq(Record) /\ seq[Max(s)] \in Record
      BY <1>0, <2>2, <3>1 DEF Folds
    <3> QED BY <3>2
  <2> HIDE DEF F
  <2>4. Unrolls(h)
    BY <2>2, <2>3 DEF Folds
  <2> QED BY <2>4
<1>2. Unrolls(it)
  BY <1>1
<1>3. FoldLeft(LAMBDA merged, r : IF Met(merged, r) THEN merged ELSE Append(merged, r), first, seq) = it[DOMAIN seq]
  BY DEF FoldLeft, MapThenFoldSet
<1> HIDE DEF it
<1>4. g[0] = first
  <2>1. 1..0 = {} /\ 1..0 \in SUBSET (DOMAIN seq)
    OBVIOUS
  <2> QED BY <1>0, <1>2, <2>1
<1>5. ASSUME NEW n \in 1..Len(seq) PROVE g[n] = (IF Met(g[n - 1], seq[n]) THEN g[n - 1] ELSE Append(g[n - 1], seq[n]))
  <2>1. 1..n \in SUBSET (DOMAIN seq) /\ 1..n # {}
    <3>1. n \in 1..n /\ \A i \in 1..n : i \in 1..Len(seq)
      BY <1>0
    <3> QED BY <1>0, <3>1
  <2>2. Max(1..n) = n /\ (1..n) \ {Max(1..n)} = 1..n - 1
    BY <1>0, LastOfPrefix
  <2>3. it[1..n] = (IF Met(it[(1..n) \ {Max(1..n)}], seq[Max(1..n)]) THEN it[(1..n) \ {Max(1..n)}] ELSE Append(it[(1..n) \ {Max(1..n)}], seq[Max(1..n)]))
    BY <1>2, <2>1, Zenon
  <2>4. it[1..n] = (IF Met(it[1..n - 1], seq[n]) THEN it[1..n - 1] ELSE Append(it[1..n - 1], seq[n]))
    BY <2>2, <2>3, Zenon
  <2>5. n \in 0..Len(seq) /\ n - 1 \in 0..Len(seq)
    BY <1>0
  <2> QED BY <2>4, <2>5
<1>6. g[Len(seq)] = it[DOMAIN seq]
  BY <1>0
<1> HIDE DEF g
<1> QED BY <1>3, <1>4, <1>5, <1>6, Zenon


-----------------------------------------------------------------------------
(* The list before the evictions, and a merged list *)

\* Every record gets an id.  Two that share one although they were not the same
\* before owe it to a record that had none.
LEMMA CountedList ==
  ASSUME NEW ps \in List, NEW in \in Input, NEW day \in Nat, ~DecayRaises(ps, day)
  PROVE  LoadedAndCounted(ps, in, day) \in FullList
<1>1. ps \in Seq(Record) /\ Len(ps) \in Nat /\ DOMAIN ps = 1..Len(ps)
      /\ \A i \in DOMAIN ps : ps[i] \in Record /\ Known(ps[i])
  BY DEF List
<1> DEFINE aged == [i \in DOMAIN ps |-> Decayed(Identified(ps[i]), day)]
           new == [i \in DOMAIN aged |->
                     IF LastWithId(aged, i) THEN Counted(aged[i], in, day) ELSE aged[i]]
<1>2. ASSUME NEW i \in DOMAIN ps
      PROVE  /\ aged[i] \in Record /\ Known(aged[i]) /\ aged[i].pattern_id \in Pattern
             /\ aged[i].utilization_successes <= aged[i].injection_count
             /\ ps[i].pattern_id = NoId => aged[i].pattern_id \in Ambiguous
             /\ ps[i].pattern_id # NoId => aged[i].pattern_id = ps[i].pattern_id
  <2>1. PICK r \in Record : r = Identified(ps[i])
    BY <1>1, IdentifiedRecord
  <2>2. /\ Known(r) /\ r.pattern_id \in Pattern
        /\ r.weight = ps[i].weight /\ r.last_seen = ps[i].last_seen
        /\ r.injection_count = ps[i].injection_count
        /\ r.utilization_successes = ps[i].utilization_successes
        /\ r = ps[i] \/ r.pattern_id \in Ambiguous
        /\ ps[i].pattern_id # NoId => r = ps[i]
    BY <1>1, <2>1, IdentifiedRecord
  <2>3. ~(r.weight = NoWeight /\ day - r.last_seen > DECAY_DAYS)
    BY <2>2 DEF DecayRaises
  <2>4. PICK d \in Record : d = Decayed(r, day)
    BY <2>3, DecayedRecord
  <2>5. SameCounts(d, r)
    BY <2>3, <2>4, DecayedRecord
  <2>6. ps[i].utilization_successes <= ps[i].injection_count
    BY DEF List, Credited
  <2>7. Known(d)
    BY <2>2, <2>5, SameCountsKnown
  <2>8. aged[i] = d
    BY <2>1, <2>4
  <2>9. ps[i].pattern_id = NoId => d.pattern_id \in Ambiguous
    <3>1. NoId \notin Pattern
      BY NothingAssumption
    <3>2. ps[i].pattern_id = NoId => r.pattern_id \in Ambiguous
      BY <2>2, <3>1
    <3> QED BY <2>5, <3>2 DEF SameCounts
  <2> HIDE DEF aged
  <2> QED BY <2>2, <2>5, <2>6, <2>7, <2>8, <2>9 DEF SameCounts
<1>3. DOMAIN aged = DOMAIN ps /\ DOMAIN new = DOMAIN ps /\ new = [i \in DOMAIN ps |-> new[i]]
  OBVIOUS
<1>4. ASSUME NEW i \in DOMAIN ps
      PROVE  /\ new[i] \in Record /\ new[i].key = aged[i].key
             /\ new[i].pattern_id = aged[i].pattern_id
             /\ new[i].utilization_successes <= new[i].injection_count
  <2>1. PICK r \in Record : r = aged[i]
    BY <1>2
  <2>2. r.pattern_id \in Pattern /\ r.utilization_successes <= r.injection_count
    BY <1>2, <2>1
  <2>3. new[i] = Counted(r, in, day) \/ new[i] = r
    BY <1>3, <2>1
  <2> HIDE DEF new, aged
  <2> QED BY <2>1, <2>2, <2>3, CountedRecord
<1>5. LoadedAndCounted(ps, in, day) = new
  BY DEF LoadedAndCounted
<1> HIDE DEF new, aged
<1>6. new \in Seq(Record)
  BY <1>1, <1>3, <1>4
<1>7. Credited(new)
  BY <1>3, <1>4 DEF Credited
<1>8. \A i \in DOMAIN new : Known(new[i]) /\ new[i].pattern_id # NoId
  BY <1>2, <1>3, <1>4, NothingAssumption DEF Known, MisusesId
<1>9. ASSUME NEW i \in DOMAIN ps, NEW j \in DOMAIN ps, SameIdentity(new[i], new[j])
      PROVE  i = j \/ new[i].pattern_id \in Ambiguous
  <2>1. new[i].pattern_id = new[j].pattern_id
    BY <1>9 DEF SameIdentity
  <2>2. aged[i].pattern_id = aged[j].pattern_id /\ new[i].pattern_id = aged[i].pattern_id
    BY <1>4, <2>1
  <2>3. CASE ps[i].pattern_id = NoId \/ ps[j].pattern_id = NoId
    BY <1>2, <2>2, <2>3
  <2>4. CASE ps[i].pattern_id # NoId /\ ps[j].pattern_id # NoId
    <3>1. ps[i].pattern_id = ps[j].pattern_id /\ ps[i].pattern_id = new[i].pattern_id
      BY <1>2, <2>2, <2>4
    <3>2. SameIdentity(ps[i], ps[j])
      BY <2>4, <3>1 DEF SameIdentity
    <3> QED BY <3>1, <3>2 DEF List, Distinct
  <2> QED BY <2>3, <2>4
<1>10. Distinct(new)
  BY <1>3, <1>9 DEF Distinct
<1> QED BY <1>5, <1>6, <1>7, <1>8, <1>10 DEF FullList, List

LEMMA LearnedList ==
  ASSUME NEW ps \in List, NEW in \in Input, NEW day \in Nat, ~DecayRaises(ps, day)
  PROVE  Learned(ps, in, day) \in FullList
<1>1. PICK counted \in FullList : counted = LoadedAndCounted(ps, in, day)
  BY CountedList
<1>2. CASE ~in.success
  BY <1>1, <1>2 DEF Learned
<1>3. CASE in.success
  <2>1. PICK seq \in Seq(Key) : seq = in.learned
    BY DEF Input
  <2>2. PICK g : /\ g[0] = counted
                 /\ \A n \in 1..Len(seq) : g[n] = Upsert(g[n - 1], seq[n], day)
                 /\ FoldLeft(LAMBDA qs, key : Upsert(qs, key, day), counted, seq) = g[Len(seq)]
    BY UpsertLoop DEF FullList, List
  <2> DEFINE T == {n \in 0..Len(seq) : g[n] \in FullList}
  <2>3. Len(seq) \in Nat /\ 0 \in T
    <3>1. Len(seq) \in Nat /\ 0 \in 0..Len(seq)
      OBVIOUS
    <3>2. g[0] \in FullList
      BY <2>2
    <3> QED BY <3>1, <3>2
  <2>4. \A n \in 1..Len(seq) : n - 1 \in T => n \in T
    <3> SUFFICES ASSUME NEW n \in 1..Len(seq), g[n - 1] \in FullList PROVE n \in T
      OBVIOUS
    <3>1. seq[n] \in Key
      OBVIOUS
    <3>2. g[n] \in FullList
      BY <2>2, <3>1, UpsertList
    <3> QED BY <2>3, <3>2
  <2>5. Len(seq) \in T
    <3> HIDE DEF T
    <3>1. \A n \in 0..Len(seq) : n \in T
      BY <2>3, <2>4, UpTo
    <3> QED BY <2>3, <3>1
  <2>6. Learned(ps, in, day) = g[Len(seq)]
    BY <1>1, <1>3, <2>1, <2>2 DEF Learned
  <2> QED BY <2>5, <2>6
<1> QED BY <1>2, <1>3

\* A merge keeps the local patterns and adds none that is there.
LEMMA MergedList ==
  ASSUME NEW local \in List, NEW other \in Seq(Record), Credited(other),
         \A i \in DOMAIN other : Known(other[i])
  PROVE  MergePatterns(local, other) \in List
<1>0. local \in Seq(Record) /\ Len(other) \in Nat /\ DOMAIN other = 1..Len(other)
  BY DEF List
<1>1. PICK g : /\ g[0] = local
               /\ \A n \in 1..Len(other) :
                    g[n] = IF Met(g[n - 1], other[n]) THEN g[n - 1]
                           ELSE Append(g[n - 1], other[n])
               /\ MergePatterns(local, other) = g[Len(other)]
  BY <1>0, MergeLoop DEF MergePatterns, Met
<1> DEFINE T == {n \in 0..Len(other) : g[n] \in List}
<1>2. 0 \in T
  BY <1>0, <1>1
<1>3. \A n \in 1..Len(other) : n - 1 \in T => n \in T
  <2> SUFFICES ASSUME NEW n \in 1..Len(other), g[n - 1] \in List PROVE n \in T
    OBVIOUS
  <2>1. n \in 0..Len(other)
    BY <1>0
  <2>2. other[n] \in Record /\ Known(other[n])
        /\ other[n].utilization_successes <= other[n].injection_count
    BY <1>0 DEF Credited
  <2>3. CASE Met(g[n - 1], other[n])
    BY <1>1, <2>1, <2>3
  <2>4. CASE ~Met(g[n - 1], other[n])
    <3>1. Append(g[n - 1], other[n]) \in List
      BY <2>2, <2>4, AppendList DEF Met
    <3> QED BY <1>1, <2>1, <2>4, <3>1
  <2> QED BY <2>3, <2>4
<1>4. Len(other) \in T
  <2> HIDE DEF T
  <2>1. \A n \in 0..Len(other) : n \in T
    BY <1>0, <1>2, <1>3, UpTo
  <2> QED BY <1>0, <2>1
<1> QED BY <1>1, <1>4

-----------------------------------------------------------------------------
(* The first eviction *)

\* place says which record of a list each record of another one is, no two the same.
Places(place, all, kept) ==
  /\ place \in [DOMAIN kept -> DOMAIN all]
  /\ \A k, l \in DOMAIN kept : place[k] = place[l] => k = l
  /\ \A k \in DOMAIN kept : kept[k] = all[place[k]]

LEMMA PlacesList ==
  ASSUME NEW all \in List, NEW kept, NEW n \in Nat, DOMAIN kept = 1..n,
         kept = [k \in 1..n |-> kept[k]], NEW place, Places(place, all, kept)
  PROVE  kept \in List
<1>1. all \in Seq(Record) /\ \A i \in DOMAIN all : all[i] \in Record /\ Known(all[i])
  BY DEF List
<1>2. kept \in Seq(Record)
  <2>1. \A k \in 1..n : kept[k] \in Record
    BY <1>1 DEF Places
  <2> QED BY <2>1
<1>3. Credited(kept) /\ \A k \in DOMAIN kept : Known(kept[k])
  BY <1>1 DEF Places, List, Credited
<1>4. Distinct(kept)
  BY DEF Places, List, Distinct
<1> QED BY <1>2, <1>3, <1>4 DEF List

\* It takes the poorly used patterns, and only those.
LEMMA WellUsedList ==
  ASSUME NEW seq \in List
  PROVE  /\ EvictLowUtilization(seq) \in List
         /\ \E place : /\ Places(place, seq, EvictLowUtilization(seq))
                       /\ \A i \in DOMAIN seq :
                            ~PoorlyUsed(seq[i]) <=> \E k \in DOMAIN EvictLowUtilization(seq) : place[k] = i
<1>0. seq \in Seq(Record) /\ Len(seq) \in Nat /\ DOMAIN seq = 1..Len(seq)
      /\ \A i \in 1..Len(seq) : seq[i] \in Record
  BY DEF List
<1>1. PICK g : /\ g[0] = <<>>
               /\ \A n \in 1..Len(seq) :
                    g[n] = IF PoorlyUsed(seq[n]) THEN g[n - 1] ELSE Append(g[n - 1], seq[n])
               /\ EvictLowUtilization(seq) = g[Len(seq)]
  BY <1>0, LowUtilizationLoop DEF EvictLowUtilization
<1> DEFINE Good(place, n) ==
             /\ g[n] \in Seq(Record) /\ Places(place, seq, g[n])
             /\ \A k \in DOMAIN g[n] : place[k] \in 1..n
             /\ \A i \in 1..n : ~PoorlyUsed(seq[i]) <=> \E k \in DOMAIN g[n] : place[k] = i
           T == {n \in 0..Len(seq) : \E place : Good(place, n)}
<1>2. 0 \in T
  <2>1. g[0] = <<>> /\ DOMAIN g[0] = {} /\ <<>> \in Seq(Record)
    BY <1>1
  <2>2. Good([k \in {} |-> 0], 0)
    BY <2>1 DEF Places
  <2> HIDE DEF Good
  <2> QED BY <1>0, <2>2
<1>3. \A n \in 1..Len(seq) : n - 1 \in T => n \in T
  <2> SUFFICES ASSUME NEW n \in 1..Len(seq), n - 1 \in T PROVE n \in T
    OBVIOUS
  <2>0. n \in Nat /\ n \in 0..Len(seq) /\ n \in DOMAIN seq
    BY <1>0
  <2>1. PICK place : Good(place, n - 1)
    OBVIOUS
  <2>2. CASE PoorlyUsed(seq[n])
    <3>1. g[n] = g[n - 1]
      BY <1>1, <2>2
    <3>2. \A k \in DOMAIN g[n - 1] : place[k] \in 1..n /\ place[k] # n
      BY <2>0, <2>1
    <3>3. \A i \in 1..n : i = n \/ i \in 1..n - 1
      BY <2>0
    <3>4. Good(place, n)
      BY <2>1, <2>2, <3>1, <3>2, <3>3
    <3> HIDE DEF Good
    <3> QED BY <2>0, <3>4
  <2>3. CASE ~PoorlyUsed(seq[n])
    <3>1. PICK old \in Seq(Record) : old = g[n - 1]
      BY <2>1
    <3>2. PICK r \in Record : r = seq[n]
      BY <1>0
    <3>3. Len(old) \in Nat /\ DOMAIN old = 1..Len(old)
      OBVIOUS
    <3>4. PICK new \in Seq(Record) :
            /\ new = g[n] /\ DOMAIN new = 1..Len(old) + 1
            /\ \A k \in 1..Len(old) + 1 : new[k] = IF k <= Len(old) THEN old[k] ELSE r
      <4>1. PICK new : new = Append(old, r)
        OBVIOUS
      <4>2. g[n] = new
        BY <1>1, <2>3, <3>1, <3>2, <4>1
      <4>3. new \in Seq(Record) /\ DOMAIN new = 1..Len(old) + 1
        BY <3>3, <4>1
      <4>4. \A k \in 1..Len(old) + 1 : new[k] = IF k <= Len(old) THEN old[k] ELSE r
        BY <3>3, <4>1
      <4> QED BY <4>2, <4>3, <4>4
    <3> DEFINE q == [k \in 1..Len(old) + 1 |-> IF k <= Len(old) THEN place[k] ELSE n]
    <3>5. /\ place \in [1..Len(old) -> DOMAIN seq]
          /\ \A k, l \in 1..Len(old) : place[k] = place[l] => k = l
          /\ \A k \in 1..Len(old) : old[k] = seq[place[k]] /\ place[k] \in 1..n - 1
          /\ \A i \in 1..n - 1 : ~PoorlyUsed(seq[i]) <=> \E k \in 1..Len(old) : place[k] = i
      BY <2>1, <3>1, <3>3 DEF Places
    <3>6. \A k \in 1..Len(old) + 1 :
            (k \in 1..Len(old) /\ k <= Len(old) /\ q[k] = place[k]) \/ (k = Len(old) + 1 /\ ~(k <= Len(old)) /\ q[k] = n)
      BY <3>3
    <3>7. q \in [1..Len(old) + 1 -> DOMAIN seq]
      BY <2>0, <3>3, <3>5
    <3>8. \A k \in 1..Len(old) : k \in 1..Len(old) + 1 /\ q[k] = place[k]
      BY <3>3
    <3>9. Len(old) + 1 \in 1..Len(old) + 1 /\ q[Len(old) + 1] = n
      BY <3>3
    <3> HIDE DEF q
    <3>10. \A k \in 1..Len(old) : place[k] # n /\ place[k] \in 1..n
      BY <2>0, <3>5
    <3>11. Places(q, seq, new)
      <4>1. ASSUME NEW k \in 1..Len(old) + 1, NEW l \in 1..Len(old) + 1, q[k] = q[l]
            PROVE  k = l
        <5>1. \/ k \in 1..Len(old) /\ q[k] = place[k]
              \/ k = Len(old) + 1 /\ q[k] = n
          BY <3>6
        <5>2. \/ l \in 1..Len(old) /\ q[l] = place[l]
              \/ l = Len(old) + 1 /\ q[l] = n
          BY <3>6
        <5> QED BY <3>5, <3>10, <4>1, <5>1, <5>2, Zenon
      <4>2. ASSUME NEW k \in 1..Len(old) + 1 PROVE new[k] = seq[q[k]]
        <5>1. CASE k \in 1..Len(old) /\ k <= Len(old) /\ q[k] = place[k]
          BY <3>4, <3>5, <5>1
        <5>2. CASE k = Len(old) + 1 /\ ~(k <= Len(old)) /\ q[k] = n
          BY <3>2, <3>4, <5>2
        <5> QED BY <3>6, <5>1, <5>2
      <4> QED BY <3>4, <3>7, <4>1, <4>2 DEF Places
    <3>12. ASSUME NEW k \in 1..Len(old) + 1 PROVE q[k] \in 1..n
      <4>1. n \in 1..n
        BY <2>0
      <4>2. CASE k \in 1..Len(old) /\ q[k] = place[k]
        BY <3>10, <4>2
      <4>3. CASE q[k] = n
        BY <4>1, <4>3
      <4> QED BY <3>6, <4>2, <4>3
    <3>13. ASSUME NEW i \in 1..n
           PROVE  ~PoorlyUsed(seq[i]) <=> \E k \in 1..Len(old) + 1 : q[k] = i
      <4>1. CASE i = n
        BY <2>3, <3>9, <4>1
      <4>2. CASE i # n
        <5>1. i \in 1..n - 1
          BY <2>0, <4>2
        <5>2. (\E k \in 1..Len(old) + 1 : q[k] = i) <=> \E k \in 1..Len(old) : place[k] = i
          BY <3>6, <3>8, <4>2
        <5> QED BY <3>5, <5>1, <5>2
      <4> QED BY <4>1, <4>2
    <3>14. Good(q, n)
      BY <3>4, <3>11, <3>12, <3>13
    <3> HIDE DEF Good
    <3> QED BY <2>0, <3>14
  <2> QED BY <2>2, <2>3
<1>4. Len(seq) \in T
  <2> HIDE DEF T
  <2>1. \A n \in 0..Len(seq) : n \in T
    BY <1>0, <1>2, <1>3, UpTo
  <2> QED BY <1>0, <2>1
<1>5. PICK place : Good(place, Len(seq))
  BY <1>4
<1>6. EvictLowUtilization(seq) \in List
  <2>1. PICK used \in Seq(Record) : used = g[Len(seq)]
    BY <1>5
  <2>2. Len(used) \in Nat /\ DOMAIN used = 1..Len(used) /\ used = [k \in 1..Len(used) |-> used[k]]
    OBVIOUS
  <2>3. used \in List
    BY <1>5, <2>1, <2>2, PlacesList
  <2> QED BY <1>1, <2>1, <2>3
<1> QED BY <1>0, <1>1, <1>5, <1>6

-----------------------------------------------------------------------------
(* The second eviction *)

LEMMA FirstRanked ==
  ASSUME NEW S, NEW n \in Nat, NEW rank \in Bijection(S, 0..n - 1), NEW m \in Nat
  PROVE  LET first == {i \in S : rank[i] < m}
         IN  /\ IsFiniteSet(first) /\ Cardinality(first) <= m
             /\ (\E i \in S : rank[i] >= m) => Cardinality(first) = m
<1> DEFINE first == {i \in S : rank[i] < m}
           f == [i \in first |-> rank[i]]
<1>1. /\ rank \in [S -> 0..n - 1]
      /\ \A a, b \in S : rank[a] = rank[b] => a = b
      /\ \A t \in 0..n - 1 : \E s \in S : rank[s] = t
  BY DEF Bijection, Injection, Surjection, IsInjective
<1>2. f \in [first -> 0..m - 1]
  BY <1>1
<1>3. f \in Injection(first, 0..m - 1)
  <2>1. \A a, b \in first : f[a] = f[b] => a = b
    BY <1>1
  <2> QED BY <1>2, <2>1, Fun_IsInj
<1>4. IsFiniteSet(0..m - 1) /\ Cardinality(0..m - 1) = m
  <2>1. 0 \in Int /\ m - 1 \in Int
    OBVIOUS
  <2> QED BY <2>1, FS_Interval
<1>5. IsFiniteSet(first) /\ Cardinality(first) <= m
      /\ (f \in Surjection(first, 0..m - 1) => Cardinality(first) = m)
  <2> HIDE DEF f
  <2> QED BY <1>3, <1>4, FS_Injection
<1>6. ASSUME NEW i \in S, rank[i] >= m PROVE f \in Surjection(first, 0..m - 1)
  <2>1. \A t \in 0..m - 1 : t \in 0..n - 1
    BY <1>1, <1>6
  <2>2. \A t \in 0..m - 1 : \E s \in first : f[s] = t
    BY <1>1, <2>1
  <2> QED BY <1>2, <2>2, Fun_IsSurj
<1> QED BY <1>5, <1>6

LEMMA PositionsCount ==
  ASSUME NEW ps \in Seq(Record), NEW K \in SUBSET (DOMAIN ps)
  PROVE  IsFiniteSet(K) /\ Cardinality(K) \in Nat
<1>1. DOMAIN ps = 1..Len(ps) /\ Len(ps) \in Int /\ 1 \in Int
  OBVIOUS
<1>2. IsFiniteSet(1..Len(ps))
  BY <1>1, FS_Interval
<1> QED BY <1>1, <1>2, FS_Subset, FS_CardinalityType

LEMMA WeightOrInt ==
  ASSUME NEW r \in Record
  PROVE  WeightOr(r, 0) \in Int
<1>1. r.weight \in Weight \cup {NoWeight}
  BY DEF Record
<1>2. \A x \in Weight : x \in Int
  BY WeightAssumption DEF Weight
<1> QED BY <1>1, <1>2 DEF WeightOr

\* Heaviest first and, of equal weights, earliest first is a strict total order.
LEMMA OutranksOrder ==
  ASSUME NEW ps \in Seq(Record)
  PROVE  /\ \A i, j \in DOMAIN ps : i # j => Outranks(ps, i, j) \/ Outranks(ps, j, i)
         /\ \A i \in DOMAIN ps : ~Outranks(ps, i, i)
         /\ \A i, j, k \in DOMAIN ps : Outranks(ps, i, j) /\ Outranks(ps, j, k) => Outranks(ps, i, k)
<1>1. DOMAIN ps \subseteq Nat /\ \A i \in DOMAIN ps : ps[i] \in Record
  OBVIOUS
<1>2. PICK w : w = [i \in DOMAIN ps |-> WeightOr(ps[i], 0)]
  OBVIOUS
<1>3. \A i \in DOMAIN ps : WeightOr(ps[i], 0) \in Int
  BY <1>1, WeightOrInt
<1>4. w \in [DOMAIN ps -> Int]
  BY <1>2, <1>3
<1>5. \A i, j \in DOMAIN ps : Outranks(ps, i, j) <=> w[i] > w[j] \/ (w[i] = w[j] /\ i < j)
  BY <1>2 DEF Outranks
<1> QED BY <1>1, <1>4, <1>5

\* Two patterns are in one domain if it is the same one that is the first of it.
LEMMA FirstOfDomainSame ==
  ASSUME NEW ps \in Seq(Record), NEW i \in DOMAIN ps, NEW j \in DOMAIN ps
  PROVE  /\ FirstOfDomain(ps, i) \in DOMAIN ps
         /\ FirstOfDomain(ps, i) = FirstOfDomain(ps, j) <=> SameDomain(ps[i], ps[j])
<1> DEFINE S(k) == {l \in DOMAIN ps : SameDomain(ps[k], ps[l])}
<1>1. ASSUME NEW k \in DOMAIN ps PROVE Min(S(k)) \in S(k)
  <2>1. S(k) \in SUBSET Nat /\ S(k) # {}
    BY DEF SameDomain
  <2>2. \E n \in S(k) : \A m \in S(k) : n <= m
    <3> HIDE DEF S
    <3> QED BY <2>1, LeastNat
  <2> QED BY <2>2 DEF Min
<1>2. FirstOfDomain(ps, i) = Min(S(i)) /\ FirstOfDomain(ps, j) = Min(S(j))
  BY DEF FirstOfDomain
<1>3. SameDomain(ps[i], ps[j]) => S(i) = S(j)
  BY DEF SameDomain
<1>4. SameDomain(ps[i], ps[Min(S(i))]) /\ SameDomain(ps[j], ps[Min(S(j))]) /\ Min(S(i)) \in DOMAIN ps
  BY <1>1
<1>5. Min(S(i)) = Min(S(j)) => SameDomain(ps[i], ps[j])
  BY <1>4 DEF SameDomain
<1> HIDE DEF S
<1> QED BY <1>2, <1>3, <1>4, <1>5

LEMMA BeforeOrder ==
  ASSUME NEW ps \in Seq(Record)
  PROVE  /\ \A i, j \in DOMAIN ps : i # j => Before(ps, i, j) \/ Before(ps, j, i)
         /\ \A i \in DOMAIN ps : ~Before(ps, i, i)
         /\ \A i, j, k \in DOMAIN ps : Before(ps, i, j) /\ Before(ps, j, k) => Before(ps, i, k)
<1>1. PICK f : f = [i \in DOMAIN ps |-> FirstOfDomain(ps, i)]
  OBVIOUS
<1>2. \A i \in DOMAIN ps : f[i] \in Nat
  BY <1>1, FirstOfDomainSame
<1>3. \A i, j \in DOMAIN ps : Before(ps, i, j) <=> f[i] < f[j] \/ (f[i] = f[j] /\ Outranks(ps, i, j))
  BY <1>1, FirstOfDomainSame DEF Before
<1> QED BY <1>2, <1>3, OutranksOrder

\* The list that is saved holds the patterns at the positions kept, each once.
LEMMA OverflowList ==
  ASSUME NEW ps \in List
  PROVE  /\ EvictOverflow(ps) \in List
         /\ \E place : /\ Places(place, ps, EvictOverflow(ps))
                       /\ \A i \in DOMAIN ps :
                            i \in Kept(ps) <=> \E k \in DOMAIN EvictOverflow(ps) : place[k] = i
<1> DEFINE kept == Kept(ps)
           m == Cardinality(kept)
           R == {x \in kept \X kept : Before(ps, x[1], x[2])}
           rank == [i \in kept |-> Cardinality({j \in kept : <<j, i>> \in R})]
           f == [k \in 1..m |-> CHOOSE i \in kept : rank[i] = k - 1]
           new == [k \in 1..m |-> ps[f[k]]]
<1>1. ps \in Seq(Record) /\ DOMAIN ps \subseteq Nat /\ kept \in SUBSET (DOMAIN ps)
  BY DEF List, Kept
<1>2. IsFiniteSet(kept) /\ m \in Nat
  BY <1>1, PositionsCount
<1>3. \A i, j \in kept : <<i, j>> \in R <=> Before(ps, i, j)
  OBVIOUS
<1>4. rank \in Bijection(kept, 0..m - 1)
  <2>1. /\ \A i, j \in kept : i # j => <<i, j>> \in R \/ <<j, i>> \in R
        /\ \A i \in kept : <<i, i>> \notin R
        /\ \A i, j, k \in kept : <<i, j>> \in R /\ <<j, k>> \in R => <<i, k>> \in R
    <3> HIDE DEF R, kept
    <3> QED BY <1>1, <1>3, BeforeOrder
  <2> HIDE DEF R, kept
  <2> QED BY <1>2, <2>1, RankBijection
<1>5. EvictOverflow(ps) = new
  <2>1. \A i \in kept : rank[i] = Cardinality({j \in kept : Before(ps, j, i)})
    <3>1. \A i \in kept : {j \in kept : <<j, i>> \in R} = {j \in kept : Before(ps, j, i)}
      BY <1>3
    <3> HIDE DEF R
    <3> QED BY <3>1
  <2>2. \A k \in 1..m : f[k] = CHOOSE i \in kept : Cardinality({j \in kept : Before(ps, j, i)}) = k - 1
    <3> HIDE DEF rank, kept, m
    <3> QED BY <2>1
  <2>3. EvictOverflow(ps) =
          [k \in 1..m |-> ps[CHOOSE i \in kept : Cardinality({j \in kept : Before(ps, j, i)}) = k - 1]]
    BY DEF EvictOverflow
  <2> HIDE DEF f, kept, m
  <2> QED BY <2>2, <2>3
<1> HIDE DEF rank, R
<1>6. /\ rank \in [kept -> 0..m - 1]
      /\ \A a, b \in kept : rank[a] = rank[b] => a = b
      /\ \A t \in 0..m - 1 : \E s \in kept : rank[s] = t
  <2> HIDE DEF kept, m
  <2> QED BY <1>4 DEF Bijection, Injection, Surjection, IsInjective
<1> HIDE DEF kept, m
<1>7. \A k \in 1..m : f[k] \in kept /\ rank[f[k]] = k - 1
  <2> SUFFICES ASSUME NEW k \in 1..m PROVE f[k] \in kept /\ rank[f[k]] = k - 1
    OBVIOUS
  <2>1. k - 1 \in 0..m - 1
    BY <1>2
  <2>2. \E i \in kept : rank[i] = k - 1
    BY <1>6, <2>1
  <2> QED BY <2>2
<1> HIDE DEF f
<1>8. \A i \in kept : \E k \in 1..m : f[k] = i
  <2> SUFFICES ASSUME NEW i \in kept PROVE \E k \in 1..m : f[k] = i
    OBVIOUS
  <2>1. PICK k \in 1..m : rank[i] = k - 1
    <3>1. rank[i] \in 0..m - 1
      BY <1>6
    <3>2. rank[i] + 1 \in 1..m /\ rank[i] = (rank[i] + 1) - 1
      BY <1>2, <3>1
    <3> QED BY <3>2
  <2>2. f[k] = i
    BY <1>6, <1>7, <2>1
  <2> QED BY <2>2
<1>9. \A k, l \in 1..m : f[k] = f[l] => k = l
  <2>1. \A k, l \in 1..m : k - 1 = l - 1 => k = l
    BY <1>2
  <2> QED BY <1>7, <2>1
<1>10. DOMAIN new = 1..m /\ \A k \in 1..m : new[k] = ps[f[k]] /\ f[k] \in DOMAIN ps
  BY <1>1, <1>7
<1>11. new = [k \in 1..m |-> new[k]]
  OBVIOUS
<1> HIDE DEF new
<1>12. f \in [1..m -> DOMAIN ps]
  BY <1>1, <1>7 DEF f
<1>13. Places(f, ps, new)
  BY <1>9, <1>10, <1>12 DEF Places
<1>14. new \in List
  BY <1>2, <1>10, <1>11, <1>13, PlacesList
<1>15. \A i \in DOMAIN ps : i \in kept <=> \E k \in DOMAIN new : f[k] = i
  BY <1>7, <1>8, <1>10
<1> QED BY <1>5, <1>13, <1>14, <1>15 DEF kept

\* Of the domain of a pattern, at most as many as the cap are kept; when the
\* pattern goes, they are that many and outrank it.
LEMMA DomainCap ==
  ASSUME NEW ps \in List, NEW i \in DOMAIN ps
  PROVE  LET K == {j \in Kept(ps) : SameDomain(ps[j], ps[i])}
         IN  /\ Cardinality(K) <= MAX_PATTERNS_PER_DOMAIN
             /\ i \notin Kept(ps) =>
                  /\ Cardinality(K) = MAX_PATTERNS_PER_DOMAIN
                  /\ \A j \in K : Outranks(ps, j, i)
<1> DEFINE S == {j \in DOMAIN ps : SameDomain(ps[i], ps[j])}
           R == {x \in S \X S : Outranks(ps, x[1], x[2])}
           rank == [j \in S |-> Cardinality({k \in S : <<k, j>> \in R})]
           K == {j \in Kept(ps) : SameDomain(ps[j], ps[i])}
           first == {j \in S : rank[j] < MAX_PATTERNS_PER_DOMAIN}
<1>1. ps \in Seq(Record) /\ i \in S /\ S \in SUBSET (DOMAIN ps)
  BY DEF List, SameDomain
<1>2. IsFiniteSet(S) /\ Cardinality(S) \in Nat
  BY <1>1, PositionsCount
<1>3. \A j, k \in S : <<j, k>> \in R <=> Outranks(ps, j, k)
  OBVIOUS
<1>4. \A j \in S : rank[j] = Rank(ps, j)
  <2> SUFFICES ASSUME NEW j \in S PROVE rank[j] = Rank(ps, j)
    OBVIOUS
  <2>1. \A k \in DOMAIN ps : k \in S <=> SameDomain(ps[j], ps[k])
    BY DEF SameDomain
  <2>2. {k \in S : <<k, j>> \in R} = {k \in DOMAIN ps : SameDomain(ps[j], ps[k]) /\ Outranks(ps, k, j)}
    BY <1>3, <2>1
  <2> HIDE DEF R, S
  <2> QED BY <2>2 DEF Rank
<1>5. rank \in Bijection(S, 0..Cardinality(S) - 1)
      /\ \A j, k \in S : <<j, k>> \in R <=> rank[j] < rank[k]
  <2>1. /\ \A j, k \in S : j # k => <<j, k>> \in R \/ <<k, j>> \in R
        /\ \A j \in S : <<j, j>> \notin R
        /\ \A j, k, l \in S : <<j, k>> \in R /\ <<k, l>> \in R => <<j, l>> \in R
    <3> HIDE DEF R, S
    <3> QED BY <1>1, <1>3, OutranksOrder
  <2> HIDE DEF R, S
  <2> QED BY <1>2, <2>1, RankBijection
<1> HIDE DEF rank, R
<1>6. K = first /\ (i \notin Kept(ps) <=> ~(rank[i] < MAX_PATTERNS_PER_DOMAIN))
  BY <1>1, <1>4 DEF Kept, SameDomain
<1> HIDE DEF S
<1>7. MAX_PATTERNS_PER_DOMAIN \in Nat /\ rank \in [S -> 0..Cardinality(S) - 1]
  BY <1>5, CapAssumption DEF Bijection, Injection
<1>8. /\ Cardinality(first) <= MAX_PATTERNS_PER_DOMAIN
      /\ (\E j \in S : rank[j] >= MAX_PATTERNS_PER_DOMAIN) =>
           Cardinality(first) = MAX_PATTERNS_PER_DOMAIN
  BY <1>2, <1>5, <1>7, FirstRanked
<1>9. ASSUME i \notin Kept(ps)
      PROVE  Cardinality(first) = MAX_PATTERNS_PER_DOMAIN /\ \A j \in first : Outranks(ps, j, i)
  <2>1. rank[i] \in Nat /\ rank[i] >= MAX_PATTERNS_PER_DOMAIN
    BY <1>1, <1>6, <1>7, <1>9
  <2>2. \A j \in first : j \in S /\ rank[j] < rank[i]
    BY <1>7, <2>1
  <2>3. \A j \in first : Outranks(ps, j, i)
    BY <1>1, <1>3, <1>5, <2>2
  <2> QED BY <1>1, <1>8, <2>1, <2>3
<1> HIDE DEF K, first
<1>10. /\ Cardinality(K) <= MAX_PATTERNS_PER_DOMAIN
       /\ i \notin Kept(ps) =>
            /\ Cardinality(K) = MAX_PATTERNS_PER_DOMAIN
            /\ \A j \in K : Outranks(ps, j, i)
  BY <1>6, <1>8, <1>9
<1> QED BY <1>10 DEF K

\* What the evictions may drop from a list, and what they must.
SoundlyEvicted(all, kept) ==
  LET OfDomain(r) == {k \in DOMAIN kept : SameDomain(kept[k], r)}
      Heavier(r) == {k \in OfDomain(r) : WeightOr(kept[k], 0) >= WeightOr(r, 0)}
  IN \E place \in Injection(DOMAIN kept, DOMAIN all) :
       /\ \A k \in DOMAIN kept :
            /\ kept[k] = all[place[k]] /\ ~PoorlyUsed(kept[k])
            /\ Cardinality(OfDomain(kept[k])) <= MAX_PATTERNS_PER_DOMAIN
       /\ \A i \in DOMAIN all \ Range(place) :
            PoorlyUsed(all[i]) \/ Cardinality(Heavier(all[i])) = MAX_PATTERNS_PER_DOMAIN

\* What a stop hook makes of a coherent list is coherent and soundly evicted.
LEMMA WrittenList ==
  ASSUME NEW ps \in List, NEW in \in Input, NEW day \in Nat, ~DecayRaises(ps, day)
  PROVE  /\ WriteSessionPatterns(ps, in, day) \in List
         /\ SoundlyEvicted(Learned(ps, in, day), WriteSessionPatterns(ps, in, day))
<1>1. PICK all \in List : all = Learned(ps, in, day)
  BY LearnedList DEF FullList
<1>2. PICK used \in List : used = EvictLowUtilization(all)
  BY WellUsedList
<1>3. PICK kept \in List : kept = EvictOverflow(used)
  BY OverflowList
<1>4. kept = WriteSessionPatterns(ps, in, day)
  BY <1>1, <1>2, <1>3 DEF WriteSessionPatterns
<1>5. PICK a : /\ Places(a, all, used)
               /\ \A i \in DOMAIN all : ~PoorlyUsed(all[i]) <=> \E k \in DOMAIN used : a[k] = i
  BY <1>2, WellUsedList
<1>6. PICK b : /\ Places(b, used, kept)
               /\ \A i \in DOMAIN used : i \in Kept(used) <=> \E k \in DOMAIN kept : b[k] = i
  BY <1>3, OverflowList
<1> DEFINE K(i) == {j \in Kept(used) : SameDomain(used[j], used[i])}
           OfDomain(r) == {k \in DOMAIN kept : SameDomain(kept[k], r)}
           Heavier(r) == {k \in OfDomain(r) : WeightOr(kept[k], 0) >= WeightOr(r, 0)}
           place == [k \in DOMAIN kept |-> a[b[k]]]
<1>7. /\ a \in [DOMAIN used -> DOMAIN all] /\ b \in [DOMAIN kept -> DOMAIN used]
      /\ \A k, l \in DOMAIN used : a[k] = a[l] => k = l
      /\ \A k, l \in DOMAIN kept : b[k] = b[l] => k = l
      /\ \A k \in DOMAIN used : used[k] = all[a[k]]
      /\ \A k \in DOMAIN kept : kept[k] = used[b[k]] /\ b[k] \in Kept(used)
  BY <1>5, <1>6 DEF Places
<1>8. ASSUME NEW i \in DOMAIN used
      PROVE  Cardinality(OfDomain(used[i])) = Cardinality(K(i))
  <2>1. PICK D : D = OfDomain(used[i])
    OBVIOUS
  <2>2. PICK E : E = K(i)
    OBVIOUS
  <2>3. /\ \A k : k \in D <=> k \in DOMAIN kept /\ SameDomain(kept[k], used[i])
        /\ \A j : j \in E <=> j \in Kept(used) /\ SameDomain(used[j], used[i])
    BY <2>1, <2>2
  <2>4. Kept(used) \subseteq DOMAIN used
    BY DEF Kept
  <2> DEFINE f == [k \in D |-> b[k]]
  <2>5. f \in [D -> E] /\ \A k, l \in D : f[k] = f[l] => k = l
    BY <1>7, <2>3
  <2>6. \A j \in E : \E k \in D : f[k] = j
    <3> SUFFICES ASSUME NEW j \in E PROVE \E k \in D : f[k] = j
      OBVIOUS
    <3>1. j \in DOMAIN used /\ j \in Kept(used)
      BY <2>3, <2>4
    <3>2. PICK k \in DOMAIN kept : b[k] = j
      BY <1>6, <3>1
    <3>3. k \in D
      BY <1>7, <2>3, <3>2
    <3> QED BY <3>2, <3>3
  <2> HIDE DEF f
  <2>7. f \in Bijection(D, E)
    BY <2>5, <2>6, Fun_IsInj, Fun_IsSurj DEF Bijection
  <2>8. IsFiniteSet(E)
    <3>1. E \in SUBSET (DOMAIN used) /\ used \in Seq(Record)
      BY <2>3, <2>4 DEF List
    <3> QED BY <3>1, PositionsCount
  <2>9. ExistsBijection(D, E)
    BY <2>7 DEF ExistsBijection
  <2>10. IsFiniteSet(D)
    <3>1. D \in SUBSET (DOMAIN kept) /\ kept \in Seq(Record)
      BY <2>3 DEF List
    <3> QED BY <3>1, PositionsCount
  <2>11. Cardinality(D) = Cardinality(E)
    BY <2>8, <2>9, <2>10, FS_Bijection
  <2> QED BY <2>1, <2>2, <2>11
<1>9. ASSUME NEW k \in DOMAIN kept
      PROVE  /\ kept[k] = all[place[k]] /\ ~PoorlyUsed(kept[k])
             /\ Cardinality(OfDomain(kept[k])) <= MAX_PATTERNS_PER_DOMAIN
  <2>1. PICK i \in DOMAIN used : i = b[k]
    BY <1>7
  <2>2. kept[k] = used[i] /\ used[i] = all[a[i]] /\ a[i] \in DOMAIN all
    BY <1>7, <2>1
  <2>3. ~PoorlyUsed(all[a[i]])
    BY <1>5, <2>2
  <2>4. Cardinality(K(i)) <= MAX_PATTERNS_PER_DOMAIN
    BY DomainCap
  <2>5. Cardinality(OfDomain(used[i])) <= MAX_PATTERNS_PER_DOMAIN
    BY <1>8, <2>4
  <2>6. place[k] = a[i]
    BY <2>1
  <2> HIDE DEF OfDomain, place
  <2> QED BY <2>2, <2>3, <2>5, <2>6
<1>10. place \in Injection(DOMAIN kept, DOMAIN all)
  <2>1. place \in [DOMAIN kept -> DOMAIN all] /\ \A k, l \in DOMAIN kept : place[k] = place[l] => k = l
    BY <1>7
  <2> HIDE DEF place
  <2> QED BY <2>1, Fun_IsInj
<1>11. ASSUME NEW i \in DOMAIN all \ Range(place), ~PoorlyUsed(all[i])
       PROVE  Cardinality(Heavier(all[i])) = MAX_PATTERNS_PER_DOMAIN
  <2>1. PICK j \in DOMAIN used : a[j] = i
    BY <1>5, <1>11
  <2>2. used[j] = all[i]
    BY <1>7, <2>1
  <2>3. j \notin Kept(used)
    <3> SUFFICES ASSUME j \in Kept(used) PROVE FALSE
      OBVIOUS
    <3>1. PICK k \in DOMAIN kept : b[k] = j
      BY <1>6
    <3>2. place[k] = i /\ k \in DOMAIN place
      BY <2>1, <3>1
    <3> QED BY <1>11, <3>2 DEF Range
  <2>4. Cardinality(K(j)) = MAX_PATTERNS_PER_DOMAIN /\ \A l \in K(j) : Outranks(used, l, j)
    BY <2>3, DomainCap
  <2>5. \A l \in K(j) : WeightOr(used[l], 0) >= WeightOr(used[j], 0)
    <3>1. \A l \in DOMAIN used : WeightOr(used[l], 0) \in Int
      <4>1. \A l \in DOMAIN used : used[l] \in Record
        BY DEF List
      <4> QED BY <4>1, WeightOrInt
    <3>2. \A l \in K(j) : l \in DOMAIN used
      BY DEF Kept
    <3> QED BY <2>4, <3>1, <3>2 DEF Outranks
  <2>6. \A k \in OfDomain(used[j]) : WeightOr(kept[k], 0) >= WeightOr(used[j], 0)
    <3> SUFFICES ASSUME NEW k \in OfDomain(used[j])
                 PROVE  WeightOr(kept[k], 0) >= WeightOr(used[j], 0)
      OBVIOUS
    <3>1. k \in DOMAIN kept /\ SameDomain(kept[k], used[j])
      OBVIOUS
    <3>2. kept[k] = used[b[k]] /\ b[k] \in K(j)
      BY <1>7, <3>1
    <3> QED BY <2>5, <3>2
  <2>7. Heavier(all[i]) = OfDomain(used[j])
    BY <2>2, <2>6
  <2>8. Cardinality(OfDomain(used[j])) = MAX_PATTERNS_PER_DOMAIN
    BY <1>8, <2>4
  <2> HIDE DEF Heavier, OfDomain
  <2> QED BY <2>7, <2>8
<1>12. SoundlyEvicted(all, kept)
  <2>1. /\ \A k \in DOMAIN kept :
             /\ kept[k] = all[place[k]] /\ ~PoorlyUsed(kept[k])
             /\ Cardinality(OfDomain(kept[k])) <= MAX_PATTERNS_PER_DOMAIN
        /\ \A i \in DOMAIN all \ Range(place) :
             PoorlyUsed(all[i]) \/ Cardinality(Heavier(all[i])) = MAX_PATTERNS_PER_DOMAIN
    BY <1>9, <1>11
  <2> HIDE DEF place
  <2> QED BY <1>10, <2>1, Zenon DEF SoundlyEvicted
<1> QED BY <1>1, <1>3, <1>4, <1>12

-----------------------------------------------------------------------------
(* The store *)

\* A stop hook that is to save has got through the decay.
PastDecay(p) == pc[p] \in {"save", "replace"} => ~DecayRaises(loaded[p], at[p])

\* The file, and each copy of it, is a coherent list.
ListsOK ==
  /\ TypeOK
  /\ store \in List
  /\ loaded \in [Process -> List]
  /\ \A p \in Stop : PastDecay(p)

LEMMA EmptyList == <<>> \in List
BY DEF List, Credited, Distinct

LEMMA ProcessApart == ASSUME NEW p \in Stop, NEW q \in Sync PROVE p # q
BY ProcessAssumption

LEMMA InputsAreInputs == Inputs \cup {NoInput} \subseteq Input
<1>1. [id \in Pattern |-> 0] \in [Pattern -> Nat] /\ <<>> \in Seq(Key)
  OBVIOUS
<1>2. NoInput \in Input
  BY <1>1 DEF Input, NoInput
<1>3. \A in \in Inputs : in \in Input
  BY InputsAssumption DEF Input
<1> QED BY <1>2, <1>3

LEMMA AppliedList ==
  ASSUME ListsOK, NEW p \in Process, NEW ps \in List, p \in Stop => ~DecayRaises(ps, at[p])
  PROVE  Applied(p, ps) \in List
<1>1. input[p] \in Input /\ at[p] \in Nat
  BY InputsAreInputs, ClockAssumption DEF ListsOK, TypeOK
<1>2. remote[p] \in Seq(Record) /\ Credited(remote[p]) /\ \A i \in DOMAIN remote[p] : Known(remote[p][i])
  <2>1. remote[p] \in RemoteLists \cup {<<>>}
    BY DEF ListsOK, TypeOK
  <2>2. <<>> \in Seq(Record) /\ Credited(<<>>) /\ DOMAIN <<>> = {}
    BY EmptyList DEF List
  <2> QED BY <2>1, <2>2, ServiceAssumption, ForeignKnown
<1>3. CASE p \in Stop
  BY <1>1, <1>3, WrittenList DEF Applied, Updated, Intent
<1>4. CASE p \notin Stop
  BY <1>2, <1>4, MergedList DEF Applied, Updated, Intent
<1> QED BY <1>3, <1>4

LEMMA InitLists == Init => ListsOK
<1> SUFFICES ASSUME Init PROVE ListsOK
  OBVIOUS
<1>1. store \in List
  BY InitialAssumption, ForeignKnown DEF Init, List
<1>2. loaded \in [Process -> List]
  BY EmptyList DEF Init
<1>3. TypeOK
  <2>1. now \in 0..MaxDay /\ at \in [Process -> 0..MaxDay]
    BY ClockAssumption DEF Init
  <2>2. version \in Nat /\ base \in [Process -> {Unread} \cup 0..version]
    BY DEF Init
  <2>3. input \in [Process -> Inputs \cup {NoInput}] /\ remote \in [Process -> RemoteLists \cup {<<>>}]
    BY DEF Init
  <2>4. /\ torn \in BOOLEAN /\ overlapped \in BOOLEAN
        /\ pc \in [Process -> {"idle", "fetch", "save", "replace", "done"}]
    BY DEF Init
  <2> QED BY <1>1, <2>1, <2>2, <2>3, <2>4 DEF TypeOK, List
<1>4. \A p \in Process : pc[p] = "idle"
  BY DEF Init
<1> QED BY <1>1, <1>2, <1>3, <1>4 DEF ListsOK, PastDecay, Process

\* A process reads the file.
LEMMA ReadKeepsLists ==
  ASSUME ListsOK, NEW p \in Process, ReadFile(p)
  PROVE  loaded' \in [Process -> List] /\ at' \in [Process -> 0..MaxDay] /\ base' \in [Process -> {Unread} \cup 0..version]
<1>1. OnDisk \in List /\ <<>> \in List
  BY EmptyList DEF OnDisk, ListsOK
<1>2. now \in 0..MaxDay /\ version \in 0..version
  BY DEF ListsOK, TypeOK
<1> QED BY <1>1, <1>2 DEF ReadFile, ListsOK, TypeOK

\* A process that is not to save, or that goes on with what it has.
LEMMA DecayStep ==
  ASSUME ListsOK, NEW p \in Process, NEW from, NEW to, Goto(p, from, to),
         \A q \in Process \ {p} : loaded'[q] = loaded[q] /\ at'[q] = at[q],
         \/ p \in Sync
         \/ to \notin {"save", "replace"}
         \/ from = "save" /\ loaded'[p] = loaded[p] /\ at'[p] = at[p]
  PROVE  \A q \in Stop : PastDecay(q)'
<1> SUFFICES ASSUME NEW q \in Stop PROVE PastDecay(q)'
  OBVIOUS
<1>1. q \in Process /\ PastDecay(q) /\ (p \in Sync => q # p)
  BY ProcessAssumption DEF ListsOK, Process
<1>2. pc' = [pc EXCEPT ![p] = to] /\ pc[p] = from /\ pc \in [Process -> {"idle", "fetch", "save", "replace", "done"}]
  BY DEF Goto, ListsOK, TypeOK
<1>3. CASE q # p
  <2>1. pc'[q] = pc[q] /\ loaded'[q] = loaded[q] /\ at'[q] = at[q]
    BY <1>1, <1>2, <1>3
  <2> QED BY <1>1, <2>1 DEF PastDecay, DecayRaises
<1>4. CASE q = p /\ to \notin {"save", "replace"}
  BY <1>2, <1>4 DEF PastDecay
<1>5. CASE q = p /\ from = "save" /\ loaded'[p] = loaded[p] /\ at'[p] = at[p]
  BY <1>1, <1>2, <1>5 DEF PastDecay, DecayRaises
<1> QED BY <1>1, <1>3, <1>4, <1>5

\* Every step keeps the lists coherent.
LEMMA NextKeepsLists == ListsOK /\ [Next]_vars => ListsOK'
<1> SUFFICES ASSUME ListsOK, [Next]_vars PROVE ListsOK'
  OBVIOUS
<1> DEFINE Pcs == {"idle", "fetch", "save", "replace", "done"}
           Held1 == loaded' \in [Process -> List] /\ at' \in [Process -> 0..MaxDay]
                    /\ base' \in [Process -> {Unread} \cup 0..version]
<1>1. ASSUME NEW p \in Stop, Learn(p) PROVE ListsOK'
  <2>1. p \in Process /\ ReadFile(p) /\ FileUnchanged /\ UNCHANGED <<now, remote>>
    BY <1>1 DEF Learn, Process
  <2>2. Held1
    BY <2>1, ReadKeepsLists
  <2>3. input' \in [Process -> Inputs \cup {NoInput}]
    BY <1>1 DEF Learn, ListsOK, TypeOK
  <2>4. pc' \in [Process -> Pcs]
    BY <1>1 DEF Learn, Goto, ListsOK, TypeOK
  <2>5. \A q \in Process \ {p} : loaded'[q] = loaded[q] /\ at'[q] = at[q]
    BY <2>1 DEF ReadFile, ListsOK, TypeOK
  <2>6. \A q \in Stop : PastDecay(q)'
    <3>1. CASE Goto(p, "idle", "done")
      BY <2>1, <2>5, <3>1, DecayStep
    <3>2. CASE Goto(p, "idle", "save") /\ ~DecayRaises(loaded'[p], now)
      <4> SUFFICES ASSUME NEW q \in Stop PROVE PastDecay(q)'
        OBVIOUS
      <4>1. q \in Process /\ PastDecay(q)
        BY DEF ListsOK, Process
      <4>2. CASE q = p
        <5>1. at'[p] = now
          BY <2>1 DEF ReadFile, ListsOK, TypeOK
        <5> QED BY <3>2, <4>2, <5>1 DEF PastDecay, DecayRaises
      <4>3. CASE q # p
        <5>1. pc'[q] = pc[q]
          BY <3>2, <4>1, <4>3 DEF Goto, ListsOK, TypeOK
        <5> QED BY <2>5, <4>1, <4>3, <5>1 DEF PastDecay, DecayRaises
      <4> QED BY <4>2, <4>3
    <3> QED BY <1>1, <3>1, <3>2 DEF Learn
  <2> QED BY <2>1, <2>2, <2>3, <2>4, <2>6 DEF ListsOK, TypeOK, FileUnchanged
<1>2. ASSUME NEW p \in Sync, ReadLocal(p) PROVE ListsOK'
  <2>1. p \in Process /\ FileUnchanged /\ UNCHANGED <<now, input, remote>>
    BY <1>2 DEF ReadLocal, Process
  <2>2. pc' \in [Process -> Pcs]
    BY <1>2 DEF ReadLocal, Goto, ListsOK, TypeOK
  <2>3. CASE Goto(p, "idle", "done") /\ UNCHANGED <<loaded, at, base>>
    <3>1. \A q \in Stop : PastDecay(q)'
      BY <2>1, <2>3, DecayStep
    <3> QED BY <2>1, <2>2, <2>3, <3>1 DEF ListsOK, TypeOK, FileUnchanged
  <2>4. CASE Goto(p, "idle", "fetch") /\ ReadFile(p)
    <3>1. Held1
      BY <2>1, <2>4, ReadKeepsLists
    <3>2. \A q \in Process \ {p} : loaded'[q] = loaded[q] /\ at'[q] = at[q]
      BY <2>1, <2>4 DEF ReadFile, ListsOK, TypeOK
    <3>3. \A q \in Stop : PastDecay(q)'
      BY <2>1, <2>4, <3>2, DecayStep
    <3> QED BY <2>1, <2>2, <3>1, <3>3 DEF ListsOK, TypeOK, FileUnchanged
  <2> QED BY <1>2, <2>3, <2>4 DEF ReadLocal
<1>3. ASSUME NEW p \in Sync, Fetch(p) PROVE ListsOK'
  <2>1. p \in Process /\ FileUnchanged /\ UNCHANGED <<now, loaded, input, at, base>>
    BY <1>3 DEF Fetch, Process
  <2>2. pc' \in [Process -> Pcs]
    BY <1>3 DEF Fetch, Goto, ListsOK, TypeOK
  <2>3. remote' \in [Process -> RemoteLists \cup {<<>>}]
    BY <1>3 DEF Fetch, ListsOK, TypeOK
  <2>4. Goto(p, "fetch", "done") \/ Goto(p, "fetch", "save")
    BY <1>3 DEF Fetch
  <2>5. \A q \in Stop : PastDecay(q)'
    BY <2>1, <2>4, DecayStep
  <2> QED BY <2>1, <2>2, <2>3, <2>5 DEF ListsOK, TypeOK, FileUnchanged
<1>4. ASSUME NEW p \in Process, WriteTmp(p) \/ Kill(p) PROVE ListsOK'
  <2>1. FileUnchanged /\ UNCHANGED <<now, own>>
    BY <1>4 DEF WriteTmp, Kill
  <2>2. pc' \in [Process -> Pcs]
    BY <1>4 DEF WriteTmp, Kill, Goto, ListsOK, TypeOK
  <2>3. Goto(p, "save", "replace") \/ Goto(p, "save", "done") \/ Goto(p, pc[p], "done")
    BY <1>4 DEF WriteTmp, Kill, Goto
  <2>4. \A q \in Stop : PastDecay(q)'
    BY <2>1, <2>3, DecayStep DEF own
  <2> QED BY <2>1, <2>2, <2>4 DEF own, ListsOK, TypeOK, FileUnchanged
<1>5. ASSUME NEW p \in Process, Replace(p) PROVE ListsOK'
  <2>0. pc[p] = "replace"
    BY <1>5 DEF Replace, Goto
  <2>1. loaded[p] \in List /\ (p \in Stop => ~DecayRaises(loaded[p], at[p]))
    BY <2>0 DEF ListsOK, PastDecay
  <2>2. store' \in List
    BY <1>5, <2>1, AppliedList DEF Replace
  <2>3. pc' \in [Process -> Pcs]
    BY <1>5 DEF Replace, Goto, ListsOK, TypeOK
  <2>4. version' \in Nat /\ base' \in [Process -> {Unread} \cup 0..version']
    <3>1. version \in Nat /\ {Unread} \cup 0..version \subseteq {Unread} \cup 0..version + 1
      BY DEF ListsOK, TypeOK
    <3> QED BY <1>5, <3>1 DEF Replace, own, ListsOK, TypeOK
  <2>5. torn' \in BOOLEAN /\ overlapped' \in BOOLEAN
    BY <1>5 DEF Replace
  <2>6. UNCHANGED <<now, own>>
    BY <1>5 DEF Replace
  <2>7. \A q \in Stop : PastDecay(q)'
    BY <1>5, <2>6, DecayStep DEF Replace, own
  <2> QED BY <2>2, <2>3, <2>4, <2>5, <2>6, <2>7 DEF own, ListsOK, TypeOK, List
<1>6. CASE Tick
  <2>1. now' \in 0..MaxDay
    BY <1>6, ClockAssumption DEF Tick, ListsOK, TypeOK
  <2>2. UNCHANGED <<pc, loaded, at>>
    BY <1>6 DEF Tick, own
  <2>3. \A q \in Stop : PastDecay(q)'
    BY <2>2 DEF ListsOK, PastDecay, DecayRaises
  <2> QED BY <1>6, <2>1, <2>3 DEF Tick, own, ListsOK, TypeOK, FileUnchanged
<1>7. CASE UNCHANGED vars
  <2>1. UNCHANGED <<pc, loaded, at>>
    BY <1>7 DEF vars, own
  <2>2. \A q \in Stop : PastDecay(q)'
    BY <2>1 DEF ListsOK, PastDecay, DecayRaises
  <2> QED BY <1>7, <2>2 DEF vars, own, ListsOK, TypeOK
<1> QED BY <1>1, <1>2, <1>3, <1>4, <1>5, <1>6, <1>7 DEF Next

\* The state of learned_patterns.json and of the processes that share it is well
\* typed: a record in the file has all its fields, each in its range; its weight may be
\* missing, or as far beyond the floor and the cap as the service sends them.
THEOREM StoreTypesTheorem == Spec => []TypeOK
<1>1. ListsOK => TypeOK
  BY DEF ListsOK
<1> QED BY <1>1, InitLists, NextKeepsLists, PTL DEF Spec

\* Whatever stop hooks learn and syncs merge, in whatever order they save and
\* whatever they fail to read, no pattern has more successes than injections and no
\* two in the file are the same, but for those whose id is ambiguous since a record
\* of the service, or of the first file, lacks the id or has that of another key.
THEOREM CoherentTheorem == Spec => []RecordsCoherent
<1>1. ListsOK => RecordsCoherent
  BY DEF ListsOK, List, RecordsCoherent
<1> QED BY <1>1, InitLists, NextKeepsLists, PTL DEF Spec

\* A stop hook drops a pattern only for being poorly used, or because its domain
\* is full of patterns as heavy, and what it saves respects both limits.
THEOREM EvictionTheorem == Spec => []EvictionSound
<1>1. ListsOK => EvictionSound
  <2> SUFFICES ASSUME ListsOK, NEW p \in Stop, pc[p] \in {"save", "replace"}
               PROVE  SoundlyEvicted(Learned(loaded[p], input[p], at[p]), Applied(p, loaded[p]))
    BY Zenon DEF EvictionSound, SoundlyEvicted
  <2>1. p \in Process
    BY DEF Process
  <2>2. loaded[p] \in List /\ input[p] \in Input /\ at[p] \in Nat
    BY <2>1, InputsAreInputs, ClockAssumption DEF ListsOK, TypeOK
  <2>3. Applied(p, loaded[p]) = WriteSessionPatterns(loaded[p], input[p], at[p])
    BY DEF Applied, Updated, Intent
  <2>4. ~DecayRaises(loaded[p], at[p])
    BY DEF ListsOK, PastDecay
  <2> QED BY <2>2, <2>3, <2>4, WrittenList
<1> QED BY <1>1, InitLists, NextKeepsLists, PTL DEF Spec

=============================================================================
