---------------------------- MODULE PatternStore ----------------------------
(***************************************************************************)
(* The file learned_patterns.json as the processes that share it use it:   *)
(* stop hooks that learn (pattern_writer.write_session_patterns) and       *)
(* session-start hooks that merge the patterns of the intelligence service *)
(* (sync/pattern_sync.run).  Each loads the file, works on its copy, writes *)
(* a temporary file and renames it over the old one.  There is no lock.    *)
(***************************************************************************)
EXTENDS PatternWriter

CONSTANTS
  Stop,          \* stop hooks, each one process
  Sync,          \* pattern syncs, each within one session-start hook
  Inputs,        \* what a stop hook may learn from (see PatternWriter)
  RemoteLists,   \* lists the service may answer with
  InitialLists,  \* lists the file may hold at first
  LeastWeight,   \* bounds on the weights that the service sends
  MostWeight,
  DayStep,       \* days between two ticks of the clock
  MaxDay,        \* bound on the clock
  Killable,      \* may a hook be killed between two steps?
  ReadsFail      \* may a reading of the file fail?

Weight == LeastWeight..MostWeight
Record == [key : Key, pattern_id : Pattern \cup {NoId}, weight : Weight \cup {NoWeight},
           injection_count : Nat, utilization_successes : Nat, last_seen : Int]

\* _pattern_identity: the id, or else the whole record.
SameIdentity(r, q) == r = q \/ (r.pattern_id # NoId /\ r.pattern_id = q.pattern_id)

\* The ids that may come to stand for two patterns: someone else has left out the id that
\* goes with a key, or given it to a pattern with another key.
MisusesId(r, k) == IF r.key = k THEN r.pattern_id = NoId ELSE r.pattern_id = IdOf[k]
Foreign == UNION {ToSet(list) : list \in RemoteLists \cup InitialLists}
Ambiguous == {IdOf[k] : k \in {l \in Key : \E r \in Foreign : MisusesId(r, l)}}

\* No pattern is credited with more successes than injections; no two of a list are the
\* same, but for those with an ambiguous id.
Credited(list) == \A i \in DOMAIN list : list[i].utilization_successes <= list[i].injection_count
Distinct(list) ==
  \A i, j \in DOMAIN list :
    SameIdentity(list[i], list[j]) => i = j \/ list[i].pattern_id \in Ambiguous

ASSUME InputsAssumption ==
  \A in \in Inputs : in \in [shown : [Pattern -> Nat], success : BOOLEAN, learned : Seq(Key)]
ASSUME InitialAssumption ==
  \A list \in InitialLists : list \in Seq(Record) /\ Credited(list) /\ Distinct(list)
\* Of the service: its counts make sense.  It may list a pattern twice, leave out ids and
\* weights, and send weights beyond the floor and the cap.
ASSUME ServiceAssumption == \A list \in RemoteLists : list \in Seq(Record) /\ Credited(list)
ASSUME WeightAssumption ==
  /\ LeastWeight \in Int /\ LeastWeight <= WEIGHT_FLOOR
  /\ MostWeight \in Int /\ MostWeight >= WEIGHT_CAP
ASSUME ProcessAssumption == Stop \cap Sync = {}
ASSUME ClockAssumption == DayStep \in Nat \ {0} /\ MaxDay \in Nat

VARIABLES
  store,       \* the patterns in the file; <<>> also stands for no file
  torn,        \* does the file fail to parse?
  now,         \* the day
  pc,          \* where each process is
  loaded,      \* the list it has read
  input,       \* what it learns from, for a stop hook
  at,          \* the day it has read it
  remote,      \* the list the service answered, for a sync
  base,        \* the version of the file it has read, or Unread
  version,     \* how often the file was replaced
  ledger,      \* every update so far, each applied to the result of the ones before;
               \* nothing once updates have overlapped
  overlapped   \* did a process ever replace a version that it had not read?

own == <<loaded, input, at, remote, base>>
vars == <<store, torn, now, pc, own, version, ledger, overlapped>>

Process == Stop \cup Sync
Unread == -1  \* the version of a process whose reading failed
NoInput == [shown |-> [id \in Pattern |-> 0], success |-> FALSE, learned |-> <<>>]

Init ==
  /\ store \in InitialLists
  /\ torn = FALSE
  /\ now = 0
  /\ pc = [p \in Process |-> "idle"]
  /\ loaded = [p \in Process |-> <<>>]
  /\ input = [p \in Process |-> NoInput]
  /\ at = [p \in Process |-> 0]
  /\ remote = [p \in Process |-> <<>>]
  /\ base = [p \in Process |-> 0]
  /\ version = 0
  /\ ledger = store
  /\ overlapped = FALSE

Goto(p, from, to) ==
  /\ pc[p] = from
  /\ pc' = [pc EXCEPT ![p] = to]

FileUnchanged == UNCHANGED <<store, torn, version, ledger, overlapped>>

\* A file that does not parse reads as no patterns.
OnDisk == IF torn THEN <<>> ELSE store

\* Mutant of MergePatterns: the identities are not compared.
MergeAppends(local, other) == local \o other

\* _merge_patterns: the local list, then each pattern of the other one whose identity
\* has not been met.
MergePatterns(local, other) ==
  FoldLeft(LAMBDA merged, r :
             IF \E i \in DOMAIN merged : SameIdentity(merged[i], r) THEN merged
             ELSE Append(merged, r),
           local, other)

\* What process p makes of a list, given what it has to add.
Updated(p, patterns, with) ==
  IF p \in Stop THEN WriteSessionPatterns(patterns, with.input, with.at)
                ELSE MergePatterns(patterns, with.remote)
Intent(p) == [input |-> input[p], at |-> at[p], remote |-> remote[p]]
Applied(p, patterns) == Updated(p, patterns, Intent(p))

\* An OSError is taken for a file without patterns.
ReadFile(p) ==
  /\ at' = [at EXCEPT ![p] = now]
  /\ \/ /\ loaded' = [loaded EXCEPT ![p] = OnDisk]
        /\ base' = [base EXCEPT ![p] = version]
     \/ /\ ReadsFail
        /\ loaded' = [loaded EXCEPT ![p] = <<>>]
        /\ base' = [base EXCEPT ![p] = Unread]

\* A stop hook loads the file and updates its copy.  An update with nothing to
\* save, or one that raises, ends here.
Learn(p) ==
  /\ ReadFile(p)
  /\ \E in \in Inputs :
       /\ input' = [input EXCEPT ![p] = in]
       /\ IF NothingToSave(loaded'[p], in) \/ DecayRaises(loaded'[p], now)
          THEN Goto(p, "idle", "done")
          ELSE Goto(p, "idle", "save")
  /\ UNCHANGED <<now, remote>> /\ FileUnchanged

\* A sync reads the local file once the service answers its health probe ...
ReadLocal(p) ==
  /\ \/ Goto(p, "idle", "done") /\ UNCHANGED <<loaded, at, base>>
     \/ Goto(p, "idle", "fetch") /\ ReadFile(p)
  /\ UNCHANGED <<now, input, remote>> /\ FileUnchanged

\* ... and then asks for the patterns, which may take three seconds or fail.
Fetch(p) ==
  /\ \/ Goto(p, "fetch", "done") /\ UNCHANGED remote
     \/ /\ Goto(p, "fetch", "save")
        /\ \E list \in RemoteLists : remote' = [remote EXCEPT ![p] = list]
  /\ UNCHANGED <<now, loaded, input, at, base>> /\ FileUnchanged

\* Mutant of WriteTmp: the new text goes to the file itself.
WriteInPlace(p) ==
  /\ Goto(p, "save", "replace")
  /\ torn' = TRUE
  /\ UNCHANGED <<store, now, own, version, ledger, overlapped>>

\* mkstemp and write; when that fails the temporary file goes and the store stays.
WriteTmp(p) ==
  /\ \E to \in {"replace", "done"} : Goto(p, "save", to)
  /\ UNCHANGED <<now, own>> /\ FileUnchanged

\* os.replace: the file changes in one step, whatever it holds by now.
Replace(p) ==
  /\ Goto(p, "replace", "done")
  /\ store' = Applied(p, loaded[p])
  /\ torn' = FALSE
  /\ version' = version + 1
  /\ overlapped' = (overlapped \/ base[p] # version)
  /\ ledger' = IF overlapped' THEN <<>> ELSE Applied(p, ledger)
  /\ UNCHANGED <<now, own>>

Kill(p) ==
  /\ Killable
  /\ pc[p] \notin {"idle", "done"}
  /\ pc' = [pc EXCEPT ![p] = "done"]
  /\ UNCHANGED <<now, own>> /\ FileUnchanged

Tick ==
  /\ now + DayStep <= MaxDay
  /\ now' = now + DayStep
  /\ UNCHANGED <<pc, own>> /\ FileUnchanged

Next ==
  \/ \E p \in Stop : Learn(p)
  \/ \E p \in Sync : ReadLocal(p) \/ Fetch(p)
  \/ \E p \in Process : WriteTmp(p) \/ Replace(p) \/ Kill(p)
  \/ Tick

Spec == Init /\ [][Next]_vars

-----------------------------------------------------------------------------

TypeOK ==
  /\ store \in Seq(Record)
  /\ torn \in BOOLEAN
  /\ now \in 0..MaxDay
  /\ pc \in [Process -> {"idle", "fetch", "save", "replace", "done"}]
  /\ input \in [Process -> Inputs \cup {NoInput}]
  /\ at \in [Process -> 0..MaxDay]
  /\ remote \in [Process -> RemoteLists \cup {<<>>}]
  /\ version \in Nat /\ base \in [Process -> {Unread} \cup 0..version]
  /\ overlapped \in BOOLEAN

\* As long as no process replaces a version it has not read, be it that the file has
\* changed meanwhile or that its reading failed, the file is the result of every update
\* ever made, one after the other: no crash, failed write or half-written file costs a
\* pattern.
SerialSavesKeepEverything == ~overlapped => OnDisk = ledger

\* What a stop hook drops from the list it has learned is either used poorly, or its
\* domain is at the cap with patterns that are at least as heavy; what it keeps it keeps
\* once, within the cap, and is not used poorly.
EvictionSound ==
  \A p \in Stop : pc[p] \in {"save", "replace"} =>
    LET all == Learned(loaded[p], input[p], at[p])
        kept == Applied(p, loaded[p])
        OfDomain(r) == {k \in DOMAIN kept : SameDomain(kept[k], r)}
        Heavier(r) == {k \in OfDomain(r) : WeightOr(kept[k], 0) >= WeightOr(r, 0)}
    IN \E place \in Injection(DOMAIN kept, DOMAIN all) :
         /\ \A k \in DOMAIN kept :
              /\ kept[k] = all[place[k]] /\ ~PoorlyUsed(kept[k])
              /\ Cardinality(OfDomain(kept[k])) <= MAX_PATTERNS_PER_DOMAIN
         /\ \A i \in DOMAIN all \ Range(place) :
              PoorlyUsed(all[i]) \/ Cardinality(Heavier(all[i])) = MAX_PATTERNS_PER_DOMAIN

\* However stops and syncs interleave, and whatever they fail to read: no pattern is
\* credited with more successes than injections, and no two in the file are the same,
\* unless the service (or the file there was at first) has made their id ambiguous.
RecordsCoherent == Credited(store) /\ Distinct(store)

\* "Local patterns are preserved" (sync/pattern_sync.py:116): a sync that saves
\* drops no pattern that is in the file.
Keys(patterns) == {patterns[i].key : i \in DOMAIN patterns}
LocalPatternsPreserved ==
  [][\A p \in Sync : (pc[p] = "replace" /\ pc'[p] = "done" /\ store' # store)
       => Keys(store) \subseteq Keys(store')]_vars

\* Every version of the file is made by one process from one version it has read
\* in full, or from nothing when its reading failed: a reader never meets half a file,
\* and a process that is killed, fails to write or has nothing to save leaves the file
\* as it was.
Snapshots == INSTANCE SnapshotStore WITH
  Client <- Process,
  Initial <- InitialLists,
  Nothing <- <<>>,
  Update <- Updated,
  value <- OnDisk,
  copy <- loaded,
  intent <- [p \in Process |-> Intent(p)],
  phase <- [p \in Process |-> IF pc[p] \in {"idle", "done"} THEN pc[p] ELSE "holds"]

ImplementsSnapshots == Snapshots!Spec

=============================================================================
