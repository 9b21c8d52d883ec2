------------------------------ MODULE StopHook ------------------------------
(***************************************************************************)
(* The stop hook (.cursor/hooks/scripts/stop.py) and what it leaves behind *)
(* for a conversation: the session_stopped line of the log, the summary,   *)
(* the recap, the learned patterns, the outbox row and the events for the  *)
(* daemon.  Cursor fires it at the end of every agent loop, so it may run  *)
(* more than once for a conversation, while other hooks go on appending to *)
(* the log it reads.  It reads the log twice; a reading may fail, and the  *)
(* installer may purge ~/.omnicursor at any time.                          *)
(*                                                                         *)
(* The update of the patterns is one step here; PatternStore opens it up.  *)
(***************************************************************************)
EXTENDS SessionOutcome, PatternWriter

CONSTANTS
  Stop,          \* runs of the stop hook
  Conv,          \* conversations
  Templates,     \* events the other hooks log, but for conversation and time
  Statuses,      \* statuses Cursor gives a stop hook
  InitialLists,  \* lists the patterns file may hold at first
  MaxLog,        \* bound on the lines other hooks log
  TimeStep,      \* seconds between two ticks
  MaxTime,       \* bound on the clock
  MaxMishaps     \* bound on the kills, purges, failed readings and failed writes

ASSUME StopAssumption == None \notin Stop \cup Conv \cup Key
ASSUME TimeAssumption == TimeStep \in Nat \ {0} /\ MaxTime \in Nat
ASSUME MishapAssumption == MaxMishaps \in Nat

VARIABLES
  log,       \* every line ever written to events.jsonl
  gone,      \* how many of them went with a purge
  clock,
  patterns,  \* learned_patterns.json
  outbox,    \* outbox.jsonl
  summaries, \* per conversation, the run whose summary is in its session file
  recap,     \* the run whose recap is in last-recap.md
  sent,      \* the events the daemon has taken, as <<key, run>>
  pc,        \* where each run is
  conv,      \* the conversation it was fired for
  status,    \* and the status it was given
  summary,   \* aggregate_session, from its first read of the log
  events,    \* its second read of the log
  fate,      \* what came in its way, if anything
  mixed      \* conversations two runs of which were under way at once

run == <<conv, status, summary, events>>
vars == <<log, gone, clock, patterns, outbox, summaries, recap, sent, pc, run, fate, mixed>>

NoSummary == AggregateSession("completed", <<>>)

Init ==
  /\ log = <<>>
  /\ gone = 0
  /\ clock = 0
  /\ patterns \in InitialLists
  /\ outbox = <<>>
  /\ summaries = [c \in Conv |-> None]
  /\ recap = None
  /\ sent = {}
  /\ pc = [s \in Stop |-> "idle"]
  /\ conv = [s \in Stop |-> None]
  /\ status = [s \in Stop |-> None]
  /\ summary = [s \in Stop |-> NoSummary]
  /\ events = [s \in Stop |-> <<>>]
  /\ fate = [s \in Stop |-> {}]
  /\ mixed = {}

Goto(s, from, to) ==
  /\ pc[s] = from
  /\ pc' = [pc EXCEPT ![s] = to]

\* The process ends; what it held in memory is gone.
End(s) ==
  /\ pc' = [pc EXCEPT ![s] = "done"]
  /\ summary' = [summary EXCEPT ![s] = NoSummary]
  /\ events' = [events EXCEPT ![s] = <<>>]
  /\ UNCHANGED <<conv, status>>

UnderWay(s) == pc[s] \notin {"idle", "done"}

FilesUnchanged == UNCHANGED <<patterns, outbox, summaries, recap, sent>>

Stamped(event, c) == [conversation_id |-> c, at |-> clock] @@ event

StoppedEvent ==
  [event |-> "session_stopped", lines |-> {}, file |-> None, decision |-> None,
   injected_pattern_ids |-> {}, learns |-> None]

\* log_event of a prompt, edit, shell or other hook: one line at the end.
LogEvent ==
  /\ Cardinality(DOMAIN log \ OfKind(log, "session_stopped")) < MaxLog
  /\ \E c \in Conv, event \in Templates : log' = Append(log, Stamped(event, c))
  /\ UNCHANGED <<gone, clock, pc, run, fate, mixed>> /\ FilesUnchanged

Tick ==
  /\ clock + TimeStep <= MaxTime
  /\ clock' = clock + TimeStep
  /\ UNCHANGED <<log, gone, pc, run, fate, mixed>> /\ FilesUnchanged

Start(s) ==
  /\ Goto(s, "idle", "aggregate")
  /\ \E c \in Conv :
       /\ conv' = [conv EXCEPT ![s] = c]
       /\ mixed' = IF \E r \in Stop : UnderWay(r) /\ conv[r] = c THEN mixed \cup {c} ELSE mixed
  /\ \E st \in Statuses : status' = [status EXCEPT ![s] = st]
  /\ UNCHANGED <<log, gone, clock, summary, events, fate>> /\ FilesUnchanged

\* How many there have been: a purge counts as one.
Mishaps == Cardinality({m \in Stop \X {"io", "unread", "noRow", "killed"} : m[2] \in fate[m[1]]})
             + IF gone = 0 THEN 0 ELSE 1

\* install-plugin.sh --uninstall --purge: rm -rf of ~/.omnicursor, in one step.  Whatever
\* the runs under way, and those before, have left there is gone.
Purge ==
  /\ Mishaps < MaxMishaps
  /\ gone < Len(log)
  /\ gone' = Len(log)
  /\ patterns' = <<>> /\ outbox' = <<>> /\ recap' = None
  /\ summaries' = [c \in Conv |-> None]
  /\ fate' = [s \in Stop |-> IF pc[s] = "idle" THEN fate[s] ELSE fate[s] \cup {"purged"}]
  /\ UNCHANGED <<log, clock, sent, pc, run, mixed>>

\* A kill, a failed reading or a failed write.
Mishap(s, kind) ==
  /\ Mishaps < MaxMishaps
  /\ fate' = [fate EXCEPT ![s] = @ \cup {kind}]

\* The lines of c that are in the file.
LinesOf(c) == {i \in DOMAIN log : i > gone /\ log[i].conversation_id = c}

\* Mutant of EventsOf: what was logged for other conversations comes along.
EventsOfAll(c, n) == Restrict(log, {i \in DOMAIN log : i > gone /\ i <= n})

\* Mutant of EventsOf: only what was logged since the last stop.
EventsOfLoop(c, n) ==
  LET stops == {i \in LinesOf(c) : log[i].event = "session_stopped"}
  IN Restrict(log, {i \in LinesOf(c) : i <= n /\ \A j \in stops : i > j})

\* _load_events, of a file that can be read up to its n-th line: what was logged for the
\* conversation.  The lines keep their places, so that two readings can be compared.
EventsOf(c, n) == Restrict(log, {i \in LinesOf(c) : i <= n})

\* Every line of the file is read; or an OSError ends the reading early, which
\* returns the lines before it, or none, as if they were all.
ReadUpTo(s, n) ==
  \/ n = Len(log) /\ UNCHANGED fate
  \/ n \in gone..(Len(log) - 1) /\ Mishap(s, "unread")

Aggregate(s) ==
  /\ Goto(s, "aggregate", "load")
  /\ \E n \in gone..Len(log) :
       /\ ReadUpTo(s, n)
       /\ summary' = [summary EXCEPT ![s] = AggregateSession(status[s], EventsOf(conv[s], n))]
  /\ UNCHANGED <<log, gone, clock, conv, status, events, mixed>> /\ FilesUnchanged

LoadEvents(s) ==
  /\ Goto(s, "load", "log")
  /\ \E n \in gone..Len(log) :
       /\ ReadUpTo(s, n)
       /\ events' = [events EXCEPT ![s] = EventsOf(conv[s], n)]
  /\ UNCHANGED <<log, gone, clock, conv, status, summary, mixed>> /\ FilesUnchanged

\* A write that fails is swallowed; the run goes on without it.
Fails(s) == Mishap(s, "io")

LogStopped(s) ==
  /\ Goto(s, "log", "summary")
  /\ \/ log' = Append(log, Stamped(StoppedEvent, conv[s])) /\ UNCHANGED fate
     \/ Fails(s) /\ UNCHANGED log
  /\ UNCHANGED <<gone, clock, run, mixed>> /\ FilesUnchanged

WriteSummary(s) ==
  /\ Goto(s, "summary", "recap")
  /\ \/ summaries' = [summaries EXCEPT ![conv[s]] = s] /\ UNCHANGED fate
     \/ Fails(s) /\ UNCHANGED summaries
  /\ UNCHANGED <<log, gone, clock, patterns, outbox, recap, sent, run, mixed>>

\* The only write that does not make ~/.omnicursor when it is not there.
WriteRecap(s) ==
  /\ Goto(s, "recap", "learn")
  /\ \/ recap' = s /\ UNCHANGED fate
     \/ (Fails(s) \/ ("purged" \in fate[s] /\ UNCHANGED fate)) /\ UNCHANGED recap
  /\ UNCHANGED <<log, gone, clock, patterns, outbox, summaries, sent, run, mixed>>

\* What the patterns are updated from: the ids and snippets of the second read,
\* the outcome and the number of edited files of the first.
PatternInput(s) ==
  LET prompts == OfKind(events[s], "prompt_classified")
      routed == SetToSortSeq({i \in prompts : events[s][i].learns # None}, <)
  IN [shown |-> [id \in Pattern |->
                   Cardinality({i \in prompts : id \in events[s][i].injected_pattern_ids})],
      success |-> summary[s].session_outcome = "success",
      learned |-> IF summary[s].files_edited > 0
                  THEN [k \in DOMAIN routed |-> events[s][routed[k]].learns] ELSE <<>>]

\* Mutant of Learn: a failed update of the patterns skips to the events.
LearnThenSkip(s) ==
  /\ IF DecayRaises(patterns, 0)
     THEN /\ Goto(s, "learn", "outcome")
          /\ UNCHANGED patterns
     ELSE /\ Goto(s, "learn", "outbox")
          /\ patterns' = WriteSessionPatterns(patterns, PatternInput(s), 0)
  /\ UNCHANGED <<log, gone, clock, outbox, summaries, recap, sent, run, fate, mixed>>

\* write_session_patterns.  What it raises ends the run: no row, no events.
Learn(s) ==
  /\ pc[s] = "learn"
  /\ \/ /\ DecayRaises(patterns, 0)
        /\ End(s)
        /\ fate' = [fate EXCEPT ![s] = @ \cup {"raised"}]
        /\ UNCHANGED patterns
     \/ /\ ~DecayRaises(patterns, 0)
        /\ Goto(s, "learn", "outbox") /\ UNCHANGED run
        /\ \/ UNCHANGED fate
              /\ patterns' = IF NothingToSave(patterns, PatternInput(s)) THEN patterns
                             ELSE WriteSessionPatterns(patterns, PatternInput(s), 0)
           \/ Fails(s) /\ UNCHANGED patterns
  /\ UNCHANGED <<log, gone, clock, outbox, summaries, recap, sent, mixed>>

\* The payload of the row, as far as it matters here.
Payload(s) ==
  [run |-> s, conversation_id |-> conv[s], by_status |-> ExitFailed(status[s]),
   injected_pattern_ids |-> InjectedPatternIds(events[s]),
   session_outcome |-> summary[s].session_outcome,
   prompts_classified |-> summary[s].prompts_classified,
   files_edited |-> summary[s].files_edited, denied |-> summary[s].denied]

\* Mutant of WriteSessionOutcome: the row waits for the daemon to take the event.
RowOnAck(s) ==
  /\ Goto(s, "outbox", "outcome")
  /\ \/ outbox' = Append(outbox, Payload(s)) /\ sent' = sent \cup {<<"session.outcome", s>>}
     \/ UNCHANGED <<outbox, sent>>
  /\ UNCHANGED <<log, gone, clock, patterns, summaries, recap, run, fate, mixed>>

WriteSessionOutcome(s) ==
  /\ Goto(s, "outbox", "outcome")
  /\ \/ outbox' = Append(outbox, Payload(s)) /\ UNCHANGED fate
     \/ Mishap(s, "noRow") /\ UNCHANGED outbox
  /\ UNCHANGED <<log, gone, clock, patterns, summaries, recap, sent, run, mixed>>

\* send_event: the daemon takes the event or, absent or slow, does not.
Emit(s, key) ==
  /\ \/ sent' = sent \cup {<<key, s>>}
     \/ UNCHANGED sent
  /\ UNCHANGED <<log, gone, clock, patterns, outbox, summaries, recap, fate, mixed>>

EmitOutcome(s) == Goto(s, "outcome", "metrics") /\ Emit(s, "session.outcome") /\ UNCHANGED run

\* A request for scoring follows only if a prompt listed patterns.
EmitMetrics(s) ==
  /\ pc[s] = "metrics"
  /\ IF InjectedPatternIds(events[s]) = {} THEN End(s)
     ELSE Goto(s, "metrics", "scoring") /\ UNCHANGED run
  /\ Emit(s, "phase.metrics")

EmitScoring(s) == pc[s] = "scoring" /\ End(s) /\ Emit(s, "utilization.scoring.requested")

Kill(s) ==
  /\ UnderWay(s)
  /\ End(s)
  /\ Mishap(s, "killed")
  /\ UNCHANGED <<log, gone, clock, mixed>> /\ FilesUnchanged

StopStep(s) ==
  \/ Aggregate(s) \/ LoadEvents(s) \/ LogStopped(s) \/ WriteSummary(s) \/ WriteRecap(s)
  \/ Learn(s) \/ WriteSessionOutcome(s) \/ EmitOutcome(s) \/ EmitMetrics(s) \/ EmitScoring(s)

Next ==
  \/ LogEvent \/ Tick \/ Purge
  \/ \E s \in Stop : Start(s) \/ StopStep(s) \/ Kill(s)

Spec == Init /\ [][Next]_vars

-----------------------------------------------------------------------------

\* What the lines, the rows and the list are made of is a matter of the modules
\* SessionOutcome and PatternWriter.
TypeOK ==
  /\ gone \in Nat /\ clock \in 0..MaxTime
  /\ \A i \in DOMAIN outbox : outbox[i].run \in Stop /\ outbox[i].conversation_id \in Conv
  /\ summaries \in [Conv -> Stop \cup {None}] /\ recap \in Stop \cup {None}
  /\ sent \subseteq {"session.outcome", "phase.metrics", "utilization.scoring.requested"} \X Stop
  /\ pc \in [Stop -> {"idle", "aggregate", "load", "log", "summary", "recap", "learn",
                      "outbox", "outcome", "metrics", "scoring", "done"}]
  /\ conv \in [Stop -> Conv \cup {None}] /\ status \in [Stop -> Statuses \cup {None}]
  /\ fate \in [Stop -> SUBSET {"io", "unread", "raised", "noRow", "killed", "purged"}]
  /\ mixed \subseteq Conv

PromptsOf(c) == {i \in OfKind(log, "prompt_classified") : log[i].conversation_id = c}

\* A row is built from two readings of the log, with other hooks writing in between.
\* It counts prompts of its own conversation, and names exactly the patterns that some
\* prompts of it listed.  Those it counts are among those it names, unless a reading
\* failed or the log was purged.
RowsCoverTheirPrompts ==
  \A i \in DOMAIN outbox :
    LET row == outbox[i] IN
    \E named \in SUBSET PromptsOf(row.conversation_id) :
      /\ row.injected_pattern_ids = UNION {log[j].injected_pattern_ids : j \in named}
      /\ \E counted \in SUBSET PromptsOf(row.conversation_id) :
           /\ row.prompts_classified = Cardinality(counted)
           /\ counted \subseteq named \/ fate[row.run] \cap {"unread", "purged"} # {}

\* Rows of a conversation whose stop hooks never ran side by side are cumulative:
\* a later row counts and names at least what an earlier one did, and once its text
\* has made a row a failure, every later row is one.  A purge starts anew, and a
\* reading that fails may tell of less.
RowsCumulative ==
  \A i, j \in DOMAIN outbox :
    LET a == outbox[i]  b == outbox[j] IN
    (/\ i < j /\ a.conversation_id = b.conversation_id /\ a.conversation_id \notin mixed
     /\ "purged" \notin fate[a.run] /\ "unread" \notin fate[b.run]) =>
      /\ a.prompts_classified <= b.prompts_classified
      /\ a.files_edited <= b.files_edited
      /\ a.injected_pattern_ids \subseteq b.injected_pattern_ids
      /\ (a.session_outcome = "failed" /\ ~a.by_status) => b.session_outcome = "failed"

\* A row that speaks of success counts at least one prompt or edited file, however
\* many loops, tools and shell commands the log holds; or the conversation has an edit
\* without a path, which is work but no edited file.
SuccessHasWork ==
  \A i \in DOMAIN outbox :
    LET row == outbox[i] IN
    row.session_outcome = "success" =>
      \/ row.prompts_classified + row.files_edited > 0
      \/ \E j \in OfKind(log, "file_edited") :
           log[j].conversation_id = row.conversation_id /\ log[j].file = None

\* "the stop hook's outbox.jsonl record persists locally regardless of whether the
\* daemon is running" (docs/ARCHITECTURE.md:328): a run that ended undisturbed has
\* its row, and one row only, whatever became of its events, until the outbox is purged.
OutboxRegardlessOfDaemon ==
  \A s \in Stop :
    LET rows == {i \in DOMAIN outbox : outbox[i].run = s} IN
    /\ Cardinality(rows) <= 1
    /\ (pc[s] = "done" /\ fate[s] \cap {"raised", "noRow", "killed", "purged"} = {}) => rows # {}

\* The daemon never hears of an outcome that the outbox does not hold, unless
\* appending the row failed or the outbox was purged: neither a kill nor an update of
\* the patterns that raises comes in between.
OutcomesHaveRows ==
  \A e \in sent :
    \/ \E i \in DOMAIN outbox : outbox[i].run = e[2]
    \/ fate[e[2]] \cap {"noRow", "purged"} # {}

=============================================================================
