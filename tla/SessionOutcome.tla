--------------------------- MODULE SessionOutcome ---------------------------
(***************************************************************************)
(* How the stop hook reads the events of a conversation                    *)
(* (src/omnicursor/session_outcome.py and aggregate_session of stop.py).   *)
(* The events are a function of their places in the log.                   *)
(*                                                                         *)
(* An event carries what the classification looks at:                      *)
(*   event     the kind of event                                           *)
(*   lines     the lines of its text, each the set of marks the regular    *)
(*             expressions find in it:                                     *)
(*               "error"      Error:, Exception:, Traceback, 3 FAILED ...  *)
(*               "failed"     FAILED at the end of the line                *)
(*               "zero"       0 FAILED                                     *)
(*               "completion" completed, done, finished, success           *)
(*   at        its time, in seconds                                        *)
(*   file      the path of an edit; an edit without one is work all the    *)
(*             same                                                        *)
(***************************************************************************)
EXTENDS Integers, Sequences, FiniteSets, SequencesExt, FiniteSetsExt

CONSTANT None  \* nobody, nothing; the empty path of an edit that names no file

ABANDON_THRESHOLD_SECONDS == 60

Outcomes == {"failed", "success", "abandoned", "unknown"}

OfKind(events, k) == {i \in DOMAIN events : events[i].event = k}

\* _events_to_text: the events whose text is part of the corpus.
Telling(events) == {i \in DOMAIN events :
                      events[i].event \in {"prompt_classified", "file_edited", "shell_guard"}}

Corpus(events) == UNION {events[i].lines : i \in Telling(events)}

\* "0 FAILED" excuses a line that ends in FAILED, and only that line.
HasErrorMarkers(corpus) ==
  \E line \in corpus : "error" \in line \/ ("failed" \in line /\ "zero" \notin line)

HasCompletionMarkers(status, corpus) ==
  status = "completed" \/ \E line \in corpus : "completion" \in line

\* _compute_duration: over all events, whatever their kind.
Duration(events) ==
  IF Cardinality(DOMAIN events) < 2 THEN 0
  ELSE LET times == {events[i].at : i \in DOMAIN events} IN Max(times) - Min(times)

ExitFailed(status) == status \in {"failed", "error", "aborted"}

\* Mutant of WorkDone: every event counts as work.
WorkDoneAny(events) == DOMAIN events

WorkDone(events) == OfKind(events, "file_edited") \cup OfKind(events, "prompt_classified")

\* derive_session_outcome: the first gate that opens.
DeriveSessionOutcome(status, events) ==
  LET errors == HasErrorMarkers(Corpus(events))
      completion == HasCompletionMarkers(status, Corpus(events))
  IN IF ExitFailed(status) \/ errors THEN "failed"
     ELSE IF WorkDone(events) # {} /\ completion THEN "success"
     ELSE IF ~completion /\ Duration(events) < ABANDON_THRESHOLD_SECONDS THEN "abandoned"
     ELSE "unknown"

\* aggregate_session: what the recap, the session file and the outbox row tell.
AggregateSession(status, events) ==
  [session_outcome |-> DeriveSessionOutcome(status, events),
   prompts_classified |-> Cardinality(OfKind(events, "prompt_classified")),
   files_edited |-> Cardinality({events[i].file : i \in OfKind(events, "file_edited")} \ {None}),
   denied |-> Cardinality({i \in OfKind(events, "shell_guard") : events[i].decision = "deny"})]

\* The pattern ids of the payload: those of every prompt, each once.
InjectedPatternIds(events) ==
  UNION {events[i].injected_pattern_ids : i \in OfKind(events, "prompt_classified")}

=============================================================================
