--------------------------- MODULE StopHookProofs ---------------------------
(***************************************************************************)
(* The outbox does not depend on the daemon, and the daemon never hears of *)
(* more than the outbox holds: for any number of runs and conversations,   *)
(* any events, any kills, purges and failing readings and writes, and      *)
(* whatever the update of the patterns does (IInv).  What the rows say is  *)
(* true of the log (RInv): each is made of two readings of it, and the     *)
(* runs of a conversation that never overlapped read in the order of their *)
(* rows.                                                                   *)
(***************************************************************************)
EXTENDS StopHook, FiniteSetTheorems, TLAPS

Places == {"idle", "aggregate", "load", "log", "summary", "recap", "learn",
           "outbox", "outcome", "metrics", "scoring", "done"}
BeforeRow == {"idle", "aggregate", "load", "log", "summary", "recap", "learn", "outbox"}
AfterRow == {"outcome", "metrics", "scoring"}
FateKinds == {"io", "unread", "raised", "noRow", "killed", "purged"}
Fates == SUBSET FateKinds

\* The positions of the run's rows in the outbox.
RowsOf(s) == {i \in DOMAIN outbox : outbox[i].run = s}

\* The run has its row, or the append failed, or the row is gone.
Told(s) == RowsOf(s) # {} \/ fate[s] \cap {"noRow", "purged"} # {}

\* What the proof needs to know of types; what a row holds besides its run does
\* not matter.
Shapes ==
  /\ \E S : outbox \in Seq(S)
  /\ pc \in [Stop -> Places]
  /\ fate \in [Stop -> Fates]
  /\ \A e \in sent : e[2] \in Stop

\* No row before the step that appends it, and no two rows of one run.
AtMostOne ==
  /\ \A s \in Stop : pc[s] \in BeforeRow => RowsOf(s) = {}
  /\ \A i, j \in DOMAIN outbox : outbox[i].run = outbox[j].run => i = j

\* After that step the run is told of; one that ended without was cut short.
Accounted ==
  /\ \A s \in Stop : pc[s] \in AfterRow => Told(s)
  /\ \A s \in Stop : pc[s] = "done" => Told(s) \/ fate[s] \cap {"raised", "killed"} # {}

\* Events are of runs that are told of.
SentTold == \A e \in sent : Told(e[2])

IInv == Shapes /\ AtMostOne /\ Accounted /\ SentTold

-----------------------------------------------------------------------------

\* A payload names the run it is of.
LEMMA PayloadRun == ASSUME NEW s \in Stop PROVE Payload(s).run = s
BY DEF Payload

LEMMA InitIInv == Init => IInv
<1> SUFFICES ASSUME Init PROVE IInv
  OBVIOUS
<1>1. outbox \in Seq({}) /\ DOMAIN outbox = {}
  BY DEF Init
<1>2. Shapes
  BY <1>1 DEF Init, Shapes, Places, Fates
<1>3. AtMostOne
  BY <1>1 DEF AtMostOne, RowsOf
<1>4. Accounted /\ SentTold
  BY DEF Init, Accounted, AfterRow, SentTold
<1> QED BY <1>2, <1>3, <1>4 DEF IInv

\* A step of a run that leaves the outbox alone, does not send, and stays on its
\* side of the append keeps the invariant.
LEMMA QuietStep ==
  ASSUME IInv, NEW s \in Stop, NEW to \in BeforeRow,
         pc[s] \in BeforeRow, pc' = [pc EXCEPT ![s] = to],
         UNCHANGED <<outbox, sent>>,
         fate' = fate \/ \E k \in FateKinds : fate' = [fate EXCEPT ![s] = @ \cup {k}]
  PROVE  IInv'
<1>1. pc' \in [Stop -> Places]
  BY DEF IInv, Shapes, Places, BeforeRow
<1>2. fate' \in [Stop -> Fates] /\ \A r \in Stop : fate[r] \subseteq fate'[r]
  <2>1. CASE fate' = fate
    BY <2>1 DEF IInv, Shapes
  <2>2. ASSUME NEW k \in FateKinds,
               fate' = [fate EXCEPT ![s] = @ \cup {k}]
        PROVE  fate' \in [Stop -> Fates] /\ \A r \in Stop : fate[r] \subseteq fate'[r]
    BY <2>2 DEF IInv, Shapes, Fates
  <2> QED BY <2>1, <2>2
<1>3. \A r \in Stop : r # s => pc'[r] = pc[r]
  BY DEF IInv, Shapes
<1>4. pc'[s] = to
  BY DEF IInv, Shapes
<1>5. Shapes'
  BY <1>1, <1>2 DEF IInv, Shapes
<1>6. AtMostOne'
  BY <1>3, <1>4 DEF IInv, AtMostOne, RowsOf
<1>7. Accounted'
  BY <1>2, <1>3, <1>4 DEF IInv, Accounted, Told, RowsOf, BeforeRow, AfterRow
<1>8. SentTold'
  BY <1>2 DEF IInv, Shapes, SentTold, Told, RowsOf
<1> QED BY <1>5, <1>6, <1>7, <1>8 DEF IInv

\* A step that changes nothing the invariant speaks of keeps it.
LEMMA Untouched ==
  ASSUME IInv, UNCHANGED <<outbox, sent, pc, fate>>
  PROVE  IInv'
BY DEF IInv, Shapes, AtMostOne, Accounted, SentTold, Told, RowsOf

\* A run that is killed or raises is accounted for by its fate.
LEMMA CutShort ==
  ASSUME IInv, NEW s \in Stop, pc' = [pc EXCEPT ![s] = "done"],
         UNCHANGED <<outbox, sent>>, NEW k \in {"raised", "killed"},
         fate' = [fate EXCEPT ![s] = @ \cup {k}]
  PROVE  IInv'
<1>1. pc' \in [Stop -> Places] /\ fate' \in [Stop -> Fates]
  BY DEF IInv, Shapes, Places, Fates, FateKinds
<1>2. (\A r \in Stop : fate[r] \subseteq fate'[r]) /\ k \in fate'[s]
  BY DEF IInv, Shapes, Fates
<1>3. (\A r \in Stop : r # s => pc'[r] = pc[r]) /\ pc'[s] = "done"
  BY DEF IInv, Shapes
<1>4. Shapes'
  BY <1>1 DEF IInv, Shapes
<1>5. AtMostOne'
  BY <1>3 DEF IInv, AtMostOne, RowsOf, BeforeRow
<1>6. \A r \in Stop : pc'[r] \in AfterRow => Told(r)'
  BY <1>2, <1>3 DEF IInv, Accounted, Told, RowsOf, AfterRow
<1>7. \A r \in Stop : pc'[r] = "done" => Told(r)' \/ fate'[r] \cap {"raised", "killed"} # {}
  BY <1>2, <1>3 DEF IInv, Accounted, Told, RowsOf
<1>8. SentTold'
  BY <1>2 DEF IInv, Shapes, SentTold, Told, RowsOf
<1> QED BY <1>4, <1>5, <1>6, <1>7, <1>8 DEF IInv, Accounted

\* A step after the append may send in the name of its run.
LEMMA SendingStep ==
  ASSUME IInv, NEW s \in Stop, NEW to \in AfterRow \cup {"done"}, NEW key,
         pc[s] \in AfterRow, pc' = [pc EXCEPT ![s] = to],
         UNCHANGED <<outbox, fate>>, sent' = sent \cup {<<key, s>>} \/ sent' = sent
  PROVE  IInv'
<1>1. UNCHANGED <<outbox, fate>> /\ (sent' = sent \cup {<<key, s>>} \/ sent' = sent)
  OBVIOUS
<1>2. Told(s) /\ \A r \in Stop : Told(r)' <=> Told(r)
  BY <1>1 DEF IInv, Accounted, Told, RowsOf
<1>3. Shapes'
  <2>1. pc' \in [Stop -> Places]
    BY DEF IInv, Shapes, Places, AfterRow
  <2>2. \A e \in sent' : e[2] \in Stop
    BY <1>1 DEF IInv, Shapes
  <2> QED BY <1>1, <2>1, <2>2 DEF IInv, Shapes
<1>4. (\A r \in Stop : r # s => pc'[r] = pc[r]) /\ pc'[s] = to
  BY DEF IInv, Shapes
<1>5. AtMostOne'
  BY <1>1, <1>4 DEF IInv, AtMostOne, RowsOf, BeforeRow, AfterRow
<1>6. Accounted'
  BY <1>1, <1>2, <1>4 DEF IInv, Accounted
<1>7. \A e \in sent' : e = <<key, s>> \/ e \in sent
  BY <1>1
<1>8. SentTold'
  BY <1>2, <1>3, <1>7 DEF IInv, Shapes, SentTold
<1> QED BY <1>3, <1>5, <1>6, <1>8 DEF IInv

\* The append itself.
LEMMA AppendStep ==
  ASSUME IInv, NEW s \in Stop, WriteSessionOutcome(s)
  PROVE  IInv'
<1>1. /\ pc[s] = "outbox" /\ pc' = [pc EXCEPT ![s] = "outcome"]
      /\ sent' = sent
  BY DEF WriteSessionOutcome, Goto
<1>2. (\A r \in Stop : r # s => pc'[r] = pc[r]) /\ pc'[s] = "outcome"
  BY <1>1 DEF IInv, Shapes
<1>3. pc' \in [Stop -> Places]
  BY <1>1 DEF IInv, Shapes, Places
<1>4. RowsOf(s) = {}
  BY <1>1 DEF IInv, AtMostOne, BeforeRow
<1>5. CASE outbox' = Append(outbox, Payload(s)) /\ fate' = fate
  <2> DEFINE n == Len(outbox) + 1
  <2>1. PICK S : outbox \in Seq(S)
    BY DEF IInv, Shapes
  <2>2. /\ outbox' \in Seq(S \cup {Payload(s)})
        /\ DOMAIN outbox = 1..Len(outbox) /\ Len(outbox) \in Nat
        /\ DOMAIN outbox' = 1..n
        /\ outbox'[n] = Payload(s)
        /\ \A i \in DOMAIN outbox : outbox'[i] = outbox[i]
    <3>1. outbox \in Seq(S \cup {Payload(s)})
      BY <2>1
    <3> QED BY <1>5, <3>1
  <2>3. outbox'[n].run = s
    BY <2>2, PayloadRun
  <2>4. n \notin DOMAIN outbox /\ DOMAIN outbox' = DOMAIN outbox \cup {n}
    BY <2>2
  <2>5. /\ \A r \in Stop : r # s => RowsOf(r)' = RowsOf(r)
        /\ n \in RowsOf(s)'
    BY <2>2, <2>3, <2>4 DEF RowsOf
  <2>6. \A r \in Stop : Told(r) => Told(r)'
    BY <1>5, <2>5 DEF Told
  <2>7. Shapes'
    BY <1>1, <1>3, <1>5, <2>2 DEF IInv, Shapes
  <2>8. \A i \in DOMAIN outbox : outbox[i].run # s
    BY <1>4 DEF RowsOf
  <2>9. \A i, j \in DOMAIN outbox' : outbox'[i].run = outbox'[j].run => i = j
    BY <2>2, <2>3, <2>4, <2>8 DEF IInv, AtMostOne
  <2>10. \A r \in Stop : pc'[r] \in BeforeRow => RowsOf(r)' = {}
    BY <1>2, <2>5 DEF IInv, AtMostOne, BeforeRow
  <2>11. Accounted'
    BY <1>2, <1>5, <2>5, <2>6 DEF IInv, Accounted, Told
  <2>12. SentTold'
    BY <1>1, <2>6 DEF IInv, Shapes, SentTold
  <2> QED BY <2>7, <2>9, <2>10, <2>11, <2>12 DEF IInv, AtMostOne
<1>6. CASE Mishap(s, "noRow") /\ outbox' = outbox
  <2>1. fate' = [fate EXCEPT ![s] = @ \cup {"noRow"}]
    BY <1>6 DEF Mishap
  <2>2. /\ fate' \in [Stop -> Fates] /\ "noRow" \in fate'[s]
        /\ \A r \in Stop : fate[r] \subseteq fate'[r]
    BY <2>1 DEF IInv, Shapes, Fates, FateKinds
  <2>3. Shapes'
    BY <1>1, <1>3, <1>6, <2>2 DEF IInv, Shapes
  <2>4. AtMostOne'
    BY <1>2, <1>6 DEF IInv, AtMostOne, RowsOf, BeforeRow
  <2>5. \A r \in Stop : Told(r) => Told(r)'
    BY <1>6, <2>2 DEF Told, RowsOf
  <2>6. Accounted'
    BY <1>2, <2>2, <2>5 DEF IInv, Accounted, Told
  <2>7. SentTold'
    BY <1>1, <2>5 DEF IInv, Shapes, SentTold
  <2> QED BY <2>3, <2>4, <2>6, <2>7 DEF IInv
<1> QED BY <1>5, <1>6 DEF WriteSessionOutcome

\* A purge takes every row, and is told to all runs that may have had one.
LEMMA PurgeStep ==
  ASSUME IInv, Purge
  PROVE  IInv'
<1>1. UNCHANGED <<pc, sent>> /\ outbox' = <<>>
  BY DEF Purge, run
<1>2. /\ fate' \in [Stop -> Fates]
      /\ \A s \in Stop : fate[s] \subseteq fate'[s] /\ (pc[s] # "idle" => "purged" \in fate'[s])
  BY DEF Purge, IInv, Shapes, Fates, FateKinds
<1>3. outbox' \in Seq({}) /\ DOMAIN outbox' = {}
  BY <1>1
<1>4. Shapes'
  BY <1>1, <1>2, <1>3 DEF IInv, Shapes
<1>5. AtMostOne'
  BY <1>3 DEF AtMostOne, RowsOf
<1>6. \A s \in Stop : Told(s) => Told(s)'
  <2> SUFFICES ASSUME NEW s \in Stop, Told(s) PROVE Told(s)'
    OBVIOUS
  <2>1. CASE pc[s] = "idle"
    BY <1>2, <2>1 DEF IInv, AtMostOne, BeforeRow, Told
  <2>2. CASE pc[s] # "idle"
    BY <1>2, <2>2 DEF Told
  <2> QED BY <2>1, <2>2
<1>7. Accounted'
  BY <1>1, <1>2, <1>6 DEF IInv, Accounted
<1>8. SentTold'
  BY <1>1, <1>6 DEF IInv, Shapes, SentTold
<1> QED BY <1>4, <1>5, <1>7, <1>8 DEF IInv

LEMMA NextKeepsIInv == IInv /\ [Next]_vars => IInv'
<1> SUFFICES ASSUME IInv, [Next]_vars PROVE IInv'
  OBVIOUS
<1>1. CASE LogEvent
  BY <1>1, Untouched DEF LogEvent, FilesUnchanged
<1>2. CASE Tick
  BY <1>2, Untouched DEF Tick, FilesUnchanged
<1>3. ASSUME NEW s \in Stop, Start(s) PROVE IInv'
  BY <1>3, QuietStep DEF Start, Goto, FilesUnchanged, BeforeRow
<1>4. ASSUME NEW s \in Stop, Aggregate(s) PROVE IInv'
  BY <1>4, QuietStep DEF Aggregate, Goto, FilesUnchanged, BeforeRow, ReadUpTo, Mishap, FateKinds
<1>5. ASSUME NEW s \in Stop, LoadEvents(s) PROVE IInv'
  BY <1>5, QuietStep DEF LoadEvents, Goto, FilesUnchanged, BeforeRow, ReadUpTo, Mishap, FateKinds
<1>6. ASSUME NEW s \in Stop, LogStopped(s) PROVE IInv'
  BY <1>6, QuietStep DEF LogStopped, Goto, FilesUnchanged, BeforeRow, Fails, Mishap, FateKinds
<1>7. ASSUME NEW s \in Stop, WriteSummary(s) PROVE IInv'
  BY <1>7, QuietStep DEF WriteSummary, Goto, BeforeRow, Fails, Mishap, FateKinds
<1>8. ASSUME NEW s \in Stop, WriteRecap(s) PROVE IInv'
  BY <1>8, QuietStep DEF WriteRecap, Goto, BeforeRow, Fails, Mishap, FateKinds
<1>9. ASSUME NEW s \in Stop, Learn(s) PROVE IInv'
  <2>1. CASE End(s) /\ fate' = [fate EXCEPT ![s] = @ \cup {"raised"}]
    <3>1. UNCHANGED <<outbox, sent>>
      BY <1>9 DEF Learn
    <3>2. pc' = [pc EXCEPT ![s] = "done"]
      BY <2>1 DEF End
    <3> QED BY <2>1, <3>1, <3>2, CutShort
  <2>2. CASE Goto(s, "learn", "outbox") /\ (UNCHANGED fate \/ Fails(s))
    <3>1. UNCHANGED <<outbox, sent>>
      BY <1>9 DEF Learn
    <3>2. fate' = fate \/ fate' = [fate EXCEPT ![s] = @ \cup {"io"}]
      BY <2>2 DEF Fails, Mishap
    <3> QED BY <2>2, <3>1, <3>2, QuietStep DEF Goto, BeforeRow, FateKinds
  <2>3. \/ End(s) /\ fate' = [fate EXCEPT ![s] = @ \cup {"raised"}]
        \/ Goto(s, "learn", "outbox") /\ (UNCHANGED fate \/ Fails(s))
    BY <1>9 DEF Learn
  <2> QED BY <2>1, <2>2, <2>3
<1>10. ASSUME NEW s \in Stop, WriteSessionOutcome(s) PROVE IInv'
  BY <1>10, AppendStep
<1>11. ASSUME NEW s \in Stop, EmitOutcome(s) PROVE IInv'
  <2>1. /\ pc[s] \in AfterRow /\ UNCHANGED <<outbox, fate>>
        /\ sent' = sent \cup {<<"session.outcome", s>>} \/ sent' = sent
    BY <1>11 DEF EmitOutcome, Emit, Goto, AfterRow
  <2>2. \E to \in AfterRow \cup {"done"} : pc' = [pc EXCEPT ![s] = to]
    BY <1>11 DEF EmitOutcome, Goto, End, AfterRow
  <2> QED BY <2>1, <2>2, SendingStep
<1>12. ASSUME NEW s \in Stop, EmitMetrics(s) PROVE IInv'
  <2>1. /\ pc[s] \in AfterRow /\ UNCHANGED <<outbox, fate>>
        /\ sent' = sent \cup {<<"phase.metrics", s>>} \/ sent' = sent
    BY <1>12 DEF EmitMetrics, Emit, Goto, AfterRow
  <2>2. \E to \in AfterRow \cup {"done"} : pc' = [pc EXCEPT ![s] = to]
    BY <1>12 DEF EmitMetrics, Goto, End, AfterRow
  <2> QED BY <2>1, <2>2, SendingStep
<1>13. ASSUME NEW s \in Stop, EmitScoring(s) PROVE IInv'
  <2>1. /\ pc[s] \in AfterRow /\ UNCHANGED <<outbox, fate>>
        /\ sent' = sent \cup {<<"utilization.scoring.requested", s>>} \/ sent' = sent
    BY <1>13 DEF EmitScoring, Emit, AfterRow
  <2>2. \E to \in AfterRow \cup {"done"} : pc' = [pc EXCEPT ![s] = to]
    BY <1>13 DEF EmitScoring, End, AfterRow
  <2> QED BY <2>1, <2>2, SendingStep
<1>14. ASSUME NEW s \in Stop, Kill(s) PROVE IInv'
  BY <1>14, CutShort DEF Kill, End, Mishap, FilesUnchanged
<1>15. CASE Purge
  BY <1>15, PurgeStep
<1>16. CASE UNCHANGED vars
  BY <1>16, Untouched DEF vars
<1> QED
  BY <1>1, <1>2, <1>3, <1>4, <1>5, <1>6, <1>7, <1>8, <1>9, <1>10, <1>11, <1>12, <1>13,
      <1>14, <1>15, <1>16
     DEF Next, StopStep

\* A set with no two different elements has at most one.
LEMMA AtMostOneElement ==
  ASSUME NEW T, \A x, y \in T : x = y
  PROVE  Cardinality(T) <= 1
<1>1. CASE T = {}
  BY <1>1, FS_EmptySet
<1>2. CASE T # {}
  <2>1. PICK x : T = {x}
    BY <1>2
  <2>2. Cardinality({x}) = 1
    BY FS_Singleton
  <2> QED BY <2>1, <2>2
<1> QED BY <1>1, <1>2

\* Whatever the daemon does, a run that ended undisturbed has exactly one row, until the
\* outbox is purged.
THEOREM OutboxTheorem == Spec => []OutboxRegardlessOfDaemon
<1>1. IInv => OutboxRegardlessOfDaemon
  <2> SUFFICES ASSUME IInv, NEW s \in Stop
               PROVE  /\ Cardinality(RowsOf(s)) <= 1
                      /\ (pc[s] = "done" /\ fate[s] \cap {"raised", "noRow", "killed", "purged"} = {})
                           => RowsOf(s) # {}
    BY DEF OutboxRegardlessOfDaemon, RowsOf
  <2>1. \A x, y \in RowsOf(s) : x = y
    BY DEF IInv, AtMostOne, RowsOf
  <2>2. Cardinality(RowsOf(s)) <= 1
    BY <2>1, AtMostOneElement
  <2>3. (pc[s] = "done" /\ fate[s] \cap {"raised", "noRow", "killed", "purged"} = {}) => RowsOf(s) # {}
    BY DEF IInv, Accounted, Told
  <2> QED BY <2>2, <2>3
<1> QED BY <1>1, InitIInv, NextKeepsIInv, PTL DEF Spec

\* No outcome, metrics or scoring request is sent for a run without a row, unless
\* appending the row failed or the outbox was purged.
THEOREM OutcomesTheorem == Spec => []OutcomesHaveRows
<1>1. IInv => OutcomesHaveRows
  BY DEF IInv, SentTold, Told, RowsOf, OutcomesHaveRows
<1> QED BY <1>1, InitIInv, NextKeepsIInv, PTL DEF Spec

-----------------------------------------------------------------------------

\* Types.  A run has a conversation from its start on.
Started == \A s \in Stop : pc[s] # "idle" => conv[s] \in Conv
OutboxTyped ==
  /\ \E S : outbox \in Seq(S)
  /\ \A i \in DOMAIN outbox : outbox[i].run \in Stop /\ outbox[i].conversation_id \in Conv
Keys == {"session.outcome", "phase.metrics", "utilization.scoring.requested"}
LogTyped == (\E S : log \in Seq(S)) /\ gone \in 0..Len(log)
TInv == TypeOK /\ Started /\ OutboxTyped /\ LogTyped

LEMMA InitTInv == Init => TInv
<1> SUFFICES ASSUME Init PROVE TInv
  OBVIOUS
<1>1. log \in Seq({}) /\ Len(log) = 0 /\ outbox \in Seq({})
  BY DEF Init
<1>2. LogTyped /\ OutboxTyped
  BY <1>1 DEF Init, LogTyped, OutboxTyped
<1> QED BY <1>2, TimeAssumption DEF Init, TInv, TypeOK, Started

LEMMA LogGrows ==
  ASSUME LogTyped, gone' = gone, log' = log \/ \E e : log' = Append(log, e)
  PROVE  LogTyped'
<1>1. PICK S : log \in Seq(S)
  BY DEF LogTyped
<1>2. CASE log' = log
  BY <1>2 DEF LogTyped
<1>3. ASSUME NEW e, log' = Append(log, e) PROVE LogTyped'
  <2>1. log \in Seq(S \cup {e})
    BY <1>1
  <2>2. log' \in Seq(S \cup {e}) /\ Len(log') = Len(log) + 1 /\ Len(log) \in Nat
    BY <1>3, <2>1
  <2> QED BY <2>2 DEF LogTyped
<1> QED BY <1>2, <1>3

\* A step of a run that has started leaves the clock, the conversations and statuses
\* alone, moves the run on, and adds to its fate at most.
LEMMA StepTyped ==
  ASSUME TInv, NEW s \in Stop, NEW to \in Places \ {"idle"}, NEW k \in FateKinds, NEW key \in Keys,
         pc[s] # "idle", pc' = [pc EXCEPT ![s] = to],
         UNCHANGED <<gone, clock, conv, status, mixed>>, OutboxTyped', LogTyped',
         fate' \in {fate, [fate EXCEPT ![s] = @ \cup {k}]},
         sent' \in {sent, sent \cup {<<key, s>>}},
         summaries' \in {summaries, [summaries EXCEPT ![conv[s]] = s]},
         recap' \in {recap, s}
  PROVE  TInv'
<1>1. pc' \in [Stop -> Places]
  BY DEF TInv, TypeOK, Places
<1>2. fate' \in [Stop -> Fates]
  <2>1. fate \in [Stop -> Fates]
    BY DEF TInv, TypeOK, Fates, FateKinds
  <2>2. [fate EXCEPT ![s] = @ \cup {k}] \in [Stop -> Fates]
    BY <2>1 DEF Fates
  <2> QED BY <2>1, <2>2
<1>3. sent' \subseteq Keys \X Stop
  <2>1. sent \subseteq Keys \X Stop /\ <<key, s>> \in Keys \X Stop
    BY DEF TInv, TypeOK, Keys
  <2>2. sent' \subseteq sent \cup {<<key, s>>}
    OBVIOUS
  <2> QED BY <2>1, <2>2
<1>4. summaries' \in [Conv -> Stop \cup {None}] /\ recap' \in Stop \cup {None}
  <2>1. summaries \in [Conv -> Stop \cup {None}] /\ recap \in Stop \cup {None}
    BY DEF TInv, TypeOK
  <2>2. [summaries EXCEPT ![conv[s]] = s] \in [Conv -> Stop \cup {None}]
    BY <2>1
  <2> QED BY <2>1, <2>2
<1>5. Started'
  BY DEF TInv, TypeOK, Started
<1>6. TypeOK'
  BY <1>1, <1>2, <1>3, <1>4 DEF TInv, TypeOK, OutboxTyped, Places, Fates, FateKinds, Keys
<1> QED BY <1>5, <1>6 DEF TInv

LEMMA SameOutbox == ASSUME OutboxTyped, UNCHANGED outbox PROVE OutboxTyped'
BY DEF OutboxTyped

LEMMA AppendTyped ==
  ASSUME TInv, NEW s \in Stop, pc[s] # "idle", outbox' = Append(outbox, Payload(s))
  PROVE  OutboxTyped'
<1>1. PICK S : outbox \in Seq(S)
  BY DEF TInv, OutboxTyped
<1>2. outbox \in Seq(S \cup {Payload(s)})
  BY <1>1
<1>3. outbox' \in Seq(S \cup {Payload(s)})
  BY <1>2
<1>4. Payload(s).run = s /\ Payload(s).conversation_id \in Conv
  BY DEF Payload, TInv, Started
<1>5. \A i \in DOMAIN outbox' : outbox'[i] = Payload(s) \/ (i \in DOMAIN outbox /\ outbox'[i] = outbox[i])
  BY <1>2
<1> QED BY <1>3, <1>4, <1>5 DEF TInv, OutboxTyped

LEMMA StopStepTyped ==
  ASSUME TInv, NEW s \in Stop, StopStep(s) \/ Kill(s)
  PROVE  TInv'
<1> DEFINE Moves(to) == pc[s] # "idle" /\ pc' = [pc EXCEPT ![s] = to] /\ UNCHANGED <<gone, clock, conv, status, mixed>>
<1> DEFINE Aside == UNCHANGED <<outbox, sent, summaries, recap>>
<1>0. /\ \E k \in FateKinds : TRUE
      /\ \E key \in Keys : TRUE
      /\ OutboxTyped
  BY DEF FateKinds, Keys, TInv
<1>9. LogTyped'
  <2>1. gone' = gone /\ (log' = log \/ \E e : log' = Append(log, e))
    BY DEF StopStep, Kill, Aggregate, LoadEvents, LogStopped, WriteSummary, WriteRecap, Learn,
           WriteSessionOutcome, EmitOutcome, EmitMetrics, EmitScoring, Emit
  <2> QED BY <2>1, LogGrows DEF TInv
<1>1. CASE Aggregate(s) \/ LoadEvents(s)
  <2>1. /\ Aside /\ (Moves("load") \/ Moves("log"))
        /\ fate' \in {fate, [fate EXCEPT ![s] = @ \cup {"unread"}]}
    BY <1>1 DEF Aggregate, LoadEvents, Goto, FilesUnchanged, ReadUpTo, Mishap
  <2> QED BY <2>1, <1>0, <1>9, SameOutbox, StepTyped DEF Places, FateKinds
<1>2. CASE LogStopped(s)
  <2>1. Aside /\ Moves("summary") /\ fate' \in {fate, [fate EXCEPT ![s] = @ \cup {"io"}]}
    BY <1>2 DEF LogStopped, Goto, FilesUnchanged, Fails, Mishap, run
  <2> QED BY <2>1, <1>0, <1>9, SameOutbox, StepTyped DEF Places, FateKinds
<1>3. CASE WriteSummary(s)
  <2>1. /\ UNCHANGED <<outbox, sent, recap>> /\ Moves("recap")
        /\ fate' \in {fate, [fate EXCEPT ![s] = @ \cup {"io"}]}
        /\ summaries' \in {summaries, [summaries EXCEPT ![conv[s]] = s]}
    BY <1>3 DEF WriteSummary, Goto, Fails, Mishap, run
  <2> QED BY <2>1, <1>0, <1>9, SameOutbox, StepTyped DEF Places, FateKinds
<1>4. CASE WriteRecap(s)
  <2>1. /\ UNCHANGED <<outbox, sent, summaries>> /\ Moves("learn")
        /\ fate' \in {fate, [fate EXCEPT ![s] = @ \cup {"io"}]}
        /\ recap' \in {recap, s}
    BY <1>4 DEF WriteRecap, Goto, Fails, Mishap, run
  <2> QED BY <2>1, <1>0, <1>9, SameOutbox, StepTyped DEF Places, FateKinds
<1>5. CASE Learn(s)
  <2>1. Aside /\ \/ Moves("done") /\ fate' = [fate EXCEPT ![s] = @ \cup {"raised"}]
                 \/ Moves("outbox") /\ fate' \in {fate, [fate EXCEPT ![s] = @ \cup {"io"}]}
    BY <1>5 DEF Learn, Goto, End, Fails, Mishap, run
  <2>2. CASE Moves("done") /\ fate' = [fate EXCEPT ![s] = @ \cup {"raised"}]
    BY <2>1, <2>2, <1>0, <1>9, SameOutbox, StepTyped DEF Places, FateKinds
  <2>3. CASE Moves("outbox") /\ fate' \in {fate, [fate EXCEPT ![s] = @ \cup {"io"}]}
    BY <2>1, <2>3, <1>0, <1>9, SameOutbox, StepTyped DEF Places, FateKinds
  <2> QED BY <2>1, <2>2, <2>3
<1>6. CASE WriteSessionOutcome(s)
  <2>1. /\ UNCHANGED <<sent, summaries, recap>> /\ Moves("outcome")
        /\ fate' \in {fate, [fate EXCEPT ![s] = @ \cup {"noRow"}]}
        /\ outbox' = outbox \/ outbox' = Append(outbox, Payload(s))
    BY <1>6 DEF WriteSessionOutcome, Goto, Mishap, run
  <2>2. OutboxTyped'
    BY <2>1, <1>0, SameOutbox, AppendTyped
  <2> QED BY <2>1, <2>2, <1>0, <1>9, StepTyped DEF Places, FateKinds
<1>7. CASE EmitOutcome(s) \/ EmitMetrics(s) \/ EmitScoring(s)
  <2>1. /\ UNCHANGED <<outbox, summaries, recap, fate>>
        /\ \E to \in {"metrics", "scoring", "done"} : Moves(to)
        /\ \E key \in Keys : sent' \in {sent, sent \cup {<<key, s>>}}
    BY <1>7 DEF EmitOutcome, EmitMetrics, EmitScoring, Emit, Goto, End, Keys, run
  <2> QED BY <2>1, <1>0, <1>9, SameOutbox, StepTyped DEF Places
<1>8. CASE Kill(s)
  <2>1. Aside /\ Moves("done") /\ fate' = [fate EXCEPT ![s] = @ \cup {"killed"}]
    BY <1>8 DEF Kill, UnderWay, End, Mishap, FilesUnchanged
  <2> QED BY <2>1, <1>0, <1>9, SameOutbox, StepTyped DEF Places, FateKinds
<1> QED BY <1>1, <1>2, <1>3, <1>4, <1>5, <1>6, <1>7, <1>8 DEF StopStep

LEMMA StartTyped ==
  ASSUME TInv, NEW s \in Stop, Start(s)
  PROVE  TInv'
<1>1. /\ UNCHANGED <<log, gone, clock, fate, outbox, summaries, recap, sent>>
      /\ pc' = [pc EXCEPT ![s] = "aggregate"]
      /\ \E st \in Statuses : status' = [status EXCEPT ![s] = st]
  BY DEF Start, Goto, FilesUnchanged
<1>2. PICK c \in Conv : conv' = [conv EXCEPT ![s] = c] /\ mixed' \in {mixed, mixed \cup {c}}
  BY DEF Start
<1>3. conv' \in [Stop -> Conv \cup {None}] /\ mixed' \subseteq Conv
  BY <1>2 DEF TInv, TypeOK
<1>4. pc' \in [Stop -> Places] /\ status' \in [Stop -> Statuses \cup {None}]
  BY <1>1 DEF TInv, TypeOK, Places
<1>5. Started'
  BY <1>1, <1>2 DEF TInv, TypeOK, Started
<1>6. TypeOK'
  BY <1>1, <1>3, <1>4 DEF TInv, TypeOK, Places
<1> QED BY <1>1, <1>5, <1>6, SameOutbox, LogGrows DEF TInv

LEMMA PurgeTyped ==
  ASSUME TInv, Purge
  PROVE  TInv'
<1>1. UNCHANGED <<log, clock, sent, pc, conv, status, mixed>> /\ outbox' = <<>> /\ gone' = Len(log)
  BY DEF Purge, run
<1>2. fate' \in [Stop -> Fates]
  BY DEF Purge, TInv, TypeOK, Fates, FateKinds
<1>3. summaries' \in [Conv -> Stop \cup {None}] /\ recap' = None
  BY DEF Purge
<1>4. Len(log) \in Nat /\ LogTyped'
  BY <1>1 DEF TInv, LogTyped
<1>5. outbox' \in Seq({}) /\ DOMAIN outbox' = {}
  BY <1>1
<1>6. OutboxTyped'
  BY <1>5 DEF OutboxTyped
<1>7. TypeOK'
  BY <1>1, <1>2, <1>3, <1>4, <1>5 DEF TInv, TypeOK, Fates, FateKinds
<1> QED BY <1>1, <1>4, <1>6, <1>7 DEF TInv, Started

LEMMA NextKeepsTInv == TInv /\ [Next]_vars => TInv'
<1> SUFFICES ASSUME TInv, [Next]_vars PROVE TInv'
  OBVIOUS
<1>1. CASE LogEvent
  <2>1. UNCHANGED <<gone, clock, outbox, summaries, recap, sent, pc, conv, status, fate, mixed>>
    BY <1>1 DEF LogEvent, FilesUnchanged, run
  <2>2. LogTyped'
    BY <1>1, <2>1, LogGrows DEF LogEvent, TInv
  <2> QED BY <2>1, <2>2, SameOutbox DEF TInv, TypeOK, Started
<1>2. CASE Tick
  <2>1. clock' \in 0..MaxTime
    <3>1. clock' = clock + TimeStep /\ clock + TimeStep <= MaxTime /\ clock \in 0..MaxTime
      BY <1>2 DEF Tick, TInv, TypeOK
    <3> QED BY <3>1, TimeAssumption
  <2>2. UNCHANGED <<log, gone, outbox, summaries, recap, sent, pc, conv, status, fate, mixed>>
    BY <1>2 DEF Tick, FilesUnchanged, run
  <2>3. OutboxTyped' /\ Started' /\ LogTyped'
    BY <2>2, SameOutbox, LogGrows DEF TInv, Started
  <2> QED BY <2>1, <2>2, <2>3 DEF TInv, TypeOK, OutboxTyped
<1>3. CASE \E s \in Stop : Start(s)
  BY <1>3, StartTyped
<1>4. CASE \E s \in Stop : StopStep(s) \/ Kill(s)
  BY <1>4, StopStepTyped
<1>5. CASE Purge
  BY <1>5, PurgeTyped
<1>6. CASE UNCHANGED vars
  BY <1>6, SameOutbox, LogGrows DEF vars, run, TInv, TypeOK, Started
<1> QED BY <1>1, <1>2, <1>3, <1>4, <1>5, <1>6 DEF Next

\* The type invariant: among others, every row is of a conversation a run was fired for.
THEOREM TypesTheorem == Spec => []TypeOK
<1>1. TInv => TypeOK
  BY DEF TInv
<1> QED BY <1>1, InitTInv, NextKeepsTInv, PTL DEF Spec

-----------------------------------------------------------------------------

\* What two readings of the log make of a row.  The first reading of a run saw the lines
\* at the places first[s], the second those at second[s]: the functions first and second
\* stand for what no variable holds.
RowFrom(s, c, st, early, late) ==
  [run |-> s, conversation_id |-> c, by_status |-> ExitFailed(st),
   injected_pattern_ids |-> InjectedPatternIds(late),
   session_outcome |-> AggregateSession(st, early).session_outcome,
   prompts_classified |-> AggregateSession(st, early).prompts_classified,
   files_edited |-> AggregateSession(st, early).files_edited,
   denied |-> AggregateSession(st, early).denied]

Loaded(s) == pc[s] \in {"log", "summary", "recap", "learn", "outbox"}
Summarised(s) == pc[s] = "load" \/ Loaded(s)

\* Both readings of the run went to the end of one file.
Intact(s) == fate[s] \cap {"unread", "purged"} = {}

\* A run reads lines of its conversation, and unless it has met a purge, lines that are
\* still there.
PlacesOf(c) == {i \in DOMAIN log : log[i].conversation_id = c}
Own(first, second) ==
  \A s \in Stop :
    /\ first[s] \subseteq PlacesOf(conv[s]) /\ second[s] \subseteq PlacesOf(conv[s])
    /\ pc[s] = "idle" => first[s] = {} /\ second[s] = {}
    /\ "purged" \notin fate[s] => \A i \in first[s] \cup second[s] : i > gone

\* What a run holds in memory is what it read.
Held(first, second) ==
  \A s \in Stop :
    /\ Summarised(s) => summary[s] = AggregateSession(status[s], Restrict(log, first[s]))
    /\ Loaded(s) => /\ events[s] = Restrict(log, second[s])
                    /\ Intact(s) => first[s] \subseteq second[s]

\* So is what it has written.
Written(first, second) ==
  \A i \in DOMAIN outbox :
    LET s == outbox[i].run IN
    /\ Intact(s) => first[s] \subseteq second[s]
    /\ outbox[i] = RowFrom(s, conv[s], status[s], Restrict(log, first[s]), Restrict(log, second[s]))

Alone(s) == conv[s] \notin mixed

\* Of two runs of a conversation that is not mixed, the later one has read what the earlier
\* one had, unless there was a purge or its own reading failed.
Follows(r, s) == /\ conv[r] = conv[s] /\ Alone(s)
                 /\ "purged" \notin fate[r] /\ "unread" \notin fate[s]

InTurn(first, second) ==
  /\ \A r, s \in Stop :
       (r # s /\ UnderWay(r) /\ UnderWay(s) /\ conv[r] = conv[s]) => ~Alone(s)
  /\ \A i, j \in DOMAIN outbox :
       LET r == outbox[i].run  s == outbox[j].run IN
       (i < j /\ Follows(r, s)) => first[r] \subseteq first[s] /\ second[r] \subseteq second[s]
  /\ \A i \in DOMAIN outbox, s \in Stop :
       LET r == outbox[i].run IN
       Follows(r, s) => /\ Summarised(s) => first[r] \subseteq first[s]
                        /\ Loaded(s) => second[r] \subseteq second[s]

ReadAt(first, second) ==
  Own(first, second) /\ Held(first, second) /\ Written(first, second) /\ InTurn(first, second)

Memory == DOMAIN summary = Stop /\ DOMAIN events = Stop

RInv ==
  /\ IInv /\ TInv /\ Memory
  /\ \E first, second \in [Stop -> SUBSET DOMAIN log] : ReadAt(first, second)

-----------------------------------------------------------------------------

\* A reading of more places holds all of a reading of fewer.
LEMMA ReadingGrows ==
  ASSUME NEW lines, NEW U \in SUBSET DOMAIN lines, NEW T \in SUBSET U
  PROVE  IsRestriction(Restrict(lines, T), Restrict(lines, U))
BY DEF IsRestriction, Restrict

LEMMA ReadingFinite ==
  ASSUME NEW S, NEW lines \in Seq(S), NEW T \in SUBSET DOMAIN lines
  PROVE  IsFiniteSet(T) /\ DOMAIN Restrict(lines, T) = T
<1>1. DOMAIN lines = 1..Len(lines) /\ Len(lines) \in Nat
  OBVIOUS
<1>2. IsFiniteSet(1..Len(lines))
  BY <1>1, FS_Interval
<1> QED BY <1>1, <1>2, FS_Subset DEF Restrict

\* What is appended later does not change what was read.
LEMMA ReadingStays ==
  ASSUME NEW S, NEW lines \in Seq(S), NEW e
  PROVE  /\ DOMAIN lines \subseteq DOMAIN Append(lines, e)
         /\ \A i \in DOMAIN lines : Append(lines, e)[i] = lines[i]
         /\ \A T \in SUBSET DOMAIN lines : Restrict(Append(lines, e), T) = Restrict(lines, T)
<1>1. /\ DOMAIN lines \subseteq DOMAIN Append(lines, e)
      /\ \A i \in DOMAIN lines : Append(lines, e)[i] = lines[i]
  <2>1. lines \in Seq(S \cup {e})
    OBVIOUS
  <2> QED BY <2>1
<1> QED BY <1>1 DEF Restrict

LEMMA ImageFinite ==
  ASSUME NEW e, NEW E, IsFiniteSet(E)
  PROVE  IsFiniteSet({e[i].file : i \in E} \ {None})
<1> DEFINE F == {e[i].file : i \in E}
           g == [i \in E |-> e[i].file]
<1>1. g \in Surjection(E, F)
  BY DEF Surjection
<1>2. IsFiniteSet(F)
  BY <1>1, FS_Surjection
<1> QED BY <1>2, FS_Subset

LEMMA KindGrows ==
  ASSUME NEW e, NEW f, IsRestriction(e, f), NEW k
  PROVE  OfKind(e, k) \subseteq OfKind(f, k) /\ \A i \in OfKind(e, k) : e[i] = f[i]
BY DEF IsRestriction, OfKind

\* The counts of a summary only grow with what it is made from.
LEMMA CountsGrow ==
  ASSUME NEW e, NEW f, IsRestriction(e, f), IsFiniteSet(DOMAIN f), NEW st, NEW su
  PROVE  /\ AggregateSession(st, e).prompts_classified <= AggregateSession(su, f).prompts_classified
         /\ AggregateSession(st, e).files_edited <= AggregateSession(su, f).files_edited
         /\ InjectedPatternIds(e) \subseteq InjectedPatternIds(f)
<1> DEFINE P(x) == OfKind(x, "prompt_classified")
           E(x) == OfKind(x, "file_edited")
           F(x) == {x[i].file : i \in E(x)} \ {None}
<1>1. P(e) \subseteq P(f) /\ \A i \in P(e) : e[i] = f[i]
  BY KindGrows
<1>2. E(e) \subseteq E(f) /\ \A i \in E(e) : e[i] = f[i]
  BY KindGrows
<1>3. IsFiniteSet(P(f)) /\ IsFiniteSet(E(f))
  BY FS_Subset DEF OfKind
<1>4. Cardinality(P(e)) <= Cardinality(P(f))
  BY <1>1, <1>3, FS_Subset
<1>5. IsFiniteSet(F(f))
  BY <1>3, ImageFinite
<1>6. F(e) \subseteq F(f)
  BY <1>2
<1>7. Cardinality(F(e)) <= Cardinality(F(f))
  BY <1>5, <1>6, FS_Subset
<1>8. InjectedPatternIds(e) \subseteq InjectedPatternIds(f)
  BY <1>1 DEF InjectedPatternIds
<1> QED BY <1>4, <1>7, <1>8 DEF AggregateSession

LEMMA ErrorsGrow ==
  ASSUME NEW e, NEW f, IsRestriction(e, f), HasErrorMarkers(Corpus(e))
  PROVE  HasErrorMarkers(Corpus(f))
<1>1. Corpus(e) \subseteq Corpus(f)
  BY DEF IsRestriction, Corpus, Telling
<1> QED BY <1>1 DEF HasErrorMarkers

\* A failure that is not the status's is the text's.
LEMMA FailedByText ==
  ASSUME NEW st, NEW e, ~ExitFailed(st)
  PROVE  DeriveSessionOutcome(st, e) = "failed" => HasErrorMarkers(Corpus(e))
BY DEF DeriveSessionOutcome

LEMMA TextFails ==
  ASSUME NEW st, NEW e, HasErrorMarkers(Corpus(e))
  PROVE  DeriveSessionOutcome(st, e) = "failed"
BY DEF DeriveSessionOutcome

LEMMA SuccessWorks ==
  ASSUME NEW st, NEW e
  PROVE  DeriveSessionOutcome(st, e) = "success" => WorkDone(e) # {}
BY DEF DeriveSessionOutcome

LEMMA InitRInv == Init => RInv
<1> SUFFICES ASSUME Init PROVE RInv
  OBVIOUS
<1>1. DOMAIN outbox = {} /\ Memory
  BY DEF Init, Memory
<1> DEFINE nothing == [s \in Stop |-> {}]
<1>2. nothing \in [Stop -> SUBSET DOMAIN log]
  OBVIOUS
<1>3. \A s \in Stop : ~Summarised(s) /\ ~Loaded(s) /\ ~UnderWay(s)
  BY DEF Init, Summarised, Loaded, UnderWay
<1>4. ReadAt(nothing, nothing)
  BY <1>1, <1>3 DEF ReadAt, Own, Held, Written, InTurn
<1> QED BY <1>1, <1>2, <1>4, InitIInv, InitTInv DEF RInv

\* Runs of rows are runs, and not idle ones.
LEMMA RowRuns ==
  ASSUME RInv
  PROVE  \A i \in DOMAIN outbox : outbox[i].run \in Stop /\ pc[outbox[i].run] \notin BeforeRow
BY DEF RInv, IInv, AtMostOne, RowsOf, TInv, TypeOK

\* A step that reads nothing and writes no row: at most a line is logged, runs move on or
\* forget what they held, and something may have come in their way.
LEMMA CalmStep ==
  ASSUME RInv, IInv', TInv', log' = log \/ \E e : log' = Append(log, e),
         UNCHANGED <<gone, outbox, conv, status, mixed>>,
         DOMAIN summary' = Stop, DOMAIN events' = Stop,
         \A r \in Stop : fate[r] \subseteq fate'[r] /\ (pc'[r] = "idle" => pc[r] = "idle"),
         \A r \in Stop : UnderWay(r)' => UnderWay(r),
         \A r \in Stop : Summarised(r)' => Summarised(r) /\ summary'[r] = summary[r],
         \A r \in Stop : Loaded(r)' => Loaded(r) /\ events'[r] = events[r]
  PROVE  RInv'
<1>1. PICK S : log \in Seq(S)
  BY DEF RInv, TInv, LogTyped
<1>2. PICK first, second \in [Stop -> SUBSET DOMAIN log] : ReadAt(first, second)
  BY DEF RInv
<1>3. /\ DOMAIN log \subseteq DOMAIN log' /\ \A i \in DOMAIN log : log'[i] = log[i]
      /\ \A T \in SUBSET DOMAIN log : Restrict(log', T) = Restrict(log, T)
  <2>1. CASE log' = log
    BY <2>1
  <2>2. CASE \E e : log' = Append(log, e)
    BY <1>1, <2>2, ReadingStays
  <2> QED BY <2>1, <2>2
<1>4. first \in [Stop -> SUBSET DOMAIN log'] /\ second \in [Stop -> SUBSET DOMAIN log']
  BY <1>3
<1>5. \A s \in Stop : /\ Restrict(log', first[s]) = Restrict(log, first[s])
                      /\ Restrict(log', second[s]) = Restrict(log, second[s])
                      /\ PlacesOf(conv[s]) \subseteq PlacesOf(conv[s])'
                      /\ Intact(s)' => Intact(s)
  BY <1>3 DEF PlacesOf, Intact
<1>6. \A i \in DOMAIN outbox : outbox[i].run \in Stop
  BY RowRuns
<1>7. Own(first, second)'
  BY <1>2, <1>5 DEF ReadAt, Own
<1>8. Held(first, second)'
  BY <1>2, <1>5 DEF ReadAt, Held
<1>9. Written(first, second)'
  BY <1>2, <1>5, <1>6 DEF ReadAt, Written
<1>10. InTurn(first, second)'
  <2>1. \A r, s \in Stop : Follows(r, s)' => Follows(r, s)
    BY DEF Follows, Alone
  <2>2. \A r, s \in Stop : (r # s /\ UnderWay(r)' /\ UnderWay(s)' /\ conv'[r] = conv'[s]) => ~Alone(s)'
    BY <1>2 DEF ReadAt, InTurn, Alone
  <2> QED BY <1>2, <1>6, <2>1, <2>2 DEF ReadAt, InTurn
<1>11. Memory'
  BY DEF Memory
<1> QED BY <1>4, <1>7, <1>8, <1>9, <1>10, <1>11 DEF RInv, ReadAt

\* A purge leaves no row, and every run that has read anything is told.
LEMMA PurgeReads ==
  ASSUME RInv, IInv', TInv', Purge
  PROVE  RInv'
<1>1. PICK first, second \in [Stop -> SUBSET DOMAIN log] : ReadAt(first, second)
  BY DEF RInv
<1>2. UNCHANGED <<log, pc, conv, status, summary, events, mixed>> /\ DOMAIN outbox' = {}
  BY DEF Purge, run
<1>3. \A s \in Stop : fate[s] \subseteq fate'[s] /\ (pc[s] # "idle" => "purged" \in fate'[s])
  BY DEF Purge
<1>4. Own(first, second)'
  BY <1>1, <1>2, <1>3 DEF ReadAt, Own, PlacesOf
<1>5. Held(first, second)'
  BY <1>1, <1>2, <1>3 DEF ReadAt, Held, Summarised, Loaded, Intact
<1>6. Written(first, second)'
  BY <1>2 DEF Written
<1>7. InTurn(first, second)'
  <2>1. \A r, s \in Stop : (r # s /\ UnderWay(r)' /\ UnderWay(s)' /\ conv'[r] = conv'[s]) => ~Alone(s)'
    BY <1>1, <1>2 DEF ReadAt, InTurn, UnderWay, Alone
  <2> QED BY <1>2, <2>1 DEF InTurn
<1>8. Memory'
  BY <1>2 DEF RInv, Memory
<1> QED BY <1>2, <1>4, <1>5, <1>6, <1>7, <1>8 DEF RInv, ReadAt

\* A run that starts beside another of its conversation mixes the conversation.
LEMMA StartReads ==
  ASSUME RInv, IInv', TInv', NEW s \in Stop, Start(s)
  PROVE  RInv'
<1>1. PICK first, second \in [Stop -> SUBSET DOMAIN log] : ReadAt(first, second)
  BY DEF RInv
<1>2. /\ pc[s] = "idle" /\ pc' = [pc EXCEPT ![s] = "aggregate"]
      /\ UNCHANGED <<log, gone, summary, events, outbox, fate>>
  BY DEF Start, Goto, FilesUnchanged
<1>3. PICK c \in Conv :
        /\ conv' = [conv EXCEPT ![s] = c]
        /\ mixed' = IF \E r \in Stop : UnderWay(r) /\ conv[r] = c THEN mixed \cup {c} ELSE mixed
  BY DEF Start
<1>4. PICK st : status' = [status EXCEPT ![s] = st]
  BY DEF Start
<1>5. /\ pc'[s] = "aggregate" /\ conv'[s] = c
      /\ \A r \in Stop : r # s => pc'[r] = pc[r] /\ conv'[r] = conv[r] /\ status'[r] = status[r]
      /\ mixed \subseteq mixed'
  BY <1>2, <1>3, <1>4 DEF RInv, TInv, TypeOK
<1>6. \A i \in DOMAIN outbox : outbox[i].run \in Stop /\ outbox[i].run # s
  BY <1>2, RowRuns DEF BeforeRow
<1>7. /\ ~Summarised(s)' /\ ~Loaded(s)' /\ ~UnderWay(s) /\ first[s] = {} /\ second[s] = {}
      /\ \A r \in Stop : r # s => /\ Summarised(r)' = Summarised(r) /\ Loaded(r)' = Loaded(r)
                                  /\ UnderWay(r)' = UnderWay(r)
  BY <1>1, <1>2, <1>5 DEF Summarised, Loaded, UnderWay, ReadAt, Own
<1>8. Own(first, second)'
  BY <1>1, <1>2, <1>5, <1>7 DEF ReadAt, Own, PlacesOf
<1>9. Held(first, second)'
  BY <1>1, <1>2, <1>5, <1>7 DEF ReadAt, Held, Intact
<1>10. Written(first, second)'
  BY <1>1, <1>2, <1>5, <1>6 DEF ReadAt, Written, Intact
<1>11. \A r, q \in Stop :
         (r # q /\ UnderWay(r)' /\ UnderWay(q)' /\ conv'[r] = conv'[q]) => ~Alone(q)'
  <2>1. \A r \in Stop : (r # s /\ UnderWay(r) /\ conv[r] = c) => c \in mixed'
    BY <1>3
  <2> QED BY <2>1, <1>1, <1>5, <1>7 DEF ReadAt, InTurn, Alone
<1>12. InTurn(first, second)'
  <2>1. InTurn(first, second) /\ outbox' = outbox
    BY <1>1, <1>2 DEF ReadAt
  <2>2. \A r, q \in Stop : r # s /\ q # s /\ Follows(r, q)' => Follows(r, q)
    BY <1>2, <1>5 DEF Follows, Alone
  <2>3. ASSUME NEW i \in DOMAIN outbox, NEW j \in DOMAIN outbox, i < j,
               Follows(outbox[i].run, outbox[j].run)'
        PROVE  /\ first[outbox[i].run] \subseteq first[outbox[j].run]
               /\ second[outbox[i].run] \subseteq second[outbox[j].run]
    <3>1. Follows(outbox[i].run, outbox[j].run)
      BY <2>1, <2>2, <2>3, <1>6
    <3> QED BY <2>1, <2>3, <3>1 DEF InTurn
  <2>4. ASSUME NEW i \in DOMAIN outbox, NEW q \in Stop, Follows(outbox[i].run, q)'
        PROVE  /\ Summarised(q)' => first[outbox[i].run] \subseteq first[q]
               /\ Loaded(q)' => second[outbox[i].run] \subseteq second[q]
    <3>1. CASE q = s
      BY <3>1, <1>7
    <3>2. CASE q # s
      <4>1. Follows(outbox[i].run, q)
        BY <2>1, <2>2, <2>4, <3>2, <1>6
      <4> QED BY <2>1, <4>1, <3>2, <1>7 DEF InTurn
    <3> QED BY <3>1, <3>2
  <2> QED BY <2>1, <2>3, <2>4, <1>11 DEF InTurn
<1>13. Memory'
  BY <1>2 DEF RInv, Memory
<1> QED BY <1>2, <1>8, <1>9, <1>10, <1>12, <1>13 DEF RInv, ReadAt

\* What a reading sees: lines of its conversation that are in the file; all of them unless
\* it fails, and then the run is told.
Seen(c, n) == {i \in LinesOf(c) : i <= n}

LEMMA WhatIsSeen ==
  ASSUME TInv, NEW s \in Stop, NEW c, NEW n, ReadUpTo(s, n)
  PROVE  /\ EventsOf(c, n) = Restrict(log, Seen(c, n))
         /\ Seen(c, n) \subseteq PlacesOf(c) /\ \A i \in Seen(c, n) : i > gone
         /\ \A r \in Stop : fate[r] \subseteq fate'[r]
         /\ Seen(c, n) = LinesOf(c) \/ "unread" \in fate'[s]
<1>1. EventsOf(c, n) = Restrict(log, Seen(c, n))
  BY DEF EventsOf, Seen
<1>2. Seen(c, n) \subseteq PlacesOf(c) /\ \A i \in Seen(c, n) : i > gone
  BY DEF Seen, LinesOf, PlacesOf
<1>3. CASE n = Len(log) /\ UNCHANGED fate
  <2>1. \A i \in DOMAIN log : i <= Len(log)
    BY DEF TInv, LogTyped
  <2> QED BY <1>1, <1>2, <1>3, <2>1 DEF Seen, LinesOf
<1>4. CASE Mishap(s, "unread")
  <2>1. fate' = [fate EXCEPT ![s] = @ \cup {"unread"}] /\ fate \in [Stop -> Fates]
    BY <1>4 DEF Mishap, TInv, TypeOK, Fates, FateKinds
  <2> QED BY <1>1, <1>2, <2>1 DEF Fates
<1> QED BY <1>3, <1>4 DEF ReadUpTo

\* The first reading: no row of the conversation has seen more.
LEMMA AggregateReads ==
  ASSUME RInv, IInv', TInv', NEW s \in Stop, Aggregate(s)
  PROVE  RInv'
<1>1. PICK first, second \in [Stop -> SUBSET DOMAIN log] : ReadAt(first, second)
  BY DEF RInv
<1>2. /\ pc[s] = "aggregate" /\ pc' = [pc EXCEPT ![s] = "load"]
      /\ UNCHANGED <<log, gone, conv, status, events, outbox, mixed>>
  BY DEF Aggregate, Goto, FilesUnchanged
<1>3. PICK n : /\ ReadUpTo(s, n)
               /\ summary' = [summary EXCEPT ![s] = AggregateSession(status[s], EventsOf(conv[s], n))]
  BY DEF Aggregate
<1>4. PICK T : T = Seen(conv[s], n)
  OBVIOUS
<1>5. /\ EventsOf(conv[s], n) = Restrict(log, T)
      /\ T \subseteq PlacesOf(conv[s]) /\ \A i \in T : i > gone
      /\ \A r \in Stop : fate[r] \subseteq fate'[r]
      /\ T = LinesOf(conv[s]) \/ "unread" \in fate'[s]
  BY <1>3, <1>4, WhatIsSeen DEF RInv
<1>6. PICK now \in [Stop -> SUBSET DOMAIN log] :
        now[s] = T /\ \A r \in Stop : r # s => now[r] = first[r]
  <2>1. T \subseteq DOMAIN log
    BY <1>5 DEF PlacesOf
  <2>2. [first EXCEPT ![s] = T] \in [Stop -> SUBSET DOMAIN log]
    BY <2>1
  <2> QED BY <2>2
<1>7. /\ pc'[s] = "load"
      /\ \A r \in Stop : r # s => pc'[r] = pc[r] /\ summary'[r] = summary[r]
      /\ summary'[s] = AggregateSession(status[s], Restrict(log, T))
  BY <1>2, <1>3, <1>5 DEF RInv, Memory, TInv, TypeOK
<1>8. \A i \in DOMAIN outbox : outbox[i].run \in Stop /\ outbox[i].run # s
  BY <1>2, RowRuns DEF BeforeRow
<1>9. /\ ~Loaded(s)'
      /\ \A r \in Stop : UnderWay(r)' = UnderWay(r) /\ (Intact(r)' => Intact(r))
      /\ \A r \in Stop : r # s => Summarised(r)' = Summarised(r) /\ Loaded(r)' = Loaded(r)
      /\ \A r, q \in Stop : Follows(r, q)' => Follows(r, q)
  BY <1>2, <1>5, <1>7 DEF Summarised, Loaded, UnderWay, Intact, Follows, Alone
<1>10. Own(now, second)'
  BY <1>1, <1>2, <1>5, <1>6, <1>7 DEF ReadAt, Own, PlacesOf
<1>11. Held(now, second)'
  BY <1>1, <1>2, <1>6, <1>7, <1>9 DEF ReadAt, Held
<1>12. Written(now, second)'
  BY <1>1, <1>2, <1>6, <1>8, <1>9 DEF ReadAt, Written
<1>13. InTurn(now, second)'
  <2>1. InTurn(first, second) /\ Own(first, second)
    BY <1>1 DEF ReadAt
  <2>2. ASSUME NEW i \in DOMAIN outbox, Follows(outbox[i].run, s)'
        PROVE  first[outbox[i].run] \subseteq T
    <3> DEFINE r == outbox[i].run
    <3>1. conv[r] = conv[s] /\ "purged" \notin fate[r] /\ T = LinesOf(conv[s])
      BY <2>2, <1>2, <1>5, <1>8 DEF Follows
    <3>2. first[r] \subseteq PlacesOf(conv[s]) /\ \A p \in first[r] : p > gone
      BY <2>1, <3>1, <1>8 DEF Own
    <3> QED BY <3>1, <3>2 DEF PlacesOf, LinesOf
  <2>3. \A r, q \in Stop : (r # q /\ UnderWay(r)' /\ UnderWay(q)' /\ conv'[r] = conv'[q]) => ~Alone(q)'
    BY <2>1, <1>2, <1>9 DEF InTurn, Alone
  <2>4. \A i, j \in DOMAIN outbox :
          (i < j /\ Follows(outbox[i].run, outbox[j].run)') =>
             /\ now[outbox[i].run] \subseteq now[outbox[j].run]
             /\ second[outbox[i].run] \subseteq second[outbox[j].run]
    BY <2>1, <1>2, <1>6, <1>8, <1>9 DEF InTurn
  <2>5. \A i \in DOMAIN outbox, q \in Stop :
          Follows(outbox[i].run, q)' => /\ Summarised(q)' => now[outbox[i].run] \subseteq now[q]
                                        /\ Loaded(q)' => second[outbox[i].run] \subseteq second[q]
    BY <2>1, <2>2, <1>2, <1>6, <1>8, <1>9 DEF InTurn
  <2> QED BY <2>3, <2>4, <2>5, <1>2 DEF InTurn
<1>14. Memory'
  BY <1>2, <1>3 DEF RInv, Memory
<1> QED BY <1>2, <1>6, <1>10, <1>11, <1>12, <1>13, <1>14 DEF RInv, ReadAt

\* The second reading: it sees what the first saw, and no row of the conversation has
\* seen more.
LEMMA LoadReads ==
  ASSUME RInv, IInv', TInv', NEW s \in Stop, LoadEvents(s)
  PROVE  RInv'
<1>1. PICK first, second \in [Stop -> SUBSET DOMAIN log] : ReadAt(first, second)
  BY DEF RInv
<1>2. /\ pc[s] = "load" /\ pc' = [pc EXCEPT ![s] = "log"]
      /\ UNCHANGED <<log, gone, conv, status, summary, outbox, mixed>>
  BY DEF LoadEvents, Goto, FilesUnchanged
<1>3. PICK n : /\ ReadUpTo(s, n)
               /\ events' = [events EXCEPT ![s] = EventsOf(conv[s], n)]
  BY DEF LoadEvents
<1>4. PICK T : T = Seen(conv[s], n)
  OBVIOUS
<1>5. /\ EventsOf(conv[s], n) = Restrict(log, T)
      /\ T \subseteq PlacesOf(conv[s]) /\ \A i \in T : i > gone
      /\ \A r \in Stop : fate[r] \subseteq fate'[r]
      /\ T = LinesOf(conv[s]) \/ "unread" \in fate'[s]
  BY <1>3, <1>4, WhatIsSeen DEF RInv
<1>6. PICK now \in [Stop -> SUBSET DOMAIN log] :
        now[s] = T /\ \A r \in Stop : r # s => now[r] = second[r]
  <2>1. T \subseteq DOMAIN log
    BY <1>5 DEF PlacesOf
  <2>2. [second EXCEPT ![s] = T] \in [Stop -> SUBSET DOMAIN log]
    BY <2>1
  <2> QED BY <2>2
<1>7. /\ pc'[s] = "log"
      /\ \A r \in Stop : r # s => pc'[r] = pc[r] /\ events'[r] = events[r]
      /\ events'[s] = Restrict(log, T)
  BY <1>2, <1>3, <1>5 DEF RInv, Memory, TInv, TypeOK
<1>8. \A i \in DOMAIN outbox : outbox[i].run \in Stop /\ outbox[i].run # s
  BY <1>2, RowRuns DEF BeforeRow
<1>9. /\ Summarised(s) /\ \A r \in Stop : UnderWay(r)' = UnderWay(r) /\ Summarised(r)' = Summarised(r)
      /\ \A r \in Stop : Intact(r)' => Intact(r)
      /\ \A r \in Stop : r # s => Loaded(r)' = Loaded(r)
      /\ \A r, q \in Stop : Follows(r, q)' => Follows(r, q)
  BY <1>2, <1>5, <1>7 DEF Summarised, Loaded, UnderWay, Intact, Follows, Alone
<1>10. Intact(s)' => first[s] \subseteq T
  <2> SUFFICES ASSUME Intact(s)' PROVE first[s] \subseteq T
    OBVIOUS
  <2>1. T = LinesOf(conv[s]) /\ "purged" \notin fate[s]
    BY <1>5 DEF Intact
  <2>2. first[s] \subseteq PlacesOf(conv[s]) /\ \A p \in first[s] : p > gone
    BY <2>1, <1>1 DEF ReadAt, Own
  <2> QED BY <2>1, <2>2 DEF PlacesOf, LinesOf
<1>11. Own(first, now)'
  BY <1>1, <1>2, <1>5, <1>6, <1>7 DEF ReadAt, Own, PlacesOf
<1>12. Held(first, now)'
  BY <1>1, <1>2, <1>6, <1>7, <1>9, <1>10 DEF ReadAt, Held
<1>13. Written(first, now)'
  BY <1>1, <1>2, <1>6, <1>8, <1>9 DEF ReadAt, Written
<1>14. InTurn(first, now)'
  <2>1. InTurn(first, second) /\ Own(first, second)
    BY <1>1 DEF ReadAt
  <2>2. ASSUME NEW i \in DOMAIN outbox, Follows(outbox[i].run, s)'
        PROVE  second[outbox[i].run] \subseteq T
    <3> DEFINE r == outbox[i].run
    <3>1. conv[r] = conv[s] /\ "purged" \notin fate[r] /\ T = LinesOf(conv[s])
      BY <2>2, <1>2, <1>5, <1>8 DEF Follows
    <3>2. second[r] \subseteq PlacesOf(conv[s]) /\ \A p \in second[r] : p > gone
      BY <2>1, <3>1, <1>8 DEF Own
    <3> QED BY <3>1, <3>2 DEF PlacesOf, LinesOf
  <2>3. \A r, q \in Stop : (r # q /\ UnderWay(r)' /\ UnderWay(q)' /\ conv'[r] = conv'[q]) => ~Alone(q)'
    BY <2>1, <1>2, <1>9 DEF InTurn, Alone
  <2>4. \A i, j \in DOMAIN outbox :
          (i < j /\ Follows(outbox[i].run, outbox[j].run)') =>
             /\ first[outbox[i].run] \subseteq first[outbox[j].run]
             /\ now[outbox[i].run] \subseteq now[outbox[j].run]
    BY <2>1, <1>2, <1>6, <1>8, <1>9 DEF InTurn
  <2>5. \A i \in DOMAIN outbox, q \in Stop :
          Follows(outbox[i].run, q)' => /\ Summarised(q)' => first[outbox[i].run] \subseteq first[q]
                                        /\ Loaded(q)' => now[outbox[i].run] \subseteq now[q]
    BY <2>1, <2>2, <1>2, <1>6, <1>8, <1>9 DEF InTurn
  <2> QED BY <2>3, <2>4, <2>5, <1>2 DEF InTurn
<1>15. Memory'
  BY <1>2, <1>3 DEF RInv, Memory
<1> QED BY <1>2, <1>6, <1>11, <1>12, <1>13, <1>14, <1>15 DEF RInv, ReadAt

\* The row is made of the two readings of its run, and comes after all rows of the
\* conversation that have seen less.
LEMMA RowReads ==
  ASSUME RInv, IInv', TInv', NEW s \in Stop, pc[s] = "outbox", pc' = [pc EXCEPT ![s] = "outcome"],
         outbox' = Append(outbox, Payload(s)),
         UNCHANGED <<log, gone, conv, status, summary, events, fate, mixed>>
  PROVE  RInv'
<1>1. PICK S : outbox \in Seq(S)
  BY DEF RInv, TInv, OutboxTyped
<1>2. PICK first, second \in [Stop -> SUBSET DOMAIN log] : ReadAt(first, second)
  BY DEF RInv
<1> DEFINE n == Len(outbox) + 1
<1>3. /\ DOMAIN outbox = 1..Len(outbox) /\ Len(outbox) \in Nat
      /\ DOMAIN outbox' = DOMAIN outbox \cup {n} /\ outbox'[n] = Payload(s)
      /\ \A i \in DOMAIN outbox : i < n /\ outbox'[i] = outbox[i]
  <2>1. outbox \in Seq(S \cup {Payload(s)})
    BY <1>1
  <2> QED BY <2>1
<1>4. /\ pc'[s] = "outcome" /\ \A r \in Stop : r # s => pc'[r] = pc[r]
  BY DEF RInv, TInv, TypeOK
<1>5. /\ Loaded(s) /\ Summarised(s) /\ UnderWay(s) /\ ~Summarised(s)' /\ ~Loaded(s)'
      /\ \A r \in Stop : UnderWay(r)' = UnderWay(r)
      /\ \A r \in Stop : r # s => Summarised(r)' = Summarised(r) /\ Loaded(r)' = Loaded(r)
      /\ \A r \in Stop : Loaded(r) => Summarised(r)
      /\ \A r \in Stop : Summarised(r) => UnderWay(r)
      /\ \A r, q \in Stop : Follows(r, q)' = Follows(r, q)
      /\ \A r \in Stop : Intact(r)' = Intact(r)
  BY <1>4 DEF Summarised, Loaded, UnderWay, Follows, Alone, Intact
<1>6. /\ Payload(s) = RowFrom(s, conv[s], status[s], Restrict(log, first[s]), Restrict(log, second[s]))
      /\ Intact(s) => first[s] \subseteq second[s]
  BY <1>2, <1>5 DEF ReadAt, Held, Payload, RowFrom
<1>7. Payload(s).run = s
  BY PayloadRun
<1>8. \A i \in DOMAIN outbox : outbox[i].run \in Stop
  BY RowRuns
<1>9. Own(first, second)'
  BY <1>2, <1>4 DEF ReadAt, Own, PlacesOf
<1>10. Held(first, second)'
  BY <1>2, <1>5 DEF ReadAt, Held
<1>11. Written(first, second)'
  BY <1>2, <1>3, <1>5, <1>6, <1>7, <1>8 DEF ReadAt, Written
<1>12. InTurn(first, second)'
  <2> DEFINE Grown(r, q) == first[r] \subseteq first[q] /\ second[r] \subseteq second[q]
  <2>1. \A r, q \in Stop :
          (r # q /\ UnderWay(r)' /\ UnderWay(q)' /\ conv'[r] = conv'[q]) => ~Alone(q)'
    BY <1>2, <1>5 DEF ReadAt, InTurn, Alone
  <2>2. ASSUME NEW i \in DOMAIN outbox', NEW j \in DOMAIN outbox', i < j,
               Follows(outbox'[i].run, outbox'[j].run)
        PROVE  Grown(outbox'[i].run, outbox'[j].run)
    <3>1. i \in DOMAIN outbox
      BY <2>2, <1>3, SMT
    <3>2. outbox'[i] = outbox[i] /\ InTurn(first, second)
      BY <3>1, <1>2, <1>3 DEF ReadAt
    <3>3. CASE j \in DOMAIN outbox
      <4>1. outbox'[j] = outbox[j]
        BY <3>3, <1>3
      <4>2. Follows(outbox[i].run, outbox[j].run)
        BY <2>2, <3>1, <3>2, <3>3, <4>1, <1>5, <1>8
      <4> QED BY <2>2, <3>1, <3>2, <3>3, <4>1, <4>2 DEF InTurn
    <3>4. CASE j = n
      <4>1. outbox'[j].run = s
        BY <3>4, <1>3, <1>7
      <4>2. Follows(outbox[i].run, s)
        BY <2>2, <3>1, <3>2, <4>1, <1>5, <1>8
      <4> QED BY <3>1, <3>2, <4>1, <4>2, <1>5 DEF InTurn
    <3> QED BY <3>3, <3>4, <1>3
  <2>3. ASSUME NEW i \in DOMAIN outbox', NEW q \in Stop, Follows(outbox'[i].run, q)
        PROVE  /\ Summarised(q)' => first[outbox'[i].run] \subseteq first[q]
               /\ Loaded(q)' => second[outbox'[i].run] \subseteq second[q]
    <3>1. CASE i \in DOMAIN outbox
      <4>1. outbox'[i] = outbox[i] /\ Follows(outbox[i].run, q)
        BY <2>3, <3>1, <1>3, <1>5, <1>8
      <4> QED BY <4>1, <3>1, <1>2, <1>5 DEF ReadAt, InTurn
    <3>2. CASE i = n
      <4>1. outbox'[i].run = s /\ Follows(s, q)
        BY <2>3, <3>2, <1>3, <1>5, <1>7
      <4>2. CASE q = s
        BY <4>2, <1>5
      <4>3. CASE q # s
        <5>1. ~UnderWay(q)
          BY <4>1, <4>3, <1>2, <1>5 DEF ReadAt, InTurn, Follows
        <5> QED BY <5>1, <4>3, <1>5
      <4> QED BY <4>2, <4>3
    <3> QED BY <3>1, <3>2, <1>3
  <2>4. \A i \in DOMAIN outbox' : outbox'[i].run \in Stop
    BY <1>3, <1>7, <1>8
  <2> QED BY <2>1, <2>2, <2>3, <2>4, <1>5 DEF InTurn
<1>13. Memory'
  BY DEF RInv, Memory
<1> QED BY <1>9, <1>10, <1>11, <1>12, <1>13 DEF RInv, ReadAt

\* What comes in the way of a run stays.
LEMMA FateGrows ==
  ASSUME TInv, NEW s \in Stop, NEW k \in FateKinds,
         fate' \in {fate, [fate EXCEPT ![s] = @ \cup {k}]}
  PROVE  \A r \in Stop : fate[r] \subseteq fate'[r]
BY DEF TInv, TypeOK

LEMMA NextKeepsRInv == RInv /\ [Next]_vars => RInv'
<1> SUFFICES ASSUME RInv, [Next]_vars PROVE RInv'
  OBVIOUS
<1>1. IInv' /\ TInv'
  BY NextKeepsIInv, NextKeepsTInv DEF RInv
<1>2. pc \in [Stop -> Places] /\ DOMAIN summary = Stop /\ DOMAIN events = Stop /\ TInv
  BY DEF RInv, TInv, TypeOK, Places, Memory
<1>3. CASE LogEvent \/ Tick \/ UNCHANGED vars
  <2>1. /\ UNCHANGED <<gone, pc, outbox, conv, status, mixed, summary, events, fate>>
        /\ log' = log \/ \E e : log' = Append(log, e)
    BY <1>3 DEF LogEvent, Tick, FilesUnchanged, vars, run
  <2> QED BY <1>1, <1>2, <2>1, CalmStep DEF UnderWay, Summarised, Loaded
<1>4. ASSUME NEW s \in Stop, Start(s) PROVE RInv'
  BY <1>1, <1>4, StartReads
<1>5. ASSUME NEW s \in Stop, Aggregate(s) PROVE RInv'
  BY <1>1, <1>5, AggregateReads
<1>6. ASSUME NEW s \in Stop, LoadEvents(s) PROVE RInv'
  BY <1>1, <1>6, LoadReads
<1>7. ASSUME NEW s \in Stop, NEW to \in Places \ {"idle", "load"}, NEW k \in FateKinds,
             pc' = [pc EXCEPT ![s] = to], pc[s] \notin {"idle", "aggregate", "load", "done"},
             Loaded(s) \/ to \notin {"log", "summary", "recap", "learn", "outbox"},
             UNCHANGED <<gone, outbox, conv, status, mixed, summary, events>>,
             fate' \in {fate, [fate EXCEPT ![s] = @ \cup {k}]},
             log' = log \/ \E e : log' = Append(log, e)
      PROVE  RInv'
  <2>1. pc'[s] = to /\ \A r \in Stop : r # s => pc'[r] = pc[r]
    BY <1>2, <1>7
  <2>2. /\ \A r \in Stop : UnderWay(r)' => UnderWay(r)
        /\ \A r \in Stop : Summarised(r)' => Summarised(r) /\ summary'[r] = summary[r]
        /\ \A r \in Stop : Loaded(r)' => Loaded(r) /\ events'[r] = events[r]
        /\ \A r \in Stop : pc'[r] = "idle" => pc[r] = "idle"
    BY <1>7, <2>1 DEF UnderWay, Summarised, Loaded
  <2>3. \A r \in Stop : fate[r] \subseteq fate'[r]
    BY <1>2, <1>7, FateGrows
  <2> QED BY <1>1, <1>2, <1>7, <2>2, <2>3, CalmStep
<1>8. ASSUME NEW s \in Stop, UnderWay(s), End(s), UNCHANGED <<log, gone, outbox, mixed>>,
             NEW k \in FateKinds, fate' \in {fate, [fate EXCEPT ![s] = @ \cup {k}]}
      PROVE  RInv'
  <2>1. /\ pc'[s] = "done" /\ UNCHANGED <<conv, status>>
        /\ DOMAIN summary' = Stop /\ DOMAIN events' = Stop
        /\ \A r \in Stop : r # s => /\ pc'[r] = pc[r] /\ summary'[r] = summary[r]
                                    /\ events'[r] = events[r]
    BY <1>2, <1>8 DEF End
  <2>2. /\ \A r \in Stop : UnderWay(r)' => UnderWay(r)
        /\ \A r \in Stop : Summarised(r)' => Summarised(r) /\ summary'[r] = summary[r]
        /\ \A r \in Stop : Loaded(r)' => Loaded(r) /\ events'[r] = events[r]
        /\ \A r \in Stop : pc'[r] = "idle" => pc[r] = "idle"
    BY <1>8, <2>1 DEF UnderWay, Summarised, Loaded
  <2>3. \A r \in Stop : fate[r] \subseteq fate'[r]
    BY <1>2, <1>8, FateGrows
  <2> QED BY <1>1, <1>8, <2>1, <2>2, <2>3, CalmStep
<1>9. ASSUME NEW s \in Stop, LogStopped(s) PROVE RInv'
  <2>1. fate' \in {fate, [fate EXCEPT ![s] = @ \cup {"io"}]}
    BY <1>9 DEF LogStopped, Fails, Mishap
  <2> QED BY <1>7, <1>9, <2>1 DEF LogStopped, Goto, FilesUnchanged, run, Places, Loaded, FateKinds
<1>10. ASSUME NEW s \in Stop, WriteSummary(s) PROVE RInv'
  <2>1. fate' \in {fate, [fate EXCEPT ![s] = @ \cup {"io"}]}
    BY <1>10 DEF WriteSummary, Fails, Mishap
  <2> QED BY <1>7, <1>10, <2>1 DEF WriteSummary, Goto, run, Places, Loaded, FateKinds
<1>11. ASSUME NEW s \in Stop, WriteRecap(s) PROVE RInv'
  <2>1. fate' \in {fate, [fate EXCEPT ![s] = @ \cup {"io"}]}
    BY <1>11 DEF WriteRecap, Fails, Mishap
  <2> QED BY <1>7, <1>11, <2>1 DEF WriteRecap, Goto, run, Places, Loaded, FateKinds
<1>12. ASSUME NEW s \in Stop, Learn(s) PROVE RInv'
  <2>1. /\ pc[s] = "learn" /\ UNCHANGED <<log, gone, outbox, mixed>>
        /\ \/ End(s) /\ fate' \in {fate, [fate EXCEPT ![s] = @ \cup {"raised"}]}
           \/ /\ Goto(s, "learn", "outbox") /\ UNCHANGED run
              /\ fate' \in {fate, [fate EXCEPT ![s] = @ \cup {"io"}]}
    BY <1>12 DEF Learn, Fails, Mishap
  <2>2. CASE End(s) /\ fate' \in {fate, [fate EXCEPT ![s] = @ \cup {"raised"}]}
    BY <1>8, <2>1, <2>2 DEF UnderWay, FateKinds
  <2>3. CASE /\ Goto(s, "learn", "outbox") /\ UNCHANGED run
             /\ fate' \in {fate, [fate EXCEPT ![s] = @ \cup {"io"}]}
    BY <1>7, <2>1, <2>3 DEF Goto, run, Places, Loaded, FateKinds
  <2> QED BY <2>1, <2>2, <2>3
<1>13. ASSUME NEW s \in Stop, WriteSessionOutcome(s) PROVE RInv'
  <2>1. /\ pc[s] = "outbox" /\ pc' = [pc EXCEPT ![s] = "outcome"]
        /\ UNCHANGED <<log, gone, conv, status, summary, events, mixed>>
        /\ \/ outbox' = Append(outbox, Payload(s)) /\ UNCHANGED fate
           \/ outbox' = outbox /\ fate' = [fate EXCEPT ![s] = @ \cup {"noRow"}]
    BY <1>13 DEF WriteSessionOutcome, Goto, run, Mishap
  <2>2. CASE outbox' = Append(outbox, Payload(s)) /\ UNCHANGED fate
    BY <1>1, <2>1, <2>2, RowReads
  <2>3. CASE outbox' = outbox /\ fate' = [fate EXCEPT ![s] = @ \cup {"noRow"}]
    BY <1>7, <2>1, <2>3 DEF Places, Loaded, FateKinds
  <2> QED BY <2>1, <2>2, <2>3
<1>14. ASSUME NEW s \in Stop, EmitOutcome(s) \/ EmitMetrics(s) \/ EmitScoring(s) PROVE RInv'
  <2>1. /\ pc[s] \in {"outcome", "metrics", "scoring"} /\ UNCHANGED <<log, gone, outbox, mixed, fate>>
        /\ \/ End(s)
           \/ \E to \in {"metrics", "scoring"} : pc' = [pc EXCEPT ![s] = to] /\ UNCHANGED run
    BY <1>14 DEF EmitOutcome, EmitMetrics, EmitScoring, Emit, Goto
  <2>2. CASE End(s)
    BY <1>8, <2>1, <2>2 DEF UnderWay, FateKinds
  <2>3. ASSUME NEW to \in {"metrics", "scoring"}, pc' = [pc EXCEPT ![s] = to], UNCHANGED run
        PROVE  RInv'
    BY <1>7, <2>1, <2>3 DEF run, Places, FateKinds
  <2> QED BY <2>1, <2>2, <2>3
<1>15. ASSUME NEW s \in Stop, Kill(s) PROVE RInv'
  <2>1. fate' \in {fate, [fate EXCEPT ![s] = @ \cup {"killed"}]}
    BY <1>15 DEF Kill, Mishap
  <2> QED BY <1>8, <1>15, <2>1 DEF Kill, FilesUnchanged, FateKinds
<1>16. CASE Purge
  BY <1>1, <1>16, PurgeReads
<1> QED
  BY <1>3, <1>4, <1>5, <1>6, <1>9, <1>10, <1>11, <1>12, <1>13, <1>14, <1>15, <1>16
     DEF Next, StopStep

-----------------------------------------------------------------------------

\* The prompts of a reading are prompts of its conversation.
LEMMA PromptsRead ==
  ASSUME NEW c, NEW T \in SUBSET PlacesOf(c)
  PROVE  /\ OfKind(Restrict(log, T), "prompt_classified") \subseteq PromptsOf(c)
         /\ \A k \in T : Restrict(log, T)[k] = log[k]
BY DEF PlacesOf, OfKind, PromptsOf, Restrict

\* A row is built from two readings of the log, and still every pattern it names was
\* listed by a prompt of its conversation, and every prompt it counts, unless a reading
\* was not whole, is among them.
THEOREM CoverTheorem == Spec => []RowsCoverTheirPrompts
<1>1. RInv => RowsCoverTheirPrompts
  <2> SUFFICES ASSUME RInv, NEW i \in DOMAIN outbox
               PROVE  \E named \in SUBSET PromptsOf(outbox[i].conversation_id) :
                        /\ outbox[i].injected_pattern_ids
                             = UNION {log[j].injected_pattern_ids : j \in named}
                        /\ \E counted \in SUBSET PromptsOf(outbox[i].conversation_id) :
                             /\ outbox[i].prompts_classified = Cardinality(counted)
                             /\ counted \subseteq named
                                  \/ fate[outbox[i].run] \cap {"unread", "purged"} # {}
    BY DEF RowsCoverTheirPrompts
  <2>1. PICK first, second \in [Stop -> SUBSET DOMAIN log] :
          Own(first, second) /\ Written(first, second)
    BY DEF RInv, ReadAt
  <2> DEFINE s == outbox[i].run
             c == conv[s]
             early == Restrict(log, first[s])
             late == Restrict(log, second[s])
             named == OfKind(late, "prompt_classified")
             counted == OfKind(early, "prompt_classified")
  <2>2. s \in Stop
    BY RowRuns
  <2>3. /\ Intact(s) => first[s] \subseteq second[s]
        /\ outbox[i] = RowFrom(s, c, status[s], early, late)
    BY <2>1 DEF Written
  <2>4. first[s] \subseteq PlacesOf(c) /\ second[s] \subseteq PlacesOf(c)
    BY <2>1, <2>2 DEF Own
  <2>5. named \subseteq PromptsOf(c) /\ \A j \in named : late[j] = log[j]
    BY <2>4, PromptsRead DEF OfKind, Restrict
  <2>6. counted \subseteq PromptsOf(c)
    BY <2>4, PromptsRead
  <2>7. counted \subseteq named \/ fate[s] \cap {"unread", "purged"} # {}
    <3>1. CASE Intact(s)
      <4>1. second[s] \subseteq DOMAIN log
        BY <2>1, <2>2
      <4>2. IsRestriction(early, late)
        BY <2>3, <3>1, <4>1, ReadingGrows
      <4> QED BY <4>2, KindGrows
    <3> QED BY <3>1 DEF Intact
  <2>8. /\ outbox[i].conversation_id = c
        /\ outbox[i].prompts_classified = Cardinality(counted)
        /\ outbox[i].injected_pattern_ids = UNION {late[j].injected_pattern_ids : j \in named}
    BY <2>3 DEF RowFrom, AggregateSession, InjectedPatternIds
  <2>9. UNION {late[j].injected_pattern_ids : j \in named}
          = UNION {log[j].injected_pattern_ids : j \in named}
    BY <2>5
  <2> QED BY <2>5, <2>6, <2>7, <2>8, <2>9
<1> QED BY <1>1, InitRInv, NextKeepsRInv, PTL DEF Spec

\* Where no two runs of a conversation were under way at once, a later row counts and
\* names at least what an earlier one did, and a failure by text stays one; unless the
\* store was purged after the earlier run began or a reading of the later one failed.
THEOREM CumulativeTheorem == Spec => []RowsCumulative
<1>1. RInv => RowsCumulative
  <2> SUFFICES ASSUME RInv, NEW i \in DOMAIN outbox, NEW j \in DOMAIN outbox, i < j,
                      outbox[i].conversation_id = outbox[j].conversation_id,
                      outbox[i].conversation_id \notin mixed,
                      "purged" \notin fate[outbox[i].run],
                      "unread" \notin fate[outbox[j].run]
               PROVE  /\ outbox[i].prompts_classified <= outbox[j].prompts_classified
                      /\ outbox[i].files_edited <= outbox[j].files_edited
                      /\ outbox[i].injected_pattern_ids \subseteq outbox[j].injected_pattern_ids
                      /\ (outbox[i].session_outcome = "failed" /\ ~outbox[i].by_status)
                           => outbox[j].session_outcome = "failed"
    BY DEF RowsCumulative
  <2>1. PICK S : log \in Seq(S)
    BY DEF RInv, TInv, LogTyped
  <2>2. PICK first, second \in [Stop -> SUBSET DOMAIN log] :
          Written(first, second) /\ InTurn(first, second)
    BY DEF RInv, ReadAt
  <2> DEFINE r == outbox[i].run
             s == outbox[j].run
             rearly == Restrict(log, first[r])
             rlate == Restrict(log, second[r])
             searly == Restrict(log, first[s])
             slate == Restrict(log, second[s])
  <2>3. r \in Stop /\ s \in Stop
    BY RowRuns
  <2>4. /\ outbox[i] = RowFrom(r, conv[r], status[r], rearly, rlate)
        /\ outbox[j] = RowFrom(s, conv[s], status[s], searly, slate)
    BY <2>2 DEF Written
  <2>5. Follows(r, s)
    BY <2>4 DEF RowFrom, Follows, Alone
  <2>6. /\ first[r] \subseteq first[s] /\ second[r] \subseteq second[s]
        /\ first[s] \subseteq DOMAIN log /\ second[s] \subseteq DOMAIN log
    BY <2>2, <2>3, <2>5 DEF InTurn
  <2>7. IsRestriction(rearly, searly) /\ IsFiniteSet(DOMAIN searly)
    BY <2>1, <2>6, ReadingGrows, ReadingFinite
  <2>8. IsRestriction(rlate, slate) /\ IsFiniteSet(DOMAIN slate)
    BY <2>1, <2>6, ReadingGrows, ReadingFinite
  <2>9. /\ AggregateSession(status[r], rearly).prompts_classified
             <= AggregateSession(status[s], searly).prompts_classified
        /\ AggregateSession(status[r], rearly).files_edited
             <= AggregateSession(status[s], searly).files_edited
    BY <2>7, CountsGrow
  <2>10. InjectedPatternIds(rlate) \subseteq InjectedPatternIds(slate)
    BY <2>8, CountsGrow
  <2>11. /\ AggregateSession(status[r], rearly).session_outcome
              = DeriveSessionOutcome(status[r], rearly)
         /\ AggregateSession(status[s], searly).session_outcome
              = DeriveSessionOutcome(status[s], searly)
    BY DEF AggregateSession
  <2>12. (DeriveSessionOutcome(status[r], rearly) = "failed" /\ ~ExitFailed(status[r]))
            => DeriveSessionOutcome(status[s], searly) = "failed"
    BY <2>7, FailedByText, ErrorsGrow, TextFails
  <2> HIDE DEF r, s, rearly, rlate, searly, slate
  <2> QED BY <2>4, <2>9, <2>10, <2>11, <2>12 DEF RowFrom
<1> QED BY <1>1, InitRInv, NextKeepsRInv, PTL DEF Spec

\* Loops, tools and commands never make a success: a row that speaks of one counts a
\* prompt or an edited file, unless the work was an edit without a path.
THEOREM SuccessTheorem == Spec => []SuccessHasWork
<1>1. RInv => SuccessHasWork
  <2> SUFFICES ASSUME RInv, NEW i \in DOMAIN outbox, outbox[i].session_outcome = "success",
                      ~\E j \in OfKind(log, "file_edited") :
                          /\ log[j].conversation_id = outbox[i].conversation_id
                          /\ log[j].file = None
               PROVE  outbox[i].prompts_classified + outbox[i].files_edited > 0
    BY DEF SuccessHasWork
  <2>1. PICK S : log \in Seq(S)
    BY DEF RInv, TInv, LogTyped
  <2>2. PICK first, second \in [Stop -> SUBSET DOMAIN log] :
          Own(first, second) /\ Written(first, second)
    BY DEF RInv, ReadAt
  <2> DEFINE s == outbox[i].run
             early == Restrict(log, first[s])
             late == Restrict(log, second[s])
             P == OfKind(early, "prompt_classified")
             E == OfKind(early, "file_edited")
             F == {early[k].file : k \in E} \ {None}
  <2>3. outbox[i] = RowFrom(s, conv[s], status[s], early, late)
    BY <2>2 DEF Written
  <2>4. /\ outbox[i].session_outcome = DeriveSessionOutcome(status[s], early)
        /\ outbox[i].prompts_classified = Cardinality(P)
        /\ outbox[i].files_edited = Cardinality(F)
        /\ outbox[i].conversation_id = conv[s]
    BY <2>3 DEF RowFrom, AggregateSession
  <2>5. first[s] \subseteq PlacesOf(conv[s]) /\ first[s] \subseteq DOMAIN log
    BY <2>2, RowRuns DEF Own
  <2>6. P # {} \/ F # {}
    <3>1. P # {} \/ E # {}
      BY <2>4, SuccessWorks DEF WorkDone
    <3>2. \A k \in E : early[k].file # None
      <4> SUFFICES ASSUME NEW k \in E PROVE early[k].file # None
        OBVIOUS
      <4>1. k \in first[s] /\ early[k] = log[k] /\ log[k].event = "file_edited"
        BY DEF OfKind, Restrict
      <4>2. k \in OfKind(log, "file_edited") /\ log[k].conversation_id = conv[s]
        BY <4>1, <2>5 DEF OfKind, PlacesOf
      <4> QED BY <4>1, <4>2, <2>4
    <3> QED BY <3>1, <3>2
  <2>7. IsFiniteSet(P) /\ IsFiniteSet(E)
    <3>1. IsFiniteSet(DOMAIN early)
      BY <2>1, <2>5, ReadingFinite
    <3> QED BY <3>1, FS_Subset DEF OfKind
  <2>8. IsFiniteSet(F)
    BY <2>7, ImageFinite
  <2> HIDE DEF P, F
  <2>9. Cardinality(P) \in Nat /\ Cardinality(F) \in Nat
    BY <2>7, <2>8, FS_CardinalityType
  <2>10. Cardinality(P) # 0 \/ Cardinality(F) # 0
    BY <2>6, <2>7, <2>8, FS_EmptySet
  <2> QED BY <2>4, <2>9, <2>10
<1> QED BY <1>1, InitRInv, NextKeepsRInv, PTL DEF Spec

=============================================================================
