----------------------------- MODULE PromptProofs -----------------------------
(***************************************************************************)
(* Proofs about what a prompt gets (ContextInjection, Routing).            *)
(*                                                                         *)
(* Context injection, for any hooks, conversations, lists and bounds: what *)
(* a hook injects comes from one list that was there, and is the best of   *)
(* it for a prompt; the prior session was ahead of all others when the     *)
(* files were listed.                                                      *)
(***************************************************************************)
EXTENDS ContextInjection, Routing, OrderLemmas
-----------------------------------------------------------------------------
(* Types.  Times never pass the clock. *)

World ==
    /\ learned \in Versions \cup {Absent}
    /\ torn \subseteq Conversations /\ clock \in 0..MaxClock
    /\ mtime \in [Conversations -> -1..MaxClock] /\ \A c \in Conversations : mtime[c] <= clock

Hook ==
    /\ pc \in [Hooks -> {"idle", "ask", "choose", "warm", "filter", "list", "stat", "read", "done"}]
    /\ kind \in [Hooks -> Kinds] /\ domain \in [Hooks -> Domains]
    /\ source \in [Hooks -> {"none", "seed", "learned"}]
    /\ unseen \in [Hooks -> SUBSET Conversations]
    /\ best \in [Hooks -> [of : Conversations \cup {"none"}, time : -1..MaxClock]]
    /\ prior \in [Hooks -> Conversations \cup {"none"}]
    /\ listed \in [Hooks -> [Conversations -> -1..MaxClock]]
    /\ raw = [h \in Hooks |-> raw[h]] /\ patterns = [h \in Hooks |-> patterns[h]]
    /\ sources = [h \in Hooks |-> sources[h]]

LEMMA InitTyped == Init => World /\ Hook
<1> SUFFICES ASSUME Init PROVE World /\ Hook
  OBVIOUS
<1>1. 0 \in 0..MaxClock /\ -1 \in -1..MaxClock /\ {-1, 0} \subseteq -1..MaxClock
  BY BoundsAssumption
<1>2. World
  BY <1>1 DEF Init, World
<1>3. best \in [Hooks -> [of : Conversations \cup {"none"}, time : -1..MaxClock]]
  BY <1>1 DEF Init, NoFile
<1> QED
  BY <1>1, <1>2, <1>3 DEF Init, Hook

LEMMA WorldStep ==
    ASSUME World, SaveLearned \/ Tick \/ \E c \in Conversations : WriteSession(c)
    PROVE  /\ World' /\ UNCHANGED local
           /\ \A c \in Conversations : mtime[c] <= mtime'[c]
           /\ sources' = sources \/ sources' = [h \in Hooks |-> sources'[h]]
<1> USE BoundsAssumption DEF World
<1>1. CASE SaveLearned
  BY <1>1 DEF SaveLearned
<1>2. CASE Tick
  <2>1. clock' \in 0..MaxClock /\ clock <= clock' /\ mtime' = mtime
    BY <1>2 DEF Tick
  <2> QED
    BY <1>2, <2>1 DEF Tick
<1>3. ASSUME NEW c \in Conversations, WriteSession(c) PROVE World' /\ UNCHANGED <<local, sources>>
                                                        /\ \A d \in Conversations : mtime[d] <= mtime'[d]
  BY <1>3 DEF WriteSession
<1> QED
  BY <1>1, <1>2, <1>3

\* A step of a hook leaves the files as they are and keeps its types.
LEMMA HookTyped ==
    ASSUME World, Hook, NEW h \in Hooks, HookStep(h)
    PROVE  UNCHANGED world /\ Hook'
<1> USE DEF Hook, Goto
<1>1. CASE Fire(h) \/ Ask(h) \/ Choose(h) \/ Warm(h) \/ Filter(h)
  <2>0. CASE Fire(h)
    BY <2>0 DEF Fire
  <2>1. CASE Choose(h)
    <3>1. source' \in [Hooks -> {"none", "seed", "learned"}]
      BY <2>1 DEF Choose
    <3> QED
      BY <2>1, <3>1 DEF Choose
  <2>2. CASE Ask(h)
    BY <2>2 DEF Ask
  <2>3. CASE Warm(h)
    BY <2>3 DEF Warm
  <2>4. CASE Filter(h)
    BY <2>4 DEF Filter
  <2> QED
    BY <1>1, <2>0, <2>1, <2>2, <2>3, <2>4
<1>2. CASE ListSessions(h)
  BY <1>2 DEF ListSessions, Candidates, World
<1>3. CASE Stat(h)
  <2>1. PICK c \in unseen[h] :
          /\ unseen' = [unseen EXCEPT ![h] = @ \ {c}]
          /\ best' = [best EXCEPT ![h] = IF Newer(mtime[c], @) THEN [of |-> c, time |-> mtime[c]] ELSE @]
    BY <1>3 DEF Stat
  <2>2. c \in Conversations /\ mtime[c] \in -1..MaxClock
    BY DEF World
  <2>3. best' \in [Hooks -> [of : Conversations \cup {"none"}, time : -1..MaxClock]]
    BY <2>1, <2>2
  <2> QED
    BY <1>3, <2>1, <2>3 DEF Stat
<1>4. CASE ReadPrior(h)
  <2>1. best[h].of \in Conversations \cup {"none"}
    OBVIOUS
  <2> QED
    BY <1>4, <2>1 DEF ReadPrior
<1> QED
  BY <1>1, <1>2, <1>3, <1>4 DEF HookStep, Fire, Ask, Choose, Warm, Filter, ListSessions, Stat, ReadPrior

LEMMA NextTyped == World /\ Hook /\ [Next]_vars => World' /\ Hook'
<1> SUFFICES ASSUME World, Hook, [Next]_vars PROVE World' /\ Hook'
  OBVIOUS
<1>1. ASSUME NEW h \in Hooks, HookStep(h) PROVE World' /\ Hook'
  BY <1>1, HookTyped DEF world, World
<1>2. CASE SaveLearned \/ Tick \/ \E c \in Conversations : WriteSession(c)
  BY <1>2, WorldStep DEF local, Hook
<1>3. CASE UNCHANGED vars
  BY <1>3 DEF vars, world, World, Hook
<1> QED
  BY <1>1, <1>2, <1>3 DEF Next

LEMMA TypesLemma == Spec => [](World /\ Hook)
  BY InitTyped, NextTyped, PTL DEF Spec

\* The type invariant: among others, no file bears a time that the clock has not reached.
THEOREM TypesTheorem == Spec => []TypeOK
<1>1. World /\ Hook => TypeOK
  BY DEF World, Hook, TypeOK
<1> QED
  BY <1>1, TypesLemma, PTL
-----------------------------------------------------------------------------
(***************************************************************************)
(* The prior session: the file chosen so far is ahead of all that have     *)
(* been looked at, as they were when they were listed.                     *)
(***************************************************************************)
PriorOK(h) ==
    /\ \A c \in Conversations : listed[h][c] <= mtime[c]
    /\ best[h] = NoFile \/ (best[h].of \in Conversations \ {Own} /\ best[h].time <= mtime[best[h].of])
    /\ pc[h] \in {"stat", "read"} =>
         \A c \in Conversations \ {Own} : c \in unseen[h] \/ listed[h][c] <= best[h].time
    /\ pc[h] = "stat" => Own \notin unseen[h]
    /\ pc[h] = "read" => unseen[h] = {}
    /\ prior[h] # "none" =>
         /\ pc[h] = "done" /\ prior[h] = best[h].of
         /\ prior[h] \in Conversations \ {Own} /\ best[h].time <= mtime[prior[h]]
         /\ \A c \in Conversations \ {Own} : listed[h][c] <= best[h].time

\* The files only move ahead, and what the hook has is as it was.
LEMMA PriorFrame ==
    ASSUME World, World', Hook, NEW h \in Hooks, PriorOK(h), \A c \in Conversations : mtime[c] <= mtime'[c],
           pc'[h] = pc[h] \/ {pc[h], pc'[h]} \cap {"stat", "read", "done"} = {},
           unseen'[h] = unseen[h], best'[h] = best[h], prior'[h] = prior[h], listed'[h] = listed[h]
    PROVE  PriorOK(h)'
<1>1. ASSUME NEW c \in Conversations PROVE listed'[h][c] <= mtime'[c]
  <2>1. listed[h][c] \in Int /\ mtime[c] \in Int /\ mtime'[c] \in Int /\ listed[h][c] <= mtime[c]
    BY DEF PriorOK, World, Hook
  <2> QED
    BY <2>1
<1>2. ASSUME NEW c \in Conversations, best[h].time <= mtime[c] PROVE best[h].time <= mtime'[c]
  <2>1. best[h].time \in Int /\ mtime[c] \in Int /\ mtime'[c] \in Int
    BY DEF World, Hook
  <2> QED
    BY <1>2, <2>1
<1> QED
  BY <1>1, <1>2 DEF PriorOK, NoFile

\* One more file is looked at.
LEMMA PriorStat ==
    ASSUME World, Hook, NEW h \in Hooks, PriorOK(h), Stat(h)
    PROVE  PriorOK(h)'
<1>1. PICK c \in unseen[h] :
        /\ unseen' = [unseen EXCEPT ![h] = @ \ {c}]
        /\ best' = [best EXCEPT ![h] = IF Newer(mtime[c], @) THEN [of |-> c, time |-> mtime[c]] ELSE @]
        /\ pc' = [pc EXCEPT ![h] = IF unseen[h] = {c} THEN "read" ELSE "stat"]
  BY DEF Stat, Goto
<1>2. /\ pc[h] = "stat" /\ Own \notin unseen[h] /\ prior'[h] = prior[h] /\ listed' = listed /\ mtime' = mtime
      /\ unseen'[h] = unseen[h] \ {c} /\ pc'[h] = IF unseen[h] = {c} THEN "read" ELSE "stat"
      /\ best'[h] = IF mtime[c] > best[h].time THEN [of |-> c, time |-> mtime[c]] ELSE best[h]
  BY <1>1 DEF Stat, At, Hook, PriorOK, world, Newer
<1>3. c \in Conversations \ {Own} /\ mtime[c] \in Int /\ best[h].time \in Int /\ listed[h][c] <= mtime[c]
  BY <1>2 DEF Hook, World, PriorOK
<1>4. best[h].time <= best'[h].time /\ mtime[c] <= best'[h].time /\ best'[h].time \in Int
  BY <1>2, <1>3
<1>5. ASSUME NEW d \in Conversations \ {Own}, d \notin unseen'[h] PROVE listed[h][d] <= best'[h].time
  <2>1. listed[h][d] \in Int
    BY DEF Hook
  <2>2. CASE d = c
    BY <1>3, <1>4, <2>1, <2>2
  <2>3. CASE d # c
    <3>1. listed[h][d] <= best[h].time
      BY <1>2, <1>5, <2>3 DEF PriorOK
    <3> QED
      BY <1>3, <1>4, <2>1, <3>1
  <2> QED
    BY <2>2, <2>3
<1>6. best'[h] = NoFile \/ (best'[h].of \in Conversations \ {Own} /\ best'[h].time <= mtime[best'[h].of])
  <2>1. CASE mtime[c] > best[h].time
    BY <1>2, <1>3, <2>1
  <2>2. CASE ~(mtime[c] > best[h].time)
    BY <1>2, <2>2 DEF PriorOK
  <2> QED
    BY <2>1, <2>2
<1>7. prior'[h] = "none"
  BY <1>2 DEF PriorOK
<1> QED
  BY <1>2, <1>5, <1>6, <1>7 DEF PriorOK, NoFile

LEMMA PriorStep ==
    ASSUME World, Hook, NEW h \in Hooks, PriorOK(h), HookStep(h)
    PROVE  PriorOK(h)'
<1>0. UNCHANGED world
  BY HookTyped
<1>1. CASE Fire(h) \/ Ask(h) \/ Choose(h) \/ Warm(h)
  BY <1>0, <1>1 DEF Fire, Ask, Choose, Warm, At, Goto, Hook, PriorOK, NoFile, world
<1>2. CASE Filter(h)
  BY <1>0, <1>2 DEF Filter, At, Goto, Hook, PriorOK, NoFile, world
<1>3. CASE ListSessions(h)
  <2>1. /\ pc[h] = "list" /\ unseen'[h] = Candidates /\ listed'[h] = mtime /\ mtime' = mtime
        /\ best'[h] = best[h] /\ prior'[h] = prior[h] /\ pc'[h] \in {"done", "stat"}
    BY <1>0, <1>3 DEF ListSessions, At, Goto, Hook, world
  <2>2. ASSUME NEW c \in Conversations \ {Own}, c \notin Candidates PROVE mtime[c] <= best[h].time
    <3>1. mtime[c] \in -1..MaxClock /\ best[h].time \in -1..MaxClock
      BY DEF World, Hook
    <3> QED
      BY <2>2, <3>1 DEF Candidates
  <2>3. \A c \in Conversations : mtime[c] <= mtime[c]
    BY DEF World
  <2>4. prior[h] = "none" /\ Own \notin Candidates
    BY <2>1 DEF PriorOK, Candidates
  <2> QED
    BY <2>1, <2>2, <2>3, <2>4 DEF PriorOK, NoFile
<1>4. CASE Stat(h)
  BY <1>4, PriorStat
<1>5. CASE ReadPrior(h)
  <2>1. /\ pc[h] = "read" /\ pc'[h] = "done" /\ unseen' = unseen /\ listed' = listed /\ mtime' = mtime
        /\ best' = best /\ prior'[h] \in {"none", best[h].of}
    BY <1>0, <1>5 DEF ReadPrior, At, Goto, Hook, world
  <2>2. best[h] = NoFile => prior'[h] = "none"
    BY <2>1 DEF NoFile
  <2> QED
    BY <2>1, <2>2 DEF PriorOK, NoFile
<1> QED
  BY <1>1, <1>2, <1>3, <1>4, <1>5 DEF HookStep

\* A step of one hook changes what no other has.
LEMMA OthersKept ==
    ASSUME Hook, NEW h \in Hooks, HookStep(h), NEW g \in Hooks \ {h}
    PROVE  /\ pc'[g] = pc[g] /\ unseen'[g] = unseen[g] /\ best'[g] = best[g]
           /\ prior'[g] = prior[g] /\ listed'[g] = listed[g]
           /\ source'[g] = source[g] /\ raw'[g] = raw[g] /\ domain' = domain
           /\ sources'[g] = sources[g] /\ patterns'[g] = patterns[g] /\ kind' = kind
<1> USE DEF Goto, Hook
<1>1. CASE Fire(h) \/ Ask(h) \/ Choose(h) \/ Warm(h)
  BY <1>1 DEF Fire, Ask, Choose, Warm
<1>2. CASE Filter(h) \/ ListSessions(h) \/ Stat(h) \/ ReadPrior(h)
  BY <1>2 DEF Filter, ListSessions, Stat, ReadPrior
<1> QED
  BY <1>1, <1>2 DEF HookStep

LEMMA NextPrior ==
    World /\ Hook /\ (\A h \in Hooks : PriorOK(h)) /\ [Next]_vars => (\A h \in Hooks : PriorOK(h))'
<1> SUFFICES ASSUME World, Hook, \A h \in Hooks : PriorOK(h), [Next]_vars, NEW g \in Hooks
             PROVE  PriorOK(g)'
  OBVIOUS
<1>1. World'
  BY NextTyped
<1>2. \A c \in Conversations : mtime[c] \in Int
  BY DEF World
<1>3. ASSUME NEW h \in Hooks, HookStep(h) PROVE PriorOK(g)'
  <2>1. CASE g = h
    BY <1>3, <2>1, PriorStep
  <2>2. CASE g # h
    <3>1. mtime' = mtime
      BY <1>3, HookTyped DEF world
    <3> QED
      BY <1>1, <1>2, <1>3, <2>2, <3>1, OthersKept, PriorFrame
  <2> QED
    BY <2>1, <2>2
<1>4. CASE SaveLearned \/ Tick \/ \E c \in Conversations : WriteSession(c)
  BY <1>1, <1>4, WorldStep, PriorFrame DEF local
<1>5. CASE UNCHANGED vars
  BY <1>5 DEF vars, world, PriorOK, NoFile
<1> QED
  BY <1>3, <1>4, <1>5 DEF Next

\* The prior session is another than this one, and no third was ahead of it when the
\* files were listed, however the files are rewritten while their times are taken
\* (context_injection.py:153-172).
THEOREM PriorTheorem == Spec => []PriorIsLatest
<1>1. Init => \A h \in Hooks : PriorOK(h)
  <2>1. Init => \A h \in Hooks, c \in Conversations : listed[h][c] = -1 /\ mtime[c] \in {-1, 0}
    BY DEF Init
  <2> QED
    BY <2>1 DEF Init, PriorOK
<1>2. (\A h \in Hooks : PriorOK(h)) => PriorIsLatest
  BY DEF PriorOK, PriorIsLatest
<1> QED
  BY <1>1, <1>2, InitTyped, NextTyped, NextPrior, PTL DEF Spec
-----------------------------------------------------------------------------
(***************************************************************************)
(* The patterns: the file that was chosen is still there when it is read,  *)
(* and each list it has held since the start is among the sources.         *)
(***************************************************************************)
Whole(h) == \E list \in sources[h] : raw[h] = IF source[h] = "none" THEN list ELSE OfDomain(list, domain[h])

SourceOK(h) ==
    /\ pc[h] \in {"idle", "ask", "choose"} => source[h] = "none"
    /\ pc[h] \in {"ask", "choose", "warm"} => Current \in sources[h]
    /\ pc[h] = "warm" => source[h] # "none" /\ (source[h] = "learned" => learned # Absent)
    /\ pc[h] = "warm" /\ source[h] = "seed" => Seed \in sources[h]
    /\ pc[h] \in {"filter", "list", "stat", "read", "done"} => Whole(h)

LEMMA SourceStep ==
    ASSUME World, Hook, NEW h \in Hooks, SourceOK(h), HookStep(h)
    PROVE  SourceOK(h)'
<1>0. UNCHANGED world /\ Current' = Current
  BY HookTyped DEF world, Current
<1>1. CASE Fire(h)
  <2>1. /\ pc[h] = "idle" /\ pc'[h] = "ask" /\ sources'[h] = {Current} /\ source' = source
    BY <1>1 DEF Fire, At, Goto, Hook
  <2> QED
    BY <1>0, <2>1 DEF SourceOK
<1>2. CASE Ask(h)
  <2>1. pc[h] = "ask" /\ source[h] = "none" /\ source' = source /\ domain' = domain
    BY <1>2 DEF Ask, At, SourceOK
  <2>2. CASE pc'[h] = "choose" /\ sources' = sources
    BY <1>0, <2>1, <2>2 DEF SourceOK
  <2>3. CASE pc'[h] = "filter" /\ raw'[h] \in sources'[h]
    BY <2>1, <2>3 DEF SourceOK, Whole
  <2> QED
    BY <1>2, <2>2, <2>3 DEF Ask, Goto, Hook
<1>3. CASE Choose(h)
  <2>1. /\ pc[h] = "choose" /\ pc'[h] = "warm" /\ sources' = sources
        /\ source'[h] = IF learned # Absent THEN "learned" ELSE "seed"
    BY <1>3 DEF Choose, At, Goto, Hook
  <2>2. Current \in sources[h] /\ (learned = Absent => Current = Seed) /\ learned' = learned
    BY <1>0, <2>1 DEF SourceOK, Current, world
  <2> QED
    BY <1>0, <2>1, <2>2 DEF SourceOK
<1>4. CASE Warm(h)
  <2>1. pc[h] = "warm" /\ pc'[h] = "filter" /\ source' = source /\ domain' = domain /\ source[h] # "none"
    BY <1>4 DEF Warm, At, Goto, Hook, SourceOK
  <2>2. OnDisk(source[h]) \in sources[h]
    <3>1. CASE source[h] = "seed"
      BY <2>1, <3>1 DEF SourceOK, OnDisk
    <3>2. CASE source[h] = "learned"
      BY <2>1, <3>2 DEF SourceOK, OnDisk, Current
    <3> QED
      BY <2>1, <3>1, <3>2 DEF Hook
  <2>3. \E list \in sources'[h] : raw'[h] = OfDomain(list, domain[h])
    <3>1. CASE raw'[h] = OfDomain(OnDisk(source[h]), domain[h]) /\ sources' = sources
      BY <2>2, <3>1
    <3>2. CASE raw'[h] = OfDomain(<<>>, domain[h]) /\ <<>> \in sources'[h]
      BY <3>2
    <3> QED
      BY <1>4, <3>1, <3>2 DEF Warm, Warmed, Hook
  <2>4. Whole(h)'
    BY <2>1, <2>3 DEF Whole
  <2> QED
    BY <2>1, <2>4 DEF SourceOK
<1>5. CASE Filter(h) \/ ListSessions(h) \/ Stat(h) \/ ReadPrior(h)
  <2>1. /\ pc[h] \in {"filter", "list", "stat", "read"} /\ pc'[h] \in {"list", "stat", "read", "done"}
        /\ raw' = raw /\ sources' = sources /\ source' = source /\ domain' = domain
    BY <1>5 DEF Filter, ListSessions, Stat, ReadPrior, At, Goto, Hook
  <2>2. Whole(h)'
    BY <2>1 DEF SourceOK, Whole
  <2> QED
    BY <2>1, <2>2 DEF SourceOK
<1> QED
  BY <1>1, <1>2, <1>3, <1>4, <1>5 DEF HookStep

\* Others may replace the learned patterns, which the sources then have too.
LEMMA SourceFrame ==
    ASSUME NEW h \in Hooks, SourceOK(h), learned # Absent => learned' # Absent,
           pc'[h] = pc[h], source'[h] = source[h], raw'[h] = raw[h], domain'[h] = domain[h],
           sources[h] \subseteq sources'[h],
           pc[h] \in {"ask", "choose", "warm"} => Current' = Current \/ Current' \in sources'[h]
    PROVE  SourceOK(h)'
<1>1. Whole(h) => Whole(h)'
  BY DEF Whole
<1> QED
  BY <1>1 DEF SourceOK

LEMMA NextSource ==
    World /\ Hook /\ (\A h \in Hooks : SourceOK(h)) /\ [Next]_vars => (\A h \in Hooks : SourceOK(h))'
<1> SUFFICES ASSUME World, Hook, \A h \in Hooks : SourceOK(h), [Next]_vars, NEW g \in Hooks
             PROVE  SourceOK(g)'
  OBVIOUS
<1>1. ASSUME NEW h \in Hooks, HookStep(h) PROVE SourceOK(g)'
  <2>1. CASE g = h
    BY <1>1, <2>1, SourceStep
  <2>2. CASE g # h
    <3>1. UNCHANGED world /\ Current' = Current
      BY <1>1, HookTyped DEF world, Current
    <3> QED
      BY <1>1, <2>2, <3>1, OthersKept, SourceFrame DEF world
  <2> QED
    BY <2>1, <2>2
<1>2. CASE SaveLearned
  <2>1. learned' # Absent /\ Current' = learned'
    BY <1>2, BoundsAssumption DEF SaveLearned, Current
  <2>2. sources'[g] = IF pc[g] \in {"ask", "choose", "warm"} THEN sources[g] \cup {learned'} ELSE sources[g]
    BY <1>2 DEF SaveLearned
  <2> QED
    BY <1>2, <2>1, <2>2, SourceFrame DEF SaveLearned, local
<1>3. CASE Tick \/ \E c \in Conversations : WriteSession(c)
  BY <1>3, SourceFrame DEF Tick, WriteSession, local, Current
<1>4. CASE UNCHANGED vars
  BY <1>4, SourceFrame DEF vars, world, Current
<1> QED
  BY <1>1, <1>2, <1>3, <1>4 DEF Next

\* What a hook works with comes from one list: the answer of the service or one that
\* was in the file between its start and its read (context_injection.py:130-145).
THEOREM SourceTheorem == Spec => []PatternsFromOneSource
<1>1. Init => \A h \in Hooks : SourceOK(h)
  BY DEF Init, SourceOK
<1>2. (\A h \in Hooks : SourceOK(h)) => PatternsFromOneSource
  BY DEF SourceOK, Whole, PatternsFromOneSource
<1> QED
  BY <1>1, <1>2, InitTyped, NextTyped, NextSource, PTL DEF Spec
-----------------------------------------------------------------------------
(***************************************************************************)
(* The selection.  The scores order the qualified patterns as the shares   *)
(* of their words do; the sort numbers the qualified places in this order, *)
(* and the cut keeps the first of them.                                    *)
(***************************************************************************)
GoodList(list) ==
    /\ list \in Seq(Patterns)
    /\ \A i \in DOMAIN list : list[i].hits <= list[i].words

LEMMA EmptyIsGood == GoodList(<<>>)
  BY DEF GoodList

LEMMA GivenAreGood == \A list \in Versions \cup Answers \cup {Seed} : GoodList(list)
  BY ListsAssumption DEF GoodList

\* A cut is a prefix, of no more than MAX_PATTERNS.
LEMMA CutOff ==
    ASSUME NEW S, NEW list \in Seq(S)
    PROVE  /\ Cut(list) \in Seq(S) /\ Len(Cut(list)) \in 0..MAX_PATTERNS
           /\ Len(Cut(list)) <= Len(list) /\ IsPrefix(Cut(list), list)
           /\ \A k \in 1..Len(Cut(list)) : Cut(list)[k] = list[k]
           /\ Len(Cut(list)) = Len(list) \/ Len(Cut(list)) = MAX_PATTERNS
<1>0. Len(list) \in Nat /\ MAX_PATTERNS \in Nat /\ MAX_PATTERNS > 0
  BY BoundsAssumption
<1>1. CASE Len(list) > MAX_PATTERNS
  <2>1. PICK m \in Nat : m = MAX_PATTERNS /\ m > 0 /\ m < Len(list)
    BY <1>0, <1>1
  <2>2. PICK cut : cut = SubSeq(list, 1, m)
    OBVIOUS
  <2>3. /\ cut \in Seq(S) /\ Len(cut) = m
        /\ \A k \in 1..m : cut[k] = list[k]
    BY <1>0, <2>1, <2>2
  <2>4. SubSeq(cut, 1, m) = cut
    BY <2>1, <2>3
  <2>5. IsPrefix(cut, list)
    BY <1>0, <2>1, <2>2, <2>3, <2>4 DEF IsPrefix
  <2>6. Cut(list) = cut
    BY <1>1, <2>1, <2>2 DEF Cut
  <2> QED
    BY <1>0, <2>1, <2>3, <2>5, <2>6
<1>2. CASE ~(Len(list) > MAX_PATTERNS)
  <2>1. Cut(list) = list
    BY <1>2 DEF Cut
  <2>2. IsPrefix(list, list)
    BY <1>0 DEF IsPrefix
  <2>3. Len(list) \in 0..MAX_PATTERNS
    BY <1>0, <1>2
  <2> QED
    BY <1>0, <2>1, <2>2, <2>3
<1> QED
  BY <1>1, <1>2

\* What a cache has for a domain is a list like the one it was warmed with.
LEMMA CacheIsGood ==
    ASSUME NEW list, GoodList(list), NEW d
    PROVE  GoodList(CacheGet(list, d)) /\ GoodList(OfDomain(list, d))
<1>1. ASSUME NEW e PROVE GoodList(CacheGet(list, e))
  <2> DEFINE places == {i \in DOMAIN list : list[i].domain = e}
  <2>0. Len(list) \in Nat /\ DOMAIN list = 1..Len(list) /\ \A i \in 1..Len(list) : list[i] \in Patterns
    BY DEF GoodList
  <2>1. IsFiniteSet(places) /\ places \in SUBSET Nat
    <3>1. IsFiniteSet(1..Len(list))
      BY <2>0, FS_Interval
    <3>2. places \in SUBSET (1..Len(list))
      BY <2>0
    <3> QED
      BY <3>1, <3>2, FS_Subset
  <2>2. \A i \in places : list[i] \in Patterns /\ list[i].hits <= list[i].words
    BY <2>0 DEF GoodList
  <2>3. CacheGet(list, e) = Filtered(list, places)
    BY DEF CacheGet
  <2> HIDE DEF places
  <2>4. PICK at : Filters(at, list, places)
    BY <2>1, FilteredOrders
  <2>5. PICK n \in Nat : n = Cardinality(places)
    BY <2>1, FS_CardinalityType
  <2>6. \A k \in 1..n : list[at[k]] \in Patterns /\ list[at[k]].hits <= list[at[k]].words
    BY <2>2, <2>4, <2>5 DEF Filters, Orders
  <2>7. CacheGet(list, e) = [k \in 1..n |-> list[at[k]]]
    BY <2>3, <2>4, <2>5 DEF Filters
  <2> QED
    BY <2>6, <2>7 DEF GoodList
<1> QED
  BY <1>1 DEF OfDomain
-----------------------------------------------------------------------------
(* Scores and fractions. *)

Fraction == Nat \X (Nat \ {0})
Greater(f, g) == f[1] * g[2] > g[1] * f[2]
Equal(f, g) == f[1] * g[2] = g[1] * f[2]

\* A positive factor does not change an order.
LEMMA Cancel ==
    ASSUME NEW a \in Nat, NEW b \in Nat, NEW y \in Nat \ {0}
    PROVE  (a * y > b * y <=> a > b) /\ (a * y = b * y <=> a = b)
<1>1. ASSUME NEW p \in Nat, NEW q \in Nat, p > q PROVE p * y > q * y
  <2>1. PICK e \in Nat : p = q + e /\ e > 0
    <3>1. p - q \in Nat /\ p = q + (p - q) /\ p - q > 0
      BY <1>1
    <3> QED
      BY <3>1
  <2>2. p * y = q * y + e * y
    BY <2>1
  <2>3. e * y > 0 /\ e * y \in Nat /\ q * y \in Nat
    BY <2>1
  <2>4. PICK u \in Nat, v \in Nat : u = q * y /\ v = e * y
    BY <2>3
  <2> QED
    BY <2>2, <2>3, <2>4
<1>2. a * y \in Nat /\ b * y \in Nat
  OBVIOUS
<1>3. CASE a > b
  <2>1. a * y > b * y
    BY <1>1, <1>3
  <2> QED
    BY <1>2, <1>3, <2>1
<1>4. CASE b > a
  <2>1. b * y > a * y
    BY <1>1, <1>4
  <2> QED
    BY <1>2, <1>4, <2>1
<1>5. CASE a = b
  BY <1>2, <1>5
<1> QED
  BY <1>3, <1>4, <1>5

\* Fractions are ordered as the products that compare them suggest.
LEMMA FractionOrder ==
    ASSUME NEW f \in Fraction, NEW g \in Fraction, NEW h \in Fraction
    PROVE  /\ Greater(f, g) \/ Greater(g, f) \/ Equal(f, g)
           /\ Equal(f, g) => Equal(g, f) /\ ~Greater(f, g) /\ ~Greater(g, f)
           /\ Greater(f, g) => ~Greater(g, f)
           /\ Greater(f, g) /\ Greater(g, h) => Greater(f, h)
           /\ Greater(f, g) /\ Equal(g, h) => Greater(f, h)
           /\ Equal(f, g) /\ Greater(g, h) => Greater(f, h)
           /\ Equal(f, g) /\ Equal(g, h) => Equal(f, h)
<1>8. PICK a \in Nat, x \in Nat \ {0} : f = <<a, x>>
  BY DEF Fraction
<1>9. PICK b \in Nat, y \in Nat \ {0} : g = <<b, y>>
  BY DEF Fraction
<1>10. PICK c \in Nat, z \in Nat \ {0} : h = <<c, z>>
  BY DEF Fraction
<1>1. f = <<a, x>> /\ g = <<b, y>> /\ h = <<c, z>>
  BY <1>8, <1>9, <1>10
<1>2. PICK ay \in Nat, bx \in Nat, bz \in Nat, cy \in Nat, az \in Nat, cx \in Nat :
        ay = a * y /\ bx = b * x /\ bz = b * z /\ cy = c * y /\ az = a * z /\ cx = c * x
  OBVIOUS
<1>3. /\ Greater(f, g) <=> ay > bx
      /\ Greater(g, f) <=> bx > ay
      /\ Equal(f, g) <=> ay = bx
      /\ Equal(g, f) <=> bx = ay
      /\ Greater(g, h) <=> bz > cy
      /\ Equal(g, h) <=> bz = cy
      /\ Greater(f, h) <=> az > cx
      /\ Equal(f, h) <=> az = cx
  BY <1>1, <1>2 DEF Greater, Equal
<1>4. /\ ay * z = az * y /\ bx * z = bz * x /\ cy * x = cx * y
  BY <1>2
<1>5. /\ ay > bx <=> ay * z > bx * z
      /\ ay = bx <=> ay * z = bx * z
      /\ bz > cy <=> bz * x > cy * x
      /\ bz = cy <=> bz * x = cy * x
      /\ az > cx <=> az * y > cx * y
      /\ az = cx <=> az * y = cx * y
  BY Cancel
<1>6. PICK p \in Nat, q \in Nat, r \in Nat : p = az * y /\ q = bx * z /\ r = cx * y
  OBVIOUS
<1>7. /\ ay > bx <=> p > q
      /\ ay = bx <=> p = q
      /\ bz > cy <=> q > r
      /\ bz = cy <=> q = r
      /\ az > cx <=> p > r
      /\ az = cx <=> p = r
  BY <1>4, <1>5, <1>6
<1> QED
  BY <1>3, <1>7

\* A score of six tenths and four of a share.
Weighs(f, g) == f[1] * g[2] = (6 * g[2] + 4 * g[1]) * f[2]

\* Six tenths and four of a share are ordered as the shares are.
LEMMA SharesOrder ==
    ASSUME NEW f \in Fraction, NEW g \in Fraction, Weighs(f, g),
           NEW f2 \in Fraction, NEW g2 \in Fraction, Weighs(f2, g2)
    PROVE  (Greater(f, f2) <=> Greater(g, g2)) /\ (Equal(f, f2) <=> Equal(g, g2))
<1>11. PICK n \in Nat, x \in Nat \ {0} : f = <<n, x>>
  BY DEF Fraction
<1>12. PICK u \in Nat, v \in Nat \ {0} : g = <<u, v>>
  BY DEF Fraction
<1>13. PICK m \in Nat, y \in Nat \ {0} : f2 = <<m, y>>
  BY DEF Fraction
<1>14. PICK s \in Nat, t \in Nat \ {0} : g2 = <<s, t>>
  BY DEF Fraction
<1>0. n * v = (6 * v + 4 * u) * x /\ m * t = (6 * t + 4 * s) * y
  BY <1>11, <1>12, <1>13, <1>14 DEF Weighs
<1>1. PICK ny \in Nat, mx \in Nat, vt \in Nat \ {0}, xy \in Nat \ {0}, ut \in Nat, sv \in Nat :
        /\ ny = n * y /\ mx = m * x /\ vt = v * t /\ xy = x * y /\ ut = u * t /\ sv = s * v
  <2>1. v * t \in Nat \ {0} /\ x * y \in Nat \ {0}
    OBVIOUS
  <2> QED
    BY <2>1
<1>2. ny * vt = (6 * vt + 4 * ut) * xy
  <2>1. ny * vt = (n * v) * (y * t)
    BY <1>1
  <2>2. (n * v) * (y * t) = ((6 * v + 4 * u) * x) * (y * t)
    BY <1>0
  <2>3. ((6 * v + 4 * u) * x) * (y * t) = ((6 * v + 4 * u) * t) * (x * y)
    OBVIOUS
  <2>4. (6 * v + 4 * u) * t = 6 * (v * t) + 4 * (u * t)
    OBVIOUS
  <2> QED
    BY <1>1, <2>1, <2>2, <2>3, <2>4
<1>3. mx * vt = (6 * vt + 4 * sv) * xy
  <2>1. mx * vt = (m * t) * (x * v)
    BY <1>1
  <2>2. (m * t) * (x * v) = ((6 * t + 4 * s) * y) * (x * v)
    BY <1>0
  <2>3. ((6 * t + 4 * s) * y) * (x * v) = ((6 * t + 4 * s) * v) * (x * y)
    OBVIOUS
  <2>4. (6 * t + 4 * s) * v = 6 * (v * t) + 4 * (s * v)
    OBVIOUS
  <2> QED
    BY <1>1, <2>1, <2>2, <2>3, <2>4
<1>4. /\ ny > mx <=> ny * vt > mx * vt
      /\ ny = mx <=> ny * vt = mx * vt
  BY Cancel
<1>5. PICK p \in Nat, q \in Nat : p = 6 * vt + 4 * ut /\ q = 6 * vt + 4 * sv
  OBVIOUS
<1>6. /\ p * xy > q * xy <=> p > q
      /\ p * xy = q * xy <=> p = q
  BY Cancel
<1>7. /\ p > q <=> ut > sv
      /\ p = q <=> ut = sv
  BY <1>5
<1>8. ny * vt = p * xy /\ mx * vt = q * xy
  BY <1>2, <1>3, <1>5
<1>9. /\ ny > mx <=> ut > sv
      /\ ny = mx <=> ut = sv
  BY <1>4, <1>6, <1>7, <1>8
<1>10. /\ Greater(f, f2) <=> n * y > m * x
       /\ Equal(f, f2) <=> n * y = m * x
       /\ Greater(g, g2) <=> u * t > s * v
       /\ Equal(g, g2) <=> u * t = s * v
  BY <1>11, <1>12, <1>13, <1>14 DEF Greater, Equal
<1> QED
  BY <1>1, <1>9, <1>10

\* What a score comes to: who qualifies, and as what share.
Full(p) == p.words > 0 /\ p.hits = p.words
Quartered(p) == p.words > 0 /\ 4 * p.hits >= p.words
Eligible(p, d) == p.domain = d \/ Full(p) \/ (p.domain = "general" /\ Quartered(p))
ShareOf(p, d) == IF p.domain = d THEN <<1, 1>>
                 ELSE IF p.domain = "general" THEN <<p.hits, p.words>> ELSE <<1, 4>>

LEMMA ScoreAndShare ==
    ASSUME NEW p \in Patterns, p.hits <= p.words, NEW d,
           NEW score, score = ScorePatternRelevance(p, d)
    PROVE  /\ <<score.num, score.den>> \in Fraction
           /\ Qualifies(score) <=> Eligible(p, d)
           /\ Eligible(p, d) => /\ ShareOf(p, d) \in Fraction
                                /\ Weighs(<<score.num, score.den>>, ShareOf(p, d))
<1>1. PICK w \in Nat, h \in Nat : w = p.words /\ h = p.hits /\ h <= w
  BY DEF Patterns
<1>2. PICK x \in Nat \ {0} : x = IF w = 0 THEN 1 ELSE w
  OBVIOUS
<1>3. PICK n \in Nat : \E b \in {10, 6, 3} :
        /\ n = IF b * x + 4 * h > 10 * x THEN 10 * x ELSE b * x + 4 * h
        /\ b = BaseScore(p, d)
  BY <1>1, <1>2 DEF BaseScore
<1>4. score = [num |-> n, den |-> x]
  BY <1>1, <1>2, <1>3 DEF ScorePatternRelevance
<1>5. score.num = n /\ score.den = x /\ <<n, x>> \in Fraction
  BY <1>4 DEF Fraction
<1>6. Qualifies(score) <=> n >= 7 * x
  BY <1>5 DEF Qualifies, THRESHOLD
<1>7. /\ Full(p) <=> w > 0 /\ h = w
      /\ Quartered(p) <=> w > 0 /\ 4 * h >= w
  BY <1>1 DEF Full, Quartered
<1>8. CASE p.domain = d
  <2>1. n = 10 * x /\ ShareOf(p, d) = <<1, 1>> /\ Eligible(p, d)
    BY <1>3, <1>8 DEF BaseScore, ShareOf, Eligible
  <2>2. n >= 7 * x /\ <<1, 1>> \in Fraction /\ Weighs(<<n, x>>, <<1, 1>>)
    BY <2>1 DEF Weighs, Fraction
  <2> QED
    BY <1>5, <1>6, <2>1, <2>2
<1>9. CASE p.domain # d /\ p.domain = "general"
  <2>1. n = IF 6 * x + 4 * h > 10 * x THEN 10 * x ELSE 6 * x + 4 * h
    BY <1>3, <1>9 DEF BaseScore
  <2>2. n = 6 * x + 4 * h
    BY <1>1, <1>2, <2>1
  <2>3. n >= 7 * x <=> w > 0 /\ 4 * h >= w
    BY <1>1, <1>2, <2>2
  <2>4. Eligible(p, d) <=> w > 0 /\ 4 * h >= w
    BY <1>1, <1>7, <1>9 DEF Eligible
  <2>5. ShareOf(p, d) = <<h, w>>
    BY <1>1, <1>9 DEF ShareOf
  <2>6. w > 0 => <<h, w>> \in Fraction /\ Weighs(<<n, x>>, <<h, w>>)
    BY <1>2, <2>2 DEF Weighs, Fraction
  <2> QED
    BY <1>5, <1>6, <2>3, <2>4, <2>5, <2>6
<1>10. CASE p.domain # d /\ p.domain # "general"
  <2>1. n = IF 3 * x + 4 * h > 10 * x THEN 10 * x ELSE 3 * x + 4 * h
    BY <1>3, <1>10 DEF BaseScore
  <2>2. n = 3 * x + 4 * h
    BY <1>1, <1>2, <2>1
  <2>3. n >= 7 * x <=> w > 0 /\ h = w
    BY <1>1, <1>2, <2>2
  <2>4. Eligible(p, d) <=> w > 0 /\ h = w
    BY <1>7, <1>10 DEF Eligible
  <2>5. ShareOf(p, d) = <<1, 4>>
    BY <1>10 DEF ShareOf
  <2>6. w > 0 /\ h = w => <<1, 4>> \in Fraction /\ Weighs(<<n, x>>, <<1, 4>>)
    BY <1>2, <2>2 DEF Weighs, Fraction
  <2> QED
    BY <1>5, <1>6, <2>3, <2>4, <2>5, <2>6
<1> QED
  BY <1>8, <1>9, <1>10

\* The order of the sort is that of the shares, and total.
Part(list, d, i) == LET score == ScorePatternRelevance(list[i], d) IN <<score.num, score.den>>

Before(list, d, i, j) ==
    LET a == ScorePatternRelevance(list[i], d)
        b == ScorePatternRelevance(list[j], d)
    IN HigherScore(a, b) \/ (SameScore(a, b) /\ i < j)

LEMMA BeforeByPart ==
    ASSUME NEW list, NEW d, NEW i, NEW j
    PROVE  Before(list, d, i, j) <=>
             \/ Greater(Part(list, d, i), Part(list, d, j))
             \/ Equal(Part(list, d, i), Part(list, d, j)) /\ i < j
  BY DEF Before, Part, HigherScore, SameScore, Greater, Equal

LEMMA PartOfPattern ==
    ASSUME NEW list, GoodList(list), NEW d, NEW i \in DOMAIN list
    PROVE  /\ Part(list, d, i) \in Fraction
           /\ Eligible(list[i], d) => ShareOf(list[i], d) \in Fraction /\ Weighs(Part(list, d, i), ShareOf(list[i], d))
<1>1. PICK p \in Patterns : p = list[i] /\ p.hits <= p.words
  BY DEF GoodList
<1>2. PICK score : score = ScorePatternRelevance(p, d)
  OBVIOUS
<1>3. Part(list, d, i) = <<score.num, score.den>>
  BY <1>1, <1>2 DEF Part
<1>4. /\ <<score.num, score.den>> \in Fraction
      /\ Eligible(p, d) => ShareOf(p, d) \in Fraction /\ Weighs(<<score.num, score.den>>, ShareOf(p, d))
  BY <1>1, <1>2, ScoreAndShare
<1> QED
  BY <1>1, <1>3, <1>4

LEMMA BeforeByShare ==
    ASSUME NEW list, GoodList(list), NEW d, NEW i \in DOMAIN list, NEW j \in DOMAIN list,
           Eligible(list[i], d), Eligible(list[j], d)
    PROVE  Before(list, d, i, j) <=>
             \/ Greater(ShareOf(list[i], d), ShareOf(list[j], d))
             \/ Equal(ShareOf(list[i], d), ShareOf(list[j], d)) /\ i < j
<1>1. PICK f \in Fraction, g \in Fraction, f2 \in Fraction, g2 \in Fraction :
        /\ f = Part(list, d, i) /\ g = ShareOf(list[i], d) /\ Weighs(f, g)
        /\ f2 = Part(list, d, j) /\ g2 = ShareOf(list[j], d) /\ Weighs(f2, g2)
  BY PartOfPattern
<1>2. (Greater(f, f2) <=> Greater(g, g2)) /\ (Equal(f, f2) <=> Equal(g, g2))
  BY <1>1, SharesOrder
<1> QED
  BY <1>1, <1>2, BeforeByPart

LEMMA BeforeIsTotal ==
    ASSUME NEW list, GoodList(list), NEW d
    PROVE  /\ \A i, j \in DOMAIN list : i # j => Before(list, d, i, j) \/ Before(list, d, j, i)
           /\ \A i \in DOMAIN list : ~Before(list, d, i, i)
           /\ \A i, j, k \in DOMAIN list :
                Before(list, d, i, j) /\ Before(list, d, j, k) => Before(list, d, i, k)
<1> DEFINE part(i) == Part(list, d, i)
<1>1. DOMAIN list \in SUBSET Nat
  BY DEF GoodList
<1>2. \A i \in DOMAIN list : part(i) \in Fraction
  BY PartOfPattern
<1>3. \A i, j : Before(list, d, i, j) <=> Greater(part(i), part(j)) \/ (Equal(part(i), part(j)) /\ i < j)
  BY BeforeByPart
<1> HIDE DEF part
<1>4. ASSUME NEW i \in DOMAIN list, NEW j \in DOMAIN list, i # j
      PROVE  Before(list, d, i, j) \/ Before(list, d, j, i)
  <2>1. i < j \/ j < i
    BY <1>1, <1>4
  <2>2. Greater(part(i), part(j)) \/ Greater(part(j), part(i)) \/ (Equal(part(i), part(j)) /\ Equal(part(j), part(i)))
    BY <1>2, FractionOrder, Zenon
  <2> QED
    BY <1>3, <2>1, <2>2, Zenon
<1>5. ASSUME NEW i \in DOMAIN list PROVE ~Before(list, d, i, i)
  <2>1. ~(i < i)
    BY <1>1
  <2>2. ~Greater(part(i), part(i))
    BY <1>2, FractionOrder, Zenon
  <2> QED
    BY <1>3, <2>1, <2>2, Zenon
<1>6. ASSUME NEW i \in DOMAIN list, NEW j \in DOMAIN list, NEW k \in DOMAIN list,
             Before(list, d, i, j), Before(list, d, j, k)
      PROVE  Before(list, d, i, k)
  <2>1. i < j /\ j < k => i < k
    BY <1>1
  <2>2. part(i) \in Fraction /\ part(j) \in Fraction /\ part(k) \in Fraction
    BY <1>2
  <2>3. /\ Greater(part(i), part(j)) /\ Greater(part(j), part(k)) => Greater(part(i), part(k))
        /\ Greater(part(i), part(j)) /\ Equal(part(j), part(k)) => Greater(part(i), part(k))
        /\ Equal(part(i), part(j)) /\ Greater(part(j), part(k)) => Greater(part(i), part(k))
        /\ Equal(part(i), part(j)) /\ Equal(part(j), part(k)) => Equal(part(i), part(k))
    BY <2>2, FractionOrder
  <2> QED
    BY <1>3, <1>6, <2>1, <2>3, Zenon
<1> QED
  BY <1>4, <1>5, <1>6

\* The sort numbers the qualified places by share, and the cut keeps the first.
LEMMA RankedIsBest ==
    ASSUME NEW list, GoodList(list), NEW d
    PROVE  IsBest(Cut(Ranked(list, d)), list, d)
<1> DEFINE All(i) == list[i].words > 0 /\ list[i].hits = list[i].words
    Quarter(i) == list[i].words > 0 /\ 4 * list[i].hits >= list[i].words
    good == {i \in DOMAIN list : \/ list[i].domain = d \/ All(i)
                                 \/ list[i].domain = "general" /\ Quarter(i)}
    share(i) == IF list[i].domain = d THEN <<1, 1>>
                ELSE IF list[i].domain = "general" THEN <<list[i].hits, list[i].words>>
                ELSE <<1, 4>>
    Ahead(i, j) == LET mine == share(i)[1] * share(j)[2]
                       other == share(j)[1] * share(i)[2]
                   IN mine > other \/ (mine = other /\ i < j)
    score == [i \in DOMAIN list |-> ScorePatternRelevance(list[i], d)]
    places == {i \in DOMAIN list : Qualifies(score[i])}
    R == {p \in places \X places : \/ HigherScore(score[p[1]], score[p[2]])
                                   \/ SameScore(score[p[1]], score[p[2]]) /\ p[1] < p[2]}
    at == InOrder(places, R)
    result == Cut(Ranked(list, d))
<1>0. Len(list) \in Nat /\ DOMAIN list = 1..Len(list) /\ \A i \in DOMAIN list : list[i] \in Patterns /\ list[i].hits <= list[i].words
  BY DEF GoodList
<1>1. \A i : i \in good <=> i \in DOMAIN list /\ Eligible(list[i], d)
  BY DEF Eligible, Full, Quartered
<1>2. ASSUME NEW i \in good, NEW j \in good PROVE Ahead(i, j) <=> Before(list, d, i, j)
  <2>1. i \in DOMAIN list /\ j \in DOMAIN list /\ Eligible(list[i], d) /\ Eligible(list[j], d)
    BY <1>1
  <2>2. share(i) = ShareOf(list[i], d) /\ share(j) = ShareOf(list[j], d)
    BY DEF ShareOf
  <2>3. Ahead(i, j) <=> Greater(share(i), share(j)) \/ (Equal(share(i), share(j)) /\ i < j)
    BY DEF Greater, Equal
  <2> HIDE DEF share, good, Ahead
  <2> QED
    BY <2>1, <2>2, <2>3, BeforeByShare
<1>3. good = places
  <2>1. ASSUME NEW i \in DOMAIN list PROVE Qualifies(score[i]) <=> Eligible(list[i], d)
    <3>1. PICK a : a = ScorePatternRelevance(list[i], d)
      OBVIOUS
    <3>2. Qualifies(a) <=> Eligible(list[i], d)
      BY <1>0, <3>1, ScoreAndShare
    <3> QED
      BY <3>1, <3>2
  <2> HIDE DEF good, score
  <2> QED
    BY <1>1, <2>1
<1>4. \A i, j \in places : <<i, j>> \in R <=> Before(list, d, i, j)
  BY DEF Before
<1>5. Ranked(list, d) = [k \in DOMAIN at |-> list[at[k]]]
  BY DEF Ranked
<1>6. IsFiniteSet(places)
  <2>1. IsFiniteSet(1..Len(list))
    BY <1>0, FS_Interval
  <2>2. places \in SUBSET (1..Len(list))
    BY <1>0
  <2> HIDE DEF places
  <2> QED
    BY <2>1, <2>2, FS_Subset
<1>7. \A i \in places : i \in DOMAIN list /\ list[i] \in Patterns
  BY <1>0
<1> HIDE DEF Ahead, good, score, places, R, result
<1>8. /\ \A i, j \in places : i # j => <<i, j>> \in R \/ <<j, i>> \in R
      /\ \A i \in places : <<i, i>> \notin R
      /\ \A i, j, k \in places : <<i, j>> \in R /\ <<j, k>> \in R => <<i, k>> \in R
  <2>1. /\ \A i, j \in places : i # j => Before(list, d, i, j) \/ Before(list, d, j, i)
        /\ \A i \in places : ~Before(list, d, i, i)
        /\ \A i, j, k \in places : Before(list, d, i, j) /\ Before(list, d, j, k) => Before(list, d, i, k)
    BY <1>7, BeforeIsTotal, Zenon
  <2> QED
    BY <1>4, <2>1, Zenon
<1> HIDE DEF at
<1>9. Orders(at, places, R)
  BY <1>6, <1>8, InOrderOrders DEF at
<1>10. PICK n \in Nat : n = Cardinality(places)
  BY <1>6, FS_CardinalityType
<1>11. /\ at \in [1..n -> places]
       /\ \A k, l \in 1..n : k < l => Before(list, d, at[k], at[l])
       /\ \A i \in places : \E k \in 1..n : at[k] = i
  BY <1>4, <1>9, <1>10 DEF Orders
<1>12. PICK ranked : ranked = Ranked(list, d)
  OBVIOUS
<1>13. ranked = [k \in 1..n |-> list[at[k]]]
  BY <1>5, <1>11, <1>12
<1>14. ranked \in Seq(Patterns) /\ Len(ranked) = n
  BY <1>7, <1>11, <1>13
<1>15. PICK m \in 0..MAX_PATTERNS : m = Len(result) /\ m <= n /\ (m = n \/ m = MAX_PATTERNS)
  BY <1>12, <1>14, CutOff DEF result
<1>16. m \in Nat /\ DOMAIN result = 1..m /\ \A k \in 1..m : k \in 1..n /\ result[k] = list[at[k]]
  <2>1. result \in Seq(Patterns) /\ \A k \in 1..Len(result) : result[k] = ranked[k]
    BY <1>12, <1>14, CutOff DEF result
  <2>2. m \in Nat
    BY BoundsAssumption
  <2>3. DOMAIN result = 1..m
    BY <1>15, <2>1
  <2>4. \A k \in 1..m : k \in 1..n
    BY <1>15, <2>2
  <2>5. \A k \in 1..n : ranked[k] = list[at[k]]
    BY <1>13
  <2> QED
    BY <1>15, <2>1, <2>2, <2>3, <2>4, <2>5
<1> DEFINE place == [k \in 1..m |-> at[k]]
<1>17. place \in [DOMAIN result -> good]
  BY <1>3, <1>11, <1>16
<1>18. \A k \in DOMAIN result : result[k] = list[place[k]]
  BY <1>16
<1>19. \A k, l \in DOMAIN result : k < l => Ahead(place[k], place[l])
  BY <1>2, <1>3, <1>11, <1>16
<1>20. ASSUME NEW i \in good
       PROVE  \/ \E k \in DOMAIN result : place[k] = i
              \/ Len(result) = MAX_PATTERNS /\ \A k \in DOMAIN result : Ahead(place[k], i)
  <2>1. PICK l \in 1..n : at[l] = i
    BY <1>3, <1>11, <1>20
  <2>2. CASE l <= m
    BY <1>16, <2>1, <2>2
  <2>3. CASE ~(l <= m)
    <3>1. Len(result) = MAX_PATTERNS
      BY <1>10, <1>15, <1>16, <2>3
    <3>2. \A k \in 1..m : k < l
      BY <1>16, <2>3
    <3> QED
      BY <1>2, <1>3, <1>11, <1>16, <2>1, <3>1, <3>2
  <2> QED
    BY <2>2, <2>3
<1>21. Len(result) <= MAX_PATTERNS
  BY <1>15, BoundsAssumption
<1> HIDE DEF place
<1>22. \E where \in [DOMAIN result -> good] :
         /\ Len(result) <= MAX_PATTERNS
         /\ \A k \in DOMAIN result : result[k] = list[where[k]]
         /\ \A k, l \in DOMAIN result : k < l => Ahead(where[k], where[l])
         /\ \A i \in good : \/ \E k \in DOMAIN result : where[k] = i
                            \/ Len(result) = MAX_PATTERNS /\ \A k \in DOMAIN result : Ahead(where[k], i)
  <2> WITNESS place \in [DOMAIN result -> good]
  <2> QED
    BY <1>18, <1>19, <1>20, <1>21
<1> QED
  BY <1>22 DEF IsBest, result, good, Ahead
-----------------------------------------------------------------------------
(* What each hook has fetched, and what it keeps of it. *)

KeptOK(h) ==
    /\ pc[h] \in {"filter", "list", "stat", "read", "done"} => GoodList(raw[h])
    /\ pc[h] \in {"list", "stat", "read", "done"} =>
         patterns[h] = Cut(IF kind[h] = "prompt" THEN Ranked(raw[h], domain[h]) ELSE raw[h])

LEMMA KeptStep ==
    ASSUME World, Hook, NEW h \in Hooks, SourceOK(h), KeptOK(h), HookStep(h)
    PROVE  KeptOK(h)'
<1> USE DEF Goto, Hook, At
<1>1. CASE Fire(h) \/ Choose(h)
  <2>1. pc'[h] \in {"ask", "warm"}
    BY <1>1 DEF Fire, Choose
  <2> QED
    BY <2>1 DEF KeptOK
<1>2. CASE Ask(h)
  <2>1. pc'[h] = "choose" \/ (pc'[h] = "filter" /\ raw'[h] \in Answers)
    BY <1>2 DEF Ask
  <2> QED
    BY <2>1, GivenAreGood DEF KeptOK
<1>3. CASE Warm(h)
  <2>1. pc[h] = "warm" /\ pc'[h] = "filter"
        /\ (raw'[h] = OfDomain(OnDisk(source[h]), domain[h]) \/ raw'[h] = OfDomain(<<>>, domain[h]))
    BY <1>3 DEF Warm, Warmed
  <2>2. OnDisk(source[h]) \in Versions \cup {Seed}
    BY <2>1 DEF SourceOK, OnDisk, World
  <2>3. GoodList(OnDisk(source[h]))
    BY <2>2, GivenAreGood
  <2>4. GoodList(OfDomain(OnDisk(source[h]), domain[h]))
    BY <2>3, CacheIsGood, Zenon
  <2>5. GoodList(OfDomain(<<>>, domain[h]))
    BY EmptyIsGood, CacheIsGood, Zenon
  <2>6. GoodList(raw'[h])
    BY <2>1, <2>4, <2>5, Zenon
  <2>7. GoodList(raw[h])'
    BY <2>6 DEF GoodList
  <2> QED
    BY <2>1, <2>7 DEF KeptOK
<1>4. CASE Filter(h)
  <2>1. /\ pc[h] = "filter" /\ pc'[h] \in {"list", "done"} /\ raw' = raw /\ kind' = kind /\ domain' = domain
        /\ patterns'[h] = Cut(IF kind[h] = "prompt" THEN Ranked(raw[h], domain[h]) ELSE raw[h])
    BY <1>4 DEF Filter
  <2> QED
    BY <2>1 DEF KeptOK
<1>5. CASE ListSessions(h) \/ Stat(h) \/ ReadPrior(h)
  <2>1. /\ pc[h] \in {"list", "stat", "read"} /\ pc'[h] \in {"stat", "read", "done"}
        /\ UNCHANGED <<raw, kind, domain, patterns>>
    BY <1>5 DEF ListSessions, Stat, ReadPrior
  <2> QED
    BY <2>1 DEF KeptOK
<1> QED
  BY <1>1, <1>2, <1>3, <1>4, <1>5 DEF HookStep

LEMMA KeptFrame ==
    ASSUME NEW h \in Hooks, KeptOK(h), pc'[h] = pc[h], raw'[h] = raw[h],
           patterns'[h] = patterns[h], kind'[h] = kind[h], domain'[h] = domain[h]
    PROVE  KeptOK(h)'
  BY DEF KeptOK

LEMMA NextKept ==
    World /\ Hook /\ (\A h \in Hooks : SourceOK(h)) /\ (\A h \in Hooks : KeptOK(h)) /\ [Next]_vars
      => (\A h \in Hooks : KeptOK(h))'
<1> SUFFICES ASSUME World, Hook, \A h \in Hooks : SourceOK(h), \A h \in Hooks : KeptOK(h),
                    [Next]_vars, NEW g \in Hooks
             PROVE  KeptOK(g)'
  OBVIOUS
<1>1. ASSUME NEW h \in Hooks, HookStep(h) PROVE KeptOK(g)'
  <2>1. CASE g = h
    BY <1>1, <2>1, KeptStep
  <2>2. CASE g # h
    BY <1>1, <2>2, OthersKept, KeptFrame
  <2> QED
    BY <2>1, <2>2
<1>2. CASE SaveLearned \/ Tick \/ \E c \in Conversations : WriteSession(c)
  BY <1>2, WorldStep, KeptFrame DEF local
<1>3. CASE UNCHANGED vars
  BY <1>3, KeptFrame DEF vars
<1> QED
  BY <1>1, <1>2, <1>3 DEF Next

LEMMA KeptIsBest ==
    ASSUME \A h \in Hooks : KeptOK(h) PROVE SelectionBest
<1> SUFFICES ASSUME NEW h \in Hooks, pc[h] = "done"
             PROVE  IF kind[h] = "prompt" THEN IsBest(patterns[h], raw[h], domain[h])
                    ELSE Len(patterns[h]) <= MAX_PATTERNS /\ IsPrefix(patterns[h], raw[h])
  BY DEF SelectionBest, At
<1>1. /\ GoodList(raw[h])
      /\ patterns[h] = Cut(IF kind[h] = "prompt" THEN Ranked(raw[h], domain[h]) ELSE raw[h])
  BY DEF KeptOK
<1>2. CASE kind[h] = "prompt"
  BY <1>1, <1>2, RankedIsBest
<1>3. CASE kind[h] # "prompt"
  <2>1. raw[h] \in Seq(Patterns) /\ patterns[h] = Cut(raw[h])
    BY <1>1, <1>3 DEF GoodList
  <2>2. Len(patterns[h]) \in 0..MAX_PATTERNS /\ IsPrefix(patterns[h], raw[h])
    BY <2>1, CutOff
  <2>3. Len(patterns[h]) <= MAX_PATTERNS
    BY <2>2, BoundsAssumption
  <2> QED
    BY <1>3, <2>2, <2>3
<1> QED
  BY <1>2, <1>3

\* A prompt is given the best of what was fetched, whatever the lists hold: the patterns
\* that qualify, by the share of their words, ties in the order of the list, and no more
\* than MAX_PATTERNS (prompt_pattern_selection.py:71-110).
THEOREM SelectionTheorem == Spec => []SelectionBest
<1>1. Init => (\A h \in Hooks : SourceOK(h)) /\ (\A h \in Hooks : KeptOK(h))
  BY DEF Init, SourceOK, KeptOK
<1> QED
  BY <1>1, KeptIsBest, InitTyped, NextTyped, NextSource, NextKept, PTL DEF Spec
-----------------------------------------------------------------------------
(***************************************************************************)
(* Routing, for any agent files and contents, any hardcoded agents and     *)
(* aliases.  First what the loads, the sort and the scan return.           *)
(***************************************************************************)
AgentList(agents) ==
    /\ agents \in Seq(Agent)
    /\ \A i \in DOMAIN agents : agents[i].hits <= agents[i].keywords

LEMMA ListDomain == ASSUME NEW agents, AgentList(agents)
                    PROVE  Len(agents) \in Nat /\ DOMAIN agents = 1..Len(agents)
  BY DEF AgentList

LEMMA ScoreIsNat ==
    ASSUME NEW a \in Agent, a.hits <= a.keywords
    PROVE  ScoreAgent(a) \in Nat
<1>1. a.hits \in Nat /\ a.keywords \in Nat /\ a.fuzzy \in Nat
  <2>1. a.hits \in Nat /\ a.keywords \in Nat /\ a.fuzzy \in 0..1000
    BY ZenonT(60) DEF Agent
  <2> QED
    BY <2>1
<1>2. ASSUME a.hits >= 2 PROVE Scaled(a) \in Nat
  <2>1. PICK h \in Nat, k \in Nat : h = a.hits /\ k = a.keywords /\ k > 0
    BY <1>1, <1>2
  <2>2. (300 * h) \div k \in Nat
    BY <2>1
  <2> QED
    BY <2>1, <2>2 DEF Scaled
<1> DEFINE substring == IF a.exact THEN 950 ELSE IF a.context THEN 800 ELSE 0
    fuzzy == IF substring < 900 /\ a.fuzzy > substring THEN a.fuzzy ELSE substring
<1>3. fuzzy \in Nat
  BY <1>1
<1> HIDE DEF fuzzy
<1>4. ScoreAgent(a) = IF fuzzy < 700 /\ a.hits >= 2 /\ Scaled(a) > fuzzy THEN Scaled(a) ELSE fuzzy
  BY DEF ScoreAgent, fuzzy
<1> QED
  BY <1>2, <1>3, <1>4

LEMMA AgentHasId == \A a \in Agent : a.id \in {""} \cup File \cup BuiltIn
  BY ZenonT(60) DEF Agent

LEMMA RenamedAgent ==
    ASSUME NEW a \in Agent, NEW f \in File
    PROVE  /\ [a EXCEPT !.id = f] \in Agent
           /\ [a EXCEPT !.id = f].id = f
           /\ [a EXCEPT !.id = f].category = a.category
           /\ [a EXCEPT !.id = f].hits = a.hits
           /\ [a EXCEPT !.id = f].keywords = a.keywords
  BY ZenonT(60) DEF Agent

LEMMA FileIsListed == /\ Len(Files) \in Nat /\ DOMAIN Files = 1..Len(Files)
                      /\ \A k \in DOMAIN Files : Files[k] \in File
                      /\ \A f \in File : \E k \in DOMAIN Files : Files[k] = f
  BY FilesAssumption DEF File, ToSet

\* What a read of the files returns: those of the given forms, each under its name.
ReadOf(d, forms, agents) ==
    /\ AgentList(agents)
    /\ \A i \in DOMAIN agents : /\ agents[i].id \in File /\ d[agents[i].id].form \in forms
                                /\ agents[i].category = d[agents[i].id].category
    /\ \A f \in File : d[f].form \in forms => \E i \in DOMAIN agents : agents[i].id = f

LEMMA AgentsAreRead ==
    ASSUME NEW d \in [File -> Contents], NEW forms
    PROVE  ReadOf(d, forms, Agents(d, forms))
<1> DEFINE places == {k \in DOMAIN Files : d[Files[k]].form \in forms}
    order == Filtered(Files, places)
<1>1. places \in SUBSET Nat /\ IsFiniteSet(places)
  <2>1. IsFiniteSet(1..Len(Files))
    BY FileIsListed, FS_Interval
  <2>2. places \in SUBSET (1..Len(Files))
    BY FileIsListed
  <2>3. IsFiniteSet(places)
    BY <2>1, <2>2, FS_Subset
  <2>4. places \in SUBSET Nat
    BY FileIsListed, <2>2
  <2> QED
    BY <2>3, <2>4
<1>2. \A k \in places : k \in DOMAIN Files /\ Files[k] \in File /\ d[Files[k]].form \in forms
  BY FileIsListed
<1>3. \A f \in File : d[f].form \in forms => \E k \in places : Files[k] = f
  BY FileIsListed
<1>4. Agents(d, forms) = [i \in DOMAIN order |-> [d[order[i]] EXCEPT !.id = order[i]]]
  BY DEF Agents
<1> HIDE DEF places
<1>5. PICK at : Filters(at, Files, places)
  BY <1>1, FilteredOrders
<1>6. PICK n \in Nat : n = Cardinality(places)
  BY <1>1, FS_CardinalityType
<1>7. /\ at \in [1..n -> places] /\ \A k \in places : \E i \in 1..n : at[i] = k
      /\ order = [i \in 1..n |-> Files[at[i]]]
  BY <1>5, <1>6 DEF Filters, Orders
<1>8. \A i \in 1..n : order[i] = Files[at[i]] /\ order[i] \in File /\ d[order[i]].form \in forms
  BY <1>2, <1>7
<1>9. DOMAIN order = 1..n
  BY <1>7
<1> HIDE DEF order
<1>10. PICK agents : agents = Agents(d, forms)
  OBVIOUS
<1>11. agents = [i \in 1..n |-> [d[order[i]] EXCEPT !.id = order[i]]]
  BY <1>4, <1>9, <1>10
<1>12. ASSUME NEW i \in 1..n
       PROVE  /\ agents[i] \in Agent /\ agents[i].hits <= agents[i].keywords
              /\ agents[i].id = order[i] /\ agents[i].category = d[order[i]].category
  <2>1. d[order[i]] \in Agent /\ d[order[i]].hits <= d[order[i]].keywords /\ order[i] \in File
    BY <1>8, ContentsAssumption
  <2>2. agents[i] = [d[order[i]] EXCEPT !.id = order[i]]
    BY <1>11
  <2> QED
    BY <2>1, <2>2, RenamedAgent
<1>13. AgentList(agents) /\ DOMAIN agents = 1..n
  BY <1>11, <1>12 DEF AgentList
<1>14. ASSUME NEW f \in File, d[f].form \in forms PROVE \E i \in DOMAIN agents : agents[i].id = f
  <2>1. PICK k \in places : Files[k] = f
    BY <1>3, <1>14
  <2>2. PICK i \in 1..n : at[i] = k
    BY <1>7
  <2> QED
    BY <1>8, <1>12, <1>13, <2>1, <2>2
<1>15. ReadOf(d, forms, agents)
  BY <1>8, <1>12, <1>13, <1>14 DEF ReadOf
<1> QED
  BY <1>10, <1>15

\* The overlay of the files: per category the name of a file that has it.
OverlayOf(agents, m) ==
    /\ \A i \in DOMAIN agents : agents[i].category # "" => agents[i].category \in DOMAIN m
    /\ \A c \in DOMAIN m : \E i \in DOMAIN agents : agents[i].category = c /\ m[c] = agents[i].id

LEMMA LoadedJson ==
    ASSUME NEW d \in [File -> Contents], NEW agents, agents = Agents(d, JsonObjects)
    PROVE  OverlayOf(agents, LoadJsonAgents(d))
<1> DEFINE cats == {agents[i].category : i \in DOMAIN agents} \ {""}
    last(c) == Max({i \in DOMAIN agents : agents[i].category = c})
<1>1. LoadJsonAgents(d) = [c \in cats |-> agents[last(c)].id]
  BY DEF LoadJsonAgents
<1>2. Len(agents) \in Nat /\ DOMAIN agents = 1..Len(agents)
  <2>1. agents \in Seq(Agent)
    BY AgentsAreRead DEF ReadOf, AgentList
  <2> QED
    BY <2>1
<1>3. ASSUME NEW c \in cats PROVE last(c) \in DOMAIN agents /\ agents[last(c)].category = c
  <2>1. PICK s : s = {i \in DOMAIN agents : agents[i].category = c}
    OBVIOUS
  <2>2. Len(agents) \in Nat /\ s \in SUBSET (1..Len(agents)) /\ s # {}
    <3>2. \E i \in DOMAIN agents : agents[i].category = c
      OBVIOUS
    <3>3. s \in SUBSET DOMAIN agents /\ s # {}
      BY <2>1, <3>2
    <3> QED
      BY <1>2, <3>3
  <2>3. Max(s) \in s
    BY <2>2, MaxIsThere
  <2> QED
    BY <2>1, <2>3
<1> HIDE DEF last, cats
<1>4. DOMAIN LoadJsonAgents(d) = cats /\ \A c \in cats : LoadJsonAgents(d)[c] = agents[last(c)].id
  BY <1>1
<1> QED
  BY <1>3, <1>4 DEF cats, OverlayOf

HasOwn(c) == \E i \in DOMAIN Hardcoded : Hardcoded[i].category = c

LEMMA MergedHas ==
    ASSUME NEW m
    PROVE  /\ \A c \in DOMAIN m : c \in DOMAIN Merged(m) /\ Merged(m)[c] = m[c]
           /\ \A c : HasOwn(c) /\ c \notin DOMAIN m => c \in DOMAIN Merged(m) /\ Merged(m)[c] \in BuiltIn
           /\ \A c \in DOMAIN Merged(m) : c \in DOMAIN m \/ HasOwn(c)
<1> DEFINE own == {Hardcoded[i].category : i \in DOMAIN Hardcoded}
    first(c) == CHOOSE i \in DOMAIN Hardcoded : Hardcoded[i].category = c
<1>1. Merged(m) = [c \in DOMAIN m \cup own |-> IF c \in DOMAIN m THEN m[c] ELSE Hardcoded[first(c)].id]
  BY DEF Merged
<1>2. \A c : HasOwn(c) <=> c \in own
  BY DEF HasOwn
<1>3. \A c : HasOwn(c) => first(c) \in DOMAIN Hardcoded
  BY DEF HasOwn
<1>4. \A i \in DOMAIN Hardcoded : Hardcoded[i].id \in BuiltIn
  BY DEF BuiltIn
<1> HIDE DEF first, own
<1> QED
  BY <1>1, <1>2, <1>3, <1>4
-----------------------------------------------------------------------------
(* The pool: what was read of the files, then hardcoded agents with a category *)
(* that no file has, each of them once.                                        *)

PoolOf(agents, all) ==
    /\ AgentList(all) /\ Len(agents) <= Len(all)
    /\ \A i \in 1..Len(agents) : all[i] = agents[i]
    /\ \A i \in DOMAIN all : i > Len(agents) =>
         /\ all[i].id \in BuiltIn /\ all[i].category # "" /\ HasOwn(all[i].category)
         /\ \A j \in DOMAIN agents : agents[j].category # all[i].category
    /\ \A i, j \in DOMAIN all : i > Len(agents) /\ j > Len(agents) /\ all[i].category = all[j].category => i = j

LEMMA PoolIsOf ==
    ASSUME NEW d \in [File -> Contents]
    PROVE  PoolOf(Agents(d, JsonValues), AllRawAgents(d))
<1>1. PICK agents : agents = Agents(d, JsonValues)
  OBVIOUS
<1> DEFINE free == {k \in DOMAIN Hardcoded : \A i \in DOMAIN agents : agents[i].category # Hardcoded[k].category}
    rest == Filtered(Hardcoded, free)
<1>2. AllRawAgents(d) = agents \o rest
  BY <1>1 DEF AllRawAgents
<1>3. AgentList(agents) /\ Len(agents) \in Nat /\ DOMAIN agents = 1..Len(agents)
  BY <1>1, AgentsAreRead DEF ReadOf, AgentList
<1>4. Len(Hardcoded) \in Nat /\ DOMAIN Hardcoded = 1..Len(Hardcoded) /\ AgentList(Hardcoded)
  <2>1. Hardcoded \in Seq(Agent) /\ \A i \in DOMAIN Hardcoded : Hardcoded[i].hits <= Hardcoded[i].keywords
    BY HardcodedAssumption
  <2> QED
    BY <2>1 DEF AgentList
<1>5. free \in SUBSET Nat /\ IsFiniteSet(free)
  <2>1. IsFiniteSet(1..Len(Hardcoded))
    BY <1>4, FS_Interval
  <2>2. free \in SUBSET (1..Len(Hardcoded))
    BY <1>4
  <2>3. IsFiniteSet(free)
    BY <2>1, <2>2, FS_Subset
  <2>4. free \in SUBSET Nat
    BY <1>4, <2>2
  <2> QED
    BY <2>3, <2>4
<1>6. \A k \in free : /\ k \in Nat /\ k \in DOMAIN Hardcoded
                      /\ \A i \in DOMAIN agents : agents[i].category # Hardcoded[k].category
  BY <1>5
<1> HIDE DEF free
<1>7. PICK at : Filters(at, Hardcoded, free)
  BY <1>5, FilteredOrders
<1>8. PICK n \in Nat : n = Cardinality(free)
  BY <1>5, FS_CardinalityType
<1>9. /\ at \in [1..n -> free] /\ rest = [i \in 1..n |-> Hardcoded[at[i]]]
      /\ \A k, l \in 1..n : k < l => at[k] < at[l]
  BY <1>7, <1>8 DEF Filters, Orders
<1>10. \A i \in 1..n : /\ rest[i] = Hardcoded[at[i]] /\ at[i] \in free
                       /\ rest[i] \in Agent /\ rest[i].hits <= rest[i].keywords
  BY <1>4, <1>6, <1>9 DEF AgentList
<1>11. ASSUME NEW k \in 1..n, NEW l \in 1..n, rest[k].category = rest[l].category PROVE k = l
  <2>1. at[k] = at[l]
    <3>1. at[k] \in DOMAIN Hardcoded /\ at[l] \in DOMAIN Hardcoded
      BY <1>6, <1>10
    <3>2. Hardcoded[at[k]].category = Hardcoded[at[l]].category
      BY <1>10, <1>11
    <3> QED
      BY <3>1, <3>2, HardcodedAssumption, Zenon
  <2>2. ~(k < l) /\ ~(l < k)
    BY <1>6, <1>9, <2>1
  <2> QED
    BY <2>2
<1>12. ASSUME NEW k \in 1..n
       PROVE  /\ rest[k].id \in BuiltIn /\ rest[k].category # "" /\ HasOwn(rest[k].category)
              /\ \A j \in DOMAIN agents : agents[j].category # rest[k].category
  <2>1. PICK i \in DOMAIN Hardcoded : i = at[k]
    BY <1>6, <1>10
  <2>2. Hardcoded[i].category # ""
    BY HardcodedAssumption, Zenon
  <2>3. Hardcoded[i].id \in BuiltIn /\ HasOwn(Hardcoded[i].category)
    BY DEF BuiltIn, HasOwn
  <2>4. \A j \in DOMAIN agents : agents[j].category # Hardcoded[i].category
    BY <1>6, <1>10, <2>1
  <2> QED
    BY <1>10, <2>1, <2>2, <2>3, <2>4
<1>13. rest \in Seq(Agent) /\ Len(rest) = n
  BY <1>9, <1>10
<1> HIDE DEF rest
<1>14. PICK all : all = AllRawAgents(d)
  OBVIOUS
<1>15. /\ all \in Seq(Agent) /\ Len(all) = Len(agents) + n
       /\ \A i \in 1..Len(agents) : all[i] = agents[i]
       /\ \A i \in 1..n : all[Len(agents) + i] = rest[i]
  <2>1. agents \in Seq(Agent)
    BY <1>3 DEF AgentList
  <2>2. all = agents \o rest
    BY <1>2, <1>14
  <2> QED
    BY <1>3, <1>13, <2>1, <2>2
<1>16. ASSUME NEW i \in DOMAIN all PROVE i \in 1..Len(agents) \/ \E k \in 1..n : i = Len(agents) + k /\ all[i] = rest[k]
  <2>1. i \in 1..Len(agents) + n
    BY <1>15
  <2>2. CASE i <= Len(agents)
    BY <1>3, <2>1, <2>2
  <2>3. CASE ~(i <= Len(agents))
    <3>1. PICK k \in Int : k = i - Len(agents)
      BY <1>3, <2>1
    <3>2. k \in 1..n /\ i = Len(agents) + k
      BY <1>3, <2>1, <2>3, <3>1
    <3> QED
      BY <1>15, <3>2
  <2> QED
    BY <2>2, <2>3
<1>17. \A i \in DOMAIN all : i > Len(agents) => \E k \in 1..n : i = Len(agents) + k /\ all[i] = rest[k]
  <2>1. \A i \in 1..Len(agents) : ~(i > Len(agents))
    BY <1>3
  <2> QED
    BY <1>16, <2>1
<1>18. \A i \in DOMAIN all : all[i].hits <= all[i].keywords
  BY <1>3, <1>10, <1>15, <1>16 DEF AgentList
<1>19. Len(agents) <= Len(all)
  BY <1>3, <1>15
<1>20. AgentList(all)
  BY <1>15, <1>18 DEF AgentList
<1>21. \A i \in DOMAIN all : i > Len(agents) =>
         /\ all[i].id \in BuiltIn /\ all[i].category # "" /\ HasOwn(all[i].category)
         /\ \A j \in DOMAIN agents : agents[j].category # all[i].category
  BY <1>12, <1>17
<1>22. \A i, j \in DOMAIN all : i > Len(agents) /\ j > Len(agents) /\ all[i].category = all[j].category => i = j
  BY <1>11, <1>17
<1>23. PoolOf(agents, all)
  BY <1>15, <1>19, <1>20, <1>21, <1>22 DEF PoolOf
<1> QED
  BY <1>1, <1>14, <1>23
-----------------------------------------------------------------------------
(* The library: the candidates are places of the pool that fit, and the first of *)
(* them is ahead of all others that do.                                          *)

Fits(all, i) == i \in DOMAIN all /\ all[i].category # "" /\ ScoreAgent(all[i]) >= HARD_FLOOR

Leads(all, i) ==
    /\ Fits(all, i)
    /\ \A j \in DOMAIN all : Fits(all, j) =>
         \/ ScoreAgent(all[i]) > ScoreAgent(all[j])
         \/ ScoreAgent(all[i]) = ScoreAgent(all[j]) /\ i <= j

LEMMA ListScores == ASSUME NEW all, AgentList(all)
                    PROVE  \A i \in DOMAIN all : ScoreAgent(all[i]) \in Nat
<1>1. \A i \in DOMAIN all : all[i] \in Agent /\ all[i].hits <= all[i].keywords
  BY DEF AgentList
<1> QED
  BY <1>1, ScoreIsNat

LEMMA CandidatesFit ==
    ASSUME AgentList(pool)
    PROVE  /\ MatchAgentCandidates = <<>> => \A i \in DOMAIN pool : ~Fits(pool, i)
           /\ \A k \in DOMAIN MatchAgentCandidates :
                \E i \in DOMAIN pool : MatchAgentCandidates[k] = pool[i] /\ Fits(pool, i)
           /\ MatchAgentCandidates # <<>> =>
                \E i \in DOMAIN pool : MatchAgentCandidates[1] = pool[i] /\ Leads(pool, i)
<1> DEFINE score == [i \in DOMAIN pool |-> ScoreAgent(pool[i])]
    places == {i \in DOMAIN pool : pool[i].category # "" /\ score[i] >= HARD_FLOOR}
<1>0. Len(pool) \in Nat /\ DOMAIN pool = 1..Len(pool)
  BY DEF AgentList
<1>1. \A i \in DOMAIN pool : score[i] = ScoreAgent(pool[i]) /\ score[i] \in Nat
  BY ListScores
<1>2. \A i : i \in places <=> Fits(pool, i)
  BY <1>1 DEF Fits
<1>3. IsFiniteSet(places) /\ places \in SUBSET Nat /\ places \in SUBSET (DOMAIN pool)
  <2>1. IsFiniteSet(1..Len(pool))
    BY <1>0, FS_Interval
  <2>2. places \in SUBSET (DOMAIN pool)
    OBVIOUS
  <2>3. places \in SUBSET (1..Len(pool))
    BY <1>0, <2>2
  <2> HIDE DEF places
  <2>4. IsFiniteSet(places)
    BY <2>1, <2>3, FS_Subset
  <2> QED
    BY <1>0, <2>2, <2>3, <2>4
<1>4. Fitting = Sorted(pool, places, score)
  BY DEF Fitting
<1> HIDE DEF score, places
<1>5. \A i \in places : i \in Nat /\ i \in DOMAIN pool /\ score[i] \in Int
  BY <1>1, <1>3
<1>6. PICK at : Sorts(at, pool, places, score)
  BY <1>3, <1>5, SortedOrders, Zenon
<1>7. PICK n \in Nat : n = Cardinality(places)
  BY <1>3, FS_CardinalityType
<1>8. PICK fit : fit = Fitting
  OBVIOUS
<1>9. /\ at \in [1..n -> places] /\ fit = [k \in 1..n |-> pool[at[k]]]
      /\ \A k, l \in 1..n : k < l => Precedes(score, at[k], at[l])
      /\ \A i \in places : \E k \in 1..n : at[k] = i
  BY <1>4, <1>6, <1>7, <1>8 DEF Sorts, Orders
<1>10. fit \in Seq(Agent) /\ Len(fit) = n /\ \A k \in 1..n : fit[k] = pool[at[k]]
  <2>1. \A i \in DOMAIN pool : pool[i] \in Agent
    BY DEF AgentList
  <2>2. \A k \in 1..n : pool[at[k]] \in Agent
    BY <1>5, <1>9, <2>1
  <2> QED
    BY <1>9, <2>2
<1>11. PICK m \in Nat : m = IF n > MAX_RESULTS THEN MAX_RESULTS ELSE n
  BY DEF MAX_RESULTS
<1>12. m <= n /\ (m = 0 => n = 0)
  BY <1>11 DEF MAX_RESULTS
<1>13. PICK cand : cand = MatchAgentCandidates
  OBVIOUS
<1>14. cand = SubSeq(fit, 1, m)
  BY <1>8, <1>10, <1>11, <1>13 DEF MatchAgentCandidates
<1>15. Len(cand) = m /\ DOMAIN cand = 1..m /\ \A k \in 1..m : cand[k] = fit[k]
  BY <1>10, <1>12, <1>14
<1>16. ASSUME NEW k \in 1..m
       PROVE  k \in 1..n /\ at[k] \in DOMAIN pool /\ cand[k] = pool[at[k]] /\ Fits(pool, at[k])
  <2>1. k \in 1..n
    BY <1>12
  <2>2. at[k] \in places
    BY <1>9, <2>1
  <2> QED
    BY <1>2, <1>5, <1>10, <1>15, <2>1, <2>2
<1>17. ASSUME cand = <<>> PROVE \A i \in DOMAIN pool : ~Fits(pool, i)
  <2>1. n = 0
    BY <1>12, <1>15, <1>17
  <2>2. \A i \in places : FALSE
    BY <1>9, <2>1
  <2> QED
    BY <1>2, <2>2
<1>18. ASSUME cand # <<>> PROVE \E i \in DOMAIN pool : cand[1] = pool[i] /\ Leads(pool, i)
  <2>1. m # 0
    <3>1. cand \in Seq(Agent)
      BY <1>10, <1>12, <1>14
    <3> QED
      BY <1>15, <1>18, <3>1
  <2>2. 1 \in 1..m /\ 1 \in 1..n
    BY <1>12, <2>1
  <2>3. at[1] \in DOMAIN pool /\ cand[1] = pool[at[1]] /\ Fits(pool, at[1])
    BY <1>16, <2>2
  <2>4. ASSUME NEW j \in DOMAIN pool, Fits(pool, j)
        PROVE  \/ ScoreAgent(pool[at[1]]) > ScoreAgent(pool[j])
               \/ ScoreAgent(pool[at[1]]) = ScoreAgent(pool[j]) /\ at[1] <= j
    <3>1. PICK k \in 1..n : at[k] = j
      BY <1>2, <1>9, <2>4
    <3>2. CASE k = 1
      BY <1>0, <3>1, <3>2
    <3>3. CASE k # 1
      <4>1. 1 < k
        BY <3>3
      <4>2. Precedes(score, at[1], j)
        BY <1>9, <2>2, <3>1, <4>1
      <4>3. score[at[1]] = ScoreAgent(pool[at[1]]) /\ score[j] = ScoreAgent(pool[j])
        BY <1>1, <2>3
      <4> QED
        BY <1>0, <2>3, <4>2, <4>3 DEF Precedes
    <3> QED
      BY <3>2, <3>3
  <2>5. Leads(pool, at[1])
    BY <2>3, <2>4 DEF Leads
  <2> QED
    BY <2>3, <2>5
<1> QED
  BY <1>13, <1>15, <1>16, <1>17, <1>18
-----------------------------------------------------------------------------
(* The hook: its scan keeps the first of the best so far. *)

Leaders == [id : {Polymorphic, ""} \cup File \cup BuiltIn, score : Nat]
Nobody == [id |-> Polymorphic, score |-> 0]

LEMMA Scan ==
    ASSUME NEW agents, AgentList(agents)
    PROVE  \E g : /\ g[0] = Nobody
                  /\ \A n \in 1..Len(agents) : g[n] = Lead(g[n - 1], agents[n])
                  /\ ClassifyPrompt(agents) = g[Len(agents)].id
<1> DEFINE A == {a \in Agent : a.hits <= a.keywords}
    F == [l \in Leaders |-> [a \in A |-> Lead(l, a)]]
    Unrolls(it) == it = [s \in SUBSET (DOMAIN agents) |->
                           IF s = {} THEN Nobody ELSE Lead(it[s \ {Max(s)}], agents[Max(s)])]
    it == CHOOSE it : Unrolls(it)
    g == [n \in 0..Len(agents) |-> it[1..n]]
<1>0. Len(agents) \in Nat /\ DOMAIN agents = 1..Len(agents) /\ agents \in Seq(A)
  BY DEF AgentList
<1>1. \E h : Unrolls(h)
  <2>1. F \in [Leaders -> [A -> Leaders]]
    <3>1. ASSUME NEW l \in Leaders, NEW a \in A PROVE Lead(l, a) \in Leaders
      <4>1. ScoreAgent(a) \in Nat
        BY ScoreIsNat
      <4>2. a.id \in {Polymorphic, ""} \cup File \cup BuiltIn
        <5>1. a \in Agent
          OBVIOUS
        <5>2. a.id \in {""} \cup File \cup BuiltIn
          BY <5>1, AgentHasId
        <5> QED
          BY <5>2
      <4>3. [id |-> a.id, score |-> ScoreAgent(a)] \in Leaders
        BY <4>1, <4>2 DEF Leaders
      <4> QED
        BY <4>3 DEF Lead
    <3> QED
      BY <3>1
  <2>2. PICK h : Folds(Leaders, F, Nobody, agents, h)
    <3>1. Nobody \in Leaders
      BY DEF Nobody, Leaders
    <3> HIDE DEF F, A
    <3> QED BY <1>0, <2>1, <3>1, FoldExists
  <2>3. ASSUME NEW s \in SUBSET (DOMAIN agents), s # {}
        PROVE  F[h[s \ {Max(s)}]][agents[Max(s)]] = Lead(h[s \ {Max(s)}], agents[Max(s)])
    <3>1. Max(s) \in s
      BY <1>0, <2>3, MaxIsThere
    <3>2. h[s \ {Max(s)}] \in Leaders /\ agents[Max(s)] \in A
      <4> HIDE DEF A
      <4> QED BY <1>0, <2>2, <3>1 DEF Folds
    <3> HIDE DEF A
    <3> QED BY <3>2
  <2> HIDE DEF F
  <2>4. Unrolls(h)
    BY <2>2, <2>3 DEF Folds
  <2> QED BY <2>4
<1>2. Unrolls(it)
  BY <1>1
<1>3. ClassifyPrompt(agents) = it[DOMAIN agents].id
  BY DEF ClassifyPrompt, FoldLeft, MapThenFoldSet, Nobody
<1> HIDE DEF it
<1>4. g[0] = Nobody
  <2>1. 1..0 = {} /\ 1..0 \in SUBSET (DOMAIN agents)
    OBVIOUS
  <2> QED BY <1>0, <1>2, <2>1
<1>5. ASSUME NEW n \in 1..Len(agents) PROVE g[n] = Lead(g[n - 1], agents[n])
  <2>1. 1..n \in SUBSET (DOMAIN agents) /\ 1..n # {}
    <3>1. n \in 1..n /\ \A i \in 1..n : i \in 1..Len(agents)
      BY <1>0
    <3> QED BY <1>0, <3>1
  <2>2. Max(1..n) = n /\ (1..n) \ {Max(1..n)} = 1..n - 1
    BY <1>0, LastOfPrefix
  <2>3. it[1..n] = Lead(it[(1..n) \ {Max(1..n)}], agents[Max(1..n)])
    BY <1>2, <2>1, Zenon
  <2>4. it[1..n] = Lead(it[1..n - 1], agents[n])
    BY <2>2, <2>3, Zenon
  <2>5. n \in 0..Len(agents) /\ n - 1 \in 0..Len(agents)
    BY <1>0
  <2> QED BY <2>4, <2>5
<1>6. g[Len(agents)] = it[DOMAIN agents]
  BY <1>0
<1> HIDE DEF g
<1> QED BY <1>3, <1>4, <1>5, <1>6, Zenon

\* If all agents have a name and a category, the scan ends with the leader.
Named(agents) == \A i \in DOMAIN agents : agents[i].named /\ agents[i].category # ""

LEMMA ScanFindsLeader ==
    ASSUME NEW agents, AgentList(agents), Named(agents)
    PROVE  \/ ClassifyPrompt(agents) = Polymorphic /\ \A i \in DOMAIN agents : ~Fits(agents, i)
           \/ \E i \in DOMAIN agents : ClassifyPrompt(agents) = agents[i].id /\ Leads(agents, i)
<1> DEFINE sc == [i \in DOMAIN agents |-> ScoreAgent(agents[i])]
<1>0. Len(agents) \in Nat /\ DOMAIN agents = 1..Len(agents)
  BY DEF AgentList
<1>1. \A i \in DOMAIN agents : sc[i] = ScoreAgent(agents[i]) /\ sc[i] \in Nat
  BY ListScores
<1> HIDE DEF sc
<1>2. \A i \in DOMAIN agents : Fits(agents, i) <=> sc[i] >= 550
  <2>1. \A i \in DOMAIN agents : agents[i].category # ""
    BY DEF Named
  <2> QED
    BY <1>1, <2>1 DEF Fits, HARD_FLOOR
<1>3. PICK g : /\ g[0] = Nobody
               /\ \A n \in 1..Len(agents) : g[n] = Lead(g[n - 1], agents[n])
               /\ ClassifyPrompt(agents) = g[Len(agents)].id
  BY Scan, Zenon
<1> DEFINE Best(q, n) == /\ sc[q] >= 550 /\ g[n] = [id |-> agents[q].id, score |-> sc[q]]
                         /\ \A i \in 1..n : sc[i] >= 550 => sc[q] > sc[i] \/ (sc[q] = sc[i] /\ q <= i)
    None(n) == g[n] = Nobody /\ \A i \in 1..n : ~(sc[i] >= 550)
    T == {n \in 0..Len(agents) : None(n) \/ \E q \in 1..n : Best(q, n)}
<1>4. 0 \in T
  <2>1. None(0)
    BY <1>3
  <2> QED BY <1>0, <2>1
<1>5. ASSUME NEW n \in 1..Len(agents), n - 1 \in T PROVE n \in T
  <2>1. n \in Nat /\ n - 1 \in Nat /\ n \in DOMAIN agents /\ n \in 0..Len(agents) /\ sc[n] \in Nat
    BY <1>0, <1>1
  <2>2. g[n] = IF sc[n] >= 550 /\ sc[n] > g[n - 1].score THEN [id |-> agents[n].id, score |-> sc[n]] ELSE g[n - 1]
    <3>1. g[n] = Lead(g[n - 1], agents[n])
      BY <1>3
    <3>2. sc[n] = ScoreAgent(agents[n])
      BY <1>1, <2>1
    <3>3. Beats(agents[n], g[n - 1]) <=> sc[n] >= 550 /\ sc[n] > g[n - 1].score
      BY <2>1, <3>2, Zenon DEF Beats, Named, HARD_FLOOR
    <3> QED
      BY <3>1, <3>2, <3>3 DEF Lead
  <2>3. \A i \in 1..n : i \in 1..n - 1 \/ i = n
    BY <2>1
  <2>4. \A i \in 1..n : sc[i] \in Nat
    BY <1>0, <1>1
  <2>5. CASE None(n - 1)
    <3>1. g[n - 1].score = 0
      BY <2>5 DEF Nobody
    <3>2. CASE sc[n] >= 550
      <4>1. Best(n, n)
        BY <2>1, <2>2, <2>3, <2>5, <3>1, <3>2
      <4>2. n \in 1..n
        BY <2>1
      <4> QED
        BY <2>1, <4>1, <4>2
    <3>3. CASE ~(sc[n] >= 550)
      <4>1. None(n)
        BY <2>2, <2>3, <2>5, <3>3
      <4> QED
        BY <2>1, <4>1
    <3> QED
      BY <3>2, <3>3
  <2>6. ASSUME NEW q \in 1..n - 1, Best(q, n - 1) PROVE n \in T
    <3>1. g[n - 1].score = sc[q] /\ q \in 1..n /\ q <= n /\ q \in Nat /\ sc[q] \in Nat
      BY <2>1, <2>4, <2>6
    <3>2. CASE sc[n] >= 550 /\ sc[n] > sc[q]
      <4>1. ASSUME NEW i \in 1..n, sc[i] >= 550 PROVE sc[n] > sc[i] \/ (sc[n] = sc[i] /\ n <= i)
        <5>1. CASE i = n
          BY <2>1, <5>1
        <5>2. CASE i \in 1..n - 1
          <6>1. sc[q] > sc[i] \/ sc[q] = sc[i]
            BY <2>6, <4>1, <5>2
          <6> QED
            BY <2>1, <2>4, <3>1, <3>2, <6>1
        <5> QED
          BY <2>3, <5>1, <5>2
      <4>2. Best(n, n)
        BY <2>2, <3>1, <3>2, <4>1
      <4>3. n \in 1..n
        BY <2>1
      <4> QED
        BY <2>1, <4>2, <4>3
    <3>3. CASE ~(sc[n] >= 550 /\ sc[n] > sc[q])
      <4>1. ASSUME NEW i \in 1..n, sc[i] >= 550 PROVE sc[q] > sc[i] \/ (sc[q] = sc[i] /\ q <= i)
        <5>1. CASE i = n
          BY <2>1, <3>1, <3>3, <4>1, <5>1
        <5>2. CASE i \in 1..n - 1
          BY <2>6, <4>1, <5>2
        <5> QED
          BY <2>3, <5>1, <5>2
      <4>2. Best(q, n)
        BY <2>2, <2>6, <3>1, <3>3, <4>1
      <4> QED
        BY <2>1, <3>1, <4>2
    <3> QED
      BY <3>2, <3>3
  <2> QED
    BY <1>5, <2>5, <2>6
<1>6. Len(agents) \in T
  <2> HIDE DEF T
  <2>1. \A n \in 0..Len(agents) : n \in T
    BY <1>0, <1>4, <1>5, UpTo
  <2> QED BY <1>0, <2>1
<1>7. CASE None(Len(agents))
  <2>1. g[Len(agents)].id = Polymorphic
    BY <1>7 DEF Nobody
  <2>2. \A i \in DOMAIN agents : ~(sc[i] >= 550)
    BY <1>0, <1>7
  <2> QED
    BY <1>2, <1>3, <2>1, <2>2
<1>8. ASSUME NEW q \in 1..Len(agents), Best(q, Len(agents))
      PROVE  ClassifyPrompt(agents) = agents[q].id /\ Leads(agents, q)
  <2>1. g[Len(agents)].id = agents[q].id
    BY <1>8
  <2>2. Fits(agents, q)
    BY <1>0, <1>2, <1>8
  <2>3. \A j \in DOMAIN agents : Fits(agents, j) =>
          \/ ScoreAgent(agents[q]) > ScoreAgent(agents[j])
          \/ ScoreAgent(agents[q]) = ScoreAgent(agents[j]) /\ q <= j
    BY <1>0, <1>1, <1>2, <1>8
  <2> QED
    BY <1>3, <2>1, <2>2, <2>3 DEF Leads
<1> QED
  BY <1>0, <1>6, <1>7, <1>8
-----------------------------------------------------------------------------
(***************************************************************************)
(* The registry is what two reads made of the files.  When nothing changed *)
(* between them they are the same, and unless something changed since they *)
(* are what is there.                                                      *)
(***************************************************************************)
RoutingTypes ==
    /\ disk \in [File -> Contents] /\ phase \in {"idle", "pool"}
    /\ loaded \in BOOLEAN /\ moved \in BOOLEAN /\ split \in BOOLEAN /\ stale \in BOOLEAN

ReadJson(e) == json = LoadJsonAgents(e) /\ ~LoadRaises(e) /\ (~moved => e = disk)

Registered(d, e) ==
    /\ contexts = Merged(LoadJsonAgents(e)) /\ pool = AllRawAgents(d) /\ ~LoadRaises(e)
    /\ ~split => d = e
    /\ ~split /\ ~stale => e = disk

RegistryOK ==
    /\ phase = "idle" => json = <<>>
    /\ phase = "pool" => \E e \in [File -> Contents] : ReadJson(e)
    /\ ~loaded => contexts = <<>> /\ pool = <<>>
    /\ loaded => \E d, e \in [File -> Contents] : Registered(d, e)

LEMMA RoutingTypesInit == RoutingInit => RoutingTypes /\ RegistryOK
  BY DEF RoutingInit, RoutingTypes, RegistryOK

LEMMA RoutingTypesNext == RoutingTypes /\ [RoutingNext]_routingVars => RoutingTypes'
<1> SUFFICES ASSUME RoutingTypes, [RoutingNext]_routingVars PROVE RoutingTypes'
  OBVIOUS
<1> USE DEF RoutingTypes
<1>1. ASSUME NEW f \in File, EditFile(f) PROVE RoutingTypes'
  <2>1. disk' \in [File -> Contents] /\ phase' \in {"idle", "pool"} /\ loaded' \in BOOLEAN /\ split' \in BOOLEAN
    BY <1>1 DEF EditFile, registry
  <2>2. moved' \in BOOLEAN /\ stale' \in BOOLEAN
    BY <1>1, Zenon DEF EditFile
  <2> QED
    BY <2>1, <2>2
<1>2. CASE ReadContexts
  BY <1>2 DEF ReadContexts, registry
<1>3. CASE ReadPool
  <2>1. disk' = disk /\ phase' = "idle" /\ moved' = FALSE
    BY <1>3 DEF ReadPool
  <2>2. loaded' \in BOOLEAN /\ split' \in BOOLEAN /\ stale' \in BOOLEAN
    BY <1>3, Zenon DEF ReadPool, registry
  <2> QED
    BY <2>1, <2>2
<1>4. CASE UNCHANGED routingVars
  BY <1>4 DEF routingVars, registry
<1> QED
  BY <1>1, <1>2, <1>3, <1>4 DEF RoutingNext

LEMMA RegistryNext == RoutingTypes /\ RegistryOK /\ [RoutingNext]_routingVars => RegistryOK'
<1> SUFFICES ASSUME RoutingTypes, RegistryOK, [RoutingNext]_routingVars PROVE RegistryOK'
  OBVIOUS
<1>0. RoutingTypes'
  BY RoutingTypesNext
<1>1. ASSUME NEW f \in File, EditFile(f) PROVE RegistryOK'
  <2>1. UNCHANGED <<json, phase, contexts, pool, loaded, split>> /\ (moved' <=> phase = "pool") /\ (stale' <=> loaded)
    BY <1>1, Zenon DEF EditFile, registry
  <2>2. ASSUME phase = "pool" PROVE \E e \in [File -> Contents] : ReadJson(e)'
    <3>1. PICK e \in [File -> Contents] : ReadJson(e)
      BY <2>2, Zenon DEF RegistryOK
    <3>2. json' = LoadJsonAgents(e) /\ ~LoadRaises(e) /\ moved'
      BY <2>1, <2>2, <3>1, Zenon DEF ReadJson
    <3>3. ReadJson(e)'
      BY <3>2, Zenon DEF ReadJson
    <3> QED
      BY <3>3
  <2>3. ASSUME loaded PROVE \E d, e \in [File -> Contents] : Registered(d, e)'
    <3>1. PICK d \in [File -> Contents], e \in [File -> Contents] : Registered(d, e)
      BY <2>3, Zenon DEF RegistryOK
    <3>2. Registered(d, e)'
      BY <2>1, <2>3, <3>1, Zenon DEF Registered
    <3> QED
      BY <3>2
  <2> QED
    BY <2>1, <2>2, <2>3, Zenon DEF RegistryOK
<1>2. CASE ReadContexts
  <2>1. /\ phase' = "pool" /\ json' = LoadJsonAgents(disk) /\ ~LoadRaises(disk) /\ disk' = disk
        /\ UNCHANGED <<contexts, pool, loaded, split, stale>>
    BY <1>2, Zenon DEF ReadContexts, registry
  <2>2. ReadJson(disk)'
    BY <2>1, Zenon DEF ReadJson
  <2>3. \E e \in [File -> Contents] : ReadJson(e)'
    BY <1>0, <2>1, <2>2, Zenon DEF RoutingTypes
  <2>4. ASSUME loaded PROVE \E d, e \in [File -> Contents] : Registered(d, e)'
    <3>1. PICK d \in [File -> Contents], e \in [File -> Contents] : Registered(d, e)
      BY <2>4, Zenon DEF RegistryOK
    <3>2. Registered(d, e)'
      BY <2>1, <3>1, Zenon DEF Registered
    <3> QED
      BY <3>2
  <2>5. phase' # "idle"
    BY <2>1
  <2> QED
    BY <2>1, <2>3, <2>4, <2>5, Zenon DEF RegistryOK
<1>3. CASE ReadPool
  <2>1. phase = "pool" /\ phase' = "idle" /\ json' = <<>> /\ disk' = disk
    BY <1>3 DEF ReadPool
  <2>2. CASE UNCHANGED <<contexts, pool, loaded, split, stale>>
    <3>1. ASSUME loaded PROVE \E d, e \in [File -> Contents] : Registered(d, e)'
      <4>1. PICK d \in [File -> Contents], e \in [File -> Contents] : Registered(d, e)
        BY <3>1, Zenon DEF RegistryOK
      <4>2. Registered(d, e)'
        BY <2>1, <2>2, <4>1, Zenon DEF Registered
      <4> QED
        BY <4>2
    <3>2. phase' # "pool"
      BY <2>1
    <3> QED
      BY <2>1, <2>2, <3>1, <3>2, Zenon DEF RegistryOK
  <2>3. CASE /\ contexts' = Merged(json) /\ pool' = AllRawAgents(disk)
             /\ loaded' /\ (split' <=> moved) /\ ~stale'
    <3>1. PICK e \in [File -> Contents] : ReadJson(e)
      BY <2>1, Zenon DEF RegistryOK
    <3>2. Registered(disk, e)'
      BY <2>1, <2>3, <3>1, Zenon DEF ReadJson, Registered
    <3>3. disk \in [File -> Contents] /\ phase' # "pool"
      BY <2>1 DEF RoutingTypes
    <3>4. \E d, g \in [File -> Contents] : Registered(d, g)'
      BY <2>1, <3>2, <3>3, Zenon
    <3> QED
      BY <2>1, <2>3, <3>3, <3>4, Zenon DEF RegistryOK
  <2> QED
    BY <1>3, <2>2, <2>3, Zenon DEF ReadPool, registry
<1>4. CASE UNCHANGED routingVars
  <2>1. UNCHANGED <<disk, json, phase, contexts, pool, loaded, split, moved, stale>>
    BY <1>4 DEF routingVars, registry
  <2> QED
    BY <2>1, Zenon DEF RegistryOK, ReadJson, Registered
<1> QED
  BY <1>1, <1>2, <1>3, <1>4 DEF RoutingNext

LEMMA RegistryLemma == RoutingSpec => [](RoutingTypes /\ RegistryOK)
  BY RoutingTypesInit, RoutingTypesNext, RegistryNext, PTL DEF RoutingSpec
-----------------------------------------------------------------------------
LEMMA JsonOfFiles ==
    ASSUME NEW d \in [File -> Contents]
    PROVE  \A c \in DOMAIN LoadJsonAgents(d) : LoadJsonAgents(d)[c] \in File
<1>1. PICK agents : agents = Agents(d, JsonObjects)
  OBVIOUS
<1>2. \A i \in DOMAIN agents : agents[i].id \in File
  BY <1>1, AgentsAreRead DEF ReadOf
<1>3. OverlayOf(agents, LoadJsonAgents(d))
  BY <1>1, LoadedJson
<1> QED
  BY <1>2, <1>3 DEF OverlayOf

LEMMA MergedOwners ==
    ASSUME NEW d \in [File -> Contents]
    PROVE  \A c \in DOMAIN Merged(LoadJsonAgents(d)) : Merged(LoadJsonAgents(d))[c] \in Owner
<1>1. PICK m : m = LoadJsonAgents(d)
  OBVIOUS
<1>2. \A c \in DOMAIN m : m[c] \in File
  BY <1>1, JsonOfFiles
<1>3. \A c \in DOMAIN Merged(m) : Merged(m)[c] \in Owner
  BY <1>2, MergedHas DEF Owner
<1> QED
  BY <1>1, <1>3

LEMMA PoolOwners ==
    ASSUME NEW d \in [File -> Contents], NEW all, all = AllRawAgents(d)
    PROVE  \A i, j \in DOMAIN all :
             /\ all[i].id \in Owner
             /\ (all[i].id \in BuiltIn /\ all[i].category = all[j].category) => i = j
<1>1. PICK agents : agents = Agents(d, JsonValues)
  OBVIOUS
<1>2. PoolOf(agents, all)
  BY <1>1, PoolIsOf
<1>3. Len(agents) \in Nat /\ DOMAIN agents = 1..Len(agents) /\ \A i \in DOMAIN agents : agents[i].id \in File
  <2>1. AgentList(agents) /\ \A i \in DOMAIN agents : agents[i].id \in File
    BY <1>1, AgentsAreRead DEF ReadOf
  <2> QED
    BY <2>1 DEF AgentList
<1>4. DOMAIN all = 1..Len(all) /\ Len(all) \in Nat
  <2>1. AgentList(all)
    BY <1>2, Zenon DEF PoolOf
  <2> QED
    BY <2>1, ListDomain
<1>5. \A i \in DOMAIN all : i > Len(agents) \/ (i \in DOMAIN agents /\ all[i] = agents[i])
  <2>1. \A i \in DOMAIN all : i > Len(agents) \/ i \in 1..Len(agents)
    BY <1>3, <1>4
  <2> QED
    BY <1>2, <1>3, <2>1 DEF PoolOf
<1>6. File \cap BuiltIn = {}
  BY NamesAssumption
<1>7. \A i \in DOMAIN all : i > Len(agents) => all[i].id \in BuiltIn /\ \A j \in DOMAIN agents : agents[j].category # all[i].category
  BY <1>2 DEF PoolOf
<1>8. \A i, j \in DOMAIN all : i > Len(agents) /\ j > Len(agents) /\ all[i].category = all[j].category => i = j
  BY <1>2 DEF PoolOf
<1> QED
  BY <1>3, <1>5, <1>6, <1>7, <1>8 DEF Owner

\* The registry holds what has an owner, and no hardcoded agent beside another agent
\* of its category (agents.py:266-271).
THEOREM RoutingTypesTheorem == RoutingSpec => []RoutingTypeOK
<1>1. ASSUME RoutingTypes, RegistryOK PROVE RoutingTypeOK
  <2>1. \A c \in DOMAIN json : json[c] \in File
    <3>1. CASE phase = "idle"
      BY <1>1, <3>1 DEF RegistryOK
    <3>2. CASE phase = "pool"
      BY <1>1, <3>2, JsonOfFiles DEF RegistryOK, ReadJson
    <3> QED
      BY <1>1, <3>1, <3>2 DEF RoutingTypes
  <2>2. \A c \in DOMAIN contexts : contexts[c] \in Owner
    <3>1. CASE ~loaded
      BY <1>1, <3>1 DEF RegistryOK
    <3>2. CASE loaded
      <4>1. PICK d \in [File -> Contents], e \in [File -> Contents] : Registered(d, e)
        BY <1>1, <3>2, Zenon DEF RegistryOK
      <4> QED
        BY <4>1, MergedOwners DEF Registered
    <3> QED
      BY <3>1, <3>2
  <2>3. \A i, j \in DOMAIN pool :
          /\ pool[i].id \in Owner
          /\ (pool[i].id \in BuiltIn /\ pool[i].category = pool[j].category) => i = j
    <3>1. CASE ~loaded
      BY <1>1, <3>1 DEF RegistryOK
    <3>2. CASE loaded
      <4>1. PICK d \in [File -> Contents], e \in [File -> Contents] : Registered(d, e)
        BY <1>1, <3>2, Zenon DEF RegistryOK
      <4>2. pool = AllRawAgents(d)
        BY <4>1 DEF Registered
      <4> QED
        BY <4>2, PoolOwners
    <3> QED
      BY <3>1, <3>2
  <2> QED
    BY <1>1, <2>1, <2>2, <2>3, Zenon DEF RoutingTypes, RoutingTypeOK
<1> QED
  BY <1>1, RegistryLemma, PTL
-----------------------------------------------------------------------------
(* What a load without a break or an exception leaves. *)

\* The first read does not raise, so that the second meets no array.
LEMMA SameReads ==
    ASSUME NEW d \in [File -> Contents], ~LoadRaises(d)
    PROVE  Agents(d, JsonValues) = Agents(d, JsonObjects)
<1>1. \A k \in DOMAIN Files : d[Files[k]].form \in JsonValues <=> d[Files[k]].form \in JsonObjects
  <2>1. \A f \in File : d[f].form # "array"
    BY DEF LoadRaises
  <2> QED
    BY <2>1, FileIsListed DEF JsonValues
<1>2. {k \in DOMAIN Files : d[Files[k]].form \in JsonValues} = {k \in DOMAIN Files : d[Files[k]].form \in JsonObjects}
  BY <1>1
<1> QED
  BY <1>2, Zenon DEF Agents

LEMMA AllHaveContexts ==
    ASSUME NEW d \in [File -> Contents], Registered(d, d), NEW i \in DOMAIN pool, Fits(pool, i)
    PROVE  pool[i].category \in DOMAIN contexts
<1>1. PICK agents : agents = Agents(d, JsonObjects)
  OBVIOUS
<1>2. PoolOf(agents, pool) /\ contexts = Merged(LoadJsonAgents(d))
  BY <1>1, SameReads, PoolIsOf DEF Registered
<1>3. Len(agents) \in Nat /\ DOMAIN agents = 1..Len(agents) /\ i \in Nat /\ i > 0
  <2>1. AgentList(agents)
    BY <1>1, AgentsAreRead, Zenon DEF ReadOf
  <2>2. AgentList(pool)
    BY <1>2, Zenon DEF PoolOf
  <2>3. i \in 1..Len(pool)
    BY <2>2, ListDomain, Zenon
  <2>4. i \in Nat /\ i > 0
    BY <2>3
  <2> QED
    BY <2>1, <2>4, ListDomain, Zenon
<1>4. CASE i > Len(agents)
  <2>1. HasOwn(pool[i].category)
    BY <1>2, <1>4 DEF PoolOf
  <2> QED
    BY <1>2, <2>1, MergedHas
<1>5. CASE ~(i > Len(agents))
  <2>0. i \in 1..Len(agents)
    <3>1. PICK m \in Nat : m = Len(agents)
      BY <1>3, Zenon
    <3>2. i \in Nat /\ i > 0 /\ ~(i > m)
      BY <1>3, <1>5, <3>1, Zenon
    <3>3. i \in 1..m
      BY <3>2
    <3> QED
      BY <3>1, <3>3, Zenon
  <2>1. i \in DOMAIN agents /\ pool[i] = agents[i]
    BY <1>2, <1>3, <2>0 DEF PoolOf
  <2>2. OverlayOf(agents, LoadJsonAgents(d))
    BY <1>1, LoadedJson
  <2>3. pool[i].category \in DOMAIN LoadJsonAgents(d)
    BY <2>1, <2>2, Zenon DEF OverlayOf, Fits
  <2> QED
    BY <1>2, <2>3, MergedHas
<1> QED
  BY <1>4, <1>5

LEMMA DefaultOwnsNothing == Default \notin Owner
  BY NamesAssumption DEF Owner

\* A match has the context of its category, whatever the files went through, unless
\* they changed between the two reads of a load (agents.py:347-351).
THEOREM ContextsTheorem == RoutingSpec => []MatchesHaveContexts
<1>1. ASSUME RoutingTypes, RegistryOK PROVE MatchesHaveContexts
  <2> SUFFICES ASSUME loaded
               PROVE  /\ ~split => \A k \in DOMAIN MatchAgentCandidates :
                                      ContextOf(MatchAgentCandidates[k].category) # Default
                      /\ \A a \in DOMAIN Aliases : HasOwn(Aliases[a]) => GetAgentContext(a) # Default
    BY Zenon DEF MatchesHaveContexts, HasOwn
  <2>1. PICK d \in [File -> Contents], e \in [File -> Contents] : Registered(d, e)
    BY <1>1, Zenon DEF RegistryOK
  <2>2. \A c \in DOMAIN contexts : contexts[c] # Default
    BY <2>1, MergedOwners, DefaultOwnsNothing DEF Registered
  <2>3. \A c \in DOMAIN contexts : ContextOf(c) # Default
    BY <2>2 DEF ContextOf
  <2>4. ASSUME ~split, NEW k \in DOMAIN MatchAgentCandidates
        PROVE  ContextOf(MatchAgentCandidates[k].category) # Default
    <3>1. Registered(d, d)
      <4>1. d = e
        BY <2>1, <2>4, Zenon DEF Registered
      <4> QED
        BY <2>1, <4>1
    <3>2. AgentList(pool)
      BY <3>1, PoolIsOf DEF Registered, PoolOf
    <3>3. PICK i \in DOMAIN pool : MatchAgentCandidates[k] = pool[i] /\ Fits(pool, i)
      BY <3>2, CandidatesFit
    <3>4. pool[i].category \in DOMAIN contexts
      BY <3>1, <3>3, AllHaveContexts
    <3> QED
      BY <2>3, <3>3, <3>4
  <2>5. ASSUME NEW a \in DOMAIN Aliases, HasOwn(Aliases[a]) PROVE GetAgentContext(a) # Default
    <3>1. Aliases[a] \in DOMAIN contexts
      BY <2>1, <2>5, MergedHas DEF Registered
    <3>2. GetAgentContext(a) = ContextOf(Aliases[a])
      BY DEF GetAgentContext
    <3> QED
      BY <2>3, <3>1, <3>2
  <2> QED
    BY <2>4, <2>5
<1> QED
  BY <1>1, RegistryLemma, PTL
-----------------------------------------------------------------------------
(* Two leaders of one list are one. *)

LEMMA LeaderIsOne ==
    ASSUME NEW all, AgentList(all), NEW i \in DOMAIN all, NEW j \in DOMAIN all, Leads(all, i), Leads(all, j)
    PROVE  i = j
<1>1. ScoreAgent(all[i]) \in Nat /\ ScoreAgent(all[j]) \in Nat /\ i \in Nat /\ j \in Nat
  <2>1. i \in Nat /\ j \in Nat
    BY DEF AgentList
  <2> QED
    BY <2>1, ListScores
<1>2. Fits(all, i) /\ Fits(all, j)
  BY DEF Leads
<1>3. /\ ScoreAgent(all[i]) > ScoreAgent(all[j]) \/ (ScoreAgent(all[i]) = ScoreAgent(all[j]) /\ i <= j)
      /\ ScoreAgent(all[j]) > ScoreAgent(all[i]) \/ (ScoreAgent(all[j]) = ScoreAgent(all[i]) /\ j <= i)
  BY <1>2 DEF Leads
<1> QED
  BY <1>1, <1>3

LEMMA SurfacesLemma ==
    ASSUME NEW d \in [File -> Contents], Registered(d, d), WellFormed(d)
    PROVE  \/ MatchAgent \in BuiltIn
           \/ MatchAgent = ClassifyPrompt(LoadAgentConfigs(d))
           \/ MatchAgent = Default /\ ClassifyPrompt(LoadAgentConfigs(d)) = Polymorphic
<1>1. PICK agents : agents = Agents(d, JsonObjects)
  OBVIOUS
<1>2. PoolOf(agents, pool) /\ contexts = Merged(LoadJsonAgents(d)) /\ agents = LoadAgentConfigs(d)
  BY <1>1, SameReads, PoolIsOf DEF Registered, LoadAgentConfigs
<1>3. AgentList(agents) /\ AgentList(pool)
  <2>1. AgentList(agents)
    BY <1>1, AgentsAreRead, Zenon DEF ReadOf
  <2>2. AgentList(pool)
    BY <1>2, Zenon DEF PoolOf
  <2> QED
    BY <2>1, <2>2
<1>o. OverlayOf(agents, LoadJsonAgents(d))
  BY <1>1, LoadedJson
<1>4. /\ Len(agents) \in Nat /\ DOMAIN agents = 1..Len(agents)
      /\ Len(pool) \in Nat /\ DOMAIN pool = 1..Len(pool) /\ Len(agents) <= Len(pool)
  <2>1. Len(agents) <= Len(pool)
    BY <1>2, Zenon DEF PoolOf
  <2> QED
    BY <1>3, <2>1, ListDomain
<1>5. Named(agents) /\ \A i, j \in DOMAIN agents : agents[i].category = agents[j].category => i = j
  <2>1. \A i, j \in DOMAIN agents : /\ agents[i].named /\ agents[i].category # ""
                                    /\ agents[i].category = agents[j].category => i = j
    BY <1>1, Zenon DEF WellFormed
  <2>2. Named(agents)
    BY <2>1, Zenon DEF Named
  <2>3. \A i, j \in DOMAIN agents : agents[i].category = agents[j].category => i = j
    BY <2>1, Zenon
  <2> QED
    BY <2>2, <2>3
<1>6. \A i \in DOMAIN agents : i \in DOMAIN pool /\ pool[i] = agents[i] /\ (Fits(pool, i) <=> Fits(agents, i))
  <2>1. \A i \in DOMAIN agents : i \in DOMAIN pool /\ pool[i] = agents[i]
    <3>1. \A i \in 1..Len(agents) : pool[i] = agents[i]
      BY <1>2, Zenon DEF PoolOf
    <3> QED
      BY <1>4, <3>1
  <2> QED
    BY <2>1 DEF Fits
<1>7. CASE MatchAgentCandidates = <<>>
  <2>1. \A i \in DOMAIN agents : ~Fits(agents, i)
    BY <1>3, <1>6, <1>7, CandidatesFit
  <2>2. ClassifyPrompt(agents) = Polymorphic
    BY <1>3, <1>5, <2>1, ScanFindsLeader DEF Leads
  <2>3. MatchAgent = Default
    BY <1>7 DEF MatchAgent
  <2> QED
    BY <1>2, <2>2, <2>3
<1>8. CASE MatchAgentCandidates # <<>>
  <2>1. PICK i \in DOMAIN pool : MatchAgentCandidates[1] = pool[i] /\ Leads(pool, i)
    BY <1>3, <1>8, CandidatesFit
  <2>2. MatchAgent = contexts[pool[i].category]
    <3>1. pool[i].category \in DOMAIN contexts
      BY <2>1, AllHaveContexts DEF Leads
    <3> QED
      BY <1>8, <2>1, <3>1 DEF MatchAgent, ContextOf
  <2>3. CASE i > Len(agents)
    <3>1. /\ HasOwn(pool[i].category)
          /\ \A j \in DOMAIN agents : agents[j].category # pool[i].category
      BY <1>2, <2>3 DEF PoolOf
    <3>2. pool[i].category \notin DOMAIN LoadJsonAgents(d)
      BY <1>o, <3>1 DEF OverlayOf
    <3>3. contexts[pool[i].category] \in BuiltIn
      BY <1>2, <3>1, <3>2, MergedHas
    <3> QED
      BY <2>2, <3>3
  <2>4. CASE ~(i > Len(agents))
    <3>1. i \in DOMAIN agents
      BY <1>4, <2>4
    <3>2. pool[i] = agents[i] /\ agents[i].category # "" /\ agents[i].category \in DOMAIN LoadJsonAgents(d)
      <4>1. pool[i] = agents[i]
        BY <1>6, <3>1
      <4>2. agents[i].category # ""
        BY <2>1, <4>1, Zenon DEF Leads, Fits
      <4> QED
        BY <1>o, <3>1, <4>1, <4>2 DEF OverlayOf
    <3>3. PICK j \in DOMAIN agents : agents[j].category = agents[i].category
                                     /\ LoadJsonAgents(d)[agents[i].category] = agents[j].id
      BY <1>o, <3>2, Zenon DEF OverlayOf
    <3>4. MatchAgent = agents[i].id
      <4>1. j = i
        BY <1>5, <3>1, <3>3, Zenon
      <4>2. contexts[agents[i].category] = LoadJsonAgents(d)[agents[i].category]
        BY <1>2, <3>2, MergedHas
      <4> QED
        BY <2>2, <3>2, <3>3, <4>1, <4>2, Zenon
    <3>5. Leads(agents, i)
      <4>1. Fits(agents, i)
        BY <1>6, <2>1, <3>1 DEF Leads
      <4>2. ASSUME NEW k \in DOMAIN agents, Fits(agents, k)
            PROVE  \/ ScoreAgent(agents[i]) > ScoreAgent(agents[k])
                   \/ ScoreAgent(agents[i]) = ScoreAgent(agents[k]) /\ i <= k
        <5>1. k \in DOMAIN pool /\ Fits(pool, k) /\ pool[k] = agents[k]
          BY <1>6, <4>2
        <5> QED
          BY <2>1, <3>2, <5>1 DEF Leads
      <4> QED
        BY <4>1, <4>2 DEF Leads
    <3>6. PICK k \in DOMAIN agents : ClassifyPrompt(agents) = agents[k].id /\ Leads(agents, k)
      BY <1>3, <1>5, <3>1, <3>5, ScanFindsLeader DEF Leads
    <3>7. k = i
      BY <1>3, <3>1, <3>5, <3>6, LeaderIsOne
    <3> QED
      BY <1>2, <3>4, <3>6, <3>7
  <2> QED
    BY <2>3, <2>4
<1> QED
  BY <1>7, <1>8

\* The hook's scan for a maximum and the library's stable sort, filter and lookup
\* choose the same agent from the same well-formed files, or the library a hardcoded
\* one (user-prompt-submit.py:92-112, agents.py:311-351).
THEOREM SurfacesTheorem == RoutingSpec => []SurfacesAgree
<1>1. ASSUME RoutingTypes, RegistryOK PROVE SurfacesAgree
  <2> SUFFICES ASSUME loaded, ~split, ~stale, WellFormed(disk)
               PROVE  \/ MatchAgent \in BuiltIn
                      \/ MatchAgent = ClassifyPrompt(LoadAgentConfigs(disk))
                      \/ MatchAgent = Default /\ ClassifyPrompt(LoadAgentConfigs(disk)) = Polymorphic
    BY Zenon DEF SurfacesAgree
  <2>1. PICK d \in [File -> Contents], e \in [File -> Contents] : Registered(d, e)
    BY <1>1, Zenon DEF RegistryOK
  <2>2. d = disk /\ e = disk
    BY <2>1, Zenon DEF Registered
  <2>3. Registered(disk, disk) /\ disk \in [File -> Contents]
    BY <2>1, <2>2
  <2> QED
    BY <2>3, SurfacesLemma, Zenon
<1> QED
  BY <1>1, RegistryLemma, PTL
=============================================================================
