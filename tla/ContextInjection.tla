-------------------------- MODULE ContextInjection --------------------------
(***************************************************************************)
(* What a session gets to read: the learned patterns and the summary of an *)
(* earlier session.  Hooks only read here, one file at a time and without  *)
(* a lock, while stops and syncs replace the learned patterns and other    *)
(* conversations rewrite their session files.                              *)
(*                                                                         *)
(* The service is asked first.  When it has no answer the learned patterns *)
(* are read, or the seed patterns if none have been learned, by way of a   *)
(* cache that is cold in each new process.  A prompt keeps what is         *)
(* relevant to it; session-start and post-tool-use take the list of a      *)
(* domain as it is, and session-start looks for the session file written   *)
(* last.                                                                   *)
(***************************************************************************)
EXTENDS Integers, Sequences, FiniteSets, SequencesExt, Ranking

CONSTANTS
    Hooks,          \* processes
    Conversations,  \* the hooks belong to one of them
    Own,            \* that one
    Versions,       \* lists of patterns that stops and syncs may leave
    Absent,         \* stands for learned_patterns.json before anything is learned
    Seed,           \* seed_patterns.json
    Answers,        \* lists the service may answer with
    Domains,        \* domains of agents and of file types, "general" among them
    MAX_PATTERNS,   \* 5 in the code
    MaxClock        \* bound on the clock

\* A pattern has a domain, a number of significant words in its description,
\* and a number of them that the prompt has too.
Patterns == [id : Nat, domain : Domains, words : Nat, hits : Nat]

ASSUME ListsAssumption ==
    /\ Versions \cup Answers \cup {Seed} \subseteq Seq(Patterns)
    /\ \A list \in Versions \cup Answers \cup {Seed} : \A i \in DOMAIN list : list[i].hits <= list[i].words

ASSUME ConversationsAssumption == Own \in Conversations
ASSUME BoundsAssumption == Absent \notin Versions /\ "general" \in Domains /\ MAX_PATTERNS \in Nat \ {0} /\ MaxClock \in Nat

\* A "bare" prompt has no significant word.
Kinds == {"start", "prompt", "bare", "tool"}

VARIABLES
    learned,    \* learned_patterns.json: a list, or absent
    mtime,      \* time of the last write of each session file, -1 if there is none
    torn,       \* session files that are in mid-write
    clock,
    pc, kind, domain,  \* of each hook: step, script and domain
    source,     \* file to read the patterns from
    raw,        \* list fetched
    patterns,   \* list the hook injects or records
    unseen,     \* session files it has yet to stat
    best,       \* the one written last so far, with its time
    prior,      \* the summary it has read
    \* For the properties only.
    sources,    \* lists that were there to be read since the hook was started
    listed      \* mtime when the hook listed the session files

world == <<learned, mtime, torn, clock>>
vars == <<world, pc, kind, domain, source, raw, patterns, unseen, best, prior, sources, listed>>
-----------------------------------------------------------------------------
(***************************************************************************)
(* Relevance, as a fraction of exact tenths: the domain counts 10, 6 or 3, *)
(* the words up to 4, and all of it no more than 10.                       *)
(***************************************************************************)
BaseScore(p, d) == IF p.domain = d THEN 10 ELSE IF p.domain = "general" THEN 6 ELSE 3

ScorePatternRelevance(p, d) ==
    LET words == IF p.words = 0 THEN 1 ELSE p.words
        sum == BaseScore(p, d) * words + 4 * p.hits
    IN [num |-> IF sum > 10 * words THEN 10 * words ELSE sum, den |-> words]

THRESHOLD == 7

\* Mutant of Qualifies: the threshold itself does not qualify.
QualifiesAbove(score) == score.num > THRESHOLD * score.den

Qualifies(score) == score.num >= THRESHOLD * score.den

HigherScore(a, b) == a.num * b.den > b.num * a.den
SameScore(a, b) == a.num * b.den = b.num * a.den

\* Relevant patterns by falling score, equal ones in the order of the list.
Ranked(list, d) ==
    LET score == [i \in DOMAIN list |-> ScorePatternRelevance(list[i], d)]
        places == {i \in DOMAIN list : Qualifies(score[i])}
        at == InOrder(places, {p \in places \X places :
                                 \/ HigherScore(score[p[1]], score[p[2]])
                                 \/ SameScore(score[p[1]], score[p[2]]) /\ p[1] < p[2]})
    IN [k \in DOMAIN at |-> list[at[k]]]

\* What fits into a block or a row.
Cut(list) == IF Len(list) > MAX_PATTERNS THEN SubSeq(list, 1, MAX_PATTERNS) ELSE list

\* What a cache that is warm with list has for a domain, and for want of it
\* for the general one.
CacheGet(list, d) == Filtered(list, {i \in DOMAIN list : list[i].domain = d})
OfDomain(list, d) == IF CacheGet(list, d) # <<>> THEN CacheGet(list, d) ELSE CacheGet(list, "general")
-----------------------------------------------------------------------------
At(h, s) == pc[h] = s
Goto(h, s) == pc' = [pc EXCEPT ![h] = s]
NoFile == [of |-> "none", time |-> -1]

\* The list in a patterns file that is read now.
OnDisk(s) == IF s = "seed" THEN Seed ELSE learned
Current == IF learned = Absent THEN Seed ELSE learned

Init ==
    /\ learned \in Versions \cup {Absent}
    /\ mtime \in [Conversations -> {-1, 0}]
    /\ torn = {} /\ clock = 0
    /\ pc = [h \in Hooks |-> "idle"]
    /\ kind \in [Hooks -> Kinds]
    /\ domain \in {d \in [Hooks -> Domains] : \A h \in Hooks : kind[h] = "start" => d[h] = "general"}
    /\ source = [h \in Hooks |-> "none"]
    /\ raw = [h \in Hooks |-> <<>>]
    /\ patterns = [h \in Hooks |-> <<>>]
    /\ unseen = [h \in Hooks |-> {}]
    /\ best = [h \in Hooks |-> NoFile]
    /\ prior = [h \in Hooks |-> "none"]
    /\ sources = [h \in Hooks |-> {}]
    /\ listed = [h \in Hooks |-> [c \in Conversations |-> -1]]

Fire(h) ==
    /\ At(h, "idle")
    /\ Goto(h, "ask")
    /\ sources' = [sources EXCEPT ![h] = {Current}]
    /\ UNCHANGED <<world, kind, domain, source, raw, patterns, unseen, best, prior, listed>>

\* The service answers with a list, or not in time, or with something else.
Ask(h) ==
    /\ At(h, "ask")
    /\ \/ \E list \in Answers :
            /\ raw' = [raw EXCEPT ![h] = list]
            /\ sources' = [sources EXCEPT ![h] = {list}]
            /\ Goto(h, "filter")
       \/ Goto(h, "choose") /\ UNCHANGED <<raw, sources>>
    /\ UNCHANGED <<world, kind, domain, source, patterns, unseen, best, prior, listed>>

Choose(h) ==
    /\ At(h, "choose")
    /\ source' = [source EXCEPT ![h] = IF learned # Absent THEN "learned" ELSE "seed"]
    /\ Goto(h, "warm")
    /\ UNCHANGED <<world, kind, domain, raw, patterns, unseen, best, prior, sources, listed>>

\* Mutant of Warmed: the seed patterns are read on top of the learned ones.
WarmedOnTop(s) == IF s = "seed" THEN OnDisk(s) ELSE OnDisk(s) \o Seed

\* warm_from_json on a cold cache.
Warmed(s) == OnDisk(s)

\* A file that cannot be read leaves the cache cold, and the list empty.
Warm(h) ==
    /\ At(h, "warm")
    /\ \/ raw' = [raw EXCEPT ![h] = OfDomain(Warmed(source[h]), domain[h])] /\ UNCHANGED sources
       \/ raw' = [raw EXCEPT ![h] = OfDomain(<<>>, domain[h])] /\ sources' = [sources EXCEPT ![h] = @ \cup {<<>>}]
    /\ Goto(h, "filter")
    /\ UNCHANGED <<world, kind, domain, source, patterns, unseen, best, prior, listed>>

Filter(h) ==
    /\ At(h, "filter")
    /\ patterns' = [patterns EXCEPT ![h] =
                        Cut(IF kind[h] = "prompt" THEN Ranked(raw[h], domain[h]) ELSE raw[h])]
    /\ Goto(h, IF kind[h] = "start" THEN "list" ELSE "done")
    /\ UNCHANGED <<world, kind, domain, source, raw, unseen, best, prior, sources, listed>>
-----------------------------------------------------------------------------
Candidates == {c \in Conversations \ {Own} : mtime[c] >= 0}

ListSessions(h) ==
    /\ At(h, "list")
    /\ unseen' = [unseen EXCEPT ![h] = Candidates]
    /\ listed' = [listed EXCEPT ![h] = mtime]
    /\ Goto(h, IF Candidates = {} THEN "done" ELSE "stat")
    /\ UNCHANGED <<world, kind, domain, source, raw, patterns, best, prior, sources>>

\* Mutant of Newer: the first file wins for good.
NewerNever(time, than) == than.of = "none"

Newer(time, than) == time > than.time

\* max(..., key=mtime): one stat after the other, the earlier wins a tie.
Stat(h) ==
    /\ At(h, "stat")
    /\ \E c \in unseen[h] :
         /\ unseen' = [unseen EXCEPT ![h] = @ \ {c}]
         /\ best' = [best EXCEPT ![h] =
                        IF Newer(mtime[c], @) THEN [of |-> c, time |-> mtime[c]] ELSE @]
         /\ Goto(h, IF unseen[h] = {c} THEN "read" ELSE "stat")
    /\ UNCHANGED <<world, kind, domain, source, raw, patterns, prior, sources, listed>>

\* A file that is in mid-write is empty, and the hook goes without.
ReadPrior(h) ==
    /\ At(h, "read")
    /\ prior' = [prior EXCEPT ![h] = IF best[h].of \in torn THEN "none" ELSE best[h].of]
    /\ Goto(h, "done")
    /\ UNCHANGED <<world, kind, domain, source, raw, patterns, unseen, best, sources, listed>>

HookStep(h) ==
    \/ Fire(h) \/ Ask(h) \/ Choose(h) \/ Warm(h) \/ Filter(h)
    \/ ListSessions(h) \/ Stat(h) \/ ReadPrior(h)
-----------------------------------------------------------------------------
local == <<pc, kind, domain, source, raw, patterns, unseen, best, prior, listed>>

\* A stop or a sync replaces the learned patterns.
SaveLearned ==
    /\ \E list \in Versions : learned' = list
    /\ sources' = [h \in Hooks |-> IF pc[h] \in {"ask", "choose", "warm"} THEN sources[h] \cup {learned'} ELSE sources[h]]
    /\ UNCHANGED <<mtime, torn, clock, local>>

\* A hook of a conversation truncates its session file, or fills it again.
WriteSession(c) ==
    /\ torn' = IF c \in torn THEN torn \ {c} ELSE torn \cup {c}
    /\ mtime' = [mtime EXCEPT ![c] = clock]
    /\ UNCHANGED <<learned, clock, local, sources>>

Tick ==
    /\ clock < MaxClock
    /\ clock' = clock + 1
    /\ UNCHANGED <<learned, mtime, torn, local, sources>>

Next ==
    \/ \E h \in Hooks : HookStep(h)
    \/ SaveLearned \/ Tick
    \/ \E c \in Conversations : WriteSession(c)

Spec == Init /\ [][Next]_vars
-----------------------------------------------------------------------------
\* The type invariant.  What the lists hold is the subject of the next two.
TypeOK ==
    /\ learned \in Versions \cup {Absent}
    /\ mtime \in [Conversations -> -1..MaxClock] /\ torn \subseteq Conversations /\ clock \in 0..MaxClock
    /\ pc \in [Hooks -> {"idle", "ask", "choose", "warm", "filter", "list", "stat", "read", "done"}]
    /\ kind \in [Hooks -> Kinds] /\ domain \in [Hooks -> Domains]
    /\ source \in [Hooks -> {"none", "seed", "learned"}]
    /\ unseen \in [Hooks -> SUBSET Conversations]
    /\ best \in [Hooks -> [of : Conversations \cup {"none"}, time : -1..MaxClock]]
    /\ prior \in [Hooks -> Conversations \cup {"none"}]
    /\ listed \in [Hooks -> [Conversations -> -1..MaxClock]]

\* The reference for a prompt, without scores.  A pattern qualifies if it is of the
\* domain, if it is general and the prompt has a quarter of its words, or if the
\* prompt has all of them.  It ranks by the share of its words that the prompt has,
\* one of the domain as if that were all, one of another domain as if it were a
\* quarter.  A place that qualifies and is left out is behind all that are kept,
\* and they are MAX_PATTERNS.
IsBest(result, list, d) ==
    LET All(i) == list[i].words > 0 /\ list[i].hits = list[i].words
        Quarter(i) == list[i].words > 0 /\ 4 * list[i].hits >= list[i].words
        good == {i \in DOMAIN list : \/ list[i].domain = d \/ All(i)
                                     \/ list[i].domain = "general" /\ Quarter(i)}
        share(i) == IF list[i].domain = d THEN <<1, 1>>
                    ELSE IF list[i].domain = "general" THEN <<list[i].hits, list[i].words>>
                    ELSE <<1, 4>>
        Ahead(i, j) == LET mine == share(i)[1] * share(j)[2]
                           other == share(j)[1] * share(i)[2]
                       IN mine > other \/ (mine = other /\ i < j)
    IN \E place \in [DOMAIN result -> good] :
         /\ Len(result) <= MAX_PATTERNS
         /\ \A k \in DOMAIN result : result[k] = list[place[k]]
         /\ \A k, l \in DOMAIN result : k < l => Ahead(place[k], place[l])
         /\ \A i \in good : \/ \E k \in DOMAIN result : place[k] = i
                            \/ Len(result) = MAX_PATTERNS /\ \A k \in DOMAIN result : Ahead(place[k], i)

\* A prompt records the best of what was fetched, by what the base scores, the
\* weight of the words, the cap and the threshold come to
\* (prompt_pattern_selection.py:71-110), at most five; the others go on with no
\* more than five either.
SelectionBest ==
    \A h \in Hooks :
        At(h, "done") =>
            IF kind[h] = "prompt" THEN IsBest(patterns[h], raw[h], domain[h])
            ELSE Len(patterns[h]) <= MAX_PATTERNS /\ IsPrefix(patterns[h], raw[h])

\* What a hook works with comes from one source: the answer of the service, or
\* a list that was in the file, whole, at some moment between its start and its
\* read, of its domain or, failing that, the general one - whatever is
\* learned or saved meanwhile (context_injection.py:130-145).
PatternsFromOneSource ==
    \A h \in Hooks :
        pc[h] \in {"filter", "list", "stat", "read", "done"} =>
            \E list \in sources[h] :
                raw[h] = IF source[h] = "none" THEN list ELSE OfDomain(list, domain[h])

\* The session that is presented as the prior one is another than this, and
\* no third was ahead of it when the files were listed: whoever writes in
\* between can only move it further ahead (context_injection.py:153-172).
PriorIsLatest ==
    \A h \in Hooks :
        prior[h] # "none" =>
            /\ prior[h] # Own
            /\ \A c \in Conversations \ {Own} : listed[h][c] <= best[h].time
            /\ best[h].time <= mtime[prior[h]]
=============================================================================
