---------------------------- MODULE PatternWriter ----------------------------
(***************************************************************************)
(* The update that the stop hook applies to the learned patterns           *)
(* (src/omnicursor/pattern_writer.py): decay, metric updates, learning and *)
(* the two evictions, as operators on the list of patterns in the file.    *)
(*                                                                         *)
(* Weights are in thousandths, the precision they are rounded to; time is  *)
(* in days.  A pattern has a key, its domain and its text, and a           *)
(* pattern_id, which a record of the service may lack or have chosen       *)
(* otherwise than this code does.  What one stop gives the update is a     *)
(* record:                                                                 *)
(*   shown    per id, the prompt_classified events that list it            *)
(*   success  whether the session outcome is "success"                     *)
(*   learned  the keys of the routed prompts, in order (empty unless files *)
(*            were edited)                                                 *)
(***************************************************************************)
EXTENDS Integers, Sequences, SequencesExt, FiniteSetsExt

CONSTANTS
  Key,                              \* domains with the text of a pattern
  Domain,
  DomainOf,                         \* the domain in a key
  Pattern,                          \* pattern ids
  IdOf,                             \* _make_pattern_id: the id made from a key
  NoId,                             \* no id
  NoWeight,                         \* no weight
  MAX_PATTERNS_PER_DOMAIN,          \* 20 in the code
  UTILIZATION_EVICT_MIN_INJECTIONS  \* 10 in the code

ASSUME DomainAssumption == DomainOf \in [Key -> Domain]
\* The hash of a key is taken for the key.
ASSUME IdAssumption ==
  IdOf \in [Key -> Pattern] /\ \A k, l \in Key : IdOf[k] = IdOf[l] => k = l
ASSUME NothingAssumption == NoId \notin Pattern /\ NoWeight \notin Int
ASSUME CapAssumption == MAX_PATTERNS_PER_DOMAIN \in Nat \ {0}
ASSUME MinInjectionsAssumption == UTILIZATION_EVICT_MIN_INJECTIONS \in Nat

INITIAL_WEIGHT == 600
WEIGHT_INCREMENT == 50
UTILIZATION_INCREMENT == 75     \* WEIGHT_INCREMENT * the success multiplier 1.5
WEIGHT_CAP == 950
WEIGHT_FLOOR == 100
DECAY_DAYS == 30
DECAY_AMOUNT == 100

AtMost(x, bound) == IF x > bound THEN bound ELSE x
AtLeast(x, bound) == IF x < bound THEN bound ELSE x

\* A record that came from the service may have no weight.
WeightOr(p, default) == IF p.weight = NoWeight THEN default ELSE p.weight

\* _load_patterns, for one pattern: an id where there is none.
Identified(p) == IF p.pattern_id = NoId THEN [p EXCEPT !.pattern_id = IdOf[p.key]] ELSE p

\* What the age of a pattern takes off its weight, to the nearest thousandth.
DecayDue(days) ==
  IF days > DECAY_DAYS
  THEN (2 * DECAY_AMOUNT * (days - DECAY_DAYS) + DECAY_DAYS) \div (2 * DECAY_DAYS)
  ELSE 0

\* Mutant of Decayed: the floor is forgotten.
DecayedNoFloor(p, now) ==
  IF now - p.last_seen > DECAY_DAYS
  THEN [p EXCEPT !.weight = @ - DecayDue(now - p.last_seen)] ELSE p

\* _decay_patterns, for one pattern.  last_seen is not touched, so the next call
\* takes the whole amount off again.
Decayed(p, now) ==
  IF now - p.last_seen > DECAY_DAYS
  THEN [p EXCEPT !.weight = AtLeast(@ - DecayDue(now - p.last_seen), WEIGHT_FLOOR)]
  ELSE p

\* p["weight"] raises KeyError where there is no weight, out of write_session_patterns.
DecayRaises(patterns, now) ==
  \E i \in DOMAIN patterns :
    patterns[i].weight = NoWeight /\ now - patterns[i].last_seen > DECAY_DAYS

Raised(p, amount) == AtMost(WeightOr(p, INITIAL_WEIGHT) + amount, WEIGHT_CAP)

\* The metric updates of one pattern: one injection per event that listed its id and,
\* when the session succeeded, as many successes and increments.
Counted(p, input, now) ==
  LET n == input.shown[p.pattern_id]
      injected == [p EXCEPT !.injection_count = @ + n]
  IN IF n > 0 /\ input.success
     THEN [injected EXCEPT !.utilization_successes = @ + n,
                           !.weight = Raised(p, n * UTILIZATION_INCREMENT),
                           !.last_seen = now]
     ELSE injected

\* id_index: of two patterns with one id the last is counted.
LastWithId(patterns, i) ==
  \A j \in DOMAIN patterns : patterns[j].pattern_id = patterns[i].pattern_id => j <= i

NewPattern(key, now) ==
  [key |-> key, pattern_id |-> IdOf[key], weight |-> INITIAL_WEIGHT, injection_count |-> 0,
   utilization_successes |-> 0, last_seen |-> now]

\* Another success of a pattern that is in the file.
Reinforced(p, now) ==
  [p EXCEPT !.weight = Raised(p, WEIGHT_INCREMENT), !.last_seen = now]

\* _upsert_pattern: the first pattern with the key, whatever its id, or a new one.
Upsert(patterns, key, now) ==
  LET same == {i \in DOMAIN patterns : patterns[i].key = key}
  IN IF same = {} THEN Append(patterns, NewPattern(key, now))
     ELSE [i \in DOMAIN patterns |->
             IF i = Min(same) THEN Reinforced(patterns[i], now) ELSE patterns[i]]

\* Injected often, but a success in fewer than one case of five.
PoorlyUsed(p) ==
  /\ p.injection_count > UTILIZATION_EVICT_MIN_INJECTIONS
  /\ 5 * p.utilization_successes < p.injection_count

\* _evict_low_utilization
EvictLowUtilization(patterns) ==
  FoldLeft(LAMBDA result, p : IF PoorlyUsed(p) THEN result ELSE Append(result, p), <<>>, patterns)

SameDomain(p, q) == DomainOf[p.key] = DomainOf[q.key]

\* Mutant of Outranks: lightest first.
OutranksLightest(patterns, j, i) ==
  \/ WeightOr(patterns[j], 0) < WeightOr(patterns[i], 0)
  \/ WeightOr(patterns[j], 0) = WeightOr(patterns[i], 0) /\ j < i

\* sort(key=weight, reverse=True) is stable: of two equal weights the earlier stays first.
Outranks(patterns, j, i) ==
  \/ WeightOr(patterns[j], 0) > WeightOr(patterns[i], 0)
  \/ WeightOr(patterns[j], 0) = WeightOr(patterns[i], 0) /\ j < i

\* The patterns of the domain of the i-th one that come before it once sorted.
Rank(patterns, i) ==
  Cardinality({j \in DOMAIN patterns :
                 SameDomain(patterns[i], patterns[j]) /\ Outranks(patterns, j, i)})

FirstOfDomain(patterns, i) == Min({j \in DOMAIN patterns : SameDomain(patterns[i], patterns[j])})

\* Domains come in the order of their first pattern, the patterns of one heaviest first.
Before(patterns, i, j) ==
  \/ FirstOfDomain(patterns, i) < FirstOfDomain(patterns, j)
  \/ SameDomain(patterns[i], patterns[j]) /\ Outranks(patterns, i, j)

Kept(patterns) == {i \in DOMAIN patterns : Rank(patterns, i) < MAX_PATTERNS_PER_DOMAIN}

\* _evict_overflow: of each domain only the first ones, in that order.
EvictOverflow(patterns) ==
  LET kept == Kept(patterns)
      Position(i) == Cardinality({j \in kept : Before(patterns, j, i)})
  IN [k \in 1..Cardinality(kept) |-> patterns[CHOOSE i \in kept : Position(i) = k - 1]]

\* The list that is loaded, decayed and counted ...
LoadedAndCounted(patterns, input, now) ==
  LET aged == [i \in DOMAIN patterns |-> Decayed(Identified(patterns[i]), now)]
  IN [i \in DOMAIN aged |->
        IF LastWithId(aged, i) THEN Counted(aged[i], input, now) ELSE aged[i]]

\* ... and learned from, before the evictions.
Learned(patterns, input, now) ==
  LET counted == LoadedAndCounted(patterns, input, now)
  IN IF input.success
     THEN FoldLeft(LAMBDA ps, key : Upsert(ps, key, now), counted, input.learned)
     ELSE counted

\* write_session_patterns, from the list it loads to the list it saves.
WriteSessionPatterns(patterns, input, now) ==
  EvictOverflow(EvictLowUtilization(Learned(patterns, input, now)))

\* "if not existing and changed == 0: return 0": nothing is saved.
NothingToSave(patterns, input) == patterns = <<>> /\ ~(input.success /\ input.learned # <<>>)

=============================================================================
