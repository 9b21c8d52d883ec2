----------------------------- MODULE MCStopHook -----------------------------
(***************************************************************************)
(* Instances of StopHook for TLC.  There are two patterns of one domain,   *)
(* with room for both; a prompt that lists p1 and tells of a completion,   *)
(* an edit that shows an error, an edit without a path that tells of a     *)
(* completion, and a denied command whose text would do for a success.  A  *)
(* status of "ok" leaves the outcome to them and to the clock.             *)
(***************************************************************************)
EXTENDS StopHook, TLC

CONSTANTS k1, k2, p1, p2, dA

MCKey == {k1, k2}
MCDomain == {dA}
MCDomainOf == k1 :> dA @@ k2 :> dA
MCPattern == {p1, p2}
MCIdOf == k1 :> p1 @@ k2 :> p2

Event(kind, lines, file, ids, learns) ==
  [event |-> kind, lines |-> lines, file |-> file, decision |-> None,
   injected_pattern_ids |-> ids, learns |-> learns]

Prompt == Event("prompt_classified", {{"completion"}}, None, {p1}, k2)
Edit == Event("file_edited", {{"error"}, {"failed", "zero"}}, "f", {}, None)
Nameless == Event("file_edited", {{"completion"}}, None, {}, None)
Denied == [Event("shell_guard", {{"failed", "zero", "completion"}}, None, {}, None)
             EXCEPT !.decision = "deny"]

Symmetry == Permutations(Stop) \cup Permutations(Conv)

\* Nothing reads the summaries or the recap, and of the events sent the properties
\* look at the runs alone.
View == <<log, gone, clock, patterns, outbox, {e[2] : e \in sent}, pc, run, fate, mixed>>

MCTemplates == {Prompt, Edit, Nameless, Denied}

Rec(key, weight, injections, age) ==
  [key |-> key, pattern_id |-> IdOf[key], weight |-> weight, injection_count |-> injections,
   utilization_successes |-> 0, last_seen |-> -age]

\* Two known patterns, one of them near the floor and due for decay; and one that came
\* from the service without a weight and makes the decay raise.
MCTwoPatterns == <<Rec(k1, 600, 0, 1), Rec(k2, 120, 0, 45)>>
MCInitialLists == {MCTwoPatterns, <<Rec(k2, NoWeight, 0, 45)>>}

=============================================================================
