--------------------------- MODULE MCPatternStore ---------------------------
(***************************************************************************)
(* Instances of PatternStore for TLC: three keys, two in one domain and    *)
(* one in another, with room for one or two patterns per domain.  The      *)
(* service sends a pattern without an id twice over, another under the id  *)
(* that goes with it, one without a weight, and one that is lighter than   *)
(* the floor under an id of the service's own.                             *)
(***************************************************************************)
EXTENDS PatternStore, TLC

CONSTANTS k1, k2, k3, p1, p2, p3, q1, dA, dB

MCKey == {k1, k2, k3}
MCDomain == {dA, dB}
MCDomainOf == k1 :> dA @@ k2 :> dA @@ k3 :> dB
MCPattern == {p1, p2, p3, q1}
MCIdOf == k1 :> p1 @@ k2 :> p2 @@ k3 :> p3

Symmetry == Permutations(Stop)

\* p1 listed in two prompts of a failure; successes without edits, and with edits that
\* teach k2, or k3 and k2.
Shown(n) == [id \in MCPattern |-> IF id = p1 THEN n ELSE 0]
Input(n, success, learned) == [shown |-> Shown(n), success |-> success, learned |-> learned]
MCInputs == {Input(2, FALSE, <<>>), Input(1, TRUE, <<>>),
             Input(0, TRUE, <<k2>>), Input(1, TRUE, <<k3, k2>>)}

Rec(key, id, weight, injections, successes) ==
  [key |-> key, pattern_id |-> id, weight |-> weight, injection_count |-> injections,
   utilization_successes |-> successes, last_seen |-> 0]

MCRemoteLists ==
  {<<Rec(k3, NoId, 700, 0, 0), Rec(k3, NoId, 700, 0, 0), Rec(k1, p3, 200, 1, 0)>>,
   <<Rec(k2, p2, NoWeight, 3, 0), Rec(k1, q1, 30, 0, 0)>>}
MCInitialLists ==
  {<<>>, <<Rec(k1, p1, 650, 2, 1)>>, <<Rec(k2, p2, 120, 1, 0), Rec(k3, p3, 900, 0, 0)>>}

=============================================================================
