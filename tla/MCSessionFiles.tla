--------------------------- MODULE MCSessionFiles ---------------------------
(***************************************************************************)
(* Instances of SessionFiles for TLC.  Hooks and conversations are treated *)
(* alike by every action, so both are symmetry sets.                       *)
(***************************************************************************)
EXTENDS SessionFiles, TLC

Symmetry == Permutations(Hook) \cup Permutations(Conv)

\* Once updates of a file have overlapped no property compares more of its ledger
\* than the latest prompt, and no action looks at more of it than three fields; an answer
\* once given, or a link once made, is not looked at again.  States that differ only
\* in the rest are explored once.
Telling(data) == <<data["ci_passing"], data["conversation_id"], data["latest_correlation_id"]>>
OfFile(f) ==
  IF f \in disturbed THEN <<files[f].state, Telling(files[f].data), ledger[f]["latest_correlation_id"]>>
  ELSE <<files[f], ledger[f]>>
OfCopy(h) ==
  IF Writing(h) /\ Job(h).file \in disturbed THEN Telling(copy[h]) ELSE copy[h]

View == <<flag, launched, conv, todo, step, disturbed, earned,
          [f \in File |-> OfFile(f)], [h \in Hook |-> <<OfCopy(h), gate[h] = "none">>]>>

=============================================================================
