---------------------------- MODULE SnapshotStore ----------------------------
(***************************************************************************)
(* What a shared file that is replaced as a whole promises its clients     *)
(* without a lock: a client gets one version of it, entire, or, when its   *)
(* reading fails, Nothing; and it installs at most one new version,        *)
(* derived from what it got.  Nothing else changes the file: no version is *)
(* a mixture of two, none is cut short, and a client that gives up leaves  *)
(* no trace.  That no version is overwritten unread is not promised, and   *)
(* after a reading that failed one is.                                     *)
(***************************************************************************)
CONSTANTS
  Client,
  Initial,            \* values the store may hold at first
  Nothing,            \* what a client gets when its reading fails
  Update(_, _, _)     \* what a client makes of a value, given what it is to add

VARIABLES
  value,    \* what a reader of the store gets
  copy,     \* what each client has read
  intent,   \* what each client is to add
  phase     \* "idle" before it reads, "holds" a copy, "done"

Init ==
  /\ value \in Initial
  /\ phase = [c \in Client |-> "idle"]

Goto(c, from, to) == phase[c] = from /\ phase' = [phase EXCEPT ![c] = to]

OthersKeep(c) == \A d \in Client \ {c} : copy'[d] = copy[d] /\ intent'[d] = intent[d]

\* Reading takes the whole value or fails; a client with nothing to add is done at once.
Read(c) ==
  /\ Goto(c, "idle", "holds") \/ Goto(c, "idle", "done")
  /\ copy'[c] \in {value, Nothing}
  /\ OthersKeep(c)
  /\ UNCHANGED value

\* A client that holds a copy may still learn what it is to add.
Decide(c) ==
  /\ phase[c] = "holds"
  /\ copy'[c] = copy[c]
  /\ OthersKeep(c)
  /\ UNCHANGED <<value, phase>>

Install(c) ==
  /\ Goto(c, "holds", "done")
  /\ value' = Update(c, copy[c], intent[c])
  /\ UNCHANGED <<copy, intent>>

GiveUp(c) ==
  /\ Goto(c, "idle", "done") \/ Goto(c, "holds", "done")
  /\ UNCHANGED <<value, copy, intent>>

Next == \E c \in Client : Read(c) \/ Decide(c) \/ Install(c) \/ GiveUp(c)

Spec == Init /\ [][Next]_<<value, copy, intent, phase>>

=============================================================================
