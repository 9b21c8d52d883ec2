---------------------------- MODULE DaemonEnsure ----------------------------
(***************************************************************************)
(* The spawn protocol of .cursor/hooks/lib/daemon_ensure.py.               *)
(*                                                                         *)
(* Every hook is a process of its own.  One that reaches ensure_daemon     *)
(* pings the shared daemon and, when the ping fails, claims a stamp file   *)
(* with O_EXCL before it launches a detached wrapper.  Nothing but the     *)
(* file system orders the hooks, so the model has one action per system    *)
(* call on the stamp.                                                      *)
(*                                                                         *)
(* The k-th file ever created under the stamp's path is number k, and      *)
(* claims[k] says who created it and when: a stamp is the number of the    *)
(* file that now has the name, 0 when none has, and its mtime is           *)
(* claims[stamp].at.                                                       *)
(***************************************************************************)
EXTENDS Naturals, Sequences, FiniteSets

CONSTANTS
  Hook,       \* invocations that reach ensure_daemon
  TTL,        \* _SPAWN_STAMP_TTL_S, in ticks of the clock
  MaxTime,    \* bound on the clock
  Killable,   \* may Cursor kill a hook between two steps?
  FsFaults    \* may a call on the stamp fail for an unexpected reason?

ASSUME TTLAssumption == TTL \in Nat
ASSUME MaxTimeAssumption == MaxTime \in Nat
ASSUME FlagAssumption == Killable \in BOOLEAN /\ FsFaults \in BOOLEAN

VARIABLES
  pc,         \* where each hook is
  now,        \* wall clock
  stamp,      \* number of the stamp file that is in place, 0 for none
  claims,     \* every stamp file created so far
  verdict,    \* per hook, the newest file when it judged the stamp stale
  clobbered,  \* files unlinked on a verdict that is older than they are
  wrappers,   \* detached children that are neither serving nor gone
  serving,    \* does a daemon answer on the socket?
  faulted     \* hooks one of whose calls on the stamp failed unexpectedly

vars == <<pc, now, stamp, claims, verdict, clobbered, wrappers, serving, faulted>>

\* How an invocation can end; "orphaned" was killed between unlink and create.
Ended == {"available", "disabled", "backoff", "launched", "failed", "killed", "orphaned"}
Steps == {"idle", "ping", "resolve", "claim", "stat", "unlink", "recreate", "spawn"}

Claim == [by : Hook, at : 0..MaxTime]

TypeOK ==
  /\ pc \in [Hook -> Steps \cup Ended]
  /\ now \in 0..MaxTime
  /\ claims \in Seq(Claim)
  /\ stamp \in 0..Len(claims)
  /\ verdict \in [Hook -> 0..Len(claims)]
  /\ clobbered \subseteq 1..Len(claims)
  /\ wrappers \subseteq Hook
  /\ serving \in BOOLEAN
  /\ faulted \subseteq Hook

Init ==
  /\ pc = [h \in Hook |-> "idle"]
  /\ now = 0
  /\ stamp = 0
  /\ claims = <<>>
  /\ verdict = [h \in Hook |-> 0]
  /\ clobbered = {}
  /\ wrappers = {}
  /\ serving = FALSE
  /\ faulted = {}

Goto(h, from, to) ==
  /\ pc[h] = from
  /\ pc' = [pc EXCEPT ![h] = to]

Age(k) == now - claims[k].at

\* os.open(stamp, O_CREAT | O_EXCL): the file of the next number takes the name.
Create(h) ==
  /\ stamp = 0
  /\ stamp' = Len(claims) + 1
  /\ claims' = Append(claims, [by |-> h, at |-> now])

StampUnchanged == UNCHANGED <<stamp, claims, verdict, clobbered>>
OutsideUnchanged == UNCHANGED <<now, wrappers, serving>>
NoFault == UNCHANGED faulted
Fault(h) == FsFaults /\ faulted' = faulted \cup {h}

Begin(h) ==
  /\ Goto(h, "idle", "ping")
  /\ StampUnchanged /\ OutsideUnchanged /\ NoFault

\* A daemon that serves may still miss the 0.1 s ping; one that does not never answers.
Ping(h) ==
  /\ \/ serving /\ Goto(h, "ping", "available")
     \/ Goto(h, "ping", "resolve")
  /\ StampUnchanged /\ OutsideUnchanged /\ NoFault

\* Interpreter, registry and directories: any of them may be missing.
Resolve(h) ==
  /\ \E to \in {"claim", "disabled"} : Goto(h, "resolve", to)
  /\ StampUnchanged /\ OutsideUnchanged /\ NoFault

ClaimFirst(h) ==
  /\ \/ Goto(h, "claim", "spawn") /\ Create(h) /\ NoFault
     \/ Goto(h, "claim", "stat") /\ stamp # 0 /\ UNCHANGED <<stamp, claims>> /\ NoFault
     \/ Fault(h) /\ Goto(h, "claim", "spawn") /\ UNCHANGED <<stamp, claims>>
  /\ UNCHANGED <<verdict, clobbered>> /\ OutsideUnchanged

\* Mutant of StatFresh: the age is never compared, any stamp blocks.
StatNeverExpires(h) ==
  /\ Goto(h, "stat", "backoff")
  /\ StampUnchanged /\ OutsideUnchanged /\ NoFault

\* A stamp that is gone or younger than the TTL ends the claim.
StatFresh(h) ==
  /\ Goto(h, "stat", "backoff")
  /\ \/ (stamp # 0 => Age(stamp) <= TTL) /\ NoFault
     \/ Fault(h)
  /\ StampUnchanged /\ OutsideUnchanged

\* Mutant of StatStale: a stamp of age TTL already counts as stale.
StatStaleAtTTL(h) ==
  /\ Goto(h, "stat", "unlink")
  /\ stamp # 0 /\ Age(stamp) >= TTL
  /\ verdict' = [verdict EXCEPT ![h] = Len(claims)]
  /\ UNCHANGED <<stamp, claims, clobbered>> /\ OutsideUnchanged /\ NoFault

StatStale(h) ==
  /\ Goto(h, "stat", "unlink")
  /\ stamp # 0 /\ Age(stamp) > TTL
  /\ verdict' = [verdict EXCEPT ![h] = Len(claims)]
  /\ UNCHANGED <<stamp, claims, clobbered>> /\ OutsideUnchanged /\ NoFault

\* Mutant of Unlink: the stale stamp is left where it is.
UnlinkSkipped(h) ==
  /\ Goto(h, "unlink", "recreate")
  /\ StampUnchanged /\ OutsideUnchanged /\ NoFault

\* Removes whatever file has the name by now, or ignores the error.
Unlink(h) ==
  /\ Goto(h, "unlink", "recreate")
  /\ \/ /\ stamp' = 0
        /\ clobbered' = IF stamp > verdict[h] THEN clobbered \cup {stamp} ELSE clobbered
        /\ NoFault
     \/ Fault(h) /\ UNCHANGED <<stamp, clobbered>>
  /\ UNCHANGED <<claims, verdict>> /\ OutsideUnchanged

Recreate(h) ==
  /\ \/ Goto(h, "recreate", "spawn") /\ Create(h) /\ NoFault
     \/ /\ Goto(h, "recreate", "backoff")
        /\ (stamp # 0 /\ NoFault) \/ Fault(h)
        /\ UNCHANGED <<stamp, claims>>
  /\ UNCHANGED <<verdict, clobbered>> /\ OutsideUnchanged

Spawn(h) ==
  /\ \/ Goto(h, "spawn", "launched") /\ wrappers' = wrappers \cup {h}
     \/ Goto(h, "spawn", "failed") /\ UNCHANGED wrappers
  /\ UNCHANGED <<now, serving>> /\ StampUnchanged /\ NoFault

Kill(h) ==
  /\ Killable
  /\ pc[h] \in Steps \ {"idle"}
  /\ pc' = [pc EXCEPT ![h] = IF @ = "recreate" THEN "orphaned" ELSE "killed"]
  /\ StampUnchanged /\ OutsideUnchanged /\ NoFault

\* The wrapper and the daemon are outside the repository: a wrapper ends up
\* serving or dies, and a daemon may die.
WrapperEnds(h) ==
  /\ h \in wrappers
  /\ wrappers' = wrappers \ {h}
  /\ serving' \in {serving, TRUE}
  /\ UNCHANGED <<pc, now>> /\ StampUnchanged /\ NoFault

DaemonDies ==
  /\ serving
  /\ serving' = FALSE
  /\ UNCHANGED <<pc, now, wrappers>> /\ StampUnchanged /\ NoFault

Tick ==
  /\ now < MaxTime
  /\ now' = now + 1
  /\ UNCHANGED <<pc, wrappers, serving>> /\ StampUnchanged /\ NoFault

HookStep(h) ==
  \/ Ping(h) \/ Resolve(h) \/ ClaimFirst(h) \/ StatFresh(h) \/ StatStale(h)
  \/ Unlink(h) \/ Recreate(h) \/ Spawn(h)

Next ==
  \/ \E h \in Hook : Begin(h) \/ HookStep(h) \/ Kill(h) \/ WrapperEnds(h)
  \/ DaemonDies
  \/ Tick

Spec == Init /\ [][Next]_vars

\* A hook that was launched runs: it waits for nothing but its own calls.
FairSpec == Spec /\ \A h \in Hook : WF_vars(HookStep(h))

-----------------------------------------------------------------------------

\* Two stamps are created within one TTL only when the earlier one was
\* destroyed by a hook that had judged an older stamp stale.  Without such a
\* slow reclaimer the stamp dedupes the launches, as ensure_daemon relies on.
DedupeUnlessClobbered ==
  \A i, j \in 1..Len(claims) :
    (i < j /\ claims[j].at - claims[i].at <= TTL) => \E k \in i..(j - 1) : k \in clobbered

LastClaim == Len(claims)
Fresh == LastClaim > 0 /\ Age(LastClaim) <= TTL

\* A hook gives up its claim only when another hook is launching: the newest
\* stamp is fresh, one was created since this hook judged the stamp stale, or a
\* reclaimer is between its unlink and its create, was killed or failed there;
\* or when a call of its own on the stamp has failed.
BackOffHasReason ==
  \A h \in Hook :
    (pc[h] # "backoff" /\ pc'[h] = "backoff") =>
      \/ Fresh
      \/ pc[h] = "recreate" /\ LastClaim > verdict[h]
      \/ h \in faulted'
      \/ /\ stamp = 0
         /\ \E g \in Hook \ {h} : pc[g] \in {"recreate", "orphaned"} \/ g \in faulted
BackOffJustified == [][BackOffHasReason]_vars

\* A stamp left by a launch that came to nothing never blocks launches for good:
\* when a hook starts its claim and finds the stamp stale, a new stamp follows,
\* unless that hook is killed, another was between its unlink and its create, or
\* a call on the stamp fails.
StaleStampReclaimed ==
  \A h \in Hook : \A n \in 1..Cardinality(Hook) :
    (pc[h] = "claim" /\ stamp = n /\ Age(n) > TTL) ~>
      \/ LastClaim > n
      \/ pc[h] = "killed" \/ (\E g \in Hook : pc[g] = "orphaned") \/ faulted # {}

=============================================================================
