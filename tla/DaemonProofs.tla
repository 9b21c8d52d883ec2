----------------------------- MODULE DaemonProofs -----------------------------
(***************************************************************************)
(* Proofs about the two ways in which hooks depend on the daemon.  The     *)
(* stamp dedupes its launches up to clobberings, for any number of hooks,  *)
(* any TTL, and with kills and file-system faults allowed or not.          *)
(* send_event returns True only for an event that the daemon has queued,   *)
(* for any number of requests, any cap on the response and a daemon that   *)
(* may die at any time.                                                    *)
(***************************************************************************)
EXTENDS DaemonEnsure, EmitClient, SequenceTheorems, TLAPS

-----------------------------------------------------------------------------
(* The launch *)

\* The file in place is always the newest one that was created.
StampIsNewest == stamp # 0 => stamp = Len(claims)

\* Files are numbered in the order of their mtimes, none from the future.
ClaimsOrdered ==
  /\ \A i \in 1..Len(claims) : claims[i].at <= now
  /\ \A i, j \in 1..Len(claims) : i <= j => claims[i].at <= claims[j].at

\* A hook about to unlink holds a verdict on a file that is stale, and stays so.
VerdictIsStale ==
  \A h \in Hook : pc[h] = "unlink" => verdict[h] # 0 /\ Age(verdict[h]) > TTL

\* The name is free only when the newest file was clobbered or has expired.
GapIsAccounted ==
  (stamp = 0 /\ Len(claims) > 0) =>
    Len(claims) \in clobbered \/ Age(Len(claims)) > TTL

IInv ==
  /\ TypeOK
  /\ StampIsNewest
  /\ ClaimsOrdered
  /\ VerdictIsStale
  /\ GapIsAccounted
  /\ DedupeUnlessClobbered

-----------------------------------------------------------------------------

\* Every file that was created has a time on the clock.
LEMMA ClaimTimes ==
  ASSUME claims \in Seq(Claim)
  PROVE  Len(claims) \in Nat /\ \A i \in 1..Len(claims) : claims[i].at \in 0..MaxTime
<1>1. Len(claims) \in Nat
  OBVIOUS
<1>2. \A i \in 1..Len(claims) : claims[i] \in Claim
  BY ElementOfSeq
<1> QED BY <1>1, <1>2 DEF Claim

\* Creating the stamp keeps the numbering, the order and the dedupe property.
LEMMA CreateKeeps ==
  ASSUME IInv, NEW h \in Hook, Create(h),
         now' = now, clobbered' = clobbered, verdict' = verdict,
         pc' = [pc EXCEPT ![h] = "spawn"]
  PROVE  /\ claims' \in Seq(Claim) /\ stamp' \in 0..Len(claims')
         /\ verdict' \in [Hook -> 0..Len(claims')] /\ clobbered' \subseteq 1..Len(claims')
         /\ StampIsNewest' /\ ClaimsOrdered' /\ VerdictIsStale' /\ GapIsAccounted'
         /\ DedupeUnlessClobbered'
<1> USE TTLAssumption, MaxTimeAssumption
<1> DEFINE n == Len(claims) + 1
<1>1. /\ claims \in Seq(Claim) /\ Len(claims) \in Nat /\ now \in 0..MaxTime
      /\ [by |-> h, at |-> now] \in Claim
  BY DEF IInv, TypeOK, Claim
<1>2. /\ claims' \in Seq(Claim) /\ Len(claims') = n /\ stamp' = n
      /\ claims'[n] = [by |-> h, at |-> now]
      /\ \A i \in 1..Len(claims) : claims'[i] = claims[i]
  BY <1>1 DEF Create
<1>3. \A i \in 1..Len(claims) : claims[i].at \in 0..MaxTime
  BY ClaimTimes DEF IInv, TypeOK
<1>4. claims'[n].at = now /\ \A i \in 1..n : i # n => i \in 1..Len(claims)
  <2>1. \A m \in Nat : \A i \in 1..m + 1 : i # m + 1 => i \in 1..m
    OBVIOUS
  <2> QED BY <1>1, <1>2, <2>1
<1>5. \A i \in 1..n : claims'[i].at <= now /\ claims'[i].at \in 0..MaxTime
  BY <1>1, <1>2, <1>3, <1>4 DEF IInv, ClaimsOrdered
<1>6. ClaimsOrdered'
  <2> SUFFICES ASSUME NEW i \in 1..n, NEW j \in 1..n, i <= j
               PROVE  claims'[i].at <= claims'[j].at
    BY <1>2, <1>5 DEF ClaimsOrdered
  <2>1. CASE j = n
    BY <2>1, <1>4, <1>5
  <2>2. CASE j # n
    <3>1. i \in 1..Len(claims) /\ j \in 1..Len(claims)
      BY <2>2, <1>1
    <3> QED BY <3>1, <1>2 DEF IInv, ClaimsOrdered
  <2> QED BY <2>1, <2>2
<1>7. /\ verdict' \in [Hook -> 0..n]
      /\ clobbered' \subseteq 1..n
  BY <1>1 DEF IInv, TypeOK
<1>8. VerdictIsStale'
  BY <1>1, <1>2 DEF IInv, TypeOK, VerdictIsStale, Age
<1>9. StampIsNewest' /\ GapIsAccounted'
  BY <1>1, <1>2 DEF StampIsNewest, GapIsAccounted
<1>10. DedupeUnlessClobbered'
  <2> SUFFICES ASSUME NEW i \in 1..n, NEW j \in 1..n, i < j,
                      claims'[j].at - claims'[i].at <= TTL
               PROVE  \E k \in i..(j - 1) : k \in clobbered
    BY <1>2 DEF DedupeUnlessClobbered
  <2>1. CASE j # n
    <3>1. i \in 1..Len(claims) /\ j \in 1..Len(claims)
      <4>1. i # n
        BY <1>1
      <4> QED BY <2>1, <1>4, <4>1, Zenon
    <3>2. claims[j].at - claims[i].at <= TTL
      BY <3>1, <1>2
    <3>3. DedupeUnlessClobbered
      BY DEF IInv
    <3> QED BY <3>1, <3>2, <3>3 DEF DedupeUnlessClobbered
  <2>2. CASE j = n
    <3>1. i \in 1..Len(claims) /\ Len(claims) > 0 /\ stamp = 0 /\ Len(claims) \in i..(j - 1)
      BY <2>2, <1>1 DEF Create
    <3>2. claims[i].at <= claims[Len(claims)].at
      BY <3>1, <1>1 DEF IInv, ClaimsOrdered
    <3>3. now - claims[i].at <= TTL
      BY <2>2, <3>1, <1>2, <1>4
    <3>4. ~ (Age(Len(claims)) > TTL)
      BY <3>1, <3>2, <3>3, <1>1, <1>3 DEF Age
    <3>5. Len(claims) \in clobbered
      BY <3>1, <3>4 DEF IInv, GapIsAccounted
    <3> QED BY <3>1, <3>5, Zenon
  <2> QED BY <2>1, <2>2
<1> QED BY <1>1, <1>2, <1>6, <1>7, <1>8, <1>9, <1>10

\* A step that leaves the files and the clock alone and sends no hook to
\* "unlink" keeps everything said about the files.
LEMMA FilesUntouched ==
  ASSUME IInv, StampUnchanged, now' = now, NEW h \in Hook, NEW to, to # "unlink",
         pc' = [pc EXCEPT ![h] = to] \/ pc' = pc
  PROVE  /\ StampIsNewest' /\ ClaimsOrdered' /\ VerdictIsStale' /\ GapIsAccounted'
         /\ DedupeUnlessClobbered'
BY DEF IInv, TypeOK, StampUnchanged, StampIsNewest, ClaimsOrdered, VerdictIsStale,
       GapIsAccounted, DedupeUnlessClobbered, Age

LEMMA NextKeepsIInv == IInv /\ [Next]_vars => IInv'
<1> USE TTLAssumption, MaxTimeAssumption
<1> SUFFICES ASSUME IInv, [Next]_vars PROVE IInv'
  OBVIOUS
<1>0. /\ claims \in Seq(Claim) /\ Len(claims) \in Nat /\ now \in 0..MaxTime
      /\ \A i \in 1..Len(claims) : claims[i].at \in 0..MaxTime
  BY ClaimTimes DEF IInv, TypeOK
<1>1. ASSUME NEW h \in Hook, Begin(h) PROVE IInv'
  BY <1>1, FilesUntouched
  DEF Begin, Goto, OutsideUnchanged, NoFault, Fault, StampUnchanged, IInv, TypeOK, Steps, Ended
<1>2. ASSUME NEW h \in Hook, Ping(h) PROVE IInv'
  BY <1>2, FilesUntouched
  DEF Ping, Goto, OutsideUnchanged, NoFault, Fault, StampUnchanged, IInv, TypeOK, Steps, Ended
<1>3. ASSUME NEW h \in Hook, Resolve(h) PROVE IInv'
  BY <1>3, FilesUntouched
  DEF Resolve, Goto, OutsideUnchanged, NoFault, Fault, StampUnchanged, IInv, TypeOK,
      Steps, Ended
<1>4. ASSUME NEW h \in Hook, ClaimFirst(h) PROVE IInv'
  <2>1. CASE Goto(h, "claim", "spawn") /\ Create(h)
    BY <1>4, <2>1, CreateKeeps
    DEF ClaimFirst, Goto, OutsideUnchanged, NoFault, Fault, IInv, TypeOK, Steps, Ended
  <2>2. CASE Goto(h, "claim", "stat") /\ UNCHANGED <<stamp, claims>>
    BY <1>4, <2>2, FilesUntouched
    DEF ClaimFirst, Goto, OutsideUnchanged, NoFault, Fault, StampUnchanged, IInv, TypeOK,
        Steps, Ended
  <2>3. CASE Fault(h) /\ Goto(h, "claim", "spawn") /\ UNCHANGED <<stamp, claims>>
    BY <1>4, <2>3, FilesUntouched
    DEF ClaimFirst, Goto, OutsideUnchanged, NoFault, Fault, StampUnchanged, IInv, TypeOK,
        Steps, Ended
  <2> QED BY <1>4, <2>1, <2>2, <2>3 DEF ClaimFirst
<1>5. ASSUME NEW h \in Hook, StatFresh(h) PROVE IInv'
  BY <1>5, FilesUntouched
  DEF StatFresh, Goto, OutsideUnchanged, NoFault, Fault, StampUnchanged, IInv, TypeOK,
      Steps, Ended
<1>6. ASSUME NEW h \in Hook, StatStale(h) PROVE IInv'
  <2>1. TypeOK'
    <3>1. Len(claims) \in 0..Len(claims)
      BY <1>0
    <3> QED BY <1>6, <3>1
       DEF StatStale, Goto, OutsideUnchanged, NoFault, Fault, IInv, TypeOK, Steps
  <2>2. stamp = Len(claims) /\ Age(Len(claims)) > TTL /\ Len(claims) # 0
    BY <1>6 DEF StatStale, IInv, StampIsNewest
  <2>3. VerdictIsStale'
    BY <1>6, <2>2
       DEF StatStale, Goto, OutsideUnchanged, NoFault, Fault, IInv, TypeOK, VerdictIsStale, Age
  <2>4. StampIsNewest' /\ ClaimsOrdered' /\ GapIsAccounted' /\ DedupeUnlessClobbered'
    BY <1>6
       DEF StatStale, OutsideUnchanged, NoFault, Fault, IInv, StampIsNewest, ClaimsOrdered,
                GapIsAccounted, DedupeUnlessClobbered, Age
  <2> QED BY <2>1, <2>3, <2>4 DEF IInv
<1>7. ASSUME NEW h \in Hook, Unlink(h) PROVE IInv'
  <2>1. TypeOK'
    <3>1. /\ stamp \in 0..Len(claims) /\ 0 \in 0..Len(claims)
          /\ stamp \in Nat /\ verdict[h] \in Nat /\ clobbered \subseteq 1..Len(claims)
      BY <1>0 DEF IInv, TypeOK
    <3>2. stamp' \in 0..Len(claims)
      BY <1>7, <3>1 DEF Unlink
    <3>3. stamp > verdict[h] => stamp \in 1..Len(claims)
      BY <3>1, <1>0
    <3>4. clobbered' \subseteq 1..Len(claims)
      BY <1>7, <3>1, <3>3 DEF Unlink
    <3>5. pc' \in [Hook -> Steps \cup Ended]
      BY <1>7 DEF Unlink, Goto, IInv, TypeOK, Steps
    <3> QED BY <1>7, <3>2, <3>4, <3>5
       DEF Unlink, OutsideUnchanged, NoFault, Fault, IInv, TypeOK
  <2>2. ClaimsOrdered' /\ VerdictIsStale'
    BY <1>7
       DEF Unlink, Goto, OutsideUnchanged, NoFault, Fault, IInv, TypeOK, ClaimsOrdered, VerdictIsStale, Age
  <2>3. StampIsNewest'
    BY <1>7 DEF Unlink, IInv, StampIsNewest
  <2>4. clobbered \subseteq clobbered' /\ claims' = claims /\ now' = now
    BY <1>7 DEF Unlink, OutsideUnchanged
  <2>5. DedupeUnlessClobbered'
    BY <2>4 DEF IInv, DedupeUnlessClobbered
  <2>6. GapIsAccounted'
    <3>1. CASE UNCHANGED <<stamp, clobbered>>
      BY <2>4, <3>1 DEF IInv, GapIsAccounted, Age
    <3>2. CASE stamp = 0
      BY <2>4, <3>2 DEF IInv, GapIsAccounted, Age
    <3>3. CASE stamp # 0 /\ stamp > verdict[h] /\ clobbered' = clobbered \cup {stamp}
      BY <2>4, <3>3 DEF IInv, StampIsNewest, GapIsAccounted
    <3>4. CASE stamp # 0 /\ ~ (stamp > verdict[h])
      <4>1. verdict[h] = Len(claims)
        BY <3>4, <1>0 DEF IInv, TypeOK, StampIsNewest
      <4>2. Age(Len(claims)) > TTL
        BY <4>1, <1>7 DEF Unlink, Goto, IInv, VerdictIsStale
      <4> QED BY <2>4, <4>2 DEF GapIsAccounted, Age
    <3> QED BY <1>7, <3>1, <3>2, <3>3, <3>4 DEF Unlink
  <2> QED BY <2>1, <2>2, <2>3, <2>5, <2>6 DEF IInv
<1>8. ASSUME NEW h \in Hook, Recreate(h) PROVE IInv'
  <2>1. CASE Goto(h, "recreate", "spawn") /\ Create(h)
    BY <1>8, <2>1, CreateKeeps
    DEF Recreate, Goto, OutsideUnchanged, NoFault, Fault, IInv, TypeOK, Steps, Ended
  <2>2. CASE Goto(h, "recreate", "backoff") /\ UNCHANGED <<stamp, claims>>
    BY <1>8, <2>2, FilesUntouched
    DEF Recreate, Goto, OutsideUnchanged, NoFault, Fault, StampUnchanged, IInv, TypeOK,
        Steps, Ended
  <2> QED BY <1>8, <2>1, <2>2 DEF Recreate
<1>9. ASSUME NEW h \in Hook, Spawn(h) PROVE IInv'
  <2>1. TypeOK'
    BY <1>9 DEF Spawn, Goto, StampUnchanged, NoFault, IInv, TypeOK, Steps, Ended
  <2> QED BY <1>9, <2>1, FilesUntouched DEF Spawn, Goto, StampUnchanged, IInv
<1>10. ASSUME NEW h \in Hook, Kill(h) PROVE IInv'
  BY <1>10, FilesUntouched
     DEF Kill, OutsideUnchanged, NoFault, Fault, StampUnchanged, IInv, TypeOK, Steps, Ended
<1>11. ASSUME NEW h \in Hook, WrapperEnds(h) PROVE IInv'
  <2>1. TypeOK'
    BY <1>11 DEF WrapperEnds, StampUnchanged, NoFault, IInv, TypeOK
  <2>2. StampUnchanged /\ now' = now /\ pc' = pc
    BY <1>11 DEF WrapperEnds
  <2> QED BY <2>1, <2>2, FilesUntouched, "idle" # "unlink" DEF IInv
<1>12. CASE DaemonDies
  <2>1. TypeOK'
    BY <1>12 DEF DaemonDies, StampUnchanged, NoFault, IInv, TypeOK
  <2> QED
    BY <1>12, <2>1 DEF DaemonDies, StampUnchanged, IInv, StampIsNewest, ClaimsOrdered,
       VerdictIsStale, GapIsAccounted, DedupeUnlessClobbered, Age
<1>13. CASE Tick
  <2>1. TypeOK'
    BY <1>13, <1>0 DEF Tick, StampUnchanged, NoFault, IInv, TypeOK
  <2>2. \A k \in 1..Len(claims) : Age(k) > TTL => Age(k)' > TTL
    BY <1>13, <1>0 DEF Tick, StampUnchanged, Age
  <2>3. VerdictIsStale' /\ GapIsAccounted'
    BY <1>13, <1>0, <2>2
       DEF Tick, StampUnchanged, NoFault, IInv, TypeOK, VerdictIsStale, GapIsAccounted
  <2>4. ClaimsOrdered'
    BY <1>13, <1>0 DEF Tick, StampUnchanged, IInv, ClaimsOrdered
  <2>5. StampIsNewest' /\ DedupeUnlessClobbered'
    BY <1>13 DEF Tick, StampUnchanged, IInv, StampIsNewest, DedupeUnlessClobbered
  <2> QED BY <2>1, <2>3, <2>4, <2>5 DEF IInv
<1>14. CASE UNCHANGED vars
  BY <1>14 DEF vars, IInv, TypeOK, StampIsNewest, ClaimsOrdered, VerdictIsStale,
               GapIsAccounted, DedupeUnlessClobbered, Age
<1> QED
  BY <1>1, <1>2, <1>3, <1>4, <1>5, <1>6, <1>7, <1>8, <1>9, <1>10, <1>11, <1>12, <1>13, <1>14
     DEF Next, HookStep

LEMMA InitIInv == Init => IInv
<1> SUFFICES ASSUME Init PROVE IInv
  OBVIOUS
<1>1. claims \in Seq(Claim) /\ Len(claims) = 0 /\ 0 \in 0..Len(claims)
  BY DEF Init
<1>2. TypeOK
  <2>1. verdict \in [Hook -> 0..Len(claims)] /\ stamp \in 0..Len(claims)
    BY <1>1 DEF Init
  <2>2. now \in 0..MaxTime /\ pc \in [Hook -> Steps \cup Ended]
    BY MaxTimeAssumption DEF Init, Steps
  <2>3. clobbered \subseteq 1..Len(claims) /\ wrappers \subseteq Hook /\ serving \in BOOLEAN
        /\ faulted \subseteq Hook
    BY DEF Init
  <2> QED BY <1>1, <2>1, <2>2, <2>3 DEF TypeOK
<1>3. StampIsNewest /\ ClaimsOrdered /\ GapIsAccounted /\ DedupeUnlessClobbered
  BY <1>1 DEF Init, StampIsNewest, ClaimsOrdered, GapIsAccounted, DedupeUnlessClobbered
<1>4. VerdictIsStale
  BY DEF Init, VerdictIsStale
<1> QED BY <1>2, <1>3, <1>4 DEF IInv

\* Type correctness in every reachable state.
THEOREM TypesTheorem == Spec => []TypeOK
<1>1. IInv => TypeOK
  BY DEF IInv
<1> QED BY <1>1, InitIInv, NextKeepsIInv, PTL DEF Spec

\* The dedupe guarantee: two stamps within one TTL imply that a slow reclaimer
\* unlinked the first.
THEOREM DedupeTheorem == Spec => []DedupeUnlessClobbered
<1>1. IInv => DedupeUnlessClobbered
  BY DEF IInv
<1> QED BY <1>1, InitIInv, NextKeepsIInv, PTL DEF Spec

-----------------------------------------------------------------------------

Early == {"idle", "ping", "resolve", "claim", "stat"}
InGap(g) == pc[g] \in {"recreate", "orphaned"} \/ g \in faulted

\* What a hook that gives up relies on.  A hook that looks at the stamp has met no
\* fault, and there is a stamp to look at or somebody took it away; one that has
\* unlinked a stamp finds none in its place but a newer one.
Owned ==
  /\ \A h \in Hook : pc[h] \in Early => h \notin faulted
  /\ \A h \in Hook : pc[h] = "stat" => Len(claims) > 0
  /\ (stamp = 0 /\ Len(claims) > 0) => \E g \in Hook : InGap(g)
  /\ \A h \in Hook :
       (pc[h] = "recreate" /\ h \notin faulted /\ stamp # 0) => Len(claims) > verdict[h]

\* A step of a hook outside the gap that leaves the files alone keeps Owned.
LEMMA OwnedQuiet ==
  ASSUME IInv, Owned, StampUnchanged, NEW h \in Hook, NEW to,
         pc' = [pc EXCEPT ![h] = to], pc[h] \notin {"recreate", "orphaned"},
         \/ to \in Early /\ pc[h] \in Early /\ faulted' = faulted
         \/ to \notin Early \cup {"recreate"} /\ (faulted' = faulted \/ faulted' = faulted \cup {h}),
         to = "stat" => Len(claims) > 0
  PROVE  Owned'
<1>1. (\A g \in Hook : g # h => pc'[g] = pc[g]) /\ pc'[h] = to
  BY DEF IInv, TypeOK
<1>2. faulted \subseteq faulted' /\ \A g \in Hook : g # h => (g \in faulted' => g \in faulted)
  OBVIOUS
<1>3. \A g \in Hook : InGap(g) => InGap(g)'
  BY <1>1, <1>2 DEF InGap
<1>4. \A g \in Hook : pc'[g] \in Early => g \notin faulted'
  BY <1>1, <1>2 DEF Owned, Early
<1>5. \A g \in Hook : pc'[g] = "stat" => Len(claims') > 0
  BY <1>1 DEF Owned, StampUnchanged
<1>6. (stamp' = 0 /\ Len(claims') > 0) => \E g \in Hook : InGap(g)'
  BY <1>3 DEF Owned, StampUnchanged
<1>7. \A g \in Hook : (pc'[g] = "recreate" /\ g \notin faulted' /\ stamp' # 0) =>
                         Len(claims') > verdict'[g]
  BY <1>1, <1>2 DEF Owned, StampUnchanged, Early
<1> QED BY <1>4, <1>5, <1>6, <1>7 DEF Owned

\* Creating the stamp closes the gap.
LEMMA OwnedCreate ==
  ASSUME IInv, Owned, NEW h \in Hook, Create(h), verdict' = verdict, faulted' = faulted,
         pc' = [pc EXCEPT ![h] = "spawn"]
  PROVE  Owned'
<1>1. claims \in Seq(Claim) /\ Len(claims) \in Nat /\ [by |-> h, at |-> now] \in Claim
  BY DEF IInv, TypeOK, Claim
<1>2. Len(claims') = Len(claims) + 1 /\ stamp' = Len(claims) + 1
  BY <1>1 DEF Create
<1>3. \A g \in Hook : verdict[g] \in 0..Len(claims)
  BY DEF IInv, TypeOK
<1>4. (\A g \in Hook : g # h => pc'[g] = pc[g]) /\ pc'[h] = "spawn"
  BY DEF IInv, TypeOK
<1> QED BY <1>1, <1>2, <1>3, <1>4 DEF Owned, Early

LEMMA NextKeepsOwned == IInv /\ Owned /\ [Next]_vars => Owned'
<1> SUFFICES ASSUME IInv, Owned, [Next]_vars PROVE Owned'
  OBVIOUS
<1>0. /\ claims \in Seq(Claim) /\ Len(claims) \in Nat
      /\ pc \in [Hook -> Steps \cup Ended]
  BY DEF IInv, TypeOK
<1>1. ASSUME NEW h \in Hook, Begin(h) \/ Ping(h) \/ Resolve(h) PROVE Owned'
  <2>1. StampUnchanged /\ NoFault /\ pc[h] \in Early
    BY <1>1 DEF Begin, Ping, Resolve, Goto, Early
  <2>2. \E to \in {"ping", "available", "resolve", "claim", "disabled"} :
          pc' = [pc EXCEPT ![h] = to]
    BY <1>1 DEF Begin, Ping, Resolve, Goto
  <2> QED BY <2>1, <2>2, OwnedQuiet DEF NoFault, Early
<1>2. ASSUME NEW h \in Hook, ClaimFirst(h) PROVE Owned'
  <2>1. CASE Goto(h, "claim", "spawn") /\ Create(h) /\ NoFault
    BY <1>2, <2>1, OwnedCreate DEF ClaimFirst, Goto, NoFault
  <2>2. CASE Goto(h, "claim", "stat") /\ stamp # 0 /\ UNCHANGED <<stamp, claims>> /\ NoFault
    <3>1. Len(claims) > 0
      BY <2>2, <1>0 DEF IInv, TypeOK
    <3> QED BY <1>2, <2>2, <3>1, OwnedQuiet
       DEF ClaimFirst, Goto, NoFault, StampUnchanged, Early
  <2>3. CASE Fault(h) /\ Goto(h, "claim", "spawn") /\ UNCHANGED <<stamp, claims>>
    BY <1>2, <2>3, OwnedQuiet DEF ClaimFirst, Goto, Fault, StampUnchanged, Early
  <2> QED BY <1>2, <2>1, <2>2, <2>3 DEF ClaimFirst
<1>3. ASSUME NEW h \in Hook, StatFresh(h) PROVE Owned'
  <2>1. /\ StampUnchanged /\ pc[h] = "stat" /\ pc' = [pc EXCEPT ![h] = "backoff"]
        /\ faulted' = faulted \/ faulted' = faulted \cup {h}
    BY <1>3 DEF StatFresh, Goto, NoFault, Fault
  <2> QED BY <2>1, OwnedQuiet DEF Early
<1>4. ASSUME NEW h \in Hook, StatStale(h) PROVE Owned'
  <2>1. /\ (\A g \in Hook : g # h => pc'[g] = pc[g] /\ verdict'[g] = verdict[g])
        /\ pc'[h] = "unlink" /\ pc[h] = "stat"
        /\ UNCHANGED <<stamp, claims, faulted>>
    BY <1>4, <1>0 DEF StatStale, Goto, NoFault, IInv, TypeOK
  <2>2. \A g \in Hook : InGap(g) => InGap(g)'
    BY <2>1 DEF InGap
  <2> QED BY <2>1, <2>2 DEF Owned, Early
<1>5. ASSUME NEW h \in Hook, Unlink(h) PROVE Owned'
  <2>1. /\ (\A g \in Hook : g # h => pc'[g] = pc[g]) /\ pc'[h] = "recreate"
        /\ UNCHANGED <<claims, verdict>>
    BY <1>5, <1>0 DEF Unlink, Goto
  <2>2. InGap(h)'
    BY <2>1 DEF InGap
  <2>3. \/ stamp' = 0 /\ faulted' = faulted
        \/ stamp' = stamp /\ faulted' = faulted \cup {h}
    BY <1>5 DEF Unlink, NoFault, Fault
  <2> QED BY <2>1, <2>2, <2>3 DEF Owned, Early
<1>6. ASSUME NEW h \in Hook, Recreate(h) PROVE Owned'
  <2>1. CASE Goto(h, "recreate", "spawn") /\ Create(h) /\ NoFault
    BY <1>6, <2>1, OwnedCreate DEF Recreate, Goto, NoFault
  <2>2. CASE Goto(h, "recreate", "backoff") /\ UNCHANGED <<stamp, claims>>
             /\ ((stamp # 0 /\ NoFault) \/ Fault(h))
    <3>1. /\ (\A g \in Hook : g # h => pc'[g] = pc[g]) /\ pc'[h] = "backoff"
          /\ UNCHANGED <<claims, verdict, stamp>>
      BY <1>6, <2>2, <1>0 DEF Recreate, Goto
    <3>2. (stamp # 0 /\ faulted' = faulted) \/ faulted' = faulted \cup {h}
      BY <2>2 DEF NoFault, Fault
    <3>3. stamp' = 0 => InGap(h)'
      BY <3>1, <3>2 DEF InGap
    <3> QED BY <3>1, <3>2, <3>3 DEF Owned, Early
  <2> QED BY <1>6, <2>1, <2>2 DEF Recreate
<1>7. ASSUME NEW h \in Hook, Spawn(h) PROVE Owned'
  <2>1. StampUnchanged /\ NoFault /\ pc[h] = "spawn"
    BY <1>7 DEF Spawn, Goto
  <2>2. \E to \in {"launched", "failed"} : pc' = [pc EXCEPT ![h] = to]
    BY <1>7 DEF Spawn, Goto
  <2> QED BY <2>1, <2>2, OwnedQuiet DEF NoFault, Early
<1>8. ASSUME NEW h \in Hook, Kill(h) PROVE Owned'
  <2>1. /\ (\A g \in Hook : g # h => pc'[g] = pc[g])
        /\ pc'[h] = IF pc[h] = "recreate" THEN "orphaned" ELSE "killed"
        /\ pc[h] \in Steps
        /\ UNCHANGED <<claims, verdict, stamp, faulted>>
    BY <1>8, <1>0 DEF Kill, StampUnchanged, NoFault
  <2>2. \A g \in Hook : InGap(g) => InGap(g)'
    BY <2>1 DEF InGap, Steps
  <2> QED BY <2>1, <2>2 DEF Owned, Early
<1>9. CASE UNCHANGED <<pc, stamp, claims, verdict, faulted>>
  BY <1>9 DEF Owned, InGap
<1>10. ASSUME NEW h \in Hook, WrapperEnds(h) PROVE Owned'
  BY <1>9, <1>10 DEF WrapperEnds, StampUnchanged, NoFault
<1>11. CASE DaemonDies \/ Tick \/ UNCHANGED vars
  BY <1>9, <1>11 DEF DaemonDies, Tick, vars, StampUnchanged, NoFault
<1> QED
  BY <1>1, <1>2, <1>3, <1>4, <1>5, <1>6, <1>7, <1>8, <1>10, <1>11 DEF Next, HookStep

\* A hook gives up its claim only when another hook is launching or was cut short
\* in the gap, or when a call of its own has failed: nobody backs off for nothing.
THEOREM BackOffTheorem == Spec => BackOffJustified
<1>1. Init => IInv
  BY InitIInv
<1>2. Init => Owned
  <2> SUFFICES ASSUME Init PROVE Owned
    OBVIOUS
  <2>1. Len(claims) = 0 /\ stamp = 0 /\ faulted = {} /\ \A h \in Hook : pc[h] = "idle"
    BY DEF Init
  <2> QED BY <2>1 DEF Owned
<1>3. IInv /\ Owned /\ [Next]_vars => [BackOffHasReason]_vars
  <2> SUFFICES ASSUME IInv, Owned, Next,
                      NEW h \in Hook, pc[h] # "backoff", pc'[h] = "backoff"
               PROVE  \/ Fresh
                      \/ pc[h] = "recreate" /\ LastClaim > verdict[h]
                      \/ h \in faulted'
                      \/ stamp = 0 /\ \E g \in Hook \ {h} :
                                         pc[g] \in {"recreate", "orphaned"} \/ g \in faulted
    BY DEF BackOffHasReason
  <2>1. StatFresh(h) \/ Recreate(h)
    <3>1. PICK g \in Hook : Begin(g) \/ HookStep(g) \/ Kill(g)
      BY DEF Next, WrapperEnds, DaemonDies, Tick
    <3>2. CASE StatFresh(g) \/ Recreate(g)
      <4>1. PICK to : pc' = [pc EXCEPT ![g] = to]
        BY <3>2 DEF StatFresh, Recreate, Goto
      <4>2. g = h
        BY <4>1 DEF IInv, TypeOK
      <4> QED BY <3>2, <4>2
    <3>3. CASE \E to \in (Steps \cup Ended) \ {"backoff"} : pc' = [pc EXCEPT ![g] = to]
      BY <3>3 DEF IInv, TypeOK
    <3>4. CASE Kill(g)
      <4>1. \E to \in {"orphaned", "killed"} : pc' = [pc EXCEPT ![g] = to]
        <5>1. CASE pc[g] = "recreate"
          BY <3>4, <5>1 DEF Kill
        <5>2. CASE pc[g] # "recreate"
          BY <3>4, <5>2 DEF Kill
        <5> QED BY <5>1, <5>2
      <4> QED BY <3>3, <4>1 DEF Ended
    <3>5. ASSUME ~StatFresh(g), ~Recreate(g), ~Kill(g)
          PROVE  \E to \in (Steps \cup Ended) \ {"backoff"} : pc' = [pc EXCEPT ![g] = to]
      <4>1. \/ Begin(g) \/ Ping(g) \/ Resolve(g) \/ ClaimFirst(g)
            \/ StatStale(g) \/ Unlink(g) \/ Spawn(g)
        BY <3>1, <3>5 DEF HookStep
      <4> QED BY <4>1 DEF Begin, Ping, Resolve, ClaimFirst, StatStale, Unlink, Spawn,
                          Goto, Steps, Ended
    <3> QED BY <3>2, <3>3, <3>4, <3>5
  <2>2. CASE StatFresh(h)
    <3>1. CASE Fault(h)
      BY <3>1 DEF Fault
    <3>2. CASE stamp # 0 /\ Age(stamp) <= TTL
      BY <3>2 DEF Fresh, LastClaim, IInv, StampIsNewest, TypeOK
    <3>3. CASE stamp = 0
      <4>1. pc[h] = "stat"
        BY <2>2 DEF StatFresh, Goto
      <4>2. Len(claims) > 0 /\ h \notin faulted /\ ~InGap(h)
        BY <4>1 DEF Owned, Early, InGap
      <4>3. PICK g \in Hook : InGap(g)
        BY <3>3, <4>2 DEF Owned
      <4> QED BY <3>3, <4>2, <4>3 DEF InGap
    <3> QED BY <2>2, <3>1, <3>2, <3>3 DEF StatFresh
  <2>3. CASE Recreate(h)
    <3>1. pc[h] = "recreate" /\ ((stamp # 0 /\ NoFault) \/ Fault(h))
      BY <2>3 DEF Recreate, Goto, IInv, TypeOK
    <3> QED BY <3>1 DEF Owned, NoFault, Fault, LastClaim
  <2> QED BY <2>1, <2>2, <2>3
<1> QED BY <1>1, <1>2, <1>3, NextKeepsIInv, NextKeepsOwned, PTL DEF Spec, BackOffJustified

-----------------------------------------------------------------------------
(* The request *)

ClientShape ==
  /\ phase \in [Request -> {"idle", "connect", "send", "recv", "done"}]
  /\ asks \in [Request -> {"event", "ping"}]
  /\ wire \in [Request -> {"none", "sent", "taken"}]
  /\ status \in [Request -> {"none", "queued", "error", "ok"}]
  /\ result \in [Request -> {"none", "true", "false"}]

\* A status is about a request that was taken, "queued" about an event in the
\* queue; nothing but a status makes a result true, and that request is over.
StatusOK(h) ==
  /\ status[h] # "none" => wire[h] = "taken" /\ phase[h] # "idle"
  /\ status[h] = "queued" => h \in queue
  /\ wire[h] # "none" => phase[h] # "idle" /\ phase[h] # "connect" /\ phase[h] # "send"
  /\ result[h] = "true" => phase[h] = "done" /\ Accepts(h)

ClientInv == ClientShape /\ \A h \in Request : StatusOK(h)

-----------------------------------------------------------------------------

LEMMA InitClientInv == ClientInit => ClientInv
BY DEF ClientInit, ClientInv, ClientShape, StatusOK

\* A client step changes nothing of the requests of other hooks.
Alone(h) ==
  \A g \in Request \ {h} : /\ phase'[g] = phase[g] /\ asks'[g] = asks[g] /\ wire'[g] = wire[g]
                        /\ status'[g] = status[g] /\ result'[g] = result[g]

LEMMA AloneStep ==
  ASSUME ClientInv, NEW h \in Request, Alone(h), ClientShape', StatusOK(h)', queue \subseteq queue'
  PROVE  ClientInv'
BY DEF ClientInv, Alone, StatusOK, Accepts

LEMMA ClientKeepsInv ==
  ASSUME ClientInv, NEW h \in Request, ClientStep(h)
  PROVE  ClientInv'
<1>1. queue' = queue /\ status' = status
  BY DEF ClientStep, BeginRequest, Connect, Send, Receive, EndOfStream, Timeout, daemonVars
<1>2. Alone(h) /\ ClientShape'
  <2>1. CASE BeginRequest(h)
    BY <2>1 DEF BeginRequest, Proceed, Return, daemonVars, Alone, ClientInv, ClientShape
  <2>2. CASE Connect(h) \/ Timeout(h)
    BY <2>2 DEF Connect, Timeout, Proceed, Return, daemonVars, Alone, ClientInv, ClientShape
  <2>3. CASE Send(h)
    BY <2>3 DEF Send, Proceed, Return, daemonVars, Alone, ClientInv, ClientShape
  <2>4. CASE Receive(h) \/ EndOfStream(h)
    BY <2>4 DEF Receive, EndOfStream, Parsed, Return, daemonVars, Alone, ClientInv, ClientShape
  <2> QED BY <2>1, <2>2, <2>3, <2>4 DEF ClientStep
<1>3. StatusOK(h)'
  <2>1. CASE BeginRequest(h)
    BY <2>1, <1>1 DEF BeginRequest, Proceed, Return, ClientInv, ClientShape, StatusOK, Accepts
  <2>2. CASE Connect(h) \/ Timeout(h)
    BY <2>2, <1>1 DEF Connect, Timeout, Proceed, Return, ClientInv, ClientShape, StatusOK, Accepts
  <2>3. CASE Send(h)
    BY <2>3, <1>1 DEF Send, Proceed, Return, ClientInv, ClientShape, StatusOK, Accepts
  <2>4. CASE Receive(h) \/ EndOfStream(h)
    BY <2>4, <1>1 DEF Receive, EndOfStream, Parsed, Return, ClientInv, ClientShape, StatusOK, Accepts
  <2> QED BY <2>1, <2>2, <2>3, <2>4 DEF ClientStep
<1> QED BY <1>1, <1>2, <1>3, AloneStep

LEMMA TakeKeepsInv ==
  ASSUME ClientInv, NEW h \in Request, Take(h)
  PROVE  ClientInv'
<1>1. Alone(h) /\ ClientShape' /\ queue \subseteq queue'
  BY DEF Take, Alone, ClientInv, ClientShape
<1>2. StatusOK(h)'
  BY DEF Take, ClientInv, ClientShape, StatusOK, Accepts
<1> QED BY <1>1, <1>2, AloneStep

LEMMA NextKeepsClientInv == ClientInv /\ [ClientNext]_clientVars => ClientInv'
<1> SUFFICES ASSUME ClientInv, [ClientNext]_clientVars PROVE ClientInv'
  OBVIOUS
<1>1. CASE \E h \in Request : ClientStep(h)
  BY <1>1, ClientKeepsInv
<1>2. CASE \E h \in Request : Take(h)
  BY <1>2, TakeKeepsInv
<1>3. CASE \E h \in Request : Answer(h) \/ Hangup(h)
  BY <1>3 DEF Answer, Hangup, daemonVars, ClientInv, ClientShape, StatusOK, Accepts
<1>4. CASE Die
  BY <1>4 DEF Die, ClientInv, ClientShape, StatusOK, Accepts
<1>5. CASE Rise
  BY <1>5 DEF Rise, ClientInv, ClientShape, StatusOK, Accepts
<1>6. CASE UNCHANGED clientVars
  BY <1>6 DEF clientVars, ClientInv, ClientShape, StatusOK, Accepts
<1> QED BY <1>1, <1>2, <1>3, <1>4, <1>5, <1>6 DEF ClientNext

\* send_event returns True only for an event in the daemon's queue, and
\* daemon_available only for a ping the daemon has read.
THEOREM TrueMeansTakenTheorem == ClientSpec => []TrueMeansTaken
<1>1. ClientInv => TrueMeansTaken
  BY DEF ClientInv, ClientShape, StatusOK, Accepts, TrueMeansTaken
<1> QED BY <1>1, InitClientInv, NextKeepsClientInv, PTL DEF ClientSpec

-----------------------------------------------------------------------------

\* Types, with what is unread typed as well.
ClientTInv == ClientTypeOK /\ pieces \in [Request -> Seq(Piece)]

LEMMA InitClientTInv == ClientInit => ClientTInv
BY PieceAssumption DEF ClientInit, ClientTInv, ClientTypeOK, Piece

\* A client step leaves the daemon and the connection alone, sends at most its own
\* request, and reads at most one piece.
LEMMA ClientFrame ==
  ASSUME ClientTInv, NEW h \in Request, ClientStep(h)
  PROVE  /\ UNCHANGED <<daemonVars, hungup>>
         /\ \E k \in {"event", "ping"} : asks' \in {asks, [asks EXCEPT ![h] = k]}
         /\ wire' \in {wire, [wire EXCEPT ![h] = "sent"]}
         /\ \E to \in {"connect", "send", "recv", "done"} : phase' \in {phase, [phase EXCEPT ![h] = to]}
         /\ \E r \in {"true", "false"} : result' \in {result, [result EXCEPT ![h] = r]}
         /\ \/ UNCHANGED <<pieces, total>>
            \/ pieces' = [pieces EXCEPT ![h] = <<>>] /\ total' = [total EXCEPT ![h] = 0]
            \/ /\ pieces[h] # <<>> /\ pieces' = [pieces EXCEPT ![h] = Tail(@)]
               /\ total[h] + 1 <= MAX_RESPONSE_PIECES
               /\ total' = [total EXCEPT ![h] = @ + 1]
<1>1. CASE BeginRequest(h)
  <2>1. PICK k \in {"event", "ping"} : asks' = [asks EXCEPT ![h] = k]
    BY <1>1 DEF BeginRequest
  <2>2. Proceed(h, "connect") \/ Return(h, "false")
    BY <1>1 DEF BeginRequest
  <2> QED BY <1>1, <2>1, <2>2 DEF BeginRequest, Proceed, Return
<1>2. CASE Connect(h) \/ Timeout(h)
  BY <1>2 DEF Connect, Timeout, Proceed, Return
<1>3. CASE Send(h)
  BY <1>3 DEF Send, Proceed, Return
<1>4. CASE Receive(h)
  BY <1>4 DEF Receive, Parsed, Return
<1>5. CASE EndOfStream(h)
  BY <1>5 DEF EndOfStream, Parsed, Return
<1> QED BY <1>1, <1>2, <1>3, <1>4, <1>5 DEF ClientStep

LEMMA ClientTyped ==
  ASSUME ClientTInv, NEW h \in Request, ClientStep(h)
  PROVE  ClientTInv'
<1>1. /\ pieces' \in [Request -> Seq(Piece)] /\ \A g \in Request : Len(pieces'[g]) <= MaxUnread
      /\ total' \in [Request -> 0..MAX_RESPONSE_PIECES]
  <2>1. CASE UNCHANGED <<pieces, total>>
    BY <2>1 DEF ClientTInv, ClientTypeOK
  <2>2. CASE pieces' = [pieces EXCEPT ![h] = <<>>] /\ total' = [total EXCEPT ![h] = 0]
    <3>1. <<>> \in Seq(Piece) /\ Len(<<>>) = 0 /\ 0 \in 0..MAX_RESPONSE_PIECES
      BY PieceAssumption
    <3> QED BY <2>2, <3>1, PieceAssumption DEF ClientTInv, ClientTypeOK
  <2>3. CASE /\ pieces[h] # <<>> /\ pieces' = [pieces EXCEPT ![h] = Tail(@)]
             /\ total[h] + 1 <= MAX_RESPONSE_PIECES
             /\ total' = [total EXCEPT ![h] = @ + 1]
    <3>1. pieces[h] \in Seq(Piece) /\ Len(pieces[h]) <= MaxUnread
      BY DEF ClientTInv, ClientTypeOK
    <3>2. Tail(pieces[h]) \in Seq(Piece) /\ Len(Tail(pieces[h])) <= MaxUnread
      BY <2>3, <3>1, PieceAssumption
    <3>3. total[h] + 1 \in 0..MAX_RESPONSE_PIECES
      BY <2>3, PieceAssumption DEF ClientTInv, ClientTypeOK
    <3> QED BY <2>3, <3>2, <3>3 DEF ClientTInv, ClientTypeOK
  <2> QED BY <2>1, <2>2, <2>3, ClientFrame
<1>2. /\ UNCHANGED <<socket, status, queue, hungup>>
      /\ asks' \in [Request -> {"event", "ping"}] /\ wire' \in [Request -> {"none", "sent", "taken"}]
      /\ phase' \in [Request -> {"idle", "connect", "send", "recv", "done"}]
      /\ result' \in [Request -> {"none", "true", "false"}]
  <2>1. UNCHANGED <<socket, status, queue, hungup>>
    BY ClientFrame DEF daemonVars
  <2>2. asks' \in [Request -> {"event", "ping"}]
    <3>1. PICK k \in {"event", "ping"} : asks' \in {asks, [asks EXCEPT ![h] = k]}
      BY ClientFrame
    <3>2. asks \in [Request -> {"event", "ping"}]
      BY DEF ClientTInv, ClientTypeOK
    <3> QED BY <3>1, <3>2
  <2>5. wire' \in [Request -> {"none", "sent", "taken"}]
    <3>1. wire' \in {wire, [wire EXCEPT ![h] = "sent"]}
      BY ClientFrame
    <3>2. wire \in [Request -> {"none", "sent", "taken"}]
      BY DEF ClientTInv, ClientTypeOK
    <3> QED BY <3>1, <3>2
  <2>3. phase' \in [Request -> {"idle", "connect", "send", "recv", "done"}]
    <3>1. PICK to \in {"connect", "send", "recv", "done"} : phase' \in {phase, [phase EXCEPT ![h] = to]}
      BY ClientFrame
    <3>2. phase \in [Request -> {"idle", "connect", "send", "recv", "done"}]
      BY DEF ClientTInv, ClientTypeOK
    <3> QED BY <3>1, <3>2
  <2>4. result' \in [Request -> {"none", "true", "false"}]
    <3>1. PICK r \in {"true", "false"} : result' \in {result, [result EXCEPT ![h] = r]}
      BY ClientFrame
    <3>2. result \in [Request -> {"none", "true", "false"}]
      BY DEF ClientTInv, ClientTypeOK
    <3> QED BY <3>1, <3>2
  <2> QED BY <2>1, <2>2, <2>3, <2>4, <2>5
<1> QED BY <1>1, <1>2 DEF ClientTInv, ClientTypeOK

LEMMA DaemonTyped ==
  ASSUME ClientTInv, NEW h \in Request, Take(h) \/ Answer(h) \/ Hangup(h)
  PROVE  ClientTInv'
<1>1. CASE Take(h)
  <2>1. /\ UNCHANGED <<socket, phase, asks, pieces, hungup, total, result>>
        /\ wire' = [wire EXCEPT ![h] = "taken"]
        /\ \E v \in {"ok", "queued", "error"} : status' = [status EXCEPT ![h] = v]
        /\ queue' \in {queue, queue \cup {h}}
    BY <1>1 DEF Take
  <2>2. wire' \in [Request -> {"none", "sent", "taken"}]
    BY <2>1 DEF ClientTInv, ClientTypeOK
  <2>3. status' \in [Request -> {"none", "queued", "error", "ok"}]
    BY <2>1 DEF ClientTInv, ClientTypeOK
  <2> QED BY <2>1, <2>2, <2>3 DEF ClientTInv, ClientTypeOK
<1>2. CASE Answer(h)
  <2>1. PICK p \in Piece : pieces' = [pieces EXCEPT ![h] = Append(@, p)]
    BY <1>2 DEF Answer
  <2>2. pieces[h] \in Seq(Piece) /\ Len(pieces[h]) < MaxUnread
    BY <1>2 DEF Answer, ClientTInv
  <2>3. Append(pieces[h], p) \in Seq(Piece) /\ Len(Append(pieces[h], p)) <= MaxUnread
    BY <2>2, PieceAssumption
  <2>4. pieces' \in [Request -> Seq(Piece)] /\ \A g \in Request : Len(pieces'[g]) <= MaxUnread
    BY <2>1, <2>3 DEF ClientTInv, ClientTypeOK
  <2> QED BY <1>2, <2>4 DEF Answer, daemonVars, ClientTInv, ClientTypeOK
<1>3. CASE Hangup(h)
  BY <1>3 DEF Hangup, daemonVars, ClientTInv, ClientTypeOK
<1> QED BY <1>1, <1>2, <1>3

LEMMA NextKeepsClientTInv == ClientTInv /\ [ClientNext]_clientVars => ClientTInv'
<1> SUFFICES ASSUME ClientTInv, [ClientNext]_clientVars PROVE ClientTInv'
  OBVIOUS
<1>1. CASE \E h \in Request : ClientStep(h)
  BY <1>1, ClientTyped
<1>2. CASE \E h \in Request : Take(h) \/ Answer(h) \/ Hangup(h)
  BY <1>2, DaemonTyped
<1>3. CASE Die
  BY <1>3 DEF Die, Connected, ClientTInv, ClientTypeOK
<1>4. CASE Rise
  BY <1>4 DEF Rise, ClientTInv, ClientTypeOK
<1>5. CASE UNCHANGED clientVars
  BY <1>5 DEF clientVars, ClientTInv, ClientTypeOK
<1> QED BY <1>1, <1>2, <1>3, <1>4, <1>5 DEF ClientNext

\* The type invariant: among others, the client never holds more of an answer than
\* the cap allows.
THEOREM ClientTypesTheorem == ClientSpec => []ClientTypeOK
<1>1. ClientTInv => ClientTypeOK
  BY DEF ClientTInv
<1> QED BY <1>1, InitClientTInv, NextKeepsClientTInv, PTL DEF ClientSpec

=============================================================================
