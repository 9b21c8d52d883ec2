------------------------------ MODULE ToolProofs ------------------------------
(***************************************************************************)
(* Proofs about three programs around the hooks.  The bridge, for any      *)
(* calls, tools and time limits and whether or not the server may die; the *)
(* installer, for any payload, with kills, failing commands and others     *)
(* that clean its build directory away or change what it manages; and the  *)
(* watcher of the outbox, for any rows, whole or split, with hooks that    *)
(* die half way and a file that loses its name.                            *)
(***************************************************************************)
EXTENDS OmnimarketBridge, PluginInstaller, OutboxWatcher,
        OrderLemmas, FiniteSetTheorems, FunctionTheorems, SequenceTheorems, TLAPS

-----------------------------------------------------------------------------
(* The bridge *)

LEMMA LimitNat == ASSUME NEW c \in Call PROVE Limit(c) \in Nat
<1>1. CASE ToolOf[c] = "run_local_review"
  BY <1>1 DEF Limit
<1>2. CASE ToolOf[c] = "run_ticket_pipeline"
  BY <1>2 DEF Limit
<1>3. CASE ToolOf[c] = "run_ci_watch"
  BY <1>3, CiAssumption DEF Limit
<1> QED  BY <1>1, <1>2, <1>3, ToolAssumption DEF Tool

LEMMA LimitStays == ASSUME NEW c \in Call PROVE Limit(c)' = Limit(c)
  BY DEF Limit

\* An answer to a collected call is ok only for a node that succeeded.
LEMMA JudgeLemma ==
  ASSUME NEW c \in Call
  PROVE  /\ Judge(c) \in {"ok", "error", "raised"}
         /\ Judge(c) = "ok" => node[c] = "exit0" /\ out[c] = "json"
<1>1. CASE out[c] = "undecodable"
  BY <1>1 DEF Judge
<1>2. CASE out[c] # "undecodable" /\ node[c] = "exit0" /\ out[c] = "json"
  BY <1>2 DEF Judge
<1>3. CASE out[c] # "undecodable" /\ ~(node[c] = "exit0" /\ out[c] = "json")
  BY <1>3 DEF Judge
<1> QED  BY <1>1, <1>2, <1>3

-----------------------------------------------------------------------------
(* Types *)

LEMMA InitTypes == Init => TypeOK
  BY LimitNat DEF Init, TypeOK

LEMMA NextTypes == TypeOK /\ [Next]_vars => TypeOK'
<1> SUFFICES ASSUME TypeOK, [Next]_vars PROVE TypeOK'
  OBVIOUS
<1> USE LimitNat, LimitStays DEF TypeOK
<1>1. ASSUME NEW c \in Call, Refuse(c) PROVE TypeOK'
  BY <1>1 DEF Refuse, Answer
<1>2. ASSUME NEW c \in Call, Spawn(c) PROVE TypeOK'
  BY <1>2 DEF Spawn
<1>3. ASSUME NEW c \in Call, Collect(c) PROVE TypeOK'
  BY <1>3, JudgeLemma DEF Collect, Answer
<1>4. ASSUME NEW c \in Call, TimeOut(c) PROVE TypeOK'
  BY <1>4 DEF TimeOut, Answer
<1>5. ASSUME NEW c \in Call, WriteOut(c) PROVE TypeOK'
  <2>1. PICK text \in {"json", "other", "undecodable"} :
          out' = [out EXCEPT ![c] =
            IF "undecodable" \in {@, text} THEN "undecodable"
            ELSE IF @ = "nothing" THEN text ELSE "other"]
    BY <1>5 DEF WriteOut
  <2>2. out' \in [Call -> {"nothing", "json", "other", "undecodable"}]
    BY <2>1
  <2> QED  BY <1>5, <2>2 DEF WriteOut
<1>6. ASSUME NEW c \in Call, StartHelper(c) \/ HelperEnds(c) PROVE TypeOK'
  BY <1>6 DEF StartHelper, HelperEnds
<1>7. ASSUME NEW c \in Call, NodeEnds(c) PROVE TypeOK'
  BY <1>7 DEF NodeEnds
<1>8. ASSUME NEW c \in Call, Die(c) PROVE TypeOK'
  BY <1>8 DEF Die, Answer
<1>9. CASE Tick
  <2>1. ASSUME NEW c \in Call PROVE elapsed'[c] \in Nat /\ elapsed'[c] <= Limit(c)
    <3> DEFINE t == elapsed[c]
    <3>1. elapsed'[c] = t \/ (elapsed'[c] = t + 1 /\ t < Limit(c))
      BY <1>9 DEF Tick
    <3>2. t \in Nat /\ t <= Limit(c) /\ Limit(c) \in Nat
      OBVIOUS
    <3> HIDE DEF t, TypeOK
    <3> QED  BY <3>1, <3>2
  <2>2. elapsed' = [c \in Call |-> elapsed'[c]]
    BY <1>9 DEF Tick
  <2> QED  BY <1>9, <2>1, <2>2 DEF Tick
<1>10. CASE UNCHANGED vars
  BY <1>10 DEF vars
<1> QED
  BY <1>1, <1>2, <1>3, <1>4, <1>5, <1>6, <1>7, <1>8, <1>9, <1>10
  DEF Next, BridgeStep, NodeStep

\* The clock of a call never passes its limit, and every answer, node and output
\* is one of those the bridge knows.
THEOREM BridgeTypesTheorem == Spec => []TypeOK
<1>1. Init => TypeOK  BY InitTypes
<1>2. TypeOK /\ [Next]_vars => TypeOK'  BY NextTypes
<1> QED  BY <1>1, <1>2, PTL DEF Spec

-----------------------------------------------------------------------------
(* One node at a time *)

\* The calls whose node has been started are answered, except the one the server
\* is working on; the node of an answered call is dead unless the server died.
Serial ==
  /\ \A c, d \in Call : Runs(c) /\ Runs(d) => c = d
  /\ \A c \in Call : answer[c] \notin {"none", "lost"} => node[c] # "running"
  /\ OkIsFinal

LEMMA InitSerial == Init => Serial
  BY DEF Init, Serial, OkIsFinal, Runs

LEMMA NextSerial == TypeOK /\ Serial /\ [Next]_vars => Serial'
<1> SUFFICES ASSUME TypeOK, Serial, [Next]_vars PROVE Serial'
  OBVIOUS
<1> USE DEF TypeOK, Serial, OkIsFinal, Runs, Idle
<1>1. ASSUME NEW c \in Call, Refuse(c) PROVE Serial'
  BY <1>1 DEF Refuse, Answer
<1>2. ASSUME NEW c \in Call, Spawn(c) PROVE Serial'
  BY <1>2 DEF Spawn
<1>3. ASSUME NEW c \in Call, Collect(c) PROVE Serial'
  <2>1. PICK a \in {"ok", "error", "raised"} :
          /\ answer' = [answer EXCEPT ![c] = a]
          /\ a = "ok" => node[c] = "exit0" /\ out[c] = "json"
    BY <1>3, JudgeLemma DEF Collect, Answer
  <2> QED  BY <1>3, <2>1 DEF Collect
<1>4. ASSUME NEW c \in Call, TimeOut(c) PROVE Serial'
  BY <1>4 DEF TimeOut, Answer
<1>5. ASSUME NEW c \in Call, WriteOut(c) PROVE Serial'
  BY <1>5 DEF WriteOut
<1>6. ASSUME NEW c \in Call, StartHelper(c) \/ HelperEnds(c) PROVE Serial'
  <2>1. CASE StartHelper(c)
    BY <2>1 DEF StartHelper
  <2>2. CASE HelperEnds(c)
    BY <2>2 DEF HelperEnds
  <2> QED  BY <1>6, <2>1, <2>2
<1>7. ASSUME NEW c \in Call, NodeEnds(c) PROVE Serial'
  BY <1>7 DEF NodeEnds
<1>8. ASSUME NEW c \in Call, Die(c) PROVE Serial'
  BY <1>8 DEF Die, Answer
<1>9. CASE Tick
  BY <1>9 DEF Tick
<1>10. CASE UNCHANGED vars
  BY <1>10 DEF vars
<1> QED
  BY <1>1, <1>2, <1>3, <1>4, <1>5, <1>6, <1>7, <1>8, <1>9, <1>10
  DEF Next, BridgeStep, NodeStep

LEMMA SerialTheorem == Spec => []Serial
<1>1. Init => TypeOK /\ Serial  BY InitTypes, InitSerial
<1>2. TypeOK /\ Serial /\ [Next]_vars => (TypeOK /\ Serial)'  BY NextTypes, NextSerial
<1> QED  BY <1>1, <1>2, PTL DEF Spec

\* A call that says ok had everything its node and helpers were ever to print:
\* collecting waits for the last end of the pipe (omnimarket_bridge.py:114).
THEOREM OkTheorem == Spec => []OkIsFinal
<1>1. Serial => OkIsFinal  BY DEF Serial
<1> QED  BY <1>1, SerialTheorem, PTL

\* Two nodes run at once only when the server died over one of them: the kill of
\* a node that ran out of time (omnimarket_bridge.py:123) comes before the next call.
THEOREM OneNodeTheorem == Spec => []OneNodeAtATime
<1>1. Serial => OneNodeAtATime  BY DEF Serial, OneNodeAtATime, Runs
<1> QED  BY <1>1, SerialTheorem, PTL

-----------------------------------------------------------------------------
(* The installer.  First what its variables are. *)

LEMMA InstallerInitTypes == InstallerInit => InstallerTypeOK
<1>1. 1 \in 1..Len(PAYLOAD_ENTRIES) + 1
  BY PayloadAssumption
<1> QED BY <1>1, Zenon DEF InstallerInit, InstallerTypeOK, Foreign, Ended, Active, Command

\* While it stages, the entry to come is one of the payload.
StageBound == pc = "stage" => next <= Len(PAYLOAD_ENTRIES)

LEMMA InstallerNextEntry ==
  InstallerTypeOK /\ StageBound /\ [InstallerNext]_installerVars =>
    next' \in 1..Len(PAYLOAD_ENTRIES) + 1 /\ StageBound'
<1> SUFFICES ASSUME next \in 1..Len(PAYLOAD_ENTRIES) + 1, StageBound, [InstallerNext]_installerVars
             PROVE  next' \in 1..Len(PAYLOAD_ENTRIES) + 1 /\ StageBound'
  BY DEF InstallerTypeOK
<1>0. Len(PAYLOAD_ENTRIES) \in Nat \ {0}
  BY PayloadAssumption
<1> USE DEF StageBound, Goto
<1>1. CASE Launch \/ CheckInstall \/ ClearStaging \/ Link \/ CheckUninstall
  BY <1>1 DEF Launch, CheckInstall, ClearStaging, Link, CheckUninstall
<1>2. CASE MakeStaging
  BY <1>0, <1>2 DEF MakeStaging, MakeFrom
<1>3. CASE StageEntry
  <2>0. next \in Nat /\ 1 <= next
    BY <1>0
  <2>1. pc = "stage" /\ next <= Len(PAYLOAD_ENTRIES)
    <3>1. pc = "stage"
      BY <1>3 DEF StageEntry, StageTo
    <3> QED BY <3>1
  <2>2. CASE dir \/ PAYLOAD_ENTRIES[next] \in Nested
    <3>1. next' = next + 1 /\ pc' = IF next = Len(PAYLOAD_ENTRIES) THEN "link" ELSE "stage"
      BY <1>3, <2>2 DEF StageEntry, StageTo
    <3>2. next' \in 1..Len(PAYLOAD_ENTRIES) + 1
      BY <1>0, <2>0, <2>1, <3>1
    <3>3. pc' = "stage" => next' <= Len(PAYLOAD_ENTRIES)
      BY <1>0, <2>0, <2>1, <3>1
    <3> QED BY <3>2, <3>3
  <2>3. CASE ~(dir \/ PAYLOAD_ENTRIES[next] \in Nested)
    BY <1>3, <2>3 DEF StageEntry, StageTo
  <2> QED BY <2>2, <2>3
<1>4. CASE Unlink \/ Unstage \/ Purge
  BY <1>4 DEF Unlink, Unstage, Purge
<1>5. CASE Break \/ CleanBuild \/ ChangeTarget \/ MakeData \/ UNCHANGED installerVars
  BY <1>5 DEF Break, Active, CleanBuild, ChangeTarget, MakeData, installerVars
<1> QED
  BY <1>1, <1>2, <1>3, <1>4, <1>5 DEF InstallerNext, Install, Uninstall, Others

LEMMA InstallerNextTypes ==
  InstallerTypeOK /\ StageBound /\ [InstallerNext]_installerVars => InstallerTypeOK' /\ StageBound'
<1> SUFFICES ASSUME InstallerTypeOK, StageBound, [InstallerNext]_installerVars
             PROVE  InstallerTypeOK'
  BY InstallerNextEntry
<1>0. next' \in 1..Len(PAYLOAD_ENTRIES) + 1
  BY InstallerNextEntry
<1> DEFINE Places == /\ target \in {"none", "staging", "root"} \cup Foreign
                     /\ build \in BOOLEAN /\ dir \in BOOLEAN /\ data \in BOOLEAN /\ safe \in BOOLEAN
                     /\ staged \subseteq Entry
                     /\ (dir => build) /\ (staged # {} => dir)
           Points == /\ cmd \in Command /\ pc \in Ended \cup Active
                     /\ disturbed \in BOOLEAN /\ damaged \in BOOLEAN
<1>1. Places /\ Points
  BY DEF InstallerTypeOK
<1> SUFFICES Places' /\ Points'
  BY <1>0 DEF InstallerTypeOK
<1> USE DEF disk, Command, Foreign, Ended, Active, Goto, HistoryUnchanged
<1>2. CASE Launch
  BY <1>1, <1>2 DEF Launch
<1>3. CASE CheckInstall \/ CheckUninstall
  BY <1>1, <1>3 DEF CheckInstall, CheckUninstall
<1>4. CASE ClearStaging \/ MakeStaging
  BY <1>1, <1>4 DEF ClearStaging, MakeStaging, MakeFrom
<1>5. CASE StageEntry
  <2>1. PAYLOAD_ENTRIES[next] \in Entry
    <3>1. next \in 1..Len(PAYLOAD_ENTRIES) + 1 /\ Len(PAYLOAD_ENTRIES) \in Nat
      BY PayloadAssumption DEF InstallerTypeOK
    <3>2. next <= Len(PAYLOAD_ENTRIES)
      BY <1>5 DEF StageBound, StageEntry, StageTo
    <3> QED BY <3>1, <3>2, PayloadAssumption
  <2>2. Points'
    BY <1>1, <1>5 DEF StageEntry, StageTo
  <2>3. Places'
    BY <1>1, <1>5, <2>1 DEF StageEntry, StageTo
  <2> QED BY <2>2, <2>3
<1>6. CASE Link
  <2>1. damaged' \in BOOLEAN
    BY <1>1, <1>6, Zenon DEF Link
  <2> QED BY <1>1, <1>6, <2>1 DEF Link
<1>7. CASE Unlink
  BY <1>1, <1>7 DEF Unlink
<1>8. CASE Unstage
  BY <1>1, <1>8 DEF Unstage
<1>9. CASE Purge
  <2>1. Points'
    BY <1>1, <1>9 DEF Purge
  <2>2. data' \in BOOLEAN
    BY <1>1, <1>9, Zenon DEF Purge
  <2>3. Places'
    BY <1>1, <1>9, <2>2 DEF Purge
  <2> QED BY <2>1, <2>3
<1>10. CASE Break
  BY <1>1, <1>10 DEF Break
<1>11. CASE CleanBuild \/ ChangeTarget
  <2>1. CASE CleanBuild
    BY <1>1, <2>1, Zenon DEF CleanBuild
  <2>2. CASE ChangeTarget
    BY <1>1, <2>2 DEF ChangeTarget
  <2> QED BY <1>11, <2>1, <2>2
<1>12. CASE MakeData
  BY <1>1, <1>12 DEF MakeData
<1>13. CASE UNCHANGED installerVars
  BY <1>1, <1>13 DEF installerVars
<1> QED
  BY <1>2, <1>3, <1>4, <1>5, <1>6, <1>7, <1>8, <1>9, <1>10, <1>11, <1>12, <1>13
     DEF InstallerNext, Install, Uninstall, Others

\* The target, the staging directory and the data are always in one of the states the
\* script tells apart, and what is staged lies in a directory that is there.
THEOREM InstallerTypesTheorem == InstallerSpec => []InstallerTypeOK
<1>1. InstallerInit => InstallerTypeOK /\ StageBound
  BY InstallerInitTypes DEF InstallerInit, StageBound
<1> QED BY <1>1, InstallerNextTypes, PTL DEF InstallerSpec

-----------------------------------------------------------------------------
(* What is staged *)

\* The first n entries of the payload.
FirstEntries(n) == {PAYLOAD_ENTRIES[i] : i \in 1..n}

\* Unless something was damaged, the loop has staged the entries before the next one,
\* and outside an install a link leads to all of them.  Nothing is unstaged under a link.
StagingOK ==
  /\ pc = "mkdir" => staged = {}
  /\ pc = "stage" /\ ~damaged => staged = FirstEntries(next - 1)
  /\ pc = "link" /\ ~damaged => staged = Entry
  /\ pc \in {"unstage", "purge"} => target \notin {"staging", "root"}
  /\ (target = "staging" /\ build /\ ~damaged /\ pc \notin {"mkdir", "stage", "link"})
       => staged = Entry

\* What an undisturbed run has done to what it found.
SinceStart ==
  (~disturbed /\ pc \in Active) =>
    /\ data = start.data
    /\ pc \in {"check", "clear", "unlink"} =>
         target = start.target /\ staged = start.staged /\ build = start.build
    /\ pc \in {"clear", "mkdir", "stage", "link"} =>
         cmd = "install" /\ target = start.target /\ target \notin Foreign
    /\ pc = "stage" => dir /\ staged = FirstEntries(next - 1)
    /\ pc = "link" => staged = Entry
    /\ pc = "unlink" => cmd # "install" /\ target \in {"staging", "root"}
    /\ pc \in {"unstage", "purge"} =>
         cmd # "install" /\ target = "none" /\ start.target \notin Foreign
    /\ pc = "purge" => cmd = "purge" /\ ~dir

InstallerInv == InstallerTypeOK /\ StageBound /\ StagingOK /\ SinceStart

LEMMA EntriesByOne ==
  /\ FirstEntries(0) = {}
  /\ FirstEntries(Len(PAYLOAD_ENTRIES)) = Entry
  /\ \A n \in 1..Len(PAYLOAD_ENTRIES) :
       FirstEntries(n) = FirstEntries(n - 1) \cup {PAYLOAD_ENTRIES[n]}
<1>1. Len(PAYLOAD_ENTRIES) \in Nat /\ DOMAIN PAYLOAD_ENTRIES = 1..Len(PAYLOAD_ENTRIES)
  BY PayloadAssumption
<1>2. FirstEntries(0) = {}
  BY DEF FirstEntries
<1>3. FirstEntries(Len(PAYLOAD_ENTRIES)) = Entry
  BY <1>1 DEF FirstEntries, Entry, ToSet
<1>4. ASSUME NEW n \in 1..Len(PAYLOAD_ENTRIES)
      PROVE  FirstEntries(n) = FirstEntries(n - 1) \cup {PAYLOAD_ENTRIES[n]}
  <2>1. 1..n = (1..n - 1) \cup {n}
    BY <1>1
  <2> QED BY <2>1 DEF FirstEntries
<1> QED BY <1>2, <1>3, <1>4

LEMMA InitInstallerInv == InstallerInit => InstallerInv
<1>1. InstallerInit => StageBound /\ StagingOK /\ SinceStart
  BY DEF InstallerInit, StageBound, StagingOK, SinceStart, Active, Foreign
<1> QED BY <1>1, InstallerInitTypes DEF InstallerInv

\* One turn of the loop, where the directory is there or made again.
LEMMA StageStep ==
  ASSUME InstallerInv, StageEntry
  PROVE  StagingOK' /\ SinceStart'
<1>1. /\ pc = "stage" /\ next \in 1..Len(PAYLOAD_ENTRIES) /\ Len(PAYLOAD_ENTRIES) \in Nat
      /\ UNCHANGED <<target, data, safe, cmd, start, disturbed>>
      /\ damaged' = (damaged \/ pc' = "exit1")
  BY PayloadAssumption
     DEF StageEntry, StageTo, InstallerInv, InstallerTypeOK, StageBound, HistoryUnchanged
<1> DEFINE entry == PAYLOAD_ENTRIES[next]
<1>2. CASE dir \/ entry \in Nested
  <2>1. /\ build' = TRUE /\ dir' = TRUE /\ staged' = staged \cup {entry} /\ next' = next + 1
        /\ pc' = IF next = Len(PAYLOAD_ENTRIES) THEN "link" ELSE "stage"
    BY <1>2 DEF StageEntry, StageTo
  <2>2. staged = FirstEntries(next - 1) => staged' = FirstEntries(next' - 1)
    BY <1>1, <2>1, EntriesByOne
  <2>3. next = Len(PAYLOAD_ENTRIES) => FirstEntries(next' - 1) = Entry
    BY <1>1, <2>1, EntriesByOne
  <2> QED BY <1>1, <2>1, <2>2, <2>3 DEF InstallerInv, StagingOK, SinceStart, Active
<1>3. CASE ~(dir \/ entry \in Nested)
  <2>1. pc' = "exit1"
    BY <1>3 DEF StageEntry, StageTo
  <2> QED BY <1>1, <2>1 DEF StagingOK, SinceStart, Active
<1> QED BY <1>2, <1>3

LEMMA NextInstallerInv == InstallerInv /\ [InstallerNext]_installerVars => InstallerInv'
<1> SUFFICES ASSUME InstallerInv, [InstallerNext]_installerVars PROVE StagingOK' /\ SinceStart'
  BY InstallerNextTypes DEF InstallerInv
<1> USE DEF InstallerInv, StagingOK, SinceStart, Active, Goto, HistoryUnchanged, disk
<1>1. CASE Launch
  BY <1>1 DEF Launch, Here, Ended
<1>2. CASE CheckInstall
  BY <1>2 DEF CheckInstall, IsLink, Managed, ResolvedTarget, ResolvedStaging, Unresolved, Foreign
<1>3. CASE ClearStaging
  BY <1>3 DEF ClearStaging
<1>4. CASE MakeStaging
  BY <1>4, EntriesByOne DEF MakeStaging, MakeFrom
<1>5. CASE StageEntry
  BY <1>5, StageStep
<1>6. CASE Link
  BY <1>6 DEF Link
<1>7. CASE CheckUninstall
  BY <1>7 DEF CheckUninstall, IsLink, Managed, ResolvedTarget, ResolvedStaging, Unresolved, Foreign
<1>8. CASE Unlink
  BY <1>8 DEF Unlink, Foreign
<1>9. CASE Unstage \/ Purge
  BY <1>9 DEF Unstage, Purge, InstallerTypeOK, Command
<1>10. CASE Break
  BY <1>10 DEF Break
<1>11. CASE CleanBuild \/ ChangeTarget \/ MakeData
  BY <1>11 DEF CleanBuild, ChangeTarget, MakeData, Foreign
<1>12. CASE UNCHANGED installerVars
  BY <1>12 DEF installerVars
<1> QED
  BY <1>1, <1>2, <1>3, <1>4, <1>5, <1>6, <1>7, <1>8, <1>9, <1>10, <1>11, <1>12
     DEF InstallerNext, Install, Uninstall, Others

\* The plugin that Cursor loads through a link of the script's own is the whole
\* payload, except during an install, or after a fault or a cleaned build directory.
THEOREM LinkedTheorem == InstallerSpec => []LinkedIsComplete
<1>1. InstallerInv => LinkedIsComplete
  BY DEF InstallerInv, StagingOK, LinkedIsComplete, StatusIcon, IsLink, ResolvedTarget,
         ResolvedStaging, Unresolved, InstallerTypeOK, Foreign
<1> QED BY <1>1, InitInstallerInv, NextInstallerInv, PTL DEF InstallerSpec

\* An exit code of 0 stands for all that was asked for and no more, 1 for a refusal
\* that left everything in its place, for any payload.
THEOREM ExitsTheorem == InstallerSpec => ExitsTruthful
<1>1. ASSUME InstallerInv, [InstallerNext]_installerVars, ~disturbed', pc \in Active, pc' \in Ended
      PROVE  IF pc' = "exit0" THEN Done' ELSE Refused'
  <2> USE DEF InstallerInv, SinceStart, Goto, HistoryUnchanged, disk, Active, Ended, Done, Refused
  <2>1. CASE CheckInstall
    BY <1>1, <2>1 DEF CheckInstall, IsLink, Managed, ResolvedTarget, ResolvedStaging, Unresolved,
                      Foreign, InstallerTypeOK
  <2>2. CASE StageEntry
    BY <1>1, <2>2 DEF StageEntry, StageTo
  <2>3. CASE Link
    <3>1. target' = "staging" /\ staged' = Entry /\ cmd' = "install" /\ start'.target \notin Foreign
      BY <1>1, <2>3 DEF Link, Foreign
    <3>2. data' = start'.data /\ data' \in BOOLEAN
      BY <1>1, <2>3, Zenon DEF Link, InstallerTypeOK
    <3>3. data' = (start'.data /\ cmd' # "purge")
      BY <3>1, <3>2
    <3> QED BY <2>3, <3>1, <3>3 DEF Link
  <2>4. CASE CheckUninstall
    BY <1>1, <2>4 DEF CheckUninstall, IsLink, Managed, ResolvedTarget, ResolvedStaging, Unresolved,
                      Foreign, InstallerTypeOK
  <2>5. CASE Unlink
    BY <1>1, <2>5 DEF Unlink
  <2>6. CASE Unstage
    <3>1. /\ pc' = "exit0" /\ target' = "none" /\ ~dir' /\ cmd' = "uninstall"
          /\ start'.target \notin Foreign
      BY <1>1, <2>6 DEF Unstage, InstallerTypeOK, Command
    <3>2. data' = start'.data /\ data' \in BOOLEAN
      BY <1>1, <2>6, Zenon DEF Unstage, InstallerTypeOK
    <3>3. data' = (start'.data /\ cmd' # "purge")
      BY <3>1, <3>2
    <3> QED BY <3>1, <3>3
  <2>7. CASE Purge
    <3>1. cmd' = "purge" /\ target' = "none" /\ ~dir' /\ start'.target \notin Foreign
      BY <1>1, <2>7 DEF Purge
    <3>2. CASE safe
      <4>1. pc' = "exit0" /\ data' = FALSE
        BY <2>7, <3>2 DEF Purge
      <4> QED BY <3>1, <4>1
    <3>3. CASE ~safe
      <4>1. pc' = "exit1" /\ data' = data /\ safe' = safe /\ start' = start
        BY <2>7, <3>3 DEF Purge
      <4>2. data = start.data
        BY <1>1, <2>7 DEF Purge
      <4> QED BY <3>1, <3>3, <4>1, <4>2
    <3> QED BY <3>2, <3>3
  <2>8. CASE \/ Launch \/ ClearStaging \/ MakeStaging \/ Break \/ CleanBuild \/ ChangeTarget
             \/ MakeData \/ UNCHANGED installerVars
    BY <1>1, <2>8 DEF Launch, ClearStaging, MakeStaging, MakeFrom, Break, CleanBuild,
                      ChangeTarget, MakeData, installerVars
  <2> QED
    BY <1>1, <2>1, <2>2, <2>3, <2>4, <2>5, <2>6, <2>7, <2>8 DEF InstallerNext, Install, Uninstall, Others
<1>2. InstallerInv /\ [InstallerNext]_installerVars =>
        [~disturbed' /\ pc \in Active /\ pc' \in Ended =>
           (IF pc' = "exit0" THEN Done' ELSE Refused')]_installerVars
  BY <1>1
<1> QED BY <1>2, InitInstallerInv, NextInstallerInv, PTL DEF InstallerSpec, ExitsTruthful

-----------------------------------------------------------------------------
(* The watcher: sequences of sequences *)

\* The texts of the first lines, each with the next line added to the one before.
Joins(s, n, f) ==
  /\ DOMAIN f = 1..n
  /\ \A i \in 1..n : f[i] = IF i = 1 THEN s[i] ELSE f[i - 1] \o s[i]

LEMMA JoinsExist ==
  ASSUME NEW n \in Nat, NEW s
  PROVE  \E f : f = [i \in 1..n |-> IF i = 1 THEN s[i] ELSE f[i - 1] \o s[i]]
<1> DEFINE T == {k \in 0..n : \E f : Joins(s, k, f)}
<1>1. 0 \in T
  <2> DEFINE f == [i \in 1..0 |-> 0]
  <2>1. Joins(s, 0, f)
    BY DEF Joins
  <2>2. \E e : Joins(s, 0, e)
    BY <2>1
  <2> QED BY <2>2
<1>2. ASSUME NEW k \in 1..n, k - 1 \in T PROVE k \in T
  <2>1. PICK f : Joins(s, k - 1, f)
    BY <1>2
  <2> DEFINE g == [i \in 1..k |-> IF i = k THEN (IF i = 1 THEN s[i] ELSE f[i - 1] \o s[i]) ELSE f[i]]
  <2>2. k \in 0..n /\ k \in Nat
    OBVIOUS
  <2>3. DOMAIN g = 1..k
    OBVIOUS
  <2>4. ASSUME NEW i \in 1..k PROVE g[i] = IF i = 1 THEN s[i] ELSE g[i - 1] \o s[i]
    <3>1. CASE i = k
      <4>1. k # 1 => k - 1 \in 1..k /\ k - 1 # k
        BY <2>2
      <4>2. k # 1 => g[k - 1] = f[k - 1]
        BY <4>1
      <4>3. g[k] = IF k = 1 THEN s[k] ELSE f[k - 1] \o s[k]
        BY <2>2
      <4> HIDE DEF g
      <4> QED BY <3>1, <4>2, <4>3
    <3>2. CASE i # k
      <4>1. i \in 1..k - 1 /\ (i # 1 => i - 1 \in 1..k /\ i - 1 # k)
        BY <2>2, <3>2
      <4>2. g[i] = f[i] /\ (i # 1 => g[i - 1] = f[i - 1])
        BY <3>2, <4>1
      <4>3. f[i] = IF i = 1 THEN s[i] ELSE f[i - 1] \o s[i]
        BY <2>1, <4>1 DEF Joins
      <4> HIDE DEF g
      <4> QED BY <4>2, <4>3
    <3> QED BY <3>1, <3>2
  <2> HIDE DEF g
  <2>5. Joins(s, k, g)
    BY <2>3, <2>4 DEF Joins
  <2> QED BY <2>2, <2>5
<1>3. \A k \in 0..n : k \in T
  <2> HIDE DEF T
  <2> QED BY <1>1, <1>2, UpTo
<1>4. PICK f : Joins(s, n, f)
  BY <1>3
<1>5. /\ DOMAIN [i \in 1..n |-> f[i]] = 1..n
      /\ \A i \in 1..n : [j \in 1..n |-> f[j]][i] = f[i]
  OBVIOUS
<1> DEFINE h == [i \in 1..n |-> f[i]]
<1>6. \A i \in 1..n : h[i] = IF i = 1 THEN s[i] ELSE h[i - 1] \o s[i]
  <2>1. \A i \in 1..n : i # 1 => i - 1 \in 1..n
    OBVIOUS
  <2>2. \A i \in 1..n : h[i] = f[i] /\ (i # 1 => h[i - 1] = f[i - 1])
    BY <2>1
  <2> HIDE DEF h
  <2> QED BY <1>4, <2>2 DEF Joins
<1>7. h = [i \in 1..n |-> h[i]]
  OBVIOUS
<1> HIDE DEF h
<1>8. h = [i \in 1..n |-> IF i = 1 THEN s[i] ELSE h[i - 1] \o s[i]]
  BY <1>6, <1>7
<1> QED BY <1>8

\* A sequence that is not empty is flattened by joining its elements in order.
LEMMA FlattenJoins ==
  ASSUME NEW s, Len(s) \in Nat \ {0}
  PROVE  \E f : Joins(s, Len(s), f) /\ FlattenSeq(s) = f[Len(s)]
<1> DEFINE Good(f) == f = [i \in 1..Len(s) |-> IF i = 1 THEN s[i] ELSE f[i - 1] \o s[i]]
           g == CHOOSE f : Good(f)
<1>1. \E f : Good(f)
  BY JoinsExist
<1>2. Good(g)
  BY <1>1
<1>3. FlattenSeq(s) = g[Len(s)]
  BY DEF FlattenSeq
<1> HIDE DEF g
<1>4. Joins(s, Len(s), g)
  BY <1>2 DEF Joins
<1> QED BY <1>3, <1>4

LEMMA JoinsAgree ==
  ASSUME NEW n \in Nat, NEW s, NEW t, NEW f, NEW g,
         Joins(s, n, f), Joins(t, n + 1, g), \A i \in 1..n : s[i] = t[i]
  PROVE  \A i \in 1..n : f[i] = g[i]
<1> DEFINE T == {i \in 0..n : i = 0 \/ f[i] = g[i]}
<1>1. 0 \in T
  OBVIOUS
<1>2. ASSUME NEW i \in 1..n, i - 1 \in T PROVE i \in T
  <2>1. i \in 1..n + 1 /\ i \in 0..n /\ i - 1 \in Nat
    OBVIOUS
  <2>2. /\ f[i] = IF i = 1 THEN s[i] ELSE f[i - 1] \o s[i]
        /\ g[i] = IF i = 1 THEN t[i] ELSE g[i - 1] \o t[i]
    BY <2>1 DEF Joins
  <2>3. i # 1 => f[i - 1] = g[i - 1]
    BY <1>2, <2>1
  <2> QED BY <2>1, <2>2, <2>3
<1>3. \A i \in 0..n : i \in T
  <2> HIDE DEF T
  <2> QED BY <1>1, <1>2, UpTo
<1> QED BY <1>3

\* A line more: its text comes last.
LEMMA FlattenAppend ==
  ASSUME NEW A, NEW s \in Seq(Seq(A)), NEW x \in Seq(A)
  PROVE  FlattenSeq(Append(s, x)) = FlattenSeq(s) \o x
<1> DEFINE t == Append(s, x)
<1>1. Len(s) \in Nat /\ Len(t) = Len(s) + 1 /\ t[Len(s) + 1] = x /\ \A i \in 1..Len(s) : t[i] = s[i]
  OBVIOUS
<1> HIDE DEF t
<1>2. PICK g : Joins(t, Len(t), g) /\ FlattenSeq(t) = g[Len(t)]
  BY <1>1, FlattenJoins
<1>3. CASE Len(s) = 0
  <2>1. g[1] = t[1]
    BY <1>1, <1>2, <1>3 DEF Joins
  <2>2. FlattenSeq(s) = <<>>
    BY <1>3 DEF FlattenSeq
  <2>3. <<>> \o x = x
    BY ConcatEmptySeq
  <2> QED BY <1>1, <1>2, <1>3, <2>1, <2>2, <2>3 DEF t
<1>4. CASE Len(s) # 0
  <2>1. PICK f : Joins(s, Len(s), f) /\ FlattenSeq(s) = f[Len(s)]
    BY <1>1, <1>4, FlattenJoins
  <2>2. PICK n \in Nat \ {0} : n = Len(s)
    BY <1>1, <1>4
  <2>3. Joins(t, n + 1, g) /\ FlattenSeq(t) = g[n + 1] /\ Joins(s, n, f) /\ FlattenSeq(s) = f[n]
    BY <1>1, <1>2, <2>1, <2>2
  <2>4. f[n] = g[n]
    <3>1. n \in Nat /\ n \in 1..n
      OBVIOUS
    <3>2. \A i \in 1..n : s[i] = t[i]
      BY <1>1, <2>2
    <3>3. \A i \in 1..n : f[i] = g[i]
      BY <2>3, <3>1, <3>2, JoinsAgree
    <3> QED BY <3>1, <3>3
  <2>5. g[n + 1] = g[n] \o t[n + 1]
    <3>1. n + 1 \in 1..n + 1 /\ n + 1 # 1 /\ (n + 1) - 1 = n
      OBVIOUS
    <3>2. g[n + 1] = IF n + 1 = 1 THEN t[n + 1] ELSE g[(n + 1) - 1] \o t[n + 1]
      BY <2>3, <3>1 DEF Joins
    <3> QED BY <3>1, <3>2
  <2>6. t[n + 1] = x
    BY <1>1, <2>2
  <2> QED BY <2>3, <2>4, <2>5, <2>6 DEF t
<1> QED BY <1>3, <1>4

LEMMA FlattenType ==
  ASSUME NEW A, NEW s \in Seq(Seq(A))
  PROVE  FlattenSeq(s) \in Seq(A)
<1>1. CASE Len(s) = 0
  <2>1. FlattenSeq(s) = <<>>
    BY <1>1 DEF FlattenSeq
  <2> QED BY <2>1
<1>2. CASE Len(s) # 0
  <2>1. PICK n \in Nat \ {0} : n = Len(s)
    BY <1>2
  <2>2. PICK f : Joins(s, n, f) /\ FlattenSeq(s) = f[n]
    BY <2>1, FlattenJoins
  <2> DEFINE T == {i \in 0..n : i = 0 \/ f[i] \in Seq(A)}
  <2>3. 0 \in T
    OBVIOUS
  <2>4. ASSUME NEW i \in 1..n, i - 1 \in T PROVE i \in T
    <3>1. i \in 0..n /\ i - 1 \in Nat /\ s[i] \in Seq(A)
      BY <2>1
    <3>2. f[i] = IF i = 1 THEN s[i] ELSE f[i - 1] \o s[i]
      BY <2>2 DEF Joins
    <3>3. i # 1 => f[i - 1] \o s[i] \in Seq(A)
      <4>1. i # 1 => f[i - 1] \in Seq(A)
        BY <2>4, <3>1
      <4> QED BY <3>1, <4>1, ConcatProperties
    <3> QED BY <3>1, <3>2, <3>3
  <2>5. \A i \in 0..n : i \in T
    <3> HIDE DEF T
    <3> QED BY <2>3, <2>4, UpTo
  <2> QED BY <2>2, <2>5
<1> QED BY <1>1, <1>2

LEMMA FlattenEmpty == FlattenSeq(<<>>) = <<>>
BY DEF FlattenSeq

\* The last line goes on.
LEMMA FlattenGlue ==
  ASSUME NEW A, NEW s \in Seq(Seq(A)), s # <<>>, NEW x \in A
  PROVE  /\ Append(Front(s), Append(Last(s), x)) \in Seq(Seq(A))
         /\ FlattenSeq(Append(Front(s), Append(Last(s), x))) = FlattenSeq(s) \o <<x>>
<1>1. PICK f \in Seq(Seq(A)), e \in Seq(A) : s = Append(f, e)
  BY SequenceEmptyOrAppend
<1>2. Last(s) = e
  BY <1>1 DEF Last
<1>3. Front(s) = f
  <2>1. Len(s) = Len(f) + 1 /\ \A i \in 1..Len(f) : s[i] = f[i]
    BY <1>1
  <2>2. Front(s) = SubSeq(s, 1, Len(f))
    BY <2>1 DEF Front
  <2>3. SubSeq(s, 1, Len(f)) \in Seq(Seq(A)) /\ Len(SubSeq(s, 1, Len(f))) = Len(f)
        /\ \A i \in 1..Len(f) : SubSeq(s, 1, Len(f))[i] = f[i]
    BY <2>1
  <2> QED BY <2>2, <2>3, SeqEqual
<1>4. Append(e, x) \in Seq(A) /\ Append(e, x) = e \o <<x>> /\ <<x>> \in Seq(A)
  BY AppendIsConcat
<1>5. FlattenSeq(Append(f, Append(e, x))) = FlattenSeq(f) \o Append(e, x)
  BY <1>4, FlattenAppend
<1>6. FlattenSeq(s) = FlattenSeq(f) \o e
  BY <1>1, FlattenAppend
<1>7. (FlattenSeq(f) \o e) \o <<x>> = FlattenSeq(f) \o (e \o <<x>>)
  <2>1. FlattenSeq(f) \in Seq(A)
    BY FlattenType
  <2>2. \A g, y \in Seq(A) : (g \o e) \o y = g \o (e \o y)
    OBVIOUS
  <2> QED BY <1>4, <2>1, <2>2, Zenon
<1>8. Append(Front(s), Append(Last(s), x)) = Append(f, Append(e, x))
  BY <1>2, <1>3
<1>9. Append(f, Append(e, x)) \in Seq(Seq(A))
  BY <1>4, AppendProperties
<1>10. FlattenSeq(Append(f, Append(e, x))) = FlattenSeq(s) \o <<x>>
  BY <1>4, <1>5, <1>6, <1>7
<1> QED BY <1>8, <1>9, <1>10

\* A file that grows keeps the text it has.
LEMMA GrowthKeepsText ==
  ASSUME NEW A, NEW c \in Seq(A), NEW x \in A, NEW m \in Nat \ {0}, NEW n \in 0..Len(c)
  PROVE  SubSeq(Append(c, x), m, n) = SubSeq(c, m, n)
<1>1. \A i \in m..n : c[i] \in A /\ Append(c, x)[i] = c[i]
  OBVIOUS
<1>2. m \in Int /\ n \in Int /\ (\A i \in m..n : Append(c, x)[i] \in A)
  BY <1>1
<1>3. /\ SubSeq(Append(c, x), m, n) \in Seq(A)
      /\ Len(SubSeq(Append(c, x), m, n)) = IF m <= n THEN n - m + 1 ELSE 0
      /\ \A i \in 1..n - m + 1 : SubSeq(Append(c, x), m, n)[i] = Append(c, x)[m + i - 1]
  BY <1>2, SubSeqProperties
<1>4. /\ SubSeq(c, m, n) \in Seq(A)
      /\ Len(SubSeq(c, m, n)) = IF m <= n THEN n - m + 1 ELSE 0
      /\ \A i \in 1..n - m + 1 : SubSeq(c, m, n)[i] = c[m + i - 1]
  BY <1>1, <1>2, SubSeqProperties
<1>5. \A i \in 1..Len(SubSeq(c, m, n)) : SubSeq(Append(c, x), m, n)[i] = SubSeq(c, m, n)[i]
  <2> SUFFICES ASSUME NEW i \in 1..Len(SubSeq(c, m, n))
               PROVE  SubSeq(Append(c, x), m, n)[i] = SubSeq(c, m, n)[i]
    OBVIOUS
  <2>1. i \in 1..n - m + 1 /\ m + i - 1 \in m..n
    BY <1>2, <1>4
  <2> QED BY <1>1, <1>3, <1>4, <2>1
<1> QED BY <1>3, <1>4, <1>5, SeqEqual

\* Where a line ends: after it starts, within the file, and with its first newline.
LEMMA LineEndProperties ==
  ASSUME NEW c \in Seq(Piece), NEW here \in Nat, here < Len(c)
  PROVE  /\ LineEnd(c, here) \in here + 1 .. Len(c)
         /\ \A i \in here + 1 .. LineEnd(c, here) - 1 : c[i].part = "head"
<1> DEFINE ends == {i \in here + 1 .. Len(c) : EndsLine(c[i])}
<1>1. CASE ends = {}
  <2>1. LineEnd(c, here) = Len(c)
    BY <1>1 DEF LineEnd
  <2>2. \A i \in here + 1 .. Len(c) : c[i].part = "head"
    BY <1>1 DEF EndsLine
  <2> QED BY <2>1, <2>2
<1>2. CASE ends # {}
  <2>1. ends \in SUBSET Nat
    OBVIOUS
  <2>2. \E n \in ends : \A m \in ends : n <= m
    <3> HIDE DEF ends
    <3> QED BY <1>2, <2>1, LeastNat
  <2>3. PICK e : e = Min(ends)
    OBVIOUS
  <2>4. e \in ends /\ \A m \in ends : e <= m
    BY <2>2, <2>3 DEF Min
  <2>5. LineEnd(c, here) = e
    BY <1>2, <2>3 DEF LineEnd
  <2>6. \A i \in here + 1 .. e - 1 : i \in here + 1 .. Len(c) /\ i \notin ends
    BY <2>4
  <2>7. \A i \in here + 1 .. e - 1 : c[i].part = "head"
    BY <2>6 DEF EndsLine
  <2> QED BY <2>4, <2>5, <2>7
<1> QED BY <1>1, <1>2

-----------------------------------------------------------------------------
(* The lines of a replay *)

\* A line goes on as long as its pieces have no newline.
LineOK(line) ==
  /\ Len(line) \in Nat \ {0}
  /\ \A i \in 1..Len(line) - 1 : line[i].part = "head"

Breaks(pieces, n, f) ==
  /\ DOMAIN f = 0..n
  /\ f[0] = <<>>
  /\ \A i \in 1..n :
       f[i] = IF i = 1 \/ EndsLine(pieces[i - 1]) THEN Append(f[i - 1], <<pieces[i]>>)
              ELSE Append(Front(f[i - 1]), Append(Last(f[i - 1]), pieces[i]))

LEMMA BreaksExist ==
  ASSUME NEW n \in Nat, NEW pieces
  PROVE  \E f : Breaks(pieces, n, f)
<1> DEFINE T == {k \in 0..n : \E f : Breaks(pieces, k, f)}
<1>1. 0 \in T
  <2> DEFINE f == [i \in 0..0 |-> <<>>]
  <2>1. Breaks(pieces, 0, f)
    BY DEF Breaks
  <2>2. \E e : Breaks(pieces, 0, e)
    BY <2>1
  <2> QED BY <2>2
<1>2. ASSUME NEW k \in 1..n, k - 1 \in T PROVE k \in T
  <2>1. PICK f : Breaks(pieces, k - 1, f)
    BY <1>2
  <2> DEFINE more == IF k = 1 \/ EndsLine(pieces[k - 1]) THEN Append(f[k - 1], <<pieces[k]>>)
                     ELSE Append(Front(f[k - 1]), Append(Last(f[k - 1]), pieces[k]))
             g == [i \in 0..k |-> IF i = k THEN more ELSE f[i]]
  <2>2. k \in 0..n /\ k \in Nat /\ k - 1 \in 0..k /\ 0 \in 0..k /\ k # 0 /\ k - 1 # k
    OBVIOUS
  <2>3. DOMAIN g = 0..k /\ g[0] = f[0] /\ g[k] = more /\ g[k - 1] = f[k - 1]
    <3> HIDE DEF more
    <3> QED BY <2>2
  <2>4. \A i \in 1..k - 1 : g[i] = f[i] /\ g[i - 1] = f[i - 1]
    <3>1. \A i \in 1..k - 1 : i \in 0..k /\ i - 1 \in 0..k /\ i # k /\ i - 1 # k
      BY <2>2
    <3> HIDE DEF more
    <3> QED BY <3>1
  <2> HIDE DEF g
  <2>5. ASSUME NEW i \in 1..k
        PROVE  g[i] = IF i = 1 \/ EndsLine(pieces[i - 1]) THEN Append(g[i - 1], <<pieces[i]>>)
                      ELSE Append(Front(g[i - 1]), Append(Last(g[i - 1]), pieces[i]))
    <3>1. CASE i = k
      BY <2>3, <3>1
    <3>2. CASE i # k
      <4>1. i \in 1..k - 1
        BY <2>2, <3>2
      <4> QED BY <2>1, <2>4, <4>1 DEF Breaks
    <3> QED BY <3>1, <3>2
  <2>6. Breaks(pieces, k, g)
    BY <2>1, <2>3, <2>5 DEF Breaks
  <2> QED BY <2>2, <2>6
<1>3. \A k \in 0..n : k \in T
  <2> HIDE DEF T
  <2> QED BY <1>1, <1>2, UpTo
<1> QED BY <1>3

LEMMA LinesBreak ==
  ASSUME NEW pieces, Len(pieces) \in Nat
  PROVE  \E f : Breaks(pieces, Len(pieces), f) /\ LinesOf(pieces) = f[Len(pieces)]
<1> DEFINE Good(f) == f = [n \in 0..Len(pieces) |->
      IF n = 0 THEN <<>>
      ELSE IF n = 1 \/ EndsLine(pieces[n - 1]) THEN Append(f[n - 1], <<pieces[n]>>)
      ELSE Append(Front(f[n - 1]), Append(Last(f[n - 1]), pieces[n]))]
           g == CHOOSE f : Good(f)
<1>1. \E f : Good(f)
  <2>1. PICK f : Breaks(pieces, Len(pieces), f)
    BY BreaksExist
  <2> DEFINE h == [n \in 0..Len(pieces) |-> f[n]]
  <2>2. \A n \in 1..Len(pieces) : n \in 0..Len(pieces) /\ n - 1 \in 0..Len(pieces) /\ n # 0
    OBVIOUS
  <2>3. h[0] = <<>> /\ \A n \in 1..Len(pieces) : h[n] = f[n] /\ h[n - 1] = f[n - 1]
    BY <2>1, <2>2 DEF Breaks
  <2>4. h = [n \in 0..Len(pieces) |-> h[n]]
    OBVIOUS
  <2> HIDE DEF h
  <2>5. ASSUME NEW n \in 0..Len(pieces)
        PROVE  h[n] = IF n = 0 THEN <<>>
                      ELSE IF n = 1 \/ EndsLine(pieces[n - 1]) THEN Append(h[n - 1], <<pieces[n]>>)
                      ELSE Append(Front(h[n - 1]), Append(Last(h[n - 1]), pieces[n]))
    <3>1. CASE n = 0
      BY <2>3, <3>1
    <3>2. CASE n # 0
      <4>1. n \in 1..Len(pieces)
        BY <3>2
      <4> QED BY <2>1, <2>3, <3>2, <4>1 DEF Breaks
    <3> QED BY <3>1, <3>2
  <2>6. Good(h)
    BY <2>4, <2>5
  <2> QED BY <2>6
<1>2. Good(g)
  BY <1>1
<1>3. LinesOf(pieces) = g[Len(pieces)]
  BY DEF LinesOf
<1> HIDE DEF g
<1>4. \A n \in 1..Len(pieces) : n \in 0..Len(pieces) /\ n # 0
  OBVIOUS
<1>5. Breaks(pieces, Len(pieces), g)
  <2>1. DOMAIN g = 0..Len(pieces) /\ g[0] = <<>>
    BY <1>2
  <2>2. \A n \in 1..Len(pieces) :
          g[n] = IF n = 1 \/ EndsLine(pieces[n - 1]) THEN Append(g[n - 1], <<pieces[n]>>)
                 ELSE Append(Front(g[n - 1]), Append(Last(g[n - 1]), pieces[n]))
    BY <1>2, <1>4
  <2> QED BY <2>1, <2>2 DEF Breaks
<1> QED BY <1>3, <1>5

\* A new line begins with a piece ...
LEMMA NewLine ==
  ASSUME NEW s \in Seq(Seq(Piece)), NEW x \in Piece, \A l \in DOMAIN s : LineOK(s[l])
  PROVE  LET t == Append(s, <<x>>)
         IN  /\ t \in Seq(Seq(Piece)) /\ t # <<>> /\ Last(Last(t)) = x
             /\ \A l \in DOMAIN t : LineOK(t[l])
<1> DEFINE t == Append(s, <<x>>)
<1>1. <<x>> \in Seq(Piece) /\ LineOK(<<x>>) /\ Last(<<x>>) = x
  BY DEF LineOK, Last
<1>2. PICK n \in Nat : n = Len(s)
  OBVIOUS
<1>3. t \in Seq(Seq(Piece)) /\ t # <<>> /\ Len(t) = n + 1
      /\ t[n + 1] = <<x>> /\ \A l \in 1..n : t[l] = s[l]
  <2>1. PICK line \in Seq(Piece) : line = <<x>>
    BY <1>1
  <2>2. /\ Append(s, line) \in Seq(Seq(Piece))
        /\ Append(s, line) # <<>>
        /\ Len(Append(s, line)) = Len(s) + 1
        /\ \A l \in 1..Len(s) : Append(s, line)[l] = s[l]
        /\ Append(s, line)[Len(s) + 1] = line
    BY AppendProperties
  <2>3. t = Append(s, line)
    BY <2>1
  <2> HIDE DEF t
  <2> QED BY <1>2, <2>1, <2>2, <2>3
<1> HIDE DEF t
<1>4. Last(t) = <<x>>
  BY <1>3 DEF Last
<1>5. \A l \in DOMAIN t : LineOK(t[l])
  <2>1. \A l \in DOMAIN t : l = n + 1 \/ (l \in 1..n /\ l \in DOMAIN s)
    BY <1>2, <1>3
  <2> QED BY <1>1, <1>3, <2>1
<1> QED BY <1>1, <1>3, <1>4, <1>5 DEF t

\* ... or the last one goes on, if it has no newline.
LEMMA SameLine ==
  ASSUME NEW s \in Seq(Seq(Piece)), s # <<>>, NEW x \in Piece, \A l \in DOMAIN s : LineOK(s[l]),
         Last(Last(s)).part = "head"
  PROVE  LET t == Append(Front(s), Append(Last(s), x))
         IN  /\ t # <<>> /\ Last(Last(t)) = x
             /\ \A l \in DOMAIN t : LineOK(t[l])
<1> DEFINE t == Append(Front(s), Append(Last(s), x))
<1>1. PICK n \in Nat \ {0} : n = Len(s)
  OBVIOUS
<1>2. PICK e \in Seq(Piece) : e = Last(s)
  BY DEF Last
<1>3. LineOK(e) /\ Last(e).part = "head"
  BY <1>1, <1>2 DEF Last
<1>4. PICK u \in Seq(Piece) : u = Append(e, x)
  BY AppendProperties
<1>5. LineOK(u) /\ Last(u) = x
  <2>1. Len(e) \in Nat \ {0} /\ Len(u) = Len(e) + 1 /\ u[Len(e) + 1] = x
        /\ \A i \in 1..Len(e) : u[i] = e[i]
    BY <1>3, <1>4 DEF LineOK
  <2>2. PICK k \in Nat \ {0} : k = Len(e)
    BY <2>1
  <2>3. \A i \in 1..k : i = k \/ i \in 1..k - 1
    OBVIOUS
  <2>4. \A i \in 1..k : u[i].part = "head"
    BY <1>3, <2>1, <2>2, <2>3 DEF LineOK, Last
  <2>5. Len(u) \in Nat \ {0} /\ Len(u) - 1 = k
    BY <2>1, <2>2
  <2> QED BY <2>1, <2>4, <2>5 DEF LineOK, Last
<1>6. PICK f \in Seq(Seq(Piece)) : f = Front(s) /\ Len(f) = n - 1 /\ \A l \in 1..n - 1 : f[l] = s[l]
  <2>1. Front(s) = SubSeq(s, 1, n - 1) /\ \A l \in 1..n - 1 : s[l] \in Seq(Piece)
    BY <1>1 DEF Front
  <2>2. 1 \in Int /\ n - 1 \in Int /\ (IF 1 <= n - 1 THEN (n - 1) - 1 + 1 ELSE 0) = n - 1
        /\ (n - 1) - 1 + 1 = n - 1 /\ \A l \in 1..n - 1 : 1 + l - 1 = l
    OBVIOUS
  <2>3. /\ SubSeq(s, 1, n - 1) \in Seq(Seq(Piece))
        /\ Len(SubSeq(s, 1, n - 1)) = n - 1
        /\ \A l \in 1..n - 1 : SubSeq(s, 1, n - 1)[l] = s[l]
    BY <2>1, <2>2, SubSeqProperties
  <2> QED BY <2>1, <2>3
<1>7. t = Append(f, u)
  BY <1>2, <1>4, <1>6
<1>8. t # <<>> /\ Len(t) = n /\ DOMAIN t = 1..n /\ t[n] = u /\ \A l \in 1..n - 1 : t[l] = s[l]
  BY <1>6, <1>7
<1> HIDE DEF t
<1>9. Last(t) = u
  BY <1>8 DEF Last
<1>10. \A l \in DOMAIN t : LineOK(t[l])
  <2>1. \A l \in 1..n : l = n \/ (l \in 1..n - 1 /\ l \in DOMAIN s)
    BY <1>1
  <2> QED BY <1>5, <1>8, <2>1
<1> QED BY <1>5, <1>8, <1>9, <1>10 DEF t

\* A replay prints the text of the file, line by line.
LEMMA ReplayLines ==
  ASSUME NEW c \in Seq(Piece)
  PROVE  /\ LinesOf(c) \in Seq(Seq(Piece))
         /\ FlattenSeq(LinesOf(c)) = SubSeq(c, 1, Len(c))
         /\ \A l \in DOMAIN LinesOf(c) : LineOK(LinesOf(c)[l])
<1>1. PICK k \in Nat : k = Len(c)
  OBVIOUS
<1>2. PICK f : Breaks(c, k, f) /\ LinesOf(c) = f[k]
  BY <1>1, LinesBreak
<1> DEFINE Good(s, n) ==
             /\ s \in Seq(Seq(Piece))
             /\ FlattenSeq(s) = SubSeq(c, 1, n)
             /\ \A l \in DOMAIN s : LineOK(s[l])
             /\ n # 0 => s # <<>> /\ Last(Last(s)) = c[n]
           T == {n \in 0..k : Good(f[n], n)}
<1>3. 0 \in T
  <2>1. f[0] = <<>>
    BY <1>2 DEF Breaks
  <2>2. SubSeq(c, 1, 0) = <<>>
    OBVIOUS
  <2>3. <<>> \in Seq(Seq(Piece)) /\ \A l \in DOMAIN <<>> : LineOK(<<>>[l])
    OBVIOUS
  <2>4. Good(<<>>, 0)
    BY <2>2, <2>3, FlattenEmpty
  <2> HIDE DEF Good
  <2> QED BY <2>1, <2>4
<1>4. ASSUME NEW n \in 1..k, n - 1 \in T PROVE n \in T
  <2>1. PICK s \in Seq(Seq(Piece)) : s = f[n - 1] /\ Good(s, n - 1)
    BY <1>4
  <2>2. n \in 1..Len(c) /\ n \in 0..k /\ n # 0 /\ c[n] \in Piece /\ <<c[n]>> \in Seq(Piece)
    BY <1>1
  <2>3. SubSeq(c, 1, n) = SubSeq(c, 1, n - 1) \o <<c[n]>>
    <3>1. 1 \in 1..Len(c) /\ n \in 1..Len(c)
      BY <1>1
    <3> QED BY <3>1, SubSeqRecursiveSecond
  <2>4. f[n] = IF n = 1 \/ EndsLine(c[n - 1]) THEN Append(s, <<c[n]>>)
               ELSE Append(Front(s), Append(Last(s), c[n]))
    BY <1>2, <2>1 DEF Breaks
  <2>5. CASE n = 1 \/ EndsLine(c[n - 1])
    <3>1. FlattenSeq(Append(s, <<c[n]>>)) = FlattenSeq(s) \o <<c[n]>>
      BY <2>2, FlattenAppend
    <3>2. LET t == Append(s, <<c[n]>>)
          IN  /\ t \in Seq(Seq(Piece)) /\ t # <<>> /\ Last(Last(t)) = c[n]
              /\ \A l \in DOMAIN t : LineOK(t[l])
      BY <2>1, <2>2, NewLine
    <3>3. Good(Append(s, <<c[n]>>), n)
      BY <2>1, <2>3, <3>1, <3>2
    <3> HIDE DEF Good
    <3> QED BY <2>2, <2>4, <2>5, <3>3
  <2>6. CASE ~(n = 1 \/ EndsLine(c[n - 1]))
    <3>1. n - 1 # 0 /\ n - 1 \in 1..Len(c) /\ c[n - 1] \in Piece
      BY <2>2, <2>6
    <3>2. s # <<>> /\ Last(Last(s)).part = "head"
      BY <2>1, <2>6, <3>1 DEF EndsLine
    <3>3. /\ Append(Front(s), Append(Last(s), c[n])) \in Seq(Seq(Piece))
          /\ FlattenSeq(Append(Front(s), Append(Last(s), c[n]))) = FlattenSeq(s) \o <<c[n]>>
      BY <2>2, <3>2, FlattenGlue
    <3>4. LET t == Append(Front(s), Append(Last(s), c[n]))
          IN  /\ t # <<>> /\ Last(Last(t)) = c[n]
              /\ \A l \in DOMAIN t : LineOK(t[l])
      BY <2>1, <2>2, <3>2, SameLine
    <3>5. Good(Append(Front(s), Append(Last(s), c[n])), n)
      BY <2>1, <2>3, <3>3, <3>4
    <3> HIDE DEF Good
    <3> QED BY <2>2, <2>4, <2>6, <3>5
  <2> QED BY <2>5, <2>6
<1>5. k \in T
  <2> HIDE DEF T
  <2>1. \A n \in 0..k : n \in T
    BY <1>3, <1>4, UpTo
  <2> QED BY <2>1
<1> QED BY <1>1, <1>2, <1>5

-----------------------------------------------------------------------------
(* The watcher's invariant *)

\* Until it reads, the watcher has nothing; then what it has shown is the text
\* that it has read, in lines.
WatcherInv ==
  /\ WatcherTypeOK
  /\ watcher \in {"waiting", "found", "opened", "raised", "exit1"} =>
       from = 0 /\ pos = 0 /\ shown = <<>>
  /\ watcher \in {"waiting", "found", "raised", "exit1"} => followed = 0
  /\ watcher \in {"opened", "following", "exit0"} => followed # 0
  /\ watcher \in {"following", "exit0"} =>
       /\ from <= pos /\ pos <= Len(content[followed])
       /\ FlattenSeq(shown) = SubSeq(content[followed], from + 1, pos)
  /\ \A l \in DOMAIN shown : LineOK(shown[l])

LEMMA InitWatcher == WatcherInit => WatcherInv
<1> SUFFICES ASSUME WatcherInit PROVE WatcherInv
  OBVIOUS
<1>1. content \in [Files -> Seq(Piece)] /\ shown \in Seq(Seq(Piece))
  BY DEF WatcherInit
<1>2. 0 \in 0..MaxFiles /\ 0 \in 0..0
  BY FilesAssumption
<1>3. WatcherTypeOK
  BY <1>1, <1>2 DEF WatcherInit, WatcherTypeOK
<1> QED BY <1>3 DEF WatcherInit, WatcherInv

LEMMA FilesExist ==
  ASSUME WatcherTypeOK, NEW n \in 0..last, n # 0
  PROVE  n \in Files
<1>1. MaxFiles \in Nat /\ last \in 0..MaxFiles
  BY FilesAssumption DEF WatcherTypeOK
<1> QED BY <1>1 DEF Files

LEMMA FollowedFile ==
  ASSUME WatcherInv, followed # 0
  PROVE  followed \in Files /\ content[followed] \in Seq(Piece) /\ Len(content[followed]) \in Nat
BY FilesExist DEF WatcherInv, WatcherTypeOK

\* The hooks only append to a file, which leaves what was read as it is.
LEMMA WriterStep ==
  ASSUME WatcherInv, WatcherTypeOK', WatcherUnchanged,
         \/ content' = content
         \/ \E f \in Files, x \in Piece : content' = [content EXCEPT ![f] = Append(@, x)]
  PROVE  WatcherInv'
<1>1. UNCHANGED <<mode, watcher, followed, from, pos, shown>>
  BY DEF WatcherUnchanged, reading
<1>2. ASSUME watcher \in {"following", "exit0"}
      PROVE  /\ pos <= Len(content'[followed])
             /\ SubSeq(content'[followed], from + 1, pos) = SubSeq(content[followed], from + 1, pos)
  <2>1. followed \in Files /\ content[followed] \in Seq(Piece) /\ Len(content[followed]) \in Nat
    BY <1>2, FollowedFile DEF WatcherInv
  <2>2. PICK c \in Seq(Piece) : c = content[followed]
    BY <2>1
  <2>3. Len(c) \in Nat /\ pos \in 0..Len(c) /\ from + 1 \in Nat \ {0}
    BY <1>2, <2>1, <2>2 DEF WatcherInv, WatcherTypeOK
  <2>4. CASE content'[followed] = c
    <3>1. pos <= Len(c)
      BY <2>3
    <3> QED BY <2>2, <2>4, <3>1, Zenon
  <2>5. CASE \E x \in Piece : content'[followed] = Append(c, x)
    <3>1. PICK x \in Piece : content'[followed] = Append(c, x)
      BY <2>5
    <3>2. SubSeq(Append(c, x), from + 1, pos) = SubSeq(c, from + 1, pos)
      <4>1. PICK m \in Nat \ {0} : m = from + 1
        BY <2>3
      <4>2. SubSeq(Append(c, x), m, pos) = SubSeq(c, m, pos)
        BY <2>3, GrowthKeepsText
      <4> QED BY <4>1, <4>2, Zenon
    <3>3. pos <= Len(Append(c, x))
      BY <2>3
    <3> QED BY <2>2, <3>1, <3>2, <3>3, Zenon
  <2>6. content'[followed] = c \/ \E x \in Piece : content'[followed] = Append(c, x)
    BY <2>1, <2>2 DEF WatcherInv, WatcherTypeOK
  <2> QED BY <2>4, <2>5, <2>6
<1>3. watcher \in {"following", "exit0"} =>
        /\ from <= pos /\ pos <= Len(content'[followed])
        /\ FlattenSeq(shown) = SubSeq(content'[followed], from + 1, pos)
  BY <1>2 DEF WatcherInv
<1> QED BY <1>1, <1>3 DEF WatcherInv

LEMMA AppendPieceTypes ==
  ASSUME WatcherInv, NEW r \in Row, writer[r] \in {"open", "split"},
         NEW part \in {"whole", "head", "rest"}, AppendPiece(r, part)
  PROVE  /\ content' \in [Files -> Seq(Piece)]
         /\ \E f \in Files, x \in Piece : content' = [content EXCEPT ![f] = Append(@, x)]
<1>1. fd[r] \in Files
  BY FilesExist DEF WatcherInv, WatcherTypeOK
<1>2. PICK x \in Piece : x = [row |-> r, part |-> part]
  BY DEF Piece
<1>3. content' = [content EXCEPT ![fd[r]] = Append(@, x)]
  BY <1>2 DEF AppendPiece
<1>4. \A f \in Files : Append(content[f], x) \in Seq(Piece)
  BY DEF WatcherInv, WatcherTypeOK
<1> QED BY <1>1, <1>3, <1>4 DEF WatcherInv, WatcherTypeOK

LEMMA WriterKeepsInv ==
  ASSUME WatcherInv, NEW r \in Row,
         OpenOutbox(r) \/ WriteWhole(r) \/ WriteHead(r) \/ WriteRest(r) \/ GiveUp(r)
  PROVE  WatcherInv'
<1>1. CASE OpenOutbox(r)
  <2>1. UNCHANGED <<content, mode, watcher, followed, from, pos, shown>> /\ WatcherUnchanged
    BY <1>1 DEF OpenOutbox, WatcherUnchanged, reading
  <2>2. path' \in 0..last' /\ last' \in 0..MaxFiles /\ last <= last' /\ path' # 0
    BY <1>1, FilesAssumption DEF OpenOutbox, WatcherInv, WatcherTypeOK
  <2>3. \A n \in 0..last : n \in 0..last'
    BY <2>2 DEF WatcherInv, WatcherTypeOK
  <2>4. fd' \in [Row -> 0..last'] /\ writer' \in [Row -> {"idle", "open", "split", "done"}]
    BY <1>1, <2>2, <2>3 DEF OpenOutbox, WriterMoves, WatcherInv, WatcherTypeOK
  <2>5. \A q \in Row : writer'[q] \in {"open", "split"} => fd'[q] # 0
    BY <1>1, <2>2 DEF OpenOutbox, WriterMoves, WatcherInv, WatcherTypeOK
  <2>6. WatcherTypeOK'
    BY <2>1, <2>2, <2>3, <2>4, <2>5 DEF WatcherInv, WatcherTypeOK
  <2> QED BY <2>1, <2>6, WriterStep
<1>2. ASSUME NEW part \in {"whole", "head", "rest"}, NEW at \in {"open", "split"}, NEW to \in {"split", "done"},
             WriterMoves(r, at, to), AppendPiece(r, part)
      PROVE  WatcherInv'
  <2>1. UNCHANGED <<path, last, fd, mode, watcher, followed, from, pos, shown>> /\ WatcherUnchanged
    BY <1>2 DEF AppendPiece, WatcherUnchanged, reading
  <2>2. writer[r] = at /\ writer' = [writer EXCEPT ![r] = to]
    BY <1>2 DEF WriterMoves
  <2>3. /\ content' \in [Files -> Seq(Piece)]
        /\ \E f \in Files, x \in Piece : content' = [content EXCEPT ![f] = Append(@, x)]
    BY <1>2, <2>2, AppendPieceTypes
  <2>4. /\ writer' \in [Row -> {"idle", "open", "split", "done"}]
        /\ \A q \in Row : writer'[q] \in {"open", "split"} => fd[q] # 0
    BY <2>2 DEF WatcherInv, WatcherTypeOK
  <2>5. WatcherTypeOK'
    BY <2>1, <2>3, <2>4 DEF WatcherInv, WatcherTypeOK
  <2> QED BY <2>1, <2>3, <2>5, WriterStep
<1>3. CASE WriteWhole(r)
  BY <1>2, <1>3 DEF WriteWhole
<1>4. CASE WriteHead(r)
  BY <1>2, <1>4 DEF WriteHead
<1>5. CASE WriteRest(r)
  BY <1>2, <1>5 DEF WriteRest
<1>6. CASE GiveUp(r)
  <2>1. UNCHANGED <<path, last, content, fd, mode, watcher, followed, from, pos, shown>> /\ WatcherUnchanged
    BY <1>6 DEF GiveUp, WatcherUnchanged, reading
  <2>2. writer' = [writer EXCEPT ![r] = "done"]
    BY <1>6 DEF GiveUp, WriterMoves
  <2>3. WatcherTypeOK'
    BY <2>1, <2>2 DEF WatcherInv, WatcherTypeOK
  <2> QED BY <2>1, <2>3, WriterStep
<1> QED BY <1>1, <1>3, <1>4, <1>5, <1>6

LEMMA RemoveKeepsInv ==
  ASSUME WatcherInv, RemoveOutbox
  PROVE  WatcherInv'
<1>1. UNCHANGED <<last, content, writer, fd, mode, watcher, followed, from, pos, shown>> /\ WatcherUnchanged
  BY DEF RemoveOutbox, WatcherUnchanged, reading
<1>2. WatcherTypeOK'
  BY <1>1 DEF RemoveOutbox, WatcherInv, WatcherTypeOK
<1> QED BY <1>1, <1>2, WriterStep

LEMMA WatcherKeepsInv ==
  ASSUME WatcherInv, WatcherStep
  PROVE  WatcherInv'
<1>1. CASE FindFile
  <2>1. UNCHANGED <<path, last, content, writer, fd, mode, followed, from, pos, shown>>
    BY <1>1 DEF FindFile, writers, reading
  <2>2. watcher = "waiting" /\ watcher' \in {"found", "exit1"}
    BY <1>1 DEF FindFile, WatcherMoves
  <2> QED BY <2>1, <2>2 DEF WatcherInv, WatcherTypeOK
<1>2. CASE OpenToFollow
  <2>1. UNCHANGED <<path, last, content, writer, fd, mode, from, pos, shown>> /\ watcher = "found"
    BY <1>2 DEF OpenToFollow, writers, WatcherMoves
  <2>2. \/ watcher' = "opened" /\ followed' = path /\ path # 0
        \/ watcher' = "raised" /\ followed' = followed
    BY <1>2 DEF OpenToFollow, WatcherMoves
  <2> QED BY <2>1, <2>2 DEF WatcherInv, WatcherTypeOK
<1>3. CASE SeekEnd
  <2>1. UNCHANGED <<path, last, content, writer, fd, mode, followed, shown>>
        /\ watcher = "opened" /\ watcher' = "following"
    BY <1>3 DEF SeekEnd, writers, WatcherMoves
  <2>2. followed # 0 /\ shown = <<>>
    BY <2>1 DEF WatcherInv
  <2>3. pos' = Len(content[followed]) /\ from' = pos' /\ pos' \in Nat
    BY <1>3, <2>2, FollowedFile DEF SeekEnd
  <2>4. SubSeq(content[followed], from' + 1, pos') = <<>>
    BY <2>3, SubSeqEmpty
  <2>5. from' \in Nat /\ from' <= pos' /\ pos' <= Len(content[followed])
    BY <2>3
  <2>6. FlattenSeq(shown') = SubSeq(content[followed], from' + 1, pos')
    BY <2>1, <2>2, <2>4, FlattenEmpty
  <2>7. WatcherTypeOK'
    BY <2>1, <2>3, <2>5 DEF WatcherInv, WatcherTypeOK
  <2> QED BY <2>1, <2>2, <2>5, <2>6, <2>7 DEF WatcherInv
<1>4. CASE ReadLine
  <2>1. UNCHANGED <<path, last, content, writer, fd, mode, watcher, followed, from>>
        /\ watcher = "following"
    BY <1>4 DEF ReadLine, writers
  <2>2. PICK c \in Seq(Piece) : c = content[followed]
    BY <2>1, FollowedFile DEF WatcherInv
  <2>3. PICK end : end = LineEnd(c, pos)
    OBVIOUS
  <2>4. /\ Len(c) \in Nat /\ from \in Nat /\ pos \in Nat /\ from <= pos /\ pos < Len(c)
        /\ FlattenSeq(shown) = SubSeq(c, from + 1, pos)
    BY <1>4, <2>1, <2>2 DEF ReadLine, WatcherInv, WatcherTypeOK
  <2>5. end \in pos + 1 .. Len(c) /\ \A i \in pos + 1 .. end - 1 : c[i].part = "head"
    BY <2>3, <2>4, LineEndProperties
  <2>6. PICK line : line = SubSeq(c, pos + 1, end)
    OBVIOUS
  <2>7. pos' = end /\ shown' = Append(shown, line)
    BY <1>4, <2>2, <2>3, <2>6 DEF ReadLine
  <2>8. line \in Seq(Piece) /\ LineOK(line)
    <3>1. pos + 1 \in Int /\ end \in Int /\ pos + 1 <= end /\ \A i \in pos + 1 .. end : c[i] \in Piece
      BY <2>4, <2>5
    <3>2. /\ line \in Seq(Piece)
          /\ Len(line) = end - (pos + 1) + 1
          /\ \A i \in 1 .. end - (pos + 1) + 1 : line[i] = c[(pos + 1) + i - 1]
      BY <2>6, <3>1, SubSeqProperties
    <3>3. Len(line) \in Nat \ {0}
      BY <3>1, <3>2
    <3>4. \A i \in 1 .. Len(line) - 1 :
            i \in 1 .. end - (pos + 1) + 1 /\ (pos + 1) + i - 1 \in pos + 1 .. end - 1
      BY <2>4, <3>1, <3>2
    <3>5. \A i \in 1 .. Len(line) - 1 : line[i].part = "head"
      BY <2>5, <3>2, <3>4
    <3> QED BY <3>2, <3>3, <3>5 DEF LineOK
  <2>9. shown \in Seq(Seq(Piece)) /\ \A l \in DOMAIN shown : LineOK(shown[l])
    BY DEF WatcherInv, WatcherTypeOK
  <2>10. FlattenSeq(shown') = SubSeq(c, from + 1, pos')
    <3>1. FlattenSeq(shown') = FlattenSeq(shown) \o line
      BY <2>7, <2>8, <2>9, FlattenAppend
    <3>2. from + 1 \in 1..Len(c) + 1 /\ pos \in (from + 1) - 1 .. Len(c) /\ end \in pos .. Len(c)
      BY <2>4, <2>5
    <3>3. SubSeq(c, from + 1, pos) \o SubSeq(c, pos + 1, end) = SubSeq(c, from + 1, end)
      BY <3>2, ConcatAdjacentSubSeq
    <3> QED BY <2>4, <2>6, <2>7, <3>1, <3>3
  <2>11. shown' \in Seq(Seq(Piece)) /\ \A l \in DOMAIN shown' : LineOK(shown'[l])
    <3>1. PICK n \in Nat : n = Len(shown)
      BY <2>9
    <3>2. /\ Append(shown, line) \in Seq(Seq(Piece))
          /\ Len(Append(shown, line)) = Len(shown) + 1
          /\ \A l \in 1..Len(shown) : Append(shown, line)[l] = shown[l]
          /\ Append(shown, line)[Len(shown) + 1] = line
      BY <2>8, <2>9, AppendProperties
    <3>3. \A l \in DOMAIN shown' : l = n + 1 \/ (l \in 1..n /\ l \in DOMAIN shown)
      BY <2>7, <2>9, <3>1, <3>2
    <3> QED BY <2>7, <2>8, <2>9, <3>1, <3>2, <3>3
  <2>12. pos' \in Nat /\ from <= pos' /\ pos' <= Len(c)
    BY <2>4, <2>5, <2>7
  <2>13. followed # 0
    BY <2>1 DEF WatcherInv
  <2> QED BY <2>1, <2>2, <2>10, <2>11, <2>12, <2>13 DEF WatcherInv, WatcherTypeOK
<1>5. CASE Replay
  <2>1. UNCHANGED <<path, last, content, writer, fd, mode, from>> /\ watcher = "found"
    BY <1>5 DEF Replay, writers, WatcherMoves
  <2>2. CASE watcher' = "raised" /\ UNCHANGED <<followed, pos, shown>>
    BY <2>1, <2>2 DEF WatcherInv, WatcherTypeOK
  <2>3. CASE /\ path # 0 /\ watcher' = "exit0" /\ followed' = path
             /\ pos' = Len(content[path]) /\ shown' = LinesOf(content[path])
    <3>1. PICK c \in Seq(Piece) : c = content[path]
      BY <2>3, FilesExist DEF WatcherInv, WatcherTypeOK
    <3>2. from = 0 /\ Len(c) \in Nat
      BY <2>1 DEF WatcherInv
    <3>3. /\ shown' \in Seq(Seq(Piece))
          /\ FlattenSeq(shown') = SubSeq(c, 1, Len(c))
          /\ \A l \in DOMAIN shown' : LineOK(shown'[l])
      BY <2>3, <3>1, ReplayLines
    <3> QED BY <2>1, <2>3, <3>1, <3>2, <3>3 DEF WatcherInv, WatcherTypeOK
  <2> QED BY <1>5, <2>2, <2>3 DEF Replay, WatcherMoves
<1> QED BY <1>1, <1>2, <1>3, <1>4, <1>5 DEF WatcherStep

LEMMA NextWatcher == WatcherInv /\ [WatcherNext]_watcherVars => WatcherInv'
<1> SUFFICES ASSUME WatcherInv, [WatcherNext]_watcherVars PROVE WatcherInv'
  OBVIOUS
<1>1. CASE UNCHANGED watcherVars
  BY <1>1 DEF watcherVars, writers, reading, WatcherInv, WatcherTypeOK
<1> QED BY <1>1, WriterKeepsInv, RemoveKeepsInv, WatcherKeepsInv DEF WatcherNext

LEMMA WatcherSafe == WatcherSpec => []WatcherInv
BY InitWatcher, NextWatcher, PTL DEF WatcherSpec

\* The outbox and the processes that share it are well typed; a hook that writes
\* has a file open.
THEOREM WatcherTypesTheorem == WatcherSpec => []WatcherTypeOK
<1>1. WatcherInv => WatcherTypeOK
  BY DEF WatcherInv
<1> QED BY <1>1, WatcherSafe, PTL

\* Whatever the hooks write, in one piece or two, and whether or not the file
\* loses its name: what the watcher has printed is the text of the file it has
\* opened, from where it started, in order, nothing left out and nothing twice.
THEOREM ShownTheorem == WatcherSpec => []ShownIsText
<1>1. WatcherInv => ShownIsText
  BY DEF WatcherInv, WatcherTypeOK, ShownIsText
<1> QED BY <1>1, WatcherSafe, PTL

\* A whole row ends its line, so a line has one at most; where it is not alone,
\* the line begins with a head.
LEMMA WholeEndsLine ==
  ASSUME NEW line, LineOK(line), NEW i \in DOMAIN line, DOMAIN line = 1..Len(line),
         line[i].part = "whole", ~IsRow(line)
  PROVE  i = Len(line) /\ 1 \in DOMAIN line /\ line[1].part = "head"
<1>1. PICK n \in Nat \ {0} : n = Len(line)
  BY DEF LineOK
<1>2. i \in 1..n /\ (i \in 1..n - 1 \/ i = n)
  BY <1>1
<1>3. i = n
  BY <1>1, <1>2 DEF LineOK
<1>4. n # 1
  BY <1>1, <1>3 DEF IsRow
<1>5. 1 \in 1..n - 1
  BY <1>4
<1> QED BY <1>1, <1>3, <1>5 DEF LineOK

LEMMA HeadsCoverRows ==
  ASSUME NEW lines \in Seq(Seq(Piece)), \A l \in DOMAIN lines : LineOK(lines[l])
  PROVE  LET RawLines == {l \in DOMAIN lines : ~IsRow(lines[l])}
             InLine(l, part) == {<<l, i>> : i \in {i \in DOMAIN lines[l] : lines[l][i].part = part}}
             Raw(part) == UNION {InLine(l, part) : l \in RawLines}
         IN  Cardinality(Raw("whole")) <= Cardinality(Raw("head"))
<1> DEFINE RawLines == {l \in DOMAIN lines : ~IsRow(lines[l])}
           InLine(l, part) == {<<l, i>> : i \in {i \in DOMAIN lines[l] : lines[l][i].part = part}}
           Raw(part) == UNION {InLine(l, part) : l \in RawLines}
           heads == [l \in RawLines |-> InLine(l, "head")]
           H == {heads[l] : l \in RawLines}
           W == Raw("whole")
           f == [x \in W |-> <<x[1], 1>>]
<1>1. \A l \in RawLines : lines[l] \in Seq(Piece) /\ Len(lines[l]) \in Nat /\ DOMAIN lines[l] = 1..Len(lines[l])
  OBVIOUS
<1>2. IsFiniteSet(RawLines)
  <2>1. Len(lines) \in Int /\ 1 \in Int /\ DOMAIN lines = 1..Len(lines) /\ RawLines \in SUBSET (1..Len(lines))
    OBVIOUS
  <2>2. IsFiniteSet(1..Len(lines))
    BY <2>1, FS_Interval
  <2> HIDE DEF RawLines
  <2> QED BY <2>1, <2>2, FS_Subset
<1>3. ASSUME NEW l \in RawLines PROVE IsFiniteSet(InLine(l, "head"))
  <2>1. IsFiniteSet(DOMAIN lines[l])
    <3>1. Len(lines[l]) \in Int /\ 1 \in Int /\ DOMAIN lines[l] = 1..Len(lines[l])
      BY <1>1
    <3>2. IsFiniteSet(1..Len(lines[l]))
      BY <3>1, FS_Interval
    <3> QED BY <3>1, <3>2
  <2>2. IsFiniteSet({l})
    BY FS_Singleton
  <2>3. IsFiniteSet({l} \X DOMAIN lines[l])
    BY <2>1, <2>2, FS_Product
  <2>4. InLine(l, "head") \in SUBSET ({l} \X DOMAIN lines[l])
    OBVIOUS
  <2> HIDE DEF InLine
  <2> QED BY <2>3, <2>4, FS_Subset
<1>4. IsFiniteSet(H)
  <2>1. heads \in [RawLines -> H] /\ \A t \in H : \E s \in RawLines : heads[s] = t
    OBVIOUS
  <2>2. heads \in Surjection(RawLines, H)
    <3> HIDE DEF heads, H, RawLines
    <3> QED BY <2>1, Fun_IsSurj
  <2> HIDE DEF heads, H, RawLines
  <2> QED BY <1>2, <2>2, FS_Surjection
<1>5. IsFiniteSet(Raw("head"))
  <2>1. \A T \in H : IsFiniteSet(T)
    BY <1>3
  <2>2. Raw("head") = UNION H
    OBVIOUS
  <2> HIDE DEF H, Raw
  <2> QED BY <1>4, <2>1, <2>2, FS_UNION
<1>6. ASSUME NEW x \in W
      PROVE  /\ x = <<x[1], Len(lines[x[1]])>>
             /\ <<x[1], 1>> \in Raw("head")
  <2>0. PICK l \in RawLines : \E i \in DOMAIN lines[l] : x = <<l, i>> /\ lines[l][i].part = "whole"
    OBVIOUS
  <2>1. PICK i \in DOMAIN lines[l] : x = <<l, i>> /\ lines[l][i].part = "whole"
    BY <2>0
  <2>2. i = Len(lines[l]) /\ 1 \in DOMAIN lines[l] /\ lines[l][1].part = "head"
    <3>1. LineOK(lines[l]) /\ ~IsRow(lines[l]) /\ DOMAIN lines[l] = 1..Len(lines[l])
      BY <1>1
    <3> QED BY <2>1, <3>1, WholeEndsLine
  <2> QED BY <2>1, <2>2
<1>7. f \in Injection(W, Raw("head"))
  <2>1. f \in [W -> Raw("head")]
    BY <1>6
  <2>2. \A a, b \in W : f[a] = f[b] => a = b
    <3> SUFFICES ASSUME NEW a \in W, NEW b \in W, f[a] = f[b] PROVE a = b
      OBVIOUS
    <3>1. a[1] = b[1]
      <4>1. f[a] = <<a[1], 1>> /\ f[b] = <<b[1], 1>>
        OBVIOUS
      <4>2. <<a[1], 1>> = <<b[1], 1>>
        BY <4>1
      <4> QED BY <4>2
    <3>2. a = <<a[1], Len(lines[a[1]])>> /\ b = <<b[1], Len(lines[b[1]])>>
      BY <1>6
    <3> HIDE DEF W
    <3> QED BY <3>1, <3>2
  <2> HIDE DEF f, W, Raw
  <2> QED BY <2>1, <2>2, Fun_IsInj
<1>8. Cardinality(W) <= Cardinality(Raw("head"))
  <2> HIDE DEF f, W, Raw
  <2> QED BY <1>5, <1>7, FS_Injection
<1> QED BY <1>8

\* However often hooks are cut short or write in two pieces, and whatever the
\* watcher meets of it: no more whole rows are shown as raw text than heads are.
THEOREM HeadsTheorem == WatcherSpec => []OneHeadCostsOneRow
<1>1. WatcherInv => OneHeadCostsOneRow
  BY HeadsCoverRows DEF WatcherInv, WatcherTypeOK, OneHeadCostsOneRow
<1> QED BY <1>1, WatcherSafe, PTL

=============================================================================
