--------------------------- MODULE PluginInstaller ---------------------------
(***************************************************************************)
(* scripts/install-plugin.sh: the plugin that Cursor loads is a link       *)
(* (TARGET) to a staging directory (STAGING, build/plugin) that holds one  *)
(* link per entry of the payload.  Runs of the script follow each other;   *)
(* one may be killed or meet a failing command, after which set -e ends    *)
(* it.  Meanwhile others may clean build/ away, or put something of their  *)
(* own at TARGET.                                                          *)
(***************************************************************************)
EXTENDS Naturals, Sequences, FiniteSets, SequencesExt

CONSTANTS
  PAYLOAD_ENTRIES,   \* the entries, in the order in which they are staged
  Nested,            \* the ones with a directory of their own (src/omnicursor)
  Faults             \* may a run be killed, or a command of it fail?

Entry == ToSet(PAYLOAD_ENTRIES)

ASSUME PayloadAssumption ==
  PAYLOAD_ENTRIES \in Seq(Entry) /\ PAYLOAD_ENTRIES # <<>> /\ IsInjective(PAYLOAD_ENTRIES)
ASSUME NestedAssumption == Nested \subseteq Entry
ASSUME FaultsAssumption == Faults \in BOOLEAN

Command == {"install", "uninstall", "purge"}
Foreign == {"elsewhere", "dangling", "real"}

VARIABLES
  target,      \* what is at TARGET: nothing, a link to "staging", to the "root" of
               \* this checkout (legacy), "elsewhere", or to a path whose parent is
               \* not there ("dangling"), or something "real"
  build,       \* is there a directory build/?
  dir,         \* is there a directory STAGING?
  staged,      \* the entries in it
  data,        \* is there a ~/.omnicursor?
  safe,        \* is the data directory one that --purge accepts?
  cmd,         \* what the present or last run was asked for
  pc,          \* where it is, or how it ended
  next,        \* the entry to stage next
  start,       \* what it found: target, staged, data and build
  disturbed,   \* has anything else, or a fault, come in since?
  damaged      \* was build/ cleaned away, or a staging cut short, since the last
               \* complete one?

disk == <<target, build, dir, staged, data, safe>>
installerVars == <<disk, cmd, pc, next, start, disturbed, damaged>>

Ended == {"none", "exit0", "exit1", "killed"}
Active == {"check", "clear", "mkdir", "stage", "link", "unlink", "unstage", "purge"}
Here == [target |-> target, staged |-> staged, data |-> data, build |-> build]

InstallerInit ==
  /\ target \in {"none", "root"} \cup Foreign
  /\ build = FALSE /\ dir = FALSE /\ staged = {}
  /\ data \in BOOLEAN /\ safe \in BOOLEAN
  /\ cmd = "install" /\ pc = "none" /\ next = 1
  /\ start = Here
  /\ disturbed = FALSE /\ damaged = FALSE

Launch ==
  /\ pc \in Ended
  /\ cmd' \in Command
  /\ pc' = "check"
  /\ start' = Here /\ disturbed' = FALSE
  /\ UNCHANGED <<disk, next, damaged>>

Goto(from, to) == pc = from /\ pc' = to
HistoryUnchanged == UNCHANGED <<cmd, start, disturbed>>

-----------------------------------------------------------------------------
(* readlink -f fails, and prints nothing, if the directory of the path is not *)
(* there; the path itself need not be.                                        *)

Unresolved == "unresolved"
ResolvedTarget ==
  IF target = "dangling" \/ (target = "staging" /\ ~build) THEN Unresolved ELSE target
ResolvedStaging == IF build THEN "staging" ELSE Unresolved

IsLink == target \in {"staging", "root", "elsewhere", "dangling"}

\* _status_icon compares the two; here both may have failed.
StatusIcon ==
  IF IsLink /\ ResolvedTarget = ResolvedStaging THEN "linked"
  ELSE IF IsLink /\ ResolvedTarget = "root" THEN "legacy"
  ELSE IF target \in {"elsewhere", "real"} THEN "manual"
  ELSE "missing"

\* resolved="$(readlink -f "$TARGET")" ends the run when it fails; after that the
\* link must be to the staging directory or to the checkout.
Managed == ResolvedTarget # Unresolved /\ ResolvedTarget \in {ResolvedStaging, "root"}

-----------------------------------------------------------------------------
(* Installing *)

CheckInstall ==
  /\ cmd = "install"
  /\ IF target = "none" \/ (IsLink /\ Managed) THEN Goto("check", "clear")
                                               ELSE Goto("check", "exit1")
  /\ UNCHANGED <<disk, next, damaged>> /\ HistoryUnchanged

\* rm -rf "$STAGING".
ClearStaging ==
  /\ Goto("clear", "mkdir")
  /\ dir' = FALSE /\ staged' = {}
  /\ UNCHANGED <<target, build, data, safe, next, damaged>> /\ HistoryUnchanged

\* mkdir -p, and the loop starts.
MakeFrom(first) ==
  /\ Goto("mkdir", "stage")
  /\ build' = TRUE /\ dir' = TRUE
  /\ next' = first
  /\ UNCHANGED <<target, staged, data, safe, damaged>> /\ HistoryUnchanged

\* Mutant of MakeStaging: entries are counted from zero.
MakeFromZero == MakeFrom(0)

MakeStaging == MakeFrom(1)

\* The loop over the entries: ln -s, after mkdir -p for a nested one, which makes
\* the staging directory again if somebody has cleaned it away.
StageTo(last) ==
  /\ pc = "stage"
  /\ LET entry == PAYLOAD_ENTRIES[next] IN
       IF dir \/ entry \in Nested
       THEN /\ build' = TRUE /\ dir' = TRUE
            /\ staged' = staged \cup {entry}
            /\ next' = next + 1
            /\ pc' = IF next = last THEN "link" ELSE "stage"
       ELSE /\ pc' = "exit1"
            /\ UNCHANGED <<build, dir, staged, next>>
  /\ damaged' = (damaged \/ pc' = "exit1")
  /\ UNCHANGED <<target, data, safe>> /\ HistoryUnchanged

\* Mutant of StageEntry: the last entry is forgotten.
StageButLast == StageTo(Len(PAYLOAD_ENTRIES) - 1)

StageEntry == StageTo(Len(PAYLOAD_ENTRIES))

\* ln -sfn: a link is replaced; in a real directory the link would be made inside.
Link ==
  /\ Goto("link", "exit0")
  /\ target' = IF target = "real" THEN target ELSE "staging"
  /\ damaged' = (damaged /\ staged # Entry)
  /\ UNCHANGED <<build, dir, staged, data, safe, next>> /\ HistoryUnchanged

-----------------------------------------------------------------------------
(* Uninstalling *)

\* Mutant of CheckUninstall: what is not managed is skipped, and the run goes on.
SkipUnmanaged ==
  /\ cmd # "install"
  /\ IF IsLink /\ Managed THEN Goto("check", "unlink") ELSE Goto("check", "unstage")
  /\ UNCHANGED <<disk, next, damaged>> /\ HistoryUnchanged

CheckUninstall ==
  /\ cmd # "install"
  /\ IF IsLink /\ Managed THEN Goto("check", "unlink")
     ELSE IF target = "none" THEN Goto("check", "unstage")
     ELSE Goto("check", "exit1")
  /\ UNCHANGED <<disk, next, damaged>> /\ HistoryUnchanged

\* rm "$TARGET", which fails for a directory that has come there meanwhile.
Unlink ==
  /\ IF target \in {"none", "real"} THEN Goto("unlink", "exit1") /\ UNCHANGED target
                                    ELSE Goto("unlink", "unstage") /\ target' = "none"
  /\ UNCHANGED <<build, dir, staged, data, safe, next, damaged>> /\ HistoryUnchanged

Unstage ==
  /\ Goto("unstage", IF cmd = "purge" THEN "purge" ELSE "exit0")
  /\ dir' = FALSE /\ staged' = {}
  /\ UNCHANGED <<target, build, data, safe, next, damaged>> /\ HistoryUnchanged

\* The guards on the directory, then rm -rf.
Purge ==
  /\ IF safe THEN Goto("purge", "exit0") /\ data' = FALSE
             ELSE Goto("purge", "exit1") /\ UNCHANGED data
  /\ UNCHANGED <<target, build, dir, staged, safe, next, damaged>> /\ HistoryUnchanged

-----------------------------------------------------------------------------
(* Faults and others *)

\* The run is killed, or a command fails; an rm -rf may have gone half-way.
Break ==
  /\ Faults /\ pc \in Active
  /\ pc' \in {"exit1", "killed"}
  /\ staged' \in IF pc \in {"clear", "unstage"} THEN SUBSET staged ELSE {staged}
  /\ disturbed' = TRUE
  /\ damaged' = (damaged \/ pc \in {"clear", "mkdir", "stage", "link"})
  /\ UNCHANGED <<target, build, dir, data, safe, cmd, next, start>>

\* git clean, or rm -rf build.
CleanBuild ==
  /\ build
  /\ build' = FALSE /\ dir' = FALSE /\ staged' = {}
  /\ disturbed' = TRUE /\ damaged' = TRUE
  /\ UNCHANGED <<target, data, safe, cmd, pc, next, start>>

\* Somebody changes what is at TARGET, or a hook makes the data directory again.
ChangeTarget ==
  /\ target' \in {"none"} \cup Foreign /\ target' # target
  /\ disturbed' = TRUE
  /\ UNCHANGED <<build, dir, staged, data, safe, cmd, pc, next, start, damaged>>
MakeData ==
  /\ ~data /\ data' = TRUE
  /\ disturbed' = TRUE
  /\ UNCHANGED <<target, build, dir, staged, safe, cmd, pc, next, start, damaged>>

Install == CheckInstall \/ ClearStaging \/ MakeStaging \/ StageEntry \/ Link
Uninstall == CheckUninstall \/ Unlink \/ Unstage \/ Purge
Others == CleanBuild \/ ChangeTarget \/ MakeData

InstallerNext == Launch \/ Install \/ Uninstall \/ Break \/ Others

InstallerSpec == InstallerInit /\ [][InstallerNext]_installerVars

-----------------------------------------------------------------------------

InstallerTypeOK ==
  /\ target \in {"none", "staging", "root"} \cup Foreign
  /\ build \in BOOLEAN /\ dir \in BOOLEAN /\ data \in BOOLEAN /\ safe \in BOOLEAN
  /\ staged \subseteq Entry
  /\ (dir => build) /\ (staged # {} => dir)
  /\ cmd \in Command /\ pc \in Ended \cup Active
  /\ next \in 1 .. Len(PAYLOAD_ENTRIES) + 1
  /\ disturbed \in BOOLEAN /\ damaged \in BOOLEAN

\* What Cursor loads through the link is the whole payload, except while an install
\* stages it anew and after one was cut short there or build/ was cleaned away.
LinkedIsComplete ==
  (StatusIcon = "linked" /\ build) =>
    staged = Entry \/ damaged \/ pc \in {"mkdir", "stage", "link"}

Done ==
  /\ start.target \notin Foreign
  /\ IF cmd = "install" THEN target = "staging" /\ staged = Entry ELSE target = "none" /\ ~dir
  /\ data = (start.data /\ cmd # "purge")
Refused ==
  /\ data = start.data
  /\ \/ cmd = "purge" /\ ~safe
     \/ /\ \/ start.target \in Foreign
           \/ start.target = "staging" /\ ~start.build
        /\ target = start.target /\ staged = start.staged

\* How a run ends, unless somebody interferes, tells what it has done: 0 is
\* everything asked for and nothing else, with no link or directory of anybody
\* else's removed on the way; 1 is a refusal, because of what is at TARGET, which
\* left all as it was, or of the data directory, which left that as it was.
ExitsTruthful ==
  [][~disturbed' /\ pc \in Active /\ pc' \in Ended =>
       (IF pc' = "exit0" THEN Done' ELSE Refused')]_installerVars

=============================================================================
