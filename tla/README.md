# OmniCursor in TLA+

OmniCursor adds hooks to the Cursor editor. Cursor starts a short-lived Python
process for each event (a session starts, a prompt is submitted, a shell command is
about to run, an agent loop ends ...). The processes share files under
`~/.omnicursor`, take no locks, and talk to an emit daemon over a Unix socket. This
directory holds TLA+ models of that core, the TLC configurations that check them, and
TLAPS proofs of all the safety properties that the passing runs check.

Contents: [inventory](#inventory), [modules](#modules), [runs](#runs),
[proofs](#proofs), [findings](#findings), [what is not modelled](#what-is-not-modelled),
[plan](#plan).

## Inventory

| Part | State it keeps | Operations | What makes it hard | What makes it correct |
|---|---|---|---|---|
| daemon ensure (`lib/daemon_ensure.py`) | the spawn stamp, the daemon's socket | ping, claim the stamp, launch | hooks racing on one stamp, kills between steps, a stale stamp | no two launches within one TTL; nobody waits for a launch nobody makes |
| session files (`lib/_common.py`, `session-start.py`, `user-prompt-submit.py`) | `sessions/<id>.json`, `current.json`, `session_initialized` flags | merge, overwrite, initialise, link | read-modify-write without a lock, truncation before the write, kills | no lost field, no torn file, links to the latest prompt or to none |
| shell guard (`shell_guard.py`, `shell-guard.py`) | none; reads `ci_passing` and `dispatch_claim` | decide on a command, log, answer | the files may be torn, reset or stale at that moment; exceptions and kills | verdicts that the files justify, denials in the log, done/completed only after CI was green |
| learned patterns (`pattern_writer.py`) | `learned_patterns.json` | decay, count, learn, evict, save | stops overlap with stops and syncs, kills, failed readings that pass for an empty file, rounding, caps, ids that are missing or shared | nothing lost unless a version is replaced unread, evictions by weight, coherent records |
| pattern sync (`sync/pattern_sync.py`) | the same file | probe, read, fetch, merge, replace | up to three seconds between read and write | local patterns stay |
| stop hook (`stop.py`, `session_outbox.py`, `session_outcome.py`) | the log line, summary, recap, outbox row, events | aggregate, load, log, summarise, learn, append, emit | the log is read twice and either reading may end early, several runs per conversation, one write of six may fail, a purge | rows coherent and cumulative, independent of the daemon |
| event log (`lib/_common.py: log_event`) | `events.jsonl` | append | all hooks append | lines are only added |
| emit client (`lib/emit_client.py`) | one connection per request | connect, send, receive, time out | the daemon may be absent, slow, dying, endless | True only for a queued event; every request returns |
| context injection (`lib/context_injection.py`, `pattern_cache.py`, `prompt_pattern_selection.py`) | none; a cache | fetch, filter, select, render, find the prior session | the files are replaced while they are chosen and read; ties and thresholds | the best patterns of one list, the prior session written last |
| routing (`scoring.py`, `agents.py`, `classify_prompt`) | the registry of agents read from files | score, choose, reload | two surfaces that must agree, ties, files that change between two reads | hook and library choose alike, a match has its context |
| omnimarket bridge and MCP server (`omnimarket_bridge.py`, `mcp/`) | a child process per call | resolve, spawn, collect, time out | nodes that hang, helpers that keep the pipe open, a server that dies, calls that wait behind one another | ok only for a whole result, one node at a time, every call returns |
| outbox watcher (`scripts/watch_outbox.py`) | an offset in the file it follows | follow, replay | rows caught half written, cut short or interleaved, a file that is purged while it is read | every text shown once and in order, little lost to a torn row |
| installer (`scripts/install-plugin.sh`) | the link that Cursor loads, the staging directory | install, uninstall, purge, status | a run cut short at any command, `build/` cleaned away, a target that somebody else changes | a link to a whole payload, nothing of others removed, exit codes that tell what was done |
| kill switch and mask (`lib/_common.py`), and the scripts of session end, post edit and post tool | `hooks-disabled` | gate, work, log, answer | the switch is thrown while hooks run; any step may raise | one answer, as decided; no effect of a disabled hook |
| measurement, canonical events, node contracts, skills, compliance, event registry, CI scripts, evaluation | little or none | | | |

The parts interact through files and, for events, through the daemon: `session-start`
runs *daemon ensure* and *pattern sync* and writes the session files; every hook appends to the
event log; `stop` reads it and feeds the session file, the patterns and the outbox;
`shell-guard` reads the session file; every hook sends events through the emit client. The
*watcher* reads the outbox from a process of its own, which the *installer* may remove. The *bridge*
shares nothing with the hooks.
Nothing else orders the hooks of different conversations, and Cursor starts a hook
without waiting for an earlier one of another kind to end.

## Modules

**`DaemonEnsure`** models `ensure_daemon`. Each hook is a process with its own `pc`; one
action per file-system step of `_claim_spawn_stamp`: the first `O_EXCL` create
(`ClaimFirst`), the `stat` with its two results (`StatFresh`, `StatStale`), the `unlink`,
the second create (`Recreate`), then `Resolve` and `Spawn`. `now` is a discrete clock,
the stamp a creation time; `clobbered` and `faulted` record what went wrong, for the
properties only. The daemon and its start-up are external
(`WrapperEnds`, `DaemonDies`).

**`SessionFiles`** models the JSON session files of several conversations and `current.json`, which
all of them share. A script is a list of operations
(`Script`); a merge is `Read`, `Truncate`, `Write`, because `merge_session_json` reads the
file, and `write_text` truncates before it writes. The value of a field is the hook
that wrote it. `ledger` is what a file would hold had every update been applied one after the other;
`disturbed` names the files on which updates overlapped or were cut short. `Link` is what a stop and a shell hook
do with `current.json`: they take `latest_correlation_id`, whatever conversation stands beside it, and `linked` keeps
what each has taken. `Guard` is the DoD tier of `guard_command`. How an agent sets `ci_passing` is not in the repository
(`SetGreen`).

**`PatternWriter`** has the update of the learned patterns as operators: weights in
thousandths, time in days; the constants are those of the code but for
`MAX_PATTERNS_PER_DOMAIN` and `UTILIZATION_EVICT_MIN_INJECTIONS`, which are parameters. The domain and the text of a pattern
are its key (`Key`, `DomainOf`), on which `Upsert` matches; its `pattern_id` is a field of its own. The writer makes the id out of
the key (`IdOf`), and gives one to each record that it loads without (`Identified`), so that two records may come to bear one id;
of those the metrics reach the last (`LastWithId`). A record of the service may have no id (`NoId`), any id, no weight (`NoWeight`)
or any weight. An eviction is a choice of
places of the list (`Kept`), and `EvictOverflow` puts each place where the two sorts of the code put it.
**`PatternStore`** is the file with the stops and syncs that share it: load, work on
the copy, write a temporary file, rename. A reading may fail (`ReadsFail`); both programs take that for an empty list, go on,
and replace the whole file (`ReadFile`). `MergePatterns` is the loop of `_merge_patterns`, which takes a pattern of the
service only if none with its identity has been met: its id, or without one all of it (`SameIdentity`). `version` and `base` tell
whether a save replaces what its process has read. **`SnapshotStore`** is what such a file promises whoever
shares it without a lock: a client gets one whole version, or nothing when its reading fails, and installs at most one, made from
what it got. That no version is overwritten unread it does not promise. `PatternStore` implements it (`Snapshots` gives the
refinement mapping): the temporary files, the rename and every way to be cut short map to a step of the store or to none.

**`SessionOutcome`** has `derive_session_outcome` and `aggregate_session` as operators.
The regular expressions are abstracted to the marks they leave on a line, which keeps
the rule that `0 FAILED` excuses its own line only; a `file_edited` event without a path has the file `None`, which is work but no
edited file. **`StopHook`** is `stop.py`, step by
step, with the log that other hooks extend between its two reads, repeated runs for
one conversation, kills, failing writes and a `write_session_patterns` that raises. A reading that fails returns the lines
before the failure, or none (`ReadUpTo`), and `--uninstall --purge` may remove the log, the outbox and the rest at any time (`Purge`, one
step here; `gone` counts the lines that went with it). A reading keeps
the lines of the conversation under their numbers in the log (`EventsOf`), so that two readings can be compared. It uses
`PatternWriter` for the patterns; there the update is one step, which `PatternStore` opens up, failed reading included. A stop without a
conversation id, which writes only the recap, is left out.

**`EmitClient`** is one request per hook over the socket, at a `phase`, with the `status` it was answered and the
`result` it returns. A response is a
sequence of pieces, with or without a newline; the cap of one megabyte is a number of
pieces. `Take`, `Answer`, `Hangup`, `Die` and `Rise` are the external daemon.

**`HookScripts`** is the other six scripts as processes. `After` gives the order of the
steps of each, `Isolated` the steps that have a try block of their own, `Handler` where an
exception leads. The steps that the modules above open up are one action here (`Work`); the tiers of
`guard_command` are an action each (`Hard`, `Dod`, `Claims`, `Soft`), because two of them read files
that `InitSession`, `Bookkeeping` and the outside world (`Change`) write. A command is the set of
marks that the regular expressions of the tiers find in it. `sawCi`, `sawClaim` and
`enabled` record what a hook could have seen.

**`ContextInjection`** is `fetch_patterns`, the choice of patterns and
`load_prior_session_summary`. A hook asks the service, chooses a file, warms its cache and ranks what
it got; or lists the session files, takes their times one by one and reads the newest. Meanwhile
stops and syncs replace the learned patterns and other conversations rewrite their
session files. A pattern is its domain, the number of significant words of its description, and how many of them the prompt
has. `ScorePatternRelevance` is an exact fraction. The code computes it in floating point; for descriptions of up to 60 words, all pairs
of scores that reach the threshold compare alike in both, the threshold included. What `SelectionBest` compares
the choice with, `IsBest`, has no score and no sort. It says what the base scores, the weight of the words, the cap and the threshold
come to: patterns of the domain all qualify and rank first, general ones qualify with a quarter of their words, others only with
all of them, which ranks them with a quarter.

**`OutboxWatcher`** is the outbox as a sequence of pieces, the stops that append to it, the purge of the
installer, and both modes of the watcher. A row that does not go out in one `write` is a head and a rest, between which
others append; `LineEnd` is what `readline` takes for a line, and `IsRow` what it shows as a row. A file
that has been removed keeps its content for whoever has it open.

**`OmnimarketBridge`** is the tool calls of the MCP server, which runs one at a time. `subprocess.run` returns
when the node has ended *and* everybody has closed the pipe (`Collect`), or at the limit (`TimeOut`), when it kills the
node but not what the node has started. What is printed, by whom and when, is free.

**`PluginInstaller`** is `install-plugin.sh`, one action per command that changes the disk, under `set -e`.
`ResolvedTarget` has the case that `readlink -f` fails because the directory of the path is gone. Others may clean
`build/` away or change the target between any two commands.

**`Routing`** fixes a prompt; an agent is what its triggers and keywords make of it, and
`ScoreAgent` its score in thousandths. `ClassifyPrompt` is the scan of the prompt hook
(`Beats`, `Lead`), `MatchAgentCandidates` the sorted choice of the library (`Fitting`). The library's registry is loaded in
the two reads of the code (`ReadContexts`, `ReadPool`), with `EditFile` at any time. `HardcodedAssumption` says of `AGENT_CONTEXTS` what a dictionary guarantees, that no category
comes twice.

**`Ranking`** says what the sorts and filters of the last modules do to the places of a list: which of them are kept
(`Filtered`), and in which order (`Sorted`, stable, by falling score).

Modules whose proofs share a proof module have names of their own for what every module has: `ClientSpec`,
`InstallerSpec`, `WatcherSpec` and `RoutingSpec`, and so for `Init`, `Next`, `TypeOK` and the tuple of the variables.

`MC...` modules hold the small values of the constants. In each module an operator whose
comment begins with "Mutant of" is a wrong variant of the definition below it; putting it
in the place of that definition makes the property it is meant for fail.

## Runs

| Run | Instance | Shows |
|---|---|---|
| `daemon_ensure` | 3 hooks on a fresh or stale stamp, kills, failing calls | `DedupeUnlessClobbered`: two stamps within one TTL only if a slow reclaimer unlinked the earlier; `BackOffJustified`: a hook gives up only to another that launches; `StaleStampReclaimed`: a stale stamp blocks nobody for good |
| `session_files` | 3 hooks of 2 conversations, kills, failing reads and writes | `SerialMergesKeepEverything` and `TornOnlyByWriters`: only updates that overlap or are cut short lose fields or leave a torn file; `LinkIsLatest`: a hook links to the prompt that wrote `current.json` last, or to none; `GateSound`: done/completed only after CI was green in this session |
| `pattern_store` | 2 stops, 1 sync, 3 patterns in 2 domains, room for 1 per domain, kills, failing readings, records without an id or a weight, under an id of another, twice, and below the floor, a clock | `SerialSavesKeepEverything`: nothing is lost unless somebody replaces a version unread; `EvictionSound`: what is evicted is no heavier than what stays, or was injected often in vain; `RecordsCoherent`: no successes without injections, no pattern twice unless the service made its id ambiguous; `ImplementsSnapshots`: the refinement of `SnapshotStore` |
| `stop_hook` | 2 runs, 2 conversations, one event of another hook at any time, one kill, failed reading, failed write or purge, an update that may raise, a clock | `RowsCoverTheirPrompts`: a row counts only prompts whose patterns it names, unless a reading failed or a purge came in between; `RowsCumulative`: later rows count no less; `OutboxRegardlessOfDaemon`, `OutcomesHaveRows`; `SuccessHasWork`: no success without a prompt or an edit |
| `emit_client` | 2 requests, a daemon that is free to do anything, fair clients | `TrueMeansTaken`, `RequestsReturn` |
| `hook_scripts` | the shell guard beside one hook of any other kind, kills, exceptions at any step, one change of the switch, `ci_passing` or the claim from outside | `DecisionStands`: one answer, as decided; `GuardJustified`: a verdict is right for values the files have had; `DenialsAudited`; `DisabledDoesNothing`; `EveryHookAnswers` |
| `context_injection` | 1 hook, 2 other conversations, lists of patterns of up to 13 words at, above and below the threshold, room for 2 patterns, a clock | `SelectionBest`: nothing left out outranks what is injected; `PatternsFromOneSource`: the patterns are from one list that was there; `PriorIsLatest` |
| `routing` | agent files that change, also between the two reads of a load | `SurfacesAgree`: hook and library choose the same agent; `MatchesHaveContexts` |
| `outbox_watcher` | 3 stops, 2 of which write in two pieces, kills, failing writes, a purge, a watcher that follows or replays | `ShownIsText`: nothing left out, twice or out of order; `OneHeadCostsOneRow`: a torn row costs at most one other; `NewTextShown`: what lands after the watcher has begun to follow is shown |
| `omnimarket_bridge` | 2 calls with limits of 2 and 3 units of five minutes, nodes and helpers that do anything, a server that may die | `OkIsFinal`, `OneNodeAtATime`, `CallsReturn` |
| `plugin_installer` | a payload of 3 entries, one nested; any sequence of runs, faults, a cleaned `build/` and a changed target at any step | `LinkedIsComplete`: the link leads to the whole payload unless a staging was cut short; `ExitsTruthful`: a run that nobody disturbs does all it was asked for and nothing else, or refuses and says so |

The type invariant is checked by the runs `pattern_store` (`TypeOK`), `routing` (`RoutingTypeOK`), `outbox_watcher`
(`WatcherTypeOK`) and `plugin_installer` (`InstallerTypeOK`); it is proved of these and of the other modules. The run that ends in a violation is listed under [findings](#findings).

Bounds. The hazards are races of two actors on one file, so two of each kind of
process, and three hooks where a third may profit from the confusion of two, are enough
for every order of their steps. The clock has two or three ticks, so that each side of
a threshold and the threshold itself occur. `MaxLog` bounds the lines of other hooks,
not those of stops: one line falls before, between or after the two reads of either run.
`MaxMishaps` = 1 puts one kill, failed reading, failed write or purge at every step of either run. One pattern per domain makes the cap bind at once; a
minimum of 3 or 5 injections in the place of 10 lets a count cross it within two
stops. `MAX_RESPONSE_PIECES` = 2 makes an answer end before, at and after the cap.
The runs of `SessionFiles` and `StopHook` use symmetry of processes and conversations; runs with a liveness
property do not. `SessionFiles` also has a VIEW: of a file on which updates have overlapped, it keeps the fields that an action or
a property still looks at. Two conversations are what it takes to mix them up in `current.json`, and of three hooks two share one.
In `outbox_watcher` two rows that need two writes interleave with each other and with one that does not, and two files are
one purge. In `omnimarket_bridge` two different limits let the second call wait for the whole of the first. The payload of
`plugin_installer` has an entry before and after the nested one, the only one that makes its directory.
In `hook_scripts` the guard is the only reader of files and one other hook the only writer, beside one
change from outside: a second writer could only repeat a reset. In `context_injection` the
hook shares nothing with other hooks, so that one is enough; room for 2 patterns lets lists
be shorter, as long and longer than the room, and two other conversations give a choice.
`CHECK_DEADLOCK FALSE` is set where every process may have finished, which is how these systems
stop.

Fairness. `daemon_ensure`, `emit_client` and `hook_scripts` assume weak fairness of the steps of a hook
that is running, and of nothing else: a hook is a process that waits only for its own
system calls, each bounded by a timeout or local. No fairness is assumed of the daemon,
of other programs, of kills or of the start of hooks. `outbox_watcher` assumes it of the watcher, a loop that polls
(`WatcherStep`), and not of the hooks that write; `omnimarket_bridge` of the server's own steps for a call (`BridgeStep`) and of the
clock (`Tick`), and not of nodes and helpers, which may hang for ever.

## Proofs

All proofs hold for every value of the constants under the named assumptions of the modules. These are about flags and
bounds, about names that differ (`None` is no process; the hash of a key stands for the key), about the shape of the inputs, and one
about a service: no record in the lists of `PatternStore` has more successes than injections (`ServiceAssumption`). Its ids and
weights are free. `ListsAssumption` of `ContextInjection` says that a prompt has no more of the words of a description than there are. Every invariant that a passing run checks is proved, and the
action property `ImplementsSnapshots`.

* `DaemonProofs`, of `DaemonEnsure` and `EmitClient`. `DedupeTheorem` is `DedupeUnlessClobbered`. The
  invariant relates each hook that has judged the stamp stale to the stamp it has seen.
  `BackOffTheorem`: `BackOffJustified`. `Owned` adds that a missing stamp is owed to a hook between
  its unlink and its create, or cut short or failed there, and that a hook which has unlinked
  finds in its place only a newer stamp. `TrueMeansTakenTheorem` is `TrueMeansTaken`: the invariant ties a status to a
  request that was taken and to the queue, and a true result to a status.
* `SessionFilesProofs`: `SerialMergesTheorem` and `TornTheorem` are `SerialMergesKeepEverything` and
  `TornOnlyByWriters`. Neither is inductive: a hook in mid-merge is about to write a copy
  of which they say nothing. `IInv` adds, for a file that is not disturbed, that
  at most one hook holds it, that its copy is the ledger, and that the file
  is empty exactly while it writes (`FileOK`), and what its place in an operation says
  about a hook (`HookOK`). `LinkTheorem` is `LinkIsLatest`: id and conversation are a pair in the file and in every copy that a
  hook is about to write to it, and the id in the file is that of the latest prompt or missing (`PairsOK`). `GateTheorem` is `GateSound`:
  a green value in a file, or in a copy that a hook is about to write, was earned by that conversation (`GreenEarned`), however
  updates overlap.
* `PatternStoreProofs`: `SerialSavesTheorem` is `SerialSavesKeepEverything`. The invariant adds
  that a process whose `base` is the current version holds the current list, and that
  `base` never exceeds `version`; a process whose reading failed has a `base` that is no version at all. `RefinementTheorem` is
  `ImplementsSnapshots`: the initial
  states map to initial states, and each action to one of the store or to a stutter. `StoreTypesTheorem` and `CoherentTheorem` are
  `TypeOK` and `RecordsCoherent`: the file and every copy of it is a list in which each record is typed and coherent, and no
  two are the same but for those with an ambiguous id (`ListsOK`), which each operator of an update, and each turn of its loops,
  preserves. For that a record is either made by the writer, and has the id that goes with its key, or accounted for in
  `Ambiguous` (`Known`); after a load every record has an id (`FullList`); and an update that goes on past the decay has not raised
  (`PastDecay`), so that every weight it looks at is there. `EvictionTheorem` is
  `EvictionSound`: the places kept by the cap are those with fewer than the cap of their domain before them, so that one
  which is dropped has exactly as many before it as stay.
* `StopHookProofs`: `OutboxTheorem` and `OutcomesTheorem` are `OutboxRegardlessOfDaemon` and
  `OutcomesHaveRows`. The invariant splits the steps of a run at the append of the row: before it the
  run has no row, after it the run is `Told` (it has its row or the append failed), and a run
  that ended otherwise was killed or raised. `CoverTheorem` and `CumulativeTheorem` are `RowsCoverTheirPrompts` and
  `RowsCumulative`. No variable says how long the log was at each of the two readings of a run; the invariant `RInv` says that there
  are two such lengths for each, of which its summary, its events and its row are made, and that runs of a conversation which never
  overlapped have them in the order of their rows. A reading that failed has a shorter length, and of a purged log there is
  nothing to say; both are in `fate`, and the invariant speaks of the order of two lengths only where neither is
  (`Intact`, `InTurn`). The rest is about readings: one of a longer log holds all of an
  earlier one, so that it counts no fewer prompts and takes no failure back. `SuccessTheorem` is `SuccessHasWork`.
* `HookScriptsProofs`: `AnswersTheorem`, `AuditTheorem`, `DisabledTheorem` and `JustifiedTheorem` are
  `DecisionStands`, `DenialsAudited`, `DisabledDoesNothing` and `GuardJustified`. The invariant `HookOK` says
  for each step of a script whether the answer has been told; for the guard, that it is undecided
  before its row, that from the row on a denial is in the log or the write has failed, and which tiers
  it has passed and on which of the values it could have seen.
* `ToolProofs`, of the programs around the hooks.
  `OkTheorem` and `OneNodeTheorem` are `OkIsFinal` and `OneNodeAtATime` of `OmnimarketBridge`: the invariant
  adds that the server works on one call at a time and that a call with an answer has no running node, unless the server was lost.
  `LinkedTheorem` and `ExitsTheorem` are `LinkedIsComplete` and `ExitsTruthful` of `PluginInstaller`: unless something was
  damaged, the loop has staged the entries before the next one (`StagingOK`), and what an undisturbed run has
  changed so far follows from the command it is at (`SinceStart`). `ShownTheorem` and `HeadsTheorem` are `ShownIsText` and
  `OneHeadCostsOneRow` of `OutboxWatcher`: what has been shown, flattened, is the text between the
  start and the offset, and a line goes on only after the head of a row (`LineOK`); so a whole row that is shown as raw text has a head
  before it in its line, and different rows have different heads.
* `PromptProofs`, of what a prompt gets. `PriorTheorem`, `SourceTheorem` and `SelectionTheorem` are `PriorIsLatest`,
  `PatternsFromOneSource` and `SelectionBest` of `ContextInjection`.
  For the first the invariant says that the file chosen so far is ahead of all that have been looked at, as they were when
  they were listed; times only grow. For the second it says that whatever file a hook has chosen is there when
  it is read, and holds one of the lists that there were since its start. For the third, whatever the length of the
  descriptions: fractions are ordered as their cross products say (`FractionOrder`); a score of the threshold or more is six tenths and four
  of the share that `IsBest` ranks by, so that scores and shares order alike (`ScoreAndShare`, `SharesOrder`); and a cut of the sorted
  list drops only what all it keeps is ahead of. `SurfacesTheorem` and `ContextsTheorem` are `SurfacesAgree` and `MatchesHaveContexts` of `Routing`. The
  invariant `RegistryOK` says that the registry is what two reads made of the files, as they were at two moments: at the same one if the
  load was not split, and as they still are if it is not stale. Given the same files, the leader of the scan is the first
  of the best scores (`ScanFindsLeader`), and so is the first of the stable sort.
* `OrderLemmas` has what several of them need: a non-empty set of naturals has a least element; a set that has 0, and each
  number up to n whose predecessor it has, has all of them (`UpTo`); a fold over a sequence is a
  function of its prefixes (`FoldExists`); ranks in a finite order are a bijection (`RankBijection`); and what `Sorted` and `Filtered`
  leave is in order, complete and without repetition.

`TypesTheorem` of a module, `ClientTypesTheorem`, `StoreTypesTheorem`, `BridgeTypesTheorem`, `InstallerTypesTheorem`,
`WatcherTypesTheorem` and `RoutingTypesTheorem` are the type invariants.

What the proofs cannot use, and what they do instead. Theorems that take a predicate, like those of induction, cannot be instantiated: loops are
reasoned about with the set of the numbers up to which a claim holds (`UpTo`). `SelectSeq` and `SortSeq` cannot
be expanded; the models say which places are kept, and in which order (`Ranking`, `Restrict`, `EvictOverflow`).

Only model-checked: liveness (`StaleStampReclaimed`, `RequestsReturn`, `EveryHookAnswers`, `NewTextShown`, `CallsReturn`). It
rests on weak fairness, and so on `ENABLED`, of which the prover knows nothing.

## Findings

In `pattern_sync` TLC finds a statement of the repository violated by its code:
"Local patterns are preserved" (`pattern_sync.py:116`), but the list read before the fetch is
written back (`LocalPatternsPreserved`).

Also met while modelling, without a run of their own:

* `daemon_ensure.py:147` says "exactly one create succeeds". A late `unlink` removes the fresh stamp of the other
  caller, and a second create succeeds; `DedupeUnlessClobbered` is what remains true.
* `pattern_writer.py:17` says "oldest evicted" at the cap. The lightest are evicted, and of equal ones those
  behind in the list (`pattern_writer.py:272` sorts by weight alone, `EvictOverflow`); `EvictionSound` is what holds.
* `pattern_sync.py:116-117` says that remote patterns are appended "only if not already present". A record of the service without
  an id is compared as a whole, so that any change of a count lets it in beside its former self; the
  next stop then gives both the same id (`pattern_writer.py:152-156`, `SameIdentity` and `Identified`). `RecordsCoherent` allows it.
* A failed reading of the patterns passes for an empty file (`pattern_writer.py:159-160`, `pattern_sync.py:70-71`), and the save
  that follows drops every pattern (`ReadFile` in `PatternStore`). No document says otherwise; it is the one way to lose
  patterns without an overlap.
* `session_outbox.py:3` says "Appends one JSON line per session". Cursor fires stop at the end of every agent loop, and each
  run appends a row for the whole conversation so far; `RowsCumulative` relates them.
* `pattern_writer.py:70` says "30-day window before decay, 0.10 per period". The whole amount is taken again at
  every stop, because nothing records that it was taken (`Decayed` in `PatternWriter`). Line 16 says "-= 0.10 per day past threshold";
  it is a thirtieth of that. Line 66 says that patterns below the floor "are removed regardless of recency"; nothing removes them,
  the decay only stops at the floor.
* `scoring.py:19` says that exact triggers "dominate when present". A fuzzy ratio above 0.95 outranks
  an exact trigger of another agent (`ScoreAgent` in `Routing`).
* `watch_outbox.py:2` says that it prints "new entries as they arrive". It seeks to the end once it has opened
  the file (`SeekEnd`), so that the rows written between the creation of the file, for which it waits, and that seek are skipped.
  Its default path also ignores `OMNICURSOR_OUTBOX_FILE`, which moves the outbox of the hooks.
* `omnimarket_bridge.py:3-5` promises that no exceptions reach callers; a `python` that is not there or
  output that is not UTF-8 raises (`Refuse` and `Judge` in `OmnimarketBridge`). After a timeout the helpers of a node live on.
* After `rm -rf build` the link is still the one the installer made, but `readlink -f` fails under `set -e`: install and
  `--uninstall` exit 1 without a word, while `--status` says installed (`Managed` and `StatusIcon` in `PluginInstaller`).
* `user-prompt-submit.py:11-13` says that sessionStart "owns session initialization" and that the fallback
  is "idempotent". session-start leaves no `session_initialized` flag, so the first prompt initialises
  again: it replaces `started_at` and resets `ci_passing` (`CheckFlag` and `Script` in `SessionFiles`).
* `user-prompt-submit.py:150` writes `current.json` "so other hooks can link". It is one file for all
  conversations, and a hook takes the id of whichever prompted last (`Link` in `SessionFiles`).
* `pattern_writer.py:18` says "Patterns injected often but rarely succeeding are evicted". Every stop counts all
  prompts of its conversation again, so a pattern listed once gets there by the number of agent loops.
* `measurement_emitter.py:158` says "A False return means the measurement was not queued". After
  `sendall` the answer may be late or lost for an event that is queued (`Timeout` in `EmitClient`).
* `context_injection.py:158` looks for the "most recent completed session summary"; session files of open
  sessions are candidates too (`Candidates` in `ContextInjection`).
* `_load_json_agents` "Returns {} on any failure" (`agents.py:187`), but a field of the wrong type raises
  (`LoadRaises` in `Routing`).

## What is not modelled

Wording, redaction, keyword extraction and the layout of files (data that no property
tells apart); the emit daemon and omnimarket (external); measurements and canonical events, which build payloads
and keep no state; node contracts, skills, compliance and the event registry, which validate or list static files; the
evaluation scripts and CI, which run outside of any session. A line of the event log
is appended in one step: it is one `write` of a few kilobytes to a file opened for appending. Rows of the
outbox are so too in `StopHook`; `OutboxWatcher` has those that are not.
The environment variables that choose paths are fixed for a run.

## Plan

1. Done: `DaemonEnsure`, `SessionFiles`, `PatternWriter`/`PatternStore` over `SnapshotStore`,
   `SessionOutcome`/`StopHook`, `EmitClient`, `HookScripts`, `ContextInjection`, `Routing`,
   `OutboxWatcher`, `OmnimarketBridge`, `PluginInstaller`, and the proofs of all their safety properties.
2. What a session file says of its outcome, so that the prior session can be compared with the
   completed ones (`context_injection.py:158`).
3. Proofs of what the runs do not ask yet: what the operators of an update guarantee beyond one stop (bounds of `Decayed` and `Raised` over
   several), and an abstract specification of the outbox that `StopHook` and `OutboxWatcher` both refine.
4. The payloads of measurements and canonical events, if a property about their order or identity is found.
