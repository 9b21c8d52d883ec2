---------------------------- MODULE HookScripts ----------------------------
(***************************************************************************)
(* The hook scripts as processes: session-start, user-prompt-submit,       *)
(* shell-guard, post-edit, post-tool-use and session-end.  Cursor starts   *)
(* one per event, several may run at once, and it takes the first thing    *)
(* that a script prints as its answer.                                     *)
(*                                                                         *)
(* Each script is a gate, a fixed order of steps inside a try block, and   *)
(* an answer: what the modules DaemonEnsure, SessionFiles and PatternStore *)
(* open up is one step here.  The subject of this module is what becomes   *)
(* of the answer when a step raises, when the script is killed, and when   *)
(* the files that the shell guard reads change in mid-decision.  All       *)
(* events belong to one conversation.                                      *)
(***************************************************************************)
EXTENDS Integers, Sequences, FiniteSets, TLC

CONSTANTS
    Hooks,          \* processes
    EventsOf,       \* what Cursor may start each of them for
    Environments,   \* variables and DoD configuration the processes inherit
    MaxChanges      \* bound on the changes made to the files by others

Kinds == {"start", "prompt", "shell", "edit", "tool", "end"}

\* What the tiers of the guard find in a command.  "malformed" is not a string.
Marks == {"empty", "malformed", "hard", "done", "dispatch", "soft"}

Events == [kind : Kinds, cmd : SUBSET Marks, conversation : BOOLEAN, background : BOOLEAN]

ASSUME EventsAssumption == \A h \in Hooks : EventsOf[h] \subseteq Events

ASSUME EnvironmentsAssumption ==
    Environments \subseteq [disable : BOOLEAN, mask : SUBSET Kinds, masked : BOOLEAN,
                            tiers : SUBSET {"dod", "dispatch"}]

ASSUME MaxChangesAssumption == MaxChanges \in Nat

VARIABLES
    env,       \* the environment of all processes
    switch,    \* ~/.omnicursor/hooks-disabled exists
    flagged,   \* sessions/<id>/session_initialized exists
    ci,        \* sessions/<id>.json is readable and says ci_passing
    claim,     \* sessions/<id>/dispatch_claim exists
    log,       \* rows of events.jsonl: hook and decision
    changes,   \* changes made by others so far
    pc,        \* step each hook is at
    event,     \* event each hook was started for
    decision,  \* permission or block that the hook has computed
    answers,   \* what it has printed
    acts,      \* whether it has had an effect, and was a first prompt
    \* For the properties only.
    enabled,   \* some state between its start and its gate let the hook run
    sawCi, sawClaim,  \* values of ci and claim between its start and its decision
    failed     \* calls of the hook that failed silently

files == <<switch, flagged, ci, claim, log, changes>>
local == <<pc, event, decision, answers, acts, failed>>
ghosts == <<enabled, sawCi, sawClaim>>
vars == <<env, files, local, ghosts>>
-----------------------------------------------------------------------------
\* The order of the steps of each script, from the gate to the end.
SessionStartOrder ==
    [gate |-> "init", init |-> "ensure", ensure |-> "sync", sync |-> "fetch", fetch |-> "build",
     build |-> "log", log |-> "emit", emit |-> "answer", answer |-> "end"]

PromptOrder ==
    [gate |-> "book", book |-> "link", link |-> "ensure", ensure |-> "fetch", fetch |-> "log",
     log |-> "emit", emit |-> "preview", preview |-> "answer", answer |-> "end"]

\* Mutant of ShellOrder: the advisory tier, which always decides, comes early.
ShellOrderSoftFirst ==
    [gate |-> "hard", hard |-> "soft", dod |-> "claims", claims |-> "soft", soft |-> "log",
     log |-> "answer", answer |-> "emit", emit |-> "end"]

\* Mutant of ShellOrder: the answer goes out before the row is written.
ShellOrderAnswerFirst ==
    [gate |-> "hard", hard |-> "dod", dod |-> "claims", claims |-> "soft", soft |-> "answer",
     answer |-> "log", log |-> "emit", emit |-> "end"]

ShellOrder ==
    [gate |-> "hard", hard |-> "dod", dod |-> "claims", claims |-> "soft", soft |-> "log",
     log |-> "answer", answer |-> "emit", emit |-> "end"]

EditOrder ==
    [gate |-> "lint", lint |-> "log", log |-> "emit", emit |-> "answer", answer |-> "end"]

ToolOrder ==
    [gate |-> "fetch", fetch |-> "build", build |-> "log", log |-> "emit", emit |-> "answer",
     answer |-> "end"]

SessionEndOrder == [gate |-> "log", log |-> "emit", emit |-> "answer", answer |-> "end"]

After ==
    [start |-> SessionStartOrder, prompt |-> PromptOrder, shell |-> ShellOrder,
     edit |-> EditOrder, tool |-> ToolOrder, end |-> SessionEndOrder]

\* Steps that may raise, beside those that are given a malformed input.
MayRaise == {"book", "link", "ensure", "sync", "fetch", "build", "lint", "emit", "preview"}

\* Mutant of Isolated: the guard emits without a try block of its own.
IsolatedAtStart == {<<"start", "ensure">>, <<"start", "sync">>}

\* Steps in a try block of their own.
Isolated == {<<"start", "ensure">>, <<"start", "sync">>, <<"shell", "emit">>}

\* Mutant of Handler: the exception ends the script.
HandlerEnds == "end"

\* Where a script goes on after an exception.
Handler == "answer"

\* Mutant of HooksDisabled: the file is not looked for.
HooksDisabledByVariable == env.disable

\* hooks_disabled, hook_enabled
HooksDisabled == env.disable \/ switch
HookEnabled(k) == ~HooksDisabled /\ (env.masked => k \in env.mask)

\* What a hook prints when it has nothing to say, and when it is disabled.
Benign(k) ==
    IF k = "shell" THEN "allow" ELSE IF k = "prompt" THEN "continue" ELSE "empty"

Kind(h) == event[h].kind
Running(h) == pc[h] \notin {"idle", "end", "killed"}
At(h, s) == pc[h] = s
Goto(h, s) == pc' = [pc EXCEPT ![h] = s]
Following(h) == After[Kind(h)][pc[h]]
Says(h, a) == answers' = [answers EXCEPT ![h] = Append(@, a)]
Did(h) == acts' = [acts EXCEPT ![h] = @ \cup {"effect"}]
Decided(h, d) == decision' = [decision EXCEPT ![h] = d]

Silenced(k) == env.disable \/ switch \/ (env.masked /\ k \notin env.mask)

\* The ghosts note what each hook could have seen.
Watch ==
    LET Guarding(h) == Kind(h) = "shell" /\ Running(h) /\ decision[h] = "none" IN
    /\ enabled'  = [h \in Hooks |-> enabled[h] \/ (At(h, "gate") /\ ~Silenced(Kind(h)))']
    /\ sawCi'    = [h \in Hooks |-> IF Guarding(h)' THEN sawCi[h] \cup {ci'} ELSE sawCi[h]]
    /\ sawClaim' = [h \in Hooks |-> IF Guarding(h)' THEN sawClaim[h] \cup {claim'} ELSE sawClaim[h]]
-----------------------------------------------------------------------------
Init ==
    /\ env \in Environments
    /\ switch \in BOOLEAN /\ flagged \in BOOLEAN /\ ci \in BOOLEAN /\ claim \in BOOLEAN
    /\ log = {} /\ changes = 0
    /\ pc = [h \in Hooks |-> "idle"]
    /\ event \in {e \in [Hooks -> UNION {EventsOf[h] : h \in Hooks}] : \A h \in Hooks : e[h] \in EventsOf[h]}
    /\ decision = [h \in Hooks |-> "none"]
    /\ answers = [h \in Hooks |-> <<>>]
    /\ acts = [h \in Hooks |-> {}]
    /\ enabled = [h \in Hooks |-> FALSE]
    /\ sawCi = [h \in Hooks |-> {}] /\ sawClaim = [h \in Hooks |-> {}]
    /\ failed = [h \in Hooks |-> {}]

\* Cursor starts a hook.
Fire(h) ==
    /\ At(h, "idle")
    /\ Goto(h, "gate")
    /\ UNCHANGED <<files, event, decision, answers, acts, failed>>

\* The gate: a disabled hook prints its benign answer and returns.
Gate(h) ==
    /\ At(h, "gate")
    /\ IF HookEnabled(Kind(h))
       THEN Goto(h, Following(h)) /\ UNCHANGED answers
       ELSE Goto(h, "end") /\ Says(h, Benign(Kind(h)))
    /\ UNCHANGED <<files, event, decision, acts, failed>>

\* The first step of a script that is given a malformed input, or any step
\* that may raise: an isolated step is skipped; otherwise the shell guard
\* allows and ends, and the others go on to their answer.
Raise(h) ==
    /\ \/ pc[h] \in MayRaise
       \/ At(h, "hard") /\ "malformed" \in event[h].cmd
    /\ \/ /\ <<Kind(h), pc[h]>> \in Isolated
          /\ Goto(h, Following(h)) /\ UNCHANGED answers
       \/ /\ <<Kind(h), pc[h]>> \notin Isolated
          /\ IF Kind(h) = "shell" THEN Goto(h, "end") /\ Says(h, "allow")
             ELSE Goto(h, Handler) /\ UNCHANGED answers
    /\ UNCHANGED <<files, event, decision, acts, failed>>

\* A step whose effects are modelled elsewhere.
Work(h) ==
    /\ pc[h] \in {"link", "sync", "fetch", "lint", "emit", "preview"}
    /\ Did(h)
    /\ Goto(h, Following(h))
    /\ UNCHANGED <<files, event, decision, answers, failed>>

\* session-start writes the session file anew ...
InitSession(h) ==
    /\ At(h, "init")
    /\ ci' = IF event[h].conversation THEN FALSE ELSE ci
    /\ Did(h)
    /\ Goto(h, Following(h))
    /\ UNCHANGED <<switch, flagged, claim, log, changes, event, decision, answers, failed>>

\* ... and so does the first prompt.
Bookkeeping(h) ==
    LET first == event[h].conversation /\ ~flagged IN
    /\ At(h, "book")
    /\ flagged' = (flagged \/ first)
    /\ ci' = IF first THEN FALSE ELSE ci
    /\ acts' = [acts EXCEPT ![h] = @ \cup IF first THEN {"effect", "first"} ELSE {"effect"}]
    /\ Goto(h, Following(h))
    /\ UNCHANGED <<switch, claim, log, changes, event, decision, answers, failed>>

\* Local sessions look for the daemon when they start, or at their first
\* prompt; the others go on to their patterns.
Ensure(h) ==
    /\ At(h, "ensure")
    /\ IF event[h].background \/ (Kind(h) = "prompt" /\ "first" \notin acts[h])
       THEN Goto(h, "fetch") /\ UNCHANGED acts
       ELSE Goto(h, Following(h)) /\ Did(h)
    /\ UNCHANGED <<files, event, decision, answers, failed>>

\* build_session_context always yields a block, build_refresh_context one
\* only if there are patterns.
Build(h) ==
    /\ At(h, "build")
    /\ \E block \in IF Kind(h) = "tool" THEN {"block", "none"} ELSE {"block"} : Decided(h, block)
    /\ Goto(h, Following(h))
    /\ UNCHANGED <<files, event, answers, acts, failed>>

\* log_event never raises; a row that cannot be written is dropped.
LogEvent(h) ==
    /\ At(h, "log")
    /\ \/ log' = log \cup {[hook |-> h, decision |-> decision[h]]} /\ UNCHANGED failed
       \/ failed' = [failed EXCEPT ![h] = @ \cup {"log"}] /\ UNCHANGED log
    /\ Did(h)
    /\ Goto(h, Following(h))
    /\ UNCHANGED <<switch, flagged, ci, claim, changes, event, decision, answers>>
-----------------------------------------------------------------------------
\* guard_command, tier by tier.  A tier that decides ends the search.
Decide(h, d) == Decided(h, d) /\ Goto(h, After["shell"]["soft"])
Pass(h) == Goto(h, Following(h)) /\ UNCHANGED decision

Hard(h) ==
    /\ At(h, "hard")
    /\ "malformed" \notin event[h].cmd
    /\ IF "empty" \in event[h].cmd THEN Decide(h, "allow")
       ELSE IF "hard" \in event[h].cmd THEN Decide(h, "deny")
       ELSE Pass(h)
    /\ UNCHANGED <<files, event, answers, acts, failed>>

\* A tier that is on for this conversation and matches the command.
Applies(h, tier, mark) ==
    event[h].conversation /\ tier \in env.tiers /\ mark \in event[h].cmd

\* A session file that cannot be read counts as one without ci_passing.
Dod(h) ==
    /\ At(h, "dod")
    /\ IF Applies(h, "dod", "done")
       THEN \/ (IF ci THEN Pass(h) ELSE Decide(h, "deny")) /\ UNCHANGED failed
            \/ Decide(h, "deny") /\ failed' = [failed EXCEPT ![h] = @ \cup {"state"}]
       ELSE Pass(h) /\ UNCHANGED failed
    /\ UNCHANGED <<files, event, answers, acts>>

\* Each expression that matches asks for the same file: one look stands for all.
Claims(h) ==
    /\ At(h, "claims")
    /\ IF Applies(h, "dispatch", "dispatch") /\ ~claim THEN Decide(h, "deny") ELSE Pass(h)
    /\ UNCHANGED <<files, event, answers, acts, failed>>

Soft(h) ==
    /\ At(h, "soft")
    /\ Decide(h, IF "soft" \in event[h].cmd THEN "warn" ELSE "allow")
    /\ UNCHANGED <<files, event, answers, acts, failed>>

\* The answer: the permission, the block, or nothing.
Answer(h) ==
    /\ At(h, "answer")
    /\ Says(h, IF decision[h] = "none" THEN Benign(Kind(h)) ELSE decision[h])
    /\ Goto(h, Following(h))
    /\ UNCHANGED <<files, event, decision, acts, failed>>

HookStep(h) ==
    /\ \/ Gate(h) \/ Raise(h) \/ Work(h) \/ InitSession(h) \/ Bookkeeping(h) \/ Ensure(h)
       \/ Build(h) \/ LogEvent(h) \/ Hard(h) \/ Dod(h) \/ Claims(h) \/ Soft(h) \/ Answer(h)
    /\ UNCHANGED env
    /\ Watch
-----------------------------------------------------------------------------
\* Cursor ends a hook.
Kill(h) ==
    /\ Running(h)
    /\ Goto(h, "killed")
    /\ UNCHANGED <<files, event, decision, answers, acts, failed>>

\* The operator throws the switch, the agent records CI or claims a dispatch.
Change ==
    /\ changes < MaxChanges
    /\ changes' = changes + 1
    /\ \/ switch' = ~switch /\ UNCHANGED <<ci, claim>>
       \/ ci' = ~ci /\ UNCHANGED <<switch, claim>>
       \/ claim' = ~claim /\ UNCHANGED <<switch, ci>>
    /\ UNCHANGED <<flagged, log, local>>

Outside == (Change \/ \E h \in Hooks : Fire(h) \/ Kill(h)) /\ UNCHANGED env /\ Watch

Next == Outside \/ \E h \in Hooks : HookStep(h)

Spec == Init /\ [][Next]_vars /\ \A h \in Hooks : WF_vars(HookStep(h))
-----------------------------------------------------------------------------
Steps == {"idle", "gate", "init", "book", "link", "ensure", "sync", "fetch", "build", "lint",
          "hard", "dod", "claims", "soft", "log", "answer", "emit", "preview", "end", "killed"}

\* Steps that each script has.
StepsOf(k) == {"idle", "gate", "end", "killed"} \cup {s \in Steps : s \in DOMAIN After[k]}

Decisions == {"none", "allow", "warn", "deny", "block"}

Said == (Decisions \ {"none"}) \cup {"continue", "empty"}

\* The type invariant.  A hook is at a step of its own script.
TypeOK ==
    /\ env \in Environments
    /\ switch \in BOOLEAN /\ flagged \in BOOLEAN /\ ci \in BOOLEAN /\ claim \in BOOLEAN
    /\ log \subseteq [hook : Hooks, decision : Decisions]
    /\ changes \in 0..MaxChanges
    /\ event \in [Hooks -> Events]
    /\ pc \in [Hooks -> Steps] /\ \A h \in Hooks : pc[h] \in StepsOf(Kind(h))
    /\ decision \in [Hooks -> Decisions]
    /\ acts \in [Hooks -> SUBSET {"effect", "first"}]
    /\ enabled \in [Hooks -> BOOLEAN]
    /\ sawCi \in [Hooks -> SUBSET BOOLEAN] /\ sawClaim \in [Hooks -> SUBSET BOOLEAN]
    /\ failed \in [Hooks -> SUBSET {"log", "state"}]
    /\ answers \in [Hooks -> Seq(Said)]

\* What a hook has printed is what it had decided, once: whatever raises
\* afterwards, a denial is not followed by a permission and a block is not
\* lost (shell-guard.py:125-147, session-start.py:151-153,
\* post-tool-use.py:97-100).
DecisionStands ==
    \A h \in Hooks :
        answers[h] \in {<<>>, <<IF decision[h] = "none" THEN Benign(Kind(h)) ELSE decision[h]>>}

\* What the tiers forbid, given the session file and the claim.
Forbidden(e, ciPassing, claimed) ==
    \/ "hard" \in e.cmd
    \/ e.conversation /\ "dod" \in env.tiers /\ "done" \in e.cmd /\ ~ciPassing
    \/ e.conversation /\ "dispatch" \in env.tiers /\ "dispatch" \in e.cmd /\ ~claimed

\* A verdict of the guard is right for values that the two files have had
\* between the start of the hook and its decision, each at some moment: a denial is never due to a
\* state that was gone before, and a permission never to one yet to come.
\* (shell_guard.py:89-160, against session-start and prompts that reset
\* ci_passing)
GuardJustified ==
    \A h \in Hooks :
        Kind(h) = "shell" /\ decision[h] # "none" =>
            \E c \in sawCi[h], l \in sawClaim[h] :
                LET ciPassing == c /\ "state" \notin failed[h] IN
                IF "empty" \in event[h].cmd THEN decision[h] = "allow"
                ELSE decision[h] = "deny" <=> Forbidden(event[h], ciPassing, l)

\* A denial that has reached Cursor is in the log, unless the row could not
\* be written: the guard logs before it answers (shell-guard.py:107-129).
DenialsAudited ==
    \A h \in Hooks :
        answers[h] = <<"deny">> /\ "log" \notin failed[h] =>
            [hook |-> h, decision |-> "deny"] \in log

\* A hook has a side effect only if at some moment between its start and its gate neither
\* the switch nor the mask was against it (_common.py:94-129).
DisabledDoesNothing ==
    \A h \in Hooks : acts[h] # {} \/ decision[h] # "none" => enabled[h]

\* "Never blocks Cursor": a hook that is started answers or is killed,
\* whatever raises (session-start.py:20, user-prompt-submit.py:25-26).
EveryHookAnswers ==
    \A h \in Hooks : At(h, "gate") ~> (Len(answers[h]) > 0 \/ At(h, "killed"))
=============================================================================
