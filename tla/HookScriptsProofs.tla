-------------------------- MODULE HookScriptsProofs --------------------------
(***************************************************************************)
(* Proofs about HookScripts, for any hooks, events and environments, with  *)
(* kills, failing writes and exceptions at any step that may raise: what a *)
(* hook has printed is what it had decided, and a denial that has reached  *)
(* Cursor is in the log.                                                   *)
(***************************************************************************)
EXTENDS HookScripts, TLAPS

Silent(h) == answers[h] = <<>>
Told(h) == answers[h] = <<IF decision[h] = "none" THEN Benign(Kind(h)) ELSE decision[h]>>
Audited(h) == "log" \in failed[h] \/ [hook |-> h, decision |-> "deny"] \in log

\* The steps of a script, and those after which a hook has told its answer.
Places(k) == {"idle", "end", "killed"} \cup DOMAIN After[k]
Past(k) == IF k = "shell" THEN {"emit", "end"} ELSE {"end"}

\* A hook tells its answer at its last steps and not before; the guard has
\* a decision from the row on, and the others never a denial.
HookOK(h) ==
    /\ pc[h] \in Places(Kind(h))
    /\ pc[h] \in Past(Kind(h)) => Told(h)
    /\ pc[h] = "killed" => Silent(h) \/ Told(h)
    /\ pc[h] \notin Past(Kind(h)) \cup {"killed"} => Silent(h)
    /\ pc[h] \in {"idle", "gate", "hard", "dod", "claims", "soft"} => decision[h] = "none"
    /\ Kind(h) = "shell" /\ pc[h] \in {"answer", "emit"} /\ decision[h] = "deny" => Audited(h)
    /\ Kind(h) # "shell" => decision[h] # "deny"
    /\ answers[h] = <<"deny">> => Audited(h)

Types ==
    /\ event \in [Hooks -> Events]
    /\ pc = [h \in Hooks |-> pc[h]]
    /\ decision = [h \in Hooks |-> decision[h]]
    /\ answers = [h \in Hooks |-> answers[h]]
    /\ failed = [h \in Hooks |-> failed[h]]

IInv == Types /\ \A h \in Hooks : HookOK(h)
-----------------------------------------------------------------------------
(***************************************************************************)
(* The order of the steps: the guard goes through its tiers to the row,    *)
(* the answer and the event, and the other scripts end with the answer.    *)
(***************************************************************************)
LEMMA ShellLemma ==
    /\ After["shell"] = ShellOrder
    /\ DOMAIN After["shell"] = {"gate", "hard", "dod", "claims", "soft", "log", "answer", "emit"}
  BY DEF After, ShellOrder

LEMMA OthersLemma ==
    ASSUME NEW k \in Kinds, k # "shell", NEW s \in DOMAIN After[k]
    PROVE  /\ After[k][s] \in Places(k) \ {"idle", "gate", "killed"}
           /\ After[k][s] = "end" <=> s = "answer"
           /\ "answer" \in DOMAIN After[k]
           /\ s \notin {"hard", "dod", "claims", "soft", "idle", "end", "killed"}
<1>1. CASE k = "start"
  BY <1>1 DEF After, SessionStartOrder, Places
<1>2. CASE k = "prompt"
  BY <1>2 DEF After, PromptOrder, Places
<1>3. CASE k = "edit"
  BY <1>3 DEF After, EditOrder, Places
<1>4. CASE k = "tool"
  BY <1>4 DEF After, ToolOrder, Places
<1>5. CASE k = "end"
  BY <1>5 DEF After, SessionEndOrder, Places
<1> QED
  BY <1>1, <1>2, <1>3, <1>4, <1>5 DEF Kinds
-----------------------------------------------------------------------------
(***************************************************************************)
(* The steps, for the hook that takes them.                                *)
(***************************************************************************)
LEMMA KindLemma == ASSUME Types, NEW h \in Hooks PROVE Kind(h) \in Kinds
  BY DEF Types, Events, Kind

\* A hook that goes on without an answer.
LEMMA QuietLemma ==
    ASSUME Types, NEW h \in Hooks, HookOK(h),
           event' = event, answers' = answers, log \subseteq log', failed[h] \subseteq failed'[h],
           pc[h] \notin Past(Kind(h)) \cup {"killed"},
           pc'[h] \in Places(Kind(h)) \ (Past(Kind(h)) \cup {"killed"}),
           pc'[h] \in {"idle", "gate", "hard", "dod", "claims", "soft"} => decision'[h] = "none",
           Kind(h) = "shell" /\ pc'[h] = "answer" /\ decision'[h] = "deny" => Audited(h)',
           Kind(h) # "shell" => decision'[h] # "deny"
    PROVE  HookOK(h)'
<1>1. Kind(h)' = Kind(h)
  BY DEF Kind
<1>2. Silent(h) /\ Silent(h)'
  BY DEF HookOK, Silent
<1>3. answers'[h] # <<"deny">>
  BY <1>2 DEF Silent
<1>4. pc'[h] # "emit" \/ Kind(h) # "shell"
  BY DEF Past
<1> QED
  BY <1>1, <1>2, <1>3, <1>4 DEF HookOK, Places, Past

\* A hook that gives its answer.
LEMMA TellLemma ==
    ASSUME Types, NEW h \in Hooks, HookOK(h), NEW a,
           event' = event, log' = log, failed' = failed, decision' = decision, Says(h, a),
           a = IF decision[h] = "none" THEN Benign(Kind(h)) ELSE decision[h],
           pc[h] \notin Past(Kind(h)) \cup {"killed"},
           pc'[h] \in Places(Kind(h)), pc'[h] \in Past(Kind(h)),
           Kind(h) = "shell" /\ decision[h] = "deny" => Audited(h)
    PROVE  HookOK(h)'
<1>1. Kind(h)' = Kind(h) /\ (Audited(h)' <=> Audited(h))
  BY DEF Kind, Audited
<1>2. answers'[h] = <<a>>
  <2>1. answers[h] = <<>>
    BY DEF HookOK, Silent
  <2>2. answers'[h] = Append(answers[h], a)
    BY DEF Types, Says
  <2> QED
    BY <2>1, <2>2
<1>3. Told(h)'
  BY <1>1, <1>2 DEF Told, Benign
<1>4. a = "deny" => Audited(h)
  BY DEF Benign, HookOK
<1>5. <<a>> = <<"deny">> => a = "deny"
  BY DEF Benign
<1>6. pc'[h] \notin {"killed", "idle", "gate", "hard", "dod", "claims", "soft", "answer"}
  BY DEF Past
<1> QED
  BY <1>1, <1>2, <1>3, <1>4, <1>5, <1>6 DEF HookOK, Places, Past

LEMMA GateLemma ==
    ASSUME Types, NEW h \in Hooks, HookOK(h), Gate(h)
    PROVE  HookOK(h)'
<1> USE DEF Gate, files, At
<1>1. Kind(h) \in Kinds /\ "gate" \notin Past(Kind(h)) \cup {"killed"} /\ decision[h] = "none"
  BY KindLemma DEF Past, HookOK
<1>2. CASE HookEnabled(Kind(h))
  <2>1. pc'[h] = After[Kind(h)]["gate"] /\ answers' = answers
    BY <1>2 DEF Goto, Following, Types
  <2>2. pc'[h] \in Places(Kind(h)) \ (Past(Kind(h)) \cup {"killed"}) /\ ~(Kind(h) = "shell" /\ pc'[h] = "answer")
    <3>1. CASE Kind(h) = "shell"
      BY <2>1, <3>1, ShellLemma DEF ShellOrder, Places, Past
    <3>2. CASE Kind(h) # "shell"
      <4>1. "gate" \in DOMAIN After[Kind(h)]
        BY DEF HookOK, Places
      <4> QED
        BY <2>1, <3>2, <1>1, <4>1, OthersLemma DEF Places, Past
    <3> QED
      BY <3>1, <3>2
  <2> QED
    BY <1>1, <2>1, <2>2, QuietLemma
<1>3. CASE ~HookEnabled(Kind(h))
  <2>1. pc'[h] = "end" /\ Says(h, Benign(Kind(h)))
    BY <1>3 DEF Goto, Types
  <2> QED
    BY <1>1, <2>1, TellLemma DEF Places, Past
<1> QED
  BY <1>2, <1>3

\* Where a step may lie, by the kind of the script.
LEMMA PlaceLemma ==
    ASSUME Types, NEW h \in Hooks, HookOK(h)
    PROVE  /\ Kind(h) \in Kinds
           /\ pc[h] \notin {"idle", "end", "killed"} => pc[h] \in DOMAIN After[Kind(h)]
           /\ Kind(h) = "shell" => pc[h] \notin {"init", "book", "link", "ensure", "sync", "fetch", "build", "lint", "preview"}
           /\ Kind(h) # "shell" => pc[h] \notin {"hard", "dod", "claims", "soft"}
           /\ pc[h] = "ensure" => "fetch" \in DOMAIN After[Kind(h)]
           /\ "gate" \in DOMAIN After[Kind(h)]
<1>1. Kind(h) \in Kinds
  BY KindLemma
<1>2. pc[h] \notin {"idle", "end", "killed"} => pc[h] \in DOMAIN After[Kind(h)]
  BY DEF HookOK, Places
<1>3. Kind(h) = "shell" => pc[h] \notin {"init", "book", "link", "ensure", "sync", "fetch", "build", "lint", "preview"}
  BY <1>2, ShellLemma
<1>4. Kind(h) # "shell" => pc[h] \notin {"hard", "dod", "claims", "soft"}
  BY <1>1, <1>2, OthersLemma
<1>5. pc[h] = "ensure" => "fetch" \in DOMAIN After[Kind(h)]
  BY <1>1, <1>2, <1>3 DEF Kinds, After, SessionStartOrder, PromptOrder, EditOrder, ToolOrder, SessionEndOrder
<1>6. "gate" \in DOMAIN After[Kind(h)]
  BY <1>1 DEF Kinds, After, SessionStartOrder, PromptOrder, ShellOrder, EditOrder, ToolOrder, SessionEndOrder
<1> QED
  BY <1>1, <1>2, <1>3, <1>4, <1>5, <1>6

\* A step of a script other than the guard that is not its last.
LEMMA OnwardLemma ==
    ASSUME Types, NEW h \in Hooks, HookOK(h), Kind(h) # "shell",
           pc[h] \notin {"idle", "end", "killed", "answer"},
           pc'[h] = Following(h) \/ pc'[h] = "answer" \/ (pc[h] = "ensure" /\ pc'[h] = "fetch"),
           event' = event, answers' = answers, log \subseteq log', failed[h] \subseteq failed'[h],
           decision'[h] # "deny"
    PROVE  HookOK(h)'
<1>1. Kind(h) \in Kinds /\ pc[h] \in DOMAIN After[Kind(h)] /\ (pc[h] = "ensure" => "fetch" \in DOMAIN After[Kind(h)])
  BY PlaceLemma
<1>2. pc'[h] \in Places(Kind(h)) \ {"idle", "gate", "killed", "end"}
  BY <1>1, OthersLemma DEF Following, Places
<1>3. pc'[h] \notin {"hard", "dod", "claims", "soft"}
  BY <1>1, <1>2, OthersLemma DEF Places
<1> QED
  BY <1>2, <1>3, QuietLemma DEF Past

\* After its answer the guard sends its event, or fails to, and ends.
LEMMA EndLemma ==
    ASSUME Types, NEW h \in Hooks, HookOK(h), pc[h] \in Past(Kind(h)), pc'[h] \in {"end", "killed"},
           event' = event, answers' = answers, log' = log, failed' = failed, decision' = decision
    PROVE  HookOK(h)'
<1>1. Kind(h)' = Kind(h) /\ (Audited(h)' <=> Audited(h)) /\ Told(h)'
  BY DEF Kind, Audited, Told, HookOK
<1> QED
  BY <1>1 DEF HookOK, Places, Past

LEMMA FireLemma ==
    ASSUME Types, NEW h \in Hooks, HookOK(h), Fire(h)
    PROVE  HookOK(h)'
<1>1. pc[h] = "idle" /\ pc'[h] = "gate"
  BY DEF Fire, At, Goto, Types
<1>2. decision[h] = "none" /\ "gate" \in DOMAIN After[Kind(h)]
  BY <1>1, PlaceLemma DEF HookOK
<1> QED
  BY <1>1, <1>2, QuietLemma DEF Fire, files, Places, Past

LEMMA KillLemma ==
    ASSUME Types, NEW h \in Hooks, HookOK(h), Kill(h)
    PROVE  HookOK(h)'
<1>1. pc'[h] = "killed" /\ pc[h] # "killed" /\ Kind(h)' = Kind(h) /\ (Audited(h)' <=> Audited(h))
  BY DEF Kill, Running, Goto, Types, Kind, Audited, files
<1>2. (Silent(h) \/ Told(h)) /\ (Silent(h)' <=> Silent(h)) /\ (Told(h)' <=> Told(h))
  BY <1>1 DEF HookOK, Silent, Told, Kill
<1> QED
  BY <1>1, <1>2 DEF HookOK, Places, Past, Kill

LEMMA RaiseLemma ==
    ASSUME Types, NEW h \in Hooks, HookOK(h), Raise(h)
    PROVE  HookOK(h)'
<1> USE DEF Raise, files
<1>1. CASE Kind(h) = "shell" /\ pc[h] = "emit"
  <2>1. pc'[h] = "end" /\ answers' = answers
    BY <1>1, ShellLemma DEF Isolated, Goto, Following, Types, ShellOrder
  <2> QED
    BY <1>1, <2>1, EndLemma DEF Past
<1>2. CASE Kind(h) = "shell" /\ pc[h] # "emit"
  <2>1. pc[h] = "hard"
    BY <1>2, PlaceLemma DEF MayRaise, At
  <2>2. pc'[h] = "end" /\ Says(h, "allow") /\ decision[h] = "none"
    BY <1>2, <2>1 DEF Isolated, Goto, Types, HookOK
  <2> QED
    BY <1>2, <2>1, <2>2, TellLemma DEF Past, Places, Benign
<1>3. CASE Kind(h) # "shell"
  <2>1. pc[h] \notin {"idle", "end", "killed", "answer", "hard"}
    BY <1>3, PlaceLemma DEF MayRaise, At
  <2>2. (pc'[h] = Following(h) \/ pc'[h] = "answer") /\ answers' = answers
    BY <1>3 DEF Goto, Types, Handler
  <2>3. decision[h] # "deny"
    BY <1>3 DEF HookOK
  <2> QED
    BY <1>3, <2>1, <2>2, <2>3, OnwardLemma
<1> QED
  BY <1>1, <1>2, <1>3

\* The steps of the scripts other than the guard.
LEMMA WorkLemma ==
    ASSUME Types, NEW h \in Hooks, HookOK(h),
           Work(h) \/ InitSession(h) \/ Bookkeeping(h) \/ Ensure(h) \/ Build(h)
    PROVE  HookOK(h)'
<1>1. pc[h] \in {"link", "sync", "fetch", "lint", "emit", "preview", "init", "book", "ensure", "build"}
  BY DEF Work, InitSession, Bookkeeping, Ensure, Build, At
<1>2. pc'[h] = Following(h) \/ (pc[h] = "ensure" /\ pc'[h] = "fetch")
  BY DEF Work, InitSession, Bookkeeping, Ensure, Build, Goto, At, Types
<1>3. event' = event /\ answers' = answers /\ log' = log /\ failed' = failed
  BY DEF Work, InitSession, Bookkeeping, Ensure, Build, files
<1>4. decision' = decision \/ (Build(h) /\ decision'[h] \in {"block", "none"})
  BY DEF Work, InitSession, Bookkeeping, Ensure, Build, Decided, Types
<1>5. CASE Kind(h) = "shell"
  <2>1. pc[h] = "emit" /\ pc'[h] = "end" /\ decision' = decision
    BY <1>1, <1>2, <1>4, <1>5, PlaceLemma, ShellLemma DEF Following, ShellOrder, Build, At
  <2> QED
    BY <1>3, <1>5, <2>1, EndLemma DEF Past
<1>6. CASE Kind(h) # "shell"
  <2>1. decision'[h] # "deny"
    BY <1>4, <1>6 DEF HookOK
  <2> QED
    BY <1>1, <1>2, <1>3, <1>6, <2>1, OnwardLemma
<1> QED
  BY <1>5, <1>6

LEMMA LogLemma ==
    ASSUME Types, NEW h \in Hooks, HookOK(h), LogEvent(h)
    PROVE  HookOK(h)'
<1> USE DEF LogEvent, At
<1>1. pc'[h] = Following(h) /\ log \subseteq log' /\ failed[h] \subseteq failed'[h]
  BY DEF Goto, Types
<1>2. decision[h] = "deny" => Audited(h)'
  BY DEF Audited, Types
<1>3. CASE Kind(h) = "shell"
  <2>1. pc'[h] = "answer"
    BY <1>1, <1>3, ShellLemma DEF Following, ShellOrder
  <2> QED
    BY <1>1, <1>2, <1>3, <2>1, QuietLemma, ShellLemma DEF Places, Past
<1>4. CASE Kind(h) # "shell"
  BY <1>1, <1>4, OnwardLemma DEF HookOK
<1> QED
  BY <1>3, <1>4

\* The tiers: to the next one undecided, or to the row with a decision.
LEMMA TierLemma ==
    ASSUME Types, NEW h \in Hooks, HookOK(h), Hard(h) \/ Dod(h) \/ Claims(h) \/ Soft(h)
    PROVE  HookOK(h)'
<1>1. pc[h] \in {"hard", "dod", "claims", "soft"} /\ Kind(h) = "shell"
  BY PlaceLemma DEF Hard, Dod, Claims, Soft, At
<1>2. event' = event /\ answers' = answers /\ log' = log /\ failed[h] \subseteq failed'[h]
  BY DEF Hard, Dod, Claims, Soft, files, Types
<1>3. \/ pc'[h] = "log"
      \/ decision' = decision /\ pc'[h] \in {"dod", "claims", "soft"}
  <2>1. ASSUME NEW d, Decide(h, d) PROVE pc'[h] = "log"
    BY <2>1, ShellLemma DEF Decide, Goto, Types, ShellOrder
  <2>2. ASSUME Pass(h), pc[h] # "soft" PROVE decision' = decision /\ pc'[h] \in {"dod", "claims", "soft"}
    BY <1>1, <2>2, ShellLemma DEF Pass, Goto, Following, Types, ShellOrder
  <2>3. CASE Hard(h)
    BY <2>1, <2>2, <2>3 DEF Hard, At
  <2>4. CASE Dod(h)
    BY <2>1, <2>2, <2>4 DEF Dod, At
  <2>5. CASE Claims(h)
    BY <2>1, <2>2, <2>5 DEF Claims, At
  <2>6. CASE Soft(h)
    BY <2>1, <2>6 DEF Soft
  <2> QED
    BY <2>3, <2>4, <2>5, <2>6
<1>4. decision[h] = "none"
  BY <1>1 DEF HookOK
<1> QED
  BY <1>1, <1>2, <1>3, <1>4, QuietLemma, ShellLemma DEF Places, Past

LEMMA AnswerLemma ==
    ASSUME Types, NEW h \in Hooks, HookOK(h), Answer(h)
    PROVE  HookOK(h)'
<1> USE DEF Answer, At, files
<1>1. pc[h] = "answer" /\ pc'[h] = Following(h) /\ Kind(h) \in Kinds
  BY PlaceLemma DEF Goto, Types
<1>2. pc'[h] \in Places(Kind(h)) \cap Past(Kind(h))
  <2>1. CASE Kind(h) = "shell"
    BY <1>1, <2>1, ShellLemma DEF Following, ShellOrder, Places, Past
  <2>2. CASE Kind(h) # "shell"
    BY <1>1, <2>2, PlaceLemma, OthersLemma DEF Following, Places, Past
  <2> QED
    BY <2>1, <2>2
<1>3. Kind(h) = "shell" /\ decision[h] = "deny" => Audited(h)
  BY <1>1 DEF HookOK
<1> QED
  BY <1>1, <1>2, <1>3, TellLemma DEF Past

\* The other hooks: the log only grows.
LEMMA FrameLemma ==
    ASSUME Types, NEW g \in Hooks, HookOK(g), event' = event, log \subseteq log',
           pc'[g] = pc[g], decision'[g] = decision[g], answers'[g] = answers[g], failed'[g] = failed[g]
    PROVE  HookOK(g)'
<1>1. Kind(g)' = Kind(g) /\ (Audited(g) => Audited(g)') /\ (Told(g)' <=> Told(g)) /\ (Silent(g)' <=> Silent(g))
  BY DEF Kind, Audited, Told, Silent, Benign
<1> QED
  BY <1>1 DEF HookOK, Places, Past
-----------------------------------------------------------------------------
LEMMA InitLemma == Init => IInv
<1> SUFFICES ASSUME Init PROVE IInv
  OBVIOUS
<1>1. Types
  BY EventsAssumption DEF Init, Types
<1>2. ASSUME NEW h \in Hooks PROVE HookOK(h)
  BY DEF Init, HookOK, Silent, Places, Past
<1> QED
  BY <1>1, <1>2 DEF IInv

\* A step of one hook changes the local state of no other.
LEMMA LocalLemma ==
    ASSUME Types, NEW h \in Hooks, HookStep(h) \/ Fire(h) \/ Kill(h)
    PROVE  /\ Types'
           /\ event' = event /\ log \subseteq log'
           /\ \A g \in Hooks \ {h} : /\ pc'[g] = pc[g] /\ decision'[g] = decision[g]
                                     /\ answers'[g] = answers[g] /\ failed'[g] = failed[g]
<1> DEFINE Kept(f, new) == new = [x \in Hooks |-> new[x]] /\ \A g \in Hooks \ {h} : new[g] = f[g]
<1> DEFINE Only == /\ event' = event /\ log \subseteq log'
                   /\ Kept(pc, pc') /\ Kept(decision, decision') /\ Kept(answers, answers') /\ Kept(failed, failed')
<1> USE DEF files, Goto, Says, Decided, Types
<1>1. CASE Gate(h) \/ Raise(h)
  BY <1>1 DEF Gate, Raise
<1>2. CASE Work(h) \/ InitSession(h) \/ Bookkeeping(h) \/ Ensure(h)
  BY <1>2 DEF Work, InitSession, Bookkeeping, Ensure
<1>3. CASE Build(h) \/ LogEvent(h) \/ Answer(h)
  BY <1>3 DEF Build, LogEvent, Answer
<1>4. CASE Hard(h) \/ Dod(h) \/ Claims(h) \/ Soft(h)
  BY <1>4 DEF Hard, Dod, Claims, Soft, Decide, Pass
<1>5. CASE Fire(h) \/ Kill(h)
  BY <1>5 DEF Fire, Kill
<1>6. Only
  BY <1>1, <1>2, <1>3, <1>4, <1>5 DEF HookStep
<1> QED
  BY <1>6

LEMMA NextLemma == IInv /\ [Next]_vars => IInv'
<1> SUFFICES ASSUME IInv, [Next]_vars PROVE IInv'
  OBVIOUS
<1>0. Types /\ \A g \in Hooks : HookOK(g)
  BY DEF IInv
<1>1. ASSUME NEW h \in Hooks, HookStep(h) \/ Fire(h) \/ Kill(h) PROVE IInv'
  <2>1. HookOK(h)'
    BY <1>0, <1>1, GateLemma, RaiseLemma, WorkLemma, LogLemma, TierLemma, AnswerLemma, FireLemma, KillLemma DEF HookStep
  <2>2. ASSUME NEW g \in Hooks \ {h} PROVE HookOK(g)'
    BY <1>0, <1>1, LocalLemma, FrameLemma
  <2> QED
    BY <1>0, <1>1, <2>1, <2>2, LocalLemma DEF IInv
<1>2. CASE Change \/ UNCHANGED vars
  <2>1. UNCHANGED <<log, local>>
    BY <1>2 DEF Change, vars, files, local
  <2>2. ASSUME NEW g \in Hooks PROVE HookOK(g)'
    BY <1>0, <2>1, FrameLemma DEF local
  <2> QED
    BY <1>0, <2>1, <2>2 DEF IInv, Types, local
<1> QED
  BY <1>1, <1>2 DEF Next, Outside

\* What a hook has printed is what it had decided, once, whatever raises later.
THEOREM AnswersTheorem == Spec => []DecisionStands
<1>1. IInv => DecisionStands
  BY DEF IInv, HookOK, DecisionStands, Silent, Told, Past
<1> QED
  BY <1>1, InitLemma, NextLemma, PTL DEF Spec

\* A denial that has been printed is in the log, unless its row could not be
\* written (shell-guard.py:107-147).
THEOREM AuditTheorem == Spec => []DenialsAudited
<1>1. IInv => DenialsAudited
  BY DEF IInv, HookOK, DenialsAudited, Audited
<1> QED
  BY <1>1, InitLemma, NextLemma, PTL DEF Spec
-----------------------------------------------------------------------------
(***************************************************************************)
(* Types.  Where a hook is follows from IInv; this is about the rest.      *)
(***************************************************************************)
World ==
    /\ env \in Environments
    /\ switch \in BOOLEAN /\ flagged \in BOOLEAN /\ ci \in BOOLEAN /\ claim \in BOOLEAN
    /\ changes \in 0..MaxChanges

Values ==
    /\ log \subseteq [hook : Hooks, decision : Decisions]
    /\ decision \in [Hooks -> Decisions]
    /\ acts \in [Hooks -> SUBSET {"effect", "first"}]
    /\ failed \in [Hooks -> SUBSET {"log", "state"}]
    /\ answers \in [Hooks -> Seq(Said)]

Ghosts ==
    /\ enabled \in [Hooks -> BOOLEAN]
    /\ sawCi \in [Hooks -> SUBSET BOOLEAN] /\ sawClaim \in [Hooks -> SUBSET BOOLEAN]

TInv == IInv /\ World /\ Values /\ Ghosts

LEMMA PlacesLemma == \A k \in Kinds : Places(k) \subseteq StepsOf(k) /\ Places(k) \subseteq Steps
<1> SUFFICES ASSUME NEW k \in Kinds PROVE DOMAIN After[k] \subseteq Steps
  BY DEF Places, StepsOf, Steps
<1> QED
  BY DEF Kinds, After, SessionStartOrder, PromptOrder, ShellOrder, EditOrder, ToolOrder,
         SessionEndOrder, Steps

LEMMA TInvTyped == TInv => TypeOK
<1> SUFFICES ASSUME TInv PROVE TypeOK
  OBVIOUS
<1>1. event \in [Hooks -> Events] /\ pc = [h \in Hooks |-> pc[h]]
  BY DEF TInv, IInv, Types
<1>2. ASSUME NEW h \in Hooks PROVE pc[h] \in StepsOf(Kind(h)) /\ pc[h] \in Steps
  <2>1. Kind(h) \in Kinds /\ pc[h] \in Places(Kind(h))
    BY KindLemma DEF TInv, IInv, HookOK
  <2> QED
    BY <2>1, PlacesLemma
<1> QED
  BY <1>1, <1>2 DEF TInv, World, Values, Ghosts, TypeOK

LEMMA InitTyped == Init => TInv
<1> SUFFICES ASSUME Init PROVE World /\ Values /\ Ghosts
  BY InitLemma DEF TInv
<1>1. World
  BY MaxChangesAssumption DEF Init, World
<1>2. Values
  BY DEF Init, Values, Decisions
<1> QED
  BY <1>1, <1>2 DEF Init, Ghosts

\* The ghosts see what the files hold.
LEMMA WatchTyped == ASSUME Ghosts, World', Watch PROVE Ghosts'
<1>1. enabled' \in [Hooks -> BOOLEAN]
  <2>1. enabled' = [h \in Hooks |-> enabled'[h]]
    BY DEF Watch
  <2>2. ASSUME NEW h \in Hooks PROVE enabled'[h] \in BOOLEAN
    BY DEF Watch
  <2> QED
    BY <2>1, <2>2
<1>2. sawCi' \in [Hooks -> SUBSET BOOLEAN]
  BY DEF Watch, Ghosts, World
<1>3. sawClaim' \in [Hooks -> SUBSET BOOLEAN]
  BY DEF Watch, Ghosts, World
<1> QED
  BY <1>1, <1>2, <1>3 DEF Ghosts

\* What a step of one hook may do to the files and to what the hook holds.
LEMMA StepFrame ==
    ASSUME TInv, NEW h \in Hooks, HookStep(h) \/ Fire(h) \/ Kill(h)
    PROVE  /\ UNCHANGED <<switch, claim, changes>>
           /\ flagged' \in BOOLEAN /\ ci' \in BOOLEAN
           /\ log' \subseteq log \cup {[hook |-> h, decision |-> decision[h]]}
           /\ \E d \in Decisions : decision' \in {decision, [decision EXCEPT ![h] = d]}
           /\ \E a \in Said : answers' \in {answers, [answers EXCEPT ![h] = Append(@, a)]}
           /\ \E e \in SUBSET {"effect", "first"} : acts' \in {acts, [acts EXCEPT ![h] = @ \cup e]}
           /\ \E f \in {"log", "state"} : failed' \in {failed, [failed EXCEPT ![h] = @ \cup {f}]}
<1>0. World /\ Values /\ \A k : Benign(k) \in Said
  BY DEF TInv, Benign, Said, Decisions
<1> USE <1>0 DEF files, World, Decisions
<1>1. CASE Gate(h) \/ Raise(h)
  BY <1>1 DEF Gate, Raise, Says, Said
<1>2. CASE Work(h) \/ InitSession(h) \/ Ensure(h)
  BY <1>2 DEF Work, InitSession, Ensure, Did, Said
<1>3. CASE Bookkeeping(h)
  <2>1. flagged' \in BOOLEAN
    BY <1>3 DEF Bookkeeping
  <2>2. ci' \in BOOLEAN
    BY <1>3 DEF Bookkeeping
  <2>3. \E e \in SUBSET {"effect", "first"} : acts' = [acts EXCEPT ![h] = @ \cup e]
    BY <1>3 DEF Bookkeeping
  <2> QED
    BY <1>3, <2>1, <2>2, <2>3 DEF Bookkeeping, Said
<1>4. CASE Build(h)
  BY <1>4 DEF Build, Decided, Said
<1>5. CASE LogEvent(h)
  BY <1>5 DEF LogEvent, Did, Said
<1>6. CASE Hard(h) \/ Dod(h) \/ Claims(h) \/ Soft(h)
  BY <1>6 DEF Hard, Dod, Claims, Soft, Decide, Decided, Pass, Said
<1>7. CASE Answer(h)
  <2>1. decision[h] \in Decisions
    BY DEF Values
  <2>2. (IF decision[h] = "none" THEN Benign(Kind(h)) ELSE decision[h]) \in Said
    BY <2>1 DEF Said
  <2> QED
    BY <1>7, <2>2 DEF Answer, Says
<1>8. CASE Fire(h) \/ Kill(h)
  BY <1>8 DEF Fire, Kill, Said
<1> QED
  BY <1>1, <1>2, <1>3, <1>4, <1>5, <1>6, <1>7, <1>8 DEF HookStep

LEMMA StepTyped ==
    ASSUME TInv, NEW h \in Hooks, HookStep(h) \/ Fire(h) \/ Kill(h), UNCHANGED env
    PROVE  World' /\ Values'
<1>0. World /\ Values
  BY DEF TInv
<1>1. World'
  BY <1>0, StepFrame DEF World
<1>2. log' \subseteq [hook : Hooks, decision : Decisions]
  <2>1. [hook |-> h, decision |-> decision[h]] \in [hook : Hooks, decision : Decisions]
    BY <1>0 DEF Values
  <2> QED
    BY <1>0, <2>1, StepFrame DEF Values
<1>3. decision' \in [Hooks -> Decisions]
  <2>1. PICK d \in Decisions : decision' \in {decision, [decision EXCEPT ![h] = d]}
    BY StepFrame
  <2> QED
    BY <1>0, <2>1 DEF Values
<1>4. answers' \in [Hooks -> Seq(Said)]
  <2>1. PICK a \in Said : answers' \in {answers, [answers EXCEPT ![h] = Append(@, a)]}
    BY StepFrame
  <2>2. Append(answers[h], a) \in Seq(Said)
    BY <1>0 DEF Values
  <2> QED
    BY <1>0, <2>1, <2>2 DEF Values
<1>5. acts' \in [Hooks -> SUBSET {"effect", "first"}]
  <2>1. PICK e \in SUBSET {"effect", "first"} : acts' \in {acts, [acts EXCEPT ![h] = @ \cup e]}
    BY StepFrame
  <2> QED
    BY <1>0, <2>1 DEF Values
<1>6. failed' \in [Hooks -> SUBSET {"log", "state"}]
  <2>1. PICK f \in {"log", "state"} : failed' \in {failed, [failed EXCEPT ![h] = @ \cup {f}]}
    BY StepFrame
  <2>2. [failed EXCEPT ![h] = @ \cup {f}] \in [Hooks -> SUBSET {"log", "state"}]
    BY <1>0 DEF Values
  <2> QED
    BY <1>0, <2>1, <2>2 DEF Values
<1> QED
  BY <1>1, <1>2, <1>3, <1>4, <1>5, <1>6 DEF Values

LEMMA NextTyped == TInv /\ [Next]_vars => TInv'
<1> SUFFICES ASSUME TInv, [Next]_vars PROVE World' /\ Values' /\ Ghosts'
  BY NextLemma DEF TInv
<1>1. ASSUME NEW h \in Hooks, HookStep(h) \/ Fire(h) \/ Kill(h), UNCHANGED env, Watch
      PROVE  World' /\ Values' /\ Ghosts'
  BY <1>1, StepTyped, WatchTyped DEF TInv
<1>2. CASE Change /\ UNCHANGED env /\ Watch
  <2>1. World'
    <3>1. changes' \in 0..MaxChanges
      <4>1. changes \in 0..MaxChanges /\ changes < MaxChanges /\ changes' = changes + 1
        BY <1>2 DEF Change, TInv, World
      <4> QED
        BY <4>1, MaxChangesAssumption
    <3>2. switch' \in BOOLEAN /\ ci' \in BOOLEAN /\ claim' \in BOOLEAN
      BY <1>2 DEF Change, TInv, World
    <3> QED
      BY <1>2, <3>1, <3>2 DEF Change, TInv, World
  <2>2. Values'
    BY <1>2 DEF Change, local, TInv, Values
  <2> QED
    BY <1>2, <2>1, <2>2, WatchTyped DEF TInv
<1>3. CASE UNCHANGED vars
  BY <1>3 DEF vars, files, local, ghosts, TInv, World, Values, Ghosts
<1>4. ASSUME NEW h \in Hooks, HookStep(h) PROVE UNCHANGED env /\ Watch
  BY <1>4 DEF HookStep
<1> QED
  BY <1>1, <1>2, <1>3, <1>4 DEF Next, Outside

\* The type invariant: among others, a hook is at a step of its own script.
THEOREM TypesTheorem == Spec => []TypeOK
  BY TInvTyped, InitTyped, NextTyped, PTL DEF Spec
-----------------------------------------------------------------------------
(***************************************************************************)
(* The switch and the mask: a hook that is past its gate, or has done      *)
(* anything, was let through by some state since its start.                *)
(***************************************************************************)
LetThrough(h) ==
    /\ acts[h] # {} \/ decision[h] # "none" \/ pc[h] \notin {"idle", "gate", "end", "killed"} => enabled[h]
    /\ At(h, "gate") /\ ~Silenced(Kind(h)) => enabled[h]

\* What Watch does to the first ghost.
LEMMA EnabledLemma ==
    ASSUME Watch, NEW h \in Hooks
    PROVE  /\ enabled[h] => enabled'[h]
           /\ pc'[h] = "gate" /\ ~Silenced(Kind(h))' => enabled'[h]
<1>1. enabled' = [g \in Hooks |-> enabled[g] \/ (At(g, "gate") /\ ~Silenced(Kind(g)))']
  BY DEF Watch
<1>2. enabled'[h] = (enabled[h] \/ (At(h, "gate") /\ ~Silenced(Kind(h)))')
  BY <1>1
<1> QED
  BY <1>2 DEF At

LEMMA ThroughStep ==
    ASSUME Types, Values, NEW h \in Hooks, LetThrough(h), HookStep(h) \/ Fire(h) \/ Kill(h), Watch
    PROVE  LetThrough(h)'
<1>1. (At(h, "gate") /\ ~Silenced(Kind(h)) => enabled[h])'
  BY EnabledLemma DEF At
<1>2. CASE Gate(h)
  <2>1. HookEnabled(Kind(h)) => ~Silenced(Kind(h))
    BY DEF HookEnabled, HooksDisabled, Silenced
  <2>2. HookEnabled(Kind(h)) => enabled'[h]
    BY <1>2, <2>1, EnabledLemma DEF Gate, LetThrough
  <2>3. ~HookEnabled(Kind(h)) => pc'[h] = "end"
    BY <1>2 DEF Gate, Goto, Types
  <2>4. acts' = acts /\ decision' = decision
    BY <1>2 DEF Gate
  <2> QED
    BY <1>1, <2>2, <2>3, <2>4, EnabledLemma DEF LetThrough
<1>3. CASE Fire(h)
  <2>1. acts' = acts /\ decision' = decision /\ pc'[h] = "gate"
    BY <1>3 DEF Fire, Goto, Types
  <2> QED
    BY <1>1, <2>1, EnabledLemma DEF LetThrough
<1>4. CASE Kill(h)
  <2>1. acts' = acts /\ decision' = decision /\ pc'[h] = "killed"
    BY <1>4 DEF Kill, Goto, Types
  <2> QED
    BY <1>1, <2>1, EnabledLemma DEF LetThrough
<1>5. CASE HookStep(h) /\ ~Gate(h)
  <2>1. pc[h] \notin {"idle", "gate", "end", "killed"}
    BY <1>5 DEF HookStep, Raise, Work, InitSession, Bookkeeping, Ensure, Build, LogEvent, Hard, Dod,
                Claims, Soft, Answer, At, MayRaise
  <2>2. enabled'[h]
    BY <2>1, EnabledLemma DEF LetThrough
  <2> QED
    BY <1>1, <2>2 DEF LetThrough
<1> QED
  BY <1>2, <1>3, <1>4, <1>5

LEMMA NextThrough ==
    TInv /\ (\A h \in Hooks : LetThrough(h)) /\ [Next]_vars => (\A h \in Hooks : LetThrough(h))'
<1> SUFFICES ASSUME TInv, \A h \in Hooks : LetThrough(h), [Next]_vars, NEW g \in Hooks
             PROVE  LetThrough(g)'
  OBVIOUS
<1>0. Types /\ Values
  BY DEF TInv, IInv
<1>1. ASSUME Watch, pc'[g] = pc[g], acts'[g] = acts[g], decision'[g] = decision[g] PROVE LetThrough(g)'
  BY <1>1, EnabledLemma DEF LetThrough, At
<1>2. ASSUME NEW h \in Hooks, HookStep(h) \/ Fire(h) \/ Kill(h), Watch PROVE LetThrough(g)'
  <2>1. CASE g = h
    BY <1>0, <1>2, <2>1, ThroughStep
  <2>2. CASE g # h
    <3>1. pc'[g] = pc[g] /\ decision'[g] = decision[g]
      BY <1>0, <1>2, <2>2, LocalLemma
    <3>2. PICK e \in SUBSET {"effect", "first"} : acts' \in {acts, [acts EXCEPT ![h] = @ \cup e]}
      BY <1>2, StepFrame
    <3>3. acts'[g] = acts[g]
      BY <1>0, <2>2, <3>2 DEF Values
    <3> QED
      BY <1>1, <1>2, <3>1, <3>3
  <2> QED
    BY <2>1, <2>2
<1>3. CASE Change /\ Watch
  BY <1>1, <1>3 DEF Change, local
<1>4. CASE UNCHANGED vars
  BY <1>4 DEF vars, files, local, ghosts, LetThrough, At, Silenced, Kind
<1>5. ASSUME NEW h \in Hooks, HookStep(h) PROVE Watch
  BY <1>5 DEF HookStep
<1> QED
  BY <1>2, <1>3, <1>4, <1>5 DEF Next, Outside

\* A hook that is switched off or masked from its start to its gate does nothing
\* (_common.py:94-129).
THEOREM DisabledTheorem == Spec => []DisabledDoesNothing
<1>1. Init => \A h \in Hooks : LetThrough(h)
  BY DEF Init, LetThrough, At
<1>2. (\A h \in Hooks : LetThrough(h)) => DisabledDoesNothing
  BY DEF LetThrough, DisabledDoesNothing
<1> QED
  BY <1>1, <1>2, InitTyped, NextTyped, NextThrough, PTL DEF Spec
-----------------------------------------------------------------------------
(***************************************************************************)
(* The guard: what each tier that it has passed has seen is what the final *)
(* verdict rests on.                                                       *)
(***************************************************************************)
Right(h, c, l) ==
    IF "empty" \in event[h].cmd THEN decision[h] = "allow"
    ELSE decision[h] = "deny" <=> Forbidden(event[h], c /\ "state" \notin failed[h], l)

Justified(h) == decision[h] # "none" => \E c \in sawCi[h], l \in sawClaim[h] : Right(h, c, l)

\* A guard that looks for a verdict sees the files as they are, and has left
\* each tier for a reason that it has seen.
GuardOK(h) ==
    /\ Running(h) /\ decision[h] = "none" => ci \in sawCi[h] /\ claim \in sawClaim[h]
    /\ pc[h] \in {"idle", "gate", "hard", "dod", "claims", "soft"} => "state" \notin failed[h]
    /\ pc[h] \in {"dod", "claims", "soft"} => {"empty", "hard"} \cap event[h].cmd = {}
    /\ pc[h] \in {"claims", "soft"} => ~Applies(h, "dod", "done") \/ TRUE \in sawCi[h]
    /\ pc[h] = "soft" => ~Applies(h, "dispatch", "dispatch") \/ TRUE \in sawClaim[h]
    /\ Justified(h)

Guards == \A h \in Hooks : Kind(h) = "shell" => GuardOK(h)

\* What Watch does to the other ghosts.
LEMMA SeenLemma ==
    ASSUME Watch, NEW h \in Hooks
    PROVE  /\ sawCi[h] \subseteq sawCi'[h] /\ sawClaim[h] \subseteq sawClaim'[h]
           /\ Kind(h)' = "shell" /\ Running(h)' /\ decision'[h] = "none" =>
                ci' \in sawCi'[h] /\ claim' \in sawClaim'[h]
<1> DEFINE G(g) == Kind(g) = "shell" /\ Running(g) /\ decision[g] = "none"
<1>1. /\ sawCi'[h] = IF G(h)' THEN sawCi[h] \cup {ci'} ELSE sawCi[h]
      /\ sawClaim'[h] = IF G(h)' THEN sawClaim[h] \cup {claim'} ELSE sawClaim[h]
  BY DEF Watch
<1>2. CASE G(h)'
  BY <1>1, <1>2
<1>3. CASE ~G(h)'
  BY <1>1, <1>3
<1> QED
  BY <1>2, <1>3

\* A step that neither decides nor passes a tier.
LEMMA GuardQuiet ==
    ASSUME NEW h \in Hooks, Kind(h) = "shell", GuardOK(h), Watch, event' = event, env' = env,
           decision'[h] = decision[h], "state" \in failed'[h] <=> "state" \in failed[h],
           \/ pc'[h] = pc[h]
           \/ pc[h] \in {"idle", "gate"} /\ pc'[h] \in {"gate", "hard"}
           \/ pc'[h] \notin {"idle", "gate", "hard", "dod", "claims", "soft"}
    PROVE  GuardOK(h)'
<1>1. Kind(h)' = "shell" /\ sawCi[h] \subseteq sawCi'[h] /\ sawClaim[h] \subseteq sawClaim'[h]
  BY SeenLemma DEF Kind
<1>2. Justified(h)'
  <2>1. ASSUME NEW c, NEW l, Right(h, c, l) PROVE Right(h, c, l)'
    BY <2>1 DEF Right, Forbidden
  <2> QED
    BY <1>1, <2>1 DEF GuardOK, Justified
<1>3. /\ Applies(h, "dod", "done")' <=> Applies(h, "dod", "done")
      /\ Applies(h, "dispatch", "dispatch")' <=> Applies(h, "dispatch", "dispatch")
  BY DEF Applies
<1> QED
  BY <1>1, <1>2, <1>3, SeenLemma DEF GuardOK

\* The tiers, for the hook that takes them.
LEMMA GuardTier ==
    ASSUME TInv, NEW h \in Hooks, Kind(h) = "shell", GuardOK(h), Watch, env' = env,
           Hard(h) \/ Dod(h) \/ Claims(h) \/ Soft(h)
    PROVE  GuardOK(h)'
<1>0. /\ Types /\ HookOK(h) /\ ci \in BOOLEAN /\ claim \in BOOLEAN
      /\ decision \in [Hooks -> Decisions] /\ failed \in [Hooks -> SUBSET {"log", "state"}]
  BY DEF TInv, IInv, World, Values
<1>1. pc[h] \in {"hard", "dod", "claims", "soft"} /\ decision[h] = "none" /\ "state" \notin failed[h]
  BY <1>0 DEF Hard, Dod, Claims, Soft, At, HookOK, GuardOK
<1>2. /\ ci \in sawCi[h] /\ claim \in sawClaim[h]
      /\ sawCi[h] \subseteq sawCi'[h] /\ sawClaim[h] \subseteq sawClaim'[h]
      /\ Kind(h)' = "shell" /\ event' = event
  BY <1>1, SeenLemma DEF GuardOK, Running, Kind, Hard, Dod, Claims, Soft
<1>3. /\ Applies(h, "dod", "done")' <=> Applies(h, "dod", "done")
      /\ Applies(h, "dispatch", "dispatch")' <=> Applies(h, "dispatch", "dispatch")
  BY <1>2 DEF Applies
<1>4. ASSUME NEW c \in BOOLEAN, NEW l \in BOOLEAN
      PROVE  Forbidden(event[h], c, l)' <=>
               \/ "hard" \in event[h].cmd
               \/ Applies(h, "dod", "done") /\ ~c
               \/ Applies(h, "dispatch", "dispatch") /\ ~l
  <2>1. event'[h] = event[h] /\ env' = env
    BY <1>2
  <2> QED
    BY <2>1 DEF Forbidden, Applies
\* What the files hold now, as values that do not change with the step.
<1>5. PICK c0 \in BOOLEAN : c0 = ci
  BY <1>0
<1>6. PICK l0 \in BOOLEAN : l0 = claim
  BY <1>0
<1>7. c0 \in sawCi[h] /\ l0 \in sawClaim[h]
  BY <1>2, <1>5, <1>6
\* A tier that is passed.
<1>8. ASSUME Pass(h), "state" \notin failed'[h],
             pc'[h] \in {"dod", "claims", "soft"},
             {"empty", "hard"} \cap event[h].cmd = {},
             pc'[h] \in {"claims", "soft"} => ~Applies(h, "dod", "done") \/ TRUE \in sawCi[h],
             pc'[h] = "soft" => ~Applies(h, "dispatch", "dispatch") \/ TRUE \in sawClaim[h]
      PROVE  GuardOK(h)'
  <2>1. decision'[h] = "none"
    BY <1>1, <1>8 DEF Pass
  <2> QED
    BY <1>2, <1>3, <1>8, <2>1, SeenLemma DEF GuardOK, Justified
\* A tier that decides, with the values it has seen.
<1>9. ASSUME NEW d \in {"allow", "warn", "deny"}, Decide(h, d),
             NEW c \in sawCi[h], NEW l \in sawClaim[h], Right(h, c, l)'
      PROVE  GuardOK(h)'
  <2>1. decision'[h] = d /\ pc'[h] = "log"
    BY <1>0, <1>9, ShellLemma DEF Decide, Decided, Goto, Types, ShellOrder
  <2>2. Justified(h)'
    BY <1>2, <1>9 DEF Justified
  <2> QED
    BY <2>1, <2>2 DEF GuardOK
<1>10. CASE Hard(h)
  <2>1. pc[h] = "hard" /\ After["shell"]["hard"] = "dod" /\ failed' = failed /\ {ci, claim} \subseteq BOOLEAN
    BY <1>0, <1>10, ShellLemma DEF Hard, At, ShellOrder
  <2>2. CASE "empty" \in event[h].cmd
    <3>1. Decide(h, "allow")
      BY <1>10, <2>2 DEF Hard
    <3>2. Right(h, c0, l0)'
      BY <1>0, <1>2, <2>2, <3>1 DEF Right, Decide, Decided
    <3> QED
      BY <1>7, <1>9, <3>1, <3>2
  <2>3. CASE "empty" \notin event[h].cmd /\ "hard" \in event[h].cmd
    <3>1. Decide(h, "deny")
      BY <1>10, <2>3 DEF Hard
    <3>2. Right(h, c0, l0)'
      BY <1>0, <1>2, <2>3, <3>1 DEF Right, Decide, Decided, Forbidden
    <3> QED
      BY <1>7, <1>9, <3>1, <3>2
  <2>4. CASE {"empty", "hard"} \cap event[h].cmd = {}
    <3>1. Pass(h) /\ pc'[h] = "dod"
      BY <1>0, <1>10, <2>1, <2>4 DEF Hard, Pass, Goto, Following, Types
    <3> QED
      BY <1>1, <1>8, <2>1, <2>4, <3>1
  <2> QED
    BY <2>2, <2>3, <2>4
<1>11. CASE Dod(h)
  <2>1. pc[h] = "dod" /\ After["shell"]["dod"] = "claims" /\ {"empty", "hard"} \cap event[h].cmd = {}
    BY <1>11, ShellLemma DEF Dod, At, ShellOrder, GuardOK
  <2>2. CASE Pass(h) /\ failed' = failed /\ (Applies(h, "dod", "done") => ci)
    <3>1. pc'[h] = "claims"
      BY <1>0, <2>1, <2>2 DEF Pass, Goto, Following, Types
    <3>2. ~Applies(h, "dod", "done") \/ TRUE \in sawCi[h]
      BY <1>0, <1>2, <2>2
    <3> QED
      BY <1>1, <1>8, <2>1, <2>2, <3>1, <3>2
  <2>3. CASE Decide(h, "deny") /\ Applies(h, "dod", "done") /\ (~ci \/ "state" \in failed'[h])
    <3>1. decision'[h] = "deny" /\ ~(c0 /\ "state" \notin failed'[h])
      BY <1>0, <1>5, <2>3 DEF Decide, Decided
    <3>2. /\ event'[h].conversation /\ "dod" \in env'.tiers /\ "done" \in event'[h].cmd
          /\ "empty" \notin event'[h].cmd
      BY <1>2, <2>1, <2>3 DEF Applies
    <3>3. Right(h, c0, l0)'
      BY <3>1, <3>2 DEF Right, Forbidden
    <3> QED
      BY <1>7, <1>9, <2>3, <3>3
  <2>4. CASE failed' = [failed EXCEPT ![h] = @ \cup {"state"}]
    <3>1. "state" \in failed'[h]
      BY <1>0, <2>4
    <3>2. Decide(h, "deny") /\ Applies(h, "dod", "done")
      BY <1>1, <1>11, <3>1 DEF Dod
    <3> QED
      BY <2>3, <3>1, <3>2
  <2>5. CASE failed' = failed
    <3>1. \/ Pass(h) /\ (Applies(h, "dod", "done") => ci)
          \/ Decide(h, "deny") /\ Applies(h, "dod", "done") /\ ~ci
          \/ Decide(h, "deny") /\ Applies(h, "dod", "done") /\ failed' = [failed EXCEPT ![h] = @ \cup {"state"}]
      BY <1>11 DEF Dod
    <3> QED
      BY <2>2, <2>3, <2>4, <2>5, <3>1
  <2> QED
    BY <1>11, <2>4, <2>5 DEF Dod
<1>12. CASE Claims(h)
  <2>0. pc[h] = "claims" /\ After["shell"]["claims"] = "soft" /\ failed' = failed
    BY <1>12, ShellLemma DEF Claims, At, ShellOrder
  <2>1. {"empty", "hard"} \cap event[h].cmd = {} /\ (~Applies(h, "dod", "done") \/ TRUE \in sawCi[h])
    BY <2>0 DEF GuardOK
  <2>2. CASE Pass(h) /\ (Applies(h, "dispatch", "dispatch") => claim)
    <3>1. pc'[h] = "soft"
      BY <1>0, <2>0, <2>2 DEF Pass, Goto, Following, Types
    <3>2. ~Applies(h, "dispatch", "dispatch") \/ TRUE \in sawClaim[h]
      BY <1>0, <1>2, <2>2
    <3> QED
      BY <1>1, <1>8, <2>0, <2>1, <2>2, <3>1, <3>2
  <2>3. CASE Decide(h, "deny") /\ Applies(h, "dispatch", "dispatch") /\ ~claim
    <3>1. decision'[h] = "deny" /\ ~l0
      BY <1>0, <1>6, <2>3 DEF Decide, Decided
    <3>2. /\ event'[h].conversation /\ "dispatch" \in env'.tiers /\ "dispatch" \in event'[h].cmd
          /\ "empty" \notin event'[h].cmd
      BY <1>2, <2>1, <2>3 DEF Applies
    <3>3. Right(h, c0, l0)'
      BY <3>1, <3>2 DEF Right, Forbidden
    <3> QED
      BY <1>7, <1>9, <2>3, <3>3
  <2> QED
    BY <1>12, <2>2, <2>3 DEF Claims
<1>13. CASE Soft(h)
  <2>1. /\ {"empty", "hard"} \cap event[h].cmd = {} /\ failed' = failed
        /\ ~Applies(h, "dod", "done") \/ TRUE \in sawCi[h]
        /\ ~Applies(h, "dispatch", "dispatch") \/ TRUE \in sawClaim[h]
    BY <1>13 DEF Soft, At, GuardOK
  <2>2. PICK d \in {"allow", "warn"} : Decide(h, d)
    BY <1>13 DEF Soft
  <2>3. PICK c1 \in sawCi[h] : c1 \in BOOLEAN /\ (Applies(h, "dod", "done") => c1)
    BY <1>0, <1>2, <2>1
  <2>4. PICK l1 \in sawClaim[h] : l1 \in BOOLEAN /\ (Applies(h, "dispatch", "dispatch") => l1)
    BY <1>0, <1>2, <2>1
  <2>5. decision'[h] # "deny" /\ "state" \notin failed'[h]
    BY <1>0, <1>1, <2>1, <2>2 DEF Decide, Decided
  <2>6. ~Forbidden(event[h], c1, l1)'
    BY <1>4, <2>1, <2>3, <2>4
  <2>7. Right(h, c1, l1)'
    BY <1>2, <2>1, <2>5, <2>6 DEF Right, Forbidden
  <2> QED
    BY <1>9, <2>2, <2>7
<1> QED
  BY <1>10, <1>11, <1>12, <1>13

LEMMA NextGuards == TInv /\ Guards /\ [Next]_vars => Guards'
<1> SUFFICES ASSUME TInv, Guards, [Next]_vars, NEW g \in Hooks, Kind(g)' = "shell"
             PROVE  GuardOK(g)'
  BY DEF Guards
<1>0. Types /\ Values /\ HookOK(g)
  BY DEF TInv, IInv
<1>1. ASSUME UNCHANGED <<env, event>> PROVE Kind(g) = "shell" /\ GuardOK(g)
  BY <1>1 DEF Guards, Kind
<1>2. ASSUME UNCHANGED <<env, event>>, Watch, pc'[g] = pc[g], decision'[g] = decision[g], failed'[g] = failed[g]
      PROVE  GuardOK(g)'
  BY <1>1, <1>2, GuardQuiet
<1>3. ASSUME NEW h \in Hooks, HookStep(h) \/ Fire(h) \/ Kill(h), UNCHANGED env, Watch PROVE GuardOK(g)'
  <2>0. event' = event
    BY <1>0, <1>3, LocalLemma
  <2>1. CASE g # h
    BY <1>0, <1>2, <1>3, <2>0, <2>1, LocalLemma
  <2>2. CASE g = h /\ (Hard(h) \/ Dod(h) \/ Claims(h) \/ Soft(h))
    BY <1>1, <1>3, <2>0, <2>2, GuardTier
  <2>3. CASE g = h /\ ~(Hard(h) \/ Dod(h) \/ Claims(h) \/ Soft(h))
    <3>1. Kind(h) = "shell" /\ GuardOK(h) /\ HookOK(h)
      BY <1>0, <1>1, <1>3, <2>0, <2>3
    <3>2. /\ decision' = decision
          /\ "state" \in failed'[h] <=> "state" \in failed[h]
          /\ \/ pc[h] \in {"idle", "gate"} /\ pc'[h] \in {"gate", "hard"}
             \/ pc'[h] \notin {"idle", "gate", "hard", "dod", "claims", "soft"}
      <4>1. CASE Fire(h) \/ Kill(h)
        BY <1>0, <4>1 DEF Fire, Kill, Goto, At, Types
      <4>2. CASE Gate(h)
        BY <1>0, <3>1, <4>2, ShellLemma DEF Gate, Goto, At, Following, Types, ShellOrder
      <4>3. CASE Raise(h)
        BY <1>0, <3>1, <4>3, ShellLemma, PlaceLemma
        DEF Raise, Goto, At, Following, Types, ShellOrder, MayRaise, Isolated
      <4>4. CASE Work(h) \/ InitSession(h) \/ Bookkeeping(h) \/ Ensure(h) \/ Build(h)
        <5>1. pc[h] = "emit" /\ Work(h)
          BY <1>0, <3>1, <4>4, PlaceLemma DEF Work, InitSession, Bookkeeping, Ensure, Build, At
        <5> QED
          BY <1>0, <3>1, <5>1, ShellLemma DEF Work, Goto, Following, Types, ShellOrder
      <4>5. CASE LogEvent(h)
        BY <1>0, <3>1, <4>5, ShellLemma DEF LogEvent, Goto, At, Following, Types, ShellOrder
      <4>6. CASE Answer(h)
        BY <1>0, <3>1, <4>6, ShellLemma DEF Answer, Goto, At, Following, Types, ShellOrder
      <4> QED
        BY <1>3, <2>3, <4>1, <4>2, <4>3, <4>4, <4>5, <4>6 DEF HookStep
    <3> QED
      BY <1>3, <2>0, <2>3, <3>1, <3>2, GuardQuiet
  <2> QED
    BY <2>1, <2>2, <2>3
<1>4. CASE Change /\ UNCHANGED env /\ Watch
  BY <1>2, <1>4 DEF Change, local
<1>5. CASE UNCHANGED vars
  <2>1. Kind(g) = "shell" /\ GuardOK(g)
    BY <1>1, <1>5 DEF vars, local
  <2> QED
    BY <1>5, <2>1 DEF vars, files, local, ghosts, GuardOK, Justified, Right, Forbidden, Applies, Running
<1>6. ASSUME NEW h \in Hooks, HookStep(h) PROVE UNCHANGED env /\ Watch
  BY <1>6 DEF HookStep
<1> QED
  BY <1>3, <1>4, <1>5, <1>6 DEF Next, Outside

\* A verdict of the guard is right for values that ci_passing and the claim have
\* had between the start of the hook and its decision (shell_guard.py:89-160).
THEOREM JustifiedTheorem == Spec => []GuardJustified
<1>1. Init => Guards
  BY DEF Init, Guards, GuardOK, Justified, Running
<1>2. Guards => GuardJustified
  BY DEF Guards, GuardOK, Justified, Right, GuardJustified
<1> QED
  BY <1>1, <1>2, InitTyped, NextTyped, NextGuards, PTL DEF Spec
=============================================================================
