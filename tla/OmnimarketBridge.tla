--------------------------- MODULE OmnimarketBridge ---------------------------
(***************************************************************************)
(* Calls of the MCP tools (mcp/omnimarket_bridge_server.py) that run an    *)
(* omnimarket node as a child process (omnimarket_bridge.py), each with a  *)
(* time limit.  The server runs its synchronous tools one at a time.       *)
(*                                                                         *)
(* subprocess.run collects the output until every process that holds the   *)
(* pipe has closed it: the node, and any helper that it has started and    *)
(* that inherits the pipe.  Time is in units of five minutes.              *)
(***************************************************************************)
EXTENDS Naturals, FiniteSets

CONSTANTS
  Call,         \* tool calls
  ToolOf,       \* which tool each one calls
  CiTimeout,    \* timeout_minutes of run_ci_watch, in units of five minutes
  ServerDies    \* may the server process die?

Tool == {"run_local_review", "run_ticket_pipeline", "run_ci_watch"}

ASSUME ToolAssumption == ToolOf \in [Call -> Tool]
ASSUME CiAssumption == CiTimeout \in Nat
ASSUME ServerAssumption == ServerDies \in BOOLEAN

VARIABLES
  answer,    \* what each call has come to; "none" as long as it waits or runs
  node,      \* its child process
  helper,    \* a process that the child has started and that holds the pipe
  out,       \* what the pipe has been given: nothing, one JSON text, or something else
  elapsed    \* time since the child was started

vars == <<answer, node, helper, out, elapsed>>

\* 300 s, 600 s, and (timeout_minutes + 5) * 60 s.
Limit(c) ==
  CASE ToolOf[c] = "run_local_review" -> 1
    [] ToolOf[c] = "run_ticket_pipeline" -> 2
    [] ToolOf[c] = "run_ci_watch" -> CiTimeout + 1

Init ==
  /\ answer = [c \in Call |-> "none"]
  /\ node = [c \in Call |-> "none"]
  /\ helper = [c \in Call |-> "none"]
  /\ out = [c \in Call |-> "nothing"]
  /\ elapsed = [c \in Call |-> 0]

Answer(c, what) == answer' = [answer EXCEPT ![c] = what]

\* The call that the server is working on.
Runs(c) == answer[c] = "none" /\ node[c] # "none"
Idle == \A c \in Call : ~Runs(c)

-----------------------------------------------------------------------------
(* The bridge *)

\* _resolve_root finds no directory, whether OMNIMARKET_ROOT is set or not; or
\* Popen raises, for a python or a directory that is not there.
Refuse(c) ==
  /\ Idle /\ answer[c] = "none"
  /\ Answer(c, "error") \/ Answer(c, "raised")
  /\ UNCHANGED <<node, helper, out, elapsed>>

Spawn(c) ==
  /\ Idle /\ answer[c] = "none"
  /\ node' = [node EXCEPT ![c] = "running"]
  /\ UNCHANGED <<answer, helper, out, elapsed>>

\* Output that is not UTF-8 raises; a failed node or output that is not one JSON
\* text is an error.
Judge(c) ==
  CASE out[c] = "undecodable" -> "raised"
    [] node[c] = "exit0" /\ out[c] = "json" -> "ok"
    [] OTHER -> "error"

\* Mutant of Collect: the helpers' end of the pipe is not waited for.
CollectAtExit(c) ==
  /\ Runs(c) /\ node[c] # "running"
  /\ Answer(c, Judge(c))
  /\ UNCHANGED <<node, helper, out, elapsed>>

\* communicate() returns: the pipe is closed at every end and the node has ended.
Collect(c) ==
  /\ Runs(c) /\ node[c] # "running" /\ helper[c] # "holds"
  /\ Answer(c, Judge(c))
  /\ UNCHANGED <<node, helper, out, elapsed>>

\* Mutant of TimeOut: the node is left running.
TimeOutOnly(c) ==
  /\ Runs(c) /\ elapsed[c] >= Limit(c)
  /\ Answer(c, "timedOut")
  /\ UNCHANGED <<node, helper, out, elapsed>>

\* Mutant of TimeOut: there is no limit.
NoTimeOut(c) == FALSE /\ UNCHANGED vars

\* TimeoutExpired: run() kills the node, not its helpers, and drops the output.
TimeOut(c) ==
  /\ Runs(c) /\ elapsed[c] >= Limit(c)
  /\ Answer(c, "timedOut")
  /\ node' = [node EXCEPT ![c] = IF @ = "running" THEN "killed" ELSE @]
  /\ UNCHANGED <<helper, out, elapsed>>

-----------------------------------------------------------------------------
(* Around it: the node and what it starts, the clock, the server's end *)

\* Whoever holds the pipe writes: one JSON text, or one more piece after another.
WriteOut(c) ==
  /\ node[c] = "running" \/ helper[c] = "holds"
  /\ \E text \in {"json", "other", "undecodable"} :
       out' = [out EXCEPT ![c] =
         IF "undecodable" \in {@, text} THEN "undecodable"
         ELSE IF @ = "nothing" THEN text ELSE "other"]
  /\ UNCHANGED <<answer, node, helper, elapsed>>

StartHelper(c) ==
  /\ node[c] = "running" /\ helper[c] = "none"
  /\ helper' = [helper EXCEPT ![c] = "holds"]
  /\ UNCHANGED <<answer, node, out, elapsed>>

HelperEnds(c) ==
  /\ helper[c] = "holds"
  /\ helper' = [helper EXCEPT ![c] = "ended"]
  /\ UNCHANGED <<answer, node, out, elapsed>>

NodeEnds(c) ==
  /\ node[c] = "running"
  /\ \E end \in {"exit0", "exit1"} : node' = [node EXCEPT ![c] = end]
  /\ UNCHANGED <<answer, helper, out, elapsed>>

\* elapsed stops at the limit, which is all that is ever compared.
Tick ==
  /\ \E c \in Call : Runs(c) /\ elapsed[c] < Limit(c)
  /\ elapsed' = [c \in Call |->
       IF Runs(c) /\ elapsed[c] < Limit(c) THEN elapsed[c] + 1 ELSE elapsed[c]]
  /\ UNCHANGED <<answer, node, helper, out>>

\* The server dies with a call under way; its node is not told.
Die(c) ==
  /\ ServerDies /\ Runs(c)
  /\ Answer(c, "lost")
  /\ UNCHANGED <<node, helper, out, elapsed>>

BridgeStep(c) == Refuse(c) \/ Spawn(c) \/ Collect(c) \/ TimeOut(c)
NodeStep(c) == WriteOut(c) \/ StartHelper(c) \/ HelperEnds(c) \/ NodeEnds(c)

Next ==
  \/ \E c \in Call : BridgeStep(c) \/ NodeStep(c) \/ Die(c)
  \/ Tick

\* The server works and time passes; nothing is asked of nodes and helpers.
Fairness == (\A c \in Call : WF_vars(BridgeStep(c))) /\ WF_vars(Tick)

Spec == Init /\ [][Next]_vars /\ Fairness

-----------------------------------------------------------------------------

TypeOK ==
  /\ answer \in [Call -> {"none", "ok", "error", "timedOut", "raised", "lost"}]
  /\ node \in [Call -> {"none", "running", "exit0", "exit1", "killed"}]
  /\ helper \in [Call -> {"none", "holds", "ended"}]
  /\ out \in [Call -> {"nothing", "json", "other", "undecodable"}]
  /\ elapsed \in [Call -> Nat]
  /\ \A c \in Call : elapsed[c] <= Limit(c)

\* A call that says ok has the whole output of a node that succeeded: nothing that
\* the node or a helper prints later can change what the output was.
OkIsFinal ==
  \A c \in Call : answer[c] = "ok" =>
    node[c] = "exit0" /\ out[c] = "json" /\ helper[c] # "holds"

\* Once a call has an answer its node is dead, so that no two nodes work on a
\* checkout or a pull request at once - unless the server died over one of them.
OneNodeAtATime ==
  \A c, d \in Call :
    (c # d /\ node[c] = "running" /\ node[d] = "running") => "lost" \in {answer[c], answer[d]}

\* "All failures are expressed in the return dict" (omnimarket_bridge.py:4), as far
\* as time goes: every call comes to an end, whatever its node and helpers do, and
\* so do the calls that wait behind it.
CallsReturn == \A c \in Call : <>(answer[c] # "none")

=============================================================================
