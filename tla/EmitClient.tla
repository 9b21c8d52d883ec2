----------------------------- MODULE EmitClient -----------------------------
(***************************************************************************)
(* One request of a hook to the emit daemon over the Unix socket           *)
(* (.cursor/hooks/lib/emit_client.py): an event to queue, or a ping.  Many *)
(* hooks may talk to the daemon at once, each over a connection of its     *)
(* own.  The daemon is not in the repository; it is modelled from the      *)
(* protocol the client speaks.  It may be absent, slow, die with a request *)
(* in hand, answer in pieces, or never finish its answer.                  *)
(***************************************************************************)
EXTENDS Naturals, Sequences

CONSTANTS
  Request,              \* requests of hooks, each over a connection of its own
  MAX_RESPONSE_PIECES,  \* _MAX_RESPONSE_BYTES, in pieces
  MaxUnread,            \* bound on what the daemon sends ahead of the client
  DaemonMayDie          \* may the daemon stop and start again?

ASSUME PieceAssumption == MAX_RESPONSE_PIECES \in Nat /\ MaxUnread \in Nat \ {0}
ASSUME DaemonAssumption == DaemonMayDie \in BOOLEAN

VARIABLES
  socket,    \* the socket file: "absent", "listening", or "stale" with nobody behind it
  phase,     \* where each request is
  asks,      \* "event" or "ping"
  wire,      \* the request on its way: "none", "sent" or "taken" by the daemon
  status,    \* the status the daemon has decided on
  pieces,    \* what the daemon has sent and the client has not read
  hungup,    \* has the daemon closed the connection?
  total,     \* pieces the client has read
  result,    \* what send_event or daemon_available returns
  queue      \* events the daemon has queued

daemonVars == <<socket, status, queue>>
clientVars == <<socket, phase, asks, wire, status, pieces, hungup, total, result, queue>>

\* "part" has no newline in it, "end" has.
Piece == {"part", "end"}

ClientInit ==
  /\ socket \in {"absent", "listening", "stale"}
  /\ phase = [h \in Request |-> "idle"]
  /\ asks = [h \in Request |-> "event"]
  /\ wire = [h \in Request |-> "none"]
  /\ status = [h \in Request |-> "none"]
  /\ pieces = [h \in Request |-> <<>>]
  /\ hungup = [h \in Request |-> FALSE]
  /\ total = [h \in Request |-> 0]
  /\ result = [h \in Request |-> "none"]
  /\ queue = {}

Connected(h) == phase[h] \in {"send", "recv"}

\* Return, and close the connection; what was sent stays on the wire.
Return(h, r) ==
  /\ phase' = [phase EXCEPT ![h] = "done"]
  /\ result' = [result EXCEPT ![h] = r]
  /\ total' = [total EXCEPT ![h] = 0]
  /\ pieces' = [pieces EXCEPT ![h] = <<>>]

Proceed(h, to) ==
  /\ phase' = [phase EXCEPT ![h] = to]
  /\ UNCHANGED <<result, total, pieces>>

\* No socket file, or a message that cannot be serialized: no attempt.
BeginRequest(h) ==
  /\ phase[h] = "idle"
  /\ \E k \in {"event", "ping"} : asks' = [asks EXCEPT ![h] = k]
  /\ \/ socket # "absent" /\ Proceed(h, "connect")
     \/ (socket = "absent" \/ asks'[h] = "event") /\ Return(h, "false")
  /\ UNCHANGED <<daemonVars, wire, hungup>>

\* connect is refused, times out (the backlog is full) or succeeds, whether or not
\* the daemon will ever look at the connection.
Connect(h) ==
  /\ phase[h] = "connect"
  /\ \/ socket = "listening" /\ Proceed(h, "send")
     \/ Return(h, "false")
  /\ UNCHANGED <<daemonVars, asks, wire, hungup>>

\* sendall: a broken pipe or a timeout leaves part of a line, which is no request.
Send(h) ==
  /\ phase[h] = "send"
  /\ \/ ~hungup[h] /\ Proceed(h, "recv") /\ wire' = [wire EXCEPT ![h] = "sent"]
     \/ Return(h, "false") /\ UNCHANGED wire
  /\ UNCHANGED <<daemonVars, asks, hungup>>

\* Mutant of Accepts: any reply that parses will do.
AcceptsAny(h) == TRUE

\* The status that makes send_event, or daemon_available, return True.
Accepts(h) == status[h] = IF asks[h] = "event" THEN "queued" ELSE "ok"

Parsed(h) == IF Accepts(h) THEN "true" ELSE "false"

\* One recv: the client goes on until a newline, or until it has had too much.
Receive(h) ==
  /\ phase[h] = "recv" /\ pieces[h] # <<>>
  /\ \/ total[h] + 1 > MAX_RESPONSE_PIECES /\ Return(h, "false")
     \/ total[h] + 1 <= MAX_RESPONSE_PIECES /\ Head(pieces[h]) = "end" /\ Return(h, Parsed(h))
     \/ /\ total[h] + 1 <= MAX_RESPONSE_PIECES /\ Head(pieces[h]) = "part"
        /\ total' = [total EXCEPT ![h] = @ + 1]
        /\ pieces' = [pieces EXCEPT ![h] = Tail(@)]
        /\ UNCHANGED <<phase, result>>
  /\ UNCHANGED <<daemonVars, asks, wire, hungup>>

\* The end of the stream before a newline: what has come is parsed, and may be a
\* whole answer that only lacks the newline.
EndOfStream(h) ==
  /\ phase[h] = "recv" /\ pieces[h] = <<>> /\ hungup[h]
  /\ \/ Return(h, "false")
     \/ total[h] > 0 /\ Return(h, Parsed(h))
  /\ UNCHANGED <<daemonVars, asks, wire, hungup>>

\* Mutant of Timeout: the socket has no timeout.
NeverTimeout(h) == FALSE /\ UNCHANGED clientVars

\* settimeout bounds every recv.
Timeout(h) ==
  /\ phase[h] = "recv" /\ pieces[h] = <<>> /\ ~hungup[h]
  /\ Return(h, "false")
  /\ UNCHANGED <<daemonVars, asks, wire, hungup>>

ClientStep(h) ==
  BeginRequest(h) \/ Connect(h) \/ Send(h) \/ Receive(h) \/ EndOfStream(h) \/ Timeout(h)

\* The daemon reads the request, of a client that may have gone by now, and queues
\* the event or rejects it.  What it has queued it keeps, should it die.
Take(h) ==
  /\ socket = "listening" /\ wire[h] = "sent" /\ ~hungup[h]
  /\ wire' = [wire EXCEPT ![h] = "taken"]
  /\ IF asks[h] = "ping"
     THEN status' = [status EXCEPT ![h] = "ok"] /\ UNCHANGED queue
     ELSE \/ status' = [status EXCEPT ![h] = "queued"] /\ queue' = queue \cup {h}
          \/ status' = [status EXCEPT ![h] = "error"] /\ UNCHANGED queue
  /\ UNCHANGED <<socket, phase, asks, pieces, hungup, total, result>>

Answer(h) ==
  /\ socket = "listening" /\ wire[h] = "taken" /\ phase[h] = "recv" /\ ~hungup[h]
  /\ Len(pieces[h]) < MaxUnread
  /\ \E p \in Piece : pieces' = [pieces EXCEPT ![h] = Append(@, p)]
  /\ UNCHANGED <<daemonVars, phase, asks, wire, hungup, total, result>>

Hangup(h) ==
  /\ Connected(h) /\ ~hungup[h]
  /\ hungup' = [hungup EXCEPT ![h] = TRUE]
  /\ UNCHANGED <<daemonVars, phase, asks, wire, pieces, total, result>>

\* The daemon dies; its socket file may stay.  Requests it has not read are lost.
Die ==
  /\ DaemonMayDie /\ socket = "listening"
  /\ socket' \in {"absent", "stale"}
  /\ hungup' = [h \in Request |-> hungup[h] \/ Connected(h)]
  /\ wire' = [h \in Request |-> IF wire[h] = "sent" THEN "none" ELSE wire[h]]
  /\ UNCHANGED <<phase, asks, status, pieces, total, result, queue>>

Rise ==
  /\ DaemonMayDie /\ socket # "listening"
  /\ socket' = "listening"
  /\ UNCHANGED <<phase, asks, wire, status, pieces, hungup, total, result, queue>>

ClientNext ==
  \/ \E h \in Request : ClientStep(h) \/ Take(h) \/ Answer(h) \/ Hangup(h)
  \/ Die \/ Rise

\* A request waits for nothing but its own socket calls, each of which has a timeout.
ClientFairness == \A h \in Request : WF_clientVars(ClientStep(h))

ClientSpec == ClientInit /\ [][ClientNext]_clientVars
FairClientSpec == ClientSpec /\ ClientFairness

-----------------------------------------------------------------------------

ClientTypeOK ==
  /\ socket \in {"absent", "listening", "stale"}
  /\ phase \in [Request -> {"idle", "connect", "send", "recv", "done"}]
  /\ asks \in [Request -> {"event", "ping"}]
  /\ wire \in [Request -> {"none", "sent", "taken"}]
  /\ status \in [Request -> {"none", "queued", "error", "ok"}]
  /\ \A h \in Request : Len(pieces[h]) <= MaxUnread
  /\ hungup \in [Request -> BOOLEAN]
  /\ total \in [Request -> 0..MAX_RESPONSE_PIECES]
  /\ result \in [Request -> {"none", "true", "false"}]
  /\ queue \subseteq Request

\* "Returns True only when the daemon ACKs {"status": "queued"}" (emit_client.py:117):
\* an event that send_event reports as queued is in the daemon's queue, even when the
\* daemon dies or its answer comes in pieces; and no pong without a daemon that read
\* the ping.
TrueMeansTaken ==
  \A h \in Request : result[h] = "true" =>
    /\ wire[h] = "taken"
    /\ asks[h] = "event" => h \in queue

\* "a dead or absent daemon can never hang a hook" (docs/ARCHITECTURE.md:323): every
\* request returns, whatever the daemon does or leaves undone.
RequestsReturn == \A h \in Request : phase[h] # "idle" ~> phase[h] = "done"

=============================================================================
