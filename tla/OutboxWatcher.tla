---------------------------- MODULE OutboxWatcher ----------------------------
(***************************************************************************)
(* outbox.jsonl between the stop hooks that append their rows to it        *)
(* (session_outbox.write_session_outcome), the uninstaller that may purge  *)
(* it, and scripts/watch_outbox.py, which follows it or replays it once.   *)
(*                                                                         *)
(* A row is the stop hook that writes it.  Most rows go out in one write,  *)
(* which appends atomically; a row in Split needs two (it is longer than a *)
(* buffer, or the first write falls short), between which others append.   *)
(* The file is a sequence of pieces: a "whole" row with its newline, or    *)
(* the "head" (no newline) and the "rest" (newline) of a split one.        *)
(***************************************************************************)
EXTENDS Naturals, Sequences, SequencesExt, FiniteSetsExt

CONSTANTS
  Row,        \* rows, each appended by a stop hook of its own
  Split,      \* rows that take two writes
  MaxFiles,   \* how often the file may be created
  HookFaults, \* may a hook be killed, or its open or write fail?
  Purges      \* may the file be removed?

ASSUME SplitAssumption == Split \subseteq Row
ASSUME FilesAssumption == MaxFiles \in Nat \ {0}
ASSUME FlagAssumption == HookFaults \in BOOLEAN /\ Purges \in BOOLEAN

VARIABLES
  path,      \* the file that outbox.jsonl names now; 0 is none
  last,      \* the last file created
  content,   \* per file, its pieces
  writer,    \* where the writer of each row is
  fd,        \* the file it has open
  mode,      \* "follow", or "replay" (--dry-run)
  watcher,   \* where the watcher is
  followed,  \* the file it has open
  from,      \* where it started to read
  pos,       \* how far it has read
  shown      \* the lines it has printed, each a sequence of pieces

writers == <<path, last, content, writer, fd>>
reading == <<followed, from, pos, shown>>
watcherVars == <<writers, mode, watcher, reading>>

Files == 1..MaxFiles
Piece == [row : Row, part : {"whole", "head", "rest"}]

WatcherInit ==
  /\ path = 0 /\ last = 0
  /\ content = [f \in Files |-> <<>>]
  /\ writer = [r \in Row |-> "idle"]
  /\ fd = [r \in Row |-> 0]
  /\ mode \in {"follow", "replay"}
  /\ watcher = "waiting"
  /\ followed = 0 /\ from = 0 /\ pos = 0
  /\ shown = <<>>

-----------------------------------------------------------------------------
(* The stop hooks: write_session_outcome *)

WatcherUnchanged == UNCHANGED <<mode, watcher, reading>>
WriterMoves(r, at, to) == writer[r] = at /\ writer' = [writer EXCEPT ![r] = to]

\* Mutant of OpenOutbox: the name is resolved before the file is created.
OpenBeforeCreating(r) ==
  /\ WriterMoves(r, "idle", "open")
  /\ \/ path # 0 /\ UNCHANGED <<path, last>>
     \/ path = 0 /\ last < MaxFiles /\ last' = last + 1 /\ path' = last'
  /\ fd' = [fd EXCEPT ![r] = path]
  /\ UNCHANGED content /\ WatcherUnchanged

\* mkdir and open(path, "a"), which creates the file if there is none.
OpenOutbox(r) ==
  /\ WriterMoves(r, "idle", "open")
  /\ \/ path # 0 /\ UNCHANGED <<path, last>>
     \/ path = 0 /\ last < MaxFiles /\ last' = last + 1 /\ path' = last'
  /\ fd' = [fd EXCEPT ![r] = path']
  /\ UNCHANGED content /\ WatcherUnchanged

AppendPiece(r, part) ==
  /\ content' = [content EXCEPT ![fd[r]] = Append(@, [row |-> r, part |-> part])]
  /\ UNCHANGED <<path, last, fd>> /\ WatcherUnchanged

\* f.write(line): in one write, or in two.
WriteWhole(r) == r \notin Split /\ WriterMoves(r, "open", "done") /\ AppendPiece(r, "whole")
WriteHead(r) == r \in Split /\ WriterMoves(r, "open", "split") /\ AppendPiece(r, "head")
WriteRest(r) == WriterMoves(r, "split", "done") /\ AppendPiece(r, "rest")

\* The open or a write fails, which the hook swallows, or the hook is killed.
GiveUp(r) ==
  /\ HookFaults
  /\ \E at \in {"idle", "open", "split"} : WriterMoves(r, at, "done")
  /\ UNCHANGED <<path, last, content, fd>> /\ WatcherUnchanged

\* --uninstall --purge removes the directory; open files live on without a name.
RemoveOutbox ==
  /\ Purges /\ path # 0
  /\ path' = 0
  /\ UNCHANGED <<last, content, writer, fd>> /\ WatcherUnchanged

-----------------------------------------------------------------------------
(* watch_outbox.py *)

WatcherMoves(at, to) == watcher = at /\ watcher' = to

\* path.exists(): polled every half second, or asked once for a replay.
FindFile ==
  /\ \/ path # 0 /\ WatcherMoves("waiting", "found")
     \/ path = 0 /\ mode = "replay" /\ WatcherMoves("waiting", "exit1")
  /\ UNCHANGED <<writers, mode, reading>>

\* path.open: the file may be gone again, and the exception ends the watcher.
OpenToFollow ==
  /\ mode = "follow"
  /\ \/ path # 0 /\ WatcherMoves("found", "opened") /\ followed' = path
     \/ path = 0 /\ WatcherMoves("found", "raised") /\ UNCHANGED followed
  /\ UNCHANGED <<writers, mode, from, pos, shown>>

\* f.seek(0, 2).
SeekEnd ==
  /\ WatcherMoves("opened", "following")
  /\ pos' = Len(content[followed])
  /\ from' = pos'
  /\ UNCHANGED <<writers, mode, followed, shown>>

EndsLine(piece) == piece.part # "head"

\* Mutant of LineEnd: f.read() takes everything there is for one line.
LineEndIsFileEnd(pieces, start) == Len(pieces)

\* Where the line that starts after the given piece ends: with the first newline
\* or, readline returning what there is, with the file.
LineEnd(pieces, start) ==
  LET ends == {i \in start + 1 .. Len(pieces) : EndsLine(pieces[i])}
  IN IF ends = {} THEN Len(pieces) ELSE Min(ends)

\* Mutant of ReadLine: a line without a newline is not printed.
ReadWholeLine ==
  /\ watcher = "following"
  /\ pos < Len(content[followed])
  /\ LET end == LineEnd(content[followed], pos) IN
       /\ shown' = IF EndsLine(content[followed][end])
                   THEN Append(shown, SubSeq(content[followed], pos + 1, end)) ELSE shown
       /\ pos' = end
  /\ UNCHANGED <<writers, mode, watcher, followed, from>>

\* Mutant of ReadLine: the end of the file ends the loop.
ReadLineOrEnd ==
  /\ watcher = "following"
  /\ IF pos < Len(content[followed])
     THEN LET end == LineEnd(content[followed], pos) IN
            /\ shown' = Append(shown, SubSeq(content[followed], pos + 1, end))
            /\ pos' = end
            /\ UNCHANGED watcher
     ELSE watcher' = "exit0" /\ UNCHANGED <<shown, pos>>
  /\ UNCHANGED <<writers, mode, followed, from>>

\* f.readline() and _fmt_row; at the end of the file it sleeps and tries again.
ReadLine ==
  /\ watcher = "following"
  /\ pos < Len(content[followed])
  /\ LET end == LineEnd(content[followed], pos) IN
       /\ shown' = Append(shown, SubSeq(content[followed], pos + 1, end))
       /\ pos' = end
  /\ UNCHANGED <<writers, mode, watcher, followed, from>>

\* path.read_text().splitlines(): all lines of one instant.  A piece goes to the line
\* of the one before it unless that one ends it.
LinesOf(pieces) ==
  LET lines[n \in 0..Len(pieces)] ==
        IF n = 0 THEN <<>>
        ELSE IF n = 1 \/ EndsLine(pieces[n - 1]) THEN Append(lines[n - 1], <<pieces[n]>>)
        ELSE Append(Front(lines[n - 1]), Append(Last(lines[n - 1]), pieces[n]))
  IN lines[Len(pieces)]

Replay ==
  /\ mode = "replay"
  /\ \/ /\ path # 0 /\ WatcherMoves("found", "exit0")
        /\ followed' = path
        /\ pos' = Len(content[path])
        /\ shown' = LinesOf(content[path])
     \/ path = 0 /\ WatcherMoves("found", "raised") /\ UNCHANGED <<followed, pos, shown>>
  /\ UNCHANGED <<writers, mode, from>>

WatcherStep == FindFile \/ OpenToFollow \/ SeekEnd \/ ReadLine \/ Replay

WatcherNext ==
  \/ \E r \in Row : OpenOutbox(r) \/ WriteWhole(r) \/ WriteHead(r) \/ WriteRest(r) \/ GiveUp(r)
  \/ RemoveOutbox
  \/ WatcherStep

\* The watcher is a running process; nothing is asked of the hooks.
WatcherSpec == WatcherInit /\ [][WatcherNext]_watcherVars /\ WF_watcherVars(WatcherStep)

-----------------------------------------------------------------------------

WatcherTypeOK ==
  /\ path \in 0..last /\ last \in 0..MaxFiles
  /\ content \in [Files -> Seq(Piece)]
  /\ writer \in [Row -> {"idle", "open", "split", "done"}]
  /\ fd \in [Row -> 0..last]
  /\ \A r \in Row : writer[r] \in {"open", "split"} => fd[r] # 0
  /\ mode \in {"follow", "replay"}
  /\ watcher \in {"waiting", "found", "opened", "following", "raised", "exit0", "exit1"}
  /\ followed \in 0..last
  /\ from \in Nat /\ pos \in Nat
  /\ shown \in Seq(Seq(Piece))

\* What the watcher has printed is the text of the file from where it started, in
\* order, nothing left out and nothing twice, although it meets rows half written
\* and the file may lose its name meanwhile.
ShownIsText ==
  followed # 0 /\ watcher # "opened" =>
    FlattenSeq(shown) = SubSeq(content[followed], from + 1, pos)

\* A line is shown as a row if it is one row; anything else is shown as raw text.
IsRow(line) == Len(line) = 1 /\ line[1].part = "whole"

\* A row that was cut short or is written in two costs at most one other row: the
\* one that is glued to its head.
OneHeadCostsOneRow ==
  LET RawLines == {l \in DOMAIN shown : ~IsRow(shown[l])}
      InLine(l, part) == {<<l, i>> : i \in {i \in DOMAIN shown[l] : shown[l][i].part = part}}
      Raw(part) == UNION {InLine(l, part) : l \in RawLines}
  IN Cardinality(Raw("whole")) <= Cardinality(Raw("head"))

\* "pretty-print new entries as they arrive" (watch_outbox.py:2): whatever lands in
\* the file that the watcher has begun to follow is printed, even if the file loses
\* its name or the hook that writes it dies.
Landed(piece) ==
  /\ mode = "follow" /\ followed # 0 /\ watcher # "opened"
  /\ \E i \in from + 1 .. Len(content[followed]) : content[followed][i] = piece
NewTextShown ==
  \A piece \in Piece : Landed(piece) ~> \E i \in DOMAIN shown : piece \in ToSet(shown[i])

=============================================================================
