----------------------------- MODULE FollowFile -----------------------------
(***************************************************************************)
(* A followed file (plugins/file/file.go): the readFollow goroutine reads  *)
(* lines, waits at the end of the file for an event of the watcher, and    *)
(* opens the path again when a file is created there.                      *)
(*                                                                         *)
(* A line is Parts parts, the last one ending in the newline; part p of    *)
(* the g-th file at the path is <<g, p>> and offsets count parts.  Whoever *)
(* writes the file appends only to the newest one, and every append is     *)
(* seen by the watch on the file, the watch on its directory, or both.     *)
(***************************************************************************)
EXTENDS Integers, Sequences, SequencesExt, FiniteSets

CONSTANTS
  MaxAppended,  \* bound: lines in all files together
  MaxAtPath,    \* bound: files at the path, one after the other
  Parts         \* parts of a line

ASSUME FollowAssumption ==
  MaxAppended \in Nat /\ MaxAtPath \in Nat \ {0} /\ Parts \in Nat \ {0}

VARIABLES
  size,     \* parts in each file so far at the path
  linked,   \* is the newest file at the path? (it is not while it is replaced)
  events,   \* the watcher's events
  fpc,      \* where readFollow is
  followed, \* the file r is open on
  pos,      \* parts read from it
  prefix,   \* prefix
  line,     \* the line to be sent: [text, offset]
  offset,   \* offset
  dying,    \* the tomb is dying
  out,      \* the lines sent on f.lines
  start,    \* f.offset
  unready   \* what the writer did so far that readFollow is not ready for:
            \* "parts", it appended less than a line; "early", it replaced the
            \* file before the watches were set; "again", it replaced the file
            \* before readFollow had seen the one before

writerVars == <<size, linked, events, unready>>
readVars   == <<followed, pos, prefix, line, offset>>
followVars == <<writerVars, readVars, fpc, dying, out, start>>

Newest == Len(size)
Watching == fpc \notin {"open", "watch"}
Limit == MaxAppended * Parts

\* Every part there is.
Written == UNION {{<<g, p>> : p \in 1 .. size[g]} : g \in DOMAIN size}

-----------------------------------------------------------------------------
(* The writer of the file                                                  *)

\* n parts are appended; the watcher reports it once or twice.
AppendParts(n) ==
  /\ linked /\ Cardinality(Written) + n <= Limit
  /\ unready' = unready \cup (IF n = Parts /\ size[Newest] % Parts = 0 THEN {} ELSE {"parts"})
  /\ size' = [size EXCEPT ![Newest] = @ + n]
  /\ \E seen \in {<<"write">>, <<"write", "write">>} :
       events' = IF Watching THEN events \o seen ELSE events
  /\ UNCHANGED <<linked, readVars, fpc, dying, out, start>>

\* The file is renamed or deleted, with its last line complete.
Unlink ==
  /\ linked /\ Newest < MaxAtPath
  /\ size[Newest] % Parts = 0
  /\ linked' = FALSE
  /\ unready' = unready \cup (IF Watching THEN {} ELSE {"early"})
                \cup (IF followed < Newest THEN {"again"} ELSE {})
  /\ UNCHANGED <<size, events, readVars, fpc, dying, out, start>>

Create ==
  /\ ~linked
  /\ size' = Append(size, 0)
  /\ linked' = TRUE
  /\ events' = IF Watching THEN Append(events, "create") ELSE events
  /\ UNCHANGED <<unready, readVars, fpc, dying, out, start>>

-----------------------------------------------------------------------------
(* readFollow                                                              *)

\* os.Open and Seek to f.offset; an error ends readFollow.
Open ==
  /\ fpc = "open"
  /\ fpc' = IF linked THEN "watch" ELSE "failed"
  /\ followed' = Newest
  /\ pos' = start
  /\ UNCHANGED <<writerVars, prefix, line, offset, dying, out, start>>

\* w.Add of the file and of its directory.
Watch ==
  /\ fpc = "watch"
  /\ fpc' = "read"
  /\ UNCHANGED <<writerVars, readVars, dying, out, start>>

\* Where the line that begins or goes on at pos ends.
LineEnd == (pos \div Parts + 1) * Parts

\* The parts from pos to n, as ReadString returns them.
ReadString(n) == [i \in 1 .. n - pos |-> <<followed, pos + i>>]

\* ReadString finds the newline.
ReadLine ==
  /\ fpc = "read" /\ size[followed] >= LineEnd
  /\ line' = [text |-> prefix \o ReadString(LineEnd), offset |-> offset]
  /\ prefix' = << >>
  /\ pos' = LineEnd
  /\ fpc' = "send"
  /\ UNCHANGED <<writerVars, followed, offset, dying, out, start>>

\* ReadString returns io.EOF with what there is of a line: prefix = str.  A seek
\* beyond the end of the file leaves nothing to read.
ReadEOF ==
  /\ fpc = "read" /\ size[followed] < LineEnd
  /\ prefix' = ReadString(size[followed])
  /\ pos' = IF size[followed] < pos THEN pos ELSE size[followed]
  /\ fpc' = "wait"
  /\ UNCHANGED <<writerVars, followed, line, offset, dying, out, start>>

\* Mutant: the offset goes on from the old file.
OffsetKept == offset

\* offset = 0 for the new file.
ReopenedOffset == 0

\* Mutant: a created file is not opened.
Ignored == fpc' = "wait" /\ UNCHANGED <<followed, pos, offset>>

\* os.Open of the path again, which fails if the file is gone once more.
ReopenPath ==
  IF linked
  THEN /\ followed' = Newest /\ pos' = 0 /\ offset' = ReopenedOffset
       /\ fpc' = "read"
  ELSE fpc' = "failed" /\ UNCHANGED <<followed, pos, offset>>

\* A write event, of this file or of another one in the directory.
EventWrite ==
  /\ fpc = "wait" /\ events # << >> /\ Head(events) = "write"
  /\ events' = Tail(events)
  /\ fpc' = "read"
  /\ UNCHANGED <<size, linked, unready, readVars, dying, out, start>>

\* A create event for the path.
EventCreate ==
  /\ fpc = "wait" /\ events # << >> /\ Head(events) = "create"
  /\ events' = Tail(events)
  /\ ReopenPath
  /\ UNCHANGED <<size, linked, unready, prefix, line, dying, out, start>>

\* offset += int64(len(str))
NextOffset == offset + Len(line.text)

\* f.lines <- Line: the owner of the File takes the line.
SendLine ==
  /\ fpc = "send"
  /\ out' = Append(out, line)
  /\ offset' = NextOffset
  /\ fpc' = "read"
  /\ UNCHANGED <<writerVars, followed, pos, prefix, line, dying, start>>

\* Close kills the tomb; readFollow sees it where it waits.
Close ==
  /\ ~dying /\ dying' = TRUE
  /\ UNCHANGED <<writerVars, readVars, fpc, out, start>>

\* Mutant: a follower that waits for the end of the file does not see it.
DiesSending == {"send"}

\* The selects with a case for f.t.Dying().
DiesAt == {"wait", "send"}

Dies ==
  /\ dying /\ fpc \in DiesAt
  /\ fpc' = "ended"
  /\ UNCHANGED <<writerVars, readVars, dying, out, start>>

\* An error of the file or of the watcher ends readFollow: of the first open and
\* seek, of NewWatcher, of ReadString, or one that comes on w.Errors.
IOError ==
  /\ fpc \in {"open", "watch", "read", "wait"}
  /\ fpc' = "error"
  /\ UNCHANGED <<writerVars, readVars, dying, out, start>>

-----------------------------------------------------------------------------
FollowInit ==
  /\ size \in {<<n * Parts>> : n \in 0 .. MaxAppended}
  /\ linked = TRUE
  /\ events = << >>
  /\ fpc = "open"
  /\ followed = 1
  /\ prefix = << >> /\ line = [text |-> << >>, offset |-> 0]
  /\ start \in {n * Parts : n \in 0 .. size[1] \div Parts}
  /\ offset = start /\ pos = start
  /\ dying = FALSE
  /\ out = << >> /\ unready = {}

Writer == Unlink \/ Create \/ \E n \in 1 .. Parts : AppendParts(n)
ReadFollow == \/ Open \/ Watch \/ ReadLine \/ ReadEOF
              \/ EventWrite \/ EventCreate \/ SendLine

FollowNext == Writer \/ ReadFollow \/ Close \/ Dies \/ IOError

FollowSpec == FollowInit /\ [][FollowNext]_followVars

\* readFollow runs whenever it can, and a select that can take f.t.Dying()
\* again and again takes it sooner or later.
FairFollowSpec == FollowSpec /\ WF_followVars(ReadFollow) /\ SF_followVars(Dies)

-----------------------------------------------------------------------------
(* Properties                                                              *)

Text == Seq((1 .. MaxAtPath) \X (1 .. Limit))
LineType == [text : Text, offset : Nat]

FollowTypeOK ==
  /\ size \in Seq(0 .. Limit) /\ Len(size) \in 1 .. MaxAtPath
  /\ linked \in BOOLEAN /\ dying \in BOOLEAN
  /\ unready \subseteq {"parts", "early", "again"}
  /\ events \in Seq({"write", "create"})
  /\ fpc \in {"open", "watch", "read", "wait", "send", "ended", "failed", "error"}
  /\ followed \in 1 .. Len(size) /\ pos \in 0 .. Limit /\ prefix \in Text
  /\ line \in LineType /\ out \in Seq(LineType)
  /\ offset \in Nat /\ start \in 0 .. Limit

\* The line of file g that begins at offset o, as Line describes it.
LineAt(g, o) == [text |-> [i \in 1 .. Parts |-> <<g, o + i>>], offset |-> o]

\* Where the complete lines after f.offset begin in the first n parts of file g.
Begins(g, n) == {o \in 0 .. n - Parts : o % Parts = 0 /\ (g = 1 => start <= o)}

\* Those lines, of all files.
Expected == UNION {{LineAt(g, o) : o \in Begins(g, size[g])} : g \in DOMAIN size}

\* Line a was written before line b: to an earlier file or further up.
Before(a, b) == \/ a.text[1][1] < b.text[1][1]
                \/ a.text[1][1] = b.text[1][1] /\ a.offset < b.offset

\* "deals with a read event not generating a full line", "reopens a file that
\* is deleted", "tracks the offset of lines when following" (file_test.go): the
\* lines sent are the lines of the files from f.offset on, complete, each once,
\* in order and with the offset at which they begin.
Faithful ==
  /\ Range(out) \subseteq Expected
  /\ \A i, j \in DOMAIN out : i < j => Before(out[i], out[j])
  /\ \A a \in Expected, i \in DOMAIN out : Before(a, out[i]) => a \in Range(out)

\* The same, as far as it goes: as long as lines are appended whole and a file
\* is replaced only when readFollow has opened and watches it.
FaithfulIfPlain == unready = {} => Faithful

\* "Follows files as they change" (plugin.go): a follower does not end by itself
\* when the file is replaced, unless the file is replaced before it was ready.
\* An error of the file or of the watcher is another matter (fpc = "error").
FollowsOn == fpc = "failed" => unready \cap {"early", "again"} # {}

\* A follower sends the file's lines, and goes on (readFollow).
Following == FollowTypeOK /\ FaithfulIfPlain /\ FollowsOn

\* Every complete line is sent sooner or later, unless the File is closed, was
\* not ready for what the writer did, or ended with an error of the file or of
\* the watcher.
EventuallySent ==
  \A n \in 1 .. MaxAppended :
    Cardinality(Expected) >= n ~> Len(out) >= n \/ dying \/ unready # {} \/ fpc = "error"

\* A closed File's goroutine returns, so that Close returns.
CloseEnds == dying ~> fpc \in {"ended", "failed", "error"}

\* What is written to the file is sent, and Close ends the follower, each with
\* the exceptions stated above (readFollow, Close).
SendsAndEnds == EventuallySent /\ CloseEnds
=============================================================================
