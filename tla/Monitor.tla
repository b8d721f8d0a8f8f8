------------------------------ MODULE Monitor ------------------------------
(***************************************************************************)
(* The file monitor (plugins/file/monitor.go) and its offset database      *)
(* (offsetdb.go), over several runs of the process: a goroutine per file   *)
(* moves lines into one channel, Run hands them to the receiver and notes  *)
(* the offsets, and a shutdown closes the files and saves the offsets,     *)
(* from which the next run goes on.                                        *)
(*                                                                         *)
(* A File is what module FollowFile describes: it sends the lines of its   *)
(* file in order and goes on with the file that replaces it.  The files a  *)
(* path leads to are numbered; a File reads one of them, and an offset,    *)
(* which counts lines, is of one of them.  What is known of a file is its  *)
(* samefile.ID (samefile/samefile.go) and its size: one that was truncated *)
(* while no process ran, or has the inode of the file before it on a       *)
(* system without extended attributes, keeps the ID.                       *)
(***************************************************************************)
EXTENDS Integers, Sequences, SequencesExt, FiniteSets

CONSTANTS
  Files,     \* the paths given to OpenFiles
  MaxLines,  \* bound: lines per file, by path
  MaxRuns,   \* bound: runs of the process
  Rotated,   \* bound: the paths whose file is replaced
  MaxFiles   \* bound: files at such a path

ASSUME MonitorAssumption ==
  /\ IsFiniteSet(Files) /\ Files # {}
  /\ MaxLines \in [Files -> Nat] /\ MaxRuns \in Nat \ {0} /\ MaxFiles \in Nat \ {0}
  /\ Rotated \subseteq Files

VARIABLES
  runs,      \* number of runs of the process so far
  mpc,       \* where Run is
  held,      \* the line Run passes on: << >> or <<path, file, number>>
  reading,   \* the file each File has open, 0 before os.Open
  creates,   \* create events of its path that a File has not taken yet, -1
             \* before it watches the path
  given,     \* lines of it that were sent on f.lines or come before the offset
  hand,      \* per path, the line its goroutine has to put, or << >>
  ended,     \* Files whose own goroutine returned
  gone,      \* files whose goroutine in OpenFiles returned
  lines,     \* m.lines
  shutdown,  \* number of values in m.shutdown, capacity 1
  done,      \* m.done is closed
  caller,    \* where a caller of WaitShutdown is
  offsets,   \* m.offsets: [of: the file it counts, n]
  unsaved,   \* files whose offset FlushOffsets has still to save
  opened,    \* the path whose entry is created but not yet written, with the
             \* ID for it, or none
  unset,     \* paths whose Set returned an error in this run
  db,        \* the entries: [of, n, id]; Torn if it is empty
  file, id,  \* the file each path leads to, and its samefile.ID
  odd,       \* files that an entry of another file may be taken for
  again,     \* per path, files that its File opened while it had them open
  received,  \* the lines the receiver took of each path, over all runs
  clean      \* did every process so far save all offsets and return from Run?

goVars  == <<reading, creates, again, given, hand, ended, gone>>
runVars == <<mpc, held, offsets, unsaved, opened, unset, done>>
allRuns == <<runs, clean>>
disk    == <<file, id, db, odd>>
vars == <<allRuns, runVars, goVars, lines, shutdown, caller, disk, received>>

NoEntry == [of |-> 1, n |-> 0, id |-> 0]
Torn == [of |-> 1, n |-> -1, id |-> 0]
None == {}

-----------------------------------------------------------------------------
(* The goroutines of the files                                             *)

\* os.Open in readFollow, in the File's own goroutine: the path may lead to
\* another file by now than when OpenFiles looked at the entry.
OpenFile(f) ==
  /\ mpc # "failed" /\ f \notin ended /\ reading[f] = 0
  /\ reading' = [reading EXCEPT ![f] = file[f]]
  /\ odd' = IF given[f] > 0 /\ offsets[f].of # file[f] THEN odd \cup {<<f, file[f]>>} ELSE odd
  /\ UNCHANGED <<allRuns, runVars, creates, again, given, hand, ended, gone, lines,
                 shutdown, caller, file, id, db, received>>

\* w.Add in readFollow: the events from here on come to the File; a replacement
\* before it is not noticed.
AddWatch(f) ==
  /\ mpc # "failed" /\ f \notin ended /\ reading[f] # 0 /\ creates[f] = -1
  /\ creates' = [creates EXCEPT ![f] = 0]
  /\ UNCHANGED <<allRuns, runVars, reading, again, given, hand, ended, gone, lines,
                 shutdown, caller, disk, received>>

\* GenerateLine: the File hands over its next line.
GenerateLine(f) ==
  /\ mpc # "failed" /\ f \notin ended /\ creates[f] # -1 /\ hand[f] = << >>
  /\ given[f] < MaxLines[f]
  /\ given' = [given EXCEPT ![f] = @ + 1]
  /\ hand' = [hand EXCEPT ![f] = <<f, reading[f], given[f] + 1>>]
  /\ UNCHANGED <<allRuns, runVars, reading, creates, again, ended, gone, lines, shutdown,
                 caller, disk, received>>

\* A create event: a File that is followed opens its path anew, without a look
\* at what it has open.  After two replacements in a row the first event leads
\* it to the newest file, and the second one to the same file from its start.
Reopen(f) ==
  /\ mpc # "failed" /\ f \notin ended /\ creates[f] > 0
  /\ creates' = [creates EXCEPT ![f] = @ - 1]
  /\ reading' = [reading EXCEPT ![f] = file[f]]
  /\ again' = [again EXCEPT ![f] = @ \cup ({reading[f]} \cap {file[f]})]
  /\ given' = [given EXCEPT ![f] = 0]
  /\ UNCHANGED <<allRuns, runVars, hand, ended, gone, lines, shutdown, caller, disk,
                 received>>

\* A File that is read once ends at the end of the file, a followed one if an
\* error ends it.
FileEnds(f) ==
  /\ mpc # "failed" /\ f \notin ended
  /\ ended' = ended \cup {f}
  /\ UNCHANGED <<allRuns, runVars, reading, creates, again, given, hand, gone, lines, shutdown, caller,
                 disk, received>>

\* m.lines <- inputLine
PutLine(f) ==
  /\ hand[f] # << >> /\ Len(lines) < Cardinality(Files)
  /\ lines' = Append(lines, hand[f])
  /\ hand' = [hand EXCEPT ![f] = << >>]
  /\ UNCHANGED <<allRuns, runVars, reading, creates, again, given, ended, gone, shutdown, caller, disk,
                 received>>

\* GenerateLine returns io.EOF: m.filewg.Done().
GoroutineEnds(f) ==
  /\ f \in ended \ gone /\ hand[f] = << >>
  /\ gone' = gone \cup {f}
  /\ UNCHANGED <<allRuns, runVars, reading, creates, again, given, hand, ended, lines, shutdown, caller,
                 disk, received>>

\* WatchFiles has closed m.lines.
LinesClosed == gone = Files

-----------------------------------------------------------------------------
(* Run                                                                     *)

\* A shutdown that is pending is enough.
SignalShutdown == shutdown' = 1

TakeShutdown ==
  /\ mpc = "select" /\ shutdown = 1
  /\ shutdown' = 0
  /\ mpc' = "closing"
  /\ UNCHANGED <<allRuns, held, offsets, unsaved, opened, unset, done, goVars, lines,
                 caller, disk, received>>

TakeLine ==
  /\ mpc = "select" /\ lines # << >>
  /\ held' = Head(lines)
  /\ lines' = Tail(lines)
  /\ mpc' = "receive"
  /\ UNCHANGED <<allRuns, offsets, unsaved, opened, unset, done, goVars, shutdown,
                 caller, disk, received>>

\* The closed channel yields a nil line.
TakeNil ==
  /\ mpc = "select" /\ lines = << >> /\ LinesClosed
  /\ SignalShutdown
  /\ UNCHANGED <<allRuns, runVars, goVars, lines, caller, disk, received>>

\* enc.Receive takes the line, and its end is noted.
ReceiveOK ==
  /\ mpc = "receive"
  /\ received' = [received EXCEPT ![held[1]] = Append(@, <<held[2], held[3]>>)]
  /\ offsets' = [offsets EXCEPT ![held[1]] = [of |-> held[2], n |-> held[3]]]
  /\ held' = << >>
  /\ mpc' = "select"
  /\ UNCHANGED <<allRuns, unsaved, opened, unset, done, goVars, lines, shutdown, caller,
                 disk>>

\* The line's offset is not noted.
ReceiveFails ==
  /\ mpc = "receive"
  /\ held' = << >>
  /\ mpc' = "closing"
  /\ UNCHANGED <<allRuns, offsets, unsaved, opened, unset, done, goVars, lines, shutdown, caller,
                 disk, received>>

\* Mutant: CloseFiles waits for Files that it does not close.
NoneToClose == {}

\* The files CloseFiles has still to close.
ToClose == Files \ ended

\* CloseFiles: f.Close() kills the File and waits for its goroutine.
CloseFile ==
  /\ mpc = "closing"
  /\ \E f \in ToClose : ended' = ended \cup {f}
  /\ UNCHANGED <<allRuns, runVars, reading, creates, again, given, hand, gone, lines, shutdown, caller,
                 disk, received>>

\* CloseFiles: m.filewg.Wait() returns; Run returns, and its deferred call of
\* finished closes m.done.
Finished ==
  /\ mpc = "closing" /\ ended = Files /\ gone = Files
  /\ mpc' = "flush"
  /\ done' = TRUE
  /\ unsaved' = Files
  /\ UNCHANGED <<allRuns, held, offsets, opened, unset, goVars, lines, shutdown, caller,
                 disk, received>>

\* samefile.Calculate: inode, device and the time that the first Calculate put
\* into an attribute of the file.
Calculate(f) == id[f]

\* FlushOffsets, OffsetDB.Set: samefile.Calculate looks at the file the path
\* leads to now, and os.Create empties the entry ...
CreateEntry ==
  /\ mpc = "flush" /\ opened = None
  /\ \E f \in unsaved :
       /\ opened' = {<<f, Calculate(f)>>}
       /\ db' = [db EXCEPT ![f] = Torn]
       /\ odd' = IF offsets[f].of # file[f] THEN odd \cup {<<f, file[f]>>} ELSE odd
  /\ UNCHANGED <<allRuns, mpc, held, offsets, unsaved, unset, done, goVars, lines,
                 shutdown, caller, file, id, received>>

\* The path leads to no file, or a directory cannot be written: the entry stays
\* as it was and the error is dropped.
SetFails ==
  /\ mpc = "flush" /\ opened = None
  /\ \E f \in unsaved : unsaved' = unsaved \ {f} /\ unset' = unset \cup {f}
  /\ UNCHANGED <<allRuns, mpc, held, offsets, opened, done, goVars, lines, shutdown,
                 caller, disk, received>>

\* The offset that is saved.
Saves(f) == offsets[f]

\* ... and the encoder writes it.
WriteEntry ==
  /\ mpc = "flush"
  /\ \E o \in opened :
       /\ db' = [db EXCEPT ![o[1]] = [of |-> Saves(o[1]).of, n |-> Saves(o[1]).n, id |-> o[2]]]
       /\ unsaved' = unsaved \ {o[1]}
  /\ opened' = None
  /\ UNCHANGED <<allRuns, mpc, held, offsets, unset, done, goVars, lines, shutdown,
                 caller, file, id, odd, received>>

RunReturns ==
  /\ mpc = "flush" /\ unsaved = {}
  /\ mpc' = "returned"
  /\ UNCHANGED <<allRuns, held, offsets, unsaved, opened, unset, done, goVars, lines,
                 shutdown, caller, disk, received>>

-----------------------------------------------------------------------------
(* The owner of the Monitor and its process                                *)

WaitShutdown ==
  /\ caller = "none"
  /\ SignalShutdown
  /\ caller' = "waiting"
  /\ UNCHANGED <<allRuns, runVars, goVars, lines, disk, received>>

\* <-m.done
WaitReturns ==
  /\ caller = "waiting" /\ done
  /\ caller' = "returned"
  /\ UNCHANGED <<allRuns, runVars, goVars, lines, shutdown, disk, received>>

\* Whoever rotates the files puts a new one at the path.
Replace(f) ==
  /\ file[f] < MaxFiles
  /\ file' = [file EXCEPT ![f] = @ + 1]
  /\ id' = [id EXCEPT ![f] = file[f] + 1]
  /\ creates' = [creates EXCEPT ![f] = IF @ = -1 THEN -1 ELSE @ + 1]
  /\ UNCHANGED <<allRuns, runVars, reading, again, given, hand, ended, gone, lines,
                 shutdown, caller, db, odd, received>>

\* Mutant: the ID is not looked at.
LargeEnough(f, large) == db[f].of = file'[f] \/ f \in large

\* CheckValid: the ID is the file's and the file is not smaller than the
\* offset, which another file than the one it counts may be.
Valid(f, large) == db[f].id = Calculate(f) /\ (db[f].of = file'[f] \/ f \in large)

\* What OpenFiles makes of an entry; one it cannot decode is an error.
FromEntry(f, large) == IF Valid(f, large) /\ db[f] # Torn THEN db[f].n ELSE 0

\* The process ends, after Run returned, when a signal handler has waited for
\* WaitShutdown, or in a crash, and the next one calls OpenFiles and Run.  In
\* between the files in kept became others that keep the ID; those in large
\* have as many lines as an offset of another file counts.
Restart(kept, large) ==
  /\ runs < MaxRuns
  /\ \A f \in kept : file[f] < MaxFiles
  /\ runs' = runs + 1
  /\ clean' = (clean /\ mpc = "returned" /\ unset = {})
  /\ file' = [f \in Files |-> IF f \in kept THEN file[f] + 1 ELSE file[f]]
  /\ mpc' = IF \E f \in Files : db[f] = Torn THEN "failed" ELSE "select"
  /\ held' = << >>
  /\ given' = [f \in Files |-> FromEntry(f, large)]
  /\ offsets' = [f \in Files |-> [of |-> file'[f], n |-> FromEntry(f, large)]]
  /\ odd' = odd \cup {<<f, file'[f]>> : f \in kept}
  /\ reading' = [f \in Files |-> 0] /\ creates' = [f \in Files |-> -1]
  /\ hand' = [f \in Files |-> << >>]
  /\ ended' = {} /\ gone' = {} /\ unsaved' = {} /\ opened' = None /\ unset' = {}
  /\ lines' = << >> /\ shutdown' = 0 /\ done' = FALSE
  /\ caller' = "none"
  /\ UNCHANGED <<id, db, again, received>>

-----------------------------------------------------------------------------
Init ==
  /\ runs = 1 /\ clean = TRUE
  /\ mpc = "select" /\ held = << >>
  /\ reading = [f \in Files |-> 0] /\ creates = [f \in Files |-> -1]
  /\ again = [f \in Files |-> {}]
  /\ given = [f \in Files |-> 0] /\ hand = [f \in Files |-> << >>]
  /\ ended = {} /\ gone = {} /\ unsaved = {} /\ opened = None /\ unset = {}
  /\ lines = << >> /\ shutdown = 0 /\ done = FALSE
  /\ caller = "none"
  /\ offsets = [f \in Files |-> [of |-> 1, n |-> 0]] /\ db = [f \in Files |-> NoEntry]
  /\ file = [f \in Files |-> 1] /\ id = [f \in Files |-> 1] /\ odd = {}
  /\ received = [f \in Files |-> << >>]

Goroutine(f) == OpenFile(f) \/ AddWatch(f) \/ GenerateLine(f) \/ PutLine(f) \/ GoroutineEnds(f)
Run == \/ TakeLine \/ TakeNil \/ TakeShutdown \/ ReceiveOK \/ ReceiveFails
       \/ CloseFile \/ Finished \/ CreateEntry \/ SetFails \/ WriteEntry \/ RunReturns

Next == \/ \E f \in Files : Goroutine(f) \/ Reopen(f) \/ FileEnds(f)
        \/ \E f \in Rotated : Replace(f)
        \/ Run \/ WaitShutdown \/ WaitReturns
        \/ \E kept, large \in SUBSET Rotated : Restart(kept, large)

Spec == Init /\ [][Next]_vars

\* Goroutines run whenever they can, the receiver answers, and Run's select
\* takes a shutdown that stays ready sooner or later.
FairSpec == /\ Spec
            /\ \A f \in Files : WF_vars(Goroutine(f))
            /\ WF_vars(Run) /\ SF_vars(TakeShutdown) /\ WF_vars(WaitReturns)

-----------------------------------------------------------------------------
(* Properties                                                              *)

Numbers == UNION {0 .. MaxLines[f] : f \in Files}
Lines == Files \X (1 .. MaxFiles) \X (Numbers \ {0})

TypeOK ==
  /\ runs \in 1 .. MaxRuns /\ clean \in BOOLEAN
  /\ mpc \in {"select", "receive", "closing", "flush", "returned", "failed"}
  /\ held \in {<< >>} \cup Lines /\ hand \in [Files -> {<< >>} \cup Lines]
  /\ given \in [Files -> Numbers] /\ reading \in [Files -> 0 .. MaxFiles]
  /\ creates \in [Files -> -1 .. MaxFiles] /\ again \in [Files -> SUBSET (1 .. MaxFiles)]
  /\ gone \subseteq ended /\ ended \subseteq Files /\ unsaved \subseteq Files
  /\ opened \subseteq unsaved \X (1 .. MaxFiles) /\ Cardinality(opened) <= 1
  /\ lines \in Seq(Lines) /\ Len(lines) <= Cardinality(Files)
  /\ shutdown \in 0 .. 1 /\ done \in BOOLEAN
  /\ caller \in {"none", "waiting", "returned"}
  /\ offsets \in [Files -> [of : 1 .. MaxFiles, n : Numbers]]
  /\ db \in [Files -> [of : 1 .. MaxFiles, n : Numbers \cup {-1}, id : 0 .. MaxFiles]]
  /\ file \in [Files -> 1 .. MaxFiles] /\ id \in [Files -> 1 .. MaxFiles]
  /\ odd \subseteq Files \X (1 .. MaxFiles) /\ unset \subseteq Files
  /\ received \in [Files -> Seq((1 .. MaxFiles) \X (Numbers \ {0}))]

\* No line is skipped, however the process was stopped and whenever a file is
\* replaced: when the receiver takes a line, it had all earlier lines of that
\* file, and no saved offset is beyond what it took.  Only a file that an entry
\* of another may be taken for is excused: it kept its ID, or was put at the
\* path between the last line and Set or between CheckValid and os.Open (Run,
\* FlushOffsets, OpenFiles, CheckValid, Calculate).
NoneSkipped ==
  \A f \in Files :
    /\ \A i \in DOMAIN received[f] :
         LET g == received[f][i][1]
         IN  <<f, g>> \in odd \/ \A n \in 1 .. received[f][i][2] - 1 :
               \E j \in 1 .. i - 1 : received[f][j] = <<g, n>>
    /\ \A n \in 1 .. db[f].n :
         <<f, db[f].of>> \in odd \/ <<db[f].of, n>> \in Range(received[f])

\* If every process ends after Run saved all offsets and returned, no line is
\* received twice and the next run can open the database (FlushOffsets,
\* OpenFiles).  Only a file that its own File opened once more is excused, which
\* two replacements in a row make it do (readFollow).
NoneRepeated ==
  clean =>
    /\ mpc # "failed"
    /\ \A f \in Files : \A i, j \in DOMAIN received[f] :
         received[f][i] = received[f][j] /\ received[f][i][1] \notin again[f] => i = j

\* What the offsets are for: over all runs the receiver misses no line, and has
\* none twice if the runs end as they should (Run, FlushOffsets, OpenFiles).
OffsetsRight == TypeOK /\ NoneSkipped /\ NoneRepeated

\* "Don't block if we can't add anything to shutdown, meaning there is a
\* shutdown pending anyway" (monitor.go, SignalShutdown): a pending shutdown
\* comes to an end, with the offsets saved but for those whose Set failed,
\* unless the process ends before, or goroutines are left that wait to put a
\* line in the full channel which Run no longer reads.  Within a run Run is not
\* back at its select with the shutdown taken: only the next run is.
ShutdownEnds ==
  shutdown = 1 ~>
    \/ mpc = "returned" /\ \A f \in Files \ unset :
                             db[f].of = offsets[f].of /\ db[f].n = offsets[f].n
    \/ mpc = "failed" \/ (mpc = "select" /\ shutdown = 0)
    \/ /\ mpc = "closing" /\ Len(lines) = Cardinality(Files)
       /\ \E f \in Files : hand[f] # << >>
=============================================================================
