------------------------------- MODULE TcpLog -------------------------------
(***************************************************************************)
(* The asynchronous half of the TCP logger (plugins/lib/tcplog/tcplog.go). *)
(* Callers of ReadAsync put lines in the Pump, a buffered channel, or drop *)
(* and count them if it is full; the goroutine in Run (sendLogs) takes     *)
(* them out and writes them to its connection, with one redial per line;   *)
(* cleanup, called by Close and at the end of Run, closes the Pump.        *)
(*                                                                         *)
(* The n-th line of caller c is <<c, n>>; the reports of n dropped lines   *)
(* are <<PumpReport, n>> and <<ConnReport, n>>.  A nil connection's Close, *)
(* a send on a closed channel and a second close panic: the process ends.  *)
(***************************************************************************)
EXTENDS Integers, Sequences, SequencesExt, FiniteSets

CONSTANTS
  Callers,        \* goroutines that call ReadAsync
  MaxCalls,       \* bound: calls of each of them
  BufferSize,     \* cBufferSize
  Width,          \* 2^64 in the code: PumpDropped and ConnDropped are uint64
  PumpReport, ConnReport

ASSUME TcpLogAssumption ==
  /\ IsFiniteSet(Callers)
  /\ MaxCalls \in [Callers -> Nat] /\ BufferSize \in Nat \ {0} /\ Width \in Nat \ {0}
  /\ PumpReport \notin Callers /\ ConnReport \notin Callers
  /\ PumpReport # ConnReport

VARIABLES
  apc,          \* where each caller is in writeAsync
  calls,        \* the number of its calls
  hold,         \* its pumpDropped
  Pump,
  pumpOpen,     \* close(l.Pump) has not happened
  PumpClosed,   \* the flag
  PumpDropped, ConnDropped,
  spc,          \* where sendLogs is
  conn,         \* its conn: "open" or "nil"
  line,         \* its line
  kpc,          \* where the two calls of cleanup are
  panicked,     \* "no", or what panicked
  dropped,      \* the lines dropped at the Pump
  reported,     \* the drops reported by all reports put in the Pump
  written,      \* what conn.Write took without an error
  lost          \* the lines sendLogs gave up, in order

callerVars == <<apc, calls, hold>>
senderVars == <<spc, conn, line, ConnDropped, written, lost>>
closeVars  == <<pumpOpen, PumpClosed, kpc>>
countVars  == <<PumpDropped, dropped, reported>>
vars == <<callerVars, Pump, closeVars, countVars, senderVars, panicked>>

Alive == panicked = "no"
NoLine == <<ConnReport, 0>>

-----------------------------------------------------------------------------
(* writeAsync                                                              *)

\* The select of a send: there is room in the channel.
Room == Len(Pump) < BufferSize

\* PumpClosed is false, and the caller goes on to the select.  If it is true
\* ReadAsync returns an error and nothing else changes.
Check(c) ==
  /\ Alive /\ apc[c] = "idle" /\ ~PumpClosed
  /\ calls[c] < MaxCalls[c]
  /\ calls' = [calls EXCEPT ![c] = @ + 1]
  /\ apc' = [apc EXCEPT ![c] = "select"]
  /\ UNCHANGED <<hold, Pump, closeVars, countVars, senderVars, panicked>>

Offer(c) ==
  /\ Alive /\ apc[c] = "select" /\ pumpOpen /\ Room
  /\ Pump' = Append(Pump, <<c, calls[c]>>)
  /\ apc' = [apc EXCEPT ![c] = "load"]
  /\ UNCHANGED <<calls, hold, closeVars, countVars, senderVars, panicked>>

\* atomic.AddUint64(&l.PumpDropped, 1)
CountsOne == (PumpDropped + 1) % Width

Drop(c) ==
  /\ Alive /\ apc[c] = "select" /\ pumpOpen /\ ~Room
  /\ PumpDropped' = CountsOne
  /\ dropped' = dropped \cup {<<c, calls[c]>>}
  /\ apc' = [apc EXCEPT ![c] = "idle"]
  /\ UNCHANGED <<calls, hold, Pump, closeVars, reported, senderVars, panicked>>

\* The line is in the Pump: were others dropped before it?
Load(c) ==
  /\ Alive /\ apc[c] = "load"
  /\ hold' = [hold EXCEPT ![c] = PumpDropped]
  /\ apc' = [apc EXCEPT ![c] = IF PumpDropped > 0 THEN "report" ELSE "idle"]
  /\ UNCHANGED <<calls, Pump, closeVars, countVars, senderVars, panicked>>

\* The report goes into the Pump too, if there is room.
Report(c) ==
  /\ Alive /\ apc[c] = "report" /\ pumpOpen
  /\ IF Room
     THEN /\ Pump' = Append(Pump, <<PumpReport, hold[c]>>)
          /\ reported' = reported + hold[c]
          /\ apc' = [apc EXCEPT ![c] = "subtract"]
     ELSE /\ apc' = [apc EXCEPT ![c] = "idle"]
          /\ UNCHANGED <<Pump, reported>>
  /\ UNCHANGED <<calls, hold, closeVars, PumpDropped, dropped, senderVars,
                 panicked>>

\* atomic.AddUint64(&l.PumpDropped, -n)
Reduces(n) == (PumpDropped - n) % Width

Subtract(c) ==
  /\ Alive /\ apc[c] = "subtract"
  /\ PumpDropped' = Reduces(hold[c])
  /\ apc' = [apc EXCEPT ![c] = "idle"]
  /\ UNCHANGED <<calls, hold, Pump, closeVars, dropped, reported, senderVars,
                 panicked>>

\* Either select of a caller that saw PumpClosed false, on the closed Pump.
SendOnClosed(c) ==
  /\ Alive /\ apc[c] \in {"select", "report"} /\ ~pumpOpen
  /\ panicked' = "send on closed channel"
  /\ UNCHANGED <<callerVars, Pump, closeVars, countVars, senderVars>>

-----------------------------------------------------------------------------
(* sendLogs                                                                *)

\* A dial that fails is repeated a second later: nothing changes.
Dial ==
  /\ Alive /\ spc = "dial"
  /\ spc' = "take" /\ conn' = "open"
  /\ UNCHANGED <<line, ConnDropped, written, lost, callerVars, Pump, closeVars,
                 countVars, panicked>>

\* line, ok := <-l.Pump, ok; what is in a closed channel still comes out.
Take ==
  /\ Alive /\ spc = "take" /\ Pump # << >>
  /\ line' = Head(Pump) /\ Pump' = Tail(Pump)
  /\ spc' = "write"
  /\ UNCHANGED <<conn, ConnDropped, written, lost, callerVars, closeVars,
                 countVars, panicked>>

\* Mutant: sendLogs returns without the cleanup at the end of Run.
NoCleanup ==
  /\ Alive /\ spc = "take" /\ Pump = << >> /\ ~pumpOpen
  /\ spc' = "ended"
  /\ UNCHANGED <<conn, line, ConnDropped, written, lost, callerVars, Pump,
                 closeVars, countVars, panicked>>

\* The Pump is closed and empty: conn.Close, and Run goes on to its cleanup.
TakeClosed ==
  /\ Alive /\ spc = "take" /\ Pump = << >> /\ ~pumpOpen
  /\ spc' = "ended"
  /\ kpc' = [kpc EXCEPT !["Run"] = "test"]
  /\ UNCHANGED <<conn, line, ConnDropped, written, lost, callerVars, Pump,
                 pumpOpen, PumpClosed, countVars, panicked>>

\* The first write of a line, and the one after the redial.
Write ==
  /\ Alive /\ spc \in {"write", "rewrite"}
  /\ written' = Append(written, line) /\ line' = NoLine
  /\ spc' = "load"
  /\ UNCHANGED <<conn, ConnDropped, lost, callerVars, Pump, closeVars,
                 countVars, panicked>>

\* Mutant: the error of the write is not looked at.
ErrorIgnored ==
  /\ Alive /\ spc = "write"
  /\ spc' = "take"
  /\ UNCHANGED <<conn, line, ConnDropped, written, lost, callerVars, Pump,
                 closeVars, countVars, panicked>>

\* conn.Close, and a second's sleep.
WriteFails ==
  /\ Alive /\ spc = "write"
  /\ spc' = "redial"
  /\ UNCHANGED <<conn, line, ConnDropped, written, lost, callerVars, Pump,
                 closeVars, countVars, panicked>>

Redial ==
  /\ Alive /\ spc = "redial"
  /\ spc' = "rewrite" /\ conn' = "open"
  /\ UNCHANGED <<line, ConnDropped, written, lost, callerVars, Pump, closeVars,
                 countVars, panicked>>

\* atomic.AddUint64(&l.ConnDropped, 1)
LosesOne == (ConnDropped + 1) % Width

\* Mutant: the line is counted as given up and kept for the next connection.
LosesAndKeeps(c) ==
  /\ ConnDropped' = LosesOne
  /\ lost' = Append(lost, line) /\ spc' = "rewrite"
  /\ conn' = c
  /\ UNCHANGED <<line, written, callerVars, Pump, closeVars, countVars, panicked>>

\* The line is given up; the loop is left by break, with the connection that
\* the dial or the rewrite failed on.
GiveUp(c) ==
  /\ ConnDropped' = LosesOne
  /\ lost' = Append(lost, line) /\ line' = NoLine
  /\ conn' = c /\ spc' = "close"
  /\ UNCHANGED <<written, callerVars, Pump, closeVars, countVars, panicked>>

\* conn, err = l.dial() assigns a nil conn.
RedialFails ==
  /\ Alive /\ spc = "redial"
  /\ GiveUp("nil")

RewriteFails ==
  /\ Alive /\ spc = "rewrite"
  /\ GiveUp(conn)

\* The conn.Close() after the loop, and the next dial.
CloseConn ==
  /\ Alive /\ spc = "close"
  /\ IF conn = "nil"
     THEN panicked' = "nil conn" /\ UNCHANGED spc
     ELSE spc' = "dial" /\ UNCHANGED panicked
  /\ UNCHANGED <<conn, line, ConnDropped, written, lost, callerVars, Pump,
                 closeVars, countVars>>

\* Lines were lost before the one just written: a report is written, and the
\* count reduced if that succeeds.
ReportLost ==
  /\ Alive /\ spc = "load"
  /\ spc' = "take"
  /\ \/ ConnDropped > 0 /\ written' = Append(written, <<ConnReport, ConnDropped>>)
        /\ ConnDropped' = 0
     \/ UNCHANGED <<written, ConnDropped>>
  /\ UNCHANGED <<conn, line, lost, callerVars, Pump, closeVars, countVars,
                 panicked>>

-----------------------------------------------------------------------------
(* cleanup, called by Close and by Run                                     *)

CallClose ==
  /\ Alive /\ kpc["Close"] = "no"
  /\ kpc' = [kpc EXCEPT !["Close"] = "test"]
  /\ UNCHANGED <<pumpOpen, PumpClosed, callerVars, Pump, countVars, senderVars,
                 panicked>>

TestFlag(k) ==
  /\ Alive /\ kpc[k] = "test"
  /\ kpc' = [kpc EXCEPT ![k] = IF PumpClosed THEN "done" ELSE "close"]
  /\ UNCHANGED <<pumpOpen, PumpClosed, callerVars, Pump, countVars, senderVars,
                 panicked>>

ClosePump(k) ==
  /\ Alive /\ kpc[k] = "close"
  /\ IF pumpOpen
     THEN /\ pumpOpen' = FALSE /\ kpc' = [kpc EXCEPT ![k] = "set"]
          /\ UNCHANGED panicked
     ELSE /\ panicked' = "close of closed channel"
          /\ UNCHANGED <<pumpOpen, kpc>>
  /\ UNCHANGED <<PumpClosed, callerVars, Pump, countVars, senderVars>>

SetFlag(k) ==
  /\ Alive /\ kpc[k] = "set"
  /\ PumpClosed' = TRUE /\ kpc' = [kpc EXCEPT ![k] = "done"]
  /\ UNCHANGED <<pumpOpen, callerVars, Pump, countVars, senderVars, panicked>>

-----------------------------------------------------------------------------
Init ==
  /\ apc = [c \in Callers |-> "idle"] /\ calls = [c \in Callers |-> 0]
  /\ hold = [c \in Callers |-> 0]
  /\ Pump = << >> /\ pumpOpen = TRUE /\ PumpClosed = FALSE
  /\ PumpDropped = 0 /\ ConnDropped = 0
  /\ spc = "dial" /\ conn = "nil" /\ line = NoLine
  /\ kpc = [k \in {"Close", "Run"} |-> "no"]
  /\ panicked = "no"
  /\ dropped = {} /\ reported = 0 /\ written = << >> /\ lost = << >>

CallerStep(c) == \/ Offer(c) \/ Drop(c) \/ Load(c) \/ Report(c) \/ Subtract(c)
                 \/ SendOnClosed(c)
SenderStep == \/ Dial \/ Take \/ TakeClosed \/ Write \/ WriteFails \/ Redial
              \/ RedialFails \/ RewriteFails \/ CloseConn \/ ReportLost
CleanupStep(k) == TestFlag(k) \/ ClosePump(k) \/ SetFlag(k)

Next == \/ \E c \in Callers : Check(c) \/ CallerStep(c)
        \/ SenderStep \/ CallClose
        \/ \E k \in {"Close", "Run"} : CleanupStep(k)

Spec == Init /\ [][Next]_vars

\* Every goroutine runs when it can; a dial that is repeated succeeds at last.
FairSpec == /\ Spec /\ WF_vars(SenderStep)
            /\ \A c \in Callers : WF_vars(CallerStep(c))
            /\ \A k \in {"Close", "Run"} : WF_vars(CleanupStep(k))

-----------------------------------------------------------------------------
(* Properties                                                              *)

Lines == UNION {{c} \X (1 .. MaxCalls[c]) : c \in Callers}
Reports == {PumpReport, ConnReport} \X Nat

TypeOK ==
  /\ apc \in [Callers -> {"idle", "select", "load", "report", "subtract"}]
  /\ calls \in [Callers -> Nat] /\ hold \in [Callers -> 0 .. Width - 1]
  /\ Pump \in Seq(Lines \cup Reports) /\ Len(Pump) <= BufferSize
  /\ pumpOpen \in BOOLEAN /\ PumpClosed \in BOOLEAN
  /\ PumpDropped \in 0 .. Width - 1 /\ ConnDropped \in 0 .. Width - 1
  /\ spc \in {"dial", "take", "write", "redial", "rewrite", "load", "close",
              "ended"}
  /\ conn \in {"open", "nil"} /\ line \in Lines \cup Reports
  /\ kpc \in [{"Close", "Run"} -> {"no", "test", "close", "set", "done"}]
  /\ dropped \subseteq Lines /\ reported \in Nat
  /\ written \in Seq(Lines \cup Reports) /\ lost \in Seq(Lines \cup Reports)

Waiting == IF line = NoLine THEN Pump ELSE <<line>> \o Pump

\* x may come before y: lines of one caller are in the order of its calls.
Precedes(x, y) == x[1] = y[1] /\ x[1] \in Callers => x[2] < y[2]

\* Whatever fails, each caller's lines leave in the order of its calls and none
\* twice: what was written, then what sendLogs holds, then the Pump, are
\* increasing, and so are the lines given up (writeAsync, sendLogs).
InOrder ==
  \A s \in {written \o Waiting, lost \o Waiting} :
    \A i, j \in DOMAIN s : i < j => Precedes(s[i], s[j])

\* The lines that callers are about to offer, and those passed in so far.
Offering == {<<c, calls[c]>> : c \in {a \in Callers : apc[a] = "select"}}
Passed == {l \in Lines : l[2] <= calls[l[1]]}

\* No line vanishes: every line a caller passed in is about to be offered, on
\* its way, written, given up or dropped, and only one of these.
OneFate ==
  LET fates == <<Offering, Range(Waiting), Range(written), Range(lost), dropped>>
  IN  \A l \in Passed :
        \E i \in DOMAIN fates : \A j \in DOMAIN fates : l \in fates[j] <=> j = i

\* The drops that were reported and are not subtracted yet, by caller.
Unsubtracted ==
  {p \in {c \in Callers : apc[c] = "subtract"} \X (1 .. Width) :
     p[2] <= hold[p[1]]}

\* The counter of drops and the reports agree with the lines dropped, with any
\* number of callers, modulo the counter's width (atomic.AddUint64).
PumpAccounted ==
  (PumpDropped + reported) % Width
    = (Cardinality(dropped) + Cardinality(Unsubtracted)) % Width

\* The losses that were reported, by the place of the report in written.
ReportedLost ==
  {p \in (DOMAIN written) \X (1 .. Width) :
     written[p[1]][1] = ConnReport /\ p[2] <= written[p[1]][2]}

\* The same of ConnDropped, which only sendLogs changes: what was given up is
\* counted or was reported to the server.
ConnAccounted ==
  (ConnDropped + Cardinality(ReportedLost)) % Width = Len(lost) % Width

\* What leaves is in order, and what does not is counted and reported
\* (writeAsync, sendLogs).
Accounts == TypeOK /\ InOrder /\ PumpAccounted /\ ConnAccounted

\* Every line has one fate, and both counters and their reports agree with it
\* (writeAsync, sendLogs).
LinesAccounted == Accounts /\ OneFate

\* Every line that the Pump took is written, or given up and counted, whatever
\* the connection does, unless a panic ends the process (sendLogs).
Settled ==
  \A l \in Lines :
    l \in Range(Pump) ~> l \in Range(written) \cup Range(lost) \/ ~Alive

\* "return // chan is closed, end processing" (tcplog.go, sendLogs): once the
\* Pump is closed, Run comes to its end, unless a panic ends the process.
ClosedEnds == ~pumpOpen ~> kpc["Run"] = "done" \/ ~Alive

\* What is in the Pump is settled and Run ends with it, as stated above
\* (sendLogs, cleanup).
SettlesAndEnds == Settled /\ ClosedEnds
=============================================================================
