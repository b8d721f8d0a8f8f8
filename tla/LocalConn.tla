----------------------------- MODULE LocalConn -----------------------------
(***************************************************************************)
(* The system logger, cypress.localConn (system.go): Write puts a message  *)
(* in the feeder, the process goroutine sends it to the agent over a unix  *)
(* socket, buffers it while the agent is away, and on Close drains the     *)
(* feeder and flushes once more.                                           *)
(*                                                                         *)
(* The agent (agent/local.go) may stop and start at any moment.  A send    *)
(* fails exactly when the connection's other end is gone; a message whose  *)
(* send succeeded has left the logger's hands.  Messages are numbered in   *)
(* the order in which they enter the feeder.                               *)
(***************************************************************************)
EXTENDS Integers, Sequences, SequencesExt

CONSTANTS
  MaxMsgs,    \* bound: messages given to Write
  MaxStops,   \* bound: times the agent stops
  Backlog,    \* capacity of the feeder, LOG_BACKLOG
  MaxBuffer,  \* cMaxBuffer
  MaxTries    \* cMaxTries

ASSUME LocalAssumption ==
  /\ MaxMsgs \in Nat
  /\ MaxStops \in Nat
  /\ Backlog \in Nat \ {0}
  /\ MaxBuffer \in Nat \ {0}
  /\ MaxTries \in Nat \ {0}

VARIABLES
  lpc,        \* where process is
  connected,  \* l.connected
  buffer,     \* l.buffer
  feeder,     \* the channel l.feeder
  tries,      \* finalFlush's tries, counted up to MaxTries + 1: the code only
              \* compares it with MaxTries
  caller,     \* where a caller of Close is
  offered,    \* number of messages put in the feeder
  asked,      \* offered when Close was called
  written,    \* messages sent, in order
  dropped,    \* messages pushed out of the full buffer
  listening,  \* the agent accepts connections
  whole,      \* the other end of l.conn is open
  stops       \* times the agent stopped

logVars   == <<feeder, offered, caller, asked>>
agentVars == <<listening, whole, stops>>
vars == <<lpc, connected, buffer, tries, written, dropped, logVars, agentVars>>

Msgs == 1 .. MaxMsgs

-----------------------------------------------------------------------------
(* The callers of the Logger                                               *)

Write ==
  /\ offered < MaxMsgs /\ Len(feeder) < Backlog
  /\ offered' = offered + 1
  /\ feeder' = Append(feeder, offered + 1)
  /\ UNCHANGED <<lpc, connected, buffer, tries, written, dropped, caller,
                 asked, agentVars>>

\* Close sends on the unbuffered shutdown channel and then waits for done.
Close ==
  /\ caller = "open"
  /\ caller' = "shutdown"
  /\ asked' = offered
  /\ UNCHANGED <<lpc, connected, buffer, tries, written, dropped, feeder,
                 offered, agentVars>>

-----------------------------------------------------------------------------
(* save, send, dial                                                        *)

\* A full buffer takes m at its front and loses its last message.
Saved(m) == IF Len(buffer) >= MaxBuffer
            THEN <<m>> \o SubSeq(buffer, 1, MaxBuffer - 1)
            ELSE Append(buffer, m)

Save(m) ==
  /\ buffer' = Saved(m)
  /\ dropped' = dropped \cup
       (IF Len(buffer) >= MaxBuffer THEN {buffer[MaxBuffer]} ELSE {})

\* l.buffer[1:]
Sent == Tail(buffer)

\* One round of the loop that empties the buffer.
SendFirst ==
  /\ connected /\ buffer # << >> /\ whole
  /\ written' = Append(written, Head(buffer))
  /\ buffer' = Sent
  /\ UNCHANGED <<lpc, connected, tries, dropped, logVars, agentVars>>

\* l.conn.Close(); l.connected = false
Disconnected == FALSE

\* A send in that loop fails; process goes on at next.
SendFails(next) ==
  /\ connected /\ buffer # << >> /\ ~whole
  /\ connected' = Disconnected
  /\ lpc' = next
  /\ UNCHANGED <<buffer, written, dropped, logVars, agentVars>>

Dialed ==
  /\ ~connected /\ listening
  /\ connected' = TRUE
  /\ whole' = TRUE
  /\ UNCHANGED <<buffer, written, dropped, logVars, listening, stops>>

-----------------------------------------------------------------------------
(* process                                                                 *)

\* case m := <-l.feeder
TakeMessage ==
  /\ lpc = "select" /\ feeder # << >>
  /\ feeder' = Tail(feeder)
  /\ IF connected /\ whole
     THEN /\ written' = Append(written, Head(feeder))
          /\ UNCHANGED <<lpc, buffer, dropped>>
     ELSE /\ Save(Head(feeder))
          /\ lpc' = "flush"
          /\ UNCHANGED written
  /\ UNCHANGED <<connected, tries, offered, caller, asked, agentVars>>

\* Mutant: the tick only keeps the connection.
TicksInto == "select"

\* A tick flushes the buffer.
TickInto == "flush"

\* case <-tick.C
TakeTick ==
  /\ lpc = "select"
  /\ lpc' = TickInto
  /\ UNCHANGED <<connected, buffer, tries, written, dropped, logVars, agentVars>>

\* What shutdown does first: drain the feeder.
ShutdownInto == "drain"

\* case <-l.shutdown
TakeShutdown ==
  /\ lpc = "select" /\ caller = "shutdown"
  /\ lpc' = ShutdownInto
  /\ caller' = "done"
  /\ UNCHANGED <<connected, buffer, tries, written, dropped, feeder, offered,
                 asked, agentVars>>

\* Mutant: a new connection takes new messages first.
DialInto == "select"

\* A new connection first gets what is in the buffer.
AfterDial == "flush"

\* flush, from its entry to its return to the select.
FlushDials     == lpc = "flush" /\ Dialed /\ lpc' = AfterDial /\ UNCHANGED tries
FlushSends     == lpc = "flush" /\ SendFirst
FlushSendFails == lpc = "flush" /\ SendFails("select") /\ UNCHANGED tries
FlushReturns ==
  /\ lpc = "flush"
  /\ IF connected THEN buffer = << >> ELSE ~listening
  /\ lpc' = "select"
  /\ UNCHANGED <<connected, buffer, tries, written, dropped, logVars, agentVars>>

\* The drain on shutdown: what is in the feeder is saved, sent or not.
Drain ==
  /\ lpc = "drain"
  /\ IF feeder # << >>
     THEN /\ feeder' = Tail(feeder)
          /\ Save(Head(feeder))
          /\ UNCHANGED lpc
     ELSE /\ lpc' = "start"
          /\ UNCHANGED <<feeder, buffer, dropped>>
  /\ UNCHANGED <<connected, tries, written, offered, caller, asked, agentVars>>

\* tries++ at the label start.
FinalStart ==
  /\ lpc = "start"
  /\ tries' = IF tries > MaxTries THEN tries ELSE tries + 1
  /\ lpc' = "final"
  /\ UNCHANGED <<connected, buffer, written, dropped, logVars, agentVars>>

\* Mutant: the next attempt is not counted.
RetriesUncounted == IF tries = MaxTries THEN "done" ELSE "final"

\* tries is compared with MaxTries only here.
AfterDialFails == IF tries = MaxTries THEN "done" ELSE "start"

FinalDialFails ==
  /\ lpc = "final" /\ ~connected /\ ~listening
  /\ lpc' = AfterDialFails
  /\ UNCHANGED <<connected, buffer, tries, written, dropped, logVars, agentVars>>

FinalDials     == lpc = "final" /\ Dialed /\ UNCHANGED <<lpc, tries>>
FinalSends     == lpc = "final" /\ SendFirst
FinalSendFails == lpc = "final" /\ SendFails("start") /\ UNCHANGED tries
FinalReturns ==
  /\ lpc = "final" /\ connected /\ buffer = << >>
  /\ lpc' = "done"
  /\ UNCHANGED <<connected, buffer, tries, written, dropped, logVars, agentVars>>

\* l.done <- struct{}{} meets the caller of Close, who returns.
Done ==
  /\ lpc = "done" /\ caller = "done"
  /\ lpc' = "returned"
  /\ caller' = "closed"
  /\ UNCHANGED <<connected, buffer, tries, written, dropped, feeder, offered,
                 asked, agentVars>>

-----------------------------------------------------------------------------
(* The agent                                                               *)

\* The agent stops listening; its connections end with it if it is the whole
\* process that stops, and stay open if only the server was closed.
AgentStops ==
  /\ listening /\ stops < MaxStops
  /\ listening' = FALSE
  /\ whole' \in {whole, FALSE}
  /\ stops' = stops + 1
  /\ UNCHANGED <<lpc, connected, buffer, tries, written, dropped, logVars>>

AgentStarts ==
  /\ ~listening
  /\ listening' = TRUE
  /\ UNCHANGED <<lpc, connected, buffer, tries, written, dropped, logVars,
                 whole, stops>>

-----------------------------------------------------------------------------
Init ==
  /\ lpc = "select"
  /\ connected = FALSE
  /\ buffer = << >> /\ feeder = << >>
  /\ tries = 0
  /\ caller = "open"
  /\ offered = 0 /\ asked = 0
  /\ written = << >> /\ dropped = {}
  /\ listening \in BOOLEAN
  /\ whole = FALSE
  /\ stops = 0

FlushStep == FlushDials \/ FlushSends \/ FlushSendFails \/ FlushReturns
FinalStep == \/ Drain \/ FinalStart \/ FinalDialFails \/ FinalDials
             \/ FinalSends \/ FinalSendFails \/ FinalReturns \/ Done
Select    == TakeMessage \/ TakeTick \/ TakeShutdown

Next == \/ Write \/ Close
        \/ Select \/ FlushStep \/ FinalStep
        \/ AgentStops \/ AgentStarts

Spec == Init /\ [][Next]_vars

\* process is a goroutine that runs whenever it can; its select takes each
\* case that stays ready sooner or later (Go chooses at random).
FairSpec == /\ Spec
            /\ WF_vars(FlushStep) /\ WF_vars(FinalStep)
            /\ SF_vars(TakeMessage) /\ SF_vars(TakeTick)
            /\ SF_vars(TakeShutdown)

-----------------------------------------------------------------------------
(* Properties                                                              *)

TypeOK ==
  /\ lpc \in {"select", "flush", "drain", "start", "final", "done", "returned"}
  /\ connected \in BOOLEAN /\ listening \in BOOLEAN /\ whole \in BOOLEAN
  /\ buffer \in Seq(Msgs) /\ Len(buffer) <= MaxBuffer
  /\ feeder \in Seq(Msgs) /\ Len(feeder) <= Backlog
  /\ tries \in 0 .. MaxTries + 1
  /\ caller \in {"open", "shutdown", "done", "closed"}
  /\ offered \in 0 .. MaxMsgs /\ asked \in 0 .. offered
  /\ written \in Seq(Msgs)
  /\ dropped \subseteq Msgs
  /\ stops \in 0 .. MaxStops

\* Whatever the agent does, every message Write accepted is in exactly one
\* place, and in it once: still in the feeder or the buffer, sent, or pushed
\* out of the full buffer.  No reconnect sends a message twice or forgets one
\* (process, flush, finalFlush).
Accounted ==
  LET all == written \o buffer \o feeder
  IN  /\ IsInjective(all)
      /\ Range(all) \cap dropped = {}
      /\ Range(all) \cup dropped = 1 .. offered

\* As long as the buffer never overflowed, the agent is sent the messages in
\* the order of Write: the fast case of process never overtakes what flush has
\* still to send.
InOrder ==
  dropped = {} => written \o buffer \o feeder = [i \in 1 .. offered |-> i]

\* When Close returns, what Write accepted before Close was called was sent or
\* dropped, or finalFlush gave up without a connection.
ClosedFlushed ==
  caller = "closed" =>
    \/ 1 .. asked \subseteq Range(written) \cup dropped
    \/ tries = MaxTries /\ ~connected

\* The logger sends every message once and in order, and leaves nothing behind
\* silently at its end (process, flush, finalFlush).
Orderly == TypeOK /\ Accounted /\ InOrder /\ ClosedFlushed

\* "Close the background proces goroutine" (system.go, Close): a call of Close
\* returns even if the agent never comes back, unless the failed sends of
\* finalFlush took tries past the one value it compares it with; then it is up
\* to the agent.
CloseReturns ==
  /\ caller = "shutdown" ~> (caller = "closed" \/ tries > MaxTries)
  /\ <>[]listening => (caller = "shutdown" ~> caller = "closed")

\* Once the agent stays up, a message that Write accepted does not stay with
\* the logger: it is sent or dropped, unless Close came first.
Recovers ==
  <>[]listening =>
    \A m \in Msgs :
      m \in Range(feeder \o buffer)
        ~> (m \in Range(written) \cup dropped \/ caller # "open")

\* Close returns and the logger recovers from any absence of the agent, each
\* with the exceptions stated above (flush, tick, Close).
ClosesAndRecovers == CloseReturns /\ Recovers
=============================================================================
