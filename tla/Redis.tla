------------------------------- MODULE Redis -------------------------------
(***************************************************************************)
(* Two agents joined by a redis list (agent/redis.go): RedisOutput, a      *)
(* sink, pushes each message with lpush in its process goroutine;          *)
(* RedisInput, a source, takes them with brpop.                            *)
(*                                                                         *)
(* The redis server, its list and the client library are external.  A      *)
(* connection ends with io.EOF or with another error, and then gives that  *)
(* error for ever; a command may have been carried out before.  Messages   *)
(* are numbered as Receive is called with them; Foreign is an entry that   *)
(* does not unmarshal.                                                     *)
(***************************************************************************)
EXTENDS Integers, Sequences, SequencesExt

CONSTANTS
  MaxMsgs,   \* bound: calls of Receive
  MaxBreaks  \* bound: connections that end

VARIABLES
  caller,    \* where a caller of Receive is
  calls,     \* messages it was called with
  feeder,    \* "nil", "open" or "closed"
  opc,       \* where process is
  data,      \* the message it pushes, 0: none
  oconn,     \* RedisOutput.conn: "ok", "eof" or "err"
  list,      \* the redis list, what brpop takes next at the front
  twice,     \* messages pushed again after an EOF
  dropped,   \* messages process gave up, and why
  ipc,       \* where RedisInput.Start is
  active,    \* RedisInput.active
  iconn,     \* RedisInput.conn
  overtaken, \* Close closed a connection that Start was about to replace
  recvd,     \* messages given to RedisInput.recv
  popped,    \* messages brpop took whose answer was lost
  breaks,    \* connections that ended
  dead       \* the output's process panicked

outVars == <<caller, calls, feeder, opc, data, oconn, twice, dropped, dead>>
inVars  == <<ipc, active, iconn, overtaken, recvd, popped>>
vars == <<outVars, inVars, list, breaks>>

Foreign == 0
Ends == {"eof", "err"}

-----------------------------------------------------------------------------
(* RedisOutput                                                             *)

\* Marshalling does not fail here.
Receive ==
  /\ caller = "idle" /\ calls < MaxMsgs
  /\ calls' = calls + 1
  /\ IF feeder = "closed" THEN dead' = TRUE /\ UNCHANGED caller
                            ELSE caller' = "sending" /\ UNCHANGED dead
  /\ UNCHANGED <<feeder, opc, data, oconn, twice, dropped, inVars, list, breaks>>

\* The feeder has no buffer: process takes the message and Receive returns.
Take ==
  /\ opc = "take" /\ caller = "sending" /\ feeder = "open"
  /\ data' = calls
  /\ caller' = "idle" /\ opc' = "push"
  /\ UNCHANGED <<calls, feeder, oconn, twice, dropped, dead, inVars, list, breaks>>

\* A closed feeder gives nil.
TakeNil ==
  /\ opc = "take" /\ feeder = "closed"
  /\ opc' = "returned"
  /\ UNCHANGED <<caller, calls, feeder, data, oconn, twice, dropped, dead,
                 inVars, list, breaks>>

Push ==
  /\ opc = "push" /\ oconn = "ok"
  /\ list' = Append(list, data)
  /\ opc' = "take" /\ data' = 0
  /\ UNCHANGED <<caller, calls, feeder, oconn, twice, dropped, dead, inVars, breaks>>

\* Mutant: the message is not kept for the retry.
ForgetsAtEOF(how) == [pc |-> IF how = "eof" THEN "dial" ELSE "take", data |-> 0]

\* io.EOF: redial, then retry; another error is printed and the message lost.
AfterPush(how) == IF how = "eof" THEN [pc |-> "dial", data |-> data]
                                 ELSE [pc |-> "take", data |-> 0]

PushError(how) ==
  LET a == AfterPush(how)
  IN  /\ opc' = a.pc /\ data' = a.data
      /\ dropped' = IF how = "err" THEN dropped \cup {data} ELSE dropped

PushFails ==
  /\ opc = "push" /\ oconn \in Ends
  /\ PushError(oconn)
  /\ UNCHANGED <<caller, calls, feeder, oconn, twice, dead, inVars, list, breaks>>

\* The connection ends after the server has carried out the lpush.
PushUnanswered(how) ==
  /\ opc = "push" /\ oconn = "ok" /\ breaks < MaxBreaks
  /\ breaks' = breaks + 1
  /\ list' = Append(list, data)
  /\ oconn' = how
  /\ PushError(how)
  /\ twice' = IF how = "eof" THEN twice \cup {data} ELSE twice
  /\ UNCHANGED <<caller, calls, feeder, dead, inVars>>

Redial ==
  /\ opc = "dial"
  /\ oconn' = "ok" /\ opc' = "push"
  /\ UNCHANGED <<caller, calls, feeder, data, twice, dropped, dead, inVars, list, breaks>>

\* process returns, with its message; no one reads the feeder again.
RedialFails ==
  /\ opc = "dial" /\ breaks < MaxBreaks
  /\ breaks' = breaks + 1
  /\ opc' = "returned" /\ data' = 0
  /\ dropped' = dropped \cup {data}
  /\ UNCHANGED <<caller, calls, feeder, oconn, twice, dead, inVars, list>>

\* Closing a nil feeder panics, and so does a Receive that waits on it.
CloseOutput ==
  /\ feeder # "closed"
  /\ feeder' = "closed"
  /\ dead' = (feeder = "nil" \/ caller = "sending")
  /\ UNCHANGED <<caller, calls, opc, data, oconn, twice, dropped, inVars, list, breaks>>

-----------------------------------------------------------------------------
(* RedisInput                                                              *)

\* brpop waits for an entry.  One that does not unmarshal is printed; with any
\* other Start calls recv.Receive.
Pop ==
  /\ ipc = "pop" /\ iconn = "ok" /\ list # << >>
  /\ list' = Tail(list)
  /\ IF Head(list) = Foreign THEN UNCHANGED <<recvd, ipc>>
                             ELSE recvd' = Append(recvd, Head(list)) /\ ipc' = "receive"
  /\ UNCHANGED <<outVars, active, iconn, overtaken, popped, breaks>>

\* recv.Receive returns, or blocks for ever, as that of a RedisOutput does whose
\* process has returned.  Its error is not looked at.
InputReceived ==
  /\ ipc = "receive"
  /\ ipc' \in {"pop", "blocked"}
  /\ UNCHANGED <<outVars, active, iconn, overtaken, recvd, popped, list, breaks>>

PopUnanswered(how) ==
  /\ ipc = "pop" /\ iconn = "ok" /\ list # << >> /\ breaks < MaxBreaks
  /\ breaks' = breaks + 1
  /\ list' = Tail(list)
  /\ popped' = popped \cup {Head(list)}
  /\ iconn' = how
  /\ UNCHANGED <<outVars, ipc, active, overtaken, recvd>>

\* Mutant: only a connection the server ended is noticed.
PopFailsAtEOF == ipc = "pop" /\ iconn = "eof" /\ ipc' = "dial"

\* The answer of Do: io.EOF ends Start if Close was called; another error ends
\* it in any case.
PopFailed ==
  /\ ipc = "pop" /\ iconn # "ok"
  /\ ipc' = IF iconn = "eof" /\ active THEN "dial" ELSE "returned"

PopFails ==
  /\ PopFailed
  /\ UNCHANGED <<outVars, active, iconn, overtaken, recvd, popped, list, breaks>>

\* The new connection is not in r.conn yet.
InputDials ==
  /\ ipc = "dial"
  /\ ipc' \in {"keep", "returned"}
  /\ UNCHANGED <<outVars, active, iconn, overtaken, recvd, popped, list, breaks>>

InputKeeps ==
  /\ ipc = "keep"
  /\ iconn' = "ok" /\ ipc' = "pop"
  /\ UNCHANGED <<outVars, active, overtaken, recvd, popped, list, breaks>>

CloseInput ==
  /\ active
  /\ active' = FALSE
  /\ iconn' = "err"
  /\ overtaken' = (ipc \in {"dial", "keep"})
  /\ UNCHANGED <<outVars, ipc, recvd, popped, list, breaks>>

-----------------------------------------------------------------------------
(* The server                                                              *)

Break(how) ==
  /\ breaks < MaxBreaks
  /\ breaks' = breaks + 1
  /\ \/ oconn = "ok" /\ oconn' = how /\ UNCHANGED iconn
     \/ iconn = "ok" /\ iconn' = how /\ UNCHANGED oconn
  /\ UNCHANGED <<caller, calls, feeder, opc, data, twice, dropped, dead, ipc, active,
                 overtaken, recvd, popped, list>>

\* Another client's entry; one is enough.
PushForeign ==
  /\ Foreign \notin Range(list) /\ breaks < MaxBreaks
  /\ breaks' = breaks + 1
  /\ list' = Append(list, Foreign)
  /\ UNCHANGED <<outVars, inVars>>

-----------------------------------------------------------------------------
\* RedisOutput.Start's error, a failed dial, is not looked at by ParseSink.
Init ==
  /\ caller = "idle" /\ calls = 0
  /\ \/ feeder = "open" /\ opc = "take"
     \/ feeder = "nil" /\ opc = "unstarted"
  /\ data = 0 /\ oconn = "ok" /\ list = << >> /\ twice = {} /\ dropped = {}
  /\ ipc = "pop" /\ active = TRUE /\ iconn = "ok" /\ overtaken = FALSE
  /\ recvd = << >> /\ popped = {} /\ breaks = 0 /\ dead = FALSE

Process == Take \/ TakeNil \/ Push \/ PushFails \/ Redial
           \/ RedialFails \/ \E how \in Ends : PushUnanswered(how)
Start == Pop \/ InputReceived \/ PopFails \/ InputDials \/ InputKeeps
         \/ \E how \in Ends : PopUnanswered(how)

Next ==
  \/ /\ ~dead
     /\ Receive \/ CloseOutput \/ Process
  \/ Start \/ CloseInput
  \/ PushForeign \/ \E how \in Ends : Break(how)

Spec == Init /\ [][Next]_vars

\* process and Start are goroutines that run when they can.
FairSpec == Spec /\ WF_vars(~dead /\ Process) /\ WF_vars(Start)

-----------------------------------------------------------------------------
(* Properties                                                              *)

TypeOK ==
  /\ caller \in {"idle", "sending"} /\ calls \in 0 .. MaxMsgs
  /\ feeder \in {"nil", "open", "closed"}
  /\ opc \in {"unstarted", "take", "push", "dial", "returned"}
  /\ data \in 0 .. MaxMsgs /\ oconn \in {"ok"} \cup Ends
  /\ list \in Seq(0 .. MaxMsgs) /\ recvd \in Seq(1 .. MaxMsgs)
  /\ ipc \in {"pop", "receive", "blocked", "dial", "keep", "returned"} /\ iconn \in {"ok"} \cup Ends

\* What is on its way, oldest first.
Path == recvd \o list \o (IF data = 0 THEN << >> ELSE <<data>>)

\* Through any breaks of either connection the receiver gets the messages in
\* the order of Receive, repeated only where a push ended with io.EOF after
\* the server had it (process: goto retry).
OrderKept ==
  \A i, j \in DOMAIN Path :
    i < j /\ Foreign \notin {Path[i], Path[j]} =>
      Path[i] < Path[j] \/ (Path[i] = Path[j] /\ Path[i] \in twice)

\* A message Receive returned for is on its way or was received, unless process
\* printed an error for it or brpop's answer was lost with its connection.
NoneForgotten ==
  LET accepted == 1 .. (IF caller = "sending" \/ dead THEN calls - 1 ELSE calls)
  IN  feeder # "nil" =>
        \A m \in accepted : m \in Range(Path) \cup dropped \cup popped \/ dead

\* The list joins two agents as a queue would, but for broken connections
\* (redis.go).
Queues == TypeOK /\ OrderKept /\ NoneForgotten

\* Receive returns, unless the feeder was never made or process returned after
\* a failed redial; Start returns after Close, unless Close closed the
\* connection that Start was replacing, or a call of recv.Receive blocks for ever
\* (RedisOutput.process, RedisInput.Start).
RedisReturns ==
  /\ caller = "sending" ~> (caller = "idle" \/ opc \in {"unstarted", "returned"} \/ dead)
  /\ ~active ~> (ipc \in {"returned", "blocked"} \/ overtaken)
=============================================================================
