------------------------------ MODULE TcpRead ------------------------------
(***************************************************************************)
(* The synchronous half of the TCP logger (plugins/lib/tcplog/tcplog.go):  *)
(* Receive, that is Read, dials if there is no syncConn, writes the line   *)
(* to it and, if that fails, goes back to retry.  The routes that share    *)
(* the logger call it concurrently; nothing locks syncConn.                *)
(*                                                                         *)
(* Connections are numbered as they are made; 0 is nil.                    *)
(***************************************************************************)
EXTENDS Integers, Sequences, SequencesExt, FiniteSets

CONSTANTS
  Callers,    \* goroutines that call Receive
  MaxCalls,   \* bound: calls of each
  MaxConns    \* bound: connections made

VARIABLES
  rpc,        \* where each caller is in Read
  calls,      \* the number of its calls
  syncConn,
  made,       \* connections made so far
  broken,     \* the connections that no longer take a write
  written     \* the lines written, with their connections

vars == <<rpc, calls, syncConn, made, broken, written>>

-----------------------------------------------------------------------------
\* Read is called; formatting the message only makes the line.
Read(c) ==
  /\ rpc[c] = "idle" /\ calls[c] < MaxCalls
  /\ calls' = [calls EXCEPT ![c] = @ + 1]
  /\ rpc' = [rpc EXCEPT ![c] = "test"]
  /\ UNCHANGED <<syncConn, made, broken, written>>

\* for l.syncConn == nil
Test(c) ==
  /\ rpc[c] = "test"
  /\ rpc' = [rpc EXCEPT ![c] = IF syncConn = 0 THEN "dial" ELSE "write"]
  /\ UNCHANGED <<calls, syncConn, made, broken, written>>

\* Mutant: the new connection is not kept.
Forgets(k) == 0

\* l.syncConn = c: whatever another caller has put there is replaced.
Keeps(k) == k

Dial(c) ==
  /\ rpc[c] = "dial" /\ made < MaxConns
  /\ made' = made + 1
  /\ syncConn' = Keeps(made + 1)
  /\ rpc' = [rpc EXCEPT ![c] = "test"]
  /\ UNCHANGED <<calls, broken, written>>

\* A second's sleep; the loop tests syncConn again.
DialFails(c) ==
  /\ rpc[c] = "dial"
  /\ rpc' = [rpc EXCEPT ![c] = "test"]
  /\ UNCHANGED <<calls, syncConn, made, broken, written>>

\* The write succeeds and Read returns.
Write(c) ==
  /\ rpc[c] = "write" /\ syncConn \notin broken
  /\ written' = Append(written, [conn |-> syncConn, of |-> c, n |-> calls[c]])
  /\ rpc' = [rpc EXCEPT ![c] = "idle"]
  /\ UNCHANGED <<calls, syncConn, made, broken>>

\* Mutant: Read returns without having written.
Returns == "idle"

\* goto retry: syncConn is left as it is.
Retries == "test"

WriteFails(c) ==
  /\ rpc[c] = "write" /\ syncConn \in broken
  /\ rpc' = [rpc EXCEPT ![c] = Retries]
  /\ UNCHANGED <<calls, syncConn, made, broken, written>>

\* The server or the network ends a connection.
Break(k) ==
  /\ k <= made /\ k \notin broken
  /\ broken' = broken \cup {k}
  /\ UNCHANGED <<rpc, calls, syncConn, made, written>>

-----------------------------------------------------------------------------
Init ==
  /\ rpc = [c \in Callers |-> "idle"] /\ calls = [c \in Callers |-> 0]
  /\ syncConn = 0 /\ made = 0 /\ broken = {} /\ written = << >>

Step(c) == Test(c) \/ Dial(c) \/ DialFails(c) \/ Write(c) \/ WriteFails(c)
Next == \/ \E c \in Callers : Read(c) \/ Step(c)
        \/ \E k \in 1 .. MaxConns : Break(k)

Spec == Init /\ [][Next]_vars

\* Callers run when they can, and a dial that is repeated succeeds at last.
FairSpec ==
  /\ Spec
  /\ \A c \in Callers : WF_vars(Step(c)) /\ SF_vars(Dial(c))

-----------------------------------------------------------------------------
(* Properties                                                              *)

TypeOK ==
  /\ rpc \in [Callers -> {"idle", "test", "dial", "write"}]
  /\ calls \in [Callers -> 0 .. MaxCalls]
  /\ syncConn \in 0 .. MaxConns /\ made \in 0 .. MaxConns
  /\ broken \subseteq 1 .. made
  /\ written \in Seq([conn : 1 .. MaxConns, of : Callers, n : 1 .. MaxCalls])

\* Whichever connections break and whichever caller's dial is overwritten, a
\* Read that returned has written its line, once, and the lines of a caller are
\* written in the order of its calls (Read returns nil only after a write).
ReturnedWritten ==
  /\ \A i, j \in DOMAIN written :
       i < j /\ written[i].of = written[j].of => written[i].n < written[j].n
  /\ \A c \in Callers, n \in 1 .. MaxCalls :
       (\E w \in Range(written) : w.of = c /\ w.n = n)
         <=> (n < calls[c] \/ (n = calls[c] /\ rpc[c] = "idle"))

\* Callers that race to the first dial leave connections behind, but never more
\* than one each: no caller dials once there is a syncConn.
DialsBounded ==
  made <= Cardinality({c \in Callers : calls[c] > 0})

\* Concurrent callers neither lose a line nor dial for ever (Read).
ReadsWritten == TypeOK /\ ReturnedWritten /\ DialsBounded

\* "Given a stream on stdin, the papertrail command will read those messages in
\* and send them to Papertrail via TCP." (plugins/papertrail/cli.go): a Read
\* that can reach the server returns, with its line written, unless syncConn is
\* a broken connection, which nothing replaces.
ReadReturns ==
  \A c \in Callers : rpc[c] # "idle" ~> rpc[c] = "idle" \/ syncConn \in broken
=============================================================================
