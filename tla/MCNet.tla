------------------------------ MODULE MCNet --------------------------------
(***************************************************************************)
(* The ends of the connections between programs, agents and services for  *)
(* TLC: Agent, the server that programs log to; Pipeline, which starts and *)
(* closes that server; Redis, the list between two agents; TCPRecv, the    *)
(* receiver of the TCP plugin; TcpRead, the synchronous half of the TCP    *)
(* logger.  They have no variable in common, so that each is checked by    *)
(* itself: one of them, focus, moves and the others keep an initial state. *)
(***************************************************************************)
EXTENDS Integers, FiniteSets

CONSTANTS Sinks, RedisSinks, Clients, MaxSent,     \* of Agent
          Sources, Local,                          \* of Pipeline
          MaxMsgs, MaxBreaks,                      \* of Redis
          Conns, MaxSends, Buffer,                 \* of TCPRecv
          Callers, MaxReads, MaxConns              \* of TcpRead

ASSUME NetAssumption ==
  /\ Sinks \in Nat \ {0} /\ RedisSinks \subseteq 1 .. Sinks
  /\ IsFiniteSet(Clients) /\ MaxSent \in Nat
  /\ Sources \in Nat /\ Local \in 1 .. Sources
  /\ MaxMsgs \in Nat /\ MaxBreaks \in Nat
  /\ MaxSends \in Nat /\ Buffer \in Nat \ {0}
  /\ IsFiniteSet(Callers) /\ MaxReads \in Nat /\ MaxConns \in Nat

VARIABLES
  apc, shut, conn, stream, sent, conns, torn, hand, got, refused, stuck, dead,
  loop, gpc, src, err, gate, outer, bound, server, shutListener, closed,
  dialed, crashed,
  caller, calls, feeder, opc, data, oconn, list, twice, dropped, ipc, active,
  iconn, overtaken, recvd, popped, breaks, redisDead,
  hpc, decoded, buf, recvClosed, panicked, generated,
  rpc, reads, syncConn, made, broken, written,
  focus

A == INSTANCE Agent
P == INSTANCE Pipeline WITH shut <- shutListener
R == INSTANCE Redis WITH dead <- redisDead
T == INSTANCE TCPRecv WITH MaxMsgs <- MaxSends, closed <- recvClosed
S == INSTANCE TcpRead WITH MaxCalls <- MaxReads, calls <- reads

agVars == <<apc, shut, conn, stream, sent, conns, torn, hand, got, refused,
            stuck, dead>>
piVars == <<loop, gpc, src, err, gate, outer, bound, server, shutListener,
            closed, dialed, crashed>>
reVars == <<caller, calls, feeder, opc, data, oconn, list, twice, dropped,
            ipc, active, iconn, overtaken, recvd, popped, breaks, redisDead>>
recvVars == <<hpc, decoded, buf, recvClosed, panicked, generated>>
readVars == <<rpc, reads, syncConn, made, broken, written>>
vars == <<agVars, piVars, reVars, recvVars, readVars, focus>>

InAgent == focus = "Agent" /\ UNCHANGED <<piVars, reVars, recvVars, readVars, focus>>
InPipe  == focus = "Pipeline" /\ UNCHANGED <<agVars, reVars, recvVars, readVars, focus>>
InRedis == focus = "Redis" /\ UNCHANGED <<agVars, piVars, recvVars, readVars, focus>>
InRecv  == focus = "TCPRecv" /\ UNCHANGED <<agVars, piVars, reVars, readVars, focus>>
InRead  == focus = "TcpRead" /\ UNCHANGED <<agVars, piVars, reVars, recvVars, focus>>

-----------------------------------------------------------------------------
\* A component that does not move starts in one of its initial states.
Init ==
  /\ A!Init /\ P!Init /\ R!Init /\ T!Init /\ S!Init
  /\ focus \in {"Agent", "Pipeline", "Redis", "TCPRecv", "TcpRead"}
  /\ focus # "Pipeline" => dialed = {}
  /\ focus # "Redis" => feeder = "open"

Next == \/ InAgent /\ A!Next
        \/ InPipe /\ P!Next
        \/ InRedis /\ R!Next
        \/ InRecv /\ T!Next
        \/ InRead /\ S!Next

Spec == Init /\ [][Next]_vars

\* The fairness of each module.
FairSpec ==
  /\ Spec
  /\ \A c \in Clients : WF_vars(InAgent /\ ~dead /\ A!Serve(c))
  /\ WF_vars(InRedis /\ ~redisDead /\ R!Process) /\ WF_vars(InRedis /\ R!Start)
  /\ \A c \in Conns : SF_vars(InRecv /\ T!Put(c))
  /\ WF_vars(InRecv /\ T!Generate)
  /\ \A c \in Callers : /\ WF_vars(InRead /\ S!Step(c))
                        /\ SF_vars(InRead /\ S!Dial(c))

-----------------------------------------------------------------------------
(* Properties                                                              *)

\* The agent hands on what its clients sent, in order, to each sink that the
\* sinks before it left it to (agent/local.go, serve, ManyReceiver, trackConn).
Relays == A!Relays

\* What a client sent is handed to the sinks, whatever other clients and Close
\* do, unless a sink no longer returns or the process died (agent/local.go).
EventuallyRelayed == A!EventuallyRelayed

\* Each source of a pipeline is started by its own goroutine or an earlier one,
\* and Start returns when all have, never once it listens (agent/pipeline.go).
PipelineRuns == P!PipelineRuns

\* A redis list joins two agents as a queue would, but for broken connections
\* (agent/redis.go, process, Start).
Queues == R!Queues

\* Receive returns unless process has given up, and Start after Close unless
\* Close closed a connection about to be replaced or recv.Receive blocks for ever
\* (agent/redis.go).
RedisReturns == R!RedisReturns

\* The messages of one connection are returned in order, without gap or
\* repetition, and an acked one is returned, in the buffer or in its handler's
\* hand (tcp_recv.go, HandleGenerator, Generate, Close).
KeepsAcked == T!KeepsAcked

\* A message that was acked is returned by Generate, unless Close is called
\* (tcp_recv.go).
AckedReturned == T!AckedReturned

\* A Read that returned has written its line, once, the lines of a caller are
\* written in the order of its calls, and callers that race to the first dial
\* leave at most one connection each (tcplog.go, Read).
ReadsWritten == S!ReadsWritten

\* A Read returns, unless syncConn is broken, which nothing replaces
\* (tcplog.go, Read).
ReadReturns == S!ReadReturns
=============================================================================
