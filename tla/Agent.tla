------------------------------- MODULE Agent -------------------------------
(***************************************************************************)
(* The local agent's server (agent/local.go): it listens on the unix       *)
(* socket that localConn dials and serves each connection in a goroutine   *)
(* of its own, which hands every message to the sinks, one after another.  *)
(*                                                                         *)
(* A sink is what ParseSink returns, a Spool or a RedisOutput: it marshals *)
(* the message it is given, so that Receive(nil) is a nil dereference and  *)
(* ends the process, and a RedisOutput may stop taking messages for good   *)
(* (Redis).                                                                *)
(***************************************************************************)
EXTENDS Integers, Sequences, SequencesExt, FiniteSets

CONSTANTS
  Sinks,     \* number of the pipeline's sinks
  RedisSinks, \* those that are a RedisOutput
  Clients,   \* connections that are made to the socket
  MaxSent    \* bound: messages sent on all of them

VARIABLES
  apc,       \* where Start is
  shut,      \* Close was called
  conn,      \* where each connection is
  stream,    \* what its client has written and serve has not read
  sent,      \* messages its client has written
  conns,     \* s.conns
  torn,      \* s.conns lost its tail while trackConn was linking to it
  hand,      \* the message serve handed to the sinks: <<number, next sink>>
  got,       \* what each sink received: <<connection, number>>
  refused,   \* messages a sink returned an error for
  stuck,     \* sinks that no longer return
  dead       \* the process panicked

connVars == <<conn, conns, torn>>
sinkVars == <<got, refused, stuck>>
vars == <<apc, shut, connVars, stream, sent, hand, sinkVars, dead>>

None == << >>

\* How a stream ends: io.EOF, or another error.
EOF == 0
Broken == -1

-----------------------------------------------------------------------------
(* Start and Close                                                         *)

Listen ==
  /\ apc = "start"
  /\ apc' \in {"accept", "failed"}
  /\ UNCHANGED <<shut, connVars, stream, sent, hand, sinkVars, dead>>

\* s.server is nil before Listen.  What waits in the listener's queue is reset.
Close ==
  /\ ~shut
  /\ shut' = TRUE
  /\ dead' = (apc # "accept")
  /\ conn' = [c \in Clients |-> IF conn[c] = "queued" THEN "gone" ELSE conn[c]]
  /\ UNCHANGED <<apc, conns, torn, stream, sent, hand, sinkVars>>

-----------------------------------------------------------------------------
(* The clients: localConn and others                                       *)

Dial(c) ==
  /\ conn[c] = "new" /\ apc = "accept" /\ ~shut
  /\ conn' = [conn EXCEPT ![c] = "queued"]
  /\ UNCHANGED <<apc, shut, conns, torn, stream, sent, hand, sinkVars, dead>>

Writing(c) == conn[c] \in {"queued", "linking", "served"}
              /\ (\A i \in DOMAIN stream[c] : stream[c][i] > 0)

\* The messages sent so far.
Sent == {m \in Clients \X (1 .. MaxSent) : m[2] <= sent[m[1]]}

Write(c) ==
  /\ Writing(c) /\ Cardinality(Sent) < MaxSent
  /\ sent' = [sent EXCEPT ![c] = @ + 1]
  /\ stream' = [stream EXCEPT ![c] = Append(@, sent[c] + 1)]
  /\ UNCHANGED <<apc, shut, connVars, hand, sinkVars, dead>>

\* The stream ends between two messages, or inside one, or with a byte that
\* starts none.
End(c, how) ==
  /\ Writing(c)
  /\ stream' = [stream EXCEPT ![c] = Append(@, how)]
  /\ UNCHANGED <<apc, shut, connVars, sent, hand, sinkVars, dead>>

-----------------------------------------------------------------------------
(* Accept, serve                                                           *)

\* trackConn has read the list's tail, without the lock of removeConn.
Accept(c) ==
  /\ conn[c] = "queued"
  /\ \A d \in Clients : conn[d] # "linking"
  /\ conn' = [conn EXCEPT ![c] = "linking"]
  /\ UNCHANGED <<apc, shut, conns, torn, stream, sent, hand, sinkVars, dead>>

\* If the tail was removed since, its next is nil and PushBack panics, or the
\* element hangs on a removed one and Front does not reach it.
Track(c) ==
  /\ conn[c] = "linking"
  /\ conn' = [conn EXCEPT ![c] = "served"]
  /\ \/ conns' = Append(conns, c) /\ ~torn /\ UNCHANGED dead
     \/ UNCHANGED conns /\ torn /\ dead' \in BOOLEAN
  /\ UNCHANGED <<apc, shut, torn, stream, sent, hand, sinkVars>>

\* Mutant: Close ends serve too.
DecodeWhileOpen(c) ==
  /\ ~shut /\ conn[c] = "served" /\ hand[c] = None
  /\ stream[c] # << >> /\ Head(stream[c]) > 0
  /\ hand' = [hand EXCEPT ![c] = <<Head(stream[c]), 1>>]
  /\ stream' = [stream EXCEPT ![c] = Tail(@)]
  /\ UNCHANGED <<apc, shut, connVars, sent, sinkVars, dead>>

\* Decode returned a message.
Decode(c) ==
  /\ conn[c] = "served" /\ hand[c] = None
  /\ stream[c] # << >> /\ Head(stream[c]) > 0
  /\ hand' = [hand EXCEPT ![c] = <<Head(stream[c]), 1>>]
  /\ stream' = [stream EXCEPT ![c] = Tail(@)]
  /\ UNCHANGED <<apc, shut, connVars, sent, sinkVars, dead>>

RemoveConn(c) ==
  /\ conns' = IF c \in Range(conns)
              THEN RemoveAt(conns, CHOOSE i \in DOMAIN conns : conns[i] = c)
              ELSE conns
  /\ torn' = (torn \/ (conns # << >> /\ Last(conns) = c
                       /\ \E d \in Clients : conn[d] = "linking"))

DecodeEOF(c) ==
  /\ conn[c] = "served" /\ hand[c] = None /\ stream[c] = <<EOF>>
  /\ conn' = [conn EXCEPT ![c] = "gone"]
  /\ stream' = [stream EXCEPT ![c] = << >>]
  /\ RemoveConn(c)
  /\ UNCHANGED <<apc, shut, sent, hand, sinkVars, dead>>

\* The error is printed and Receive(nil) called.
DecodeFails(c) ==
  /\ conn[c] = "served" /\ hand[c] = None /\ stream[c] = <<Broken>>
  /\ dead' = TRUE
  /\ UNCHANGED <<apc, shut, connVars, stream, sent, hand, sinkVars>>

\* Mutant: a sink's error is skipped.
SkipsFailed(c) == IF hand[c][2] = Sinks THEN None
                  ELSE <<hand[c][1], hand[c][2] + 1>>

\* ManyReceiver.Receive returns the first error, which serve ignores.
AfterError(c) == None

Receive(c) ==
  /\ conn[c] = "served" /\ hand[c] # None /\ hand[c][2] \notin stuck
  /\ LET m == <<c, hand[c][1]>>  k == hand[c][2]
     IN  \/ /\ got' = [got EXCEPT ![k] = Append(@, m)]
            /\ hand' = [hand EXCEPT ![c] = IF k = Sinks THEN None
                                           ELSE <<@[1], k + 1>>]
            /\ UNCHANGED refused
         \/ /\ refused' = refused \cup {m}
            /\ hand' = [hand EXCEPT ![c] = AfterError(c)]
            /\ UNCHANGED got
  /\ UNCHANGED <<apc, shut, connVars, stream, sent, stuck, dead>>

\* A RedisOutput whose process goroutine has returned.
Stick(k) ==
  /\ k \notin stuck
  /\ stuck' = stuck \cup {k}
  /\ UNCHANGED <<apc, shut, connVars, stream, sent, hand, got, refused, dead>>

-----------------------------------------------------------------------------
Init ==
  /\ apc = "start" /\ shut = FALSE
  /\ conn = [c \in Clients |-> "new"]
  /\ stream = [c \in Clients |-> << >>] /\ sent = [c \in Clients |-> 0]
  /\ conns = << >> /\ torn = FALSE
  /\ hand = [c \in Clients |-> None]
  /\ got = [k \in 1 .. Sinks |-> << >>] /\ refused = {} /\ stuck = {}
  /\ dead = FALSE

Serve(c) == Decode(c) \/ DecodeEOF(c) \/ DecodeFails(c) \/ Receive(c)

Next ==
  /\ ~dead
  /\ \/ Listen \/ Close
     \/ \E c \in Clients : \/ Dial(c) \/ Write(c) \/ Accept(c) \/ Track(c)
                           \/ \E how \in {EOF, Broken} : End(c, how)
                           \/ Serve(c)
     \/ \E k \in RedisSinks : Stick(k)

Spec == Init /\ [][Next]_vars

\* The goroutine of a connection runs when it can.
FairSpec == Spec /\ \A c \in Clients : WF_vars(~dead /\ Serve(c))

-----------------------------------------------------------------------------
(* Properties                                                              *)

TypeOK ==
  /\ apc \in {"start", "accept", "failed"}
  /\ conn \in [Clients -> {"new", "queued", "linking", "served", "gone"}]
  /\ \A c \in Clients : stream[c] \in Seq(Broken .. MaxSent)
  /\ shut \in BOOLEAN /\ torn \in BOOLEAN /\ dead \in BOOLEAN

\* However the connections interleave, and whichever sinks fail or no longer
\* return, a sink gets the messages of a connection in order and once, and only
\* after every sink before it (serve, ManyReceiver.Receive).
InOrder ==
  \A k \in 1 .. Sinks :
    /\ \A i, j \in DOMAIN got[k] :
         i < j /\ got[k][i][1] = got[k][j][1] => got[k][i][2] < got[k][j][2]
    /\ k > 1 => Range(got[k]) \subseteq Range(got[k - 1])

\* A message whose first sink did not fail is in the hands of the goroutine
\* that read it or with that sink.
NoneMissed ==
  \A c \in Clients, n \in 1 .. MaxSent :
    n <= sent[c] => \/ n \in Range(stream[c]) \/ conn[c] = "gone"
                    \/ <<c, n>> \in refused \cup Range(got[1])
                    \/ hand[c] = <<n, 1>>

\* s.conns has exactly the connections that are served, unless one ended while
\* trackConn was adding another (trackConn, removeConn).
Tracked == ~torn => Range(conns) = {c \in Clients : conn[c] = "served"}

\* The agent hands on what its clients sent (serve, ManyReceiver, trackConn).
Relays == TypeOK /\ InOrder /\ NoneMissed /\ Tracked

Pending(c) ==
  conn[c] = "served" /\ (hand[c] # None \/ \E i \in DOMAIN stream[c] : stream[c][i] > 0)

\* What a client sent on a connection that is served is handed to the sinks,
\* unless one of them no longer returns or the process died of another client's
\* broken stream (serve).  Close does not change that.
EventuallyRelayed ==
  \A c \in Clients : Pending(c) ~> (~Pending(c) \/ stuck # {} \/ dead)
=============================================================================
