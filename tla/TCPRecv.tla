------------------------------ MODULE TCPRecv ------------------------------
(***************************************************************************)
(* The TCP receiver as a generator (plugins/tcp/tcp_recv.go): Accept gives *)
(* every connection a handler, which takes messages from a Recv (recv.go), *)
(* acked as they are decoded, and puts them in one buffered channel, from  *)
(* which Generate returns them.                                            *)
(*                                                                         *)
(* The n-th message of connection c is <<c, n>>.  A send on the closed     *)
(* channel panics, which ends the process.                                 *)
(***************************************************************************)
EXTENDS Integers, Sequences, SequencesExt, FiniteSets

CONSTANTS
  Conns,     \* connections that may be made
  MaxMsgs,   \* bound: messages sent on each
  Buffer     \* capacity of buf, not 0

VARIABLES
  hpc,        \* where the handler of each connection is
  decoded,    \* per connection, messages decoded, each acked then
  buf,        \* t.buf
  closed,     \* how far Close is: "open", "listener", "buf"
  panicked,   \* a handler sent on the closed channel
  generated   \* the messages Generate returned

vars == <<hpc, decoded, buf, closed, panicked, generated>>

Alive == ~panicked
Acked == UNION {{<<c, n>> : n \in 1 .. decoded[c]} : c \in Conns}

-----------------------------------------------------------------------------
\* t.l.Accept() returns a connection.
Accept(c) ==
  /\ Alive /\ closed = "open" /\ hpc[c] = "none"
  /\ hpc' = [hpc EXCEPT ![c] = "generate"]
  /\ UNCHANGED <<decoded, buf, closed, panicked, generated>>

\* Recv.Generate: a message is decoded and acked.  Close does not touch the
\* connections, so this goes on after it.
Decode(c) ==
  /\ Alive /\ hpc[c] = "generate" /\ decoded[c] < MaxMsgs
  /\ decoded' = [decoded EXCEPT ![c] = @ + 1]
  /\ hpc' = [hpc EXCEPT ![c] = "put"]
  /\ UNCHANGED <<buf, closed, panicked, generated>>

\* Recv.Generate fails: the peer is gone, and the handler returns.
DecodeFails(c) ==
  /\ Alive /\ hpc[c] = "generate"
  /\ hpc' = [hpc EXCEPT ![c] = "gone"]
  /\ UNCHANGED <<decoded, buf, closed, panicked, generated>>

\* buf with one more message, once there is room.
PutsLast(m) == Append(buf, m)

\* A send on the buffered channel waits for room.
Room == Len(buf) < Buffer

\* Mutant: the handler does not wait for room and drops the message.
PutOrDrop(c) ==
  /\ Alive /\ hpc[c] = "put" /\ closed # "buf"
  /\ buf' = IF Room THEN PutsLast(<<c, decoded[c]>>) ELSE buf
  /\ hpc' = [hpc EXCEPT ![c] = "generate"]
  /\ UNCHANGED <<decoded, closed, panicked, generated>>

\* t.buf <- m
Put(c) ==
  /\ Alive /\ hpc[c] = "put"
  /\ IF closed = "buf"
     THEN panicked' = TRUE /\ UNCHANGED <<hpc, buf>>
     ELSE /\ Room
          /\ buf' = PutsLast(<<c, decoded[c]>>)
          /\ hpc' = [hpc EXCEPT ![c] = "generate"]
          /\ UNCHANGED panicked
  /\ UNCHANGED <<decoded, closed, generated>>

\* Mutant: Generate returns the newest message.
GenerateNewest ==
  /\ Alive /\ buf # << >>
  /\ generated' = Append(generated, Last(buf))
  /\ buf' = Front(buf)
  /\ UNCHANGED <<hpc, decoded, closed, panicked>>

\* Generate, and Run's loop; what is in a closed channel is still returned.
Generate ==
  /\ Alive /\ buf # << >>
  /\ generated' = Append(generated, Head(buf))
  /\ buf' = Tail(buf)
  /\ UNCHANGED <<hpc, decoded, closed, panicked>>

\* Close: the listener, then the channel.
CloseListener ==
  /\ Alive /\ closed = "open"
  /\ closed' = "listener"
  /\ UNCHANGED <<hpc, decoded, buf, panicked, generated>>

CloseBuf ==
  /\ Alive /\ closed = "listener"
  /\ closed' = "buf"
  /\ UNCHANGED <<hpc, decoded, buf, panicked, generated>>

-----------------------------------------------------------------------------
Init ==
  /\ hpc = [c \in Conns |-> "none"]
  /\ decoded = [c \in Conns |-> 0]
  /\ buf = << >>
  /\ closed = "open"
  /\ panicked = FALSE
  /\ generated = << >>

Next == \/ \E c \in Conns : Accept(c) \/ Decode(c) \/ DecodeFails(c) \/ Put(c)
        \/ Generate \/ CloseListener \/ CloseBuf

Spec == Init /\ [][Next]_vars

\* Handlers run whenever they can, and the owner keeps calling Generate.
FairSpec == /\ Spec
            /\ \A c \in Conns : SF_vars(Put(c))
            /\ WF_vars(Generate)

-----------------------------------------------------------------------------
(* Properties                                                              *)

TypeOK ==
  /\ hpc \in [Conns -> {"none", "generate", "put", "gone"}]
  /\ decoded \in [Conns -> 0 .. MaxMsgs]
  /\ buf \in Seq(Conns \X (1 .. MaxMsgs)) /\ Len(buf) <= Buffer
  /\ closed \in {"open", "listener", "buf"}
  /\ panicked \in BOOLEAN
  /\ generated \in Seq(Conns \X (1 .. MaxMsgs))

\* Whatever the connections and Close do, the messages of one connection are
\* returned in order and without gap or repetition, and an acked message is
\* returned, in the buffer or in its handler's hand (HandleGenerator, Generate).
AckedInOrder ==
  LET all == generated \o buf
      putting == {<<c, decoded[c]>> : c \in {d \in Conns : hpc[d] = "put"}}
  IN  /\ \A i, j \in DOMAIN all :
           i < j /\ all[i][1] = all[j][1] => all[i][2] < all[j][2]
      /\ Range(all) = Acked \ putting

\* The handlers and the buffer keep what was acked (HandleGenerator, Generate).
KeepsAcked == TypeOK /\ AckedInOrder

\* "A type which can recieve a stream of Messages reliabliy. Recv works in
\* coordination with Send to reliablity send Messages using ack'ing."
\* (recv.go): a message that was acked, so that its sender forgets it, is
\* returned by Generate, unless Close is called: its handler may then send it on
\* the closed channel, and the process ends with what is in buf.
AckedReturned ==
  \A c \in Conns : \A n \in 1 .. MaxMsgs :
    <<c, n>> \in Acked ~> <<c, n>> \in Range(generated) \/ closed # "open"
=============================================================================
