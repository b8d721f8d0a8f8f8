-------------------------------- MODULE Send --------------------------------
(***************************************************************************)
(* One cypress.Send (send.go) over one connection whose other end is a     *)
(* cypress.Recv (recv.go).                                                 *)
(*                                                                         *)
(* Messages are numbered in the order in which their Send calls obtain     *)
(* ackLock.  A Send pushes at the front of reqs and readAck removes from   *)
(* the back, so the list, the bufio.Writer below the StreamEncoder and the *)
(* byte stream each hold a contiguous range of numbers, and two counters   *)
(* stand for each:                                                         *)
(*                                                                         *)
(*    1 .. delivered             decoded by Recv.Generate                  *)
(*    delivered+1 .. arrived     in the stream, Recv can still read them   *)
(*    flushed+1 .. front         in the bufio.Writer                       *)
(*    back .. front              in reqs; back is reqs.Back()              *)
(*                                                                         *)
(* A step of the model is a critical section of ackLock, except that the   *)
(* walk of sendNacks from a failed transmit is cut after each Nack: it     *)
(* runs in the caller's goroutine while readAck, which does not hold       *)
(* ackLock in its loop, may be between its Ack and its Remove.             *)
(***************************************************************************)
EXTENDS Integers, Sequences, FiniteSets

CONSTANTS
  Callers,      \* goroutines that call Send
  Window,       \* s.window after NewSend replaced -1 and 0
  MaxMsgs,      \* bound: number of Send calls
  WriteErrors,  \* may a write on a broken connection report the error?
  Confused      \* may the peer write a byte that is not an ack?

ASSUME SendAssumption ==
  /\ IsFiniteSet(Callers)
  /\ Callers # {}
  /\ Window \in Nat \ {0}
  /\ MaxMsgs \in Nat
  /\ WriteErrors \in BOOLEAN
  /\ Confused \in BOOLEAN

VARIABLES
  pc,         \* where each caller is in Send
  walkAt,     \* the element e of a sendNacks walk in a caller's goroutine
  closed,     \* s.closed
  available,  \* s.available
  sent,       \* number of Send calls so far
  back,       \* the oldest message in reqs
  front,      \* the newest message in reqs
  acked,      \* messages whose req.Ack was called
  nacked,     \* messages whose req.Nack was called
  notified,   \* number of OnClosed calls
  flushed,    \* the last message that left the bufio.Writer
  werr,       \* the bufio.Writer holds an error, which is sticky
  timer,      \* the flushTimer goroutine runs; Close ends it
  rpc,        \* where backgroundAck is
  rbuf,       \* the bytes of s.buf filled by the last Read
  ri,         \* i + 1 in the loop of readAck
  up,         \* the connection is whole
  arrived,    \* the last message in the stream to Recv
  acks,       \* bytes in the stream back to Send
  delivered,  \* the last message Recv.Generate returned
  stray       \* the peer wrote a byte that is not an ack

callVars == <<pc, walkAt, closed, available, sent, front>>
listVars == <<back, acked>>
reqVars  == <<nacked, notified>>
encVars  == <<flushed, werr, timer>>
ackVars  == <<rpc, rbuf, ri>>
netVars  == <<up, arrived, acks, delivered, stray>>
vars == <<callVars, listVars, reqVars, encVars, ackVars, netVars>>

Msgs  == 1 .. MaxMsgs
Bytes == {"k", "x"}          \* 'k' and any other byte

\* The messages in reqs.
InFlight == back .. front

\* Nobody holds ackLock: the other critical sections are single steps.
LockFree == \A c \in Callers : pc[c] # "walk"

-----------------------------------------------------------------------------
(* The encoder below Send: StreamEncoder over a bufio.Writer.              *)

\* The writer passes everything up to message m to the connection.  On a
\* broken connection the bytes vanish, or the write fails and the writer
\* keeps the error.
FlushTo(m) ==
  \/ /\ ~werr
     /\ flushed' = m
     /\ arrived' = IF up THEN m ELSE arrived
     /\ UNCHANGED werr
  \/ /\ ~werr /\ ~up /\ WriteErrors /\ flushed < m
     /\ werr' = TRUE
     /\ UNCHANGED <<flushed, arrived>>
  \/ /\ werr
     /\ UNCHANGED <<flushed, arrived, werr>>

\* Encode(m) fits in the buffer, or spills what was there before m, or all.
EncodeOK(m) ==
  /\ ~werr
  /\ \E upto \in {flushed, m - 1, m} :
       /\ flushed' = upto
       /\ arrived' = IF up THEN upto ELSE arrived
  /\ UNCHANGED werr

\* Encode(m) reports a sticky error, or its own spill fails.
EncodeFails ==
  /\ werr \/ (~up /\ WriteErrors)
  /\ werr' = TRUE
  /\ UNCHANGED <<flushed, arrived>>

-----------------------------------------------------------------------------
(* sync.Cond: Signal readies one goroutine of those in Wait, if any.       *)

\* Mutant: nobody is readied.
SignalLost(p) == pc' = p

Signal(p) ==
  LET waiting == {c \in Callers : p[c] = "wait"}
  IN  IF waiting = {}
      THEN pc' = p
      ELSE \E c \in waiting : pc' = [p EXCEPT ![c] = "woken"]

-----------------------------------------------------------------------------
(* Send                                                                    *)

\* Mutant: the loop waits only once the window is overdrawn.
WindowFullLate(n) == n < 0

\* The condition of Send's wait loop on s.available.
WindowFull(n) == n = 0

\* Send on a closed Send nacks and returns ErrClosed.
SendClosed(c) ==
  /\ pc[c] = "idle" /\ LockFree
  /\ sent < MaxMsgs
  /\ closed
  /\ sent' = sent + 1
  /\ nacked' = nacked \cup {sent + 1}
  /\ UNCHANGED <<pc, walkAt, closed, available, front, notified,
                 listVars, encVars, ackVars, netVars>>

\* Push and transmit; the window is looked at only afterwards.  No caller in
\* the repository calls Send after Close on a Send that is still open.
SendOpen(c) ==
  /\ pc[c] = "idle" /\ LockFree
  /\ sent < MaxMsgs
  /\ ~closed /\ timer
  /\ sent' = sent + 1
  /\ front' = sent + 1
  /\ available' = available - 1
  /\ UNCHANGED <<closed, listVars, notified, timer, ackVars,
                 up, acks, delivered, stray>>

\* transmit succeeds and a slot of the window is left (or overdrawn).
SendReturns(c) ==
  /\ SendOpen(c)
  /\ ~WindowFull(available - 1)
  /\ EncodeOK(sent + 1)
  /\ UNCHANGED <<pc, walkAt, nacked>>

\* transmit succeeds and takes the last slot: Flush, then Wait.
SendBlocks(c) ==
  /\ SendOpen(c)
  /\ WindowFull(available - 1)
  /\ ~werr
  /\ FlushTo(sent + 1)
  /\ pc' = [pc EXCEPT ![c] = "wait"]
  /\ UNCHANGED <<walkAt, nacked>>

\* transmit fails: sendNacks starts at reqs.Back().
SendFails(c) ==
  /\ SendOpen(c)
  /\ EncodeFails
  /\ pc' = [pc EXCEPT ![c] = "walk"]
  /\ walkAt' = back
  /\ nacked' = nacked \cup {back}

\* e = e.Prev().  container/list's Remove clears the links of an element, so
\* Prev of one that readAck removed meanwhile is nil, as it is at the front.
WalkNacks(c) ==
  /\ pc[c] = "walk"
  /\ walkAt >= back /\ walkAt < front
  /\ walkAt' = walkAt + 1
  /\ nacked' = nacked \cup {walkAt + 1}
  /\ UNCHANGED <<pc, closed, available, sent, front, notified,
                 listVars, encVars, ackVars, netVars>>

\* The walk is over: closed, OnClosed, Signal; Send returns ErrClosed.
WalkEnds(c) ==
  /\ pc[c] = "walk"
  /\ walkAt < back \/ walkAt = front
  /\ closed' = TRUE
  /\ notified' = notified + 1
  /\ Signal([pc EXCEPT ![c] = "idle"])
  /\ UNCHANGED <<walkAt, available, sent, front, nacked,
                 listVars, encVars, ackVars, netVars>>

\* Wait returned: the loop condition and s.closed are looked at again.
WokenReturns(c) ==
  /\ pc[c] = "woken" /\ LockFree
  /\ ~WindowFull(available) \/ closed
  /\ pc' = [pc EXCEPT ![c] = "idle"]
  /\ UNCHANGED <<walkAt, closed, available, sent, front,
                 listVars, reqVars, encVars, ackVars, netVars>>

WokenWaits(c) ==
  /\ pc[c] = "woken" /\ LockFree
  /\ WindowFull(available) /\ ~closed
  /\ FlushTo(front)
  /\ pc' = [pc EXCEPT ![c] = "wait"]
  /\ UNCHANGED <<walkAt, closed, available, sent, front, listVars, reqVars,
                 timer, ackVars, up, acks, delivered, stray>>

-----------------------------------------------------------------------------
(* backgroundAck and readAck                                               *)

\* Read returns between one byte and a full s.buf.
ReadAcks ==
  /\ rpc = "read"
  /\ \E n \in 1 .. Window :
       /\ n <= Len(acks)
       /\ rbuf' = SubSeq(acks, 1, n)
       /\ acks' = SubSeq(acks, n + 1, Len(acks))
  /\ ri' = 1
  /\ rpc' = "loop"
  /\ UNCHANGED <<callVars, listVars, reqVars, encVars,
                 up, arrived, delivered, stray>>

ReadFails ==
  /\ rpc = "read"
  /\ ~up /\ acks = << >>
  /\ rpc' = "fail"
  /\ UNCHANGED <<callVars, listVars, reqVars, encVars, rbuf, ri, netVars>>

\* Whichever byte i stands for, the code compares s.buf[0].
AckByte(i) == rbuf[1] = "k"

\* Mutant: reqs.Front() for reqs.Back().
FrontRequest == front

\* reqs.Back()
BackRequest == back

\* Mutant: the nil check on reqs.Back() is gone.
AssumeInFlight == TRUE

\* f != nil
HasInFlight == back <= front

Unsynced ==
  /\ rpc = "loop" /\ ri <= Len(rbuf)
  /\ ~AckByte(ri)
  /\ rpc' = "fail"
  /\ UNCHANGED <<callVars, listVars, reqVars, encVars, rbuf, ri, netVars>>

\* An ack with nothing in flight is skipped (and still credited below).
AckNothing ==
  /\ rpc = "loop" /\ ri <= Len(rbuf)
  /\ AckByte(ri)
  /\ ~HasInFlight
  /\ ri' = ri + 1
  /\ UNCHANGED <<callVars, listVars, reqVars, encVars, rpc, rbuf, netVars>>

\* f.req.Ack for f = reqs.Back()
AckBack ==
  /\ rpc = "loop" /\ ri <= Len(rbuf)
  /\ AckByte(ri)
  /\ HasInFlight
  /\ acked' = acked \cup {BackRequest}
  /\ rpc' = "remove"
  /\ UNCHANGED <<callVars, back, reqVars, encVars, rbuf, ri, netVars>>

\* Mutant: the acked request stays in reqs.
BackKept == back

\* The back of reqs after reqs.Remove(f).
BackRemoved == back + 1

\* reqs.Remove(f)
RemoveBack ==
  /\ rpc = "remove"
  /\ back' = BackRemoved
  /\ ri' = ri + 1
  /\ rpc' = "loop"
  /\ UNCHANGED <<callVars, acked, reqVars, encVars, rbuf, netVars>>

\* Mutant: one slot per Read, however many acks it returned.
CreditOne(b) == 1

\* The n of s.available += int32(n).
CreditFor(b) == Len(b)

\* available += n and Signal, under ackLock.
Credit ==
  /\ rpc = "loop" /\ ri > Len(rbuf)
  /\ LockFree
  /\ available' = available + CreditFor(rbuf)
  /\ Signal(pc)
  /\ rpc' = "read"
  /\ UNCHANGED <<walkAt, closed, sent, front, listVars, reqVars, encVars,
                 rbuf, ri, netVars>>

\* Mutant: s.closed is not looked at.
NeverNacked == FALSE

\* sendNacks returns at once if s.closed.
AlreadyNacked == closed

\* Mutant: the walk starts one past the back of the list.
WalkedPastBack == InFlight \ {back}

\* What the walk of sendNacks goes through if nobody disturbs it.
Walked == InFlight

\* sendNacks from backgroundAck: the only goroutine that removes from reqs is
\* this one and ackLock keeps the callers out, so the walk meets everything.
NackAll ==
  /\ rpc = "fail"
  /\ LockFree
  /\ rpc' = "done"
  /\ \/ /\ AlreadyNacked
        /\ UNCHANGED <<pc, closed, nacked, notified>>
     \/ /\ ~AlreadyNacked
        /\ nacked' = nacked \cup Walked
        /\ closed' = TRUE
        /\ notified' = notified + 1
        /\ Signal(pc)
  /\ UNCHANGED <<walkAt, available, sent, front, listVars, encVars,
                 rbuf, ri, netVars>>

-----------------------------------------------------------------------------
(* Flush, flushTimer, Close                                                *)

FlushBuffer ==
  /\ flushed < front /\ ~werr
  /\ FlushTo(front)
  /\ UNCHANGED <<callVars, listVars, reqVars, ackVars, up, acks, delivered, stray>>

\* Flush, from any goroutine.
Flush == FlushBuffer /\ UNCHANGED timer

\* Mutant: the writer is not taken for a Flusher, so no timer runs.
FlushTimerMissing == FALSE

\* The five second tick of the encoder.
FlushTimer == timer /\ FlushBuffer /\ UNCHANGED timer

\* Close ends the timer and flushes; it neither closes the connection nor
\* sets s.closed.
Close ==
  /\ timer
  /\ timer' = FALSE
  /\ FlushTo(front)
  /\ UNCHANGED <<callVars, listVars, reqVars, ackVars, up, acks, delivered, stray>>

-----------------------------------------------------------------------------
(* The peer and the connection                                             *)

\* Recv.Generate: decode, then write the ack; its error is ignored.
Generate ==
  /\ delivered < arrived
  /\ delivered' = delivered + 1
  /\ acks' = IF up THEN Append(acks, "k") ELSE acks
  /\ UNCHANGED <<callVars, listVars, reqVars, encVars, ackVars, up, arrived, stray>>

\* A peer that lost track writes something else, once.
Desync ==
  /\ Confused /\ up /\ ~stray
  /\ stray' = TRUE
  /\ acks' = Append(acks, "x")
  /\ UNCHANGED <<callVars, listVars, reqVars, encVars, ackVars,
                 up, arrived, delivered>>

\* The connection breaks; what was under way in either direction may be cut.
Break ==
  /\ up
  /\ up' = FALSE
  /\ arrived' \in delivered .. arrived
  /\ \E n \in 0 .. Len(acks) : acks' = SubSeq(acks, 1, n)
  /\ UNCHANGED <<callVars, listVars, reqVars, encVars, ackVars, delivered, stray>>

-----------------------------------------------------------------------------
Init ==
  /\ pc = [c \in Callers |-> "idle"]
  /\ walkAt = 0
  /\ closed = FALSE
  /\ available = Window
  /\ sent = 0 /\ front = 0 /\ back = 1
  /\ acked = {} /\ nacked = {}
  /\ notified = 0
  /\ flushed = 0 /\ werr = FALSE /\ timer = TRUE
  /\ rpc = "read" /\ rbuf = << >> /\ ri = 1
  /\ up = TRUE /\ arrived = 0 /\ acks = << >> /\ delivered = 0
  /\ stray = FALSE

CallSend(c) == SendClosed(c) \/ SendReturns(c) \/ SendBlocks(c) \/ SendFails(c)

CallerStep(c) == WalkNacks(c) \/ WalkEnds(c) \/ WokenReturns(c) \/ WokenWaits(c)

BackgroundAck ==
  \/ ReadAcks \/ ReadFails
  \/ Unsynced \/ AckNothing \/ AckBack \/ RemoveBack
  \/ Credit \/ NackAll

Next ==
  \/ \E c \in Callers : CallSend(c) \/ CallerStep(c)
  \/ BackgroundAck
  \/ Flush \/ FlushTimer \/ Close
  \/ Generate \/ Desync \/ Break

\* The scheduler runs every goroutine that can run, the ticker keeps ticking,
\* and a peer that is still there keeps reading.  Nothing makes callers call.
Fairness ==
  /\ \A c \in Callers : WF_vars(CallerStep(c))
  /\ WF_vars(BackgroundAck)
  /\ WF_vars(FlushTimer)
  /\ WF_vars(Generate)

Spec == Init /\ [][Next]_vars

FairSpec == Spec /\ Fairness

-----------------------------------------------------------------------------
(* Properties                                                              *)

TypeOK ==
  /\ pc \in [Callers -> {"idle", "walk", "wait", "woken"}]
  /\ walkAt \in 0 .. MaxMsgs
  /\ closed \in BOOLEAN
  /\ available \in Int
  /\ sent \in 0 .. MaxMsgs
  /\ back \in 1 .. MaxMsgs + 1
  /\ front \in 0 .. MaxMsgs
  /\ acked \subseteq Msgs
  /\ nacked \subseteq Msgs
  /\ notified \in Nat
  /\ flushed \in 0 .. MaxMsgs
  /\ werr \in BOOLEAN
  /\ timer \in BOOLEAN
  /\ rpc \in {"read", "loop", "remove", "fail", "done"}
  /\ rbuf \in Seq(Bytes)
  /\ ri \in Nat \ {0}
  /\ up \in BOOLEAN
  /\ arrived \in 0 .. MaxMsgs
  /\ acks \in Seq(Bytes)
  /\ delivered \in 0 .. MaxMsgs
  /\ stray \in BOOLEAN

\* Bytes readAck has gone through and not yet added to available.
Uncredited == IF rpc \in {"loop", "remove"} THEN ri - 1 ELSE 0

\* No slot of the window is lost or made up: whatever the interleaving of the
\* callers, readAck and a failing transmit, every slot is free, taken by a
\* message in reqs, or passed over by readAck and about to be credited.
SlotsConserved ==
  ~stray => available + (front - back + 1) + Uncredited = Window

\* With one caller the window is a bound: a Send never leaves more than
\* Window messages unanswered, and the acks of readAck never open it wider
\* than it was, whatever the sizes of its reads.
WindowRespected ==
  /\ available \in 0 .. Window
  /\ Cardinality(InFlight) <= Window

\* req.Ack tells the truth: the message was decoded by the peer's Recv.
AckedDelivered == ~stray => \A m \in acked : m <= delivered

\* "it will be updated as to the status of m, calling either Ack or Nack":
\* no request hears both.
ResolvedOnce == acked \cap nacked = {}

\* sendNacks tells "about all the messages that it was not able to get acks
\* about": once the Send is closed and its goroutines are done with it, every
\* message given to Send was acked or nacked.
NoSilentLoss ==
  closed /\ LockFree /\ rpc = "done" => 1 .. sent \subseteq acked \cup nacked

\* Both sendNacks, of a caller and of backgroundAck, may run; OnClosed is
\* called once, exactly when the Send becomes closed.
NotifiedOnce == notified = IF closed THEN 1 ELSE 0

\* A Send blocked on a full window returns, by acks or by the close.
BlockedSendReturns ==
  \A c \in Callers : pc[c] = "wait" ~> pc[c] = "idle"

\* Every message given to Send is eventually acked or nacked, or sits in a
\* connection that neither breaks nor delivers (excluded by fairness).
EverySendResolved ==
  \A m \in Msgs : m <= sent ~> m \in acked \cup nacked

-----------------------------------------------------------------------------
(* Send implements the promise of SendSpec, under the identity mapping.    *)

Promise == INSTANCE SendSpec
KeepsPromise == Promise!Spec

=============================================================================
