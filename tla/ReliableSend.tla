---------------------------- MODULE ReliableSend ----------------------------
(***************************************************************************)
(* cypress.ReliableSend (reliable_send.go): a drain goroutine that feeds   *)
(* one Send after the other, reconnecting (TCPSend.Connect) whenever the   *)
(* current Send closes, and sending again what that Send nacked.           *)
(*                                                                         *)
(* While its writes report no errors a Send is composed in by the promise  *)
(* that module SendSpec states and module Send is shown to keep: it acks   *)
(* what its peer decoded, oldest first, and when its connection breaks it  *)
(* nacks the rest and calls OnClosed.  A write that fails is not covered   *)
(* by that promise: the walk of sendNacks in drain's goroutine and the     *)
(* acks that readAck goes on to read are modelled here (SendFails to       *)
(* AckLate), as in module Send.  Only the newest Send has its own state;   *)
(* of older ones there is what their peers may still decode (stale) and    *)
(* what their readers may still ack (late).                                *)
(*                                                                         *)
(* Messages are numbered in the order of Receive, which is the order of    *)
(* their timestamps.                                                       *)
(***************************************************************************)
EXTENDS Integers, Sequences, SequencesExt

CONSTANTS
  MaxMsgs,     \* bound: messages given to Receive
  MaxConns,    \* bound: connections; the last one does not break
  Buffer,      \* capacity of newMessages
  Window       \* the window of each Send

ASSUME ReliableAssumption ==
  /\ MaxMsgs \in Nat
  /\ MaxConns \in Nat \ {0}
  /\ Buffer \in Nat \ {0}
  /\ Window \in Nat \ {0}

VARIABLES
  dpc,          \* where drain (before it: Start) is
  after,        \* where a Send that waits for the window returns to
  received,     \* number of messages accepted by Receive
  newMessages,  \* the channel r.newMessages
  token,        \* number of values in the channel r.closed, capacity 1
  flush,        \* a caller of Flush waits for drain to take it
  shutdown,     \* r.shutdown, and the tomb is dying
  nacked,       \* r.nacked
  pending,      \* the rest of reconnect's local nacked
  outstanding,  \* r.outstanding
  read,         \* a value of outstanding read by r.outstanding++
  conns,        \* number of connections made
  hooked,       \* OnClosed of the newest Send is r.onClosed and r.s is it
  sclosed,      \* the newest Send is closed
  missed,       \* it closed before OnClosed was set: nobody was told
  flight,       \* messages in the newest Send's reqs, oldest first, but for
  walked,       \* those in reqs before them that a walk in drain has nacked
  standing,     \* the request on which the walk stands: "in" reqs, "acked"
                \* but perhaps not removed yet, or "gone"
  last,         \* the message that the newest Send acked last, or 0
  got,          \* how many of reqs its peer decoded
  stale,        \* streams of older connections with messages to be decoded
  late,         \* what readers of Sends that a walk closed have yet to ack
  both,         \* history: some message heard Nack from a walk, and Ack
  delivered,    \* messages some peer decoded
  acked         \* messages for which Ack was called

drainVars == <<dpc, after, pending, read>>
chanVars  == <<received, newMessages, flush, shutdown>>
walkVars  == <<walked, standing, last, late, both>>
sendVars  == <<conns, hooked, sclosed, missed, flight, got, stale, walkVars>>
vars == <<drainVars, chanVars, token, nacked, outstanding, sendVars,
          delivered, acked>>

Msgs == 1 .. MaxMsgs

\* reconnect holds r.lock from its entry until it has taken r.nacked.
LockFree == dpc \notin {"connect", "hook"}

-----------------------------------------------------------------------------
(* The newest Send, by its promise                                         *)

\* What was under way when the connection broke reaches the peer up to n.
Cut(n) == stale' = stale \cup ({SubSeq(flight, got + 1, n)} \ {<< >>})

\* transmit fails: sendNacks starts at the back of reqs, which is the request
\* that was acked last if its Remove is still to come.
SendFails(m, n, failed) ==
  /\ conns < MaxConns
  /\ dpc' = "walk" /\ after' = failed
  /\ outstanding' = n - 1
  /\ LET reqs == Append(flight, m)
     IN  \/ /\ nacked' = Append(nacked, Head(reqs)) /\ flight' = Tail(reqs)
            /\ walked' = <<Head(reqs)>> /\ standing' = "in"
            /\ UNCHANGED both
         \/ /\ last # 0
            /\ nacked' = Append(nacked, last) /\ flight' = reqs
            /\ walked' = << >> /\ standing' = "acked"
            /\ both' = TRUE
  /\ got' \in 0 .. got
  /\ \E k \in got .. Len(flight) : Cut(k)
  /\ UNCHANGED <<last, late>>

\* r.s.Send(m, r) in drain's goroutine, which goes on at then, or at failed
\* if Send returns ErrClosed; a Send that fills the window waits in between.
\* n is outstanding after the caller's increment.
CallSend(m, n, then, failed) ==
  \/ /\ sclosed
     /\ nacked' = Append(nacked, m)
     /\ outstanding' = n - 1
     /\ dpc' = failed
     /\ UNCHANGED <<after, flight, got, stale, walkVars>>
  \/ /\ ~sclosed
     /\ flight' = Append(flight, m)
     /\ outstanding' = n
     /\ dpc' = IF Len(flight) + 1 = Window THEN "blocked" ELSE then
     /\ after' = then
     /\ UNCHANGED <<nacked, got, stale, walkVars>>
  \/ ~sclosed /\ SendFails(m, n, failed)

\* Send's wait for the window is over.  If the Send closed meanwhile it returns
\* ErrClosed, or nil if an ack was credited just before.
Unblocks ==
  /\ dpc = "blocked"
  /\ Len(flight) < Window
  /\ dpc' \in {after} \cup
              (IF sclosed /\ after = "resend" THEN {"requeue"} ELSE {})
  /\ UNCHANGED <<after, pending, read, chanVars, token, nacked, outstanding,
                 sendVars, delivered, acked>>

Walking == dpc = "walk"

\* reqs of the newest Send, oldest first.
Reqs == walked \o flight

\* During a walk the connection is broken.
Decode ==
  /\ ~sclosed /\ ~Walking /\ got < Len(flight)
  /\ got' = got + 1
  /\ delivered' = delivered \cup {flight[got + 1]}
  /\ UNCHANGED <<drainVars, chanVars, token, nacked, outstanding,
                 conns, hooked, sclosed, missed, flight, stale, walkVars, acked>>

DecodeStale ==
  \E q \in stale :
    /\ delivered' = delivered \cup {Head(q)}
    /\ stale' = (stale \ {q}) \cup ({Tail(q)} \ {<< >>})
    /\ UNCHANGED <<drainVars, chanVars, token, nacked, outstanding,
                   conns, hooked, sclosed, missed, flight, got, walkVars, acked>>

\* An ack byte removes one request.
Remaining == Tail(flight)

\* r.Ack, under r.lock.
Ack ==
  /\ ~sclosed /\ ~Walking /\ got > 0 /\ LockFree
  /\ acked' = acked \cup {Head(flight)}
  /\ last' = Head(flight)
  /\ flight' = Remaining
  /\ got' = got - 1
  /\ outstanding' = outstanding - 1
  /\ UNCHANGED <<drainVars, chanVars, token, nacked, conns, hooked, sclosed,
                 missed, stale, walked, standing, late, both, delivered>>

\* The walk of sendNacks: e = e.Prev(), which is nil at the front and at a
\* request that readAck removed.
WalkNacks ==
  /\ Walking /\ flight # << >> /\ standing # "gone"
  /\ nacked' = Append(nacked, Head(flight))
  /\ walked' = Append(walked, Head(flight))
  /\ flight' = Tail(flight)
  /\ standing' = "in"
  /\ outstanding' = outstanding - 1
  /\ UNCHANGED <<drainVars, chanVars, token, conns, hooked, sclosed, missed,
                 last, got, stale, late, both, delivered, acked>>

\* readAck has acks left that came before the connection broke.
AckInWalk ==
  /\ Walking /\ got > 0
  /\ acked' = acked \cup {Head(Reqs)} /\ last' = Head(Reqs)
  /\ IF walked = << >> THEN flight' = Tail(flight) /\ UNCHANGED walked
                       ELSE walked' = Tail(walked) /\ UNCHANGED flight
  /\ standing' = IF walked = << >> THEN "gone"
                 ELSE IF Tail(walked) = << >> THEN "acked" ELSE "in"
  /\ got' = got - 1
  /\ outstanding' = outstanding - 1
  /\ both' = TRUE
  /\ UNCHANGED <<drainVars, chanVars, token, nacked, conns, hooked, sclosed,
                 missed, stale, late, delivered>>

\* Mutant: OnClosed is called only if there was something to nack.
PrimesIfNacked == hooked /\ nacked # << >>

\* OnClosed is nil until reconnect sets it.
PrimesClosed == hooked

\* r.outstanding after a Nack for each message in flight.
NackCounted(n) == n - Len(flight)

\* The connection breaks: r.Nack for each message in flight, oldest first,
\* then s.closed and OnClosed.
Break ==
  /\ conns > 0 /\ conns < MaxConns /\ ~sclosed /\ ~Walking
  /\ nacked' = nacked \o flight
  /\ outstanding' = NackCounted(outstanding)
  /\ sclosed' = TRUE
  /\ missed' = ~hooked
  /\ token' = IF PrimesClosed THEN token + 1 ELSE token
  /\ \E n \in got .. Len(flight) : Cut(n)
  /\ flight' = << >>
  /\ got' = 0
  /\ UNCHANGED <<drainVars, chanVars, conns, hooked, walkVars, delivered, acked>>

\* The walk is over: s.closed and OnClosed, and Send returns ErrClosed.  Those
\* still in reqs are nacked by nobody; readAck goes on reading.
WalkEnds ==
  /\ Walking
  /\ flight = << >> \/ standing # "in"
  /\ dpc' = after
  /\ sclosed' = TRUE
  /\ missed' = ~hooked
  /\ token' = IF PrimesClosed THEN token + 1 ELSE token
  /\ late' = late \cup ({SubSeq(Reqs, 1, got)} \ {<< >>})
  /\ flight' = << >> /\ walked' = << >> /\ got' = 0
  /\ UNCHANGED <<after, pending, read, chanVars, nacked, outstanding, conns,
                 hooked, standing, last, stale, both, delivered, acked>>

AckLate ==
  /\ LockFree
  /\ \E q \in late :
       /\ acked' = acked \cup {Head(q)}
       /\ late' = (late \ {q}) \cup ({Tail(q)} \ {<< >>})
  /\ outstanding' = outstanding - 1
  /\ both' = TRUE
  /\ UNCHANGED <<drainVars, chanVars, token, nacked, conns, hooked, sclosed,
                 missed, flight, walked, standing, last, got, stale, delivered>>

-----------------------------------------------------------------------------
(* reconnect                                                               *)

\* Connect succeeds on some host: NewSend starts its backgroundAck.
Connects ==
  /\ dpc = "connect"
  /\ conns < MaxConns
  /\ conns' = conns + 1
  /\ hooked' = FALSE
  /\ sclosed' = FALSE /\ missed' = FALSE
  /\ last' = 0
  /\ dpc' = "hook"
  /\ UNCHANGED <<after, pending, read, chanVars, token, nacked, outstanding, flight,
                 got, stale, walked, standing, late, both, delivered, acked>>

\* Connect finds no host: sleep and try again, or give up when shut down.
\* r.s stays the closed Send.
ConnectFails ==
  /\ dpc = "connect" /\ shutdown
  /\ dpc' = "select"
  /\ UNCHANGED <<after, pending, read, chanVars, token, nacked, outstanding,
                 sendVars, delivered, acked>>

\* Mutant: what was nacked is not taken over.
NothingTaken == << >>

\* The local nacked of reconnect.
Taken == nacked

\* s.OnClosed = r.onClosed, r.s = s, take r.nacked, unlock.
Hooks ==
  /\ dpc = "hook"
  /\ hooked' = TRUE
  /\ pending' = Taken
  /\ nacked' = << >>
  /\ dpc' = "resend"
  /\ UNCHANGED <<after, read, chanVars, token, outstanding,
                 conns, sclosed, missed, flight, got, stale, walkVars, delivered, acked>>

ResendDone ==
  /\ dpc = "resend" /\ pending = << >>
  /\ dpc' = "select"
  /\ UNCHANGED <<after, pending, read, chanVars, token, nacked, outstanding,
                 sendVars, delivered, acked>>

\* r.outstanding++ is done without r.lock: its read and its write may or may
\* not be torn apart by an Ack or a Nack.
ResendReads ==
  /\ dpc = "resend" /\ pending # << >>
  /\ read' = outstanding
  /\ dpc' = "increment"
  /\ UNCHANGED <<after, pending, chanVars, token, nacked, outstanding,
                 sendVars, delivered, acked>>

ResendSends ==
  /\ dpc = "increment"
  /\ \E n \in {read, outstanding} :
       CallSend(Head(pending), n + 1, "resend", "requeue")
  /\ pending' = Tail(pending)
  /\ UNCHANGED <<read, chanVars, token, conns, hooked, sclosed, missed,
                 delivered, acked>>

\* Mutant: what was nacked meanwhile is overwritten.
RequeuedOver == {pending}

\* Mutant: no sort.
RequeuedUnsorted == {pending \o nacked}

\* sort.Sort(Messages(s)): a permutation of s in the order of the timestamps.
SortByTimestamp(s) ==
  {[i \in DOMAIN s |-> s[p[i]]] :
     p \in {p \in Bijection(DOMAIN s, DOMAIN s) :
              \A i, j \in DOMAIN s : i < j => s[p[i]] <= s[p[j]]}}

\* append(nacked[idx+1:], r.nacked...), sorted by timestamp.
Requeued == SortByTimestamp(pending \o nacked)

\* "don't retry here": reconnect returns to drain's select.
AfterFailedResend == "select"

\* Send failed in the loop: what was not tried yet goes before what was nacked
\* meanwhile, in the order of their timestamps.
Requeue ==
  /\ dpc = "requeue"
  /\ nacked' \in Requeued
  /\ pending' = << >>
  /\ dpc' = AfterFailedResend
  /\ UNCHANGED <<after, read, chanVars, token, outstanding, sendVars,
                 delivered, acked>>

-----------------------------------------------------------------------------
(* drain                                                                   *)

TakeClosed ==
  /\ dpc = "select" /\ token > 0
  /\ token' = token - 1
  /\ dpc' = "connect"
  /\ UNCHANGED <<after, pending, read, chanVars, nacked, outstanding,
                 sendVars, delivered, acked>>

\* The Send's buffer is below this model: SendSpec lets its peer decode at
\* any time.
TakeFlush ==
  /\ dpc = "select" /\ flush
  /\ flush' = FALSE
  /\ UNCHANGED <<drainVars, received, newMessages, shutdown, token, nacked,
                 outstanding, sendVars, delivered, acked>>

\* Also the inner loop, once the tomb is dying.
TakeMessage ==
  /\ dpc \in {"select", "dying"} /\ newMessages # << >>
  /\ newMessages' = Tail(newMessages)
  /\ CallSend(Head(newMessages), outstanding + 1, dpc, dpc)
  /\ UNCHANGED <<pending, read, received, flush, shutdown, token,
                 conns, hooked, sclosed, missed, delivered, acked>>

TakeDying ==
  /\ dpc = "select" /\ shutdown
  /\ dpc' = "dying"
  /\ UNCHANGED <<after, pending, read, chanVars, token, nacked, outstanding,
                 sendVars, delivered, acked>>

\* Mutant: drain waits until nothing is left to resend.
DrainedAndResent == newMessages = << >> /\ nacked = << >>

\* The inner select of drain takes its default case.
Drained == newMessages = << >>

\* r.s.Close() and return: what is nacked or in flight is not waited for.
DrainEnds ==
  /\ dpc = "dying" /\ Drained
  /\ dpc' = "done"
  /\ UNCHANGED <<after, pending, read, chanVars, token, nacked, outstanding,
                 sendVars, delivered, acked>>

-----------------------------------------------------------------------------
(* The users of ReliableSend, once Start returned                          *)

Started == hooked \/ conns > 1

Receive ==
  /\ Started
  /\ received < MaxMsgs /\ Len(newMessages) < Buffer
  /\ received' = received + 1
  /\ newMessages' = Append(newMessages, received + 1)
  /\ UNCHANGED <<drainVars, flush, shutdown, token, nacked, outstanding,
                 sendVars, delivered, acked>>

Flush ==
  /\ Started /\ ~flush
  /\ flush' = TRUE
  /\ UNCHANGED <<drainVars, received, newMessages, shutdown, token, nacked,
                 outstanding, sendVars, delivered, acked>>

\* Close sets shutdown, kills the tomb and waits for drain.
Close ==
  /\ Started /\ ~shutdown
  /\ shutdown' = TRUE
  /\ UNCHANGED <<drainVars, received, newMessages, flush, token, nacked,
                 outstanding, sendVars, delivered, acked>>

-----------------------------------------------------------------------------
Init ==
  /\ dpc = "connect" /\ after = "select"
  /\ received = 0 /\ newMessages = << >>
  /\ token = 0 /\ flush = FALSE /\ shutdown = FALSE
  /\ nacked = << >> /\ pending = << >>
  /\ outstanding = 0 /\ read = 0
  /\ conns = 0 /\ hooked = FALSE /\ sclosed = FALSE /\ missed = FALSE
  /\ flight = << >> /\ got = 0 /\ stale = {}
  /\ walked = << >> /\ standing = "in" /\ last = 0 /\ late = {} /\ both = FALSE
  /\ delivered = {} /\ acked = {}

Reconnect ==
  \/ Connects \/ ConnectFails \/ Hooks
  \/ ResendDone \/ ResendReads \/ ResendSends \/ Requeue

Drain ==
  \/ Reconnect \/ Unblocks \/ WalkNacks \/ WalkEnds
  \/ TakeClosed \/ TakeFlush \/ TakeMessage \/ TakeDying \/ DrainEnds

Next ==
  \/ Drain
  \/ Decode \/ DecodeStale \/ Ack \/ Break \/ AckInWalk \/ AckLate
  \/ Receive \/ Flush \/ Close

\* drain runs whenever it can and its select starves no ready case; hosts are
\* eventually reachable; a peer decodes and its acks are read.
Fairness ==
  /\ WF_vars(Drain)
  /\ SF_vars(TakeClosed) /\ SF_vars(TakeMessage)
  /\ SF_vars(TakeFlush) /\ SF_vars(TakeDying)
  /\ WF_vars(Decode) /\ WF_vars(Ack)

Spec == Init /\ [][Next]_vars

FairSpec == Spec /\ Fairness

-----------------------------------------------------------------------------
(* Properties                                                              *)

TypeOK ==
  /\ dpc \in {"connect", "hook", "resend", "increment", "requeue", "select",
              "blocked", "walk", "dying", "done"}
  /\ after \in {"resend", "requeue", "select", "dying"}
  /\ received \in 0 .. MaxMsgs
  /\ newMessages \in Seq(Msgs) /\ Len(newMessages) <= Buffer
  /\ token \in Nat
  /\ flush \in BOOLEAN /\ shutdown \in BOOLEAN
  /\ nacked \in Seq(Msgs) /\ pending \in Seq(Msgs)
  /\ outstanding \in Int /\ read \in Int
  /\ conns \in 0 .. MaxConns
  /\ hooked \in BOOLEAN /\ sclosed \in BOOLEAN /\ missed \in BOOLEAN
  /\ flight \in Seq(Msgs) /\ walked \in Seq(Msgs)
  /\ got \in 0 .. Len(walked) + Len(flight)
  /\ standing \in {"in", "acked", "gone"} /\ last \in {0} \cup Msgs
  /\ stale \subseteq Seq(Msgs) /\ late \subseteq Seq(Msgs) /\ both \in BOOLEAN
  /\ delivered \subseteq Msgs /\ acked \subseteq Msgs

\* "doesn't lose messages when the remote side is reconnected": through any
\* number of closes and reconnects, also when a resend fails half way or a
\* write fails and sendNacks walks in drain itself, the messages not yet acked
\* are, oldest first, those nacked, those in flight, those being resent, and
\* those not yet taken; none is missing, none is twice.  The exception is a
\* readAck that acks what a walk has nacked: the walk may then stop early.
NothingLost ==
  ~both =>
    nacked \o flight \o pending \o newMessages
      = [i \in 1 .. received - Cardinality(acked) |-> Cardinality(acked) + i]

\* OnClosed is called with the Send's ackLock held: the channel r.closed must
\* have room, or backgroundAck and every later Send would hang.
NotifyNeverBlocks == token <= 1

\* "the OnClose handler will prime the closed channel": a drain that is back
\* at its select with a closed Send finds a value to pick up, unless that Send
\* closed before it had its OnClosed.
ClosedPrimed ==
  dpc = "select" /\ sclosed /\ ~shutdown /\ ~missed => token = 1

\* Outstanding() is never less than the number of messages given to a Send and
\* not resolved, though the increment is not atomic: whoever waits for it to be
\* zero does not stop too early.  A message that hears Nack and Ack is counted
\* down twice.
OutstandingCovers == ~both => outstanding >= Len(flight)

\* Ack is called for what some peer decoded, by the newest Send or by the reader
\* of one that a failed write closed.
AckedDecoded == acked \subseteq delivered

\* What the drain goroutine relies on between its steps: the close notification
\* neither blocks nor gets lost, however a Send closed, an Ack is true, and the
\* counter does not undercount (OnClosed, reconnect, Ack, Nack).
Bookkeeping ==
  TypeOK /\ NotifyNeverBlocks /\ ClosedPrimed /\ OutstandingCovers /\ AckedDecoded

\* Every message is delivered and acked if the ReliableSend is not closed, no
\* connection breaks before it has its OnClosed, and no message hears both.
EventuallyAcked ==
  \A m \in Msgs : m <= received ~> (m \in acked \/ shutdown \/ missed \/ both)

\* Close returns.
CloseReturns == shutdown ~> dpc = "done"

\* What was received is acked, and Close returns, each with the exceptions
\* stated above (reconnect, drain, Close).
AcksAndCloses == EventuallyAcked /\ CloseReturns

\* ReliableSend delivers at least once and in order, until a message has heard
\* both Ack and Nack; from then on an Ack is still only for what was decoded.
Delivery == INSTANCE AtLeastOnce WITH accepted <- 1 .. received
Owed == Delivery!Next \/ (both' /\ acked' \subseteq delivered')
ImplementsAtLeastOnce == Delivery!Init /\ [][Owed]_Delivery!vars
=============================================================================
