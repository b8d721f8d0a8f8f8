--------------------------- MODULE ReliableProofs ---------------------------
(***************************************************************************)
(* Proofs about module ReliableSend, for every number of messages and of   *)
(* connections, every capacity and every window.                           *)
(***************************************************************************)
EXTENDS ReliableSend, Lemmas

-----------------------------------------------------------------------------
(* The inductive invariant                                                 *)

Acks == Cardinality(acked)

\* The messages not yet acked stand in four queues, each of which goes on
\* where the one before it ends.
Queues ==
  /\ acked = 1 .. Acks
  /\ Run(nacked, Acks)
  /\ Run(flight, Acks + Len(nacked))
  /\ Run(pending, Acks + Len(nacked) + Len(flight))
  /\ Run(newMessages, Acks + Len(nacked) + Len(flight) + Len(pending))
  /\ received = Acks + Len(nacked) + Len(flight) + Len(pending)
                     + Len(newMessages)

\* Which of the queues may hold something, by where drain is and whether the
\* newest Send is closed.
Places ==
  /\ ~sclosed /\ LockFree /\ ~Walking => nacked = << >>
  /\ sclosed \/ ~LockFree => flight = << >>
  /\ ~Walking => walked = << >>
  /\ Walking => ~sclosed /\ after # "resend"
  /\ dpc = "blocked" => after # "requeue"
  /\ dpc = "requeue" => sclosed
  /\ pending # << >> => \/ dpc \in {"resend", "increment", "requeue"}
                        \/ dpc = "blocked" /\ after = "resend"
                        \/ Walking /\ after = "requeue"
  /\ dpc = "increment" => pending # << >>
  /\ \A q \in stale : q # << >>
  /\ \A q \in late : q # << >>

\* The life of a Send: connected, hooked, closed; and how often r.closed is
\* primed in it.
Notices ==
  /\ dpc = "connect" => (sclosed /\ hooked) \/ conns = 0
  /\ shutdown => conns > 0
  /\ conns = 0 => dpc = "connect" /\ ~hooked /\ ~sclosed
  /\ dpc = "hook" => ~hooked
  /\ LockFree => hooked
  /\ token > 0 => token = 1 /\ sclosed /\ hooked /\ LockFree
  /\ sclosed /\ ~missed /\ hooked /\ dpc # "connect" /\ ~shutdown => token = 1
  /\ sclosed /\ ~hooked => missed

\* r.outstanding is read, incremented and written back without r.lock.
Counter ==
  /\ outstanding >= Len(flight)
  /\ dpc = "increment" => read >= outstanding

\* What holds however Sends close, and what holds until a message has heard
\* both Nack and Ack: a walk meets all that is in reqs.
Base == TypeOK /\ Places /\ Notices
Exact == Queues /\ Counter /\ (Walking => standing = "in")

IInv == Base /\ (~both => Exact)

\* What readers have acked, and what they still ack, some peer has decoded.
Truth ==
  /\ AckedDecoded
  /\ \A i \in 1 .. got : Reqs[i] \in delivered
  /\ \A q \in late : \A i \in 1 .. Len(q) : q[i] \in delivered

\* The peers have decoded a prefix of what was received: the messages in
\* reqs that were decoded are in it, and so are the ones before a stream
\* that is still to be decoded.
Decoded ==
  \E d \in 0 .. received :
    /\ delivered = 1 .. d
    /\ Acks + got <= d
    /\ \A q \in stale : \E b \in 0 .. d : Run(q, b) /\ b + Len(q) <= received

DInv == IInv /\ Truth /\ (~both => Decoded)

-----------------------------------------------------------------------------
(* However Sends close                                                     *)

\* The base holds when Start begins.
LEMMA InitBase == Init => Base
<1> SUFFICES ASSUME Init PROVE Base
  OBVIOUS
<1>1. TypeOK
  <2>1. << >> \in Seq(Msgs) /\ Len(<< >>) = 0
    OBVIOUS
  <2>2. received \in 0 .. MaxMsgs /\ conns \in 0 .. MaxConns
    BY ReliableAssumption DEF Init
  <2>3. got \in 0 .. Len(walked) + Len(flight) /\ Len(newMessages) <= Buffer
    BY ReliableAssumption, <2>1 DEF Init
  <2>4. token \in Nat /\ outstanding \in Int /\ read \in Int
    BY DEF Init
  <2>5. /\ flush \in BOOLEAN /\ shutdown \in BOOLEAN /\ both \in BOOLEAN
        /\ hooked \in BOOLEAN /\ sclosed \in BOOLEAN /\ missed \in BOOLEAN
    BY DEF Init
  <2> QED
    BY <2>1, <2>2, <2>3, <2>4, <2>5 DEF Init, TypeOK
<1> QED
  BY <1>1 DEF Init, Base, Places, Notices, LockFree, Walking

\* What was acked is a finite set, so that it can be counted.
LEMMA AcksInNat == ASSUME Base PROVE Acks \in Nat /\ IsFiniteSet(acked)
<1>1. IsFiniteSet(Msgs)
  BY ReliableAssumption, FS_Interval DEF Msgs
<1> QED
  BY <1>1, FS_Subset, FS_CardinalityType DEF Base, TypeOK, Acks

\* What reqs is made of.
LEMMA ReqsAre ==
  ASSUME Base
  PROVE  /\ Reqs \in Seq(Msgs) /\ Len(Reqs) = Len(walked) + Len(flight)
         /\ walked = << >> => Reqs = flight
         /\ got \in Nat /\ got <= Len(Reqs)
         /\ got > 0 => Reqs # << >> /\ Head(Reqs) \in Msgs
<1>1. walked \in Seq(Msgs) /\ flight \in Seq(Msgs) /\ got \in 0 .. Len(walked) + Len(flight)
  BY DEF Base, TypeOK
<1>2. Reqs \in Seq(Msgs) /\ Len(Reqs) = Len(walked) + Len(flight)
  BY <1>1 DEF Reqs
<1> QED
  BY <1>1, <1>2 DEF Reqs

\* What was under way is cut to something that can be decoded.
LEMMA CutStreams ==
  ASSUME Base, NEW n \in got .. Len(flight), Cut(n)
  PROVE  stale' \subseteq Seq(Msgs) /\ \A q \in stale' : q # << >>
<1>1. SubSeq(flight, got + 1, n) \in Seq(Msgs)
  BY SubSeqProperties DEF Base, TypeOK
<1> QED
  BY <1>1 DEF Cut, Base, TypeOK, Places

\* An ack takes the oldest message in flight.
LEMMA AckBase == ASSUME Base, Ack PROVE Base'
<1>1. flight # << >> /\ walked = << >>
  BY DEF Ack, Base, TypeOK, Places
<1>2. /\ Remaining \in Seq(Msgs) /\ Len(Remaining) = Len(flight) - 1
      /\ Head(flight) \in Msgs
  BY <1>1 DEF Base, TypeOK, Remaining
<1>3. TypeOK'
  BY <1>1, <1>2 DEF Ack, Base, TypeOK, drainVars, chanVars
<1>4. Places'
  BY <1>2 DEF Ack, Base, Places, LockFree, Walking, drainVars
<1>5. Notices'
  BY DEF Ack, Base, Notices, LockFree, drainVars, chanVars
<1> QED
  BY <1>3, <1>4, <1>5 DEF Base

\* The connection breaks.
LEMMA BreakBase == ASSUME Base, Break PROVE Base'
<1> USE ReliableAssumption
<1>0. walked = << >> /\ ~Walking /\ ~sclosed /\ Len(walked) = 0
  BY DEF Break, Base, Places
<1>1. PICK n \in got .. Len(flight) : Cut(n)
  BY DEF Break
<1>2. stale' \subseteq Seq(Msgs) /\ \A q \in stale' : q # << >>
  BY <1>1, CutStreams
<1>3. nacked' \in Seq(Msgs) /\ flight' \in Seq(Msgs) /\ Len(flight') = 0
  BY DEF Break, Base, TypeOK
<1>4. TypeOK'
  <2>2. outstanding' \in Int /\ token' \in Nat
    BY DEF Break, Base, TypeOK, NackCounted
  <2>3. sclosed' \in BOOLEAN /\ missed' \in BOOLEAN
    BY DEF Break
  <2>4. got' \in 0 .. Len(walked') + Len(flight')
    BY <1>0, <1>3 DEF Break, walkVars
  <2> QED
    BY <1>2, <1>3, <2>2, <2>3, <2>4 DEF Break, Base, TypeOK, drainVars, chanVars, walkVars
<1>5. Places'
  BY <1>0, <1>2, <1>3 DEF Break, Base, Places, LockFree, Walking, drainVars, walkVars
<1>6. Notices'
  <2>1. token = 0 /\ conns # 0
    BY DEF Break, Base, TypeOK, Notices
  <2>2. /\ hooked => token' = 1 /\ token' > 0
        /\ ~hooked => token' = 0 /\ ~(token' > 0)
    BY <2>1 DEF Break, PrimesClosed
  <2>3. dpc # "connect"
    BY <2>1 DEF Break, Base, Notices
  <2> QED
    BY <2>1, <2>2, <2>3, Zenon
       DEF Break, Base, Notices, LockFree, drainVars, chanVars
<1> QED
  BY <1>4, <1>5, <1>6 DEF Base

\* A walk closes the Send like a break does.
LEMMA WalkEndsBase == ASSUME Base, WalkEnds PROVE Base'
<1>1. ~sclosed /\ LockFree /\ hooked /\ token = 0 /\ conns # 0
  BY DEF WalkEnds, Walking, Base, TypeOK, Places, Notices, LockFree
<1>2. token' = 1 /\ sclosed' /\ hooked' /\ after \in {"requeue", "select", "dying"}
  BY <1>1 DEF WalkEnds, PrimesClosed, Base, Places, TypeOK
<1>3. late' \subseteq Seq(Msgs) /\ \A q \in late' : q # << >>
  <2>1. SubSeq(Reqs, 1, got) \in Seq(Msgs)
    BY ReqsAre, SubSeqProperties
  <2> QED
    BY <2>1 DEF WalkEnds, Base, TypeOK, Places
<1>4. TypeOK'
  <2>1. got' \in 0 .. Len(walked') + Len(flight') /\ flight' \in Seq(Msgs) /\ walked' \in Seq(Msgs)
    BY DEF WalkEnds
  <2> QED
    BY <1>2, <1>3, <2>1 DEF WalkEnds, Base, TypeOK, chanVars
<1>5. Places'
  BY <1>1, <1>2, <1>3 DEF WalkEnds, Base, Places, LockFree, Walking
<1>6. Notices'
  BY <1>1, <1>2 DEF WalkEnds, Base, Notices, LockFree, chanVars
<1> QED
  BY <1>4, <1>5, <1>6 DEF Base

\* The walk moves one message from those in flight to those nacked.
LEMMA WalkNacksBase == ASSUME Base, WalkNacks PROVE Base'
<1>1. /\ Head(flight) \in Msgs /\ Tail(flight) \in Seq(Msgs)
      /\ Len(Tail(flight)) = Len(flight) - 1
  BY DEF WalkNacks, Base, TypeOK
<1>2. /\ nacked' \in Seq(Msgs) /\ walked' \in Seq(Msgs) /\ flight' \in Seq(Msgs)
      /\ Len(walked') + Len(flight') = Len(walked) + Len(flight)
  BY <1>1 DEF WalkNacks, Base, TypeOK
<1>3. TypeOK'
  BY <1>2 DEF WalkNacks, Base, TypeOK, drainVars, chanVars
<1>4. Places'
  BY DEF WalkNacks, Base, Places, Walking, LockFree, drainVars
<1>5. Notices'
  BY DEF WalkNacks, Base, Notices, LockFree, drainVars, chanVars
<1> QED
  BY <1>3, <1>4, <1>5 DEF Base

\* A reader acks while the walk is under way.
LEMMA AckInWalkBase == ASSUME Base, AckInWalk PROVE Base'
<1>1. Reqs # << >> /\ Head(Reqs) \in Msgs /\ got \in Nat /\ got > 0 /\ got <= Len(Reqs)
  BY ReqsAre DEF AckInWalk
<1>2. /\ walked' \in Seq(Msgs) /\ flight' \in Seq(Msgs)
      /\ Len(walked') + Len(flight') = Len(walked) + Len(flight) - 1
  <2>1. walked \in Seq(Msgs) /\ flight \in Seq(Msgs) /\ Len(walked) + Len(flight) > 0
    BY <1>1, ReqsAre DEF Base, TypeOK
  <2>2. CASE walked = << >>
    <3>1. walked' = << >> /\ flight' = Tail(flight) /\ flight # << >> /\ Len(walked) = 0
      BY <2>1, <2>2 DEF AckInWalk
    <3> QED BY <2>1, <3>1
  <2>3. CASE walked # << >>
    <3>1. walked' = Tail(walked) /\ flight' = flight
      BY <2>3 DEF AckInWalk
    <3> QED BY <2>1, <2>3, <3>1
  <2> QED
    BY <2>2, <2>3
<1>3. TypeOK'
  <2>1. got' \in 0 .. Len(walked') + Len(flight')
    BY <1>1, <1>2, ReqsAre DEF AckInWalk
  <2>2. acked' \subseteq Msgs /\ last' \in Msgs /\ outstanding' \in Int
    <3>1. acked' = acked \cup {Head(Reqs)} /\ last' = Head(Reqs) /\ outstanding' = outstanding - 1
      BY DEF AckInWalk
    <3> QED BY <1>1, <3>1 DEF Base, TypeOK
  <2>3. standing' \in {"in", "acked", "gone"}
    BY DEF AckInWalk
  <2>4. both' \in BOOLEAN
    BY DEF AckInWalk
  <2> QED
    BY <1>2, <2>1, <2>2, <2>3, <2>4 DEF AckInWalk, Base, TypeOK, drainVars, chanVars
<1>4. Places'
  BY DEF AckInWalk, Base, Places, Walking, LockFree, drainVars
<1>5. Notices'
  BY DEF AckInWalk, Base, Notices, LockFree, drainVars, chanVars
<1> QED
  BY <1>3, <1>4, <1>5 DEF Base

\* A reader acks after the walk.
LEMMA AckLateBase == ASSUME Base, AckLate PROVE Base'
<1>1. PICK q \in late :
        /\ acked' = acked \cup {Head(q)}
        /\ late' = (late \ {q}) \cup ({Tail(q)} \ {<< >>})
  BY DEF AckLate
<1>2. q \in Seq(Msgs) /\ q # << >>
  BY DEF Base, TypeOK, Places
<1>3. Head(q) \in Msgs /\ Tail(q) \in Seq(Msgs)
  BY <1>2
<1>4. /\ late' \subseteq Seq(Msgs) /\ acked' \subseteq Msgs
      /\ \A s \in late' : s # << >>
  BY <1>1, <1>3 DEF Base, TypeOK, Places
<1>5. TypeOK'
  BY <1>4 DEF AckLate, Base, TypeOK, drainVars, chanVars
<1>6. Places'
  BY <1>4 DEF AckLate, Base, Places, Walking, LockFree, drainVars
<1>7. Notices'
  BY DEF AckLate, Base, Notices, LockFree, drainVars, chanVars
<1> QED
  BY <1>5, <1>6, <1>7 DEF Base

\* What the peer does is not seen by the ReliableSend.
LEMMA DecodeBase == ASSUME Base, Decode PROVE Base'
<1>1. flight[got + 1] \in Msgs /\ walked = << >>
  BY DEF Decode, Base, TypeOK, Places
<1>2. TypeOK'
  BY <1>1 DEF Decode, Base, TypeOK, drainVars, chanVars, walkVars
<1> QED
  BY <1>2 DEF Decode, Base, Places, Notices, LockFree, Walking, drainVars, chanVars, walkVars

\* What the peers of older connections decode is not seen either.
LEMMA StaleBase == ASSUME Base, DecodeStale PROVE Base'
<1>1. PICK q \in stale :
        /\ delivered' = delivered \cup {Head(q)}
        /\ stale' = (stale \ {q}) \cup ({Tail(q)} \ {<< >>})
  BY DEF DecodeStale
<1>2. q \in Seq(Msgs) /\ q # << >>
  BY DEF Base, TypeOK, Places
<1>3. Head(q) \in Msgs /\ Tail(q) \in Seq(Msgs)
  BY <1>2
<1>4. /\ stale' \subseteq Seq(Msgs) /\ delivered' \subseteq Msgs
      /\ \A s \in stale' : s # << >>
  BY <1>1, <1>3 DEF Base, TypeOK, Places
<1>5. TypeOK'
  BY <1>4 DEF DecodeStale, Base, TypeOK, drainVars, chanVars, walkVars
<1>6. Places'
  BY <1>4 DEF DecodeStale, Base, Places, Walking, LockFree, drainVars, walkVars
<1>7. Notices'
  BY DEF DecodeStale, Base, Notices, LockFree, drainVars, chanVars
<1> QED
  BY <1>5, <1>6, <1>7 DEF Base

\* A sorted sequence is one of the same messages.
LEMMA SortedIn ==
  ASSUME NEW s \in Seq(Msgs), NEW u \in SortByTimestamp(s)
  PROVE  u \in Seq(Msgs) /\ Len(u) = Len(s)
<1>1. PICK p \in Bijection(DOMAIN s, DOMAIN s) : u = [i \in DOMAIN s |-> s[p[i]]]
  BY DEF SortByTimestamp
<1>2. DOMAIN s = 1 .. Len(s) /\ Len(s) \in Nat
  OBVIOUS
<1>3. p \in [1 .. Len(s) -> 1 .. Len(s)]
  BY <1>1, <1>2 DEF Bijection, Injection, Surjection
<1>4. \A i \in 1 .. Len(s) : s[p[i]] \in Msgs
  BY <1>2, <1>3
<1>5. u \in [1 .. Len(s) -> Msgs]
  BY <1>1, <1>2, <1>4
<1> QED
  BY <1>2, <1>5

\* The steps of reconnect.
LEMMA ConnectsBase == ASSUME Base, Connects PROVE Base'
<1>0. flight = << >> /\ walked = << >>
  BY DEF Connects, Base, Places, LockFree, Walking
<1>1. TypeOK'
  <2>1. conns' \in 0 .. MaxConns
    BY ReliableAssumption DEF Connects, Base, TypeOK
  <2>2. hooked' \in BOOLEAN /\ sclosed' \in BOOLEAN /\ missed' \in BOOLEAN
    BY DEF Connects
  <2>3. last' \in {0} \cup Msgs
    BY DEF Connects
  <2> QED
    BY <2>1, <2>2, <2>3 DEF Connects, Base, TypeOK, chanVars
<1>2. Places'
  BY <1>0 DEF Connects, Base, Places, LockFree, Walking
<1>3. conns' # 0 /\ conns' > 0 /\ token = 0 /\ ~(token > 0)
  BY ReliableAssumption DEF Connects, Base, TypeOK, Notices, LockFree
<1> QED
  BY <1>1, <1>2, <1>3 DEF Connects, Base, Notices, LockFree, chanVars

\* drain gives up connecting only when it is shut down.
LEMMA ConnectFailsBase == ASSUME Base, ConnectFails PROVE Base'
<1>1. TypeOK'
  BY DEF ConnectFails, Base, TypeOK, chanVars, sendVars, walkVars
<1>2. conns # 0
  BY DEF ConnectFails, Base, Notices
<1> QED
  BY <1>1, <1>2 DEF ConnectFails, Base, Places, Notices, LockFree, Walking,
                    chanVars, sendVars, walkVars

\* reconnect takes over what was nacked.
LEMMA HooksBase == ASSUME Base, Hooks PROVE Base'
<1>1. pending' = nacked /\ nacked' = << >> /\ flight = << >> /\ walked = << >>
  BY DEF Hooks, Base, Places, Taken, Walking, LockFree
<1>2. TypeOK'
  BY <1>1 DEF Hooks, Base, TypeOK, chanVars, walkVars
<1>3. Places'
  BY <1>1 DEF Hooks, Base, Places, LockFree, Walking, chanVars, walkVars
<1>4. Notices'
  BY Zenon DEF Hooks, Base, Notices, LockFree, chanVars
<1> QED
  BY <1>2, <1>3, <1>4 DEF Base

\* The resend ends when nothing is left of what reconnect took; its increment
\* reads outstanding.
LEMMA ResendBase == ASSUME Base, ResendDone \/ ResendReads PROVE Base'
<1>1. TypeOK'
  BY DEF ResendDone, ResendReads, Base, TypeOK, chanVars, sendVars, walkVars
<1>2. dpc \notin {"connect", "hook", "walk"} /\ dpc' \in {"select", "increment"}
  BY DEF ResendDone, ResendReads
<1>3. Places'
  BY <1>2 DEF ResendDone, ResendReads, Base, Places, LockFree, Walking,
              chanVars, sendVars, walkVars
<1>4. Notices'
  BY <1>2 DEF ResendDone, ResendReads, Base, Notices, LockFree, chanVars, sendVars
<1> QED
  BY <1>1, <1>3, <1>4 DEF Base

\* A failed resend puts the untried messages back.
LEMMA RequeueBase == ASSUME Base, Requeue PROVE Base'
<1>1. sclosed /\ nacked' \in Seq(Msgs) /\ pending' = << >> /\ dpc' = "select"
  <2>1. pending \o nacked \in Seq(Msgs)
    BY DEF Base, TypeOK
  <2> QED
    BY <2>1, SortedIn DEF Requeue, Requeued, AfterFailedResend, Base, Places
<1>2. TypeOK'
  BY <1>1 DEF Requeue, Base, TypeOK, chanVars, sendVars, walkVars
<1>3. Places'
  BY <1>1 DEF Requeue, Base, Places, LockFree, Walking, chanVars, sendVars, walkVars
<1>4. Notices'
  BY <1>1 DEF Requeue, Base, Notices, LockFree, chanVars, sendVars
<1> QED
  BY <1>2, <1>3, <1>4 DEF Base

\* drain takes the notice of the Send that closed.
LEMMA TakeClosedBase == ASSUME Base, TakeClosed PROVE Base'
<1>1. TypeOK'
  BY DEF TakeClosed, Base, TypeOK, Notices, chanVars, sendVars, walkVars
<1>2. token' = 0 /\ ~(token' > 0) /\ sclosed /\ hooked
  BY DEF TakeClosed, Base, Notices
<1> QED
  BY <1>1, <1>2 DEF TakeClosed, Base, Places, Notices, LockFree, Walking,
                    chanVars, sendVars, walkVars

\* These steps touch no message.
LEMMA OthersBase ==
  ASSUME Base, TakeFlush \/ TakeDying \/ DrainEnds \/ Flush \/ Close
  PROVE  Base'
<1>1. TypeOK'
  BY ZenonT(60) DEF TakeFlush, TakeDying, DrainEnds, Flush, Close, Base, TypeOK,
         chanVars, sendVars, walkVars, drainVars
<1>2. Close => conns > 0
  BY DEF Base, TypeOK, Notices, Started, Close
<1>3. Notices'
  BY <1>2 DEF TakeFlush, TakeDying, DrainEnds, Flush, Close, Base, Notices, LockFree,
         chanVars, sendVars, drainVars
<1>4. Places'
  BY DEF TakeFlush, TakeDying, DrainEnds, Flush, Close, Base, Places, LockFree, Walking,
         chanVars, sendVars, walkVars, drainVars
<1> QED
  BY <1>1, <1>3, <1>4 DEF Base

\* drain leaves its wait for the window.
LEMMA UnblocksBase == ASSUME Base, Unblocks PROVE Base'
<1>0. dpc = "blocked" /\ dpc' \in {after} \cup
              (IF sclosed /\ after = "resend" THEN {"requeue"} ELSE {})
      /\ UNCHANGED <<after, pending, read, chanVars, token, nacked, outstanding,
                 sendVars, delivered, acked>>
  BY DEF Unblocks
<1>1. after # "requeue" => dpc' \in {"resend", "select", "dying", "requeue"}
  BY <1>0 DEF Base, TypeOK
<1>2. dpc' = "requeue" /\ after # "requeue" => sclosed
  BY <1>0
<1>3. after # "requeue"
  BY <1>0 DEF Base, Places
<1>4. TypeOK'
  BY <1>0, <1>1, <1>3 DEF Base, TypeOK, chanVars, sendVars, walkVars
<1>5. Places'
  BY <1>0, <1>1, <1>2, <1>3 DEF Base, Places, LockFree, Walking, TypeOK, chanVars, sendVars, walkVars
<1>6. Notices'
  BY <1>0, <1>1, <1>3 DEF Base, Notices, LockFree, chanVars, sendVars
<1> QED
  BY <1>4, <1>5, <1>6 DEF Base

\* Receive puts its message behind all the others.
LEMMA ReceiveBase == ASSUME Base, Receive PROVE Base'
<1> USE ReliableAssumption
<1>1. received + 1 \in Msgs /\ received + 1 \in 0 .. MaxMsgs
  BY DEF Receive, Base, TypeOK, Msgs
<1>2. newMessages' \in Seq(Msgs) /\ Len(newMessages') = Len(newMessages) + 1
  BY <1>1 DEF Receive, Base, TypeOK
<1>3. TypeOK'
  BY <1>1, <1>2 DEF Receive, Base, TypeOK, drainVars, sendVars, walkVars
<1>4. Places' /\ Notices'
  BY DEF Receive, Base, Places, Notices, LockFree, Walking, drainVars, sendVars, walkVars
<1> QED
  BY <1>3, <1>4 DEF Base

\* What a call of Send does to the Send.
LEMMA CallSendBase ==
  ASSUME Base, LockFree, ~Walking, NEW m \in Msgs, NEW n \in Int,
         NEW then \in {"resend", "select", "dying"},
         NEW failed \in {"requeue", "select", "dying"},
         CallSend(m, n, then, failed)
  PROVE  /\ flight' \in Seq(Msgs) /\ nacked' \in Seq(Msgs) /\ walked' \in Seq(Msgs)
         /\ got' \in 0 .. Len(walked') + Len(flight') /\ outstanding' \in Int
         /\ stale' \subseteq Seq(Msgs) /\ (\A q \in stale' : q # << >>)
         /\ standing' \in {"in", "acked", "gone"} /\ both' \in BOOLEAN
         /\ late' = late /\ last' = last
         /\ \/ sclosed /\ dpc' = failed /\ after' = after /\ walked' = << >> /\ flight' = << >>
            \/ ~sclosed /\ dpc' \in {then, "blocked"} /\ after' = then /\ nacked' = << >>
               /\ walked' = << >>
            \/ ~sclosed /\ dpc' = "walk" /\ after' = failed
<1>0. /\ flight \in Seq(Msgs) /\ nacked \in Seq(Msgs) /\ got \in Nat /\ got <= Len(flight)
      /\ walked = << >> /\ (~sclosed => nacked = << >>) /\ (sclosed => flight = << >>)
  BY DEF Base, TypeOK, Places
<1>1. CASE sclosed
  <2>1. /\ nacked' = Append(nacked, m) /\ outstanding' = n - 1 /\ dpc' = failed
        /\ UNCHANGED <<after, flight, got, stale, walkVars>>
    BY <1>1 DEF CallSend, SendFails
  <2>2. nacked' \in Seq(Msgs)
    BY <1>0, <2>1
  <2>3. got' \in 0 .. Len(walked') + Len(flight')
    BY <1>0, <2>1 DEF walkVars
  <2> QED
    BY <1>0, <1>1, <2>1, <2>2, <2>3 DEF Base, TypeOK, Places, walkVars
<1>2. CASE ~sclosed /\ ~SendFails(m, n, failed)
  <2>1. /\ flight' = Append(flight, m) /\ outstanding' = n /\ after' = then
        /\ dpc' = IF Len(flight) + 1 = Window THEN "blocked" ELSE then
        /\ UNCHANGED <<nacked, got, stale, walkVars>>
    BY <1>2 DEF CallSend
  <2>2. flight' \in Seq(Msgs) /\ Len(flight') = Len(flight) + 1 /\ Len(walked') = 0
    BY <1>0, <2>1 DEF walkVars
  <2>3. got' \in 0 .. Len(walked') + Len(flight')
    BY <1>0, <2>1, <2>2
  <2> QED
    BY <1>0, <1>2, <2>1, <2>2, <2>3 DEF Base, TypeOK, Places, walkVars
<1>3. CASE ~sclosed /\ SendFails(m, n, failed)
  <2> DEFINE q == Append(flight, m)
  <2>1. q \in Seq(Msgs) /\ Len(q) = Len(flight) + 1 /\ q # << >>
    BY <1>0
  <2>2. /\ Head(q) \in Msgs /\ Tail(q) \in Seq(Msgs) /\ Len(Tail(q)) = Len(flight)
        /\ <<Head(q)>> \in Seq(Msgs) /\ Len(<<Head(q)>>) = 1
    BY <1>0, <2>1
  <2> HIDE DEF q
  <2>3. \/ /\ nacked' = Append(nacked, Head(q)) /\ flight' = Tail(q)
           /\ walked' = <<Head(q)>> /\ standing' = "in" /\ both' = both
        \/ /\ last # 0 /\ nacked' = Append(nacked, last) /\ flight' = q
           /\ walked' = << >> /\ standing' = "acked" /\ both' = TRUE
    BY <1>3 DEF SendFails, q
  <2>4. /\ flight' \in Seq(Msgs) /\ nacked' \in Seq(Msgs) /\ walked' \in Seq(Msgs)
        /\ Len(walked') + Len(flight') = Len(flight) + 1
        /\ standing' \in {"in", "acked", "gone"} /\ both' \in BOOLEAN
    <3>1. last \in {0} \cup Msgs /\ both \in BOOLEAN
      BY DEF Base, TypeOK
    <3>2. CASE /\ nacked' = Append(nacked, Head(q)) /\ flight' = Tail(q)
               /\ walked' = <<Head(q)>> /\ standing' = "in" /\ both' = both
      BY <1>0, <2>2, <3>1, <3>2
    <3>3. CASE /\ last # 0 /\ nacked' = Append(nacked, last) /\ flight' = q
               /\ walked' = << >> /\ standing' = "acked" /\ both' = TRUE
      BY <1>0, <2>1, <3>1, <3>3
    <3> QED BY <2>3, <3>2, <3>3
  <2>5. got' \in 0 .. got /\ outstanding' = n - 1 /\ last' = last /\ late' = late
        /\ dpc' = "walk" /\ after' = failed
    BY <1>3 DEF SendFails
  <2>6. stale' \subseteq Seq(Msgs) /\ \A s \in stale' : s # << >>
    BY <1>3, CutStreams DEF SendFails
  <2>7. got' \in 0 .. Len(walked') + Len(flight')
    BY <1>0, <2>4, <2>5
  <2> QED
    BY <1>3, <2>4, <2>5, <2>6, <2>7
<1> QED
  BY <1>1, <1>2, <1>3

\* The resend gives its next message to the Send.
LEMMA ResendSendsBase == ASSUME Base, ResendSends PROVE Base'
<1>1. LockFree /\ ~Walking /\ pending # << >> /\ dpc = "increment"
  BY DEF ResendSends, Base, Places, LockFree, Walking
<1>2. pending' \in Seq(Msgs) /\ Head(pending) \in Msgs
  BY <1>1 DEF ResendSends, Base, TypeOK
<1>3. PICK n \in {read, outstanding} :
        CallSend(Head(pending), n + 1, "resend", "requeue")
  BY DEF ResendSends
<1>4. n + 1 \in Int
  BY DEF Base, TypeOK
<1>5. /\ flight' \in Seq(Msgs) /\ nacked' \in Seq(Msgs) /\ walked' \in Seq(Msgs)
      /\ got' \in 0 .. Len(walked') + Len(flight') /\ outstanding' \in Int
      /\ stale' \subseteq Seq(Msgs) /\ (\A q \in stale' : q # << >>)
      /\ standing' \in {"in", "acked", "gone"} /\ both' \in BOOLEAN
      /\ late' = late /\ last' = last
      /\ \/ sclosed /\ dpc' = "requeue" /\ after' = after /\ walked' = << >> /\ flight' = << >>
         \/ ~sclosed /\ dpc' \in {"resend", "blocked"} /\ after' = "resend" /\ nacked' = << >>
            /\ walked' = << >>
         \/ ~sclosed /\ dpc' = "walk" /\ after' = "requeue"
  BY <1>1, <1>2, <1>3, <1>4, CallSendBase
<1>6. UNCHANGED <<read, chanVars, token, conns, hooked, sclosed, missed, delivered, acked>>
  BY DEF ResendSends
<1>7. TypeOK'
  BY <1>2, <1>5, <1>6 DEF Base, TypeOK, chanVars
<1>8. Places'
  BY <1>1, <1>5, <1>6 DEF Base, Places, LockFree, Walking
<1>9. Notices'
  BY <1>1, <1>5, <1>6 DEF Base, Notices, LockFree, chanVars
<1> QED
  BY <1>7, <1>8, <1>9 DEF Base

\* drain gives the next new message to the Send.
LEMMA TakeMessageBase == ASSUME Base, TakeMessage PROVE Base'
<1>1. LockFree /\ ~Walking /\ pending = << >> /\ newMessages # << >> /\ dpc \in {"select", "dying"}
  BY DEF TakeMessage, Base, Places, LockFree, Walking
<1>2. /\ newMessages' \in Seq(Msgs) /\ Head(newMessages) \in Msgs
      /\ Len(newMessages') <= Buffer
  BY ReliableAssumption, <1>1 DEF TakeMessage, Base, TypeOK
<1>3. CallSend(Head(newMessages), outstanding + 1, dpc, dpc) /\ outstanding + 1 \in Int
  BY DEF TakeMessage, Base, TypeOK
<1>5. /\ flight' \in Seq(Msgs) /\ nacked' \in Seq(Msgs) /\ walked' \in Seq(Msgs)
      /\ got' \in 0 .. Len(walked') + Len(flight') /\ outstanding' \in Int
      /\ stale' \subseteq Seq(Msgs) /\ (\A q \in stale' : q # << >>)
      /\ standing' \in {"in", "acked", "gone"} /\ both' \in BOOLEAN
      /\ late' = late /\ last' = last
      /\ \/ sclosed /\ dpc' = dpc /\ after' = after /\ walked' = << >> /\ flight' = << >>
         \/ ~sclosed /\ dpc' \in {dpc, "blocked"} /\ after' = dpc /\ nacked' = << >>
            /\ walked' = << >>
         \/ ~sclosed /\ dpc' = "walk" /\ after' = dpc
  BY <1>1, <1>2, <1>3, CallSendBase
<1>6. UNCHANGED <<pending, read, received, flush, shutdown, token, conns, hooked,
                  sclosed, missed, delivered, acked>>
  BY DEF TakeMessage
<1>7. TypeOK'
  BY <1>1, <1>2, <1>5, <1>6 DEF Base, TypeOK
<1>8. Places'
  BY <1>1, <1>5, <1>6 DEF Base, Places, LockFree, Walking
<1>9. Notices'
  BY <1>1, <1>5, <1>6 DEF Base, Notices, LockFree
<1> QED
  BY <1>7, <1>8, <1>9 DEF Base

\* Every step keeps the base.
LEMMA NextBase == ASSUME Base, [Next]_vars PROVE Base'
<1>1. CASE UNCHANGED vars
  BY <1>1 DEF vars, drainVars, chanVars, sendVars, walkVars, Base, TypeOK,
     Places, Notices, LockFree, Walking
<1>2. CASE Next
  BY <1>2, ReceiveBase, AckBase, BreakBase, DecodeBase, StaleBase, AckInWalkBase,
     AckLateBase, WalkNacksBase, WalkEndsBase, ConnectsBase, ConnectFailsBase,
     HooksBase, ResendBase, ResendSendsBase, RequeueBase, TakeClosedBase,
     OthersBase, UnblocksBase, TakeMessageBase
     DEF Next, Drain, Reconnect
<1> QED
  BY <1>1, <1>2

-----------------------------------------------------------------------------
(* Until a message has heard both Nack and Ack                             *)

\* Nothing was received when Start begins.
LEMMA InitExact == Init => Exact
<1>1. Cardinality({}) = 0
  BY FS_EmptySet
<1> QED
  BY <1>1 DEF Init, Exact, Queues, Counter, Acks, Run, Walking

\* The four queues in numbers.
LEMMA QueuesAre ==
  ASSUME Base, Exact
  PROVE  /\ Acks \in Nat /\ acked = 1 .. Acks /\ received \in Nat
         /\ nacked \in Seq(Msgs) /\ Len(nacked) \in Nat /\ Run(nacked, Acks)
         /\ flight \in Seq(Msgs) /\ Len(flight) \in Nat
         /\ Run(flight, Acks + Len(nacked))
         /\ pending \in Seq(Msgs) /\ Len(pending) \in Nat
         /\ Run(pending, Acks + Len(nacked) + Len(flight))
         /\ newMessages \in Seq(Msgs) /\ Len(newMessages) \in Nat
         /\ Run(newMessages, Acks + Len(nacked) + Len(flight) + Len(pending))
         /\ received = Acks + Len(nacked) + Len(flight) + Len(pending)
                            + Len(newMessages)
         /\ outstanding \in Int /\ read \in Int /\ outstanding >= Len(flight)
<1>1. /\ nacked \in Seq(Msgs) /\ flight \in Seq(Msgs) /\ pending \in Seq(Msgs)
      /\ newMessages \in Seq(Msgs) /\ received \in Nat
      /\ outstanding \in Int /\ read \in Int
  BY ReliableAssumption DEF Base, TypeOK
<1> QED
  BY <1>1, AcksInNat DEF Exact, Queues, Counter

\* An ack takes the oldest message in flight, the one after those acked.
LEMMA AckCounts ==
  ASSUME Base, Exact, Ack
  PROVE  /\ nacked = << >> /\ Len(nacked) = 0
         /\ Remaining \in Seq(Msgs) /\ Len(Remaining) = Len(flight) - 1
         /\ Head(flight) \in Msgs /\ Head(flight) = Acks + 1
         /\ Run(Remaining, Acks + 1)
         /\ acked' = 1 .. (Acks + 1) /\ Acks' = Acks + 1
<1>1. flight # << >> /\ nacked = << >> /\ Len(nacked) = 0
  BY DEF Ack, Base, TypeOK, Places
<1>2. /\ Remaining \in Seq(Msgs) /\ Len(Remaining) = Len(flight) - 1
      /\ Head(flight) \in Msgs /\ Head(flight) = Acks + 1
      /\ Run(Remaining, Acks + 1)
  BY <1>1, QueuesAre, RunTail DEF Remaining
<1>3. acked' = 1 .. (Acks + 1)
  <2>1. Acks \in Nat /\ acked = 1 .. Acks
    BY QueuesAre
  <2>2. acked' = acked \cup {Acks + 1}
    BY <1>2 DEF Ack
  <2> QED
    BY <2>1, <2>2
<1>4. Acks' = Acks + 1
  BY <1>3, QueuesAre, CardinalityInterval DEF Acks
<1> QED
  BY <1>1, <1>2, <1>3, <1>4

\* Ack shortens the messages in flight at their front.
LEMMA AckExact == ASSUME Base, Exact, Ack PROVE Exact'
<1>1. UNCHANGED <<dpc, read, nacked, pending, newMessages, received, standing>>
  BY DEF Ack, drainVars, chanVars
<1>2. outstanding' = outstanding - 1 /\ flight' = Remaining
  BY DEF Ack
<1>3. /\ nacked = << >> /\ Len(nacked) = 0 /\ Len(Remaining) = Len(flight) - 1
      /\ Run(Remaining, Acks + 1) /\ acked' = 1 .. (Acks + 1) /\ Acks' = Acks + 1
  BY AckCounts
<1>4. /\ Acks \in Nat /\ Len(flight) \in Nat /\ Len(pending) \in Nat
      /\ Len(newMessages) \in Nat /\ outstanding \in Int /\ read \in Int
      /\ outstanding >= Len(flight)
      /\ Run(nacked, Acks)
  BY QueuesAre
<1>5. Run(nacked', Acks')
  BY <1>1, <1>3, <1>4, RunEmpty
<1>6. /\ Acks' + Len(nacked') + Len(flight') = Acks + Len(nacked) + Len(flight)
      /\ Acks' + Len(nacked') = Acks + 1
  BY <1>1, <1>2, <1>3, <1>4
<1>7. Queues'
  BY <1>1, <1>2, <1>3, <1>5, <1>6 DEF Exact, Queues
<1>8. Counter'
  BY <1>1, <1>2, <1>3, <1>4 DEF Exact, Counter
<1> QED
  BY <1>1, <1>7, <1>8 DEF Exact, Walking

\* Receive puts its message behind all the others.
LEMMA ReceiveExact == ASSUME Base, Exact, Receive PROVE Exact'
<1>1. received + 1 \in Msgs
  BY ReliableAssumption, QueuesAre DEF Receive, Msgs
<1>2. LET b == Acks + Len(nacked) + Len(flight) + Len(pending)
      IN  /\ newMessages' \in Seq(Msgs)
          /\ Len(newMessages') = Len(newMessages) + 1
          /\ Run(newMessages', b)
  BY <1>1, QueuesAre, RunAppend DEF Receive
<1>3. Acks' = Acks /\ received' = received + 1
      /\ UNCHANGED <<acked, dpc, read, nacked, flight, pending, standing, outstanding>>
  BY DEF Receive, Acks, drainVars, sendVars, walkVars
<1>4. Queues'
  BY <1>2, <1>3, QueuesAre DEF Queues
<1> QED
  BY <1>3, <1>4 DEF Exact, Counter, Walking

\* A connection that breaks turns what is in flight into what is nacked.
LEMMA BreakExact == ASSUME Base, Exact, Break PROVE Exact'
<1>1. UNCHANGED <<dpc, read, pending, newMessages, received, standing, acked>>
      /\ Acks' = Acks /\ ~Walking
  BY DEF Break, drainVars, chanVars, walkVars, Acks
<1>2. nacked = << >> \/ flight = << >>
  BY DEF Break, Base, Places
<1>3. /\ nacked' \in Seq(Msgs) /\ Len(nacked') = Len(nacked) + Len(flight)
      /\ Run(nacked', Acks)
  BY QueuesAre, RunConcat DEF Break
<1>4. /\ flight' = << >> /\ Len(flight') = 0 /\ outstanding' = outstanding - Len(flight)
      /\ \A a \in Int : Run(flight', a)
  BY RunEmpty DEF Break, NackCounted
<1>5. Queues'
  BY SMTT(30), <1>1, <1>3, <1>4, QueuesAre DEF Queues
<1>6. Counter'
  BY <1>1, <1>4, QueuesAre DEF Exact, Counter
<1> QED
  BY <1>1, <1>5, <1>6 DEF Exact, Walking

\* The walk nacks the oldest message that it has not.
LEMMA WalkNacksExact == ASSUME Base, Exact, WalkNacks PROVE Exact'
<1>1. UNCHANGED <<dpc, read, pending, newMessages, received, acked>>
      /\ Acks' = Acks /\ flight # << >> /\ standing' = "in"
      /\ outstanding' = outstanding - 1
      /\ nacked' = Append(nacked, Head(flight)) /\ flight' = Tail(flight)
  BY DEF WalkNacks, drainVars, chanVars, Acks
<1>2. /\ flight' \in Seq(Msgs) /\ Len(flight') = Len(flight) - 1
      /\ Head(flight) \in Msgs /\ Head(flight) = Acks + Len(nacked) + 1
      /\ Run(flight', Acks + Len(nacked) + 1)
  BY <1>1, QueuesAre, RunTail
<1>3. /\ nacked' \in Seq(Msgs) /\ Len(nacked') = Len(nacked) + 1 /\ Run(nacked', Acks)
  BY <1>1, <1>2, QueuesAre, RunAppend
<1>4. /\ Acks' + Len(nacked') + Len(flight') = Acks + Len(nacked) + Len(flight)
      /\ Acks' + Len(nacked') = Acks + Len(nacked) + 1
  BY <1>1, <1>2, <1>3, QueuesAre
<1>5. Queues'
  BY <1>1, <1>2, <1>3, <1>4 DEF Exact, Queues
<1>6. Counter'
  BY <1>1, <1>2, QueuesAre DEF Exact, Counter
<1> QED
  BY <1>1, <1>5, <1>6 DEF Exact

\* A walk that met no ack has met all that was in reqs.
LEMMA WalkEndsExact == ASSUME Base, Exact, WalkEnds PROVE Exact'
<1>1. UNCHANGED <<read, pending, newMessages, received, acked, nacked, outstanding>>
      /\ Acks' = Acks /\ flight = << >> /\ flight' = << >>
      /\ dpc' \in {"requeue", "select", "dying"}
  BY DEF WalkEnds, Exact, Base, TypeOK, Places, chanVars, Acks
<1>2. Queues'
  BY <1>1 DEF Exact, Queues
<1>3. Counter'
  BY <1>1 DEF Exact, Counter
<1> QED
  BY <1>1, <1>2, <1>3 DEF Exact, Walking

\* The merge of a resend that failed half way: the untried messages are newer
\* than the nacked ones, and the sort puts them behind.
LEMMA SortRotates ==
  ASSUME NEW p \in Seq(Msgs), NEW q \in Seq(Msgs), NEW a \in Nat,
         Run(q, a), Run(p, a + Len(q)), NEW u \in SortByTimestamp(p \o q)
  PROVE  u = q \o p
<1> DEFINE s == p \o q
           n == Len(p) + Len(q)
<1>1. /\ s \in Seq(Msgs) /\ Len(s) = n /\ DOMAIN s = 1 .. n
      /\ Len(p) \in Nat /\ Len(q) \in Nat /\ n = Len(p) + Len(q)
  BY ConcatProperties
<1>2. Rotated(s, Len(p), Len(q), a)
  BY DEF Run, Rotated
<1>3. /\ q \o p \in Seq(Msgs) /\ Len(q \o p) = n /\ Run(q \o p, a)
  BY RunConcat
<1>4. u \in SortByTimestamp(s)
  OBVIOUS
<1> HIDE DEF s, n
<1>5. PICK f \in Bijection(1 .. n, 1 .. n) :
        /\ u = [i \in 1 .. n |-> s[f[i]]]
        /\ \A i, j \in 1 .. n : i < j => s[f[i]] <= s[f[j]]
  BY <1>1, <1>4 DEF SortByTimestamp
<1>7. /\ f \in [1 .. n -> 1 .. n]
      /\ \A i, j \in 1 .. n : f[i] = f[j] => i = j
      /\ \A t \in 1 .. n : \E i \in 1 .. n : f[i] = t
  BY <1>5 DEF Bijection, Injection, Surjection, IsInjective
<1>8. \A i \in 1 .. n : u[i] = a + i
  <2>1. n \in Nat /\ Len(p) \in Nat /\ Len(q) \in Nat /\ a \in Int
    BY <1>1
  <2>2. Permutes(s, n, a)
    BY <1>1, <1>2, <2>1, RotatedRun
  <2>3. Permutes(u, n, a)
    <3>1. /\ \A i \in 1 .. n : u[i] \in a + 1 .. a + n
          /\ \A i, j \in 1 .. n : u[i] = u[j] => i = j
      BY <1>5, <1>7, <2>1, <2>2 DEF Permutes
    <3>2. ASSUME NEW v \in a + 1 .. a + n
          PROVE  \E i \in 1 .. n : u[i] = v
      <4>1. PICK t \in 1 .. n : s[t] = v
        BY <2>2 DEF Permutes
      <4>2. PICK i \in 1 .. n : f[i] = t
        BY <1>7
      <4> QED
        BY <1>5, <4>1, <4>2
    <3> QED
      BY <3>1, <3>2 DEF Permutes
  <2>4. Ascending(u, n)
    BY <1>5 DEF Ascending
  <2> QED
    BY <2>1, <2>3, <2>4, SortedIsRun
<1>9. q \o p = [i \in 1 .. n |-> a + i]
  <2> DEFINE w == q \o p
  <2>1. w \in Seq(Msgs) /\ Len(w) = n /\ Run(w, a) /\ a \in Int
    BY <1>3
  <2> HIDE DEF w
  <2>2. w = [i \in 1 .. Len(w) |-> a + i]
    BY <2>1, RunEqual
  <2> QED
    BY <2>1, <2>2 DEF w
<1> QED
  BY <1>5, <1>8, <1>9

\* reconnect takes over what was nacked.
LEMMA HooksExact == ASSUME Base, Exact, Hooks PROVE Exact'
<1>1. /\ pending = << >> /\ pending' = nacked /\ nacked' = << >> /\ flight = << >>
      /\ Acks' = Acks /\ dpc' = "resend"
      /\ UNCHANGED <<flight, acked, newMessages, received, outstanding, read>>
  BY DEF Hooks, Base, Places, Taken, LockFree, Walking, chanVars, Acks
<1>2. Len(nacked') = 0 /\ Len(flight) = 0 /\ Len(pending) = 0
      /\ Run(nacked', Acks) /\ Run(flight', Acks)
  BY <1>1, QueuesAre, RunEmpty
<1>3. Queues'
  BY SMTT(30), <1>1, <1>2, QueuesAre DEF Queues
<1> QED
  BY <1>1, <1>3 DEF Exact, Counter, Walking

\* A failed resend puts the untried messages back.
LEMMA RequeueExact == ASSUME Base, Exact, Requeue PROVE Exact'
<1>1. /\ sclosed /\ flight = << >> /\ Len(flight) = 0 /\ pending' = << >>
      /\ nacked' \in Requeued /\ Acks' = Acks /\ dpc' = "select"
      /\ UNCHANGED <<flight, acked, newMessages, received, outstanding, read>>
  BY DEF Requeue, Base, Places, AfterFailedResend, chanVars, sendVars, Acks
<1>2. Run(nacked, Acks) /\ Run(pending, Acks + Len(nacked))
  BY <1>1, QueuesAre
<1>3. nacked' = nacked \o pending
  BY <1>1, <1>2, QueuesAre, SortRotates DEF Requeued
<1>4. /\ nacked' \in Seq(Msgs) /\ Len(nacked') = Len(nacked) + Len(pending)
      /\ Run(nacked', Acks)
  BY <1>2, <1>3, QueuesAre, RunConcat
<1>5. Len(pending') = 0 /\ Run(flight', Acks + Len(nacked'))
      /\ Run(pending', Acks + Len(nacked'))
  BY <1>1, <1>4, QueuesAre, RunEmpty
<1>6. Queues'
  BY SMTT(30), <1>1, <1>4, <1>5, QueuesAre DEF Queues
<1> QED
  BY <1>1, <1>6 DEF Exact, Counter, Walking

\* These steps move no message.
LEMMA OthersExact ==
  ASSUME Base, Exact,
         \/ Decode \/ DecodeStale \/ Connects \/ ConnectFails \/ ResendDone
         \/ TakeClosed \/ TakeFlush \/ TakeDying \/ DrainEnds \/ Flush \/ Close
         \/ Unblocks \/ ResendReads \/ UNCHANGED vars
  PROVE  Exact'
<1>1. UNCHANGED <<nacked, flight, pending, newMessages, received, acked, outstanding>>
  BY DEF Decode, DecodeStale, Connects, ConnectFails, ResendDone, TakeClosed,
         TakeFlush, TakeDying, DrainEnds, Flush, Close, Unblocks, ResendReads,
         drainVars, chanVars, sendVars, walkVars, vars
<1>2. /\ dpc' = "increment" => (dpc = dpc' /\ read' = read) \/ read' = outstanding
      /\ dpc' = "walk" => dpc = dpc' /\ standing' = standing
  <2>1. CASE Unblocks
    BY <2>1 DEF Unblocks, Base, TypeOK, Places
  <2>2. CASE ~Unblocks
    BY <2>2 DEF Decode, DecodeStale, Connects, ConnectFails, ResendDone, TakeClosed,
         TakeFlush, TakeDying, DrainEnds, Flush, Close, Unblocks, ResendReads,
         drainVars, chanVars, sendVars, walkVars, vars
  <2> QED
    BY <2>1, <2>2
<1>3. Queues'
  BY <1>1 DEF Exact, Queues, Acks
<1>4. Counter'
  BY <1>1, <1>2, QueuesAre DEF Exact, Counter
<1> QED
  BY <1>2, <1>3, <1>4 DEF Exact, Walking

\* A call of Send puts its message behind the ones nacked or in flight, and
\* keeps the count above the number in flight if it was incremented before.
LEMMA CallSendAdds ==
  ASSUME Base, Exact, LockFree, ~Walking, ~both',
         NEW m \in Msgs, m = Acks + Len(nacked) + Len(flight) + 1,
         NEW n \in Int, n > outstanding,
         NEW then \in {"resend", "select", "dying"},
         NEW failed \in {"requeue", "select", "dying"},
         CallSend(m, n, then, failed)
  PROVE  /\ nacked' \in Seq(Msgs) /\ Run(nacked', Acks)
         /\ flight' \in Seq(Msgs) /\ Run(flight', Acks + Len(nacked'))
         /\ Len(nacked') + Len(flight') = Len(nacked) + Len(flight) + 1
         /\ outstanding' \in Int /\ outstanding' >= Len(flight')
         /\ dpc' # "increment" /\ (Walking' => standing' = "in")
<1>1. CASE sclosed
  <2>1. /\ flight' = flight /\ flight = << >> /\ dpc' = failed
        /\ nacked' = Append(nacked, m) /\ outstanding' = n - 1
    BY <1>1 DEF CallSend, SendFails, Base, Places
  <2>2. /\ nacked' \in Seq(Msgs) /\ Len(nacked') = Len(nacked) + 1
        /\ Run(nacked', Acks) /\ Len(flight) = 0
    BY <2>1, QueuesAre, RunAppend
  <2>3. flight' \in Seq(Msgs) /\ Run(flight', Acks + Len(nacked'))
    BY <2>1, <2>2, QueuesAre, RunEmpty
  <2> QED
    BY <2>1, <2>2, <2>3, QueuesAre DEF Walking
<1>2. CASE ~sclosed /\ ~SendFails(m, n, failed)
  <2>1. /\ nacked' = nacked /\ nacked = << >> /\ dpc' \in {"blocked", then}
        /\ flight' = Append(flight, m) /\ outstanding' = n
    BY <1>2 DEF CallSend, Base, Places
  <2>2. /\ flight' \in Seq(Msgs) /\ Len(flight') = Len(flight) + 1
        /\ Run(flight', Acks) /\ Len(nacked) = 0
    BY <2>1, QueuesAre, RunAppend
  <2> QED
    BY <2>1, <2>2, QueuesAre DEF Walking
<1>3. CASE ~sclosed /\ SendFails(m, n, failed)
  <2> DEFINE q == Append(flight, m)
  <2>0. /\ Acks \in Nat /\ flight \in Seq(Msgs) /\ Len(flight) \in Nat
        /\ nacked = << >> /\ Len(nacked) = 0 /\ nacked \in Seq(Msgs)
        /\ Run(flight, Acks) /\ m = Acks + Len(flight) + 1
        /\ outstanding >= Len(flight) /\ outstanding \in Int
    <3>1. nacked = << >> /\ Len(nacked) = 0
      BY <1>3 DEF Base, Places
    <3> QED
      BY <3>1, QueuesAre
  <2>1. Acks \in Int
    BY <2>0
  <2>2. q \in Seq(Msgs) /\ Len(q) = Len(flight) + 1 /\ Run(q, Acks)
    BY ONLY <2>0, <2>1, m \in Msgs, RunAppend
  <2> HIDE DEF q
  <2>9. q # << >>
    BY <2>0, <2>2
  <2>3. /\ Head(q) \in Msgs /\ Head(q) = Acks + 1
        /\ Tail(q) \in Seq(Msgs) /\ Len(Tail(q)) = Len(flight) /\ Run(Tail(q), Acks + 1)
    <3>1. /\ Tail(q) \in Seq(Msgs) /\ Len(Tail(q)) = Len(q) - 1
          /\ Head(q) \in Msgs /\ Head(q) = Acks + 1 /\ Run(Tail(q), Acks + 1)
      BY ONLY <2>1, <2>2, <2>9, RunTail
    <3> QED
      BY <2>0, <2>2, <3>1
  <2>4. /\ nacked' = Append(nacked, Head(q)) /\ flight' = Tail(q) /\ standing' = "in"
        /\ outstanding' = n - 1 /\ dpc' = "walk"
    BY <1>3 DEF SendFails, q
  <2>5. nacked' \in Seq(Msgs) /\ Len(nacked') = 1 /\ Run(nacked', Acks)
    BY <2>0, <2>3, <2>4 DEF Run
  <2>6. /\ Run(flight', Acks + Len(nacked')) /\ flight' \in Seq(Msgs)
        /\ Len(flight') = Len(flight)
    BY <2>3, <2>4, <2>5
  <2>7. outstanding' \in Int /\ outstanding' >= Len(flight')
    BY <2>0, <2>4, <2>6
  <2> QED
    BY <2>0, <2>4, <2>5, <2>6, <2>7 DEF Walking
<1> QED
  BY <1>1, <1>2, <1>3

\* The resend gives its next message to the Send.
LEMMA ResendSendsExact == ASSUME Base, Exact, ~both', ResendSends PROVE Exact'
<1>0. /\ LockFree /\ ~Walking /\ pending # << >> /\ pending' = Tail(pending)
      /\ dpc = "increment" /\ Acks' = Acks
      /\ UNCHANGED <<newMessages, received, acked>>
  BY DEF ResendSends, Base, Places, LockFree, Walking, chanVars, Acks
<1>1. LET b == Acks + Len(nacked) + Len(flight)
      IN  /\ pending' \in Seq(Msgs) /\ Len(pending') = Len(pending) - 1
          /\ Head(pending) \in Msgs /\ Head(pending) = b + 1
          /\ Run(pending', b + 1)
  BY <1>0, QueuesAre, RunTail
<1>2. PICK n \in {read, outstanding} :
        CallSend(Head(pending), n + 1, "resend", "requeue")
  BY DEF ResendSends
<1>3. n + 1 \in Int /\ n + 1 > outstanding
  BY <1>0, QueuesAre DEF Exact, Counter
<1>4. /\ nacked' \in Seq(Msgs) /\ Run(nacked', Acks)
      /\ flight' \in Seq(Msgs) /\ Run(flight', Acks + Len(nacked'))
      /\ Len(nacked') + Len(flight') = Len(nacked) + Len(flight) + 1
      /\ outstanding' \in Int /\ outstanding' >= Len(flight')
      /\ dpc' # "increment" /\ (Walking' => standing' = "in")
  BY <1>0, <1>1, <1>2, <1>3, CallSendAdds
<1>5. /\ Acks + Len(nacked) + Len(flight) + 1 = Acks + Len(nacked') + Len(flight')
      /\ Acks + Len(nacked) + Len(flight) + Len(pending)
           = Acks + Len(nacked') + Len(flight') + Len(pending')
  <2>1. /\ Len(nacked') \in Nat /\ Len(flight') \in Nat /\ Len(pending') \in Nat
        /\ Len(nacked') + Len(flight') = Len(nacked) + Len(flight) + 1
        /\ Len(pending') = Len(pending) - 1
    BY <1>1, <1>4
  <2>2. /\ Acks \in Nat /\ Len(nacked) \in Nat /\ Len(flight) \in Nat
        /\ Len(pending) \in Nat
    BY QueuesAre
  <2> QED
    BY <2>1, <2>2
<1>6. Queues'
  BY <1>0, <1>1, <1>4, <1>5, QueuesAre DEF Queues
<1> QED
  BY <1>4, <1>6 DEF Exact, Counter

\* drain gives the next new message to the Send.
LEMMA TakeMessageExact == ASSUME Base, Exact, ~both', TakeMessage PROVE Exact'
<1>0. /\ LockFree /\ ~Walking /\ pending = << >> /\ pending' = << >>
      /\ newMessages # << >> /\ newMessages' = Tail(newMessages)
      /\ dpc \in {"select", "dying"} /\ Acks' = Acks
      /\ UNCHANGED <<received, acked>>
  BY DEF TakeMessage, Base, Places, LockFree, Walking, Acks
<1>1. LET b == Acks + Len(nacked) + Len(flight)
      IN  /\ newMessages' \in Seq(Msgs)
          /\ Len(newMessages') = Len(newMessages) - 1
          /\ Head(newMessages) \in Msgs /\ Head(newMessages) = b + 1
          /\ Run(newMessages', b + 1)
  BY <1>0, QueuesAre, RunTail
<1>2. CallSend(Head(newMessages), outstanding + 1, dpc, dpc)
  BY DEF TakeMessage
<1>3. outstanding + 1 \in Int /\ outstanding + 1 > outstanding
  BY QueuesAre
<1>4. /\ nacked' \in Seq(Msgs) /\ Run(nacked', Acks)
      /\ flight' \in Seq(Msgs) /\ Run(flight', Acks + Len(nacked'))
      /\ Len(nacked') + Len(flight') = Len(nacked) + Len(flight) + 1
      /\ outstanding' \in Int /\ outstanding' >= Len(flight')
      /\ dpc' # "increment" /\ (Walking' => standing' = "in")
  BY <1>0, <1>1, <1>2, <1>3, CallSendAdds
<1>5. /\ Acks + Len(nacked) + Len(flight) + 1
           = Acks + Len(nacked') + Len(flight') + Len(pending')
      /\ Len(pending) = 0 /\ Len(pending') = 0
  <2>1. /\ Len(nacked') \in Nat /\ Len(flight') \in Nat
        /\ Len(pending) = 0 /\ Len(pending') = 0
        /\ Len(nacked') + Len(flight') = Len(nacked) + Len(flight) + 1
    BY <1>0, <1>4
  <2>2. Acks \in Nat /\ Len(nacked) \in Nat /\ Len(flight) \in Nat
    BY QueuesAre
  <2> QED
    BY <2>1, <2>2
<1>6. Run(pending', Acks + Len(nacked') + Len(flight'))
  BY <1>0, <1>4, QueuesAre, RunEmpty
<1>7. Queues'
  BY <1>0, <1>1, <1>4, <1>5, <1>6, QueuesAre DEF Queues
<1> QED
  BY <1>4, <1>7 DEF Exact, Counter

\* What has been nacked and acked stays so.
LEMMA BothStays == ASSUME Base, [Next]_vars, both PROVE both'
<1>1. CASE ResendSends
  BY <1>1 DEF ResendSends, CallSend, SendFails, walkVars
<1>2. CASE TakeMessage
  BY <1>2 DEF TakeMessage, CallSend, SendFails, walkVars
<1> QED
  BY <1>1, <1>2 DEF Next, Drain, Reconnect, Unblocks, WalkNacks, WalkEnds, TakeClosed,
     TakeFlush, TakeDying, DrainEnds, Decode, DecodeStale, Ack, Break,
     AckInWalk, AckLate, Receive, Flush, Close, Connects, ConnectFails, Hooks,
     ResendDone, ResendReads, Requeue, vars, drainVars, chanVars,
     sendVars, walkVars

\* Every step keeps the queues and the count, unless it makes a message hear both.
LEMMA NextExact == ASSUME Base, Exact, ~both', [Next]_vars PROVE Exact'
<1>1. ~AckInWalk /\ ~AckLate
  BY DEF AckInWalk, AckLate
<1>2. CASE ~UNCHANGED vars
  BY <1>1, <1>2, AckExact, ReceiveExact, BreakExact, WalkNacksExact, WalkEndsExact, HooksExact,
   RequeueExact, OthersExact, ResendSendsExact, TakeMessageExact
   DEF Next, Drain, Reconnect
<1> QED
  BY <1>2, OthersExact

\* Every step keeps the invariant.
LEMMA NextKeeps == ASSUME IInv, [Next]_vars PROVE IInv'
BY NextBase, NextExact, BothStays DEF IInv

\* The four queues, one behind the other, are the messages not yet acked.
LEMMA RunsJoin ==
  ASSUME IInv
  PROVE  NothingLost
<1> SUFFICES ASSUME ~both
             PROVE  nacked \o flight \o pending \o newMessages
                      = [i \in 1 .. received - Acks |-> Acks + i]
  BY DEF NothingLost, Acks
<1>0. Base /\ Exact
  BY DEF IInv
<1> DEFINE one   == nacked \o flight
           two   == one \o pending
           all   == two \o newMessages
<1> HIDE DEF one, two, all
<1>1. one \in Seq(Msgs) /\ Len(one) = Len(nacked) + Len(flight) /\ Run(one, Acks)
  BY <1>0, QueuesAre, RunConcat DEF one
<1>2. two \in Seq(Msgs) /\ Len(two) = Len(one) + Len(pending) /\ Run(two, Acks)
  <2>1. Acks \in Int /\ Run(pending, Acks + Len(one)) /\ pending \in Seq(Msgs)
    BY <1>0, <1>1, QueuesAre
  <2> QED
    BY <1>1, <2>1, RunConcat, Zenon DEF two
<1>3. all \in Seq(Msgs) /\ Len(all) = Len(two) + Len(newMessages) /\ Run(all, Acks)
  <2>1. Acks \in Int /\ Run(newMessages, Acks + Len(two)) /\ newMessages \in Seq(Msgs)
    BY <1>0, <1>1, <1>2, QueuesAre
  <2> QED
    BY <1>2, <2>1, RunConcat, Zenon DEF all
<1>4. Len(all) = received - Acks
  <2>1. /\ Acks \in Nat /\ Len(nacked) \in Nat /\ Len(flight) \in Nat
        /\ Len(pending) \in Nat /\ Len(newMessages) \in Nat
        /\ received = Acks + Len(nacked) + Len(flight) + Len(pending)
                           + Len(newMessages)
    BY <1>0, QueuesAre
  <2>2. Len(all) = Len(nacked) + Len(flight) + Len(pending) + Len(newMessages)
    BY <1>1, <1>2, <1>3
  <2> QED
    BY <2>1, <2>2
<1>5. all = [i \in 1 .. Len(all) |-> Acks + i]
  BY <1>0, <1>3, QueuesAre, RunEqual
<1> QED
  BY <1>4, <1>5 DEF one, two, all

-----------------------------------------------------------------------------
(* What was acked was decoded                                              *)

\* Nothing was acked when Start begins.
LEMMA InitTruth == Init => Truth
BY DEF Init, Truth, AckedDecoded

\* What a peer decoded stays decoded.
LEMMA TruthGrows ==
  ASSUME Truth, delivered \subseteq delivered', acked' = acked, late' = late,
         got' \in 0 .. got, \A i \in 1 .. got' : Reqs'[i] = Reqs[i], got \in Nat
  PROVE  Truth'
BY DEF Truth, AckedDecoded

\* What a call of Send leaves of reqs begins as before.
LEMMA CallSendTruth ==
  ASSUME Base, LockFree, ~Walking, NEW m \in Msgs, NEW n \in Int, NEW then, NEW failed,
         CallSend(m, n, then, failed)
  PROVE  /\ late' = late /\ got' \in 0 .. got /\ got \in Nat
         /\ \A i \in 1 .. got' : Reqs'[i] = Reqs[i]
<1>1. /\ flight \in Seq(Msgs) /\ walked = << >> /\ Reqs = flight
      /\ got \in Nat /\ got <= Len(flight)
  BY ReqsAre DEF Base, TypeOK, Places
<1>2. CASE UNCHANGED <<flight, got, walkVars>>
  BY <1>1, <1>2 DEF walkVars, Reqs
<1>3. CASE flight' = Append(flight, m) /\ UNCHANGED <<got, walkVars>>
  <2>1. Reqs' = Append(flight, m) /\ got' = got /\ late' = late
    BY <1>1, <1>3 DEF walkVars, Reqs
  <2> QED
    BY <1>1, <2>1
<1>4. CASE SendFails(m, n, failed)
  <2> DEFINE q == Append(flight, m)
  <2>1. q \in Seq(Msgs) /\ q # << >> /\ \A i \in 1 .. got : q[i] = flight[i]
    BY <1>1
  <2> HIDE DEF q
  <2>2. got' \in 0 .. got /\ late' = late
    BY <1>4 DEF SendFails
  <2>3. \/ flight' = Tail(q) /\ walked' = <<Head(q)>>
        \/ flight' = q /\ walked' = << >>
    BY <1>4 DEF SendFails, q
  <2>4. Reqs' = q
    <3>1. q = <<Head(q)>> \o Tail(q) /\ q = << >> \o q
      BY <2>1
    <3> QED
      BY <2>3, <3>1 DEF Reqs
  <2> QED
    BY <1>1, <2>1, <2>2, <2>4
<1> QED
  BY <1>2, <1>3, <1>4 DEF CallSend

\* Acks come for the oldest request, of which there is one that was decoded.
LEMMA AckTruth == ASSUME Base, Truth, Ack \/ AckInWalk \/ AckLate PROVE Truth'
<1>0. Reqs \in Seq(Msgs) /\ got \in Nat /\ got <= Len(Reqs)
  BY ReqsAre
<1>1. CASE Ack \/ AckInWalk
  <2>1. /\ acked' = acked \cup {Head(Reqs)} /\ Reqs' = Tail(Reqs) /\ got > 0
        /\ got' = got - 1 /\ late' = late /\ delivered' = delivered
    <3>1. CASE Ack
      <4>1. walked = << >> /\ walked' = << >> /\ flight \in Seq(Msgs) /\ flight # << >>
        BY <3>1 DEF Ack, Base, TypeOK, Places
      <4>2. Reqs = flight /\ Reqs' = Tail(flight)
        BY <3>1, <4>1 DEF Ack, Reqs, Remaining
      <4> QED
        BY <3>1, <4>2 DEF Ack
    <3>2. CASE AckInWalk
      <4>1. walked \in Seq(Msgs) /\ flight \in Seq(Msgs) /\ Reqs # << >>
        BY <3>2, ReqsAre DEF Base, TypeOK, AckInWalk
      <4>2. CASE walked = << >>
        BY <3>2, <4>1, <4>2 DEF AckInWalk, Reqs
      <4>3. CASE walked # << >>
        <5>1. walked' = Tail(walked) /\ flight' = flight
          BY <3>2, <4>3 DEF AckInWalk
        <5>2. Tail(walked) \o flight = Tail(walked \o flight)
          BY <4>1, <4>3
        <5> QED
          BY <3>2, <5>1, <5>2 DEF AckInWalk, Reqs
      <4> QED
        BY <4>2, <4>3
    <3> QED
      BY <1>1, <3>1, <3>2
  <2>2. /\ Head(Reqs) = Reqs[1] /\ Reqs[1] \in delivered
        /\ \A i \in 1 .. got - 1 : Tail(Reqs)[i] = Reqs[i + 1] /\ i + 1 \in 1 .. got
    BY <1>0, <2>1 DEF Truth
  <2>3. \A i \in 1 .. got' : Reqs'[i] \in delivered'
    BY <2>1, <2>2 DEF Truth
  <2> QED
    BY <2>1, <2>2, <2>3 DEF Truth, AckedDecoded
<1>2. CASE AckLate
  <2>1. PICK q \in late :
          /\ acked' = acked \cup {Head(q)}
          /\ late' = (late \ {q}) \cup ({Tail(q)} \ {<< >>})
    BY <1>2 DEF AckLate
  <2>2. q \in Seq(Msgs) /\ q # << >> /\ \A i \in 1 .. Len(q) : q[i] \in delivered
    BY DEF Base, TypeOK, Places, Truth
  <2>3. Head(q) \in delivered /\ \A i \in 1 .. Len(Tail(q)) : Tail(q)[i] \in delivered
    BY <2>2
  <2>4. delivered' = delivered /\ got' = got /\ Reqs' = Reqs
    BY <1>2 DEF AckLate, Reqs
  <2> QED
    BY <2>1, <2>3, <2>4 DEF Truth, AckedDecoded
<1> QED
  BY <1>1, <1>2

\* No step acks what no peer has decoded.
LEMMA NextTruth == ASSUME Base, Truth, [Next]_vars PROVE Truth'
<1>0. Reqs \in Seq(Msgs) /\ got \in Nat /\ got <= Len(Reqs)
  BY ReqsAre
<1>1. CASE Decode
  <2>1. walked = << >> /\ walked' = << >> /\ Reqs = flight /\ Reqs' = flight
    BY <1>1, ReqsAre DEF Decode, Base, Places, Reqs, walkVars, TypeOK
  <2>2. /\ delivered' = delivered \cup {flight[got + 1]} /\ got' = got + 1
        /\ acked' = acked /\ late' = late
    BY <1>1 DEF Decode, walkVars
  <2> QED
    BY <1>0, <2>1, <2>2 DEF Truth, AckedDecoded
<1>2. CASE DecodeStale \/ Connects \/ ConnectFails \/ Hooks \/ ResendDone
           \/ ResendReads \/ Requeue \/ Unblocks \/ TakeClosed \/ TakeFlush
           \/ TakeDying \/ DrainEnds \/ Receive \/ Flush \/ Close \/ UNCHANGED vars
  <2>1. /\ delivered \subseteq delivered'
        /\ UNCHANGED <<acked, late, got, walked, flight>>
    BY <1>2 DEF DecodeStale, Connects, ConnectFails, Hooks, ResendDone, ResendReads,
       Requeue, Unblocks, TakeClosed, TakeFlush, TakeDying, DrainEnds, Receive,
       Flush, Close, vars, sendVars, walkVars
  <2> QED
    BY <1>0, <2>1, TruthGrows DEF Reqs
<1>3. CASE Break
  <2>1. got' = 0 /\ UNCHANGED <<acked, late, delivered>>
    BY <1>3 DEF Break, walkVars
  <2> QED
    BY <1>0, <2>1, TruthGrows
<1>4. CASE WalkNacks
  <2>1. walked \in Seq(Msgs) /\ flight \in Seq(Msgs) /\ flight # << >>
    BY <1>4 DEF Base, TypeOK, WalkNacks
  <2>2. Append(walked, Head(flight)) \o Tail(flight) = walked \o flight
    BY <2>1
  <2>3. Reqs' = Reqs
    BY <1>4, <2>2 DEF WalkNacks, Reqs
  <2>4. UNCHANGED <<acked, late, delivered, got>>
    BY <1>4 DEF WalkNacks
  <2> QED
    BY <1>0, <2>3, <2>4, TruthGrows
<1>5. CASE WalkEnds
  <2>1. /\ got' = 0 /\ UNCHANGED <<acked, delivered>>
        /\ late' = late \cup ({SubSeq(Reqs, 1, got)} \ {<< >>})
    BY <1>5 DEF WalkEnds
  <2>2. LET q == SubSeq(Reqs, 1, got)
        IN  Len(q) = got /\ \A i \in 1 .. got : q[i] = Reqs[i]
    BY <1>0, SubSeqProperties
  <2> QED
    BY <1>0, <2>1, <2>2 DEF Truth, AckedDecoded
<1>6. CASE ResendSends
  <2>1. LockFree /\ ~Walking /\ Head(pending) \in Msgs /\ read \in Int /\ outstanding \in Int
    BY <1>6 DEF ResendSends, Base, TypeOK, Places, LockFree, Walking
  <2>2. PICK n \in {read, outstanding} :
          CallSend(Head(pending), n + 1, "resend", "requeue")
    BY <1>6 DEF ResendSends
  <2>3. delivered' = delivered /\ acked' = acked /\ n + 1 \in Int
    BY <1>6, <2>1 DEF ResendSends
  <2>4. /\ late' = late /\ got' \in 0 .. got /\ got \in Nat
        /\ \A i \in 1 .. got' : Reqs'[i] = Reqs[i]
    BY <2>1, <2>2, <2>3, CallSendTruth
  <2> QED
    BY <2>3, <2>4, TruthGrows
<1>7. CASE TakeMessage
  <2>1. LockFree /\ ~Walking /\ Head(newMessages) \in Msgs /\ outstanding + 1 \in Int
    BY <1>7 DEF TakeMessage, Base, TypeOK, LockFree, Walking
  <2>2. CallSend(Head(newMessages), outstanding + 1, dpc, dpc)
        /\ delivered' = delivered /\ acked' = acked
    BY <1>7 DEF TakeMessage
  <2>3. /\ late' = late /\ got' \in 0 .. got /\ got \in Nat
        /\ \A i \in 1 .. got' : Reqs'[i] = Reqs[i]
    BY <2>1, <2>2, CallSendTruth
  <2> QED
    BY <2>2, <2>3, TruthGrows
<1> QED
  BY AckTruth, <1>1, <1>2, <1>3, <1>4, <1>5, <1>6, <1>7 DEF Next, Drain, Reconnect

-----------------------------------------------------------------------------
(* The peers                                                               *)

\* Nothing was decoded when Start begins.
LEMMA InitHolds == Init => DInv
<1> SUFFICES ASSUME Init PROVE DInv
  OBVIOUS
<1>1. Acks = 0
  BY FS_EmptySet DEF Init, Acks
<1>2. Decoded
  BY <1>1 DEF Init, Decoded
<1> QED
  BY <1>2, InitBase, InitExact, InitTruth DEF DInv, IInv

\* What a peer decodes it may have before; if not, it is the next message.
LEMMA DecodedGrows ==
  ASSUME received \in Nat, NEW d \in 0 .. received, delivered = 1 .. d,
         NEW m \in 1 .. received, m <= d + 1
  PROVE  LET e == IF m <= d THEN d ELSE m
         IN  /\ delivered \cup {m} = 1 .. e
             /\ e \in 0 .. received /\ d <= e /\ m <= e
OBVIOUS

\* q is a stream that goes on from what was decoded up to d, or earlier.
Left(q, d) == \E b \in 0 .. d : Run(q, b) /\ b + Len(q) <= received

\* So is what was under way when a connection breaks.
LEMMA CutLeft ==
  ASSUME Base, Exact, nacked = << >>, NEW d \in 0 .. received, Acks + got <= d,
         \A q \in stale : Left(q, d), NEW n \in got .. Len(flight), Cut(n)
  PROVE  \A q \in stale' : Left(q, d)
<1>1. /\ Acks \in Nat /\ received \in Nat /\ flight \in Seq(Msgs) /\ Len(flight) \in Nat
      /\ Run(flight, Acks) /\ got \in Nat /\ got <= Len(flight)
      /\ Acks + Len(flight) <= received
  <2>1. /\ Len(nacked) = 0 /\ Acks \in Nat /\ received \in Nat /\ flight \in Seq(Msgs)
        /\ Len(flight) \in Nat /\ Len(pending) \in Nat /\ Len(newMessages) \in Nat
        /\ Run(flight, Acks)
        /\ received = Acks + Len(nacked) + Len(flight) + Len(pending)
                           + Len(newMessages)
    BY QueuesAre
  <2>2. got \in Nat
    BY ReqsAre
  <2> QED
    BY <2>1, <2>2
<1> DEFINE s == SubSeq(flight, got + 1, n)
<1>2. Len(s) = n - got /\ \A i \in 1 .. n - got : s[i] = flight[got + i]
  BY <1>1, SubSeqProperties
<1>3. Run(s, Acks + got)
  BY <1>1, <1>2 DEF Run
<1>4. Left(s, d)
  BY <1>1, <1>2, <1>3 DEF Left
<1> QED
  BY <1>4 DEF Cut

\* While no message has heard both, a Send leaves what was decoded as it is.
LEMMA CallSendDecoded ==
  ASSUME Base, Exact, LockFree, ~Walking, NEW m \in Msgs, NEW n \in Int,
         NEW then, NEW failed, CallSend(m, n, then, failed),
         NEW d \in 0 .. received, Acks + got <= d, \A q \in stale : Left(q, d)
  PROVE  Acks + got' <= d /\ \A q \in stale' : Left(q, d)
<1>1. CASE SendFails(m, n, failed) /\ ~sclosed
  <2>1. nacked = << >>
    BY <1>1 DEF Base, Places
  <2>2. PICK k \in got .. Len(flight) : Cut(k)
    BY <1>1 DEF SendFails
  <2>3. got \in Nat /\ got' \in 0 .. got /\ Acks \in Nat
    BY <1>1, ReqsAre, AcksInNat DEF SendFails
  <2>4. \A q \in stale' : Left(q, d)
    BY <2>1, <2>2, CutLeft
  <2>5. Acks + got' <= d
    <3>1. received \in Nat
      BY QueuesAre
    <3>2. d \in Int /\ Acks + got <= d
      BY <3>1
    <3>3. \A a, g, h, e \in Int : a + g <= e /\ h \in 0 .. g => a + h <= e
      OBVIOUS
    <3>4. Acks \in Int /\ got \in Int /\ got' \in Int
      BY <2>3
    <3> QED
      BY <2>3, <3>2, <3>3, <3>4
  <2> QED
    BY <2>4, <2>5
<1>2. CASE ~SendFails(m, n, failed) \/ sclosed
  BY <1>2 DEF CallSend
<1> QED
  BY <1>1, <1>2

\* Every step keeps what the peers decoded a prefix of what was received.
LEMMA DecodedKeeps ==
  ASSUME Base, Exact, Decoded, ~both', [Next]_vars PROVE Decoded'
<1>0. /\ Acks \in Nat /\ received \in Nat /\ got \in Nat
      /\ flight \in Seq(Msgs) /\ stale \subseteq Seq(Msgs)
  BY QueuesAre, ReqsAre DEF Base, TypeOK
<1>2. PICK d \in 0 .. received :
        delivered = 1 .. d /\ Acks + got <= d /\ \A q \in stale : Left(q, d)
  BY DEF Decoded, Left
<1>3. CASE Decode
  <2>0. got < Len(flight) /\ nacked = << >>
    <3>1. flight # << >>
      BY <1>0, <1>3 DEF Decode
    <3> QED
      BY <1>3, <3>1 DEF Decode, Base, Places
  <2>1. flight[got + 1] = Acks + got + 1 /\ Acks + got + 1 \in 1 .. received
    <3>1. /\ Len(nacked) = 0 /\ Run(flight, Acks) /\ Len(flight) \in Nat
          /\ Len(pending) \in Nat /\ Len(newMessages) \in Nat
          /\ received = Acks + Len(nacked) + Len(flight) + Len(pending)
                             + Len(newMessages)
      BY <1>0, <2>0, QueuesAre
    <3> QED
      BY <1>0, <2>0, <3>1 DEF Run
  <2> DEFINE m == Acks + got + 1
             e == IF m <= d THEN d ELSE m
  <2>2. delivered' = 1 .. e /\ e \in 0 .. received /\ d <= e /\ m <= e
    BY <1>0, <1>2, <1>3, <2>1, DecodedGrows DEF Decode
  <2>3. \A q \in stale : Left(q, e)
    BY <1>0, <1>2, <2>2 DEF Left
  <2>4. received' = received /\ Acks' = Acks /\ stale' = stale /\ got' = got + 1
    BY <1>3 DEF Decode, Acks, chanVars
  <2> QED
    BY <1>0, <2>2, <2>3, <2>4 DEF Decoded, Left
<1>4. CASE DecodeStale
  <2>1. PICK q \in stale :
          /\ delivered' = delivered \cup {Head(q)}
          /\ stale' = (stale \ {q}) \cup ({Tail(q)} \ {<< >>})
    BY <1>4 DEF DecodeStale
  <2>2. q \in Seq(Msgs) /\ q # << >>
    BY <1>0 DEF Base, Places
  <2>3. PICK b \in 0 .. d : Run(q, b) /\ b + Len(q) <= received
    BY <1>2 DEF Left
  <2>4. /\ Head(q) = b + 1 /\ Tail(q) \in Seq(Msgs)
        /\ Len(Tail(q)) = Len(q) - 1 /\ Run(Tail(q), b + 1)
        /\ b + 1 \in 1 .. received /\ b + 1 <= d + 1
    BY <1>0, <2>2, <2>3, RunTail
  <2> DEFINE m == b + 1
             e == IF m <= d THEN d ELSE m
  <2>5. delivered' = 1 .. e /\ e \in 0 .. received /\ d <= e /\ m <= e
    BY <1>0, <1>2, <2>1, <2>4, DecodedGrows
  <2>6. \A s \in stale : Left(s, e)
    BY <1>0, <1>2, <2>5 DEF Left
  <2>7. Left(Tail(q), e)
    BY <1>0, <2>2, <2>3, <2>4, <2>5 DEF Left
  <2>8. \A s \in stale' : Left(s, e)
    BY <2>1, <2>6, <2>7
  <2>9. received' = received /\ Acks' = Acks /\ got' = got
    BY <1>4 DEF DecodeStale, Acks, chanVars
  <2> QED
    BY <1>0, <1>2, <2>5, <2>8, <2>9 DEF Decoded, Left
<1>5. CASE Break
  <2>1. PICK n \in got .. Len(flight) : Cut(n)
    BY <1>5 DEF Break
  <2>2. CASE nacked = << >>
    <3>1. \A q \in stale' : Left(q, d)
      BY <1>2, <2>1, <2>2, CutLeft
    <3>2. received' = received /\ Acks' = Acks /\ got' = 0 /\ delivered' = delivered
      BY <1>5 DEF Break, Acks, chanVars
    <3> QED
      BY <1>0, <1>2, <3>1, <3>2 DEF Decoded, Left
  <2>3. CASE nacked # << >>
    <3>1. flight = << >> /\ got = 0 /\ n = 0
      BY <1>5, <2>3, ReqsAre DEF Break, Base, Places, LockFree, TypeOK
    <3>2. stale' = stale
      BY <2>1, <3>1 DEF Cut
    <3>3. received' = received /\ Acks' = Acks /\ got' = 0 /\ delivered' = delivered
      BY <1>5 DEF Break, Acks, chanVars
    <3> QED
      BY <1>0, <1>2, <3>2, <3>3 DEF Decoded, Left
  <2> QED
    BY <2>2, <2>3
<1>6. CASE Ack
  <2>1. /\ received' = received /\ stale' = stale /\ got' = got - 1
        /\ delivered' = delivered
    BY <1>6 DEF Ack, chanVars
  <2>2. Acks' = Acks + 1
    BY <1>6, AckCounts
  <2> QED
    BY <1>0, <1>2, <2>1, <2>2 DEF Decoded, Left
<1>7. CASE Receive
  <2>1. /\ received' = received + 1 /\ stale' = stale /\ got' = got
        /\ delivered' = delivered /\ Acks' = Acks
    BY <1>7 DEF Receive, sendVars, Acks
  <2> QED
    BY <1>0, <1>2, <2>1 DEF Decoded, Left
<1>8. CASE Unblocks \/ TakeClosed \/ TakeFlush \/ TakeDying \/ DrainEnds \/ Connects
           \/ ConnectFails \/ Hooks \/ ResendDone \/ ResendReads \/ Requeue
           \/ WalkNacks \/ Flush \/ Close \/ UNCHANGED vars
  <2>1. /\ received' = received /\ stale' = stale /\ got' = got
        /\ delivered' = delivered /\ Acks' = Acks
    BY <1>8 DEF Unblocks, TakeClosed, TakeFlush, WalkNacks,
       TakeDying, DrainEnds, Connects, ConnectFails, Hooks, ResendDone,
       ResendReads, Requeue, Flush, Close, vars, drainVars, chanVars, sendVars, Acks
  <2> QED
    BY <1>2, <2>1 DEF Decoded, Left
<1>9. CASE WalkEnds
  <2>1. /\ received' = received /\ stale' = stale /\ got' = 0
        /\ delivered' = delivered /\ Acks' = Acks
    BY <1>9 DEF WalkEnds, chanVars, Acks
  <2> QED
    BY <1>0, <1>2, <2>1 DEF Decoded, Left
<1>10. CASE ResendSends
  <2>1. LockFree /\ ~Walking /\ Head(pending) \in Msgs /\ read \in Int /\ outstanding \in Int
    BY <1>10 DEF ResendSends, Base, TypeOK, Places, LockFree, Walking
  <2>2. PICK n \in {read, outstanding} :
          CallSend(Head(pending), n + 1, "resend", "requeue")
    BY <1>10 DEF ResendSends
  <2>3. n + 1 \in Int
    BY <2>1
  <2>4. Acks + got' <= d /\ \A q \in stale' : Left(q, d)
    BY <1>2, <2>1, <2>2, <2>3, CallSendDecoded
  <2>5. received' = received /\ delivered' = delivered /\ Acks' = Acks
    BY <1>10 DEF ResendSends, chanVars, Acks
  <2> QED
    BY <1>2, <2>4, <2>5 DEF Decoded, Left
<1>11. CASE TakeMessage
  <2>1. LockFree /\ ~Walking /\ Head(newMessages) \in Msgs /\ outstanding + 1 \in Int
    BY <1>11 DEF TakeMessage, Base, TypeOK, LockFree, Walking
  <2>2. CallSend(Head(newMessages), outstanding + 1, dpc, dpc)
    BY <1>11 DEF TakeMessage
  <2>3. Acks + got' <= d /\ \A q \in stale' : Left(q, d)
    BY <1>2, <2>1, <2>2, CallSendDecoded
  <2>4. received' = received /\ delivered' = delivered /\ Acks' = Acks
    BY <1>11 DEF TakeMessage, Acks
  <2> QED
    BY <1>2, <2>3, <2>4 DEF Decoded, Left
<1>12. ~AckInWalk /\ ~AckLate
  BY DEF AckInWalk, AckLate
<1> QED
  BY <1>3, <1>4, <1>5, <1>6, <1>7, <1>8, <1>9, <1>10, <1>11, <1>12
     DEF Next, Drain, Reconnect

\* The inductive invariant holds in every behaviour.
LEMMA DInvInductive == Spec => []DInv
<1>1. DInv /\ [Next]_vars => DInv'
  BY NextKeeps, NextTruth, DecodedKeeps, BothStays DEF DInv, IInv
<1> QED
  BY <1>1, InitHolds, PTL DEF Spec

-----------------------------------------------------------------------------
(* The theorems                                                            *)

\* Through every sequence of closes, failed writes and reconnects, half-done
\* resends included, what is not acked yet is held exactly once and in order,
\* until a message has heard Nack and Ack (reconnect, drain, Nack, sendNacks).
THEOREM ReliableNothingLost == Spec => []NothingLost
<1>1. DInv => NothingLost
  BY RunsJoin DEF DInv
<1> QED
  BY <1>1, DInvInductive, PTL

\* OnClosed always finds room in r.closed, drain never sits at its select with
\* a closed Send it was not told of, and every Ack is for what a peer decoded,
\* however a Send closes; and the torn increment never makes Outstanding() too
\* small while no message has heard both (onClosed, reconnect, Ack, Nack).
THEOREM ReliableBookkeeping == Spec => []Bookkeeping
<1>1. ASSUME DInv PROVE Bookkeeping
  <2>1. Base /\ Truth /\ (~both => Exact)
    BY <1>1 DEF DInv, IInv
  <2>2. NotifyNeverBlocks
    BY <2>1 DEF Base, TypeOK, Notices, NotifyNeverBlocks
  <2>3. ClosedPrimed
    BY <2>1 DEF Base, Notices, ClosedPrimed, LockFree
  <2>4. OutstandingCovers
    BY <2>1 DEF Exact, Counter, OutstandingCovers
  <2> QED
    BY <2>1, <2>2, <2>3, <2>4 DEF Base, Truth, Bookkeeping
<1> QED
  BY <1>1, DInvInductive, PTL

\* ReliableSend implements AtLeastOnce until a message has heard both: a peer
\* that decodes a message for the first time decodes the next one, and Ack is
\* called for the next message, which a peer has decoded; all else is a
\* stuttering step.  Afterwards an Ack is still only for what was decoded.
THEOREM ReliableAtLeastOnce == Spec => ImplementsAtLeastOnce
<1>1. Init => Delivery!Init
  BY DEF Init, Delivery!Init
<1>2. ASSUME DInv, DInv', [Next]_vars
      PROVE  [Owed]_Delivery!vars
  <2> USE ReliableAssumption
  <2>a. CASE both'
    BY <1>2, <2>a DEF DInv, Truth, AckedDecoded, Owed
  <2>b. CASE ~both'
    <3>0. Base /\ Exact /\ Decoded /\ Decoded'
      BY <1>2, <2>b, BothStays DEF DInv, IInv
    <3>1. Acks \in Nat /\ acked = 1 .. Acks /\ received \in Nat /\ got \in Nat
      BY <3>0, QueuesAre, ReqsAre
    <3>2. PICK d \in 0 .. received : delivered = 1 .. d /\ Acks + got <= d
      BY <3>0 DEF Decoded
    <3>3. PICK e \in 0 .. received' : delivered' = 1 .. e
      BY <3>0 DEF Decoded
    <3>4. CASE Decode \/ DecodeStale
      <4>1. received' = received /\ acked' = acked
        BY <3>4 DEF Decode, DecodeStale, chanVars
      <4>2. PICK m : delivered' = delivered \cup {m}
        BY <3>4 DEF Decode, DecodeStale
      <4>3. e = d \/ e = d + 1
        <5>1. \A i \in 1 .. e : i \in 1 .. d \/ i = m
          BY <3>2, <3>3, <4>2
        <5>2. \A i \in 1 .. d : i \in 1 .. e
          BY <3>2, <3>3, <4>2
        <5>3. d <= e
          BY <3>1, <3>2, <3>3, <4>1, <5>2
        <5>4. ASSUME e > d + 1 PROVE FALSE
          <6>1. d + 1 \in 1 .. e /\ d + 2 \in 1 .. e
            BY <3>1, <3>2, <3>3, <4>1, <5>4
          <6> QED
            BY <5>1, <6>1
        <5> QED
          BY <3>1, <3>2, <3>3, <4>1, <5>3, <5>4
      <4>4. CASE e = d
        BY <3>2, <3>3, <4>1, <4>4 DEF Delivery!vars
      <4>5. CASE e = d + 1
        <5>1. d + 1 \in 1 .. received /\ delivered' = delivered \cup {d + 1}
          BY <3>1, <3>2, <3>3, <4>1, <4>5
        <5>2. delivered = 1 .. (d + 1) - 1
          BY <3>2
        <5>3. Delivery!Deliver
          BY <4>1, <5>1, <5>2 DEF Delivery!Deliver, Delivery!Follows
        <5> QED
          BY <5>3 DEF Owed, Delivery!Next
      <4> QED
        BY <4>3, <4>4, <4>5
    <3>5. CASE Ack
      <4>1. received' = received /\ delivered' = delivered
        BY <3>5 DEF Ack, chanVars
      <4>2. acked' = acked \cup {Acks + 1}
        BY <3>0, <3>5, AckCounts DEF Ack
      <4>3. Acks + 1 \in delivered
        BY <3>1, <3>2, <3>5 DEF Ack
      <4>4. acked = 1 .. (Acks + 1) - 1
        BY <3>1
      <4>5. Delivery!Confirm
        BY <4>1, <4>2, <4>3, <4>4 DEF Delivery!Confirm, Delivery!Follows
      <4> QED
        BY <4>5 DEF Owed, Delivery!Next
    <3>6. CASE Receive
      <4>1. /\ received' = received + 1 /\ received + 1 <= MaxMsgs
            /\ delivered' = delivered /\ acked' = acked
        BY <3>1, <3>6 DEF Receive
      <4>2. 1 .. received' = 1 .. received \cup {received + 1}
        BY <3>1, <4>1
      <4>3. received + 1 \in 1 .. MaxMsgs /\ received = (received + 1) - 1
        BY <3>1, <4>1
      <4>4. Delivery!Accept
        BY <4>1, <4>2, <4>3 DEF Delivery!Accept, Delivery!Follows
      <4> QED
        BY <4>4 DEF Owed, Delivery!Next
    <3>7. CASE Break \/ Drain \/ Flush \/ Close \/ UNCHANGED vars
      <4>1. received' = received /\ delivered' = delivered /\ acked' = acked
        BY <3>7 DEF Break, Drain, Reconnect, Unblocks, TakeClosed, TakeFlush,
           TakeMessage, TakeDying, DrainEnds, Connects, ConnectFails, Hooks,
           ResendDone, ResendReads, ResendSends, Requeue, WalkNacks, WalkEnds,
           Flush, Close, vars, drainVars, chanVars
      <4> QED
        BY <4>1 DEF Delivery!vars
    <3>8. ~AckInWalk /\ ~AckLate
      BY <2>b DEF AckInWalk, AckLate
    <3> QED
      BY <1>2, <3>4, <3>5, <3>6, <3>7, <3>8 DEF Next
  <2> QED
    BY <2>a, <2>b
<1> QED
  BY <1>1, <1>2, DInvInductive, PTL DEF Spec, ImplementsAtLeastOnce

=============================================================================
