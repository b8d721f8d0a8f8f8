----------------------------- MODULE SendProofs -----------------------------
(***************************************************************************)
(* Proofs about module Send, for every number of callers, every window,    *)
(* every number of messages, and whatever the network and the peer do      *)
(* within the model.                                                       *)
(***************************************************************************)
EXTENDS Send, TLAPS, FiniteSetTheorems, SequenceTheorems

-----------------------------------------------------------------------------
(* The inductive invariant                                                 *)

\* The ranges that stand for reqs, the bufio.Writer and the stream.
Ranges ==
  /\ delivered <= arrived
  /\ arrived <= flushed
  /\ flushed <= front
  /\ front <= sent
  /\ back <= front + 1
  /\ ~closed => front = sent

\* The loop of readAck.
Reader ==
  /\ rpc \in {"loop", "remove"} => ri <= Len(rbuf) + 1
  /\ rpc = "remove" => ri <= Len(rbuf) /\ back <= front

\* Ack is called once per request, oldest first, before its removal.
AckedPrefix == acked = 1 .. (IF rpc = "remove" THEN back ELSE back - 1)

\* A walk of sendNacks in a caller's goroutine holds ackLock.
Walks ==
  /\ \A c \in Callers : pc[c] = "walk" => ~closed /\ walkAt >= 1
  /\ \A c, d \in Callers : pc[c] = "walk" /\ pc[d] = "walk" => c = d

\* Bytes of the last Read that readAck has still to look at.
Unread == IF rpc \in {"loop", "remove"} THEN Len(rbuf) + 1 - ri ELSE 0

\* As long as the peer is a Recv, the bytes it wrote are acks, and the acks
\* removed, read and under way are no more than the messages it decoded.
Honest ==
  ~stray =>
    /\ \A i \in 1 .. Len(acks) : acks[i] = "k"
    /\ \A i \in 1 .. Len(rbuf) : rbuf[i] = "k"
    /\ (back - 1) + Unread + Len(acks) <= delivered

IInv ==
  /\ TypeOK
  /\ Ranges
  /\ Reader
  /\ AckedPrefix
  /\ Walks
  /\ Honest
  /\ SlotsConserved
  /\ NotifiedOnce

-----------------------------------------------------------------------------
(* Lemmas about the operators of Send                                      *)

LEMMA FlushToBounds ==
  ASSUME TypeOK, Ranges, NEW m \in Nat, front <= m, FlushTo(m)
  PROVE  /\ flushed' \in Nat /\ flushed <= flushed' /\ flushed' <= m
         /\ arrived' \in Nat /\ arrived <= arrived' /\ arrived' <= flushed'
         /\ werr' \in BOOLEAN
<1>0. /\ flushed \in Nat /\ arrived \in Nat /\ front \in Nat /\ arrived <= flushed
      /\ flushed <= front /\ werr \in BOOLEAN
  BY SendAssumption DEF TypeOK, Ranges
<1>1. \/ flushed' = m /\ arrived' = m
      \/ flushed' = m /\ arrived' = arrived
      \/ flushed' = flushed /\ arrived' = arrived
  BY DEF FlushTo
<1>2. werr' \in BOOLEAN
  BY <1>0 DEF FlushTo
<1> QED BY <1>0, <1>1, <1>2

LEMMA SignalKeeps ==
  ASSUME NEW p \in [Callers -> {"idle", "walk", "wait", "woken"}], Signal(p)
  PROVE  /\ pc' \in [Callers -> {"idle", "walk", "wait", "woken"}]
         /\ \A c \in Callers : pc'[c] = "walk" <=> p[c] = "walk"
BY DEF Signal

LEMMA SubSeqKeeps ==
  ASSUME NEW S, NEW q \in Seq(S), NEW m \in 1 .. Len(q) + 1,
         NEW n \in m - 1 .. Len(q)
  PROVE  /\ SubSeq(q, m, n) \in Seq(S)
         /\ Len(SubSeq(q, m, n)) = n - m + 1
         /\ \A i \in 1 .. n - m + 1 : SubSeq(q, m, n)[i] = q[m + i - 1]
BY SubSeqProperties

-----------------------------------------------------------------------------
(* The steps of the callers                                                *)

LEMMA SendClosedStep ==
  ASSUME NEW c \in Callers, IInv, SendClosed(c) PROVE IInv'
BY SendAssumption
   DEF SendClosed, callVars, listVars, reqVars, encVars, ackVars, netVars,
       IInv, TypeOK, Ranges, Reader, AckedPrefix, Walks, Honest, Unread,
       SlotsConserved, Uncredited, NotifiedOnce, Msgs, Bytes, InFlight,
       LockFree

LEMMA SendReturnsStep ==
  ASSUME NEW c \in Callers, IInv, SendReturns(c) PROVE IInv'
BY SendAssumption
   DEF SendReturns, SendOpen, EncodeOK, WindowFull, callVars, listVars, reqVars, encVars, ackVars, netVars,
       IInv, TypeOK, Ranges, Reader, AckedPrefix, Walks, Honest, Unread,
       SlotsConserved, Uncredited, NotifiedOnce, Msgs, Bytes, InFlight,
       LockFree

LEMMA SendBlocksStep ==
  ASSUME NEW c \in Callers, IInv, SendBlocks(c) PROVE IInv'
<1> USE SendAssumption
    DEF SendBlocks, SendOpen, callVars, listVars, reqVars, ackVars
<1>0. /\ flushed' \in Nat /\ flushed <= flushed' /\ flushed' <= sent + 1
      /\ arrived' \in Nat /\ arrived <= arrived' /\ arrived' <= flushed'
      /\ werr' \in BOOLEAN
  <2>1. sent + 1 \in Nat /\ front <= sent + 1 /\ TypeOK /\ Ranges
    BY DEF IInv, TypeOK, Ranges
  <2> QED BY <2>1, FlushToBounds
<1>1. TypeOK'
  BY <1>0 DEF IInv, TypeOK, Msgs, Bytes, Ranges
<1>2. Ranges'
  BY <1>0 DEF IInv, TypeOK, Ranges
<1>3. Reader' /\ AckedPrefix' /\ Walks'
  BY DEF IInv, TypeOK, Ranges, Reader, AckedPrefix, Walks
<1>4. Honest'
  BY DEF IInv, Honest, Unread
<1>5. SlotsConserved' /\ NotifiedOnce'
  BY DEF IInv, TypeOK, Ranges, SlotsConserved, NotifiedOnce, Uncredited
<1> QED BY <1>1, <1>2, <1>3, <1>4, <1>5 DEF IInv

LEMMA SendFailsStep ==
  ASSUME NEW c \in Callers, IInv, SendFails(c) PROVE IInv'
BY SendAssumption
   DEF SendFails, SendOpen, EncodeFails, callVars, listVars, reqVars, encVars, ackVars, netVars,
       IInv, TypeOK, Ranges, Reader, AckedPrefix, Walks, Honest, Unread,
       SlotsConserved, Uncredited, NotifiedOnce, Msgs, Bytes, InFlight,
       LockFree

LEMMA WalkNacksStep ==
  ASSUME NEW c \in Callers, IInv, WalkNacks(c) PROVE IInv'
BY SendAssumption
   DEF WalkNacks, callVars, listVars, reqVars, encVars, ackVars, netVars,
       IInv, TypeOK, Ranges, Reader, AckedPrefix, Walks, Honest, Unread,
       SlotsConserved, Uncredited, NotifiedOnce, Msgs, Bytes, InFlight,
       LockFree

LEMMA WalkEndsStep ==
  ASSUME NEW c \in Callers, IInv, WalkEnds(c) PROVE IInv'
BY SMTT(30), SendAssumption
   DEF WalkEnds, Signal, callVars, listVars, reqVars, encVars, ackVars, netVars,
       IInv, TypeOK, Ranges, Reader, AckedPrefix, Walks, Honest, Unread,
       SlotsConserved, Uncredited, NotifiedOnce, Msgs, Bytes, InFlight,
       LockFree

LEMMA WokenReturnsStep ==
  ASSUME NEW c \in Callers, IInv, WokenReturns(c) PROVE IInv'
BY SendAssumption
   DEF WokenReturns, WindowFull, callVars, listVars, reqVars, encVars, ackVars, netVars,
       IInv, TypeOK, Ranges, Reader, AckedPrefix, Walks, Honest, Unread,
       SlotsConserved, Uncredited, NotifiedOnce, Msgs, Bytes, InFlight,
       LockFree

LEMMA WokenWaitsStep ==
  ASSUME NEW c \in Callers, IInv, WokenWaits(c) PROVE IInv'
<1> USE SendAssumption
    DEF WokenWaits, callVars, listVars, reqVars, ackVars
<1>0. /\ flushed' \in Nat /\ flushed <= flushed' /\ flushed' <= front
      /\ arrived' \in Nat /\ arrived <= arrived' /\ arrived' <= flushed'
      /\ werr' \in BOOLEAN
  <2>1. front \in Nat /\ front <= front /\ TypeOK /\ Ranges
    BY DEF IInv, TypeOK, Ranges
  <2> QED BY <2>1, FlushToBounds
<1>1. TypeOK'
  BY <1>0 DEF IInv, TypeOK, Msgs, Bytes, Ranges
<1>2. Ranges'
  BY <1>0 DEF IInv, TypeOK, Ranges
<1>3. Reader' /\ AckedPrefix' /\ Walks'
  BY DEF IInv, TypeOK, Reader, AckedPrefix, Walks
<1>4. Honest'
  BY DEF IInv, Honest, Unread
<1>5. SlotsConserved' /\ NotifiedOnce'
  BY DEF IInv, SlotsConserved, NotifiedOnce, Uncredited
<1> QED BY <1>1, <1>2, <1>3, <1>4, <1>5 DEF IInv

-----------------------------------------------------------------------------
(* The steps of backgroundAck                                              *)

LEMMA ReadAcksStep ==
  ASSUME IInv, ReadAcks PROVE IInv'
<1> USE SendAssumption
    DEF callVars, listVars, reqVars, encVars
<1>n. PICK n \in 1 .. Window :
        /\ n <= Len(acks)
        /\ rbuf' = SubSeq(acks, 1, n)
        /\ acks' = SubSeq(acks, n + 1, Len(acks))
  BY DEF ReadAcks
<1>t. acks \in Seq(Bytes) /\ Len(acks) \in Nat
  BY LenProperties DEF IInv, TypeOK
<1>0. /\ rbuf' \in Seq(Bytes) /\ Len(rbuf') = n
      /\ \A i \in 1 .. Len(rbuf') : rbuf'[i] = acks[i]
  BY <1>n, <1>t, SubSeqKeeps
<1>1. /\ acks' \in Seq(Bytes) /\ Len(acks') = Len(acks) - n
      /\ \A i \in 1 .. Len(acks') : acks'[i] = acks[n + i]
  <2>1. n + 1 \in 1 .. Len(acks) + 1 /\ Len(acks) \in (n + 1) - 1 .. Len(acks)
    BY <1>n, <1>t
  <2>2. /\ acks' \in Seq(Bytes) /\ Len(acks') = Len(acks) - (n + 1) + 1
        /\ \A i \in 1 .. Len(acks) - (n + 1) + 1 :
             acks'[i] = acks[(n + 1) + i - 1]
    BY <1>n, <1>t, <2>1, SubSeqKeeps
  <2> QED BY SMTT(30), <1>n, <1>t, <2>2
<1>u. /\ rpc = "read" /\ rpc' = "loop" /\ ri' = 1
      /\ UNCHANGED <<callVars, listVars, reqVars, encVars,
                     up, arrived, delivered, stray>>
  BY DEF ReadAcks
<1>2. TypeOK'
  BY <1>0, <1>1, <1>u DEF IInv, TypeOK
<1>3. Ranges' /\ Reader' /\ AckedPrefix' /\ Walks'
  BY <1>0, <1>n, <1>u DEF IInv, TypeOK, Ranges, Reader, AckedPrefix, Walks
<1>4. Honest'
  <2>1. Unread' = n /\ Unread = 0
    BY <1>0, <1>n, <1>u DEF Unread
  <2>2. (\A i \in 1 .. Len(acks) : acks[i] = "k")
          => /\ \A i \in 1 .. Len(acks') : acks'[i] = "k"
             /\ \A i \in 1 .. Len(rbuf') : rbuf'[i] = "k"
    BY <1>0, <1>1, <1>n, <1>t
  <2> QED BY <1>0, <1>1, <1>n, <1>t, <1>u, <2>1, <2>2
          DEF IInv, TypeOK, Honest
<1>5. SlotsConserved' /\ NotifiedOnce'
  BY <1>u DEF IInv, TypeOK, SlotsConserved, NotifiedOnce, Uncredited
<1> QED BY <1>2, <1>3, <1>4, <1>5 DEF IInv

LEMMA ReadFailsStep ==
  ASSUME IInv, ReadFails PROVE IInv'
BY SendAssumption
   DEF ReadFails, callVars, listVars, reqVars, encVars, ackVars, netVars,
       IInv, TypeOK, Ranges, Reader, AckedPrefix, Walks, Honest, Unread,
       SlotsConserved, Uncredited, NotifiedOnce, Msgs, Bytes, InFlight,
       LockFree

LEMMA UnsyncedStep ==
  ASSUME IInv, Unsynced PROVE IInv'
BY SendAssumption
   DEF Unsynced, AckByte, callVars, listVars, reqVars, encVars, ackVars, netVars,
       IInv, TypeOK, Ranges, Reader, AckedPrefix, Walks, Honest, Unread,
       SlotsConserved, Uncredited, NotifiedOnce, Msgs, Bytes, InFlight,
       LockFree

LEMMA AckNothingStep ==
  ASSUME IInv, AckNothing PROVE IInv'
BY SendAssumption
   DEF AckNothing, AckByte, HasInFlight, callVars, listVars, reqVars, encVars, ackVars, netVars,
       IInv, TypeOK, Ranges, Reader, AckedPrefix, Walks, Honest, Unread,
       SlotsConserved, Uncredited, NotifiedOnce, Msgs, Bytes, InFlight,
       LockFree

LEMMA AckBackStep ==
  ASSUME IInv, AckBack PROVE IInv'
BY SendAssumption
   DEF AckBack, AckByte, HasInFlight, BackRequest, callVars, listVars, reqVars, encVars, ackVars, netVars,
       IInv, TypeOK, Ranges, Reader, AckedPrefix, Walks, Honest, Unread,
       SlotsConserved, Uncredited, NotifiedOnce, Msgs, Bytes, InFlight,
       LockFree

LEMMA RemoveBackStep ==
  ASSUME IInv, RemoveBack PROVE IInv'
BY SendAssumption
   DEF RemoveBack, BackRemoved, callVars, listVars, reqVars, encVars, ackVars, netVars,
       IInv, TypeOK, Ranges, Reader, AckedPrefix, Walks, Honest, Unread,
       SlotsConserved, Uncredited, NotifiedOnce, Msgs, Bytes, InFlight,
       LockFree

LEMMA CreditStep ==
  ASSUME IInv, Credit PROVE IInv'
<1> USE SendAssumption
    DEF Credit, CreditFor, listVars, reqVars, encVars, netVars
<1>0. /\ pc' \in [Callers -> {"idle", "walk", "wait", "woken"}]
      /\ \A c \in Callers : pc'[c] = "walk" <=> pc[c] = "walk"
  BY SignalKeeps DEF IInv, TypeOK
<1>1. TypeOK'
  BY <1>0 DEF IInv, TypeOK, Msgs, Bytes
<1>2. Ranges' /\ Reader' /\ AckedPrefix' /\ Walks'
  BY <1>0 DEF IInv, TypeOK, Ranges, Reader, AckedPrefix, Walks
<1>4. Honest'
  BY DEF IInv, TypeOK, Reader, Honest, Unread
<1>5. SlotsConserved' /\ NotifiedOnce'
  BY DEF IInv, TypeOK, Reader, SlotsConserved, NotifiedOnce, Uncredited
<1> QED BY <1>1, <1>2, <1>4, <1>5 DEF IInv

LEMMA NackAllStep ==
  ASSUME IInv, NackAll PROVE IInv'
<1> USE SendAssumption
    DEF NackAll, AlreadyNacked, Walked, InFlight, listVars, encVars, netVars
<1>0. /\ pc' \in [Callers -> {"idle", "walk", "wait", "woken"}]
      /\ \A c \in Callers : pc'[c] # "walk"
  BY SignalKeeps DEF IInv, TypeOK, LockFree
<1>1. TypeOK'
  <2>1. nacked' \subseteq Msgs
    <3>1. nacked \subseteq Msgs /\ InFlight \subseteq Msgs
      BY DEF IInv, TypeOK, Msgs
    <3>2. nacked' = nacked \/ nacked' = nacked \cup InFlight
      OBVIOUS
    <3> QED BY <3>1, <3>2
  <2>2. closed' \in BOOLEAN
    BY DEF IInv, TypeOK
  <2>3. notified' \in Nat
    <3>1. notified \in Nat /\ notified' \in {notified, notified + 1}
      BY DEF IInv, TypeOK
    <3> QED BY <3>1
  <2> QED BY <1>0, <2>1, <2>2, <2>3 DEF IInv, TypeOK
<1>2. Ranges' /\ Reader' /\ AckedPrefix'
  BY DEF IInv, TypeOK, Ranges, Reader, AckedPrefix
<1>3. Walks'
  BY <1>0 DEF Walks
<1>4. Honest'
  BY DEF IInv, TypeOK, Reader, Honest, Unread
<1>5. SlotsConserved' /\ NotifiedOnce'
  BY DEF IInv, TypeOK, Reader, SlotsConserved, NotifiedOnce, Uncredited
<1> QED BY <1>1, <1>2, <1>3, <1>4, <1>5 DEF IInv

-----------------------------------------------------------------------------
(* Flush, Close, the peer and the connection                               *)

LEMMA FlushKeeps ==
  ASSUME IInv, FlushTo(front), timer' \in BOOLEAN,
         UNCHANGED <<callVars, listVars, reqVars, ackVars,
                     up, acks, delivered, stray>>
  PROVE  IInv'
<1> USE SendAssumption
    DEF callVars, listVars, reqVars, ackVars, FlushTo
<1>0. /\ flushed' \in {flushed, front} /\ arrived' \in {arrived, flushed'} /\ werr' \in BOOLEAN
  BY DEF IInv, TypeOK
<1>1. TypeOK'
  BY <1>0 DEF IInv, TypeOK, Msgs, Bytes, Ranges
<1>2. Ranges'
  BY DEF IInv, TypeOK, Ranges
<1>3. Reader' /\ AckedPrefix' /\ Walks'
  BY DEF IInv, Reader, AckedPrefix, Walks
<1>4. Honest'
  BY DEF IInv, Honest, Unread
<1>5. SlotsConserved' /\ NotifiedOnce'
  BY DEF IInv, SlotsConserved, NotifiedOnce, Uncredited
<1> QED BY <1>1, <1>2, <1>3, <1>4, <1>5 DEF IInv

LEMMA GenerateStep ==
  ASSUME IInv, Generate PROVE IInv'
<1> USE SendAssumption
    DEF callVars, listVars, reqVars, encVars, ackVars
<1>0. /\ acks' \in Seq(Bytes)
      /\ Len(acks') <= Len(acks) + 1
      /\ (\A i \in 1 .. Len(acks) : acks[i] = "k")
           => \A i \in 1 .. Len(acks') : acks'[i] = "k"
  BY DEF Generate, IInv, TypeOK, Bytes
<1>u. /\ delivered < arrived
      /\ delivered' = delivered + 1
      /\ UNCHANGED <<callVars, listVars, reqVars, encVars, ackVars, up, arrived,
                     stray>>
  BY DEF Generate
<1>1. TypeOK'
  BY <1>0, <1>u DEF IInv, TypeOK
<1>2. Ranges' /\ Reader' /\ AckedPrefix' /\ Walks'
  BY <1>u DEF IInv, TypeOK, Ranges, Reader, AckedPrefix, Walks
<1>3. Honest'
  <2>1. Unread' = Unread /\ Unread \in Int
    BY <1>u DEF Unread, IInv, TypeOK
  <2>2. Len(acks) \in Nat /\ Len(acks') \in Nat
    BY <1>0, LenProperties DEF IInv, TypeOK
  <2> QED BY <1>0, <1>u, <2>1, <2>2 DEF IInv, TypeOK, Honest
<1>4. SlotsConserved' /\ NotifiedOnce'
  BY <1>u DEF IInv, SlotsConserved, NotifiedOnce, Uncredited
<1> QED BY <1>1, <1>2, <1>3, <1>4 DEF IInv

LEMMA DesyncStep ==
  ASSUME IInv, Desync PROVE IInv'
BY SendAssumption
   DEF Desync, callVars, listVars, reqVars, encVars, ackVars, netVars,
       IInv, TypeOK, Ranges, Reader, AckedPrefix, Walks, Honest, Unread,
       SlotsConserved, Uncredited, NotifiedOnce, Msgs, Bytes, InFlight,
       LockFree

LEMMA BreakStep ==
  ASSUME IInv, Break PROVE IInv'
<1> USE SendAssumption
    DEF callVars, listVars, reqVars, encVars, ackVars
<1>0. /\ acks' \in Seq(Bytes)
      /\ Len(acks') <= Len(acks)
      /\ \A i \in 1 .. Len(acks') : acks'[i] = acks[i]
  <2>1. PICK n \in 0 .. Len(acks) : acks' = SubSeq(acks, 1, n)
    BY DEF Break
  <2>2. acks \in Seq(Bytes) /\ Len(acks) \in Nat
    BY LenProperties DEF IInv, TypeOK
  <2> QED BY <2>1, <2>2, SubSeqKeeps
<1>u. /\ up' = FALSE
      /\ arrived' \in delivered .. arrived
      /\ UNCHANGED <<callVars, listVars, reqVars, encVars, ackVars, delivered,
                     stray>>
  BY DEF Break
<1>1. TypeOK'
  <2>1. arrived' \in 0 .. MaxMsgs
    BY <1>u DEF IInv, TypeOK
  <2>2. up' \in BOOLEAN
    BY <1>u
  <2> QED BY <1>0, <1>u, <2>1, <2>2 DEF IInv, TypeOK
<1>2. Ranges' /\ Reader' /\ AckedPrefix' /\ Walks'
  BY <1>u DEF IInv, TypeOK, Ranges, Reader, AckedPrefix, Walks
<1>3. Honest'
  <2>1. Unread' = Unread /\ Unread \in Int
    BY <1>u DEF Unread, IInv, TypeOK
  <2>2. Len(acks) \in Nat /\ Len(acks') \in Nat
    BY <1>0, LenProperties DEF IInv, TypeOK
  <2> QED BY <1>0, <1>u, <2>1, <2>2 DEF IInv, TypeOK, Honest
<1>4. SlotsConserved' /\ NotifiedOnce'
  BY <1>u DEF IInv, SlotsConserved, NotifiedOnce, Uncredited
<1> QED BY <1>1, <1>2, <1>3, <1>4 DEF IInv

-----------------------------------------------------------------------------
(* The invariant                                                           *)

LEMMA InitIInv == Init => IInv
<1> SUFFICES ASSUME Init PROVE IInv
  OBVIOUS
<1> USE SendAssumption DEF Init
<1>1. TypeOK
  <2>1. /\ pc \in [Callers -> {"idle", "walk", "wait", "woken"}]
        /\ closed \in BOOLEAN /\ werr \in BOOLEAN /\ timer \in BOOLEAN
        /\ up \in BOOLEAN /\ stray \in BOOLEAN
    OBVIOUS
  <2>2. rbuf \in Seq(Bytes) /\ acks \in Seq(Bytes)
    OBVIOUS
  <2> QED BY <2>1, <2>2 DEF TypeOK
<1>2. Ranges /\ Reader /\ Walks
  BY DEF Ranges, Reader, Walks
<1>3. AckedPrefix
  BY DEF AckedPrefix
<1>4. Honest /\ SlotsConserved /\ NotifiedOnce
  BY DEF Honest, Unread, SlotsConserved, Uncredited, NotifiedOnce
<1> QED BY <1>1, <1>2, <1>3, <1>4 DEF IInv

LEMMA StutterIInv == IInv /\ UNCHANGED vars => IInv'
BY DEF vars, callVars, listVars, reqVars, encVars, ackVars, netVars, IInv,
       TypeOK, Ranges, Reader, AckedPrefix, Walks, Honest, Unread,
       SlotsConserved, Uncredited, NotifiedOnce, Msgs, Bytes

LEMMA NextIInv == IInv /\ [Next]_vars => IInv'
<1> SUFFICES ASSUME IInv, [Next]_vars PROVE IInv'
  OBVIOUS
<1>1. ASSUME NEW c \in Callers, CallSend(c) PROVE IInv'
  BY <1>1, SendClosedStep, SendReturnsStep, SendBlocksStep, SendFailsStep
     DEF CallSend
<1>2. ASSUME NEW c \in Callers, CallerStep(c) PROVE IInv'
  BY <1>2, WalkNacksStep, WalkEndsStep, WokenReturnsStep, WokenWaitsStep
     DEF CallerStep
<1>3. CASE BackgroundAck
  BY <1>3, ReadAcksStep, ReadFailsStep, UnsyncedStep, AckNothingStep,
     AckBackStep, RemoveBackStep, CreditStep, NackAllStep DEF BackgroundAck
<1>4. CASE Flush \/ FlushTimer
  BY <1>4, FlushKeeps DEF Flush, FlushTimer, FlushBuffer, IInv, TypeOK
<1>5. CASE Close
  BY <1>5, FlushKeeps DEF Close
<1>6. CASE Generate \/ Desync \/ Break
  BY <1>6, GenerateStep, DesyncStep, BreakStep
<1>7. CASE UNCHANGED vars
  BY <1>7, StutterIInv
<1> QED BY <1>1, <1>2, <1>3, <1>4, <1>5, <1>6, <1>7 DEF Next

LEMMA Invariant == Spec => []IInv
BY InitIInv, NextIInv, PTL DEF Spec

\* The type invariant of Send.
THEOREM TypeCorrect == Spec => []TypeOK
BY Invariant, PTL DEF IInv

\* Whatever callers, transmit failures and read sizes do, no slot of the
\* window is lost or made up.
THEOREM SlotsTheorem == Spec => []SlotsConserved
BY Invariant, PTL DEF IInv

\* OnClosed is called once, exactly when the Send closes, by whichever of the
\* two sendNacks comes first.
THEOREM NotifiedTheorem == Spec => []NotifiedOnce
BY Invariant, PTL DEF IInv

LEMMA IInvAckedDelivered == IInv => AckedDelivered
<1> SUFFICES ASSUME IInv, ~stray, NEW m \in acked PROVE m <= delivered
  BY DEF AckedDelivered
<1>1. m <= IF rpc = "remove" THEN back ELSE back - 1
  BY SendAssumption DEF IInv, TypeOK, AckedPrefix
<1>2. Unread \in Nat /\ (rpc = "remove" => Unread >= 1) /\ Len(acks) \in Nat
  BY LenProperties DEF IInv, TypeOK, Reader, Unread
<1>3. (back - 1) + Unread + Len(acks) <= delivered
  BY DEF IInv, Honest
<1> QED BY <1>1, <1>2, <1>3, SendAssumption DEF IInv, TypeOK, Msgs

\* An acked message was decoded by the peer, however the acks are split over
\* reads and the connection breaks.
THEOREM AckedDeliveredTheorem == Spec => []AckedDelivered
BY Invariant, IInvAckedDelivered, PTL
-----------------------------------------------------------------------------
(* Connections whose writes do not report errors: backgroundAck is the     *)
(* first and only goroutine to find out that the connection broke.         *)

Undisturbed ==
  /\ ~werr
  /\ \A c \in Callers : pc[c] # "walk"
  /\ closed => rpc = "done"
  /\ nacked = IF closed THEN back .. sent ELSE {}

LEMMA InitUndisturbed == Init => Undisturbed
BY DEF Init, Undisturbed

LEMMA NextUndisturbed ==
  ASSUME WriteErrors = FALSE, IInv, Undisturbed, [Next]_vars
  PROVE  Undisturbed'
<1> USE SendAssumption DEF IInv, TypeOK, Undisturbed
<1>1. ASSUME NEW c \in Callers, CallSend(c) PROVE Undisturbed'
  <2>1. CASE SendClosed(c)
    BY <2>1 DEF SendClosed, encVars, ackVars, listVars, Ranges
  <2>2. CASE SendReturns(c)
    BY <2>2 DEF SendReturns, SendOpen, EncodeOK, ackVars, listVars
  <2>3. CASE SendBlocks(c)
    BY <2>3 DEF SendBlocks, SendOpen, FlushTo, ackVars, listVars
  <2>4. CASE SendFails(c)
    BY <2>4 DEF SendFails, EncodeFails
  <2> QED BY <1>1, <2>1, <2>2, <2>3, <2>4 DEF CallSend
<1>2. ASSUME NEW c \in Callers, CallerStep(c) PROVE Undisturbed'
  <2>1. CASE WalkNacks(c) \/ WalkEnds(c)
    BY <2>1 DEF WalkNacks, WalkEnds
  <2>2. CASE WokenReturns(c)
    BY <2>2 DEF WokenReturns, reqVars, encVars, ackVars, listVars
  <2>3. CASE WokenWaits(c)
    BY <2>3 DEF WokenWaits, FlushTo, reqVars, ackVars, listVars
  <2> QED BY <1>2, <2>1, <2>2, <2>3 DEF CallerStep
<1>3. CASE BackgroundAck
  <2>1. CASE ReadAcks \/ ReadFails \/ Unsynced \/ AckNothing \/ AckBack
               \/ RemoveBack
    BY <2>1 DEF ReadAcks, ReadFails, Unsynced, AckNothing, AckBack, RemoveBack,
                BackRemoved, callVars, reqVars, encVars, listVars
  <2>2. CASE Credit
    BY <2>2, SignalKeeps DEF Credit, reqVars, encVars, listVars
  <2>3. CASE NackAll
    <3>1. \A c \in Callers : pc'[c] # "walk"
      BY <2>3, SignalKeeps DEF NackAll
    <3>2. nacked' = IF closed' THEN back' .. sent' ELSE {}
      BY <2>3 DEF NackAll, AlreadyNacked, Walked, InFlight, listVars, Ranges
    <3> QED BY <2>3, <3>1, <3>2 DEF NackAll, encVars
  <2> QED BY <1>3, <2>1, <2>2, <2>3 DEF BackgroundAck
<1>4. CASE Flush \/ FlushTimer \/ Close
  BY <1>4 DEF Flush, FlushTimer, Close, FlushBuffer, FlushTo, callVars,
              reqVars, ackVars, listVars
<1>5. CASE Generate \/ Desync \/ Break
  BY <1>5 DEF Generate, Desync, Break, callVars, reqVars, encVars, ackVars,
              listVars
<1>6. CASE UNCHANGED vars
  BY <1>6 DEF vars, callVars, reqVars, encVars, ackVars, listVars
<1> QED BY <1>1, <1>2, <1>3, <1>4, <1>5, <1>6 DEF Next

LEMMA UndisturbedInvariant ==
  ASSUME WriteErrors = FALSE
  PROVE  Spec => [](IInv /\ Undisturbed)
<1>1. IInv /\ Undisturbed /\ [Next]_vars => Undisturbed'
  BY NextUndisturbed
<1> QED BY <1>1, Invariant, InitUndisturbed, PTL DEF Spec

LEMMA UndisturbedResolved ==
  IInv /\ Undisturbed => ResolvedOnce /\ NoSilentLoss
BY SendAssumption
   DEF IInv, TypeOK, Ranges, AckedPrefix, Undisturbed, ResolvedOnce, NoSilentLoss

\* While only backgroundAck meets the failure, no request hears both Ack and
\* Nack.
THEOREM ResolvedOnceTheorem ==
  ASSUME WriteErrors = FALSE
  PROVE  Spec => []ResolvedOnce
BY UndisturbedInvariant, UndisturbedResolved, PTL

\* And then every message given to a Send that closed was acked or nacked.
THEOREM NoSilentLossTheorem ==
  ASSUME WriteErrors = FALSE
  PROVE  Spec => []NoSilentLoss
BY UndisturbedInvariant, UndisturbedResolved, PTL

-----------------------------------------------------------------------------
(* The promise of SendSpec                                                 *)

LEMMA NoStray ==
  ASSUME Confused = FALSE
  PROVE  Spec => []~stray
<1>1. Init => ~stray
  BY DEF Init
<1>2. ~stray /\ [Next]_vars => ~stray'
  BY DEF Next, vars, CallSend, CallerStep, BackgroundAck, SendClosed,
         SendReturns, SendBlocks, SendFails, SendOpen, WalkNacks, WalkEnds,
         WokenReturns, WokenWaits, ReadAcks, ReadFails, Unsynced, AckNothing,
         AckBack, RemoveBack, Credit, NackAll, Flush, FlushTimer, FlushBuffer,
         Close, Generate, Desync, Break, netVars
<1> QED BY <1>1, <1>2, PTL DEF Spec

LEMMA InitPromise == Init => Promise!Init
BY DEF Init, Promise!Init

LEMMA NextPromise ==
  ASSUME IInv, Undisturbed, Undisturbed', ~stray, [Next]_vars
  PROVE  [Promise!Next]_Promise!vars
<1> USE SendAssumption DEF Promise!vars
<1>1. ASSUME NEW c \in Callers, CallSend(c) PROVE Promise!Next
  <2>1. CASE SendClosed(c)
    <3>1. Promise!Submit
      BY <2>1 DEF SendClosed, Promise!Submit, listVars, netVars
    <3> QED BY <3>1 DEF Promise!Next
  <2>2. CASE SendReturns(c) \/ SendBlocks(c)
    <3>1. Promise!Submit
      BY <2>2 DEF SendReturns, SendBlocks, SendOpen, Promise!Submit, listVars
    <3> QED BY <3>1 DEF Promise!Next
  <2>3. CASE SendFails(c)
    BY <2>3 DEF SendFails, Undisturbed, IInv, TypeOK
  <2> QED BY <1>1, <2>1, <2>2, <2>3 DEF CallSend
<1>2. ASSUME NEW c \in Callers, CallerStep(c) PROVE UNCHANGED Promise!vars
  BY <1>2 DEF CallerStep, WalkNacks, WalkEnds, WokenReturns, WokenWaits,
              Undisturbed, listVars, reqVars, netVars
<1>3. CASE AckBack
  <2>1. /\ ~closed /\ acked = 1 .. back - 1 /\ nacked = {}
        /\ back \in 1 .. sent
        /\ acked' = acked \cup {back}
        /\ UNCHANGED <<sent, nacked, delivered, closed>>
    BY <1>3 DEF AckBack, HasInFlight, BackRequest, IInv, TypeOK, AckedPrefix,
                Ranges, Undisturbed, callVars, reqVars, netVars
  <2>2. back <= delivered
    <3>1. Unread \in Nat /\ Unread >= 1 /\ Len(acks) \in Nat
      BY <1>3, LenProperties DEF AckBack, Unread, IInv, TypeOK
    <3>2. (back - 1) + Unread + Len(acks) <= delivered
      BY DEF IInv, Honest
    <3> QED BY <3>1, <3>2 DEF IInv, TypeOK
  <2>3. back \in Promise!Unresolved /\ \A u \in Promise!Unresolved : back <= u
    BY <2>1 DEF Promise!Unresolved, IInv, TypeOK
  <2>4. Promise!Ack(back)
    BY <2>1, <2>2, <2>3 DEF Promise!Ack
  <2> QED BY <2>3, <2>4 DEF Promise!Next
<1>4. CASE NackAll
  <2>1. CASE closed
    BY <1>4, <2>1 DEF NackAll, Undisturbed
  <2>2. CASE ~closed
    <3>1. Promise!Unresolved = InFlight
      BY <1>4, <2>2 DEF Promise!Unresolved, InFlight, NackAll, IInv, TypeOK,
                        AckedPrefix, Ranges, Undisturbed
    <3>2. Promise!CloseSend
      BY <1>4, <2>2, <3>1 DEF NackAll, AlreadyNacked, Walked, Promise!CloseSend,
                              listVars, netVars
    <3> QED BY <3>2 DEF Promise!Next
  <2> QED BY <2>1, <2>2
<1>5. CASE Generate
  <2>1. Promise!Deliver
    BY <1>5 DEF Generate, Promise!Deliver, IInv, TypeOK, Ranges, callVars,
                listVars, reqVars
  <2> QED BY <2>1 DEF Promise!Next
<1>6. CASE ReadAcks \/ ReadFails \/ Unsynced \/ AckNothing \/ RemoveBack \/ Credit
  BY <1>6 DEF ReadAcks, ReadFails, Unsynced, AckNothing, RemoveBack, Credit,
              callVars, listVars, reqVars, netVars
<1>7. CASE Flush \/ FlushTimer \/ Close \/ Desync \/ Break \/ UNCHANGED vars
  BY <1>7 DEF Flush, FlushTimer, FlushBuffer, Close, Desync, Break, vars,
              callVars, listVars, reqVars, netVars
<1> QED BY <1>1, <1>2, <1>3, <1>4, <1>5, <1>6, <1>7 DEF Next, BackgroundAck

\* Send implements SendSpec for every number of callers and every window, as
\* long as writes do not report errors and the peer is a Recv.
THEOREM KeepsPromiseTheorem ==
  ASSUME WriteErrors = FALSE, Confused = FALSE
  PROVE  Spec => KeepsPromise
<1>1. IInv /\ Undisturbed /\ Undisturbed' /\ ~stray /\ [Next]_vars
        => [Promise!Next]_Promise!vars
  BY NextPromise
<1> QED
  BY <1>1, InitPromise, UndisturbedInvariant, NoStray, PTL
     DEF Spec, KeepsPromise, Promise!Spec

-----------------------------------------------------------------------------
(* The window of a Send with one caller                                    *)

\* A caller that is not in Send has a slot left, or the Send is closed.
SlotLeft ==
  /\ available >= 0
  /\ \A c \in Callers : pc[c] = "idle" /\ ~closed => available >= 1

LEMMA InitSlotLeft == Init => SlotLeft
BY SendAssumption DEF Init, SlotLeft

LEMMA NextSlotLeft ==
  ASSUME NEW caller, Callers = {caller}, IInv, SlotLeft, [Next]_vars
  PROVE  SlotLeft'
<1> USE SendAssumption DEF IInv, TypeOK, SlotLeft
<1>1. ASSUME NEW c \in Callers, CallSend(c) PROVE SlotLeft'
  BY <1>1 DEF CallSend, SendClosed, SendReturns, SendBlocks, SendFails, SendOpen,
              WindowFull
<1>2. ASSUME NEW c \in Callers, CallerStep(c) PROVE SlotLeft'
  <2>1. CASE WalkEnds(c)
    BY <2>1 DEF WalkEnds
  <2>2. CASE WalkNacks(c) \/ WokenReturns(c) \/ WokenWaits(c)
    BY <2>2 DEF WalkNacks, WokenReturns, WokenWaits, WindowFull
  <2> QED BY <1>2, <2>1, <2>2 DEF CallerStep
<1>3. CASE Credit
  <2>1. \A c \in Callers : pc'[c] = "idle" => pc[c] = "idle"
    BY <1>3 DEF Credit, Signal
  <2>2. Len(rbuf) \in Nat
    BY LenProperties
  <2> QED BY <1>3, <2>1, <2>2 DEF Credit, CreditFor
<1>4. CASE NackAll
  BY <1>4 DEF NackAll, AlreadyNacked
<1>5. CASE BackgroundAck /\ ~Credit /\ ~NackAll
  BY <1>5 DEF BackgroundAck, ReadAcks, ReadFails, Unsynced, AckNothing, AckBack,
              RemoveBack, callVars
<1>6. CASE Flush \/ FlushTimer \/ Close \/ Generate \/ Desync \/ Break
             \/ UNCHANGED vars
  BY <1>6 DEF Flush, FlushTimer, FlushBuffer, Close, Generate, Desync, Break,
              vars, callVars
<1> QED BY <1>1, <1>2, <1>3, <1>4, <1>5, <1>6 DEF Next

LEMMA SlotLeftWindow == IInv /\ SlotLeft /\ ~stray => WindowRespected
<1> SUFFICES ASSUME IInv, SlotLeft, ~stray PROVE WindowRespected
  OBVIOUS
<1>1. available + (front - back + 1) + Uncredited = Window
  BY DEF IInv, SlotsConserved
<1>2. Uncredited \in Nat
  BY DEF Uncredited, IInv, TypeOK
<1>3. /\ available \in Int /\ available >= 0 /\ Window \in Nat
      /\ front \in Nat /\ back \in Nat /\ back <= front + 1
  BY SendAssumption DEF IInv, TypeOK, Ranges, SlotLeft
<1>4. Cardinality(InFlight) = front - back + 1
  <2>1. Cardinality(back .. front) = IF back > front THEN 0 ELSE front - back + 1
    BY <1>3, FS_Interval
  <2> QED BY <1>3, <2>1 DEF InFlight
<1> QED BY <1>1, <1>2, <1>3, <1>4 DEF WindowRespected

\* With one caller, which is how ReliableSend uses it, a Send never has more
\* than Window messages unanswered.
THEOREM WindowTheorem ==
  ASSUME NEW caller, Callers = {caller}, Confused = FALSE
  PROVE  Spec => []WindowRespected
<1>1. IInv /\ SlotLeft /\ [Next]_vars => SlotLeft'
  BY NextSlotLeft
<1> QED
  BY <1>1, Invariant, InitSlotLeft, SlotLeftWindow, NoStray, PTL DEF Spec
=============================================================================
