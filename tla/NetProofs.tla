------------------------------ MODULE NetProofs ------------------------------
(***************************************************************************)
(* Proofs about the modules that MCNet puts side by side, for any number   *)
(* of clients, sinks, sources, connections, callers and messages: TCPRecv, *)
(* TcpRead, Pipeline, Redis and Agent.  Each theorem is about the          *)
(* component's own specification, and the specification of the run implies *)
(* all of them (NetOfParts).                                               *)
(***************************************************************************)
EXTENDS MCNet, Lemmas

-----------------------------------------------------------------------------
(* The inductive invariants                                                *)

\* TCPRecv: a handler that puts has decoded something.
HandsDecoded == \A c \in Conns : hpc[c] = "put" => decoded[c] >= 1

\* What was put in the buffer so far, in order.
AllPut == generated \o buf
PutsOrdered ==
  \A i, j \in 1 .. Len(AllPut) :
    i < j /\ AllPut[i][1] = AllPut[j][1] => AllPut[i][2] < AllPut[j][2]

\* It is what was decoded, but for what the handlers are about to put.
WasPut(c, n) == n <= decoded[c] /\ ~(hpc[c] = "put" /\ n = decoded[c])
PutsDecoded ==
  /\ \A i \in 1 .. Len(AllPut) : WasPut(AllPut[i][1], AllPut[i][2])
  /\ \A c \in Conns, n \in 1 .. MaxSends :
       WasPut(c, n) => \E i \in 1 .. Len(AllPut) : AllPut[i] = <<c, n>>

RecvInv == T!TypeOK /\ HandsDecoded /\ PutsOrdered /\ PutsDecoded

\* TcpRead: a caller that writes has a connection to write to, and only those
\* that found none may still make one.
Dialing == {c \in Callers : rpc[c] = "dial"}
Called == {c \in Callers : reads[c] > 0}
Dials ==
  /\ syncConn = made
  /\ \A c \in Callers : rpc[c] # "idle" => reads[c] >= 1
  /\ \A c \in Callers : rpc[c] = "write" => made >= 1
  /\ made + Cardinality(Dialing) <= Cardinality(Called)

\* The calls of Read that have returned.
Returned(c, n) == n < reads[c] \/ (n = reads[c] /\ rpc[c] = "idle")
WritesReturned ==
  /\ \A i, j \in 1 .. Len(written) :
       i < j /\ written[i].of = written[j].of => written[i].n < written[j].n
  /\ \A i \in 1 .. Len(written) : Returned(written[i].of, written[i].n)
  /\ \A c \in Callers, n \in 1 .. MaxReads :
       Returned(c, n) => \E i \in 1 .. Len(written) :
                           written[i].of = c /\ written[i].n = n

ReadInv == S!TypeOK /\ WritesReturned /\ Dials

\* Pipeline: a listener that is in s.server or was closed has been assigned.
Listeners ==
  /\ \A g \in P!Gs : g = server \/ g = shutListener => gpc[g] \in {"accept", "spin"}
  /\ \A g \in P!Gs : g = bound => P!Listening(g)

\* The goroutines whose latch was read have ended, and outer is the last of them
\* that failed.
Latches ==
  /\ \A g \in P!Gs : gpc[g] # "none" => g <= loop
  /\ \A g \in P!Gs : src[g] # 0 => src[g] >= g
  /\ gate > 1 => loop = Sources
  /\ \A g \in P!Gs : g < gate => gpc[g] = "ended"
  /\ \A g \in err : gpc[g] \in {"latch", "ended"}
  /\ \A g \in err : g < gate => g <= outer
  /\ outer # 0 => outer \in err /\ outer < gate

PipeInv == P!TypeOK /\ Listeners /\ Latches

\* Redis: x may be before y on the way.
Before(x, y) == 0 \in {x, y} \/ x < y \/ (x = y /\ x \in twice)

\* The parts of the way are in order, and so are any two of them.
PartsOrdered ==
  /\ \A i, j \in 1 .. Len(recvd) : i < j => Before(recvd[i], recvd[j])
  /\ \A i, j \in 1 .. Len(list) : i < j => Before(list[i], list[j])
  /\ \A i \in 1 .. Len(recvd), j \in 1 .. Len(list) : Before(recvd[i], list[j])
  /\ \A i \in 1 .. Len(recvd) : Before(recvd[i], data)
  /\ \A i \in 1 .. Len(list) : Before(list[i], data)

\* What a caller still sends is newer than all of it.
SendsNewest ==
  /\ \A i \in 1 .. Len(recvd) : recvd[i] <= calls
  /\ \A i \in 1 .. Len(list) : list[i] <= calls
  /\ data <= calls
  /\ caller = "sending" =>
       /\ \A i \in 1 .. Len(recvd) : recvd[i] < calls
       /\ \A i \in 1 .. Len(list) : list[i] < calls
       /\ data < calls

Pushing == data # 0 <=> opc \in {"push", "dial"}

\* Where a message that Receive returned for is.
Somewhere(m) ==
  \/ \E i \in 1 .. Len(recvd) : recvd[i] = m
  \/ \E i \in 1 .. Len(list) : list[i] = m
  \/ data = m \/ m \in dropped \/ m \in popped
  \/ m = calls /\ caller = "sending"
AllSomewhere ==
  feeder # "nil" /\ ~redisDead => \A m \in 1 .. calls : Somewhere(m)

QueueInv ==
  R!TypeOK /\ PartsOrdered /\ SendsNewest /\ Pushing /\ AllSomewhere

\* Agent: the types of what A!TypeOK leaves out.
Numbers == 1 .. MaxSent
Entries == -1 .. MaxSent
Given == Clients \X Numbers
AgentTypes ==
  /\ sent \in [Clients -> 0 .. MaxSent]
  /\ stream \in [Clients -> Seq(Entries)]
  /\ hand \in [Clients -> {<< >>} \cup (Numbers \X (1 .. Sinks))]
  /\ got \in [1 .. Sinks -> Seq(Given)]

\* The numbers of a stream increase up to sent; only the last entry may be the
\* end.
Streams ==
  \A c \in Clients :
    /\ \A i \in 1 .. Len(stream[c]) : stream[c][i] <= sent[c]
    /\ \A i, j \in 1 .. Len(stream[c]) :
         i < j => stream[c][i] > 0 /\ (stream[c][j] > 0 => stream[c][i] < stream[c][j])

\* Whatever left the stream of c for the sinks is older than n.
Passed(c, n) ==
  /\ hand[c] # << >> => hand[c][1] < n
  /\ \A k \in 1 .. Sinks : \A j \in 1 .. Len(got[k]) :
       got[k][j][1] = c => got[k][j][2] < n
StreamsNewer ==
  \A c \in Clients :
    /\ \A i \in 1 .. Len(stream[c]) : stream[c][i] > 0 => Passed(c, stream[c][i])
    /\ Passed(c, sent[c] + 1)

\* A message in hand is with the sinks that had their turn, and newer than what
\* the others have of its client.
Hands ==
  \A c \in Clients : hand[c] # << >> =>
    /\ \A k \in 1 .. Sinks : k < hand[c][2] =>
         \E j \in 1 .. Len(got[k]) : got[k][j] = <<c, hand[c][1]>>
    /\ \A k \in 1 .. Sinks : k >= hand[c][2] => \A j \in 1 .. Len(got[k]) :
         got[k][j][1] = c => got[k][j][2] < hand[c][1]

\* A sink has the messages of a client in order, each after the sink before.
SinksOrdered ==
  \A k \in 1 .. Sinks : \A i, j \in 1 .. Len(got[k]) :
    i < j /\ got[k][i][1] = got[k][j][1] => got[k][i][2] < got[k][j][2]
SinksInTurn ==
  \A k \in 1 .. Sinks : k > 1 => \A i \in 1 .. Len(got[k]) :
    \E j \in 1 .. Len(got[k - 1]) : got[k - 1][j] = got[k][i]

\* Where a message that was sent is.
Reached(c, n) ==
  \/ \E i \in 1 .. Len(stream[c]) : stream[c][i] = n
  \/ conn[c] = "gone" \/ <<c, n>> \in refused
  \/ \E j \in 1 .. Len(got[1]) : got[1][j] = <<c, n>>
  \/ hand[c] = <<n, 1>>
AllReached == \A c \in Clients, n \in Numbers : n <= sent[c] => Reached(c, n)

AgentData == /\ AgentTypes /\ Streams /\ StreamsNewer /\ Hands
             /\ SinksOrdered /\ SinksInTurn /\ AllReached

\* Until it is torn, s.conns has each connection that is served once.
Listed ==
  /\ conns \in Seq(Clients)
  /\ ~torn =>
       /\ \A i, j \in 1 .. Len(conns) : conns[i] = conns[j] => i = j
       /\ \A i \in 1 .. Len(conns) : conn[conns[i]] = "served"
       /\ \A c \in Clients : conn[c] = "served" => \E i \in 1 .. Len(conns) : conns[i] = c

AgentInv == A!TypeOK /\ AgentData /\ Listed

-----------------------------------------------------------------------------
(* The run and its components                                              *)

\* What TLC explores for the five components at once is, for each of them,
\* its own specification: the others only let it rest (MCNet).
THEOREM NetOfParts == Spec => A!Spec /\ P!Spec /\ R!Spec /\ T!Spec /\ S!Spec
<1>1. Init => A!Init /\ P!Init /\ R!Init /\ T!Init /\ S!Init
  BY DEF Init
<1>2. [Next]_vars => [A!Next]_(A!vars)
  BY DEF Next, vars, InAgent, InPipe, InRedis, InRecv, InRead, agVars,
         A!vars, A!connVars, A!sinkVars
<1>3. [Next]_vars => [P!Next]_(P!vars)
  BY DEF Next, vars, InAgent, InPipe, InRedis, InRecv, InRead, piVars, P!vars
<1>4. [Next]_vars => [R!Next]_(R!vars)
  BY DEF Next, vars, InAgent, InPipe, InRedis, InRecv, InRead, reVars, R!vars,
         R!outVars, R!inVars
<1>5. [Next]_vars => [T!Next]_(T!vars)
  BY DEF Next, vars, InAgent, InPipe, InRedis, InRecv, InRead, recvVars, T!vars
<1>6. [Next]_vars => [S!Next]_(S!vars)
  BY DEF Next, vars, InAgent, InPipe, InRedis, InRecv, InRead, readVars, S!vars
<1> QED
  BY <1>1, <1>2, <1>3, <1>4, <1>5, <1>6, PTL
     DEF Spec, A!Spec, P!Spec, R!Spec, T!Spec, S!Spec

-----------------------------------------------------------------------------
(* TCPRecv                                                                 *)

\* The messages of TCPRecv.
Puts == Conns \X (1 .. MaxSends)

\* Of two sequences behind each other.
LEMMA BehindOf ==
  ASSUME NEW M, NEW s \in Seq(M), NEW t \in Seq(M)
  PROVE  /\ s \o t \in Seq(M) /\ Len(s \o t) = Len(s) + Len(t)
         /\ Len(s) \in Nat /\ Len(t) \in Nat
         /\ \A i \in 1 .. Len(s) : (s \o t)[i] = s[i]
         /\ \A i \in 1 .. Len(t) : (s \o t)[Len(s) + i] = t[i]
BY ConcatProperties

\* At first there is nothing.
LEMMA RecvInit == ASSUME T!Init PROVE RecvInv
<1>1. T!TypeOK
  <2>1. << >> \in Seq(Puts) /\ Len(<< >>) = 0
    OBVIOUS
  <2>2. panicked \in BOOLEAN
    BY DEF T!Init
  <2>3. decoded \in [Conns -> 0 .. MaxSends]
    BY NetAssumption DEF T!Init
  <2> QED BY <2>1, <2>2, <2>3, NetAssumption DEF T!Init, T!TypeOK, Puts
<1>2. Len(AllPut) = 0
  BY DEF T!Init, AllPut
<1>3. HandsDecoded
  BY DEF T!Init, HandsDecoded
<1>4. PutsOrdered /\ PutsDecoded
  BY <1>2 DEF T!Init, PutsOrdered, PutsDecoded, WasPut
<1> QED BY <1>1, <1>3, <1>4 DEF RecvInv

\* The invariant is stronger than the property.
LEMMA RecvKeeps == ASSUME RecvInv PROVE KeepsAcked
<1>1. /\ AllPut \in Seq(Puts) /\ decoded \in [Conns -> 0 .. MaxSends]
      /\ DOMAIN AllPut = 1 .. Len(AllPut)
  BY BehindOf DEF RecvInv, T!TypeOK, AllPut, Puts
<1> DEFINE putting == {<<c, decoded[c]>> : c \in {d \in Conns : hpc[d] = "put"}}
<1>2. ASSUME NEW i \in 1 .. Len(AllPut) PROVE AllPut[i] \in T!Acked \ putting
  <2>1. PICK c \in Conns, n \in 1 .. MaxSends : AllPut[i] = <<c, n>>
    <3>1. AllPut[i] \in Puts
      BY ONLY <1>1, i \in 1 .. Len(AllPut)
    <3> QED BY <3>1 DEF Puts
  <2>2. n <= decoded[c] /\ ~(hpc[c] = "put" /\ n = decoded[c])
    BY <2>1 DEF RecvInv, PutsDecoded, WasPut
  <2>3. n \in 1 .. decoded[c]
    BY <1>1, <2>2
  <2> QED BY <2>1, <2>2, <2>3 DEF T!Acked
<1>3. ASSUME NEW x \in T!Acked \ putting PROVE \E i \in 1 .. Len(AllPut) : AllPut[i] = x
  <2>1. PICK c \in Conns : x \in {<<c, n>> : n \in 1 .. decoded[c]}
    BY <1>3 DEF T!Acked
  <2>2. PICK n \in 1 .. decoded[c] : x = <<c, n>>
    BY <2>1
  <2>3. n \in 1 .. MaxSends /\ n <= decoded[c]
    BY <1>1, <2>2, NetAssumption
  <2>4. ~(hpc[c] = "put" /\ n = decoded[c])
    BY <1>3, <2>2
  <2> QED BY <2>2, <2>3, <2>4 DEF RecvInv, PutsDecoded, WasPut
<1>4. T!Range(AllPut) = T!Acked \ putting
  BY <1>1, <1>2, <1>3 DEF T!Range
<1>5. T!AckedInOrder
  BY <1>1, <1>4 DEF RecvInv, PutsOrdered, T!AckedInOrder, AllPut
<1> QED BY <1>5 DEF RecvInv, KeepsAcked, T!KeepsAcked

\* What was put keeps its place, and only hpc and decoded say what was.
LEMMA RecvRests ==
  ASSUME RecvInv, T!TypeOK', HandsDecoded', AllPut' = AllPut,
         \A c \in Conns, n \in 1 .. MaxSends : WasPut(c, n)' <=> WasPut(c, n)
  PROVE  RecvInv'
<1>1. AllPut \in Seq(Puts)
  BY BehindOf DEF RecvInv, T!TypeOK, AllPut, Puts
<1>2. \A i \in 1 .. Len(AllPut) : AllPut[i][1] \in Conns /\ AllPut[i][2] \in 1 .. MaxSends
  BY <1>1 DEF Puts
<1>3. PutsOrdered'
  BY DEF RecvInv, PutsOrdered
<1>4. PutsDecoded'
  BY <1>2 DEF RecvInv, PutsDecoded
<1> QED BY <1>3, <1>4 DEF RecvInv

\* A handler puts the message it decoded.
LEMMA RecvPuts ==
  ASSUME RecvInv, NEW c \in Conns, T!Put(c) PROVE RecvInv'
<1>0. CASE recvClosed = "buf"
  <2>1. /\ panicked' = TRUE /\ hpc' = hpc /\ buf' = buf /\ decoded' = decoded
        /\ recvClosed' = recvClosed /\ generated' = generated
    BY <1>0 DEF T!Put
  <2>2. T!TypeOK' /\ HandsDecoded' /\ AllPut' = AllPut
    BY <2>1 DEF RecvInv, T!TypeOK, HandsDecoded, AllPut
  <2> QED BY <2>1, <2>2, RecvRests DEF WasPut
<1>a. CASE recvClosed # "buf"
  <2> DEFINE x == <<c, decoded[c]>>
  <2>1. /\ hpc[c] = "put" /\ Len(buf) < Buffer /\ buf' = Append(buf, x)
        /\ hpc' = [hpc EXCEPT ![c] = "generate"]
        /\ UNCHANGED <<decoded, recvClosed, panicked, generated>>
    BY <1>a DEF T!Put, T!Room, T!PutsLast
  <2>2. /\ decoded \in [Conns -> 0 .. MaxSends] /\ hpc \in [Conns -> {"none", "generate", "put", "gone"}]
        /\ buf \in Seq(Puts) /\ generated \in Seq(Puts) /\ decoded[c] >= 1
    BY <2>1 DEF RecvInv, T!TypeOK, HandsDecoded, Puts
  <2>3. x \in Puts
    BY <2>2, NetAssumption DEF Puts
  <2>4. /\ buf' \in Seq(Puts) /\ Len(buf') = Len(buf) + 1 /\ Len(buf) \in Nat
        /\ AllPut' = Append(AllPut, x)
    <3> HIDE DEF x
    <3>1. generated \o Append(buf, x) = Append(generated \o buf, x)
      BY <2>2, <2>3
    <3> QED BY <2>1, <2>2, <2>3, <3>1 DEF AllPut
  <2>5. AllPut \in Seq(Puts)
    BY <2>2, BehindOf DEF AllPut
  <2>6. T!TypeOK'
    <3>1. Len(buf') <= Buffer
      BY <2>1, <2>4, NetAssumption
    <3> QED BY <2>1, <2>4, <3>1 DEF RecvInv, T!TypeOK, Puts
  <2>7. HandsDecoded'
    BY <2>1, <2>2 DEF RecvInv, HandsDecoded
  <2> DEFINE l == Len(AllPut)
  <2>8. /\ l \in Nat /\ Len(AllPut') = l + 1 /\ AllPut'[l + 1] = x
        /\ \A i \in 1 .. l : AllPut'[i] = AllPut[i]
        /\ \A i \in 1 .. l + 1 : i \in 1 .. l \/ i = l + 1
        /\ \A i \in 1 .. l : i \in 1 .. l + 1 /\ i < l + 1
    BY <2>3, <2>4, <2>5
  <2>9. ASSUME NEW d \in Conns, NEW n \in 1 .. MaxSends
        PROVE  WasPut(d, n)' <=> WasPut(d, n) \/ <<d, n>> = x
    BY <2>1, <2>2 DEF WasPut
  <2>10. \A i \in 1 .. l : /\ AllPut[i][1] \in Conns /\ AllPut[i][2] \in 1 .. MaxSends
                           /\ WasPut(AllPut[i][1], AllPut[i][2])
    BY <2>5 DEF Puts, RecvInv, PutsDecoded
  <2>11. PutsOrdered'
    <3> SUFFICES ASSUME NEW i \in 1 .. l + 1, NEW j \in 1 .. l + 1,
                        i < j, AllPut'[i][1] = AllPut'[j][1]
                 PROVE  AllPut'[i][2] < AllPut'[j][2]
      BY <2>8 DEF PutsOrdered
    <3>1. i \in 1 .. l
      BY <2>8
    <3>2. CASE j \in 1 .. l
      BY <2>8, <3>1, <3>2 DEF RecvInv, PutsOrdered
    <3>3. CASE j = l + 1
      <4>1. AllPut[i][1] = c /\ WasPut(c, AllPut[i][2]) /\ AllPut[i][2] \in 1 .. MaxSends
        BY <2>8, <2>10, <3>1, <3>3
      <4>2. AllPut[i][2] < decoded[c]
        BY <2>1, <2>2, <4>1 DEF WasPut
      <4> QED BY <2>8, <3>1, <3>3, <4>2
    <3> QED BY <2>8, <3>2, <3>3
  <2>12. PutsDecoded'
    <3>1. ASSUME NEW i \in 1 .. l + 1 PROVE WasPut(AllPut[i][1], AllPut[i][2])'
      <4>1. CASE i \in 1 .. l
        BY <2>8, <2>9, <2>10, <4>1
      <4>2. CASE i = l + 1
        <5>1. WasPut(c, decoded[c])'
          BY <2>1, <2>2 DEF WasPut
        <5> QED BY <2>1, <2>8, <4>2, <5>1 DEF WasPut
      <4> QED BY <2>8, <4>1, <4>2
    <3>2. ASSUME NEW d \in Conns, NEW n \in 1 .. MaxSends, WasPut(d, n)'
          PROVE  \E i \in 1 .. l + 1 : AllPut'[i] = <<d, n>>
      <4>1. CASE <<d, n>> = x
        BY <2>8, <4>1
      <4>2. CASE WasPut(d, n)
        <5>1. PICK i \in 1 .. l : AllPut[i] = <<d, n>>
          BY <4>2 DEF RecvInv, PutsDecoded
        <5> QED BY <2>8, <5>1
      <4> QED BY <2>9, <3>2, <4>1, <4>2
    <3> QED BY <2>8, <3>1, <3>2 DEF PutsDecoded
  <2> QED BY <2>6, <2>7, <2>11, <2>12 DEF RecvInv
<1> QED BY <1>0, <1>a

\* Generate moves the oldest message from the buffer to what it returned.
LEMMA RecvGenerates == ASSUME RecvInv, T!Generate PROVE RecvInv'
<1>1. /\ buf # << >> /\ generated' = Append(generated, Head(buf)) /\ buf' = Tail(buf)
      /\ UNCHANGED <<hpc, decoded, recvClosed, panicked>>
  BY DEF T!Generate
<1>2. buf \in Seq(Puts) /\ generated \in Seq(Puts) /\ Len(buf) <= Buffer
  BY DEF RecvInv, T!TypeOK, Puts
<1>3. /\ Head(buf) \in Puts /\ Tail(buf) \in Seq(Puts) /\ Len(Tail(buf)) <= Buffer
      /\ Append(generated, Head(buf)) \in Seq(Puts)
  BY <1>1, <1>2, NetAssumption
<1>4. AllPut' = AllPut
  BY <1>1, <1>2 DEF AllPut
<1>5. T!TypeOK'
  BY <1>1, <1>3 DEF RecvInv, T!TypeOK, Puts
<1>6. HandsDecoded'
  BY <1>1 DEF RecvInv, HandsDecoded
<1> QED BY <1>1, <1>4, <1>5, <1>6, RecvRests DEF WasPut

\* Each step of the receiver preserves the invariant.
LEMMA RecvStep == ASSUME RecvInv, [T!Next]_(T!vars) PROVE RecvInv'
<1>0. /\ decoded \in [Conns -> 0 .. MaxSends]
      /\ hpc \in [Conns -> {"none", "generate", "put", "gone"}]
  BY DEF RecvInv, T!TypeOK
<1>1. ASSUME NEW c \in Conns, T!Accept(c) \/ T!DecodeFails(c) PROVE RecvInv'
  <2>1. /\ hpc[c] # "put" /\ \E p \in {"generate", "gone"} : hpc' = [hpc EXCEPT ![c] = p]
        /\ UNCHANGED <<decoded, buf, recvClosed, panicked, generated>>
    BY <1>1 DEF T!Accept, T!DecodeFails
  <2>2. T!TypeOK' /\ HandsDecoded' /\ AllPut' = AllPut
    BY <1>0, <2>1 DEF RecvInv, T!TypeOK, HandsDecoded, AllPut
  <2> QED BY <1>0, <2>1, <2>2, RecvRests DEF WasPut
<1>2. ASSUME NEW c \in Conns, T!Decode(c) PROVE RecvInv'
  <2>1. /\ hpc[c] = "generate" /\ decoded[c] < MaxSends
        /\ decoded' = [decoded EXCEPT ![c] = @ + 1] /\ hpc' = [hpc EXCEPT ![c] = "put"]
        /\ UNCHANGED <<buf, recvClosed, panicked, generated>>
    BY <1>2 DEF T!Decode
  <2>2. decoded' \in [Conns -> 0 .. MaxSends]
    BY <1>0, <2>1, NetAssumption
  <2>3. T!TypeOK' /\ HandsDecoded' /\ AllPut' = AllPut
    BY <1>0, <2>1, <2>2 DEF RecvInv, T!TypeOK, HandsDecoded, AllPut
  <2>4. ASSUME NEW d \in Conns, NEW n \in 1 .. MaxSends
        PROVE  WasPut(d, n)' <=> WasPut(d, n)
    BY <1>0, <2>1 DEF WasPut
  <2> QED BY <2>3, <2>4, RecvRests
<1>3. ASSUME T!CloseListener \/ T!CloseBuf PROVE RecvInv'
  <2>1. /\ recvClosed' \in {"listener", "buf"}
        /\ UNCHANGED <<hpc, decoded, buf, panicked, generated>>
    BY <1>3 DEF T!CloseListener, T!CloseBuf
  <2>2. T!TypeOK' /\ HandsDecoded' /\ AllPut' = AllPut
    BY <2>1 DEF RecvInv, T!TypeOK, HandsDecoded, AllPut
  <2> QED BY <2>1, <2>2, RecvRests DEF WasPut
<1>4. ASSUME UNCHANGED T!vars PROVE RecvInv'
  <2>1. UNCHANGED <<hpc, decoded, buf, panicked, generated, recvClosed>>
    BY <1>4 DEF T!vars
  <2>2. T!TypeOK' /\ HandsDecoded' /\ AllPut' = AllPut
    BY <2>1 DEF RecvInv, T!TypeOK, HandsDecoded, AllPut
  <2> QED BY <2>1, <2>2, RecvRests DEF WasPut
<1> QED
  BY <1>1, <1>2, <1>3, <1>4, RecvPuts, RecvGenerates DEF T!Next

\* Whatever the connections, the owner and Close do, the messages of one
\* connection are returned in order, without gap or repetition, and an acked one
\* is returned, in the buffer or in its handler's hand (tcp_recv.go).
THEOREM RecvKeepsAcked == T!Spec => []KeepsAcked
<1>1. T!Init => RecvInv
  BY RecvInit
<1>2. RecvInv /\ [T!Next]_(T!vars) => RecvInv'
  BY RecvStep
<1>3. RecvInv => KeepsAcked
  BY RecvKeeps
<1> QED BY <1>1, <1>2, <1>3, PTL DEF T!Spec

-----------------------------------------------------------------------------
(* TcpRead                                                                 *)

Lines == [conn : 1 .. MaxConns, of : Callers, n : 1 .. MaxReads]

\* The caller and the number of a line that was written.
LEMMA LineFields ==
  ASSUME NEW s \in Seq(Lines)
  PROVE  \A i \in 1 .. Len(s) : s[i].of \in Callers /\ s[i].n \in 1 .. MaxReads
<1>1. \A w \in Lines : w.of \in Callers /\ w.n \in 1 .. MaxReads
  BY DEF Lines
<1>2. \A i \in 1 .. Len(s) : s[i] \in Lines
  OBVIOUS
<1> QED BY <1>1, <1>2

\* The callers in a set are finitely many.
LEMMA CallersFinite ==
  ASSUME NEW D \in SUBSET Callers
  PROVE  /\ IsFiniteSet(D) /\ Cardinality(D) \in Nat
         /\ \A E \in SUBSET D : Cardinality(E) <= Cardinality(D)
         /\ \A c \in D : Cardinality(D \ {c}) = Cardinality(D) - 1
<1>1. IsFiniteSet(D)
  BY NetAssumption, FS_Subset
<1>2. Cardinality(D) \in Nat
  BY <1>1, FS_CardinalityType
<1>3. \A E \in SUBSET D : Cardinality(E) <= Cardinality(D)
  BY <1>1, FS_Subset
<1>4. ASSUME NEW c \in D PROVE Cardinality(D \ {c}) = Cardinality(D) - 1
  BY <1>1, FS_RemoveElement
<1> QED BY <1>1, <1>2, <1>3, <1>4

\* At first there is nothing.
LEMMA ReadInit == ASSUME S!Init PROVE ReadInv
<1>1. S!TypeOK
  <2>1. << >> \in Seq(Lines)
    OBVIOUS
  <2>2. /\ rpc \in [Callers -> {"idle", "test", "dial", "write"}]
        /\ reads \in [Callers -> 0 .. MaxReads]
    BY NetAssumption DEF S!Init
  <2>3. syncConn \in 0 .. MaxConns /\ made \in 0 .. MaxConns /\ broken \subseteq 1 .. made
    BY NetAssumption DEF S!Init
  <2> QED BY <2>1, <2>2, <2>3 DEF S!Init, S!TypeOK, Lines
<1>2. WritesReturned
  <2>1. Len(written) = 0
    BY DEF S!Init
  <2> QED BY <2>1 DEF S!Init, WritesReturned, Returned
<1>3. Dials
  <2>1. Dialing = {} /\ Called \in SUBSET Callers /\ made = 0
    BY DEF Dialing, Called, S!Init
  <2>2. Cardinality(Dialing) = 0
    BY <2>1, FS_EmptySet
  <2>3. Cardinality(Called) \in Nat
    BY <2>1, CallersFinite
  <2>4. made + Cardinality(Dialing) <= Cardinality(Called)
    BY <2>1, <2>2, <2>3
  <2> QED BY <2>4 DEF S!Init, Dials
<1> QED BY <1>1, <1>2, <1>3 DEF ReadInv

\* The invariant is stronger than the property.
LEMMA ReadKeeps == ASSUME ReadInv PROVE ReadsWritten
<1>1. written \in Seq(Lines) /\ DOMAIN written = 1 .. Len(written)
  BY DEF ReadInv, S!TypeOK, Lines
<1>2. S!Range(written) = {written[i] : i \in 1 .. Len(written)}
  BY <1>1 DEF S!Range
<1>3. S!ReturnedWritten
  <2>1. \A i \in 1 .. Len(written) : Returned(written[i].of, written[i].n)
    BY DEF ReadInv, WritesReturned
  <2>2. ASSUME NEW c \in Callers, NEW n \in 1 .. MaxReads
        PROVE  (\E w \in S!Range(written) : w.of = c /\ w.n = n) <=> Returned(c, n)
    BY <1>2, <2>1 DEF ReadInv, WritesReturned
  <2>3. \A i, j \in DOMAIN written :
          i < j /\ written[i].of = written[j].of => written[i].n < written[j].n
    BY <1>1 DEF ReadInv, WritesReturned
  <2> QED BY <2>2, <2>3 DEF S!ReturnedWritten, Returned
<1>4. S!DialsBounded
  <2>1. Dialing \in SUBSET Callers /\ Called \in SUBSET Callers
    BY DEF Dialing, Called
  <2>2. Cardinality(Dialing) \in Nat /\ Cardinality(Called) \in Nat
    BY <2>1, CallersFinite
  <2>3. made \in Nat /\ made + Cardinality(Dialing) <= Cardinality(Called)
    BY NetAssumption DEF ReadInv, S!TypeOK, Dials
  <2>4. made <= Cardinality(Called)
    BY <2>2, <2>3
  <2> QED BY <2>4 DEF Called, S!DialsBounded, S!Cardinality, Cardinality
<1> QED BY <1>3, <1>4 DEF ReadInv, ReadsWritten, S!ReadsWritten

\* What a step of a caller that is not a write does to the lines: nothing, as
\* it starts no call and ends none.
LEMMA WritesRest ==
  ASSUME ReadInv, written' = written,
         \A c \in Callers, n \in 1 .. MaxReads : Returned(c, n)' <=> Returned(c, n)
  PROVE  WritesReturned'
<1>1. written \in Seq(Lines)
  BY DEF ReadInv, S!TypeOK, Lines
<1>2. \A i \in 1 .. Len(written) : written[i].of \in Callers /\ written[i].n \in 1 .. MaxReads
  BY <1>1, LineFields
<1> QED BY <1>2 DEF ReadInv, WritesReturned

\* The callers that dial, or were called, after a step of c.
LEMMA DialsRest ==
  ASSUME ReadInv, made' = made, syncConn' = syncConn, S!TypeOK',
         Dialing' \subseteq Dialing \/ made = 0,
         Called \subseteq Called',
         \A c \in Callers : rpc'[c] # "idle" => reads'[c] >= 1,
         \A c \in Callers : rpc'[c] = "write" => made >= 1
  PROVE  Dials'
<1>1. /\ Dialing \in SUBSET Callers /\ Dialing' \in SUBSET Callers
      /\ Called \in SUBSET Callers /\ Called' \in SUBSET Callers
  BY DEF Dialing, Called
<1>2. /\ Cardinality(Dialing) \in Nat /\ Cardinality(Dialing') \in Nat
      /\ Cardinality(Called) \in Nat /\ Cardinality(Called') \in Nat
      /\ Cardinality(Called) <= Cardinality(Called')
  BY <1>1, CallersFinite
<1>3. made \in Nat /\ made + Cardinality(Dialing) <= Cardinality(Called)
  BY NetAssumption DEF ReadInv, S!TypeOK, Dials
<1>4. made + Cardinality(Dialing') <= Cardinality(Called')
  <2>1. CASE Dialing' \subseteq Dialing
    <3>1. Cardinality(Dialing') <= Cardinality(Dialing)
      BY <1>1, <2>1, CallersFinite
    <3> QED BY <1>2, <1>3, <3>1
  <2>2. CASE made = 0
    <3>1. Dialing' \subseteq Called'
      <4>1. \A c \in Callers : reads'[c] \in Int
        BY DEF S!TypeOK
      <4>2. \A c \in Callers : rpc'[c] = "dial" => reads'[c] > 0
        BY <4>1
      <4> QED BY <4>2 DEF Dialing, Called
    <3>2. Cardinality(Dialing') <= Cardinality(Called')
      BY <1>1, <3>1, CallersFinite
    <3> QED BY <1>2, <2>2, <3>2
  <2> QED BY <2>1, <2>2
<1> QED BY <1>4 DEF ReadInv, Dials

\* Each step of the logger preserves the invariant.
LEMMA ReadStep == ASSUME ReadInv, [S!Next]_(S!vars) PROVE ReadInv'
<1>0. /\ rpc \in [Callers -> {"idle", "test", "dial", "write"}]
      /\ reads \in [Callers -> 0 .. MaxReads]
      /\ made \in 0 .. MaxConns /\ syncConn = made /\ broken \subseteq 1 .. made
      /\ \A c \in Callers : rpc[c] # "idle" => reads[c] >= 1
      /\ \A c \in Callers : rpc[c] = "write" => made >= 1
  BY DEF ReadInv, S!TypeOK, Dials
<1>1. ASSUME NEW c \in Callers, S!Read(c) PROVE ReadInv'
  <2>1. /\ rpc[c] = "idle" /\ reads[c] < MaxReads
        /\ reads' = [reads EXCEPT ![c] = @ + 1] /\ rpc' = [rpc EXCEPT ![c] = "test"]
        /\ UNCHANGED <<syncConn, made, broken, written>>
    BY <1>1 DEF S!Read
  <2>2. reads' \in [Callers -> 0 .. MaxReads]
    BY <1>0, <2>1, NetAssumption
  <2>3. S!TypeOK'
    BY <1>0, <2>1, <2>2 DEF ReadInv, S!TypeOK
  <2>4. ASSUME NEW d \in Callers, NEW n \in 1 .. MaxReads
        PROVE  Returned(d, n)' <=> Returned(d, n)
    BY <1>0, <2>1 DEF Returned
  <2>5. WritesReturned'
    BY <2>1, <2>4, WritesRest
  <2>6. Dialing' \subseteq Dialing /\ Called \subseteq Called'
    BY <1>0, <2>1 DEF Dialing, Called
  <2>7. Dials'
    BY <1>0, <2>1, <2>3, <2>6, DialsRest
  <2> QED BY <2>3, <2>5, <2>7 DEF ReadInv
<1>2. ASSUME NEW c \in Callers, S!Test(c) \/ S!DialFails(c) \/ S!WriteFails(c)
      PROVE ReadInv'
  <2>1. /\ rpc[c] # "idle"
        /\ \E p \in {"test", "dial", "write"} :
             /\ rpc' = [rpc EXCEPT ![c] = p]
             /\ p = "dial" => made = 0
             /\ p = "write" => made >= 1
        /\ UNCHANGED <<reads, syncConn, made, broken, written>>
    BY <1>0, <1>2 DEF S!Test, S!DialFails, S!WriteFails, S!Retries
  <2>3. S!TypeOK'
    BY <1>0, <2>1 DEF ReadInv, S!TypeOK
  <2>4. ASSUME NEW d \in Callers, NEW n \in 1 .. MaxReads
        PROVE  Returned(d, n)' <=> Returned(d, n)
    BY <1>0, <2>1 DEF Returned
  <2>5. WritesReturned'
    BY <2>1, <2>4, WritesRest
  <2>6. (Dialing' \subseteq Dialing \/ made = 0) /\ Called \subseteq Called'
    BY <1>0, <2>1 DEF Dialing, Called
  <2>7. Dials'
    BY <1>0, <2>1, <2>3, <2>6, DialsRest
  <2> QED BY <2>3, <2>5, <2>7 DEF ReadInv
<1>3. ASSUME NEW c \in Callers, S!Dial(c) PROVE ReadInv'
  <2>1. /\ rpc[c] = "dial" /\ made < MaxConns /\ made' = made + 1 /\ syncConn' = made + 1
        /\ rpc' = [rpc EXCEPT ![c] = "test"]
        /\ UNCHANGED <<reads, broken, written>>
    BY <1>3 DEF S!Dial, S!Keeps
  <2>2. made' \in 0 .. MaxConns /\ syncConn' \in 0 .. MaxConns /\ broken' \subseteq 1 .. made'
    BY <1>0, <2>1, NetAssumption
  <2>3. S!TypeOK'
    BY <1>0, <2>1, <2>2 DEF ReadInv, S!TypeOK
  <2>4. ASSUME NEW d \in Callers, NEW n \in 1 .. MaxReads
        PROVE  Returned(d, n)' <=> Returned(d, n)
    BY <1>0, <2>1 DEF Returned
  <2>5. WritesReturned'
    BY <2>1, <2>4, WritesRest
  <2>6. Dialing' = Dialing \ {c} /\ c \in Dialing /\ Called' = Called
    BY <1>0, <2>1 DEF Dialing, Called
  <2>7. /\ Cardinality(Dialing') = Cardinality(Dialing) - 1
        /\ Cardinality(Dialing) \in Nat /\ Cardinality(Called) \in Nat
    <3>1. Dialing \in SUBSET Callers /\ Called \in SUBSET Callers
      BY DEF Dialing, Called
    <3> QED BY <2>6, <3>1, CallersFinite
  <2>8. made' + Cardinality(Dialing') <= Cardinality(Called')
    <3>1. made + Cardinality(Dialing) <= Cardinality(Called)
      BY DEF ReadInv, Dials
    <3>2. made' + Cardinality(Dialing') = made + Cardinality(Dialing)
      BY <1>0, <2>1, <2>7
    <3> QED BY <2>6, <3>1, <3>2
  <2>9. Dials'
    BY <1>0, <2>1, <2>8 DEF Dials
  <2> QED BY <2>3, <2>5, <2>9 DEF ReadInv
<1>4. ASSUME NEW c \in Callers, S!Write(c) PROVE ReadInv'
  <2> DEFINE x == [conn |-> syncConn, of |-> c, n |-> reads[c]]
  <2>1. /\ rpc[c] = "write" /\ written' = Append(written, x)
        /\ rpc' = [rpc EXCEPT ![c] = "idle"]
        /\ UNCHANGED <<reads, syncConn, made, broken>>
    BY <1>4 DEF S!Write
  <2>2. x \in Lines /\ written \in Seq(Lines) /\ x.of = c /\ x.n = reads[c]
    <3>1. syncConn \in 1 .. MaxConns /\ reads[c] \in 1 .. MaxReads
      BY <1>0, <2>1, NetAssumption
    <3> QED BY <3>1 DEF ReadInv, S!TypeOK, Lines
  <2> HIDE DEF x
  <2> DEFINE l == Len(written)
  <2>3. /\ written' \in Seq(Lines)
        /\ l \in Nat /\ Len(written') = l + 1 /\ written'[l + 1] = x
        /\ \A i \in 1 .. l : written'[i] = written[i]
        /\ \A i \in 1 .. l + 1 : i \in 1 .. l \/ i = l + 1
        /\ \A i \in 1 .. l : i \in 1 .. l + 1 /\ i < l + 1
    BY <2>1, <2>2
  <2>4. S!TypeOK'
    BY <1>0, <2>1, <2>3 DEF ReadInv, S!TypeOK, Lines
  <2>5. ASSUME NEW d \in Callers, NEW n \in 1 .. MaxReads
        PROVE  Returned(d, n)' <=> Returned(d, n) \/ (d = c /\ n = reads[c])
    BY <1>0, <2>1 DEF Returned
  <2>6. \A i \in 1 .. l : /\ written[i].of \in Callers /\ written[i].n \in 1 .. MaxReads
                          /\ Returned(written[i].of, written[i].n)
    BY <2>2, LineFields DEF ReadInv, WritesReturned
  <2>7. WritesReturned'
    <3>1. ASSUME NEW i \in 1 .. l + 1, NEW j \in 1 .. l + 1,
                 i < j, written'[i].of = written'[j].of
          PROVE  written'[i].n < written'[j].n
      <4>1. i \in 1 .. l
        BY <2>3, <3>1
      <4>2. CASE j \in 1 .. l
        BY <2>3, <3>1, <4>1, <4>2 DEF ReadInv, WritesReturned
      <4>3. CASE j = l + 1
        <5>1. written[i].of = c /\ Returned(c, written[i].n)
          BY <2>2, <2>3, <2>6, <3>1, <4>1, <4>3
        <5>2. written[i].n < reads[c]
          BY <1>0, <2>1, <5>1 DEF Returned
        <5> QED BY <2>2, <2>3, <4>1, <4>3, <5>2
      <4> QED BY <2>3, <4>2, <4>3
    <3>2. ASSUME NEW i \in 1 .. l + 1 PROVE Returned(written[i].of, written[i].n)'
      <4>1. CASE i \in 1 .. l
        BY <2>3, <2>5, <2>6, <4>1
      <4>2. CASE i = l + 1
        BY <1>0, <2>1, <2>2, <2>3, <4>2 DEF Returned
      <4> QED BY <2>3, <4>1, <4>2
    <3>3. ASSUME NEW d \in Callers, NEW n \in 1 .. MaxReads, Returned(d, n)'
          PROVE  \E i \in 1 .. l + 1 : written'[i].of = d /\ written'[i].n = n
      <4>1. CASE d = c /\ n = reads[c]
        BY <2>2, <2>3, <4>1
      <4>2. CASE Returned(d, n)
        <5>1. PICK i \in 1 .. l : written[i].of = d /\ written[i].n = n
          BY <4>2 DEF ReadInv, WritesReturned
        <5> QED BY <2>3, <5>1
      <4> QED BY <2>5, <3>3, <4>1, <4>2
    <3> QED BY <2>3, <3>1, <3>2, <3>3 DEF WritesReturned
  <2>8. Dialing' \subseteq Dialing /\ Called \subseteq Called'
    BY <1>0, <2>1 DEF Dialing, Called
  <2>9. Dials'
    BY <1>0, <2>1, <2>4, <2>8, DialsRest
  <2> QED BY <2>4, <2>7, <2>9 DEF ReadInv
<1>5. ASSUME NEW k \in 1 .. MaxConns, S!Break(k) PROVE ReadInv'
  <2>1. /\ k <= made /\ broken' = broken \cup {k}
        /\ UNCHANGED <<rpc, reads, syncConn, made, written>>
    BY <1>5 DEF S!Break
  <2>2. broken' \subseteq 1 .. made'
    BY <1>0, <2>1
  <2>3. S!TypeOK'
    BY <2>1, <2>2 DEF ReadInv, S!TypeOK
  <2>4. WritesReturned'
    BY <2>1, WritesRest DEF Returned
  <2>5. Dials'
    BY <2>1 DEF ReadInv, Dials, Dialing, Called
  <2> QED BY <2>3, <2>4, <2>5 DEF ReadInv
<1>6. ASSUME UNCHANGED S!vars PROVE ReadInv'
  BY <1>6 DEF S!vars, ReadInv, S!TypeOK, WritesReturned, Returned, Dials, Dialing, Called
<1> QED
  BY <1>1, <1>2, <1>3, <1>4, <1>5, <1>6 DEF S!Next, S!Step

\* However the callers race to the first dial and whichever connections break, a
\* Read that returned has written its line once and in order, and there are at
\* most as many connections as callers (tcplog.go, Read).
THEOREM ReadWritesLines == S!Spec => []ReadsWritten
<1>1. S!Init => ReadInv
  BY ReadInit
<1>2. ReadInv /\ [S!Next]_(S!vars) => ReadInv'
  BY ReadStep
<1>3. ReadInv => ReadsWritten
  BY ReadKeeps
<1> QED BY <1>1, <1>2, <1>3, PTL DEF S!Spec

-----------------------------------------------------------------------------
(* Pipeline                                                                *)

Places == {"none", "made", "input", "listen", "assign", "accept", "spin", "latch",
           "ended"}

\* At first no goroutine was made.
LEMMA PipeInit == ASSUME P!Init PROVE PipeInv
<1>0. Sources \in Nat /\ 0 \notin P!Gs
  BY NetAssumption DEF P!Gs
<1>1. P!TypeOK
  <2>1. closed \in BOOLEAN /\ crashed \in BOOLEAN
    BY DEF P!Init
  <2>2. loop \in 0 .. Sources /\ gate \in 1 .. Sources + 1 /\ outer \in 0 .. Sources
    BY <1>0 DEF P!Init
  <2>3. src \in [P!Gs -> 0 .. Sources] /\ {bound, server, shutListener} \subseteq 0 .. Sources
    BY <1>0 DEF P!Init
  <2> QED BY <2>1, <2>2, <2>3 DEF P!Init, P!TypeOK
<1>2. Listeners
  BY <1>0 DEF P!Init, Listeners
<1>3. Latches
  BY <1>0 DEF P!Init, Latches, P!Gs
<1> QED BY <1>1, <1>2, <1>3 DEF PipeInv

\* The invariant is stronger than the property.
LEMMA PipeKeeps == ASSUME PipeInv PROVE PipelineRuns
<1>0. /\ Sources \in Nat /\ P!Gs = 1 .. Sources /\ err \subseteq P!Gs
      /\ {bound, server} \subseteq 0 .. Sources /\ gate \in 1 .. Sources + 1
      /\ outer \in 0 .. Sources
  BY NetAssumption DEF PipeInv, P!TypeOK, P!Gs
<1>1. P!SourcesStart
  <2>1. bound # 0 => bound \in P!Gs
    BY <1>0
  <2> QED BY <2>1 DEF P!SourcesStart, PipeInv, Latches, Listeners
<1>2. P!StartWaits
  <2> SUFFICES ASSUME gate > Sources
               PROVE  /\ \A g \in P!Gs : gpc[g] = "ended" /\ g # server /\ g # bound
                      /\ outer = IF err = {} THEN 0
                                 ELSE CHOOSE g \in err : \A h \in err : h <= g
    BY DEF P!StartWaits
  <2>1. \A g \in P!Gs : g < gate
    BY <1>0
  <2>2. \A g \in P!Gs : gpc[g] = "ended"
    BY <2>1 DEF PipeInv, Latches
  <2>3. \A g \in P!Gs : g # server /\ g # bound
    BY <2>2 DEF PipeInv, Listeners, P!Listening
  <2>4. CASE err = {}
    BY <2>2, <2>3, <2>4 DEF PipeInv, Latches
  <2>5. CASE err # {}
    <3>1. \A g \in err : g <= outer /\ g >= 1
      BY <1>0, <2>1 DEF PipeInv, Latches
    <3>2. outer \in err
      <4>0. PICK g \in err : g \in 1 .. Sources
        BY <1>0, <2>5
      <4>1. outer # 0
        BY <1>0, <3>1, <4>0
      <4> QED BY <4>1 DEF PipeInv, Latches
    <3>3. \A g \in err : (\A h \in err : h <= g) => g = outer
      BY <1>0, <3>1, <3>2
    <3>4. outer = CHOOSE g \in err : \A h \in err : h <= g
      BY <3>1, <3>2, <3>3
    <3> QED BY <2>2, <2>3, <2>5, <3>4
  <2> QED BY <2>4, <2>5
<1> QED BY <1>1, <1>2 DEF PipeInv, PipelineRuns, P!PipelineRuns

\* Each step of the pipeline preserves the invariant.
LEMMA PipeStep == ASSUME PipeInv, [P!Next]_(P!vars) PROVE PipeInv'
<1>0. /\ Sources \in Nat /\ P!Gs = 1 .. Sources /\ 0 \notin P!Gs /\ Local \in P!Gs
      /\ loop \in 0 .. Sources /\ gate \in 1 .. Sources + 1 /\ outer \in 0 .. Sources
      /\ gpc \in [P!Gs -> Places] /\ src \in [P!Gs -> 0 .. Sources]
      /\ err \subseteq P!Gs /\ dialed \subseteq P!Gs
      /\ {bound, server, shutListener} \subseteq 0 .. Sources
      /\ closed \in BOOLEAN /\ crashed \in BOOLEAN
  BY NetAssumption DEF PipeInv, P!TypeOK, P!Gs, Places
<1>l. Listeners /\ Latches
  BY DEF PipeInv
<1>1. ASSUME P!Spawn PROVE PipeInv'
  <2>1. /\ loop < Sources /\ loop' = loop + 1 /\ gpc' = [gpc EXCEPT ![loop + 1] = "made"]
        /\ UNCHANGED <<src, err, gate, outer, bound, server, shutListener, closed,
                       dialed, crashed>>
    BY <1>1 DEF P!Spawn
  <2>2. /\ loop' \in 0 .. Sources /\ loop + 1 \in P!Gs /\ gate = 1
        /\ \A g \in P!Gs : g <= loop => g # loop + 1 /\ g <= loop'
    <3>1. gate = 1
      BY <1>0, <1>l, <2>1 DEF Latches
    <3> QED BY <1>0, <2>1, <3>1
  <2>3. gpc[loop + 1] = "none"
    BY <1>0, <1>l, <2>2 DEF Latches
  <2>4. P!TypeOK'
    BY <1>0, <2>1, <2>2 DEF P!TypeOK, Places, P!Gs
  <2>5. Listeners'
    BY <1>0, <1>l, <2>1, <2>3 DEF Listeners, P!Listening, P!Gs
  <2>6. Latches'
    <3>1. \A g \in P!Gs : ~ (g < gate)
      BY <1>0, <2>2
    <3>2. \A g \in P!Gs : gpc'[g] # "none" => g <= loop'
      BY <1>0, <1>l, <2>1, <2>2 DEF Latches
    <3>3. \A g \in err : gpc'[g] \in {"latch", "ended"}
      BY <1>0, <1>l, <2>1, <2>3 DEF Latches
    <3> QED BY <1>l, <2>1, <2>2, <3>1, <3>2, <3>3 DEF Latches, P!Gs
  <2> QED BY <2>4, <2>5, <2>6 DEF PipeInv
<1>2. ASSUME NEW g \in P!Gs, P!Run(g) PROVE PipeInv'
  <2>1. /\ gpc[g] = "made" /\ src' = [src EXCEPT ![g] = loop]
        /\ \E p \in {"listen", "input"} : gpc' = [gpc EXCEPT ![g] = p]
        /\ crashed' \in BOOLEAN
        /\ UNCHANGED <<loop, err, gate, outer, bound, server, shutListener, closed, dialed>>
    BY <1>2 DEF P!Run, P!Captured
  <2>2. g <= loop
    BY <1>l, <2>1 DEF Latches
  <2>3. P!TypeOK'
    BY <1>0, <2>1 DEF P!TypeOK, Places, P!Gs
  <2>4. Listeners'
    BY <1>0, <1>l, <2>1 DEF Listeners, P!Listening, P!Gs
  <2>5. Latches'
    <3>1. \A h \in P!Gs : src'[h] # 0 => src'[h] >= h
      BY <1>0, <1>l, <2>1, <2>2 DEF Latches
    <3>2. \A h \in P!Gs : h < gate => h # g
      BY <1>l, <2>1 DEF Latches
    <3>3. \A h \in P!Gs : h < gate => gpc'[h] = "ended"
      BY <1>0, <1>l, <2>1, <3>2 DEF Latches
    <3> QED BY <1>0, <1>l, <2>1, <2>2, <3>1, <3>3 DEF Latches, P!Gs
  <2> QED BY <2>3, <2>4, <2>5 DEF PipeInv
<1>3. ASSUME NEW g \in P!Gs, P!Listen(g) PROVE PipeInv'
  <2>1. /\ gpc[g] = "listen" /\ gpc' = [gpc EXCEPT ![g] = "assign"] /\ bound' = g
        /\ UNCHANGED <<loop, src, err, gate, outer, server, shutListener, closed, dialed,
                       crashed>>
    BY <1>3 DEF P!Listen
  <2>2. P!TypeOK'
    BY <1>0, <2>1 DEF P!TypeOK, Places, P!Gs
  <2>3. Listeners'
    <3>1. g # server /\ g # shutListener
      BY <1>l, <2>1 DEF Listeners
    <3> QED BY <1>0, <1>l, <2>1, <3>1 DEF Listeners, P!Listening, P!Gs
  <2>4. Latches'
    <3>1. g \notin err /\ ~ (g < gate)
      BY <1>l, <2>1 DEF Latches
    <3> QED BY <1>0, <1>l, <2>1, <3>1 DEF Latches, P!Gs
  <2> QED BY <2>2, <2>3, <2>4 DEF PipeInv
<1>4. ASSUME NEW g \in P!Gs, P!Assign(g) PROVE PipeInv'
  <2>1. /\ gpc[g] = "assign" /\ gpc' = [gpc EXCEPT ![g] = "accept"] /\ server' = g
        /\ UNCHANGED <<loop, src, err, gate, outer, bound, shutListener, closed, dialed,
                       crashed>>
    BY <1>4 DEF P!Assign
  <2>2. P!TypeOK'
    BY <1>0, <2>1 DEF P!TypeOK, Places, P!Gs
  <2>3. Listeners'
    BY <1>0, <1>l, <2>1 DEF Listeners, P!Listening, P!Gs
  <2>4. Latches'
    <3>1. g \notin err /\ ~ (g < gate)
      BY <1>l, <2>1 DEF Latches
    <3> QED BY <1>0, <1>l, <2>1, <3>1 DEF Latches, P!Gs
  <2> QED BY <2>2, <2>3, <2>4 DEF PipeInv
<1>5. ASSUME NEW g \in P!Gs, P!AcceptFails(g) PROVE PipeInv'
  <2>1. /\ gpc[g] = "accept" /\ shutListener = g /\ gpc' = [gpc EXCEPT ![g] = "spin"]
        /\ UNCHANGED <<loop, src, err, gate, outer, bound, server, shutListener, closed,
                       dialed, crashed>>
    BY <1>5 DEF P!AcceptFails, P!Recognised
  <2>2. P!TypeOK'
    BY <1>0, <2>1 DEF P!TypeOK, Places, P!Gs
  <2>3. Listeners'
    BY <1>0, <1>l, <2>1 DEF Listeners, P!Listening, P!Gs
  <2>4. Latches'
    <3>1. g \notin err /\ ~ (g < gate)
      BY <1>l, <2>1 DEF Latches
    <3> QED BY <1>0, <1>l, <2>1, <3>1 DEF Latches, P!Gs
  <2> QED BY <2>2, <2>3, <2>4 DEF PipeInv
<1>6. ASSUME NEW g \in P!Gs, NEW fails \in BOOLEAN, P!Ends(g, fails) PROVE PipeInv'
  <2>1. /\ gpc[g] \in {"input", "listen"} /\ gpc' = [gpc EXCEPT ![g] = "latch"]
        /\ err' \in {err, err \cup {g}}
        /\ UNCHANGED <<loop, src, gate, outer, bound, server, shutListener, closed,
                       dialed, crashed>>
    BY <1>6 DEF P!Ends
  <2>2. P!TypeOK'
    BY <1>0, <2>1 DEF P!TypeOK, Places, P!Gs
  <2>3. Listeners'
    BY <1>0, <1>l, <2>1 DEF Listeners, P!Listening, P!Gs
  <2>4. Latches'
    <3>1. ~ (g < gate)
      BY <1>l, <2>1 DEF Latches
    <3> QED BY <1>0, <1>l, <2>1, <3>1 DEF Latches, P!Gs
  <2> QED BY <2>2, <2>3, <2>4 DEF PipeInv
<1>7. ASSUME P!Gate PROVE PipeInv'
  <2>1. /\ loop = Sources /\ gate <= Sources /\ gpc[gate] = "latch" /\ gate' = gate + 1
        /\ gpc' = [gpc EXCEPT ![gate] = "ended"]
        /\ outer' = IF gate \in err THEN gate ELSE outer
        /\ UNCHANGED <<loop, src, err, bound, server, shutListener, closed, dialed, crashed>>
    BY <1>7 DEF P!Gate, P!NextGate
  <2>2. /\ gate \in P!Gs /\ gate' \in 1 .. Sources + 1 /\ outer' \in 0 .. Sources
        /\ \A g \in P!Gs : g < gate' <=> g < gate \/ g = gate
    BY <1>0, <2>1
  <2>3. P!TypeOK'
    BY <1>0, <2>1, <2>2 DEF P!TypeOK, Places, P!Gs
  <2>4. Listeners'
    BY <1>0, <1>l, <2>1, <2>2 DEF Listeners, P!Listening, P!Gs
  <2>5. Latches'
    <3>1. \A g \in P!Gs : g < gate' => gpc'[g] = "ended"
      BY <1>0, <1>l, <2>1, <2>2 DEF Latches
    <3>2. \A g \in err : g < gate' => g <= outer'
      BY <1>0, <1>l, <2>1, <2>2 DEF Latches
    <3>3. outer' # 0 => outer' \in err /\ outer' < gate'
      BY <1>0, <1>l, <2>1, <2>2 DEF Latches
    <3>4. \A g \in err : gpc'[g] \in {"latch", "ended"}
      BY <1>0, <1>l, <2>1, <2>2 DEF Latches
    <3>5. \A g \in P!Gs : gpc'[g] # "none" => g <= loop'
      BY <1>0, <2>1
    <3> QED BY <1>l, <2>1, <3>1, <3>2, <3>3, <3>4, <3>5 DEF Latches, P!Gs
  <2> QED BY <2>3, <2>4, <2>5 DEF PipeInv
<1>8. ASSUME P!Close PROVE PipeInv'
  <2>1. /\ closed' = TRUE /\ crashed' \in BOOLEAN /\ shutListener' = server
        /\ bound' = (IF server = 0 THEN bound ELSE 0)
        /\ UNCHANGED <<loop, gpc, src, err, gate, outer, server, dialed>>
    BY <1>8 DEF P!Close
  <2>2. P!TypeOK'
    BY <1>0, <2>1 DEF P!TypeOK, Places, P!Gs
  <2>3. Listeners'
    BY <1>0, <1>l, <2>1 DEF Listeners, P!Listening, P!Gs
  <2>4. Latches'
    BY <1>l, <2>1 DEF Latches, P!Gs
  <2> QED BY <2>2, <2>3, <2>4 DEF PipeInv
<1>9. ASSUME UNCHANGED P!vars PROVE PipeInv'
  BY <1>9 DEF P!vars, PipeInv, P!TypeOK, Listeners, P!Listening, Latches, P!Gs
<1> QED
  BY <1>1, <1>2, <1>3, <1>4, <1>5, <1>6, <1>7, <1>8, <1>9 DEF P!Next, P!GStep

\* Each goroutine starts its own source or a later one, the socket's path leads
\* to a listener that accepts, and Start returns when all goroutines have ended,
\* never once a server listens, with the last error (agent/pipeline.go).
THEOREM PipelineStarts == P!Spec => []PipelineRuns
<1>1. P!Init => PipeInv
  BY PipeInit
<1>2. PipeInv /\ [P!Next]_(P!vars) => PipeInv'
  BY PipeStep
<1>3. PipeInv => PipelineRuns
  BY PipeKeeps
<1> QED BY <1>1, <1>2, <1>3, PTL DEF P!Spec

-----------------------------------------------------------------------------
(* Redis                                                                   *)

\* The types of what is on the way.
LEMMA WayTypes ==
  ASSUME R!TypeOK
  PROVE  /\ MaxMsgs \in Nat /\ calls \in 0 .. MaxMsgs /\ data \in 0 .. MaxMsgs
         /\ list \in Seq(0 .. MaxMsgs) /\ recvd \in Seq(1 .. MaxMsgs)
         /\ Len(list) \in Nat /\ Len(recvd) \in Nat
         /\ \A i \in 1 .. Len(list) : list[i] \in 0 .. MaxMsgs
         /\ \A i \in 1 .. Len(recvd) : recvd[i] \in 1 .. MaxMsgs
BY NetAssumption DEF R!TypeOK

\* At first there is nothing.
LEMMA QueueInit == ASSUME R!Init PROVE QueueInv
<1>1. R!TypeOK
  <2>1. << >> \in Seq(0 .. MaxMsgs) /\ << >> \in Seq(1 .. MaxMsgs)
    OBVIOUS
  <2> QED BY <2>1, NetAssumption DEF R!Init, R!TypeOK, R!Ends
<1>2. Len(recvd) = 0 /\ Len(list) = 0 /\ data = 0 /\ calls = 0 /\ caller = "idle"
  BY DEF R!Init
<1>3. PartsOrdered /\ SendsNewest
  BY <1>2 DEF PartsOrdered, SendsNewest
<1>4. Pushing
  BY DEF R!Init, Pushing
<1>5. AllSomewhere
  BY <1>2 DEF AllSomewhere
<1> QED BY <1>1, <1>3, <1>4, <1>5 DEF QueueInv

\* Where the entries of R!Path come from.
LEMMA PathParts ==
  ASSUME R!TypeOK
  PROVE  /\ DOMAIN R!Path = 1 .. Len(R!Path) /\ Len(R!Path) \in Nat
         /\ \A i \in 1 .. Len(R!Path) :
              \/ i \in 1 .. Len(recvd) /\ R!Path[i] = recvd[i]
              \/ i - Len(recvd) \in 1 .. Len(list) /\ R!Path[i] = list[i - Len(recvd)]
              \/ i = Len(recvd) + Len(list) + 1 /\ R!Path[i] = data
         /\ \A i \in 1 .. Len(recvd) : \E k \in 1 .. Len(R!Path) : R!Path[k] = recvd[i]
         /\ \A i \in 1 .. Len(list) : \E k \in 1 .. Len(R!Path) : R!Path[k] = list[i]
         /\ data # 0 => \E k \in 1 .. Len(R!Path) : R!Path[k] = data
<1> DEFINE M == 0 .. MaxMsgs
<1> DEFINE d == IF data = 0 THEN << >> ELSE <<data>>
<1> DEFINE p == recvd \o list
<1> DEFINE u == p \o d
<1> DEFINE a == Len(recvd)
<1> DEFINE b == Len(list)
<1>1. /\ recvd \in Seq(M) /\ list \in Seq(M) /\ d \in Seq(M) /\ a \in Nat /\ b \in Nat
      /\ Len(d) = (IF data = 0 THEN 0 ELSE 1) /\ (data # 0 => d[1] = data)
  <2>1. /\ recvd \in Seq(1 .. MaxMsgs) /\ list \in Seq(M) /\ a \in Nat /\ b \in Nat
        /\ data \in M /\ MaxMsgs \in Nat
    BY WayTypes
  <2>2. recvd \in Seq(M)
    BY <2>1
  <2>3. CASE data = 0
    BY <2>1, <2>2, <2>3
  <2>4. CASE data # 0
    <3>1. <<data>> \in Seq(M) /\ Len(<<data>>) = 1 /\ <<data>>[1] = data
      BY <2>1
    <3> QED BY <2>1, <2>2, <2>4, <3>1
  <2> QED BY <2>3, <2>4
<1> HIDE DEF M, d
<1>2. /\ p \in Seq(M) /\ Len(p) = a + b
      /\ \A i \in 1 .. a : p[i] = recvd[i]
      /\ \A i \in 1 .. b : p[a + i] = list[i]
  BY <1>1, BehindOf
<1> HIDE DEF p
<1>3. /\ u \in Seq(M) /\ Len(u) = a + b + Len(d)
      /\ \A i \in 1 .. a + b : u[i] = p[i]
      /\ \A i \in 1 .. Len(d) : u[a + b + i] = d[i]
  <2>0. p \in Seq(M) /\ d \in Seq(M)
    BY <1>1, <1>2
  <2>1. /\ u \in Seq(M) /\ Len(u) = Len(p) + Len(d)
        /\ \A i \in 1 .. Len(p) : u[i] = p[i]
        /\ \A i \in 1 .. Len(d) : u[Len(p) + i] = d[i]
    BY ONLY <2>0, BehindOf DEF u
  <2> HIDE DEF u, a, b
  <2> QED BY <1>2, <2>1
<1>4. R!Path = u
  BY DEF R!Path, p, d
<1> HIDE DEF u
<1>5. DOMAIN u = 1 .. Len(u) /\ Len(u) \in Nat
  BY <1>3
<1> HIDE DEF a, b
<1>6. ASSUME NEW i \in 1 .. Len(u)
      PROVE  \/ i \in 1 .. a /\ u[i] = recvd[i]
             \/ i - a \in 1 .. b /\ u[i] = list[i - a]
             \/ i = a + b + 1 /\ u[i] = data
  <2>1. CASE i <= a
    <3>1. i \in 1 .. a /\ i \in 1 .. a + b
      BY <1>1, <2>1
    <3> QED BY <1>2, <1>3, <3>1
  <2>2. CASE i > a /\ i <= a + b
    <3>1. i - a \in 1 .. b /\ a + (i - a) = i /\ i \in 1 .. a + b
      BY <1>1, <2>2
    <3> QED BY <1>2, <1>3, <3>1
  <2>3. CASE i > a + b
    <3>1. data # 0 /\ i = a + b + 1 /\ 1 \in 1 .. Len(d)
      BY <1>1, <1>3, <2>3
    <3> QED BY <1>1, <1>3, <3>1
  <2> QED BY <1>1, <1>3, <2>1, <2>2, <2>3
<1>7. ASSUME NEW i \in 1 .. a PROVE \E k \in 1 .. Len(u) : u[k] = recvd[i]
  <2>1. i \in 1 .. Len(u) /\ i \in 1 .. a + b
    BY <1>1, <1>3
  <2> QED BY <1>2, <1>3, <2>1
<1>8. ASSUME NEW i \in 1 .. b PROVE \E k \in 1 .. Len(u) : u[k] = list[i]
  <2>1. a + i \in 1 .. Len(u) /\ a + i \in 1 .. a + b
    BY <1>1, <1>3
  <2> QED BY <1>2, <1>3, <2>1
<1>9. ASSUME data # 0 PROVE \E k \in 1 .. Len(u) : u[k] = data
  <2>1. a + b + 1 \in 1 .. Len(u) /\ 1 \in 1 .. Len(d)
    BY <1>1, <1>3, <1>9
  <2> QED BY <1>1, <1>3, <1>9, <2>1
<1> QED BY <1>4, <1>5, <1>6, <1>7, <1>8, <1>9 DEF a, b

\* The invariant is stronger than the property.
LEMMA QueueKeeps == ASSUME QueueInv PROVE Queues
<1>1. R!TypeOK
  BY DEF QueueInv
<1>2. R!OrderKept
  <2> DEFINE u == R!Path
  <2> DEFINE a == Len(recvd)
  <2> DEFINE b == Len(list)
  <2>1. /\ a \in Nat /\ b \in Nat /\ DOMAIN u = 1 .. Len(u)
        /\ \A i \in 1 .. Len(u) :
             \/ i \in 1 .. a /\ u[i] = recvd[i]
             \/ i - a \in 1 .. b /\ u[i] = list[i - a]
             \/ i = a + b + 1 /\ u[i] = data
    BY <1>1, WayTypes, PathParts
  <2>2. /\ \A i, j \in 1 .. a : i < j => Before(recvd[i], recvd[j])
        /\ \A i, j \in 1 .. b : i < j => Before(list[i], list[j])
        /\ \A i \in 1 .. a, j \in 1 .. b : Before(recvd[i], list[j])
        /\ \A i \in 1 .. a : Before(recvd[i], data)
        /\ \A i \in 1 .. b : Before(list[i], data)
    BY DEF QueueInv, PartsOrdered
  <2> HIDE DEF u, a, b
  <2>3. ASSUME NEW i \in 1 .. Len(u), NEW j \in 1 .. Len(u), i < j
        PROVE  Before(u[i], u[j])
    <3>1. CASE i \in 1 .. a /\ u[i] = recvd[i]
      <4>1. CASE j \in 1 .. a /\ u[j] = recvd[j]
        BY <2>2, <2>3, <3>1, <4>1
      <4>2. CASE j - a \in 1 .. b /\ u[j] = list[j - a]
        BY <2>2, <3>1, <4>2
      <4>3. CASE u[j] = data
        BY <2>2, <3>1, <4>3
      <4> QED BY <2>1, <4>1, <4>2, <4>3
    <3>2. CASE i - a \in 1 .. b /\ u[i] = list[i - a]
      <4>1. ~ (j \in 1 .. a) /\ i - a < j - a
        BY <2>1, <2>3, <3>2
      <4>2. CASE j - a \in 1 .. b /\ u[j] = list[j - a]
        BY <2>2, <3>2, <4>1, <4>2
      <4>3. CASE u[j] = data
        BY <2>2, <3>2, <4>3
      <4> QED BY <2>1, <4>1, <4>2, <4>3
    <3>3. CASE i = a + b + 1 /\ u[i] = data
      <4>1. ~ (j \in 1 .. a) /\ ~ (j - a \in 1 .. b) /\ j # a + b + 1
        BY <2>1, <2>3, <3>3
      <4> QED BY <2>1, <4>1
    <3> QED BY <2>1, <3>1, <3>2, <3>3
  <2> QED BY <2>1, <2>3 DEF R!OrderKept, Before, R!Foreign, u
<1>3. R!NoneForgotten
  <2> DEFINE last == IF caller = "sending" \/ redisDead THEN calls - 1 ELSE calls
  <2> SUFFICES ASSUME feeder # "nil", NEW m \in 1 .. last, ~redisDead
               PROVE  m \in R!Range(R!Path) \cup dropped \cup popped
    BY DEF R!NoneForgotten
  <2>1. m \in 1 .. calls /\ m # 0 /\ ~ (m = calls /\ caller = "sending")
    BY <1>1, WayTypes
  <2>2. Somewhere(m)
    BY <2>1 DEF QueueInv, AllSomewhere
  <2>3. (\E k \in 1 .. Len(R!Path) : R!Path[k] = m) \/ m \in dropped \/ m \in popped
    BY <1>1, <2>1, <2>2, PathParts DEF Somewhere
  <2>4. DOMAIN R!Path = 1 .. Len(R!Path)
    BY <1>1, PathParts
  <2> QED BY <2>3, <2>4 DEF R!Range
<1> QED BY <1>1, <1>2, <1>3 DEF Queues, R!Queues

\* Steps that move no message.
LEMMA QueueRests ==
  ASSUME QueueInv, R!TypeOK', Pushing',
         UNCHANGED <<recvd, list, data, dropped, popped, calls, twice, caller>>,
         feeder' # "nil" /\ ~redisDead' => feeder # "nil" /\ ~redisDead
  PROVE  QueueInv'
<1>1. PartsOrdered' /\ SendsNewest'
  BY DEF QueueInv, PartsOrdered, SendsNewest, Before
<1>2. AllSomewhere'
  BY DEF QueueInv, AllSomewhere, Somewhere
<1> QED BY <1>1, <1>2 DEF QueueInv

\* Steps in which process lets go of its message: it is given up.
LEMMA QueueDrops ==
  ASSUME QueueInv, R!TypeOK', Pushing', data' = 0, dropped' = dropped \cup {data},
         UNCHANGED <<recvd, list, popped, calls, twice, caller, feeder, redisDead>>
  PROVE  QueueInv'
<1>1. calls \in Nat /\ data \in Nat
  BY NetAssumption DEF QueueInv, R!TypeOK
<1>2. PartsOrdered'
  BY DEF QueueInv, PartsOrdered, Before
<1>3. SendsNewest'
  BY <1>1 DEF QueueInv, SendsNewest
<1>4. AllSomewhere'
  BY DEF QueueInv, AllSomewhere, Somewhere
<1> QED BY <1>2, <1>3, <1>4 DEF QueueInv

\* A caller of Receive begins to send, or dies on a closed feeder.
LEMMA QueueReceives == ASSUME QueueInv, ~redisDead, R!Receive PROVE QueueInv'
<1>1. /\ caller = "idle" /\ calls < MaxMsgs /\ calls' = calls + 1
      /\ caller' = "sending" \/ (caller' = caller /\ redisDead' = TRUE)
      /\ UNCHANGED <<feeder, opc, data, oconn, twice, dropped, R!inVars, list, breaks>>
  BY DEF R!Receive
<1>2. UNCHANGED <<ipc, active, iconn, overtaken, recvd, popped>>
  BY <1>1 DEF R!inVars
<1>3. R!TypeOK /\ MaxMsgs \in Nat /\ calls \in 0 .. MaxMsgs
  BY WayTypes DEF QueueInv
<1>4. calls' \in 0 .. MaxMsgs /\ calls + 1 \in Int /\ 1 .. calls + 1 = (1 .. calls) \cup {calls + 1}
  BY <1>1, <1>3
<1>5. R!TypeOK'
  BY <1>1, <1>2, <1>3, <1>4 DEF R!TypeOK
<1>6. PartsOrdered' /\ Pushing'
  BY <1>1, <1>2 DEF QueueInv, PartsOrdered, Before, Pushing
<1>7. SendsNewest'
  <2>1. \A x \in Int : x <= calls => x <= calls + 1 /\ x < calls + 1
    BY <1>3
  <2>2. /\ data \in Int
        /\ \A i \in 1 .. Len(recvd) : recvd[i] \in Int
        /\ \A i \in 1 .. Len(list) : list[i] \in Int
    BY <1>3, WayTypes
  <2> QED BY <1>1, <1>2, <2>1, <2>2 DEF QueueInv, SendsNewest
<1>8. AllSomewhere'
  BY <1>1, <1>2, <1>4 DEF QueueInv, AllSomewhere, Somewhere
<1> QED BY <1>5, <1>6, <1>7, <1>8 DEF QueueInv

\* process takes the message, which is newer than all that was sent.
LEMMA QueueTakes == ASSUME QueueInv, R!Take PROVE QueueInv'
<1>1. /\ opc = "take" /\ caller = "sending" /\ feeder = "open"
      /\ data' = calls /\ caller' = "idle" /\ opc' = "push"
      /\ UNCHANGED <<calls, feeder, oconn, twice, dropped, redisDead, R!inVars, list, breaks>>
  BY DEF R!Take
<1>2. UNCHANGED <<ipc, active, iconn, overtaken, recvd, popped>>
  BY <1>1 DEF R!inVars
<1>3. R!TypeOK /\ MaxMsgs \in Nat /\ calls \in 0 .. MaxMsgs /\ data \in 0 .. MaxMsgs
  BY WayTypes DEF QueueInv
<1>4. /\ \A i \in 1 .. Len(recvd) : recvd[i] < calls
      /\ \A i \in 1 .. Len(list) : list[i] < calls
      /\ data < calls /\ data = 0
  BY <1>1 DEF QueueInv, SendsNewest, Pushing
<1>5. R!TypeOK'
  BY <1>1, <1>2, <1>3 DEF R!TypeOK
<1>6. PartsOrdered'
  BY <1>1, <1>2, <1>4 DEF QueueInv, PartsOrdered, Before
<1>7. SendsNewest'
  BY <1>1, <1>2, <1>3 DEF QueueInv, SendsNewest
<1>8. Pushing'
  BY <1>1, <1>3, <1>4 DEF Pushing
<1>9. AllSomewhere'
  <2>1. \A m \in 1 .. calls : m # 0
    BY <1>3
  <2> QED BY <1>1, <1>2, <1>4, <2>1 DEF QueueInv, AllSomewhere, Somewhere
<1> QED BY <1>5, <1>6, <1>7, <1>8, <1>9 DEF QueueInv

\* A message at the end of the list that may be there.
LEMMA ListGrows ==
  ASSUME QueueInv, R!TypeOK', NEW x \in 0 .. MaxMsgs, list' = Append(list, x),
         UNCHANGED <<recvd, calls, caller>>, twice \subseteq twice',
         \A i \in 1 .. Len(recvd) : Before(recvd[i], x),
         \A i \in 1 .. Len(list) : Before(list[i], x),
         x <= calls, caller = "sending" => x < calls,
         data' = 0 \/ (data' = data /\ (x # 0 => data \in twice' /\ x = data))
  PROVE  PartsOrdered' /\ SendsNewest'
<1> DEFINE l == Len(list)
<1>1. list \in Seq(0 .. MaxMsgs) /\ R!TypeOK
  BY WayTypes DEF QueueInv
<1>2. /\ l \in Nat /\ Len(list') = l + 1 /\ list'[l + 1] = x
      /\ \A i \in 1 .. l : list'[i] = list[i]
      /\ \A i \in 1 .. l + 1 : i \in 1 .. l \/ i = l + 1
      /\ \A i \in 1 .. l : i \in 1 .. l + 1 /\ ~ (l + 1 < i)
      /\ ~ (l + 1 < l + 1)
  BY <1>1
<1> HIDE DEF l
<1>3. SendsNewest'
  <2>1. data \in Nat /\ calls \in Nat
    BY NetAssumption DEF QueueInv, R!TypeOK
  <2>2. data' <= calls /\ (caller = "sending" => data' < calls)
    BY <2>1 DEF QueueInv, SendsNewest
  <2>3. \A i \in 1 .. l + 1 : list'[i] <= calls /\ (caller = "sending" => list'[i] < calls)
    BY <1>2 DEF QueueInv, SendsNewest, l
  <2> QED BY <1>2, <2>2, <2>3 DEF QueueInv, SendsNewest
<1>4. \A y, z : Before(y, z) => 0 \in {y, z} \/ y < z \/ (y = z /\ y \in twice')
  BY DEF Before
<1>5. PartsOrdered'
  <2>1. ASSUME NEW i \in 1 .. l + 1, NEW j \in 1 .. l + 1, i < j
        PROVE  0 \in {list'[i], list'[j]} \/ list'[i] < list'[j]
               \/ (list'[i] = list'[j] /\ list'[i] \in twice')
    <3>1. i \in 1 .. l
      BY <1>2, <2>1
    <3>2. CASE j \in 1 .. l
      <4>1. Before(list[i], list[j])
        BY <2>1, <3>1, <3>2 DEF QueueInv, PartsOrdered, l
      <4> QED BY <1>2, <1>4, <3>1, <3>2, <4>1
    <3>3. CASE j = l + 1
      <4>1. Before(list[i], x)
        BY <3>1 DEF l
      <4> QED BY <1>2, <1>4, <3>1, <3>3, <4>1
    <3> QED BY <1>2, <3>2, <3>3
  <2>2. ASSUME NEW i \in 1 .. Len(recvd), NEW j \in 1 .. l + 1
        PROVE  0 \in {recvd[i], list'[j]} \/ recvd[i] < list'[j]
               \/ (recvd[i] = list'[j] /\ recvd[i] \in twice')
    <3>2. CASE j \in 1 .. l
      <4>1. Before(recvd[i], list[j])
        BY <3>2 DEF QueueInv, PartsOrdered, l
      <4> QED BY <1>2, <1>4, <3>2, <4>1
    <3>3. CASE j = l + 1
      <4>1. Before(recvd[i], x)
        OBVIOUS
      <4> QED BY <1>2, <1>4, <3>3, <4>1
    <3> QED BY <1>2, <3>2, <3>3
  <2>3. ASSUME NEW i \in 1 .. l + 1
        PROVE  0 \in {list'[i], data'} \/ list'[i] < data'
               \/ (list'[i] = data' /\ list'[i] \in twice')
    <3>1. CASE data' = 0
      BY <3>1
    <3>2. CASE data' = data /\ (x # 0 => data \in twice' /\ x = data)
      <4>1. CASE i \in 1 .. l
        <5>1. Before(list[i], data)
          BY <4>1 DEF QueueInv, PartsOrdered, l
        <5> QED BY <1>2, <1>4, <3>2, <4>1, <5>1
      <4>2. CASE i = l + 1
        BY <1>2, <3>2, <4>2
      <4> QED BY <1>2, <4>1, <4>2
    <3> QED BY <3>1, <3>2
  <2>4. ASSUME NEW i \in 1 .. Len(recvd)
        PROVE  0 \in {recvd[i], data'} \/ recvd[i] < data'
               \/ (recvd[i] = data' /\ recvd[i] \in twice')
    <3>1. Before(recvd[i], data)
      BY DEF QueueInv, PartsOrdered
    <3> QED BY <1>4, <3>1
  <2>5. \A i, j \in 1 .. Len(recvd) : i < j =>
          0 \in {recvd[i], recvd[j]} \/ recvd[i] < recvd[j]
               \/ (recvd[i] = recvd[j] /\ recvd[i] \in twice')
    BY <1>4 DEF QueueInv, PartsOrdered
  <2> QED BY <1>2, <2>1, <2>2, <2>3, <2>4, <2>5 DEF PartsOrdered, Before
<1> QED BY <1>3, <1>5

\* What is in the list stays there when it grows.
LEMMA ListKeeps ==
  ASSUME NEW M, NEW s \in Seq(M), NEW x \in M
  PROVE  /\ Append(s, x) \in Seq(M)
         /\ \A i \in 1 .. Len(s) : \E k \in 1 .. Len(Append(s, x)) : Append(s, x)[k] = s[i]
         /\ \E k \in 1 .. Len(Append(s, x)) : Append(s, x)[k] = x
<1> DEFINE u == Append(s, x)
<1>1. /\ u \in Seq(M) /\ Len(s) \in Nat /\ Len(u) = Len(s) + 1 /\ u[Len(s) + 1] = x
      /\ \A i \in 1 .. Len(s) : u[i] = s[i]
  OBVIOUS
<1>2. Len(s) + 1 \in 1 .. Len(u) /\ \A i \in 1 .. Len(s) : i \in 1 .. Len(u)
  BY <1>1
<1> HIDE DEF u
<1>3. \E k \in 1 .. Len(u) : u[k] = x
  BY <1>1, <1>2
<1>4. \A i \in 1 .. Len(s) : \E k \in 1 .. Len(u) : u[k] = s[i]
  BY <1>1, <1>2
<1> QED BY <1>1, <1>3, <1>4 DEF u

\* process pushes its message; the connection may end before the answer, and
\* then it either pushes it again or gives it up.
LEMMA QueuePushes ==
  ASSUME QueueInv, R!Push \/ \E how \in R!Ends : R!PushUnanswered(how)
  PROVE  QueueInv'
<1>1. /\ opc = "push" /\ oconn = "ok" /\ list' = Append(list, data)
      /\ \/ /\ opc' = "take" /\ data' = 0 /\ twice' = twice
            /\ dropped' \in {dropped, dropped \cup {data}}
         \/ /\ opc' = "dial" /\ data' = data /\ twice' = twice \cup {data}
            /\ dropped' = dropped
      /\ oconn' \in {"ok"} \cup R!Ends
      /\ UNCHANGED <<caller, calls, feeder, redisDead, R!inVars>>
  BY DEF R!Push, R!PushUnanswered, R!PushError, R!AfterPush, R!Ends
<1>2. UNCHANGED <<ipc, active, iconn, overtaken, recvd, popped>>
  BY <1>1 DEF R!inVars
<1>3. /\ R!TypeOK /\ data \in 0 .. MaxMsgs /\ data # 0 /\ list \in Seq(0 .. MaxMsgs)
      /\ MaxMsgs \in Nat
  BY <1>1, WayTypes DEF QueueInv, Pushing
<1>4. list' \in Seq(0 .. MaxMsgs) /\ data' \in 0 .. MaxMsgs
  BY <1>1, <1>3
<1>5. R!TypeOK'
  BY <1>1, <1>2, <1>3, <1>4 DEF R!TypeOK
<1>6. PartsOrdered' /\ SendsNewest'
  <2>1. /\ \A i \in 1 .. Len(recvd) : Before(recvd[i], data)
        /\ \A i \in 1 .. Len(list) : Before(list[i], data)
        /\ data <= calls /\ (caller = "sending" => data < calls)
    BY DEF QueueInv, PartsOrdered, SendsNewest
  <2>2. data' = 0 \/ (data' = data /\ data \in twice')
    BY <1>1
  <2>3. twice \subseteq twice'
    BY <1>1
  <2> QED BY <1>1, <1>2, <1>3, <1>5, <2>1, <2>2, <2>3, ListGrows
<1>7. Pushing'
  BY <1>1, <1>3 DEF Pushing
<1>8. AllSomewhere'
  <2> SUFFICES ASSUME feeder # "nil", ~redisDead, NEW m \in 1 .. calls
               PROVE  Somewhere(m)'
    BY <1>1 DEF AllSomewhere
  <2>1. Somewhere(m)
    BY DEF QueueInv, AllSomewhere
  <2>2. /\ \A i \in 1 .. Len(list) : \E k \in 1 .. Len(list') : list'[k] = list[i]
        /\ \E k \in 1 .. Len(list') : list'[k] = data
    <3>1. list' = Append(list, data) /\ list \in Seq(0 .. MaxMsgs) /\ data \in 0 .. MaxMsgs
      BY <1>1, <1>3
    <3> QED BY ONLY <3>1, ListKeeps
  <2> QED BY <1>1, <1>2, <2>1, <2>2 DEF Somewhere
<1> QED BY <1>5, <1>6, <1>7, <1>8 DEF QueueInv

\* Another client's entry.
LEMMA QueueForeign == ASSUME QueueInv, R!PushForeign PROVE QueueInv'
<1>1. list' = Append(list, 0) /\ UNCHANGED <<R!outVars, R!inVars>>
  BY DEF R!PushForeign, R!Foreign
<1>2. UNCHANGED <<caller, calls, feeder, opc, data, oconn, twice, dropped, redisDead,
                  ipc, active, iconn, overtaken, recvd, popped>>
  BY <1>1 DEF R!inVars, R!outVars
<1>3. /\ R!TypeOK /\ list \in Seq(0 .. MaxMsgs) /\ MaxMsgs \in Nat /\ 0 \in 0 .. MaxMsgs
      /\ calls \in 0 .. MaxMsgs /\ data \in 0 .. MaxMsgs
  BY WayTypes DEF QueueInv
<1>4. list' \in Seq(0 .. MaxMsgs)
  BY <1>1, <1>3
<1>5. R!TypeOK'
  BY <1>2, <1>3, <1>4 DEF R!TypeOK
<1>6. PartsOrdered' /\ SendsNewest'
  <2>1. \A y : Before(y, 0)
    BY DEF Before
  <2>2. 0 <= calls /\ (caller = "sending" => 0 < calls)
    BY <1>3 DEF QueueInv, SendsNewest
  <2> QED BY <1>1, <1>2, <1>3, <1>5, <2>1, <2>2, ListGrows
<1>7. Pushing'
  BY <1>2 DEF QueueInv, Pushing
<1>8. AllSomewhere'
  <2> SUFFICES ASSUME feeder # "nil", ~redisDead, NEW m \in 1 .. calls
               PROVE  Somewhere(m)'
    BY <1>2 DEF AllSomewhere
  <2>1. Somewhere(m)
    BY DEF QueueInv, AllSomewhere
  <2>2. \A i \in 1 .. Len(list) : \E k \in 1 .. Len(list') : list'[k] = list[i]
    BY <1>1, <1>3, ListKeeps
  <2> QED BY <1>2, <2>1, <2>2 DEF Somewhere
<1> QED BY <1>5, <1>6, <1>7, <1>8 DEF QueueInv

\* brpop takes the oldest entry; its answer may be lost with the connection.
LEMMA QueuePops ==
  ASSUME QueueInv, R!Pop \/ \E how \in R!Ends : R!PopUnanswered(how)
  PROVE  QueueInv'
<1> DEFINE h == Head(list)
<1> DEFINE l == Len(list)
<1> DEFINE r == Len(recvd)
<1>1. /\ list # << >> /\ list' = Tail(list)
      /\ \/ h = 0 /\ recvd' = recvd /\ popped' = popped
         \/ h # 0 /\ recvd' = Append(recvd, h) /\ popped' = popped
         \/ recvd' = recvd /\ popped' = popped \cup {h}
      /\ iconn' \in {iconn} \cup R!Ends
      /\ ipc' \in {ipc, "receive"}
      /\ UNCHANGED <<R!outVars, active, overtaken>>
  BY DEF R!Pop, R!PopUnanswered, R!Foreign
<1>2. UNCHANGED <<caller, calls, feeder, opc, data, oconn, twice, dropped, redisDead>>
  BY <1>1 DEF R!outVars
<1>3. /\ R!TypeOK /\ list \in Seq(0 .. MaxMsgs) /\ recvd \in Seq(1 .. MaxMsgs) /\ MaxMsgs \in Nat
      /\ l \in Nat /\ r \in Nat
      /\ calls \in 0 .. MaxMsgs /\ data \in 0 .. MaxMsgs
  BY WayTypes DEF QueueInv
<1>4. /\ list' \in Seq(0 .. MaxMsgs) /\ h \in 0 .. MaxMsgs /\ h = list[1] /\ 1 \in 1 .. l
      /\ Len(list') = l - 1
      /\ \A i \in 1 .. l - 1 : list'[i] = list[i + 1]
  BY <1>1, <1>3
<1>5. /\ \A i \in 1 .. l - 1 : i + 1 \in 1 .. l /\ 1 < i + 1
      /\ \A i, j \in 1 .. l - 1 : i < j => i + 1 < j + 1
      /\ \A i \in 1 .. l : i = 1 \/ (i - 1 \in 1 .. l - 1 /\ (i - 1) + 1 = i)
  BY <1>3, <1>4
<1> HIDE DEF h, l
<1>6. /\ recvd' \in Seq(1 .. MaxMsgs)
      /\ \/ Len(recvd') = r /\ recvd' = recvd
         \/ /\ h # 0 /\ Len(recvd') = r + 1 /\ recvd'[r + 1] = h
            /\ \A i \in 1 .. r : recvd'[i] = recvd[i]
  <2>1. CASE recvd' = recvd
    BY <1>3, <2>1
  <2>2. CASE h # 0 /\ recvd' = Append(recvd, h)
    <3>1. h \in 1 .. MaxMsgs
      BY <1>3, <1>4, <2>2
    <3> QED BY <1>3, <2>2, <3>1
  <2> QED BY <1>1, <2>1, <2>2
<1>7. /\ \A i \in 1 .. r + 1 : i \in 1 .. r \/ i = r + 1
      /\ \A i \in 1 .. r : i \in 1 .. r + 1 /\ ~ (r + 1 < i)
      /\ ~ (r + 1 < r + 1) /\ r + 1 \in 1 .. r + 1
  BY <1>3
<1> HIDE DEF r
<1>8. R!TypeOK'
  BY <1>1, <1>2, <1>3, <1>4, <1>6 DEF R!TypeOK
<1>9. /\ \A i, j \in 1 .. r : i < j => Before(recvd[i], recvd[j])
      /\ \A i, j \in 1 .. l : i < j => Before(list[i], list[j])
      /\ \A i \in 1 .. r, j \in 1 .. l : Before(recvd[i], list[j])
      /\ \A i \in 1 .. r : Before(recvd[i], data)
      /\ \A i \in 1 .. l : Before(list[i], data)
  BY DEF QueueInv, PartsOrdered, l, r
<1>10. \A i \in 1 .. Len(recvd') : recvd'[i] = h \/ (i \in 1 .. r /\ recvd'[i] = recvd[i])
  <2>1. CASE Len(recvd') = r /\ recvd' = recvd
    BY <2>1
  <2>2. CASE /\ h # 0 /\ Len(recvd') = r + 1 /\ recvd'[r + 1] = h
             /\ \A i \in 1 .. r : recvd'[i] = recvd[i]
    BY <1>7, <2>2
  <2> QED BY <1>6, <2>1, <2>2
<1>11. PartsOrdered'
  <2>1. ASSUME NEW i \in 1 .. Len(recvd'), NEW j \in 1 .. Len(recvd'), i < j
        PROVE  Before(recvd'[i], recvd'[j])
    <3>1. CASE Len(recvd') = r /\ recvd' = recvd
      BY <1>9, <2>1, <3>1
    <3>2. CASE /\ h # 0 /\ Len(recvd') = r + 1 /\ recvd'[r + 1] = h
               /\ \A k \in 1 .. r : recvd'[k] = recvd[k]
      <4>1. i \in 1 .. r
        BY <1>7, <2>1, <3>2
      <4>2. CASE j \in 1 .. r
        BY <1>9, <2>1, <3>2, <4>1, <4>2
      <4>3. CASE j = r + 1
        BY <1>4, <1>9, <3>2, <4>1, <4>3
      <4> QED BY <1>7, <3>2, <4>2, <4>3
    <3> QED BY <1>6, <3>1, <3>2
  <2>2. ASSUME NEW i \in 1 .. l - 1, NEW j \in 1 .. l - 1, i < j
        PROVE  Before(list'[i], list'[j])
    BY <1>4, <1>5, <1>9, <2>2
  <2>3. ASSUME NEW i \in 1 .. Len(recvd'), NEW j \in 1 .. l - 1
        PROVE  Before(recvd'[i], list'[j])
    BY <1>4, <1>5, <1>9, <1>10
  <2>4. ASSUME NEW i \in 1 .. Len(recvd') PROVE Before(recvd'[i], data)
    BY <1>4, <1>9, <1>10
  <2>5. ASSUME NEW i \in 1 .. l - 1 PROVE Before(list'[i], data)
    BY <1>4, <1>5, <1>9
  <2> QED BY <1>2, <1>4, <2>1, <2>2, <2>3, <2>4, <2>5 DEF PartsOrdered, Before
<1>12. SendsNewest'
  <2>1. /\ \A i \in 1 .. l : list[i] <= calls /\ (caller = "sending" => list[i] < calls)
        /\ \A i \in 1 .. r : recvd[i] <= calls /\ (caller = "sending" => recvd[i] < calls)
    BY DEF QueueInv, SendsNewest, l, r
  <2>2. \A i \in 1 .. Len(recvd') : recvd'[i] <= calls /\ (caller = "sending" => recvd'[i] < calls)
    BY <1>4, <1>10, <2>1
  <2>3. \A i \in 1 .. l - 1 : list'[i] <= calls /\ (caller = "sending" => list'[i] < calls)
    BY <1>4, <1>5, <2>1
  <2> QED BY <1>2, <1>4, <2>2, <2>3 DEF QueueInv, SendsNewest
<1>13. Pushing'
  BY <1>2 DEF QueueInv, Pushing
<1>14. AllSomewhere'
  <2> SUFFICES ASSUME feeder # "nil", ~redisDead, NEW m \in 1 .. calls
               PROVE  Somewhere(m)'
    BY <1>2 DEF AllSomewhere
  <2>0. Somewhere(m) /\ m # 0
    BY <1>3 DEF QueueInv, AllSomewhere
  <2>1. ASSUME NEW i \in 1 .. r PROVE \E k \in 1 .. Len(recvd') : recvd'[k] = recvd[i]
    BY <1>6, <1>7
  <2>2. ASSUME NEW i \in 1 .. l, list[i] # h PROVE \E k \in 1 .. Len(list') : list'[k] = list[i]
    BY <1>4, <1>5, <2>2
  <2>3. ASSUME m = h PROVE m \in popped' \/ \E k \in 1 .. Len(recvd') : recvd'[k] = m
    <3>1. CASE popped' = popped \cup {h}
      BY <2>3, <3>1
    <3>2. CASE h # 0 /\ recvd' = Append(recvd, h)
      <4>1. Len(recvd') = r + 1 /\ recvd'[r + 1] = h
        BY <1>3, <3>2 DEF r
      <4> QED BY <1>7, <2>3, <4>1
    <3> QED BY <1>1, <2>0, <2>3, <3>1, <3>2
  <2>4. m \in popped => m \in popped'
    BY <1>1
  <2> QED BY <1>2, <2>0, <2>1, <2>2, <2>3, <2>4 DEF Somewhere, l, r
<1> QED BY <1>8, <1>11, <1>12, <1>13, <1>14 DEF QueueInv

\* Each step of the two agents preserves the invariant.
LEMMA QueueStep == ASSUME QueueInv, [R!Next]_(R!vars) PROVE QueueInv'
<1>0. R!TypeOK /\ Pushing /\ MaxMsgs \in Nat
  BY NetAssumption DEF QueueInv
<1>1. ASSUME R!TakeNil PROVE QueueInv'
  <2>1. /\ opc = "take" /\ opc' = "returned"
        /\ UNCHANGED <<caller, calls, feeder, data, oconn, twice, dropped, redisDead,
                       ipc, active, iconn, overtaken, recvd, popped, list>>
    BY <1>1 DEF R!TakeNil, R!inVars
  <2>2. R!TypeOK' /\ Pushing'
    BY <1>0, <2>1 DEF R!TypeOK, Pushing
  <2> QED BY <2>1, <2>2, QueueRests
<1>2. ASSUME R!PushFails PROVE QueueInv'
  <2>1. /\ opc = "push" /\ oconn \in R!Ends
        /\ UNCHANGED <<caller, calls, feeder, oconn, twice, redisDead,
                       ipc, active, iconn, overtaken, recvd, popped, list>>
        /\ \/ opc' = "dial" /\ data' = data /\ dropped' = dropped
           \/ opc' = "take" /\ data' = 0 /\ dropped' = dropped \cup {data}
    BY <1>2 DEF R!PushFails, R!PushError, R!AfterPush, R!inVars, R!Ends
  <2>2. R!TypeOK' /\ Pushing'
    BY <1>0, <2>1 DEF R!TypeOK, Pushing
  <2> QED BY <2>1, <2>2, QueueRests, QueueDrops
<1>3. ASSUME R!Redial PROVE QueueInv'
  <2>1. /\ opc = "dial" /\ oconn' = "ok" /\ opc' = "push"
        /\ UNCHANGED <<caller, calls, feeder, data, twice, dropped, redisDead,
                       ipc, active, iconn, overtaken, recvd, popped, list>>
    BY <1>3 DEF R!Redial, R!inVars
  <2>2. R!TypeOK' /\ Pushing'
    BY <1>0, <2>1 DEF R!TypeOK, Pushing
  <2> QED BY <2>1, <2>2, QueueRests
<1>4. ASSUME R!RedialFails PROVE QueueInv'
  <2>1. /\ opc = "dial" /\ opc' = "returned" /\ data' = 0 /\ dropped' = dropped \cup {data}
        /\ UNCHANGED <<caller, calls, feeder, oconn, twice, redisDead,
                       ipc, active, iconn, overtaken, recvd, popped, list>>
    BY <1>4 DEF R!RedialFails, R!inVars
  <2>2. R!TypeOK' /\ Pushing'
    BY <1>0, <2>1 DEF R!TypeOK, Pushing
  <2> QED BY <2>1, <2>2, QueueDrops
<1>5. ASSUME ~redisDead, R!CloseOutput PROVE QueueInv'
  <2>1. /\ feeder' = "closed" /\ redisDead' = (feeder = "nil" \/ caller = "sending")
        /\ UNCHANGED <<caller, calls, opc, data, oconn, twice, dropped,
                       ipc, active, iconn, overtaken, recvd, popped, list>>
    BY <1>5 DEF R!CloseOutput, R!inVars
  <2>2. R!TypeOK' /\ Pushing'
    BY <1>0, <2>1 DEF R!TypeOK, Pushing
  <2> QED BY <1>5, <2>1, <2>2, QueueRests
<1>6. ASSUME R!PopFails \/ R!InputDials \/ R!InputKeeps \/ R!InputReceived \/ R!CloseInput
      PROVE  QueueInv'
  <2>1. /\ ipc' \in {"pop", "receive", "blocked", "dial", "keep", "returned"}
        /\ iconn' \in {"ok"} \cup R!Ends
        /\ UNCHANGED <<caller, calls, feeder, opc, data, oconn, twice, dropped, redisDead,
                       recvd, popped, list>>
    BY <1>0, <1>6 DEF R!PopFails, R!PopFailed, R!InputDials, R!InputKeeps, R!InputReceived,
                      R!CloseInput,
                      R!outVars, R!TypeOK, R!Ends
  <2>2. R!TypeOK' /\ Pushing'
    BY <1>0, <2>1 DEF R!TypeOK, Pushing
  <2> QED BY <2>1, <2>2, QueueRests
<1>7. ASSUME NEW how \in R!Ends, R!Break(how) PROVE QueueInv'
  <2>1. /\ oconn' \in {"ok"} \cup R!Ends /\ iconn' \in {"ok"} \cup R!Ends
        /\ UNCHANGED <<caller, calls, feeder, opc, data, twice, dropped, redisDead,
                       ipc, active, overtaken, recvd, popped, list>>
    BY <1>0, <1>7 DEF R!Break, R!TypeOK
  <2>2. R!TypeOK' /\ Pushing'
    BY <1>0, <2>1 DEF R!TypeOK, Pushing
  <2> QED BY <2>1, <2>2, QueueRests
<1>8. ASSUME UNCHANGED R!vars PROVE QueueInv'
  <2>1. UNCHANGED <<caller, calls, feeder, opc, data, oconn, twice, dropped, redisDead,
                    ipc, active, iconn, overtaken, recvd, popped, list>>
    BY <1>8 DEF R!vars, R!outVars, R!inVars
  <2>2. R!TypeOK' /\ Pushing'
    BY <1>0, <2>1 DEF R!TypeOK, Pushing
  <2> QED BY <2>1, <2>2, QueueRests
<1> QED
  BY <1>1, <1>2, <1>3, <1>4, <1>5, <1>6, <1>7, <1>8, QueueReceives, QueueTakes,
     QueuePushes, QueuePops, QueueForeign
     DEF R!Next, R!Process, R!Start

\* Through any breaks of either connection the receiving agent gets the messages
\* in the order of Receive, repeated only where process pushed one again, and a
\* message Receive returned for is received, on its way, printed as an error or
\* lost with an answer of brpop (agent/redis.go, process, Start).
THEOREM RedisQueues == R!Spec => []Queues
<1>1. R!Init => QueueInv
  BY QueueInit
<1>2. QueueInv /\ [R!Next]_(R!vars) => QueueInv'
  BY QueueStep
<1>3. QueueInv => Queues
  BY QueueKeeps
<1> QED BY <1>1, <1>2, <1>3, PTL DEF R!Spec

-----------------------------------------------------------------------------
(* Agent                                                                   *)

\* What AgentInv says of the types, entry by entry.
LEMMA AgentFacts ==
  ASSUME AgentTypes
  PROVE  /\ MaxSent \in Nat /\ Sinks \in Nat /\ 1 \in 1 .. Sinks
         /\ \A c \in Clients :
              /\ sent[c] \in 0 .. MaxSent /\ stream[c] \in Seq(Entries)
              /\ Len(stream[c]) \in Nat
              /\ \A i \in 1 .. Len(stream[c]) : stream[c][i] \in Entries
              /\ hand[c] # << >> => /\ hand[c][1] \in Numbers /\ hand[c][2] \in 1 .. Sinks
                                    /\ hand[c] = <<hand[c][1], hand[c][2]>>
         /\ \A k \in 1 .. Sinks :
              /\ got[k] \in Seq(Given) /\ Len(got[k]) \in Nat
              /\ \A i \in 1 .. Len(got[k]) : /\ got[k][i][1] \in Clients
                                             /\ got[k][i][2] \in Numbers
<1>1. MaxSent \in Nat /\ Sinks \in Nat /\ 1 \in 1 .. Sinks
  BY NetAssumption
<1>2. ASSUME NEW c \in Clients
      PROVE  /\ sent[c] \in 0 .. MaxSent /\ stream[c] \in Seq(Entries)
             /\ Len(stream[c]) \in Nat
             /\ \A i \in 1 .. Len(stream[c]) : stream[c][i] \in Entries
  BY DEF AgentTypes
<1>3. ASSUME NEW c \in Clients, hand[c] # << >>
      PROVE  /\ hand[c][1] \in Numbers /\ hand[c][2] \in 1 .. Sinks
             /\ hand[c] = <<hand[c][1], hand[c][2]>>
  <2>1. hand[c] \in Numbers \X (1 .. Sinks)
    BY <1>3 DEF AgentTypes
  <2> QED BY <2>1
<1>4. ASSUME NEW k \in 1 .. Sinks
      PROVE  /\ got[k] \in Seq(Given) /\ Len(got[k]) \in Nat
             /\ \A i \in 1 .. Len(got[k]) : /\ got[k][i][1] \in Clients
                                            /\ got[k][i][2] \in Numbers
  <2>1. got[k] \in Seq(Given) /\ Len(got[k]) \in Nat
    <3>1. got \in [1 .. Sinks -> Seq(Given)]
      BY DEF AgentTypes
    <3>2. got[k] \in Seq(Given)
      BY ONLY <3>1, k \in 1 .. Sinks
    <3> QED BY ONLY <3>2
  <2>2. \A i \in 1 .. Len(got[k]) : got[k][i] \in Given
    BY <2>1
  <2> QED BY <2>1, <2>2 DEF Given
<1> QED BY <1>1, <1>2, <1>3, <1>4

\* At first there is nothing.
LEMMA AgentInit == ASSUME A!Init PROVE AgentInv
<1>0. MaxSent \in Nat /\ Sinks \in Nat
  BY NetAssumption
<1>1. << >> \in Seq(Entries) /\ << >> \in Seq(Given) /\ << >> \in Seq(Clients) /\ Len(<< >>) = 0
  OBVIOUS
<1>2. A!TypeOK
  <2>1. shut \in BOOLEAN /\ torn \in BOOLEAN /\ dead \in BOOLEAN
    BY DEF A!Init
  <2>2. \A c \in Clients : stream[c] \in Seq(A!Broken .. MaxSent)
    BY DEF A!Init
  <2> QED BY <2>1, <2>2 DEF A!Init, A!TypeOK
<1>3. AgentTypes
  BY <1>0, <1>1 DEF A!Init, A!None, AgentTypes
<1>4. /\ \A c \in Clients : sent[c] = 0 /\ Len(stream[c]) = 0 /\ hand[c] = << >>
      /\ \A k \in 1 .. Sinks : Len(got[k]) = 0
  BY <1>1 DEF A!Init, A!None
<1>5. Streams /\ Hands /\ SinksOrdered /\ SinksInTurn
  <2>1. Streams /\ Hands
    BY <1>4 DEF Streams, Hands
  <2>2. SinksOrdered /\ SinksInTurn
    BY <1>4 DEF SinksOrdered, SinksInTurn
  <2> QED BY <2>1, <2>2
<1>n. StreamsNewer
  <2>1. \A c \in Clients : \A n : Passed(c, n)
    BY <1>4 DEF Passed
  <2> QED BY <2>1 DEF StreamsNewer
<1>6. AllReached
  <2>1. \A n \in Numbers : ~ (n <= 0)
    BY <1>0 DEF Numbers
  <2> QED BY <1>4, <2>1 DEF AllReached
<1>7. Listed
  BY <1>1 DEF A!Init, Listed
<1> QED BY <1>2, <1>3, <1>5, <1>n, <1>6, <1>7 DEF AgentInv, AgentData

\* The invariant is stronger than the property.
LEMMA AgentKeeps == ASSUME AgentInv PROVE Relays
<1>1. AgentTypes /\ MaxSent \in Nat /\ Sinks \in Nat /\ 1 \in 1 .. Sinks
  BY AgentFacts DEF AgentInv, AgentData
<1>2. \A k \in 1 .. Sinks : /\ DOMAIN got[k] = 1 .. Len(got[k])
                            /\ A!Range(got[k]) = {got[k][i] : i \in 1 .. Len(got[k])}
  <2>1. ASSUME NEW k \in 1 .. Sinks PROVE DOMAIN got[k] = 1 .. Len(got[k])
    BY <1>1, AgentFacts
  <2> QED BY <2>1 DEF A!Range
<1>3. A!InOrder
  <2>1. ASSUME NEW k \in 1 .. Sinks, k > 1 PROVE A!Range(got[k]) \subseteq A!Range(got[k - 1])
    <3>1. k - 1 \in 1 .. Sinks
      BY <1>1, <2>1
    <3>2. \A i \in 1 .. Len(got[k]) : \E j \in 1 .. Len(got[k - 1]) : got[k - 1][j] = got[k][i]
      BY <2>1 DEF AgentInv, AgentData, SinksInTurn
    <3>3. /\ A!Range(got[k]) = {got[k][i] : i \in 1 .. Len(got[k])}
          /\ A!Range(got[k - 1]) = {got[k - 1][i] : i \in 1 .. Len(got[k - 1])}
      BY <1>2, <3>1
    <3> QED BY ONLY <3>2, <3>3
  <2>2. ASSUME NEW k \in 1 .. Sinks, NEW i \in DOMAIN got[k], NEW j \in DOMAIN got[k],
               i < j, got[k][i][1] = got[k][j][1]
        PROVE  got[k][i][2] < got[k][j][2]
    BY <1>2, <2>2 DEF AgentInv, AgentData, SinksOrdered
  <2> QED BY <2>1, <2>2 DEF A!InOrder
<1>4. A!NoneMissed
  <2> SUFFICES ASSUME NEW c \in Clients, NEW n \in Numbers, n <= sent[c]
               PROVE  \/ n \in A!Range(stream[c]) \/ conn[c] = "gone"
                      \/ <<c, n>> \in refused \cup A!Range(got[1]) \/ hand[c] = <<n, 1>>
    BY DEF A!NoneMissed, Numbers
  <2>1. Reached(c, n)
    BY DEF AgentInv, AgentData, AllReached
  <2>2. DOMAIN stream[c] = 1 .. Len(stream[c])
    BY <1>1, AgentFacts
  <2>3. (\E i \in 1 .. Len(stream[c]) : stream[c][i] = n) => n \in A!Range(stream[c])
    BY <2>2 DEF A!Range
  <2>4. (\E j \in 1 .. Len(got[1]) : got[1][j] = <<c, n>>) => <<c, n>> \in A!Range(got[1])
    BY <1>1, <1>2
  <2> QED BY <2>1, <2>3, <2>4 DEF Reached
<1>5. A!Tracked
  <2> SUFFICES ASSUME ~torn
               PROVE  A!Range(conns) = {c \in Clients : conn[c] = "served"}
    BY DEF A!Tracked
  <2>1. conns \in Seq(Clients) /\ DOMAIN conns = 1 .. Len(conns)
    BY DEF AgentInv, Listed
  <2>2. \A i \in 1 .. Len(conns) : conns[i] \in Clients
    BY <2>1
  <2> QED BY <2>1, <2>2 DEF A!Range, AgentInv, Listed
<1> QED BY <1>3, <1>4, <1>5 DEF AgentInv, Relays, A!Relays

\* Steps that touch no message, but may end a connection.
LEMMA DataRests ==
  ASSUME AgentData, UNCHANGED <<sent, stream, hand, got, refused>>,
         \A c \in Clients : conn[c] = "gone" => conn'[c] = "gone"
  PROVE  AgentData'
<1>1. AgentTypes' /\ Streams' /\ StreamsNewer' /\ Hands'
  BY DEF AgentData, AgentTypes, Streams, StreamsNewer, Passed, Hands
<1>2. SinksOrdered' /\ SinksInTurn'
  BY DEF AgentData, SinksOrdered, SinksInTurn
<1>3. AllReached'
  BY DEF AgentData, AllReached, Reached
<1> QED BY <1>1, <1>2, <1>3 DEF AgentData

\* Steps that touch neither s.conns nor the connections it has.
LEMMA ListedRests ==
  ASSUME Listed, UNCHANGED <<conns, torn>>,
         \A c \in Clients : conn'[c] = "served" <=> conn[c] = "served"
  PROVE  Listed'
<1>1. \A i \in 1 .. Len(conns) : conns[i] \in Clients
  BY DEF Listed
<1> QED BY <1>1 DEF Listed

\* MaxSent bounds what each client sends.
LEMMA SentBound ==
  ASSUME AgentTypes, NEW c \in Clients, Cardinality(A!Sent) < MaxSent
  PROVE  sent[c] + 1 \in Numbers
<1> DEFINE n == sent[c]
<1> DEFINE mine == {c} \X (1 .. n)
<1> DEFINE rest == A!Sent \ mine
<1>1. n \in 0 .. MaxSent /\ n \in Nat /\ MaxSent \in Nat
  BY AgentFacts
<1>2. A!Sent \in SUBSET (Clients \X Numbers)
  BY DEF A!Sent, Numbers
<1>3. IsFiniteSet(Clients \X Numbers)
  BY <1>1, NetAssumption, CardinalityInterval, FS_Product DEF Numbers
<1>4. IsFiniteSet(A!Sent)
  BY ONLY <1>2, <1>3, FS_Subset
<1>5. IsFiniteSet(rest)
  <2>1. rest \in SUBSET A!Sent
    OBVIOUS
  <2> QED BY ONLY <1>4, <2>1, FS_Subset
<1>6. mine \subseteq A!Sent
  <2>1. \A i \in 1 .. n : i \in 1 .. MaxSent /\ i <= n
    BY <1>1
  <2> QED BY <2>1 DEF A!Sent
<1>7. rest \cup mine = A!Sent
  BY <1>6
<1>8. \A p \in rest : p \notin {c} \X (1 .. n)
  OBVIOUS
<1> HIDE DEF rest, n
<1>9. Cardinality(rest \cup mine) = Cardinality(rest) + n /\ Cardinality(rest) \in Nat
  BY ONLY <1>1, <1>5, <1>8, CardinalityPairs
<1> DEFINE q == Cardinality(rest)
<1>10. q + n < MaxSent /\ q \in Nat
  BY <1>7, <1>9
<1> HIDE DEF q
<1>11. n < MaxSent
  BY ONLY <1>1, <1>10
<1> QED BY <1>1, <1>11 DEF n, Numbers

\* A client writes its next message.
LEMMA AgentWrites ==
  ASSUME AgentInv, NEW c \in Clients, A!Write(c) PROVE AgentInv'
<1> DEFINE x == sent[c] + 1
<1> DEFINE s == stream[c]
<1> DEFINE l == Len(s)
<1>0. AgentTypes /\ Streams /\ StreamsNewer
  BY DEF AgentInv, AgentData
<1>1. /\ sent' = [sent EXCEPT ![c] = x] /\ stream' = [stream EXCEPT ![c] = Append(s, x)]
      /\ \A i \in DOMAIN s : s[i] > 0
      /\ UNCHANGED <<apc, shut, conn, conns, torn, hand, got, refused, stuck, dead>>
  BY DEF A!Write, A!Writing, A!connVars, A!sinkVars
<1>2. Cardinality(A!Sent) < MaxSent
  BY DEF A!Write, A!Cardinality, Cardinality
<1>3. x \in Numbers /\ x \in 0 .. MaxSent /\ x \in Entries /\ x = sent[c] + 1 /\ sent[c] \in Nat
  <2>1. x \in Numbers
    BY <1>0, <1>2, SentBound
  <2>2. MaxSent \in Nat /\ sent[c] \in Nat
    BY <1>0, AgentFacts
  <2> QED BY <2>1, <2>2 DEF Numbers, Entries
<1>4. s \in Seq(Entries) /\ l \in Nat /\ DOMAIN s = 1 .. l
  BY <1>0, AgentFacts
<1> HIDE DEF x
<1>5. /\ stream'[c] \in Seq(Entries) /\ Len(stream'[c]) = l + 1 /\ stream'[c][l + 1] = x
      /\ \A i \in 1 .. l : stream'[c][i] = s[i]
      /\ \A i \in 1 .. l + 1 : i \in 1 .. l \/ i = l + 1
      /\ \A i \in 1 .. l : i \in 1 .. l + 1 /\ ~ (l + 1 < i)
      /\ ~ (l + 1 < l + 1) /\ l + 1 \in 1 .. l + 1
  <2>1. stream'[c] = Append(s, x)
    BY <1>0, <1>1 DEF AgentTypes
  <2> HIDE DEF s
  <2> QED BY <1>3, <1>4, <2>1
<1>6. /\ sent'[c] = x /\ \A d \in Clients : d # c => sent'[d] = sent[d] /\ stream'[d] = stream[d]
  BY <1>0, <1>1 DEF AgentTypes
<1> HIDE DEF s, l
<1>7. AgentTypes'
  <2>1. sent' \in [Clients -> 0 .. MaxSent]
    BY <1>0, <1>1, <1>3 DEF AgentTypes
  <2>2. stream' \in [Clients -> Seq(Entries)]
    BY <1>0, <1>1, <1>5 DEF AgentTypes
  <2> QED BY <1>0, <1>1, <2>1, <2>2 DEF AgentTypes
<1>8. /\ \A i \in 1 .. l : s[i] <= sent[c] /\ s[i] > 0 /\ s[i] \in Int
      /\ \A i, j \in 1 .. l : i < j => s[i] < s[j]
  <2>1. \A i \in 1 .. l : s[i] \in Int
    BY <1>0, AgentFacts DEF s, l, Entries
  <2> QED BY <1>0, <1>1, <1>4, <2>1 DEF Streams, s, l
<1>9. Streams'
  <2>1. ASSUME NEW d \in Clients, d # c
        PROVE  /\ \A i \in 1 .. Len(stream'[d]) : stream'[d][i] <= sent'[d]
               /\ \A i, j \in 1 .. Len(stream'[d]) :
                    i < j => stream'[d][i] > 0
                             /\ (stream'[d][j] > 0 => stream'[d][i] < stream'[d][j])
    BY <1>0, <1>6, <2>1 DEF Streams
  <2>2. \A i \in 1 .. l : s[i] <= x /\ s[i] < x /\ s[i] > 0
    BY <1>3, <1>8
  <2>3. \A i \in 1 .. l + 1 : stream'[c][i] <= sent'[c]
    BY <1>3, <1>5, <1>6, <2>2
  <2>4. ASSUME NEW i \in 1 .. l + 1, NEW j \in 1 .. l + 1, i < j
        PROVE  stream'[c][i] > 0 /\ stream'[c][i] < stream'[c][j]
    <3>1. i \in 1 .. l
      BY <1>5, <2>4
    <3>2. CASE j \in 1 .. l
      BY <1>5, <1>8, <2>4, <3>1, <3>2
    <3>3. CASE j = l + 1
      BY <1>5, <2>2, <3>1, <3>3
    <3> QED BY <1>5, <3>2, <3>3
  <2> QED BY <1>5, <2>1, <2>3, <2>4 DEF Streams
<1>10. StreamsNewer'
  <2>2. \A i \in 1 .. l : Passed(c, s[i])
    BY <1>0, <1>8 DEF StreamsNewer, s, l
  <2>3. Passed(c, x)
    BY <1>0 DEF StreamsNewer, x
  <2>4. Passed(c, x + 1)
    <3>1. \A y \in Int : y < x => y < x + 1
      BY <1>3 DEF Numbers
    <3>2. hand[c] # << >> => hand[c][1] \in Int
      BY <1>0, AgentFacts DEF Numbers
    <3>3. \A k \in 1 .. Sinks : \A j \in 1 .. Len(got[k]) : got[k][j][2] \in Int
      BY <1>0, AgentFacts DEF Numbers
    <3> QED BY <2>3, <3>1, <3>2, <3>3 DEF Passed
  <2>5. ASSUME NEW i \in 1 .. l + 1 PROVE Passed(c, stream'[c][i])
    BY <1>5, <2>2, <2>3
  <2>6. ASSUME NEW d \in Clients, d # c
        PROVE  /\ \A i \in 1 .. Len(stream'[d]) : stream'[d][i] > 0 => Passed(d, stream'[d][i])
               /\ Passed(d, sent'[d] + 1)
    BY <1>0, <1>6, <2>6 DEF StreamsNewer
  <2>7. \A d \in Clients :
               /\ \A i \in 1 .. Len(stream'[d]) : stream'[d][i] > 0 => Passed(d, stream'[d][i])
               /\ Passed(d, sent'[d] + 1)
    BY <1>5, <1>6, <2>4, <2>5, <2>6
  <2> QED BY <1>1, <2>7 DEF StreamsNewer, Passed
<1>11. Hands' /\ SinksOrdered' /\ SinksInTurn'
  <2>1. Hands'
    BY <1>1 DEF AgentInv, AgentData, Hands
  <2> QED BY <1>1, <2>1 DEF AgentInv, AgentData, SinksOrdered, SinksInTurn
<1>12. AllReached'
  <2> SUFFICES ASSUME NEW d \in Clients, NEW n \in Numbers, n <= sent'[d]
               PROVE  Reached(d, n)'
    BY DEF AllReached
  <2>1. CASE d = c /\ n = x
    BY <1>5, <2>1 DEF Reached
  <2>2. CASE d = c /\ n # x
    <3>1. n <= sent[c]
      BY <1>3, <1>6, <2>2 DEF Numbers
    <3>2. Reached(c, n)
      BY <3>1 DEF AgentInv, AgentData, AllReached
    <3>3. (\E i \in 1 .. l : s[i] = n) => \E i \in 1 .. l + 1 : stream'[c][i] = n
      BY <1>5
    <3> QED BY <1>1, <1>5, <2>2, <3>2, <3>3 DEF Reached, s, l
  <2>3. CASE d # c
    <3>1. Reached(d, n)
      BY <1>6, <2>3 DEF AgentInv, AgentData, AllReached
    <3> QED BY <1>1, <1>6, <2>3, <3>1 DEF Reached
  <2> QED BY <2>1, <2>2, <2>3
<1>13. A!TypeOK'
  BY <1>1, <1>7 DEF AgentInv, A!TypeOK, A!Broken, AgentTypes, Entries
<1>14. Listed'
  BY <1>1, ListedRests DEF AgentInv
<1> QED BY <1>7, <1>9, <1>10, <1>11, <1>12, <1>13, <1>14 DEF AgentInv, AgentData

\* A client's stream ends.
LEMMA AgentEnds ==
  ASSUME AgentInv, NEW c \in Clients, NEW how \in {A!EOF, A!Broken}, A!End(c, how)
  PROVE  AgentInv'
<1> DEFINE s == stream[c]
<1> DEFINE l == Len(s)
<1>0. AgentTypes /\ Streams /\ StreamsNewer
  BY DEF AgentInv, AgentData
<1>1. /\ stream' = [stream EXCEPT ![c] = Append(s, how)]
      /\ \A i \in DOMAIN s : s[i] > 0
      /\ UNCHANGED <<apc, shut, conn, conns, torn, sent, hand, got, refused, stuck, dead>>
  BY DEF A!End, A!Writing, A!connVars, A!sinkVars
<1>3. how \in Entries /\ how <= 0 /\ how \in Int /\ sent[c] \in Nat /\ how <= sent[c]
  <2>1. MaxSent \in Nat /\ sent[c] \in Nat
    BY <1>0, AgentFacts
  <2> QED BY <2>1 DEF Entries, A!EOF, A!Broken
<1>4. s \in Seq(Entries) /\ l \in Nat /\ DOMAIN s = 1 .. l
  BY <1>0, AgentFacts
<1>5. /\ stream'[c] \in Seq(Entries) /\ Len(stream'[c]) = l + 1 /\ stream'[c][l + 1] = how
      /\ \A i \in 1 .. l : stream'[c][i] = s[i]
      /\ \A i \in 1 .. l + 1 : i \in 1 .. l \/ i = l + 1
      /\ \A i \in 1 .. l : i \in 1 .. l + 1 /\ ~ (l + 1 < i)
      /\ ~ (l + 1 < l + 1) /\ l + 1 \in 1 .. l + 1
  <2>1. stream'[c] = Append(s, how)
    BY <1>0, <1>1 DEF AgentTypes
  <2> HIDE DEF s
  <2> QED BY <1>3, <1>4, <2>1
<1>6. \A d \in Clients : d # c => stream'[d] = stream[d]
  BY <1>0, <1>1 DEF AgentTypes
<1> HIDE DEF s, l
<1>7. AgentTypes'
  <2>2. stream' \in [Clients -> Seq(Entries)]
    BY <1>0, <1>1, <1>5 DEF AgentTypes
  <2> QED BY <1>0, <1>1, <2>2 DEF AgentTypes
<1>8. /\ \A i \in 1 .. l : s[i] <= sent[c] /\ s[i] > 0
      /\ \A i, j \in 1 .. l : i < j => s[i] < s[j]
  BY <1>0, <1>1, <1>4 DEF Streams, s, l
<1>9. Streams'
  <2>1. ASSUME NEW d \in Clients, d # c
        PROVE  /\ \A i \in 1 .. Len(stream'[d]) : stream'[d][i] <= sent'[d]
               /\ \A i, j \in 1 .. Len(stream'[d]) :
                    i < j => stream'[d][i] > 0
                             /\ (stream'[d][j] > 0 => stream'[d][i] < stream'[d][j])
    BY <1>0, <1>1, <1>6, <2>1 DEF Streams
  <2>3. \A i \in 1 .. l + 1 : stream'[c][i] <= sent'[c]
    BY <1>1, <1>3, <1>5, <1>8
  <2>4. ASSUME NEW i \in 1 .. l + 1, NEW j \in 1 .. l + 1, i < j
        PROVE  stream'[c][i] > 0 /\ (stream'[c][j] > 0 => stream'[c][i] < stream'[c][j])
    <3>1. i \in 1 .. l
      BY <1>5, <2>4
    <3>2. CASE j \in 1 .. l
      BY <1>5, <1>8, <2>4, <3>1, <3>2
    <3>3. CASE j = l + 1
      <4>1. ~ (how > 0)
        BY <1>3
      <4> QED BY <1>5, <1>8, <3>1, <3>3, <4>1
    <3> QED BY <1>5, <3>2, <3>3
  <2> QED BY <1>5, <2>1, <2>3, <2>4 DEF Streams
<1>10. StreamsNewer'
  <2>1. ~ (how > 0)
    BY <1>3
  <2>2. \A i \in 1 .. l : Passed(c, s[i])
    BY <1>0, <1>8 DEF StreamsNewer, s, l
  <2>3. \A d \in Clients : \A i \in 1 .. Len(stream'[d]) :
          stream'[d][i] > 0 => Passed(d, stream'[d][i])
    <3>1. ASSUME NEW d \in Clients, d # c, NEW i \in 1 .. Len(stream'[d]), stream'[d][i] > 0
          PROVE  Passed(d, stream'[d][i])
      BY <1>0, <1>6, <3>1 DEF StreamsNewer
    <3>2. ASSUME NEW i \in 1 .. l + 1, stream'[c][i] > 0 PROVE Passed(c, stream'[c][i])
      BY <1>5, <2>1, <2>2, <3>2
    <3> QED BY <1>5, <3>1, <3>2
  <2>4. \A d \in Clients : Passed(d, sent[d] + 1)
    BY <1>0 DEF StreamsNewer
  <2> QED BY <1>1, <2>3, <2>4 DEF StreamsNewer, Passed
<1>11. Hands' /\ SinksOrdered' /\ SinksInTurn'
  <2>1. Hands'
    BY <1>1 DEF AgentInv, AgentData, Hands
  <2> QED BY <1>1, <2>1 DEF AgentInv, AgentData, SinksOrdered, SinksInTurn
<1>12. AllReached'
  <2> SUFFICES ASSUME NEW d \in Clients, NEW n \in Numbers, n <= sent[d]
               PROVE  Reached(d, n)'
    BY <1>1 DEF AllReached
  <2>1. Reached(d, n)
    BY DEF AgentInv, AgentData, AllReached
  <2>2. (\E i \in 1 .. l : s[i] = n) => \E i \in 1 .. l + 1 : stream'[c][i] = n
    BY <1>5
  <2>3. CASE d = c
    BY <1>1, <1>5, <2>1, <2>2, <2>3 DEF Reached, s, l
  <2>4. CASE d # c
    BY <1>1, <1>6, <2>1, <2>4 DEF Reached
  <2> QED BY <2>3, <2>4
<1>13. A!TypeOK'
  BY <1>1, <1>7 DEF AgentInv, A!TypeOK, A!Broken, AgentTypes, Entries
<1>14. Listed'
  BY <1>1, ListedRests DEF AgentInv
<1> QED BY <1>7, <1>9, <1>10, <1>11, <1>12, <1>13, <1>14 DEF AgentInv, AgentData

\* serve has decoded a message, the oldest of its stream.
LEMMA AgentDecodes ==
  ASSUME AgentInv, NEW c \in Clients, A!Decode(c) PROVE AgentInv'
<1> DEFINE s == stream[c]
<1> DEFINE l == Len(s)
<1> DEFINE h == Head(s)
<1>0. AgentTypes /\ Streams /\ StreamsNewer
  BY DEF AgentInv, AgentData
<1>1. /\ hand[c] = << >> /\ s # << >> /\ h > 0
      /\ hand' = [hand EXCEPT ![c] = <<h, 1>>] /\ stream' = [stream EXCEPT ![c] = Tail(s)]
      /\ UNCHANGED <<apc, shut, conn, conns, torn, sent, got, refused, stuck, dead>>
  BY DEF A!Decode, A!None, A!connVars, A!sinkVars
<1>4. s \in Seq(Entries) /\ l \in Nat
  BY <1>0, AgentFacts
<1>5. /\ stream'[c] \in Seq(Entries) /\ Len(stream'[c]) = l - 1
      /\ h = s[1] /\ 1 \in 1 .. l /\ h \in Entries
      /\ \A i \in 1 .. l - 1 : stream'[c][i] = s[i + 1]
  <2>1. stream'[c] = Tail(s) /\ s # << >>
    BY <1>0, <1>1 DEF AgentTypes
  <2> HIDE DEF s
  <2>2. /\ Tail(s) \in Seq(Entries) /\ Len(Tail(s)) = l - 1 /\ h \in Entries /\ h = s[1]
        /\ \A i \in 1 .. l - 1 : Tail(s)[i] = s[i + 1]
    BY ONLY <1>4, <2>1, HeadTailProperties
  <2>3. 1 \in 1 .. l
    BY ONLY <1>4, <2>1, EmptySeq
  <2> QED BY <2>1, <2>2, <2>3
<1>6. /\ hand'[c] = <<h, 1>>
      /\ \A d \in Clients : d # c => stream'[d] = stream[d] /\ hand'[d] = hand[d]
  BY <1>0, <1>1 DEF AgentTypes
<1> HIDE DEF s, l, h
<1>s. /\ \A i \in 1 .. l - 1 : i + 1 \in 1 .. l /\ 1 < i + 1
      /\ \A i, j \in 1 .. l - 1 : i < j => i + 1 < j + 1
      /\ \A i \in 1 .. l : i = 1 \/ (i - 1 \in 1 .. l - 1 /\ (i - 1) + 1 = i)
  BY <1>4, <1>5
<1>n. h \in Numbers /\ h <= sent[c] /\ 1 \in 1 .. Sinks /\ sent[c] \in Nat
  <2>1. MaxSent \in Nat /\ sent[c] \in Nat /\ 1 \in 1 .. Sinks
    BY <1>0, AgentFacts
  <2>2. h <= sent[c]
    BY <1>0, <1>5 DEF Streams, s, l
  <2> QED BY <1>1, <1>5, <2>1, <2>2 DEF Numbers, Entries
<1>7. AgentTypes'
  <2>1. stream' \in [Clients -> Seq(Entries)]
    BY <1>0, <1>1, <1>5 DEF AgentTypes
  <2>2. <<h, 1>> \in Numbers \X (1 .. Sinks)
    BY <1>n
  <2>3. hand' \in [Clients -> {<< >>} \cup (Numbers \X (1 .. Sinks))]
    BY <1>0, <1>1, <2>2 DEF AgentTypes
  <2> QED BY <1>0, <1>1, <2>1, <2>3 DEF AgentTypes
<1>8. /\ \A i \in 1 .. l : s[i] <= sent[c]
      /\ \A i, j \in 1 .. l : i < j => s[i] > 0 /\ (s[j] > 0 => s[i] < s[j])
  BY <1>0 DEF Streams, s, l
<1>9. Streams'
  <2>1. ASSUME NEW d \in Clients, d # c
        PROVE  /\ \A i \in 1 .. Len(stream'[d]) : stream'[d][i] <= sent'[d]
               /\ \A i, j \in 1 .. Len(stream'[d]) :
                    i < j => stream'[d][i] > 0
                             /\ (stream'[d][j] > 0 => stream'[d][i] < stream'[d][j])
    BY <1>0, <1>1, <1>6, <2>1 DEF Streams
  <2>3. \A i \in 1 .. l - 1 : stream'[c][i] <= sent'[c]
    BY <1>1, <1>5, <1>s, <1>8
  <2>4. ASSUME NEW i \in 1 .. l - 1, NEW j \in 1 .. l - 1, i < j
        PROVE  stream'[c][i] > 0 /\ (stream'[c][j] > 0 => stream'[c][i] < stream'[c][j])
    BY <1>5, <1>s, <1>8, <2>4
  <2> QED BY <1>5, <2>1, <2>3, <2>4 DEF Streams
<1>p. Passed(c, h)
  BY <1>0, <1>1, <1>5 DEF StreamsNewer, s, l
<1>10. StreamsNewer'
  <2>1. ASSUME NEW d \in Clients, d # c
        PROVE  /\ \A i \in 1 .. Len(stream'[d]) : stream'[d][i] > 0 => Passed(d, stream'[d][i])
               /\ Passed(d, sent[d] + 1) /\ hand'[d] = hand[d]
    BY <1>0, <1>6, <2>1 DEF StreamsNewer
  <2>2. \A i \in 1 .. l - 1 : stream'[c][i] > 0 => Passed(c, stream'[c][i]) /\ h < stream'[c][i]
    <3>1. \A i \in 1 .. l : s[i] > 0 => Passed(c, s[i])
      BY <1>0 DEF StreamsNewer, s, l
    <3> QED BY <1>5, <1>s, <1>8, <3>1
  <2>3. Passed(c, sent[c] + 1) /\ h < sent[c] + 1
    <3>1. h < sent[c] + 1
      BY <1>n DEF Numbers
    <3> QED BY <1>0, <3>1 DEF StreamsNewer
  <2>4. hand'[c][1] = h
    BY <1>6
  <2>5. ASSUME NEW d \in Clients, NEW i \in 1 .. Len(stream'[d]), stream'[d][i] > 0
        PROVE  /\ hand'[d] # << >> => hand'[d][1] < stream'[d][i]
               /\ \A k \in 1 .. Sinks : \A j \in 1 .. Len(got[k]) :
                    got[k][j][1] = d => got[k][j][2] < stream'[d][i]
    <3>1. CASE d = c
      BY <1>5, <2>2, <2>4, <2>5, <3>1 DEF Passed
    <3>2. CASE d # c
      BY <2>1, <2>5, <3>2 DEF Passed
    <3> QED BY <3>1, <3>2
  <2>6. ASSUME NEW d \in Clients
        PROVE  /\ hand'[d] # << >> => hand'[d][1] < sent[d] + 1
               /\ \A k \in 1 .. Sinks : \A j \in 1 .. Len(got[k]) :
                    got[k][j][1] = d => got[k][j][2] < sent[d] + 1
    <3>1. CASE d = c
      BY <2>3, <2>4, <3>1 DEF Passed
    <3>2. CASE d # c
      BY <2>1, <3>2 DEF Passed
    <3> QED BY <3>1, <3>2
  <2> QED BY <1>1, <2>5, <2>6 DEF StreamsNewer, Passed
<1>11. Hands'
  <2>1. ASSUME NEW d \in Clients, d # c, hand'[d] # << >>
        PROVE  /\ \A k \in 1 .. Sinks : k < hand'[d][2] =>
                    \E j \in 1 .. Len(got[k]) : got[k][j] = <<d, hand'[d][1]>>
               /\ \A k \in 1 .. Sinks : k >= hand'[d][2] => \A j \in 1 .. Len(got[k]) :
                    got[k][j][1] = d => got[k][j][2] < hand'[d][1]
    BY <1>6, <2>1 DEF AgentInv, AgentData, Hands
  <2>2. hand'[c][1] = h /\ hand'[c][2] = 1
    BY <1>6
  <2>3. \A k \in 1 .. Sinks : ~ (k < 1)
    BY NetAssumption
  <2>4. \A k \in 1 .. Sinks : \A j \in 1 .. Len(got[k]) : got[k][j][1] = c => got[k][j][2] < h
    BY <1>p DEF Passed
  <2> QED BY <1>1, <2>1, <2>2, <2>3, <2>4 DEF Hands
<1>12. SinksOrdered' /\ SinksInTurn'
  BY <1>1 DEF AgentInv, AgentData, SinksOrdered, SinksInTurn
<1>13. AllReached'
  <2> SUFFICES ASSUME NEW d \in Clients, NEW n \in Numbers, n <= sent[d]
               PROVE  Reached(d, n)'
    BY <1>1 DEF AllReached
  <2>1. Reached(d, n)
    BY DEF AgentInv, AgentData, AllReached
  <2>2. CASE d = c
    <3>1. CASE n = h
      BY <1>6, <2>2, <3>1 DEF Reached
    <3>2. CASE n # h
      <4>1. ASSUME NEW i \in 1 .. l, s[i] = n PROVE \E k \in 1 .. l - 1 : stream'[c][k] = n
        <5>1. i - 1 \in 1 .. l - 1 /\ (i - 1) + 1 = i
          BY <1>5, <1>s, <3>2, <4>1
        <5> QED BY <1>5, <4>1, <5>1
      <4>2. hand[c] # <<n, 1>>
        BY <1>1
      <4> QED BY <1>1, <1>5, <2>1, <2>2, <4>1, <4>2 DEF Reached, s, l
    <3> QED BY <3>1, <3>2
  <2>3. CASE d # c
    BY <1>1, <1>6, <2>1, <2>3 DEF Reached
  <2> QED BY <2>2, <2>3
<1>14. A!TypeOK'
  BY <1>1, <1>7 DEF AgentInv, A!TypeOK, A!Broken, AgentTypes, Entries
<1>15. Listed'
  BY <1>1, ListedRests DEF AgentInv
<1> QED BY <1>7, <1>9, <1>10, <1>11, <1>12, <1>13, <1>14, <1>15 DEF AgentInv, AgentData

\* A sink refuses the message: the sinks after it do not get it.
LEMMA AgentRefused ==
  ASSUME AgentInv, NEW c \in Clients, hand[c] # << >>,
         refused' = refused \cup {<<c, hand[c][1]>>}, hand' = [hand EXCEPT ![c] = << >>],
         UNCHANGED <<apc, shut, conn, conns, torn, stream, sent, got, stuck, dead>>
  PROVE  AgentInv'
<1>0. AgentTypes /\ StreamsNewer /\ Hands
  BY DEF AgentInv, AgentData
<1>1. hand'[c] = << >> /\ \A d \in Clients : d # c => hand'[d] = hand[d]
  BY <1>0 DEF AgentTypes
<1>2. AgentTypes'
  BY <1>0 DEF AgentTypes
<1>3. Streams' /\ SinksOrdered' /\ SinksInTurn'
  <2>1. Streams'
    BY DEF AgentInv, AgentData, Streams
  <2> QED BY <2>1 DEF AgentInv, AgentData, SinksOrdered, SinksInTurn
<1>4. StreamsNewer'
  <2>1. \A d \in Clients : \A n : Passed(d, n) =>
          /\ hand'[d] # << >> => hand'[d][1] < n
          /\ \A k \in 1 .. Sinks : \A j \in 1 .. Len(got[k]) :
               got[k][j][1] = d => got[k][j][2] < n
    BY <1>1 DEF Passed
  <2> QED BY <1>0, <2>1 DEF StreamsNewer, Passed
<1>5. Hands'
  BY <1>0, <1>1 DEF Hands
<1>6. AllReached'
  <2> SUFFICES ASSUME NEW d \in Clients, NEW n \in Numbers, n <= sent[d]
               PROVE  Reached(d, n)'
    BY DEF AllReached
  <2>1. Reached(d, n)
    BY DEF AgentInv, AgentData, AllReached
  <2>2. hand[d] = <<n, 1>> /\ d = c => hand[c][1] = n
    OBVIOUS
  <2> QED BY <1>1, <2>1, <2>2 DEF Reached
<1>7. A!TypeOK'
  BY DEF AgentInv, A!TypeOK
<1>8. Listed'
  BY ListedRests DEF AgentInv
<1> QED BY <1>2, <1>3, <1>4, <1>5, <1>6, <1>7, <1>8 DEF AgentInv, AgentData

\* A sink takes the message: the next one gets it then, if there is one.
LEMMA AgentTaken ==
  ASSUME AgentInv, NEW c \in Clients, hand[c] # << >>,
         got' = [got EXCEPT ![hand[c][2]] = Append(@, <<c, hand[c][1]>>)],
         hand' = [hand EXCEPT ![c] = IF hand[c][2] = Sinks THEN << >>
                                     ELSE <<hand[c][1], hand[c][2] + 1>>],
         UNCHANGED <<apc, shut, conn, conns, torn, stream, sent, refused, stuck, dead>>
  PROVE  AgentInv'
<1> DEFINE n == hand[c][1]
<1> DEFINE k == hand[c][2]
<1> DEFINE l == Len(got[k])
<1> DEFINE p == <<c, n>>
<1>0. AgentTypes /\ StreamsNewer /\ Hands
  BY DEF AgentInv, AgentData
<1>1. /\ n \in Numbers /\ k \in 1 .. Sinks /\ Sinks \in Nat /\ 1 \in 1 .. Sinks
      /\ hand[c] = <<n, k>>
  BY <1>0, AgentFacts
<1>2. got[k] \in Seq(Given) /\ l \in Nat /\ p \in Given
  BY <1>0, <1>1, AgentFacts DEF Given
<1>3. /\ got'[k] = Append(got[k], p)
      /\ \A m \in 1 .. Sinks : m # k => got'[m] = got[m]
  BY <1>0, <1>1 DEF AgentTypes
<1>4. hand' = [hand EXCEPT ![c] = IF k = Sinks THEN << >> ELSE <<n, k + 1>>]
  OBVIOUS
<1>5. p[1] = c /\ p[2] = n
  OBVIOUS
<1>u. UNCHANGED <<apc, shut, conn, conns, torn, stream, sent, refused, stuck, dead>>
  OBVIOUS
<1>g. got' = [got EXCEPT ![k] = Append(got[k], p)]
  BY <1>0, <1>1 DEF AgentTypes
<1>h. /\ \A m \in 1 .. Sinks : m < k => \E j \in 1 .. Len(got[m]) : got[m][j] = p
      /\ \A m \in 1 .. Sinks : m >= k => \A j \in 1 .. Len(got[m]) :
           got[m][j][1] = c => got[m][j][2] < n
  BY <1>0 DEF Hands
<1> HIDE DEF n, k, p
<1>6. /\ got'[k] \in Seq(Given) /\ Len(got'[k]) = l + 1 /\ got'[k][l + 1] = p
      /\ \A j \in 1 .. l : got'[k][j] = got[k][j]
  <2> DEFINE g == got[k]
  <2>1. g \in Seq(Given) /\ p \in Given /\ l = Len(g) /\ got'[k] = Append(g, p)
    BY <1>2, <1>3
  <2> HIDE DEF g, l
  <2>2. /\ Append(g, p) \in Seq(Given) /\ Len(Append(g, p)) = Len(g) + 1
        /\ Append(g, p)[Len(g) + 1] = p
        /\ \A j \in 1 .. Len(g) : Append(g, p)[j] = g[j]
    BY ONLY <2>1
  <2> QED BY <2>1, <2>2 DEF g
<1>7. /\ \A j \in 1 .. l + 1 : j \in 1 .. l \/ j = l + 1
      /\ \A j \in 1 .. l : j \in 1 .. l + 1 /\ ~ (l + 1 < j)
      /\ ~ (l + 1 < l + 1) /\ l + 1 \in 1 .. l + 1
  BY <1>2
<1> HIDE DEF l
<1>8. /\ \/ k = Sinks /\ hand'[c] = << >>
         \/ k # Sinks /\ hand'[c] = <<n, k + 1>> /\ k + 1 \in 1 .. Sinks
      /\ \A d \in Clients : d # c => hand'[d] = hand[d]
  <2>1. /\ hand'[c] = IF k = Sinks THEN << >> ELSE <<n, k + 1>>
        /\ \A d \in Clients : d # c => hand'[d] = hand[d]
    BY <1>0, <1>4 DEF AgentTypes
  <2>2. k # Sinks => k + 1 \in 1 .. Sinks
    BY <1>1
  <2> QED BY <2>1, <2>2
<1>9. AgentTypes'
  <2>1. hand' \in [Clients -> {<< >>} \cup (Numbers \X (1 .. Sinks))]
    <3>1. hand'[c] \in {<< >>} \cup (Numbers \X (1 .. Sinks))
      BY <1>1, <1>8
    <3> QED BY <1>0, <1>4, <3>1 DEF AgentTypes
  <2>2. got' \in [1 .. Sinks -> Seq(Given)]
    BY <1>0, <1>2, <1>6, <1>g DEF AgentTypes
  <2> QED BY <1>0, <1>u, <2>1, <2>2 DEF AgentTypes
\* What is new with the sinks is p.
<1>10. \A m \in 1 .. Sinks : \A j \in 1 .. Len(got'[m]) :
         \/ j \in 1 .. Len(got[m]) /\ got'[m][j] = got[m][j]
         \/ m = k /\ j = l + 1 /\ got'[m][j] = p
  <2>1. ASSUME NEW j \in 1 .. l + 1
        PROVE  (j \in 1 .. l /\ got'[k][j] = got[k][j]) \/ (j = l + 1 /\ got'[k][j] = p)
    BY <1>6, <1>7
  <2>2. l = Len(got[k])
    BY DEF l
  <2> QED BY <1>3, <1>6, <2>1, <2>2
<1>11. \A m \in 1 .. Sinks : \A j \in 1 .. Len(got[m]) :
         j \in 1 .. Len(got'[m]) /\ got'[m][j] = got[m][j]
  <2>1. l = Len(got[k])
    BY DEF l
  <2> QED BY <1>3, <1>6, <1>7, <2>1
<1>12. StreamsNewer'
  <2>1. ASSUME NEW d \in Clients, NEW x, Passed(d, x), d = c => n < x
        PROVE  /\ hand'[d] # << >> => hand'[d][1] < x
               /\ \A m \in 1 .. Sinks : \A j \in 1 .. Len(got'[m]) :
                    got'[m][j][1] = d => got'[m][j][2] < x
    <3>1. hand'[d] # << >> => hand'[d][1] < x
      BY <1>8, <2>1 DEF Passed
    <3>2. ASSUME NEW m \in 1 .. Sinks, NEW j \in 1 .. Len(got'[m]), got'[m][j][1] = d
          PROVE  got'[m][j][2] < x
      <4>1. CASE j \in 1 .. Len(got[m]) /\ got'[m][j] = got[m][j]
        BY <2>1, <3>2, <4>1 DEF Passed
      <4>2. CASE got'[m][j] = p
        BY <1>5, <2>1, <3>2, <4>2
      <4> QED BY <1>10, <4>1, <4>2
    <3> QED BY <3>1, <3>2
  <2>2. \A x : Passed(c, x) => n < x
    BY DEF Passed, n
  <2>3. \A d \in Clients : \A x : Passed(d, x) =>
          /\ hand'[d] # << >> => hand'[d][1] < x
          /\ \A m \in 1 .. Sinks : \A j \in 1 .. Len(got'[m]) :
               got'[m][j][1] = d => got'[m][j][2] < x
    BY <2>1, <2>2
  <2> QED BY <1>0, <1>u, <2>3 DEF StreamsNewer, Passed
<1>13. Hands'
  <2> SUFFICES ASSUME NEW d \in Clients, hand'[d] # << >>
               PROVE  /\ \A m \in 1 .. Sinks : m < hand'[d][2] =>
                           \E j \in 1 .. Len(got'[m]) : got'[m][j] = <<d, hand'[d][1]>>
                      /\ \A m \in 1 .. Sinks : m >= hand'[d][2] => \A j \in 1 .. Len(got'[m]) :
                           got'[m][j][1] = d => got'[m][j][2] < hand'[d][1]
    BY DEF Hands
  <2>1. CASE d # c
    <3>1. /\ hand'[d] = hand[d]
          /\ \A m \in 1 .. Sinks : m < hand[d][2] =>
               \E j \in 1 .. Len(got[m]) : got[m][j] = <<d, hand[d][1]>>
          /\ \A m \in 1 .. Sinks : m >= hand[d][2] => \A j \in 1 .. Len(got[m]) :
               got[m][j][1] = d => got[m][j][2] < hand[d][1]
      BY <1>0, <1>8, <2>1 DEF Hands
    <3>2. ASSUME NEW m \in 1 .. Sinks, m < hand[d][2]
          PROVE  \E j \in 1 .. Len(got'[m]) : got'[m][j] = <<d, hand[d][1]>>
      BY <1>11, <3>1, <3>2
    <3>3. ASSUME NEW m \in 1 .. Sinks, m >= hand[d][2], NEW j \in 1 .. Len(got'[m]),
                 got'[m][j][1] = d
          PROVE  got'[m][j][2] < hand[d][1]
      BY <1>5, <1>10, <2>1, <3>1, <3>3
    <3> QED BY <3>1, <3>2, <3>3
  <2>2. CASE d = c
    <3>1. k # Sinks /\ hand'[c] = <<n, k + 1>> /\ hand'[c][1] = n /\ hand'[c][2] = k + 1
      BY <1>8, <2>2
    <3>2. ASSUME NEW m \in 1 .. Sinks, m < k + 1
          PROVE  \E j \in 1 .. Len(got'[m]) : got'[m][j] = p
      <4>1. CASE m = k
        BY <1>6, <1>7, <4>1
      <4>2. CASE m # k
        <5>1. m < k
          BY <1>1, <3>2, <4>2
        <5> QED BY <1>h, <1>11, <5>1
      <4> QED BY <4>1, <4>2
    <3>3. ASSUME NEW m \in 1 .. Sinks, m >= k + 1, NEW j \in 1 .. Len(got'[m]),
                 got'[m][j][1] = c
          PROVE  got'[m][j][2] < n
      <4>1. m # k /\ m >= k
        BY <1>1, <3>3
      <4> QED BY <1>h, <1>10, <3>3, <4>1
    <3> QED BY <2>2, <3>1, <3>2, <3>3 DEF p
  <2> QED BY <2>1, <2>2
<1>14. SinksOrdered'
  <2> SUFFICES ASSUME NEW m \in 1 .. Sinks, NEW i \in 1 .. Len(got'[m]),
                      NEW j \in 1 .. Len(got'[m]), i < j, got'[m][i][1] = got'[m][j][1]
               PROVE  got'[m][i][2] < got'[m][j][2]
    BY DEF SinksOrdered
  <2>0. \A a, b \in 1 .. Len(got[m]) :
          a < b /\ got[m][a][1] = got[m][b][1] => got[m][a][2] < got[m][b][2]
    BY DEF AgentInv, AgentData, SinksOrdered
  <2>1. CASE m # k
    BY <1>10, <2>0, <2>1
  <2>2. CASE m = k
    <3>1. i \in 1 .. l + 1 /\ j \in 1 .. l + 1
      BY <1>6, <2>2
    <3>2. i \in 1 .. l /\ got'[k][i] = got[k][i]
      BY <1>6, <1>7, <3>1
    <3>3. CASE j \in 1 .. l
      <4>1. \A a, b \in 1 .. l :
              a < b /\ got[k][a][1] = got[k][b][1] => got[k][a][2] < got[k][b][2]
        BY <2>0, <2>2 DEF l
      <4>2. got'[m][i] = got[k][i] /\ got'[m][j] = got[k][j]
        BY <1>6, <2>2, <3>2, <3>3
      <4> QED BY <3>2, <3>3, <4>1, <4>2
    <3>4. CASE j = l + 1
      <4>1. got[k][i][1] = c
        BY <1>5, <1>6, <2>2, <3>2, <3>4
      <4>2. k >= k
        BY <1>1
      <4>3. got[k][i][2] < n
        BY <1>1, <1>h, <3>2, <4>1, <4>2 DEF l
      <4> QED BY <1>5, <1>6, <2>2, <3>2, <3>4, <4>3
    <3> QED BY <1>7, <3>1, <3>3, <3>4
  <2> QED BY <2>1, <2>2
<1>15. SinksInTurn'
  <2> SUFFICES ASSUME NEW m \in 1 .. Sinks, m > 1, NEW i \in 1 .. Len(got'[m])
               PROVE  \E j \in 1 .. Len(got'[m - 1]) : got'[m - 1][j] = got'[m][i]
    BY DEF SinksInTurn
  <2>1. m - 1 \in 1 .. Sinks /\ m - 1 < m
    BY <1>1
  <2>2. CASE i \in 1 .. Len(got[m]) /\ got'[m][i] = got[m][i]
    <3>1. PICK j \in 1 .. Len(got[m - 1]) : got[m - 1][j] = got[m][i]
      BY <2>2 DEF AgentInv, AgentData, SinksInTurn
    <3> QED BY <1>11, <2>1, <2>2, <3>1
  <2>3. CASE m = k /\ got'[m][i] = p
    <3>1. PICK j \in 1 .. Len(got[m - 1]) : got[m - 1][j] = p
      BY <1>h, <2>1, <2>3
    <3> QED BY <1>11, <2>1, <2>3, <3>1
  <2> QED BY <1>10, <2>2, <2>3
<1>16. AllReached'
  <2> SUFFICES ASSUME NEW d \in Clients, NEW x \in Numbers, x <= sent[d]
               PROVE  Reached(d, x)'
    BY <1>u DEF AllReached
  <2>1. Reached(d, x)
    BY DEF AgentInv, AgentData, AllReached
  <2>2. CASE hand[d] = <<x, 1>> /\ d = c
    <3>1. x = n /\ k = 1
      BY <1>1, <2>2
    <3>2. got'[1][l + 1] = <<c, x>> /\ l + 1 \in 1 .. Len(got'[1])
      BY <1>6, <1>7, <3>1 DEF p
    <3> QED BY <2>2, <3>2 DEF Reached
  <2>3. CASE hand[d] = <<x, 1>> /\ d # c
    BY <1>8, <2>3 DEF Reached
  <2>4. CASE hand[d] # <<x, 1>>
    BY <1>1, <1>u, <1>11, <2>1, <2>4 DEF Reached
  <2> QED BY <2>2, <2>3, <2>4
<1>17. Streams'
  BY <1>u DEF AgentInv, AgentData, Streams
<1>18. A!TypeOK'
  BY <1>u DEF AgentInv, A!TypeOK
<1>19. Listed'
  BY <1>u, ListedRests DEF AgentInv
<1> QED BY <1>9, <1>12, <1>13, <1>14, <1>15, <1>16, <1>17, <1>18, <1>19
        DEF AgentInv, AgentData

\* A sequence without its k-th element.
LEMMA WithoutAt ==
  ASSUME NEW M, NEW s \in Seq(M), NEW k \in 1 .. Len(s)
  PROVE  /\ A!RemoveAt(s, k) \in Seq(M) /\ Len(A!RemoveAt(s, k)) = Len(s) - 1
         /\ \A i \in 1 .. k - 1 : A!RemoveAt(s, k)[i] = s[i]
         /\ \A i \in k .. Len(s) - 1 : A!RemoveAt(s, k)[i] = s[i + 1]
<1> DEFINE l == Len(s)
<1> DEFINE a == SubSeq(s, 1, k - 1)
<1> DEFINE b == SubSeq(s, k + 1, l)
<1>1. l \in Nat /\ k \in Nat /\ k > 0 /\ k <= l /\ \A i \in 1 .. l : s[i] \in M
  OBVIOUS
<1> HIDE DEF l
<1>2. a \in Seq(M) /\ Len(a) = k - 1 /\ \A i \in 1 .. k - 1 : a[i] = s[i]
  BY <1>1, SubSeqProperties
<1>3. b \in Seq(M) /\ Len(b) = l - k /\ \A i \in 1 .. l - k : b[i] = s[k + i]
  BY <1>1, SubSeqProperties
<1>4. A!RemoveAt(s, k) = a \o b
  BY DEF A!RemoveAt, l
<1> HIDE DEF a, b
<1>5. /\ a \o b \in Seq(M) /\ Len(a \o b) = (k - 1) + (l - k)
      /\ \A i \in 1 .. (k - 1) + (l - k) :
           (a \o b)[i] = IF i <= k - 1 THEN a[i] ELSE b[i - (k - 1)]
  <2>1. /\ a \o b \in Seq(M) /\ Len(a \o b) = Len(a) + Len(b)
        /\ \A i \in 1 .. Len(a) + Len(b) :
             (a \o b)[i] = IF i <= Len(a) THEN a[i] ELSE b[i - Len(a)]
    BY ONLY <1>2, <1>3, ConcatProperties
  <2>2. Len(a) = k - 1 /\ Len(b) = l - k
    BY <1>2, <1>3
  <2> QED BY ONLY <2>1, <2>2
<1>6. /\ (k - 1) + (l - k) = l - 1
      /\ \A i \in 1 .. k - 1 : i \in 1 .. l - 1 /\ i <= k - 1
      /\ \A i \in k .. l - 1 : /\ i \in 1 .. l - 1 /\ ~ (i <= k - 1)
                               /\ i - (k - 1) \in 1 .. l - k /\ k + (i - (k - 1)) = i + 1
  BY <1>1
<1> DEFINE u == a \o b
<1> HIDE DEF u
<1>7. \A i \in 1 .. k - 1 : u[i] = s[i]
  BY <1>2, <1>5, <1>6 DEF u
<1>8. \A i \in k .. l - 1 : u[i] = s[i + 1]
  BY <1>3, <1>5, <1>6 DEF u
<1> QED BY <1>4, <1>5, <1>6, <1>7, <1>8 DEF l, u

\* removeConn: the connection is no longer listed, the others are.
LEMMA ListedRemoves ==
  ASSUME Listed, torn \in BOOLEAN, NEW c \in Clients, A!RemoveConn(c),
         conn \in [Clients -> {"new", "queued", "linking", "served", "gone"}],
         conn' = [conn EXCEPT ![c] = "gone"]
  PROVE  Listed'
<1> DEFINE l == Len(conns)
<1>1. /\ conns \in Seq(Clients) /\ l \in Nat /\ DOMAIN conns = 1 .. l
      /\ \A i \in 1 .. l : conns[i] \in Clients
  BY DEF Listed
<1>2. conn'[c] = "gone" /\ \A d \in Clients : d # c => conn'[d] = conn[d]
  OBVIOUS
<1>3. torn' \/ ~torn'
  OBVIOUS
<1>4. ~torn' => ~torn
  BY DEF A!RemoveConn
<1>5. A!Range(conns) = {conns[i] : i \in 1 .. l}
  BY <1>1 DEF A!Range
<1>6. CASE c \notin A!Range(conns)
  <2>1. conns' = conns
    BY <1>6 DEF A!RemoveConn
  <2>2. \A i \in 1 .. l : conns[i] # c
    BY <1>5, <1>6
  <2>3. conns' \in Seq(Clients)
    BY <1>1, <2>1
  <2>4. ASSUME ~torn'
        PROVE  /\ \A i, j \in 1 .. Len(conns') : conns'[i] = conns'[j] => i = j
               /\ \A i \in 1 .. Len(conns') : conn'[conns'[i]] = "served"
               /\ \A d \in Clients : conn'[d] = "served" =>
                    \E i \in 1 .. Len(conns') : conns'[i] = d
    BY <1>1, <1>2, <1>4, <2>1, <2>2, <2>4 DEF Listed
  <2> QED BY <2>3, <2>4 DEF Listed
<1>7. CASE c \in A!Range(conns)
  <2> DEFINE k == CHOOSE i \in DOMAIN conns : conns[i] = c
  <2>1. k \in 1 .. l /\ conns[k] = c
    <3>1. \E i \in DOMAIN conns : conns[i] = c
      BY <1>1, <1>5, <1>7
    <3>2. k \in DOMAIN conns /\ conns[k] = c
      BY <3>1
    <3> QED BY <1>1, <3>2
  <2>2. conns' = A!RemoveAt(conns, k)
    BY <1>7 DEF A!RemoveConn
  <2> HIDE DEF k
  <2>3. /\ conns' \in Seq(Clients) /\ Len(conns') = l - 1
        /\ \A i \in 1 .. k - 1 : conns'[i] = conns[i]
        /\ \A i \in k .. l - 1 : conns'[i] = conns[i + 1]
    <3> DEFINE q == conns
    <3>1. q \in Seq(Clients) /\ k \in 1 .. Len(q) /\ l = Len(q) /\ conns' = A!RemoveAt(q, k)
      BY <1>1, <2>1, <2>2
    <3> HIDE DEF q, l
    <3>2. /\ A!RemoveAt(q, k) \in Seq(Clients) /\ Len(A!RemoveAt(q, k)) = Len(q) - 1
          /\ \A i \in 1 .. k - 1 : A!RemoveAt(q, k)[i] = q[i]
          /\ \A i \in k .. Len(q) - 1 : A!RemoveAt(q, k)[i] = q[i + 1]
      BY ONLY <3>1, WithoutAt
    <3> QED BY <3>1, <3>2 DEF q
  <2> HIDE DEF l
  \* Where the i-th of conns' was, and where the others are now.
  <2> DEFINE Was(i) == IF i < k THEN i ELSE i + 1
  <2> DEFINE Is(i) == IF i < k THEN i ELSE i - 1
  <2>4. /\ \A i \in 1 .. l - 1 : /\ Was(i) \in 1 .. l /\ Was(i) # k
                                 /\ i \in 1 .. k - 1 \/ i \in k .. l - 1
        /\ \A i, j \in 1 .. l - 1 : Was(i) = Was(j) => i = j
        /\ \A i \in 1 .. l : i # k => Is(i) \in 1 .. l - 1 /\ Was(Is(i)) = i
    BY <1>1, <2>1
  <2>5. \A i \in 1 .. l - 1 : conns'[i] = conns[Was(i)]
    <3>1. ASSUME NEW i \in 1 .. k - 1 PROVE conns'[i] = conns[Was(i)]
      <4>1. i < k
        BY <2>1, <1>1
      <4> QED BY <2>3, <4>1
    <3>2. ASSUME NEW i \in k .. l - 1 PROVE conns'[i] = conns[Was(i)]
      <4>1. ~ (i < k)
        BY <2>1, <1>1
      <4> QED BY <2>3, <4>1
    <3> QED BY <2>4, <3>1, <3>2
  <2> HIDE DEF Was, Is
  <2>6. ASSUME ~torn'
        PROVE  /\ \A i, j \in 1 .. Len(conns') : conns'[i] = conns'[j] => i = j
               /\ \A i \in 1 .. Len(conns') : conn'[conns'[i]] = "served"
               /\ \A d \in Clients : conn'[d] = "served" =>
                    \E i \in 1 .. Len(conns') : conns'[i] = d
    <3>1. /\ \A i, j \in 1 .. l : conns[i] = conns[j] => i = j
          /\ \A i \in 1 .. l : conn[conns[i]] = "served"
          /\ \A d \in Clients : conn[d] = "served" => \E i \in 1 .. l : conns[i] = d
      BY <1>4, <2>6 DEF Listed, l
    <3>2. \A i, j \in 1 .. l - 1 : conns'[i] = conns'[j] => i = j
      BY <2>4, <2>5, <3>1
    <3>3. ASSUME NEW i \in 1 .. l - 1 PROVE conn'[conns'[i]] = "served"
      <4>1. conns[Was(i)] # c /\ conns[Was(i)] \in Clients /\ conn[conns[Was(i)]] = "served"
        BY <1>1, <2>1, <2>4, <3>1
      <4> QED BY <1>2, <2>5, <4>1
    <3>4. ASSUME NEW d \in Clients, conn'[d] = "served" PROVE \E i \in 1 .. l - 1 : conns'[i] = d
      <4>1. d # c /\ conn[d] = "served"
        BY <1>2, <3>4
      <4>2. PICK i \in 1 .. l : conns[i] = d
        BY <3>1, <4>1
      <4>3. i # k
        BY <2>1, <4>1, <4>2
      <4>4. Is(i) \in 1 .. l - 1 /\ Was(Is(i)) = i
        BY <2>4, <4>3
      <4> QED BY <2>5, <4>2, <4>4
    <3> QED BY <2>3, <3>2, <3>3, <3>4
  <2> QED BY <2>3, <2>6 DEF Listed
<1> QED BY <1>6, <1>7

\* Serve ends at the end of a connection's stream.
LEMMA AgentEOF ==
  ASSUME AgentInv, NEW c \in Clients, A!DecodeEOF(c) PROVE AgentInv'
<1>0. AgentTypes /\ A!TypeOK /\ Listed
  BY DEF AgentInv, AgentData
<1>1. /\ conn' = [conn EXCEPT ![c] = "gone"] /\ stream' = [stream EXCEPT ![c] = << >>]
      /\ UNCHANGED <<apc, shut, sent, hand, got, refused, stuck, dead>>
  BY DEF A!DecodeEOF, A!sinkVars
<1>2. /\ conn'[c] = "gone" /\ \A d \in Clients : d # c => conn'[d] = conn[d]
      /\ conn' \in [Clients -> {"new", "queued", "linking", "served", "gone"}]
  BY <1>0, <1>1 DEF A!TypeOK
<1>3. /\ Len(stream'[c]) = 0 /\ \A d \in Clients : d # c => stream'[d] = stream[d]
      /\ stream' \in [Clients -> Seq(Entries)]
  <2>1. << >> \in Seq(Entries) /\ Len(<< >>) = 0
    OBVIOUS
  <2> QED BY <1>0, <1>1, <2>1 DEF AgentTypes
<1>4. AgentTypes'
  BY <1>0, <1>1, <1>3 DEF AgentTypes
<1>5. A!TypeOK'
  <2>1. torn' \in BOOLEAN
    BY <1>0 DEF A!DecodeEOF, A!RemoveConn, A!TypeOK
  <2> QED BY <1>0, <1>1, <1>2, <1>3, <2>1 DEF A!TypeOK, A!Broken, Entries
<1>6. Streams'
  <2>1. ASSUME NEW d \in Clients
        PROVE  /\ \A i \in 1 .. Len(stream'[d]) : stream'[d][i] <= sent[d]
               /\ \A i, j \in 1 .. Len(stream'[d]) :
                    i < j => stream'[d][i] > 0
                             /\ (stream'[d][j] > 0 => stream'[d][i] < stream'[d][j])
    <3>1. CASE d = c
      BY <1>3, <3>1
    <3>2. CASE d # c
      BY <1>3, <3>2 DEF AgentInv, AgentData, Streams
    <3> QED BY <3>1, <3>2
  <2> QED BY <1>1, <2>1 DEF Streams
<1>7. StreamsNewer'
  <2>1. ASSUME NEW d \in Clients
        PROVE  /\ \A i \in 1 .. Len(stream'[d]) :
                    stream'[d][i] > 0 => Passed(d, stream'[d][i])
               /\ Passed(d, sent[d] + 1)
    <3>1. CASE d = c
      BY <1>3, <3>1 DEF AgentInv, AgentData, StreamsNewer
    <3>2. CASE d # c
      BY <1>3, <3>2 DEF AgentInv, AgentData, StreamsNewer
    <3> QED BY <3>1, <3>2
  <2> QED BY <1>1, <2>1 DEF StreamsNewer, Passed
<1>8. Hands' /\ SinksOrdered' /\ SinksInTurn'
  <2>1. Hands'
    BY <1>1 DEF AgentInv, AgentData, Hands
  <2> QED BY <1>1, <2>1 DEF AgentInv, AgentData, SinksOrdered, SinksInTurn
<1>9. AllReached'
  <2> SUFFICES ASSUME NEW d \in Clients, NEW n \in Numbers, n <= sent[d]
               PROVE  Reached(d, n)'
    BY <1>1 DEF AllReached
  <2>1. Reached(d, n)
    BY DEF AgentInv, AgentData, AllReached
  <2>2. CASE d = c
    BY <1>2, <2>2 DEF Reached
  <2>3. CASE d # c
    BY <1>1, <1>2, <1>3, <2>1, <2>3 DEF Reached
  <2> QED BY <2>2, <2>3
<1>10. Listed'
  <2>1. A!RemoveConn(c)
    BY DEF A!DecodeEOF
  <2> QED BY <1>0, <1>1, <2>1, ListedRemoves DEF A!TypeOK
<1> QED BY <1>4, <1>5, <1>6, <1>7, <1>8, <1>9, <1>10 DEF AgentInv, AgentData

\* trackConn: the connection is served, and listed unless the list is torn.
LEMMA AgentTracks ==
  ASSUME AgentInv, NEW c \in Clients, A!Track(c) PROVE AgentInv'
<1>0. AgentData /\ A!TypeOK /\ Listed
  BY DEF AgentInv
<1>1. /\ conn[c] = "linking" /\ conn' = [conn EXCEPT ![c] = "served"]
      /\ UNCHANGED <<apc, shut, torn, stream, sent, hand, got, refused, stuck>>
      /\ \/ conns' = Append(conns, c) /\ ~torn /\ dead' = dead
         \/ conns' = conns /\ torn /\ dead' \in BOOLEAN
  BY DEF A!Track, A!sinkVars
<1>2. /\ conn'[c] = "served" /\ \A d \in Clients : d # c => conn'[d] = conn[d]
      /\ conn' \in [Clients -> {"new", "queued", "linking", "served", "gone"}]
  BY <1>0, <1>1 DEF A!TypeOK
<1>3. AgentData'
  <2>1. \A d \in Clients : conn[d] = "gone" => conn'[d] = "gone"
    BY <1>1, <1>2
  <2> QED BY <1>0, <1>1, <2>1, DataRests
<1>4. A!TypeOK'
  <2>1. dead' \in BOOLEAN
    BY <1>0, <1>1 DEF A!TypeOK
  <2> QED BY <1>0, <1>1, <1>2, <2>1 DEF A!TypeOK
<1>5. Listed'
  <2>1. CASE torn
    BY <1>0, <1>1, <2>1 DEF Listed
  <2>2. CASE ~torn
    <3> DEFINE l == Len(conns)
    <3>1. /\ conns \in Seq(Clients) /\ l \in Nat
          /\ \A i \in 1 .. l : conns[i] \in Clients /\ conn[conns[i]] = "served"
          /\ \A i, j \in 1 .. l : conns[i] = conns[j] => i = j
          /\ \A d \in Clients : conn[d] = "served" => \E i \in 1 .. l : conns[i] = d
      BY <1>0, <2>2 DEF Listed
    <3>2. conns' = Append(conns, c)
      BY <1>1, <2>2
    <3>3. /\ conns' \in Seq(Clients) /\ Len(conns') = l + 1 /\ conns'[l + 1] = c
          /\ \A i \in 1 .. l : conns'[i] = conns[i]
      BY <3>1, <3>2
    <3> HIDE DEF l
    <3>4. /\ \A i \in 1 .. l + 1 : i \in 1 .. l \/ i = l + 1
          /\ \A i \in 1 .. l : i \in 1 .. l + 1
          /\ l + 1 \in 1 .. l + 1
      BY <3>1
    <3>5. \A i \in 1 .. l : conns[i] # c
      BY <1>1, <3>1
    <3>6. \A i, j \in 1 .. l + 1 : conns'[i] = conns'[j] => i = j
      BY <3>1, <3>3, <3>4, <3>5
    <3>7. \A i \in 1 .. l + 1 : conn'[conns'[i]] = "served"
      BY <1>2, <3>1, <3>3, <3>4
    <3>8. ASSUME NEW d \in Clients, conn'[d] = "served" PROVE \E i \in 1 .. l + 1 : conns'[i] = d
      <4>1. CASE d = c
        BY <3>3, <3>4, <4>1
      <4>2. CASE d # c
        <5>1. PICK i \in 1 .. l : conns[i] = d
          BY <1>2, <3>1, <3>8, <4>2
        <5> QED BY <3>3, <3>4, <5>1
      <4> QED BY <4>1, <4>2
    <3> QED BY <3>3, <3>6, <3>7, <3>8 DEF Listed
  <2> QED BY <2>1, <2>2
<1> QED BY <1>3, <1>4, <1>5 DEF AgentInv

\* The steps that touch neither the messages nor the list of connections.
LEMMA AgentRests ==
  ASSUME AgentInv, UNCHANGED <<sent, stream, hand, got, refused, conns, torn>>,
         apc' \in {"start", "accept", "failed"}, shut' \in BOOLEAN, dead' \in BOOLEAN,
         conn' \in [Clients -> {"new", "queued", "linking", "served", "gone"}],
         \A c \in Clients : /\ conn[c] = "gone" => conn'[c] = "gone"
                            /\ conn'[c] = "served" <=> conn[c] = "served"
  PROVE  AgentInv'
<1>1. AgentData'
  BY DataRests DEF AgentInv
<1>2. Listed'
  BY ListedRests DEF AgentInv
<1>3. A!TypeOK'
  BY DEF AgentInv, A!TypeOK
<1> QED BY <1>1, <1>2, <1>3 DEF AgentInv

\* Start, Close, the connections before they are served, a sink that no longer
\* returns, and the process's end.
LEMMA AgentOthers ==
  ASSUME AgentInv,
         \/ A!Listen \/ A!Close \/ UNCHANGED A!vars
         \/ \E c \in Clients : A!Dial(c) \/ A!Accept(c) \/ A!DecodeFails(c)
         \/ \E k \in RedisSinks : A!Stick(k)
  PROVE  AgentInv'
<1>0. /\ apc \in {"start", "accept", "failed"} /\ shut \in BOOLEAN /\ dead \in BOOLEAN
      /\ conn \in [Clients -> {"new", "queued", "linking", "served", "gone"}]
  BY DEF AgentInv, A!TypeOK
<1>1. CASE A!Listen
  BY <1>0, <1>1, AgentRests DEF A!Listen, A!connVars, A!sinkVars
<1>2. CASE A!Close
  <2>1. /\ UNCHANGED <<sent, stream, hand, got, refused, conns, torn, apc>>
        /\ shut' = TRUE /\ dead' = (apc # "accept")
        /\ conn' = [c \in Clients |-> IF conn[c] = "queued" THEN "gone" ELSE conn[c]]
    BY <1>2 DEF A!Close, A!sinkVars
  <2>2. shut' \in BOOLEAN /\ dead' \in BOOLEAN
    BY <2>1
  <2>3. /\ conn' \in [Clients -> {"new", "queued", "linking", "served", "gone"}]
        /\ \A c \in Clients : /\ conn[c] = "gone" => conn'[c] = "gone"
                              /\ conn'[c] = "served" <=> conn[c] = "served"
    BY <1>0, <2>1
  <2> QED BY <1>0, <2>1, <2>2, <2>3, AgentRests
<1>3. CASE UNCHANGED A!vars
  BY <1>0, <1>3, AgentRests DEF A!vars, A!connVars, A!sinkVars
<1>4. ASSUME NEW c \in Clients, A!Dial(c) PROVE AgentInv'
  <2>1. /\ UNCHANGED <<sent, stream, hand, got, refused, conns, torn, apc, shut, dead>>
        /\ conn[c] = "new" /\ conn' = [conn EXCEPT ![c] = "queued"]
    BY <1>4 DEF A!Dial, A!sinkVars
  <2>2. /\ conn' \in [Clients -> {"new", "queued", "linking", "served", "gone"}]
        /\ \A d \in Clients : /\ conn[d] = "gone" => conn'[d] = "gone"
                              /\ conn'[d] = "served" <=> conn[d] = "served"
    BY <1>0, <2>1
  <2> QED BY <1>0, <2>1, <2>2, AgentRests
<1>5. ASSUME NEW c \in Clients, A!Accept(c) PROVE AgentInv'
  <2>1. /\ UNCHANGED <<sent, stream, hand, got, refused, conns, torn, apc, shut, dead>>
        /\ conn[c] = "queued" /\ conn' = [conn EXCEPT ![c] = "linking"]
    BY <1>5 DEF A!Accept, A!sinkVars
  <2>2. /\ conn' \in [Clients -> {"new", "queued", "linking", "served", "gone"}]
        /\ \A d \in Clients : /\ conn[d] = "gone" => conn'[d] = "gone"
                              /\ conn'[d] = "served" <=> conn[d] = "served"
    BY <1>0, <2>1
  <2> QED BY <1>0, <2>1, <2>2, AgentRests
<1>6. ASSUME NEW c \in Clients, A!DecodeFails(c) PROVE AgentInv'
  <2>1. dead' \in BOOLEAN
    BY <1>6 DEF A!DecodeFails
  <2> QED BY <1>0, <1>6, <2>1, AgentRests DEF A!DecodeFails, A!connVars, A!sinkVars
<1>7. ASSUME NEW k \in RedisSinks, A!Stick(k) PROVE AgentInv'
  BY <1>0, <1>7, AgentRests DEF A!Stick, A!connVars
<1> QED BY <1>1, <1>2, <1>3, <1>4, <1>5, <1>6, <1>7

\* ManyReceiver.Receive's next sink takes the message or refuses it.
LEMMA AgentReceives ==
  ASSUME AgentInv, NEW c \in Clients, A!Receive(c) PROVE AgentInv'
<1>1. /\ hand[c] # << >>
      /\ UNCHANGED <<apc, shut, conn, conns, torn, stream, sent, stuck, dead>>
      /\ \/ /\ got' = [got EXCEPT ![hand[c][2]] = Append(@, <<c, hand[c][1]>>)]
            /\ hand' = [hand EXCEPT ![c] = IF hand[c][2] = Sinks THEN << >>
                                           ELSE <<hand[c][1], hand[c][2] + 1>>]
            /\ refused' = refused
         \/ /\ refused' = refused \cup {<<c, hand[c][1]>>}
            /\ hand' = [hand EXCEPT ![c] = << >>]
            /\ got' = got
  BY DEF A!Receive, A!AfterError, A!None, A!connVars
<1> QED BY <1>1, AgentTaken, AgentRefused

\* Every step keeps the invariant.
LEMMA AgentStep == ASSUME AgentInv, [A!Next]_(A!vars) PROVE AgentInv'
<1>1. ASSUME NEW c \in Clients, NEW how \in {A!EOF, A!Broken}, A!End(c, how) PROVE AgentInv'
  BY <1>1, AgentEnds
<1>2. ASSUME NEW c \in Clients, A!Serve(c) PROVE AgentInv'
  BY <1>2, AgentDecodes, AgentEOF, AgentReceives, AgentOthers DEF A!Serve
<1> QED BY <1>1, <1>2, AgentOthers, AgentWrites, AgentTracks DEF A!Next

\* However the connections interleave, whichever sinks fail or no longer
\* return, whenever Close is called: a sink gets the messages of a connection in
\* order and once, after every sink before it; a message its first sink did not
\* fail on is in the stream, with the goroutine that read it or with that sink;
\* and s.conns is what is served unless the race in trackConn tore it (serve,
\* ManyReceiver.Receive, trackConn, removeConn).
THEOREM AgentRelays == A!Spec => []Relays
<1>1. A!Init => AgentInv
  BY AgentInit
<1>2. AgentInv /\ [A!Next]_(A!vars) => AgentInv'
  BY AgentStep
<1>3. AgentInv => Relays
  BY AgentKeeps
<1> QED BY <1>1, <1>2, <1>3, PTL DEF A!Spec

-----------------------------------------------------------------------------
(* All of them                                                             *)

\* The five invariants under the specification that the run explores: the
\* agent's server, the pipeline, the redis list, the TCP receiver and the
\* synchronous logger, whichever of them moves.
THEOREM NetSafe ==
  Spec => [](Relays /\ PipelineRuns /\ Queues /\ KeepsAcked /\ ReadsWritten)
BY NetOfParts, AgentRelays, PipelineStarts, RedisQueues, RecvKeepsAcked, ReadWritesLines, PTL
=============================================================================
