---------------------------- MODULE BufferProofs ----------------------------
(***************************************************************************)
(* Proofs about what is held between a source and its reader: LocalConn    *)
(* buffers messages until the agent takes them, Spool keeps them in files, *)
(* S3 keeps the files in a bucket, and the pollers keep the events they    *)
(* were answered.  For every value of their constants.                     *)
(***************************************************************************)
EXTENDS LocalConn, Spool, Poller, S3, Lemmas

-----------------------------------------------------------------------------
(* The inductive invariant                                                 *)

\* How many messages process took from the feeder.
Took == offered - Len(feeder)

\* What process took is in one place, and in it once.
Placed ==
  /\ Run(feeder, Took) /\ Took >= 0
  /\ IsInjective(written) /\ IsInjective(buffer)
  /\ Range(written) \cap Range(buffer) = {}
  /\ (Range(written) \cup Range(buffer)) \cap dropped = {}
  /\ Range(written) \cup Range(buffer) \cup dropped = 1 .. Took

\* Before the buffer overflows, what it holds comes after what was sent, and
\* it is empty when a message may be sent past it.
Ordered ==
  /\ lpc = "select" /\ connected => buffer = << >>
  /\ dropped = {} => /\ Run(written, 0) /\ Run(buffer, Len(written))
                     /\ Took = Len(written) + Len(buffer)

\* The end: where process may be for each place of the caller of Close, and
\* what the end of the drain and of finalFlush leave.
Closing ==
  /\ caller \in {"open", "shutdown"} <=> lpc \in {"select", "flush"}
  /\ caller = "closed" <=> lpc = "returned"
  /\ lpc \in {"start", "final", "done", "returned"} => asked <= Took
  /\ lpc \in {"done", "returned"} =>
       buffer = << >> \/ (tries = MaxTries /\ ~connected)

IInv == TypeOK /\ Placed /\ Ordered /\ Closing

-----------------------------------------------------------------------------
(* Each step keeps it                                                      *)

\* The invariant holds when process starts.
LEMMA InitHolds == Init => IInv
<1> SUFFICES ASSUME Init PROVE IInv
  OBVIOUS
<1> USE LocalAssumption
<1>1. /\ << >> \in Seq(Msgs) /\ Len(<< >>) = 0 /\ Range(<< >>) = {}
      /\ IsInjective(<< >>) /\ Took = 0
  <2>0. << >> \in Seq(Msgs) /\ Len(<< >>) = 0
    OBVIOUS
  <2>1. Took = 0
    <3>1. offered = 0 /\ feeder = << >>
      BY DEF Init
    <3>2. Len(feeder) = 0
      BY <3>1
    <3>3. Took = 0 - 0
      BY ONLY <3>1, <3>2 DEF Took
    <3> QED
      BY <3>3
  <2>2. DOMAIN << >> = {}
    OBVIOUS
  <2> QED
    BY <2>0, <2>1, <2>2 DEF Range, IsInjective
<1>2. TypeOK
  <2>1. /\ tries \in 0 .. MaxTries + 1 /\ offered \in 0 .. MaxMsgs
        /\ asked \in 0 .. offered /\ stops \in 0 .. MaxStops
        /\ Len(buffer) <= MaxBuffer /\ Len(feeder) <= Backlog
    BY <1>1 DEF Init
  <2>2. connected \in BOOLEAN /\ listening \in BOOLEAN /\ whole \in BOOLEAN
    BY DEF Init
  <2> QED
    BY <1>1, <2>1, <2>2 DEF Init, TypeOK
<1>3. Placed
  <2>1. Run(feeder, Took) /\ Took >= 0
    BY <1>1 DEF Init, Run
  <2>2. 1 .. Took = {}
    BY <1>1
  <2> QED
    BY <1>1, <2>1, <2>2 DEF Init, Placed
<1>4. Ordered
  BY <1>1 DEF Init, Ordered, Run
<1>5. Closing
  BY DEF Init, Closing
<1> QED
  BY <1>2, <1>3, <1>4, <1>5 DEF IInv

\* Messages that process has, and what it takes next.
LEMMA TookNext ==
  ASSUME IInv
  PROVE  /\ Took \in Nat /\ Len(feeder) \in Nat /\ offered \in Nat
         /\ 1 .. Took \subseteq Msgs
         /\ feeder # << >> => /\ Head(feeder) = Took + 1 /\ Head(feeder) \in Msgs
                              /\ Tail(feeder) \in Seq(Msgs)
                              /\ Len(Tail(feeder)) = Len(feeder) - 1
                              /\ Run(Tail(feeder), Took + 1)
<1>1. /\ Took \in Nat /\ Len(feeder) \in Nat /\ offered \in Nat
      /\ offered <= MaxMsgs
  BY LocalAssumption DEF IInv, TypeOK, Placed, Took
<1>2. 1 .. Took \subseteq Msgs
  BY <1>1, LocalAssumption DEF Took, Msgs
<1>3. feeder \in Seq(Msgs) /\ Run(feeder, Took)
  BY DEF IInv, TypeOK, Placed
<1> QED
  BY <1>1, <1>2, <1>3, RunTail

\* What a step that moves no message leaves.
LEMMA PlacesKeep ==
  ASSUME IInv, UNCHANGED <<buffer, feeder, offered, written, dropped>>
  PROVE  Placed' /\ Took' = Took
BY DEF IInv, Placed, Took

\* Write puts its message behind all the others.
LEMMA WriteKeeps == ASSUME IInv, Write PROVE IInv'
<1> USE LocalAssumption
<1>1. Took' = Took /\ Took \in Nat
  BY TookNext DEF Write, IInv, TypeOK, Took
<1>2. offered + 1 \in Msgs /\ offered + 1 = Took + Len(feeder) + 1
  BY TookNext DEF Write, IInv, TypeOK, Took, Msgs
<1>3. /\ feeder' \in Seq(Msgs) /\ Len(feeder') = Len(feeder) + 1
      /\ Run(feeder', Took)
  BY <1>1, <1>2, RunAppend DEF Write, IInv, TypeOK, Placed
<1>4. TypeOK'
  BY <1>3 DEF Write, IInv, TypeOK, agentVars
<1>5. Placed'
  BY <1>1, <1>3 DEF Write, IInv, Placed
<1> QED
  BY <1>1, <1>4, <1>5 DEF Write, IInv, Ordered, Closing

\* save takes the next message into the buffer, and drops at most one.
LEMMA SaveAdds ==
  ASSUME IInv, feeder # << >>, Save(Head(feeder)), feeder' = Tail(feeder),
         UNCHANGED <<written, offered>>
  PROVE  /\ buffer' \in Seq(Msgs) /\ Len(buffer') <= MaxBuffer
         /\ feeder' \in Seq(Msgs) /\ Len(feeder') = Len(feeder) - 1
         /\ dropped' \subseteq Msgs
         /\ Took' = Took + 1
         /\ Placed'
         /\ dropped' = {} =>
              /\ Run(written, 0) /\ Run(buffer', Len(written))
              /\ Took' = Len(written) + Len(buffer')
<1> USE LocalAssumption
<1> DEFINE m == Head(feeder)
<1>1. /\ Took \in Nat /\ m = Took + 1 /\ m \in Msgs
      /\ feeder' \in Seq(Msgs) /\ Len(feeder') = Len(feeder) - 1
      /\ Run(feeder', Took + 1)
      /\ Len(feeder) \in Nat /\ offered \in Nat
  BY TookNext
<1>2. Took' = Took + 1
  BY <1>1 DEF Took
<1>3. 1 .. (Took + 1) = 1 .. Took \cup {m} /\ m \notin 1 .. Took
  BY <1>1
<1> HIDE DEF m
<1>4. /\ m \notin Range(written) /\ m \notin Range(buffer) /\ m \notin dropped
  BY <1>3 DEF IInv, Placed
<1>5. buffer \in Seq(Msgs) /\ Len(buffer) <= MaxBuffer /\ dropped \subseteq Msgs
      /\ written \in Seq(Msgs) /\ Len(written) \in Nat /\ Len(buffer) \in Nat
  BY DEF IInv, TypeOK
<1>6. CASE Len(buffer) >= MaxBuffer
  <2>1. Len(buffer) = MaxBuffer /\ buffer # << >>
    BY <1>5, <1>6
  <2> DEFINE x == buffer[MaxBuffer]
  <2>2. /\ buffer' = <<m>> \o SubSeq(buffer, 1, MaxBuffer - 1)
        /\ dropped' = dropped \cup {x}
    BY <1>6 DEF Save, Saved, m
  <2>3. /\ buffer' \in Seq(Msgs) /\ Len(buffer') = MaxBuffer
        /\ IsInjective(buffer')
        /\ x \in Range(buffer)
        /\ Range(buffer') = {m} \cup (Range(buffer) \ {x})
    <3>1. m \in Msgs /\ IsInjective(buffer) /\ MaxBuffer = Len(buffer)
      BY <1>1, <2>1 DEF IInv, Placed, m
    <3> QED
      BY SMTT(30), <1>4, <1>5, <2>1, <2>2, <3>1, DistinctPush
  <2>4. Range(buffer) \subseteq Msgs
    BY <1>5, RangeOf
  <2> HIDE DEF x
  <2>5. /\ IsInjective(written)
        /\ Range(written) \cap Range(buffer) = {}
        /\ (Range(written) \cup Range(buffer)) \cap dropped = {}
        /\ Range(written) \cup Range(buffer) \cup dropped = 1 .. Took
    BY DEF IInv, Placed
  <2>6. Range(written) \cup Range(buffer') \cup dropped' = 1 .. (Took + 1)
    BY <1>3, <2>2, <2>3, <2>5
  <2>7. /\ Range(written) \cap Range(buffer') = {}
        /\ (Range(written) \cup Range(buffer')) \cap dropped' = {}
    BY <1>4, <2>2, <2>3, <2>5
  <2>8. Run(feeder', Took') /\ Took' >= 0
    BY <1>1, <1>2
  <2>9. written' = written
    OBVIOUS
  <2>10. Placed'
    BY <1>2, <2>3, <2>5, <2>6, <2>7, <2>8, <2>9 DEF Placed
  <2>11. dropped' # {} /\ dropped' \subseteq Msgs /\ Len(buffer') <= MaxBuffer
    BY <1>5, <2>2, <2>3, <2>4
  <2> QED
    BY <1>1, <1>2, <2>3, <2>10, <2>11
<1>7. CASE ~(Len(buffer) >= MaxBuffer)
  <2>1. buffer' = Append(buffer, m) /\ dropped' = dropped
    BY <1>7 DEF Save, Saved, m
  <2>2. /\ buffer' \in Seq(Msgs) /\ Len(buffer') = Len(buffer) + 1
        /\ IsInjective(buffer') /\ Range(buffer') = Range(buffer) \cup {m}
    BY <1>1, <1>4, <1>5, <2>1, DistinctAppend DEF IInv, Placed, m
  <2>3. Run(feeder', Took') /\ Took' >= 0
    BY <1>1, <1>2
  <2>4. Placed'
    BY <1>2, <1>3, <1>4, <2>1, <2>2, <2>3 DEF IInv, Placed
  <2>5. ASSUME dropped' = {}
        PROVE  /\ Run(written, 0) /\ Run(buffer', Len(written))
               /\ Took' = Len(written) + Len(buffer')
    <3>1. /\ Run(written, 0) /\ Run(buffer, Len(written))
          /\ Took = Len(written) + Len(buffer)
      BY <2>1, <2>5 DEF IInv, Ordered
    <3>2. m = Len(written) + Len(buffer) + 1
      BY <1>1, <3>1 DEF m
    <3>3. Run(buffer', Len(written))
      BY <1>1, <1>5, <2>1, <3>1, <3>2, RunAppend DEF m
    <3> QED
      BY <1>2, <1>5, <2>2, <3>1, <3>3
  <2>6. Len(buffer') <= MaxBuffer
    BY <1>5, <1>7, <2>2
  <2> QED
    BY <1>1, <1>2, <1>5, <2>1, <2>2, <2>4, <2>5, <2>6
<1> QED
  BY <1>6, <1>7


\* A send moves the oldest message of the buffer.
LEMMA SendMoves ==
  ASSUME IInv, SendFirst
  PROVE  /\ TypeOK' /\ Placed' /\ Took' = Took
         /\ dropped' = {} =>
              /\ Run(written', 0) /\ Run(buffer', Len(written'))
              /\ Took' = Len(written') + Len(buffer')
<1> USE LocalAssumption
<1> DEFINE m == Head(buffer)
<1>1. /\ buffer \in Seq(Msgs) /\ IsInjective(buffer) /\ buffer # << >>
      /\ written \in Seq(Msgs) /\ IsInjective(written)
      /\ Len(buffer) \in Nat /\ Len(written) \in Nat /\ Len(buffer) > 0
  BY DEF IInv, TypeOK, Placed, SendFirst
<1>2. /\ buffer' = Tail(buffer) /\ written' = Append(written, m)
      /\ UNCHANGED <<feeder, offered, dropped>>
  BY DEF SendFirst, Sent, logVars
<1>3. /\ buffer' \in Seq(Msgs) /\ Len(buffer') = Len(buffer) - 1
      /\ m \in Range(buffer) /\ Range(buffer') = Range(buffer) \ {m}
      /\ IsInjective(buffer')
  BY <1>1, <1>2, DistinctTail
<1>4. m \in Msgs /\ m \notin Range(written)
  <2>1. Range(buffer) \subseteq Msgs
    BY <1>1, RangeOf
  <2> QED
    BY <1>3, <2>1 DEF IInv, Placed
<1> HIDE DEF m
<1>5. /\ written' \in Seq(Msgs) /\ Len(written') = Len(written) + 1
      /\ Range(written') = Range(written) \cup {m}
      /\ IsInjective(written')
  BY <1>1, <1>2, <1>4, DistinctAppend
<1>6. Took' = Took
  BY <1>2 DEF Took
<1>7. TypeOK'
  BY <1>1, <1>3, <1>5 DEF SendFirst, IInv, TypeOK, logVars, agentVars
<1>8. Placed'
  <2>1. /\ Run(feeder', Took') /\ Took' >= 0
    BY <1>2, <1>6 DEF IInv, Placed
  <2>2. /\ Range(written) \cap Range(buffer) = {}
        /\ (Range(written) \cup Range(buffer)) \cap dropped = {}
        /\ Range(written) \cup Range(buffer) \cup dropped = 1 .. Took
    BY DEF IInv, Placed
  <2>3. /\ Range(written') \cap Range(buffer') = {}
        /\ (Range(written') \cup Range(buffer')) \cap dropped = {}
        /\ Range(written') \cup Range(buffer') \cup dropped = 1 .. Took
    BY <1>3, <1>4, <1>5, <2>2
  <2> QED
    BY <1>2, <1>3, <1>5, <1>6, <2>1, <2>3 DEF Placed
<1>9. ASSUME dropped' = {}
      PROVE  /\ Run(written', 0) /\ Run(buffer', Len(written'))
             /\ Took' = Len(written') + Len(buffer')
  <2>1. /\ Run(written, 0) /\ Run(buffer, Len(written))
        /\ Took = Len(written) + Len(buffer)
    BY <1>2, <1>9 DEF IInv, Ordered
  <2>2. m = Len(written) + 1 /\ Run(buffer', Len(written) + 1)
    BY <1>1, <1>2, <2>1, RunTail DEF m
  <2>3. m = 0 + Len(written) + 1 /\ 0 \in Int
    BY <1>1, <2>2
  <2>4. Run(written', 0)
    BY <1>1, <1>2, <1>4, <2>1, <2>3, RunAppend
  <2> QED
    BY <1>1, <1>3, <1>5, <1>6, <2>1, <2>2, <2>4
<1> QED
  BY <1>6, <1>7, <1>8, <1>9

\* The fast case: process sends what it took, and the buffer is empty.
LEMMA TakeMessageKeeps == ASSUME IInv, TakeMessage PROVE IInv'
<1> USE LocalAssumption
<1>1. CASE connected /\ whole
  <2> DEFINE m == Head(feeder)
  <2>1. /\ feeder' = Tail(feeder) /\ written' = Append(written, m)
        /\ feeder # << >> /\ lpc = "select"
        /\ UNCHANGED <<lpc, buffer, dropped, connected, tries, offered, caller,
                       asked, agentVars>>
    BY <1>1 DEF TakeMessage
  <2>2. buffer = << >>
    BY <1>1, <2>1 DEF IInv, Ordered
  <2>3. /\ Took \in Nat /\ m = Took + 1 /\ m \in Msgs
        /\ feeder' \in Seq(Msgs) /\ Len(feeder') = Len(feeder) - 1
        /\ Run(feeder', Took + 1)
        /\ Len(feeder) \in Nat /\ offered \in Nat
    BY <2>1, TookNext
  <2>4. Took' = Took + 1
    BY <2>1, <2>3 DEF Took
  <2>5. 1 .. (Took + 1) = 1 .. Took \cup {m} /\ m \notin 1 .. Took
    BY <2>3
  <2> HIDE DEF m
  <2>6. /\ m \notin Range(written) /\ m \notin Range(buffer) /\ m \notin dropped
    BY <2>5 DEF IInv, Placed
  <2>7. /\ written \in Seq(Msgs) /\ IsInjective(written)
    BY DEF IInv, TypeOK, Placed
  <2>8. /\ written' \in Seq(Msgs) /\ Len(written') = Len(written) + 1
        /\ Range(written') = Range(written) \cup {m}
        /\ IsInjective(written')
    BY <2>1, <2>3, <2>6, <2>7, DistinctAppend DEF m
  <2>9. TypeOK'
    BY <2>1, <2>3, <2>8 DEF IInv, TypeOK, agentVars
  <2>10. Placed'
    <3>1. Run(feeder', Took') /\ Took' >= 0
      BY <2>3, <2>4
    <3>2. /\ Range(written') \cap Range(buffer) = {}
          /\ (Range(written') \cup Range(buffer)) \cap dropped = {}
          /\ Range(written') \cup Range(buffer) \cup dropped = 1 .. (Took + 1)
      BY <2>5, <2>6, <2>8 DEF IInv, Placed
    <3>3. buffer' = buffer /\ dropped' = dropped
      BY <2>1
    <3> QED
      BY <2>4, <2>8, <3>1, <3>2, <3>3 DEF IInv, Placed
  <2>11. Ordered'
    <3>1. ASSUME dropped = {}
          PROVE  /\ Run(written', 0) /\ Took' = Len(written') + Len(buffer)
      <4>1. /\ Run(written, 0) /\ Took = Len(written) + Len(buffer)
        BY <3>1 DEF IInv, Ordered
      <4>2. Len(buffer) = 0 /\ Len(written) \in Nat
        BY <2>2, <2>7
      <4>3. m = 0 + Len(written) + 1 /\ 0 \in Int
        BY <2>3, <4>1, <4>2 DEF m
      <4>4. Run(written', 0)
        BY <2>1, <2>3, <2>7, <4>1, <4>3, RunAppend DEF m
      <4> QED
        BY <2>4, <2>8, <4>1, <4>2, <4>4
    <3>2. Run(buffer, Len(written'))
      BY <2>2 DEF Run
    <3> QED
      BY <2>1, <2>2, <3>1, <3>2 DEF Ordered
  <2>12. Closing'
    BY <2>1 DEF IInv, Closing
  <2> QED
    BY <2>9, <2>10, <2>11, <2>12 DEF IInv
<1>2. CASE ~(connected /\ whole)
  <2>1. /\ feeder' = Tail(feeder) /\ Save(Head(feeder))
        /\ feeder # << >> /\ lpc = "select" /\ lpc' = "flush"
        /\ UNCHANGED <<written, connected, tries, offered, caller, asked,
                       agentVars>>
    BY <1>2 DEF TakeMessage
  <2>2. /\ buffer' \in Seq(Msgs) /\ Len(buffer') <= MaxBuffer
        /\ feeder' \in Seq(Msgs) /\ Len(feeder') = Len(feeder) - 1
        /\ dropped' \subseteq Msgs
        /\ Took' = Took + 1
        /\ Placed'
        /\ dropped' = {} =>
             /\ Run(written, 0) /\ Run(buffer', Len(written))
             /\ Took' = Len(written) + Len(buffer')
    BY <2>1, SaveAdds
  <2>3. TypeOK'
    BY <2>1, <2>2 DEF IInv, TypeOK, agentVars
  <2>4. Ordered'
    BY <2>1, <2>2 DEF Ordered
  <2>5. Closing'
    BY <2>1 DEF IInv, Closing
  <2> QED
    BY <2>2, <2>3, <2>4, <2>5 DEF IInv
<1> QED
  BY <1>1, <1>2

\* The drain saves what is in the feeder, and then the feeder holds only what
\* was written after Close was called.
LEMMA DrainKeeps == ASSUME IInv, Drain PROVE IInv'
<1> USE LocalAssumption
<1>1. CASE feeder # << >>
  <2>1. /\ feeder' = Tail(feeder) /\ Save(Head(feeder))
        /\ lpc = "drain" /\ lpc' = "drain"
        /\ UNCHANGED <<written, connected, tries, offered, caller, asked,
                       agentVars>>
    BY <1>1 DEF Drain
  <2>2. /\ buffer' \in Seq(Msgs) /\ Len(buffer') <= MaxBuffer
        /\ feeder' \in Seq(Msgs) /\ Len(feeder') = Len(feeder) - 1
        /\ dropped' \subseteq Msgs
        /\ Took' = Took + 1
        /\ Placed'
        /\ dropped' = {} =>
             /\ Run(written, 0) /\ Run(buffer', Len(written))
             /\ Took' = Len(written) + Len(buffer')
    BY <1>1, <2>1, SaveAdds
  <2>3. TypeOK'
    BY <2>1, <2>2 DEF IInv, TypeOK, agentVars
  <2>4. Ordered'
    BY <2>1, <2>2 DEF Ordered
  <2>5. Closing'
    BY <2>1 DEF IInv, Closing
  <2> QED
    BY <2>2, <2>3, <2>4, <2>5 DEF IInv
<1>2. CASE feeder = << >>
  <2>1. /\ lpc = "drain" /\ lpc' = "start"
        /\ UNCHANGED <<feeder, buffer, dropped, written, connected, tries,
                       offered, caller, asked, agentVars>>
    BY <1>2 DEF Drain
  <2>2. Placed' /\ Took' = Took
    BY <2>1, PlacesKeep
  <2>3. asked <= Took
    BY <1>2 DEF IInv, TypeOK, Took
  <2>4. TypeOK'
    BY <2>1 DEF IInv, TypeOK, agentVars
  <2>5. Ordered'
    BY <2>1, <2>2 DEF IInv, Ordered
  <2>6. Closing'
    BY <2>1, <2>2, <2>3 DEF IInv, Closing
  <2> QED
    BY <2>2, <2>4, <2>5, <2>6 DEF IInv
<1> QED
  BY <1>1, <1>2

\* A send in the loop of flush or of finalFlush.
LEMMA SendsKeep == ASSUME IInv, FlushSends \/ FinalSends PROVE IInv'
<1>0. lpc \in {"flush", "final"} /\ SendFirst
  BY DEF FlushSends, FinalSends
<1>1. /\ TypeOK' /\ Placed' /\ Took' = Took
      /\ dropped' = {} =>
           /\ Run(written', 0) /\ Run(buffer', Len(written'))
           /\ Took' = Len(written') + Len(buffer')
  BY <1>0, SendMoves
<1>2. Ordered'
  BY <1>0, <1>1 DEF SendFirst, Ordered
<1>3. Closing'
  BY <1>0, <1>1 DEF SendFirst, IInv, Closing, logVars
<1> QED
  BY <1>1, <1>2, <1>3 DEF IInv

\* The steps that move no message.
Still ==
  \/ Close \/ TakeTick \/ TakeShutdown
  \/ FlushDials \/ FlushSendFails \/ FlushReturns
  \/ FinalStart \/ FinalDialFails \/ FinalDials \/ FinalSendFails
  \/ FinalReturns \/ Done \/ AgentStops \/ AgentStarts

\* They keep the invariant.
LEMMA StillKeeps == ASSUME IInv, Still PROVE IInv'
<1> USE LocalAssumption
<1>1. UNCHANGED <<buffer, feeder, offered, written, dropped>>
  BY DEF Still, Close, TakeTick, TakeShutdown, FlushDials, FlushSendFails,
     FlushReturns, FinalStart, FinalDialFails, FinalDials, FinalSendFails,
     FinalReturns, Done, AgentStops, AgentStarts, Dialed, SendFails, logVars
<1>2. Placed' /\ Took' = Took
  BY <1>1, PlacesKeep
<1>3. /\ lpc' \in {"select", "flush", "drain", "start", "final", "done",
                   "returned"}
      /\ caller' \in {"open", "shutdown", "done", "closed"}
      /\ tries' \in 0 .. MaxTries + 1
      /\ asked' \in 0 .. offered /\ stops' \in 0 .. MaxStops
  <2>1. /\ lpc' \in {"select", "flush", "drain", "start", "final", "done",
                     "returned"}
        /\ caller' \in {"open", "shutdown", "done", "closed"}
    BY DEF Still, Close, TakeTick, TakeShutdown, FlushDials, FlushSendFails,
       FlushReturns, FinalStart, FinalDialFails, FinalDials, FinalSendFails,
       FinalReturns, Done, AgentStops, AgentStarts, Dialed, SendFails, logVars,
       IInv, TypeOK, TickInto, ShutdownInto, AfterDial, AfterDialFails
  <2>2. /\ asked' = asked \/ asked' = offered
        /\ stops' = stops \/ (stops < MaxStops /\ stops' = stops + 1)
        /\ \/ tries' = tries
           \/ tries' = IF tries > MaxTries THEN tries ELSE tries + 1
    BY DEF Still, Close, TakeTick, TakeShutdown, FlushDials, FlushSendFails,
       FlushReturns, FinalStart, FinalDialFails, FinalDials, FinalSendFails,
       FinalReturns, Done, AgentStops, AgentStarts, Dialed, SendFails, logVars,
       IInv, agentVars
  <2>3. /\ tries \in 0 .. MaxTries + 1 /\ offered \in Nat
        /\ asked \in 0 .. offered /\ stops \in 0 .. MaxStops
    BY DEF IInv, TypeOK
  <2> QED
    BY <2>1, <2>2, <2>3
<1>4. connected' \in BOOLEAN /\ listening' \in BOOLEAN /\ whole' \in BOOLEAN
  BY DEF Still, Close, TakeTick, TakeShutdown, FlushDials, FlushSendFails,
     FlushReturns, FinalStart, FinalDialFails, FinalDials, FinalSendFails,
     FinalReturns, Done, AgentStops, AgentStarts, Dialed, SendFails,
     agentVars, IInv, TypeOK, Disconnected
<1>5. TypeOK'
  BY <1>1, <1>3, <1>4 DEF IInv, TypeOK
<1>6. Ordered'
  <2>1. lpc' = "select" /\ connected' => buffer = << >>
    BY DEF Still, Close, TakeTick, TakeShutdown, FlushDials, FlushSendFails,
       FlushReturns, FinalStart, FinalDialFails, FinalDials, FinalSendFails,
       FinalReturns, Done, AgentStops, AgentStarts, Dialed, SendFails,
       IInv, Ordered, TickInto, ShutdownInto, AfterDial, AfterDialFails,
       Disconnected
  <2> QED
    BY <1>1, <1>2, <2>1 DEF IInv, Ordered
<1>7. Closing'
  <2>1. /\ caller' \in {"open", "shutdown"} <=> lpc' \in {"select", "flush"}
        /\ caller' = "closed" <=> lpc' = "returned"
    BY DEF Still, Close, TakeTick, TakeShutdown, FlushDials, FlushSendFails,
       FlushReturns, FinalStart, FinalDialFails, FinalDials, FinalSendFails,
       FinalReturns, Done, AgentStops, AgentStarts, Dialed, SendFails, logVars,
       IInv, Closing, TypeOK, TickInto, ShutdownInto, AfterDial, AfterDialFails
  <2>2. lpc' \in {"start", "final", "done", "returned"} => asked' <= Took
    BY DEF Still, Close, TakeTick, TakeShutdown, FlushDials, FlushSendFails,
       FlushReturns, FinalStart, FinalDialFails, FinalDials, FinalSendFails,
       FinalReturns, Done, AgentStops, AgentStarts, Dialed, SendFails, logVars,
       IInv, Closing, TickInto, ShutdownInto, AfterDial
  <2>3. lpc' \in {"done", "returned"} =>
          buffer = << >> \/ (tries' = MaxTries /\ ~connected')
    BY DEF Still, Close, TakeTick, TakeShutdown, FlushDials, FlushSendFails,
       FlushReturns, FinalStart, FinalDialFails, FinalDials, FinalSendFails,
       FinalReturns, Done, AgentStops, AgentStarts, Dialed, SendFails, logVars,
       IInv, Closing, TickInto, ShutdownInto, AfterDial, AfterDialFails
  <2> QED
    BY <1>1, <1>2, <2>1, <2>2, <2>3 DEF Closing
<1> QED
  BY <1>2, <1>5, <1>6, <1>7 DEF IInv


\* Every step keeps the invariant.
LEMMA NextKeeps == IInv /\ [Next]_vars => IInv'
<1> SUFFICES ASSUME IInv, [Next]_vars PROVE IInv'
  OBVIOUS
<1>1. CASE UNCHANGED vars
  <2>1. /\ UNCHANGED <<buffer, feeder, offered, written, dropped>>
        /\ UNCHANGED <<lpc, connected, tries, caller, asked, agentVars>>
    BY <1>1 DEF vars, logVars
  <2>2. Placed' /\ Took' = Took
    BY <2>1, PlacesKeep
  <2>3. TypeOK' /\ Ordered' /\ Closing'
    BY <2>1, <2>2 DEF IInv, TypeOK, Ordered, Closing, agentVars
  <2> QED
    BY <2>2, <2>3 DEF IInv
<1>2. CASE Next
  BY <1>2, WriteKeeps, TakeMessageKeeps, DrainKeeps, SendsKeep, StillKeeps
     DEF Next, Select, FlushStep, FinalStep, Still
<1> QED
  BY <1>1, <1>2

\* In every behaviour.
LEMMA IInvHolds == Spec => []IInv
BY InitHolds, NextKeeps, PTL DEF Spec

-----------------------------------------------------------------------------
(* The theorem                                                             *)

\* The places are disjoint and together hold every message once.
LEMMA AllPlaced == ASSUME IInv PROVE Accounted
<1>1. /\ written \in Seq(Msgs) /\ buffer \in Seq(Msgs) /\ feeder \in Seq(Msgs)
      /\ Took \in Nat /\ Len(feeder) \in Nat /\ offered = Took + Len(feeder)
  BY TookNext DEF IInv, TypeOK, Took
<1>2. IsInjective(feeder) /\ Range(feeder) = Took + 1 .. offered
  <2>1. Run(feeder, Took) /\ Took \in Int
    BY <1>1 DEF IInv, Placed
  <2> QED
    BY <1>1, <2>1, RunDistinct
<1>3. 1 .. offered = 1 .. Took \cup (Took + 1 .. offered)
      /\ 1 .. Took \cap (Took + 1 .. offered) = {}
  BY <1>1
<1> DEFINE two == written \o buffer
<1> HIDE DEF two
<1>4. /\ two \in Seq(Msgs) /\ Range(two) = Range(written) \cup Range(buffer)
      /\ IsInjective(two)
  BY <1>1, DistinctConcat DEF IInv, Placed, two
<1>5. Range(two) \cap Range(feeder) = {} /\ dropped \cap Range(feeder) = {}
  BY <1>2, <1>3, <1>4 DEF IInv, Placed
<1> DEFINE all == two \o feeder
<1>6. Range(all) = Range(two) \cup Range(feeder) /\ IsInjective(all)
  <2>1. feeder \in Seq(Msgs) /\ two \in Seq(Msgs)
    BY <1>1, <1>4
  <2>2. /\ Range(all) = Range(two) \cup Range(feeder)
        /\ IsInjective(two) /\ IsInjective(feeder)
             /\ Range(two) \cap Range(feeder) = {} => IsInjective(all)
    BY ONLY <2>1, DistinctConcat
  <2> QED
    BY <1>2, <1>4, <1>5, <2>2
<1> HIDE DEF all
<1>7. Range(all) \cap dropped = {} /\ Range(all) \cup dropped = 1 .. offered
  BY <1>2, <1>3, <1>4, <1>5, <1>6 DEF IInv, Placed
<1> QED
  BY <1>6, <1>7 DEF Accounted, all, two

\* Without an overflow they hold them in order.
LEMMA AllOrdered == ASSUME IInv PROVE InOrder
<1> SUFFICES ASSUME dropped = {}
             PROVE  written \o buffer \o feeder = [i \in 1 .. offered |-> i]
  BY DEF InOrder
<1>1. /\ written \in Seq(Msgs) /\ buffer \in Seq(Msgs) /\ feeder \in Seq(Msgs)
      /\ Took \in Nat /\ Len(feeder) \in Nat /\ offered = Took + Len(feeder)
      /\ Len(written) \in Nat /\ Len(buffer) \in Nat
  BY TookNext DEF IInv, TypeOK, Took
<1>2. /\ Run(written, 0) /\ Run(buffer, Len(written)) /\ Run(feeder, Took)
      /\ Took = Len(written) + Len(buffer)
  BY DEF IInv, Ordered, Placed
<1> DEFINE two == written \o buffer
<1> HIDE DEF two
<1>3. two \in Seq(Msgs) /\ Len(two) = Took /\ Run(two, 0)
  <2>1. Run(buffer, 0 + Len(written)) /\ 0 \in Int
    BY <1>1, <1>2
  <2> QED
    BY <1>1, <1>2, <2>1, RunConcat DEF two
<1> DEFINE all == two \o feeder
<1> HIDE DEF all
<1>4. all \in Seq(Msgs) /\ Len(all) = offered /\ Run(all, 0)
  <2>1. Run(feeder, 0 + Len(two)) /\ 0 \in Int
    BY <1>1, <1>2, <1>3
  <2>2. all \in Seq(Msgs) /\ Len(all) = Len(two) + Len(feeder) /\ Run(all, 0)
    BY <1>1, <1>3, <2>1, RunConcat DEF all
  <2> QED
    BY <1>1, <1>3, <2>2
<1>5. all = [i \in 1 .. Len(all) |-> 0 + i]
  <2>1. 0 \in Int
    OBVIOUS
  <2> QED
    BY <1>4, <2>1, RunEqual
<1>6. all = [i \in 1 .. offered |-> i]
  BY <1>1, <1>4, <1>5
<1> QED
  BY <1>6 DEF all, two

\* A finalFlush that ends connected has emptied the buffer.
LEMMA NothingLeft == ASSUME IInv PROVE ClosedFlushed
<1> SUFFICES ASSUME caller = "closed", ~(tries = MaxTries /\ ~connected)
             PROVE  1 .. asked \subseteq Range(written) \cup dropped
  BY DEF ClosedFlushed
<1>1. buffer = << >> /\ asked <= Took
  BY DEF IInv, Closing
<1>2. Range(buffer) = {}
  <2>1. DOMAIN buffer = {}
    BY <1>1
  <2> QED
    BY <2>1 DEF Range
<1>3. Took \in Nat /\ asked \in Nat
  BY TookNext DEF IInv, TypeOK
<1>4. 1 .. asked \subseteq 1 .. Took
  BY <1>1, <1>3
<1> QED
  BY <1>2, <1>4 DEF IInv, Placed

\* Whatever the agent does and whenever it does it, every message Write
\* accepted is in exactly one place, the agent is sent the messages in their
\* order unless the buffer overflowed, and Close leaves nothing behind without
\* having tried as often as it may (process, flush, finalFlush).
THEOREM LocalOrderly == Spec => []Orderly
<1>1. IInv => Orderly
  BY AllPlaced, AllOrdered, NothingLeft DEF IInv, Orderly
<1> QED
  BY <1>1, IInvHolds, PTL


-----------------------------------------------------------------------------
(* Sequences in increasing order                                           *)

\* Two sequences, one after the other.
LEMMA ConcatRange ==
  ASSUME NEW A, NEW s \in Seq(A), NEW u \in Seq(A)
  PROVE  /\ s \o u \in Seq(A) /\ Len(s \o u) = Len(s) + Len(u)
         /\ \A i \in 1 .. Len(s) : (s \o u)[i] = s[i]
         /\ Range(s \o u) = Range(s) \cup Range(u)
<1>1. /\ s \o u \in Seq(A) /\ Len(s \o u) = Len(s) + Len(u)
      /\ DOMAIN s = 1 .. Len(s) /\ DOMAIN u = 1 .. Len(u)
      /\ DOMAIN (s \o u) = 1 .. Len(s) + Len(u)
      /\ Len(s) \in Nat /\ Len(u) \in Nat
  OBVIOUS
<1>2. /\ \A i \in 1 .. Len(s) : (s \o u)[i] = s[i]
      /\ \A i \in 1 .. Len(u) : (s \o u)[Len(s) + i] = u[i]
  OBVIOUS
<1>3. ASSUME NEW x \in Range(s \o u) PROVE x \in Range(s) \cup Range(u)
  <2>1. PICK i \in 1 .. Len(s) + Len(u) : x = (s \o u)[i]
    BY <1>1 DEF Range
  <2>2. CASE i <= Len(s)
    <3>1. i \in 1 .. Len(s)
      BY <1>1, <2>2
    <3>2. s[i] \in Range(s)
      BY <1>1, <3>1 DEF Range
    <3> QED
      BY <1>2, <2>1, <3>1, <3>2
  <2>3. CASE i > Len(s)
    <3>1. i - Len(s) \in 1 .. Len(u) /\ Len(s) + (i - Len(s)) = i
      BY <1>1, <2>3
    <3>2. u[i - Len(s)] \in Range(u)
      BY <1>1, <3>1 DEF Range
    <3> QED
      BY <1>2, <2>1, <3>1, <3>2
  <2> QED
    BY <1>1, <2>2, <2>3
<1>4. ASSUME NEW x \in Range(s) PROVE x \in Range(s \o u)
  <2>1. PICK i \in 1 .. Len(s) : x = s[i]
    BY <1>1 DEF Range
  <2>2. i \in 1 .. Len(s) + Len(u)
    BY <1>1
  <2> QED
    BY <1>1, <1>2, <2>1, <2>2 DEF Range
<1>5. ASSUME NEW x \in Range(u) PROVE x \in Range(s \o u)
  <2>1. PICK i \in 1 .. Len(u) : x = u[i]
    BY <1>1 DEF Range
  <2>2. Len(s) + i \in 1 .. Len(s) + Len(u)
    BY <1>1
  <2> QED
    BY <1>1, <1>2, <2>1, <2>2 DEF Range
<1> QED
  BY <1>1, <1>2, <1>3, <1>4, <1>5

\* They are in order if each is and the second comes after the first.
LEMMA ConcatIncreasing ==
  ASSUME NEW A \in SUBSET Int, NEW s \in Seq(A), NEW u \in Seq(A),
         Increasing(s), Increasing(u), Before(s, u)
  PROVE  Increasing(s \o u)
<1>1. /\ DOMAIN s = 1 .. Len(s) /\ DOMAIN u = 1 .. Len(u)
      /\ DOMAIN (s \o u) = 1 .. Len(s) + Len(u)
      /\ Len(s) \in Nat /\ Len(u) \in Nat
  OBVIOUS
<1>2. /\ \A i \in 1 .. Len(s) : (s \o u)[i] = s[i]
      /\ \A i \in Len(s) + 1 .. Len(s) + Len(u) : (s \o u)[i] = u[i - Len(s)]
  OBVIOUS
<1> SUFFICES ASSUME NEW i \in 1 .. Len(s) + Len(u),
                    NEW j \in 1 .. Len(s) + Len(u), i < j
             PROVE  (s \o u)[i] < (s \o u)[j]
  BY <1>1 DEF Increasing
<1>3. CASE j <= Len(s)
  <2>1. i \in 1 .. Len(s) /\ j \in 1 .. Len(s)
    BY <1>1, <1>3
  <2> QED
    BY <1>1, <1>2, <2>1 DEF Increasing
<1>4. CASE i > Len(s)
  <2>1. /\ i \in Len(s) + 1 .. Len(s) + Len(u) /\ j \in Len(s) + 1 .. Len(s) + Len(u)
        /\ i - Len(s) \in 1 .. Len(u) /\ j - Len(s) \in 1 .. Len(u)
        /\ i - Len(s) < j - Len(s)
    BY <1>1, <1>4
  <2>2. u[i - Len(s)] < u[j - Len(s)]
    BY <1>1, <2>1 DEF Increasing
  <2> QED
    BY <1>2, <2>1, <2>2
<1>5. CASE i <= Len(s) /\ j > Len(s)
  <2>1. /\ i \in 1 .. Len(s) /\ j \in Len(s) + 1 .. Len(s) + Len(u)
        /\ j - Len(s) \in 1 .. Len(u)
    BY <1>1, <1>5
  <2>2. s[i] \in Range(s) /\ u[j - Len(s)] \in Range(u)
    BY <1>1, <2>1 DEF Range
  <2>3. s[i] < u[j - Len(s)]
    BY <2>2 DEF Before
  <2> QED
    BY <1>2, <2>1, <2>3
<1> QED
  BY <1>1, <1>3, <1>4, <1>5

\* What is in order after a number is next to it if it is the next number.
LEMMA Adjacent ==
  ASSUME NEW A \in SUBSET Int, NEW s \in Seq(A), Increasing(s),
         NEW x \in Int, x \in Range(s), NEW p \in 1 .. Len(s), s[p] = x + 1
  PROVE  p > 1 /\ s[p - 1] = x
<1>1. DOMAIN s = 1 .. Len(s) /\ Len(s) \in Nat /\ \A i \in 1 .. Len(s) : s[i] \in Int
  <2>1. DOMAIN s = 1 .. Len(s) /\ Len(s) \in Nat /\ \A i \in 1 .. Len(s) : s[i] \in A
    OBVIOUS
  <2>2. \A y \in A : y \in Int
    OBVIOUS
  <2> QED
    BY <2>1, <2>2
<1>2. PICK q \in 1 .. Len(s) : s[q] = x
  BY <1>1 DEF Range
<1>3. q < p
  <2>1. CASE p < q
    <3>1. s[p] < s[q]
      BY <1>1, <2>1 DEF Increasing
    <3> QED
      BY <1>2, <3>1
  <2>2. p # q
    BY <1>2
  <2> QED
    BY <1>1, <2>1, <2>2
<1>4. CASE q < p - 1
  <2>1. p - 1 \in 1 .. Len(s) /\ p - 1 < p
    BY <1>1, <1>3
  <2>2. s[q] < s[p - 1] /\ s[p - 1] < s[p] /\ s[p - 1] \in Int
    BY <1>1, <1>4, <2>1 DEF Increasing
  <2> QED
    BY <1>2, <2>2
<1> QED
  BY <1>1, <1>2, <1>3, <1>4

\* A position and what is there.
LEMMA AtPosition ==
  ASSUME NEW A, NEW s \in Seq(A), NEW x
  PROVE  x \in Range(s) <=> \E p \in 1 .. Len(s) : s[p] = x
BY DEF Range

\* One part.
LEMMA OnePart ==
  ASSUME NEW A \in SUBSET Int, NEW x \in A
  PROVE  /\ <<x>> \in Seq(A) /\ Len(<<x>>) = 1 /\ Range(<<x>>) = {x}
         /\ Increasing(<<x>>)
<1>1. <<x>> \in Seq(A) /\ Len(<<x>>) = 1 /\ DOMAIN <<x>> = {1} /\ <<x>>[1] = x
  OBVIOUS
<1> QED
  BY <1>1 DEF Range, Increasing

\* Nothing.
LEMMA NoPart ==
  ASSUME NEW A
  PROVE  /\ << >> \in Seq(A) /\ Len(<< >>) = 0 /\ Range(<< >>) = {}
         /\ Increasing(<< >>)
<1>1. << >> \in Seq(A) /\ Len(<< >>) = 0 /\ DOMAIN << >> = {}
  OBVIOUS
<1> QED
  BY <1>1 DEF Range, Increasing

-----------------------------------------------------------------------------
(* The spool's inductive invariant                                         *)

\* Parts the current file and the encoder's buffer hold together.
Held == Len(contents[current]) + Len(chunk)
Here == Range(contents[current]) \cup Range(chunk)

\* What the writer's place says of the directory and of the encoder.
WriterAt ==
  /\ current \in {0, Len(contents)} /\ current \notin rotated
  /\ chunk # << >> => wpc \in {"idle", "body", "flush", "close", "late"}
  /\ wpc \in {"idle", "body", "flush", "close", "late", "rename"} =>
       Held <= startSize + encoded + (IF InBody THEN 1 ELSE 0)
  /\ InBody => received < MaxSpooled

\* The callers: a Rotate needs one, and nothing is called before NewSpool has
\* returned.
CallersAt ==
  /\ Busy <= Callers
  /\ wpc \in {"idle", "body", "flush", "close", "late", "rename"} => serving
  /\ serving /\ wpc \in {"prune", "open"} => current = 0
  /\ wpc = "down" => ~serving
  /\ checks > 0 => serving
  /\ Callers = 1 => astray = {} /\ (wpc = "close" => chunk = << >>)

\* At most one rotated file is too many, and none while there is a "current".
Few ==
  /\ Cardinality(rotated) <= MaxFiles + 1
  /\ current # 0 \/ wpc = "open" => Cardinality(rotated) <= MaxFiles

\* The parts of the current file, with what is buffered for it: the file was
\* not full, and then come the calls under way and those that a crash cut off.
Allowed == PerFile - 1 + 2 * checks + 2 * unchecked + (IF InBody THEN 1 ELSE 0)
          + (IF wpc \in {"flush", "close", "late", "rename"} THEN 2 ELSE 0)
Sizes == current # 0 => Held <= Allowed

\* A body is where its length is.
Bodies ==
  /\ \A f \in Files : \A m \in 1 .. MaxSpooled :
       2 * m \in Range(contents[f]) => 2 * m - 1 \in Range(contents[f])
  /\ \A m \in 1 .. MaxSpooled : 2 * m \in Range(chunk) => 2 * m - 1 \in Here
  /\ InBody => 2 * received + 1 \in Here

\* What was lost comes before what is in the buffer.
Losses ==
  /\ Gone \subseteq 1 .. 2 * received
  /\ \A x \in Gone, y \in Range(chunk) : x < y

WriterInv == /\ WriterTypeOK /\ FilesBounded /\ KeepsNewest /\ SizeBounded /\ Stored
             /\ WriterAt /\ CallersAt /\ Few /\ Sizes /\ Bodies /\ Losses

\* The files the reader has still to open come after those it has opened, and
\* it has not opened "current" before its name is reached.
Ahead ==
  /\ Increasing(files)
  /\ \A f \in Range(files), g \in names \ {0} : f < g
  /\ rpc = "opening" => /\ current \notin names \ {0}
                        /\ 0 \in names => current \notin Range(files)

\* A message that was listed can still be reached while the files are opened.
Reachable ==
  rpc = "opening" /\ ~disturbed =>
    /\ current # 0 /\ names \ {0} \subseteq rotated
    /\ 0 \in names \/ files # << >>
    /\ \A m \in listed : \/ \E f \in names \ {0} : m \in Whole(f)
                         \/ 0 \in names /\ m \in Whole(current)
                         \/ \E k \in 1 .. Len(files) : m \in Whole(files[k])

\* What was decoded of the file that is read are whole messages, and Generate
\* returned them.
Reading ==
  /\ rpc = "reading" =>
       /\ index <= Len(files) /\ offset <= Len(Data)
       /\ offset > 0 => Data[offset] % 2 = 0
       /\ \A p \in 1 .. offset : Data[p] % 2 = 0 => Data[p] \div 2 \in Range(got)
  /\ rpc = "end" => index = Len(files) + 1
  /\ rpc \in {"none", "opening"} => index = 1 /\ offset = 0 /\ got = << >>
  /\ rpc = "none" => files = << >> /\ names = {}

\* Generate returned nothing else.
Returned ==
  \A m \in Range(got) :
    \/ \E k \in 1 .. index - 1 : 2 * m \in Range(contents[files[k]])
    \/ /\ index <= Len(files)
       /\ \E p \in 1 .. offset : p <= Len(Data) /\ Data[p] = 2 * m

\* A message that was listed is in one of the files that were opened, and was
\* returned if that file was read.
Promised ==
  /\ rpc = "panic" => disturbed
  /\ rpc \in {"reading", "end"} /\ ~disturbed =>
       \A m \in listed : \E k \in 1 .. Len(files) :
         m \in Whole(files[k]) /\ (k < index => m \in Range(got))

ReaderInv == /\ ReaderTypeOK /\ ReadsInOrder
             /\ Ahead /\ Reachable /\ Reading /\ Returned /\ Promised

SpoolInv == WriterInv /\ ReaderInv /\ Decodable

-----------------------------------------------------------------------------
(* What one step writes                                                    *)

\* The files, by their numbers.
LEMMA FilesAre ==
  ASSUME WriterTypeOK
  PROVE  /\ Len(contents) \in Nat /\ Files = 1 .. Len(contents)
         /\ \A f \in Files : contents[f] \in Seq(Parts) /\ Len(contents[f]) \in Nat
         /\ Parts \in SUBSET Int /\ chunk \in Seq(Parts) /\ Len(chunk) \in Nat
<1> USE SpoolAssumption
<1>1. contents \in Seq(Seq(Parts)) /\ chunk \in Seq(Parts)
  BY DEF WriterTypeOK
<1>2. Len(contents) \in Nat /\ DOMAIN contents = 1 .. Len(contents)
  BY <1>1
<1>3. \A f \in 1 .. Len(contents) : contents[f] \in Seq(Parts)
  BY <1>1
<1>4. Parts \in SUBSET Int
  BY DEF Parts
<1> QED
  BY <1>1, <1>2, <1>3, <1>4 DEF Files

\* u reaches the current file; v is new, the encoder's buffer takes or empties
\* itself with it.
Tape(u, v) ==
  /\ u \in Seq(Parts) /\ v \in Seq(Parts)
  /\ contents' = [contents EXCEPT ![current] = @ \o u]
  /\ \/ u = << >> /\ chunk' = chunk \o v
     \/ u = chunk \o v /\ chunk' = << >>
  /\ current # 0 /\ UNCHANGED <<current, rotated, lost, astray, unchecked, crashes>>

\* What is in the files after it.
LEMMA TapeFiles ==
  ASSUME WriterTypeOK, NEW u, NEW v, Tape(u, v)
  PROVE  /\ contents' \in Seq(Seq(Parts)) /\ Len(contents') = Len(contents)
         /\ Files' = Files /\ current \in Files
         /\ contents'[current] = contents[current] \o u
         /\ \A f \in Files \ {current} : contents'[f] = contents[f]
<1>1. current \in Files
  BY DEF WriterTypeOK, Tape
<1>2. contents[current] \o u \in Seq(Parts)
  BY <1>1, FilesAre DEF Tape
<1>3. contents \in Seq(Seq(Parts))
  BY DEF WriterTypeOK
<1>4. contents' = [contents EXCEPT ![current] = contents[current] \o u]
  BY DEF Tape
<1> HIDE DEF Parts
<1> QED
  BY <1>1, <1>2, <1>3, <1>4 DEF Files

\* Where what was written is after it.
LEMMA TapeRanges ==
  ASSUME WriterTypeOK, NEW u, NEW v, Tape(u, v)
  PROVE  /\ chunk' \in Seq(Parts)
         /\ Range(contents'[current]) = Range(contents[current]) \cup Range(u)
         /\ Range(u) \cup Range(chunk') = Range(chunk) \cup Range(v)
         /\ Range(u) = {} \/ Range(chunk') = {}
         /\ Len(u) + Len(chunk') = Len(chunk) + Len(v)
         /\ Len(contents'[current]) = Len(contents[current]) + Len(u)
<1>1. /\ chunk \in Seq(Parts) /\ v \in Seq(Parts) /\ u \in Seq(Parts)
      /\ contents[current] \in Seq(Parts)
  BY FilesAre, TapeFiles DEF Tape
<1>2. contents'[current] = contents[current] \o u
  BY TapeFiles
<1>3. /\ Range(contents'[current]) = Range(contents[current]) \cup Range(u)
      /\ Len(contents'[current]) = Len(contents[current]) + Len(u)
  BY <1>1, <1>2, ConcatRange
<1>4. /\ Range(chunk \o v) = Range(chunk) \cup Range(v)
      /\ Len(chunk \o v) = Len(chunk) + Len(v) /\ chunk \o v \in Seq(Parts)
  BY <1>1, ConcatRange
<1>5. << >> \in Seq(Parts) /\ Range(<< >>) = {} /\ Len(<< >>) = 0
  BY NoPart
<1>6. CASE u = << >> /\ chunk' = chunk \o v
  BY <1>1, <1>3, <1>4, <1>5, <1>6
<1>7. CASE u = chunk \o v /\ chunk' = << >>
  BY <1>1, <1>3, <1>4, <1>5, <1>7
<1> QED
  BY <1>6, <1>7 DEF Tape

\* The order of what was written.
FilesOrdered ==
  /\ \A f \in Files : Increasing(contents[f]) /\ Before(contents[f], chunk)
  /\ \A f, g \in Files : f < g => Before(contents[f], contents[g])
  /\ Increasing(chunk)

\* It is kept if v comes after everything.
LEMMA TapeOrder ==
  ASSUME WriterInv, NEW u, NEW v, Tape(u, v), Increasing(v), Before(chunk, v),
         \A f \in Files : Before(contents[f], v)
  PROVE  /\ FilesOrdered'
         /\ (OnDisk \cup Range(chunk))' = OnDisk \cup Range(chunk) \cup Range(v)
<1>0. WriterTypeOK /\ FilesOrdered /\ current = Len(contents) /\ current' = current
  <2>1. WriterTypeOK /\ Stored /\ WriterAt /\ current' = current /\ current # 0
    BY DEF WriterInv, Tape
  <2> QED
    BY <2>1 DEF Stored, FilesOrdered, WriterAt
<1>1. /\ Files' = Files /\ current \in Files
      /\ contents'[current] = contents[current] \o u
      /\ \A f \in Files \ {current} : contents'[f] = contents[f]
  BY <1>0, TapeFiles
<1>2. /\ chunk' \in Seq(Parts)
      /\ Range(contents'[current]) = Range(contents[current]) \cup Range(u)
      /\ Range(u) \cup Range(chunk') = Range(chunk) \cup Range(v)
      /\ Range(u) = {} \/ Range(chunk') = {}
  BY <1>0, TapeRanges
<1>3. /\ Parts \in SUBSET Int /\ chunk \in Seq(Parts) /\ v \in Seq(Parts) /\ u \in Seq(Parts)
      /\ Files = 1 .. Len(contents) /\ Len(contents) \in Nat
      /\ \A f \in Files : contents[f] \in Seq(Parts)
  BY <1>0, FilesAre DEF Tape
<1>4. Increasing(chunk \o v)
  BY <1>0, <1>3, ConcatIncreasing DEF FilesOrdered
<1>5. Increasing(u) /\ Increasing(chunk')
  BY <1>4, NoPart DEF Tape
<1>6. \A f \in Files : Before(contents[f], u) /\ Before(contents[f], chunk')
  BY <1>0, <1>2 DEF FilesOrdered, Before
<1>7. ASSUME NEW f \in Files
      PROVE  Increasing(contents'[f]) /\ Before(contents'[f], chunk')
  <2>1. CASE f = current
    <3>1. Increasing(contents'[f])
      BY <1>0, <1>1, <1>3, <1>5, <1>6, <2>1, ConcatIncreasing DEF FilesOrdered
    <3>2. Before(contents'[f], chunk')
      BY <1>2, <1>6, <2>1 DEF Before
    <3> QED
      BY <3>1, <3>2
  <2>2. CASE f # current
    BY <1>0, <1>1, <1>6, <2>2 DEF FilesOrdered
  <2> QED
    BY <2>1, <2>2
<1>8. ASSUME NEW f \in Files, NEW g \in Files, f < g
      PROVE  Before(contents'[f], contents'[g])
  <2>1. f # current
    BY <1>0, <1>3, <1>8
  <2>2. contents'[f] = contents[f] /\ Before(contents[f], contents[g])
    BY <1>0, <1>1, <1>8, <2>1 DEF FilesOrdered
  <2>3. CASE g = current
    BY <1>2, <1>6, <2>2, <2>3 DEF Before
  <2>4. CASE g # current
    BY <1>1, <2>2, <2>4
  <2> QED
    BY <2>3, <2>4
<1>9. FilesOrdered'
  BY <1>1, <1>5, <1>7, <1>8 DEF FilesOrdered
<1>10. OnDisk' = OnDisk \cup Range(u)
  <2>1. OnDisk' = UNION {Range(contents'[f]) : f \in Files}
    BY <1>1 DEF OnDisk
  <2> QED
    BY <1>1, <1>2, <2>1 DEF OnDisk
<1>11. (OnDisk \cup Range(chunk))' = OnDisk \cup Range(u) \cup Range(chunk')
  BY <1>10
<1> QED
  BY <1>2, <1>9, <1>11

\* A step of the encoder, by what it does to buf.
LEMMA PutIsTape ==
  ASSUME WriterTypeOK, current # 0, NEW part \in Parts, Put(part),
         UNCHANGED <<current, rotated, astray, crashVars>>
  PROVE  (\E u \in Seq(Parts) : Tape(u, <<part>>)) /\ Len(chunk') < Chunk
<1>1. /\ contents \in Seq(Seq(Parts)) /\ current \in Files /\ chunk \in Seq(Parts)
      /\ contents[current] \in Seq(Parts) /\ Parts \in SUBSET Int
  BY FilesAre DEF WriterTypeOK
<1>2. /\ Append(chunk, part) = chunk \o <<part>> /\ <<part>> \in Seq(Parts)
      /\ chunk \o <<part>> \in Seq(Parts)
  BY <1>1
<1>3. UNCHANGED <<current, rotated, lost, astray, unchecked, crashes>>
  BY DEF crashVars
<1>4. CASE Buffered(chunk \o <<part>>)
  <2>1. chunk' = chunk \o <<part>> /\ contents' = contents
    BY <1>2, <1>4 DEF Put
  <2>2. contents[current] \o << >> = contents[current] /\ << >> \in Seq(Parts)
    BY <1>1
  <2>3. contents' = [contents EXCEPT ![current] = @ \o << >>]
    BY <1>1, <2>1, <2>2 DEF Files
  <2>4. Tape(<< >>, <<part>>)
    BY <1>2, <1>3, <2>1, <2>2, <2>3 DEF Tape
  <2> QED
    BY <1>4, <2>1, <2>2, <2>4 DEF Buffered
<1>5. CASE ~Buffered(chunk \o <<part>>)
  <2>1. chunk' = << >> /\ WriteOut(chunk \o <<part>>)
    BY <1>2, <1>5 DEF Put
  <2>2. Tape(chunk \o <<part>>, <<part>>)
    BY <1>2, <1>3, <2>1 DEF Tape, WriteOut
  <2>3. Len(chunk') = 0
    BY <2>1
  <2>4. Len(chunk') < Chunk
    BY <2>3, SpoolAssumption
  <2> QED
    BY <1>2, <2>2, <2>4
<1> QED
  BY <1>4, <1>5

\* A flush, by what it does to buf.
LEMMA FlushIsTape ==
  ASSUME WriterTypeOK, current # 0, FlushChunk,
         UNCHANGED <<current, rotated, astray, crashVars>>
  PROVE  Tape(chunk, << >>) /\ chunk' = << >> /\ Len(chunk') = 0
<1>1. chunk \in Seq(Parts) /\ chunk \o << >> = chunk /\ << >> \in Seq(Parts)
  BY DEF WriterTypeOK
<1> QED
  BY <1>1 DEF Tape, FlushChunk, WriteOut, crashVars

\* Every part there is was put, in order: there is none after the last.
LEMMA NoneAfter ==
  ASSUME WriterInv, NEW part \in Int,
         InBody => part > 2 * received + 1,
         ~InBody => part > 2 * received
  PROVE  /\ Before(chunk, <<part>>)
         /\ \A f \in Files : Before(contents[f], <<part>>)
<1>1. received \in Nat
  BY SpoolAssumption DEF WriterInv, WriterTypeOK
<1>2. \A x \in OnDisk \cup Range(chunk) : x < part
  <2>1. ASSUME NEW x \in OnDisk \cup Range(chunk) PROVE x < part
    <3>1. x \in 1 .. (IF InBody THEN 2 * received + 1 ELSE 2 * received)
      BY DEF WriterInv, Stored
    <3> QED
      BY <1>1, <3>1
  <2> QED
    BY <2>1
<1>3. Range(<<part>>) = {part}
  BY OnePart
<1> QED
  BY <1>2, <1>3 DEF Before, OnDisk

\* What a step of the encoder keeps of the rest.
LEMMA TapeKeeps ==
  ASSUME WriterInv, NEW u, NEW v, Tape(u, v),
         \A m \in 1 .. MaxSpooled : 2 * m \in Range(v) => 2 * m - 1 \in Here,
         \A x \in Gone, y \in Range(v) : x < y
  PROVE  /\ Here' = Here \cup Range(v) /\ Held' = Held + Len(v)
         /\ \A f \in Files : \A m \in 1 .. MaxSpooled :
              2 * m \in Range(contents'[f]) => 2 * m - 1 \in Range(contents'[f])
         /\ \A m \in 1 .. MaxSpooled : 2 * m \in Range(chunk') => 2 * m - 1 \in Here'
         /\ \A x \in Gone, y \in Range(chunk') : x < y
         /\ \A f \in Files : /\ Len(contents'[f]) \in Nat /\ Len(contents[f]) <= Len(contents'[f])
                             /\ \A p \in 1 .. Len(contents[f]) : contents'[f][p] = contents[f][p]
         /\ \A f \in Files : \/ Len(contents'[f]) <= SizeLimit
                             \/ f = current /\ Len(contents'[f]) <= Held'
<1>0. WriterTypeOK /\ Bodies /\ Losses /\ SizeBounded /\ current' = current
  BY DEF WriterInv, Tape
<1>1. /\ Files' = Files /\ current \in Files
      /\ contents'[current] = contents[current] \o u
      /\ \A f \in Files \ {current} : contents'[f] = contents[f]
  BY <1>0, TapeFiles
<1>2. /\ chunk' \in Seq(Parts)
      /\ Range(contents'[current]) = Range(contents[current]) \cup Range(u)
      /\ Range(u) \cup Range(chunk') = Range(chunk) \cup Range(v)
      /\ Range(u) = {} \/ Range(chunk') = {}
      /\ Len(u) + Len(chunk') = Len(chunk) + Len(v)
      /\ Len(contents'[current]) = Len(contents[current]) + Len(u)
  BY <1>0, TapeRanges
<1>3. /\ Parts \in SUBSET Int /\ chunk \in Seq(Parts) /\ v \in Seq(Parts) /\ u \in Seq(Parts)
      /\ \A f \in Files : contents[f] \in Seq(Parts)
  BY <1>0, FilesAre DEF Tape
<1>4. /\ Len(u) \in Nat /\ Len(v) \in Nat /\ Len(chunk) \in Nat /\ Len(chunk') \in Nat
      /\ \A f \in Files : Len(contents[f]) \in Nat
  BY <1>2, <1>3
<1>5. Here' = Here \cup Range(v)
  BY <1>0, <1>2 DEF Here
<1>6. Held' = Held + Len(v)
  <2>1. Held' = Len(contents'[current]) + Len(chunk')
    BY <1>0 DEF Held
  <2>2. Held = Len(contents[current]) + Len(chunk)
    BY DEF Held
  <2>3. Len(contents[current]) \in Nat
    BY <1>1, <1>4
  <2> QED
    BY ONLY SMTT(30), <1>2, <1>4, <2>1, <2>2, <2>3
<1>7. ASSUME NEW f \in Files, NEW m \in 1 .. MaxSpooled, 2 * m \in Range(contents'[f])
      PROVE  2 * m - 1 \in Range(contents'[f])
  <2>1. CASE f # current
    BY <1>0, <1>1, <1>7, <2>1 DEF Bodies
  <2>2. CASE f = current
    <3>1. CASE 2 * m \in Range(contents[current])
      BY <1>0, <1>1, <1>2, <2>2, <3>1 DEF Bodies
    <3>2. CASE 2 * m \in Range(u)
      <4>1. 2 * m - 1 \in Here
        BY <1>0, <1>2, <3>2 DEF Bodies
      <4>2. Here \subseteq Range(contents'[current])
        BY <1>2, <3>2 DEF Here
      <4> QED
        BY <2>2, <4>1, <4>2
    <3> QED
      BY <1>2, <1>7, <2>2, <3>1, <3>2
  <2> QED
    BY <2>1, <2>2
<1>8. ASSUME NEW m \in 1 .. MaxSpooled, 2 * m \in Range(chunk')
      PROVE  2 * m - 1 \in Here'
  BY <1>0, <1>2, <1>5, <1>8 DEF Bodies
<1>9. \A x \in Gone, y \in Range(chunk') : x < y
  BY <1>0, <1>2 DEF Losses
<1>10. ASSUME NEW f \in Files
       PROVE  /\ Len(contents'[f]) \in Nat /\ Len(contents[f]) <= Len(contents'[f])
              /\ \A p \in 1 .. Len(contents[f]) : contents'[f][p] = contents[f][p]
  <2>1. CASE f # current
    BY <1>1, <1>4, <2>1
  <2>2. CASE f = current
    BY <1>1, <1>2, <1>3, <1>4, <2>2, ConcatRange
  <2> QED
    BY <2>1, <2>2
<1>11. ASSUME NEW f \in Files
       PROVE  \/ Len(contents'[f]) <= SizeLimit
              \/ f = current /\ Len(contents'[f]) <= Held'
  <2>1. CASE f # current
    BY <1>0, <1>1, <2>1 DEF SizeBounded
  <2>2. CASE f = current
    BY <1>0, <1>1, <1>2, <1>4, <2>2 DEF Held
  <2> QED
    BY <2>1, <2>2
<1> QED
  BY <1>5, <1>6, <1>7, <1>8, <1>9, <1>10, <1>11

-----------------------------------------------------------------------------
(* The writer's steps                                                      *)

\* The invariant holds of an empty directory.
LEMMA SpoolStarts == SpoolInit => SpoolInv
<1> SUFFICES ASSUME SpoolInit PROVE SpoolInv
  OBVIOUS
<1> USE SpoolAssumption DEF SpoolInit
<1>1. \A A : << >> \in Seq(A) /\ Len(<< >>) = 0 /\ Range(<< >>) = {} /\ Increasing(<< >>)
  BY NoPart
<1>2. Files = {} /\ Linked = {} /\ OnDisk = {}
  <2>1. Files = {}
    BY <1>1 DEF Files
  <2> QED
    BY <2>1 DEF Linked, OnDisk
<1>3. Cardinality(rotated) = 0
  BY FS_EmptySet
<1>4. WriterTypeOK
  <2>1. wpc \in Rotating /\ checks \in 0 .. Callers /\ received \in 0 .. MaxSpooled
        /\ crashes \in 0 .. MaxCrashes
    BY DEF Rotating
  <2>2. /\ contents \in Seq(Seq(Parts)) /\ chunk \in Seq(Parts) /\ Len(chunk) < Chunk
        /\ current \in {0} \cup Files /\ rotated \subseteq Files
    BY <1>1
  <2>3. wpc = "prune" /\ startSize = 0 /\ encoded = 0 /\ unchecked = 0
    OBVIOUS
  <2>4. serving \in BOOLEAN /\ lost \subseteq Parts /\ astray \subseteq Parts
    OBVIOUS
  <2> QED
    BY <2>1, <2>2, <2>3, <2>4 DEF WriterTypeOK
<1>5. FilesBounded /\ KeepsNewest /\ SizeBounded
  BY <1>2, <1>3 DEF FilesBounded, KeepsNewest, SizeBounded
<1>6. Stored
  <2>1. 1 .. 2 * received = {}
    OBVIOUS
  <2> QED
    BY <1>1, <1>2, <2>1 DEF Stored, InBody
<1>7. WriterAt /\ CallersAt /\ Few /\ Sizes
  BY <1>1, <1>3 DEF WriterAt, CallersAt, Busy, InBody, Few, Sizes
<1>8. Bodies /\ Losses
  BY <1>1, <1>2 DEF Bodies, Losses, Gone, InBody
<1>9. ReaderTypeOK /\ ReadsInOrder
  <2>1. files \in Seq(Files) /\ Len(files) = 0 /\ got \in Seq(1 .. MaxSpooled) /\ Increasing(got)
    BY <1>1
  <2>2. index \in 1 .. Len(files) + 1 /\ offset \in Nat
    BY <2>1
  <2> QED
    BY <2>1, <2>2 DEF ReaderTypeOK, ReadsInOrder
<1>10. Ahead /\ Reachable /\ Reading /\ Returned /\ Promised /\ Decodable
  BY <1>1 DEF Ahead, Reachable, Reading, Returned, Promised, Decodable
<1> QED
  BY <1>4, <1>5, <1>6, <1>7, <1>8, <1>9, <1>10 DEF SpoolInv, WriterInv, ReaderInv

\* What the writer's part of the invariant says of variables a step leaves alone.
LEMMA WriterStutters ==
  ASSUME WriterInv, UNCHANGED <<wpc, encVars, dirVars, callVars, crashVars>>
  PROVE  WriterInv'
<1>1. /\ wpc' = wpc /\ contents' = contents /\ current' = current /\ rotated' = rotated
      /\ chunk' = chunk /\ startSize' = startSize /\ encoded' = encoded
      /\ received' = received /\ lost' = lost /\ unchecked' = unchecked
      /\ crashes' = crashes /\ checks' = checks /\ serving' = serving /\ astray' = astray
  BY DEF encVars, dirVars, callVars, crashVars
<1>2. WriterTypeOK' /\ FilesBounded' /\ KeepsNewest' /\ SizeBounded' /\ Stored'
  BY <1>1 DEF WriterInv, WriterTypeOK, FilesBounded, KeepsNewest, SizeBounded, SizeLimit,
              Stored, OnDisk, Linked, Files, Gone, InBody, Increasing, Before
<1>3. WriterAt' /\ CallersAt' /\ Few' /\ Sizes' /\ Bodies' /\ Losses'
  BY <1>1 DEF WriterInv, WriterAt, CallersAt, Busy, Held, Few, Sizes, Allowed, Bodies, Here,
              Losses, Gone, InBody, Files
<1> QED
  BY <1>2, <1>3 DEF WriterInv

\* The size of what is held for the current file.
LEMMA HeldIs ==
  ASSUME WriterTypeOK, current # 0
  PROVE  Held \in Nat /\ Len(contents[current]) \in Nat /\ Len(chunk) \in Nat /\ current \in Files
BY FilesAre DEF WriterTypeOK, Held

\* The length of a message is written.
LEMMA HeadKeeps == WriterInv /\ ReceiveHead => WriterInv'
<1> SUFFICES ASSUME WriterInv, ReceiveHead PROVE WriterInv'
  OBVIOUS
<1> USE SpoolAssumption
<1> DEFINE part == 2 * received + 1
<1>1. /\ WriterTypeOK /\ Stored /\ WriterAt /\ CallersAt /\ Few /\ Sizes /\ Losses
      /\ FilesBounded /\ KeepsNewest /\ SizeBounded
  BY DEF WriterInv
<1>2. /\ \/ wpc = "idle" /\ wpc' = "body"
         \/ wpc = "close" /\ wpc' = "late"
      /\ ~InBody /\ InBody' /\ received < MaxSpooled /\ current # 0 /\ Busy < Callers
      /\ UNCHANGED <<startSize, encoded, received, current, rotated, checks, serving,
                     astray, lost, unchecked, crashes>>
      /\ Gone' = Gone /\ SizeLimit' = SizeLimit
  BY <1>1 DEF ReceiveHead, callVars, crashVars, WriterTypeOK, InBody, Gone, SizeLimit
<1>3. /\ received \in Nat /\ part \in Parts /\ part \in Int /\ checks \in Nat
      /\ MaxSpooled \in Nat /\ startSize \in Nat /\ encoded \in Nat /\ unchecked \in Nat
  BY <1>1, <1>2 DEF WriterTypeOK, Parts
<1> HIDE DEF part
<1>4. /\ part = 2 * received + 1
      /\ Range(<<part>>) = {part} /\ Increasing(<<part>>) /\ Len(<<part>>) = 1
  BY <1>3, OnePart DEF part
<1>5. Put(part)
  BY <1>4 DEF ReceiveHead
<1>6. PICK u \in Seq(Parts) : Tape(u, <<part>>) /\ Len(chunk') < Chunk
  <2>1. UNCHANGED <<current, rotated, astray, crashVars>>
    BY <1>2 DEF crashVars
  <2> QED
    BY <1>1, <1>2, <1>3, <1>5, <2>1, PutIsTape
<1>7. Before(chunk, <<part>>) /\ \A f \in Files : Before(contents[f], <<part>>)
  BY <1>2, <1>3, <1>4, NoneAfter
<1>8. /\ contents' \in Seq(Seq(Parts)) /\ Len(contents') = Len(contents)
      /\ Files' = Files /\ chunk' \in Seq(Parts)
  BY <1>1, <1>6, TapeFiles, TapeRanges
<1>9. FilesOrdered' /\ (OnDisk \cup Range(chunk))' = OnDisk \cup Range(chunk) \cup {part}
  BY <1>4, <1>6, <1>7, TapeOrder
<1>10. /\ \A m \in 1 .. MaxSpooled : 2 * m \notin Range(<<part>>)
       /\ \A x \in Gone, y \in Range(<<part>>) : x < y
  BY <1>1, <1>3, <1>4 DEF Losses
<1>11. /\ Here' = Here \cup {part} /\ Held' = Held + 1
       /\ \A f \in Files : \A m \in 1 .. MaxSpooled :
            2 * m \in Range(contents'[f]) => 2 * m - 1 \in Range(contents'[f])
       /\ \A m \in 1 .. MaxSpooled : 2 * m \in Range(chunk') => 2 * m - 1 \in Here'
       /\ \A x \in Gone, y \in Range(chunk') : x < y
       /\ \A f \in Files : \/ Len(contents'[f]) <= SizeLimit
                           \/ f = current /\ Len(contents'[f]) <= Held'
  BY <1>4, <1>6, <1>10, TapeKeeps
<1>12. Held \in Nat /\ Held <= startSize + encoded /\ Held <= Allowed
  <2>1. Held \in Nat /\ Held <= Allowed
    BY <1>1, <1>2, HeldIs DEF Sizes
  <2>2. Held <= startSize + encoded + (IF InBody THEN 1 ELSE 0)
    BY <1>1, <1>2 DEF WriterAt
  <2>3. Held <= startSize + encoded + 0
    BY <1>2, <2>2
  <2> QED
    BY <1>3, <2>1, <2>3
<1>12a. /\ Allowed \in Int /\ Allowed' = Allowed + 1
        /\ SizeLimit \in Int /\ Allowed' <= SizeLimit
  BY <1>1, <1>2, <1>3 DEF Allowed, SizeLimit, Busy, InBody, Rotating, CallersAt
<1>12b. Held' <= Allowed'
  BY <1>11, <1>12, <1>12a
<1>13. WriterTypeOK'
  BY <1>1, <1>2, <1>6, <1>8 DEF WriterTypeOK, Rotating
<1>14. FilesBounded' /\ KeepsNewest' /\ Few'
  BY <1>1, <1>2, <1>8 DEF FilesBounded, KeepsNewest, Linked, Few
<1>15. \A f \in Files : Len(contents'[f]) <= SizeLimit
  <2>1. Held' <= SizeLimit
    BY <1>11, <1>12, <1>12a, <1>12b
  <2>2. ASSUME NEW f \in Files PROVE Len(contents'[f]) <= SizeLimit
    <3>1. Len(contents'[f]) \in Nat
      BY <1>4, <1>6, <1>10, TapeKeeps
    <3>2. Held' \in Nat
      BY <1>11, <1>12
    <3> QED
      BY <1>11, <1>12a, <2>1, <3>1, <3>2
  <2> QED
    BY <2>2
<1>16. SizeBounded'
  BY <1>2, <1>8, <1>15 DEF SizeBounded
<1>17. Stored'
  <2>1. OnDisk \cup Range(chunk) = (1 .. 2 * received) \ Gone
    BY <1>1, <1>2 DEF Stored
  <2>2. (1 .. 2 * received) \cup {part} = 1 .. part /\ part \notin Gone
    BY <1>1, <1>3, <1>4 DEF Losses
  <2>3. (OnDisk \cup Range(chunk))' = (1 .. 2 * received + 1) \ Gone
    BY <1>4, <1>9, <2>1, <2>2
  <2> QED
    BY <1>2, <1>9, <2>3 DEF Stored, FilesOrdered
<1>18. WriterAt'
  <2>1. Held' <= startSize + encoded + 1
    BY <1>3, <1>11, <1>12
  <2> QED
    BY <1>1, <1>2, <1>8, <2>1 DEF WriterAt
<1>19. Sizes' /\ CallersAt'
  <2>1. CallersAt'
    BY <1>1, <1>2, <1>3 DEF CallersAt, Busy, InBody, Rotating
  <2> QED
    BY <1>2, <1>12b, <2>1 DEF Sizes
<1>20. Bodies'
  BY <1>2, <1>4, <1>8, <1>11 DEF Bodies
<1>21. Losses'
  BY <1>1, <1>2, <1>11 DEF Losses
<1> QED
  BY <1>13, <1>14, <1>16, <1>17, <1>18, <1>19, <1>20, <1>21 DEF WriterInv

\* The body is written, and the file is full or not.
LEMMA BodyKeeps == WriterInv /\ ReceiveBody => WriterInv'
<1> SUFFICES ASSUME WriterInv, ReceiveBody PROVE WriterInv'
  OBVIOUS
<1> USE SpoolAssumption
<1> DEFINE part == 2 * received + 2
<1>1. /\ WriterTypeOK /\ Stored /\ WriterAt /\ CallersAt /\ Few /\ Sizes /\ Losses
      /\ Bodies /\ FilesBounded /\ KeepsNewest /\ SizeBounded
  BY DEF WriterInv
<1>2. /\ \/ wpc = "body" /\ wpc' = "idle"
         \/ wpc = "late" /\ wpc' = "close"
      /\ InBody /\ ~InBody' /\ current # 0
      /\ received' = received + 1 /\ encoded' = encoded + 2 /\ checks' = checks + 1
      /\ UNCHANGED <<startSize, current, rotated, serving, astray, lost, unchecked, crashes>>
      /\ Gone' = Gone /\ SizeLimit' = SizeLimit
  BY <1>1 DEF ReceiveBody, crashVars, WriterTypeOK, InBody, Gone, SizeLimit
<1>3. /\ received \in Nat /\ received < MaxSpooled /\ part \in Parts /\ part \in Int
      /\ MaxSpooled \in Nat /\ startSize \in Nat /\ encoded \in Nat /\ checks \in Nat
      /\ unchecked \in Nat
  BY <1>1, <1>2 DEF WriterTypeOK, WriterAt, Parts
<1> HIDE DEF part
<1>4. /\ part = 2 * received + 2
      /\ Range(<<part>>) = {part} /\ Increasing(<<part>>) /\ Len(<<part>>) = 1
  BY <1>3, OnePart DEF part
<1>5. Put(part)
  BY <1>4 DEF ReceiveBody
<1>6. PICK u \in Seq(Parts) : Tape(u, <<part>>) /\ Len(chunk') < Chunk
  <2>1. UNCHANGED <<current, rotated, astray, crashVars>>
    BY <1>2 DEF crashVars
  <2> QED
    BY <1>1, <1>2, <1>3, <1>5, <2>1, PutIsTape
<1>7. Before(chunk, <<part>>) /\ \A f \in Files : Before(contents[f], <<part>>)
  BY <1>2, <1>3, <1>4, NoneAfter
<1>8. /\ contents' \in Seq(Seq(Parts)) /\ Len(contents') = Len(contents)
      /\ Files' = Files /\ chunk' \in Seq(Parts)
  BY <1>1, <1>6, TapeFiles, TapeRanges
<1>9. FilesOrdered' /\ (OnDisk \cup Range(chunk))' = OnDisk \cup Range(chunk) \cup {part}
  BY <1>4, <1>6, <1>7, TapeOrder
<1>10. /\ \A m \in 1 .. MaxSpooled : 2 * m \in Range(<<part>>) => 2 * m - 1 \in Here
       /\ \A x \in Gone, y \in Range(<<part>>) : x < y
  <2>1. 2 * received + 1 \in Here /\ \A x \in Gone : x < part
    BY <1>1, <1>2, <1>3, <1>4 DEF Losses, Bodies
  <2>2. \A m \in 1 .. MaxSpooled : 2 * m = part => 2 * m - 1 = 2 * received + 1
    BY <1>3, <1>4
  <2> QED
    BY <1>4, <2>1, <2>2
<1>11. /\ Here' = Here \cup {part} /\ Held' = Held + 1
       /\ \A f \in Files : \A m \in 1 .. MaxSpooled :
            2 * m \in Range(contents'[f]) => 2 * m - 1 \in Range(contents'[f])
       /\ \A m \in 1 .. MaxSpooled : 2 * m \in Range(chunk') => 2 * m - 1 \in Here'
       /\ \A x \in Gone, y \in Range(chunk') : x < y
       /\ \A f \in Files : Len(contents'[f]) \in Nat
       /\ \A f \in Files : \/ Len(contents'[f]) <= SizeLimit
                           \/ f = current /\ Len(contents'[f]) <= Held'
  BY <1>4, <1>6, <1>10, TapeKeeps
<1>12. /\ Held \in Nat /\ Held <= startSize + encoded + 1 /\ Held <= Allowed
  BY <1>1, <1>2, HeldIs DEF Sizes, WriterAt
<1>12a. /\ Allowed \in Int /\ Allowed' = Allowed + 1
        /\ SizeLimit \in Int /\ Allowed' <= SizeLimit
  BY <1>1, <1>2, <1>3 DEF Allowed, SizeLimit, Busy, InBody, Rotating, CallersAt
<1>12b. Held' <= Allowed'
  BY <1>11, <1>12, <1>12a
<1>13. WriterTypeOK'
  <2>1. received' \in 0 .. MaxSpooled /\ encoded' \in Nat
    BY <1>2, <1>3
  <2>2. checks' \in 0 .. Callers
    BY <1>1, <1>2, <1>3 DEF CallersAt, Busy, InBody, Rotating
  <2> QED
    BY <1>1, <1>2, <1>6, <1>8, <2>1, <2>2 DEF WriterTypeOK, Rotating
<1>14. FilesBounded' /\ KeepsNewest' /\ Few'
  BY <1>1, <1>2, <1>8 DEF FilesBounded, KeepsNewest, Linked, Few
<1>15. SizeBounded'
  <2>1. Held' <= SizeLimit /\ Held' \in Nat
    BY <1>11, <1>12, <1>12a, <1>12b
  <2>2. ASSUME NEW f \in Files PROVE Len(contents'[f]) <= SizeLimit
    BY <1>11, <1>12a, <2>1
  <2> QED
    BY <1>2, <1>8, <2>2 DEF SizeBounded
<1>16. Stored'
  <2>1. OnDisk \cup Range(chunk) = (1 .. 2 * received + 1) \ Gone
    BY <1>1, <1>2 DEF Stored
  <2>2. (1 .. 2 * received + 1) \cup {part} = 1 .. part /\ part \notin Gone
    BY <1>1, <1>3, <1>4 DEF Losses
  <2>3. part = 2 * received'
    BY <1>2, <1>3, <1>4
  <2>4. (OnDisk \cup Range(chunk))' = (1 .. 2 * received') \ Gone
    BY <1>9, <2>1, <2>2, <2>3
  <2> QED
    BY <1>2, <1>9, <2>4 DEF Stored, FilesOrdered
<1>17. WriterAt' /\ Sizes' /\ CallersAt'
  <2>1. Held' <= startSize + encoded'
    BY <1>2, <1>3, <1>11, <1>12
  <2>2. CallersAt'
    <3>1. Busy' = Busy /\ (wpc' = "close" => Callers # 1)
      BY <1>1, <1>2, <1>3 DEF CallersAt, Busy, InBody, Rotating
    <3> QED
      BY <1>1, <1>2, <3>1 DEF CallersAt
  <2>3. Held' <= startSize' + encoded' + (IF InBody' THEN 1 ELSE 0)
    BY <1>2, <1>3, <2>1
  <2>4. WriterAt'
    BY <1>1, <1>2, <1>8, <2>3 DEF WriterAt
  <2> QED
    BY <1>12b, <2>2, <2>4 DEF Sizes
<1>18. Bodies'
  BY <1>2, <1>8, <1>11 DEF Bodies
<1>19. Losses'
  <2>1. Gone \subseteq 1 .. 2 * received'
    BY <1>1, <1>2, <1>3 DEF Losses
  <2> QED
    BY <1>2, <1>11, <2>1 DEF Losses
<1> QED
  BY <1>13, <1>14, <1>15, <1>16, <1>17, <1>18, <1>19 DEF WriterInv

\* Flush, RotateFlush and CloseSpool: the buffer is written, and the writer goes on to next.
LEMMA FlushKeeps ==
  ASSUME WriterInv, FlushChunk,
         UNCHANGED <<startSize, encoded, received, current, rotated, checks, astray, crashVars>>,
         \/ wpc \in {"idle", "close"} /\ wpc' = wpc /\ serving' = serving
         \/ wpc = "idle" /\ checks = 0 /\ wpc' = "down" /\ serving' = FALSE
         \/ wpc = "flush" /\ wpc' = "close" /\ serving' = serving
  PROVE  WriterInv'
<1> USE SpoolAssumption
<1>1. /\ WriterTypeOK /\ Stored /\ WriterAt /\ CallersAt /\ Few /\ Sizes /\ Losses
      /\ Bodies /\ FilesBounded /\ KeepsNewest /\ SizeBounded
  BY DEF WriterInv
<1>2. /\ wpc \in {"idle", "close", "flush"} /\ wpc' \in {"idle", "down", "close"}
      /\ wpc' = "idle" => wpc = "idle"
      /\ current # 0 /\ ~InBody /\ ~InBody'
      /\ UNCHANGED <<startSize, encoded, received, current, rotated, checks, astray, lost,
                     unchecked, crashes>>
      /\ Gone' = Gone /\ SizeLimit' = SizeLimit
  BY <1>1 DEF crashVars, WriterTypeOK, InBody, Gone, SizeLimit
<1>3. /\ received \in Nat /\ MaxSpooled \in Nat /\ checks \in Nat /\ unchecked \in Nat
  BY <1>1 DEF WriterTypeOK
<1>4. Tape(chunk, << >>) /\ chunk' = << >> /\ Len(chunk') = 0
  <2>1. UNCHANGED <<current, rotated, astray, crashVars>>
    BY <1>2 DEF crashVars
  <2> QED
    BY <1>1, <1>2, <2>1, FlushIsTape
<1>5. Range(<< >>) = {} /\ Len(<< >>) = 0 /\ Increasing(<< >>)
  BY NoPart
<1>6. Before(chunk, << >>) /\ \A f \in Files : Before(contents[f], << >>)
  BY <1>5 DEF Before
<1>7. /\ contents' \in Seq(Seq(Parts)) /\ Len(contents') = Len(contents)
      /\ Files' = Files /\ chunk' \in Seq(Parts)
  BY <1>1, <1>4, TapeFiles, TapeRanges
<1>8. FilesOrdered' /\ (OnDisk \cup Range(chunk))' = OnDisk \cup Range(chunk)
  <2>1. (OnDisk \cup Range(chunk))' = OnDisk \cup Range(chunk) \cup Range(<< >>)
    BY <1>4, <1>5, <1>6, TapeOrder
  <2> QED
    BY <1>4, <1>5, <1>6, <2>1, TapeOrder
<1>9. /\ Here' = Here \cup {} /\ Held' = Held + 0
      /\ \A f \in Files : \A m \in 1 .. MaxSpooled :
           2 * m \in Range(contents'[f]) => 2 * m - 1 \in Range(contents'[f])
      /\ \A m \in 1 .. MaxSpooled : 2 * m \in Range(chunk') => 2 * m - 1 \in Here'
      /\ \A x \in Gone, y \in Range(chunk') : x < y
      /\ \A f \in Files : Len(contents'[f]) \in Nat
      /\ \A f \in Files : \/ Len(contents'[f]) <= SizeLimit
                          \/ f = current /\ Len(contents'[f]) <= Held'
  BY <1>4, <1>5, TapeKeeps
<1>10. Held \in Nat /\ Held' = Held /\ Held <= Allowed
  BY <1>1, <1>2, <1>9, HeldIs DEF Sizes
<1>10a. /\ Allowed \in Int /\ Allowed' = Allowed
        /\ SizeLimit \in Int /\ Allowed <= SizeLimit
  BY <1>1, <1>2, <1>3 DEF Allowed, SizeLimit, Busy, InBody, Rotating, CallersAt
<1>11. WriterTypeOK'
  <2>1. serving' \in BOOLEAN
    BY <1>1 DEF WriterTypeOK
  <2> QED
    BY <1>1, <1>2, <1>4, <1>7, <2>1 DEF WriterTypeOK, Rotating
<1>12. FilesBounded' /\ KeepsNewest' /\ Few'
  BY <1>1, <1>2, <1>7 DEF FilesBounded, KeepsNewest, Linked, Few
<1>13. SizeBounded'
  <2>1. Held <= SizeLimit
    BY <1>10, <1>10a
  <2>2. ASSUME NEW f \in Files PROVE Len(contents'[f]) <= SizeLimit
    BY <1>9, <1>10, <1>10a, <2>1
  <2> QED
    BY <1>2, <1>7, <2>2 DEF SizeBounded
<1>14. Stored'
  <2>1. OnDisk \cup Range(chunk) = (1 .. 2 * received) \ Gone
    BY <1>1, <1>2 DEF Stored
  <2> QED
    BY <1>2, <1>8, <2>1 DEF Stored, FilesOrdered
<1>15. WriterAt' /\ Sizes'
  BY <1>1, <1>2, <1>4, <1>7, <1>10, <1>10a DEF WriterAt, Sizes
<1>16. CallersAt'
  BY <1>1, <1>2, <1>3, <1>4 DEF CallersAt, Busy, InBody, Rotating
<1>17. Bodies'
  BY <1>2, <1>7, <1>9 DEF Bodies
<1>18. Losses'
  BY <1>1, <1>2, <1>9 DEF Losses
<1> QED
  BY <1>11, <1>12, <1>13, <1>14, <1>15, <1>16, <1>17, <1>18 DEF WriterInv

\* The rotated files are finitely many numbers.
LEMMA RotatedFinite ==
  ASSUME WriterTypeOK
  PROVE  /\ rotated \in SUBSET Nat /\ IsFiniteSet(rotated) /\ Cardinality(rotated) \in Nat
         /\ 0 \notin rotated
<1>1. Files = 1 .. Len(contents) /\ Len(contents) \in Nat /\ rotated \subseteq Files
  BY FilesAre DEF WriterTypeOK
<1>2. IsFiniteSet(1 .. Len(contents))
  BY <1>1, FS_Interval
<1>3. IsFiniteSet(rotated)
  BY <1>1, <1>2, FS_Subset
<1> QED
  BY <1>1, <1>3, FS_CardinalityType

\* A caller's Rotate, and a new process.
LEMMA StartKeeps == WriterInv /\ (Rotate \/ NewSpool) => WriterInv'
<1> SUFFICES ASSUME WriterInv, Rotate \/ NewSpool PROVE WriterInv'
  OBVIOUS
<1> USE SpoolAssumption
<1>1. /\ WriterTypeOK /\ Stored /\ WriterAt /\ CallersAt /\ Few /\ Sizes /\ Losses
      /\ Bodies /\ FilesBounded /\ KeepsNewest /\ SizeBounded
  BY DEF WriterInv
<1>2. /\ \/ wpc = "idle" /\ wpc' = "flush" /\ Busy < Callers
         \/ wpc = "down" /\ wpc' = "prune"
      /\ ~InBody /\ ~InBody'
      /\ UNCHANGED <<startSize, encoded, received, chunk, contents, current, rotated,
                     checks, serving, astray, lost, unchecked, crashes>>
      /\ Gone' = Gone /\ SizeLimit' = SizeLimit
  BY DEF Rotate, NewSpool, encVars, dirVars, callVars, crashVars, InBody, Gone, SizeLimit
<1>3. WriterTypeOK' /\ FilesBounded' /\ KeepsNewest' /\ SizeBounded' /\ Few'
  BY <1>1, <1>2 DEF WriterTypeOK, FilesBounded, KeepsNewest, SizeBounded, Few, Files, Linked,
                    Rotating
<1>4. Stored'
  BY <1>1, <1>2 DEF Stored, OnDisk, Files, Before, Increasing
<1>5. WriterAt' /\ Bodies' /\ Losses'
  BY <1>1, <1>2 DEF WriterAt, Bodies, Losses, Here, Held, Files
<1>6. CallersAt'
  <2>1. checks \in Nat
    BY <1>1 DEF WriterTypeOK
  <2> QED
    BY <1>1, <1>2, <2>1 DEF CallersAt, Busy, InBody, Rotating
<1>7. Sizes'
  <2>1. Held' = Held /\ current' = current
    BY <1>2 DEF Held
  <2>2. CASE current # 0
    <3>1. Held \in Nat /\ Held <= Allowed
      BY <1>1, <2>2, HeldIs DEF Sizes
    <3>2. checks \in Nat /\ unchecked \in Nat
      BY <1>1 DEF WriterTypeOK
    <3>3. Allowed \in Int /\ Allowed' \in Int /\ Allowed <= Allowed'
      BY <1>2, <3>2 DEF Allowed
    <3>5. Held <= Allowed'
      BY <3>1, <3>3
    <3> QED
      BY <2>1, <3>5 DEF Sizes
  <2> QED
    BY <2>1, <2>2 DEF Sizes
<1> QED
  BY <1>3, <1>4, <1>5, <1>6, <1>7 DEF WriterInv

\* The current file gets the name of a rotated one.
LEMMA RenameKeeps == WriterInv /\ Rename => WriterInv'
<1> SUFFICES ASSUME WriterInv, Rename PROVE WriterInv'
  OBVIOUS
<1> USE SpoolAssumption
<1>1. /\ WriterTypeOK /\ Stored /\ WriterAt /\ CallersAt /\ Few /\ Sizes /\ Losses
      /\ Bodies /\ FilesBounded /\ KeepsNewest /\ SizeBounded
  BY DEF WriterInv
<1>2. /\ wpc = "rename" /\ wpc' = "prune" /\ current # 0 /\ current' = 0
      /\ rotated' = rotated \cup {current} /\ chunk = << >>
      /\ ~InBody /\ ~InBody'
      /\ UNCHANGED <<startSize, encoded, received, chunk, contents, checks, serving, astray,
                     lost, unchecked, crashes>>
      /\ Gone' = Gone /\ SizeLimit' = SizeLimit
  BY <1>1 DEF Rename, encVars, callVars, crashVars, WriterTypeOK, WriterAt, InBody, Gone,
              SizeLimit
<1>3. current \in Files /\ 0 \notin rotated /\ IsFiniteSet(rotated) /\ Cardinality(rotated) \in Nat
  BY <1>1, <1>2, RotatedFinite DEF WriterTypeOK
<1>4. WriterTypeOK'
  BY <1>1, <1>2, <1>3 DEF WriterTypeOK, Files, Rotating
<1>5. Linked' = Linked /\ Files' = Files
  BY <1>2, <1>3 DEF Linked, Files
<1>6. FilesBounded' /\ KeepsNewest' /\ SizeBounded' /\ Sizes'
  BY <1>1, <1>2, <1>5 DEF FilesBounded, KeepsNewest, SizeBounded, Sizes
<1>7. Few'
  <2>1. Cardinality(rotated') = Cardinality(rotated) + 1
    BY <1>1, <1>2, <1>3, FS_AddElement DEF WriterAt
  <2>2. Cardinality(rotated) <= MaxFiles
    BY <1>1, <1>2 DEF Few
  <2> QED
    BY <1>2, <1>3, <2>1, <2>2 DEF Few
<1>8. Stored'
  BY <1>1, <1>2 DEF Stored, OnDisk, Files, Before, Increasing
<1>9. WriterAt' /\ Losses' /\ CallersAt'
  <2>1. checks \in Nat
    BY <1>1 DEF WriterTypeOK
  <2>2. CallersAt'
    BY <1>1, <1>2, <2>1 DEF CallersAt, Busy, InBody, Rotating
  <2> QED
    BY <1>1, <1>2, <1>3, <2>2 DEF WriterAt, Losses
<1>10. Bodies'
  <2>1. \A m \in 1 .. MaxSpooled : 2 * m \notin Range(chunk')
    BY <1>2, NoPart
  <2> QED
    BY <1>1, <1>2, <1>5, <2>1 DEF Bodies
<1> QED
  BY <1>4, <1>6, <1>7, <1>8, <1>9, <1>10 DEF WriterInv

\* The oldest rotated file is one, and none is older.
LEMMA OldestIs ==
  ASSUME WriterTypeOK, TooMany
  PROVE  Oldest \in rotated /\ \A g \in rotated : Oldest <= g
<1> USE SpoolAssumption
<1>1. rotated \in SUBSET Nat /\ rotated # {}
  BY RotatedFinite, FS_EmptySet DEF TooMany
<1>2. \E x \in rotated : \A y \in rotated : x <= y
  BY <1>1, LeastNatural
<1> QED
  BY <1>2 DEF Oldest, Min

\* The oldest file is removed if there are too many.
LEMMA PruneKeeps == WriterInv /\ Prune => WriterInv'
<1> SUFFICES ASSUME WriterInv, Prune PROVE WriterInv'
  OBVIOUS
<1> USE SpoolAssumption
<1>1. /\ WriterTypeOK /\ Stored /\ WriterAt /\ CallersAt /\ Few /\ Sizes /\ Losses
      /\ Bodies /\ FilesBounded /\ KeepsNewest /\ SizeBounded
  BY DEF WriterInv
<1>2. /\ wpc = "prune" /\ wpc' = "open" /\ chunk = << >>
      /\ rotated' = IF TooMany THEN rotated \ {Oldest} ELSE rotated
      /\ ~InBody /\ ~InBody'
      /\ UNCHANGED <<startSize, encoded, received, chunk, contents, current, checks, serving,
                     astray, lost, unchecked, crashes>>
      /\ Gone' = Gone /\ SizeLimit' = SizeLimit
  BY <1>1 DEF Prune, encVars, callVars, crashVars, WriterAt, InBody, Gone, SizeLimit
<1>3. /\ IsFiniteSet(rotated) /\ Cardinality(rotated) \in Nat /\ rotated \in SUBSET Nat
      /\ 0 \notin rotated /\ Len(contents) \in Nat /\ Files = 1 .. Len(contents)
      /\ rotated \subseteq Files
  BY <1>1, RotatedFinite, FilesAre DEF WriterTypeOK
<1>4. WriterTypeOK' /\ Stored'
  <2>1. Stored'
    BY <1>1, <1>2 DEF Files, Stored, OnDisk, Before, Increasing
  <2> QED
    BY <1>1, <1>2, <2>1 DEF WriterTypeOK, Files, Rotating
<1>5. Cardinality(rotated') <= MaxFiles /\ Cardinality(rotated') \in Nat
  <2>1. CASE TooMany
    <3>1. Oldest \in rotated
      BY <1>1, <2>1, OldestIs
    <3>2. Cardinality(rotated') = Cardinality(rotated) - 1
      BY <1>2, <1>3, <2>1, <3>1, FS_RemoveElement
    <3>3. Cardinality(rotated) <= MaxFiles + 1 /\ Cardinality(rotated) > MaxFiles
      BY <1>1, <2>1 DEF Few, TooMany
    <3> QED
      BY <1>3, <3>2, <3>3
  <2>2. CASE ~TooMany
    BY <1>2, <1>3, <2>2 DEF TooMany
  <2> QED
    BY <2>1, <2>2
<1>6. FilesBounded' /\ Few'
  BY <1>5 DEF FilesBounded, Few
<1>7. KeepsNewest'
  <2>1. CASE TooMany
    <3>1. Oldest \in rotated /\ \A g \in rotated : Oldest <= g
      BY <1>1, <2>1, OldestIs
    <3>2. Linked' \subseteq Linked /\ Oldest \notin Linked' /\ Files' = Files
          /\ Linked \subseteq Linked' \cup {Oldest}
      BY <1>1, <1>2, <1>3, <2>1, <3>1 DEF Linked, Files, WriterAt
    <3>3. \A f \in Linked' : Oldest < f
      <4>1. \A f \in rotated \ {Oldest} : Oldest < f
        BY <1>3, <3>1
      <4>2. current # 0 => Oldest < current
        BY <1>1, <1>3, <3>1 DEF WriterAt
      <4> QED
        BY <1>2, <2>1, <4>1, <4>2 DEF Linked
    <3> QED
      BY <1>1, <3>2, <3>3 DEF KeepsNewest
  <2>2. CASE ~TooMany
    BY <1>1, <1>2, <2>2 DEF KeepsNewest, Linked, Files
  <2> QED
    BY <2>1, <2>2
<1>8. SizeBounded' /\ Losses' /\ Bodies' /\ WriterAt'
  BY <1>1, <1>2 DEF SizeBounded, Losses, Bodies, Here, WriterAt, Files
<1>9. Sizes'
  <2>1. Held' = Held /\ Allowed' = Allowed
    BY <1>2 DEF Held, Allowed
  <2> QED
    BY <1>1, <1>2, <2>1 DEF Sizes
<1>10. CallersAt'
  BY <1>1, <1>2 DEF CallersAt, Busy, InBody, Rotating
<1> QED
  BY <1>4, <1>6, <1>7, <1>8, <1>9, <1>10 DEF WriterInv

\* "current" is opened, a new file or the one there is.
LEMMA OpenKeeps == WriterInv /\ OpenCurrent => WriterInv'
<1> SUFFICES ASSUME WriterInv, OpenCurrent PROVE WriterInv'
  OBVIOUS
<1> USE SpoolAssumption
<1>1. /\ WriterTypeOK /\ Stored /\ WriterAt /\ CallersAt /\ Few /\ Sizes /\ Losses
      /\ Bodies /\ FilesBounded /\ KeepsNewest /\ SizeBounded
  BY DEF WriterInv
<1>2. /\ wpc = "open" /\ wpc' = "idle" /\ encoded' = 0 /\ chunk = << >>
      /\ ~InBody /\ ~InBody' /\ serving' = TRUE
      /\ UNCHANGED <<received, chunk, rotated, checks, astray, lost, unchecked, crashes>>
      /\ Gone' = Gone /\ SizeLimit' = SizeLimit
  BY <1>1 DEF OpenCurrent, crashVars, WriterAt, InBody, Gone, SizeLimit
<1>2a. checks \in Nat /\ unchecked \in Nat /\ Allowed \in Nat /\ Allowed' = Allowed
       /\ SizeLimit \in Nat
  <2>1. checks \in Nat /\ unchecked \in Nat
    BY <1>1 DEF WriterTypeOK
  <2> QED
    BY <1>2, <2>1 DEF Allowed, SizeLimit
<1>2b. CallersAt'
  <2>1. Busy' <= Callers
    <3>1. CASE serving
      BY <1>1, <1>2, <1>2a, <3>1 DEF CallersAt, Busy, InBody, Rotating
    <3>2. CASE ~serving
      <4>1. ~(checks > 0)
        BY <1>1, <3>2 DEF CallersAt
      <4> QED
        BY <1>2, <1>2a, <4>1 DEF Busy, InBody, Rotating
    <3> QED
      BY <3>1, <3>2
  <2> QED
    BY <1>1, <1>2, <2>1 DEF CallersAt
<1>3. /\ Len(contents) \in Nat /\ Files = 1 .. Len(contents) /\ rotated \subseteq Files
      /\ \A f \in Files : contents[f] \in Seq(Parts) /\ Len(contents[f]) \in Nat
      /\ contents \in Seq(Seq(Parts))
      /\ Len(chunk) = 0 /\ Range(chunk) = {} /\ Len(chunk') = 0 /\ Range(chunk') = {}
  BY <1>1, <1>2, FilesAre, NoPart DEF WriterTypeOK
<1>4. /\ Cardinality(rotated) <= MaxFiles /\ Cardinality(rotated) <= MaxFiles + 1
      /\ Cardinality(rotated') = Cardinality(rotated)
  BY <1>1, <1>2 DEF Few
<1>5. CASE current = 0
  <2> DEFINE new == Len(contents) + 1
  <2>1. contents' = Append(contents, << >>) /\ current' = new /\ startSize' = 0
    BY <1>5 DEF OpenCurrent
  <2>2. << >> \in Seq(Parts) /\ Range(<< >>) = {} /\ Increasing(<< >>) /\ Len(<< >>) = 0
    BY NoPart
  <2>3. /\ contents' \in Seq(Seq(Parts)) /\ Len(contents') = new
        /\ contents'[new] = << >> /\ \A f \in Files : contents'[f] = contents[f]
    BY <1>3, <2>1, <2>2
  <2>4. Files' = Files \cup {new} /\ new \notin Files /\ new \in Nat /\ new # 0
    BY <1>3, <2>3 DEF Files
  <2>5. \A f \in Files : f < new
    BY <1>3
  <2> HIDE DEF new
  <2>6. WriterTypeOK'
    BY <1>1, <1>2, <2>1, <2>3, <2>4 DEF WriterTypeOK, Rotating
  <2>7. FilesBounded' /\ Few'
    BY <1>4 DEF FilesBounded, Few
  <2>8. KeepsNewest'
    <3>1. Linked' = Linked \cup {new} /\ Linked \subseteq Files
      BY <1>2, <1>3, <1>5, <2>1, <2>4 DEF Linked
    <3> QED
      BY <1>1, <2>4, <2>5, <3>1 DEF KeepsNewest
  <2>9. SizeBounded'
    <3>1. \A f \in Files' : Len(contents'[f]) <= SizeLimit
      <4>1. Len(contents'[new]) <= SizeLimit
        BY <1>2a, <2>2, <2>3
      <4> QED
        BY <1>1, <2>3, <2>4, <4>1 DEF SizeBounded
    <3> QED
      BY <1>2, <3>1 DEF SizeBounded
  <2>10. Stored'
    <3>1. OnDisk' = OnDisk
      <4>1. OnDisk' = UNION {Range(contents'[f]) : f \in Files'}
        BY DEF OnDisk
      <4>2. \A f \in Files : Range(contents'[f]) = Range(contents[f])
        BY <2>3
      <4>3. Range(contents'[new]) = {}
        BY <2>2, <2>3
      <4> QED
        BY <2>4, <4>1, <4>2, <4>3 DEF OnDisk
    <3>2. \A f \in Files' : Increasing(contents'[f]) /\ Before(contents'[f], chunk')
      BY <1>1, <1>3, <2>2, <2>3, <2>4 DEF Stored, Before
    <3>3. \A f, g \in Files' : f < g => Before(contents'[f], contents'[g])
      <4>1. ASSUME NEW f \in Files', NEW g \in Files', f < g
            PROVE  Before(contents'[f], contents'[g])
        <5>1. CASE f = new \/ g = new
          BY <2>2, <2>3, <5>1 DEF Before
        <5>2. CASE f \in Files /\ g \in Files
          BY <1>1, <2>3, <4>1, <5>2 DEF Stored
        <5> QED
          BY <2>4, <5>1, <5>2
      <4> QED
        BY <4>1
    <3> QED
      BY <1>1, <1>2, <1>3, <3>1, <3>2, <3>3 DEF Stored
  <2>11. Held' = 0
    BY <1>3, <2>1, <2>2, <2>3 DEF Held
  <2>12. WriterAt'
    BY <1>2, <1>3, <2>1, <2>3, <2>4, <2>11 DEF WriterAt
  <2>13. Sizes'
    BY <1>2a, <2>11 DEF Sizes
  <2>14. Bodies' /\ Losses'
    BY <1>1, <1>2, <1>3, <2>2, <2>3, <2>4 DEF Bodies, Losses
  <2> QED
    BY <1>2b, <2>6, <2>7, <2>8, <2>9, <2>10, <2>12, <2>13, <2>14 DEF WriterInv
<1>6. CASE current # 0
  <2>1. startSize' = Len(contents[current]) /\ UNCHANGED <<contents, current>>
    BY <1>6 DEF OpenCurrent
  <2>2. Held \in Nat /\ Len(contents[current]) \in Nat /\ Held = Len(contents[current])
    BY <1>1, <1>3, <1>6, HeldIs DEF Held
  <2>3. Held' = startSize' + encoded'
    BY <1>2, <1>3, <2>1, <2>2 DEF Held
  <2>3a. Held' <= startSize' + encoded'
    BY <2>2, <2>3, <2>1, <1>2
  <2>4. WriterTypeOK' /\ FilesBounded' /\ KeepsNewest' /\ SizeBounded' /\ Few'
    <3>1. WriterTypeOK'
      BY <1>1, <1>2, <1>6, <2>1, <2>2 DEF WriterTypeOK, Files, Rotating
    <3>2. KeepsNewest' /\ SizeBounded'
      BY <1>1, <1>2, <2>1 DEF KeepsNewest, SizeBounded, Files, Linked
    <3> QED
      BY <1>4, <3>1, <3>2 DEF FilesBounded, Few
  <2>5. Stored'
    BY <1>1, <1>2, <2>1 DEF Stored, OnDisk, Files, Before, Increasing
  <2>6. WriterAt' /\ Bodies' /\ Losses'
    BY <1>1, <1>2, <2>1, <2>3a DEF WriterAt, Bodies, Losses, Here, Files
  <2>7. Sizes'
    <3>1. Held' = Held
      BY <1>2, <2>1 DEF Held
    <3> QED
      BY <1>1, <1>2a, <2>1, <3>1 DEF Sizes
  <2> QED
    BY <1>2b, <2>4, <2>5, <2>6, <2>7 DEF WriterInv
<1> QED
  BY <1>5, <1>6

\* The parts of r messages, and those of the next one.
LEMMA UpToBody ==
  ASSUME NEW r \in Nat, NEW A \in SUBSET (1 .. 2 * r), NEW B \in SUBSET (1 .. 2 * r + 1)
  PROVE  A \cup B \cup {2 * r + 2} \subseteq 1 .. 2 * r + 2
<1>1. \A x \in 1 .. 2 * r : x \in 1 .. 2 * r + 2
  OBVIOUS
<1>2. \A x \in 1 .. 2 * r + 1 : x \in 1 .. 2 * r + 2
  OBVIOUS
<1>3. 2 * r + 2 \in 1 .. 2 * r + 2
  OBVIOUS
<1> QED
  BY ONLY <1>1, <1>2, <1>3

\* The buffer is dropped, and the half of a message that was to come.
LEMMA DropKeeps ==
  ASSUME WriterInv, ~InBody', chunk' = << >>,
         Gone' = Gone \cup Range(chunk) \cup (IF InBody THEN {2 * received + 2} ELSE {}),
         received' = IF InBody THEN received + 1 ELSE received,
         UNCHANGED <<contents, current, rotated>>
  PROVE  /\ received' \in 0 .. MaxSpooled /\ Gone' \subseteq Parts
         /\ chunk' \in Seq(Parts) /\ Len(chunk') = 0
         /\ Stored' /\ Bodies' /\ Losses'
<1> USE SpoolAssumption
<1>1. /\ WriterTypeOK /\ Stored /\ WriterAt /\ Losses /\ Bodies
  BY DEF WriterInv
<1> DEFINE half == IF InBody THEN {2 * received + 2} ELSE {}
           put  == IF InBody THEN 2 * received + 1 ELSE 2 * received
<1>2. /\ chunk' = << >> /\ Gone' = Gone \cup Range(chunk) \cup half /\ ~InBody'
      /\ received' = IF InBody THEN received + 1 ELSE received
      /\ UNCHANGED <<contents, current, rotated>>
  OBVIOUS
<1>3. /\ Files' = Files /\ Range(chunk') = {} /\ chunk' \in Seq(Parts) /\ Len(chunk') = 0
      /\ Increasing(chunk')
  BY <1>2, NoPart DEF Files
<1>4. /\ received \in Nat /\ MaxSpooled \in Nat /\ received <= MaxSpooled
      /\ InBody => received < MaxSpooled
  BY <1>1 DEF WriterTypeOK, WriterAt
<1>5. Range(chunk) \subseteq 1 .. put /\ half \subseteq Parts
      /\ put \in Nat /\ put <= 2 * received'
  BY <1>1, <1>2, <1>4 DEF Stored, Parts
<1>6. received' \in 0 .. MaxSpooled
  BY <1>2, <1>4
<1>7. Gone' \subseteq 1 .. 2 * received'
  <2>1. Gone \subseteq 1 .. 2 * received
    BY <1>1 DEF Losses
  <2>2. CASE InBody
    <3>1. received' = received + 1 /\ put = 2 * received + 1 /\ half = {2 * received + 2}
      BY <1>2, <2>2
    <3>2. 2 * received' = 2 * received + 2
      BY <1>4, <3>1
    <3>3. Gone \cup Range(chunk) \cup half \subseteq 1 .. 2 * received + 2
      <4>1. received \in Nat
        BY <1>4
      <4>2. Range(chunk) \subseteq 1 .. 2 * received + 1
        BY <1>5, <2>2
      <4> QED
        BY <2>1, <3>1, <4>1, <4>2, UpToBody
    <3> QED
      BY <1>2, <3>2, <3>3
  <2>3. CASE ~InBody
    <3>1. received' = received /\ put = 2 * received /\ half = {}
      BY <1>2, <2>3
    <3>2. Gone \cup Range(chunk) \cup half \subseteq 1 .. 2 * received
      BY <1>4, <1>5, <2>1, <3>1
    <3> QED
      BY <1>2, <3>1, <3>2
  <2> QED
    BY <2>2, <2>3
<1>8. Gone' \subseteq Parts
  BY <1>4, <1>6, <1>7 DEF Parts
<1>9. Stored'
  <2>1. OnDisk = ((1 .. put) \ Gone) \ Range(chunk)
    <3>1. OnDisk \cup Range(chunk) = (1 .. put) \ Gone
      BY <1>1 DEF Stored
    <3>2. ASSUME NEW x \in OnDisk PROVE x \notin Range(chunk)
      <4>1. PICK f \in Files : x \in Range(contents[f])
        BY DEF OnDisk
      <4>2. x \in Range(chunk) => x < x
        BY <1>1, <4>1 DEF Stored, Before
      <4>3. x \in Int
        BY <1>1, <3>1, <3>2
      <4> QED
        BY <4>2, <4>3
    <3> QED
      BY <3>1, <3>2
  <2>2. (1 .. 2 * received') \ half = 1 .. put
    BY <1>2, <1>4
  <2>3. OnDisk' = OnDisk
    BY <1>2 DEF OnDisk, Files
  <2>4. (OnDisk \cup Range(chunk))' = (1 .. 2 * received') \ Gone'
    BY <1>2, <1>3, <2>1, <2>2, <2>3
  <2>5. \A f \in Files' : Increasing(contents'[f]) /\ Before(contents'[f], chunk')
    BY <1>1, <1>2, <1>3 DEF Stored, Before
  <2>6. \A f, g \in Files' : f < g => Before(contents'[f], contents'[g])
    BY <1>1, <1>2, <1>3 DEF Stored
  <2> QED
    BY <1>2, <1>3, <2>4, <2>5, <2>6 DEF Stored
<1>10. Bodies'
  BY <1>1, <1>2, <1>3 DEF Bodies
<1>11. Losses'
  BY <1>3, <1>7 DEF Losses
<1> QED
  BY <1>3, <1>6, <1>8, <1>9, <1>10, <1>11

\* What a crash keeps.
LEMMA CrashKeeps == WriterInv /\ Crash => WriterInv'
<1> SUFFICES ASSUME WriterInv, Crash PROVE WriterInv'
  OBVIOUS
<1> USE SpoolAssumption
<1>1. /\ WriterTypeOK /\ WriterAt /\ CallersAt /\ Few /\ Sizes /\ FilesBounded
      /\ KeepsNewest /\ SizeBounded
  BY DEF WriterInv
<1>2. /\ wpc' = "down" /\ ~InBody' /\ chunk' = << >>
      /\ crashes < MaxCrashes /\ crashes' = crashes + 1
      /\ lost' = lost \cup Range(chunk) \cup (IF InBody THEN {2 * received + 2} ELSE {})
      /\ received' = IF InBody THEN received + 1 ELSE received
      /\ unchecked' = unchecked + Busy /\ checks' = 0 /\ serving' = FALSE
      /\ UNCHANGED <<startSize, encoded, contents, current, rotated, astray>>
  BY DEF Crash, dirVars, InBody
<1>3. Gone' = Gone \cup Range(chunk) \cup (IF InBody THEN {2 * received + 2} ELSE {})
  BY <1>2 DEF Gone
<1>4. /\ received' \in 0 .. MaxSpooled /\ Gone' \subseteq Parts
      /\ chunk' \in Seq(Parts) /\ Len(chunk') = 0 /\ Stored' /\ Bodies' /\ Losses'
  BY <1>2, <1>3, DropKeeps
<1>5. /\ checks \in Nat /\ unchecked \in Nat /\ Busy \in Nat /\ unchecked' \in Nat
      /\ crashes' \in 0 .. MaxCrashes /\ SizeLimit \in Int /\ SizeLimit' \in Int
      /\ SizeLimit <= SizeLimit' /\ Allowed <= Allowed'
      /\ Allowed \in Int /\ Allowed' \in Int
  <2>1. checks \in Nat /\ unchecked \in Nat /\ crashes \in Nat
    BY <1>1 DEF WriterTypeOK
  <2>2. /\ Busy \in Nat /\ Allowed \in Int
        /\ Allowed <= PerFile - 1 + 2 * unchecked + 2 * Busy
    BY <1>1, <2>1 DEF Busy, Allowed, CallersAt, InBody, Rotating
  <2>3. Allowed' = PerFile - 1 + 2 * unchecked + 2 * Busy
    BY <1>2, <2>1, <2>2 DEF Allowed
  <2> QED
    BY <1>2, <2>1, <2>2, <2>3 DEF SizeLimit
<1>6. WriterTypeOK'
  <2>1. lost' \subseteq Parts /\ astray' \subseteq Parts
    BY <1>4 DEF Gone
  <2>2. checks' \in 0 .. Callers /\ serving' \in BOOLEAN
    <3>1. Callers \in Nat /\ checks' = 0
      BY <1>2
    <3>2. checks' \in 0 .. Callers
      BY ONLY <3>1
    <3> QED
      BY <1>2, <3>2
  <2> QED
    BY <1>1, <1>2, <1>4, <1>5, <2>1, <2>2 DEF WriterTypeOK, Files
<1>7. FilesBounded' /\ KeepsNewest' /\ Few'
  BY <1>1, <1>2 DEF FilesBounded, KeepsNewest, Few, Files, Linked
<1>8. SizeBounded'
  <2>1. ASSUME NEW f \in Files PROVE Len(contents[f]) <= SizeLimit'
    <3>1. Len(contents[f]) \in Nat /\ Len(contents[f]) <= SizeLimit
      BY <1>1, FilesAre DEF SizeBounded
    <3> QED
      BY <1>5, <3>1
  <2> QED
    BY <1>2, <2>1 DEF SizeBounded, Files
<1>9. WriterAt' /\ CallersAt'
  BY <1>1, <1>2 DEF WriterAt, CallersAt, Busy, InBody, Rotating
<1>10. Sizes'
  <2>1. CASE current # 0
    <3>1. /\ Held \in Nat /\ Len(contents[current]) \in Nat /\ Len(chunk) \in Nat
          /\ Held = Len(contents[current]) + Len(chunk) /\ Held <= Allowed
      BY <1>1, <2>1, HeldIs DEF Sizes, Held
    <3>2. Held' = Len(contents[current]) + 0
      BY <1>2, <1>4 DEF Held
    <3>3. Held' <= Allowed'
      <4>1. Held' = Len(contents[current]) /\ Held' \in Nat /\ Held' <= Held
        BY <3>1, <3>2
      <4> QED
        BY <1>5, <3>1, <4>1
    <3> QED
      BY <3>3 DEF Sizes
  <2> QED
    BY <1>2, <2>1 DEF Sizes
<1> QED
  BY <1>4, <1>6, <1>7, <1>8, <1>9, <1>10 DEF WriterInv

\* What the close of the file keeps: the buffer of its encoder is lost.
LEMMA CloseFileKeeps == WriterInv /\ CloseFile => WriterInv'
<1> SUFFICES ASSUME WriterInv, CloseFile PROVE WriterInv'
  OBVIOUS
<1> USE SpoolAssumption
<1>1. /\ WriterTypeOK /\ WriterAt /\ CallersAt /\ Few /\ Sizes /\ FilesBounded
      /\ KeepsNewest /\ SizeBounded
  BY DEF WriterInv
<1>2. /\ wpc \in {"close", "late"} /\ wpc' = "rename" /\ ~InBody' /\ chunk' = << >>
      /\ InBody <=> wpc = "late"
      /\ current # 0
      /\ astray' = astray \cup Range(chunk) \cup (IF InBody THEN {2 * received + 2} ELSE {})
      /\ received' = IF InBody THEN received + 1 ELSE received
      /\ encoded' = IF InBody THEN encoded + 2 ELSE encoded
      /\ checks' = IF InBody THEN checks + 1 ELSE checks
      /\ UNCHANGED <<startSize, contents, current, rotated, serving, lost, unchecked, crashes>>
      /\ SizeLimit' = SizeLimit
  BY <1>1 DEF CloseFile, dirVars, crashVars, InBody, WriterTypeOK, SizeLimit
<1>3. Gone' = Gone \cup Range(chunk) \cup (IF InBody THEN {2 * received + 2} ELSE {})
  BY <1>2 DEF Gone
<1>4. /\ received' \in 0 .. MaxSpooled /\ Gone' \subseteq Parts
      /\ chunk' \in Seq(Parts) /\ Len(chunk') = 0 /\ Stored' /\ Bodies' /\ Losses'
  BY <1>2, <1>3, DropKeeps
<1>5. /\ checks \in Nat /\ unchecked \in Nat /\ startSize \in Nat /\ encoded \in Nat
      /\ Busy' = Busy /\ Busy <= Callers /\ checks' \in 0 .. Callers
      /\ Allowed \in Int /\ Allowed' \in Int /\ Allowed <= Allowed'
  <2>1. checks \in Nat /\ unchecked \in Nat /\ startSize \in Nat /\ encoded \in Nat
    BY <1>1 DEF WriterTypeOK
  <2>2. Busy' = Busy /\ Busy <= Callers /\ checks' \in 0 .. Callers
    BY <1>1, <1>2, <2>1 DEF CallersAt, Busy, InBody, Rotating
  <2>3. Allowed \in Int /\ Allowed' \in Int /\ Allowed <= Allowed'
    BY <1>2, <2>1 DEF Allowed, InBody
  <2> QED
    BY <2>1, <2>2, <2>3
<1>6. WriterTypeOK'
  <2>1. astray' \subseteq Parts /\ encoded' \in Nat
    BY <1>2, <1>4, <1>5 DEF Gone
  <2> QED
    BY <1>1, <1>2, <1>4, <1>5, <2>1 DEF WriterTypeOK, Files, Rotating
<1>7. FilesBounded' /\ KeepsNewest' /\ Few' /\ SizeBounded'
  BY <1>1, <1>2 DEF FilesBounded, KeepsNewest, Few, SizeBounded, Files, Linked
<1>8. CallersAt'
  <2>1. ASSUME Callers = 1 PROVE astray' = {}
    <3>1. ~InBody
      BY <1>1, <1>2, <1>5, <2>1 DEF CallersAt, Busy, InBody, Rotating
    <3>2. astray = {} /\ chunk = << >>
      BY <1>1, <1>2, <2>1, <3>1 DEF CallersAt
    <3>3. Range(chunk) = {}
      BY <3>2, NoPart
    <3> QED
      BY <1>2, <3>1, <3>2, <3>3
  <2> QED
    BY <1>1, <1>2, <1>5, <2>1 DEF CallersAt
<1>9. /\ Held \in Nat /\ Held' \in Nat /\ Held' <= Held
      /\ Held <= startSize + encoded + (IF InBody THEN 1 ELSE 0)
      /\ Held <= Allowed
  <2>1. /\ Held \in Nat /\ Len(contents[current]) \in Nat /\ Len(chunk) \in Nat
        /\ Held = Len(contents[current]) + Len(chunk)
    BY <1>1, <1>2, HeldIs DEF Held
  <2>2. Held' = Len(contents[current]) + 0
    BY <1>2, <1>4 DEF Held
  <2> QED
    BY <1>1, <1>2, <2>1, <2>2 DEF WriterAt, Sizes
<1>10. WriterAt'
  <2>1. Held' <= startSize' + encoded'
    BY <1>2, <1>5, <1>9
  <2>2. Held' <= startSize' + encoded' + (IF InBody' THEN 1 ELSE 0)
    BY <1>2, <1>5, <2>1
  <2> QED
    BY <1>1, <1>2, <2>2 DEF WriterAt
<1>11. Sizes'
  <2>1. Held' <= Allowed'
    BY <1>5, <1>9
  <2> QED
    BY <2>1 DEF Sizes
<1> QED
  BY <1>4, <1>6, <1>7, <1>8, <1>10, <1>11 DEF WriterInv

\* What a message keeps that goes to an encoder without a file.
LEMMA AstrayKeeps == WriterInv /\ ReceiveAstray => WriterInv'
<1> SUFFICES ASSUME WriterInv, ReceiveAstray PROVE WriterInv'
  OBVIOUS
<1> USE SpoolAssumption
<1>1. /\ WriterTypeOK /\ WriterAt /\ CallersAt /\ Few /\ Sizes /\ FilesBounded
      /\ KeepsNewest /\ SizeBounded /\ Stored /\ Bodies /\ Losses
  BY DEF WriterInv
<1>2. /\ wpc \in {"rename", "prune", "open"} /\ wpc' = wpc /\ ~InBody /\ ~InBody'
      /\ serving /\ received < MaxSpooled /\ Busy < Callers
      /\ astray' = astray \cup {2 * received + 1, 2 * received + 2}
      /\ received' = received + 1 /\ encoded' = encoded + 2 /\ checks' = checks + 1
      /\ UNCHANGED <<startSize, chunk, contents, current, rotated, serving, lost, unchecked,
                     crashes>>
      /\ SizeLimit' = SizeLimit /\ chunk = << >>
      /\ Gone' = Gone \cup {2 * received + 1, 2 * received + 2}
  BY <1>1 DEF ReceiveAstray, dirVars, crashVars, InBody, SizeLimit, Gone, WriterAt
<1>3. /\ checks \in Nat /\ unchecked \in Nat /\ startSize \in Nat /\ encoded \in Nat
      /\ received \in Nat /\ MaxSpooled \in Nat /\ received' \in 0 .. MaxSpooled
      /\ Busy' = Busy + 1 /\ checks' \in 0 .. Callers /\ Busy' <= Callers /\ Callers # 1
      /\ Allowed \in Int /\ Allowed' = Allowed + 2
  <2>1. /\ checks \in Nat /\ unchecked \in Nat /\ startSize \in Nat /\ encoded \in Nat
        /\ received \in Nat /\ MaxSpooled \in Nat
    BY <1>1 DEF WriterTypeOK
  <2>2. /\ Busy' = Busy + 1 /\ checks' \in 0 .. Callers /\ Busy' <= Callers /\ Callers # 1
    BY <1>1, <1>2, <2>1 DEF Busy, Rotating
  <2>3. Allowed \in Int /\ Allowed' = Allowed + 2
    BY <1>2, <2>1 DEF Allowed
  <2> QED
    BY <1>2, <2>1, <2>2, <2>3
<1>4. /\ Files' = Files /\ Held' = Held /\ Here' = Here /\ OnDisk' = OnDisk
      /\ Range(chunk') = {} /\ Range(chunk) = {}
  BY <1>2, NoPart DEF Files, Held, Here, OnDisk
<1>5. WriterTypeOK'
  <2>1. astray' \subseteq Parts
    BY <1>1, <1>2, <1>3 DEF WriterTypeOK, Parts
  <2> QED
    BY <1>1, <1>2, <1>3, <1>4, <2>1 DEF WriterTypeOK
<1>6. FilesBounded' /\ KeepsNewest' /\ Few' /\ SizeBounded'
  BY <1>1, <1>2 DEF FilesBounded, KeepsNewest, Few, SizeBounded, Files, Linked
<1>7. Stored'
  <2>1. OnDisk \cup Range(chunk) = (1 .. 2 * received) \ Gone
    BY <1>1, <1>2 DEF Stored
  <2>2. (1 .. 2 * received') \ {2 * received + 1, 2 * received + 2} = 1 .. 2 * received
    BY <1>2, <1>3
  <2>3. (OnDisk \cup Range(chunk))' = (1 .. 2 * received') \ Gone'
    BY <1>2, <1>4, <2>1, <2>2
  <2> QED
    BY <1>1, <1>2, <1>4, <2>3 DEF Stored, Increasing, Before
<1>8. Bodies' /\ Losses'
  <2>1. Gone \subseteq 1 .. 2 * received
    BY <1>1 DEF Losses
  <2>2. Gone' \subseteq 1 .. 2 * received'
    BY <1>2, <1>3, <2>1
  <2> QED
    BY <1>1, <1>2, <1>4, <2>2 DEF Bodies, Losses
<1>9. WriterAt'
  <2>1. wpc = "rename" => Held <= startSize + encoded + 0 /\ Held \in Nat
    BY <1>1, <1>2, HeldIs DEF WriterAt, WriterTypeOK
  <2>2. wpc = "rename" => Held' <= startSize + encoded'
    BY <1>2, <1>3, <1>4, <2>1
  <2>3. wpc' = "rename" => Held' <= startSize' + encoded' + (IF InBody' THEN 1 ELSE 0)
    BY <1>2, <1>3, <2>2
  <2> QED
    BY <1>1, <1>2, <2>3 DEF WriterAt
<1>10. Sizes' /\ CallersAt'
  <2>1. current # 0 => Held \in Nat /\ Held <= Allowed
    BY <1>1, HeldIs DEF Sizes
  <2>2. current' # 0 => Held' <= Allowed'
    BY <1>2, <1>3, <1>4, <2>1
  <2>3. CallersAt'
    BY <1>1, <1>2, <1>3 DEF CallersAt
  <2> QED
    BY <2>2, <2>3 DEF Sizes
<1> QED
  BY <1>5, <1>6, <1>7, <1>8, <1>9, <1>10 DEF WriterInv

\* What a comparison with PerFileSize keeps: a file that is not full is within
\* it, and the caller that finds a full one goes on to rotate.
LEMMA CheckKeeps == WriterInv /\ Check /\ wpc' # "tangled" => WriterInv'
<1> SUFFICES ASSUME WriterInv, Check, wpc' # "tangled" PROVE WriterInv'
  OBVIOUS
<1> USE SpoolAssumption
<1>1. /\ WriterTypeOK /\ WriterAt /\ CallersAt /\ Few /\ Sizes /\ FilesBounded
      /\ KeepsNewest /\ SizeBounded /\ Stored /\ Bodies /\ Losses
  BY DEF WriterInv
<1>2. /\ checks > 0 /\ checks' = checks - 1
      /\ \/ ~Full /\ wpc \in {"idle", "body"} \cup Rotating /\ wpc' = wpc
         \/ Full /\ wpc = "idle" /\ wpc' = "flush"
      /\ InBody' <=> InBody
      /\ UNCHANGED <<startSize, encoded, received, chunk, contents, current, rotated, serving,
                     astray, lost, unchecked, crashes>>
      /\ SizeLimit' = SizeLimit /\ Gone' = Gone
  <2>1. /\ checks > 0 /\ checks' = checks - 1
        /\ \/ ~Full /\ wpc \in {"idle", "body"} \cup Rotating /\ wpc' = wpc
           \/ Full /\ wpc = "idle" /\ wpc' = "flush"
        /\ UNCHANGED <<startSize, encoded, received, chunk, contents, current, rotated,
                       serving, astray, lost, unchecked, crashes>>
    BY DEF Check, encVars, dirVars, crashVars
  <2> QED
    BY <2>1 DEF InBody, SizeLimit, Gone
<1>3. /\ checks \in Nat /\ unchecked \in Nat /\ startSize \in Nat /\ encoded \in Nat
      /\ checks <= Callers /\ checks' \in 0 .. Callers
  <2>1. checks \in 0 .. Callers
    BY <1>1 DEF WriterTypeOK
  <2> QED
    BY <1>1, <1>2, <2>1 DEF WriterTypeOK
<1>4. Files' = Files /\ Held' = Held /\ Here' = Here /\ OnDisk' = OnDisk
  BY <1>2 DEF Files, Held, Here, OnDisk
<1>5. WriterTypeOK'
  BY <1>1, <1>2, <1>3, <1>4 DEF WriterTypeOK, Rotating
<1>6. FilesBounded' /\ KeepsNewest' /\ Few' /\ SizeBounded'
  BY <1>1, <1>2 DEF FilesBounded, KeepsNewest, Few, SizeBounded, Files, Linked
<1>7. Stored' /\ Bodies' /\ Losses'
  BY <1>1, <1>2, <1>4 DEF Stored, Bodies, Losses, Increasing, Before
<1>8. WriterAt'
  BY <1>1, <1>2, <1>4 DEF WriterAt
<1>9. CallersAt'
  <2>1. Busy' <= Callers
    BY <1>1, <1>2, <1>3 DEF CallersAt, Busy, InBody, Rotating
  <2> QED
    BY <1>1, <1>2, <1>3, <2>1 DEF CallersAt
<1>10. Sizes'
  <2> SUFFICES ASSUME current # 0 PROVE Held <= Allowed'
    BY <1>2, <1>4 DEF Sizes
  <2>1. Held \in Nat /\ Held <= Allowed
    BY <1>1, HeldIs DEF Sizes
  <2>2. CASE Full
    <3>1. Allowed' = Allowed
      BY <1>2, <1>3, <2>2 DEF Allowed, InBody
    <3> QED
      BY <2>1, <3>1
  <2>3. CASE ~Full
    <3>1. wpc \in {"idle", "body", "flush", "close", "late", "rename"}
      BY <1>1, <1>2, <2>3 DEF CallersAt, Rotating
    <3>2. Held <= startSize + encoded + (IF InBody THEN 1 ELSE 0)
      BY <1>1, <3>1 DEF WriterAt
    <3>3. startSize + encoded <= PerFile - 1
      BY <1>3, <2>3 DEF Full
    <3>4. PerFile - 1 + (IF InBody THEN 1 ELSE 0) <= Allowed' /\ Allowed' \in Int
      BY <1>2, <1>3 DEF Allowed
    <3>5. \A h, a, b, c, e \in Int : h <= a + b /\ a <= c /\ c + b <= e => h <= e
      OBVIOUS
    <3>6. startSize + encoded \in Int /\ (IF InBody THEN 1 ELSE 0) \in Int
      BY <1>3
    <3>7. Held \in Int /\ Allowed' \in Int
      BY <2>1, <3>4
    <3> DEFINE b == IF InBody THEN 1 ELSE 0
               a == startSize + encoded
               c == PerFile - 1
    <3>8. /\ Held <= a + b /\ a <= c /\ c + b <= Allowed'
          /\ a \in Int /\ b \in Int /\ c \in Int
      BY <3>2, <3>3, <3>4, <3>6
    <3> HIDE DEF Held, Allowed, a, b, c
    <3> QED
      BY <3>5, <3>7, <3>8
  <2> QED
    BY <2>2, <2>3
<1> QED
  BY <1>5, <1>6, <1>7, <1>8, <1>9, <1>10 DEF WriterInv

\* Every step of the writer keeps the writer's part of the invariant, until two
\* rotations overlap.
LEMMA WriterKeeps == WriterInv /\ Writer /\ wpc' # "tangled" => WriterInv'
<1> SUFFICES ASSUME WriterInv, Writer, wpc' # "tangled" PROVE WriterInv'
  OBVIOUS
<1>1. CASE ReceiveHead
  BY <1>1, HeadKeeps
<1>2. CASE ReceiveBody
  BY <1>2, BodyKeeps
<1>3. CASE Flush
  BY <1>3, FlushKeeps DEF Flush, callVars
<1>4. CASE Rotate \/ NewSpool
  BY <1>4, StartKeeps
<1>5. CASE RotateFlush
  BY <1>5, FlushKeeps DEF RotateFlush, RotateFlushes, callVars
<1>6. CASE Rename
  BY <1>6, RenameKeeps
<1>7. CASE Prune
  BY <1>7, PruneKeeps
<1>8. CASE OpenCurrent
  BY <1>8, OpenKeeps
<1>9. CASE CloseSpool
  BY <1>9, FlushKeeps DEF CloseSpool
<1>10. CASE Crash
  BY <1>10, CrashKeeps
<1>11. CASE CloseFile
  BY <1>11, CloseFileKeeps
<1>12. CASE ReceiveAstray
  BY <1>12, AstrayKeeps
<1>13. CASE Check
  BY <1>13, CheckKeeps
<1> QED
  BY <1>1, <1>2, <1>3, <1>4, <1>5, <1>6, <1>7, <1>8, <1>9, <1>10, <1>11, <1>12, <1>13
     DEF Writer

-----------------------------------------------------------------------------
(* The reader, while the writer goes on                                    *)

\* What the writer's steps leave to the reader: files grow at their end, and
\* what a Generator that is not disturbed has still to open stays where it is.
Grown ==
  /\ contents' \in Seq(Seq(Parts)) /\ Files \subseteq Files'
  /\ \A f \in Files : /\ Len(contents[f]) <= Len(contents'[f])
                      /\ \A p \in 1 .. Len(contents[f]) : contents'[f][p] = contents[f][p]
  /\ UNCHANGED readerVars /\ disturbed' \in BOOLEAN /\ (disturbed => disturbed')
  /\ current' \in {0, current} \/ current' \notin Files
  /\ rpc = "opening" /\ ~disturbed' /\ current # 0 =>
       current' = current /\ rotated' = rotated

\* A step of the encoder appends.
LEMMA TapeGrows ==
  ASSUME WriterTypeOK, NEW u, NEW v, Tape(u, v)
  PROVE  /\ contents' \in Seq(Seq(Parts)) /\ Files' = Files
         /\ \A f \in Files : /\ Len(contents[f]) <= Len(contents'[f])
                             /\ \A p \in 1 .. Len(contents[f]) : contents'[f][p] = contents[f][p]
<1>1. /\ Files' = Files /\ current \in Files /\ contents' \in Seq(Seq(Parts))
      /\ contents'[current] = contents[current] \o u
      /\ \A f \in Files \ {current} : contents'[f] = contents[f]
  BY TapeFiles
<1>2. /\ u \in Seq(Parts) /\ \A f \in Files : contents[f] \in Seq(Parts)
      /\ Len(contents'[current]) = Len(contents[current]) + Len(u)
      /\ Len(u) \in Nat /\ \A f \in Files : Len(contents[f]) \in Nat
  <2>1. u \in Seq(Parts) /\ \A f \in Files : contents[f] \in Seq(Parts)
    BY FilesAre DEF Tape
  <2>2. Len(contents'[current]) = Len(contents[current]) + Len(u)
    BY TapeRanges
  <2>3. Len(u) \in Nat /\ \A f \in Files : Len(contents[f]) \in Nat
    BY <2>1
  <2> QED
    BY <2>1, <2>2, <2>3
<1>3. ASSUME NEW f \in Files
      PROVE  /\ Len(contents[f]) <= Len(contents'[f])
             /\ \A p \in 1 .. Len(contents[f]) : contents'[f][p] = contents[f][p]
  <2>1. CASE f # current
    BY <1>1, <1>2, <2>1
  <2>2. CASE f = current
    BY <1>1, <1>2, <2>2, ConcatRange
  <2> QED
    BY <2>1, <2>2
<1> QED
  BY <1>1, <1>3

\* Every step of the writer is one of these.
LEMMA WriterGrows == SpoolInv /\ Writer => Grown
<1> SUFFICES ASSUME SpoolInv, Writer PROVE Grown
  OBVIOUS
<1>1. /\ WriterTypeOK /\ WriterAt /\ Few /\ ReaderTypeOK /\ Reachable
      /\ Files = 1 .. Len(contents) /\ Len(contents) \in Nat
      /\ \A f \in Files : contents[f] \in Seq(Parts) /\ Len(contents[f]) \in Nat
      /\ contents \in Seq(Seq(Parts)) /\ disturbed \in BOOLEAN /\ MaxSpooled \in Nat
  BY FilesAre, SpoolAssumption
     DEF SpoolInv, WriterInv, ReaderInv, WriterTypeOK, ReaderTypeOK
<1>2. ASSUME NEW u, NEW v, Tape(u, v), UNCHANGED <<readerVars, disturbed>>
      PROVE  Grown
  BY <1>1, <1>2, TapeGrows DEF Tape, Grown
<1>3. ASSUME FlushChunk, current # 0,
             UNCHANGED <<current, rotated, astray, crashVars, readerVars, disturbed>>
      PROVE  Grown
  BY <1>1, <1>2, <1>3, FlushIsTape
<1>4. ASSUME NEW part \in Parts, Put(part), current # 0,
             UNCHANGED <<current, rotated, astray, crashVars, readerVars, disturbed>>
      PROVE  Grown
  BY <1>1, <1>2, <1>4, PutIsTape
<1>5. CASE ReceiveHead
  <2>1. 2 * received + 1 \in Parts /\ current # 0
    BY <1>1, <1>5 DEF ReceiveHead, WriterTypeOK, Parts
  <2> QED
    BY <1>4, <1>5, <2>1 DEF ReceiveHead, callVars
<1>6. CASE ReceiveBody
  <2>1. received \in Nat /\ received < MaxSpooled /\ current # 0
    BY <1>1, <1>6 DEF ReceiveBody, InBody, WriterTypeOK, WriterAt
  <2>2. 2 * received + 2 \in Parts
    BY <1>1, <2>1 DEF Parts
  <2> QED
    BY <1>4, <1>6, <2>1, <2>2 DEF ReceiveBody
<1>7. CASE Flush \/ RotateFlush \/ CloseSpool
  BY <1>1, <1>3, <1>7 DEF Flush, RotateFlush, RotateFlushes, CloseSpool, callVars,
                          WriterTypeOK
<1>8. CASE Rotate \/ NewSpool \/ Crash \/ CloseFile \/ ReceiveAstray \/ Check
  <2>1. UNCHANGED <<contents, current, rotated, readerVars, disturbed>>
    BY <1>8 DEF Rotate, NewSpool, Crash, CloseFile, ReceiveAstray, Check, dirVars
  <2> QED
    BY <1>1, <2>1 DEF Grown, Files
<1>9. CASE Rename
  <2>1. /\ UNCHANGED <<contents, readerVars>> /\ current' = 0
    BY <1>9 DEF Rename
  <2>2. disturbed' = (disturbed \/ rpc = "opening")
    BY <1>9 DEF Rename
  <2>3. disturbed' \in BOOLEAN /\ (disturbed => disturbed') /\ (rpc = "opening" => disturbed')
    BY <1>1, <2>2, ZenonT(30)
  <2> QED
    BY <1>1, <2>1, <2>3 DEF Grown, Files
<1>10. CASE Prune
  <2>1. /\ UNCHANGED <<contents, current, readerVars, disturbed>>
        /\ rotated' = IF TooMany THEN rotated \ {Oldest} ELSE rotated
    BY <1>10 DEF Prune
  <2>2. current # 0 => ~TooMany
    BY <1>1, RotatedFinite, SpoolAssumption DEF Few, TooMany
  <2> QED
    BY <1>1, <2>1, <2>2 DEF Grown, Files
<1>11. CASE OpenCurrent
  <2>1. UNCHANGED <<rotated, readerVars, disturbed>>
    BY <1>11 DEF OpenCurrent
  <2>2. CASE current = 0
    <3>1. contents' = Append(contents, << >>) /\ current' = Len(contents) + 1
      BY <1>11, <2>2 DEF OpenCurrent
    <3>2. << >> \in Seq(Parts)
      BY NoPart
    <3>3. /\ contents' \in Seq(Seq(Parts)) /\ Len(contents') = Len(contents) + 1
          /\ \A f \in Files : contents'[f] = contents[f]
      BY <1>1, <3>1, <3>2
    <3>4. Files \subseteq Files' /\ current' \notin Files
      BY <1>1, <3>1, <3>3 DEF Files
    <3> QED
      BY <1>1, <2>1, <2>2, <3>3, <3>4 DEF Grown
  <2>3. CASE current # 0
    BY <1>1, <1>11, <2>1, <2>3 DEF OpenCurrent, Grown, Files
  <2> QED
    BY <2>2, <2>3
<1> QED
  BY <1>5, <1>6, <1>7, <1>8, <1>9, <1>10, <1>11 DEF Writer

\* They keep what the reader relies on.
LEMMA ReaderKept == SpoolInv /\ Grown => ReaderInv'
<1> SUFFICES ASSUME SpoolInv, Grown PROVE ReaderInv'
  OBVIOUS
<1>1. /\ WriterTypeOK /\ ReaderTypeOK /\ ReadsInOrder /\ Ahead /\ Reachable /\ Reading
      /\ Returned /\ Promised
      /\ \A f \in Files : contents[f] \in Seq(Parts) /\ Len(contents[f]) \in Nat
      /\ Files = 1 .. Len(contents) /\ Len(contents) \in Nat
  BY FilesAre DEF SpoolInv, WriterInv, ReaderInv
<1>2. /\ contents' \in Seq(Seq(Parts)) /\ Files \subseteq Files'
      /\ \A f \in Files : /\ Len(contents[f]) <= Len(contents'[f])
                          /\ \A p \in 1 .. Len(contents[f]) : contents'[f][p] = contents[f][p]
      /\ UNCHANGED <<rpc, names, files, index, offset, got, listed>>
      /\ disturbed' \in BOOLEAN /\ (disturbed => disturbed')
  BY DEF Grown, readerVars
<1>3. \A f \in Files' : contents'[f] \in Seq(Parts) /\ Len(contents'[f]) \in Nat
  BY <1>2 DEF Files
<1>4. /\ files \in Seq(Files) /\ Len(files) \in Nat /\ index \in 1 .. Len(files) + 1
      /\ \A k \in 1 .. Len(files) : files[k] \in Files
      /\ offset \in Nat
  <2>1. files \in Seq(Files) /\ index \in 1 .. Len(files) + 1 /\ offset \in Nat
    BY <1>1 DEF ReaderTypeOK
  <2> QED
    BY <2>1
<1>5. \A f \in Files : Range(contents[f]) \subseteq Range(contents'[f])
  <2>1. ASSUME NEW f \in Files, NEW x \in Range(contents[f])
        PROVE  x \in Range(contents'[f])
    <3>1. PICK p \in 1 .. Len(contents[f]) : contents[f][p] = x
      BY <1>1, AtPosition
    <3>2. p \in 1 .. Len(contents'[f]) /\ contents'[f][p] = x
      BY <1>1, <1>2, <1>3, <3>1
    <3> QED
      BY <1>2, <1>3, <3>2, AtPosition
  <2> QED
    BY <2>1
<1>6. \A f \in Files : \A m \in Whole(f) :
        m \in 1 .. MaxSpooled /\ {2 * m - 1, 2 * m} \subseteq Range(contents'[f])
  BY <1>5 DEF Whole
<1>7. ReaderTypeOK'
  <2>1. files' \in Seq(Files')
    BY <1>2, <1>4
  <2> QED
    BY <1>1, <1>2, <2>1 DEF ReaderTypeOK
<1>8. ReadsInOrder'
  BY <1>1, <1>2 DEF ReadsInOrder, Increasing
<1>9. Ahead'
  <2>1. Range(files) \subseteq Files /\ names \subseteq {0} \cup Files
    BY <1>1, <1>4 DEF ReaderTypeOK, Range
  <2>2. current' \in {0, current} \/ current' \notin Files
    BY DEF Grown
  <2>3. 0 \notin Files
    BY <1>1
  <2> QED
    BY <1>1, <1>2, <2>1, <2>2, <2>3 DEF Ahead, Increasing
<1>10. Reachable'
  <2> SUFFICES ASSUME rpc = "opening", ~disturbed' PROVE Reachable'
    BY <1>2 DEF Reachable
  <2>1. ~disturbed /\ current # 0
    BY <1>1, <1>2 DEF Reachable
  <2>2. current' = current /\ rotated' = rotated /\ current \in Files /\ rotated \subseteq Files
    BY <1>1, <2>1 DEF Grown, WriterTypeOK
  <2>3. /\ names \ {0} \subseteq rotated
        /\ 0 \in names \/ files # << >>
    BY <1>1, <2>1 DEF Reachable
  <2>4. \A m \in listed : \/ \E f \in names \ {0} : m \in Whole(f)'
                          \/ 0 \in names /\ m \in Whole(current)'
                          \/ \E k \in 1 .. Len(files) : m \in Whole(files[k])'
    <3>1. \A f \in Files : \A m \in Whole(f) :
            m \in {l \in 1 .. MaxSpooled : {2 * l - 1, 2 * l} \subseteq Range(contents'[f])}
      BY <1>6
    <3>2. \A m \in listed : \/ \E f \in names \ {0} : m \in Whole(f)
                            \/ 0 \in names /\ m \in Whole(current)
                            \/ \E k \in 1 .. Len(files) : m \in Whole(files[k])
      BY <1>1, <2>1 DEF Reachable
    <3>3. \A f \in Files : \A m \in Whole(f) : m \in Whole(f)'
      BY <3>1 DEF Whole
    <3>4. ASSUME NEW m \in listed
          PROVE  \/ \E f \in names \ {0} : m \in Whole(f)'
                 \/ 0 \in names /\ m \in Whole(current)'
                 \/ \E k \in 1 .. Len(files) : m \in Whole(files[k])'
      <4>1. ASSUME NEW f \in names \ {0}, m \in Whole(f)
            PROVE  m \in Whole(f)'
        BY <2>2, <2>3, <3>3, <4>1
      <4>2. ASSUME m \in Whole(current)
            PROVE  m \in Whole(current)'
        BY <2>2, <3>1, <4>2 DEF Whole
      <4>3. ASSUME NEW k \in 1 .. Len(files), m \in Whole(files[k])
            PROVE  m \in Whole(files[k])'
        BY <1>2, <1>4, <3>1, <4>3 DEF Whole
      <4> QED
        BY <3>2, <4>1, <4>2, <4>3
    <3> QED
      BY <3>4
  <2> QED
    BY <1>2, <2>1, <2>2, <2>3, <2>4 DEF Reachable
<1>11. Reading'
  <2>1. CASE rpc = "reading"
    <3>1. /\ index <= Len(files) /\ offset <= Len(Data)
          /\ offset > 0 => Data[offset] % 2 = 0
          /\ \A p \in 1 .. offset : Data[p] % 2 = 0 => Data[p] \div 2 \in Range(got)
      BY <1>1, <2>1 DEF Reading
    <3>2. files[index] \in Files
      BY <1>4, <3>1
    <3>3. Data' = contents'[files[index]] /\ Data = contents[files[index]]
      BY <1>2 DEF Data
    <3>4. /\ Len(Data) <= Len(Data') /\ Len(Data) \in Nat /\ Len(Data') \in Nat
          /\ \A p \in 1 .. Len(Data) : Data'[p] = Data[p]
      BY <1>1, <1>2, <1>3, <3>2, <3>3
    <3>5. offset <= Len(Data') /\ \A p \in 1 .. offset : Data'[p] = Data[p]
      BY <1>4, <3>1, <3>4
    <3>6. offset > 0 => offset \in 1 .. offset
      BY <1>4
    <3> QED
      BY <1>2, <2>1, <3>1, <3>5, <3>6 DEF Reading
  <2>2. CASE rpc # "reading"
    BY <1>1, <1>2, <2>2 DEF Reading
  <2> QED
    BY <2>1, <2>2
<1>12. Returned'
  <2> SUFFICES ASSUME NEW m \in Range(got)
               PROVE  \/ \E k \in 1 .. index - 1 : 2 * m \in Range(contents'[files[k]])
                      \/ /\ index <= Len(files)
                         /\ \E p \in 1 .. offset : p <= Len(Data') /\ Data'[p] = 2 * m
    BY <1>2 DEF Returned
  <2>1. CASE \E k \in 1 .. index - 1 : 2 * m \in Range(contents[files[k]])
    <3>1. PICK k \in 1 .. index - 1 : 2 * m \in Range(contents[files[k]])
      BY <2>1
    <3>2. files[k] \in Files
      BY <1>4
    <3> QED
      BY <1>5, <3>1, <3>2
  <2>2. CASE /\ index <= Len(files)
             /\ \E p \in 1 .. offset : p <= Len(Data) /\ Data[p] = 2 * m
    <3>1. PICK p \in 1 .. offset : p <= Len(Data) /\ Data[p] = 2 * m
      BY <2>2
    <3>2. files[index] \in Files
      BY <1>4, <2>2
    <3>3. Data' = contents'[files[index]] /\ Data = contents[files[index]]
      BY <1>2 DEF Data
    <3>4. p \in 1 .. Len(Data)
      BY <1>1, <1>4, <3>1, <3>2, <3>3
    <3>5. p <= Len(Data') /\ Data'[p] = Data[p]
      BY <1>1, <1>2, <1>3, <3>2, <3>3, <3>4
    <3> QED
      BY <2>2, <3>1, <3>5
  <2> QED
    BY <1>1, <2>1, <2>2 DEF Returned
<1>13. Promised'
  <2>0. rpc' = "panic" => disturbed'
    BY <1>1, <1>2 DEF Promised
  <2> SUFFICES ASSUME rpc \in {"reading", "end"}, ~disturbed', NEW m \in listed
               PROVE  \E k \in 1 .. Len(files) :
                        m \in Whole(files[k])' /\ (k < index => m \in Range(got))
    BY <1>2, <2>0 DEF Promised
  <2>1. PICK k \in 1 .. Len(files) : m \in Whole(files[k]) /\ (k < index => m \in Range(got))
    BY <1>1, <1>2 DEF Promised
  <2>2. m \in {l \in 1 .. MaxSpooled : {2 * l - 1, 2 * l} \subseteq Range(contents'[files[k]])}
    BY <1>4, <1>6, <2>1
  <2> QED
    BY <1>2, <2>1, <2>2 DEF Whole
<1> QED
  BY <1>7, <1>8, <1>9, <1>10, <1>11, <1>12, <1>13 DEF ReaderInv

-----------------------------------------------------------------------------
(* The reader's steps                                                      *)

\* A sequence with one more at its end.
LEMMA AppendGrows ==
  ASSUME NEW A \in SUBSET Int, NEW s \in Seq(A), NEW x \in A
  PROVE  /\ Append(s, x) \in Seq(A) /\ Len(Append(s, x)) = Len(s) + 1
         /\ Append(s, x)[Len(s) + 1] = x /\ Append(s, x) # << >>
         /\ \A i \in 1 .. Len(s) : Append(s, x)[i] = s[i]
         /\ Range(Append(s, x)) = Range(s) \cup {x}
         /\ Increasing(s) /\ (\A y \in Range(s) : y < x) => Increasing(Append(s, x))
<1>1. Append(s, x) = s \o <<x>>
  OBVIOUS
<1>2. <<x>> \in Seq(A) /\ Range(<<x>>) = {x} /\ Increasing(<<x>>) /\ Len(<<x>>) = 1
  BY OnePart
<1>3. /\ s \o <<x>> \in Seq(A) /\ Range(s \o <<x>>) = Range(s) \cup {x}
      /\ \A i \in 1 .. Len(s) : (s \o <<x>>)[i] = s[i]
  <2>1. s \in Seq(A) /\ <<x>> \in Seq(A)
    BY <1>2
  <2>2. /\ s \o <<x>> \in Seq(A) /\ Range(s \o <<x>>) = Range(s) \cup Range(<<x>>)
        /\ \A i \in 1 .. Len(s) : (s \o <<x>>)[i] = s[i]
    BY ONLY <2>1, ConcatRange
  <2> QED
    BY <1>2, <2>2
<1>4. /\ Len(Append(s, x)) = Len(s) + 1 /\ Append(s, x)[Len(s) + 1] = x
      /\ Append(s, x) # << >>
  OBVIOUS
<1>5. ASSUME Increasing(s), \A y \in Range(s) : y < x PROVE Increasing(s \o <<x>>)
  <2>1. Before(s, <<x>>)
    BY <1>2, <1>5 DEF Before
  <2> QED
    BY <1>2, <1>5, <2>1, ConcatIncreasing
<1> QED
  BY <1>1, <1>3, <1>4, <1>5

\* What the reader's steps find.
LEMMA ReaderFinds ==
  ASSUME SpoolInv
  PROVE  /\ WriterTypeOK /\ WriterAt /\ Stored /\ Bodies /\ Losses /\ ReaderTypeOK
         /\ ReadsInOrder /\ Ahead /\ Reachable /\ Reading /\ Returned /\ Promised
         /\ \A f \in Files : contents[f] \in Seq(Parts) /\ Len(contents[f]) \in Nat
         /\ Files = 1 .. Len(contents) /\ Len(contents) \in Nat
         /\ files \in Seq(Files) /\ Len(files) \in Nat /\ offset \in Nat /\ index \in Nat
         /\ \A k \in 1 .. Len(files) : files[k] \in Files
         /\ got \in Seq(1 .. MaxSpooled) /\ index \in 1 .. Len(files) + 1
<1>1. /\ WriterTypeOK /\ WriterAt /\ Stored /\ Bodies /\ Losses /\ ReaderTypeOK
      /\ ReadsInOrder /\ Ahead /\ Reachable /\ Reading /\ Returned /\ Promised
  BY DEF SpoolInv, WriterInv, ReaderInv
<1>2. /\ \A f \in Files : contents[f] \in Seq(Parts) /\ Len(contents[f]) \in Nat
      /\ Files = 1 .. Len(contents) /\ Len(contents) \in Nat
  BY <1>1, FilesAre
<1>3. /\ files \in Seq(Files) /\ offset \in Nat /\ got \in Seq(1 .. MaxSpooled)
      /\ index \in 1 .. Len(files) + 1
  BY <1>1 DEF ReaderTypeOK
<1>4. Len(files) \in Nat /\ \A k \in 1 .. Len(files) : files[k] \in Files
  BY <1>3
<1>5. index \in Nat
  BY <1>3, <1>4
<1> HIDE DEF Files
<1> QED
  BY <1>1, <1>2, <1>3, <1>4, <1>5

\* The directory is read.
LEMMA ListKeeps == SpoolInv /\ List => ReaderInv'
<1> SUFFICES ASSUME SpoolInv, List PROVE ReaderInv'
  OBVIOUS
<1>1. /\ WriterTypeOK /\ WriterAt /\ ReaderTypeOK /\ Reading /\ 0 \notin Files
      /\ rotated \subseteq Files /\ current \notin rotated
  BY SMTT(30), ReaderFinds DEF WriterTypeOK, WriterAt
<1>2. /\ rpc = "none" /\ rpc' = "opening" /\ names' = rotated \cup {0}
      /\ listed' = UNION {Whole(f) : f \in Linked} /\ disturbed' = (current = 0)
      /\ files' = << >> /\ index' = 1 /\ offset' = 0 /\ got' = << >>
      /\ UNCHANGED <<contents, current, rotated>>
  BY <1>1 DEF List, Names, Reading, dirVars
<1>3. Files' = Files
  BY <1>2 DEF Files
<1>4. \A A : << >> \in Seq(A) /\ Len(<< >>) = 0 /\ Range(<< >>) = {} /\ Increasing(<< >>)
  BY NoPart
<1>5. ReaderTypeOK'
  <2>1. files' \in Seq(Files') /\ Len(files') = 0 /\ got' \in Seq(1 .. MaxSpooled)
    BY <1>2, <1>4
  <2>2. index' \in 1 .. Len(files') + 1 /\ offset' \in Nat
    BY <1>2, <2>1
  <2>3. listed' \subseteq 1 .. MaxSpooled
    BY <1>2 DEF Whole
  <2>4. names' \subseteq {0} \cup Files' /\ disturbed' \in BOOLEAN
    BY <1>1, <1>2, <1>3
  <2> QED
    BY <1>2, <2>1, <2>2, <2>3, <2>4 DEF ReaderTypeOK
<1>6. ReadsInOrder' /\ Ahead'
  BY <1>1, <1>2, <1>4 DEF ReadsInOrder, Ahead
<1>7. Reachable'
  <2> SUFFICES ASSUME ~disturbed' PROVE Reachable'
    BY DEF Reachable
  <2>1. current # 0
    BY <1>2
  <2>2. ASSUME NEW m \in listed'
        PROVE  (\E f \in names' \ {0} : m \in Whole(f)') \/ m \in Whole(current)'
    <3>1. PICK f \in Linked : m \in Whole(f)
      BY <1>2
    <3>2. f \in rotated \/ f = current
      BY <3>1 DEF Linked
    <3>3. f \in rotated => f \in names' \ {0}
      BY <1>1, <1>2
    <3> QED
      BY <1>2, <3>1, <3>2, <3>3 DEF Whole
  <2> QED
    BY <1>1, <1>2, <2>1, <2>2 DEF Reachable
<1>8. Reading' /\ Returned' /\ Promised'
  BY <1>2, <1>4 DEF Reading, Returned, Promised
<1> QED
  BY <1>5, <1>6, <1>7, <1>8 DEF ReaderInv

\* The next name is the least one, or "current" when no other is left.
LEMMA NextNameIs ==
  ASSUME ReaderTypeOK, WriterTypeOK, names # {}
  PROVE  \/ names = {0} /\ NextName = 0
         \/ /\ NextName \in names \ {0}
            /\ \A g \in names \ {0} : NextName <= g
<1>1. names \ {0} \in SUBSET Nat
  BY FilesAre DEF ReaderTypeOK
<1>2. CASE names = {0}
  BY <1>2 DEF NextName
<1>3. CASE names # {0}
  <2>1. names \ {0} # {}
    BY <1>3
  <2>2. \E x \in names \ {0} : \A y \in names \ {0} : x <= y
    BY <1>1, <2>1, LeastNatural
  <2> QED
    BY <1>3, <2>2 DEF NextName, Min
<1> QED
  BY <1>2, <1>3

\* A file is opened, or was removed.
LEMMA OpenNextKeeps == SpoolInv /\ OpenNext => ReaderInv'
<1> SUFFICES ASSUME SpoolInv, OpenNext PROVE ReaderInv'
  OBVIOUS
<1> DEFINE f == IF NextName = 0 THEN current ELSE NextName
<1>1. /\ WriterTypeOK /\ WriterAt /\ ReaderTypeOK /\ Reading /\ Ahead /\ Reachable
      /\ Returned /\ ReadsInOrder
      /\ Files = 1 .. Len(contents) /\ Len(contents) \in Nat
      /\ files \in Seq(Files) /\ Len(files) \in Nat
  BY ReaderFinds
<1>2. /\ rpc = "opening" /\ rpc' = "opening" /\ names # {}
      /\ files' = IF f \in Linked THEN Append(files, f) ELSE files
      /\ names' = names \ {NextName}
      /\ UNCHANGED <<contents, current, rotated, index, offset, got, listed, disturbed>>
  BY DEF OpenNext, dirVars
<1>3. /\ index = 1 /\ offset = 0 /\ got = << >> /\ Increasing(files)
      /\ current \notin names \ {0} /\ names \subseteq {0} \cup Files
      /\ current \in {0, Len(contents)} /\ rotated \subseteq Files
      /\ \A h \in Range(files), g \in names \ {0} : h < g
      /\ 0 \in names => current \notin Range(files)
  BY <1>1, <1>2 DEF Reading, Ahead, ReaderTypeOK, WriterAt, WriterTypeOK
<1>4. \/ names = {0} /\ NextName = 0
      \/ /\ NextName \in names \ {0}
         /\ \A g \in names \ {0} : NextName <= g
  BY <1>1, <1>2, NextNameIs
<1>5. f \in Linked => f \in Files /\ \A y \in Range(files) : y < f
  <2> SUFFICES ASSUME f \in Linked PROVE f \in Files /\ \A y \in Range(files) : y < f
    OBVIOUS
  <2>1. f \in Files
    BY <1>1, <1>3 DEF Linked, WriterTypeOK
  <2>2. CASE names = {0} /\ NextName = 0
    <3>1. f = current /\ current # 0 /\ current = Len(contents) /\ current \notin Range(files)
      BY <1>1, <1>3, <2>1, <2>2
    <3>2. Range(files) \subseteq 1 .. Len(contents)
      BY <1>1, RangeOf
    <3> QED
      BY <1>1, <2>1, <3>1, <3>2
  <2>3. CASE NextName \in names \ {0}
    <3>1. f = NextName
      BY <2>3
    <3> QED
      BY <1>3, <2>1, <2>3, <3>1
  <2> QED
    BY <1>4, <2>2, <2>3
<1>6. /\ files' \in Seq(Files) /\ Len(files') \in Nat /\ Increasing(files')
      /\ Len(files) <= Len(files') /\ \A k \in 1 .. Len(files) : files'[k] = files[k]
      /\ Range(files') \subseteq Range(files) \cup {f}
      /\ f \in Linked => files' # << >> /\ files'[Len(files')] = f /\ Len(files') \in 1 .. Len(files')
      /\ f \notin Linked => files' = files
  <2>1. CASE f \in Linked
    <3>1. f \in Files /\ Files \in SUBSET Int
      BY <1>1, <1>5, <2>1
    <3>2. files' = Append(files, f)
      BY <1>2, <2>1
    <3> HIDE DEF f
    <3> QED
      BY <1>1, <1>3, <1>5, <2>1, <3>1, <3>2, AppendGrows
  <2>2. CASE f \notin Linked
    BY <1>1, <1>2, <1>3, <2>2
  <2> QED
    BY <2>1, <2>2
<1> HIDE DEF f
<1>7. ReaderTypeOK'
  <2>1. files' \in Seq(Files') /\ names' \subseteq {0} \cup Files'
    BY <1>2, <1>3, <1>6 DEF Files
  <2>2. index' \in 1 .. Len(files') + 1
    BY <1>2, <1>3, <1>6
  <2> QED
    BY <1>1, <1>2, <2>1, <2>2 DEF ReaderTypeOK
<1>8. ReadsInOrder' /\ Returned'
  BY <1>1, <1>2, <1>3, NoPart DEF ReadsInOrder, Returned, Increasing
<1>9. Ahead'
  <2>1. CASE names = {0} /\ NextName = 0
    BY <1>2, <1>6, <2>1 DEF Ahead
  <2>2. CASE NextName \in names \ {0}
    <3>1. f = NextName /\ f \in Nat
      BY <1>1, <1>3, <2>2 DEF f
    <3>2. \A g \in names' \ {0} : g \in Nat /\ f < g
      BY <1>1, <1>2, <1>3, <1>4, <2>2, <3>1
    <3>3. \A h \in Range(files'), g \in names' \ {0} : h < g
      BY <1>2, <1>3, <1>6, <3>2
    <3>4. current \notin names' \ {0} /\ (0 \in names' => current \notin Range(files'))
      BY <1>2, <1>3, <1>6, <2>2, <3>1
    <3> QED
      BY <1>2, <1>6, <3>3, <3>4 DEF Ahead
  <2> QED
    BY <1>4, <2>1, <2>2
<1>10. Reachable'
  <2> SUFFICES ASSUME ~disturbed PROVE Reachable'
    BY <1>2 DEF Reachable
  <2>1. /\ current # 0 /\ names \ {0} \subseteq rotated
        /\ 0 \in names \/ files # << >>
        /\ \A m \in listed : \/ \E g \in names \ {0} : m \in Whole(g)
                             \/ 0 \in names /\ m \in Whole(current)
                             \/ \E k \in 1 .. Len(files) : m \in Whole(files[k])
    BY <1>1, <1>2 DEF Reachable
  <2>2. f \in Linked
    BY <1>4, <2>1 DEF f, Linked
  <2>3. ASSUME NEW m \in listed
        PROVE  \/ \E g \in names' \ {0} : m \in Whole(g)
               \/ 0 \in names' /\ m \in Whole(current)
               \/ \E k \in 1 .. Len(files') : m \in Whole(files'[k])
    <3>1. CASE m \in Whole(f)
      BY <1>6, <2>2, <3>1
    <3>2. CASE \E g \in names \ {0} : m \in Whole(g) /\ g # f
      <4>1. PICK g \in names \ {0} : m \in Whole(g) /\ g # f
        BY <3>2
      <4>2. g # NextName
        BY <4>1 DEF f
      <4> QED
        BY <1>2, <4>1, <4>2
    <3>3. CASE 0 \in names /\ m \in Whole(current) /\ f # current
      <4>1. NextName # 0
        BY <3>3 DEF f
      <4> QED
        BY <1>2, <3>3, <4>1
    <3>4. CASE \E k \in 1 .. Len(files) : m \in Whole(files[k])
      <4>1. PICK k \in 1 .. Len(files) : m \in Whole(files[k])
        BY <3>4
      <4>2. k \in 1 .. Len(files') /\ files'[k] = files[k]
        BY <1>1, <1>6
      <4> QED
        BY <4>1, <4>2
    <3> QED
      BY <2>1, <3>1, <3>2, <3>3, <3>4
  <2>4. names' \ {0} \subseteq rotated /\ files' # << >>
    BY <1>2, <1>6, <2>1, <2>2
  <2>5. \A g : Whole(g)' = Whole(g)
    BY <1>2 DEF Whole
  <2> QED
    BY <1>2, <2>1, <2>3, <2>4, <2>5 DEF Reachable, Whole
<1>11. Reading' /\ Promised'
  BY <1>2, <1>3 DEF Reading, Promised
<1> QED
  BY <1>7, <1>8, <1>9, <1>10, <1>11 DEF ReaderInv

\* Every file was tried.
LEMMA OpenedKeeps == SpoolInv /\ Opened => ReaderInv'
<1> SUFFICES ASSUME SpoolInv, Opened PROVE ReaderInv'
  OBVIOUS
<1>1. /\ ReaderTypeOK /\ Reading /\ Ahead /\ Reachable /\ Returned /\ ReadsInOrder
      /\ files \in Seq(Files) /\ Len(files) \in Nat
  BY ReaderFinds
<1>2. /\ rpc = "opening" /\ names = {} /\ rpc' = IF files = << >> THEN "panic" ELSE "reading"
      /\ UNCHANGED <<contents, names, files, index, offset, got, listed, disturbed>>
  BY DEF Opened, dirVars
<1>3. index = 1 /\ offset = 0 /\ got = << >>
  BY <1>1, <1>2 DEF Reading
<1>4. ReaderTypeOK' /\ ReadsInOrder' /\ Ahead' /\ Returned'
  BY <1>1, <1>2, <1>3, NoPart DEF ReaderTypeOK, ReadsInOrder, Ahead, Returned, Files, Increasing
<1>5. Reachable'
  BY <1>2 DEF Reachable
<1>6. Reading'
  <2>1. CASE rpc' = "reading"
    <3>1. files # << >> /\ index <= Len(files)
      BY <1>1, <1>2, <1>3, <2>1
    <3>2. Len(Data) \in Nat
      BY <1>1, <1>3, <3>1, ReaderFinds DEF Data
    <3>3. Data' = Data
      BY <1>2 DEF Data
    <3> QED
      BY <1>2, <1>3, <2>1, <3>1, <3>2, <3>3 DEF Reading
  <2>2. CASE rpc' = "panic"
    BY <2>2 DEF Reading
  <2> QED
    BY <1>2, <2>1, <2>2
<1>7. Promised'
  <2>1. CASE disturbed
    BY <1>2, <2>1 DEF Promised
  <2>2. CASE ~disturbed
    <3>1. /\ files # << >>
          /\ \A m \in listed : \E k \in 1 .. Len(files) : m \in Whole(files[k])
      BY <1>1, <1>2, <2>2 DEF Reachable
    <3>2. \A k \in 1 .. Len(files) : ~(k < index)
      BY <1>3
    <3>3. rpc' = "reading" /\ \A g : Whole(g)' = Whole(g)
      BY <1>2, <3>1 DEF Whole
    <3>4. \A m \in listed : \E k \in 1 .. Len(files) :
            m \in Whole(files[k]) /\ (k < index => m \in Range(got))
      BY <3>1, <3>2
    <3> QED
      BY <1>2, <3>3, <3>4 DEF Promised, Whole
  <2> QED
    BY <2>1, <2>2
<1> QED
  BY <1>4, <1>5, <1>6, <1>7 DEF ReaderInv

\* A part of a file, as a number: a length is odd, a body even and one more.
LEMMA PartIs ==
  ASSUME NEW d \in Parts
  PROVE  /\ d \in 1 .. 2 * MaxSpooled
         /\ d % 2 = 0 => d \div 2 \in 1 .. MaxSpooled /\ d = 2 * (d \div 2)
         /\ d % 2 # 0 => /\ (d + 1) \div 2 \in 1 .. MaxSpooled
                         /\ d = 2 * ((d + 1) \div 2) - 1
         /\ \A m \in Int : (2 * m) % 2 = 0 /\ (2 * m) \div 2 = m /\ (2 * m - 1) % 2 = 1
BY SpoolAssumption DEF Parts

\* What is decoded of a file, when every whole message before offset is.
LEMMA Decoding ==
  ASSUME SpoolInv, rpc = "reading"
  PROVE  /\ index <= Len(files) /\ index \in 1 .. Len(files) /\ files[index] \in Files
         /\ Data = contents[files[index]] /\ Data \in Seq(Parts) /\ Len(Data) \in Nat
         /\ Parts \in SUBSET Int
         /\ Increasing(Data) /\ offset <= Len(Data)
         /\ offset > 0 => Data[offset] % 2 = 0
         /\ \A p \in 1 .. offset : Data[p] % 2 = 0 => Data[p] \div 2 \in Range(got)
         /\ \A p \in 1 .. Len(Data) : Data[p] \in Parts
         /\ \A m \in 1 .. MaxSpooled : 2 * m \in Range(Data) => 2 * m - 1 \in Range(Data)
<1>1. /\ Reading /\ Stored /\ Bodies /\ WriterTypeOK
      /\ \A f \in Files : contents[f] \in Seq(Parts) /\ Len(contents[f]) \in Nat
      /\ Len(files) \in Nat /\ index \in 1 .. Len(files) + 1
      /\ \A k \in 1 .. Len(files) : files[k] \in Files
  BY ReaderFinds
<1>2. /\ index <= Len(files) /\ offset <= Len(Data)
      /\ offset > 0 => Data[offset] % 2 = 0
      /\ \A p \in 1 .. offset : Data[p] % 2 = 0 => Data[p] \div 2 \in Range(got)
  BY <1>1 DEF Reading
<1>3. index \in 1 .. Len(files) /\ files[index] \in Files
  BY <1>1, <1>2
<1>4. Data = contents[files[index]] /\ Data \in Seq(Parts) /\ Len(Data) \in Nat
  BY <1>1, <1>3 DEF Data
<1>5. Increasing(Data) /\ \A m \in 1 .. MaxSpooled : 2 * m \in Range(Data) => 2 * m - 1 \in Range(Data)
  BY <1>1, <1>3, <1>4 DEF Stored, Bodies
<1>6. \A p \in 1 .. Len(Data) : Data[p] \in Parts
  BY <1>4
<1>7. Parts \in SUBSET Int
  BY <1>1, FilesAre
<1> QED
  BY <1>2, <1>3, <1>4, <1>5, <1>6, <1>7

\* A body is never what Generate finds where a length should be.
LEMMA BodyIsSecond ==
  ASSUME SpoolInv, rpc = "reading", NEW m \in 1 .. MaxSpooled,
         NEW p \in 1 .. Len(Data), Data[p] = 2 * m
  PROVE  p # offset + 1
<1> USE SpoolAssumption
<1>1. /\ Data \in Seq(Parts) /\ Parts \in SUBSET Int /\ Increasing(Data)
      /\ offset > 0 => Data[offset] % 2 = 0
      /\ 2 * m \in Range(Data) => 2 * m - 1 \in Range(Data)
  BY Decoding
<1>2. 2 * m \in Range(Data)
  BY <1>1, AtPosition
<1>3. 2 * m - 1 \in Int /\ Data[p] = (2 * m - 1) + 1 /\ m \in Int
  OBVIOUS
<1>4. p > 1 /\ Data[p - 1] = 2 * m - 1
  BY <1>1, <1>2, <1>3, Adjacent
<1>5. (2 * m - 1) % 2 # 0
  BY <1>3
<1>6. offset \in Nat
  BY ReaderFinds
<1> QED
  BY <1>1, <1>4, <1>5, <1>6

\* Everything Generate returned comes before what it decodes next.
LEMMA ReturnedBefore ==
  ASSUME SpoolInv, rpc = "reading", NEW m \in Range(got),
         NEW q \in 1 .. Len(Data), offset < q
  PROVE  2 * m < Data[q]
<1>1. /\ Returned /\ Stored /\ Ahead /\ index \in 1 .. Len(files) /\ offset \in Nat
      /\ files[index] \in Files /\ Data = contents[files[index]]
      /\ Data \in Seq(Parts) /\ Increasing(Data)
      /\ \A k \in 1 .. Len(files) : files[k] \in Files
      /\ files \in Seq(Files) /\ Len(files) \in Nat
  BY ReaderFinds, Decoding
<1>2. Data[q] \in Range(Data)
  BY <1>1, AtPosition
<1>3. CASE \E k \in 1 .. index - 1 : 2 * m \in Range(contents[files[k]])
  <2>1. PICK k \in 1 .. index - 1 : 2 * m \in Range(contents[files[k]])
    BY <1>3
  <2>2. k \in 1 .. Len(files) /\ k < index /\ DOMAIN files = 1 .. Len(files)
    BY <1>1
  <2>3. files[k] < files[index] /\ files[k] \in Files
    BY <1>1, <2>2 DEF Ahead, Increasing
  <2>4. Before(contents[files[k]], contents[files[index]])
    BY <1>1, <2>3 DEF Stored
  <2> QED
    BY <1>1, <1>2, <2>1, <2>4 DEF Before
<1>4. CASE \E p \in 1 .. offset : p <= Len(Data) /\ Data[p] = 2 * m
  <2>1. PICK p \in 1 .. offset : p <= Len(Data) /\ Data[p] = 2 * m
    BY <1>4
  <2>2. DOMAIN Data = 1 .. Len(Data) /\ Len(Data) \in Nat
    BY <1>1
  <2>3. p \in DOMAIN Data /\ q \in DOMAIN Data /\ p < q
    BY <1>1, <2>1, <2>2
  <2> QED
    BY <1>1, <2>1, <2>3 DEF Increasing
<1> QED
  BY <1>1, <1>3, <1>4 DEF Returned

\* A message is returned, or the file turns out to be corrupt.
LEMMA GenerateKeeps == SpoolInv /\ Generate => ReaderInv'
<1> SUFFICES ASSUME SpoolInv, Generate PROVE ReaderInv'
  OBVIOUS
<1> USE SpoolAssumption
<1> DEFINE fits == Data[offset + 1] % 2 = 1 /\ Data[offset + 2] = Data[offset + 1] + 1
           m     == Data[offset + 2] \div 2
<1>1. /\ ReaderTypeOK /\ ReadsInOrder /\ Ahead /\ Reachable /\ Returned /\ Promised /\ Reading
      /\ files \in Seq(Files) /\ Len(files) \in Nat /\ offset \in Nat
      /\ got \in Seq(1 .. MaxSpooled)
  BY ReaderFinds
<1>2. /\ rpc = "reading" /\ offset + 1 < Len(Data)
      /\ UNCHANGED <<contents, current, rotated, names, files, index, listed, disturbed>>
  BY DEF Generate, dirVars
<1>3. /\ index <= Len(files) /\ index \in 1 .. Len(files) /\ Len(Data) \in Nat
      /\ Data \in Seq(Parts) /\ Parts \in SUBSET Int
      /\ \A p \in 1 .. offset : Data[p] % 2 = 0 => Data[p] \div 2 \in Range(got)
      /\ \A p \in 1 .. Len(Data) : Data[p] \in Parts
  BY <1>2, Decoding
<1>4. Data' = Data /\ \A g : Whole(g)' = Whole(g)
  BY <1>2 DEF Data, Whole
<1>5. Ahead' /\ Reachable'
  <2>1. rpc' # "opening"
    BY <1>2 DEF Generate
  <2> QED
    BY <1>1, <1>2, <2>1 DEF Ahead, Reachable, Increasing
<1>6. CASE fits
  <2>1. /\ got' = Append(got, m) /\ offset' = offset + 2 /\ rpc' = rpc
    BY <1>6 DEF Generate
  <2>2. offset + 1 \in 1 .. Len(Data) /\ offset + 2 \in 1 .. Len(Data)
    BY <1>1, <1>2, <1>3
  <2>3. m \in 1 .. MaxSpooled /\ Data[offset + 2] = 2 * m /\ Data[offset + 2] % 2 = 0
    <3>1. Data[offset + 1] \in Parts /\ Data[offset + 2] \in Parts
      BY <1>3, <2>2
    <3>2. Data[offset + 2] % 2 = 0
      BY <1>6, <3>1 DEF Parts
    <3> QED
      BY <3>1, <3>2, PartIs
  <2> HIDE DEF m
  <2>4. \A x \in Range(got) : x \in Int /\ x < m
    <3>1. ASSUME NEW x \in Range(got) PROVE x \in Int /\ x < m
      <4>1. 2 * x < Data[offset + 2]
        BY <1>1, <1>2, <2>2, ReturnedBefore
      <4>2. x \in 1 .. MaxSpooled
        BY <1>1, RangeOf
      <4> QED
        BY <2>3, <4>1, <4>2
    <3> QED
      BY <3>1
  <2>5. /\ got' \in Seq(1 .. MaxSpooled) /\ Range(got') = Range(got) \cup {m}
        /\ Increasing(got')
    <3>1. 1 .. MaxSpooled \in SUBSET Int /\ Increasing(got)
      BY <1>1 DEF ReadsInOrder
    <3>2. \A y \in Range(got) : y < m
      BY <2>4
    <3> DEFINE Numbers == 1 .. MaxSpooled
    <3>3. got \in Seq(Numbers) /\ m \in Numbers /\ Numbers \in SUBSET Int
      BY <1>1, <2>3, <3>1
    <3> HIDE DEF Numbers
    <3>4. /\ Append(got, m) \in Seq(Numbers)
          /\ Range(Append(got, m)) = Range(got) \cup {m} /\ Increasing(Append(got, m))
      BY ONLY <3>1, <3>2, <3>3, AppendGrows
    <3> QED
      BY <2>1, <3>4 DEF Numbers
  <2>6. ReaderTypeOK' /\ ReadsInOrder'
    <3>1. offset' \in Nat
      BY <1>1, <2>1
    <3> QED
      BY <1>1, <1>2, <2>1, <2>5, <3>1 DEF ReaderTypeOK, ReadsInOrder, Files
  <2>7. Reading'
    <3>1. offset' <= Len(Data) /\ Data[offset'] % 2 = 0
      BY <1>1, <1>2, <1>3, <2>1, <2>3
    <3>2. ASSUME NEW p \in 1 .. offset', Data[p] % 2 = 0
          PROVE  Data[p] \div 2 \in Range(got')
      <4>1. p \in 1 .. offset \/ p = offset + 1 \/ p = offset + 2
        BY <1>1, <2>1
      <4>2. p # offset + 1
        BY <1>6, <3>2
      <4>3. CASE p \in 1 .. offset
        BY <1>3, <2>5, <3>2, <4>3
      <4>4. CASE p = offset + 2
        BY <2>5, <4>4 DEF m
      <4> QED
        BY <4>1, <4>2, <4>3, <4>4
    <3> QED
      BY <1>2, <1>3, <1>4, <2>1, <3>1, <3>2 DEF Reading
  <2>8. Returned'
    <3> SUFFICES ASSUME NEW x \in Range(got')
                 PROVE  \/ \E k \in 1 .. index - 1 : 2 * x \in Range(contents[files[k]])
                        \/ \E p \in 1 .. offset' : p <= Len(Data) /\ Data[p] = 2 * x
      BY <1>2, <1>3, <1>4 DEF Returned
    <3>1. CASE x = m
      <4>1. offset + 2 \in 1 .. offset' /\ offset + 2 <= Len(Data)
        BY <1>1, <2>1, <2>2
      <4> QED
        BY <2>3, <3>1, <4>1
    <3>2. CASE x \in Range(got)
      <4>1. \A p \in 1 .. offset : p \in 1 .. offset'
        BY <1>1, <2>1
      <4> QED
        BY <1>1, <3>2, <4>1 DEF Returned
    <3> QED
      BY <2>5, <3>1, <3>2
  <2>9. Promised'
    BY <1>1, <1>2, <1>4, <2>1, <2>5 DEF Promised, Whole
  <2> QED
    BY <1>5, <2>6, <2>7, <2>8, <2>9 DEF ReaderInv
<1>7. CASE ~fits
  <2>1. rpc' = "corrupt" /\ UNCHANGED <<got, offset>>
    BY <1>7 DEF Generate
  <2>2. ReaderTypeOK' /\ ReadsInOrder' /\ Reading' /\ Promised'
    BY <1>1, <1>2, <2>1
       DEF ReaderTypeOK, ReadsInOrder, Increasing, Reading, Promised, Files
  <2>3. Returned'
    BY <1>1, <1>2, <1>4, <2>1 DEF Returned
  <2> QED
    BY <1>5, <2>2, <2>3 DEF ReaderInv
<1> QED
  BY <1>6, <1>7

\* A file is at its end: the whole messages in it were returned.
LEMMA NextFileKeeps == SpoolInv /\ NextFile => ReaderInv'
<1> SUFFICES ASSUME SpoolInv, NextFile PROVE ReaderInv'
  OBVIOUS
<1> USE SpoolAssumption
<1>1. /\ ReaderTypeOK /\ ReadsInOrder /\ Ahead /\ Reachable /\ Returned /\ Promised /\ Reading
      /\ files \in Seq(Files) /\ Len(files) \in Nat /\ offset \in Nat /\ index \in Nat
      /\ \A k \in 1 .. Len(files) : files[k] \in Files
      /\ \A f \in Files : contents[f] \in Seq(Parts) /\ Len(contents[f]) \in Nat
  BY ReaderFinds
<1>2. /\ rpc = "reading" /\ offset + 1 >= Len(Data)
      /\ index' = index + 1 /\ offset' = 0
      /\ rpc' = IF index = Len(files) THEN "end" ELSE "reading"
      /\ contents' = contents /\ current' = current /\ rotated' = rotated
      /\ names' = names /\ files' = files /\ got' = got /\ listed' = listed
      /\ disturbed' = disturbed
  BY DEF NextFile, dirVars
<1>3. /\ index <= Len(files) /\ index \in 1 .. Len(files) /\ Len(Data) \in Nat
      /\ Data \in Seq(Parts) /\ Data = contents[files[index]]
      /\ \A p \in 1 .. offset : Data[p] % 2 = 0 => Data[p] \div 2 \in Range(got)
      /\ \A p \in 1 .. Len(Data) : Data[p] \in Parts
  BY <1>2, Decoding
<1>4. \A g : Whole(g)' = Whole(g)
  BY <1>2 DEF Whole
<1>5. /\ rpc' \in {"reading", "end"} /\ index' \in 1 .. Len(files) + 1
      /\ rpc' = "reading" => index' <= Len(files)
      /\ rpc' = "end" => index' = Len(files) + 1
  BY <1>1, <1>2, <1>3
<1>6. ReaderTypeOK' /\ ReadsInOrder' /\ Ahead' /\ Reachable'
  <2>1. index' \in 1 .. Len(files') + 1 /\ offset' \in Nat
    <3>1. files' = files /\ offset' = 0
      BY <1>2
    <3> QED
      BY ONLY <1>5, <3>1
  <2>2. ReaderTypeOK'
    BY <1>1, <1>2, <1>5, <2>1 DEF ReaderTypeOK, Files
  <2>3. ReadsInOrder' /\ Ahead' /\ Reachable'
    BY <1>1, <1>2, <1>5 DEF ReadsInOrder, Increasing, Ahead, Reachable
  <2> QED
    BY <2>2, <2>3
<1>7. Reading'
  <2>1. rpc' = "reading" => Len(Data') \in Nat
    <3>1. ASSUME rpc' = "reading" PROVE Len(Data') \in Nat
      <4>0. index + 1 \in 1 .. Len(files) /\ Data' = contents'[files'[index']]
        <5>1. index + 1 <= Len(files)
          BY <1>2, <1>5, <3>1
        <5> QED
          BY <1>1, <5>1 DEF Data
      <4>1. files[index + 1] \in Files /\ Data' = contents[files[index + 1]]
        BY <1>1, <1>2, <4>0
      <4> QED
        BY <1>1, <4>1
    <3> QED
      BY <3>1
  <2>2. rpc' = "reading" => offset' <= Len(Data')
    BY <1>2, <2>1
  <2>3. 1 .. offset' = {} /\ ~(offset' > 0)
    BY <1>2
  <2>4. /\ rpc' = "reading" => index' <= Len(files')
        /\ rpc' = "end" => index' = Len(files') + 1
    <3>1. files' = files
      BY <1>2
    <3> QED
      BY ONLY <1>5, <3>1
  <2>5. \A p \in 1 .. offset' : FALSE
    BY <2>3
  <2> QED
    BY ONLY <1>5, <2>2, <2>3, <2>4, <2>5 DEF Reading
<1>8. Returned'
  <2> SUFFICES ASSUME NEW m \in Range(got)
               PROVE  \E k \in 1 .. index : 2 * m \in Range(contents[files[k]])
    BY <1>1, <1>2 DEF Returned
  <2>1. CASE \E k \in 1 .. index - 1 : 2 * m \in Range(contents[files[k]])
    BY <1>1, <2>1
  <2>2. CASE \E p \in 1 .. offset : p <= Len(Data) /\ Data[p] = 2 * m
    <3>1. PICK p \in 1 .. offset : p <= Len(Data) /\ Data[p] = 2 * m
      BY <2>2
    <3>2. p \in 1 .. Len(Data)
      BY <1>1, <1>3, <3>1
    <3>3. 2 * m \in Range(Data)
      BY <1>3, <3>1, <3>2, AtPosition
    <3> QED
      BY <1>1, <1>3, <3>3
  <2> QED
    BY <1>1, <2>1, <2>2 DEF Returned
<1>9. \A m \in Whole(files[index]) : m \in Range(got)
  <2> SUFFICES ASSUME NEW m \in Whole(files[index]) PROVE m \in Range(got)
    OBVIOUS
  <2>1. m \in 1 .. MaxSpooled /\ 2 * m \in Range(Data)
    BY <1>3 DEF Whole
  <2>2. PICK p \in 1 .. Len(Data) : Data[p] = 2 * m
    BY <1>3, <2>1, AtPosition
  <2>3. p # offset + 1
    BY <1>2, <2>1, <2>2, BodyIsSecond
  <2>4. p \in 1 .. offset
    BY <1>1, <1>2, <1>3, <2>3
  <2>5. (2 * m) % 2 = 0 /\ (2 * m) \div 2 = m
    BY <2>1
  <2> QED
    BY <1>3, <2>2, <2>4, <2>5
<1>10. Promised'
  <2> SUFFICES ASSUME ~disturbed, NEW m \in listed
               PROVE  \E k \in 1 .. Len(files) :
                        m \in Whole(files[k]) /\ (k < index + 1 => m \in Range(got))
    BY <1>2, <1>4, <1>5 DEF Promised, Whole
  <2>1. PICK k \in 1 .. Len(files) : m \in Whole(files[k]) /\ (k < index => m \in Range(got))
    BY <1>1, <1>2 DEF Promised
  <2>2. k < index + 1 => k < index \/ k = index
    BY <1>1
  <2> QED
    BY <1>9, <2>1, <2>2
<1> QED
  BY <1>6, <1>7, <1>8, <1>10 DEF ReaderInv

\* A file is corrupt only where a crash or a close took a body
\* and left its length.
LEMMA CorruptIsCut ==
  ASSUME SpoolInv, Generate, rpc' = "corrupt"
  PROVE  \E m \in 1 .. received : {2 * m - 1, 2 * m} \cap Gone = {2 * m}
<1> USE SpoolAssumption
<1> DEFINE d == Data[offset + 1]
           e == Data[offset + 2]
           put == IF InBody THEN 2 * received + 1 ELSE 2 * received
<1>1. /\ WriterTypeOK /\ Stored /\ Bodies /\ offset \in Nat /\ received \in Nat
      /\ Files = 1 .. Len(contents) /\ Len(contents) \in Nat
  <2>1. WriterTypeOK /\ Stored /\ Bodies /\ offset \in Nat
    BY DEF SpoolInv, WriterInv, ReaderInv, ReaderTypeOK
  <2>2. received \in Nat
    BY <2>1 DEF WriterTypeOK
  <2> QED
    BY <2>1, <2>2, FilesAre
<1>2. rpc = "reading" /\ offset + 1 < Len(Data) /\ ~(d % 2 = 1 /\ e = d + 1)
  BY DEF Generate
<1>3. /\ Len(Data) \in Nat /\ Data \in Seq(Parts) /\ Increasing(Data)
      /\ files[index] \in Files /\ Data = contents[files[index]]
      /\ \A p \in 1 .. Len(Data) : Data[p] \in Parts
  BY <1>2, Decoding
<1>4. offset + 1 \in 1 .. Len(Data) /\ offset + 2 \in 1 .. Len(Data) /\ offset + 1 < offset + 2
  BY <1>1, <1>2, <1>3
<1>5. d \in Parts /\ e \in Parts /\ d < e /\ d \in Range(Data) /\ e \in Range(Data)
  <2>1. d \in Parts /\ e \in Parts /\ d \in Range(Data) /\ e \in Range(Data)
    BY <1>3, <1>4, AtPosition
  <2>2. DOMAIN Data = 1 .. Len(Data)
    BY <1>3
  <2>3. d < e
    BY <1>3, <1>4, <2>2 DEF Increasing
  <2> QED
    BY <2>1, <2>3
<1>6. d % 2 # 0
  <2> SUFFICES ASSUME d % 2 = 0 PROVE FALSE
    OBVIOUS
  <2>1. d \div 2 \in 1 .. MaxSpooled /\ d = 2 * (d \div 2)
    BY <1>5, PartIs
  <2> QED
    BY <1>2, <1>4, <2>1, BodyIsSecond
<1> DEFINE m == (d + 1) \div 2
<1>7. m \in 1 .. MaxSpooled /\ d = 2 * m - 1 /\ e > 2 * m
  <2>1. m \in 1 .. MaxSpooled /\ d = 2 * m - 1
    BY <1>5, <1>6, PartIs
  <2>2. d % 2 = 1
    BY <1>5, <1>6 DEF Parts
  <2>3. d \in Int /\ e \in Int
    BY <1>5 DEF Parts
  <2> HIDE DEF d, e, m
  <2>4. m \in Int /\ e # d + 1 /\ d < e
    BY <1>2, <1>5, <2>1, <2>2
  <2> QED
    BY <2>1, <2>3, <2>4
<1>8. d \in OnDisk /\ e \in OnDisk
  BY <1>3, <1>5 DEF OnDisk
<1> HIDE DEF d, e, m
<1>9. d \in (1 .. put) \ Gone /\ e \in 1 .. put
  BY <1>1, <1>8 DEF Stored
<1>10. m \in 1 .. received /\ 2 * m \in 1 .. put
  BY <1>1, <1>7, <1>9
<1>11. 2 * m \notin OnDisk
  <2> SUFFICES ASSUME 2 * m \in OnDisk PROVE FALSE
    OBVIOUS
  <2>1. PICK f \in Files : 2 * m \in Range(contents[f])
    BY DEF OnDisk
  <2>2. d \in Range(contents[f])
    BY <1>1, <1>7, <2>1 DEF Bodies
  <2>3. f = files[index]
    <3>1. /\ \A g, h \in Files : g < h => Before(contents[g], contents[h])
          /\ d \in Int /\ ~(d < d)
      BY <1>1, <1>9 DEF Stored
    <3>2. ~Before(contents[f], Data) /\ ~Before(Data, contents[f])
      BY <1>5, <2>2, <3>1 DEF Before
    <3>3. ~(f < files[index]) /\ ~(files[index] < f)
      BY <1>3, <3>1, <3>2
    <3> QED
      BY <1>1, <1>3, <3>3
  <2>4. PICK p \in 1 .. Len(Data) : Data[p] = 2 * m
    BY <1>3, <2>1, <2>3, AtPosition
  <2>5. DOMAIN Data = 1 .. Len(Data) /\ Data[offset + 1] = d /\ Data[offset + 2] = e
    BY <1>3 DEF d, e
  <2>6. p > offset + 1
    <3>1. ASSUME p < offset + 1 PROVE FALSE
      BY <1>3, <1>4, <1>7, <2>4, <2>5, <3>1 DEF Increasing
    <3>2. p # offset + 1
      BY <1>7, <2>4, <2>5
    <3> QED
      BY <1>1, <3>1, <3>2
  <2>7. p # offset + 2 /\ ~(p > offset + 2)
    <3>1. e \in Int /\ e > 2 * m
      BY <1>1, <1>7, <1>9
    <3>2. ASSUME p > offset + 2 PROVE e < 2 * m
      BY <1>3, <1>4, <2>4, <2>5, <3>2 DEF Increasing
    <3>3. ASSUME p = offset + 2 PROVE e = 2 * m
      BY <2>4, <2>5, <3>3
    <3>4. ~(e < 2 * m) /\ e # 2 * m
      BY <1>7, <3>1
    <3> QED
      BY <3>2, <3>3, <3>4
  <2> QED
    BY <1>1, <2>6, <2>7
<1>12. 2 * m \notin Range(chunk)
  <2>1. Before(contents[files[index]], chunk) /\ e \in Range(contents[files[index]])
    BY <1>1, <1>3, <1>5 DEF Stored
  <2>2. e \in Int
    BY <1>1, <1>9
  <2> QED
    BY <1>7, <2>1, <2>2 DEF Before
<1>13. 2 * m \in Gone
  BY <1>1, <1>10, <1>11, <1>12 DEF Stored
<1>14. 2 * m - 1 \notin Gone
  BY <1>7, <1>9
<1> QED
  BY <1>10, <1>13, <1>14

\* A message that was cut stays cut.
LEMMA CutStays ==
  ASSUME WriterInv, Writer,
         \E m \in 1 .. received : {2 * m - 1, 2 * m} \cap Gone = {2 * m}
  PROVE  \E m \in 1 .. received' : {2 * m - 1, 2 * m} \cap Gone' = {2 * m}
<1> USE SpoolAssumption
<1>1. PICK m \in 1 .. received : {2 * m - 1, 2 * m} \cap Gone = {2 * m}
  OBVIOUS
<1>2. /\ received \in Nat /\ Losses /\ chunk \in Seq(Parts)
      /\ \A x \in Gone, y \in Range(chunk) : x < y
  <2>1. WriterTypeOK /\ Losses
    BY DEF WriterInv
  <2> QED
    BY <2>1, FilesAre DEF WriterTypeOK, Losses
<1>3. m \in Int /\ m <= received /\ 2 * m \in Gone /\ 2 * m - 1 \notin Gone
  BY <1>1, <1>2
<1>4. received' = received \/ received' = received + 1
  BY DEF Writer, ReceiveHead, ReceiveBody, ReceiveAstray, Check, Flush, Rotate, RotateFlush,
         CloseFile, Rename, Prune, OpenCurrent, CloseSpool, Crash, NewSpool, encVars
<1>5. m \in 1 .. received'
  BY <1>1, <1>2, <1>4
<1>6. /\ 2 * m - 1 \notin Range(chunk)
      /\ 2 * m - 1 # 2 * received + 1 /\ 2 * m - 1 # 2 * received + 2
  <2>1. ~(2 * m < 2 * m - 1)
    BY <1>3
  <2> QED
    BY <1>2, <1>3, <2>1
<1>7. /\ Gone \subseteq Gone'
      /\ Gone' \subseteq Gone \cup Range(chunk) \cup {2 * received + 1, 2 * received + 2}
  <2>1. CASE Crash
    BY <2>1 DEF Crash, Gone
  <2>2. CASE CloseFile
    BY <2>2 DEF CloseFile, crashVars, Gone
  <2>3. CASE ReceiveAstray
    BY <2>3 DEF ReceiveAstray, crashVars, Gone
  <2>4. CASE ~(Crash \/ CloseFile \/ ReceiveAstray)
    <3>1. lost' = lost /\ astray' = astray
      BY <2>4 DEF Writer, ReceiveHead, ReceiveBody, Check, Flush, Rotate, RotateFlush, Rename,
                  Prune, OpenCurrent, CloseSpool, NewSpool, callVars, crashVars
    <3> QED
      BY <3>1 DEF Gone
  <2> QED
    BY <2>1, <2>2, <2>3, <2>4
<1>8. {2 * m - 1, 2 * m} \cap Gone' = {2 * m}
  <2>1. 2 * m \in Gone' /\ 2 * m - 1 \notin Gone'
    BY <1>3, <1>6, <1>7
  <2> QED
    BY <2>1
<1> QED
  BY <1>5, <1>8

\* Decodable holds after every step.
LEMMA DecodableKept == SpoolInv /\ SpoolNext => Decodable'
<1> SUFFICES ASSUME SpoolInv, SpoolNext, rpc' = "corrupt"
             PROVE  \E m \in 1 .. received' : {2 * m - 1, 2 * m} \cap Gone' = {2 * m}
  BY DEF Decodable
<1>1. WriterInv /\ Decodable
  BY DEF SpoolInv
<1>2. CASE Writer
  <2>1. rpc = "corrupt"
    BY <1>2 DEF Writer, ReceiveHead, ReceiveBody, ReceiveAstray, Check, Flush, Rotate,
                RotateFlush, CloseFile, Rename, Prune, OpenCurrent, CloseSpool, Crash, NewSpool, readerVars
  <2> QED
    BY <1>1, <1>2, <2>1, CutStays DEF Decodable
<1>3. CASE Generate
  <2>1. received' = received /\ Gone' = Gone
    BY <1>3 DEF Generate, encVars, callVars, crashVars, Gone
  <2> QED
    BY <1>3, <2>1, CorruptIsCut
<1>4. CASE List \/ OpenNext \/ Opened \/ NextFile
  BY <1>4 DEF List, OpenNext, Opened, NextFile
<1> QED
  BY <1>2, <1>3, <1>4 DEF SpoolNext, Reader

\* Every step of the writer and of the reader keeps the invariant, until two
\* rotations overlap.
LEMMA SpoolInvKept ==
  SpoolInv /\ [SpoolNext]_spoolVars /\ wpc' # "tangled" => SpoolInv'
<1> SUFFICES ASSUME SpoolInv, [SpoolNext]_spoolVars, wpc' # "tangled" PROVE SpoolInv'
  OBVIOUS
<1>1. WriterInv /\ ReaderInv /\ Decodable
  BY DEF SpoolInv
<1>2. CASE Writer
  <2>1. WriterInv'
    BY <1>1, <1>2, WriterKeeps
  <2>2. ReaderInv'
    BY <1>2, WriterGrows, ReaderKept
  <2> QED
    BY <1>2, <2>1, <2>2, DecodableKept DEF SpoolInv, SpoolNext
<1>3. CASE Reader
  <2>1. UNCHANGED <<wpc, encVars, dirVars, callVars, crashVars>>
    BY <1>3 DEF Reader, List, OpenNext, Opened, Generate, NextFile
  <2>2. WriterInv'
    BY <1>1, <2>1, WriterStutters
  <2>3. ReaderInv'
    BY <1>3, ListKeeps, OpenNextKeeps, OpenedKeeps, GenerateKeeps, NextFileKeeps
       DEF Reader
  <2> QED
    BY <1>3, <2>2, <2>3, DecodableKept DEF SpoolInv, SpoolNext
<1>4. CASE UNCHANGED spoolVars
  <2>1. UNCHANGED <<wpc, encVars, dirVars, callVars, crashVars>> /\ UNCHANGED readerVars
        /\ UNCHANGED disturbed
    BY <1>4 DEF spoolVars
  <2>2. WriterInv'
    BY <1>1, <2>1, WriterStutters
  <2>3. ReaderInv'
    <3>1. /\ contents' = contents /\ current' = current /\ rotated' = rotated
          /\ rpc' = rpc /\ names' = names /\ files' = files /\ index' = index
          /\ offset' = offset /\ got' = got /\ listed' = listed
          /\ disturbed' = disturbed
      BY <2>1 DEF readerVars, dirVars
    <3>2. Data' = Data /\ \A g : Whole(g)' = Whole(g)
      BY <3>1 DEF Data, Whole
    <3>3. ReaderTypeOK' /\ ReadsInOrder' /\ Ahead'
      BY <1>1, <3>1 DEF ReaderInv, ReaderTypeOK, ReadsInOrder, Increasing, Ahead, Files
    <3>4. Reachable' /\ Promised'
      BY <1>1, <3>1, <3>2 DEF ReaderInv, Reachable, Promised
    <3>5. Reading'
      BY <1>1, <3>1, <3>2 DEF ReaderInv, Reading
    <3>6. Returned'
      BY <1>1, <3>1, <3>2 DEF ReaderInv, Returned
    <3> QED
      BY <3>3, <3>4, <3>5, <3>6 DEF ReaderInv
  <2>4. Decodable'
    BY <1>1, <2>1 DEF Decodable, Gone, readerVars, encVars, callVars, crashVars
  <2> QED
    BY <2>2, <2>3, <2>4 DEF SpoolInv
<1> QED
  BY <1>2, <1>3, <1>4 DEF SpoolNext

\* At the end of the last file what was promised was returned.
LEMMA ReadsBackHolds == SpoolInv => ReadsBack
<1> SUFFICES ASSUME SpoolInv PROVE ReadsBack
  OBVIOUS
<1>1. ReadsInOrder /\ Promised /\ Reading /\ files \in Seq(Files) /\ Decodable
  BY DEF SpoolInv, ReaderInv, ReaderTypeOK
<1>2. ASSUME ~disturbed, rpc = "end" PROVE listed \subseteq Range(got)
  <2> SUFFICES ASSUME NEW m \in listed PROVE m \in Range(got)
    OBVIOUS
  <2>1. PICK k \in 1 .. Len(files) : k < index => m \in Range(got)
    BY <1>1, <1>2 DEF Promised
  <2>2. index = Len(files) + 1
    BY <1>1, <1>2 DEF Reading
  <2>3. k < index
    BY <1>1, <2>2
  <2> QED
    BY <2>1, <2>3
<1>3. ReadsAllListed
  BY <1>1, <1>2 DEF ReadsAllListed, Promised
<1> QED
  BY <1>1, <1>3 DEF ReadsBack

-----------------------------------------------------------------------------
(* The spool's theorems                                                    *)

\* What no step leaves behind: the invariant until two rotations overlap, which
\* they never do with one caller.
SpoolAlways == OneCaller /\ (wpc = "tangled" \/ SpoolInv)

\* With one caller there is no comparison left while one rotates.
LEMMA NoTangle ==
  ASSUME WriterInv, Check, Callers = 1
  PROVE  wpc' # "tangled"
<1> SUFFICES ASSUME wpc' = "tangled" PROVE FALSE
  OBVIOUS
<1>1. WriterTypeOK /\ CallersAt
  BY DEF WriterInv
<1>2. checks \in Nat /\ checks > 0 /\ serving
  BY <1>1, SpoolAssumption DEF Check, WriterTypeOK, CallersAt
<1>3. wpc \in Rotating
  <2>1. wpc # "tangled" => wpc \in Rotating
    BY DEF Check
  <2>2. wpc # "tangled"
    BY DEF Check, Rotating
  <2> QED
    BY <2>1, <2>2
<1>4. Busy \in Int /\ Busy >= 2
  BY <1>2, <1>3 DEF Busy
<1>5. Busy <= 1
  BY <1>1 DEF CallersAt
<1> HIDE DEF Busy
<1> QED
  BY <1>4, <1>5

\* Every step keeps it.
LEMMA AlwaysKept == SpoolAlways /\ [SpoolNext]_spoolVars => SpoolAlways'
<1> SUFFICES ASSUME SpoolAlways, [SpoolNext]_spoolVars PROVE SpoolAlways'
  OBVIOUS
<1>1. CASE wpc = "tangled"
  <2>1. ~Writer
    BY <1>1 DEF Writer, ReceiveHead, ReceiveBody, ReceiveAstray, InBody, Check, Rotating,
                Flush, Rotate, RotateFlush, CloseFile, Rename, Prune, OpenCurrent, CloseSpool,
                Crash, NewSpool
  <2>2. UNCHANGED <<wpc, astray>>
    BY <2>1 DEF SpoolNext, Reader, List, OpenNext, Opened, Generate, NextFile, spoolVars,
                callVars
  <2> QED
    BY <1>1, <2>2 DEF SpoolAlways, OneCaller
<1>2. CASE wpc # "tangled" /\ SpoolInv
  <2>1. CASE wpc' = "tangled"
    <3>1. Check
      BY <1>2, <2>1
         DEF SpoolNext, Writer, Reader, ReceiveHead, ReceiveBody, ReceiveAstray, Flush,
             Rotate, RotateFlush, CloseFile, Rename, Prune, OpenCurrent, CloseSpool,
             Crash, NewSpool, List, OpenNext, Opened, Generate, NextFile, spoolVars
    <3>2. Callers # 1
      BY <1>2, <2>1, <3>1, NoTangle DEF SpoolInv
    <3> QED
      BY <2>1, <3>2 DEF SpoolAlways, OneCaller
  <2>2. CASE wpc' # "tangled"
    <3>1. SpoolInv'
      BY <1>2, <2>2, SpoolInvKept
    <3>2. OneCaller'
      BY <2>2, <3>1 DEF SpoolInv, WriterInv, CallersAt, OneCaller
    <3> QED
      BY <3>1, <3>2 DEF SpoolAlways
  <2> QED
    BY <2>1, <2>2
<1> QED
  BY <1>1, <1>2 DEF SpoolAlways

\* The invariant of the spool, through rotations, crashes and restarts, for any
\* number of callers.
THEOREM SpoolInvariant == SpoolSpec => []SpoolAlways
<1>1. SpoolInit => SpoolAlways
  BY SpoolStarts DEF SpoolAlways, OneCaller, SpoolInit
<1>2. SpoolAlways /\ [SpoolNext]_spoolVars => SpoolAlways'
  BY AlwaysKept
<1> QED
  BY <1>1, <1>2, PTL DEF SpoolSpec

\* Whatever the callers do and wherever the process is stopped, until two
\* rotations overlap: the directory holds the newest files, at most MaxFiles of
\* them rotated and none too large, and every part that was encoded was written
\* in order or is in the buffer, except what was in it at a crash and what was
\* encoded between another caller's flush and the new encoder.  With one caller
\* at a time there is no such part, and no rotations overlap (Receive, Rotate,
\* pruneOldFiles, openCurrent).
THEOREM SpoolSafe == SpoolSpec => []SpoolKeeps
<1>1. SpoolAlways => SpoolKeeps
  BY DEF SpoolAlways, SpoolInv, WriterInv, ReaderInv, SpoolKeeps, Retention, SpoolTypeOK
<1> QED
  BY <1>1, SpoolInvariant, PTL

\* Whatever the writer does meanwhile, a reader returns messages in order and
\* none twice, all that were on disk when it read the directory unless the rename
\* of "current" falls among its opens, and finds a broken message only where a
\* crash, or a close during another caller's Receive, has cut one; until two
\* rotations overlap (Generator, Generate).
THEOREM SpoolReadsBack == SpoolSpec => []ReadsBack
<1>1. SpoolAlways => ReadsBack
  BY ReadsBackHolds DEF SpoolAlways, ReadsBack
<1> QED
  BY <1>1, SpoolInvariant, PTL

-----------------------------------------------------------------------------
(* Pollers: the inductive invariant                                        *)

\* Types, and what the cursors count: pages, events, the time.
PollTyped ==
  /\ PollTypeOK
  /\ kind \in {"loggly", "papertrail", "logentries", "postgres"}
  /\ bufferSize \in Nat
  /\ Len(log) <= MaxEvents
  /\ now \in 0 .. MaxTime
  /\ searched \in 0 .. Len(log)
  /\ kind = "loggly" => cursor <= MaxPage /\ (gpc = "answered" => cursor < MaxPage)
  /\ kind = "papertrail" => cursor <= Len(log)
  /\ kind \in {"logentries", "postgres"} => cursor <= MaxTime
  /\ kind \in {"papertrail", "logentries"} => order = "asc"
  /\ odd \in BOOLEAN

\* The log is in the order in which events came.  The cursor of logentries is
\* not ahead unless a line was, and a row made that of postgres what it is.
InTime ==
  /\ \A i \in Events : log[i].at <= now
  /\ \A i, j \in Events : i <= j => log[i].at <= log[j].at
  /\ kind = "logentries" /\ ~odd => cursor <= now
  /\ kind = "postgres" => cursor = 0 \/ \E j \in Events : Second(j) = cursor

\* No page was asked for that the log did not fill.
FullPages == kind = "loggly" /\ ~Excused => cursor * Size <= Len(log)

\* Answers come in the order of the log, or of the times asked for.
Straight == order = "asc"

\* What the cursor has come to.
Reached(i) ==
  CASE kind = "loggly"     -> i <= cursor * Size
    [] kind = "papertrail" -> i <= cursor
    [] kind = "logentries" -> TRUE
    [] kind = "postgres"   -> Second(i) <= cursor

KeptReached ==
  /\ Straight => \A i \in Range(Kept) : Reached(i)
  /\ kind = "logentries" /\ Kept # << >> => Stamp(Kept[Len(Kept)]) <= cursor

\* a is the page of the n first events, in their order, that goes on behind
\* what the cursor has gone past.
PageOf(a, n) ==
  \E f \in Nat \ {0} :
    /\ \A k \in 1 .. Len(a) : a[k] = f + k - 1 /\ a[k] <= n
    /\ Len(a) = Size \/ f + Len(a) > n
    /\ \A i \in 1 .. n : i < f <=> Passed(i)

\* a is of the rows among the n first from the cursor's second on: those of a
\* second before all those of a later one.
RowsOf(a, n) ==
  /\ \A k \in 1 .. Len(a) : a[k] \in 1 .. n /\ cursor <= Second(a[k])
  /\ \A k, l \in 1 .. Len(a) : k <= l => Second(a[k]) <= Second(a[l])
  /\ \A k \in 1 .. Len(a), i \in 1 .. n :
       cursor <= Second(i) /\ Second(i) < Second(a[k]) => \E l \in 1 .. k - 1 : a[l] = i
  /\ Len(a) = Size \/ \A i \in 1 .. n : cursor <= Second(i) => i \in Range(a)

AnswerOf(a, n) == IF kind = "postgres" THEN RowsOf(a, n) ELSE PageOf(a, n)

\* Where Generate is.
Fetching ==
  /\ gpc = "answered" => eventBuffer = << >> /\ (Straight => AnswerOf(answer, searched))
  /\ gpc # "answered" => answer = << >>

PollInv == /\ PollTyped /\ InTime /\ FullPages /\ KeptReached /\ Fetching
           /\ NoneSkipped /\ EventsInOrder

-----------------------------------------------------------------------------
\* Whole seconds, in the order of the milliseconds.
LEMMA Quotient ==
  ASSUME NEW a \in Nat, NEW d \in Nat \ {0}
  PROVE  a \div d \in Nat /\ d * (a \div d) <= a /\ a < d * (a \div d) + d
OBVIOUS

\* A product with a factor that is not zero.
LEMMA Multiplied ==
  ASSUME NEW a \in Nat, NEW b \in Nat, NEW d \in Nat \ {0}
  PROVE  /\ a * d \in Nat /\ d * a = a * d
         /\ (a + 1) * d = a * d + d
         /\ a * d <= b * d => a <= b
         /\ a < b => a * d + d <= b * d
         /\ a <= a * d
OBVIOUS

\* Quotients are in the order of the numbers.
LEMMA SecondsOrdered ==
  ASSUME NEW a \in Nat, NEW b \in Nat, a <= b, NEW d \in Nat \ {0}
  PROVE  /\ a \div d \in Nat /\ b \div d \in Nat
         /\ a \div d <= b \div d /\ a \div d <= a
<1> DEFINE p == a \div d
           q == b \div d
<1>1. p \in Nat /\ d * p <= a /\ a < d * p + d
  BY Quotient
<1>2. q \in Nat /\ d * q <= b /\ b < d * q + d
  BY Quotient
<1> HIDE DEF p, q
<1>3. d * p = p * d /\ d * q = q * d /\ p <= p * d /\ (q < p => q * d + d <= p * d)
  BY <1>1, <1>2, Multiplied
<1>4. p * d \in Nat /\ q * d \in Nat
  BY <1>1, <1>2, Multiplied
<1>5. p <= q /\ p <= a
  BY <1>1, <1>2, <1>3, <1>4
<1> QED BY <1>1, <1>2, <1>5 DEF p, q

\* An entry of the log.
Entry == [at : 0 .. MaxTime, time : 0 .. MaxTime, json : BOOLEAN]

\* An event has two times.
LEMMA TimesAre ==
  ASSUME PollTyped
  PROVE  \A i \in Events : /\ log[i].time \in Nat /\ log[i].time <= MaxTime
                           /\ log[i].at \in Nat /\ log[i].at <= MaxTime
                           /\ log[i].json \in BOOLEAN
<1>1. \A i \in Events : log[i] \in Entry
  <2>1. log \in Seq(Entry)
    BY DEF PollTyped, PollTypeOK, Entry
  <2>2. Events = 1 .. Len(log)
    BY <2>1 DEF Events
  <2> QED BY ONLY <2>1, <2>2, ElementOfSeq
<1>2. \A i \in Events : log[i].time \in 0 .. MaxTime /\ log[i].at \in 0 .. MaxTime /\ log[i].json \in BOOLEAN
  BY <1>1 DEF Entry
<1> QED BY <1>2, PollerAssumption

\* Whole seconds, in the order of the times.
LEMMA SecondsAre ==
  ASSUME PollTyped
  PROVE  /\ \A i, j \in Events : log[i].time <= log[j].time => Second(i) <= Second(j)
         /\ \A i \in Events : Second(i) \in Nat /\ Second(i) <= MaxTime
<1>1. \A i \in Events : log[i].time \in Nat /\ log[i].time <= MaxTime
  BY TimesAre
<1>2. MaxTime \in Nat
  BY PollerAssumption
<1>3. \A i, j \in Events : log[i].time <= log[j].time => Second(i) <= Second(j)
  BY <1>1, SecondsOrdered, PollerAssumption DEF Second
<1>4. ASSUME NEW i \in Events PROVE Second(i) \in Nat /\ Second(i) <= MaxTime
  <2>1. Second(i) \in Nat /\ Second(i) <= log[i].time
    BY <1>1, SecondsOrdered, PollerAssumption DEF Second
  <2> QED BY <1>1, <1>2, <2>1
<1> QED BY <1>3, <1>4

\* The events from i on.
LEMMA SinceIs ==
  ASSUME PollTyped, NEW i \in 1 .. Len(log) + 1
  PROVE  /\ Since(i) \in Seq(Events) /\ Len(Since(i)) = Len(log) - i + 1
         /\ \A k \in 1 .. Len(Since(i)) : Since(i)[k] = i + k - 1
<1>1. log \in Seq(Entry) /\ Len(log) \in Nat /\ Events = 1 .. Len(log)
  BY DEF PollTyped, PollTypeOK, Events, Entry
<1>2. \A k \in 1 .. Len(log) - i + 1 : i + k - 1 \in Events
  BY <1>1
<1> QED BY <1>1, <1>2 DEF Since

\* The least of some events, or what comes after all.
LEMMA FirstIs ==
  ASSUME PollTyped, NEW late \in SUBSET Events
  PROVE  /\ First(late) \in 1 .. Len(log) + 1
         /\ First(late) \in late \/ First(late) = Len(log) + 1
         /\ \A i \in late : First(late) <= i
<1> DEFINE T == late \cup {Len(log) + 1}
<1>1. Len(log) \in Nat /\ Events = 1 .. Len(log)
  BY DEF PollTyped, PollTypeOK, Events
<1>2. T \in SUBSET Nat /\ T # {} /\ T \subseteq 1 .. Len(log) + 1
  <2>1. Len(log) + 1 \in 1 .. Len(log) + 1 /\ 1 .. Len(log) \subseteq 1 .. Len(log) + 1
        /\ 1 .. Len(log) + 1 \subseteq Nat
    BY <1>1
  <2> QED BY <1>1, <2>1
<1>3. PICK x \in T : \A y \in T : x <= y
  BY <1>2, LeastNatural
<1>4. First(late) \in T /\ \A y \in T : First(late) <= y
  BY <1>3 DEF First, Min
<1> QED BY <1>2, <1>4

\* At most Size elements, after the first n.
LEMMA PageIs ==
  ASSUME NEW S, NEW s \in Seq(S), NEW n \in Nat
  PROVE  /\ Page(s, n) \in Seq(S) /\ Len(Page(s, n)) <= Size
         /\ \A k \in 1 .. Len(Page(s, n)) : Page(s, n)[k] = s[n + k] /\ n + k <= Len(s)
         /\ Len(Page(s, n)) = Size \/ n + Len(Page(s, n)) >= Len(s)
<1> DEFINE m == IF Len(s) < n + Size THEN Len(s) ELSE n + Size
<1>1. Len(s) \in Nat /\ m \in Nat /\ m <= Len(s) /\ Size \in Nat
  BY PollerAssumption
<1>2. Page(s, n) = [k \in 1 .. m - n |-> s[n + k]]
  BY <1>1 DEF Page
<1>3. \A k \in 1 .. m - n : s[n + k] \in S
  BY <1>1
<1> HIDE DEF m
<1> DEFINE l == IF m < n THEN 0 ELSE m - n
<1>4. l \in Nat /\ 1 .. m - n = 1 .. l
  BY <1>1
<1> HIDE DEF l
<1>5. Page(s, n) \in Seq(S) /\ Len(Page(s, n)) = l
  <2>1. Page(s, n) \in [1 .. l -> S]
    BY ONLY <1>2, <1>3, <1>4
  <2> QED BY <2>1, <1>4
<1>6. \A k \in 1 .. l : Page(s, n)[k] = s[n + k] /\ n + k <= m
  BY <1>1, <1>2, <1>4
<1>7. l <= Size /\ (l = Size \/ n + l >= Len(s))
  BY <1>1, PollerAssumption DEF m, l
<1> QED BY <1>1, <1>5, <1>6, <1>7

\* The order asked for.
LEMMA SortedIs ==
  ASSUME NEW S, NEW s \in Seq(S)
  PROVE  Sorted(s) \in Seq(S) /\ (order = "asc" => Sorted(s) = s)
<1>1. [i \in 1 .. Len(s) |-> s[(Len(s) - i) + 1]] \in Seq(S)
  <2>1. Len(s) \in Nat /\ \A i \in 1 .. Len(s) : s[(Len(s) - i) + 1] \in S
    OBVIOUS
  <2> QED BY <2>1
<1> QED BY <1>1 DEF Sorted, Reverse

\* What the statement selects.
LEMMA RowsAnswered ==
  ASSUME PollTyped, NEW s \in BuildStmt
  PROVE  /\ s \in Seq(Events) /\ Len(s) <= Size
         /\ Straight => RowsOf(s, Len(log))
<1>1. Len(log) \in Nat /\ Events = 1 .. Len(log) /\ cursor \in Nat /\ Size \in Nat
  BY PollerAssumption DEF PollTyped, PollTypeOK, Events
<1>2. s \in SeqOf(Rows, Size) /\ (Len(s) = Size \/ Rows \subseteq Range(s))
  BY DEF BuildStmt
<1>3. PICK m \in 0 .. Size : s \in [1 .. m -> Rows]
  BY <1>2 DEF SeqOf
<1>4. Rows \subseteq Events
  BY DEF Rows
<1>5. s \in Seq(Rows) /\ s \in Seq(Events) /\ Len(s) = m /\ Len(s) <= Size /\ DOMAIN s = 1 .. Len(s)
  <2>1. m \in Nat /\ m <= Size /\ s \in [1 .. m -> Rows] /\ s \in [1 .. m -> Events]
    <3>1. m \in Nat /\ m <= Size
      BY <1>1
    <3> QED BY ONLY <3>1, <1>3, <1>4
  <2>2. s \in Seq(Rows) /\ s \in Seq(Events) /\ Len(s) = m
    BY <2>1
  <2> QED BY <2>1, <2>2
<1>6. SUFFICES ASSUME Straight PROVE RowsOf(s, Len(log))
  BY <1>5
<1>7. \A i \in Rows : i \in Events /\ Second(i) \in Nat /\ cursor <= Second(i)
  BY <1>1, <1>4, SecondsAre DEF Rows
<1>8. \A k \in 1 .. Len(s) : s[k] \in Rows
  BY <1>3, <1>5
<1>9. \A k \in 1 .. Len(s) :
        /\ \A l \in 1 .. k - 1 : s[k] # s[l]
        /\ \A i \in Rows : (\A l \in 1 .. k - 1 : s[l] # i) => log[s[k]].time <= log[i].time
  <2> SUFFICES ASSUME NEW k \in 1 .. Len(s)
               PROVE  /\ \A l \in 1 .. k - 1 : s[k] # s[l]
                      /\ \A i \in Rows : (\A l \in 1 .. k - 1 : s[l] # i) => log[s[k]].time <= log[i].time
    OBVIOUS
  <2> DEFINE before == {s[l] : l \in 1 .. k - 1}
  <2>1. s[k] \notin before /\ \A i \in Rows \ before : Precedes(s[k], i)
    BY <1>5 DEF BuildStmt
  <2>2. \A i \in Rows \ before : log[s[k]].time <= log[i].time
    BY <1>6, <2>1 DEF Precedes, Straight
  <2> QED BY <2>1, <2>2
<1>10. \A k \in 1 .. Len(s), i \in Rows : (\A l \in 1 .. k - 1 : s[l] # i) => Second(s[k]) <= Second(i)
  BY <1>7, <1>8, <1>9, SecondsAre
<1>11. ASSUME NEW k \in 1 .. Len(s), NEW j \in 1 .. Len(s), k <= j PROVE Second(s[k]) <= Second(s[j])
  <2>1. CASE k = j
    BY <1>7, <1>8, <2>1
  <2>2. CASE k # j
    <3>1. \A l \in 1 .. k - 1 : l \in 1 .. j - 1
      BY <1>1, <1>5, <1>11
    <3>2. \A l \in 1 .. k - 1 : s[l] # s[j]
      BY <1>9, <3>1
    <3> QED BY <1>8, <1>10, <3>2
  <2> QED BY <2>1, <2>2
<1>12. ASSUME NEW k \in 1 .. Len(s), NEW i \in 1 .. Len(log), cursor <= Second(i), Second(i) < Second(s[k])
       PROVE  \E l \in 1 .. k - 1 : s[l] = i
  <2>1. i \in Rows
    BY <1>1, <1>12, SecondsAre DEF Rows
  <2>2. ~(Second(s[k]) <= Second(i))
    <3>1. Second(s[k]) \in Nat /\ Second(i) \in Nat
      BY <1>7, <1>8, <2>1
    <3> QED BY ONLY <3>1, <1>12
  <2> QED BY <1>10, <2>1, <2>2
<1>13. Len(s) = Size \/ \A i \in 1 .. Len(log) : cursor <= Second(i) => i \in Range(s)
  BY <1>1, <1>2, SecondsAre DEF Rows
<1> QED BY <1>1, <1>7, <1>8, <1>11, <1>12, <1>13 DEF RowsOf

\* Every search answers with a page of the log, or with rows.
LEMMA SearchAnswers ==
  ASSUME PollTyped, InTime, Search
  PROVE  /\ answer' \in Seq(Events) /\ Len(answer') <= Size
         /\ Straight => AnswerOf(answer', Len(log))
<1>1. Len(log) \in Nat /\ Events = 1 .. Len(log) /\ cursor \in Nat
  BY PollerAssumption DEF PollTyped, PollTypeOK, Events
<1> DEFINE Answers(f, s, n) ==
             /\ s \in Seq(Events)
             /\ s = Since(f) \/ s = Sorted(Since(f))
             /\ answer' = Page(s, n)
             /\ \A i \in 1 .. Len(log) : i < f + n <=> Passed(i)
<1>2. ASSUME NEW f \in 1 .. Len(log) + 1, NEW s, NEW n \in Nat, Answers(f, s, n), kind # "postgres"
      PROVE  /\ answer' \in Seq(Events) /\ Len(answer') <= Size
             /\ Straight => AnswerOf(answer', Len(log))
  <2>1. /\ answer' \in Seq(Events) /\ Len(answer') <= Size
        /\ \A k \in 1 .. Len(answer') : answer'[k] = s[n + k] /\ n + k <= Len(s)
        /\ Len(answer') = Size \/ n + Len(answer') >= Len(s)
    BY <1>2, PageIs
  <2>2. SUFFICES ASSUME Straight PROVE PageOf(answer', Len(log))
    BY <1>2, <2>1 DEF AnswerOf
  <2>3. s = Since(f)
    BY <1>2, <2>2, SinceIs, SortedIs DEF Straight
  <2>4. Len(s) = Len(log) - f + 1 /\ \A k \in 1 .. Len(s) : s[k] = f + k - 1
    BY <2>3, SinceIs
  <2> DEFINE g == f + n
  <2>5. Len(answer') \in Nat /\ g \in Nat \ {0}
    BY <2>1
  <2>6. \A k \in 1 .. Len(answer') : answer'[k] = g + k - 1 /\ answer'[k] <= Len(log)
    BY <2>1, <2>4, <2>5, <1>1
  <2>7. Len(answer') = Size \/ g + Len(answer') > Len(log)
    BY <2>1, <2>4, <2>5, <1>1
  <2>8. \A i \in 1 .. Len(log) : i < g <=> Passed(i)
    BY <1>2
  <2> HIDE DEF g
  <2> QED BY <2>5, <2>6, <2>7, <2>8 DEF PageOf
<1>3. CASE SearchLoggly
  <2>1. cursor * Size \in Nat /\ 1 \in 1 .. Len(log) + 1
    BY <1>1, Multiplied, PollerAssumption
  <2>2. Since(1) \in Seq(Events) /\ Sorted(Since(1)) \in Seq(Events)
    BY <2>1, SinceIs, SortedIs
  <2>4. \A i \in 1 .. Len(log) : i < 1 + cursor * Size <=> Passed(i)
    BY <1>1, <1>3, <2>1 DEF Passed, SearchLoggly
  <2> QED BY <1>2, <1>3, <2>1, <2>2, <2>4 DEF SearchLoggly, Paged
<1>4. CASE SearchPapertrail
  <2>1. cursor + 1 \in 1 .. Len(log) + 1
    BY <1>1, <1>4 DEF PollTyped, SearchPapertrail
  <2>2. \A i \in 1 .. Len(log) : i < cursor + 1 + 0 <=> Passed(i)
    BY <1>1, <1>4 DEF Passed, SearchPapertrail
  <2>3. answer' = Page(Since(cursor + 1), 0)
    BY <1>4 DEF SearchPapertrail, Newer
  <2>4. Since(cursor + 1) \in Seq(Events) /\ 0 \in Nat
    BY <2>1, SinceIs
  <2>5. Answers(cursor + 1, Since(cursor + 1), 0) /\ kind # "postgres"
    BY <1>4, <2>2, <2>3, <2>4 DEF SearchPapertrail
  <2> HIDE DEF Answers
  <2> QED BY <1>2, <2>1, <2>4, <2>5
<1>5. CASE SearchLogentries
  <2> DEFINE late == {i \in Events : log[i].at >= cursor}
             f == First(late)
  <2>1. f \in 1 .. Len(log) + 1 /\ (f \in late \/ f = Len(log) + 1) /\ \A i \in late : f <= i
    BY FirstIs
  <2>2. \A i \in Events : log[i].at \in Nat
    BY TimesAre
  <2>3. \A i \in 1 .. Len(log) : i < f + 0 <=> Passed(i)
    <3> SUFFICES ASSUME NEW i \in 1 .. Len(log) PROVE i < f <=> log[i].at < cursor
      BY <1>5, <2>1 DEF Passed, SearchLogentries
    <3>0. i < f => i \notin late
      <4>1. f \in Nat /\ \A j \in late : f <= j
        BY ONLY <2>1, Len(log) \in Nat, <1>1
      <4> HIDE DEF f, late
      <4> QED BY ONLY <4>1, i \in 1 .. Len(log)
    <3>1. i < f => log[i].at < cursor
      BY <1>1, <2>2, <3>0
    <3>2. CASE f = Len(log) + 1
      BY <3>1, <3>2, <1>1
    <3>3. CASE f \in late
      <4>1. i >= f => log[i].at >= log[f].at
        BY <3>3, <1>1 DEF InTime
      <4> QED BY <3>1, <3>3, <4>1, <1>1, <2>1, <2>2
    <3> QED BY <2>1, <3>2, <3>3
  <2>4. answer' = Page(Since(f), 0)
    BY <1>5 DEF SearchLogentries, From
  <2>5. Since(f) \in Seq(Events) /\ 0 \in Nat
    BY <2>1, SinceIs
  <2> HIDE DEF f
  <2>6. Answers(f, Since(f), 0) /\ kind # "postgres"
    BY <1>5, <2>3, <2>4, <2>5 DEF SearchLogentries
  <2> HIDE DEF Answers
  <2> QED BY <1>2, <2>1, <2>5, <2>6
<1>6. CASE SearchPostgres
  <2>1. kind = "postgres" /\ answer' \in BuildStmt
    BY <1>6 DEF SearchPostgres
  <2> QED BY <2>1, RowsAnswered DEF AnswerOf
<1> QED BY <1>3, <1>4, <1>5, <1>6 DEF Search

-----------------------------------------------------------------------------
(* Pollers: what the steps keep                                            *)

\* Nothing was asked for yet.
LEMMA PollStarts == PollInit => PollInv
<1> SUFFICES ASSUME PollInit PROVE PollInv
  OBVIOUS
<1> USE DEF PollInit
<1>1. Events = {} /\ << >> \in Seq(Events) /\ Len(<< >>) = 0 /\ Kept = << >>
  BY DEF Events, Kept
<1>2. PollTyped
  <2>1. log \in Seq([at : 0 .. MaxTime, time : 0 .. MaxTime, json : BOOLEAN])
    OBVIOUS
  <2>2. kind \in {"papertrail", "logentries"} => order = "asc"
    OBVIOUS
  <2>3. bufferSize \in Nat /\ Len(log) = 0
    BY PollerAssumption
  <2>4. PollTypeOK
    BY <1>1, <2>1, <2>3, PollerAssumption DEF PollTypeOK
  <2>5. /\ kind \in {"loggly", "papertrail", "logentries", "postgres"}
        /\ now = 0 /\ cursor = 0 /\ searched = 0 /\ gpc # "answered" /\ odd \in BOOLEAN
    OBVIOUS
  <2>6. /\ 0 <= MaxEvents /\ 0 <= MaxPage /\ 0 <= MaxTime /\ 0 \in 0 .. MaxTime /\ 0 \in 0 .. 0
    BY PollerAssumption
  <2> QED BY ONLY <2>2, <2>3, <2>4, <2>5, <2>6 DEF PollTyped
<1>3. InTime /\ Fetching
  BY <1>1 DEF InTime, Fetching
<1>4. FullPages
  BY PollerAssumption DEF FullPages
<1>5. KeptReached /\ EventsInOrder /\ NoneSkipped
  BY <1>1 DEF KeptReached, EventsInOrder, NoneSkipped, Range
<1> QED BY <1>2, <1>3, <1>4, <1>5 DEF PollInv

\* Steps that leave the log, the cursor and what was kept.
LEMMA KeptStays ==
  ASSUME PollInv, UNCHANGED <<options, service, cursor, odd>>, Kept' = Kept
  PROVE  InTime' /\ FullPages' /\ KeptReached' /\ NoneSkipped' /\ EventsInOrder'
<1> USE DEF options, service
<1>1. Events' = Events /\ Excused' = Excused /\ Straight' = Straight
  BY DEF Events, Excused, Straight
<1>2. \A i : /\ Passed(i)' = Passed(i) /\ Reached(i)' = Reached(i) /\ Second(i)' = Second(i)
             /\ Late(i)' = Late(i) /\ Stamp(i)' = Stamp(i)
  BY DEF Passed, Reached, Second, Late, Stamp
<1>3. InTime'
  BY <1>1, <1>2 DEF PollInv, InTime
<1>4. FullPages'
  BY <1>1 DEF PollInv, FullPages
<1>5. KeptReached'
  <2>1. (Kept # << >>)' <=> Kept # << >>
    OBVIOUS
  <2> QED BY <1>1, <1>2, <2>1 DEF PollInv, KeptReached
<1>6. NoneSkipped'
  BY <1>1, <1>2 DEF PollInv, NoneSkipped
<1>7. EventsInOrder'
  BY <1>2 DEF PollInv, EventsInOrder
<1> QED BY <1>3, <1>4, <1>5, <1>6, <1>7

\* What there is to return, in one sequence.
LEMMA KeptIs ==
  ASSUME PollTyped
  PROVE  /\ polled \in Seq(Events) /\ eventBuffer \in Seq(Events) /\ Kept \in Seq(Events)
         /\ Events = 1 .. Len(log) /\ Len(log) \in Nat
BY DEF PollTyped, PollTypeOK, Kept, Events

\* A search that fails, a closed buffer.
LEMMA IdleKeeps ==
  ASSUME PollInv, SearchFails \/ TakeNil \/ ClosePoller \/ UNCHANGED pollVars
  PROVE  PollInv'
<1> USE DEF options, service, fetched
<1>1. UNCHANGED <<options, service, cursor, eventBuffer, fetched, polled, odd>>
  BY DEF SearchFails, TakeNil, ClosePoller, pollVars
<1>2. /\ gpc' = "answered" <=> gpc = "answered"
      /\ gpc \in {"take", "answered", "nil"} => gpc' \in {"take", "answered", "nil"}
  BY DEF SearchFails, TakeNil, ClosePoller, pollVars
<1>3. Kept' = Kept /\ Events' = Events
  BY <1>1 DEF Kept, Events
<1>4. PollTyped'
  BY <1>1, <1>2, <1>3 DEF PollInv, PollTyped, PollTypeOK
<1>5. \A i : Passed(i)' = Passed(i) /\ Second(i)' = Second(i)
  BY <1>1 DEF Passed, Second
<1>6. AnswerOf(answer, searched)' = AnswerOf(answer, searched)
  BY <1>1, <1>5 DEF AnswerOf, PageOf, RowsOf
<1>7. Fetching'
  BY <1>1, <1>2, <1>6 DEF PollInv, Fetching, Straight
<1> QED BY <1>1, <1>3, <1>4, <1>7, KeptStays DEF PollInv

\* The first of a sequence moves behind another one.
LEMMA TakeKeptIs ==
  ASSUME NEW S, NEW s \in Seq(S), NEW t \in Seq(S), t # << >>
  PROVE  /\ Append(s, Head(t)) \in Seq(S) /\ Tail(t) \in Seq(S)
         /\ Len(Tail(t)) = Len(t) - 1
         /\ Append(s, Head(t)) \o Tail(t) = s \o t
<1>1. /\ Head(t) \in S /\ Tail(t) \in Seq(S) /\ Len(Tail(t)) = Len(t) - 1
      /\ Append(s, Head(t)) \in Seq(S) /\ Len(Append(s, Head(t))) = Len(s) + 1
  OBVIOUS
<1>2. /\ Append(s, Head(t)) \o Tail(t) \in Seq(S) /\ s \o t \in Seq(S)
      /\ Len(Append(s, Head(t)) \o Tail(t)) = Len(s \o t)
  BY <1>1
<1>3. \A k \in 1 .. Len(s \o t) : (Append(s, Head(t)) \o Tail(t))[k] = (s \o t)[k]
  BY <1>1, <1>2
<1> QED BY ONLY <1>1, <1>2, <1>3, SeqEqual

\* Generate returns the first event of the buffer.
LEMMA TakeKeeps == ASSUME PollInv, TakeEvent PROVE PollInv'
<1> USE DEF options, service, fetched
<1>1. UNCHANGED <<options, service, cursor, gpc, fetched, odd>> /\ gpc = "take"
      /\ Events' = Events
  BY DEF TakeEvent, Events
<1>2. polled \in Seq(Events) /\ eventBuffer \in Seq(Events) /\ eventBuffer # << >>
  BY KeptIs DEF PollInv, TakeEvent
<1>3. /\ polled' \in Seq(Events) /\ eventBuffer' \in Seq(Events)
      /\ Len(eventBuffer') = Len(eventBuffer) - 1 /\ Kept' = Kept
  BY <1>2, TakeKeptIs DEF TakeEvent, Kept
<1>4. PollTyped'
  BY <1>1, <1>2, <1>3 DEF PollInv, PollTyped, PollTypeOK
<1>5. Fetching'
  BY <1>1 DEF PollInv, Fetching
<1> QED BY <1>1, <1>3, <1>4, <1>5, KeptStays DEF PollInv

\* The service answers a search.
LEMMA SearchKeeps == ASSUME PollInv, Search PROVE PollInv'
<1> USE DEF options, service, fetched
<1>1. /\ UNCHANGED <<options, service, cursor, eventBuffer, polled, odd>>
      /\ gpc' = "answered" /\ searched' = Len(log) /\ eventBuffer = << >>
      /\ kind = "loggly" => cursor < MaxPage
      /\ Kept' = Kept /\ Events' = Events /\ Straight' = Straight
  BY DEF Search, Kept, Events, Straight
<1>2. /\ answer' \in Seq(Events) /\ Len(answer') <= Size
      /\ Straight => AnswerOf(answer', Len(log))
  BY SearchAnswers DEF PollInv
<1>3. PollTyped'
  BY <1>1, <1>2, KeptIs DEF PollInv, PollTyped, PollTypeOK
<1>4. \A i : Passed(i)' = Passed(i) /\ Second(i)' = Second(i)
  BY <1>1 DEF Passed, Second
<1>5. AnswerOf(answer', Len(log)) => AnswerOf(answer, searched)'
  BY <1>1, <1>4 DEF AnswerOf, PageOf, RowsOf
<1>6. Fetching'
  BY <1>1, <1>2, <1>5 DEF Fetching
<1> QED BY <1>1, <1>3, <1>6, KeptStays DEF PollInv

\* Time passes.
LEMMA TickKeeps == ASSUME PollInv, Tick PROVE PollInv'
<1> USE DEF options, fetched
<1>1. /\ UNCHANGED <<options, log, cursor, eventBuffer, gpc, fetched, polled, odd>>
      /\ now' = now + 1 /\ now < MaxTime /\ kind = "logentries"
      /\ Kept' = Kept /\ Events' = Events /\ Straight' = Straight /\ Excused' = Excused
  BY DEF Tick, Kept, Events, Straight, Excused
<1>2. now \in Nat /\ cursor \in Nat
  BY PollerAssumption DEF PollInv, PollTyped, PollTypeOK
<1>3. PollTyped'
  BY <1>1, <1>2, PollerAssumption DEF PollInv, PollTyped, PollTypeOK
<1>4. \A i : /\ Passed(i)' = Passed(i) /\ Reached(i)' = Reached(i) /\ Second(i)' = Second(i)
             /\ Late(i)' = Late(i) /\ Stamp(i)' = Stamp(i)
  BY <1>1 DEF Passed, Reached, Second, Late, Stamp
<1>5. InTime'
  <2>1. \A i \in Events : log[i].at \in Nat /\ log[i].at <= now
    BY TimesAre DEF PollInv, InTime
  <2>2. \A i \in Events : log[i].at <= now + 1
    BY <1>2, <2>1
  <2>3. kind = "logentries" /\ ~odd => cursor <= now + 1
    BY <1>2 DEF PollInv, InTime
  <2> QED BY <1>1, <2>2, <2>3 DEF PollInv, InTime
<1>6. FullPages' /\ Fetching'
  <2>1. AnswerOf(answer, searched)' = AnswerOf(answer, searched)
    BY <1>1, <1>4 DEF AnswerOf, PageOf, RowsOf
  <2> QED BY <1>1, <2>1 DEF PollInv, FullPages, Fetching
<1>7. KeptReached'
  <2>1. (Kept # << >>)' <=> Kept # << >>
    BY <1>1
  <2> QED BY <1>1, <1>4, <2>1 DEF PollInv, KeptReached
<1>8. NoneSkipped'
  BY <1>1, <1>4 DEF PollInv, NoneSkipped
<1>9. EventsInOrder'
  BY <1>1, <1>4 DEF PollInv, EventsInOrder
<1> QED BY <1>3, <1>5, <1>6, <1>7, <1>8, <1>9 DEF PollInv

\* The log grows: no cursor has gone past the new event, but that of postgres
\* past a late one.
LEMMA LogEventKeeps == ASSUME PollInv, LogEvent PROVE PollInv'
<1> USE DEF options, fetched
<1>0. PICK n \in Nat : n = Len(log)
  BY KeptIs DEF PollInv
<1>1. /\ UNCHANGED <<options, now, cursor, eventBuffer, gpc, fetched, polled, odd>>
      /\ n < MaxEvents
      /\ Kept' = Kept /\ Straight' = Straight /\ Excused' = Excused
  BY <1>0 DEF LogEvent, Kept, Straight, Excused
<1>2. PICK time \in 0 .. MaxTime, json \in BOOLEAN :
        log' = Append(log, [at |-> now, time |-> time, json |-> json])
  <2>1. 0 \in 0 .. MaxTime
    BY PollerAssumption
  <2> QED BY <2>1 DEF LogEvent
<1> DEFINE e == [at |-> now, time |-> time, json |-> json]
<1>3. log \in Seq(Entry) /\ n \in Nat /\ Events = 1 .. n /\ now \in 0 .. MaxTime /\ now \in Nat
  BY <1>0, PollerAssumption DEF PollInv, PollTyped, PollTypeOK, Events, Entry
<1>4. e \in Entry /\ e.at = now
  BY <1>2, <1>3 DEF Entry
<1> HIDE DEF e
<1>5. /\ log' \in Seq(Entry) /\ Len(log') = n + 1 /\ Events' = 1 .. n + 1
      /\ \A i \in 1 .. n : log'[i] = log[i]
      /\ log'[n + 1] = e
  <2>1. log' = Append(log, e)
    BY <1>2 DEF e
  <2> QED BY <1>0, <1>3, <1>4, <2>1 DEF Events
<1>6. \A i \in Events : i \in Events' /\ i \in 1 .. n
  BY <1>3, <1>5
<1>7. log'[n + 1].at = now
  BY <1>4, <1>5
<1>8. PollTyped'
  <2>1. Seq(Events) \subseteq Seq(Events')
    BY <1>6
  <2>2. /\ eventBuffer \in Seq(Events) /\ Len(eventBuffer) <= bufferSize
        /\ answer \in Seq(Events) /\ Len(answer) <= Size /\ polled \in Seq(Events)
        /\ gpc \in {"take", "answered", "nil"} /\ cursor \in 0 .. MaxEvents + MaxPage + MaxTime
    BY DEF PollInv, PollTyped, PollTypeOK
  <2>3. PollTypeOK'
    BY <1>0, <1>1, <1>5, <2>1, <2>2 DEF PollTypeOK, Entry
  <2>4. /\ Len(log') <= MaxEvents /\ searched \in 0 .. Len(log')
        /\ kind = "papertrail" => cursor <= Len(log')
    <3>1. searched \in 0 .. n /\ (kind = "papertrail" => cursor <= n) /\ cursor \in Int
      BY <1>0, PollerAssumption DEF PollInv, PollTyped, PollTypeOK
    <3> QED BY <1>0, <1>1, <1>3, <1>5, <3>1, PollerAssumption
  <2> QED BY <1>0, <1>1, <2>3, <2>4 DEF PollInv, PollTyped
<1>9. \A i \in Events : /\ log'[i] = log[i]
                        /\ Passed(i)' = Passed(i) /\ Reached(i)' = Reached(i)
                        /\ Second(i)' = Second(i) /\ Stamp(i)' = Stamp(i) /\ Late(i)' = Late(i)
  <2>1. \A i \in Events : log'[i] = log[i]
    BY <1>5, <1>6
  <2>2. \A i \in Events : Second(i)' = Second(i) /\ Stamp(i)' = Stamp(i)
    BY <2>1 DEF Second, Stamp
  <2>3. \A i \in Events : Passed(i)' = Passed(i)
    BY <1>0, <1>1, <2>1, <2>2 DEF Passed
  <2>4. \A i \in Events : Reached(i)' = Reached(i)
    BY <1>0, <1>1, <2>1, <2>2 DEF Reached
  <2>5. \A i \in Events : \A j \in 1 .. i - 1 : j \in Events
    BY <1>3
  <2>6. \A i \in Events : Late(i)' = Late(i)
    BY <1>1, <2>2, <2>5 DEF Late
  <2> QED BY <2>1, <2>2, <2>3, <2>4, <2>6
<1>10. InTime'
  <2>1. \A i \in 1 .. n + 1 : log'[i].at <= now
    <3>1. \A i \in 1 .. n : log'[i] = log[i] /\ log[i].at <= now
      BY <1>3, <1>5 DEF PollInv, InTime
    <3> QED BY <1>0, <1>3, <1>7, <3>1
  <2>2. ASSUME NEW i \in 1 .. n + 1, NEW j \in 1 .. n + 1, i <= j PROVE log'[i].at <= log'[j].at
    <3>1. CASE j = n + 1
      BY <2>1, <3>1, <1>7
    <3>2. CASE j # n + 1
      <4>1. i \in Events /\ j \in Events /\ log'[i] = log[i] /\ log'[j] = log[j]
        BY <2>2, <3>2, <1>3, <1>5
      <4> QED BY <2>2, <4>1 DEF PollInv, InTime
    <3> QED BY <3>1, <3>2
  <2>3. kind = "postgres" => cursor = 0 \/ \E j \in Events' : Second(j)' = cursor
    BY <1>6, <1>9 DEF PollInv, InTime
  <2>4. kind = "logentries" /\ ~odd => cursor <= now
    BY DEF PollInv, InTime
  <2> QED BY <2>1, <2>2, <2>3, <2>4, <1>1, <1>5 DEF InTime
<1>11. FullPages'
  BY <1>0, <1>1, <1>3, <1>5, Multiplied, PollerAssumption DEF PollInv, FullPages, PollTyped, PollTypeOK
<1>12. Kept \in Seq(Events) /\ Len(Kept) \in Nat /\ \A i \in Range(Kept) : i \in Events
  BY KeptIs DEF PollInv, Range
<1>13. KeptReached' /\ EventsInOrder'
  <2>1. KeptReached'
    <3>1. Straight => \A i \in Range(Kept) : Reached(i)'
      BY <1>9, <1>12 DEF PollInv, KeptReached
    <3>2. ASSUME kind = "logentries", Kept # << >> PROVE Stamp(Kept[Len(Kept)])' <= cursor
      <4>1. Kept[Len(Kept)] \in Events
        BY <1>12, <3>2
      <4>2. Stamp(Kept[Len(Kept)]) <= cursor
        BY <3>2 DEF PollInv, KeptReached
      <4> QED BY <1>1, <1>9, <4>1, <4>2 DEF Stamp
    <3>3. (Kept # << >>)' <=> Kept # << >>
      BY <1>1
    <3>4. Stamp(Kept[Len(Kept)])' = (IF log'[Kept[Len(Kept)]].json THEN log'[Kept[Len(Kept)]].time ELSE log'[Kept[Len(Kept)]].at)
      BY <1>1 DEF Stamp
    <3> QED BY <1>1, <3>1, <3>2, <3>3, <3>4 DEF KeptReached, Stamp
  <2>2. \A k \in 2 .. Len(Kept) : Kept[k - 1] \in Events /\ Kept[k] \in Events
    BY <1>12
  <2>3. EventsInOrder
    BY DEF PollInv
  <2>4. kind' = kind /\ order' = order
    BY <1>0, <1>1
  <2> QED BY <1>0, <1>1, <1>9, <2>1, <2>2, <2>3, <2>4 DEF EventsInOrder, Second, Stamp
<1>14. ~Excused /\ Passed(n + 1)' => Late(n + 1)'
  <2> SUFFICES ASSUME ~Excused, Passed(n + 1)' PROVE Late(n + 1)'
    OBVIOUS
  <2>1. cursor \in Nat /\ cursor * Size \in Nat
    BY Multiplied, PollerAssumption DEF PollInv, PollTyped, PollTypeOK
  <2>2. kind # "loggly"
    <3> SUFFICES ASSUME kind = "loggly" PROVE FALSE
      OBVIOUS
    <3>1. cursor * Size <= n
      BY <1>0 DEF PollInv, FullPages
    <3>2. n + 1 <= cursor * Size
      BY <1>0, <1>1 DEF Passed
    <3> QED BY <1>3, <2>1, <3>1, <3>2
  <2>3. kind # "papertrail"
    <3> SUFFICES ASSUME kind = "papertrail" PROVE FALSE
      OBVIOUS
    <3>1. cursor <= n
      BY <1>0 DEF PollInv, PollTyped
    <3>2. n + 1 <= cursor
      BY <1>0, <1>1 DEF Passed
    <3> QED BY <1>3, <2>1, <3>1, <3>2
  <2>4. kind # "logentries"
    <3> SUFFICES ASSUME kind = "logentries" PROVE FALSE
      OBVIOUS
    <3>1. cursor <= now
      BY DEF PollInv, InTime, Excused
    <3>2. now < cursor
      BY <1>0, <1>1, <1>7 DEF Passed
    <3> QED BY <1>3, <2>1, <3>1, <3>2
  <2>5. kind = "postgres"
    BY <2>2, <2>3, <2>4 DEF PollInv, PollTyped
  <2>6. Second(n + 1)' < cursor /\ Second(n + 1)' \in Nat
    <3>1. Second(n + 1)' < cursor
      BY <1>1, <2>5 DEF Passed
    <3>2. log'[n + 1].time \in Nat
      BY <1>4, <1>5, PollerAssumption DEF Entry
    <3>3. log'[n + 1].time \div PerSecond \in Nat
      BY <3>2, SecondsOrdered, PollerAssumption
    <3> QED BY <3>1, <3>3 DEF Second
  <2>7. PICK j \in Events : Second(j) = cursor
    BY <2>1, <2>5, <2>6 DEF PollInv, InTime
  <2>8. j \in 1 .. n + 1 - 1 /\ Second(n + 1)' < Second(j)'
    BY <1>3, <1>9, <2>6, <2>7
  <2> QED BY <1>1, <2>5, <2>8 DEF Late, Second
<1>15. NoneSkipped'
  <2> SUFFICES ASSUME ~Excused, NEW i \in 1 .. n + 1, Passed(i)', ~Late(i)' PROVE i \in Range(Kept)
    BY <1>1, <1>5 DEF NoneSkipped
  <2>1. i # n + 1
    BY <1>14
  <2>2. i \in Events
    BY <1>3, <2>1
  <2> QED BY <1>9, <2>2 DEF PollInv, NoneSkipped
<1>16. searched \in 0 .. n /\ 1 .. searched \subseteq Events
  <2>1. searched \in 0 .. n
    BY <1>0 DEF PollInv, PollTyped
  <2> QED BY <1>3, <2>1
<1>17. Fetching'
  <2>1. ASSUME PageOf(answer, searched) PROVE PageOf(answer, searched)'
    <3>1. \A i \in 1 .. searched : Passed(i)' = Passed(i)
      BY <1>9, <1>16
    <3> QED BY <1>0, <1>1, <2>1, <3>1 DEF PageOf
  <2>2. ASSUME RowsOf(answer, searched) PROVE RowsOf(answer, searched)'
    <3>1. \A i \in 1 .. searched : Second(i)' = Second(i)
      BY <1>9, <1>16
    <3>2. \A k \in 1 .. Len(answer) : answer[k] \in 1 .. searched
      BY <2>2 DEF RowsOf
    <3>3. answer' = answer /\ searched' = searched /\ cursor' = cursor
      BY <1>1
    <3> QED BY <2>2, <3>1, <3>2, <3>3 DEF RowsOf, Second
  <2>3. kind' = kind /\ gpc' = gpc /\ eventBuffer' = eventBuffer /\ answer' = answer
    BY <1>1
  <2>4. (AnswerOf(answer, searched))' <=> (IF kind = "postgres" THEN RowsOf(answer, searched)' ELSE PageOf(answer, searched)')
    BY <2>3 DEF AnswerOf
  <2> QED BY <1>1, <2>1, <2>2, <2>3, <2>4 DEF PollInv, Fetching, AnswerOf
<1> QED BY <1>8, <1>10, <1>11, <1>13, <1>15, <1>17 DEF PollInv

\* The events of an answer that fit in the buffer.
LEMMA BufferedIs ==
  ASSUME PollTyped
  PROVE  /\ BufferedEvents \in Seq(Events) /\ Len(BufferedEvents) \in Nat
         /\ Len(BufferedEvents) <= Len(answer) /\ Len(BufferedEvents) <= bufferSize
         /\ Len(answer) <= bufferSize => BufferedEvents = answer
         /\ \A k \in 1 .. Len(BufferedEvents) : BufferedEvents[k] = answer[k] /\ BufferedEvents[k] \in Events
         /\ BufferedEvents # << >> => /\ Len(BufferedEvents) # 0
                                /\ LastBuffered = BufferedEvents[Len(BufferedEvents)]
                                /\ LastBuffered \in Events
         /\ BufferedEvents = << >> => answer = << >> \/ Len(answer) > bufferSize
<1>1. answer \in Seq(Events) /\ bufferSize \in Nat /\ Len(answer) \in Nat
  BY DEF PollTyped, PollTypeOK
<1>2. CASE Len(answer) <= bufferSize
  BY <1>1, <1>2 DEF BufferedEvents, LastBuffered, Last
<1>3. CASE ~(Len(answer) <= bufferSize)
  <2>1. BufferedEvents = [k \in 1 .. bufferSize |-> answer[k]]
    BY <1>1, <1>3 DEF BufferedEvents
  <2>2. \A k \in 1 .. bufferSize : answer[k] \in Events
    BY <1>1, <1>3
  <2>3. BufferedEvents \in Seq(Events) /\ Len(BufferedEvents) = bufferSize
    BY <1>1, <2>1, <2>2
  <2>4. BufferedEvents # << >> => Len(BufferedEvents) # 0
    BY <2>3
  <2> QED BY <1>1, <1>3, <2>1, <2>2, <2>3, <2>4 DEF LastBuffered, Last
<1> QED BY <1>2, <1>3

\* Where the cursor goes.
LEMMA AdvancedIs ==
  ASSUME PollTyped
  PROVE  /\ kind = "loggly" => Advanced = cursor + 1
         /\ kind # "loggly" /\ BufferedEvents = << >> => Advanced = cursor
         /\ kind = "papertrail" /\ BufferedEvents # << >> => Advanced = LastBuffered
         /\ kind = "logentries" /\ BufferedEvents # << >> => Advanced = NextLogentries
         /\ kind = "postgres" /\ BufferedEvents # << >> => Advanced = Second(LastBuffered)
<1>1. kind = "loggly" => Advanced = cursor + 1
  BY DEF Advanced, NextLoggly
<1>2. kind # "loggly" /\ BufferedEvents = << >> => Advanced = cursor
  BY DEF Advanced
<1>3. kind = "papertrail" /\ BufferedEvents # << >> => Advanced = LastBuffered
  BY DEF Advanced, NextPapertrail
<1>4. kind = "logentries" /\ BufferedEvents # << >> => Advanced = NextLogentries
  BY DEF Advanced
<1>5. kind = "postgres" /\ BufferedEvents # << >> => Advanced = Second(LastBuffered)
  BY DEF Advanced, NextPostgres
<1> QED BY <1>1, <1>2, <1>3, <1>4, <1>5

\* What is buffered of an answer is a run of events that the cursor has not
\* gone past, and begins where those end that it has.
LEMMA BufferedRun ==
  ASSUME PollInv, gpc = "answered", Straight, BufferedEvents # << >>, kind # "postgres"
  PROVE  \E f \in 1 .. searched :
           /\ \A k \in 1 .. Len(BufferedEvents) : BufferedEvents[k] = f + k - 1
           /\ f + Len(BufferedEvents) - 1 <= searched
           /\ \A i \in 1 .. searched : i < f <=> Passed(i)
<1>1. PageOf(answer, searched)
  BY DEF PollInv, Fetching, AnswerOf
<1>2. PICK f \in Nat \ {0} :
        /\ \A k \in 1 .. Len(answer) : answer[k] = f + k - 1 /\ answer[k] <= searched
        /\ \A i \in 1 .. searched : i < f <=> Passed(i)
  BY <1>1 DEF PageOf
<1>3. /\ Len(BufferedEvents) \in Nat \ {0} /\ Len(answer) \in Nat /\ searched \in Nat
      /\ Len(BufferedEvents) <= Len(answer)
      /\ \A k \in 1 .. Len(BufferedEvents) : BufferedEvents[k] = answer[k]
  BY BufferedIs DEF PollInv, PollTyped, PollTypeOK
<1>4. \A k \in 1 .. Len(BufferedEvents) : BufferedEvents[k] = f + k - 1 /\ f + k - 1 <= searched
  BY <1>2, <1>3
<1>5. f <= searched /\ f + Len(BufferedEvents) - 1 <= searched
  BY <1>3, <1>4
<1>6. f \in 1 .. searched
  BY <1>3, <1>5
<1> QED BY <1>2, <1>4, <1>5, <1>6

\* What is buffered of an answer of rows: the first of them, so that none is
\* of a second before that of the last and left.
LEMMA BufferedRows ==
  ASSUME PollInv, gpc = "answered", Straight, BufferedEvents # << >>, kind = "postgres"
  PROVE  /\ \A k \in 1 .. Len(BufferedEvents) :
              /\ BufferedEvents[k] \in 1 .. searched /\ cursor <= Second(BufferedEvents[k])
              /\ Second(BufferedEvents[k]) <= Second(LastBuffered)
         /\ \A k, l \in 1 .. Len(BufferedEvents) :
              k <= l => Second(BufferedEvents[k]) <= Second(BufferedEvents[l])
         /\ LastBuffered \in 1 .. searched /\ cursor <= Second(LastBuffered)
         /\ \A i \in 1 .. searched :
              cursor <= Second(i) /\ Second(i) < Second(LastBuffered) => i \in Range(BufferedEvents)
<1>1. RowsOf(answer, searched)
  BY DEF PollInv, Fetching, AnswerOf
<1> DEFINE m == Len(BufferedEvents)
<1>2. /\ m \in Nat /\ m # 0 /\ Len(answer) \in Nat /\ m <= Len(answer)
      /\ \A k \in 1 .. m : BufferedEvents[k] = answer[k]
      /\ LastBuffered = BufferedEvents[m] /\ BufferedEvents \in Seq(Events)
  BY BufferedIs DEF PollInv, PollTyped, PollTypeOK
<1> HIDE DEF m
<1>3. m \in 1 .. m /\ \A k \in 1 .. m : k <= m /\ k \in 1 .. Len(answer)
  BY <1>2
<1>4. /\ \A k \in 1 .. Len(answer) : answer[k] \in 1 .. searched /\ cursor <= Second(answer[k])
      /\ \A k, l \in 1 .. Len(answer) : k <= l => Second(answer[k]) <= Second(answer[l])
      /\ \A k \in 1 .. Len(answer), i \in 1 .. searched :
           cursor <= Second(i) /\ Second(i) < Second(answer[k]) => \E l \in 1 .. k - 1 : answer[l] = i
  BY <1>1 DEF RowsOf
<1>5. LastBuffered = answer[m] /\ m \in 1 .. Len(answer)
  BY <1>2, <1>3
<1>6. ASSUME NEW i \in 1 .. searched, cursor <= Second(i), Second(i) < Second(LastBuffered)
      PROVE  i \in Range(BufferedEvents)
  <2>1. PICK l \in 1 .. m - 1 : answer[l] = i
    BY <1>4, <1>5, <1>6
  <2>2. l \in 1 .. m
    BY <1>2
  <2>3. BufferedEvents[l] = i /\ l \in DOMAIN BufferedEvents
    BY <1>2, <2>1, <2>2 DEF m
  <2> QED BY <2>3 DEF Range
<1> QED BY <1>2, <1>3, <1>4, <1>5, <1>6 DEF m

\* The cursor goes no further than what is there, and only that of logentries
\* goes back.
LEMMA CursorTyped ==
  ASSUME PollInv, gpc = "answered"
  PROVE  /\ Advanced \in Nat
         /\ kind = "loggly" => Advanced <= MaxPage
         /\ kind = "papertrail" => Advanced <= Len(log)
         /\ kind \in {"logentries", "postgres"} => Advanced <= MaxTime
         /\ Straight /\ kind # "logentries" => cursor <= Advanced
<1>1. PollTyped /\ cursor \in Nat /\ now \in Nat /\ Len(log) \in Nat /\ Events = 1 .. Len(log)
      /\ now <= MaxTime
  BY KeptIs, PollerAssumption DEF PollInv, PollTyped, PollTypeOK
<1>2. CASE kind = "loggly"
  BY <1>1, <1>2, AdvancedIs, PollerAssumption DEF PollTyped
<1>3. CASE kind # "loggly" /\ BufferedEvents = << >>
  BY <1>1, <1>3, AdvancedIs DEF PollTyped
<1>4. CASE kind # "loggly" /\ BufferedEvents # << >>
  <2> DEFINE l == LastBuffered
  <2>1. l \in Events /\ l \in Nat /\ l = BufferedEvents[Len(BufferedEvents)] /\ Len(BufferedEvents) \in Nat \ {0}
    BY <1>1, <1>4, BufferedIs
  <2>2. log[l].time \in Nat /\ log[l].time <= MaxTime /\ Second(l) \in Nat /\ Second(l) <= MaxTime
    BY <1>1, <2>1, TimesAre, SecondsAre
  <2>3. /\ kind = "papertrail" => Advanced = l
        /\ kind = "logentries" => Advanced = log[l].time \/ Advanced = now
        /\ kind = "postgres" => Advanced = Second(l)
    BY <1>1, <1>4, AdvancedIs DEF NextLogentries
  <2>4. kind = "papertrail" \/ kind = "logentries" \/ kind = "postgres"
    BY <1>1, <1>4 DEF PollTyped
  <2> HIDE DEF l
  <2>5. ASSUME Straight, kind = "papertrail" PROVE cursor <= Advanced
    <3>1. PICK f \in 1 .. searched :
            /\ \A k \in 1 .. Len(BufferedEvents) : BufferedEvents[k] = f + k - 1
            /\ f + Len(BufferedEvents) - 1 <= searched
            /\ \A i \in 1 .. searched : i < f <=> Passed(i)
      BY <1>4, <2>5, BufferedRun
    <3>2. searched \in 0 .. Len(log)
      BY <1>1 DEF PollTyped
    <3>3. l = f + Len(BufferedEvents) - 1
      BY <2>1, <3>1
    <3>4. l \in 1 .. searched /\ ~(l < f)
      BY <2>1, <3>1, <3>2, <3>3
    <3>5. ~Passed(l)
      BY <3>1, <3>4
    <3> QED BY <1>1, <2>1, <2>3, <2>5, <3>5 DEF Passed
  <2>6. ASSUME Straight, kind = "postgres" PROVE cursor <= Advanced
    BY <1>4, <2>3, <2>6, BufferedRows DEF l
  <2>7. /\ Advanced \in Nat
        /\ kind = "papertrail" => Advanced <= Len(log)
        /\ kind \in {"logentries", "postgres"} => Advanced <= MaxTime
    BY <1>1, <2>1, <2>2, <2>3, <2>4
  <2> QED BY <1>4, <2>4, <2>5, <2>6, <2>7
<1> QED BY <1>2, <1>3, <1>4

\* What BufferEvents leaves, and what is kept then.
LEMMA BufferFrame ==
  ASSUME PollInv, BufferEvents
  PROVE  /\ UNCHANGED <<kind, order, bufferSize, log, now, searched, polled>>
         /\ eventBuffer = << >> /\ gpc = "answered"
         /\ eventBuffer' = BufferedEvents /\ cursor' = Advanced /\ gpc' = "take" /\ answer' = << >>
         /\ Events' = Events /\ Straight' = Straight /\ (~Excused' => ~Excused)
         /\ ~Excused' => ~Misleading
         /\ Kept = polled /\ Kept' = polled \o BufferedEvents /\ Kept' \in Seq(Events)
         /\ Range(Kept') = Range(Kept) \cup Range(BufferedEvents)
<1> USE DEF options, service
<1>1. /\ UNCHANGED <<kind, order, bufferSize, log, now, searched, polled>>
      /\ gpc = "answered"
      /\ eventBuffer' = BufferedEvents /\ cursor' = Advanced /\ gpc' = "take" /\ answer' = << >>
      /\ odd' = (odd \/ Misleading)
  BY DEF BufferEvents
<1>2. eventBuffer = << >>
  BY <1>1 DEF PollInv, Fetching
<1>3. Events' = Events /\ Straight' = Straight /\ (~Excused' => ~Excused /\ ~Misleading)
  BY <1>1 DEF Events, Straight, Excused
<1>4. polled \in Seq(Events) /\ BufferedEvents \in Seq(Events)
  BY KeptIs, BufferedIs DEF PollInv
<1>5. Kept = polled /\ Kept' = polled \o BufferedEvents /\ Kept' \in Seq(Events)
  BY <1>1, <1>2, <1>4 DEF Kept
<1>6. Range(polled \o BufferedEvents) = Range(polled) \cup Range(BufferedEvents)
  BY <1>4, ConcatRange
<1> QED BY <1>1, <1>2, <1>3, <1>5, <1>6

\* Types.
LEMMA BufferTyped == ASSUME PollInv, BufferEvents PROVE PollTyped'
<1>1. /\ UNCHANGED <<kind, order, bufferSize, log, now, searched, polled>>
      /\ gpc = "answered" /\ eventBuffer' = BufferedEvents /\ cursor' = Advanced
      /\ gpc' = "take" /\ answer' = << >> /\ Events' = Events
  BY BufferFrame
<1>2. /\ Advanced \in Nat
      /\ kind = "loggly" => Advanced <= MaxPage
      /\ kind = "papertrail" => Advanced <= Len(log)
      /\ kind \in {"logentries", "postgres"} => Advanced <= MaxTime
  BY <1>1, CursorTyped
<1>3. /\ kind \in {"loggly", "papertrail", "logentries", "postgres"}
      /\ Len(log) <= MaxEvents /\ Len(log) \in Nat
  BY KeptIs DEF PollInv, PollTyped
<1>4. Advanced \in 0 .. MaxEvents + MaxPage + MaxTime
  BY <1>2, <1>3, PollerAssumption
<1>5. /\ BufferedEvents \in Seq(Events) /\ Len(BufferedEvents) <= bufferSize
      /\ << >> \in Seq(Events) /\ Len(<< >>) <= Size
  BY BufferedIs, PollerAssumption DEF PollInv
<1>6. PollTypeOK'
  BY <1>1, <1>4, <1>5 DEF PollInv, PollTyped, PollTypeOK
<1>7. odd' \in BOOLEAN
  BY DEF BufferEvents
<1> QED BY <1>1, <1>2, <1>6, <1>7 DEF PollInv, PollTyped

\* An answer that misleads no cursor has the times of its lines before they came.
LEMMA LineInTime ==
  ASSUME PollInv, gpc = "answered", kind = "logentries", BufferedEvents # << >>
  PROVE  /\ LastBuffered \in Events
         /\ ~Misleading => Advanced = log[LastBuffered].time /\ Advanced <= log[LastBuffered].at
         /\ Stamp(LastBuffered) <= Advanced
<1> DEFINE l == LastBuffered
<1>1. /\ BufferedEvents \in Seq(Events) /\ Len(BufferedEvents) \in Nat /\ Len(BufferedEvents) # 0
      /\ Len(BufferedEvents) <= Len(answer) /\ answer \in Seq(Events) /\ Len(answer) \in Nat
      /\ \A k \in 1 .. Len(BufferedEvents) : BufferedEvents[k] = answer[k]
      /\ l = BufferedEvents[Len(BufferedEvents)] /\ l \in Events
  BY BufferedIs DEF PollInv, PollTyped, PollTypeOK
<1>2. l \in Range(answer)
  <2>1. Len(BufferedEvents) \in 1 .. Len(BufferedEvents) /\ Len(BufferedEvents) \in DOMAIN answer
    BY <1>1
  <2> QED BY <1>1, <2>1 DEF Range
<1>3. Advanced = NextLogentries
  BY AdvancedIs DEF PollInv
<1>4. log[l].at \in Nat /\ log[l].time \in Nat /\ log[l].at <= now /\ now \in Nat /\ log[l].json \in BOOLEAN
  BY <1>1, TimesAre, PollerAssumption DEF PollInv, InTime, PollTyped
<1>5. Stamp(l) <= Advanced
  BY <1>3, <1>4 DEF NextLogentries, Stamp
<1>6. ~Misleading => log[l].json /\ ~(log[l].time > log[l].at)
  BY <1>2 DEF Misleading
<1> QED BY <1>1, <1>3, <1>4, <1>5, <1>6 DEF NextLogentries

\* What has happened when the cursor has come where it goes.
LEMMA BufferInTime == ASSUME PollInv, BufferEvents PROVE InTime'
<1>1. /\ UNCHANGED <<kind, order, bufferSize, log, now, searched, polled>>
      /\ gpc = "answered" /\ cursor' = Advanced /\ Events' = Events
  BY BufferFrame
<1>2. ASSUME kind = "logentries", ~odd' PROVE cursor' <= now
  <2>1. ~odd /\ ~Misleading
    BY <1>2 DEF BufferEvents
  <2>2. CASE BufferedEvents = << >>
    BY <1>1, <1>2, <2>1, <2>2, AdvancedIs DEF PollInv, InTime
  <2>3. CASE BufferedEvents # << >>
    <3>1. LastBuffered \in Events /\ Advanced <= log[LastBuffered].at
      BY <1>1, <1>2, <2>1, <2>3, LineInTime
    <3>2. log[LastBuffered].at <= now /\ log[LastBuffered].at \in Nat /\ now \in Nat /\ Advanced \in Nat
      BY <1>1, <3>1, TimesAre, CursorTyped, PollerAssumption DEF PollInv, InTime, PollTyped
    <3> QED BY <1>1, <3>1, <3>2
  <2> QED BY <2>2, <2>3
<1>3. ASSUME kind = "postgres" PROVE cursor' = 0 \/ \E j \in Events : Second(j) = cursor'
  <2>1. CASE BufferedEvents = << >>
    BY <1>1, <1>3, <2>1, AdvancedIs DEF PollInv, InTime
  <2>2. CASE BufferedEvents # << >>
    BY <1>1, <1>3, <2>2, AdvancedIs, BufferedIs DEF PollInv
  <2> QED BY <2>1, <2>2
<1> QED BY <1>1, <1>2, <1>3 DEF PollInv, InTime, Second

\* A page: the cursor comes to all that is kept, and passes no event behind the
\* last.
LEMMA BufferRunMoves ==
  ASSUME PollInv, BufferEvents, Straight, NEW f \in 1 .. searched, BufferedEvents # << >>,
         kind # "postgres",
         \A k \in 1 .. Len(BufferedEvents) : BufferedEvents[k] = f + k - 1,
         f + Len(BufferedEvents) - 1 <= searched,
         \A i \in 1 .. searched : i < f <=> Passed(i)
  PROVE  /\ \A i \in f .. f + Len(BufferedEvents) - 1 : Reached(i)'
         /\ ~Excused' => \A i \in Events : Passed(i)' => i < f + Len(BufferedEvents)
         /\ ~Excused' /\ kind = "loggly" => (cursor + 1) * Size <= searched
<1> DEFINE l == f + Len(BufferedEvents) - 1
<1>1. /\ UNCHANGED <<kind, order, bufferSize, log, now, searched, polled>>
      /\ gpc = "answered" /\ cursor' = Advanced /\ (~Excused' => ~Misleading)
  BY BufferFrame
<1>2. /\ PollTyped /\ cursor \in Nat /\ now \in Nat /\ Len(log) \in Nat
      /\ Events = 1 .. Len(log) /\ searched \in 0 .. Len(log) /\ bufferSize \in Nat
      /\ Len(answer) <= Size /\ Len(answer) \in Nat /\ Size \in Nat
  BY KeptIs, PollerAssumption DEF PollInv, PollTyped, PollTypeOK
<1>3. /\ Len(BufferedEvents) \in Nat \ {0} /\ LastBuffered = BufferedEvents[Len(BufferedEvents)]
      /\ Len(BufferedEvents) <= Len(answer)
      /\ Len(answer) <= bufferSize => BufferedEvents = answer
  BY <1>2, BufferedIs
<1>4. LastBuffered = l /\ l \in 1 .. searched /\ f <= l /\ f .. l \subseteq Events
  BY <1>2, <1>3
<1> HIDE DEF l
<1>5. CASE kind = "papertrail"
  <2>1. cursor' = l
    BY <1>1, <1>2, <1>4, <1>5, AdvancedIs
  <2>2. \A i : (Passed(i)' <=> i <= l) /\ (Reached(i)' <=> i <= l)
    BY <1>1, <1>5, <2>1 DEF Passed, Reached
  <2> QED BY <1>2, <1>3, <1>4, <1>5, <2>2 DEF l
<1>6. CASE kind = "logentries"
  <2>1. \A i : Reached(i)'
    BY <1>1, <1>6 DEF Reached
  <2>2. ASSUME ~Excused', NEW i \in Events, Passed(i)' PROVE i < l + 1
    <3>1. cursor' <= log[l].at /\ l \in Events
      BY <1>1, <1>4, <1>6, <2>2, LineInTime
    <3>2. log[i].at < cursor'
      BY <1>1, <1>6, <2>2 DEF Passed
    <3>3. cursor' \in Nat /\ log[i].at \in Nat /\ log[l].at \in Nat
      BY <1>1, <1>2, <2>2, <3>1, TimesAre, CursorTyped
    <3>4. l <= i => log[l].at <= log[i].at
      BY <2>2, <3>1 DEF PollInv, InTime
    <3>5. ~(l <= i)
      BY ONLY <3>1, <3>2, <3>3, <3>4
    <3> QED BY <1>2, <1>4, <2>2, <3>5
  <2> QED BY <1>2, <1>3, <1>6, <2>1, <2>2 DEF l
<1>7. CASE kind = "loggly"
  <2> DEFINE c == cursor * Size
  <2>1. cursor' = cursor + 1 /\ c \in Nat /\ (cursor + 1) * Size = c + Size
    BY <1>1, <1>2, <1>7, AdvancedIs, Multiplied, PollerAssumption
  <2>2. \A i : (Passed(i)' <=> i <= c + Size) /\ (Reached(i)' <=> i <= c + Size)
               /\ (Passed(i) <=> i <= c)
    BY <1>1, <1>7, <2>1 DEF Passed, Reached
  <2> HIDE DEF c
  <2>3. f <= c + 1 /\ f > c
    <3>1. ~(f < f) => ~(f <= c)
      BY <2>2
    <3>2. CASE f = 1
      BY <2>1, <3>1, <3>2
    <3>3. CASE f # 1
      <4>1. f - 1 \in 1 .. searched /\ f - 1 < f
        BY <1>2, <3>3
      <4>2. f - 1 <= c
        BY <2>2, <4>1
      <4> QED BY <1>2, <2>1, <3>1, <4>2
    <3> QED BY <3>2, <3>3
  <2>4. l <= c + Size
    BY <1>2, <1>3, <2>1, <2>3 DEF l
  <2>5. \A i \in f .. l : Reached(i)'
    BY <1>2, <1>4, <2>1, <2>2, <2>4
  <2>6. ASSUME ~Excused' PROVE l >= c + Size
    <3>1. Len(answer) <= bufferSize /\ ~(Len(answer) < Size)
      <4>1. ~(Len(answer) < Size) /\ ~(Len(answer) > bufferSize)
        BY <1>1, <1>7, <2>6 DEF Misleading
      <4> QED BY <1>2, <4>1
    <3>2. Len(BufferedEvents) = Size
      BY <1>2, <1>3, <3>1
    <3> QED BY <1>2, <2>1, <2>3, <3>2 DEF l
  <2>7. ASSUME ~Excused', NEW i \in Events, Passed(i)' PROVE i < l + 1
    BY <1>2, <1>4, <2>1, <2>2, <2>6, <2>7
  <2>8. ~Excused' => (cursor + 1) * Size <= searched
    BY <1>2, <1>4, <2>1, <2>6
  <2> QED BY <1>2, <1>3, <2>5, <2>7, <2>8 DEF l
<1> QED BY <1>2, <1>5, <1>6, <1>7 DEF PollTyped

\* The cursor comes to all that is buffered, and passes nothing else but a late
\* row that it had not passed before.
LEMMA BufferMoves ==
  ASSUME PollInv, BufferEvents, Straight, BufferedEvents # << >>
  PROVE  /\ \A i \in Range(BufferedEvents) : i \in 1 .. searched /\ Reached(i)'
         /\ ~Excused' => \A i \in Events :
              Passed(i)' /\ ~Late(i) => Passed(i) \/ i \in Range(BufferedEvents)
         /\ ~Excused' /\ kind = "loggly" => (cursor + 1) * Size <= searched
<1>1. /\ UNCHANGED <<kind, order, bufferSize, log, now, searched, polled>>
      /\ gpc = "answered" /\ cursor' = Advanced
  BY BufferFrame
<1>2. /\ PollTyped /\ cursor \in Nat /\ Len(log) \in Nat
      /\ Events = 1 .. Len(log) /\ searched \in 0 .. Len(log)
  BY KeptIs, PollerAssumption DEF PollInv, PollTyped, PollTypeOK
<1>3. /\ Len(BufferedEvents) \in Nat
      /\ Range(BufferedEvents) = {BufferedEvents[k] : k \in 1 .. Len(BufferedEvents)}
  BY <1>2, BufferedIs DEF Range
<1>4. CASE kind = "postgres"
  <2>1. /\ \A k \in 1 .. Len(BufferedEvents) :
             /\ BufferedEvents[k] \in 1 .. searched
             /\ Second(BufferedEvents[k]) <= Second(LastBuffered)
        /\ LastBuffered \in 1 .. searched
        /\ \A i \in 1 .. searched :
             cursor <= Second(i) /\ Second(i) < Second(LastBuffered) => i \in Range(BufferedEvents)
    BY <1>1, <1>4, BufferedRows
  <2>2. cursor' = Second(LastBuffered)
    BY <1>1, <1>2, <1>4, AdvancedIs
  <2>3. \A i : /\ Passed(i)' <=> Second(i) < Second(LastBuffered)
               /\ Reached(i)' <=> Second(i) <= Second(LastBuffered)
               /\ Passed(i) <=> Second(i) < cursor
    BY <1>1, <1>4, <2>2 DEF Passed, Reached, Second
  <2>4. ASSUME NEW i \in Events, Passed(i)', ~Late(i) PROVE Passed(i) \/ i \in Range(BufferedEvents)
    <3>1. i \in 1 .. searched
      <4> SUFFICES ASSUME i \notin 1 .. searched PROVE FALSE
        OBVIOUS
      <4>1. LastBuffered \in 1 .. i - 1
        BY <1>2, <2>1, <2>4
      <4> QED BY <1>4, <2>3, <2>4, <4>1 DEF Late
    <3>2. Second(i) \in Nat
      BY <1>2, <2>4, SecondsAre
    <3> QED BY <1>2, <2>1, <2>3, <2>4, <3>1, <3>2
  <2> QED BY <1>3, <1>4, <2>1, <2>3, <2>4
<1>5. CASE kind # "postgres"
  <2>1. PICK f \in 1 .. searched :
          /\ \A k \in 1 .. Len(BufferedEvents) : BufferedEvents[k] = f + k - 1
          /\ f + Len(BufferedEvents) - 1 <= searched
          /\ \A i \in 1 .. searched : i < f <=> Passed(i)
    BY <1>1, <1>5, BufferedRun
  <2> DEFINE l == f + Len(BufferedEvents) - 1
  <2>2. /\ \A i \in f .. l : Reached(i)'
        /\ ~Excused' => \A i \in Events : Passed(i)' => i < f + Len(BufferedEvents)
        /\ ~Excused' /\ kind = "loggly" => (cursor + 1) * Size <= searched
    BY <1>5, <2>1, BufferRunMoves
  <2>3. Range(BufferedEvents) = f .. l /\ f .. l \subseteq 1 .. searched
    <3>1. \A i \in f .. l : i - f + 1 \in 1 .. Len(BufferedEvents) /\ BufferedEvents[i - f + 1] = i
      <4>1. ASSUME NEW i \in f .. l PROVE i - f + 1 \in 1 .. Len(BufferedEvents) /\ f + (i - f + 1) - 1 = i
        BY <1>2, <1>3
      <4> QED BY <2>1, <4>1
    <3>2. \A k \in 1 .. Len(BufferedEvents) : BufferedEvents[k] \in f .. l
      BY <1>2, <1>3, <2>1
    <3>3. \A i \in f .. l : \E k \in 1 .. Len(BufferedEvents) : i = BufferedEvents[k]
      BY <3>1
    <3>4. f .. l \subseteq 1 .. searched
      BY <1>2, <1>3, <2>1
    <3> HIDE DEF l
    <3>5. Range(BufferedEvents) = f .. l
      BY <1>3, <3>2, <3>3
    <3> QED BY <3>4, <3>5
  <2>4. ASSUME ~Excused', NEW i \in Events, Passed(i)' PROVE Passed(i) \/ i \in Range(BufferedEvents)
    <3>1. i < f + Len(BufferedEvents) /\ i \in Nat
      BY <1>2, <2>2, <2>4
    <3>2. CASE i < f
      BY <1>2, <2>1, <2>4, <3>2
    <3>3. CASE ~(i < f)
      <4>1. i \in f .. l
        BY <1>2, <1>3, <3>1, <3>3
      <4> QED BY <2>3, <4>1
    <3> QED BY <3>2, <3>3
  <2> HIDE DEF l
  <2> QED BY <2>2, <2>3, <2>4
<1> QED BY <1>4, <1>5

\* What is buffered comes after what was kept, as far as the cursor can tell.
LEMMA BufferInOrder ==
  ASSUME PollInv, BufferEvents, Straight, BufferedEvents # << >>
  PROVE  EventsInOrder'
<1>1. /\ UNCHANGED <<kind, order, log>> /\ gpc = "answered"
      /\ Kept' = Kept \o BufferedEvents
  BY BufferFrame
<1>2. /\ PollTyped /\ Kept \in Seq(Events) /\ Events = 1 .. Len(log) /\ Len(log) \in Nat
      /\ BufferedEvents \in Seq(Events) /\ cursor \in Nat /\ searched \in 0 .. Len(log)
      /\ Len(BufferedEvents) # 0
  BY KeptIs, BufferedIs, PollerAssumption DEF PollInv, PollTyped, PollTypeOK
<1> DEFINE Fits(a, b) ==
             CASE kind = "papertrail" -> a < b
               [] kind = "loggly"     -> order = "asc" => a < b
               [] kind = "logentries" -> a < b \/ Stamp(a) <= log[b].at
               [] kind = "postgres"   -> order = "asc" => Second(a) <= Second(b)
           p == Len(Kept)
           u == Kept \o BufferedEvents
           first == BufferedEvents[1]
<1>3. /\ u \in Seq(Events) /\ Len(u) = p + Len(BufferedEvents) /\ p \in Nat /\ Len(BufferedEvents) \in Nat
      /\ \A k \in 1 .. p : u[k] = Kept[k]
      /\ \A k \in p + 1 .. Len(u) : u[k] = BufferedEvents[k - p]
  BY <1>2
<1>4. \A k \in 2 .. p : Fits(Kept[k - 1], Kept[k])
  BY DEF PollInv, EventsInOrder
<1>5. /\ p # 0 => Fits(Kept[p], first)
      /\ \A k, l \in 1 .. Len(BufferedEvents) : k < l => Fits(BufferedEvents[k], BufferedEvents[l])
  <2>1. CASE kind = "postgres"
    <3>1. /\ \A k \in 1 .. Len(BufferedEvents) : cursor <= Second(BufferedEvents[k])
          /\ \A k, l \in 1 .. Len(BufferedEvents) :
               k <= l => Second(BufferedEvents[k]) <= Second(BufferedEvents[l])
      BY <1>1, <2>1, BufferedRows
    <3>2. 1 \in 1 .. Len(BufferedEvents) /\ first \in Events
      BY <1>2, <1>3
    <3>3. ASSUME p # 0 PROVE Second(Kept[p]) <= Second(first)
      <4>1. Kept[p] \in Range(Kept) /\ Kept[p] \in Events
        BY <1>2, <3>3 DEF Range
      <4>2. Second(Kept[p]) <= cursor /\ cursor <= Second(first)
        BY <2>1, <3>1, <3>2, <4>1 DEF PollInv, KeptReached, Reached
      <4>3. Second(Kept[p]) \in Nat /\ Second(first) \in Nat
        BY <1>2, <3>2, <4>1, SecondsAre
      <4> QED BY ONLY <1>2, <4>2, <4>3
    <3>4. \A k, l \in 1 .. Len(BufferedEvents) : k < l => k <= l
      BY <1>3
    <3> QED BY <2>1, <3>1, <3>3, <3>4
  <2>2. CASE kind # "postgres"
    <3>1. PICK f \in 1 .. searched :
            /\ \A k \in 1 .. Len(BufferedEvents) : BufferedEvents[k] = f + k - 1
            /\ \A i \in 1 .. searched : i < f <=> Passed(i)
      BY <1>1, <2>2, BufferedRun
    <3>2. 1 \in 1 .. Len(BufferedEvents) /\ first = f + 1 - 1
      BY <1>2, <1>3, <3>1
    <3>3. first = f /\ f \in Nat /\ ~Passed(first) /\ first \in Events
      BY <1>2, <3>1, <3>2
    <3>4. ASSUME p # 0 PROVE Fits(Kept[p], first)
      <4>1. Kept[p] \in Range(Kept) /\ Kept[p] \in Events /\ Kept # << >>
        BY <1>2, <3>4 DEF Range
      <4>2. Reached(Kept[p])
        BY <4>1 DEF PollInv, KeptReached
      <4>3. CASE kind = "papertrail"
        BY <1>2, <3>3, <4>1, <4>2, <4>3 DEF Reached, Passed
      <4>4. CASE kind = "loggly"
        <5>1. cursor * Size \in Nat
          BY <1>2, Multiplied, PollerAssumption
        <5>2. Kept[p] <= cursor * Size /\ ~(first <= cursor * Size)
          BY <3>3, <4>2, <4>4 DEF Reached, Passed
        <5>3. Kept[p] \in Nat /\ first \in Nat
          BY <1>2, <3>3, <4>1
        <5>4. Kept[p] < first
          BY ONLY <5>1, <5>2, <5>3
        <5> QED BY <4>4, <5>4
      <4>5. CASE kind = "logentries"
        <5>1. Stamp(Kept[p]) <= cursor /\ ~(log[first].at < cursor)
          BY <3>3, <4>1, <4>5 DEF PollInv, KeptReached, Passed
        <5>2. Stamp(Kept[p]) \in Nat /\ log[first].at \in Nat
          BY <1>2, <3>3, <4>1, TimesAre DEF Stamp
        <5>3. Stamp(Kept[p]) <= log[first].at
          BY ONLY <1>2, <5>1, <5>2
        <5> QED BY <4>5, <5>3
      <4> QED BY <1>2, <2>2, <4>3, <4>4, <4>5 DEF PollTyped
    <3>5. \A k, l \in 1 .. Len(BufferedEvents) : k < l => BufferedEvents[k] < BufferedEvents[l]
      <4> SUFFICES ASSUME NEW k \in 1 .. Len(BufferedEvents), NEW l \in 1 .. Len(BufferedEvents), k < l
                   PROVE  BufferedEvents[k] < BufferedEvents[l]
        OBVIOUS
      <4>1. BufferedEvents[k] = f + k - 1 /\ BufferedEvents[l] = f + l - 1
        BY <3>1
      <4> QED BY <1>3, <3>3, <4>1
    <3>6. \A k, l \in 1 .. Len(BufferedEvents) : k < l => Fits(BufferedEvents[k], BufferedEvents[l])
      BY <1>2, <2>2, <3>5 DEF PollTyped
    <3> QED BY <3>4, <3>6
  <2> QED BY <2>1, <2>2
<1> HIDE DEF u, Fits
<1>6. ASSUME NEW k \in 2 .. Len(u) PROVE Fits(u[k - 1], u[k])
  <2>1. CASE k <= p
    <3>1. u[k - 1] = Kept[k - 1] /\ u[k] = Kept[k] /\ k \in 2 .. p
      BY <1>3, <2>1
    <3> QED BY <1>4, <3>1
  <2>2. CASE k = p + 1
    <3>1. p # 0 /\ u[k - 1] = Kept[p]
      BY <1>3, <2>2
    <3>2. u[k] = first
      BY <1>3, <2>2
    <3> QED BY <1>5, <3>1, <3>2
  <2>3. CASE k > p + 1
    <3>1. k \in p + 1 .. Len(u) /\ k - 1 \in p + 1 .. Len(u)
      BY <1>3, <2>3
    <3>2. k - p \in 1 .. Len(BufferedEvents) /\ k - 1 - p \in 1 .. Len(BufferedEvents) /\ k - 1 - p < k - p
      BY <1>3, <3>1
    <3>3. u[k] = BufferedEvents[k - p] /\ u[k - 1] = BufferedEvents[k - 1 - p]
      BY <1>3, <3>1
    <3> QED BY <1>5, <3>2, <3>3
  <2> QED BY <1>3, <2>1, <2>2, <2>3
<1>7. \A k \in 2 .. Len(u) : Fits(u[k - 1], u[k])
  BY <1>6
<1>8. Kept' = u
  BY <1>1 DEF u
<1> QED BY <1>1, <1>7, <1>8 DEF EventsInOrder, Fits, Second, Stamp

\* BufferEvents keeps the invariant.
LEMMA BufferKeeps == ASSUME PollInv, BufferEvents PROVE PollInv'
<1>1. /\ UNCHANGED <<kind, order, bufferSize, log, now, searched, polled>>
      /\ eventBuffer = << >> /\ gpc = "answered"
      /\ eventBuffer' = BufferedEvents /\ cursor' = Advanced /\ gpc' = "take" /\ answer' = << >>
      /\ Events' = Events /\ Straight' = Straight /\ (~Excused' => ~Excused)
      /\ ~Excused' => ~Misleading
      /\ Kept = polled /\ Kept' = polled \o BufferedEvents /\ Kept' \in Seq(Events)
      /\ Range(Kept') = Range(Kept) \cup Range(BufferedEvents)
  BY BufferFrame
<1>2. /\ PollTyped /\ Kept \in Seq(Events) /\ Len(log) \in Nat /\ Events = 1 .. Len(log)
      /\ searched \in 0 .. Len(log) /\ cursor \in Nat /\ Advanced \in Nat
      /\ Straight /\ kind # "logentries" => cursor <= Advanced
  BY <1>1, KeptIs, CursorTyped, PollerAssumption DEF PollInv, PollTyped, PollTypeOK
<1>3. /\ BufferedEvents \in Seq(Events) /\ Len(BufferedEvents) \in Nat
      /\ BufferedEvents = << >> => answer = << >> \/ Len(answer) > bufferSize
      /\ BufferedEvents # << >> => Len(BufferedEvents) # 0 /\ LastBuffered = BufferedEvents[Len(BufferedEvents)]
      /\ Range(BufferedEvents) = {BufferedEvents[k] : k \in 1 .. Len(BufferedEvents)}
  BY <1>2, BufferedIs DEF Range
<1>4. PollTyped' /\ InTime'
  BY BufferTyped, BufferInTime
<1>5. Fetching'
  BY <1>1 DEF PollInv, Fetching
<1>6. \A i \in Events : /\ Straight /\ Reached(i) => Reached(i)'
                        /\ Second(i)' = Second(i) /\ Stamp(i)' = Stamp(i) /\ Late(i)' = Late(i)
  <2>1. \A i \in Events : Second(i) \in Nat
    BY <1>2, SecondsAre
  <2>2. \A i : Second(i)' = Second(i) /\ Stamp(i)' = Stamp(i) /\ Late(i)' = Late(i)
    BY <1>1 DEF Second, Stamp, Late
  <2>3. ASSUME NEW i \in Events, Straight, Reached(i) PROVE Reached(i)'
    <3>1. CASE kind = "loggly"
      <4>1. cursor' \in Nat /\ cursor <= cursor'
        BY <1>1, <1>2, <2>3, <3>1
      <4>2. \A a, b \in Nat : a <= b => a * Size <= b * Size /\ a * Size \in Nat /\ b * Size \in Nat
        BY Multiplied, PollerAssumption
      <4>3. cursor * Size <= cursor' * Size /\ cursor * Size \in Nat /\ cursor' * Size \in Nat
        BY ONLY <1>2, <4>1, <4>2
      <4> QED BY <1>1, <1>2, <2>3, <3>1, <4>3 DEF Reached
    <3>2. CASE kind = "papertrail"
      BY <1>1, <1>2, <2>3, <3>2 DEF Reached
    <3>3. CASE kind = "logentries"
      BY <1>1, <3>3 DEF Reached
    <3>4. CASE kind = "postgres"
      <4>1. Second(i) <= cursor /\ cursor <= cursor' /\ cursor' \in Nat
        BY <1>1, <1>2, <2>3, <3>4 DEF Reached
      <4>2. Second(i)' <= cursor'
        BY <1>2, <2>1, <2>2, <4>1
      <4> QED BY <1>1, <3>4, <4>2 DEF Reached
    <3> QED BY <1>2, <3>1, <3>2, <3>3, <3>4 DEF PollTyped
  <2> QED BY <2>2, <2>3
<1>7. CASE BufferedEvents = << >>
  <2>1. Kept' = Kept /\ Range(Kept') = Range(Kept) /\ ((Kept # << >>)' <=> Kept # << >>)
    BY <1>1, <1>2, <1>3, <1>7 DEF Range
  <2>2. ASSUME ~Excused' PROVE kind # "loggly"
    <3> SUFFICES ASSUME kind = "loggly" PROVE FALSE
      OBVIOUS
    <3>1. ~(Len(answer) < Size) /\ ~(Len(answer) > bufferSize)
      BY <1>1, <2>2 DEF Misleading
    <3> QED BY <1>3, <1>7, <3>1, PollerAssumption
  <2>3. ASSUME kind # "loggly" PROVE cursor' = cursor /\ \A i : Passed(i)' = Passed(i)
    <3>1. cursor' = cursor
      BY <1>1, <1>2, <1>7, <2>3, AdvancedIs
    <3> QED BY <1>1, <3>1 DEF Passed, Second
  <2>4. FullPages'
    BY <1>1, <2>2 DEF FullPages
  <2>5. NoneSkipped'
    BY <1>1, <1>6, <2>1, <2>2, <2>3 DEF PollInv, NoneSkipped
  <2>6. KeptReached'
    <3>1. Straight => \A i \in Range(Kept) : Reached(i)'
      <4>1. \A i \in Range(Kept) : i \in Events
        BY <1>2 DEF Range
      <4>2. Straight => \A i \in Range(Kept) : Reached(i)
        BY DEF PollInv, KeptReached
      <4> QED BY <1>6, <4>1, <4>2
    <3>2. ASSUME kind = "logentries", Kept # << >> PROVE Stamp(Kept[Len(Kept)])' <= cursor'
      <4>1. Stamp(Kept[Len(Kept)]) <= cursor /\ cursor' = cursor
        BY <2>3, <3>2 DEF PollInv, KeptReached
      <4> QED BY <1>1, <2>1, <4>1 DEF Stamp
    <3> QED BY <1>1, <2>1, <3>1, <3>2 DEF KeptReached
  <2>7. EventsInOrder'
    BY <1>1, <2>1 DEF PollInv, EventsInOrder, Second, Stamp
  <2> QED BY <1>4, <1>5, <2>4, <2>5, <2>6, <2>7 DEF PollInv
<1>8. CASE BufferedEvents # << >> /\ ~Straight
  <2>1. order # "asc" /\ kind \in {"loggly", "postgres"} /\ Excused'
    BY <1>1, <1>2, <1>8 DEF Straight, Excused, PollTyped
  <2>2. FullPages' /\ NoneSkipped' /\ KeptReached'
    BY <1>1, <1>8, <2>1 DEF FullPages, NoneSkipped, KeptReached
  <2>3. EventsInOrder'
    BY <1>1, <2>1 DEF EventsInOrder
  <2> QED BY <1>4, <1>5, <2>2, <2>3 DEF PollInv
<1>9. CASE BufferedEvents # << >> /\ Straight
  <2>1. /\ \A i \in Range(BufferedEvents) : i \in 1 .. searched /\ Reached(i)'
        /\ ~Excused' => \A i \in Events :
             Passed(i)' /\ ~Late(i) => Passed(i) \/ i \in Range(BufferedEvents)
        /\ ~Excused' /\ kind = "loggly" => (cursor + 1) * Size <= searched
    BY <1>9, BufferMoves
  <2>2. FullPages'
    <3>1. kind = "loggly" => cursor' = cursor + 1
      BY <1>1, <1>2, AdvancedIs
    <3>2. (cursor + 1) * Size \in Nat
      BY <1>2, Multiplied, PollerAssumption
    <3> QED BY <1>1, <1>2, <2>1, <3>1, <3>2 DEF FullPages
  <2>3. KeptReached'
    <3>1. \A i \in Range(Kept) : i \in Events /\ Reached(i)
      BY <1>2, <1>9 DEF PollInv, KeptReached, Range
    <3>2. \A i \in Range(Kept') : Reached(i)'
      BY <1>1, <1>6, <1>9, <2>1, <3>1
    <3>3. ASSUME kind = "logentries" PROVE Stamp(Kept[Len(Kept)])' <= cursor'
      <4>1. (Kept[Len(Kept)])' = LastBuffered
        <5>1. (Kept[Len(Kept)])' = Kept'[Len(Kept')]
          OBVIOUS
        <5> QED BY <1>1, <1>2, <1>3, <1>9, <5>1
      <4>2. Stamp(LastBuffered) <= Advanced
        BY <1>1, <1>9, <3>3, LineInTime
      <4>3. Stamp(Kept[Len(Kept)])' = Stamp(LastBuffered)
        BY <1>1, <4>1 DEF Stamp
      <4> QED BY <1>1, <4>2, <4>3
    <3> QED BY <1>1, <3>2, <3>3 DEF KeptReached
  <2>4. NoneSkipped'
    <3>1. ASSUME ~Excused', NEW i \in Events, Passed(i)', ~Late(i)' PROVE i \in Range(Kept')
      <4>1. Passed(i) \/ i \in Range(BufferedEvents)
        BY <1>6, <2>1, <3>1
      <4>2. Passed(i) => i \in Range(Kept)
        BY <1>1, <1>6, <3>1 DEF PollInv, NoneSkipped
      <4> QED BY <1>1, <4>1, <4>2
    <3> QED BY <1>1, <3>1 DEF NoneSkipped
  <2>5. EventsInOrder'
    BY <1>9, BufferInOrder
  <2> QED BY <1>4, <1>5, <2>2, <2>3, <2>4, <2>5 DEF PollInv
<1> QED BY <1>7, <1>8, <1>9

\* Every step keeps the invariant.
LEMMA PollInvKept == PollInv /\ [PollNext]_pollVars => PollInv'
BY IdleKeeps, TakeKeeps, SearchKeeps, TickKeeps, LogEventKeeps, BufferKeeps DEF PollNext, Poll

\* An answer of which nothing new is kept.
LEMMA PollAdvances == PollInv => Advances
<1> SUFFICES ASSUME PollInv, gpc = "answered", ~Excused, bufferSize # 0,
                    Range(BufferedEvents) \subseteq Range(Kept)
             PROVE  \/ \A i \in 1 .. searched : i \in Range(Kept) \/ Late(i)
                    \/ /\ Len(BufferedEvents) \in {Size, bufferSize}
                       /\ \/ kind = "logentries"
                          \/ kind = "postgres" /\ \A i \in Range(BufferedEvents) : Second(i) = cursor
  BY DEF Advances
<1>1. /\ PollTyped /\ Kept \in Seq(Events) /\ Len(log) \in Nat /\ Events = 1 .. Len(log)
      /\ searched \in 0 .. Len(log) /\ 1 .. searched \subseteq Events /\ cursor \in Nat
      /\ answer \in Seq(Events) /\ Len(answer) \in Nat /\ DOMAIN answer = 1 .. Len(answer)
      /\ bufferSize \in Nat /\ Straight
  BY KeptIs, PollerAssumption DEF PollInv, PollTyped, PollTypeOK, Straight, Excused
<1>2. /\ BufferedEvents \in Seq(Events) /\ Len(BufferedEvents) \in Nat
      /\ Len(BufferedEvents) <= Len(answer)
      /\ \A k \in 1 .. Len(BufferedEvents) : BufferedEvents[k] = answer[k] /\ BufferedEvents[k] \in Events
      /\ Range(BufferedEvents) = {BufferedEvents[k] : k \in 1 .. Len(BufferedEvents)}
  BY <1>1, BufferedIs DEF Range
<1>3. \/ BufferedEvents = answer /\ Len(answer) = Size
      \/ BufferedEvents = answer /\ Len(answer) # Size
      \/ Len(BufferedEvents) = bufferSize
  <2>1. CASE Len(answer) <= bufferSize
    BY <1>1, <2>1, BufferedIs
  <2>2. CASE ~(Len(answer) <= bufferSize)
    <3>1. BufferedEvents = [k \in 1 .. bufferSize |-> answer[k]]
      BY <1>1, <2>2 DEF BufferedEvents
    <3>2. bufferSize \in Nat /\ \A k \in 1 .. bufferSize : answer[k] \in Events
      BY <1>1, <2>2
    <3>3. Len(BufferedEvents) = bufferSize
      BY <3>1, <3>2
    <3> QED BY <3>3
  <2> QED BY <2>1, <2>2
<1>4. \A i \in 1 .. searched : Passed(i) /\ ~Late(i) => i \in Range(Kept)
  BY <1>1 DEF PollInv, NoneSkipped
<1>5. \A i \in Range(BufferedEvents) : Reached(i) /\ i \in Events
  BY <1>1, <1>2 DEF PollInv, KeptReached
<1>6. CASE kind = "postgres"
  <2>1. RowsOf(answer, searched)
    BY <1>1, <1>6 DEF PollInv, Fetching, AnswerOf
  <2>2. \A i \in Range(BufferedEvents) : Second(i) = cursor
    <3> SUFFICES ASSUME NEW i \in Range(BufferedEvents) PROVE Second(i) = cursor
      OBVIOUS
    <3>1. Second(i) <= cursor /\ Second(i) \in Nat
      BY <1>1, <1>5, <1>6, SecondsAre DEF Reached
    <3>2. PICK k \in 1 .. Len(BufferedEvents) : i = BufferedEvents[k]
      BY <1>2
    <3>3. k \in 1 .. Len(answer) /\ i = answer[k]
      BY <1>1, <1>2, <3>2
    <3>4. cursor <= Second(i)
      BY <2>1, <3>3 DEF RowsOf
    <3> QED BY <1>1, <3>1, <3>4
  <2>3. CASE Len(BufferedEvents) \in {Size, bufferSize}
    BY <1>6, <2>2, <2>3
  <2>4. CASE BufferedEvents = answer /\ Len(answer) # Size
    <3>1. ASSUME NEW i \in 1 .. searched PROVE i \in Range(Kept) \/ Late(i)
      <4>1. Second(i) \in Nat
        BY <1>1, SecondsAre
      <4>2. CASE Second(i) < cursor
        BY <1>4, <1>6, <4>2 DEF Passed
      <4>3. CASE ~(Second(i) < cursor)
        <5>1. cursor <= Second(i)
          BY <1>1, <4>1, <4>3
        <5>2. i \in Range(answer)
          BY <2>1, <2>4, <5>1 DEF RowsOf
        <5> QED BY <2>4, <5>2
      <4> QED BY <4>2, <4>3
    <3> QED BY <3>1
  <2> QED BY <1>3, <2>3, <2>4
<1>7. CASE kind # "postgres"
  <2>1. PICK f \in Nat \ {0} :
          /\ \A k \in 1 .. Len(answer) : answer[k] = f + k - 1 /\ answer[k] <= searched
          /\ Len(answer) = Size \/ f + Len(answer) > searched
          /\ \A i \in 1 .. searched : i < f <=> Passed(i)
    BY <1>1, <1>7 DEF PollInv, Fetching, PageOf, AnswerOf
  <2>2. ~Late(f) /\ \A i : ~Late(i)
    BY <1>7 DEF Late
  <2>3. CASE BufferedEvents = answer /\ Len(answer) # Size
    <3>1. ASSUME NEW i \in 1 .. searched PROVE i \in Range(Kept)
      <4>1. CASE i < f
        BY <1>4, <2>1, <2>2, <4>1
      <4>2. CASE ~(i < f)
        <5>1. i - f + 1 \in 1 .. Len(answer) /\ f + (i - f + 1) - 1 = i
          BY <1>1, <2>1, <2>3, <4>2
        <5>2. answer[i - f + 1] = i
          BY <2>1, <5>1
        <5>3. i \in Range(BufferedEvents)
          BY <1>1, <2>3, <5>1, <5>2 DEF Range
        <5> QED BY <5>3
      <4> QED BY <4>1, <4>2
    <3> QED BY <3>1
  <2>4. CASE Len(BufferedEvents) \in {Size, bufferSize}
    <3>1. kind = "logentries"
      <4>1. 1 \in 1 .. Len(BufferedEvents) /\ 1 \in 1 .. Len(answer)
        BY <1>1, <1>2, <2>4, PollerAssumption
      <4>2. BufferedEvents[1] = f + 1 - 1 /\ f + 1 - 1 <= searched /\ BufferedEvents[1] \in Range(BufferedEvents)
        BY <1>2, <2>1, <4>1
      <4>3. BufferedEvents[1] = f /\ f \in 1 .. searched
        BY <1>1, <4>2
      <4>4. ~Passed(f) /\ Reached(f)
        <5>1. ~(f < f)
          BY <2>1
        <5> QED BY <1>5, <2>1, <4>2, <4>3, <5>1
      <4> QED BY <1>1, <1>7, <4>4 DEF Passed, Reached, PollTyped
    <3> QED BY <2>4, <3>1
  <2> QED BY <1>3, <2>3, <2>4
<1> QED BY <1>6, <1>7

\* For every log, whatever the times of its messages and the order in which
\* they came, every page, answer and buffer size: a poller's cursor passes no
\* event that was not kept but a late row, events come in the order of what the
\* cursor counts, and a search that brings nothing new means that nothing new is
\* there, or that the cursor's own second, or the lines since the cursor's
\* time, fill an answer or the buffer; with the exceptions that Misleading and
\* Excused state (the pollers' Search, BufferEvents and Generate).
THEOREM PollersKeepUp == PollSpec => []PollsAll
<1>1. PollInv => PollsAll
  BY PollAdvances DEF PollInv, PollTyped, PollsAll
<1> QED BY PollStarts, PollInvKept, <1>1, PTL DEF PollSpec

-----------------------------------------------------------------------------
(* S3: the inductive invariant                                             *)

\* The keys of the page that are still to come, and the one g.cur is at.
YetToRead == IF page = Nil THEN {} ELSE {page[i] : i \in cur + 2 .. Len(page)}
Hand == page[cur + 1]
InHand == s3pc \in {"get", "read"} /\ s3end # "panic"

S3Typed ==
  /\ S3TypeOK
  /\ dec = Nil \/ dec \in Keys \X (0 .. ObjectMsgs) \X BOOLEAN
  /\ read \in Seq(Keys \X (1 .. ObjectMsgs))

\* No object is of a file that was not rotated yet.
UploadOrder ==
  /\ Uploaded
  /\ \A k \in Keys : bucket[k].file <= uploads

\* The page is in order and behind it comes the marker; where the generator
\* is in it.
Paging ==
  /\ page # Nil => /\ Len(page) <= ListMax /\ cur <= Len(page)
                   /\ \A i, j \in DOMAIN page : i < j => page[i] < page[j]
                   /\ \A i \in DOMAIN page : page[i] <= marker
  /\ page = Nil => s3pc \in {"next", "closed"}
  /\ InHand => cur >= 0 /\ cur < Len(page)
  /\ s3pc = "new" => page = << >> /\ cur = -1 /\ marker = 0 /\ read = << >>
  /\ s3pc \in {"new", "next", "get"} => dec = Nil
  /\ s3end = "eof" => s3pc = "next"

\* What the marker has passed is done with, on the page, or in hand.
Covered ==
  s3pc # "closed" =>
    \A k \in Keys : k <= marker => Handled(k) \/ k \in YetToRead \/ (InHand /\ k = Hand)

\* What is still to come comes after what was read.
ReadInOrder ==
  /\ \A i, j \in DOMAIN read : i < j =>
       read[i][1] < read[j][1] \/ (read[i][1] = read[j][1] /\ read[i][2] < read[j][2])
  /\ \A i \in DOMAIN read : read[i][1] <= marker /\ \A k \in YetToRead : read[i][1] < k
  /\ InHand /\ s3pc = "get" => \A i \in DOMAIN read : read[i][1] < Hand

\* The object that is open: it was verified, and its messages that were read
\* are the first.
ObjectOpened ==
  s3pc = "read" =>
    /\ dec # Nil /\ dec[1] = Hand /\ Seen(Hand) = 1 .. dec[2]
    /\ \A i \in DOMAIN read : read[i][1] < Hand \/ (read[i][1] = Hand /\ read[i][2] <= dec[2])
    /\ bucket[Hand].is \notin {"bad", "garbled"} /\ (bucket[Hand].is = "unsigned" => allow)

S3Inv == /\ S3Typed /\ UploadOrder /\ Paging /\ Covered /\ ReadInOrder
         /\ ObjectOpened /\ EndsRight /\ OnlyVerified

-----------------------------------------------------------------------------
\* The bucket, the page and what was read, with their domains.
LEMMA BucketIs ==
  ASSUME S3Inv
  PROVE  /\ Len(bucket) \in Nat /\ Keys = 1 .. Len(bucket)
         /\ \A k \in Keys : bucket[k] \in [file : 0 .. MaxObjects, is : Flaws \cup {"good"}]
         /\ cur \in Int /\ cur >= -1 /\ marker \in Nat /\ marker <= Len(bucket)
         /\ Len(read) \in Nat /\ DOMAIN read = 1 .. Len(read)
         /\ \A i \in DOMAIN read : read[i] \in Keys \X (1 .. ObjectMsgs)
<1>1. S3TypeOK /\ read \in Seq(Keys \X (1 .. ObjectMsgs))
  BY DEF S3Inv, S3Typed
<1>2. /\ Len(bucket) \in Nat /\ Keys = 1 .. Len(bucket)
      /\ \A k \in Keys : bucket[k] \in [file : 0 .. MaxObjects, is : Flaws \cup {"good"}]
  <2> DEFINE Objects == [file : 0 .. MaxObjects, is : Flaws \cup {"good"}]
  <2>1. bucket \in Seq(Objects)
    BY <1>1 DEF S3TypeOK
  <2> HIDE DEF Objects
  <2>2. /\ Len(bucket) \in Nat /\ DOMAIN bucket = 1 .. Len(bucket)
        /\ \A k \in DOMAIN bucket : bucket[k] \in Objects
    BY <2>1
  <2> QED BY <2>2 DEF Keys, Objects
<1>3. cur \in Int /\ cur >= -1 /\ marker \in Nat /\ marker <= Len(bucket)
  BY <1>1, <1>2, S3Assumption DEF S3TypeOK
<1>4. /\ Len(read) \in Nat /\ DOMAIN read = 1 .. Len(read)
      /\ \A i \in DOMAIN read : read[i] \in Keys \X (1 .. ObjectMsgs)
  BY <1>1
<1> QED BY <1>2, <1>3, <1>4

\* A page and its keys.
LEMMA ListPageIs ==
  ASSUME S3Inv, page # Nil
  PROVE  /\ page \in Seq(Keys) /\ Len(page) \in Nat /\ DOMAIN page = 1 .. Len(page)
         /\ \A i \in 1 .. Len(page) : page[i] \in Keys
         /\ \A i, j \in 1 .. Len(page) : i < j => page[i] < page[j]
         /\ \A i \in 1 .. Len(page) : page[i] <= marker
         /\ cur <= Len(page) /\ Len(page) <= ListMax
<1>1. page \in Seq(Keys)
  BY DEF S3Inv, S3Typed, S3TypeOK
<1>2. /\ Len(page) \in Nat /\ DOMAIN page = 1 .. Len(page)
      /\ \A i \in 1 .. Len(page) : page[i] \in Keys
  BY <1>1
<1> QED BY <1>1, <1>2 DEF S3Inv, Paging

\* The object in hand.
LEMMA HandIs ==
  ASSUME S3Inv, InHand
  PROVE  /\ page # Nil /\ cur + 1 \in 1 .. Len(page) /\ Hand \in Keys
         /\ Hand <= marker /\ \A k \in YetToRead : Hand < k
<1>1. page # Nil /\ cur >= 0 /\ cur < Len(page)
  BY DEF S3Inv, Paging, InHand
<1>2. cur \in Int /\ Len(page) \in Nat
  BY <1>1, BucketIs, ListPageIs
<1>3. cur + 1 \in 1 .. Len(page)
  BY <1>1, <1>2
<1>4. Hand \in Keys /\ Hand <= marker
  BY <1>1, <1>3, ListPageIs DEF Hand
<1>5. ASSUME NEW i \in cur + 2 .. Len(page) PROVE Hand < page[i]
  <2>1. i \in 1 .. Len(page) /\ cur + 1 < i
    BY <1>1, <1>2
  <2> QED BY <1>1, <1>3, <2>1, ListPageIs DEF Hand
<1> QED BY <1>1, <1>3, <1>4, <1>5 DEF YetToRead

\* What List answers.
LEMMA ListedIs ==
  ASSUME S3Inv, NEW s \in SeqOf(After, ListMax), Listed(s)
  PROVE  /\ s \in Seq(Keys) /\ Len(s) \in 0 .. ListMax /\ DOMAIN s = 1 .. Len(s) /\ s # Nil
         /\ \A i \in 1 .. Len(s) : s[i] \in Keys /\ s[i] > marker
         /\ \A i, j \in 1 .. Len(s) : i < j => s[i] < s[j]
         /\ \A k \in Keys, i \in 1 .. Len(s) : k > marker /\ k <= s[i] =>
              k \in Range(s) \/ bucket[k].is = "deleted"
<1>1. PICK n \in 0 .. ListMax : s \in [1 .. n -> After]
  BY DEF SeqOf
<1>2. n \in Nat /\ After \subseteq Keys /\ \A k \in After : k > marker
  BY S3Assumption DEF After
<1>3. s \in Seq(Keys) /\ Len(s) = n /\ DOMAIN s = 1 .. n
  BY <1>1, <1>2
<1>4. \A i \in 1 .. n : s[i] \in After /\ s[i] \in Keys /\ s[i] > marker
  BY <1>1, <1>2
<1>5. s # Nil
  <2>1. Keys \subseteq Nat \ {0}
    BY BucketIs
  <2> SUFFICES ASSUME s = Nil PROVE FALSE
    OBVIOUS
  <2>2. Len(Nil) = 3 /\ Nil[1] = 0
    BY DEF Nil
  <2> QED BY <1>3, <1>4, <2>1, <2>2
<1>6. ASSUME NEW k \in Keys, NEW i \in 1 .. n, k > marker, k <= s[i], k \notin Range(s)
      PROVE  bucket[k].is = "deleted"
  <2>1. ~(s[i] < k)
    BY <1>4, <1>6, BucketIs
  <2>2. k \notin After
    BY <1>3, <1>6, <2>1 DEF Listed
  <2> QED BY <1>6, <2>2 DEF After
<1> QED BY <1>1, <1>3, <1>4, <1>5, <1>6 DEF Listed

\* What updateList takes from it.
LEMMA TakeListIs ==
  ASSUME S3Inv, TakeList
  PROVE  /\ page' \in Seq(Keys) /\ Len(page') \in 0 .. ListMax
         /\ DOMAIN page' = 1 .. Len(page') /\ page' # Nil
         /\ \A i, j \in 1 .. Len(page') : i < j => page'[i] < page'[j]
         /\ \A i \in 1 .. Len(page') : page'[i] \in Keys /\ page'[i] > marker /\ page'[i] <= marker'
         /\ marker' \in Nat /\ marker <= marker' /\ marker' <= Len(bucket)
         /\ \A k \in Keys : k > marker /\ k <= marker' =>
              (\E i \in 1 .. Len(page') : k = page'[i]) \/ bucket[k].is = "deleted"
<1>1. PICK s \in SeqOf(After, ListMax) :
        /\ Listed(s) /\ page' = s
        /\ marker' = IF s = << >> THEN marker ELSE LastKey(s)
  BY DEF TakeList
<1>2. /\ s \in Seq(Keys) /\ Len(s) \in 0 .. ListMax /\ DOMAIN s = 1 .. Len(s) /\ s # Nil
      /\ \A i \in 1 .. Len(s) : s[i] \in Keys /\ s[i] > marker
      /\ \A i, j \in 1 .. Len(s) : i < j => s[i] < s[j]
      /\ \A k \in Keys, i \in 1 .. Len(s) : k > marker /\ k <= s[i] =>
           k \in Range(s) \/ bucket[k].is = "deleted"
  BY <1>1, ListedIs
<1>3. /\ Keys = 1 .. Len(bucket) /\ Len(bucket) \in Nat /\ Len(s) \in Nat
      /\ marker \in Nat /\ marker <= Len(bucket)
  BY <1>2, BucketIs, S3Assumption
<1>4. \A k \in Range(s) : \E i \in 1 .. Len(s) : k = s[i]
  BY <1>2 DEF Range
<1>5. CASE s = << >>
  <2>1. marker' = marker /\ Len(s) = 0
    BY <1>1, <1>5
  <2>2. /\ \A i \in 1 .. Len(s) : s[i] \in Keys /\ s[i] > marker /\ s[i] <= marker'
        /\ marker' \in Nat /\ marker <= marker' /\ marker' <= Len(bucket)
        /\ \A k \in Keys : ~(k > marker /\ k <= marker')
    BY <1>3, <2>1
  <2> QED BY <1>1, <1>2, <2>2
<1>6. CASE s # << >>
  <2>1. Len(s) \in 1 .. Len(s) /\ marker' = s[Len(s)]
    BY <1>1, <1>2, <1>6 DEF LastKey
  <2>2. marker' \in Keys /\ marker' > marker
    BY <1>2, <2>1
  <2>3. \A i \in 1 .. Len(s) : s[i] <= marker'
    <3> SUFFICES ASSUME NEW i \in 1 .. Len(s) PROVE s[i] <= s[Len(s)]
      BY <2>1
    <3>1. i = Len(s) \/ i < Len(s)
      BY <1>3
    <3>2. s[i] \in Int /\ s[Len(s)] \in Int
      BY <1>2, <1>3, <2>1
    <3>3. i < Len(s) => s[i] < s[Len(s)]
      BY <1>2, <2>1
    <3>4. CASE i = Len(s)
      BY <3>2, <3>4
    <3>5. CASE i < Len(s)
      BY <3>2, <3>3, <3>5
    <3> QED BY <3>1, <3>4, <3>5
  <2>4. \A k \in Keys : k > marker /\ k <= marker' =>
          (\E i \in 1 .. Len(s) : k = s[i]) \/ bucket[k].is = "deleted"
    BY <1>2, <1>4, <2>1
  <2>5. marker' \in Nat /\ marker <= marker' /\ marker' <= Len(bucket)
    BY <1>3, <2>2
  <2> QED BY <1>1, <1>2, <2>3, <2>4, <2>5
<1> QED BY <1>5, <1>6

-----------------------------------------------------------------------------
\* What happens in the bucket: objects come behind the others, and what an
\* object is changes only for a class that is ignored or for good.
LEMMA BucketChanges ==
  ASSUME S3Inv, UNCHANGED <<getVars, allow>>, S3TypeOK', UploadOrder',
         Len(bucket) <= Len(bucket'),
         \A k \in Keys : \/ bucket'[k].is = bucket[k].is
                         \/ bucket[k].is # "deleted" /\ bucket'[k].is \in {"glacier", "deleted"}
  PROVE  S3Inv'
<1>1. UNCHANGED <<page, truncated, marker, cur, dec, s3pc, read, passed, s3end, allow>>
  BY DEF getVars, list
<1>2. /\ Keys = 1 .. Len(bucket) /\ Len(bucket) \in Nat /\ Len(read) \in Nat
      /\ marker \in Nat /\ marker <= Len(bucket) /\ DOMAIN read = 1 .. Len(read)
      /\ \A i \in DOMAIN read : read[i] \in Keys \X (1 .. ObjectMsgs)
  BY BucketIs
<1>3. Keys' = 1 .. Len(bucket') /\ Len(bucket') \in Nat
  <2> DEFINE Objects == [file : 0 .. MaxObjects, is : Flaws \cup {"good"}]
  <2>1. bucket' \in Seq(Objects)
    BY DEF S3TypeOK
  <2> HIDE DEF Objects
  <2> QED BY <2>1 DEF Keys
<1>4. Keys \subseteq Keys'
  BY <1>2, <1>3
<1>5. S3Typed'
  <2>1. dec' = Nil \/ dec' \in Keys' \X (0 .. ObjectMsgs) \X BOOLEAN
    BY <1>1, <1>4 DEF S3Inv, S3Typed
  <2>2. read \in Seq(Keys \X (1 .. ObjectMsgs))
    BY DEF S3Inv, S3Typed
  <2>3. Keys \X (1 .. ObjectMsgs) \subseteq Keys' \X (1 .. ObjectMsgs)
    BY <1>4
  <2> DEFINE S == Keys \X (1 .. ObjectMsgs)
             T == Keys' \X (1 .. ObjectMsgs)
  <2>4. read \in Seq(S) /\ S \subseteq T
    BY <2>2, <2>3
  <2> HIDE DEF S, T
  <2>5. read \in Seq(T)
    BY <2>4
  <2>6. read' \in Seq(T)
    BY <1>1, <2>5
  <2> USE DEF T
  <2> QED BY <2>1, <2>6 DEF S3Typed
<1>6. Paging' /\ ReadInOrder' /\ EndsRight'
  <2>1. Paging'
    BY <1>1 DEF S3Inv, Paging, InHand, Nil
  <2>2. InHand' = InHand /\ Hand' = Hand /\ YetToRead' = YetToRead
    BY <1>1 DEF InHand, Hand, YetToRead, Nil
  <2>3. ReadInOrder'
    BY <1>1, <2>2 DEF S3Inv, ReadInOrder
  <2>4. EndsRight'
    BY <1>1 DEF S3Inv, EndsRight, Nil
  <2> QED BY <2>1, <2>3, <2>4
<1>7. \A k \in Keys : Handled(k) => Handled(k)'
  BY <1>1 DEF Handled, Seen
<1>8. Covered'
  <2> SUFFICES ASSUME s3pc # "closed", NEW k \in Keys', k <= marker
               PROVE  (Handled(k) \/ k \in YetToRead \/ (InHand /\ k = Hand))'
    BY <1>1 DEF Covered
  <2>1. k \in Keys
    BY <1>2, <1>3
  <2>2. Handled(k) \/ k \in YetToRead \/ (InHand /\ k = Hand)
    BY <2>1 DEF S3Inv, Covered
  <2>3. YetToRead' = YetToRead /\ InHand' = InHand /\ Hand' = Hand
    BY <1>1 DEF YetToRead, InHand, Hand
  <2> QED BY <1>7, <2>1, <2>2, <2>3
<1>9. OnlyVerified'
  <2> SUFFICES ASSUME NEW i \in DOMAIN read
               PROVE  /\ bucket'[read[i][1]].is \notin {"bad", "garbled"}
                      /\ bucket'[read[i][1]].is = "unsigned" => allow
    BY <1>1 DEF OnlyVerified
  <2>1. read[i][1] \in Keys
    BY <1>2
  <2>2. /\ bucket[read[i][1]].is \notin {"bad", "garbled"}
        /\ bucket[read[i][1]].is = "unsigned" => allow
    BY DEF S3Inv, OnlyVerified
  <2> QED BY <2>1, <2>2
<1>10. ObjectOpened'
  <2> SUFFICES ASSUME s3pc = "read" PROVE ObjectOpened'
    BY <1>1 DEF ObjectOpened
  <2>1. /\ dec # Nil /\ dec[1] = Hand /\ Seen(Hand) = 1 .. dec[2]
        /\ \A i \in DOMAIN read : read[i][1] < Hand \/ (read[i][1] = Hand /\ read[i][2] <= dec[2])
        /\ bucket[Hand].is \notin {"bad", "garbled"} /\ (bucket[Hand].is = "unsigned" => allow)
    BY DEF S3Inv, ObjectOpened
  <2>2. Hand \in Keys
    BY <2>1 DEF S3Inv, S3Typed
  <2>3. Hand' = Hand /\ Seen(Hand)' = Seen(Hand)
    BY <1>1 DEF Hand, Seen
  <2>4. bucket'[Hand].is \notin {"bad", "garbled"} /\ (bucket'[Hand].is = "unsigned" => allow)
    BY <2>1, <2>2
  <2> QED BY <1>1, <2>1, <2>3, <2>4 DEF ObjectOpened
<1> QED BY <1>5, <1>6, <1>8, <1>9, <1>10 DEF S3Inv

\* The types of the reader's variables do not change with the bucket's, and a
\* page of the smaller bucket is one of the larger.
LEMMA BucketTypes ==
  ASSUME S3Inv, UNCHANGED getVars, bucket' \in Seq([file : 0 .. MaxObjects, is : Flaws \cup {"good"}]),
         Len(bucket) <= Len(bucket'), uploads' \in 0 .. MaxObjects,
         refused' \subseteq 1 .. uploads', lastFile' \in 0 .. MaxObjects
  PROVE  S3TypeOK'
<1>1. UNCHANGED <<page, truncated, marker, cur, s3pc, s3end>>
  BY DEF getVars, list
<1>2. /\ Keys = 1 .. Len(bucket) /\ Len(bucket) \in Nat /\ marker \in Nat /\ marker <= Len(bucket)
  BY BucketIs
<1>3. Keys' = 1 .. Len(bucket') /\ Len(bucket') \in Nat
  <2> DEFINE Objects == [file : 0 .. MaxObjects, is : Flaws \cup {"good"}]
  <2>1. bucket' \in Seq(Objects)
    OBVIOUS
  <2> HIDE DEF Objects
  <2> QED BY <2>1 DEF Keys
<1>4. Keys \subseteq Keys' /\ marker' \in 0 .. Len(bucket')
  BY <1>1, <1>2, <1>3
<1>5. page' = Nil \/ page' \in Seq(Keys')
  <2>1. page = Nil \/ page \in Seq(Keys)
    BY DEF S3Inv, S3Typed, S3TypeOK
  <2> DEFINE K == Keys'
  <2>2. Keys \subseteq K
    BY <1>4
  <2> HIDE DEF K
  <2>3. page \in Seq(Keys) => page \in Seq(K)
    BY <2>2
  <2> USE DEF K
  <2> QED BY <1>1, <2>1, <2>3
<1> QED BY <1>1, <1>4, <1>5 DEF S3Inv, S3Typed, S3TypeOK

\* An object that is stored, whose file is the one that is uploaded or another
\* writer's.
LEMMA ObjectStored ==
  ASSUME S3Inv, UNCHANGED <<getVars, allow>>,
         NEW f \in {0, uploads'}, NEW is \in Flaws \cup {"good"},
         bucket' = Append(bucket, [file |-> f, is |-> is]),
         uploads' \in 0 .. MaxObjects, uploads <= uploads', f # 0 => uploads < f,
         refused' \subseteq 1 .. uploads', lastFile' \in 0 .. MaxObjects, refused \subseteq refused',
         \A g \in 1 .. uploads' : g <= uploads \/ g = f,
         lastFile' \in {lastFile, Len(bucket) + 1}
  PROVE  S3Inv'
<1> DEFINE Objects == [file : 0 .. MaxObjects, is : Flaws \cup {"good"}]
           o == [file |-> f, is |-> is]
<1>1. bucket \in Seq(Objects) /\ o \in Objects /\ uploads \in Nat /\ MaxObjects \in Nat
  BY S3Assumption DEF S3Inv, S3Typed, S3TypeOK
<1>2. Keys = 1 .. Len(bucket) /\ Len(bucket) \in Nat
  BY BucketIs
<1>0. uploads' \in Nat /\ f \in Nat /\ f <= uploads' /\ uploads <= uploads'
  <2>1. uploads' \in 0 .. MaxObjects /\ (f = 0 \/ f = uploads') /\ uploads <= uploads'
    OBVIOUS
  <2>2. uploads' \in Nat /\ f \in Nat /\ f <= uploads'
    BY <2>1, <1>1
  <2> QED BY <2>1, <2>2
<1> HIDE DEF Objects
<1>3. o.file = f /\ o.is = is /\ bucket' = Append(bucket, o)
  OBVIOUS
<1> HIDE DEF o
<1>4. /\ bucket' \in Seq(Objects) /\ Len(bucket') = Len(bucket) + 1
      /\ \A k \in 1 .. Len(bucket) : bucket'[k] = bucket[k]
      /\ bucket'[Len(bucket) + 1] = o
  BY <1>1, <1>3
<1>5. Keys' = 1 .. Len(bucket) + 1
  BY <1>2, <1>4 DEF Keys
<1>6. S3TypeOK'
  <2> USE DEF Objects
  <2> QED BY <1>2, <1>4, BucketTypes
<1>7. /\ Uploaded /\ \A k \in Keys : bucket[k].file <= uploads /\ bucket[k].file \in Int
  <2>1. \A k \in Keys : bucket[k].file \in 0 .. MaxObjects
    BY BucketIs
  <2>2. \A k \in Keys : bucket[k].file \in Int
    BY <1>1, <2>1
  <2> QED BY <2>2 DEF S3Inv, UploadOrder
<1>8. \A k \in Keys' : \/ k \in Keys /\ bucket'[k] = bucket[k]
                       \/ k = Len(bucket) + 1 /\ bucket'[k] = o
  BY <1>2, <1>4, <1>5
<1>9. \A k, l \in Keys' : k < l /\ bucket'[k].file # 0 /\ bucket'[l].file # 0
                            => bucket'[k].file < bucket'[l].file
  <2> SUFFICES ASSUME NEW k \in Keys', NEW l \in Keys', k < l,
                      bucket'[k].file # 0, bucket'[l].file # 0
               PROVE  bucket'[k].file < bucket'[l].file
    OBVIOUS
  <2>1. k \in Keys /\ bucket'[k] = bucket[k]
    BY <1>2, <1>5, <1>8
  <2>2. CASE l \in Keys /\ bucket'[l] = bucket[l]
    BY <1>7, <2>1, <2>2 DEF Uploaded
  <2>3. CASE l = Len(bucket) + 1 /\ bucket'[l] = o
    <3>1. bucket'[l].file = f /\ f # 0 /\ uploads < f
      BY <1>3, <2>3
    <3>2. bucket'[k].file <= uploads /\ bucket'[k].file \in Int
      BY <1>7, <2>1
    <3> DEFINE a == bucket'[k].file
               b == bucket'[l].file
    <3>3. a <= uploads /\ a \in Int /\ b = f /\ uploads < f
      BY <3>1, <3>2
    <3> HIDE DEF a, b
    <3>4. a < b
      BY ONLY <3>3, <1>1, <1>0
    <3> QED BY <3>4 DEF a, b
  <2> QED BY <1>8, <2>2, <2>3
<1>10. \A g \in 1 .. uploads' : g \in refused' \/ \E k \in Keys' : bucket'[k].file = g
  <2> SUFFICES ASSUME NEW g \in 1 .. uploads', g \notin refused'
               PROVE  \E k \in Keys' : bucket'[k].file = g
    OBVIOUS
  <2>1. CASE g = f
    <3>1. Len(bucket) + 1 \in Keys' /\ bucket'[Len(bucket) + 1].file = g
      BY <1>2, <1>3, <1>4, <1>5, <2>1
    <3> QED BY <3>1
  <2>2. CASE g # f
    <3>1. g \in 1 .. uploads /\ g \notin refused
      BY <1>1, <2>2
    <3>2. PICK k \in Keys : bucket[k].file = g
      BY <1>7, <3>1 DEF Uploaded
    <3>3. k \in Keys' /\ bucket'[k].file = g
      BY <1>2, <1>4, <1>5, <3>2
    <3> QED BY <3>3
  <2> QED BY <2>1, <2>2
<1>11. lastFile' \in Keys' \cup {0} \/ refused' # {}
  <2>1. lastFile \in Keys \cup {0} \/ refused # {}
    BY <1>7 DEF Uploaded
  <2>2. Keys \subseteq Keys' /\ Len(bucket) + 1 \in Keys'
    BY <1>2, <1>5
  <2> QED BY <2>1, <2>2
<1>12. ASSUME NEW k \in Keys' PROVE bucket'[k].file <= uploads'
  <2>1. CASE k \in Keys /\ bucket'[k] = bucket[k]
    <3> DEFINE a == bucket'[k].file
               u == uploads'
    <3>1. a <= uploads /\ a \in Int /\ uploads <= u /\ u \in Nat
      BY <1>0, <1>7, <2>1
    <3> HIDE DEF a, u
    <3>2. a <= u
      BY ONLY <3>1, <1>1
    <3> QED BY <3>2 DEF a, u
  <2>2. CASE bucket'[k] = o
    <3>1. bucket'[k].file = f /\ f <= uploads'
      BY <1>0, <1>3, <2>2
    <3> QED BY <3>1
  <2> QED BY <1>8, <2>1, <2>2
<1>13. UploadOrder'
  BY <1>9, <1>10, <1>11, <1>12 DEF UploadOrder, Uploaded
<1> QED BY <1>2, <1>4, <1>6, <1>13, BucketChanges

\* An upload that left no object, or none was made.
LEMMA NothingStored ==
  ASSUME S3Inv, UNCHANGED <<getVars, allow, bucket>>, uploads' = uploads + 1, uploads < MaxObjects,
         refused' = refused \cup {uploads + 1}, lastFile' \in 0 .. MaxObjects
  PROVE  S3Inv'
<1>1. /\ bucket \in Seq([file : 0 .. MaxObjects, is : Flaws \cup {"good"}])
      /\ uploads \in Nat /\ MaxObjects \in Nat /\ refused \subseteq 1 .. uploads
  BY S3Assumption DEF S3Inv, S3Typed, S3TypeOK
<1>2. Keys = 1 .. Len(bucket) /\ Len(bucket) \in Nat
  BY BucketIs
<1>3. uploads' \in 0 .. MaxObjects /\ refused' \subseteq 1 .. uploads'
  BY <1>1
<1>4. bucket' = bucket /\ Keys' = Keys
  BY DEF Keys
<1>5. S3TypeOK'
  BY <1>1, <1>2, <1>3, <1>4, BucketTypes
<1>6. Uploaded /\ \A k \in Keys : bucket[k].file <= uploads /\ bucket[k].file \in 0 .. MaxObjects
  BY BucketIs DEF S3Inv, UploadOrder
<1>7. \A f \in 1 .. uploads' : f \in refused' \/ \E k \in Keys : bucket[k].file = f
  <2> SUFFICES ASSUME NEW f \in 1 .. uploads', f # uploads + 1
               PROVE  f \in refused \/ \E k \in Keys : bucket[k].file = f
    OBVIOUS
  <2>1. f \in 1 .. uploads
    BY <1>1
  <2> QED BY <1>6, <2>1 DEF Uploaded
<1>8. Uploaded'
  BY <1>4, <1>6, <1>7 DEF Uploaded
<1>9. \A k \in Keys' : bucket'[k].file <= uploads'
  BY <1>1, <1>4, <1>6
<1>10. UploadOrder'
  BY <1>8, <1>9 DEF UploadOrder
<1> QED BY <1>2, <1>4, <1>5, <1>10, BucketChanges

\* onRotate.
LEMMA UploadKeeps == ASSUME S3Inv, OnRotate PROVE S3Inv'
<1>1. /\ uploads \in Nat /\ MaxObjects \in Nat /\ lastFile \in 0 .. MaxObjects
      /\ refused \subseteq 1 .. uploads
  BY S3Assumption DEF S3Inv, S3Typed, S3TypeOK
<1>2. Len(bucket) \in Nat
  BY BucketIs
<1>3. CASE RotateUnread
  BY <1>1, <1>3, NothingStored DEF RotateUnread
<1>4. ASSUME NEW stored \in BOOLEAN, NEW ok \in BOOLEAN, stored \/ ~ok, PutReader(stored, ok)
      PROVE  S3Inv'
  <2>1. /\ UNCHANGED <<getVars, allow>> /\ uploads < MaxObjects /\ uploads' = uploads + 1
        /\ lastFile' = Len(bucket) + 1 /\ Len(bucket) < MaxObjects
        /\ refused' = IF ok THEN refused ELSE refused \cup {uploads + 1}
    BY <1>4 DEF PutReader, FileName
  <2>2. lastFile' \in 0 .. MaxObjects
    BY <1>1, <1>2, <2>1
  <2>3. CASE stored
    <3> DEFINE kept == IF signed THEN "good" ELSE "unsigned"
    <3>1. kept \in Flaws \cup {"good"} /\ bucket' = Append(bucket, [file |-> uploads + 1, is |-> kept])
      BY <1>4, <2>3 DEF PutReader, Flaws
    <3> HIDE DEF kept
    <3>2. /\ uploads' \in 0 .. MaxObjects /\ uploads <= uploads' /\ uploads + 1 \in {0, uploads'}
          /\ uploads < uploads + 1 /\ \A g \in 1 .. uploads' : g <= uploads \/ g = uploads + 1
          /\ refused' \subseteq 1 .. uploads' /\ refused \subseteq refused'
      BY <1>1, <2>1
    <3> QED BY <2>1, <2>2, <3>1, <3>2, ObjectStored
  <2>4. CASE ~stored
    <3>1. ~ok /\ bucket' = bucket
      BY <1>4, <2>4 DEF PutReader
    <3> QED BY <2>1, <2>2, <3>1, NothingStored
  <2> QED BY <2>3, <2>4
<1> QED BY <1>3, <1>4 DEF OnRotate

\* Another writer.
LEMMA OtherKeeps == ASSUME S3Inv, NEW is \in Flaws, PutOther(is) PROVE S3Inv'
<1>1. /\ UNCHANGED <<getVars, allow, uploads, refused, lastFile>>
      /\ bucket' = Append(bucket, [file |-> 0, is |-> is])
  BY DEF PutOther, putVars
<1>2. /\ uploads \in 0 .. MaxObjects /\ MaxObjects \in Nat /\ lastFile \in 0 .. MaxObjects
      /\ refused \subseteq 1 .. uploads
  BY S3Assumption DEF S3Inv, S3Typed, S3TypeOK
<1>3. uploads <= uploads' /\ \A g \in 1 .. uploads' : g <= uploads
  BY <1>1, <1>2
<1> QED BY <1>1, <1>2, <1>3, ObjectStored

\* The lifecycle rule.
LEMMA ExpireKeeps ==
  ASSUME S3Inv, NEW k \in Keys, NEW is \in {"glacier", "deleted"}, Expire(k, is)
  PROVE  S3Inv'
<1> DEFINE Objects == [file : 0 .. MaxObjects, is : Flaws \cup {"good"}]
<1>1. /\ UNCHANGED <<getVars, allow, uploads, refused, lastFile>>
      /\ bucket[k].is # "deleted" /\ bucket' = [bucket EXCEPT ![k].is = is]
  BY DEF Expire, putVars
<1>2. bucket \in Seq(Objects) /\ is \in Flaws \cup {"good"}
  BY DEF S3Inv, S3Typed, S3TypeOK, Flaws
<1>3. /\ Len(bucket) \in Nat /\ Keys = 1 .. Len(bucket)
      /\ \A l \in Keys : bucket[l] \in Objects
  BY BucketIs
<1>4. /\ \A l \in Keys : l # k => bucket'[l] = bucket[l]
      /\ bucket'[k] = [bucket[k] EXCEPT !.is = is]
      /\ DOMAIN bucket' = DOMAIN bucket
  BY <1>1 DEF Keys
<1>5. /\ bucket'[k] \in Objects /\ bucket'[k].is = is /\ bucket'[k].file = bucket[k].file
  BY <1>2, <1>3, <1>4
<1>6. \A l \in Keys : bucket'[l] \in Objects /\ bucket'[l].file = bucket[l].file
  BY <1>3, <1>4, <1>5
<1> HIDE DEF Objects
<1>7. bucket' \in Seq(Objects) /\ Len(bucket') = Len(bucket) /\ Keys' = Keys
  <2>1. bucket' = [bucket EXCEPT ![k] = bucket'[k]] /\ k \in 1 .. Len(bucket)
    BY <1>1, <1>3, <1>4
  <2>2. Keys' = Keys
    BY <1>4 DEF Keys
  <2>3. bucket' \in Seq(Objects) /\ Len(bucket') = Len(bucket)
    BY <1>2, <1>5, <2>1
  <2> QED BY <2>2, <2>3
<1>8. S3TypeOK'
  <2> USE DEF Objects
  <2>1. uploads \in 0 .. MaxObjects /\ refused \subseteq 1 .. uploads /\ lastFile \in 0 .. MaxObjects
    BY DEF S3Inv, S3Typed, S3TypeOK
  <2> QED BY <1>1, <1>3, <1>7, <2>1, BucketTypes
<1>9. UploadOrder'
  BY <1>1, <1>6, <1>7 DEF S3Inv, UploadOrder, Uploaded
<1>10. \A l \in Keys : \/ bucket'[l].is = bucket[l].is
                       \/ bucket[l].is # "deleted" /\ bucket'[l].is \in {"glacier", "deleted"}
  BY <1>1, <1>4, <1>5
<1> QED BY <1>1, <1>3, <1>7, <1>8, <1>9, <1>10, BucketChanges

-----------------------------------------------------------------------------
\* A step of the reader that reads no message: the bucket is as it was, and
\* what was done with stays so.
LEMMA ReaderFrame ==
  ASSUME S3Inv, UNCHANGED <<putVars, allow, bucket, read>>, passed \subseteq passed',
         page' = Nil \/ page' \in Seq(Keys), cur' \in -1 .. ListMax,
         marker' \in 0 .. Len(bucket), s3pc' \in {"new", "next", "get", "read", "closed"},
         s3end' \in {"no", "eof", "panic"},
         dec' = Nil \/ dec' \in Keys \X (0 .. ObjectMsgs) \X BOOLEAN
  PROVE  /\ S3Typed' /\ UploadOrder' /\ OnlyVerified' /\ Keys' = Keys
         /\ \A k : Seen(k)' = Seen(k) /\ (Handled(k) => Handled(k)')
<1>1. UNCHANGED <<signed, uploads, refused, lastFile, allow, bucket, read>>
  BY DEF putVars
<1>2. Keys' = Keys
  BY <1>1 DEF Keys
<1>3. S3Typed'
  <2>1. S3TypeOK'
    BY <1>1, <1>2 DEF S3Inv, S3Typed, S3TypeOK
  <2>2. read' \in Seq(Keys' \X (1 .. ObjectMsgs))
    BY <1>1, <1>2 DEF S3Inv, S3Typed
  <2> QED BY <1>2, <2>1, <2>2 DEF S3Typed
<1>4. UploadOrder'
  BY <1>1, <1>2 DEF S3Inv, UploadOrder, Uploaded
<1>5. OnlyVerified'
  BY <1>1 DEF S3Inv, OnlyVerified
<1>6. \A k : Seen(k)' = Seen(k)
  BY <1>1 DEF Seen
<1>7. \A k : Handled(k) => Handled(k)'
  BY <1>1, <1>6 DEF Handled
<1> QED BY <1>2, <1>3, <1>4, <1>5, <1>6, <1>7

\* The first page.
LEMMA FirstListKeeps == ASSUME S3Inv, s3end # "panic", NewS3Generator PROVE S3Inv'
<1>1. /\ UNCHANGED <<putVars, allow, cur, dec, read, passed, s3end, bucket>>
      /\ s3pc = "new" /\ s3pc' = "next" /\ TakeList
  BY DEF NewS3Generator
<1>2. page = << >> /\ cur = -1 /\ marker = 0 /\ read = << >> /\ dec = Nil /\ s3end # "eof"
  BY <1>1 DEF S3Inv, Paging
<1>3. /\ page' \in Seq(Keys) /\ Len(page') \in 0 .. ListMax
      /\ DOMAIN page' = 1 .. Len(page') /\ page' # Nil
      /\ \A i, j \in 1 .. Len(page') : i < j => page'[i] < page'[j]
      /\ \A i \in 1 .. Len(page') : page'[i] \in Keys /\ page'[i] > marker /\ page'[i] <= marker'
      /\ marker' \in Nat /\ marker <= marker' /\ marker' <= Len(bucket)
      /\ \A k \in Keys : k > marker /\ k <= marker' =>
           (\E i \in 1 .. Len(page') : k = page'[i]) \/ bucket[k].is = "deleted"
  BY <1>1, TakeListIs
<1>4. Len(bucket) \in Nat /\ Keys = 1 .. Len(bucket) /\ cur \in -1 .. ListMax
      /\ s3end \in {"no", "eof", "panic"}
  BY BucketIs DEF S3Inv, S3Typed, S3TypeOK
<1>5. /\ S3Typed' /\ UploadOrder' /\ OnlyVerified' /\ Keys' = Keys
      /\ \A k : Seen(k)' = Seen(k) /\ (Handled(k) => Handled(k)')
  <2>1. marker' \in 0 .. Len(bucket) /\ dec' = Nil /\ cur' \in -1 .. ListMax
    BY <1>1, <1>2, <1>3, <1>4
  <2> QED BY <1>1, <1>3, <1>4, <2>1, ReaderFrame
<1>6. Paging'
  <2>1. Len(page') <= ListMax /\ cur' <= Len(page')
    BY <1>1, <1>2, <1>3, S3Assumption
  <2> QED BY <1>1, <1>2, <1>3, <2>1 DEF Paging, InHand
<1>7. YetToRead' = {page'[i] : i \in 1 .. Len(page')}
  <2>1. cur' + 2 = 1
    BY <1>1, <1>2
  <2> QED BY <1>3, <2>1 DEF YetToRead
<1>8. Covered'
  <2> SUFFICES ASSUME NEW k \in Keys, k <= marker' PROVE Handled(k)' \/ k \in YetToRead'
    BY <1>5 DEF Covered
  <2>1. (\E i \in 1 .. Len(page') : k = page'[i]) \/ bucket[k].is = "deleted"
    BY <1>2, <1>3, <1>4
  <2> QED BY <1>1, <1>7, <2>1 DEF Handled
<1>9. ReadInOrder' /\ ObjectOpened'
  BY <1>1, <1>2 DEF ReadInOrder, ObjectOpened
<1>10. EndsRight'
  BY <1>1, <1>2 DEF EndsRight
<1> QED BY <1>5, <1>6, <1>8, <1>9, <1>10 DEF S3Inv

\* The next object of the page.
LEMMA NextObjectKeeps == ASSUME S3Inv, s3end # "panic", NextObject PROVE S3Inv'
<1>1. /\ UNCHANGED <<putVars, allow, page, truncated, marker, dec, read, passed, s3end, bucket>>
      /\ s3pc = "next" /\ s3pc' = "get" /\ page # Nil /\ cur + 1 < Len(page) /\ cur' = cur + 1
  BY DEF NextObject, list
<1>2. dec = Nil /\ s3end # "eof" /\ EndsRight
  BY <1>1 DEF S3Inv, Paging, EndsRight
<1>3. /\ Len(bucket) \in Nat /\ Keys = 1 .. Len(bucket) /\ cur \in Int /\ cur >= -1
      /\ marker \in Nat /\ marker <= Len(bucket)
      /\ s3end \in {"no", "eof", "panic"} /\ ListMax \in Nat
      /\ DOMAIN read = 1 .. Len(read)
  BY BucketIs, S3Assumption DEF S3Inv, S3Typed, S3TypeOK
<1>4. /\ page \in Seq(Keys) /\ Len(page) \in Nat /\ DOMAIN page = 1 .. Len(page)
      /\ \A i, j \in 1 .. Len(page) : i < j => page[i] < page[j]
      /\ Len(page) <= ListMax
  BY <1>1, ListPageIs
<1>5. /\ S3Typed' /\ UploadOrder' /\ OnlyVerified' /\ Keys' = Keys
      /\ \A k : Seen(k)' = Seen(k) /\ (Handled(k) => Handled(k)')
  <2>1. marker' \in 0 .. Len(bucket) /\ cur' \in -1 .. ListMax /\ dec' = Nil
    BY <1>1, <1>2, <1>3, <1>4
  <2> QED BY <1>1, <1>3, <1>4, <2>1, ReaderFrame
<1>6. Paging'
  <2>1. cur' <= Len(page) /\ cur' >= 0 /\ cur' < Len(page)
    BY <1>1, <1>3, <1>4
  <2> QED BY <1>1, <1>2, <2>1 DEF S3Inv, Paging, InHand
<1>7. /\ cur + 2 \in 1 .. Len(page) /\ Hand' = page[cur + 2]
      /\ YetToRead = {page[i] : i \in cur + 2 .. Len(page)}
      /\ YetToRead' = {page[i] : i \in cur + 3 .. Len(page)}
      /\ InHand' /\ ~InHand
  <2>1. cur + 2 \in 1 .. Len(page) /\ cur' + 1 = cur + 2 /\ cur' + 2 = cur + 3
    BY <1>1, <1>3, <1>4
  <2> QED BY <1>1, <2>1 DEF Hand, YetToRead, InHand, Nil
<1>8. \A k \in YetToRead : k = Hand' \/ k \in YetToRead'
  <2> SUFFICES ASSUME NEW i \in cur + 2 .. Len(page) PROVE page[i] = Hand' \/ page[i] \in YetToRead'
    BY <1>7
  <2>1. i = cur + 2 \/ i \in cur + 3 .. Len(page)
    BY <1>3, <1>4
  <2> QED BY <1>7, <2>1
<1>9. Hand' \in YetToRead /\ YetToRead' \subseteq YetToRead
  <2>1. cur + 2 \in cur + 2 .. Len(page) /\ cur + 3 .. Len(page) \subseteq cur + 2 .. Len(page)
    BY <1>3, <1>4, <1>7
  <2> QED BY <1>7, <2>1
<1>10. Covered'
  <2> SUFFICES ASSUME NEW k \in Keys, k <= marker
               PROVE  Handled(k)' \/ k \in YetToRead' \/ k = Hand'
    BY <1>1, <1>5, <1>7 DEF Covered
  <2>1. Handled(k) \/ k \in YetToRead
    BY <1>1, <1>7 DEF S3Inv, Covered
  <2> QED BY <1>5, <1>8, <2>1
<1>11. ReadInOrder'
  BY <1>1, <1>9 DEF S3Inv, ReadInOrder
<1>12. ObjectOpened' /\ EndsRight'
  BY <1>1, <1>2 DEF ObjectOpened, EndsRight
<1> QED BY <1>5, <1>6, <1>10, <1>11, <1>12 DEF S3Inv

\* At the end of a page nothing of it is to come.
LEMMA PageEnds ==
  ASSUME S3Inv, page # Nil, cur + 1 >= Len(page)
  PROVE  YetToRead = {}
<1>1. cur \in Int /\ Len(page) \in Nat
  BY BucketIs, ListPageIs
<1>2. cur + 2 .. Len(page) = {}
  BY <1>1
<1> QED BY <1>2 DEF YetToRead

\* The next page.
LEMMA NextListKeeps == ASSUME S3Inv, s3end # "panic", NextList PROVE S3Inv'
<1>1. /\ UNCHANGED <<putVars, allow, dec, read, passed, bucket>>
      /\ s3pc = "next" /\ s3pc' = "get" /\ page # Nil /\ cur + 1 = Len(page) /\ cur' = 0
      /\ TakeList /\ s3end' = IF page' = << >> THEN "panic" ELSE s3end
  BY DEF NextList
<1>2. dec = Nil /\ s3end # "eof" /\ truncated
  BY <1>1 DEF S3Inv, EndsRight, Paging, NextList
<1>3. /\ page' \in Seq(Keys) /\ Len(page') \in 0 .. ListMax
      /\ DOMAIN page' = 1 .. Len(page') /\ page' # Nil
      /\ \A i, j \in 1 .. Len(page') : i < j => page'[i] < page'[j]
      /\ \A i \in 1 .. Len(page') : page'[i] \in Keys /\ page'[i] > marker /\ page'[i] <= marker'
      /\ marker' \in Nat /\ marker <= marker' /\ marker' <= Len(bucket)
      /\ \A k \in Keys : k > marker /\ k <= marker' =>
           (\E i \in 1 .. Len(page') : k = page'[i]) \/ bucket[k].is = "deleted"
  BY <1>1, TakeListIs
<1>4. /\ Len(bucket) \in Nat /\ Keys = 1 .. Len(bucket) /\ cur \in Int /\ marker \in Nat
      /\ s3end' \in {"no", "eof", "panic"} /\ ListMax \in Nat /\ cur' \in -1 .. ListMax
      /\ \A i \in DOMAIN read : read[i] \in Keys \X (1 .. ObjectMsgs)
  BY <1>1, BucketIs, S3Assumption DEF S3Inv, S3Typed, S3TypeOK
<1>5. /\ S3Typed' /\ UploadOrder' /\ OnlyVerified' /\ Keys' = Keys
      /\ \A k : Seen(k)' = Seen(k) /\ (Handled(k) => Handled(k)')
  <2>1. marker' \in 0 .. Len(bucket) /\ dec' = Nil
    BY <1>1, <1>2, <1>3, <1>4
  <2> QED BY <1>1, <1>3, <1>4, <2>1, ReaderFrame
<1>6. YetToRead = {} /\ ~InHand
  <2>1. cur + 1 >= Len(page)
    BY <1>1, <1>4
  <2> QED BY <1>1, <2>1, PageEnds DEF InHand
<1>7. /\ Len(page') \in Nat /\ Len(page') <= ListMax
      /\ InHand' => page' # << >> /\ Len(page') > 0
  <2>1. InHand' => page' # << >>
    BY <1>1 DEF InHand
  <2>2. page' # << >> => Len(page') # 0
    BY <1>3
  <2> QED BY <1>3, <1>4, <2>1, <2>2
<1>8. Paging'
  <2>1. cur' <= Len(page') /\ (InHand' => cur' >= 0 /\ cur' < Len(page'))
    BY <1>1, <1>7
  <2>2. s3end' # "eof"
    BY <1>1, <1>2
  <2> QED BY <1>1, <1>2, <1>3, <1>7, <2>1, <2>2 DEF Paging
<1>9. YetToRead' = {page'[i] : i \in 2 .. Len(page')} /\ Hand' = page'[1]
  <2>1. cur' + 2 = 2 /\ cur' + 1 = 1
    BY <1>1
  <2> QED BY <1>3, <2>1 DEF YetToRead, Hand
<1>10. Covered'
  <2> SUFFICES ASSUME NEW k \in Keys, k <= marker'
               PROVE  Handled(k)' \/ k \in YetToRead' \/ (InHand' /\ k = Hand')
    BY <1>5 DEF Covered
  <2>1. CASE k <= marker
    <3>1. Handled(k)
      BY <1>1, <1>6, <2>1 DEF S3Inv, Covered
    <3> QED BY <1>5, <3>1
  <2>2. CASE ~(k <= marker)
    <3>1. k > marker
      BY <1>4, <2>2
    <3>2. CASE bucket[k].is = "deleted"
      BY <1>1, <3>2 DEF Handled
    <3>3. ASSUME NEW i \in 1 .. Len(page'), k = page'[i]
          PROVE  k \in YetToRead' \/ (InHand' /\ k = Hand')
      <4>1. page' # << >> /\ (i = 1 \/ i \in 2 .. Len(page'))
        BY <1>7
      <4> QED BY <1>1, <1>9, <3>3, <4>1 DEF InHand
    <3> QED BY <1>3, <3>1, <3>2, <3>3
  <2> QED BY <2>1, <2>2
<1>11. \A i \in DOMAIN read : \A j \in 1 .. Len(page') : read[i][1] < page'[j]
  <2> SUFFICES ASSUME NEW i \in DOMAIN read, NEW j \in 1 .. Len(page') PROVE read[i][1] < page'[j]
    OBVIOUS
  <2>1. read[i][1] <= marker /\ read[i][1] \in Keys /\ page'[j] > marker /\ page'[j] \in Keys
    BY <1>3, <1>4 DEF S3Inv, ReadInOrder
  <2> QED BY <1>4, <2>1
<1>12. ReadInOrder'
  <2>1. \A i \in DOMAIN read : \A k \in YetToRead' : read[i][1] < k
    BY <1>7, <1>9, <1>11
  <2>2. InHand' => \A i \in DOMAIN read : read[i][1] < Hand'
    BY <1>7, <1>9, <1>11
  <2>3. ASSUME NEW i \in DOMAIN read PROVE read[i][1] <= marker'
    <3>1. read[i][1] <= marker /\ read[i][1] \in Keys
      BY <1>4 DEF S3Inv, ReadInOrder
    <3> QED BY <1>3, <1>4, <3>1
  <2> QED BY <1>1, <2>1, <2>2, <2>3 DEF S3Inv, ReadInOrder
<1>13. ObjectOpened' /\ EndsRight'
  BY <1>1, <1>2 DEF ObjectOpened, EndsRight
<1> QED BY <1>5, <1>8, <1>10, <1>12, <1>13 DEF S3Inv

\* The rest of the list cannot be had, or there is none.
LEMMA NoListKeeps == ASSUME S3Inv, s3end # "panic", ListFails \/ NextEOF PROVE S3Inv'
<1>1. /\ UNCHANGED <<putVars, allow, truncated, marker, dec, s3pc, read, passed, bucket>>
      /\ s3pc = "next" /\ page # Nil /\ cur + 1 = Len(page) /\ cur' = cur + 1
      /\ \/ page' = page /\ s3end' = s3end /\ truncated
         \/ page' = Nil /\ s3end' = "eof" /\ ~truncated
  BY DEF ListFails, NextEOF, list
<1>2. dec = Nil /\ (truncated => s3end # "eof")
  BY <1>1 DEF S3Inv, Paging, EndsRight
<1>3. /\ Len(bucket) \in Nat /\ cur \in Int /\ cur >= -1 /\ marker \in 0 .. Len(bucket)
      /\ s3end \in {"no", "eof", "panic"} /\ ListMax \in Nat
  BY BucketIs, S3Assumption DEF S3Inv, S3Typed, S3TypeOK
<1>4. page \in Seq(Keys) /\ Len(page) \in Nat /\ Len(page) <= ListMax
  BY <1>1, ListPageIs
<1>5. /\ S3Typed' /\ UploadOrder' /\ OnlyVerified' /\ Keys' = Keys
      /\ \A k : Seen(k)' = Seen(k) /\ (Handled(k) => Handled(k)')
  <2>1. cur' \in -1 .. ListMax
    BY <1>1, <1>3, <1>4
  <2> QED BY <1>1, <1>2, <1>3, <1>4, <2>1, ReaderFrame
<1>6. Paging'
  <2>1. cur' <= Len(page)
    BY <1>1, <1>3
  <2> QED BY <1>1, <1>2, <2>1 DEF S3Inv, Paging, InHand
<1>7. YetToRead = {} /\ YetToRead' = {} /\ ~InHand /\ ~InHand'
  <2>1. cur + 1 >= Len(page) /\ cur' + 2 .. Len(page) = {}
    BY <1>1, <1>3, <1>4
  <2>2. YetToRead = {}
    BY <1>1, <2>1, PageEnds
  <2>3. YetToRead' = {}
    BY <1>1, <2>1 DEF YetToRead, Nil
  <2> QED BY <1>1, <2>2, <2>3 DEF InHand
<1>8. Covered'
  BY <1>1, <1>5, <1>7 DEF S3Inv, Covered
<1>9. ReadInOrder' /\ ObjectOpened'
  BY <1>1, <1>7 DEF S3Inv, ReadInOrder, ObjectOpened
<1>10. EndsRight'
  BY <1>1, <1>2 DEF EndsRight, Nil
<1> QED BY <1>5, <1>6, <1>8, <1>9, <1>10 DEF S3Inv

\* Generate called again.
LEMMA PanicKeeps == ASSUME S3Inv, s3end # "panic", NextPanics PROVE S3Inv'
<1>1. /\ UNCHANGED <<putVars, allow, page, truncated, marker, cur, dec, s3pc, read, passed, bucket>>
      /\ s3pc = "next" /\ (page = Nil \/ cur + 1 > Len(page)) /\ s3end' = "panic"
  BY DEF NextPanics, list
<1>2. /\ page = Nil \/ page \in Seq(Keys)
      /\ cur \in -1 .. ListMax /\ marker \in 0 .. Len(bucket)
      /\ dec = Nil \/ dec \in Keys \X (0 .. ObjectMsgs) \X BOOLEAN
  BY DEF S3Inv, S3Typed, S3TypeOK
<1>3. /\ S3Typed' /\ UploadOrder' /\ OnlyVerified' /\ Keys' = Keys
      /\ \A k : Seen(k)' = Seen(k) /\ (Handled(k) => Handled(k)')
  BY <1>1, <1>2, ReaderFrame
<1>4. YetToRead' = YetToRead /\ ~InHand /\ ~InHand'
  BY <1>1 DEF YetToRead, InHand, Nil
<1>5. Paging'
  BY <1>1, <1>4 DEF S3Inv, Paging, Nil
<1>6. Covered'
  BY <1>1, <1>3, <1>4 DEF S3Inv, Covered
<1>7. ReadInOrder' /\ ObjectOpened'
  BY <1>1, <1>4 DEF S3Inv, ReadInOrder, ObjectOpened
<1>8. EndsRight'
  BY <1>1 DEF EndsRight, Nil
<1> QED BY <1>3, <1>5, <1>6, <1>7, <1>8 DEF S3Inv

\* An object that is left out or answered with an error.
LEMMA HandPassed ==
  ASSUME S3Inv, s3end # "panic", s3pc = "get", s3pc' = "next", passed' = passed \cup {Hand},
         UNCHANGED <<putVars, allow, list, cur, dec, read, s3end, bucket>>
  PROVE  S3Inv'
<1>1. UNCHANGED <<page, truncated, marker>>
  BY DEF list
<1>2. /\ page = Nil \/ page \in Seq(Keys)
      /\ cur \in -1 .. ListMax /\ marker \in 0 .. Len(bucket)
      /\ dec = Nil \/ dec \in Keys \X (0 .. ObjectMsgs) \X BOOLEAN
      /\ s3end \in {"no", "eof", "panic"} /\ s3end # "eof" /\ dec = Nil
  BY DEF S3Inv, S3Typed, S3TypeOK, Paging
<1>3. /\ S3Typed' /\ UploadOrder' /\ OnlyVerified' /\ Keys' = Keys
      /\ \A k : Seen(k)' = Seen(k) /\ (Handled(k) => Handled(k)')
  BY <1>1, <1>2, ReaderFrame
<1>4. YetToRead' = YetToRead /\ ~InHand'
  BY <1>1 DEF YetToRead, InHand, Nil
<1>5. Paging'
  BY <1>1, <1>2, <1>4 DEF S3Inv, Paging, Nil
<1>6. Covered'
  <2> SUFFICES ASSUME NEW k \in Keys, k <= marker PROVE Handled(k)' \/ k \in YetToRead'
    BY <1>1, <1>3 DEF Covered
  <2>1. Handled(k) \/ k \in YetToRead \/ k = Hand
    BY DEF S3Inv, Covered
  <2>2. k = Hand => Handled(k)'
    BY DEF Handled
  <2> QED BY <1>3, <1>4, <2>1, <2>2
<1>7. ReadInOrder' /\ ObjectOpened'
  BY <1>1, <1>4 DEF S3Inv, ReadInOrder, ObjectOpened
<1>8. EndsRight'
  BY <1>1, <1>2 DEF EndsRight
<1> QED BY <1>3, <1>5, <1>6, <1>7, <1>8 DEF S3Inv

\* An object that is opened.
LEMMA OpenObjectKeeps ==
  ASSUME S3Inv, s3end # "panic", s3pc = "get", s3pc' = "read", NEW b \in BOOLEAN,
         dec' = <<Hand, 0, b>>, Verified(Hand), bucket[Hand].is # "garbled",
         UNCHANGED <<putVars, allow, list, cur, read, passed, s3end, bucket>>
  PROVE  S3Inv'
<1>1. UNCHANGED <<page, truncated, marker>>
  BY DEF list
<1>2. /\ page = Nil \/ page \in Seq(Keys)
      /\ cur \in -1 .. ListMax /\ marker \in 0 .. Len(bucket)
      /\ s3end \in {"no", "eof", "panic"} /\ s3end # "eof"
  BY DEF S3Inv, S3Typed, S3TypeOK, Paging
<1>3. InHand /\ page # Nil /\ Hand \in Keys
  BY HandIs DEF InHand
<1>4. dec' # Nil /\ dec'[1] = Hand /\ dec'[2] = 0 /\ dec' \in Keys \X (0 .. ObjectMsgs) \X BOOLEAN
  <2>1. Hand # 0 /\ 0 \in 0 .. ObjectMsgs
    BY <1>3, BucketIs, S3Assumption
  <2> QED BY <1>3, <2>1 DEF Nil
<1>5. /\ S3Typed' /\ UploadOrder' /\ OnlyVerified' /\ Keys' = Keys
      /\ \A k : Seen(k)' = Seen(k) /\ (Handled(k) => Handled(k)')
  BY <1>1, <1>2, <1>4, ReaderFrame
<1>6. YetToRead' = YetToRead /\ InHand' /\ Hand' = Hand
  BY <1>1 DEF YetToRead, InHand, Hand, Nil
<1>7. Paging'
  BY <1>1, <1>2, <1>3, <1>6 DEF S3Inv, Paging, Nil
<1>8. Covered'
  BY <1>1, <1>3, <1>5, <1>6 DEF S3Inv, Covered
<1>9. ReadInOrder'
  BY <1>1, <1>6 DEF S3Inv, ReadInOrder
<1>10. \A i \in DOMAIN read : read[i][1] < Hand
  BY <1>3 DEF S3Inv, ReadInOrder
<1>11. Seen(Hand) = {}
  <2>1. ASSUME NEW i \in DOMAIN read PROVE read[i][1] # Hand
    <3>1. read[i][1] < Hand /\ read[i][1] \in Keys
      BY <1>10, BucketIs
    <3> QED BY <1>3, <3>1, BucketIs
  <2> QED BY <2>1 DEF Seen
<1>12. ObjectOpened'
  <2>1. Seen(Hand)' = 1 .. 0
    <3>1. Seen(Hand)' = Seen(Hand)
      BY <1>6 DEF Seen
    <3> QED BY <1>11, <3>1
  <2>2. bucket[Hand].is \notin {"bad", "garbled"} /\ (bucket[Hand].is = "unsigned" => allow)
    BY DEF Verified
  <2> QED BY <1>4, <1>6, <1>10, <2>1, <2>2 DEF ObjectOpened
<1>13. EndsRight'
  BY <1>1, <1>2 DEF EndsRight
<1> QED BY <1>5, <1>7, <1>8, <1>9, <1>12, <1>13 DEF S3Inv

\* The object in hand is asked for.
LEMMA GetKeeps == ASSUME S3Inv, s3end # "panic", GetResponse \/ GetFails PROVE S3Inv'
<1>1. CASE GetFails
  BY <1>1, HandPassed DEF GetFails, Hand
<1>2. CASE GetResponse
  <2>1. /\ s3pc = "get" /\ UNCHANGED <<putVars, allow, list, cur, read, s3end, bucket>>
        /\ \/ /\ s3pc' = "next" /\ passed' = passed \cup {Hand} /\ dec' = dec
           \/ /\ dec' = <<Hand, 0, bucket[Hand].is = "cut">> /\ s3pc' = "read" /\ passed' = passed
              /\ Verified(Hand) /\ bucket[Hand].is \notin {"deleted", "garbled"}
    BY <1>2 DEF GetResponse, Hand
  <2>2. CASE s3pc' = "next" /\ passed' = passed \cup {Hand} /\ dec' = dec
    BY <2>1, <2>2, HandPassed
  <2>3. CASE /\ dec' = <<Hand, 0, bucket[Hand].is = "cut">> /\ s3pc' = "read" /\ passed' = passed
             /\ Verified(Hand) /\ bucket[Hand].is \notin {"deleted", "garbled"}
    <3>1. (bucket[Hand].is = "cut") \in BOOLEAN /\ bucket[Hand].is # "garbled"
      BY <2>3
    <3> QED BY <2>1, <2>3, <3>1, OpenObjectKeeps
  <2> QED BY <2>1, <2>2, <2>3
<1> QED BY <1>1, <1>2

\* A message is read: what was read, with it.
LEMMA MessageRead ==
  ASSUME S3Inv, s3end # "panic", ReadMessage
  PROVE  /\ UNCHANGED <<putVars, allow, page, truncated, marker, cur, s3pc, passed, s3end, bucket>>
         /\ s3pc = "read" /\ InHand /\ Hand \in Keys /\ dec[2] \in 0 .. ObjectMsgs - 1
         /\ dec' = <<Hand, dec[2] + 1, dec[3]>> /\ dec[3] \in BOOLEAN
         /\ DOMAIN read' = 1 .. Len(read) + 1
         /\ read' \in Seq(Keys \X (1 .. ObjectMsgs))
         /\ \A i \in 1 .. Len(read) : read'[i] = read[i] /\ read[i] \in Keys \X (1 .. ObjectMsgs)
         /\ read'[Len(read) + 1] = <<Hand, dec[2] + 1>>
<1>1. /\ UNCHANGED <<putVars, allow, page, truncated, marker, cur, s3pc, passed, s3end, bucket>>
      /\ s3pc = "read" /\ dec[2] < ObjectMsgs
      /\ dec' = <<dec[1], dec[2] + 1, dec[3]>>
      /\ read' = Append(read, <<dec[1], dec[2] + 1>>)
  BY DEF ReadMessage, list
<1>2. dec # Nil /\ dec[1] = Hand /\ dec \in Keys \X (0 .. ObjectMsgs) \X BOOLEAN
  BY <1>1 DEF S3Inv, S3Typed, ObjectOpened
<1>3. Hand \in Keys /\ dec[2] \in 0 .. ObjectMsgs /\ dec[3] \in BOOLEAN
  BY <1>2
<1>4. dec[2] \in 0 .. ObjectMsgs - 1 /\ dec[2] + 1 \in 1 .. ObjectMsgs
  BY <1>1, <1>3, S3Assumption
<1> DEFINE e == <<Hand, dec[2] + 1>>
           S == Keys \X (1 .. ObjectMsgs)
<1>5. e \in S /\ read \in Seq(S)
  BY <1>3, <1>4 DEF S3Inv, S3Typed
<1>6. read' = Append(read, e)
  BY <1>1, <1>2
<1> HIDE DEF e, S
<1>7. /\ read' \in Seq(S) /\ DOMAIN read' = 1 .. Len(read) + 1
      /\ \A i \in 1 .. Len(read) : read'[i] = read[i] /\ read[i] \in S
      /\ read'[Len(read) + 1] = e
  BY <1>5, <1>6
<1> QED BY <1>1, <1>2, <1>3, <1>4, <1>7 DEF InHand, e, S

\* A message.
LEMMA ReadKeeps == ASSUME S3Inv, s3end # "panic", ReadMessage PROVE S3Inv'
<1>1. /\ UNCHANGED <<putVars, allow, page, truncated, marker, cur, s3pc, passed, s3end, bucket>>
      /\ s3pc = "read" /\ InHand /\ Hand \in Keys /\ dec[2] \in 0 .. ObjectMsgs - 1
      /\ dec' = <<Hand, dec[2] + 1, dec[3]>> /\ dec[3] \in BOOLEAN
      /\ DOMAIN read' = 1 .. Len(read) + 1
      /\ read' \in Seq(Keys \X (1 .. ObjectMsgs))
      /\ \A i \in 1 .. Len(read) : read'[i] = read[i] /\ read[i] \in Keys \X (1 .. ObjectMsgs)
      /\ read'[Len(read) + 1] = <<Hand, dec[2] + 1>>
  BY MessageRead
<1>2. /\ Len(read) \in Nat /\ DOMAIN read = 1 .. Len(read)
      /\ Len(bucket) \in Nat /\ Keys = 1 .. Len(bucket) /\ ObjectMsgs \in Nat
  BY BucketIs, S3Assumption
<1>3. /\ page # Nil /\ Hand <= marker /\ \A k \in YetToRead : Hand < k
  BY <1>1, HandIs
<1>4. /\ dec # Nil /\ dec[1] = Hand /\ Seen(Hand) = 1 .. dec[2]
      /\ \A i \in DOMAIN read : read[i][1] < Hand \/ (read[i][1] = Hand /\ read[i][2] <= dec[2])
      /\ bucket[Hand].is \notin {"bad", "garbled"} /\ (bucket[Hand].is = "unsigned" => allow)
  BY <1>1 DEF S3Inv, ObjectOpened
<1>5. /\ Hand' = Hand /\ YetToRead' = YetToRead /\ InHand' /\ Keys' = Keys
  BY <1>1 DEF Hand, YetToRead, InHand, Keys, Nil
<1>6. \A i \in DOMAIN read' : i \in DOMAIN read \/ i = Len(read) + 1
  BY <1>1, <1>2
<1>7. dec'[1] = Hand /\ dec'[2] = dec[2] + 1 /\ dec[2] + 1 \in 1 .. ObjectMsgs
      /\ dec' # Nil /\ dec' \in Keys \X (0 .. ObjectMsgs) \X BOOLEAN
  <2>1. Hand # 0 /\ dec[2] + 1 \in 1 .. ObjectMsgs
    BY <1>1, <1>2
  <2>2. dec[2] + 1 \in 0 .. ObjectMsgs
    BY <1>2, <2>1
  <2> QED BY <1>1, <2>1, <2>2 DEF Nil
<1>8. S3Typed'
  <2>1. S3TypeOK'
    BY <1>1, <1>5 DEF putVars, S3Inv, S3Typed, S3TypeOK
  <2>2. dec' \in Keys' \X (0 .. ObjectMsgs) \X BOOLEAN /\ read' \in Seq(Keys' \X (1 .. ObjectMsgs))
    BY <1>1, <1>5, <1>7
  <2> QED BY <2>1, <2>2 DEF S3Typed
<1>9. UploadOrder' /\ EndsRight'
  BY <1>1, <1>5 DEF putVars, S3Inv, UploadOrder, Uploaded, EndsRight, Nil
<1>10. Paging'
  BY <1>1, <1>3 DEF S3Inv, Paging, InHand
<1>11. \A k \in Keys : k # Hand => Seen(k)' = Seen(k)
  <2> SUFFICES ASSUME NEW k \in Keys, k # Hand PROVE Seen(k)' = Seen(k)
    OBVIOUS
  <2>1. {j \in DOMAIN read' : read'[j][1] = k} = {j \in DOMAIN read : read[j][1] = k}
    <3>1. read'[Len(read) + 1][1] # k
      BY <1>1
    <3> QED BY SMTT(30), <1>1, <1>2, <1>6, <3>1
  <2>2. \A j \in DOMAIN read : read'[j] = read[j]
    BY <1>1, <1>2
  <2> QED BY <2>1, <2>2 DEF Seen
<1>12. Seen(Hand)' = 1 .. dec[2] + 1
  <2>1. Seen(Hand)' = {read'[i][2] : i \in {j \in DOMAIN read' : read'[j][1] = Hand}}
    BY <1>5 DEF Seen
  <2>2. {j \in DOMAIN read' : read'[j][1] = Hand}
          = {j \in DOMAIN read : read[j][1] = Hand} \cup {Len(read) + 1}
    <3>1. /\ read'[Len(read) + 1][1] = Hand /\ Len(read) + 1 \in DOMAIN read'
          /\ \A j \in DOMAIN read : j \in DOMAIN read' /\ read'[j] = read[j]
      BY <1>1, <1>2
    <3> QED BY <1>6, <3>1
  <2>3. \A j \in DOMAIN read : read'[j] = read[j]
    BY <1>1, <1>2
  <2>4. read'[Len(read) + 1][2] = dec[2] + 1
    BY <1>1
  <2>5. Seen(Hand)' = Seen(Hand) \cup {dec[2] + 1}
    <3> DEFINE D == {j \in DOMAIN read : read[j][1] = Hand}
               D2 == {j \in DOMAIN read' : read'[j][1] = Hand}
    <3>1. /\ D2 = D \cup {Len(read) + 1} /\ \A j \in D : read'[j][2] = read[j][2]
      BY <2>2, <2>3
    <3>2. Seen(Hand) = {read[i][2] : i \in D} /\ Seen(Hand)' = {read'[i][2] : i \in D2}
      BY <2>1 DEF Seen
    <3> HIDE DEF D, D2
    <3>3. {read'[i][2] : i \in D2} = {read[i][2] : i \in D} \cup {dec[2] + 1}
      BY ONLY <2>4, <3>1
    <3> QED BY <3>2, <3>3
  <2>6. dec[2] \in Nat
    BY <1>1
  <2> QED BY <1>4, <2>5, <2>6
<1>13. Covered'
  <2> SUFFICES ASSUME NEW k \in Keys, k <= marker, k # Hand
               PROVE  Handled(k)' \/ k \in YetToRead
    BY <1>1, <1>5 DEF Covered
  <2>1. Handled(k) \/ k \in YetToRead
    BY <1>1 DEF S3Inv, Covered
  <2> QED BY <1>1, <1>11, <2>1 DEF Handled
<1>14. \A i \in DOMAIN read' : \/ read'[i][1] < Hand /\ i \in DOMAIN read
                               \/ read'[i][1] = Hand /\ read'[i][2] <= dec[2] + 1
  <2> SUFFICES ASSUME NEW i \in DOMAIN read'
               PROVE  \/ read'[i][1] < Hand /\ i \in DOMAIN read
                      \/ read'[i][1] = Hand /\ read'[i][2] <= dec[2] + 1
    OBVIOUS
  <2>1. CASE i \in DOMAIN read
    <3>1. read'[i] = read[i] /\ read[i][2] \in Nat /\ dec[2] \in Nat
      BY <1>1, <1>2, <2>1
    <3>2. read[i][1] < Hand \/ (read[i][1] = Hand /\ read[i][2] <= dec[2])
      BY <1>4, <2>1
    <3>3. read[i][2] <= dec[2] => read[i][2] <= dec[2] + 1
      BY <3>1
    <3> QED BY <2>1, <3>1, <3>2, <3>3
  <2>2. CASE i = Len(read) + 1
    <3>1. read'[i][1] = Hand /\ read'[i][2] = dec[2] + 1 /\ dec[2] + 1 \in Nat
      BY <1>1, <2>2
    <3> QED BY <3>1
  <2> QED BY <1>6, <2>1, <2>2
<1>15. ReadInOrder'
  <2>1. ASSUME NEW i \in DOMAIN read', NEW j \in DOMAIN read', i < j
        PROVE  \/ read'[i][1] < read'[j][1]
               \/ read'[i][1] = read'[j][1] /\ read'[i][2] < read'[j][2]
    <3>0. i \in 1 .. Len(read) + 1 /\ j \in 1 .. Len(read) + 1
      BY <1>1, <2>1
    <3>1. i \in DOMAIN read /\ read'[i] = read[i]
      <4>1. i \in 1 .. Len(read)
        BY ONLY <1>2, <2>1, <3>0
      <4> QED BY <1>1, <1>2, <4>1
    <3>2. CASE j \in DOMAIN read
      <4>1. read'[j] = read[j]
        BY <1>1, <1>2, <3>2
      <4> QED BY <2>1, <3>1, <3>2, <4>1 DEF S3Inv, ReadInOrder
    <3>3. CASE j = Len(read) + 1
      <4>1. read'[j][1] = Hand /\ read'[j][2] = dec[2] + 1 /\ dec[2] \in Nat
        BY <1>1, <3>3
      <4>2. read[i][1] < Hand \/ (read[i][1] = Hand /\ read[i][2] <= dec[2])
        BY <1>4, <3>1
      <4>3. read[i][2] \in Nat
        BY <1>1, <1>2, <3>1
      <4>4. read[i][2] <= dec[2] => read[i][2] < dec[2] + 1
        BY <4>1, <4>3
      <4> QED BY <3>1, <4>1, <4>2, <4>4
    <3> QED BY <1>6, <3>2, <3>3
  <2>2. ASSUME NEW i \in DOMAIN read'
        PROVE  read'[i][1] <= marker /\ \A k \in YetToRead : read'[i][1] < k
    <3>1. CASE i \in DOMAIN read
      <4>1. read'[i] = read[i]
        BY <1>1, <1>2, <3>1
      <4> QED BY <3>1, <4>1 DEF S3Inv, ReadInOrder
    <3>2. CASE i = Len(read) + 1
      <4>1. read'[i][1] = Hand
        BY <1>1, <3>2
      <4> QED BY <1>3, <4>1
    <3> QED BY <1>6, <3>1, <3>2
  <2> QED BY <1>1, <1>5, <2>1, <2>2 DEF ReadInOrder
<1>16. ObjectOpened'
  <2>1. \A i \in DOMAIN read' : read'[i][1] < Hand \/ (read'[i][1] = Hand /\ read'[i][2] <= dec'[2])
    BY <1>7, <1>14
  <2> QED BY <1>1, <1>4, <1>5, <1>7, <1>12, <2>1 DEF ObjectOpened
<1>17. OnlyVerified'
  <2> SUFFICES ASSUME NEW i \in DOMAIN read'
               PROVE  /\ bucket[read'[i][1]].is \notin {"bad", "garbled"}
                      /\ bucket[read'[i][1]].is = "unsigned" => allow
    BY <1>1 DEF OnlyVerified
  <2>1. CASE i \in DOMAIN read
    <3>1. read'[i] = read[i]
      BY <1>1, <1>2, <2>1
    <3> QED BY <2>1, <3>1 DEF S3Inv, OnlyVerified
  <2>2. CASE i = Len(read) + 1
    <3>1. read'[i][1] = Hand
      BY <1>1, <2>2
    <3> QED BY <1>4, <3>1
  <2> QED BY <1>6, <2>1, <2>2
<1> QED BY <1>8, <1>9, <1>10, <1>13, <1>15, <1>16, <1>17, <1>9 DEF S3Inv

\* The end of an object.
LEMMA EndKeeps == ASSUME S3Inv, s3end # "panic", ReadEnds PROVE S3Inv'
<1>1. /\ UNCHANGED <<putVars, allow, page, truncated, marker, cur, read, passed, s3end, bucket>>
      /\ s3pc = "read" /\ dec[2] = ObjectMsgs /\ dec' = Nil /\ s3pc' = "next"
  BY DEF ReadEnds, list
<1>2. /\ page = Nil \/ page \in Seq(Keys)
      /\ cur \in -1 .. ListMax /\ marker \in 0 .. Len(bucket)
      /\ s3end \in {"no", "eof", "panic"} /\ s3end # "eof"
  BY <1>1 DEF S3Inv, S3Typed, S3TypeOK, Paging
<1>3. /\ S3Typed' /\ UploadOrder' /\ OnlyVerified' /\ Keys' = Keys
      /\ \A k : Seen(k)' = Seen(k) /\ (Handled(k) => Handled(k)')
  BY <1>1, <1>2, ReaderFrame
<1>4. YetToRead' = YetToRead /\ ~InHand'
  BY <1>1 DEF YetToRead, InHand, Nil
<1>5. Paging'
  BY <1>1, <1>2, <1>4 DEF S3Inv, Paging, Nil
<1>6. Handled(Hand)
  BY <1>1 DEF S3Inv, ObjectOpened, Handled
<1>7. Covered'
  <2> SUFFICES ASSUME NEW k \in Keys, k <= marker PROVE Handled(k)' \/ k \in YetToRead'
    BY <1>1, <1>3 DEF Covered
  <2>1. Handled(k) \/ k \in YetToRead
    BY <1>1, <1>6 DEF S3Inv, Covered
  <2> QED BY <1>3, <1>4, <2>1
<1>8. ReadInOrder' /\ ObjectOpened'
  BY <1>1, <1>4 DEF S3Inv, ReadInOrder, ObjectOpened
<1>9. EndsRight'
  BY <1>1, <1>2 DEF EndsRight
<1> QED BY <1>3, <1>5, <1>7, <1>8, <1>9 DEF S3Inv

\* A stream that is cut.
LEMMA CutKeeps == ASSUME S3Inv, s3end # "panic", ReadFails PROVE S3Inv'
<1>1. /\ UNCHANGED <<putVars, allow, page, truncated, marker, cur, dec, s3pc, read, s3end, bucket>>
      /\ s3pc = "read" /\ passed' = passed \cup {dec[1]}
  BY DEF ReadFails, list
<1>2. /\ page = Nil \/ page \in Seq(Keys)
      /\ cur \in -1 .. ListMax /\ marker \in 0 .. Len(bucket)
      /\ dec = Nil \/ dec \in Keys \X (0 .. ObjectMsgs) \X BOOLEAN
      /\ s3end \in {"no", "eof", "panic"} /\ s3end # "eof"
  BY <1>1 DEF S3Inv, S3Typed, S3TypeOK, Paging
<1>3. /\ S3Typed' /\ UploadOrder' /\ OnlyVerified' /\ Keys' = Keys
      /\ \A k : Seen(k)' = Seen(k) /\ (Handled(k) => Handled(k)')
  BY <1>1, <1>2, ReaderFrame
<1>4. YetToRead' = YetToRead /\ InHand' = InHand /\ Hand' = Hand
  BY <1>1 DEF YetToRead, InHand, Hand, Nil
<1>5. Paging'
  BY <1>1, <1>4 DEF S3Inv, Paging, Nil
<1>6. Covered'
  BY <1>1, <1>3, <1>4 DEF S3Inv, Covered
<1>7. ReadInOrder'
  BY <1>1, <1>4 DEF S3Inv, ReadInOrder
<1>8. ObjectOpened'
  <2>1. Seen(Hand)' = Seen(Hand)
    BY <1>1, <1>4 DEF Seen
  <2> QED BY <1>1, <1>4, <2>1 DEF S3Inv, ObjectOpened
<1>9. EndsRight'
  BY <1>1 DEF S3Inv, EndsRight, Nil
<1> QED BY <1>3, <1>5, <1>6, <1>7, <1>8, <1>9 DEF S3Inv

\* Close.
LEMMA S3CloseKeeps == ASSUME S3Inv, s3end # "panic", CloseGenerator PROVE S3Inv'
<1>1. /\ UNCHANGED <<putVars, allow, page, truncated, marker, cur, dec, read, passed, bucket>>
      /\ s3pc \in {"next", "read"} /\ s3pc' = "closed"
      /\ s3end' = IF dec = Nil THEN "panic" ELSE s3end
  BY DEF CloseGenerator, list
<1>2. /\ page = Nil \/ page \in Seq(Keys)
      /\ cur \in -1 .. ListMax /\ marker \in 0 .. Len(bucket)
      /\ dec = Nil \/ dec \in Keys \X (0 .. ObjectMsgs) \X BOOLEAN
      /\ s3end' \in {"no", "eof", "panic"}
  BY <1>1 DEF S3Inv, S3Typed, S3TypeOK
<1>3. s3end' # "eof"
  BY <1>1 DEF S3Inv, Paging
<1>4. /\ S3Typed' /\ UploadOrder' /\ OnlyVerified' /\ Keys' = Keys
  BY <1>1, <1>2, ReaderFrame
<1>5. YetToRead' = YetToRead /\ ~InHand'
  BY <1>1 DEF YetToRead, InHand, Nil
<1>6. Paging'
  BY <1>1, <1>3, <1>5 DEF S3Inv, Paging, Nil
<1>7. Covered' /\ ObjectOpened'
  BY <1>1 DEF Covered, ObjectOpened
<1>8. ReadInOrder'
  BY <1>1, <1>5 DEF S3Inv, ReadInOrder
<1>9. EndsRight'
  BY <1>1, <1>3 DEF EndsRight
<1> QED BY <1>4, <1>6, <1>7, <1>8, <1>9 DEF S3Inv

\* Nothing happens.
LEMMA S3IdleKeeps == ASSUME S3Inv, UNCHANGED s3Vars PROVE S3Inv'
<1>1. /\ UNCHANGED <<getVars, allow, bucket, uploads, refused, lastFile>>
      /\ UNCHANGED <<page, marker, cur, s3pc, s3end>>
  BY DEF s3Vars, putVars, getVars, list
<1>2. Keys' = Keys /\ Len(bucket) \in Nat
  BY <1>1, BucketIs DEF Keys
<1>3. S3TypeOK'
  BY <1>1, <1>2 DEF S3Inv, S3Typed, S3TypeOK
<1>4. UploadOrder'
  BY <1>1, <1>2 DEF S3Inv, UploadOrder, Uploaded
<1> QED BY <1>1, <1>2, <1>3, <1>4, BucketChanges

\* Every step keeps the invariant.
LEMMA S3InvKept == S3Inv /\ [S3Next]_s3Vars => S3Inv'
<1>1. ASSUME S3Inv, NEW is \in Flaws \ {"deleted"}, PutOther(is) PROVE S3Inv'
  BY <1>1, OtherKeeps
<1>2. ASSUME S3Inv, s3end # "panic", S3Generate PROVE S3Inv'
  BY <1>2, FirstListKeeps, NextObjectKeeps, NextListKeeps, NoListKeeps, PanicKeeps, GetKeeps,
     ReadKeeps, EndKeeps, CutKeeps, S3CloseKeeps DEF S3Generate
<1> QED BY <1>1, <1>2, UploadKeeps, ExpireKeeps, S3IdleKeeps DEF S3Next

\* The invariant holds at first.
LEMMA S3InvInit == S3Init => S3Inv
<1> SUFFICES ASSUME S3Init PROVE S3Inv
  OBVIOUS
<1>1. /\ uploads = 0 /\ refused = {} /\ lastFile = 0 /\ bucket = << >>
      /\ page = << >> /\ truncated = FALSE /\ cur = -1 /\ marker = 0 /\ dec = Nil
      /\ s3pc = "new" /\ read = << >> /\ s3end = "no"
  BY DEF S3Init
<1>2. Keys = {} /\ DOMAIN read = {} /\ DOMAIN page = {} /\ Len(page) = 0 /\ Len(bucket) = 0
  BY <1>1 DEF Keys
<1>3. S3Typed
  <2>1. page \in Seq(Keys) /\ read \in Seq(Keys \X (1 .. ObjectMsgs))
        /\ bucket \in Seq([file : 0 .. MaxObjects, is : Flaws \cup {"good"}])
    BY <1>1
  <2> QED BY <1>1, <1>2, <2>1, S3Assumption DEF S3Typed, S3TypeOK
<1>4. UploadOrder
  BY <1>1, <1>2 DEF UploadOrder, Uploaded
<1>5. Paging
  BY <1>1, <1>2, S3Assumption DEF Paging, InHand, Nil
<1>6. Covered /\ ReadInOrder /\ ObjectOpened /\ EndsRight /\ OnlyVerified
  BY <1>1, <1>2 DEF Covered, ReadInOrder, ObjectOpened, EndsRight, OnlyVerified
<1> QED BY <1>3, <1>4, <1>5, <1>6 DEF S3Inv

\* What the invariant says of a reader that goes on.
LEMMA ReaderGoesOn == S3Inv => GoesOn
<1> SUFFICES ASSUME S3Inv PROVE GoesOn
  OBVIOUS
<1>1. Keys \subseteq Int
  BY BucketIs
<1>2. ASSUME s3pc \in {"get", "read"}, s3end # "panic", NEW k \in Keys, k < Hand PROVE Handled(k)
  <2>1. InHand
    BY <1>2 DEF InHand
  <2>2. /\ Hand \in Keys /\ Hand <= marker /\ \A l \in YetToRead : Hand < l
        /\ page # Nil /\ cur \in Int
    BY <2>1, HandIs, BucketIs
  <2>3. YetToRead \subseteq Keys
    <3>1. \A i \in cur + 2 .. Len(page) : i \in 1 .. Len(page)
      BY <2>1, <2>2 DEF S3Inv, Paging
    <3> QED BY <2>2, <3>1, ListPageIs DEF YetToRead
  <2>4. k <= marker /\ k # Hand /\ k \notin YetToRead
    BY <1>1, <1>2, <2>2, <2>3, BucketIs
  <2> QED BY <1>2, <2>4 DEF S3Inv, Covered
<1>3. ASSUME s3end = "eof", NEW k \in Keys, k <= marker PROVE Handled(k)
  <2>1. page = Nil /\ s3pc = "next"
    BY <1>3 DEF S3Inv, EndsRight, Paging
  <2> QED BY <1>3, <2>1 DEF S3Inv, Covered, InHand, YetToRead
<1> QED BY <1>2, <1>3 DEF S3Inv, ReadInOrder, GoesOn, Hand

\* For every number of objects, of messages and of keys a page holds, whatever
\* uploads fail and whatever the bucket's other users do: every file rotated is
\* in the bucket, in order, or its upload was refused; a generator returns
\* messages in order, once each, from objects that were verified, and passes
\* none that was not read, refused or gone; io.EOF is the end of the list, and
\* Generate panics only after it, after a list that failed or was empty, or in
\* Close (onRotate, updateList, Generate).
THEOREM BucketReadable == S3Spec => []BucketReads
<1>1. S3Inv => BucketReads
  BY ReaderGoesOn DEF S3Inv, S3Typed, UploadOrder, BucketReads
<1> QED BY <1>1, S3InvInit, S3InvKept, PTL DEF S3Spec
=============================================================================
