---------------------------- MODULE TcpLogProofs ----------------------------
(***************************************************************************)
(* Proofs about module TcpLog, for every finite set of callers, every      *)
(* number of lines, every size of the Pump, every width of the counters,   *)
(* and whatever the connection does; about module Syslog, for every        *)
(* framing, every number of messages, every set of priorities, and however *)
(* a stream is cut into segments; and about module StreamCodec, for every  *)
(* set of compressions and formats, every number of messages and encoders, *)
(* and wherever crashes cut what was written.                              *)
(***************************************************************************)
EXTENDS TcpLog, Syslog, StreamCodec, Lemmas

-----------------------------------------------------------------------------
(* The inductive invariant                                                 *)

Items == Lines \cup Reports

\* A caller in the select has a line to offer.
Called ==
  \A c \in Callers : /\ calls[c] <= MaxCalls[c]
                     /\ apc[c] = "select" => calls[c] >= 1

\* sendLogs holds a line from the receive to the last write, and what comes
\* from the Pump is never a report of its own.
Held ==
  /\ line # NoLine <=> spc \in {"write", "redial", "rewrite"}
  /\ \A i \in 1 .. Len(Waiting) : Waiting[i][1] # ConnReport

\* s is in order, and so is t after s.
Sorted(s) == \A i, j \in 1 .. Len(s) : i < j => Precedes(s[i], s[j])
Before(s, t) == \A i \in 1 .. Len(s), j \in 1 .. Len(t) : Precedes(s[i], t[j])

Orders ==
  /\ Sorted(written) /\ Sorted(lost) /\ Sorted(Waiting)
  /\ Before(written, Waiting) /\ Before(lost, Waiting)

\* l is in one of the five sets.
InOne(l, O, P, W, G, D) ==
  \/ l \in O /\ l \notin P /\ l \notin W /\ l \notin G /\ l \notin D
  \/ l \notin O /\ l \in P /\ l \notin W /\ l \notin G /\ l \notin D
  \/ l \notin O /\ l \notin P /\ l \in W /\ l \notin G /\ l \notin D
  \/ l \notin O /\ l \notin P /\ l \notin W /\ l \in G /\ l \notin D
  \/ l \notin O /\ l \notin P /\ l \notin W /\ l \notin G /\ l \in D

\* It is in none of them.
InNone(l, O, P, W, G, D) ==
  l \notin O /\ l \notin P /\ l \notin W /\ l \notin G /\ l \notin D

\* A line that was passed in has one fate, any other has none.
Fates ==
  \A l \in Lines :
    IF l \in Passed
    THEN InOne(l, Offering, Range(Waiting), Range(written), Range(lost), dropped)
    ELSE InNone(l, Offering, Range(Waiting), Range(written), Range(lost), dropped)

\* The counters, as congruences.
Counted ==
  /\ IsFiniteSet(dropped)
  /\ Congruent(PumpDropped + reported,
               Cardinality(dropped) + Cardinality(Unsubtracted), Width)
  /\ Congruent(ConnDropped + Cardinality(ReportedLost), Len(lost), Width)

IInv == TypeOK /\ Called /\ Held /\ Orders /\ Fates /\ Counted

-----------------------------------------------------------------------------
(* Lines, reports and sequences of them                                    *)

\* Lines are pairs of a caller and a number, and reports are no lines.
LEMMA LineFacts ==
  /\ \A l \in Lines : /\ l[1] \in Callers /\ l[2] \in 1 .. MaxCalls[l[1]]
                      /\ l = <<l[1], l[2]>>
  /\ \A c \in Callers : \A n \in 1 .. MaxCalls[c] : <<c, n>> \in Lines
  /\ \A r \in Reports : r \notin Lines /\ r[1] \notin Callers
  /\ NoLine \in Reports /\ NoLine[1] = ConnReport
BY TcpLogAssumption DEF Lines, Reports, NoLine

\* What is appended to a sequence in order after all of it.
LEMMA SortedAppend ==
  ASSUME NEW s \in Seq(Items), NEW x \in Items, Sorted(s),
         \A i \in 1 .. Len(s) : Precedes(s[i], x)
  PROVE  Sorted(Append(s, x))
BY DEF Sorted

\* The same of a sequence that follows another.
LEMMA BeforeAppend ==
  ASSUME NEW s \in Seq(Items), NEW t \in Seq(Items), NEW x \in Items,
         Before(s, t), \A i \in 1 .. Len(s) : Precedes(s[i], x)
  PROVE  Before(s, Append(t, x))
BY DEF Before

\* The first of a sequence moves to the end of the one before it.
LEMMA HeadMoves ==
  ASSUME NEW s \in Seq(Items), NEW t \in Seq(Items), t # << >>,
         Sorted(s), Sorted(t), Before(s, t)
  PROVE  /\ Sorted(Append(s, Head(t))) /\ Sorted(Tail(t))
         /\ Before(Append(s, Head(t)), Tail(t))
BY DEF Sorted, Before

\* What is before a sequence is before its tail.
LEMMA BeforeTail ==
  ASSUME NEW s \in Seq(Items), NEW t \in Seq(Items), t # << >>, Before(s, t)
  PROVE  Before(s, Tail(t))
BY DEF Before

\* The order of a concatenation.
LEMMA SortedConcat ==
  ASSUME NEW s \in Seq(Items), NEW t \in Seq(Items),
         Sorted(s), Sorted(t), Before(s, t)
  PROVE  \A i, j \in DOMAIN (s \o t) :
           i < j => Precedes((s \o t)[i], (s \o t)[j])
<1> DEFINE u == s \o t
<1>1. /\ u \in Seq(Items) /\ Len(u) = Len(s) + Len(t)
      /\ \A i \in 1 .. Len(s) : u[i] = s[i]
      /\ \A i \in Len(s) + 1 .. Len(u) : i - Len(s) \in 1 .. Len(t) /\ u[i] = t[i - Len(s)]
  OBVIOUS
<1>2. DOMAIN u = 1 .. Len(u) /\ Len(s) \in Nat /\ Len(t) \in Nat
  BY <1>1
<1> HIDE DEF u
<1>3. ASSUME NEW i \in 1 .. Len(u), NEW j \in 1 .. Len(u), i < j
      PROVE  Precedes(u[i], u[j])
  <2>1. CASE j <= Len(s)
    BY <1>1, <1>2, <1>3, <2>1 DEF Sorted
  <2>2. CASE i <= Len(s) /\ j > Len(s)
    <3>1. j - Len(s) \in 1 .. Len(t) /\ u[j] = t[j - Len(s)] /\ u[i] = s[i] /\ i \in 1 .. Len(s)
      BY <1>1, <1>2, <2>2
    <3> QED BY <3>1 DEF Before
  <2>3. CASE i > Len(s)
    <3>1. /\ j - Len(s) \in 1 .. Len(t) /\ u[j] = t[j - Len(s)]
          /\ i - Len(s) \in 1 .. Len(t) /\ u[i] = t[i - Len(s)]
          /\ i - Len(s) < j - Len(s)
      BY <1>1, <1>2, <1>3, <2>3
    <3> QED BY <3>1 DEF Sorted
  <2> QED BY <1>2, <2>1, <2>2, <2>3
<1> QED BY <1>2, <1>3 DEF u

\* Ranges of a sequence, of its tail and of one that is longer by an element.
LEMMA RangeMoves ==
  ASSUME NEW s \in Seq(Items)
  PROVE  /\ \A l : l \in Range(s) <=> \E i \in 1 .. Len(s) : s[i] = l
         /\ \A x \in Items : /\ Append(s, x) \in Seq(Items)
                             /\ Len(Append(s, x)) = Len(s) + 1
                             /\ Range(Append(s, x)) = Range(s) \cup {x}
         /\ s # << >> => /\ Head(s) \in Items /\ Tail(s) \in Seq(Items)
                         /\ Len(Tail(s)) = Len(s) - 1
                         /\ Range(s) = {Head(s)} \cup Range(Tail(s))
<1>1. \A l : l \in Range(s) <=> \E i \in 1 .. Len(s) : s[i] = l
  BY RangeOf
<1>2. \A x \in Items : /\ Append(s, x) \in Seq(Items)
                       /\ Len(Append(s, x)) = Len(s) + 1
                       /\ Range(Append(s, x)) = Range(s) \cup {x}
  BY DistinctAppend
<1>3. ASSUME s # << >>
      PROVE  /\ Head(s) \in Items /\ Tail(s) \in Seq(Items)
             /\ Len(Tail(s)) = Len(s) - 1
             /\ Range(s) = {Head(s)} \cup Range(Tail(s))
  <2>1. /\ Head(s) \in Items /\ Tail(s) \in Seq(Items)
        /\ Len(Tail(s)) = Len(s) - 1 /\ Len(s) \in Nat /\ Len(s) >= 1
        /\ Head(s) = s[1]
        /\ \A i \in 1 .. Len(s) - 1 : Tail(s)[i] = s[i + 1]
    BY <1>3
  <2> DEFINE t == Tail(s)
  <2>2. \A l : l \in Range(t) <=> \E i \in 1 .. Len(t) : t[i] = l
    <3>1. t \in Seq(Items)
      BY <2>1
    <3> HIDE DEF t
    <3> QED BY <3>1, RangeOf
  <2> HIDE DEF t
  <2>3. ASSUME NEW l PROVE l \in Range(s) <=> l = Head(s) \/ l \in Range(t)
    <3>1. ASSUME NEW i \in 1 .. Len(s), s[i] = l PROVE l = Head(s) \/ l \in Range(t)
      <4>1. CASE i = 1
        BY <2>1, <3>1, <4>1
      <4>2. CASE i # 1
        <5>1. i - 1 \in 1 .. Len(s) - 1 /\ (i - 1) + 1 = i
          BY <2>1, <4>2
        <5>2. t[i - 1] = s[i] /\ i - 1 \in 1 .. Len(t)
          BY <2>1, <5>1 DEF t
        <5> QED BY <5>2, <3>1, <2>2
      <4> QED BY <4>1, <4>2
    <3>2. ASSUME NEW i \in 1 .. Len(t), t[i] = l PROVE l \in Range(s)
      <4>1. i + 1 \in 1 .. Len(s) /\ i \in 1 .. Len(s) - 1
        BY <2>1 DEF t
      <4>2. s[i + 1] = l
        BY <2>1, <3>2, <4>1 DEF t
      <4> QED BY <1>1, <4>1, <4>2
    <3>3. Head(s) \in Range(s)
      <4>1. 1 \in 1 .. Len(s)
        BY <2>1
      <4> QED BY <1>1, <2>1, <4>1
    <3> QED BY <1>1, <2>2, <3>1, <3>2, <3>3
  <2> QED BY <2>1, <2>3 DEF t
<1> QED BY <1>1, <1>2, <1>3

\* The first line of a sequence in order is not in its tail.
LEMMA HeadOnce ==
  ASSUME NEW s \in Seq(Items), s # << >>, Sorted(s), Head(s) \in Lines
  PROVE  Head(s) \notin Range(Tail(s))
<1>1. /\ Len(s) \in Nat /\ Len(s) >= 1 /\ Head(s) = s[1]
      /\ Tail(s) \in Seq(Items) /\ Len(Tail(s)) = Len(s) - 1
      /\ \A i \in 1 .. Len(s) - 1 : Tail(s)[i] = s[i + 1]
  OBVIOUS
<1>2. ASSUME NEW i \in 1 .. Len(s) - 1 PROVE Tail(s)[i] # Head(s)
  <2>1. 1 \in 1 .. Len(s) /\ i + 1 \in 1 .. Len(s) /\ 1 < i + 1
    BY <1>1
  <2>2. Precedes(Head(s), Tail(s)[i])
    BY <1>1, <2>1 DEF Sorted
  <2>3. Head(s)[1] \in Callers /\ Head(s)[2] \in Int
    <3>1. Head(s)[1] \in Callers /\ Head(s)[2] \in 1 .. MaxCalls[Head(s)[1]]
      BY LineFacts
    <3>2. MaxCalls[Head(s)[1]] \in Nat
      BY <3>1, TcpLogAssumption
    <3> QED BY <3>1, <3>2
  <2> QED BY <2>2, <2>3 DEF Precedes
<1>3. \A l : l \in Range(Tail(s)) => \E i \in 1 .. Len(Tail(s)) : Tail(s)[i] = l
  BY <1>1, RangeMoves
<1> QED BY <1>1, <1>2, <1>3

-----------------------------------------------------------------------------
(* What waits                                                              *)

\* What waits is the line of sendLogs, if it has one, and the Pump.
LEMMA WaitingFacts ==
  ASSUME TypeOK
  PROVE  /\ Waiting \in Seq(Items) /\ Pump \in Seq(Items)
         /\ written \in Seq(Items) /\ lost \in Seq(Items) /\ line \in Items
         /\ line = NoLine => Waiting = Pump
         /\ line # NoLine => /\ Waiting # << >> /\ Head(Waiting) = line
                             /\ Tail(Waiting) = Pump
<1>1. /\ Pump \in Seq(Items) /\ written \in Seq(Items) /\ lost \in Seq(Items)
      /\ line \in Items
  BY DEF TypeOK, Items
<1>2. CASE line = NoLine
  BY <1>1, <1>2 DEF Waiting
<1>3. CASE line # NoLine
  <2>1. /\ <<line>> \o Pump \in Seq(Items) /\ <<line>> \o Pump # << >>
        /\ Head(<<line>> \o Pump) = line /\ Tail(<<line>> \o Pump) = Pump
    BY <1>1
  <2>2. Waiting = <<line>> \o Pump
    BY <1>3 DEF Waiting
  <2> QED BY <1>1, <1>3, <2>1, <2>2
<1> QED BY <1>2, <1>3

\* What is put in the Pump comes after all that waits.
LEMMA WaitingGrows ==
  ASSUME TypeOK, NEW x \in Items, Pump' = Append(Pump, x), line' = line
  PROVE  Waiting' = Append(Waiting, x)
<1>1. CASE line = NoLine
  BY <1>1 DEF Waiting
<1>2. CASE line # NoLine
  <2>1. Pump \in Seq(Items) /\ line \in Items
    BY DEF TypeOK, Items
  <2>2. <<line>> \o Append(Pump, x) = Append(<<line>> \o Pump, x)
    BY <2>1
  <2> QED BY <1>2, <2>2 DEF Waiting
<1> QED BY <1>1, <1>2

\* Nothing of it moves.
LEMMA WaitingKeeps ==
  ASSUME UNCHANGED <<line, Pump>>
  PROVE  Waiting' = Waiting
BY DEF Waiting

\* The order of what waits, is written and is lost is kept with them.
LEMMA OrdersKeep ==
  ASSUME Orders, Waiting' = Waiting, UNCHANGED <<written, lost>>
  PROVE  Orders'
BY DEF Orders, Sorted, Before

\* Where lines are is kept with the five sets and what was passed in.
LEMMA FatesKeep ==
  ASSUME Fates, Waiting' = Waiting, UNCHANGED <<calls, written, lost, dropped>>,
         Offering' = Offering
  PROVE  Fates'
<1>1. Passed' = Passed
  BY DEF Passed
<1> QED BY <1>1 DEF Fates, InOne, InNone, Range

\* The reported losses are kept with what was written.
LEMMA ReportedKeeps ==
  ASSUME UNCHANGED written
  PROVE  ReportedLost' = ReportedLost
BY DEF ReportedLost

\* The reports that are not subtracted are kept with their callers.
LEMMA UnsubtractedKeeps ==
  ASSUME \A c \in Callers : apc'[c] = "subtract" <=> apc[c] = "subtract",
         \A c \in Callers : apc[c] = "subtract" => hold'[c] = hold[c]
  PROVE  Unsubtracted' = Unsubtracted
BY DEF Unsubtracted

\* The lines about to be offered are kept with their callers.
LEMMA OfferingKeeps ==
  ASSUME \A c \in Callers : apc'[c] = "select" <=> apc[c] = "select",
         calls' = calls
  PROVE  Offering' = Offering
BY DEF Offering

\* The counts are kept with all that they count.
LEMMA CountedKeeps ==
  ASSUME Counted, Unsubtracted' = Unsubtracted,
         UNCHANGED <<PumpDropped, reported, dropped, ConnDropped, lost, written>>
  PROVE  Counted'
BY ReportedKeeps DEF Counted

\* A step that moves no line and counts nothing.
LEMMA Quiet ==
  ASSUME IInv, UNCHANGED <<callerVars, countVars, Pump, line, written, lost,
                           ConnDropped>>
  PROVE  /\ Called' /\ Orders' /\ Fates' /\ Counted' /\ Waiting' = Waiting
<1> USE DEF callerVars, countVars
<1>1. Waiting' = Waiting
  BY WaitingKeeps
<1>2. Offering' = Offering
  BY OfferingKeeps
<1>3. Unsubtracted' = Unsubtracted
  BY UnsubtractedKeeps
<1>4. Called'
  BY DEF IInv, Called
<1>5. Orders'
  BY <1>1, OrdersKeep DEF IInv
<1>6. Fates'
  BY <1>1, <1>2, FatesKeep DEF IInv
<1>7. Counted'
  BY <1>3, CountedKeeps DEF IInv
<1> QED BY <1>1, <1>4, <1>5, <1>6, <1>7

-----------------------------------------------------------------------------
(* The steps that move no line                                             *)

\* A caller's panic ends the process.
LEMMA SendOnClosedKeeps ==
  ASSUME IInv, NEW c \in Callers, SendOnClosed(c) PROVE IInv'
<1> USE DEF SendOnClosed, closeVars, senderVars
<1>1. /\ Called' /\ Orders' /\ Fates' /\ Counted' /\ Waiting' = Waiting
  BY Quiet
<1>2. TypeOK' /\ Held'
  BY <1>1 DEF IInv, TypeOK, Held, callerVars, countVars
<1> QED BY <1>1, <1>2 DEF IInv

\* sendLogs on its connection.
LEMMA ConnectionKeeps ==
  ASSUME IInv, Dial \/ WriteFails \/ Redial \/ CloseConn PROVE IInv'
<1> USE DEF Dial, WriteFails, Redial, CloseConn, closeVars
<1>1. /\ Called' /\ Orders' /\ Fates' /\ Counted' /\ Waiting' = Waiting
  BY Quiet
<1>2. Held'
  BY <1>1 DEF IInv, Held
<1>3. TypeOK'
  BY DEF IInv, TypeOK, callerVars, countVars
<1> QED BY <1>1, <1>2, <1>3 DEF IInv

\* The end of sendLogs.
LEMMA TakeClosedKeeps ==
  ASSUME IInv, TakeClosed PROVE IInv'
<1> USE DEF TakeClosed
<1>1. /\ Called' /\ Orders' /\ Fates' /\ Counted' /\ Waiting' = Waiting
  BY Quiet
<1>2. Held'
  BY <1>1 DEF IInv, Held
<1>3. TypeOK'
  BY DEF IInv, TypeOK, callerVars, countVars
<1> QED BY <1>1, <1>2, <1>3 DEF IInv

\* cleanup.
LEMMA CleanupKeeps ==
  ASSUME IInv, CallClose \/ \E k \in {"Close", "Run"} : CleanupStep(k)
  PROVE  IInv'
<1> USE DEF CallClose, CleanupStep, TestFlag, ClosePump, SetFlag, senderVars
<1>1. /\ Called' /\ Orders' /\ Fates' /\ Counted' /\ Waiting' = Waiting
  BY Quiet
<1>2. Held'
  BY <1>1 DEF IInv, Held
<1>3. pumpOpen' \in BOOLEAN /\ PumpClosed' \in BOOLEAN
  BY DEF IInv, TypeOK
<1>4. kpc' \in [{"Close", "Run"} -> {"no", "test", "close", "set", "done"}]
  BY ZenonT(60) DEF IInv, TypeOK
<1>5. TypeOK'
  BY ZenonT(60), <1>3, <1>4 DEF IInv, TypeOK, callerVars, countVars
<1> QED BY <1>1, <1>2, <1>5 DEF IInv

-----------------------------------------------------------------------------
(* The steps of the callers                                                *)

\* The line that a caller is about to offer, and what went before it.
LEMMA Offered ==
  ASSUME IInv, NEW c \in Callers, apc[c] = "select"
  PROVE  /\ <<c, calls[c]>> \in Lines /\ <<c, calls[c]>> \in Passed
         /\ <<c, calls[c]>> \in Offering /\ <<c, calls[c]>> \notin Range(Waiting)
         /\ <<c, calls[c]>> \notin Range(written)
         /\ <<c, calls[c]>> \notin Range(lost) /\ <<c, calls[c]>> \notin dropped
         /\ \A s \in {Waiting, written, lost} :
              \A i \in 1 .. Len(s) : Precedes(s[i], <<c, calls[c]>>)
<1> DEFINE x == <<c, calls[c]>>
<1>1. calls[c] \in Nat /\ MaxCalls[c] \in Nat /\ calls[c] \in 1 .. MaxCalls[c]
  BY TcpLogAssumption DEF IInv, TypeOK, Called
<1>2. x \in Lines
  BY <1>1, LineFacts
<1>3. x \in Passed
  BY <1>1, <1>2 DEF Passed
<1>4. x \in Offering
  BY DEF Offering
<1>5. x \notin Range(Waiting) /\ x \notin Range(written) /\ x \notin Range(lost) /\ x \notin dropped
  BY <1>2, <1>3, <1>4 DEF IInv, Fates, InOne
<1>6. ASSUME NEW s \in {Waiting, written, lost}, NEW i \in 1 .. Len(s)
      PROVE  Precedes(s[i], x)
  <2>1. s \in Seq(Items)
    BY WaitingFacts DEF IInv
  <2> DEFINE y == s[i]
  <2>2. y \in Items /\ y \in Range(s)
    BY <2>1, RangeMoves
  <2>3. CASE y \in Lines
    <3>1. y \in Passed
      BY <2>2, <2>3 DEF IInv, Fates, InNone
    <3>2. y # x
      BY <2>2, <1>5
    <3>3. y[1] \in Callers /\ y[2] \in 1 .. MaxCalls[y[1]] /\ y = <<y[1], y[2]>>
      BY <2>3, LineFacts
    <3>4. y[2] <= calls[y[1]]
      BY <3>1 DEF Passed
    <3> HIDE DEF y
    <3>5. ASSUME y[1] = c PROVE y[2] < calls[c]
      <4>1. y[2] \in Int
        BY <1>1, <3>3, <3>5
      <4>2. y[2] # calls[c] /\ y[2] <= calls[c]
        BY <3>2, <3>3, <3>4, <3>5
      <4> QED BY <1>1, <4>1, <4>2
    <3> QED BY <3>5 DEF Precedes, y
  <2>4. CASE y \in Reports
    <3>1. y[1] \notin Callers
      BY <2>4, LineFacts
    <3> QED BY <3>1 DEF Precedes
  <2> QED BY <2>2, <2>3, <2>4 DEF Items
<1> QED BY <1>2, <1>3, <1>4, <1>5, <1>6

\* ReadAsync gets past the flag: a new line is about to be offered.
LEMMA CheckKeeps ==
  ASSUME IInv, NEW c \in Callers, Check(c) PROVE IInv'
<1> USE DEF Check, senderVars, closeVars, countVars
<1> DEFINE x == <<c, calls[c] + 1>>
<1>1. /\ calls[c] \in Nat /\ MaxCalls[c] \in Nat /\ calls[c] + 1 \in 1 .. MaxCalls[c]
      /\ calls'[c] = calls[c] + 1 /\ apc'[c] = "select"
      /\ \A d \in Callers : d # c => calls'[d] = calls[d] /\ apc'[d] = apc[d]
  <2>1. /\ calls \in [Callers -> Nat] /\ calls[c] \in Nat /\ MaxCalls[c] \in Nat
        /\ calls[c] < MaxCalls[c] /\ DOMAIN apc = Callers
    BY TcpLogAssumption DEF IInv, TypeOK
  <2>2. calls[c] + 1 \in 1 .. MaxCalls[c]
    BY ONLY <2>1
  <2> QED BY <2>1, <2>2
<1>2. TypeOK'
  <2>1. calls' \in [Callers -> Nat]
    BY DEF IInv, TypeOK
  <2> QED BY <2>1 DEF IInv, TypeOK
<1>3. Called'
  BY <1>1 DEF IInv, Called
<1>4. Waiting' = Waiting
  BY WaitingKeeps
<1>5. Held' /\ Orders'
  BY <1>4, OrdersKeep DEF IInv, Held
<1>6. x \in Lines /\ x \notin Passed
  <2>1. x \in Lines
    BY <1>1, LineFacts
  <2> QED BY <2>1, <1>1 DEF Passed
<1>7. \A l \in Lines : l \in Passed' <=> l \in Passed \/ l = x
  <2>1. ASSUME NEW l \in Lines PROVE l \in Passed' <=> l \in Passed \/ l = x
    <3>1. /\ l[1] \in Callers /\ l[2] \in 1 .. MaxCalls[l[1]] /\ l = <<l[1], l[2]>>
          /\ MaxCalls[l[1]] \in Nat
      BY LineFacts, TcpLogAssumption
    <3>2. l \in Passed' <=> l[2] <= calls'[l[1]]
      BY DEF Passed
    <3>3. l \in Passed <=> l[2] <= calls[l[1]]
      BY DEF Passed
    <3>4. CASE l[1] = c
      <4>1. l = x <=> l[2] = calls[c] + 1
        BY <3>1, <3>4
      <4>2. l[2] \in Int
        BY <3>1
      <4> HIDE DEF x
      <4> QED BY <1>1, <3>2, <3>3, <3>4, <4>1, <4>2
    <3>5. CASE l[1] # c
      BY <1>1, <3>1, <3>2, <3>3, <3>5
    <3> QED BY <3>4, <3>5
  <2> QED BY <2>1
<1>8. \A l : l \in Offering' <=> l \in Offering \/ l = x
  BY <1>1 DEF Offering
<1>9. Fates'
  <2> HIDE DEF x
  <2> QED BY <1>4, <1>6, <1>7, <1>8 DEF IInv, Fates, InOne, InNone, Range
<1>10. Unsubtracted' = Unsubtracted
  BY <1>1, UnsubtractedKeeps
<1>11. Counted'
  BY <1>10, CountedKeeps DEF IInv
<1> QED BY <1>2, <1>3, <1>5, <1>9, <1>11 DEF IInv

\* The lines about to be offered without the one of a caller that is done.
LEMMA OfferingShrinks ==
  ASSUME IInv, NEW c \in Callers, apc[c] = "select", calls' = calls,
         apc'[c] # "select", \A d \in Callers : d # c => apc'[d] = apc[d]
  PROVE  \A l : l \in Offering' <=> l \in Offering /\ l # <<c, calls[c]>>
BY DEF Offering

\* A line goes into the Pump.
LEMMA OfferKeeps ==
  ASSUME IInv, NEW c \in Callers, Offer(c) PROVE IInv'
<1> USE DEF Offer, senderVars, closeVars, countVars
<1> DEFINE x == <<c, calls[c]>>
<1>1. /\ apc'[c] = "load" /\ apc[c] = "select"
      /\ \A d \in Callers : d # c => apc'[d] = apc[d]
  BY DEF IInv, TypeOK
<1>2. x \in Lines /\ x \in Items /\ x[1] # ConnReport /\ x \in Passed /\ x \in Offering
      /\ x \notin Range(Waiting) /\ x \notin Range(written)
      /\ x \notin Range(lost) /\ x \notin dropped
  BY <1>1, Offered, TcpLogAssumption DEF Items
<1>3. \A s \in {Waiting, written, lost} : \A i \in 1 .. Len(s) : Precedes(s[i], x)
  BY <1>1, Offered
<1>4. Pump' = Append(Pump, x) /\ UNCHANGED <<line, calls, written, lost, dropped, spc>>
  OBVIOUS
<1>5. \A l : l \in Offering' <=> l \in Offering /\ l # x
  BY <1>1, OfferingShrinks
<1>6. Unsubtracted' = Unsubtracted
  BY <1>1, UnsubtractedKeeps
<1>7. TypeOK'
  <2>1. Pump' \in Seq(Lines \cup Reports) /\ Len(Pump') <= BufferSize
    BY <1>2, <1>4, TcpLogAssumption DEF IInv, TypeOK, Room, Items
  <2>2. apc' \in [Callers -> {"idle", "select", "load", "report", "subtract"}]
    BY DEF IInv, TypeOK
  <2> QED BY <2>1, <2>2 DEF IInv, TypeOK
<1> HIDE DEF x
<1>8. Waiting' = Append(Waiting, x)
  BY <1>2, <1>4, WaitingGrows DEF IInv
<1>9. Waiting \in Seq(Items) /\ written \in Seq(Items) /\ lost \in Seq(Items)
  BY WaitingFacts DEF IInv
<1>10. Called'
  BY <1>1 DEF IInv, Called
<1>11. Held'
  BY <1>2, <1>8, <1>9 DEF IInv, Held
<1>12. Orders'
  <2>1. /\ Sorted(Waiting) /\ Sorted(written) /\ Sorted(lost)
        /\ Before(written, Waiting) /\ Before(lost, Waiting)
    BY DEF IInv, Orders
  <2>2. /\ Sorted(Append(Waiting, x)) /\ Before(written, Append(Waiting, x))
        /\ Before(lost, Append(Waiting, x))
    BY <1>2, <1>3, <1>9, <2>1, SortedAppend, BeforeAppend
  <2> QED BY <1>4, <1>8, <2>1, <2>2 DEF Orders, Sorted, Before
<1>13. Fates'
  <2>1. Range(Append(Waiting, x)) = Range(Waiting) \cup {x}
    BY <1>2, <1>9, RangeMoves
  <2>2. Range(Waiting)' = Range(Waiting) \cup {x}
    BY <1>8, <2>1 DEF Range
  <2>3. Passed' = Passed /\ Range(written)' = Range(written) /\ Range(lost)' = Range(lost)
    BY <1>4 DEF Passed, Range
  <2> QED BY <1>2, <1>4, <1>5, <2>2, <2>3 DEF IInv, Fates, InOne, InNone
<1>14. Counted'
  BY <1>6, CountedKeeps DEF IInv
<1> QED BY <1>7, <1>10, <1>11, <1>12, <1>13, <1>14 DEF IInv

\* A sum that stays the same modulo the width when both sides grow by n.
LEMMA CountsMore ==
  ASSUME NEW a \in Int, NEW b \in Int, NEW n \in Int, Congruent(a, b, Width)
  PROVE  Congruent(a + n, b + n, Width)
<1>1. Width \in Int /\ Congruent(n, n, Width)
  BY TcpLogAssumption, CongruentReflexive
<1> QED BY <1>1, CongruentSum

\* What atomic.AddUint64 leaves, and what it adds to, are the same modulo the
\* width, whatever is added to both.
LEMMA CountsModulo ==
  ASSUME NEW a \in Int, NEW n \in Int, NEW b \in Int, Congruent(a + n, b, Width)
  PROVE  Congruent((a % Width) + n, b, Width)
<1>1. Width \in Nat /\ Width > 0 /\ Width \in Int
  BY TcpLogAssumption
<1>2. a % Width \in 0 .. Width - 1 /\ Congruent(a % Width, a, Width)
  BY <1>1, Remainder
<1> DEFINE r == a % Width
<1>3. r \in Int /\ Congruent(r, a, Width)
  BY <1>1, <1>2
<1> HIDE DEF r
<1>4. Congruent(r + n, a + n, Width)
  BY <1>3, CountsMore
<1>5. Congruent(r + n, b, Width)
  BY <1>1, <1>3, <1>4, CongruentTransitive
<1> QED BY <1>5 DEF r

\* What is counted is finite.
LEMMA CountedFinite ==
  ASSUME TypeOK, Counted
  PROVE  /\ Cardinality(dropped) \in Nat
         /\ IsFiniteSet(Unsubtracted) /\ Cardinality(Unsubtracted) \in Nat
         /\ IsFiniteSet(ReportedLost) /\ Cardinality(ReportedLost) \in Nat
         /\ Width \in Nat /\ Width > 0 /\ PumpDropped \in Nat /\ ConnDropped \in Nat
         /\ reported \in Nat /\ Len(lost) \in Nat
         /\ PumpDropped < Width /\ ConnDropped < Width
<1>1. /\ Width \in Nat /\ Width > 0 /\ PumpDropped \in Nat /\ ConnDropped \in Nat
      /\ reported \in Nat /\ Len(lost) \in Nat /\ PumpDropped < Width
      /\ ConnDropped < Width
  BY TcpLogAssumption DEF TypeOK
<1>2. IsFiniteSet(1 .. Width)
  BY <1>1, CardinalityInterval
<1>3. IsFiniteSet(Unsubtracted)
  <2> DEFINE S == Callers \X (1 .. Width)
  <2>1. IsFiniteSet(Callers)
    BY TcpLogAssumption
  <2>2. IsFiniteSet(S)
    BY ONLY <1>2, <2>1, FS_Product
  <2>3. Unsubtracted \in SUBSET S
    BY DEF Unsubtracted
  <2> HIDE DEF S
  <2> QED BY ONLY <2>2, <2>3, FS_Subset
<1>4. IsFiniteSet(ReportedLost)
  <2> DEFINE D == 1 .. Len(written)
  <2> DEFINE S == D \X (1 .. Width)
  <2>1. written \in Seq(Lines \cup Reports) /\ Len(written) \in Nat /\ DOMAIN written = D
    BY DEF TypeOK
  <2>2. IsFiniteSet(D)
    BY <2>1, CardinalityInterval
  <2>3. ReportedLost \in SUBSET S
    BY <2>1 DEF ReportedLost
  <2> HIDE DEF D
  <2>4. IsFiniteSet(S)
    BY ONLY <1>2, <2>2, FS_Product
  <2> HIDE DEF S
  <2> QED BY ONLY <2>3, <2>4, FS_Subset
<1>5. IsFiniteSet(dropped)
  BY DEF Counted
<1> QED BY <1>1, <1>3, <1>4, <1>5, FS_CardinalityType

\* The Pump is full: the line is dropped and counted.
LEMMA DropKeeps ==
  ASSUME IInv, NEW c \in Callers, Drop(c) PROVE IInv'
<1> USE DEF Drop, senderVars, closeVars
<1> DEFINE x == <<c, calls[c]>>
<1>1. /\ apc'[c] = "idle" /\ apc[c] = "select"
      /\ \A d \in Callers : d # c => apc'[d] = apc[d]
  BY DEF IInv, TypeOK
<1>2. x \in Lines /\ x \in Passed /\ x \in Offering
      /\ x \notin Range(Waiting) /\ x \notin Range(written)
      /\ x \notin Range(lost) /\ x \notin dropped
  BY <1>1, Offered
<1>3. Waiting' = Waiting
  BY WaitingKeeps
<1>4. \A l : l \in Offering' <=> l \in Offering /\ l # x
  BY <1>1, OfferingShrinks
<1>5. Unsubtracted' = Unsubtracted /\ ReportedLost' = ReportedLost
  BY <1>1, UnsubtractedKeeps, ReportedKeeps
<1>6. dropped' = dropped \cup {x} /\ UNCHANGED <<calls, written, lost, reported, ConnDropped>>
  OBVIOUS
<1>7. PumpDropped' = (PumpDropped + 1) % Width
  BY DEF CountsOne
<1>8. TypeOK'
  <2>1. PumpDropped' \in 0 .. Width - 1
    <3>1. PumpDropped + 1 \in Int /\ Width \in Nat /\ Width > 0
      BY CountedFinite DEF IInv
    <3> QED BY <1>7, <3>1, Remainder
  <2>2. apc' \in [Callers -> {"idle", "select", "load", "report", "subtract"}]
    BY DEF IInv, TypeOK
  <2>3. dropped' \subseteq Lines
    BY <1>2, <1>6 DEF IInv, TypeOK
  <2> QED BY <2>1, <2>2, <2>3 DEF IInv, TypeOK
<1> HIDE DEF x
<1>9. Called'
  BY <1>1 DEF IInv, Called
<1>10. Held' /\ Orders'
  BY <1>3, OrdersKeep DEF IInv, Held
<1>11. Fates'
  <2>1. Passed' = Passed /\ Range(written)' = Range(written) /\ Range(lost)' = Range(lost)
        /\ Range(Waiting)' = Range(Waiting)
    BY <1>3, <1>6 DEF Passed, Range
  <2> QED BY <1>2, <1>4, <1>6, <2>1 DEF IInv, Fates, InOne, InNone
<1>12. Counted'
  <2>1. /\ IsFiniteSet(dropped')
        /\ Cardinality(dropped') = Cardinality(dropped) + 1
    <3>1. IsFiniteSet(dropped)
      BY DEF IInv, Counted
    <3>2. /\ IsFiniteSet(dropped \cup {x})
          /\ Cardinality(dropped \cup {x}) =
               IF x \in dropped THEN Cardinality(dropped) ELSE Cardinality(dropped) + 1
      BY ONLY <3>1, FS_AddElement
    <3> QED BY ONLY <1>2, <1>6, <3>2
  <2> DEFINE k == Cardinality(dropped)
  <2> DEFINE u == Cardinality(Unsubtracted)
  <2>2. /\ PumpDropped \in Nat /\ reported \in Nat /\ k \in Nat /\ u \in Nat
    BY CountedFinite DEF IInv
  <2>3. Congruent(PumpDropped + reported, k + u, Width)
    BY DEF IInv, Counted
  <2>4. Congruent(((PumpDropped + 1) % Width) + reported, (k + 1) + u, Width)
    <3> HIDE DEF k, u
    <3>1. Congruent((PumpDropped + reported) + 1, (k + u) + 1, Width)
      <4>1. PumpDropped + reported \in Int /\ k + u \in Int /\ 1 \in Int
        BY ONLY <2>2
      <4> QED BY ONLY <4>1, <2>3, CountsMore
    <3>2. /\ (PumpDropped + reported) + 1 = (PumpDropped + 1) + reported
          /\ (k + u) + 1 = (k + 1) + u
          /\ PumpDropped + 1 \in Int /\ (k + 1) + u \in Int
      BY <2>2
    <3>3. Congruent((PumpDropped + 1) + reported, (k + 1) + u, Width)
      BY <3>1, <3>2
    <3> QED BY <2>2, <3>2, <3>3, CountsModulo
  <2> QED BY <1>5, <1>6, <1>7, <2>1, <2>4 DEF IInv, Counted
<1> QED BY <1>8, <1>9, <1>10, <1>11, <1>12 DEF IInv

\* The count of drops is read.
LEMMA LoadKeeps ==
  ASSUME IInv, NEW c \in Callers, Load(c) PROVE IInv'
<1> USE DEF Load, senderVars, closeVars, countVars
<1>1. /\ apc'[c] \in {"report", "idle"} /\ apc[c] = "load"
      /\ \A d \in Callers : d # c => apc'[d] = apc[d] /\ hold'[d] = hold[d]
  BY DEF IInv, TypeOK
<1>2. Waiting' = Waiting /\ Offering' = Offering /\ Unsubtracted' = Unsubtracted
  BY <1>1, WaitingKeeps, OfferingKeeps, UnsubtractedKeeps
<1>3. TypeOK'
  <2>1. apc' \in [Callers -> {"idle", "select", "load", "report", "subtract"}]
    BY DEF IInv, TypeOK
  <2>2. hold' \in [Callers -> 0 .. Width - 1]
    BY DEF IInv, TypeOK
  <2> QED BY <2>1, <2>2 DEF IInv, TypeOK
<1>4. Called'
  BY <1>1 DEF IInv, Called
<1>5. Held' /\ Orders' /\ Fates' /\ Counted'
  BY <1>2, OrdersKeep, FatesKeep, CountedKeeps DEF IInv, Held
<1> QED BY <1>3, <1>4, <1>5 DEF IInv

\* The drops of a caller that reported them, next to those of the others.
Others(c) == {p \in Unsubtracted : p[1] # c}

\* A caller's reported drops are so many pairs.
LEMMA ReportedPairs ==
  ASSUME IInv, NEW c \in Callers
  PROVE  /\ hold[c] \in Nat /\ hold[c] < Width
         /\ apc[c] = "subtract" =>
              /\ Unsubtracted = Others(c) \cup ({c} \X (1 .. hold[c]))
              /\ Cardinality(Unsubtracted) = Cardinality(Others(c)) + hold[c]
         /\ apc[c] # "subtract" => Unsubtracted = Others(c)
         /\ IsFiniteSet(Others(c)) /\ Cardinality(Others(c)) \in Nat
         /\ \A p \in Others(c) : p \notin {c} \X (1 .. hold[c])
<1>1. hold[c] \in Nat /\ hold[c] < Width /\ Width \in Nat
  BY TcpLogAssumption DEF IInv, TypeOK
<1>2. IsFiniteSet(Others(c))
  <2>1. IsFiniteSet(Unsubtracted) /\ Others(c) \in SUBSET Unsubtracted
    BY CountedFinite DEF IInv, Others
  <2> QED BY ONLY <2>1, FS_Subset
<1>3. \A p \in Others(c) : p \notin {c} \X (1 .. hold[c])
  BY DEF Others
<1>4. apc[c] = "subtract" => Unsubtracted = Others(c) \cup ({c} \X (1 .. hold[c]))
  BY <1>1 DEF Unsubtracted, Others
<1>5. apc[c] # "subtract" => Unsubtracted = Others(c)
  BY DEF Unsubtracted, Others
<1>6. /\ Cardinality(Others(c) \cup ({c} \X (1 .. hold[c])))
           = Cardinality(Others(c)) + hold[c]
      /\ Cardinality(Others(c)) \in Nat
  BY ONLY <1>1, <1>2, <1>3, CardinalityPairs
<1> QED BY <1>1, <1>2, <1>3, <1>4, <1>5, <1>6

\* The report of n drops goes into the Pump: no line moves.
LEMMA ReportGoesIn ==
  ASSUME IInv, NEW n \in Nat, Room, Pump' = Append(Pump, <<PumpReport, n>>),
         UNCHANGED <<calls, line, written, lost, dropped, spc>>, Offering' = Offering
  PROVE  /\ Pump' \in Seq(Lines \cup Reports) /\ Len(Pump') <= BufferSize
         /\ Held' /\ Orders' /\ Fates'
<1> DEFINE r == <<PumpReport, n>>
<1>1. r \in Reports /\ r \in Items /\ r[1] # ConnReport /\ r[1] \notin Callers
      /\ r \notin Lines
  BY TcpLogAssumption, LineFacts DEF Reports, Items
<1>2. Pump' = Append(Pump, r)
  OBVIOUS
<1> HIDE DEF r
<1>3. Pump' \in Seq(Lines \cup Reports) /\ Len(Pump') <= BufferSize
  <2>1. Pump \in Seq(Items) /\ BufferSize \in Nat /\ Len(Pump) < BufferSize
    BY TcpLogAssumption DEF IInv, TypeOK, Room, Items
  <2>2. Append(Pump, r) \in Seq(Items) /\ Len(Append(Pump, r)) <= BufferSize
    BY <1>1, <2>1
  <2> QED BY <1>2, <2>2 DEF Items
<1>4. Waiting' = Append(Waiting, r)
  BY <1>1, <1>2, WaitingGrows DEF IInv
<1>5. Waiting \in Seq(Items) /\ written \in Seq(Items) /\ lost \in Seq(Items)
  BY WaitingFacts DEF IInv
<1>6. Held'
  BY <1>1, <1>4, <1>5 DEF IInv, Held
<1>7. \A y : Precedes(y, r)
  BY <1>1 DEF Precedes
<1>8. Orders'
  <2>1. /\ Sorted(Waiting) /\ Sorted(written) /\ Sorted(lost)
        /\ Before(written, Waiting) /\ Before(lost, Waiting)
    BY DEF IInv, Orders
  <2>2. /\ Sorted(Append(Waiting, r)) /\ Before(written, Append(Waiting, r))
        /\ Before(lost, Append(Waiting, r))
    BY <1>1, <1>7, <1>5, <2>1, SortedAppend, BeforeAppend
  <2> QED BY <1>4, <2>1, <2>2 DEF Orders, Sorted, Before
<1>9. Fates'
  <2>1. Range(Append(Waiting, r)) = Range(Waiting) \cup {r}
    BY <1>1, <1>5, RangeMoves
  <2>2. \A l \in Lines : l \in Range(Waiting)' <=> l \in Range(Waiting)
    BY <1>1, <1>4, <2>1 DEF Range
  <2>3. Passed' = Passed /\ Range(written)' = Range(written) /\ Range(lost)' = Range(lost)
    BY DEF Passed, Range
  <2> QED BY <2>2, <2>3 DEF IInv, Fates, InOne, InNone
<1> QED BY <1>3, <1>6, <1>8, <1>9

\* A caller reports the drops it read, if there is room.
LEMMA ReportKeeps ==
  ASSUME IInv, NEW c \in Callers, Report(c) PROVE IInv'
<1> USE DEF Report, senderVars, closeVars
<1>1. CASE ~Room
  <2>1. /\ apc'[c] = "idle" /\ apc[c] = "report" /\ UNCHANGED <<Pump, reported>>
        /\ \A d \in Callers : d # c => apc'[d] = apc[d]
    BY <1>1 DEF IInv, TypeOK
  <2>2. Waiting' = Waiting /\ Offering' = Offering /\ Unsubtracted' = Unsubtracted
    BY <2>1, WaitingKeeps, OfferingKeeps, UnsubtractedKeeps
  <2>3. TypeOK'
    BY <1>1 DEF IInv, TypeOK
  <2>4. Called'
    BY <2>1 DEF IInv, Called
  <2>5. Held' /\ Orders' /\ Fates' /\ Counted'
    BY <2>1, <2>2, OrdersKeep, FatesKeep, CountedKeeps DEF IInv, Held
  <2> QED BY <2>3, <2>4, <2>5 DEF IInv
<1>2. CASE Room
  <2> DEFINE n == hold[c]
  <2>1. /\ apc'[c] = "subtract" /\ apc[c] = "report"
        /\ \A d \in Callers : d # c => apc'[d] = apc[d]
    BY <1>2 DEF IInv, TypeOK
  <2>2. /\ n \in Nat /\ n < Width /\ Unsubtracted = Others(c)
        /\ IsFiniteSet(Unsubtracted)
        /\ \A p \in Unsubtracted : p \notin {c} \X (1 .. n)
    BY <2>1, ReportedPairs
  <2>3. Offering' = Offering
    BY <2>1, OfferingKeeps
  <2>4. Pump' = Append(Pump, <<PumpReport, n>>) /\ reported' = reported + n
    BY <1>2
  <2>5. Unsubtracted' = Unsubtracted \cup ({c} \X (1 .. n))
    <3>1. Width \in Nat /\ hold' = hold
      BY TcpLogAssumption
    <3> QED BY <2>1, <2>2, <3>1 DEF Unsubtracted
  <2>6. /\ Cardinality(Unsubtracted \cup ({c} \X (1 .. n))) = Cardinality(Unsubtracted) + n
        /\ Cardinality(Unsubtracted) \in Nat
    BY ONLY <2>2, CardinalityPairs
  <2>7. /\ Pump' \in Seq(Lines \cup Reports) /\ Len(Pump') <= BufferSize
        /\ Held' /\ Orders' /\ Fates'
    BY <1>2, <2>2, <2>3, <2>4, ReportGoesIn
  <2>8. TypeOK'
    <3>1. apc' \in [Callers -> {"idle", "select", "load", "report", "subtract"}]
      BY <1>2 DEF IInv, TypeOK
    <3>2. reported' \in Nat
      BY <2>2, <2>4 DEF IInv, TypeOK
    <3> QED BY <2>7, <3>1, <3>2 DEF IInv, TypeOK
  <2>9. Called'
    BY <2>1 DEF IInv, Called
  <2>10. Counted'
    <3> DEFINE u == Cardinality(Unsubtracted)
    <3> DEFINE k == Cardinality(dropped)
    <3> DEFINE p == PumpDropped + reported
    <3>1. p \in Int /\ k + u \in Int /\ n \in Int /\ PumpDropped \in Int
          /\ reported \in Int /\ k \in Int /\ u \in Int
      BY <2>2, CountedFinite DEF IInv
    <3>2. Congruent(p, k + u, Width)
      BY DEF IInv, Counted
    <3>3. ReportedLost' = ReportedLost
      BY ReportedKeeps
    <3>4. Cardinality(Unsubtracted') = u + n
      BY ONLY <2>5, <2>6
    <3>5. PumpDropped + reported' = p + n
      BY <2>4, <3>1
    <3> HIDE DEF u, k, p, n
    <3>6. Congruent(p + n, (k + u) + n, Width)
      BY ONLY <3>1, <3>2, CountsMore
    <3>7. (k + u) + n = k + (u + n)
      BY <3>1
    <3>8. Congruent(p + n, k + (u + n), Width)
      BY <3>6, <3>7
    <3> QED BY <3>3, <3>4, <3>5, <3>8 DEF IInv, Counted, k
  <2> QED BY <2>7, <2>8, <2>9, <2>10 DEF IInv
<1> QED BY <1>1, <1>2

\* The drops that were reported leave the counter.
LEMMA SubtractKeeps ==
  ASSUME IInv, NEW c \in Callers, Subtract(c) PROVE IInv'
<1> USE DEF Subtract, senderVars, closeVars
<1> DEFINE n == hold[c]
<1>1. /\ apc'[c] = "idle" /\ apc[c] = "subtract"
      /\ \A d \in Callers : d # c => apc'[d] = apc[d]
  BY DEF IInv, TypeOK
<1>2. Waiting' = Waiting /\ Offering' = Offering /\ ReportedLost' = ReportedLost
  BY <1>1, WaitingKeeps, OfferingKeeps, ReportedKeeps
<1>3. /\ n \in Nat /\ n < Width /\ Cardinality(Others(c)) \in Nat
      /\ Cardinality(Unsubtracted) = Cardinality(Others(c)) + n
  BY <1>1, ReportedPairs
<1>4. Unsubtracted' = Others(c)
  BY <1>1 DEF Unsubtracted, Others
<1>5. PumpDropped' = (PumpDropped - n) % Width
  BY DEF Reduces
<1>6. TypeOK'
  <2>1. PumpDropped' \in 0 .. Width - 1
    <3>1. PumpDropped - n \in Int /\ Width \in Nat /\ Width > 0
      BY <1>3, CountedFinite DEF IInv
    <3> QED BY <1>5, <3>1, Remainder
  <2>2. apc' \in [Callers -> {"idle", "select", "load", "report", "subtract"}]
    BY DEF IInv, TypeOK
  <2> QED BY <2>1, <2>2 DEF IInv, TypeOK
<1>7. Called'
  BY <1>1 DEF IInv, Called
<1>8. Held' /\ Orders' /\ Fates'
  BY <1>2, OrdersKeep, FatesKeep DEF IInv, Held
<1>9. Counted'
  <2> DEFINE u == Cardinality(Others(c))
  <2> DEFINE k == Cardinality(dropped)
  <2>1. /\ PumpDropped \in Int /\ reported \in Int /\ k \in Int /\ u \in Int /\ n \in Int
    BY <1>3, CountedFinite DEF IInv
  <2>2. Congruent(PumpDropped + reported, k + (u + n), Width)
    <3>1. Congruent(PumpDropped + reported, k + Cardinality(Unsubtracted), Width)
      BY DEF IInv, Counted
    <3> QED BY ONLY <1>3, <3>1
  <2> HIDE DEF u, k, n
  <2>3. PumpDropped + reported \in Int /\ k + (u + n) \in Int /\ -n \in Int
        /\ (PumpDropped + reported) + (-n) = (PumpDropped - n) + reported
        /\ (k + (u + n)) + (-n) = k + u
        /\ PumpDropped - n \in Int /\ k + u \in Int
    BY <2>1
  <2>4. Congruent((PumpDropped + reported) + (-n), (k + (u + n)) + (-n), Width)
    BY ONLY <2>2, <2>3, CountsMore
  <2>5. Congruent((PumpDropped - n) + reported, k + u, Width)
    BY ONLY <2>3, <2>4
  <2>6. Congruent(((PumpDropped - n) % Width) + reported, k + u, Width)
    BY ONLY <2>1, <2>3, <2>5, CountsModulo
  <2> QED BY <1>2, <1>4, <1>5, <2>6 DEF IInv, Counted, u, k
<1> QED BY <1>6, <1>7, <1>8, <1>9 DEF IInv

-----------------------------------------------------------------------------
(* The steps of sendLogs                                                   *)

\* What sendLogs receives still waits.
LEMMA TakeKeeps ==
  ASSUME IInv, Take PROVE IInv'
<1> USE DEF Take, callerVars, countVars, closeVars
<1>1. line = NoLine /\ Waiting = Pump /\ Pump \in Seq(Items)
  BY WaitingFacts DEF IInv, Held
<1>2. /\ Head(Pump) \in Items /\ Tail(Pump) \in Seq(Items)
      /\ Len(Tail(Pump)) <= Len(Pump) /\ Len(Pump) \in Nat /\ Len(Pump) >= 1
      /\ Head(Pump) = Pump[1] /\ <<Head(Pump)>> \o Tail(Pump) = Pump
  BY <1>1
<1>3. Head(Pump) # NoLine
  <2>1. 1 \in 1 .. Len(Waiting)
    BY <1>1, <1>2
  <2>2. Head(Pump)[1] # ConnReport
    BY <1>1, <1>2, <2>1 DEF IInv, Held
  <2> QED BY <2>2, LineFacts
<1>4. Waiting' = Waiting
  BY <1>1, <1>2, <1>3 DEF Waiting, NoLine
<1>5. TypeOK'
  <2>1. /\ Pump' \in Seq(Lines \cup Reports) /\ Len(Pump') <= BufferSize
        /\ line' \in Lines \cup Reports
    <3>1. Len(Pump) <= BufferSize /\ BufferSize \in Nat
      BY TcpLogAssumption DEF IInv, TypeOK
    <3>2. Len(Tail(Pump)) \in Nat
      BY <1>2
    <3>3. Len(Tail(Pump)) <= BufferSize
      BY <1>2, <3>1, <3>2
    <3> QED BY <1>2, <3>3 DEF Items
  <2> QED BY <2>1 DEF IInv, TypeOK
<1>6. Held'
  BY <1>3, <1>4 DEF IInv, Held, NoLine
<1>7. Offering' = Offering /\ Unsubtracted' = Unsubtracted
  BY OfferingKeeps, UnsubtractedKeeps
<1>8. Called' /\ Orders' /\ Fates' /\ Counted'
  BY <1>4, <1>7, OrdersKeep, FatesKeep, CountedKeeps DEF IInv, Called
<1> QED BY <1>5, <1>6, <1>8 DEF IInv

\* The line of sendLogs leaves it: it is written or given up.
LEMMA LineLeaves ==
  ASSUME IInv, line # NoLine, line' = NoLine, Pump' = Pump,
         spc' \notin {"write", "redial", "rewrite"},
         UNCHANGED <<calls, dropped>>, Offering' = Offering,
         \/ written' = Append(written, line) /\ lost' = lost
         \/ lost' = Append(lost, line) /\ written' = written
  PROVE  /\ written' \in Seq(Items) /\ lost' \in Seq(Items)
         /\ line' \in Items /\ line \in Items /\ line[1] # ConnReport
         /\ Held' /\ Orders' /\ Fates'
<1>1. /\ Waiting \in Seq(Items) /\ written \in Seq(Items) /\ lost \in Seq(Items)
      /\ Waiting # << >> /\ Head(Waiting) = line /\ Tail(Waiting) = Pump
      /\ line \in Items
  BY WaitingFacts DEF IInv
<1>2. Waiting' = Tail(Waiting)
  <2>1. Waiting' = Pump
    BY DEF Waiting, NoLine
  <2> QED BY <1>1, <2>1
<1> DEFINE w == Waiting
<1> HIDE DEF w
<1>3. /\ w \in Seq(Items) /\ w # << >> /\ Head(w) = line /\ Waiting' = Tail(w)
  BY <1>1, <1>2 DEF w
<1>4. /\ Len(w) \in Nat /\ Len(w) >= 1 /\ Len(Tail(w)) = Len(w) - 1 /\ line = w[1]
      /\ \A i \in 1 .. Len(w) - 1 : Tail(w)[i] = w[i + 1]
  BY <1>3
<1>5. \A i \in 1 .. Len(w) : w[i][1] # ConnReport
  BY DEF IInv, Held, w
<1>6. line[1] # ConnReport
  BY <1>4, <1>5
<1>7. line' \in Items
  BY LineFacts DEF Items
<1>8. Held'
  <2>1. \A i \in 1 .. Len(Waiting') : Waiting'[i][1] # ConnReport
    BY <1>3, <1>4, <1>5
  <2>2. line' = NoLine'
    BY DEF NoLine
  <2> QED BY <2>1, <2>2 DEF Held
<1>9. /\ Sorted(w) /\ Sorted(written) /\ Sorted(lost)
      /\ Before(written, w) /\ Before(lost, w)
  BY DEF IInv, Orders, w
<1>10. Orders'
  <2>1. /\ Sorted(Append(written, line)) /\ Sorted(Tail(w))
        /\ Before(Append(written, line), Tail(w)) /\ Before(lost, Tail(w))
    BY <1>1, <1>3, <1>9, HeadMoves, BeforeTail
  <2>2. /\ Sorted(Append(lost, line)) /\ Before(Append(lost, line), Tail(w))
        /\ Before(written, Tail(w))
    BY <1>1, <1>3, <1>9, HeadMoves, BeforeTail
  <2>3. CASE written' = Append(written, line) /\ lost' = lost
    BY <1>3, <1>9, <2>1, <2>3 DEF Orders, Sorted, Before
  <2>4. CASE lost' = Append(lost, line) /\ written' = written
    BY <1>3, <1>9, <2>1, <2>2, <2>4 DEF Orders, Sorted, Before
  <2> QED BY <2>3, <2>4
<1>11. Fates'
  <2>1. Range(w) = {line} \cup Range(Tail(w))
    BY <1>3, RangeMoves
  <2>2. line \in Lines => line \notin Range(Tail(w))
    BY <1>3, <1>9, HeadOnce
  <2>3. Range(Waiting)' = Range(Tail(w)) /\ Passed' = Passed
    BY <1>3 DEF Passed, Range
  <2>4. /\ Range(Append(written, line)) = Range(written) \cup {line}
        /\ Range(Append(lost, line)) = Range(lost) \cup {line}
    BY <1>1, RangeMoves
  <2>5. \A l \in Lines :
          IF l \in Passed
          THEN InOne(l, Offering, Range(w), Range(written), Range(lost), dropped)
          ELSE InNone(l, Offering, Range(w), Range(written), Range(lost), dropped)
    BY DEF IInv, Fates, w
  <2>6. CASE written' = Append(written, line) /\ lost' = lost
    <3>1. Range(written)' = Range(written) \cup {line} /\ Range(lost)' = Range(lost)
      BY <2>4, <2>6 DEF Range
    <3> QED BY <2>1, <2>2, <2>3, <2>5, <3>1 DEF Fates, InOne, InNone
  <2>7. CASE lost' = Append(lost, line) /\ written' = written
    <3>1. Range(lost)' = Range(lost) \cup {line} /\ Range(written)' = Range(written)
      BY <2>4, <2>7 DEF Range
    <3> QED BY <2>1, <2>2, <2>3, <2>5, <3>1 DEF Fates, InOne, InNone
  <2> QED BY <2>6, <2>7
<1>12. written' \in Seq(Items) /\ lost' \in Seq(Items)
  <2>1. Append(written, line) \in Seq(Items) /\ Append(lost, line) \in Seq(Items)
    BY <1>1
  <2> QED BY <1>1, <2>1
<1> QED BY <1>1, <1>6, <1>7, <1>8, <1>10, <1>11, <1>12

\* What is no report of a loss adds none.
LEMMA ReportedStays ==
  ASSUME NEW x, x[1] # ConnReport, written \in Seq(Items),
         written' = Append(written, x)
  PROVE  ReportedLost' = ReportedLost
<1>1. /\ Len(written) \in Nat /\ DOMAIN written = 1 .. Len(written)
      /\ DOMAIN written' = 1 .. Len(written) + 1
      /\ \A i \in 1 .. Len(written) : written'[i] = written[i]
      /\ written'[Len(written) + 1] = x
  OBVIOUS
<1>2. \A i \in 1 .. Len(written) + 1 : i \in 1 .. Len(written) \/ i = Len(written) + 1
  BY <1>1
<1>3. \A i \in 1 .. Len(written) : i \in 1 .. Len(written) + 1
  BY <1>1
<1> QED BY <1>1, <1>2, <1>3 DEF ReportedLost

\* A line is written.
LEMMA WriteKeeps ==
  ASSUME IInv, Write PROVE IInv'
<1> USE DEF Write, callerVars, countVars, closeVars
<1>1. line # NoLine
  BY DEF IInv, Held
<1>2. Offering' = Offering /\ Unsubtracted' = Unsubtracted
  BY OfferingKeeps, UnsubtractedKeeps
<1>3. /\ written' \in Seq(Items) /\ lost' \in Seq(Items)
      /\ line' \in Items /\ line \in Items /\ line[1] # ConnReport
      /\ Held' /\ Orders' /\ Fates'
  BY <1>1, <1>2, LineLeaves
<1>4. TypeOK'
  BY <1>3 DEF IInv, TypeOK, Items
<1>5. Called'
  BY DEF IInv, Called
<1>6. ReportedLost' = ReportedLost
  BY <1>3, WaitingFacts, ReportedStays DEF IInv
<1>7. Counted'
  BY <1>2, <1>6 DEF IInv, Counted
<1> QED BY <1>3, <1>4, <1>5, <1>7 DEF IInv

\* A line is given up and counted.
LEMMA GiveUpKeeps ==
  ASSUME IInv, RedialFails \/ RewriteFails PROVE IInv'
<1> USE DEF RedialFails, RewriteFails, GiveUp, callerVars, countVars, closeVars
<1>1. line # NoLine
  BY DEF IInv, Held
<1>2. Offering' = Offering /\ Unsubtracted' = Unsubtracted /\ ReportedLost' = ReportedLost
  BY OfferingKeeps, UnsubtractedKeeps, ReportedKeeps
<1>3. /\ written' \in Seq(Items) /\ lost' \in Seq(Items)
      /\ line' \in Items /\ line \in Items /\ line[1] # ConnReport
      /\ Held' /\ Orders' /\ Fates'
  BY <1>1, <1>2, LineLeaves
<1>4. ConnDropped' = (ConnDropped + 1) % Width
  BY DEF LosesOne
<1>5. TypeOK'
  <2>1. ConnDropped' \in 0 .. Width - 1
    <3>1. ConnDropped + 1 \in Int /\ Width \in Nat /\ Width > 0
      BY CountedFinite DEF IInv
    <3> QED BY <1>4, <3>1, Remainder
  <2> QED BY <1>3, <2>1 DEF IInv, TypeOK, Items
<1>6. Called'
  BY DEF IInv, Called
<1>7. Counted'
  <2> DEFINE v == Cardinality(ReportedLost)
  <2> DEFINE n == Len(lost)
  <2>1. ConnDropped \in Int /\ v \in Int /\ n \in Int
    BY CountedFinite DEF IInv
  <2>2. Congruent(ConnDropped + v, n, Width)
    BY DEF IInv, Counted
  <2>3. Len(lost') = n + 1
    BY DEF IInv, TypeOK
  <2> HIDE DEF v, n
  <2>4. /\ ConnDropped + v \in Int /\ 1 \in Int /\ n + 1 \in Int /\ ConnDropped + 1 \in Int
        /\ (ConnDropped + v) + 1 = (ConnDropped + 1) + v
    BY <2>1
  <2>5. Congruent((ConnDropped + v) + 1, n + 1, Width)
    BY ONLY <2>1, <2>2, <2>4, CountsMore
  <2>6. Congruent((ConnDropped + 1) + v, n + 1, Width)
    BY ONLY <2>4, <2>5
  <2>7. Congruent(((ConnDropped + 1) % Width) + v, n + 1, Width)
    BY ONLY <2>1, <2>4, <2>6, CountsModulo
  <2> QED BY <1>2, <1>4, <2>3, <2>7 DEF IInv, Counted, v
<1> QED BY <1>3, <1>5, <1>6, <1>7 DEF IInv

\* The losses of a report are so many pairs more.
LEMMA ReportedGrows ==
  ASSUME TypeOK, NEW n \in Nat, n < Width, IsFiniteSet(ReportedLost),
         written' = Append(written, <<ConnReport, n>>)
  PROVE  Cardinality(ReportedLost') = Cardinality(ReportedLost) + n
<1> DEFINE m == Len(written) + 1
<1>1. written \in Seq(Items) /\ Len(written) \in Nat /\ Width \in Nat
  BY TcpLogAssumption DEF TypeOK, Items
<1>2. /\ DOMAIN written = 1 .. Len(written) /\ DOMAIN written' = 1 .. m
      /\ \A i \in 1 .. Len(written) : written'[i] = written[i]
      /\ written'[m] = <<ConnReport, n>>
  BY <1>1
<1>3. /\ \A i \in 1 .. m : i \in 1 .. Len(written) \/ i = m
      /\ \A i \in 1 .. Len(written) : i \in 1 .. m /\ i # m
      /\ m \in 1 .. m
      /\ \A j \in 1 .. n : j \in 1 .. Width
      /\ \A j \in 1 .. Width : j <= n <=> j \in 1 .. n
  BY <1>1
<1> HIDE DEF m
<1>4. ReportedLost' = ReportedLost \cup ({m} \X (1 .. n))
  BY <1>2, <1>3 DEF ReportedLost
<1>5. \A p \in ReportedLost : p \notin {m} \X (1 .. n)
  BY <1>2, <1>3 DEF ReportedLost
<1>6. Cardinality(ReportedLost \cup ({m} \X (1 .. n))) = Cardinality(ReportedLost) + n
  BY ONLY IsFiniteSet(ReportedLost), n \in Nat, <1>5, CardinalityPairs
<1> QED BY ONLY <1>4, <1>6

\* The losses are reported, and the count is 0 again.
LEMMA ReportLostKeeps ==
  ASSUME IInv, ReportLost PROVE IInv'
<1> USE DEF ReportLost, callerVars, countVars, closeVars
<1>1. Waiting' = Waiting /\ Offering' = Offering /\ Unsubtracted' = Unsubtracted
  BY WaitingKeeps, OfferingKeeps, UnsubtractedKeeps
<1>2. Called' /\ Held'
  BY <1>1 DEF IInv, Called, Held
<1>3. CASE UNCHANGED <<written, ConnDropped>>
  <2>1. Orders' /\ Fates' /\ Counted'
    BY <1>1, <1>3, OrdersKeep, FatesKeep, CountedKeeps DEF IInv
  <2>2. TypeOK'
    BY <1>3 DEF IInv, TypeOK
  <2> QED BY <1>2, <2>1, <2>2 DEF IInv
<1>4. CASE /\ written' = Append(written, <<ConnReport, ConnDropped>>)
           /\ ConnDropped' = 0
  <2> DEFINE n == ConnDropped
  <2> DEFINE r == <<ConnReport, n>>
  <2>1. n \in Nat /\ n < Width /\ Width \in Nat /\ Width > 0
    BY CountedFinite DEF IInv
  <2>2. r \in Reports /\ r \in Items /\ r \notin Lines /\ r[1] \notin Callers
    BY <2>1, TcpLogAssumption, LineFacts DEF Reports, Items
  <2>3. written' = Append(written, r)
    BY <1>4
  <2>4. Cardinality(ReportedLost') = Cardinality(ReportedLost) + n
    BY <1>4, <2>1, ReportedGrows, CountedFinite DEF IInv
  <2> HIDE DEF r
  <2>5. /\ Waiting \in Seq(Items) /\ written \in Seq(Items) /\ lost \in Seq(Items)
    BY WaitingFacts DEF IInv
  <2>6. TypeOK'
    <3>1. written' \in Seq(Lines \cup Reports)
      BY <2>2, <2>3, <2>5 DEF Items
    <3>2. ConnDropped' \in 0 .. Width - 1
      BY <1>4, <2>1
    <3> QED BY <3>1, <3>2 DEF IInv, TypeOK
  <2>7. Orders'
    <3>1. \A y : Precedes(y, r) /\ Precedes(r, y)
      BY <2>2 DEF Precedes
    <3>2. /\ Sorted(Waiting) /\ Sorted(written) /\ Sorted(lost)
          /\ Before(written, Waiting) /\ Before(lost, Waiting)
      BY DEF IInv, Orders
    <3>3. Sorted(Append(written, r))
      BY <2>2, <2>5, <3>1, <3>2, SortedAppend
    <3>4. Before(Append(written, r), Waiting)
      BY <2>2, <2>5, <3>1, <3>2 DEF Before
    <3> QED BY <1>1, <2>3, <3>2, <3>3, <3>4 DEF Orders, Sorted, Before
  <2>8. Fates'
    <3>1. Range(Append(written, r)) = Range(written) \cup {r}
      BY <2>2, <2>5, RangeMoves
    <3>2. \A l \in Lines : l \in Range(written)' <=> l \in Range(written)
      BY <2>2, <2>3, <3>1 DEF Range
    <3>3. /\ Passed' = Passed /\ Range(Waiting)' = Range(Waiting)
          /\ Range(lost)' = Range(lost)
      BY <1>1 DEF Passed, Range
    <3> QED BY <1>1, <3>2, <3>3 DEF IInv, Fates, InOne, InNone
  <2>9. Counted'
    <3> DEFINE v == Cardinality(ReportedLost)
    <3>1. v \in Nat
      BY CountedFinite DEF IInv
    <3>2. Congruent(n + v, Len(lost), Width)
      BY DEF IInv, Counted
    <3>3. 0 + (v + n) = n + v
      <4> HIDE DEF v, n
      <4> QED BY <3>1, <2>1
    <3>4. Congruent(0 + (v + n), Len(lost), Width)
      BY ONLY <3>2, <3>3
    <3> QED BY <1>1, <1>4, <2>4, <3>4 DEF IInv, Counted
  <2> QED BY <1>2, <2>6, <2>7, <2>8, <2>9 DEF IInv
<1> QED BY <1>3, <1>4

-----------------------------------------------------------------------------
(* The theorem                                                             *)

\* The invariant holds when the logger starts.
LEMMA InitHolds == Init => IInv
<1> SUFFICES ASSUME Init PROVE IInv
  OBVIOUS
<1> USE DEF Init
<1>1. /\ << >> \in Seq(Lines \cup Reports) /\ Len(<< >>) = 0 /\ Range(<< >>) = {}
      /\ DOMAIN << >> = {}
  <2>1. << >> \in Seq(Lines \cup Reports) /\ Len(<< >>) = 0 /\ DOMAIN << >> = {}
    OBVIOUS
  <2> QED BY <2>1 DEF Range
<1>2. NoLine \in Lines \cup Reports
  BY LineFacts
<1>3. Waiting = << >>
  BY DEF Waiting
<1>4. Width \in Nat /\ Width > 0
  BY TcpLogAssumption
<1>5. TypeOK
  <2>1. pumpOpen \in BOOLEAN /\ PumpClosed \in BOOLEAN
    OBVIOUS
  <2>2. Len(Pump) <= BufferSize
    BY <1>1, TcpLogAssumption
  <2>3. /\ PumpDropped \in 0 .. Width - 1 /\ ConnDropped \in 0 .. Width - 1
        /\ 0 \in 0 .. Width - 1
    BY <1>4
  <2> QED BY <1>1, <1>2, <2>1, <2>2, <2>3 DEF TypeOK
<1>6. Called
  BY TcpLogAssumption DEF Called
<1>7. Held
  BY <1>1, <1>3 DEF Held
<1>8. Orders
  BY <1>1, <1>3 DEF Orders, Sorted, Before
<1>9. Fates
  <2>1. Offering = {}
    BY DEF Offering
  <2>2. \A l \in Lines : l \notin Passed
    <3>1. ASSUME NEW l \in Lines PROVE l \notin Passed
      <4>1. l[1] \in Callers /\ l[2] \in 1 .. MaxCalls[l[1]] /\ MaxCalls[l[1]] \in Nat
        BY LineFacts, TcpLogAssumption
      <4>2. l[2] > 0 /\ l[2] \in Int /\ calls[l[1]] = 0
        BY <4>1
      <4> QED BY <4>2 DEF Passed
    <3> QED BY <3>1
  <2> QED BY <1>1, <1>3, <2>1, <2>2 DEF Fates, InNone
<1>10. Counted
  <2>1. Unsubtracted = {} /\ ReportedLost = {}
    BY <1>1 DEF Unsubtracted, ReportedLost
  <2>2. IsFiniteSet({}) /\ Cardinality({}) = 0
    BY FS_EmptySet
  <2>3. Congruent(0, 0, Width)
    BY <1>4, CongruentReflexive
  <2>4. 0 + 0 = 0
    OBVIOUS
  <2> QED BY <1>1, <2>1, <2>2, <2>3, <2>4 DEF Counted
<1> QED BY <1>5, <1>6, <1>7, <1>8, <1>9, <1>10 DEF IInv

\* Nothing happens.
LEMMA StutterKeeps == ASSUME IInv, UNCHANGED vars PROVE IInv'
<1> USE DEF vars, senderVars, closeVars
<1>1. /\ Called' /\ Orders' /\ Fates' /\ Counted' /\ Waiting' = Waiting
  BY Quiet
<1>2. TypeOK' /\ Held'
  BY <1>1 DEF IInv, TypeOK, Held, callerVars, countVars
<1> QED BY <1>1, <1>2 DEF IInv

\* Every step keeps the invariant.
LEMMA StepKeeps == ASSUME IInv, [Next]_vars PROVE IInv'
<1>1. CASE UNCHANGED vars
  BY <1>1, StutterKeeps
<1>2. ASSUME NEW c \in Callers, Check(c) \/ CallerStep(c) PROVE IInv'
  BY <1>2, CheckKeeps, OfferKeeps, DropKeeps, LoadKeeps, ReportKeeps,
     SubtractKeeps, SendOnClosedKeeps DEF CallerStep
<1>3. CASE SenderStep
  BY <1>3, ConnectionKeeps, TakeKeeps, TakeClosedKeeps, WriteKeeps, GiveUpKeeps,
     ReportLostKeeps DEF SenderStep
<1>4. CASE CallClose \/ \E k \in {"Close", "Run"} : CleanupStep(k)
  BY <1>4, CleanupKeeps
<1> QED BY <1>1, <1>2, <1>3, <1>4 DEF Next

\* The invariant implies the property.
LEMMA Enough == IInv => LinesAccounted
<1> SUFFICES ASSUME IInv PROVE LinesAccounted
  OBVIOUS
<1>1. InOrder
  <2>1. Waiting \in Seq(Items) /\ written \in Seq(Items) /\ lost \in Seq(Items)
    BY WaitingFacts DEF IInv
  <2>2. \A i, j \in DOMAIN (written \o Waiting) :
           i < j => Precedes((written \o Waiting)[i], (written \o Waiting)[j])
    BY <2>1, SortedConcat DEF IInv, Orders
  <2>3. \A i, j \in DOMAIN (lost \o Waiting) :
           i < j => Precedes((lost \o Waiting)[i], (lost \o Waiting)[j])
    BY <2>1, SortedConcat DEF IInv, Orders
  <2> DEFINE p == written \o Waiting
  <2> DEFINE q == lost \o Waiting
  <2> HIDE DEF p, q
  <2>4. \A s \in {p, q} : \A i, j \in DOMAIN s : i < j => Precedes(s[i], s[j])
    BY <2>2, <2>3 DEF p, q
  <2> QED BY <2>4 DEF InOrder, p, q
<1>2. OneFate
  <2> DEFINE f == <<Offering, Range(Waiting), Range(written), Range(lost), dropped>>
  <2>1. /\ DOMAIN f = 1 .. 5 /\ f[1] = Offering /\ f[2] = Range(Waiting)
        /\ f[3] = Range(written) /\ f[4] = Range(lost) /\ f[5] = dropped
    OBVIOUS
  <2>2. \A j \in 1 .. 5 : j = 1 \/ j = 2 \/ j = 3 \/ j = 4 \/ j = 5
    OBVIOUS
  <2>3. ASSUME NEW l \in Passed
        PROVE  \E i \in DOMAIN f : \A j \in DOMAIN f : l \in f[j] <=> j = i
    <3>1. InOne(l, f[1], f[2], f[3], f[4], f[5])
      BY <2>1 DEF IInv, Fates, Passed
    <3> HIDE DEF f
    <3> QED BY <2>1, <2>2, <3>1 DEF InOne
  <2> QED BY <2>3 DEF OneFate
<1>3. PumpAccounted /\ ConnAccounted
  <2>1. /\ PumpDropped + reported \in Int
        /\ Cardinality(dropped) + Cardinality(Unsubtracted) \in Int
        /\ ConnDropped + Cardinality(ReportedLost) \in Int /\ Len(lost) \in Int
        /\ Width \in Nat /\ Width > 0
    BY CountedFinite DEF IInv
  <2>2. PumpAccounted
    BY <2>1, SameRemainder DEF IInv, Counted, PumpAccounted
  <2>3. ConnAccounted
    BY <2>1, SameRemainder DEF IInv, Counted, ConnAccounted
  <2> QED BY <2>2, <2>3
<1> QED BY <1>1, <1>2, <1>3 DEF IInv, LinesAccounted, Accounts

\* Every line that ReadAsync takes has exactly one fate, each caller's lines
\* leave in order, and both counters and their reports agree modulo their width
\* with the lines dropped and given up, whatever the connection does and
\* however callers, sendLogs and cleanup interleave (writeAsync, sendLogs).
THEOREM TcpLogLinesAccounted == Spec => []LinesAccounted
<1>1. Init => IInv
  BY InitHolds
<1>2. IInv /\ [Next]_vars => IInv'
  BY StepKeeps
<1>3. IInv => LinesAccounted
  BY Enough
<1> QED BY <1>1, <1>2, <1>3, PTL DEF Spec

-----------------------------------------------------------------------------
(* Syslog: the inductive invariant                                         *)

SysParts == {"head", "text", "nl"}
SysRows  == [frame : Int, severity : Int, facility : Int, from : Int, to : Int]

\* The part that unit j of frame f is.
PartOf(j, f) == IF j = 1 THEN "head" ELSE IF j <= 1 + f.text THEN "text" ELSE "nl"

\* Frame i is sent as its head at k, its text and its newline, which lie in
\* the stream s of frames fs; the head of the next one follows.
FrameAt(k, fs, s) ==
  LET i == s[k].frame
      n == SizeOfText(fs[i])
  IN  /\ k + n <= Len(s)
      /\ \A j \in k + 1 .. k + n :
           s[j].frame = i /\ s[j].part = (IF j <= k + fs[i].text THEN "text" ELSE "nl")
      /\ k + n < Len(s) => s[k + n + 1].frame = i + 1 /\ s[k + n + 1].part = "head"
      /\ k + n = Len(s) => i = Len(fs)

\* The frame whose head is at k ends at p.
EndsAt(k, p, fs, s) == s[k].part = "head" /\ p = k + SizeOfText(fs[s[k].frame])

\* The stream s of the frames fs.
StreamOf(fs, s) ==
  /\ fs \in Seq(Frames) /\ s \in Seq([frame : Nat, part : SysParts])
  /\ \A k \in 1 .. Len(s) : s[k].frame \in 1 .. Len(fs)
  /\ (Len(s) = 0) <=> (Len(fs) = 0)
  /\ Len(s) > 0 => s[1].frame = 1 /\ s[1].part = "head"
  /\ \A k \in 1 .. Len(s) : s[k].part = "head" => FrameAt(k, fs, s)
  /\ \A p \in 1 .. Len(s) : s[p].part = "nl" => \E k \in 1 .. p : EndsAt(k, p, fs, s)

SysTypes ==
  /\ mode \in Modes /\ syspc \in {"head", "text"} /\ sysEnd \in {"no", "error", "failed", "panic"}
  /\ split \in BOOLEAN /\ shut \in BOOLEAN
  /\ arrived \in Nat /\ arrived <= Len(stream) /\ rpos \in Nat /\ rpos <= arrived
  /\ start \in Nat /\ start <= rpos
  /\ head \in Nat /\ head <= Len(frames) /\ total \in Nat /\ totalBytes \in Int
  /\ heard \in Seq(SysRows)

\* A frame ends at p, or p is before the first.
Boundary(p) == p = 0 \/ \E k \in 1 .. Len(stream) : EndsAt(k, p, frames, stream)

\* Where the last message ended.
LastTo == IF heard = << >> THEN 0 ELSE heard[Len(heard)].to

\* A head was read whose text is to come: what is left of its count, and of an
\* open one also what it has read on.
InText ==
  LET f    == frames[head]
      left == SizeOfText(f) - (rpos - start)
  IN  /\ start >= 1 /\ head >= 1 /\ stream[start].frame = head /\ stream[start].part = "head"
      /\ total = IF mode = "counted" /\ left > 0 THEN left ELSE 0
      /\ f.form \in {"whole", "open"} /\ (f.form = "whole" => rpos = start)

\* Where the reader is: at the end of a frame, between a head and its text, or
\* inside a text that came in pieces, behind which nothing is received.
ReaderPlace ==
  /\ syspc = "text" => InText
  /\ ~split /\ syspc = "head" => Boundary(rpos)
  /\ split => syspc = "head" /\ rpos < Len(stream) /\ stream[rpos + 1].part # "head"
  /\ sysEnd = "panic" => head >= 1
  /\ sysEnd = "error" => rpos < arrived \/ shut
  /\ sysEnd # "panic" => IF syspc = "head" THEN rpos = LastTo ELSE start = LastTo + 1

\* A message that was received lies in the stream.
HeardIn ==
  \A i \in 1 .. Len(heard) : /\ heard[i].frame \in 1 .. Len(frames)
                             /\ heard[i].from \in 1 .. Len(stream) /\ heard[i].to <= Len(stream)

\* The counts of frame f say how much of the stream it is.
Counts(f) == Ended(f) /\ f.form # "open"

\* What was counted: all that was read, but for a head whose text is to come.
Tallied ==
  ~split /\ sysEnd \in {"no", "failed"}
  /\ (mode = "counted" => \A j \in 1 .. Len(frames) : Counts(frames[j])) =>
    totalBytes = IF syspc = "head" THEN rpos ELSE start - 1

SysInv ==
  /\ StreamOf(frames, stream) /\ SysTypes /\ ReaderPlace /\ HeardIn /\ Tallied
  /\ OwnText /\ GivesUp /\ PanicsAt

-----------------------------------------------------------------------------
(* Syslog: the stream                                                      *)

Forms == {"whole", "invalid", "open", "slice"}

\* What a record of these fields is made of.
LEMMA FieldFacts ==
  ASSUME NEW P \in SUBSET Int, NEW F \in SUBSET Forms, NEW T \in SUBSET Nat,
         NEW N \in SUBSET BOOLEAN, NEW f \in [prio : P, form : F, text : T, nl : N]
  PROVE  f.prio \in Int /\ f.form \in Forms /\ f.text \in Nat /\ f.nl \in BOOLEAN
<1>1. f.prio \in P /\ f.form \in F /\ f.text \in T /\ f.nl \in N
  OBVIOUS
<1> QED BY <1>1, Zenon

\* What a frame is made of.
LEMMA FrameFacts ==
  ASSUME NEW f \in Frames
  PROVE  /\ f.prio \in Int /\ f.form \in Forms /\ f.text \in Nat /\ f.nl \in BOOLEAN
         /\ SizeOfText(f) \in Nat
         /\ SizeOfText(f) = f.text + (IF f.nl THEN 1 ELSE 0)
<1> DEFINE Facts == f.prio \in Int /\ f.form \in Forms /\ f.text \in Nat /\ f.nl \in BOOLEAN
<1>1. ASSUME f \in [prio : {0}, form : {"whole"}, text : 0 .. MaxText, nl : BOOLEAN] PROVE Facts
  <2>1. {0} \in SUBSET Int /\ {"whole"} \in SUBSET Forms /\ 0 .. MaxText \in SUBSET Nat
    BY SyslogAssumption DEF SyslogAssumption, Forms
  <2>2. BOOLEAN \in SUBSET BOOLEAN
    BY Zenon
  <2> QED BY <1>1, <2>1, <2>2, FieldFacts, Zenon
<1>2. ASSUME f \in [prio : {0}, form : {"open"}, text : {1}, nl : BOOLEAN] PROVE Facts
  <2>1. {0} \in SUBSET Int /\ {"open"} \in SUBSET Forms /\ {1} \in SUBSET Nat
    BY DEF Forms
  <2>2. BOOLEAN \in SUBSET BOOLEAN
    BY Zenon
  <2> QED BY <1>2, <2>1, <2>2, FieldFacts, Zenon
<1>3. ASSUME f \in [prio : {0}, form : {"invalid", "slice"}, text : {1}, nl : {TRUE}] PROVE Facts
  <2>1. {0} \in SUBSET Int /\ {"invalid", "slice"} \in SUBSET Forms /\ {1} \in SUBSET Nat
    BY DEF Forms
  <2>2. {TRUE} \in SUBSET BOOLEAN
    BY Zenon
  <2> QED BY <1>3, <2>1, <2>2, FieldFacts, Zenon
<1>4. ASSUME f \in [prio : Priorities, form : {"whole"}, text : {1}, nl : {TRUE}] PROVE Facts
  <2>1. {"whole"} \in SUBSET Forms /\ {1} \in SUBSET Nat
    BY DEF Forms
  <2>2. {TRUE} \in SUBSET BOOLEAN
    BY Zenon
  <2>3. Priorities \in SUBSET Int
    BY SyslogAssumption, Zenon DEF SyslogAssumption
  <2> QED BY <1>4, <2>1, <2>2, <2>3, FieldFacts, Zenon
<1>5. Facts
  BY <1>1, <1>2, <1>3, <1>4, Zenon DEF Frames
<1> QED BY <1>5 DEF SizeOfText

\* The units of a frame.
LEMMA UnitsFacts ==
  ASSUME NEW f \in Frames, NEW i \in Nat
  PROVE  /\ Units(i, f) \in Seq([frame : Nat, part : SysParts])
         /\ Len(Units(i, f)) = 1 + SizeOfText(f)
         /\ \A j \in 1 .. 1 + SizeOfText(f) :
              /\ Units(i, f)[j].frame = i
              /\ Units(i, f)[j].part = PartOf(j, f)
<1> DEFINE n == SizeOfText(f)
<1>1. n \in Nat /\ 1 + f.text + (IF f.nl THEN 1 ELSE 0) = 1 + n /\ f.text \in Nat
  BY FrameFacts
<1>2. Units(i, f) = [j \in 1 .. 1 + n |->
        [frame |-> i, part |-> IF j = 1 THEN "head" ELSE IF j <= 1 + f.text THEN "text" ELSE "nl"]]
  BY <1>1 DEF Units
<1> HIDE DEF n
<1>3. /\ Units(i, f) \in Seq([frame : Nat, part : SysParts])
      /\ Len(Units(i, f)) = 1 + n
  BY <1>1, <1>2 DEF SysParts
<1>4. \A j \in 1 .. 1 + n :
              /\ Units(i, f)[j].frame = i
              /\ Units(i, f)[j].part = PartOf(j, f)
  BY <1>1, <1>2 DEF PartOf
<1> QED BY <1>3, <1>4 DEF n

\* The stream s of frames fs when frame f is sent.
Sent(fs, s, f) == s \o Units(Len(fs) + 1, f)

\* A stream keeps its places when a frame is sent.
LEMMA StreamFacts ==
  ASSUME NEW fs, NEW s, StreamOf(fs, s), NEW f \in Frames
  PROVE  /\ Sent(fs, s, f) \in Seq([frame : Nat, part : SysParts])
         /\ Len(Sent(fs, s, f)) = Len(s) + 1 + SizeOfText(f)
         /\ \A k \in 1 .. Len(s) : Sent(fs, s, f)[k] = s[k]
         /\ \A k \in Len(s) + 1 .. Len(s) + 1 + SizeOfText(f) :
              Sent(fs, s, f)[k].frame = Len(fs) + 1
         /\ \A k \in Len(s) + 1 .. Len(s) + 1 + SizeOfText(f) :
              Sent(fs, s, f)[k].part = PartOf(k - Len(s), f)
<1> DEFINE U == Units(Len(fs) + 1, f)
           R == [frame : Nat, part : SysParts]
           t == Sent(fs, s, f)
           n == SizeOfText(f)
<1>1. fs \in Seq(Frames) /\ s \in Seq(R) /\ Len(fs) \in Nat /\ Len(s) \in Nat
  BY DEF StreamOf
<1>2. n \in Nat /\ f.text \in Nat
  BY FrameFacts
<1>3. /\ U \in Seq(R) /\ Len(U) = 1 + n
      /\ \A j \in 1 .. 1 + n : U[j].frame = Len(fs) + 1 /\ U[j].part = PartOf(j, f)
  <2>1. Len(fs) + 1 \in Nat
    BY <1>1
  <2> QED BY <2>1, UnitsFacts, Zenon
<1>4. t = s \o U
  BY DEF Sent
<1> HIDE DEF U, R, t, n
<1>5. /\ t \in Seq(R) /\ Len(t) = Len(s) + 1 + n
      /\ \A k \in 1 .. Len(s) : t[k] = s[k]
      /\ \A k \in Len(s) + 1 .. Len(s) + 1 + n : t[k] = U[k - Len(s)]
  <2>1. /\ s \o U \in Seq(R) /\ Len(s \o U) = Len(s) + Len(U)
        /\ \A k \in 1 .. Len(s) + Len(U) :
             (s \o U)[k] = IF k <= Len(s) THEN s[k] ELSE U[k - Len(s)]
    BY <1>1, <1>3, ConcatProperties, Zenon
  <2>2. /\ t \in Seq(R) /\ Len(t) = Len(s) + 1 + n
        /\ \A k \in 1 .. Len(s) + 1 + n : t[k] = IF k <= Len(s) THEN s[k] ELSE U[k - Len(s)]
    BY ONLY <1>1, <1>2, <1>3, <1>4, <2>1
  <2> QED BY ONLY <1>1, <1>2, <2>2
<1>6. ASSUME NEW k \in Len(s) + 1 .. Len(s) + 1 + n
      PROVE  t[k].frame = Len(fs) + 1 /\ t[k].part = PartOf(k - Len(s), f)
  <2>1. k - Len(s) \in 1 .. 1 + n /\ t[k] = U[k - Len(s)]
    BY <1>1, <1>2, <1>5
  <2> QED BY <1>3, <2>1
<1> QED BY <1>5, <1>6 DEF R, t, n

\* It is the stream of the longer list.
LEMMA StreamGrows ==
  ASSUME NEW fs, NEW s, StreamOf(fs, s), NEW f \in Frames
  PROVE  StreamOf(Append(fs, f), Sent(fs, s, f))
<1> DEFINE h == Append(fs, f)
           t == Sent(fs, s, f)
           n == SizeOfText(f)
           L == Len(s)
<1>S. /\ Sent(fs, s, f) \in Seq([frame : Nat, part : SysParts])
      /\ Len(Sent(fs, s, f)) = Len(s) + 1 + SizeOfText(f)
      /\ \A k \in 1 .. Len(s) : Sent(fs, s, f)[k] = s[k]
      /\ \A k \in Len(s) + 1 .. Len(s) + 1 + SizeOfText(f) :
           Sent(fs, s, f)[k].frame = Len(fs) + 1
      /\ \A k \in Len(s) + 1 .. Len(s) + 1 + SizeOfText(f) :
           Sent(fs, s, f)[k].part = PartOf(k - Len(s), f)
  <2>1. Sent(fs, s, f) \in Seq([frame : Nat, part : SysParts])
    BY StreamFacts
  <2>2. Len(Sent(fs, s, f)) = Len(s) + 1 + SizeOfText(f)
    BY StreamFacts
  <2>3. \A k \in 1 .. Len(s) : Sent(fs, s, f)[k] = s[k]
    BY StreamFacts
  <2>4. \A k \in Len(s) + 1 .. Len(s) + 1 + SizeOfText(f) :
           Sent(fs, s, f)[k].frame = Len(fs) + 1
    BY StreamFacts
  <2>5. \A k \in Len(s) + 1 .. Len(s) + 1 + SizeOfText(f) :
           Sent(fs, s, f)[k].part = PartOf(k - Len(s), f)
    BY StreamFacts
  <2> QED BY <2>1, <2>2, <2>3, <2>4, <2>5
<1>0. h = Append(fs, f) /\ t = Sent(fs, s, f) /\ n = SizeOfText(f) /\ L = Len(s)
  OBVIOUS
<1> HIDE DEF h, t, n, L
<1>1. /\ h \in Seq(Frames) /\ Len(h) = Len(fs) + 1 /\ h[Len(fs) + 1] = f
      /\ \A i \in 1 .. Len(fs) : h[i] = fs[i]
      /\ t \in Seq([frame : Nat, part : SysParts]) /\ Len(t) = L + 1 + n
      /\ \A k \in 1 .. L : t[k] = s[k]
      /\ \A k \in L + 1 .. L + 1 + n : t[k].frame = Len(fs) + 1
  <2>1. /\ Append(fs, f) \in Seq(Frames) /\ Len(Append(fs, f)) = Len(fs) + 1
        /\ Append(fs, f)[Len(fs) + 1] = f /\ \A i \in 1 .. Len(fs) : Append(fs, f)[i] = fs[i]
    BY DEF StreamOf
  <2>2. /\ t \in Seq([frame : Nat, part : SysParts]) /\ Len(t) = L + 1 + n
        /\ \A k \in 1 .. L : t[k] = s[k]
        /\ \A k \in L + 1 .. L + 1 + n : t[k].frame = Len(fs) + 1
    BY <1>S DEF t, n, L
  <2> QED BY <1>0, <2>1, <2>2
<1>P. \A k \in L + 1 .. L + 1 + n : t[k].part = PartOf(k - L, f)
  BY <1>S DEF t, n, L
<1>2. /\ fs \in Seq(Frames) /\ s \in Seq([frame : Nat, part : SysParts])
      /\ \A k \in 1 .. L : s[k].frame \in 1 .. Len(fs)
      /\ (L = 0) <=> (Len(fs) = 0)
      /\ L > 0 => s[1].frame = 1 /\ s[1].part = "head"
      /\ \A k \in 1 .. L : s[k].part = "head" => FrameAt(k, fs, s)
  BY <1>0 DEF StreamOf
<1>3. L \in Nat /\ Len(fs) \in Nat /\ n \in Nat /\ f.text \in Nat
  BY <1>0, <1>2, FrameFacts
<1>H. t[L + 1].part = "head"
  <2>1. ASSUME NEW k \in L + 1 .. L + 1 + n, k = L + 1 PROVE t[k].part = "head"
    <3>1. t[k].part = PartOf(k - L, f)
      BY <1>P
    <3>2. k - L = 1
      BY <1>3, <2>1
    <3> QED BY <3>1, <3>2 DEF PartOf
  <2> QED BY <1>3, <2>1
<1>T. ASSUME NEW k \in L + 2 .. L + 1 + n
      PROVE  t[k].part = IF k <= L + 1 + f.text THEN "text" ELSE "nl"
  <2>1. t[k].part = PartOf(k - L, f) /\ k - L # 1
        /\ (k - L <= 1 + f.text <=> k <= L + 1 + f.text)
    BY <1>3, <1>P
  <2> QED BY <2>1 DEF PartOf
<1>4. \A k \in 1 .. Len(t) : t[k].frame \in 1 .. Len(h)
  <2> SUFFICES ASSUME NEW k \in 1 .. Len(t) PROVE t[k].frame \in 1 .. Len(h)
    OBVIOUS
  <2>1. CASE k \in 1 .. L
    <3>1. t[k] = s[k] /\ s[k].frame \in 1 .. Len(fs)
      BY <1>1, <1>2, <2>1
    <3> QED BY <1>1, <1>3, <3>1
  <2>2. CASE k \notin 1 .. L
    <3>1. k \in L + 1 .. L + 1 + n
      BY <1>1, <1>3, <2>2
    <3>2. t[k].frame = Len(h) /\ Len(h) \in 1 .. Len(h)
      BY <1>1, <1>3, <3>1
    <3> QED BY <3>2
  <2> QED BY <2>1, <2>2
<1>5. ASSUME NEW p \in 1 .. Len(t), t[p].part = "nl" PROVE \E k \in 1 .. p : EndsAt(k, p, h, t)
  <2>1. CASE p \in 1 .. L
    <3>1. s[p].part = "nl"
      BY <1>1, <1>5, <2>1
    <3>2. PICK k \in 1 .. p : EndsAt(k, p, fs, s)
      BY <1>0, <2>1, <3>1 DEF StreamOf
    <3>3. k \in 1 .. L /\ t[k] = s[k]
      BY <1>1, <1>3, <2>1, <3>2
    <3>4. h[s[k].frame] = fs[s[k].frame]
      BY <1>1, <1>2, <3>3
    <3>5. EndsAt(k, p, h, t)
      BY <3>2, <3>3, <3>4 DEF EndsAt
    <3> QED BY <3>5
  <2>2. CASE p \notin 1 .. L
    <3>1. p \in L + 1 .. L + 1 + n
      BY <1>1, <1>3, <2>2
    <3>2. t[L + 1].frame = Len(fs) + 1 /\ h[Len(fs) + 1] = f
      <4>1. L + 1 \in L + 1 .. L + 1 + n
        BY <1>3
      <4> QED BY <1>1, <4>1
    <3>3. p # L + 1
      BY <1>5, <1>H
    <3>4. p \in L + 2 .. L + 1 + n
      BY <1>3, <3>1, <3>3
    <3>5. ~(p <= L + 1 + f.text)
      BY <1>5, <1>T, <3>4
    <3>6. n = f.text + 1
      <4>1. n = f.text + (IF f.nl THEN 1 ELSE 0) /\ f.nl \in BOOLEAN
        BY FrameFacts DEF n
      <4> QED BY <1>3, <3>4, <3>5, <4>1
    <3>7. p = L + 1 + n
      BY <1>3, <3>4, <3>5, <3>6
    <3>8. SizeOfText(h[t[L + 1].frame]) = n
      BY <3>2 DEF n
    <3>9. EndsAt(L + 1, p, h, t)
      BY <1>H, <3>7, <3>8 DEF EndsAt
    <3>10. L + 1 \in 1 .. p
      BY <1>3, <3>7
    <3> QED BY <3>9, <3>10
  <2> QED BY <2>1, <2>2
<1>6. /\ (Len(t) = 0) <=> (Len(h) = 0)
      /\ Len(t) > 0 => t[1].frame = 1 /\ t[1].part = "head"
  <2>1. CASE L = 0
    <3>1. Len(t) > 0 /\ Len(h) > 0 /\ Len(fs) = 0 /\ 1 \in L + 1 .. L + 1 + n
      BY <1>1, <1>2, <1>3, <2>1
    <3>2. t[1].frame = 1 /\ t[1].part = "head"
      BY <1>1, <1>H, <2>1, <3>1
    <3> QED BY <3>1, <3>2
  <2>2. CASE L > 0
    <3>1. Len(t) > 0 /\ Len(h) > 0 /\ 1 \in 1 .. L
      BY <1>1, <1>3, <2>2
    <3>2. t[1] = s[1]
      BY <1>1, <3>1
    <3> QED BY <1>2, <2>2, <3>1, <3>2
  <2> QED BY <1>3, <2>1, <2>2
<1>7. ASSUME NEW k \in 1 .. Len(t), t[k].part = "head" PROVE FrameAt(k, h, t)
  <2>1. CASE k \in 1 .. L
    <3> DEFINE i == s[k].frame
               q == SizeOfText(fs[i])
    <3>1. FrameAt(k, fs, s) /\ i \in 1 .. Len(fs) /\ t[k].frame = i /\ h[i] = fs[i]
      BY <1>1, <1>2, <1>7, <2>1
    <3>2. /\ k + q <= L
          /\ \A j \in k + 1 .. k + q :
               s[j].frame = i /\ s[j].part = (IF j <= k + fs[i].text THEN "text" ELSE "nl")
          /\ k + q < L => s[k + q + 1].frame = i + 1 /\ s[k + q + 1].part = "head"
          /\ k + q = L => i = Len(fs)
      BY <3>1 DEF FrameAt, L
    <3>3. fs[i] \in Frames
      BY <1>2, <3>1
    <3>4. q \in Nat
      BY <3>3, FrameFacts
    <3>5. SizeOfText(h[t[k].frame]) = q /\ h[t[k].frame].text = fs[i].text
      BY <3>1
    <3> HIDE DEF i, q
    <3>6. k + q <= Len(t) /\ k + q < Len(t)
      BY <1>1, <1>3, <2>1, <3>2, <3>4
    <3>7. ASSUME NEW j \in k + 1 .. k + q
          PROVE  t[j].frame = i /\ t[j].part = (IF j <= k + fs[i].text THEN "text" ELSE "nl")
      <4>1. j \in 1 .. L
        BY <1>3, <2>1, <3>2, <3>4
      <4> QED BY <1>1, <3>2, <4>1
    <3>8. t[k + q + 1].frame = i + 1 /\ t[k + q + 1].part = "head"
      <4>1. CASE k + q < L
        <5>1. k + q + 1 \in 1 .. L
          BY <1>3, <2>1, <3>4, <4>1
        <5> QED BY <1>1, <3>2, <4>1, <5>1
      <4>2. CASE k + q = L
        <5>1. k + q + 1 = L + 1 /\ L + 1 \in L + 1 .. L + 1 + n
          BY <1>3, <4>2
        <5>2. t[L + 1].frame = Len(fs) + 1
          BY <1>1, <5>1
        <5> QED BY <1>H, <3>2, <4>2, <5>1, <5>2
      <4>3. k + q < L \/ k + q = L
        <5>1. k + q <= L
          BY <3>2
        <5>2. k + q \in Int /\ L \in Int
          BY <1>3, <2>1, <3>4
        <5> QED BY ONLY <5>1, <5>2
      <4> QED BY ONLY <4>1, <4>2, <4>3
    <3> QED
      BY SMTT(30), <1>3, <2>1, <3>1, <3>4, <3>5, <3>6, <3>7, <3>8 DEF FrameAt
  <2>2. CASE k \notin 1 .. L
    <3>1. k \in L + 1 .. L + 1 + n
      BY <1>1, <1>3, <2>2
    <3>2. k = L + 1 /\ t[k].frame = Len(fs) + 1
      <4>1. ASSUME k # L + 1 PROVE FALSE
        <5>1. k \in L + 2 .. L + 1 + n
          BY <1>3, <3>1, <4>1
        <5>2. t[k].part # "head"
          BY <1>T, <5>1
        <5> QED BY <1>7, <5>2
      <4> QED BY <1>1, <3>1, <4>1
    <3>3. SizeOfText(h[t[k].frame]) = n /\ h[t[k].frame].text = f.text
      BY <1>1, <3>2 DEF n
    <3>4. ASSUME NEW j \in k + 1 .. k + n
          PROVE  t[j].frame = t[k].frame
                 /\ t[j].part = (IF j <= k + f.text THEN "text" ELSE "nl")
      <4>1. j \in L + 1 .. L + 1 + n /\ j \in L + 2 .. L + 1 + n /\ k + f.text = L + 1 + f.text
        BY <1>3, <3>2
      <4>2. t[j].frame = Len(fs) + 1
        BY <1>1, <4>1
      <4> QED BY <1>T, <3>2, <4>1, <4>2
    <3>5. k + n = Len(t) /\ t[k].frame = Len(h)
      BY <1>1, <1>3, <3>2
    <3> QED BY <1>1, <1>3, <3>2, <3>3, <3>4, <3>5 DEF FrameAt
  <2> QED BY <2>1, <2>2
<1>8. StreamOf(h, t)
  BY <1>1, <1>4, <1>5, <1>6, <1>7 DEF StreamOf
<1> QED BY <1>8 DEF h, t

-----------------------------------------------------------------------------
(* Syslog: what the sender and the network do                              *)

\* The message that was received i-th starts with its head, and is its own
\* where its head is whole and its end can be told.
OwnRow(i) ==
  LET h == heard[i]
      f == frames[h.frame]
  IN  /\ stream[h.from].frame = h.frame /\ stream[h.from].part = "head"
      /\ f.form = "whole" /\ Ended(f) /\ ~(split /\ i = Len(heard)) =>
           /\ \A k \in h.from .. h.to : stream[k].frame = h.frame
           /\ h.to - h.from + 1 = Len(Units(h.frame, f))
Chained(i) == heard[i].from = (IF i = 1 THEN 0 ELSE heard[i - 1].to) + 1

\* OwnText is about the rows one by one.
LEMMA OwnTextRows ==
  ASSUME DOMAIN heard = 1 .. Len(heard)
  PROVE  OwnText <=> (\A i \in 1 .. Len(heard) : Chained(i) /\ OwnRow(i))
BY Zenon DEF OwnText, OwnRow, Chained

\* What is sent later leaves a row as it was.
LEMMA RowStays ==
  ASSUME NEW i \in 1 .. Len(heard), heard[i] \in SysRows, Chained(i), OwnRow(i),
         heard[i].frame \in 1 .. Len(frames), heard[i].from \in 1 .. Len(stream),
         heard[i].to <= Len(stream), Len(stream) \in Nat,
         mode' = mode, heard' = heard, split => split',
         \A j \in 1 .. Len(frames) : frames'[j] = frames[j],
         \A k \in 1 .. Len(stream) : stream'[k] = stream[k]
  PROVE  Chained(i)' /\ OwnRow(i)'
<1> DEFINE h == heard[i]
           f == frames[h.frame]
<1>1. frames'[h.frame] = f /\ stream'[h.from] = stream[h.from]
  OBVIOUS
<1>2. h.from \in Int /\ h.to \in Int
  BY DEF SysRows
<1>3. \A k \in h.from .. h.to : stream'[k] = stream[k]
  BY <1>2
<1>4. Ended(f)' <=> Ended(f)
  BY <1>1 DEF Ended, SizeOfText
<1>5. Chained(i)'
  BY DEF Chained
<1>6. OwnRow(i)'
  <2>1. stream'[h.from].frame = h.frame /\ stream'[h.from].part = "head"
    BY <1>1 DEF OwnRow
  <2>2. ASSUME f.form = "whole", Ended(f), ~(split' /\ i = Len(heard))
        PROVE  /\ \A k \in h.from .. h.to : stream'[k].frame = h.frame
               /\ h.to - h.from + 1 = Len(Units(h.frame, f))
    <3>1. /\ \A k \in h.from .. h.to : stream[k].frame = h.frame
          /\ h.to - h.from + 1 = Len(Units(h.frame, f))
      BY <2>2 DEF OwnRow
    <3> QED BY <1>3, <3>1
  <2>3. Len(Units(heard'[i].frame, frames'[heard'[i].frame])) = Len(Units(h.frame, f))
    BY <1>1
  <2> QED BY <1>1, <2>1, <2>2, <2>3 DEF OwnRow, Ended, SizeOfText, Units
<1> QED BY <1>5, <1>6

\* What is sent later leaves what was sent as it was.
LEMMA ReaderStays ==
  ASSUME SysInv, UNCHANGED <<mode, reader>>, StreamOf(frames, stream)',
         Len(frames') >= Len(frames), Len(stream') >= Len(stream),
         \A i \in 1 .. Len(frames) : frames'[i] = frames[i],
         \A k \in 1 .. Len(stream) : stream'[k] = stream[k],
         arrived' \in Nat, arrived <= arrived', arrived' <= Len(stream'),
         shut' \in BOOLEAN, shut => shut'
  PROVE  SysInv'
<1>1. /\ mode' = mode /\ split' = split /\ rpos' = rpos /\ start' = start /\ syspc' = syspc
      /\ total' = total /\ head' = head /\ heard' = heard /\ totalBytes' = totalBytes
      /\ sysEnd' = sysEnd
  BY DEF reader
<1>2. SysTypes /\ ReaderPlace /\ HeardIn /\ Tallied /\ OwnText /\ GivesUp /\ PanicsAt
  BY DEF SysInv
<1>3. /\ Len(frames) \in Nat /\ Len(stream) \in Nat /\ Len(frames') \in Nat /\ Len(stream') \in Nat
      /\ \A k \in 1 .. Len(stream) : stream[k].frame \in 1 .. Len(frames)
  BY DEF SysInv, StreamOf
<1>4. /\ arrived \in Nat /\ arrived <= Len(stream) /\ rpos \in Nat /\ rpos <= arrived
      /\ head \in Nat /\ head <= Len(frames) /\ start \in Nat /\ start <= rpos
  BY <1>2 DEF SysTypes
<1>5. SysTypes'
  BY <1>1, <1>2, <1>3, <1>4 DEF SysTypes
<1>6. ASSUME NEW k \in 1 .. Len(stream), NEW p, EndsAt(k, p, frames, stream)
      PROVE  k \in 1 .. Len(stream') /\ EndsAt(k, p, frames', stream')
  <2>1. k \in 1 .. Len(stream') /\ stream'[k] = stream[k] /\ stream[k].frame \in 1 .. Len(frames)
    BY <1>3
  <2>2. frames'[stream[k].frame] = frames[stream[k].frame]
    BY <2>1
  <2> QED BY <1>6, <2>1, <2>2 DEF EndsAt
<1>7. ReaderPlace'
  <2>1. ASSUME InText, syspc = "text" PROVE InText'
    <3>1. start \in 1 .. Len(stream) /\ head \in 1 .. Len(frames)
      BY <1>3, <1>4, <2>1 DEF InText
    <3>2. stream'[start] = stream[start] /\ frames'[head] = frames[head]
      BY <3>1
    <3> QED BY <1>1, <2>1, <3>2 DEF InText, SizeOfText
  <2>2. ASSUME Boundary(rpos) PROVE Boundary(rpos)'
    BY <1>1, <1>6, <2>2 DEF Boundary
  <2>3. ASSUME rpos < Len(stream), stream[rpos + 1].part # "head"
        PROVE  rpos' < Len(stream') /\ stream'[rpos' + 1].part # "head"
    <3>1. rpos + 1 \in 1 .. Len(stream)
      BY <1>3, <1>4, <2>3
    <3> QED BY <1>1, <1>3, <1>4, <2>3, <3>1
  <2>4. LastTo' = LastTo
    BY <1>1 DEF LastTo
  <2>5. rpos < arrived => rpos < arrived'
    BY <1>4
  <2> QED BY <1>1, <1>2, <2>1, <2>2, <2>3, <2>4, <2>5 DEF ReaderPlace
<1>8. HeardIn'
  <2> SUFFICES ASSUME NEW i \in 1 .. Len(heard)
               PROVE  /\ heard[i].frame \in 1 .. Len(frames')
                      /\ heard[i].from \in 1 .. Len(stream') /\ heard[i].to <= Len(stream')
    BY <1>1 DEF HeardIn
  <2>1. heard[i] \in SysRows
    BY <1>2 DEF SysTypes
  <2>2. heard[i].frame \in Int /\ heard[i].from \in Int /\ heard[i].to \in Int
    BY <2>1 DEF SysRows
  <2>3. /\ heard[i].frame \in 1 .. Len(frames) /\ heard[i].from \in 1 .. Len(stream)
        /\ heard[i].to <= Len(stream)
    BY <1>2 DEF HeardIn
  <2> QED BY <1>3, <2>2, <2>3
<1>9. Tallied'
  <2>1. ASSUME \A j \in 1 .. Len(frames') : Counts(frames[j])'
        PROVE  \A j \in 1 .. Len(frames) : Counts(frames[j])
    <3> SUFFICES ASSUME NEW j \in 1 .. Len(frames) PROVE Counts(frames[j])
      OBVIOUS
    <3>1. j \in 1 .. Len(frames') /\ frames'[j] = frames[j]
      BY <1>3
    <3>2. Counts(frames[j])'
      BY <2>1, <3>1
    <3> QED BY <1>1, <3>1, <3>2 DEF Counts, Ended, SizeOfText
  <2> QED BY <1>1, <1>2, <2>1 DEF Tallied
<1>10. OwnText'
  <2>1. DOMAIN heard = 1 .. Len(heard) /\ DOMAIN heard' = 1 .. Len(heard')
    BY <1>1, <1>2 DEF SysTypes
  <2>2. ASSUME NEW i \in 1 .. Len(heard) PROVE Chained(i)' /\ OwnRow(i)'
    <3>1. Chained(i) /\ OwnRow(i)
      BY <1>2, <2>1, OwnTextRows
    <3>2. heard[i] \in SysRows
      BY <1>2 DEF SysTypes
    <3>3. /\ heard[i].frame \in 1 .. Len(frames) /\ heard[i].from \in 1 .. Len(stream)
          /\ heard[i].to <= Len(stream)
      BY <1>2 DEF HeardIn
    <3> QED BY <1>1, <1>3, <3>1, <3>2, <3>3, RowStays
  <2>3. Len(heard') = Len(heard)
    BY <1>1
  <2> QED BY <2>1, <2>2, <2>3, Zenon DEF OwnText, OwnRow, Chained
<1>11. GivesUp'
  <2> SUFFICES ASSUME sysEnd = "error", ~shut'
               PROVE  split \/ frames'[stream'[rpos + 1].frame].form \in {"invalid", "open"}
    BY <1>1 DEF GivesUp
  <2>1. split \/ frames[stream[rpos + 1].frame].form \in {"invalid", "open"}
    BY <1>2 DEF GivesUp
  <2>2. rpos + 1 \in 1 .. Len(stream)
    BY <1>2, <1>3, <1>4 DEF ReaderPlace
  <2>3. stream'[rpos + 1] = stream[rpos + 1] /\ stream[rpos + 1].frame \in 1 .. Len(frames)
    BY <1>3, <2>2
  <2> QED BY <2>1, <2>3
<1>12. PanicsAt'
  <2>1. ASSUME sysEnd = "panic"
        PROVE  frames'[head] = frames[head]
    <3>1. head \in 1 .. Len(frames)
      BY <1>2, <1>3, <1>4, <2>1 DEF ReaderPlace
    <3> QED BY <3>1
  <2> QED BY <1>1, <1>2, <2>1 DEF PanicsAt, Facilities
<1> QED BY <1>5, <1>7, <1>8, <1>9, <1>10, <1>11, <1>12 DEF SysInv

\* A message is sent.
LEMMA SendKeeps ==
  ASSUME SysInv, NEW f \in Frames, Send(f)
  PROVE  SysInv'
<1>1. /\ frames' = Append(frames, f) /\ stream' = Sent(frames, stream, f)
      /\ UNCHANGED <<mode, shut, reader>>
      /\ arrived' = IF mode = "dgram" THEN Len(stream') ELSE arrived
  BY DEF Send, Sent
<1>2. StreamOf(frames, stream)
  BY DEF SysInv
<1>3. StreamOf(frames', stream')
  BY <1>1, <1>2, StreamGrows
<1>4. /\ Len(frames) \in Nat /\ Len(stream) \in Nat /\ Len(frames') \in Nat
      /\ Len(stream') \in Nat /\ SizeOfText(f) \in Nat
  BY <1>2, <1>3, FrameFacts DEF StreamOf
<1>5. /\ Len(stream') = Len(stream) + 1 + SizeOfText(f)
      /\ \A k \in 1 .. Len(stream) : stream'[k] = stream[k]
  <2>1. Len(Sent(frames, stream, f)) = Len(stream) + 1 + SizeOfText(f)
    BY <1>2, StreamFacts
  <2>2. \A k \in 1 .. Len(stream) : Sent(frames, stream, f)[k] = stream[k]
    BY <1>2, StreamFacts
  <2> QED BY <1>1, <2>1, <2>2
<1>6. Len(frames') = Len(frames) + 1 /\ \A i \in 1 .. Len(frames) : frames'[i] = frames[i]
  BY <1>1, <1>2 DEF StreamOf
<1>7. arrived \in Nat /\ arrived <= Len(stream) /\ shut \in BOOLEAN
  BY DEF SysInv, SysTypes
<1>8. arrived' \in Nat /\ arrived <= arrived' /\ arrived' <= Len(stream')
  BY <1>1, <1>4, <1>5, <1>7
<1>9. Len(frames') >= Len(frames) /\ Len(stream') >= Len(stream)
  BY <1>4, <1>5, <1>6
<1>10. StreamOf(frames, stream)'
  BY <1>3
<1> QED BY <1>1, <1>5, <1>6, <1>7, <1>8, <1>9, <1>10, ReaderStays

\* Units arrive, or the connection is closed.
LEMMA NetworkKeeps ==
  ASSUME SysInv, (\E n \in 1 .. MaxText + 2 : Arrive(n)) \/ Shut
  PROVE  SysInv'
<1>1. UNCHANGED <<mode, frames, stream, reader>>
  BY DEF Arrive, Shut, sender
<1>2. StreamOf(frames, stream) /\ arrived \in Nat /\ arrived <= Len(stream) /\ shut \in BOOLEAN
  BY DEF SysInv, SysTypes
<1>3. Len(frames) \in Nat /\ Len(stream) \in Nat
  BY <1>2 DEF StreamOf
<1>4. /\ arrived' \in Nat /\ arrived <= arrived' /\ arrived' <= Len(stream')
      /\ shut' \in BOOLEAN /\ (shut => shut')
  <2>1. ASSUME NEW n \in 1 .. MaxText + 2, Arrive(n) PROVE <1>4
    <3>1. shut' = shut /\ arrived' = arrived + n /\ arrived + n <= Len(stream) /\ n \in Nat
      BY <2>1, SyslogAssumption DEF Arrive, sender, SyslogAssumption
    <3> QED BY <1>1, <1>2, <3>1
  <2>2. CASE Shut
    BY <1>1, <1>2, <2>2 DEF Shut
  <2> QED BY <2>1, <2>2
<1>5. StreamOf(frames, stream)'
  BY <1>1, <1>2
<1>6. /\ Len(frames') >= Len(frames) /\ Len(stream') >= Len(stream)
      /\ \A i \in 1 .. Len(frames) : frames'[i] = frames[i]
      /\ \A k \in 1 .. Len(stream) : stream'[k] = stream[k]
  BY <1>1, <1>3
<1> QED BY <1>1, <1>4, <1>5, <1>6, ReaderStays

-----------------------------------------------------------------------------
(* Syslog: what runConn does                                               *)

\* OwnText is about the stream and what was received.
LEMMA OwnTextStays ==
  ASSUME SysInv, UNCHANGED <<mode, frames, stream, heard>>, split => split'
  PROVE  OwnText'
<1>1. StreamOf(frames, stream) /\ SysTypes /\ HeardIn /\ OwnText
  BY DEF SysInv
<1>2. /\ DOMAIN heard = 1 .. Len(heard) /\ DOMAIN heard' = 1 .. Len(heard')
      /\ Len(heard') = Len(heard) /\ Len(stream) \in Nat
  BY <1>1 DEF SysTypes, StreamOf
<1>3. ASSUME NEW i \in 1 .. Len(heard) PROVE Chained(i)' /\ OwnRow(i)'
  <2>1. Chained(i) /\ OwnRow(i)
    BY <1>1, <1>2, OwnTextRows
  <2>2. heard[i] \in SysRows
    BY <1>1 DEF SysTypes
  <2>3. /\ heard[i].frame \in 1 .. Len(frames) /\ heard[i].from \in 1 .. Len(stream)
        /\ heard[i].to <= Len(stream)
    BY <1>1 DEF HeardIn
  <2> QED BY <1>2, <2>1, <2>2, <2>3, RowStays
<1> QED BY <1>2, <1>3, Zenon DEF OwnText, OwnRow, Chained

\* Where the last message ended.
LEMMA LastToIs ==
  ASSUME SysTypes
  PROVE  LastTo \in Int /\ (Len(heard) = 0 => LastTo = 0)
         /\ (Len(heard) > 0 => LastTo = heard[Len(heard)].to)
<1>1. CASE heard = << >>
  BY <1>1 DEF LastTo
<1>2. CASE heard # << >>
  <2>1. heard[Len(heard)] \in SysRows /\ Len(heard) # 0
    BY <1>2 DEF SysTypes
  <2> QED BY <1>2, <2>1 DEF LastTo, SysRows
<1> QED BY <1>1, <1>2

\* runConn returns.
LEMMA FailKeeps ==
  ASSUME SysInv, sysEnd = "no", Fail, UNCHANGED <<sender, arrived>>,
         rpos < arrived \/ shut, GivesUp'
  PROVE  SysInv'
<1>1. /\ UNCHANGED <<mode, frames, stream, shut, arrived>> /\ sysEnd' = "error"
      /\ UNCHANGED <<split, rpos, start, syspc, total, head, heard, totalBytes>>
  BY DEF Fail, sender
<1>2. /\ StreamOf(frames, stream) /\ SysTypes /\ ReaderPlace /\ HeardIn
  BY DEF SysInv
<1>3. StreamOf(frames, stream)'
  BY <1>1, <1>2
<1>4. SysTypes'
  BY <1>1, <1>2 DEF SysTypes
<1>5. ReaderPlace'
  <2>1. LastTo' = LastTo /\ (InText' <=> InText) /\ (Boundary(rpos)' <=> Boundary(rpos))
    BY <1>1 DEF LastTo, InText, Boundary, EndsAt, SizeOfText
  <2> QED BY <1>1, <1>2, <2>1 DEF ReaderPlace
<1>6. HeardIn'
  BY <1>1, <1>2 DEF HeardIn
<1>7. Tallied' /\ PanicsAt'
  BY <1>1 DEF Tallied, PanicsAt
<1>8. OwnText'
  BY <1>1, OwnTextStays
<1> QED BY <1>3, <1>4, <1>5, <1>6, <1>7, <1>8 DEF SysInv

\* Behind the end of a frame is the head of one.
LEMMA HeadFollows ==
  ASSUME StreamOf(frames, stream), NEW p \in Nat, Boundary(p), p < Len(stream)
  PROVE  stream[p + 1].part = "head"
<1>1. CASE p = 0
  <2>1. Len(stream) > 0
    BY <1>1
  <2> QED BY <1>1, <2>1 DEF StreamOf
<1>2. ASSUME NEW k \in 1 .. Len(stream), EndsAt(k, p, frames, stream)
      PROVE  stream[p + 1].part = "head"
  <2>1. stream[k].part = "head" /\ p = k + SizeOfText(frames[stream[k].frame])
    BY <1>2 DEF EndsAt
  <2>2. FrameAt(k, frames, stream)
    BY <2>1 DEF StreamOf
  <2> QED BY <2>1, <2>2 DEF FrameAt
<1> QED BY <1>1, <1>2 DEF Boundary

\* A head is read, and perhaps more.
LEMMA HeadReadKeeps ==
  ASSUME SysInv, sysEnd = "no", syspc = "head", UNCHANGED <<sender, arrived>>,
         stream[rpos + 1].part = "head",
         frames[stream[rpos + 1].frame].form \in {"whole", "open"},
         NEW to \in Nat, rpos < to, to <= arrived,
         frames[stream[rpos + 1].frame].form = "whole" => to = rpos + 1,
         HeadRead(stream[rpos + 1].frame, to)
  PROVE  SysInv'
<1> DEFINE g == stream[rpos + 1].frame
           left == SizeOfText(frames[g]) - (to - (rpos + 1))
<1>1. StreamOf(frames, stream) /\ SysTypes /\ ReaderPlace /\ HeardIn /\ Tallied
  BY DEF SysInv
<1>2. /\ rpos \in Nat /\ arrived \in Nat /\ arrived <= Len(stream) /\ Len(stream) \in Nat
      /\ Len(frames) \in Nat /\ split \in BOOLEAN
  BY <1>1 DEF SysTypes, StreamOf
<1>3. rpos + 1 \in 1 .. Len(stream) /\ g \in 1 .. Len(frames)
  <2>1. rpos + 1 \in 1 .. Len(stream)
    BY <1>2
  <2> QED BY <1>1, <2>1 DEF StreamOf
<1>4. UNCHANGED <<mode, frames, stream, shut, arrived>>
  BY DEF sender
<1>5. /\ rpos' = to /\ start' = rpos + 1 /\ head' = g /\ syspc' = "text"
      /\ total' = (IF mode = "counted" /\ left > 0 THEN left ELSE 0)
      /\ UNCHANGED <<split, heard, totalBytes, sysEnd>>
  BY DEF HeadRead
<1>6. SizeOfText(frames[g]) \in Nat
  <2>1. frames[g] \in Frames
    BY <1>1, <1>3 DEF StreamOf
  <2> QED BY <2>1, FrameFacts
<1>7. left \in Int /\ left = SizeOfText(frames[g]) - (to - (rpos + 1))
  BY <1>2, <1>6
<1>8. frames[g].form \in {"whole", "open"} /\ (frames[g].form = "whole" => to = rpos + 1)
      /\ stream[rpos + 1].frame = g
  OBVIOUS
<1> HIDE DEF g, left
<1>9. StreamOf(frames, stream)'
  BY <1>1, <1>4
<1>10. total' \in Nat
  BY <1>5, <1>7
<1>11. SysTypes'
  BY <1>1, <1>2, <1>3, <1>4, <1>5, <1>10 DEF SysTypes
<1>12. ReaderPlace'
  <2>1. InText'
    <3>1. SizeOfText(frames[head])' = SizeOfText(frames[g])
      BY <1>4, <1>5 DEF SizeOfText
    <3>2. start' >= 1 /\ head' >= 1 /\ stream'[start'].frame = head' /\ stream'[start'].part = "head"
      BY <1>2, <1>3, <1>4, <1>5, <1>8
    <3>3. SizeOfText(frames[head])' - (rpos' - start') = left
      BY <1>5, <1>7, <3>1
    <3>4. frames'[head'].form \in {"whole", "open"}
          /\ (frames'[head'].form = "whole" => rpos' = start')
      BY <1>4, <1>5, <1>8
    <3> QED BY <1>4, <1>5, <3>2, <3>3, <3>4 DEF InText
  <2>2. ~split
    BY <1>1 DEF ReaderPlace
  <2>3. LastTo' = LastTo /\ rpos = LastTo
    BY <1>1, <1>5 DEF ReaderPlace, LastTo
  <2> QED BY <1>5, <2>1, <2>2, <2>3 DEF ReaderPlace
<1>13. HeardIn'
  BY <1>1, <1>4, <1>5 DEF HeardIn
<1>14. Tallied'
  <2>1. (\A j \in 1 .. Len(frames) : Counts(frames[j]))' <=> \A j \in 1 .. Len(frames) : Counts(frames[j])
    BY <1>4 DEF Counts, Ended, SizeOfText
  <2>2. start' - 1 = rpos
    BY <1>2, <1>5
  <2> QED BY <1>1, <1>4, <1>5, <2>1, <2>2 DEF Tallied
<1>15. OwnText'
  BY <1>4, <1>5, OwnTextStays
<1>16. GivesUp' /\ PanicsAt'
  BY <1>5 DEF GivesUp, PanicsAt
<1> QED BY <1>9, <1>11, <1>12, <1>13, <1>14, <1>15, <1>16 DEF SysInv

\* The head of a message.
LEMMA ReadHeadKeeps ==
  ASSUME SysInv, ReadHead
  PROVE  SysInv'
<1> DEFINE u == stream[rpos + 1]
           form == frames[u.frame].form
<1>1. StreamOf(frames, stream) /\ SysTypes /\ ReaderPlace /\ HeardIn
  BY DEF SysInv
<1>2. sysEnd = "no" /\ syspc = "head" /\ rpos < arrived /\ UNCHANGED <<sender, arrived>>
  BY DEF ReadHead
<1>3. /\ rpos \in Nat /\ arrived \in Nat /\ arrived <= Len(stream) /\ Len(stream) \in Nat
      /\ Len(frames) \in Nat /\ split \in BOOLEAN
  BY <1>1 DEF SysTypes, StreamOf
<1>4. UNCHANGED <<mode, frames, stream, shut, arrived>>
  BY <1>2 DEF sender
<1>5. CASE (u.part # "head" \/ form \in {"invalid", "open"}) /\ Fail
  <2>1. UNCHANGED <<split, rpos>>
    BY <1>5 DEF Fail
  <2>2. split \/ form \in {"invalid", "open"}
    <3> SUFFICES ASSUME ~split PROVE form \in {"invalid", "open"}
      OBVIOUS
    <3>1. Boundary(rpos)
      BY <1>1, <1>2 DEF ReaderPlace
    <3>2. rpos < Len(stream)
      BY <1>2, <1>3
    <3>3. u.part = "head"
      BY <1>1, <1>3, <3>1, <3>2, HeadFollows
    <3> QED BY <1>5, <3>3
  <2>3. GivesUp'
    BY <1>4, <2>1, <2>2 DEF GivesUp
  <2> QED BY <1>2, <1>5, <2>3, FailKeeps
<1>6. CASE u.part = "head" /\ form = "whole" /\ HeadRead(u.frame, rpos + 1)
  <2>1. rpos + 1 \in Nat /\ rpos < rpos + 1 /\ rpos + 1 <= arrived
    BY <1>2, <1>3
  <2> QED BY <1>2, <1>6, <2>1, HeadReadKeeps
<1>7. ASSUME u.part = "head", form = "open",
             NEW j \in rpos + 2 .. arrived, HeadRead(u.frame, j)
      PROVE  SysInv'
  <2>1. j \in Nat /\ rpos < j /\ j <= arrived
    BY <1>2, <1>3
  <2> QED BY <1>2, <1>7, <2>1, HeadReadKeeps
<1>8. CASE /\ u.part = "head" /\ form = "slice" /\ sysEnd' = "panic" /\ head' = u.frame
           /\ UNCHANGED <<split, rpos, start, syspc, total, heard, totalBytes>>
  <2>1. rpos + 1 \in 1 .. Len(stream)
    BY <1>2, <1>3
  <2>2. u.frame \in 1 .. Len(frames)
    BY <1>1, <2>1 DEF StreamOf
  <2>3. StreamOf(frames, stream)'
    BY <1>1, <1>4
  <2>4. SysTypes'
    BY <1>1, <1>2, <1>3, <1>4, <1>8, <2>2 DEF SysTypes
  <2>5. ReaderPlace'
    <3>1. Boundary(rpos)' <=> Boundary(rpos)
      BY <1>4, <1>8 DEF Boundary, EndsAt, SizeOfText
    <3>2. head' >= 1
      BY <1>3, <1>8, <2>2
    <3> QED BY <1>1, <1>2, <1>4, <1>8, <3>1, <3>2 DEF ReaderPlace
  <2>6. HeardIn'
    BY <1>1, <1>4, <1>8 DEF HeardIn
  <2>7. Tallied' /\ GivesUp'
    BY <1>8 DEF Tallied, GivesUp
  <2>8. OwnText'
    BY <1>4, <1>8, OwnTextStays
  <2>9. PanicsAt'
    BY <1>4, <1>8 DEF PanicsAt
  <2> QED BY <2>3, <2>4, <2>5, <2>6, <2>7, <2>8, <2>9 DEF SysInv
<1> QED BY <1>5, <1>6, <1>7, <1>8 DEF ReadHead

\* What the tables have: a priority that passes them, or the end of the process.
LEMMA Tables ==
  ASSUME NEW p \in Int,
         LET fac == IF p \div 8 > Facilities THEN 0 ELSE p \div 8
             sev == IF p > 8 THEN p % 8 ELSE p
         IN  sev \notin 0 .. Severities - 1 \/ (p > 8 /\ fac >= Facilities)
  PROVE  p < 0 \/ p = 8 \/ p \div 8 = Facilities
<1>1. CASE p > 8
  <2>1. p % 8 \in 0 .. 7 /\ p \div 8 \in Int
    BY <1>1
  <2> QED BY <1>1, <2>1 DEF Facilities, Severities
<1>2. CASE ~(p > 8)
  BY <1>2 DEF Severities
<1> QED BY <1>1, <1>2

\* A message is received, up to to: the end of a frame, or of what has come
\* of its text.
LEMMA ReceivedKeeps ==
  ASSUME SysInv, sysEnd = "no", syspc = "text", UNCHANGED <<sender, arrived, start, total, head>>,
         NEW to \in Int, start <= to, to <= arrived, Received(to), split' \in BOOLEAN,
         ~split' => Boundary(to),
         split' => to < Len(stream) /\ stream[to + 1].part # "head",
         ~split' /\ frames[head].form = "whole" /\ Ended(frames[head]) =>
           to = start + SizeOfText(frames[head])
  PROVE  SysInv'
<1>1. StreamOf(frames, stream) /\ SysTypes /\ ReaderPlace /\ HeardIn /\ Tallied /\ OwnText
  BY DEF SysInv
<1>2. UNCHANGED <<mode, frames, stream, shut, arrived, start, total, head>>
  BY DEF sender
<1>3. /\ arrived \in Nat /\ arrived <= Len(stream) /\ Len(stream) \in Nat /\ start \in Nat
      /\ head \in Nat /\ head <= Len(frames) /\ Len(frames) \in Nat /\ split \in BOOLEAN
      /\ totalBytes \in Int /\ heard \in Seq(SysRows) /\ Len(heard) \in Nat
  BY <1>1 DEF SysTypes, StreamOf
<1>4. InText /\ ~split
  BY <1>1 DEF ReaderPlace
<1>5. /\ start \in 1 .. Len(stream) /\ head \in 1 .. Len(frames) /\ to \in Nat
      /\ stream[start].frame = head /\ stream[start].part = "head"
      /\ frames[head].form \in {"whole", "open"}
  BY <1>3, <1>4 DEF InText
<1>6. StreamOf(frames, stream)'
  BY <1>1, <1>2
<1>7. rpos' = to /\ syspc' = "head"
  BY DEF Received
<1>8. frames[head].prio \in Int /\ SizeOfText(frames[head]) \in Nat
  <2>1. frames[head] \in Frames
    BY <1>1, <1>5 DEF StreamOf
  <2> QED BY <2>1, FrameFacts
<1> DEFINE p == frames[head].prio
           fac == IF p \div 8 > Facilities THEN 0 ELSE p \div 8
           sev == IF p > 8 THEN p % 8 ELSE p
           Off == sev \notin 0 .. Severities - 1 \/ (p > 8 /\ fac >= Facilities)
           row == [frame |-> head, severity |-> sev, facility |-> IF p > 8 THEN fac ELSE -1,
                   from |-> start, to |-> to]
           size == IF mode = "counted" THEN SizeOfText(frames[head]) + 1 ELSE to - start + 1
<1>9. IF Off THEN sysEnd' = "panic" /\ UNCHANGED <<heard, totalBytes>>
             ELSE /\ heard' = Append(heard, row) /\ totalBytes' = totalBytes + size
                  /\ sysEnd' \in {"no", "failed"}
  BY DEF Received
<1>10. Off => p < 0 \/ p = 8 \/ p \div 8 = Facilities
  BY <1>8, Tables
<1>11. row \in SysRows /\ row.frame = head /\ row.from = start /\ row.to = to
  <2>1. sev \in Int /\ fac \in Int
    BY <1>8 DEF Facilities
  <2> HIDE DEF sev, fac
  <2> QED BY <1>3, <1>5, <2>1 DEF SysRows
<1>12. size = (IF mode = "counted" THEN SizeOfText(frames[head]) + 1 ELSE to - start + 1)
       /\ size \in Int
  BY <1>3, <1>8
<1> HIDE DEF p, fac, sev, Off, row, size
<1>13. Boundary(rpos)' <=> Boundary(to)
  BY <1>2, <1>7 DEF Boundary, EndsAt, SizeOfText
<1>14. CASE Off
  <2>1. sysEnd' = "panic" /\ UNCHANGED <<heard, totalBytes>>
    BY <1>9, <1>14
  <2>2. SysTypes'
    BY <1>1, <1>2, <1>3, <1>5, <1>7, <2>1 DEF SysTypes
  <2>3. ReaderPlace'
    BY <1>2, <1>3, <1>5, <1>7, <1>13, <2>1 DEF ReaderPlace
  <2>4. HeardIn'
    BY <1>1, <1>2, <2>1 DEF HeardIn
  <2>5. Tallied' /\ GivesUp'
    BY <2>1 DEF Tallied, GivesUp
  <2>6. OwnText'
    BY <1>2, <1>4, <2>1, OwnTextStays
  <2>7. PanicsAt'
    BY <1>2, <1>10, <1>14 DEF PanicsAt, Facilities, p
  <2> QED BY <1>6, <2>2, <2>3, <2>4, <2>5, <2>6, <2>7 DEF SysInv
<1>15. CASE ~Off
  <2>1. /\ heard' = Append(heard, row) /\ totalBytes' = totalBytes + size
        /\ sysEnd' \in {"no", "failed"}
    BY <1>9, <1>15
  <2> DEFINE n == Len(heard)
  <2>2. /\ heard' \in Seq(SysRows) /\ Len(heard') = n + 1 /\ heard'[n + 1] = row
        /\ \A i \in 1 .. n : heard'[i] = heard[i]
    BY <1>3, <1>11, <2>1
  <2>3. n \in Nat
    BY <1>3
  <2>4. SysTypes'
    <3>1. totalBytes' \in Int
      BY <1>3, <1>12, <2>1
    <3> QED BY <1>1, <1>2, <1>3, <1>5, <1>7, <2>1, <2>2, <3>1 DEF SysTypes
  <2> HIDE DEF n
  <2>5. LastTo' = to
    <3>1. heard' # << >>
      BY <2>2, <2>3
    <3> QED BY <1>11, <2>2, <3>1 DEF LastTo
  <2>6. ReaderPlace'
    BY <1>2, <1>7, <1>13, <2>1, <2>5 DEF ReaderPlace
  <2>7. HeardIn'
    <3> SUFFICES ASSUME NEW i \in 1 .. n + 1
                 PROVE  /\ heard'[i].frame \in 1 .. Len(frames)
                        /\ heard'[i].from \in 1 .. Len(stream) /\ heard'[i].to <= Len(stream)
      BY <1>2, <2>2 DEF HeardIn
    <3>1. CASE i = n + 1
      BY <1>3, <1>5, <1>11, <2>2, <3>1
    <3>2. CASE i # n + 1
      <4>1. i \in 1 .. n /\ heard'[i] = heard[i]
        BY <2>2, <2>3, <3>2
      <4> QED BY <1>1, <4>1 DEF HeardIn, n
    <3> QED BY <3>1, <3>2
  <2>8. Tallied'
    <3> SUFFICES ASSUME ~split', mode = "counted" => \A j \in 1 .. Len(frames) : Counts(frames[j])
                 PROVE  totalBytes + size = to
      BY <1>2, <1>7, <2>1 DEF Tallied, Counts, Ended, SizeOfText
    <3>1. totalBytes = start - 1
      BY <1>1, <1>4 DEF Tallied
    <3>2. CASE mode = "counted"
      <4>1. frames[head].form = "whole" /\ Ended(frames[head])
        BY <1>5, <3>2 DEF Counts
      <4>2. to = start + SizeOfText(frames[head])
        BY <4>1
      <4> QED BY <1>3, <1>8, <1>12, <3>1, <3>2, <4>2
    <3>3. CASE mode # "counted"
      BY <1>3, <1>12, <3>1, <3>3
    <3> QED BY <3>2, <3>3
  <2>9. OwnText'
    <3>0. DOMAIN heard = 1 .. Len(heard)
      BY <1>3
    <3>1. ASSUME NEW i \in 1 .. n + 1 PROVE Chained(i)' /\ OwnRow(i)'
      <4>1. CASE i # n + 1
        <5>1. /\ i \in 1 .. n /\ heard'[i] = heard[i]
              /\ (i # 1 => i - 1 \in 1 .. n /\ heard'[i - 1] = heard[i - 1])
          BY <2>2, <2>3, <4>1
        <5>2. Chained(i) /\ OwnRow(i)
          BY <1>1, <3>0, <5>1, OwnTextRows DEF n
        <5>3. Chained(i)'
          BY <5>1, <5>2 DEF Chained
        <5>4. OwnRow(i)'
          <6> DEFINE h == heard[i]
                     f == frames[h.frame]
          <6>1. /\ stream[h.from].frame = h.frame /\ stream[h.from].part = "head"
                /\ f.form = "whole" /\ Ended(f) =>
                     /\ \A k \in h.from .. h.to : stream[k].frame = h.frame
                     /\ h.to - h.from + 1 = Len(Units(h.frame, f))
            BY <1>4, <5>2 DEF OwnRow
          <6>2. Ended(f)' <=> Ended(f)
            BY <1>2, <5>1 DEF Ended, SizeOfText
          <6> QED BY <1>2, <5>1, <6>1, <6>2 DEF OwnRow, Ended, SizeOfText, Units
        <5> QED BY <5>3, <5>4
      <4>2. CASE i = n + 1
        <5>1. heard'[i].frame = head /\ heard'[i].from = start /\ heard'[i].to = to
          BY <1>11, <2>2, <4>2
        <5>2. Chained(i)'
          <6>1. start = LastTo + 1
            BY <1>1 DEF ReaderPlace
          <6>2. CASE n = 0
            <7>1. LastTo = 0 /\ i = 1
              BY <1>1, <4>2, <6>2, LastToIs DEF n
            <7> QED BY <5>1, <6>1, <7>1 DEF Chained
          <6>3. CASE n # 0
            <7>1. LastTo = heard[n].to
              BY <1>1, <2>3, <6>3, LastToIs DEF n
            <7>2. i # 1 /\ i - 1 = n /\ n \in 1 .. n
              BY <2>3, <4>2, <6>3
            <7>3. heard'[i - 1] = heard[n]
              BY <2>2, <7>2
            <7> QED BY <5>1, <6>1, <7>1, <7>2, <7>3 DEF Chained
          <6> QED BY <6>2, <6>3
        <5>3. ASSUME frames[head].form = "whole", Ended(frames[head]), ~split'
              PROVE  /\ \A k \in start .. to : stream[k].frame = head
                     /\ to - start + 1 = Len(Units(head, frames[head]))
          <6>1. to = start + SizeOfText(frames[head])
            BY <5>3
          <6>2. FrameAt(start, frames, stream)
            BY <1>1, <1>5 DEF StreamOf
          <6>3. \A k \in start + 1 .. to : stream[k].frame = head
            BY <1>5, <6>1, <6>2 DEF FrameAt
          <6>4. \A k \in start .. to : k = start \/ k \in start + 1 .. to
            BY <1>3, <1>5
          <6>5. Len(Units(head, frames[head])) = 1 + SizeOfText(frames[head])
            <7>1. frames[head] \in Frames
              BY <1>1, <1>5 DEF StreamOf
            <7> QED BY <1>3, <7>1, UnitsFacts
          <6>6. to - start + 1 = Len(Units(head, frames[head]))
            BY <1>3, <1>5, <1>8, <6>1, <6>5
          <6> QED BY <1>5, <6>3, <6>4, <6>6
        <5>4. split' /\ i = Len(heard') <=> split'
          BY <2>2, <4>2
        <5>5. OwnRow(i)'
          <6>1. Ended(frames[head])' <=> Ended(frames[head])
            BY <1>2 DEF Ended, SizeOfText
          <6> QED BY <1>2, <1>5, <5>1, <5>3, <5>4, <6>1 DEF OwnRow, Ended, SizeOfText, Units
        <5> QED BY <5>2, <5>5
      <4> QED BY <4>1, <4>2
    <3>2. DOMAIN heard' = 1 .. n + 1
      BY <2>2
    <3> QED BY <3>1, <3>2, Zenon DEF OwnText, OwnRow, Chained
  <2>10. GivesUp' /\ PanicsAt'
    BY <2>1 DEF GivesUp, PanicsAt
  <2> QED BY <1>6, <2>4, <2>6, <2>7, <2>8, <2>9, <2>10 DEF SysInv
<1> QED BY <1>14, <1>15

\* The least of some natural numbers.
LEMMA MinIs ==
  ASSUME NEW S \in SUBSET Nat, S # {}
  PROVE  Min(S) \in S /\ \A y \in S : Min(S) <= y
<1>1. \E x \in S : \A y \in S : x <= y
  BY LeastNatural
<1> QED BY <1>1 DEF Min

\* A text that is counted.
LEMMA ReadCountedKeeps ==
  ASSUME SysInv, ReadCounted
  PROVE  SysInv'
<1> DEFINE n == Min({total, arrived - rpos})
           q == SizeOfText(frames[head])
<1>1. StreamOf(frames, stream) /\ SysTypes /\ ReaderPlace
  BY DEF SysInv
<1>2. /\ sysEnd = "no" /\ syspc = "text" /\ total > 0 /\ rpos < arrived
      /\ Received(rpos + n) /\ split' = (split \/ n < total)
      /\ UNCHANGED <<sender, arrived, start, total, head>>
  BY DEF ReadCounted
<1>3. /\ total \in Nat /\ rpos \in Nat /\ arrived \in Nat /\ split \in BOOLEAN /\ start \in Nat
      /\ start <= rpos /\ arrived <= Len(stream) /\ Len(stream) \in Nat
      /\ head \in Nat /\ head <= Len(frames) /\ Len(frames) \in Nat
  BY <1>1 DEF SysTypes, StreamOf
<1>4. /\ n \in {total, arrived - rpos} /\ n <= total /\ n <= arrived - rpos
  <2>1. {total, arrived - rpos} \in SUBSET Nat
    BY <1>2, <1>3
  <2> QED BY <2>1, MinIs
<1> HIDE DEF n
<1>5. InText /\ ~split
  BY <1>1, <1>2 DEF ReaderPlace
<1>6. /\ start \in 1 .. Len(stream) /\ head \in 1 .. Len(frames)
      /\ stream[start].frame = head /\ stream[start].part = "head"
  <2>1. start >= 1 /\ head >= 1 /\ stream[start].frame = head /\ stream[start].part = "head"
    BY <1>5 DEF InText
  <2> QED BY <1>2, <1>3, <2>1
<1>7. q \in Nat
  <2>1. frames[head] \in Frames
    BY <1>1, <1>6 DEF StreamOf
  <2> QED BY <2>1, FrameFacts
<1>8. total = q - (rpos - start)
  BY <1>2, <1>5 DEF InText
<1>9. /\ start + q <= Len(stream)
      /\ \A j \in start + 1 .. start + q :
           stream[j].part = (IF j <= start + frames[head].text THEN "text" ELSE "nl")
  <2>1. FrameAt(start, frames, stream)
    BY <1>1, <1>6 DEF StreamOf
  <2> QED BY <1>6, <2>1 DEF FrameAt
<1>10. EndsAt(start, start + q, frames, stream)
  BY <1>6 DEF EndsAt
<1> HIDE DEF q
<1>11. rpos + n \in Int /\ start <= rpos + n /\ rpos + n <= arrived
  BY <1>2, <1>3, <1>4
<1>12. split' \in BOOLEAN
  BY <1>2, <1>3
<1>13. ~split' => rpos + n = start + q
  <2> SUFFICES ASSUME ~split' PROVE n = total
    BY <1>3, <1>7, <1>8
  <2>1. ~(n < total)
    BY <1>2
  <2> QED BY <1>3, <1>4, <2>1
<1>14. ~split' => Boundary(rpos + n)
  BY <1>6, <1>10, <1>13 DEF Boundary
<1>15. ASSUME split' PROVE rpos + n < Len(stream) /\ stream[rpos + n + 1].part # "head"
  <2>1. n < total
    BY <1>2, <1>5, <1>15
  <2>2. rpos + n + 1 \in start + 1 .. start + q
    BY <1>2, <1>3, <1>4, <1>7, <1>8, <2>1
  <2>3. rpos + n < Len(stream)
    <3>1. rpos + n + 1 <= start + q /\ start + q <= Len(stream)
      BY <1>9, <2>2
    <3> QED BY <1>3, <1>7, <1>11, <3>1
  <2>4. stream[rpos + n + 1].part \in {"text", "nl"}
    <3>1. ASSUME NEW j \in start + 1 .. start + q PROVE stream[j].part \in {"text", "nl"}
      BY <1>9
    <3> QED BY <2>2, <3>1
  <2> QED BY <2>3, <2>4
<1> QED BY <1>2, <1>11, <1>12, <1>13, <1>14, <1>15, ReceivedKeeps DEF q

\* A text that a newline ends.
LEMMA ReadLineKeeps ==
  ASSUME SysInv, ReadLine
  PROVE  SysInv'
<1> DEFINE ends == {i \in rpos + 1 .. arrived : stream[i].part = "nl"}
           m == Min(ends)
<1>1. StreamOf(frames, stream) /\ SysTypes /\ ReaderPlace
  BY DEF SysInv
<1>2. /\ sysEnd = "no" /\ syspc = "text" /\ total = 0 /\ ends # {}
      /\ Received(m) /\ UNCHANGED <<sender, arrived, split, start, total, head>>
  BY DEF ReadLine
<1>3. /\ rpos \in Nat /\ arrived \in Nat /\ rpos <= arrived /\ split \in BOOLEAN
      /\ start \in Nat /\ start <= rpos /\ Len(frames) \in Nat
      /\ arrived <= Len(stream) /\ Len(stream) \in Nat /\ head \in Nat /\ head <= Len(frames)
  BY <1>1 DEF SysTypes, StreamOf
<1>4. m \in ends /\ \A y \in ends : m <= y
  <2>1. ends \in SUBSET Nat
    BY <1>3
  <2> HIDE DEF ends
  <2> QED BY <1>2, <2>1, MinIs
<1>5. m \in rpos + 1 .. arrived /\ stream[m].part = "nl"
  BY <1>4
<1>6. \A y \in rpos + 1 .. arrived : stream[y].part = "nl" => m <= y
  BY <1>4
<1> HIDE DEF ends, m
<1>7. m \in Int /\ rpos < m /\ start <= m /\ m <= arrived /\ m \in 1 .. Len(stream)
  BY <1>3, <1>5
<1>8. InText /\ ~split /\ ~split'
  BY <1>1, <1>2 DEF ReaderPlace
<1>9. Boundary(m)
  <2>1. PICK k \in 1 .. m : EndsAt(k, m, frames, stream)
    BY <1>1, <1>5, <1>7 DEF StreamOf
  <2>2. k \in 1 .. Len(stream)
    BY <1>3, <1>7, <2>1
  <2> QED BY <2>1, <2>2 DEF Boundary
<1>10. ASSUME frames[head].form = "whole", Ended(frames[head])
       PROVE  m = start + SizeOfText(frames[head])
  <2> DEFINE f == frames[head]
             q == SizeOfText(f)
  <2>1. /\ start \in 1 .. Len(stream) /\ head \in 1 .. Len(frames)
        /\ stream[start].frame = head /\ stream[start].part = "head" /\ rpos = start
        /\ total = IF mode = "counted" /\ q - (rpos - start) > 0 THEN q - (rpos - start) ELSE 0
    BY <1>3, <1>8, <1>10 DEF InText
  <2>2. f \in Frames
    BY <1>1, <2>1 DEF StreamOf
  <2>3. /\ f.text \in Nat /\ f.nl \in BOOLEAN /\ q \in Nat
        /\ q = f.text + (IF f.nl THEN 1 ELSE 0)
    BY <2>2, FrameFacts
  <2>4. mode # "counted"
    <3> SUFFICES ASSUME mode = "counted" PROVE FALSE
      OBVIOUS
    <3>1. q > 0
      BY <1>10 DEF Ended
    <3>2. q - (rpos - start) > 0
      BY <1>3, <2>1, <2>3, <3>1
    <3> QED BY <1>2, <2>1, <3>2
  <2>5. q = f.text + 1
    BY <1>10, <2>3, <2>4 DEF Ended
  <2>6. FrameAt(start, frames, stream)
    BY <1>1, <2>1 DEF StreamOf
  <2>7. /\ start + q <= Len(stream)
        /\ \A j \in start + 1 .. start + q :
             stream[j].part = (IF j <= start + f.text THEN "text" ELSE "nl")
    BY <2>1, <2>6 DEF FrameAt
  <2> HIDE DEF f, q
  <2>8. m >= start + q
    <3> SUFFICES ASSUME m < start + q PROVE FALSE
      BY <1>3, <1>7, <2>3
    <3>1. m \in start + 1 .. start + q /\ m <= start + f.text
      <4>1. rpos = start /\ f.text \in Nat /\ q = f.text + 1
        BY <2>1, <2>3, <2>5
      <4> QED BY <1>3, <1>7, <4>1
    <3>2. stream[m].part = "text"
      BY <2>7, <3>1
    <3> QED BY <1>5, <3>2
  <2>9. m <= start + q
    <3>1. start + q \in rpos + 1 .. arrived /\ start + q \in start + 1 .. start + q
          /\ ~(start + q <= start + f.text)
      <4>1. f.text \in Nat /\ rpos = start
        BY <2>1, <2>3
      <4> QED BY ONLY <1>3, <1>7, <2>5, <2>8, <4>1
    <3>2. stream[start + q].part = "nl"
      BY <2>7, <3>1
    <3> QED BY <1>6, <3>1, <3>2
  <2>10. m = start + q
    BY <1>3, <1>7, <2>3, <2>8, <2>9
  <2> QED BY <2>10 DEF f, q
<1> QED BY <1>2, <1>3, <1>7, <1>8, <1>9, <1>10, ReceivedKeeps

\* The end of the connection.
LEMMA ReadEOFKeeps ==
  ASSUME SysInv, ReadEOF
  PROVE  SysInv'
<1>1. sysEnd = "no" /\ shut /\ Fail /\ UNCHANGED <<sender, arrived>>
  BY DEF ReadEOF
<1>2. shut' = shut
  BY <1>1 DEF sender
<1>3. GivesUp'
  BY <1>1, <1>2 DEF GivesUp
<1> QED BY <1>1, <1>3, FailKeeps

-----------------------------------------------------------------------------
(* Syslog: the theorem                                                     *)

\* No unit is sent and nothing is read.
LEMMA SysInitHolds == SysInit => SysInv
<1> SUFFICES ASSUME SysInit PROVE SysInv
  OBVIOUS
<1>1. /\ mode \in Modes /\ frames = << >> /\ stream = << >> /\ arrived = 0 /\ split = FALSE
      /\ rpos = 0 /\ start = 0 /\ syspc = "head" /\ total = 0 /\ head = 0 /\ heard = << >> /\ totalBytes = 0
      /\ sysEnd = "no" /\ shut = FALSE
  BY DEF SysInit
<1>2. StreamOf(frames, stream)
  BY <1>1 DEF StreamOf
<1>3. SysTypes /\ HeardIn
  <2>1. Len(stream) = 0 /\ Len(frames) = 0 /\ heard \in Seq(SysRows) /\ Len(heard) = 0
    BY <1>1
  <2>2. /\ mode \in Modes /\ syspc \in {"head", "text"} /\ sysEnd \in {"no", "error", "failed", "panic"}
        /\ totalBytes \in Int
    BY <1>1
  <2>6. split \in BOOLEAN /\ shut \in BOOLEAN
    BY <1>1, Zenon
  <2>3. /\ arrived \in Nat /\ arrived <= Len(stream) /\ rpos \in Nat /\ rpos <= arrived
        /\ start \in Nat /\ start <= rpos
        /\ head \in Nat /\ head <= Len(frames) /\ total \in Nat
    BY <1>1, <2>1
  <2>4. SysTypes
    BY ONLY <2>1, <2>2, <2>3, <2>6 DEF SysTypes
  <2>5. HeardIn
    BY <2>1 DEF HeardIn
  <2> QED BY <2>4, <2>5
<1>4. ReaderPlace
  BY <1>1 DEF ReaderPlace, LastTo, Boundary
<1>5. Tallied /\ GivesUp /\ PanicsAt
  BY <1>1 DEF Tallied, GivesUp, PanicsAt
<1>6. OwnText
  <2>1. DOMAIN heard = {}
    BY <1>1
  <2> QED BY <2>1 DEF OwnText
<1> QED BY <1>2, <1>3, <1>4, <1>5, <1>6 DEF SysInv

\* Every step keeps the invariant.
LEMMA SysStepKeeps == ASSUME SysInv, [SysNext]_sysVars PROVE SysInv'
<1>1. ASSUME NEW f \in Frames, Send(f) PROVE SysInv'
  BY <1>1, SendKeeps
<1>2. CASE (\E n \in 1 .. MaxText + 2 : Arrive(n)) \/ Shut
  BY <1>2, NetworkKeeps
<1>3. CASE ReadHead
  BY <1>3, ReadHeadKeeps
<1>4. CASE ReadCounted
  BY <1>4, ReadCountedKeeps
<1>5. CASE ReadLine
  BY <1>5, ReadLineKeeps
<1>6. CASE ReadEOF
  BY <1>6, ReadEOFKeeps
<1>7. CASE UNCHANGED sysVars
  <2>1. UNCHANGED <<mode, reader>> /\ UNCHANGED <<frames, stream, shut, arrived>>
    BY <1>7 DEF sysVars, sender
  <2>2. /\ StreamOf(frames, stream) /\ arrived \in Nat /\ arrived <= Len(stream)
        /\ shut \in BOOLEAN /\ Len(frames) \in Nat /\ Len(stream) \in Nat
    BY DEF SysInv, SysTypes, StreamOf
  <2>3. StreamOf(frames, stream)'
    BY <2>1, <2>2
  <2>4. /\ Len(frames') >= Len(frames) /\ Len(stream') >= Len(stream)
        /\ \A i \in 1 .. Len(frames) : frames'[i] = frames[i]
        /\ \A k \in 1 .. Len(stream) : stream'[k] = stream[k]
        /\ arrived' \in Nat /\ arrived <= arrived' /\ arrived' <= Len(stream')
        /\ shut' \in BOOLEAN /\ (shut => shut')
    BY <2>1, <2>2
  <2> QED BY <2>1, <2>3, <2>4, ReaderStays
<1> QED BY <1>1, <1>2, <1>3, <1>4, <1>5, <1>6, <1>7 DEF SysNext, RunConn

\* The invariant is enough.
LEMMA SysEnough == SysInv => SyslogReads
<1> SUFFICES ASSUME SysInv PROVE SyslogReads
  OBVIOUS
<1>1. StreamOf(frames, stream) /\ SysTypes /\ Tallied /\ OwnText /\ GivesUp /\ PanicsAt
  BY DEF SysInv
<1>2. Len(stream) \in Nat /\ Len(frames) \in Nat /\ frames \in Seq(Frames)
  BY <1>1 DEF StreamOf
<1>3. SysTypeOK
  BY <1>1, <1>2 DEF SysTypeOK, SysTypes
<1>4. CountsBytes
  <2>1. DOMAIN frames = 1 .. Len(frames)
    BY <1>2
  <2> QED BY <1>1, <2>1 DEF CountsBytes, Tallied, Counts
<1> QED BY <1>1, <1>3, <1>4 DEF SyslogReads

\* For every mode, number of frames, size of a text and set of priorities, and
\* however a stream is cut into segments: messages are read in order and
\* without a gap, each from a head on; one whose head is whole and whose end
\* can be told has its own text and no other's, open heads and texts of
\* unknown end before it or not, unless its count came in pieces; the bytes are
\* counted where no counted text comes in pieces, has no end of its own or
\* follows an open head; a connection is given up only for a head that is
\* malformed, a piece of a text taken for one, its end, or an error of Receive;
\* and the process ends only for a priority one past a table or a head that
\* is sliced out of bounds (plugins/syslog/syslog.go, runConn, parseSyslog,
\* parse5425).
THEOREM StreamsRead == SysSpec => []SyslogReads
<1>1. SysInv /\ [SysNext]_sysVars => SysInv'
  BY SysStepKeeps
<1> QED BY SysInitHolds, <1>1, SysEnough, PTL DEF SysSpec

-----------------------------------------------------------------------------
(* StreamCodec: the inductive invariant                                    *)

\* A stream that starts with a header, and one that is compressed by zlib.
Headed(f)   == Len(f) >= 1 /\ f[1].is = "-"
Deflated(f) == Headed(f) /\ Len(f) >= 3 /\ f[3].is = "zlib"

\* What is in unit i: part of the header, of a message, a line, a zlib mark.
KindAt(f, i) ==
  IF Headed(f) /\ i <= 3
  THEN f[i].is \in (IF i = 1 THEN {"-"} ELSE IF i = 2 THEN {"size"} ELSE Comps)
  ELSE \/ f[i].is \in {"+", "body"} \/ Foreign(f[i])
       \/ (f[i].is \in {"zhead", "zend"} /\ Deflated(f) /\ i > 3)

Kinds(f) ==
  \A i \in 1 .. Len(f) :
    /\ KindAt(f, i) /\ (Foreign(f[i]) => Foreign(f[1]))
    /\ f[i].is \in {"-", "zhead", "zend"} => f[i].n = 0

\* A body follows its length, and bodies are in order.
Paired(f) ==
  /\ \A i \in 1 .. Len(f) : f[i].is = "body" => i > 1 /\ f[i - 1].is = "+" /\ f[i - 1].n = f[i].n
  /\ \A i, j \in 1 .. Len(f) : i < j /\ f[i].is = "body" /\ f[j].is = "body" => f[i].n < f[j].n

\* A zlib stream starts with its mark, and behind the end of one is another.
Zipped(f) ==
  /\ Deflated(f) /\ Len(f) > 3 => f[4].is = "zhead"
  /\ \A i \in 1 .. Len(f) - 1 : f[i].is = "zend" => f[i + 1].is = "zhead"

\* Before another line is one that ends.
LinesEnd(f) ==
  \A i \in 1 .. Len(f) - 1 : Foreign(f[i]) /\ Foreign(f[i + 1]) => f[i].n # Cut

Shape(f) == f \in Seq(StreamUnits) /\ Kinds(f) /\ Paired(f) /\ Zipped(f) /\ LinesEnd(f)

\* The file as it will be when the encoder has flushed.
Strip(f, z, b) == f \o (IF z THEN <<ZHead>> ELSE << >>) \o b
Pending == encpc = "open" /\ comp = "zlib" /\ ~begun
Tape    == Strip(file, Pending, encbuf)

EncTypes ==
  /\ encpc \in {"none", "raw", "header", "open"} /\ comp \in Comps \cup {"none"}
  /\ file \in Seq(StreamUnits) /\ encbuf \in Seq(StreamUnits)
  /\ begun \in BOOLEAN /\ half \in BOOLEAN /\ unopened \in BOOLEAN
  /\ accepted \in Nat /\ accepted <= MaxWritten

\* The messages of f are numbered as they were accepted, up to n; with the last
\* of them still without its body.
NumberedIn(f, n, h) ==
  \A i \in 1 .. Len(f) : f[i].is \in {"+", "body"} =>
    /\ f[i].n >= 1 /\ f[i].n <= n
    /\ h /\ f[i].is = "body" => f[i].n < n
HalfIn(f, n) == Len(f) >= 1 /\ f[Len(f)].is = "+" /\ f[Len(f)].n = n

\* What an open encoder has behind the header it wrote or found.
OpenOn(f, t, c) ==
  /\ Len(f) >= 1 /\ f[1].is # "dash"
  /\ c = (IF Headed(f) THEN f[3].is ELSE "none")
  /\ Headed(f) => Len(f) >= 3
  /\ t[Len(t)].is # "zend"
  /\ c = "zlib" => Len(t) > 3

\* Where the encoder is.
EncoderAt ==
  /\ half => encpc \in {"raw", "open"} /\ HalfIn(Tape, accepted)
  /\ encpc # "open" => encbuf = << >>
  /\ encpc \in {"raw", "header"} => ~begun
  /\ encpc = "header" => Headed(file) /\ Len(file) <= 2
  /\ encpc = "open" => OpenOn(file, Tape, comp)

SavedIn == \A n \in saved : \E i \in 1 .. Len(file) : file[i].is = "body" /\ file[i].n = n

Stuck ==
  unopened => /\ Len(file) >= 1 /\ (file[1].is = "dash" \/ (Headed(file) /\ Len(file) < 3))
              /\ encpc \in {"none", "raw"} /\ ~half

EncInv == /\ EncTypes /\ Shape(Tape) /\ NumberedIn(Tape, accepted, half)
          /\ EncoderAt /\ SavedIn /\ Stuck

DecTypes ==
  /\ decpc \in {"none", "start", "probe", "decode", "ended"}
  /\ decoder \in {"none", "native", "kv", "json", "text"}
  /\ decpos \in Nat /\ decpos <= Len(file) /\ returned \in Seq(StreamUnits)
  /\ decpc \in {"none", "start"} => decpos = 0 /\ returned = << >>
  /\ decpc # "none" => encpc = "none"
  /\ undone = "Probe" => decpc # "none" /\ Len(file) = 3 /\ file[3].is = "zlib"

Reading == decpc \in {"probe", "decode", "ended"} /\ Len(file) >= 1

\* What a reader of messages returned is in order and complete; it stands
\* before a length or a mark.
Whole(k) ==
  IF returned[k] = Junk THEN decpos = Len(file) /\ \E i \in 1 .. Len(file) : Barrier(i)
  ELSE \E i \in 1 .. decpos : /\ file[i] = returned[k] /\ file[i].is = "body"
                              /\ \A j \in 1 .. i : file[j].is = "body" => Got(j, k)
Rising ==
  \A k, l \in 1 .. Len(returned) :
    k < l /\ returned[k] # Junk /\ returned[l] # Junk => returned[k].n < returned[l].n
Cutoff(j) == \E i \in 1 .. j - 1 : Barrier(i)
Given ==
  \A j \in 1 .. decpos :
    file[j].is = "body" => Got(j, Len(returned)) \/ (decpos = Len(file) /\ Cutoff(j))
BeforeMessage ==
  decpc # "ended" =>
    /\ decpos < Len(file) => file[decpos + 1].is \in {"+", "zhead", "zend"}
    /\ Deflated(file) => decpos >= 4
    /\ decpc = "decode" => decoder = "native"
AllPassed ==
  decpc = "ended" =>
    \A j \in 1 .. Len(file) : file[j].is = "body" => Got(j, Len(returned)) \/ Cutoff(j)

MessageReader ==
  Reading /\ ~Foreign(file[1]) =>
    (\A k \in 1 .. Len(returned) : Whole(k)) /\ Rising /\ Given /\ BeforeMessage /\ AllPassed

\* A reader of lines of one format has returned those that it has passed.
OneFormat ==
  /\ Foreign(file[1]) /\ file[1].is # "dash"
  /\ \A i \in 1 .. Len(file) : file[i].is = file[1].is
Unended == IF file[1].is = "text" /\ file[Len(file)].n = Cut THEN 1 ELSE 0
LinesSoFar ==
  decpc # "ended" =>
    /\ decpos = Len(returned)
    /\ file[1].is = "text" => \A k \in 1 .. decpos : file[k].n # Cut
    /\ decpc = "decode" => decoder = file[1].is

LineReader ==
  Reading /\ OneFormat =>
    /\ Len(returned) <= Len(file) /\ (\A k \in 1 .. Len(returned) : returned[k] = file[k])
    /\ LinesSoFar
    /\ decpc = "ended" => Len(returned) = Len(file) - Unended

StreamInv == EncInv /\ DecTypes /\ MessageReader /\ LineReader

-----------------------------------------------------------------------------
(* Streams                                                                 *)

\* Units, and which kinds are not each other.
LEMMA UnitsAre ==
  /\ \A a, n : Unit(a, n).is = a /\ Unit(a, n).n = n
  /\ \A u \in StreamUnits : u.n \in Nat /\ u = Unit(u.is, u.n)
  /\ \A a \in {"-", "size", "+", "body", "zhead", "zend", "junk"} \cup Comps \cup Formats, n \in Nat :
       Unit(a, n) \in StreamUnits
  /\ Mark \in StreamUnits /\ ZHead \in StreamUnits /\ ZEnd \in StreamUnits /\ Junk \in StreamUnits
BY DEF Unit, StreamUnits, Mark, ZHead, ZEnd, Junk

\* A line is no part of a header, a message or a zlib stream.
LEMMA ForeignAre ==
  ASSUME NEW u
  PROVE  /\ Foreign(u) => u.is \in {"text", "kv", "json", "dash"}
         /\ u.is \in Comps => u.is \in {"none", "snappy", "zlib"}
BY StreamAssumption DEF StreamAssumption, Foreign

\* What is behind f, so that the whole is a stream.
FitsHeader(f, u) ==
  \/ Len(f) = 0 /\ u.is = "-" /\ u.n = 0
  \/ Headed(f) /\ Len(f) = 1 /\ u.is = "size"
  \/ Headed(f) /\ Len(f) = 2 /\ u.is \in Comps
Open(f) == /\ Headed(f) => Len(f) >= 3
           /\ Deflated(f) => Len(f) > 3
           /\ Len(f) >= 1 => f[Len(f)].is # "zend"
FitsBody(f, u) ==
  /\ u.is = "body" /\ HalfIn(f, u.n) /\ Open(f)
  /\ \A i \in 1 .. Len(f) : f[i].is = "body" => f[i].n < u.n
Fits(f, u) ==
  \/ FitsHeader(f, u)
  \/ u.is = "+" /\ Open(f)
  \/ FitsBody(f, u)
  \/ u.is = "zhead" /\ u.n = 0 /\ Deflated(f)
  \/ u.is = "zend" /\ u.n = 0 /\ Deflated(f) /\ Open(f)

\* A unit that fits is appended.
LEMMA ShapeAppend ==
  ASSUME NEW f, Shape(f), NEW u \in StreamUnits, Fits(f, u)
  PROVE  Shape(Append(f, u))
<1> DEFINE g == Append(f, u)
           L == Len(f)
<1>1. /\ f \in Seq(StreamUnits) /\ L \in Nat /\ g \in Seq(StreamUnits)
      /\ Len(g) = L + 1 /\ g[L + 1] = u
      /\ \A i \in 1 .. L : g[i] = f[i]
  BY DEF Shape
<1>2. /\ Kinds(f) /\ Paired(f) /\ Zipped(f) /\ LinesEnd(f)
      /\ \A i \in 1 .. L : f[i].n \in Nat
  <2>1. \A i \in 1 .. L : f[i] \in StreamUnits
    BY <1>1
  <2> QED BY <2>1, UnitsAre DEF Shape
<1> HIDE DEF g
<1>3. /\ L >= 1 => (Headed(g) <=> Headed(f))
      /\ Deflated(f) => Deflated(g)
      /\ L >= 3 => (Deflated(g) <=> Deflated(f))
  BY <1>1 DEF Headed, Deflated
<1>4. ~Foreign(u)
  BY ForeignAre, StreamAssumption DEF StreamAssumption, Fits, FitsHeader, FitsBody, Foreign
<1>5. Kinds(g)
  <2>1. ASSUME NEW i \in 1 .. L
        PROVE  KindAt(g, i) /\ (Foreign(g[i]) => Foreign(g[1]))
               /\ (g[i].is \in {"-", "zhead", "zend"} => g[i].n = 0)
    <3>1. /\ KindAt(f, i) /\ (Foreign(f[i]) => Foreign(f[1]))
          /\ f[i].is \in {"-", "zhead", "zend"} => f[i].n = 0
      BY <1>2 DEF Kinds
    <3>2. g[i] = f[i] /\ g[1] = f[1] /\ L >= 1
      BY <1>1
    <3> QED BY <3>1, <3>2, <1>3 DEF KindAt, Foreign
  <2>2. KindAt(g, L + 1)
    <3>1. CASE FitsHeader(f, u)
      BY <3>1, <1>1, <1>3 DEF FitsHeader, KindAt, Headed
    <3>2. CASE ~FitsHeader(f, u)
      <4>1. /\ Headed(f) => L >= 3
            /\ u.is \in {"+", "body"} \/ (u.is \in {"zhead", "zend"} /\ Deflated(f))
        BY <3>2 DEF Fits, FitsBody, Open, Deflated
      <4>2. ~(Headed(g) /\ L + 1 <= 3)
        BY <4>1, <1>1, <1>3 DEF Headed, Fits, FitsHeader, FitsBody
      <4>3. Deflated(f) => Deflated(g) /\ L + 1 > 3
        BY <1>1, <1>3 DEF Deflated
      <4> QED BY <4>1, <4>2, <4>3, <1>1 DEF KindAt
    <3> QED BY <3>1, <3>2
  <2>3. u.is \in {"-", "zhead", "zend"} => u.n = 0
    BY ForeignAre, StreamAssumption DEF StreamAssumption, Fits, FitsHeader, FitsBody
  <2> QED BY <2>1, <2>2, <2>3, <1>1, <1>4 DEF Kinds
<1>6. Paired(g)
  <2>1. u.is = "body" => FitsBody(f, u)
    BY ForeignAre, StreamAssumption DEF StreamAssumption, Fits, FitsHeader
  <2>2. ASSUME NEW i \in 1 .. L + 1, g[i].is = "body"
        PROVE  i > 1 /\ g[i - 1].is = "+" /\ g[i - 1].n = g[i].n
    <3>1. CASE i = L + 1
      BY <3>1, <2>1, <2>2, <1>1 DEF FitsBody, HalfIn
    <3>2. CASE i <= L
      BY <3>2, <2>2, <1>1, <1>2 DEF Paired
    <3> QED BY <3>1, <3>2
  <2>3. ASSUME NEW i \in 1 .. L + 1, NEW j \in 1 .. L + 1, i < j, g[i].is = "body", g[j].is = "body"
        PROVE  g[i].n < g[j].n
    <3>1. CASE j = L + 1
      BY <3>1, <2>1, <2>3, <1>1 DEF FitsBody
    <3>2. CASE j <= L
      BY <3>2, <2>3, <1>1, <1>2 DEF Paired
    <3> QED BY <3>1, <3>2
  <2> QED BY <2>2, <2>3, <1>1 DEF Paired
<1>7. Zipped(g)
  <2>1. ASSUME Deflated(g), Len(g) > 3 PROVE g[4].is = "zhead"
    <3>0. L + 1 > 3 /\ L \in Nat
      BY <2>1, <1>1
    <3>4. L >= 3
      BY ONLY <3>0
    <3>1. Deflated(f) /\ L >= 3 /\ L \in Nat
      BY <3>0, <3>4, <2>1, <1>3
    <3>2. CASE L = 3
      <4>1. ~Open(f) /\ ~FitsHeader(f, u)
        BY <3>1, <3>2 DEF Open, FitsHeader
      <4>2. u.is = "zhead"
        BY <4>1 DEF Fits, FitsBody
      <4> QED BY <4>2, <3>2, <1>1
    <3>3. CASE L > 3
      BY <3>1, <3>3, <1>1, <1>2 DEF Zipped
    <3>5. \A n \in Nat : n + 1 > 3 => (n = 3 \/ n > 3)
      OBVIOUS
    <3>6. L = 3 \/ L > 3
      BY <3>0, <3>5, Zenon
    <3> QED BY <3>2, <3>3, <3>6
  <2>2. ASSUME NEW i \in 1 .. L, g[i].is = "zend" PROVE g[i + 1].is = "zhead"
    <3>1. CASE i = L
      <4>1. ~Open(f)
        BY <3>1, <2>2, <1>1 DEF Open
      <4>2. ~FitsHeader(f, u)
        <5>1. f[L].is = "zend" /\ L >= 1 /\ KindAt(f, L)
          BY <3>1, <2>2, <1>1, <1>2 DEF Kinds
        <5>2. ~(Headed(f) /\ L <= 3)
          BY <5>1, ForeignAre, <1>1 DEF KindAt
        <5> QED BY <5>1, <5>2, <1>1 DEF FitsHeader
      <4>3. u.is = "zhead"
        BY <4>1, <4>2 DEF Fits, FitsBody
      <4> QED BY <4>3, <3>1, <1>1
    <3>2. CASE i < L
      BY <3>2, <2>2, <1>1, <1>2 DEF Zipped
    <3> QED BY <3>1, <3>2, <1>1
  <2> QED BY <2>1, <2>2, <1>1 DEF Zipped
<1>8. LinesEnd(g)
  <2>1. ASSUME NEW i \in 1 .. L, Foreign(g[i]), Foreign(g[i + 1]) PROVE g[i].n # Cut
    <3>1. i < L
      BY <2>1, <1>1, <1>4
    <3> QED BY <3>1, <2>1, <1>1, <1>2 DEF LinesEnd
  <2> QED BY <2>1, <1>1 DEF LinesEnd
<1>9. Shape(g)
  BY <1>1, <1>5, <1>6, <1>7, <1>8 DEF Shape
<1> QED BY <1>9 DEF g

\* g is the first units of f.
Begins(g, f) == Len(g) <= Len(f) /\ \A i \in 1 .. Len(g) : g[i] = f[i]

\* What a stream begins with is a stream.
LEMMA ShapePrefix ==
  ASSUME NEW f, Shape(f), NEW g \in Seq(StreamUnits), Begins(g, f)
  PROVE  Shape(g)
<1>1. /\ f \in Seq(StreamUnits) /\ Len(f) \in Nat /\ Len(g) \in Nat /\ Len(g) <= Len(f)
      /\ \A i \in 1 .. Len(g) : g[i] = f[i] /\ i \in 1 .. Len(f)
      /\ Kinds(f) /\ Paired(f) /\ Zipped(f) /\ LinesEnd(f)
  BY DEF Shape, Begins
<1>2. /\ Len(g) >= 1 => (Headed(g) <=> Headed(f))
      /\ Len(g) >= 3 => (Deflated(g) <=> Deflated(f))
  BY <1>1 DEF Headed, Deflated
<1>3. Kinds(g)
  <2>1. ASSUME NEW i \in 1 .. Len(g)
        PROVE  KindAt(g, i) /\ (Foreign(g[i]) => Foreign(g[1]))
               /\ (g[i].is \in {"-", "zhead", "zend"} => g[i].n = 0)
    <3>1. /\ KindAt(f, i) /\ (Foreign(f[i]) => Foreign(f[1]))
          /\ f[i].is \in {"-", "zhead", "zend"} => f[i].n = 0
      BY <1>1 DEF Kinds
    <3>2. g[i] = f[i] /\ g[1] = f[1] /\ Len(g) >= 1 /\ (i > 3 => Len(g) >= 3)
      BY <1>1
    <3> QED BY <3>1, <3>2, <1>2 DEF KindAt, Foreign
  <2> QED BY <2>1 DEF Kinds
<1>4. Paired(g)
  <2>1. ASSUME NEW i \in 1 .. Len(g), g[i].is = "body"
        PROVE  i > 1 /\ g[i - 1].is = "+" /\ g[i - 1].n = g[i].n
    <3>1. i > 1 /\ f[i - 1].is = "+" /\ f[i - 1].n = f[i].n
      BY <2>1, <1>1 DEF Paired
    <3>2. i - 1 \in 1 .. Len(g)
      BY <3>1, <1>1
    <3> QED BY <3>1, <3>2, <1>1
  <2>2. ASSUME NEW i \in 1 .. Len(g), NEW j \in 1 .. Len(g), i < j, g[i].is = "body", g[j].is = "body"
        PROVE  g[i].n < g[j].n
    BY <2>2, <1>1 DEF Paired
  <2> QED BY <2>1, <2>2 DEF Paired
<1>5. Zipped(g)
  BY <1>1, <1>2 DEF Zipped
<1>6. LinesEnd(g)
  BY <1>1 DEF LinesEnd, Foreign
<1> QED BY <1>3, <1>4, <1>5, <1>6 DEF Shape

\* The stream that will be: what is in the file, a mark to come, the buffer.
LEMMA StripIs ==
  ASSUME NEW f \in Seq(StreamUnits), NEW z \in BOOLEAN, NEW b \in Seq(StreamUnits)
  PROVE  /\ Strip(f, z, b) \in Seq(StreamUnits)
         /\ Len(Strip(f, z, b)) = Len(f) + (IF z THEN 1 ELSE 0) + Len(b)
         /\ \A i \in 1 .. Len(f) : Strip(f, z, b)[i] = f[i]
         /\ z => Strip(f, z, b)[Len(f) + 1] = ZHead
         /\ \A i \in 1 .. Len(b) : Strip(f, z, b)[Len(f) + (IF z THEN 1 ELSE 0) + i] = b[i]
<1>1. CASE z
  <2> DEFINE p == f \o <<ZHead>>
  <2>1. /\ p \in Seq(StreamUnits) /\ Len(p) = Len(f) + 1 /\ p[Len(f) + 1] = ZHead
        /\ \A i \in 1 .. Len(f) : p[i] = f[i]
    BY UnitsAre
  <2>2. Strip(f, z, b) = p \o b
    BY <1>1 DEF Strip
  <2> HIDE DEF p
  <2>3. /\ p \o b \in Seq(StreamUnits) /\ Len(p \o b) = Len(p) + Len(b)
        /\ \A i \in 1 .. Len(p) : (p \o b)[i] = p[i]
        /\ \A i \in 1 .. Len(b) : (p \o b)[Len(p) + i] = b[i]
    BY <2>1
  <2> QED BY <2>1, <2>2, <2>3, <1>1
<1>2. CASE ~z
  <2>1. Strip(f, z, b) = f \o b
    <3>1. f \o << >> = f
      OBVIOUS
    <3> QED BY <3>1, <1>2 DEF Strip
  <2> QED BY <2>1, <1>2
<1> QED BY <1>1, <1>2

\* Two sequences with the same units are the same.
LEMMA SameUnits ==
  ASSUME NEW s \in Seq(StreamUnits), NEW t \in Seq(StreamUnits), Len(s) = Len(t),
         \A i \in 1 .. Len(s) : s[i] = t[i]
  PROVE  s = t
OBVIOUS

\* A buffer that is empty.
LEMMA StripEmpty ==
  ASSUME NEW f \in Seq(StreamUnits)
  PROVE  /\ Strip(f, FALSE, << >>) = f
         /\ Strip(f, TRUE, << >>) = Append(f, ZHead)
BY UnitsAre DEF Strip

\* Writing to the buffer.
LEMMA StripAppend ==
  ASSUME NEW f \in Seq(StreamUnits), NEW z \in BOOLEAN, NEW b \in Seq(StreamUnits),
         NEW u \in StreamUnits
  PROVE  Strip(f, z, Append(b, u)) = Append(Strip(f, z, b), u)
<1> DEFINE p == f \o (IF z THEN <<ZHead>> ELSE << >>)
<1>1. p \in Seq(StreamUnits)
  BY UnitsAre
<1> HIDE DEF p
<1>2. p \o Append(b, u) = Append(p \o b, u)
  BY <1>1
<1> QED BY <1>2 DEF Strip, p

\* One sequence behind another.
LEMMA Joined ==
  ASSUME NEW s \in Seq(StreamUnits), NEW t \in Seq(StreamUnits)
  PROVE  /\ s \o t \in Seq(StreamUnits) /\ Len(s \o t) = Len(s) + Len(t)
         /\ \A i \in 1 .. Len(s) : (s \o t)[i] = s[i]
         /\ \A i \in 1 .. Len(t) : (s \o t)[Len(s) + i] = t[i]
OBVIOUS

\* Four sequences behind one another.
LEMMA JoinedFour ==
  ASSUME NEW s \in Seq(StreamUnits), NEW t \in Seq(StreamUnits),
         NEW v \in Seq(StreamUnits), NEW w \in Seq(StreamUnits)
  PROVE  (s \o (t \o v)) \o w = (s \o t) \o (v \o w)
<1>0. ASSUME NEW x \in Seq(StreamUnits), NEW y \in Seq(StreamUnits), NEW z \in Seq(StreamUnits)
      PROVE  (x \o y) \o z = x \o (y \o z)
  BY SMTT(30), ConcatAssociative
<1>1. s \o (t \o v) = (s \o t) \o v
  BY ONLY <1>0, s \in Seq(StreamUnits), t \in Seq(StreamUnits), v \in Seq(StreamUnits), Zenon
<1>2. s \o t \in Seq(StreamUnits)
  BY Joined
<1>3. ((s \o t) \o v) \o w = (s \o t) \o (v \o w)
  BY ONLY <1>0, <1>2, v \in Seq(StreamUnits), w \in Seq(StreamUnits), Zenon
<1> QED BY <1>1, <1>3

\* The first k units of a buffer are moved to the file.
Moved(f, z, b, k, w, c) ==
  /\ f \o w \in Seq(StreamUnits) /\ c \in Seq(StreamUnits)
  /\ Len(f \o w) = Len(f) + (IF z THEN 1 ELSE 0) + k
  /\ Begins(f, f \o w)
  /\ \A i \in 1 .. k : (f \o w)[Len(f) + (IF z THEN 1 ELSE 0) + i] = b[i]
  /\ Strip(f \o w, FALSE, c) = Strip(f, z, b)

\* What is written out: the file and what is left in the buffer are as before.
LEMMA StripMove ==
  ASSUME NEW f \in Seq(StreamUnits), NEW z \in BOOLEAN, NEW b \in Seq(StreamUnits),
         NEW k \in 0 .. Len(b), NEW w, w = (IF z THEN <<ZHead>> ELSE << >>) \o SubSeq(b, 1, k),
         NEW c, c = SubSeq(b, k + 1, Len(b))
  PROVE  Moved(f, z, b, k, w, c)
<1> DEFINE h == IF z THEN <<ZHead>> ELSE << >>
           a == SubSeq(b, 1, k)
<1>0. k \in Nat /\ k <= Len(b)
  OBVIOUS
<1>1. /\ a \in Seq(StreamUnits) /\ Len(a) = k /\ \A i \in 1 .. k : a[i] = b[i]
  BY <1>0
<1>2. /\ c \in Seq(StreamUnits) /\ Len(c) = Len(b) - k /\ \A i \in 1 .. Len(c) : c[i] = b[k + i]
  BY <1>0
<1>3. a \o c = b
  <2>1. /\ 1 \in 1 .. Len(b) + 1 /\ k \in 1 - 1 .. Len(b) /\ Len(b) \in k .. Len(b)
        /\ SubSeq(b, 1, Len(b)) = b
    BY <1>0
  <2> QED BY <2>1, ConcatAdjacentSubSeq
<1>4. h \in Seq(StreamUnits) /\ Len(h) = (IF z THEN 1 ELSE 0)
  BY UnitsAre
<1> HIDE DEF h, a
<1>5. w = h \o a
  BY DEF h, a
<1>6. /\ w \in Seq(StreamUnits) /\ Len(w) = Len(h) + k
      /\ \A i \in 1 .. k : w[Len(h) + i] = a[i]
  <2>1. a \in Seq(StreamUnits) /\ h \in Seq(StreamUnits)
    BY <1>1, <1>4
  <2>2. /\ h \o a \in Seq(StreamUnits) /\ Len(h \o a) = Len(h) + Len(a)
        /\ \A i \in 1 .. Len(a) : (h \o a)[Len(h) + i] = a[i]
    BY <2>1, Joined
  <2> QED BY <2>2, <1>1, <1>5
<1>7. /\ f \o w \in Seq(StreamUnits) /\ Len(f \o w) = Len(f) + Len(w)
      /\ \A i \in 1 .. Len(f) : (f \o w)[i] = f[i]
      /\ \A i \in 1 .. Len(w) : (f \o w)[Len(f) + i] = w[i]
  BY <1>6, Joined
<1>8. Begins(f, f \o w)
  BY <1>6, <1>7 DEF Begins
<1>9. \A i \in 1 .. k : (f \o w)[Len(f) + (IF z THEN 1 ELSE 0) + i] = b[i]
  <2>1. ASSUME NEW i \in 1 .. k PROVE (f \o w)[Len(f) + Len(h) + i] = b[i]
    <3>1. Len(h) + i \in 1 .. Len(w) /\ Len(f) + (Len(h) + i) = Len(f) + Len(h) + i
      BY <1>4, <1>6
    <3>2. (f \o w)[Len(f) + (Len(h) + i)] = w[Len(h) + i]
      BY <1>7, <3>1
    <3> QED BY <3>1, <3>2, <1>6, <1>1
  <2> QED BY <2>1, <1>4
<1>10. Strip(f \o w, FALSE, c) = Strip(f, z, b)
  <2>1. Strip(f \o w, FALSE, c) = (f \o w) \o c
    <3>1. (f \o w) \o << >> = f \o w
      BY <1>7
    <3> QED BY <3>1 DEF Strip
  <2>2. Strip(f, z, b) = (f \o h) \o b
    BY DEF Strip, h
  <2>3. (f \o (h \o a)) \o c = (f \o h) \o (a \o c)
    <3>1. h \in Seq(StreamUnits) /\ a \in Seq(StreamUnits) /\ c \in Seq(StreamUnits)
      BY <1>1, <1>2, <1>4
    <3>2. \A t, v, x \in Seq(StreamUnits) : (f \o (t \o v)) \o x = (f \o t) \o (v \o x)
      BY JoinedFour
    <3> QED BY ONLY <3>1, <3>2, Zenon
  <2> QED BY <2>1, <2>2, <2>3, <1>3, <1>5
<1>11. Len(f \o w) = Len(f) + (IF z THEN 1 ELSE 0) + k
  <2>1. /\ Len(f) \in Nat /\ Len(h) \in Nat /\ Len(w) = Len(h) + k
        /\ Len(f \o w) = Len(f) + Len(w)
    BY <1>4, <1>6, <1>7
  <2>2. Len(f \o w) = Len(f) + Len(h) + k
    BY ONLY <2>1, <1>0
  <2> QED BY <2>2, <1>4
<1> QED BY <1>2, <1>7, <1>8, <1>9, <1>10, <1>11 DEF Moved

-----------------------------------------------------------------------------
(* The encoder                                                             *)

\* The numbers of a stream and of a unit behind it.
LEMMA NumberedAppend ==
  ASSUME NEW f \in Seq(StreamUnits), NEW u \in StreamUnits, NEW n \in Nat, NEW m \in Nat, n <= m,
         NEW h \in BOOLEAN, NEW k \in BOOLEAN, NumberedIn(f, n, h), k => (h \/ n < m),
         u.is \in {"+", "body"} => u.n >= 1 /\ u.n <= m /\ (k /\ u.is = "body" => u.n < m)
  PROVE  NumberedIn(Append(f, u), m, k)
<1> DEFINE g == Append(f, u)
<1>1. /\ Len(g) = Len(f) + 1 /\ g[Len(f) + 1] = u
      /\ \A i \in 1 .. Len(f) : g[i] = f[i] /\ f[i].n \in Nat
  <2>1. \A i \in 1 .. Len(f) : f[i] \in StreamUnits
    OBVIOUS
  <2> QED BY <2>1, UnitsAre
<1> HIDE DEF g
<1>2. ASSUME NEW i \in 1 .. Len(g), g[i].is \in {"+", "body"}
      PROVE  g[i].n >= 1 /\ g[i].n <= m /\ (k /\ g[i].is = "body" => g[i].n < m)
  <2>1. CASE i = Len(f) + 1
    BY <2>1, <1>1, <1>2
  <2>2. CASE i \in 1 .. Len(f)
    <3>1. /\ g[i] = f[i] /\ f[i].n \in Nat /\ f[i].n >= 1 /\ f[i].n <= n
          /\ h /\ f[i].is = "body" => f[i].n < n
      BY <2>2, <1>1, <1>2 DEF NumberedIn
    <3> QED BY <3>1
  <2> QED BY <2>1, <2>2, <1>1
<1>3. NumberedIn(g, m, k)
  BY <1>2 DEF NumberedIn
<1> QED BY <1>3 DEF g

\* Those of a stream and the next length.
LEMMA NumberedHead ==
  ASSUME NEW f \in Seq(StreamUnits), NEW u \in StreamUnits, NEW n \in Nat, NEW h \in BOOLEAN,
         NumberedIn(f, n, h), u.is = "+", u.n = n + 1
  PROVE  NumberedIn(Append(f, u), n + 1, TRUE)
<1>1. n + 1 \in Nat /\ n <= n + 1 /\ n < n + 1 /\ n + 1 >= 1 /\ n + 1 <= n + 1
  OBVIOUS
<1>2. u.is \in {"+", "body"} => u.n >= 1 /\ u.n <= n + 1 /\ (TRUE /\ u.is = "body" => u.n < n + 1)
  BY <1>1
<1>3. TRUE => (h \/ n < n + 1)
  BY <1>1
<1> QED BY <1>1, <1>2, <1>3, NumberedAppend

\* Those of a stream and its last body.
LEMMA NumberedBody ==
  ASSUME NEW f \in Seq(StreamUnits), NEW u \in StreamUnits, NEW n \in Nat, NEW h \in BOOLEAN,
         NumberedIn(f, n, h), u.n = n, n >= 1
  PROVE  NumberedIn(Append(f, u), n, FALSE)
<1>1. u.is \in {"+", "body"} => u.n >= 1 /\ u.n <= n /\ (FALSE /\ u.is = "body" => u.n < n)
  OBVIOUS
<1>2. n <= n
  OBVIOUS
<1> QED BY <1>1, <1>2, NumberedAppend

\* Those of the first units.
LEMMA NumberedPrefix ==
  ASSUME NEW f \in Seq(StreamUnits), NEW g \in Seq(StreamUnits), Begins(g, f),
         NEW n \in Nat, NEW h \in BOOLEAN, NEW k \in BOOLEAN, NumberedIn(f, n, h), k => h
  PROVE  NumberedIn(g, n, k)
<1>1. \A i \in 1 .. Len(g) : g[i] = f[i] /\ i \in 1 .. Len(f)
  BY DEF Begins
<1> QED BY <1>1 DEF NumberedIn

\* Units at the end of a file leave what was in it.
LEMMA SavedGrows ==
  ASSUME NEW f \in Seq(StreamUnits), NEW g \in Seq(StreamUnits), Begins(f, g), NEW S, NEW T,
         \A n \in S : \E i \in 1 .. Len(f) : f[i].is = "body" /\ f[i].n = n,
         \A n \in T \ S : \E i \in 1 .. Len(g) : g[i].is = "body" /\ g[i].n = n
  PROVE  \A n \in T : \E i \in 1 .. Len(g) : g[i].is = "body" /\ g[i].n = n
<1>1. \A i \in 1 .. Len(f) : g[i] = f[i] /\ i \in 1 .. Len(g)
  BY DEF Begins
<1> QED BY <1>1

\* What the invariant says of the file and the stream that will be.
LEMMA EncFacts ==
  ASSUME EncInv
  PROVE  /\ file \in Seq(StreamUnits) /\ encbuf \in Seq(StreamUnits) /\ Tape \in Seq(StreamUnits)
         /\ Pending \in BOOLEAN /\ Begins(file, Tape) /\ Shape(Tape)
         /\ Len(Tape) = Len(file) + (IF Pending THEN 1 ELSE 0) + Len(encbuf)
         /\ encpc # "open" => Tape = file
         /\ accepted \in Nat /\ half \in BOOLEAN /\ NumberedIn(Tape, accepted, half)
<1>1. file \in Seq(StreamUnits) /\ encbuf \in Seq(StreamUnits) /\ Pending \in BOOLEAN
  BY DEF EncInv, EncTypes, Pending
<1>2. /\ Tape \in Seq(StreamUnits)
      /\ Len(Tape) = Len(file) + (IF Pending THEN 1 ELSE 0) + Len(encbuf)
      /\ \A i \in 1 .. Len(file) : Tape[i] = file[i]
  BY <1>1, StripIs DEF Tape
<1>3. Begins(file, Tape)
  BY <1>1, <1>2 DEF Begins
<1>4. encpc # "open" => Tape = file
  BY <1>1, StripEmpty DEF EncInv, EncoderAt, Tape, Pending, Strip
<1> QED BY <1>1, <1>2, <1>3, <1>4 DEF EncInv, EncTypes

\* A file that an encoder starts with.
LEMMA StreamStarts ==
  ASSUME StreamInit
  PROVE  StreamInv
<1>0. /\ \/ file = << >>
         \/ \E f \in Formats, k \in {0, Cut} : file = <<Unit(f, k)>>
         \/ \E f \in Formats, g \in Formats, k \in {0, Cut} : file = <<Unit(f, 0), Unit(g, k)>>
      /\ encpc = "none" /\ comp = "none" /\ encbuf = << >> /\ begun = FALSE
      /\ accepted = 0 /\ half = FALSE /\ saved = {} /\ unopened = FALSE
      /\ decpc = "none" /\ decpos = 0 /\ decoder = "none" /\ returned = << >> /\ undone = "no"
  BY DEF StreamInit
<1>1. /\ file \in Seq(StreamUnits) /\ Len(file) <= 2
      /\ \A i \in 1 .. Len(file) : Foreign(file[i])
      /\ \A i \in 1 .. Len(file) - 1 : file[i].n # Cut
  <2>1. CASE file = << >>
    BY <2>1
  <2>2. CASE \E f \in Formats, k \in {0, Cut} : file = <<Unit(f, k)>>
    <3>1. PICK f \in Formats, k \in {0, Cut} : file = <<Unit(f, k)>>
      BY <2>2
    <3>2. Unit(f, k) \in StreamUnits /\ Unit(f, k).is = f
      BY UnitsAre DEF Cut
    <3> QED BY <3>1, <3>2 DEF Foreign
  <2>3. CASE \E f \in Formats, g \in Formats, k \in {0, Cut} : file = <<Unit(f, 0), Unit(g, k)>>
    <3>1. PICK f \in Formats, g \in Formats, k \in {0, Cut} : file = <<Unit(f, 0), Unit(g, k)>>
      BY <2>3
    <3>2. /\ Unit(f, 0) \in StreamUnits /\ Unit(f, 0).is = f /\ Unit(f, 0).n = 0
          /\ Unit(g, k) \in StreamUnits /\ Unit(g, k).is = g
      BY UnitsAre DEF Cut
    <3> QED BY <3>1, <3>2 DEF Foreign, Cut
  <2> QED BY <2>1, <2>2, <2>3, <1>0
<1>2. \A i \in 1 .. Len(file) : file[i].is \in {"text", "kv", "json", "dash"}
  BY <1>1, ForeignAre
<1>3. ~Headed(file) /\ ~Deflated(file)
  BY <1>1, <1>2 DEF Headed, Deflated
<1>4. Shape(file)
  <2>1. Kinds(file)
    BY <1>1, <1>2, <1>3 DEF Kinds, KindAt
  <2>2. Paired(file) /\ Zipped(file)
    BY <1>1, <1>2, <1>3 DEF Paired, Zipped
  <2>3. LinesEnd(file)
    BY <1>1 DEF LinesEnd
  <2> QED BY <1>1, <2>1, <2>2, <2>3 DEF Shape
<1>5. Tape = file
  <2>1. ~Pending
    BY <1>0 DEF Pending
  <2>2. Strip(file, FALSE, << >>) = file
    BY <1>1, StripEmpty
  <2> QED BY <2>1, <2>2, <1>0 DEF Tape, Strip
<1>6. EncInv
  <2>1. EncTypes
    <3>1. encbuf \in Seq(StreamUnits) /\ accepted \in Nat /\ accepted <= MaxWritten
      BY <1>0, StreamAssumption DEF StreamAssumption
    <3>2. begun \in BOOLEAN /\ half \in BOOLEAN /\ unopened \in BOOLEAN
      BY <1>0
    <3>3. encpc \in {"none", "raw", "header", "open"} /\ comp \in Comps \cup {"none"}
      BY <1>0
    <3> QED BY <3>1, <3>2, <3>3, <1>1 DEF EncTypes
  <2>2. NumberedIn(Tape, accepted, half)
    BY <1>5, <1>2 DEF NumberedIn
  <2> QED BY <2>1, <2>2, <1>0, <1>4, <1>5 DEF EncInv, EncoderAt, SavedIn, Stuck
<1>7. DecTypes /\ MessageReader /\ LineReader
  BY <1>0, <1>1 DEF DecTypes, MessageReader, LineReader, Reading
<1> QED BY <1>6, <1>7 DEF StreamInv

\* A new encoder, and one that ends in a crash.
LEMMA NewOrCrashKeeps ==
  ASSUME StreamInv, NewStreamEncoder \/ CrashEncoder
  PROVE  EncInv'
<1>1. EncInv /\ EncTypes
  BY DEF StreamInv, EncInv
<1>2. /\ encpc' \in {"none", "raw"} /\ encbuf' = << >> /\ ~half' /\ half' \in BOOLEAN /\ file' = file
      /\ accepted' = accepted /\ saved' = saved /\ unopened' = unopened /\ comp' = comp
      /\ begun' \in BOOLEAN /\ (encpc' = "raw" => ~begun')
  BY <1>1, Zenon DEF NewStreamEncoder, CrashEncoder, EncTypes
<1>3. Tape' = file
  <2>1. ~Pending'
    BY <1>2 DEF Pending
  <2>2. Strip(file, FALSE, << >>) = file
    BY <1>1, EncFacts, StripEmpty
  <2> QED BY <2>1, <2>2, <1>2 DEF Tape, Strip
<1>4. /\ file \in Seq(StreamUnits) /\ Begins(file, Tape) /\ Shape(Tape) /\ Tape \in Seq(StreamUnits)
      /\ accepted \in Nat /\ half \in BOOLEAN /\ NumberedIn(Tape, accepted, half)
  BY <1>1, EncFacts
<1>5. Shape(Tape')
  BY <1>3, <1>4, ShapePrefix
<1>6. NumberedIn(Tape', accepted', half')
  <2>1. NumberedIn(file, accepted, FALSE)
    BY <1>4, NumberedPrefix
  <2> QED BY <2>1, <1>2, <1>3
<1>7. EncTypes'
  <2>1. encbuf' \in Seq(StreamUnits)
    BY <1>2
  <2> QED BY <2>1, <1>1, <1>2 DEF EncTypes
<1>8. EncoderAt' /\ SavedIn' /\ Stuck'
  BY <1>1, <1>2 DEF EncInv, EncoderAt, SavedIn, Stuck
<1> QED BY <1>5, <1>6, <1>7, <1>8 DEF EncInv

\* A part of the header is written.
LEMMA HeaderKeeps ==
  ASSUME StreamInv, NEW c \in Comps, WriteHeader(c)
  PROVE  EncInv'
<1>1. EncInv /\ EncTypes /\ EncoderAt
  BY DEF StreamInv, EncInv
<1> DEFINE u == CASE Len(file) = 0 -> Mark
                  [] Len(file) = 1 -> Unit("size", 0)
                  [] OTHER         -> Unit(c, 0)
<1>2. /\ encpc \in {"raw", "header"} /\ file' = Append(file, u) /\ comp' = c
      /\ encpc' = (IF Len(file) = 2 THEN "open" ELSE "header")
      /\ encbuf' = encbuf /\ begun' = begun /\ accepted' = accepted /\ half' = half
      /\ saved' = saved /\ unopened' = unopened
      /\ (encpc = "raw" /\ file = << >>) \/ encpc = "header"
  BY DEF WriteHeader
<1>3. /\ file \in Seq(StreamUnits) /\ Shape(file) /\ accepted \in Nat /\ half \in BOOLEAN
      /\ NumberedIn(file, accepted, half) /\ encbuf = << >> /\ ~begun
      /\ Tape = file
  <2>1. Tape = file
    BY <1>1, <1>2, EncFacts
  <2> QED BY <2>1, <1>1, <1>2, EncFacts DEF EncoderAt
<1>4. /\ Len(file) \in {0, 1, 2} /\ (Len(file) # 0 => Headed(file))
      /\ encpc = "raw" => Len(file) = 0
  <2>1. CASE file = << >>
    BY <2>1, <1>1, <1>2 DEF EncoderAt, Headed
  <2>2. CASE encpc = "header"
    <3>1. Headed(file) /\ Len(file) <= 2 /\ Len(file) \in Nat
      BY <2>2, <1>1, <1>3 DEF EncoderAt
    <3>2. \A n \in Nat : n <= 2 => n \in {0, 1, 2}
      OBVIOUS
    <3>3. Len(file) \in {0, 1, 2}
      BY <3>1, <3>2, Zenon
    <3> QED BY <3>1, <3>3, <2>2
  <2> QED BY <2>1, <2>2, <1>2
<1>5. /\ u \in StreamUnits
      /\ Len(file) = 0 => u.is = "-" /\ u.n = 0
      /\ Len(file) = 1 => u.is = "size"
      /\ Len(file) = 2 => u.is = c
  <2>1. /\ Mark \in StreamUnits /\ Mark.is = "-" /\ Mark.n = 0
        /\ Unit("size", 0) \in StreamUnits /\ Unit("size", 0).is = "size"
        /\ Unit(c, 0) \in StreamUnits /\ Unit(c, 0).is = c
    BY UnitsAre DEF Mark
  <2>2. /\ Len(file) = 0 => u = Mark
        /\ Len(file) = 1 => u = Unit("size", 0)
        /\ Len(file) = 2 => u = Unit(c, 0)
    OBVIOUS
  <2> QED BY <2>1, <2>2, <1>4
<1> HIDE DEF u
<1>6. FitsHeader(file, u) /\ u.is \notin {"+", "body", "zend", "dash"}
  <2>1. Len(file) = 2 => u.is \in {"none", "snappy", "zlib"}
    BY <1>5, ForeignAre
  <2> QED BY <2>1, <1>4, <1>5 DEF FitsHeader
<1>7. /\ Shape(Append(file, u)) /\ Append(file, u) \in Seq(StreamUnits)
      /\ Len(file') = Len(file) + 1 /\ file'[Len(file) + 1] = u
      /\ \A i \in 1 .. Len(file) : file'[i] = file[i]
  BY <1>2, <1>3, <1>5, <1>6, ShapeAppend DEF Fits
<1>8. Headed(file') /\ Begins(file, file')
  BY <1>2, <1>3, <1>4, <1>5, <1>7 DEF Headed, Begins
<1>9. Tape' = IF encpc' = "open" /\ c = "zlib" THEN Append(file', ZHead) ELSE file'
  <2>1. Pending' <=> encpc' = "open" /\ c = "zlib"
    BY <1>2, <1>3 DEF Pending
  <2>2. /\ Strip(file', FALSE, << >>) = file'
        /\ Strip(file', TRUE, << >>) = Append(file', ZHead)
    BY <1>2, <1>7, StripEmpty
  <2> QED BY <2>1, <2>2, <1>2, <1>3 DEF Tape, Strip
<1>10. ~half
  <2>1. half => HalfIn(file, accepted) /\ encpc = "raw"
    BY <1>1, <1>2, <1>3 DEF EncoderAt
  <2> QED BY <2>1, <1>4 DEF HalfIn
<1>11. NumberedIn(file', accepted, half)
  BY <1>2, <1>3, <1>5, <1>6, NumberedAppend
<1>12. encpc' = "open" => Len(file') = 3 /\ file'[3].is = c
  BY <1>2, <1>4, <1>5, <1>7
<1>13. Shape(Tape') /\ NumberedIn(Tape', accepted', half')
  <2>1. CASE encpc' = "open" /\ c = "zlib"
    <3>1. Deflated(file')
      BY <2>1, <1>8, <1>12 DEF Deflated
    <3>2. ZHead \in StreamUnits /\ ZHead.is = "zhead" /\ ZHead.n = 0
      BY UnitsAre DEF ZHead
    <3>3. /\ file' \in Seq(StreamUnits) /\ Shape(file')
      BY <1>2, <1>7
    <3>4. Shape(Append(file', ZHead))
      BY <3>1, <3>2, <3>3, ShapeAppend DEF Fits
    <3>5. NumberedIn(Append(file', ZHead), accepted, half)
      BY <3>2, <3>3, <1>3, <1>11, NumberedAppend
    <3> QED BY <3>4, <3>5, <2>1, <1>2, <1>9
  <2>2. CASE ~(encpc' = "open" /\ c = "zlib")
    BY <2>2, <1>2, <1>7, <1>9, <1>11
  <2> QED BY <2>1, <2>2
<1>14. encpc' = "open" => OpenOn(file', Tape', comp')
  <2> SUFFICES ASSUME encpc' = "open" PROVE OpenOn(file', Tape', comp')
    OBVIOUS
  <2>1. Len(file') = 3 /\ file'[3] = u /\ u.is = c /\ file'[1].is = "-" /\ file' \in Seq(StreamUnits)
    BY <1>2, <1>4, <1>5, <1>7, <1>8 DEF Headed
  <2>2. CASE c = "zlib"
    <3>1. /\ Tape' = Append(file', ZHead) /\ ZHead.is = "zhead"
      BY <2>2, <1>9, UnitsAre DEF ZHead
    <3>2. Len(Tape') = 4 /\ Tape'[4].is = "zhead"
      <4>1. ZHead \in StreamUnits
        BY UnitsAre
      <4>2. /\ Len(Append(file', ZHead)) = Len(file') + 1
            /\ Append(file', ZHead)[Len(file') + 1] = ZHead
        <5>1. file' \in Seq(StreamUnits)
          BY <2>1
        <5> QED BY <5>1, <4>1, AppendProperties
      <4>3. Len(Tape') = Len(file') + 1 /\ Tape'[Len(file') + 1] = ZHead
        BY <4>2, <3>1, Zenon
      <4> QED BY <4>3, <3>1, <2>1
    <3> QED BY <3>2, <2>1, <1>2, <1>8 DEF OpenOn
  <2>3. CASE c # "zlib"
    <3>1. Tape' = file'
      BY <2>3, <1>9
    <3> QED BY <3>1, <2>1, <2>3, <1>2, <1>6, <1>8 DEF OpenOn
  <2> QED BY <2>2, <2>3
<1>15. EncTypes'
  <2>1. file' \in Seq(StreamUnits)
    BY <1>2, <1>7
  <2> QED BY <2>1, <1>1, <1>2 DEF EncTypes
<1>16. SavedIn'
  <2>1. file' \in Seq(StreamUnits)
    BY <1>2, <1>7
  <2> QED BY <2>1, <1>1, <1>2, <1>3, <1>8, SavedGrows DEF EncInv, SavedIn
<1>17. Stuck'
  <2>1. ~unopened
    <3>1. ASSUME unopened PROVE FALSE
      <4>1. Len(file) >= 1 /\ encpc = "raw"
        BY <3>1, <1>1, <1>2 DEF EncInv, Stuck
      <4> QED BY <4>1, <1>4
    <3> QED BY <3>1
  <2> QED BY <2>1, <1>2 DEF Stuck
<1>18. EncoderAt'
  <2>1. encpc' = "header" => Len(file') <= 2
    BY <1>2, <1>4, <1>7
  <2> QED BY <2>1, <1>2, <1>3, <1>8, <1>10, <1>14 DEF EncoderAt
<1> QED BY <1>13, <1>15, <1>16, <1>17, <1>18 DEF EncInv

\* Going on with a file that has a header, or is of messages without one.
LEMMA OpenFileKeeps ==
  ASSUME StreamInv, OpenFile
  PROVE  EncInv'
<1>1. EncInv /\ EncTypes /\ EncoderAt
  BY DEF StreamInv, EncInv
<1>2. /\ encpc = "raw" /\ file # << >> /\ ~half /\ file' = file
      /\ encbuf' = encbuf /\ begun' = begun /\ accepted' = accepted /\ half' = half
      /\ saved' = saved
      /\ IF Probed \in {"eof", "garbled"}
         THEN encpc' = "none" /\ unopened' = TRUE /\ comp' = comp
         ELSE encpc' = "open" /\ comp' = Probed /\ unopened' = unopened
  BY DEF OpenFile
<1>3. /\ file \in Seq(StreamUnits) /\ Shape(file) /\ accepted \in Nat /\ half \in BOOLEAN
      /\ NumberedIn(file, accepted, half) /\ encbuf = << >> /\ ~begun
      /\ Len(file) >= 1
  <2>1. Tape = file
    BY <1>1, <1>2, EncFacts
  <2>2. file \in Seq(StreamUnits)
    BY <1>1, EncFacts
  <2> QED BY <2>1, <2>2, <1>1, <1>2, EncFacts DEF EncoderAt
<1>4. /\ Headed(file) <=> file[1] = Mark
      /\ Len(file) >= 3 /\ Headed(file) => file[3].is \in Comps
  <2>1. KindAt(file, 1) /\ (file[1].is = "-" => file[1].n = 0) /\ file[1] \in StreamUnits
    BY <1>3 DEF Shape, Kinds
  <2>2. file[1] = Mark <=> file[1].is = "-"
    BY <2>1, UnitsAre DEF Mark
  <2>3. Len(file) >= 3 => KindAt(file, 3)
    BY <1>3 DEF Shape, Kinds
  <2> QED BY <2>2, <2>3, <1>3 DEF KindAt, Headed
<1>5. CASE Probed \in {"eof", "garbled"}
  <2>1. file[1].is = "dash" \/ (Headed(file) /\ Len(file) < 3)
    <3>1. Headed(file) /\ Len(file) >= 3 => file[3].is \in {"none", "snappy", "zlib"}
      BY <1>4, ForeignAre
    <3>2. Len(file) \in Nat
      BY <1>3
    <3> QED BY <3>1, <3>2, <1>2, <1>4, <1>5 DEF Probed, HeaderWhole
  <2>2. Tape' = file
    <3>1. ~Pending'
      BY <1>2, <1>5 DEF Pending
    <3> QED BY <3>1, <1>2, <1>3, StripEmpty DEF Tape, Strip
  <2>3. EncTypes'
    BY <1>1, <1>2, <1>5 DEF EncTypes
  <2>4. EncoderAt' /\ SavedIn' /\ Stuck'
    BY <2>1, <1>1, <1>2, <1>3, <1>5 DEF EncInv, EncoderAt, SavedIn, Stuck
  <2> QED BY <2>2, <2>3, <2>4, <1>2, <1>3 DEF EncInv
<1>6. CASE Probed \notin {"eof", "garbled"}
  <2>1. /\ file[1].is # "dash" /\ (Headed(file) => Len(file) >= 3)
        /\ Probed = (IF Headed(file) THEN file[3].is ELSE "none")
    <3>1. Len(file) \in Nat
      BY <1>3
    <3> QED BY <3>1, <1>2, <1>3, <1>4, <1>6 DEF Probed, HeaderWhole
  <2>2. Pending' <=> Deflated(file)
    BY <2>1, <1>2, <1>3, <1>6 DEF Pending, Deflated
  <2>3. Tape' = IF Deflated(file) THEN Append(file, ZHead) ELSE file
    BY <2>2, <1>2, <1>3, StripEmpty DEF Tape, Strip
  <2>4. ZHead \in StreamUnits /\ ZHead.is = "zhead" /\ ZHead.n = 0
    BY UnitsAre DEF ZHead
  <2>5. Shape(Tape') /\ NumberedIn(Tape', accepted', half')
    <3>1. CASE Deflated(file)
      <4>1. Shape(Append(file, ZHead))
        BY <3>1, <2>4, <1>3, ShapeAppend DEF Fits
      <4>2. NumberedIn(Append(file, ZHead), accepted, half)
        BY <2>4, <1>3, NumberedAppend
      <4> QED BY <4>1, <4>2, <3>1, <2>3, <1>2
    <3>2. CASE ~Deflated(file)
      BY <3>2, <2>3, <1>2, <1>3
    <3> QED BY <3>1, <3>2
  <2>6. OpenOn(file', Tape', comp')
    <3>1. CASE Deflated(file)
      <4>1. Len(file) >= 3 /\ Len(file) \in Nat /\ Headed(file)
        BY <3>1, <1>3 DEF Deflated
      <4>2. Len(Tape') = Len(file) + 1 /\ Tape'[Len(file) + 1].is = "zhead"
        BY <3>1, <2>3, <2>4, <1>3
      <4> QED BY <4>1, <4>2, <2>1, <1>2, <1>3, <1>6 DEF OpenOn
    <3>2. CASE ~Deflated(file)
      <4>1. Tape' = file /\ comp' # "zlib"
        BY <3>2, <2>1, <2>3, <1>2, <1>3, <1>6 DEF Deflated
      <4>2. file[Len(file)].is # "zend"
        <5>1. KindAt(file, Len(file))
          BY <1>3 DEF Shape, Kinds
        <5>2. Foreign(file[Len(file)]) => file[Len(file)].is # "zend"
          BY ForeignAre
        <5>3. file[Len(file)].is \in Comps => file[Len(file)].is # "zend"
          BY ForeignAre
        <5> QED BY <5>1, <5>2, <5>3, <3>2 DEF KindAt
      <4> QED BY <4>1, <4>2, <2>1, <1>2, <1>3, <1>6 DEF OpenOn
    <3> QED BY <3>1, <3>2
  <2>7. EncTypes'
    <3>1. comp' \in Comps \cup {"none"}
      BY <2>1, <1>2, <1>4, <1>6
    <3> QED BY <3>1, <1>1, <1>2, <1>6 DEF EncTypes
  <2>8. EncoderAt' /\ SavedIn' /\ Stuck'
    <3>1. ~unopened
      BY <2>1, <1>1, <1>3 DEF EncInv, Stuck
    <3> QED BY <3>1, <2>6, <1>1, <1>2, <1>3, <1>6 DEF EncInv, EncoderAt, SavedIn, Stuck
  <2> QED BY <2>5, <2>7, <2>8 DEF EncInv
<1> QED BY <1>5, <1>6

\* A Write of the encoder puts a unit that fits behind the stream that will be.
LEMMA EncodeAppends ==
  ASSUME EncInv, NEW u \in StreamUnits, Encode(u), Fits(Tape, u), encpc \in {"raw", "open"},
         encpc' = encpc, comp' = comp, begun' = begun
  PROVE  /\ file' \in Seq(StreamUnits) /\ encbuf' \in Seq(StreamUnits)
         /\ Tape' = Append(Tape, u) /\ Shape(Tape') /\ Begins(file, file')
         /\ encpc = "raw" => file' = Append(file, u) /\ encbuf' = << >>
         /\ encpc = "open" => file' = file
<1>1. /\ file \in Seq(StreamUnits) /\ encbuf \in Seq(StreamUnits) /\ Pending \in BOOLEAN
      /\ Shape(Tape) /\ Tape \in Seq(StreamUnits)
      /\ encpc # "open" => Tape = file /\ encbuf = << >>
  BY EncFacts DEF EncInv, EncoderAt
<1>2. Shape(Append(Tape, u))
  BY <1>1, ShapeAppend
<1>3. Pending' = Pending
  BY DEF Pending
<1>4. CASE encpc = "raw"
  <2>1. file' = Append(file, u) /\ encbuf' = << >> /\ Tape = file
    BY <1>1, <1>4 DEF Encode
  <2>2. ~Pending
    BY <1>4 DEF Pending
  <2>3. /\ file' \in Seq(StreamUnits) /\ Begins(file, file')
    BY <2>1, <1>1 DEF Begins
  <2>4. Tape' = file'
    BY <2>1, <2>2, <2>3, <1>3, StripEmpty DEF Tape, Strip
  <2>5. encbuf' \in Seq(StreamUnits)
    BY <2>1
  <2> QED BY <2>1, <2>3, <2>4, <2>5, <1>2, <1>4
<1>5. CASE encpc = "open"
  <2>1. file' = file /\ encbuf' = Append(encbuf, u)
    BY <1>5 DEF Encode
  <2>2. Tape' = Append(Tape, u)
    BY <2>1, <1>1, <1>3, StripAppend DEF Tape
  <2>3. Begins(file, file') /\ encbuf' \in Seq(StreamUnits)
    BY <2>1, <1>1 DEF Begins
  <2> QED BY <2>1, <2>2, <2>3, <1>1, <1>2, <1>5
<1> QED BY <1>4, <1>5

\* A file that goes on and starts as it did.
LEMMA OpenGoesOn ==
  ASSUME NEW f \in Seq(StreamUnits), NEW g \in Seq(StreamUnits), Begins(f, g),
         NEW s \in Seq(StreamUnits), NEW t \in Seq(StreamUnits), NEW c, OpenOn(f, s, c),
         t = s \/ (Len(t) >= Len(s) /\ t[Len(t)].is # "zend")
  PROVE  OpenOn(g, t, c)
<1>1. /\ Len(f) \in Nat /\ Len(g) \in Nat /\ Len(f) <= Len(g) /\ Len(f) >= 1
      /\ \A i \in 1 .. Len(f) : f[i] = g[i]
  BY DEF Begins, OpenOn
<1>2. f[1] = g[1] /\ (Len(f) >= 3 => f[3] = g[3]) /\ Len(g) >= 1
  BY <1>1
<1>3. Headed(f) <=> Headed(g)
  BY <1>1, <1>2 DEF Headed
<1>4. c = (IF Headed(g) THEN g[3].is ELSE "none") /\ (Headed(g) => Len(g) >= 3)
  BY <1>1, <1>2, <1>3 DEF OpenOn
<1>5. t[Len(t)].is # "zend" /\ (c = "zlib" => Len(t) > 3)
  <2>1. Len(s) \in Nat /\ Len(t) \in Nat /\ (c = "zlib" => Len(s) > 3) /\ s[Len(s)].is # "zend"
    BY DEF OpenOn
  <2> QED BY <2>1
<1> QED BY <1>2, <1>4, <1>5 DEF OpenOn

\* The length of a message.
LEMMA EncodeHeadKeeps ==
  ASSUME StreamInv, EncodeHead
  PROVE  EncInv' /\ file' \in Seq(StreamUnits)
<1>1. EncInv /\ EncTypes /\ EncoderAt
  BY DEF StreamInv, EncInv
<1> DEFINE u == Unit("+", accepted + 1)
<1>2. /\ ~half /\ accepted < MaxWritten /\ Encode(u) /\ accepted' = accepted + 1 /\ half' = TRUE
      /\ encpc' = encpc /\ comp' = comp /\ begun' = begun /\ saved' = saved /\ unopened' = unopened
      /\ encpc = "open" \/ (encpc = "raw" /\ \A i \in DOMAIN file : file[i].is \in {"+", "body"})
  BY DEF EncodeHead
<1>3. /\ file \in Seq(StreamUnits) /\ Tape \in Seq(StreamUnits) /\ Begins(file, Tape)
      /\ accepted \in Nat /\ half \in BOOLEAN /\ NumberedIn(Tape, accepted, half)
      /\ encpc = "raw" => Tape = file
  BY <1>1, EncFacts
<1>4. u \in StreamUnits /\ u.is = "+" /\ u.n = accepted + 1
  BY <1>3, UnitsAre
<1> HIDE DEF u
<1>5. Open(Tape)
  <2>1. CASE encpc = "open"
    <3>1. OpenOn(file, Tape, comp) /\ Len(file) \in Nat /\ Len(Tape) \in Nat /\ Len(file) <= Len(Tape)
          /\ \A i \in 1 .. Len(file) : Tape[i] = file[i]
      BY <2>1, <1>1, <1>3 DEF EncoderAt, Begins
    <3>2. Headed(Tape) <=> Headed(file)
      BY <3>1 DEF Headed, OpenOn
    <3>3. Headed(Tape) => Len(file) >= 3 /\ Len(Tape) >= 3 /\ Tape[3] = file[3]
      BY <3>1, <3>2 DEF OpenOn
    <3>4. Deflated(Tape) => comp = "zlib"
      BY <3>1, <3>2, <3>3 DEF Deflated, OpenOn
    <3> QED BY <3>1, <3>3, <3>4 DEF Open, OpenOn
  <2>2. CASE encpc = "raw"
    <3>1. \A i \in 1 .. Len(Tape) : Tape[i].is \in {"+", "body"}
      BY <2>2, <1>2, <1>3
    <3>2. ~Headed(Tape)
      BY <3>1, <1>3 DEF Headed
    <3> QED BY <3>1, <3>2, <1>3 DEF Open, Deflated
  <2> QED BY <2>1, <2>2, <1>2
<1>6. /\ file' \in Seq(StreamUnits) /\ encbuf' \in Seq(StreamUnits)
      /\ Tape' = Append(Tape, u) /\ Shape(Tape') /\ Begins(file, file')
      /\ encpc = "raw" => file' = Append(file, u) /\ encbuf' = << >>
      /\ encpc = "open" => file' = file
  BY <1>1, <1>2, <1>4, <1>5, EncodeAppends DEF Fits
<1>7. NumberedIn(Tape', accepted', half')
  <2>1. accepted + 1 \in Nat /\ accepted <= accepted + 1 /\ accepted < accepted + 1 /\ accepted + 1 >= 1
    BY <1>3
  <2>2. NumberedIn(Append(Tape, u), accepted + 1, TRUE)
    BY <1>3, <1>4, NumberedHead
  <2> QED BY <2>2, <1>2, <1>6
<1>8. /\ Tape' \in Seq(StreamUnits) /\ Len(Tape') = Len(Tape) + 1 /\ Tape'[Len(Tape')] = u
  BY <1>3, <1>4, <1>6
<1>9. EncTypes'
  <2>1. accepted' \in Nat /\ accepted' <= MaxWritten
    BY <1>2, <1>3, StreamAssumption DEF StreamAssumption
  <2>2. half' \in BOOLEAN
    BY <1>2
  <2> QED BY <2>1, <2>2, <1>1, <1>2, <1>6 DEF EncTypes
<1>10. EncoderAt'
  <2>1. HalfIn(Tape', accepted')
    BY <1>2, <1>3, <1>4, <1>8 DEF HalfIn
  <2>2. encpc = "open" => OpenOn(file', Tape', comp')
    <3>1. ASSUME encpc = "open" PROVE OpenOn(file', Tape', comp')
      <4>1. OpenOn(file, Tape, comp) /\ Len(Tape) \in Nat
        BY <3>1, <1>1, <1>3 DEF EncoderAt
      <4>2. Len(Tape') >= Len(Tape) /\ Tape'[Len(Tape')].is # "zend"
        BY <4>1, <1>4, <1>8
      <4> QED BY <4>1, <4>2, <1>2, <1>3, <1>6, <1>8, OpenGoesOn
    <3> QED BY <3>1
  <2> QED BY <2>1, <2>2, <1>1, <1>2, <1>6 DEF EncoderAt
<1>11. SavedIn'
  <2>1. \A n \in saved : \E i \in 1 .. Len(file) : file[i].is = "body" /\ file[i].n = n
    BY <1>1 DEF EncInv, SavedIn
  <2>2. \A i \in 1 .. Len(file) : file'[i] = file[i] /\ i \in 1 .. Len(file')
    BY <1>3, <1>6 DEF Begins
  <2> QED BY <2>1, <2>2, <1>2 DEF SavedIn
<1>12. Stuck'
  <2>1. ~unopened
    <3>1. ASSUME unopened PROVE FALSE
      <4>1. Len(file) >= 1 /\ (file[1].is = "dash" \/ Headed(file)) /\ encpc # "open"
        BY <3>1, <1>1 DEF EncInv, Stuck
      <4>2. 1 \in DOMAIN file
        BY <4>1, <1>3
      <4> QED BY <4>1, <4>2, <1>2 DEF Headed
    <3> QED BY <3>1
  <2> QED BY <2>1, <1>2 DEF Stuck
<1> QED BY <1>6, <1>7, <1>9, <1>10, <1>11, <1>12 DEF EncInv

\* The message behind it.
LEMMA EncodeBodyKeeps ==
  ASSUME StreamInv, EncodeBody
  PROVE  EncInv' /\ file' \in Seq(StreamUnits)
<1>1. EncInv /\ EncTypes /\ EncoderAt
  BY DEF StreamInv, EncInv
<1> DEFINE u == Unit("body", accepted)
<1>2. /\ half /\ Encode(u) /\ accepted' = accepted /\ half' = FALSE
      /\ encpc' = encpc /\ comp' = comp /\ begun' = begun /\ unopened' = unopened
      /\ saved' = IF encpc = "raw" THEN saved \cup {accepted} ELSE saved
  BY DEF EncodeBody
<1>3. /\ file \in Seq(StreamUnits) /\ Tape \in Seq(StreamUnits)
      /\ accepted \in Nat /\ half \in BOOLEAN /\ NumberedIn(Tape, accepted, half)
      /\ Shape(Tape)
      /\ encpc = "raw" => Tape = file
  BY <1>1, EncFacts
<1>4. u \in StreamUnits /\ u.is = "body" /\ u.n = accepted
  BY <1>3, UnitsAre
<1> HIDE DEF u
<1>5. encpc \in {"raw", "open"} /\ HalfIn(Tape, accepted)
  BY <1>1, <1>2 DEF EncoderAt
<1>6. Open(Tape) /\ accepted >= 1
  <2>1. Len(Tape) \in 1 .. Len(Tape) /\ Tape[Len(Tape)].is = "+" /\ Tape[Len(Tape)].n = accepted
    BY <1>3, <1>5 DEF HalfIn
  <2>2. KindAt(Tape, Len(Tape)) /\ accepted >= 1
    BY <2>1, <1>3 DEF Shape, Kinds, NumberedIn
  <2>3. ~(Headed(Tape) /\ Len(Tape) <= 3)
    BY <2>1, <2>2, ForeignAre DEF KindAt
  <2> QED BY <2>1, <2>2, <2>3 DEF Open, Deflated
<1>7. Fits(Tape, u)
  <2>1. \A i \in 1 .. Len(Tape) : Tape[i].is = "body" => Tape[i].n < accepted
    BY <1>2, <1>3 DEF NumberedIn
  <2> QED BY <2>1, <1>4, <1>5, <1>6 DEF Fits, FitsBody
<1>8. /\ file' \in Seq(StreamUnits) /\ encbuf' \in Seq(StreamUnits)
      /\ Tape' = Append(Tape, u) /\ Shape(Tape') /\ Begins(file, file')
      /\ encpc = "raw" => file' = Append(file, u) /\ encbuf' = << >>
      /\ encpc = "open" => file' = file
  BY <1>1, <1>2, <1>4, <1>5, <1>7, EncodeAppends
<1>9. NumberedIn(Tape', accepted', half')
  <2>1. NumberedIn(Append(Tape, u), accepted, FALSE)
    BY <1>3, <1>4, <1>6, NumberedBody
  <2> QED BY <2>1, <1>2, <1>8
<1>10. /\ Tape' \in Seq(StreamUnits) /\ Len(Tape') = Len(Tape) + 1 /\ Tape'[Len(Tape')] = u
  BY <1>3, <1>4, <1>8
<1>11. EncTypes'
  <2>1. half' \in BOOLEAN
    BY <1>2
  <2> QED BY <2>1, <1>1, <1>2, <1>8 DEF EncTypes
<1>12. EncoderAt'
  <2>1. encpc = "open" => OpenOn(file', Tape', comp')
    <3>1. ASSUME encpc = "open" PROVE OpenOn(file', Tape', comp')
      <4>1. OpenOn(file, Tape, comp) /\ Len(Tape) \in Nat
        BY <3>1, <1>1, <1>3 DEF EncoderAt
      <4>2. Len(Tape') >= Len(Tape) /\ Tape'[Len(Tape')].is # "zend"
        BY <4>1, <1>4, <1>10
      <4> QED BY <4>1, <4>2, <1>2, <1>3, <1>8, <1>10, OpenGoesOn
    <3> QED BY <3>1
  <2> QED BY <2>1, <1>1, <1>2, <1>5, <1>8 DEF EncoderAt
<1>13. SavedIn'
  <2>1. \A n \in saved' \ saved : \E i \in 1 .. Len(file') : file'[i].is = "body" /\ file'[i].n = n
    <3>1. ASSUME NEW n \in saved' \ saved
          PROVE  \E i \in 1 .. Len(file') : file'[i].is = "body" /\ file'[i].n = n
      <4>1. encpc = "raw" /\ n = accepted
        BY <1>2
      <4>2. Len(file') \in 1 .. Len(file') /\ file'[Len(file')] = u
        BY <4>1, <1>3, <1>4, <1>8
      <4> QED BY <4>1, <4>2, <1>4
    <3> QED BY <3>1
  <2>2. \A n \in saved : \E i \in 1 .. Len(file) : file[i].is = "body" /\ file[i].n = n
    BY <1>1 DEF EncInv, SavedIn
  <2>3. \A n \in saved' : \E i \in 1 .. Len(file') : file'[i].is = "body" /\ file'[i].n = n
    <3>1. \A i \in 1 .. Len(file) : file'[i] = file[i] /\ i \in 1 .. Len(file')
      BY <1>3, <1>8 DEF Begins
    <3> QED BY <2>1, <2>2, <3>1
  <2> QED BY <2>3 DEF SavedIn
<1>14. Stuck'
  BY <1>1, <1>2 DEF EncInv, Stuck
<1> QED BY <1>8, <1>9, <1>11, <1>12, <1>13, <1>14 DEF EncInv

\* The first units of the buffer are written out.
LEMMA WriteOutKeeps ==
  ASSUME EncInv, encpc = "open", NEW k \in 0 .. Len(encbuf),
         file' = file \o WrittenOut(k), encbuf' = SubSeq(encbuf, k + 1, Len(encbuf)),
         begun' = TRUE, encpc' = encpc, comp' = comp, accepted' = accepted, half' = half,
         unopened' = unopened,
         \A n \in saved' \ saved : \E i \in 1 .. k : encbuf[i].is = "body" /\ encbuf[i].n = n
  PROVE  EncInv' /\ file' \in Seq(StreamUnits)
<1>1. EncTypes /\ EncoderAt /\ SavedIn /\ Stuck
  BY DEF EncInv
<1>2. /\ file \in Seq(StreamUnits) /\ encbuf \in Seq(StreamUnits) /\ Pending \in BOOLEAN
      /\ Tape \in Seq(StreamUnits) /\ Shape(Tape) /\ NumberedIn(Tape, accepted, half)
  BY EncFacts
<1> DEFINE w == WrittenOut(k)
<1>3. w = (IF Pending THEN <<ZHead>> ELSE << >>) \o SubSeq(encbuf, 1, k)
  BY DEF WrittenOut, Pending
<1> HIDE DEF w
<1>4. /\ file \o w \in Seq(StreamUnits)
      /\ encbuf' \in Seq(StreamUnits)
      /\ Begins(file, file \o w)
      /\ Len(file \o w) = Len(file) + (IF Pending THEN 1 ELSE 0) + k
      /\ \A i \in 1 .. k : (file \o w)[Len(file) + (IF Pending THEN 1 ELSE 0) + i] = encbuf[i]
      /\ Strip(file \o w, FALSE, encbuf') = Strip(file, Pending, encbuf)
  <2>1. Moved(file, Pending, encbuf, k, w, encbuf')
    BY <1>2, <1>3, StripMove
  <2> QED BY <2>1 DEF Moved
<1>5. file' = file \o w
  BY DEF w
<1>6. Tape' = Tape
  <2>1. ~Pending'
    BY DEF Pending
  <2>2. Tape' = Strip(file', FALSE, encbuf')
    BY <2>1 DEF Tape, Strip
  <2> QED BY <2>2, <1>4, <1>5 DEF Tape
<1>7. Shape(Tape') /\ NumberedIn(Tape', accepted', half')
  BY <1>2, <1>6
<1>8. EncTypes'
  BY <1>1, <1>4, <1>5 DEF EncTypes
<1>9. EncoderAt'
  <2>1. OpenOn(file, Tape, comp)
    BY <1>1 DEF EncoderAt
  <2>2. OpenOn(file', Tape', comp')
    <3>1. OpenOn(file \o w, Tape, comp)
      BY <2>1, <1>2, <1>4, OpenGoesOn
    <3> QED BY <3>1, <1>5, <1>6
  <2> QED BY <2>2, <1>1, <1>6 DEF EncoderAt
<1>10. SavedIn'
  <2>1. ASSUME NEW n \in saved'
        PROVE  \E i \in 1 .. Len(file') : file'[i].is = "body" /\ file'[i].n = n
    <3>1. CASE n \in saved
      <4>1. PICK i \in 1 .. Len(file) : file[i].is = "body" /\ file[i].n = n
        BY <3>1, <1>1 DEF SavedIn
      <4>2. file'[i] = file[i] /\ i \in 1 .. Len(file')
        BY <1>2, <1>4, <1>5 DEF Begins
      <4> QED BY <4>1, <4>2
    <3>2. CASE n \notin saved
      <4>1. PICK i \in 1 .. k : encbuf[i].is = "body" /\ encbuf[i].n = n
        BY <3>2, <2>1
      <4> DEFINE j == Len(file) + (IF Pending THEN 1 ELSE 0) + i
      <4>2. j \in 1 .. Len(file') /\ file'[j] = encbuf[i]
        BY <1>2, <1>4, <1>5
      <4> HIDE DEF j
      <4> QED BY <4>1, <4>2
    <3> QED BY <3>1, <3>2
  <2> QED BY <2>1 DEF SavedIn
<1>11. Stuck'
  BY <1>1 DEF Stuck
<1> QED BY <1>4, <1>5, <1>7, <1>8, <1>9, <1>10, <1>11 DEF EncInv

\* A buffer that is full, and Flush.
LEMMA WritesKeep ==
  ASSUME StreamInv, (\E k \in 0 .. 2 * MaxWritten : Spill(k)) \/ FlushStream
  PROVE  EncInv' /\ file' \in Seq(StreamUnits)
<1>1. EncInv /\ encbuf \in Seq(StreamUnits)
  BY EncFacts DEF StreamInv
<1>2. CASE FlushStream
  <2>1. /\ encpc = "open" /\ file' = file \o WrittenOut(Len(encbuf)) /\ begun' = TRUE
        /\ encpc' = encpc /\ comp' = comp /\ accepted' = accepted /\ half' = half
        /\ unopened' = unopened /\ saved' = saved \cup Unsaved
        /\ Len(encbuf) \in 0 .. Len(encbuf)
    BY <1>1, <1>2 DEF FlushStream
  <2>2. encbuf' = SubSeq(encbuf, Len(encbuf) + 1, Len(encbuf))
    BY <1>1, <1>2 DEF FlushStream
  <2>3. \A n \in saved' \ saved :
          \E i \in 1 .. Len(encbuf) : encbuf[i].is = "body" /\ encbuf[i].n = n
    BY <2>1, <1>1 DEF Unsaved
  <2> QED BY <2>1, <2>2, <2>3, <1>1, WriteOutKeeps
<1>3. CASE \E k \in 0 .. 2 * MaxWritten : Spill(k)
  <2>1. PICK k \in 0 .. 2 * MaxWritten : Spill(k)
    BY <1>3
  <2>2. /\ encpc = "open" /\ k \in 0 .. Len(encbuf) /\ file' = file \o WrittenOut(k) /\ begun' = TRUE
        /\ encbuf' = SubSeq(encbuf, k + 1, Len(encbuf))
        /\ encpc' = encpc /\ comp' = comp /\ accepted' = accepted /\ half' = half
        /\ unopened' = unopened
        /\ saved' = saved \cup (Unsaved \ {encbuf'[i].n : i \in DOMAIN encbuf'})
    BY <2>1, <1>1, StreamAssumption DEF Spill, StreamAssumption
  <2>3. /\ Len(encbuf') = Len(encbuf) - k
        /\ \A i \in 1 .. Len(encbuf) - k : encbuf'[i] = encbuf[k + i] /\ i \in DOMAIN encbuf'
    BY <2>2, <1>1
  <2>4. ASSUME NEW n \in saved' \ saved
        PROVE  \E i \in 1 .. k : encbuf[i].is = "body" /\ encbuf[i].n = n
    <3>1. PICK i \in 1 .. Len(encbuf) : encbuf[i].is = "body" /\ encbuf[i].n = n
      <4>1. n \in Unsaved
        BY <2>2, <2>4
      <4> QED BY <4>1, <1>1 DEF Unsaved
    <3>2. \A j \in DOMAIN encbuf' : encbuf'[j].n # n
      BY <2>2, <2>4
    <3>3. ASSUME i > k PROVE FALSE
      <4>1. i - k \in 1 .. Len(encbuf) - k /\ k + (i - k) = i
        BY <3>3, <2>2, <1>1
      <4>2. encbuf'[i - k] = encbuf[i] /\ i - k \in DOMAIN encbuf'
        BY <4>1, <2>3
      <4> QED BY <4>2, <3>1, <3>2
    <3>4. i \in 1 .. k
      BY <3>3, <2>2
    <3> QED BY <3>1, <3>4
  <2> QED BY <2>2, <2>4, <1>1, WriteOutKeeps
<1> QED BY <1>2, <1>3

\* Close writes out what is left, and the end of a zlib stream.
LEMMA CloseKeeps ==
  ASSUME StreamInv, CloseStream
  PROVE  EncInv' /\ file' \in Seq(StreamUnits)
<1>1. EncInv /\ EncTypes /\ EncoderAt /\ SavedIn /\ Stuck
  BY DEF StreamInv, EncInv
<1>2. /\ encpc \in {"raw", "open"} /\ ~half
      /\ file' = (IF encpc = "raw" THEN file
                  ELSE file \o WrittenOut(Len(encbuf)) \o (IF comp = "zlib" THEN <<ZEnd>> ELSE << >>))
      /\ encpc' = "none" /\ encbuf' = << >> /\ saved' = saved \cup Unsaved
      /\ comp' = comp /\ begun' = begun /\ accepted' = accepted /\ half' = half
      /\ unopened' = unopened
  BY DEF CloseStream
<1>3. /\ file \in Seq(StreamUnits) /\ encbuf \in Seq(StreamUnits) /\ Pending \in BOOLEAN
      /\ Tape \in Seq(StreamUnits) /\ Shape(Tape) /\ NumberedIn(Tape, accepted, half)
      /\ accepted \in Nat /\ half \in BOOLEAN /\ Begins(file, Tape)
      /\ encpc = "raw" => Tape = file
  BY <1>1, EncFacts
<1>4. /\ file' \in Seq(StreamUnits) /\ Begins(Tape, file')
      /\ Shape(file') /\ NumberedIn(file', accepted, half)
  <2>1. CASE encpc = "raw"
    BY <2>1, <1>2, <1>3 DEF Begins
  <2>2. CASE encpc = "open"
    <3> DEFINE w == WrittenOut(Len(encbuf))
    <3>1. w = (IF Pending THEN <<ZHead>> ELSE << >>) \o SubSeq(encbuf, 1, Len(encbuf))
      BY <2>2 DEF WrittenOut, Pending
    <3> HIDE DEF w
    <3>2. Len(encbuf) \in 0 .. Len(encbuf) /\ << >> = SubSeq(encbuf, Len(encbuf) + 1, Len(encbuf))
      BY <1>3
    <3>3. /\ file \o w \in Seq(StreamUnits)
          /\ Strip(file \o w, FALSE, << >>) = Strip(file, Pending, encbuf)
      <4>1. Moved(file, Pending, encbuf, Len(encbuf), w, << >>)
        BY <3>1, <3>2, <1>3, StripMove
      <4> QED BY <4>1 DEF Moved
    <3>4. file \o w = Tape
      BY <3>3, StripEmpty DEF Tape
    <3>5. file' = (Tape \o (IF comp = "zlib" THEN <<ZEnd>> ELSE << >>))
      BY <3>4, <2>2, <1>2 DEF w
    <3>6. CASE comp = "zlib"
      <4>1. ZEnd \in StreamUnits /\ ZEnd.is = "zend" /\ ZEnd.n = 0
        BY UnitsAre DEF ZEnd
      <4>2. file' = Append(Tape, ZEnd)
        BY <3>5, <3>6, <4>1, <1>3, AppendIsConcat
      <4>3. Fits(Tape, ZEnd)
        <5>1. OpenOn(file, Tape, comp)
          BY <2>2, <1>1 DEF EncoderAt
        <5>2. /\ Len(file) \in Nat /\ Len(Tape) \in Nat /\ Len(file) <= Len(Tape)
              /\ \A i \in 1 .. Len(file) : Tape[i] = file[i]
          BY <1>3 DEF Begins
        <5>3. Headed(file) /\ file[3].is = "zlib" /\ Len(file) >= 3 /\ Len(Tape) > 3
              /\ Tape[Len(Tape)].is # "zend"
          BY <5>1, <3>6 DEF OpenOn
        <5>4. Deflated(Tape)
          BY <5>2, <5>3 DEF Deflated, Headed
        <5> QED BY <5>2, <5>3, <5>4, <4>1 DEF Fits, Open
      <4>4. /\ Shape(Append(Tape, ZEnd)) /\ NumberedIn(Append(Tape, ZEnd), accepted, half)
        <5>1. Shape(Append(Tape, ZEnd))
          BY <4>1, <4>3, <1>3, ShapeAppend
        <5>2. NumberedIn(Append(Tape, ZEnd), accepted, half)
          BY <4>1, <1>3, NumberedAppend
        <5> QED BY <5>1, <5>2
      <4>5. Append(Tape, ZEnd) \in Seq(StreamUnits) /\ Begins(Tape, Append(Tape, ZEnd))
        BY <4>1, <1>3 DEF Begins
      <4> QED BY <4>2, <4>4, <4>5
    <3>7. CASE comp # "zlib"
      <4>1. Tape \o << >> = Tape
        BY <1>3, ConcatEmptySeq
      <4>2. file' = Tape
        BY <4>1, <3>5, <3>7
      <4> QED BY <4>2, <1>3 DEF Begins
    <3> QED BY <3>6, <3>7
  <2> QED BY <2>1, <2>2, <1>2
<1>5. Tape' = file'
  <2>1. ~Pending'
    BY <1>2 DEF Pending
  <2>2. Strip(file', FALSE, << >>) = file'
    BY <1>4, StripEmpty
  <2> QED BY <2>1, <2>2, <1>2 DEF Tape, Strip
<1>6. EncTypes'
  <2>1. encbuf' \in Seq(StreamUnits)
    BY <1>2
  <2> QED BY <2>1, <1>1, <1>2, <1>4 DEF EncTypes
<1>7. EncoderAt'
  BY <1>2 DEF EncoderAt
<1>8. SavedIn'
  <2>1. ASSUME NEW n \in saved'
        PROVE  \E i \in 1 .. Len(Tape) : Tape[i].is = "body" /\ Tape[i].n = n
    <3>1. CASE n \in saved
      <4>1. PICK i \in 1 .. Len(file) : file[i].is = "body" /\ file[i].n = n
        BY <3>1, <1>1 DEF SavedIn
      <4>2. Tape[i] = file[i] /\ i \in 1 .. Len(Tape)
        BY <1>3 DEF Begins
      <4> QED BY <4>1, <4>2
    <3>2. CASE n \notin saved
      <4>1. PICK i \in 1 .. Len(encbuf) : encbuf[i].is = "body" /\ encbuf[i].n = n
        BY <3>2, <2>1, <1>2, <1>3 DEF Unsaved
      <4> DEFINE j == Len(file) + (IF Pending THEN 1 ELSE 0) + i
      <4>2. j \in 1 .. Len(Strip(file, Pending, encbuf)) /\ Strip(file, Pending, encbuf)[j] = encbuf[i]
        <5>1. Len(Strip(file, Pending, encbuf)) = Len(file) + (IF Pending THEN 1 ELSE 0) + Len(encbuf)
          BY <1>3, StripIs
        <5>2. Strip(file, Pending, encbuf)[j] = encbuf[i]
          BY <1>3, StripIs
        <5> QED BY <5>1, <5>2, <1>3
      <4> HIDE DEF j
      <4> QED BY <4>1, <4>2 DEF Tape
    <3> QED BY <3>1, <3>2
  <2>2. \A i \in 1 .. Len(Tape) : file'[i] = Tape[i] /\ i \in 1 .. Len(file')
    BY <1>3, <1>4 DEF Begins
  <2> QED BY <2>1, <2>2 DEF SavedIn
<1>9. Stuck'
  <2>1. CASE unopened
    <3>1. encpc = "raw"
      BY <2>1, <1>1, <1>2 DEF Stuck
    <3> QED BY <3>1, <1>1, <1>2 DEF Stuck
  <2>2. CASE ~unopened
    BY <2>2, <1>2 DEF Stuck
  <2> QED BY <2>1, <2>2
<1> QED BY <1>2, <1>4, <1>5, <1>6, <1>7, <1>8, <1>9 DEF EncInv

\* While an encoder writes there is no reader yet.
LEMMA EncodingKeeps ==
  ASSUME StreamInv, decpc = "none", decodeVars' = decodeVars, file' \in Seq(StreamUnits),
         undone' # "Probe"
  PROVE  DecTypes' /\ MessageReader' /\ LineReader'
<1>1. /\ decpc' = "none" /\ decpos' = 0 /\ returned' = << >> /\ decoder' = decoder
      /\ decoder \in {"none", "native", "kv", "json", "text"}
  BY DEF decodeVars, StreamInv, DecTypes
<1>2. DecTypes'
  <2>1. Len(file') \in Nat
    OBVIOUS
  <2> QED BY <2>1, <1>1 DEF DecTypes
<1> QED BY <1>1, <1>2 DEF MessageReader, LineReader, Reading

\* Every step of an encoder.
LEMMA EncoderKeeps ==
  ASSUME StreamInv,
         \/ NewStreamEncoder \/ OpenFile \/ EncodeHead \/ EncodeBody \/ FlushStream
         \/ CloseStream \/ CrashEncoder
         \/ \E c \in Comps : WriteHeader(c)
         \/ \E k \in 0 .. 2 * MaxWritten : Spill(k)
  PROVE  StreamInv'
<1>1. file \in Seq(StreamUnits)
  BY EncFacts DEF StreamInv
<1>2. EncInv' /\ file' \in Seq(StreamUnits)
  <2>1. CASE NewStreamEncoder \/ CrashEncoder
    <3>1. file' = file
      BY <2>1 DEF NewStreamEncoder, CrashEncoder
    <3> QED BY <2>1, <3>1, <1>1, NewOrCrashKeeps
  <2>2. CASE OpenFile
    <3>1. file' = file
      BY <2>2 DEF OpenFile
    <3> QED BY <2>2, <3>1, <1>1, OpenFileKeeps
  <2>3. CASE EncodeHead
    BY <2>3, EncodeHeadKeeps
  <2>4. CASE EncodeBody
    BY <2>4, EncodeBodyKeeps
  <2>5. CASE FlushStream \/ \E k \in 0 .. 2 * MaxWritten : Spill(k)
    BY <2>5, WritesKeep
  <2>6. CASE CloseStream
    BY <2>6, CloseKeeps
  <2>7. CASE \E c \in Comps : WriteHeader(c)
    <3>1. PICK c \in Comps : WriteHeader(c)
      BY <2>7
    <3>2. EncInv'
      BY <3>1, HeaderKeeps
    <3> QED BY <3>2 DEF EncInv, EncTypes
  <2> QED BY <2>1, <2>2, <2>3, <2>4, <2>5, <2>6, <2>7
<1>3. decpc = "none" /\ decodeVars' = decodeVars /\ undone' # "Probe"
  <2>1. CASE NewStreamEncoder \/ CrashEncoder \/ OpenFile
    BY <2>1 DEF NewStreamEncoder, CrashEncoder, OpenFile, Encoding
  <2>2. CASE EncodeHead \/ EncodeBody \/ FlushStream
    BY <2>2 DEF EncodeHead, EncodeBody, FlushStream, Encoding
  <2>3. CASE CloseStream
    BY <2>3 DEF CloseStream, Encoding
  <2>4. CASE \E c \in Comps : WriteHeader(c)
    BY <2>4 DEF WriteHeader, Encoding
  <2>5. CASE \E k \in 0 .. 2 * MaxWritten : Spill(k)
    BY <2>5 DEF Spill, Encoding
  <2> QED BY <2>1, <2>2, <2>3, <2>4, <2>5
<1>4. DecTypes' /\ MessageReader' /\ LineReader'
  BY <1>2, <1>3, EncodingKeeps
<1> QED BY <1>2, <1>4 DEF StreamInv

-----------------------------------------------------------------------------
(* The reader                                                              *)

\* What the reader has before it, after the last encoder.
LEMMA ReaderFacts ==
  ASSUME StreamInv, decpc # "none"
  PROVE  /\ EncInv /\ DecTypes /\ MessageReader /\ LineReader /\ encpc = "none"
         /\ file \in Seq(StreamUnits) /\ Len(file) \in Nat /\ decpos \in Nat /\ decpos <= Len(file)
         /\ returned \in Seq(StreamUnits) /\ Len(returned) \in Nat
         /\ Shape(file) /\ Kinds(file) /\ Paired(file) /\ Zipped(file) /\ LinesEnd(file)
<1>1. EncInv /\ DecTypes /\ MessageReader /\ LineReader
  BY DEF StreamInv
<1>2. encpc = "none"
  BY <1>1 DEF DecTypes
<1>3. file \in Seq(StreamUnits) /\ Shape(file)
  BY <1>1, <1>2, EncFacts
<1>4. /\ decpos \in Nat /\ decpos <= Len(file) /\ returned \in Seq(StreamUnits)
  BY <1>1 DEF DecTypes
<1> QED BY <1>1, <1>2, <1>3, <1>4 DEF Shape

\* What a reader does not touch.
LEMMA EncoderStays ==
  ASSUME EncInv, file' = file, encodeVars' = encodeVars
  PROVE  EncInv'
<1>1. /\ encpc' = encpc /\ comp' = comp /\ encbuf' = encbuf /\ begun' = begun
      /\ accepted' = accepted /\ half' = half /\ saved' = saved /\ unopened' = unopened
  BY DEF encodeVars
<1>2. Tape' = Tape
  BY <1>1 DEF Tape, Pending
<1>3. EncTypes' /\ SavedIn' /\ Stuck'
  BY <1>1 DEF EncInv, EncTypes, SavedIn, Stuck
<1>4. EncoderAt'
  BY <1>1, <1>2 DEF EncInv, EncoderAt
<1> QED BY <1>1, <1>2, <1>3, <1>4 DEF EncInv

\* A reader comes.
LEMMA ReaderComes ==
  ASSUME StreamInv, NewStreamDecoder
  PROVE  StreamInv'
<1>1. /\ decpc = "none" /\ encpc = "none" /\ decpc' = "start" /\ file' = file
      /\ encodeVars' = encodeVars /\ decpos' = decpos /\ decoder' = decoder
      /\ returned' = returned /\ undone' = undone /\ undone = "no" /\ encpc' = encpc
  BY DEF NewStreamDecoder, Encoding, encodeVars
<1>2. EncInv'
  BY <1>1, EncoderStays DEF StreamInv
<1>3. DecTypes'
  BY <1>1 DEF StreamInv, DecTypes
<1>4. MessageReader' /\ LineReader'
  BY <1>1 DEF MessageReader, LineReader, Reading
<1> QED BY <1>2, <1>3, <1>4 DEF StreamInv

\* The marks of a zlib stream, and where the data ends.
LEMMA AtEndIs ==
  ASSUME StreamInv, decpc # "none"
  PROVE  /\ AtEnd <=> decpos = Len(file) \/ file[decpos + 1].is \in {"zhead", "zend"}
         /\ \A i \in 1 .. Len(file) : /\ file[i] = ZHead <=> file[i].is = "zhead"
                                      /\ file[i] = ZEnd <=> file[i].is = "zend"
                                      /\ file[i] = Mark <=> file[i].is = "-"
<1>1. /\ file \in Seq(StreamUnits) /\ Len(file) \in Nat /\ decpos \in Nat /\ decpos <= Len(file)
      /\ Kinds(file)
  BY ReaderFacts
<1>2. ASSUME NEW i \in 1 .. Len(file)
      PROVE  /\ file[i] = ZHead <=> file[i].is = "zhead"
             /\ file[i] = ZEnd <=> file[i].is = "zend"
             /\ file[i] = Mark <=> file[i].is = "-"
  <2>1. file[i] \in StreamUnits /\ (file[i].is \in {"-", "zhead", "zend"} => file[i].n = 0)
    BY <1>1 DEF Kinds
  <2>2. file[i] = Unit(file[i].is, file[i].n)
    BY <2>1, UnitsAre
  <2> QED BY <2>1, <2>2, UnitsAre DEF ZHead, ZEnd, Mark
<1>3. AtEnd <=> decpos = Len(file) \/ file[decpos + 1].is \in {"zhead", "zend"}
  <2>1. CASE decpos = Len(file)
    BY <2>1, <1>1 DEF AtEnd
  <2>2. CASE decpos # Len(file)
    <3>1. decpos \in 0 .. Len(file) - 1 /\ decpos + 1 \in 1 .. Len(file)
      BY <2>2, <1>1
    <3> QED BY <3>1, <2>2, <1>2 DEF AtEnd
  <2> QED BY <2>1, <2>2
<1> QED BY <1>2, <1>3

\* What a reader finds at a place that is not inside a message.
LEMMA UnitBefore ==
  ASSUME StreamInv, decpc # "none", Len(file) >= 1, ~Foreign(file[1]),
         NEW p \in Nat, p < Len(file), Headed(file) => p >= 3, p = 0 \/ file[p].is # "+"
  PROVE  file[p + 1].is \in {"+", "zhead", "zend"}
<1>1. /\ file \in Seq(StreamUnits) /\ Len(file) \in Nat /\ Kinds(file) /\ Paired(file)
  BY ReaderFacts
<1>2. p + 1 \in 1 .. Len(file)
  BY <1>1
<1>3. KindAt(file, p + 1) /\ ~Foreign(file[p + 1])
  BY <1>1, <1>2 DEF Kinds
<1>4. ~(Headed(file) /\ p + 1 <= 3)
  OBVIOUS
<1>5. file[p + 1].is # "body"
  <2>1. ASSUME file[p + 1].is = "body" PROVE FALSE
    <3>1. p + 1 > 1 /\ file[p + 1 - 1].is = "+"
      BY <2>1, <1>1, <1>2 DEF Paired
    <3>2. p + 1 - 1 = p /\ p # 0
      BY <3>1
    <3> QED BY <3>1, <3>2
  <2> QED BY <2>1
<1> QED BY <1>3, <1>4, <1>5 DEF KindAt

\* The header has no message.
LEMMA HeaderHasNoBody ==
  ASSUME StreamInv, decpc # "none", Headed(file)
  PROVE  /\ ~Foreign(file[1])
         /\ \A j \in 1 .. Len(file) : j <= 3 => file[j].is # "body" /\ file[j].is # "+"
         /\ Deflated(file) /\ Len(file) > 3 => file[4].is = "zhead"
<1>1. /\ file \in Seq(StreamUnits) /\ Len(file) \in Nat /\ Kinds(file) /\ Zipped(file)
  BY ReaderFacts
<1>2. ASSUME NEW j \in 1 .. Len(file), j <= 3 PROVE file[j].is # "body" /\ file[j].is # "+"
  <2>1. KindAt(file, j)
    BY <1>1 DEF Kinds
  <2>2. file[j].is \in Comps => file[j].is \in {"none", "snappy", "zlib"}
    BY ForeignAre
  <2> QED BY <2>1, <2>2, <1>2 DEF KindAt
<1>3. ~Foreign(file[1])
  BY ForeignAre DEF Headed
<1> QED BY <1>1, <1>2, <1>3 DEF Zipped

\* What Probe finds.
LEMMA ProbedIs ==
  ASSUME StreamInv, decpc # "none", Len(file) >= 1
  PROVE  /\ file[1].is = "dash" => Probed = "garbled"
         /\ Headed(file) /\ Len(file) < 3 => Probed = "eof"
         /\ Headed(file) /\ Len(file) >= 3 => /\ Probed = file[3].is
                                              /\ Probed \in {"none", "snappy", "zlib"}
                                              /\ file[1] = Mark
         /\ ~Headed(file) /\ file[1].is # "dash" => Probed = "none" /\ file[1] # Mark
<1>1. /\ file \in Seq(StreamUnits) /\ Len(file) \in Nat /\ Kinds(file) /\ file # << >>
  BY ReaderFacts
<1>2. 1 \in 1 .. Len(file) /\ (file[1] = Mark <=> Headed(file))
  BY <1>1, AtEndIs DEF Headed
<1>3. Headed(file) /\ Len(file) >= 3 => file[3].is \in {"none", "snappy", "zlib"}
  <2>1. Len(file) >= 3 => KindAt(file, 3)
    BY <1>1 DEF Kinds
  <2> QED BY <2>1, ForeignAre DEF KindAt
<1>4. Headed(file) => file[1].is # "dash"
  BY DEF Headed
<1> QED BY <1>1, <1>2, <1>3, <1>4 DEF Probed, HeaderWhole

\* The first Generate.
LEMMA ProbeKeeps ==
  ASSUME StreamInv, Probe
  PROVE  StreamInv'
<1>1. /\ decpc = "start" /\ file' = file /\ encodeVars' = encodeVars
      /\ decoder' = decoder /\ returned' = returned
  BY DEF Probe
<1>2. /\ EncInv /\ DecTypes /\ encpc = "none" /\ file \in Seq(StreamUnits) /\ Len(file) \in Nat
      /\ decpos = 0 /\ returned = << >> /\ encpc' = encpc
  BY <1>1, ReaderFacts DEF encodeVars, DecTypes
<1>3. EncInv'
  BY <1>1, <1>2, EncoderStays
<1>4. CASE Len(file) = 0
  <2>1. file = << >>
    BY <1>2, <1>4
  <2>2. decpc' = "probe" /\ decpos' = Len(file) /\ undone' = undone
    BY <2>1 DEF Probe, Probed
  <2>3. DecTypes'
    BY <2>2, <1>1, <1>2, <1>4 DEF DecTypes
  <2>4. MessageReader' /\ LineReader'
    BY <1>1, <1>4 DEF MessageReader, LineReader, Reading
  <2> QED BY <2>3, <2>4, <1>3 DEF StreamInv
<1>5. CASE Len(file) >= 1
  <2>0. /\ file[1].is = "dash" => Probed = "garbled"
        /\ Headed(file) /\ Len(file) < 3 => Probed = "eof"
        /\ Headed(file) /\ Len(file) >= 3 => /\ Probed = file[3].is
                                             /\ Probed \in {"none", "snappy", "zlib"}
                                             /\ file[1] = Mark
        /\ ~Headed(file) /\ file[1].is # "dash" => Probed = "none" /\ file[1] # Mark
    BY <1>1, <1>5, ProbedIs
  <2>1. /\ decpc' \in {"probe", "ended"} /\ decpos' \in Nat /\ decpos' <= Len(file)
        /\ undone' \in {undone, "Probe"}
        /\ undone' # undone => Deflated(file) /\ Len(file) = 3
        /\ decpc' = "ended" => Deflated(file) /\ Len(file) = 3 /\ decpos' = 0
        /\ decpc' = "probe" =>
             decpos' = (IF file[1].is = "dash" THEN 1
                        ELSE IF ~Headed(file) THEN 0
                        ELSE IF Len(file) < 3 THEN Len(file)
                        ELSE IF Deflated(file) THEN 4 ELSE 3)
    <3>1. CASE file[1].is = "dash"
      <4>1. decpc' = "probe" /\ decpos' = 1 /\ undone' = undone
        BY <3>1, <2>0 DEF Probe
      <4> QED BY <4>1, <3>1, <1>5, <1>2
    <3>2. CASE Headed(file) /\ Len(file) < 3
      <4>1. decpc' = "probe" /\ decpos' = Len(file) /\ undone' = undone
        BY <3>2, <2>0 DEF Probe
      <4> QED BY <4>1, <3>2, <1>2 DEF Headed
    <3>3. CASE Deflated(file) /\ Len(file) = 3
      <4>1. decpc' = "ended" /\ undone' = "Probe" /\ decpos' = decpos
        BY <3>3, <2>0 DEF Probe, Deflated
      <4> QED BY <4>1, <3>3, <1>2
    <3>4. CASE Deflated(file) /\ Len(file) # 3
      <4>1. /\ Headed(file) /\ Len(file) >= 3 /\ Probed = "zlib"
        BY <3>4, <2>0 DEF Deflated
      <4>2. decpc' = "probe" /\ undone' = undone /\ decpos' = 3 + 1
        BY <4>1, <3>4 DEF Probe, AfterProbe
      <4>3. file[1].is # "dash"
        BY <4>1 DEF Headed
      <4>4. \A n \in Nat : n >= 3 /\ n # 3 => n >= 4
        OBVIOUS
      <4>5. Len(file) >= 4
        BY <4>1, <4>4, <3>4, <1>2, Zenon
      <4>6. decpos' = 4
        BY <4>2
      <4> QED BY <4>1, <4>2, <4>3, <4>5, <4>6, <3>4, <1>2
    <3>5. CASE Headed(file) /\ Len(file) >= 3 /\ ~Deflated(file)
      <4>1. Probed \in {"none", "snappy"} /\ file[1] = Mark
        BY <3>5, <2>0 DEF Deflated
      <4>2. decpc' = "probe" /\ undone' = undone /\ decpos' = 3 + 0
        BY <4>1 DEF Probe, AfterProbe
      <4>3. file[1].is # "dash"
        BY <3>5 DEF Headed
      <4> QED BY <4>2, <4>3, <3>5, <1>2
    <3>6. CASE ~Headed(file) /\ file[1].is # "dash"
      <4>1. decpc' = "probe" /\ undone' = undone /\ decpos' = 0 + 0
        BY <3>6, <2>0 DEF Probe, AfterProbe
      <4> QED BY <4>1, <3>6, <1>2
    <3>7. Deflated(file) => Headed(file) /\ Len(file) >= 3
      BY DEF Deflated
    <3> QED BY <3>1, <3>2, <3>3, <3>4, <3>5, <3>6, <3>7, <1>2
  <2>2. DecTypes'
    <3>1. Deflated(file) => file[3].is = "zlib"
      BY DEF Deflated
    <3>2. undone' = "Probe" => Len(file') = 3 /\ file'[3].is = "zlib"
      BY <2>1, <3>1, <1>1, <1>2 DEF DecTypes
    <3> QED BY <2>1, <3>2, <1>1, <1>2 DEF DecTypes
  <2>3. ASSUME ~Foreign(file[1])
        PROVE  /\ \A j \in 1 .. decpos' : file[j].is # "body"
               /\ decpc' = "ended" => \A j \in 1 .. Len(file) : file[j].is # "body"
               /\ decpc' = "probe" =>
                    /\ decpos' < Len(file) => file[decpos' + 1].is \in {"+", "zhead", "zend"}
                    /\ Deflated(file) => decpos' >= 4
    <3>1. file[1].is # "dash"
      <4>1. KindAt(file, 1)
        BY <1>1, <1>5, ReaderFacts DEF Kinds
      <4> QED BY <4>1, <2>3, <1>5 DEF KindAt, Headed
    <3>2. CASE Headed(file)
      <4>1. /\ \A j \in 1 .. Len(file) : j <= 3 => file[j].is # "body" /\ file[j].is # "+"
            /\ Deflated(file) /\ Len(file) > 3 => file[4].is = "zhead"
        BY <3>2, <1>1, HeaderHasNoBody
      <4>2. \A j \in 1 .. decpos' : file[j].is # "body" /\ file[j].is # "+"
        <5>1. decpc' = "probe" => decpos' <= 3 \/ (decpos' = 4 /\ Deflated(file))
          BY <2>1, <3>1, <3>2, <1>2
        <5>2. \A j \in 1 .. decpos' : j \in 1 .. Len(file) /\ (j <= 3 \/ (j = 4 /\ decpos' = 4))
          BY <5>1, <2>1, <1>2
        <5> QED BY <5>1, <5>2, <4>1, <2>1
      <4>3. decpc' = "ended" => \A j \in 1 .. Len(file) : file[j].is # "body"
        <5>0. decpc' = "ended" => Len(file) = 3
          BY <2>1
        <5>1. ASSUME decpc' = "ended", NEW j \in 1 .. Len(file) PROVE j <= 3
          <6>0. \A n \in Nat : n = 3 => n <= 3
            OBVIOUS
          <6>1. Len(file) <= 3
            BY <5>0, <5>1, <6>0, <1>2, Zenon
          <6> QED BY <6>1, <1>2
        <5> QED BY <5>1, <4>1
      <4>4. decpc' = "probe" /\ decpos' < Len(file) => decpos' >= 3 /\ (Deflated(file) => decpos' >= 4)
        BY <2>1, <3>1, <3>2, <1>2
      <4>5. decpc' = "probe" /\ decpos' < Len(file) => file[decpos' + 1].is \in {"+", "zhead", "zend"}
        <5>1. ASSUME decpc' = "probe", decpos' < Len(file)
              PROVE  file[decpos' + 1].is \in {"+", "zhead", "zend"}
          <6>1. decpos' >= 3 /\ decpos' \in 1 .. decpos' /\ file[decpos'].is # "+"
            BY <5>1, <4>2, <4>4, <2>1
          <6> QED BY <6>1, <5>1, <2>1, <2>3, <1>1, <1>5, UnitBefore
        <5> QED BY <5>1
      <4>6. decpc' = "probe" /\ Deflated(file) => decpos' >= 4
        BY <2>1, <3>1, <3>2, <1>2 DEF Deflated
      <4> QED BY <4>2, <4>3, <4>5, <4>6
    <3>3. CASE ~Headed(file)
      <4>1. decpc' = "probe" /\ decpos' = 0 /\ ~Deflated(file)
        BY <2>1, <3>1, <3>3 DEF Deflated
      <4>2. file[decpos' + 1].is \in {"+", "zhead", "zend"}
        BY <4>1, <3>3, <2>3, <1>1, <1>2, <1>5, UnitBefore
      <4> QED BY <4>1, <4>2
    <3> QED BY <3>2, <3>3
  <2>4. MessageReader'
    <3> SUFFICES ASSUME ~Foreign(file[1])
        PROVE  /\ (\A k \in 1 .. Len(returned') : Whole(k)') /\ Rising' /\ Given'
               /\ BeforeMessage' /\ AllPassed'
      BY <1>1 DEF MessageReader, Foreign
    <3>1. (\A k \in 1 .. Len(returned') : Whole(k)') /\ Rising'
      BY <1>1, <1>2 DEF Rising
    <3>2. Given' /\ BeforeMessage' /\ AllPassed'
      BY <2>1, <2>3, <1>1 DEF Given, BeforeMessage, AllPassed, Deflated, Headed
    <3> QED BY <3>1, <3>2
  <2>5. LineReader'
    <3> SUFFICES ASSUME OneFormat
        PROVE  /\ Len(returned') <= Len(file')
               /\ \A k \in 1 .. Len(returned') : returned'[k] = file'[k]
               /\ LinesSoFar'
               /\ decpc' = "ended" => Len(returned') = Len(file') - Unended'
      BY <1>1 DEF LineReader, OneFormat, Foreign
    <3>1. file[1].is \in {"text", "kv", "json"}
      BY ForeignAre DEF OneFormat
    <3>2. decpc' = "probe" /\ decpos' = 0
      BY <3>1, <2>1 DEF Headed, Deflated
    <3> QED BY <3>2, <1>1, <1>2 DEF LinesSoFar
  <2> QED BY <2>2, <2>4, <2>5, <1>3 DEF StreamInv
<1> QED BY <1>2, <1>4, <1>5

\* What a reader of messages has so far.
LEMMA MessagesSoFar ==
  ASSUME StreamInv, decpc \in {"probe", "decode"}, Len(file) >= 1, ~Foreign(file[1])
  PROVE  /\ \A k \in 1 .. Len(returned) : Whole(k)
         /\ Rising /\ Given /\ BeforeMessage /\ AllPassed
BY DEF StreamInv, MessageReader, Reading

\* What a reader of lines of one format has.
LEMMA LinesAre ==
  ASSUME StreamInv, decpc \in {"probe", "decode"}, Len(file) >= 1, OneFormat
  PROVE  /\ Len(returned) <= Len(file) /\ decpos = Len(returned)
         /\ \A k \in 1 .. Len(returned) : returned[k] = file[k]
         /\ file[1].is = "text" => \A k \in 1 .. decpos : file[k].n # Cut
         /\ decpc = "decode" => decoder = file[1].is
         /\ file[1].is \in {"text", "kv", "json"}
<1>1. file[1].is \in {"text", "kv", "json"}
  BY ForeignAre DEF OneFormat
<1> QED BY <1>1 DEF StreamInv, LineReader, LinesSoFar, Reading

\* The kind of the stream.
LEMMA PickKeeps ==
  ASSUME StreamInv, Pick
  PROVE  StreamInv'
<1>1. /\ decpc = "probe" /\ ~AtEnd /\ decpc' = "decode" /\ file' = file
      /\ encodeVars' = encodeVars /\ decpos' = decpos /\ returned' = returned /\ undone' = undone
      /\ decoder' = (CASE file[decpos + 1].is = "+" -> "native"
                       [] file[decpos + 1].is \in {"kv", "json"} -> file[decpos + 1].is
                       [] OTHER -> "text")
  BY DEF Pick
<1>2. /\ EncInv /\ DecTypes /\ encpc = "none" /\ file \in Seq(StreamUnits) /\ Len(file) \in Nat
      /\ decpos \in Nat /\ decpos <= Len(file) /\ encpc' = encpc
  BY <1>1, ReaderFacts DEF encodeVars
<1>3. decpos < Len(file) /\ file[decpos + 1].is \notin {"zhead", "zend"} /\ Len(file) >= 1
  <2>1. decpos # Len(file) /\ file[decpos + 1].is \notin {"zhead", "zend"}
    BY <1>1, AtEndIs
  <2> QED BY <2>1, <1>2
<1>4. EncInv'
  BY <1>1, <1>2, EncoderStays
<1>5. DecTypes'
  <2>1. decoder' \in {"none", "native", "kv", "json", "text"}
    BY <1>1
  <2> QED BY <2>1, <1>1, <1>2 DEF DecTypes
<1>6. MessageReader'
  <2> SUFFICES ASSUME ~Foreign(file[1])
      PROVE  /\ (\A k \in 1 .. Len(returned') : Whole(k)') /\ Rising' /\ Given'
             /\ BeforeMessage' /\ AllPassed'
    BY <1>1 DEF MessageReader, Foreign
  <2>1. /\ \A k \in 1 .. Len(returned) : Whole(k)
        /\ Rising /\ Given /\ BeforeMessage
    BY <1>1, <1>3, MessagesSoFar
  <2>2. \A k \in 1 .. Len(returned') : Whole(k)'
    BY <2>1, <1>1 DEF Whole, Got, Barrier
  <2>3. Rising' /\ Given'
    BY <2>1, <1>1 DEF Rising, Given, Got, Cutoff, Barrier
  <2>4. decoder' = "native"
    <3>1. file[decpos + 1].is = "+"
      BY <2>1, <1>1, <1>3 DEF BeforeMessage
    <3> QED BY <3>1, <1>1
  <2>5. BeforeMessage' /\ AllPassed'
    BY <2>1, <2>4, <1>1 DEF BeforeMessage, AllPassed, Deflated, Headed
  <2> QED BY <2>2, <2>3, <2>5
<1>7. LineReader'
  <2> SUFFICES ASSUME OneFormat
      PROVE  /\ Len(returned') <= Len(file')
             /\ \A k \in 1 .. Len(returned') : returned'[k] = file'[k]
             /\ LinesSoFar'
             /\ decpc' = "ended" => Len(returned') = Len(file') - Unended'
    BY <1>1 DEF LineReader, OneFormat, Foreign
  <2>1. /\ Len(returned) <= Len(file) /\ decpos = Len(returned)
        /\ \A k \in 1 .. Len(returned) : returned[k] = file[k]
        /\ file[1].is = "text" => \A k \in 1 .. decpos : file[k].n # Cut
        /\ file[1].is \in {"text", "kv", "json"}
    BY <1>1, <1>3, LinesAre
  <2>2. decoder' = file[1].is
    <3>1. decpos + 1 \in 1 .. Len(file)
      BY <1>2, <1>3
    <3>2. file[decpos + 1].is = file[1].is
      BY <3>1 DEF OneFormat
    <3> QED BY <3>2, <2>1, <1>1
  <2> QED BY <2>1, <2>2, <1>1 DEF LinesSoFar
<1> QED BY <1>4, <1>5, <1>6, <1>7 DEF StreamInv

\* The end of the data, or of what can be read.
LEMMA EndsKeeps ==
  ASSUME StreamInv, Ends
  PROVE  StreamInv'
<1>1. /\ decpc \in {"probe", "decode"} /\ AtEnd /\ decpc' = "ended" /\ file' = file
      /\ encodeVars' = encodeVars /\ decpos' = decpos /\ returned' = returned /\ undone' = undone
      /\ decoder' = decoder
  BY DEF Ends
<1>2. /\ EncInv /\ DecTypes /\ encpc = "none" /\ file \in Seq(StreamUnits) /\ Len(file) \in Nat
      /\ decpos \in Nat /\ decpos <= Len(file) /\ encpc' = encpc /\ Kinds(file) /\ Zipped(file)
      /\ Paired(file)
  BY <1>1, ReaderFacts DEF encodeVars
<1>3. EncInv'
  BY <1>1, <1>2, EncoderStays
<1>4. DecTypes'
  BY <1>1, <1>2 DEF DecTypes
<1>5. decpos = Len(file) \/ (decpos < Len(file) /\ file[decpos + 1].is \in {"zhead", "zend"})
  <2>1. decpos = Len(file) \/ file[decpos + 1].is \in {"zhead", "zend"}
    BY <1>1, AtEndIs
  <2>2. decpos = Len(file) \/ decpos < Len(file)
    BY <1>2
  <2> QED BY <2>1, <2>2
<1>6. MessageReader'
  <2> SUFFICES ASSUME Len(file) >= 1, ~Foreign(file[1])
      PROVE  /\ (\A k \in 1 .. Len(returned') : Whole(k)') /\ Rising' /\ Given'
             /\ BeforeMessage' /\ AllPassed'
    BY <1>1 DEF MessageReader, Foreign, Reading
  <2>1. /\ \A k \in 1 .. Len(returned) : Whole(k)
        /\ Rising /\ Given /\ BeforeMessage
    BY <1>1, MessagesSoFar
  <2>2. \A k \in 1 .. Len(returned') : Whole(k)'
    BY <2>1, <1>1 DEF Whole, Got, Barrier
  <2>3. Rising' /\ Given' /\ BeforeMessage'
    BY <2>1, <1>1 DEF Rising, Given, Got, Cutoff, Barrier, BeforeMessage
  <2>4. ASSUME NEW j \in 1 .. Len(file), file[j].is = "body"
        PROVE  Got(j, Len(returned)) \/ Cutoff(j)
    <3>1. CASE decpos = Len(file)
      BY <3>1, <2>1, <2>4 DEF Given
    <3>2. CASE decpos < Len(file) /\ file[decpos + 1].is \in {"zhead", "zend"}
      <4>0. decpos + 1 \in 1 .. Len(file) /\ j \in Nat
        BY <3>2, <1>2
      <4>1. CASE j <= decpos
        <5>1. j \in 1 .. decpos /\ decpos # Len(file)
          BY <4>1, <3>2, <1>2
        <5> QED BY <5>1, <2>1, <2>4 DEF Given
      <4>2. CASE j > decpos
        <5>1. Deflated(file) /\ decpos + 1 > 3
          <6>1. KindAt(file, decpos + 1)
            BY <4>0, <1>2 DEF Kinds
          <6>2. Foreign(file[decpos + 1]) => file[decpos + 1].is \notin {"zhead", "zend"}
            BY ForeignAre
          <6>3. file[decpos + 1].is \in Comps => file[decpos + 1].is \notin {"zhead", "zend"}
            BY ForeignAre
          <6> QED BY <6>1, <6>2, <6>3, <3>2 DEF KindAt
        <5>2. decpos >= 4
          BY <5>1, <2>1, <1>1 DEF BeforeMessage
        <5>3. 4 \in 1 .. Len(file) /\ file[4] = ZHead
          <6>1. Len(file) > 3 /\ file[4].is = "zhead"
            BY <5>1, <5>2, <1>2 DEF Zipped
          <6> QED BY <6>1, <1>1, <1>2, AtEndIs
        <5>4. \A i \in 1 .. Len(file) : i > 4 /\ file[i].is = "zhead" => Barrier(i)
          <6>1. ASSUME NEW i \in 1 .. Len(file), i > 4, file[i].is = "zhead" PROVE Barrier(i)
            <7>1. file[i] = ZHead
              BY <6>1, <1>1, AtEndIs
            <7>2. 4 \in 1 .. i - 1
              BY <6>1
            <7> QED BY <7>1, <7>2, <5>3 DEF Barrier
          <6> QED BY <6>1
        <5>5. CASE file[decpos + 1].is = "zhead"
          <6>1. Barrier(decpos + 1)
            BY <5>2, <5>4, <5>5, <4>0, <1>2
          <6>2. j # decpos + 1
            BY <5>5, <2>4
          <6>3. decpos + 1 \in 1 .. j - 1
            BY <6>2, <4>0, <4>2, <1>2
          <6> QED BY <6>1, <6>3 DEF Cutoff
        <5>6. CASE file[decpos + 1].is = "zend"
          <6>1. j # decpos + 1
            BY <5>6, <2>4
          <6>2. j > decpos + 1 /\ decpos + 1 \in 1 .. Len(file) - 1
            BY <6>1, <4>0, <4>2, <1>2
          <6>3. file[decpos + 1 + 1].is = "zhead"
            BY <6>2, <5>6, <1>2 DEF Zipped
          <6>4. decpos + 1 + 1 \in 1 .. Len(file) /\ decpos + 1 + 1 > 4
            BY <6>2, <5>2, <1>2
          <6>5. Barrier(decpos + 1 + 1)
            BY <6>3, <6>4, <5>4
          <6>6. j # decpos + 1 + 1
            BY <6>3, <2>4
          <6>7. decpos + 1 + 1 \in 1 .. j - 1
            BY <6>2, <6>6, <4>0, <1>2
          <6> QED BY <6>5, <6>7 DEF Cutoff
        <5> QED BY <5>5, <5>6, <3>2
      <4> QED BY <4>0, <4>1, <4>2, <1>2
    <3> QED BY <3>1, <3>2, <1>5
  <2>5. AllPassed'
    BY <2>4, <1>1 DEF AllPassed, Got, Cutoff, Barrier
  <2> QED BY <2>2, <2>3, <2>5
<1>7. LineReader'
  <2> SUFFICES ASSUME Len(file) >= 1, OneFormat
      PROVE  /\ Len(returned') <= Len(file')
             /\ \A k \in 1 .. Len(returned') : returned'[k] = file'[k]
             /\ LinesSoFar'
             /\ decpc' = "ended" => Len(returned') = Len(file') - Unended'
    BY <1>1 DEF LineReader, OneFormat, Foreign, Reading
  <2>1. /\ Len(returned) <= Len(file) /\ decpos = Len(returned)
        /\ \A k \in 1 .. Len(returned) : returned[k] = file[k]
        /\ file[1].is = "text" => \A k \in 1 .. decpos : file[k].n # Cut
        /\ file[1].is \in {"text", "kv", "json"}
    BY <1>1, LinesAre
  <2>2. decpos = Len(file)
    <3>1. ASSUME decpos < Len(file) PROVE file[decpos + 1].is \notin {"zhead", "zend"}
      <4>1. decpos + 1 \in 1 .. Len(file)
        BY <3>1, <1>2
      <4>2. file[decpos + 1].is = file[1].is
        BY <4>1 DEF OneFormat
      <4> QED BY <4>2, <2>1
    <3> QED BY <3>1, <1>5
  <2>3. Unended' = 0
    <3>1. Len(file) \in 1 .. decpos
      BY <2>2, <1>2
    <3> QED BY <3>1, <2>1, <1>1 DEF Unended
  <2>4. Len(returned') = Len(file') - Unended'
    <3>1. Len(file) - 0 = Len(file)
      BY <1>2
    <3> QED BY <3>1, <2>1, <2>2, <2>3, <1>1
  <2> QED BY <2>1, <2>4, <1>1 DEF LinesSoFar
<1> QED BY <1>3, <1>4, <1>6, <1>7 DEF StreamInv

\* Where a reader of messages goes on.
LEMMA NativeIs ==
  ASSUME StreamInv, Decode, ~Foreign(file[1])
  PROVE  /\ decpc = "decode" /\ decoder = "native" /\ file' = file
         /\ encodeVars' = encodeVars /\ decoder' = decoder /\ undone' = undone /\ Native
         /\ decpos < Len(file) /\ file[decpos + 1].is = "+"
         /\ (\A k \in 1 .. Len(returned) : Whole(k)) /\ Rising /\ Given /\ BeforeMessage
<1>1. decpc = "decode" /\ ~AtEnd
  BY DEF Decode
<1>2. /\ Len(file) \in Nat /\ decpos \in Nat /\ decpos <= Len(file)
  BY <1>1, ReaderFacts
<1>3. decpos # Len(file) /\ file[decpos + 1].is \notin {"zhead", "zend"}
  BY <1>1, AtEndIs
<1>4. decpos < Len(file) /\ Len(file) >= 1
  BY <1>2, <1>3
<1>5. (\A k \in 1 .. Len(returned) : Whole(k)) /\ Rising /\ Given /\ BeforeMessage
  BY <1>1, <1>4, MessagesSoFar
<1>6. decoder = "native" /\ file[decpos + 1].is = "+"
  BY <1>1, <1>3, <1>4, <1>5 DEF BeforeMessage
<1> QED BY <1>1, <1>4, <1>5, <1>6 DEF Decode

\* A message is returned.
LEMMA MatchKeeps ==
  ASSUME StreamInv, Decode, ~Foreign(file[1]), decpos + 1 < Len(file),
         file[decpos + 2] = Unit("body", file[decpos + 1].n),
         Returns(file[decpos + 2], decpos + 2)
  PROVE  DecTypes' /\ MessageReader'
<1> DEFINE u == file[decpos + 2]
           p == decpos + 2
<1>0. PICK R \in Nat : R = Len(returned)
  <2>1. decpc # "none"
    BY DEF Decode
  <2> QED BY <2>1, ReaderFacts
<1>1. /\ decpc = "decode" /\ decoder = "native" /\ file' = file
      /\ decoder' = decoder /\ undone' = undone /\ encodeVars' = encodeVars
      /\ file[decpos + 1].is = "+"
      /\ (\A k \in 1 .. R : Whole(k)) /\ Rising /\ Given /\ BeforeMessage
  BY <1>0, NativeIs
<1>2. /\ DecTypes /\ encpc = "none" /\ file \in Seq(StreamUnits) /\ Len(file) \in Nat
      /\ decpos \in Nat /\ decpos <= Len(file) /\ encpc' = encpc /\ Kinds(file) /\ Paired(file)
      /\ returned \in Seq(StreamUnits)
  BY <1>1, ReaderFacts DEF encodeVars
<1>3. /\ p \in 1 .. Len(file) /\ p \in Nat /\ p <= Len(file) /\ u \in StreamUnits
      /\ u.is = "body" /\ u = file[p] /\ p = decpos + 2
  <2>1. p \in 1 .. Len(file) /\ p \in Nat /\ p <= Len(file)
    BY <1>2
  <2>2. u \in StreamUnits
    BY <2>1, <1>2
  <2>3. u.is = "body"
    BY UnitsAre
  <2> QED BY <2>1, <2>2, <2>3
<1>4. /\ returned' = Append(returned, u) /\ decpos' = p /\ decpc' = decpc
  BY DEF Returns
<1> HIDE DEF u, p
<1>5. /\ returned' \in Seq(StreamUnits) /\ Len(returned') = R + 1 /\ returned'[R + 1] = u
      /\ \A k \in 1 .. R : returned'[k] = returned[k]
  BY <1>0, <1>2, <1>3, <1>4
<1>6. DecTypes'
  BY <1>1, <1>2, <1>3, <1>4, <1>5 DEF DecTypes
<1>7. u # Junk
  BY <1>3, UnitsAre DEF Junk
<1>8. \A j \in 1 .. decpos : file[j].is = "body" => Got(j, R)
  BY <1>0, <1>1, <1>2, <1>3 DEF Given
<1>9. \A j, k : k \in 1 .. R /\ Got(j, k) => Got(j, k)'
  <2>1. ASSUME NEW j, NEW k \in 1 .. R, Got(j, k) PROVE Got(j, k)'
    <3>1. PICK l \in 1 .. k : returned[l] = file[j]
      BY <2>1 DEF Got
    <3>2. l \in 1 .. R
      BY <3>1, <1>2
    <3>3. returned'[l] = file'[j]
      BY <3>1, <3>2, <1>1, <1>5
    <3> QED BY <3>3 DEF Got
  <2> QED BY <2>1
<1>10. ASSUME NEW j \in 1 .. p, file[j].is = "body" PROVE Got(j, R + 1)'
  <2>1. CASE j = p
    <3>1. returned'[R + 1] = file'[j] /\ R + 1 \in 1 .. R + 1
      BY <2>1, <1>1, <1>2, <1>3, <1>5
    <3> QED BY <3>1 DEF Got
  <2>2. CASE j # p
    <3>1. j # decpos + 1
      BY <1>1, <1>10
    <3>2. j \in 1 .. decpos
      BY <2>2, <3>1, <1>2, <1>3
    <3>3. PICK l \in 1 .. R : returned[l] = file[j]
      BY <3>2, <1>8, <1>10 DEF Got
    <3>4. l \in 1 .. R + 1 /\ returned'[l] = file'[j]
      BY <3>3, <1>1, <1>2, <1>5
    <3> QED BY <3>4 DEF Got
  <2> QED BY <2>1, <2>2
<1>11. ASSUME NEW k \in 1 .. Len(returned') PROVE Whole(k)'
  <2>1. CASE k = R + 1
    <3>1. returned'[k] # Junk /\ file'[p] = returned'[k] /\ file'[p].is = "body" /\ p \in 1 .. decpos'
      BY <2>1, <1>1, <1>3, <1>4, <1>5, <1>7
    <3>2. \A j \in 1 .. p : file'[j].is = "body" => Got(j, k)'
      BY <2>1, <1>1, <1>10
    <3> QED BY <3>1, <3>2 DEF Whole
  <2>2. CASE k # R + 1
    <3>1. k \in 1 .. R /\ returned'[k] = returned[k]
      BY <2>2, <1>2, <1>5
    <3>2. Whole(k) /\ decpos # Len(file)
      BY <3>1, <1>1, <1>2, <1>3
    <3>3. returned[k] # Junk
      BY <3>2 DEF Whole
    <3>4. PICK i \in 1 .. decpos : /\ file[i] = returned[k] /\ file[i].is = "body"
                                   /\ \A j \in 1 .. i : file[j].is = "body" => Got(j, k)
      BY <3>2, <3>3 DEF Whole
    <3>5. i \in 1 .. decpos'
      BY <3>4, <1>2, <1>3, <1>4
    <3>6. \A j \in 1 .. i : file'[j].is = "body" => Got(j, k)'
      BY <3>1, <3>4, <1>1, <1>9
    <3> QED BY <3>1, <3>3, <3>4, <3>5, <3>6, <1>1 DEF Whole
  <2> QED BY <2>1, <2>2
<1>12. Rising'
  <2>1. ASSUME NEW k \in 1 .. Len(returned'), NEW l \in 1 .. Len(returned'), k < l,
               returned'[k] # Junk, returned'[l] # Junk
        PROVE  returned'[k].n < returned'[l].n
    <3>1. CASE l = R + 1
      <4>1. k \in 1 .. R /\ returned'[k] = returned[k]
        BY <3>1, <2>1, <1>2, <1>5
      <4>2. PICK i \in 1 .. decpos : file[i] = returned[k] /\ file[i].is = "body"
        BY <4>1, <2>1, <1>1 DEF Whole
      <4>3. i < p /\ i \in 1 .. Len(file)
        BY <4>2, <1>2, <1>3
      <4>4. file[i].n < file[p].n
        BY <4>2, <4>3, <1>2, <1>3 DEF Paired
      <4> QED BY <4>1, <4>2, <4>4, <3>1, <1>3, <1>5
    <3>2. CASE l # R + 1
      <4>1. /\ k \in 1 .. R /\ l \in 1 .. R /\ returned'[k] = returned[k] /\ returned'[l] = returned[l]
        BY <3>2, <2>1, <1>5
      <4>2. \A a, b \in 1 .. R : a < b /\ returned[a] # Junk /\ returned[b] # Junk
                                => returned[a].n < returned[b].n
        BY <1>0, <1>1 DEF Rising
      <4> QED BY <4>1, <4>2, <2>1
    <3> QED BY <3>1, <3>2
  <2> QED BY <2>1 DEF Rising
<1>13. Given'
  BY <1>1, <1>4, <1>5, <1>10 DEF Given
<1>14. BeforeMessage' /\ AllPassed'
  <2>1. decpos' < Len(file) => file[decpos' + 1].is \in {"+", "zhead", "zend"}
    <3>1. ASSUME p < Len(file) PROVE file[p + 1].is \in {"+", "zhead", "zend"}
      <4>1. Headed(file) => p >= 3
        <5>1. ASSUME Headed(file), p < 3 PROVE FALSE
          <6>1. file[p].is # "body"
            BY <5>1, <1>1, <1>3, HeaderHasNoBody
          <6> QED BY <6>1, <1>3
        <5> QED BY <5>1, <1>3
      <4>2. file[p].is # "+" /\ Len(file) >= 1
        BY <1>2, <1>3
      <4> QED BY <4>1, <4>2, <3>1, <1>1, <1>3, UnitBefore
    <3> QED BY <3>1, <1>4
  <2>2. Deflated(file) => decpos' >= 4
    BY <1>1, <1>2, <1>3, <1>4 DEF BeforeMessage
  <2> QED BY <2>1, <2>2, <1>1, <1>4 DEF BeforeMessage, AllPassed, Deflated, Headed
<1>15. MessageReader'
  BY <1>11, <1>12, <1>13, <1>14 DEF MessageReader
<1> QED BY <1>6, <1>15

\* A length that its message does not follow: behind it nothing is owed.
LEMMA NoMatchKeeps ==
  ASSUME StreamInv, Decode, ~Foreign(file[1]), Barrier(decpos + 1),
         Fails \/ Returns(Junk, Len(file))
  PROVE  DecTypes' /\ MessageReader'
<1>0. PICK R \in Nat : R = Len(returned)
  <2>1. decpc # "none"
    BY DEF Decode
  <2> QED BY <2>1, ReaderFacts
<1>1. /\ decpc = "decode" /\ decoder = "native" /\ file' = file
      /\ decoder' = decoder /\ undone' = undone /\ encodeVars' = encodeVars
      /\ decpos < Len(file) /\ file[decpos + 1].is = "+"
      /\ (\A k \in 1 .. R : Whole(k)) /\ Rising /\ Given /\ BeforeMessage
  BY <1>0, NativeIs
<1>2. /\ DecTypes /\ encpc = "none" /\ file \in Seq(StreamUnits) /\ Len(file) \in Nat
      /\ decpos \in Nat /\ decpos <= Len(file) /\ encpc' = encpc
      /\ returned \in Seq(StreamUnits)
  BY <1>1, ReaderFacts DEF encodeVars
<1>3. \A j \in 1 .. decpos : file[j].is = "body" => Got(j, R)
  BY <1>0, <1>1, <1>2 DEF Given
<1>4. ASSUME NEW j \in 1 .. Len(file), file[j].is = "body" PROVE Got(j, R) \/ Cutoff(j)
  <2>1. CASE j <= decpos
    <3>1. j \in 1 .. decpos
      BY <2>1, <1>2
    <3> QED BY <3>1, <1>3, <1>4
  <2>2. CASE j > decpos
    <3>1. j # decpos + 1
      BY <1>1, <1>4
    <3>2. decpos + 1 \in 1 .. j - 1
      BY <2>2, <3>1, <1>2
    <3> QED BY <3>2 DEF Cutoff
  <2> QED BY <2>1, <2>2, <1>2
<1>5. decpos + 1 \in 1 .. Len(file)
  BY <1>1, <1>2
<1>6. CASE Fails
  <2>1. decpc' = "ended" /\ decpos' = decpos /\ returned' = returned
    BY <1>6 DEF Fails
  <2>2. DecTypes'
    BY <2>1, <1>1, <1>2 DEF DecTypes
  <2>3. \A k \in 1 .. Len(returned') : Whole(k)'
    BY <2>1, <1>0, <1>1 DEF Whole, Got, Barrier
  <2>4. Rising' /\ Given' /\ BeforeMessage'
    BY <2>1, <1>1 DEF Rising, Given, Got, Cutoff, Barrier, BeforeMessage
  <2>5. AllPassed'
    BY <2>1, <1>0, <1>1, <1>4 DEF AllPassed, Got, Cutoff, Barrier
  <2> QED BY <2>2, <2>3, <2>4, <2>5 DEF MessageReader
<1>7. CASE Returns(Junk, Len(file))
  <2>1. /\ returned' = Append(returned, Junk) /\ decpos' = Len(file) /\ decpc' = decpc
    BY <1>7 DEF Returns
  <2>2. /\ returned' \in Seq(StreamUnits) /\ Len(returned') = R + 1 /\ returned'[R + 1] = Junk
        /\ \A k \in 1 .. R : returned'[k] = returned[k]
    BY <2>1, <1>0, <1>2, UnitsAre
  <2>3. DecTypes'
    BY <2>1, <2>2, <1>1, <1>2 DEF DecTypes
  <2>4. \A j, k : k \in 1 .. R /\ Got(j, k) => Got(j, k)'
    <3>1. ASSUME NEW j, NEW k \in 1 .. R, Got(j, k) PROVE Got(j, k)'
      <4>1. PICK l \in 1 .. k : returned[l] = file[j]
        BY <3>1 DEF Got
      <4>2. returned'[l] = file'[j]
        BY <4>1, <2>2, <1>1
      <4> QED BY <4>2 DEF Got
    <3> QED BY <3>1
  <2>5. ASSUME NEW k \in 1 .. Len(returned') PROVE Whole(k)'
    <3>1. CASE k = R + 1
      <4>1. returned'[k] = Junk /\ decpos' = Len(file')
        BY <3>1, <2>1, <2>2, <1>1
      <4>2. \E i \in 1 .. Len(file') : Barrier(i)'
        BY <1>1, <1>5 DEF Barrier
      <4> QED BY <4>1, <4>2 DEF Whole
    <3>2. CASE k # R + 1
      <4>1. k \in 1 .. R /\ returned'[k] = returned[k]
        BY <3>2, <2>2
      <4>2. Whole(k) /\ decpos # Len(file)
        BY <4>1, <1>1, <1>2
      <4>3. returned[k] # Junk
        BY <4>2 DEF Whole
      <4>4. PICK i \in 1 .. decpos : /\ file[i] = returned[k] /\ file[i].is = "body"
                                     /\ \A j \in 1 .. i : file[j].is = "body" => Got(j, k)
        BY <4>2, <4>3 DEF Whole
      <4>5. i \in 1 .. decpos'
        BY <4>4, <2>1, <1>1, <1>2
      <4>6. \A j \in 1 .. i : file'[j].is = "body" => Got(j, k)'
        BY <4>1, <4>4, <2>4, <1>1
      <4> QED BY <4>1, <4>3, <4>4, <4>5, <4>6, <1>1 DEF Whole
    <3> QED BY <3>1, <3>2
  <2>6. Rising'
    <3>1. ASSUME NEW k \in 1 .. Len(returned'), NEW l \in 1 .. Len(returned'), k < l,
                 returned'[k] # Junk, returned'[l] # Junk
          PROVE  returned'[k].n < returned'[l].n
      <4>1. /\ k \in 1 .. R /\ l \in 1 .. R /\ returned'[k] = returned[k] /\ returned'[l] = returned[l]
        BY <3>1, <2>2
      <4>2. \A a, b \in 1 .. R : a < b /\ returned[a] # Junk /\ returned[b] # Junk
                                => returned[a].n < returned[b].n
        BY <1>0, <1>1 DEF Rising
      <4> QED BY <4>1, <4>2, <3>1
    <3> QED BY <3>1 DEF Rising
  <2>7. Given'
    <3>1. ASSUME NEW j \in 1 .. Len(file), file[j].is = "body"
          PROVE  (\E l \in 1 .. R + 1 : returned'[l] = file[j]) \/ Cutoff(j)
      <4>1. CASE Got(j, R)
        <5>1. PICK l \in 1 .. R : returned[l] = file[j]
          BY <4>1 DEF Got
        <5>2. l \in 1 .. R + 1 /\ returned'[l] = file[j]
          BY <5>1, <2>2
        <5> QED BY <5>2
      <4> QED BY <4>1, <3>1, <1>4
    <3>2. ASSUME NEW j, Cutoff(j) PROVE Cutoff(j)'
      BY <3>2, <1>1 DEF Cutoff, Barrier
    <3>3. ASSUME NEW j \in 1 .. Len(file), file'[j].is = "body"
          PROVE  (\E l \in 1 .. Len(returned') : returned'[l] = file'[j]) \/ Cutoff(j)'
      BY <3>1, <3>2, <3>3, <2>2, <1>1
    <3> QED BY <3>3, <2>1, <1>1 DEF Given, Got
  <2>8. BeforeMessage' /\ AllPassed'
    <3>1. Deflated(file) => Len(file) >= 4
      BY <1>1, <1>2 DEF BeforeMessage
    <3> QED BY <3>1, <2>1, <1>1, <1>2 DEF BeforeMessage, AllPassed, Deflated, Headed
  <2> QED BY <2>3, <2>5, <2>6, <2>7, <2>8 DEF MessageReader
<1> QED BY <1>6, <1>7

\* A line is returned, skipped, or ends the reading.
LEMMA LineKeeps ==
  ASSUME StreamInv, Decode, OneFormat
  PROVE  LineReader'
<1>1. decpc = "decode" /\ ~AtEnd /\ file' = file /\ decoder' = decoder
  BY DEF Decode
<1>2. /\ file \in Seq(StreamUnits) /\ Len(file) \in Nat /\ LinesEnd(file)
      /\ decpos \in Nat /\ decpos <= Len(file) /\ returned \in Seq(StreamUnits)
  BY <1>1, ReaderFacts
<1>3. decpos < Len(file) /\ Len(file) >= 1
  <2>1. decpos # Len(file)
    BY <1>1, AtEndIs
  <2> QED BY <2>1, <1>2
<1>4. /\ Len(returned) <= Len(file) /\ decpos = Len(returned)
      /\ \A k \in 1 .. Len(returned) : returned[k] = file[k]
      /\ file[1].is = "text" => \A k \in 1 .. decpos : file[k].n # Cut
      /\ decoder = file[1].is
      /\ file[1].is \in {"text", "kv", "json"}
  BY <1>1, <1>3, LinesAre
<1> DEFINE u == file[decpos + 1]
<1>5. /\ decpos + 1 \in 1 .. Len(file) /\ u \in StreamUnits /\ u.is = file[1].is
  <2>1. decpos + 1 \in 1 .. Len(file)
    BY <1>2, <1>3
  <2> QED BY <2>1, <1>2 DEF OneFormat
<1>6. Line
  BY <1>1, <1>4 DEF Decode
<1>7. \/ (file[1].is = "text" /\ u.n = Cut /\ Fails)
      \/ ((file[1].is = "text" => u.n # Cut) /\ Returns(u, decpos + 1))
  BY <1>4, <1>5, <1>6 DEF Line
<1> HIDE DEF u
<1>8. CASE file[1].is = "text" /\ u.n = Cut /\ Fails
  <2>1. decpc' = "ended" /\ decpos' = decpos /\ returned' = returned
    BY <1>8 DEF Fails
  <2>2. decpos + 1 = Len(file)
    <3>1. ASSUME decpos + 1 \in 1 .. Len(file) - 1 PROVE FALSE
      <4>1. decpos + 1 + 1 \in 1 .. Len(file)
        BY <3>1, <1>2
      <4>2. file[decpos + 1].is = file[1].is /\ file[decpos + 1 + 1].is = file[1].is
        BY <4>1, <1>5 DEF OneFormat, u
      <4>3. Foreign(file[decpos + 1]) /\ Foreign(file[decpos + 1 + 1])
        BY <4>2 DEF OneFormat, Foreign
      <4> QED BY <3>1, <4>3, <1>2, <1>8 DEF LinesEnd, u
    <3> QED BY <3>1, <1>2, <1>3
  <2>3. Unended' = 1
    <3>1. file[Len(file)].n = Cut
      BY <2>2, <1>8 DEF u
    <3> QED BY <3>1, <1>1, <1>8 DEF Unended
  <2>4. Len(returned') = Len(file') - Unended'
    <3>1. \A a, b \in Nat : a + 1 = b => a = b - 1
      OBVIOUS
    <3>2. decpos = Len(file) - 1
      BY <3>1, <2>2, <1>2
    <3> QED BY <3>2, <2>1, <2>3, <1>1, <1>4
  <2> QED BY <2>1, <2>4, <1>1, <1>4 DEF LineReader, LinesSoFar
<1>9. CASE (file[1].is = "text" => u.n # Cut) /\ Returns(u, decpos + 1)
  <2>1. returned' = Append(returned, u) /\ decpos' = decpos + 1 /\ decpc' = decpc
    BY <1>9 DEF Returns
  <2>2. /\ Len(returned') = Len(returned) + 1 /\ returned'[Len(returned) + 1] = u
        /\ \A k \in 1 .. Len(returned) : returned'[k] = returned[k]
    BY <2>1, <1>2, <1>5
  <2>3. Len(returned') <= Len(file') /\ decpos' = Len(returned')
    BY <2>1, <2>2, <1>1, <1>2, <1>3, <1>4
  <2>4. ASSUME NEW k \in 1 .. Len(returned') PROVE returned'[k] = file'[k]
    <3>1. CASE k = Len(returned) + 1
      BY <3>1, <2>2, <1>1, <1>4 DEF u
    <3>2. CASE k # Len(returned) + 1
      <4>1. k \in 1 .. Len(returned)
        BY <3>2, <2>2, <1>2
      <4> QED BY <4>1, <2>2, <1>1, <1>4
    <3> QED BY <3>1, <3>2
  <2>5. ASSUME file[1].is = "text", NEW k \in 1 .. decpos' PROVE file[k].n # Cut
    <3>1. CASE k = decpos + 1
      BY <3>1, <2>5, <1>9 DEF u
    <3>2. CASE k # decpos + 1
      <4>1. k \in 1 .. decpos
        BY <3>2, <2>1, <1>2
      <4> QED BY <4>1, <2>5, <1>4
    <3> QED BY <3>1, <3>2
  <2> QED BY <2>1, <2>3, <2>4, <2>5, <1>1, <1>4 DEF LineReader, LinesSoFar
<1> QED BY <1>7, <1>8, <1>9

\* Decode, of whatever the stream is.
LEMMA DecodeKeeps ==
  ASSUME StreamInv, Decode
  PROVE  StreamInv'
<1>1. /\ decpc = "decode" /\ ~AtEnd /\ file' = file /\ encodeVars' = encodeVars
      /\ decoder' = decoder /\ undone' = undone
      /\ IF decoder = "native" THEN Native ELSE Line
  BY DEF Decode
<1>2. /\ EncInv /\ DecTypes /\ encpc = "none" /\ file \in Seq(StreamUnits) /\ Len(file) \in Nat
      /\ decpos \in Nat /\ decpos <= Len(file) /\ returned \in Seq(StreamUnits)
  BY <1>1, ReaderFacts
<1>3. decpos < Len(file)
  <2>1. decpos # Len(file)
    BY <1>1, AtEndIs
  <2> QED BY <2>1, <1>2
<1>4. EncInv' /\ encpc' = encpc
  BY <1>1, <1>2, EncoderStays DEF encodeVars
<1>5. DecTypes'
  <2> DEFINE u == file[decpos + 1]
             v == IF decpos + 1 = Len(file) THEN ZEnd ELSE file[decpos + 2]
  <2>1. \/ (decpos' \in Nat /\ decpos' <= Len(file) /\ returned' = returned)
        \/ \E x \in StreamUnits, p \in Nat : p <= Len(file) /\ Returns(x, p)
    <3>0. decpos + 1 \in Nat /\ decpos + 1 <= Len(file) /\ u \in StreamUnits /\ Junk \in StreamUnits
      BY <1>2, <1>3, UnitsAre
    <3>1. CASE decoder = "native"
      <4>1. /\ decpos + 1 # Len(file) => /\ decpos + 2 \in Nat /\ decpos + 2 <= Len(file)
                                         /\ file[decpos + 2] \in StreamUnits
        BY <1>2, <1>3
      <4>2. v = Unit("body", u.n) => decpos + 1 # Len(file)
        BY UnitsAre DEF ZEnd
      <4>3. \/ (v = Unit("body", u.n) /\ Returns(v, decpos + 2)) \/ Fails
            \/ Returns(Junk, Len(file))
        BY <3>1, <1>1 DEF Native
      <4> QED BY <4>1, <4>2, <4>3, <3>0, <1>2, <1>3 DEF Fails
    <3>2. CASE decoder # "native"
      <4>1. Fails \/ Returns(u, decpos + 1) \/ (decpos' = decpos + 1 /\ returned' = returned)
        BY <3>2, <1>1 DEF Line
      <4> QED BY <4>1, <3>0, <1>2, <1>3 DEF Fails
    <3> QED BY <3>1, <3>2
  <2>2. decpos' \in Nat /\ decpos' <= Len(file) /\ returned' \in Seq(StreamUnits)
    <3>1. \A x \in StreamUnits : Append(returned, x) \in Seq(StreamUnits)
      BY <1>2
    <3> QED BY <3>1, <2>1, <1>2 DEF Returns
  <2>3. decpc' \in {"decode", "ended"}
    BY <1>1 DEF Native, Line, Fails, Returns
  <2> QED BY <2>2, <2>3, <1>1, <1>2, <1>4 DEF DecTypes
<1>6. MessageReader'
  <2>1. CASE Foreign(file[1])
    BY <2>1, <1>1 DEF MessageReader, Foreign
  <2>2. CASE ~Foreign(file[1])
    <3>1. Native /\ file[decpos + 1].is = "+" /\ decpos + 1 \in 1 .. Len(file)
      BY <2>2, <1>2, <1>3, NativeIs
    <3> DEFINE v == IF decpos + 1 = Len(file) THEN ZEnd ELSE file[decpos + 2]
    <3>2. CASE v = Unit("body", file[decpos + 1].n)
      <4>1. decpos + 1 # Len(file)
        BY <3>2, UnitsAre DEF ZEnd
      <4>2. v = file[decpos + 2] /\ decpos + 1 < Len(file)
        BY <4>1, <1>2, <1>3
      <4>3. Returns(v, decpos + 2)
        BY <3>1, <3>2 DEF Native
      <4> QED BY <4>2, <4>3, <3>2, <2>2, MatchKeeps
    <3>3. CASE v # Unit("body", file[decpos + 1].n)
      <4>1. Fails \/ Returns(Junk, Len(file))
        BY <3>1, <3>3 DEF Native
      <4>2. Barrier(decpos + 1)
        <5>1. decpos + 1 + 1 = decpos + 2
          BY <1>2
        <5> QED BY <5>1, <3>1, <3>3 DEF Barrier
      <4> QED BY <4>1, <4>2, <2>2, NoMatchKeeps
    <3> QED BY <3>2, <3>3
  <2> QED BY <2>1, <2>2
<1>7. LineReader'
  <2>1. CASE OneFormat
    BY <2>1, LineKeeps
  <2>2. CASE ~OneFormat
    BY <2>2, <1>1 DEF LineReader, OneFormat, Foreign
  <2> QED BY <2>1, <2>2
<1> QED BY <1>4, <1>5, <1>6, <1>7 DEF StreamInv

\* Every step keeps the invariant.
LEMMA StreamStep ==
  ASSUME StreamInv, [StreamNext]_strVars
  PROVE  StreamInv'
<1>1. CASE UNCHANGED strVars
  <2>1. /\ file' = file /\ encodeVars' = encodeVars /\ decpc' = decpc /\ decpos' = decpos
        /\ decoder' = decoder /\ returned' = returned /\ undone' = undone /\ encpc' = encpc
    BY <1>1 DEF strVars, encodeVars, decodeVars
  <2>2. EncInv'
    BY <2>1, EncoderStays DEF StreamInv
  <2>3. DecTypes'
    BY <2>1 DEF StreamInv, DecTypes
  <2>4. MessageReader'
    BY <2>1 DEF StreamInv, MessageReader, Reading, Foreign, Whole, Rising, Given, BeforeMessage,
                AllPassed, Cutoff, Got, Barrier, Deflated, Headed
  <2>5. LineReader'
    BY <2>1 DEF StreamInv, LineReader, Reading, OneFormat, Foreign, LinesSoFar, Unended
  <2> QED BY <2>2, <2>3, <2>4, <2>5 DEF StreamInv
<1>2. CASE StreamNext
  <2>1. CASE \/ NewStreamEncoder \/ OpenFile \/ EncodeHead \/ EncodeBody \/ FlushStream
             \/ CloseStream \/ CrashEncoder
             \/ \E c \in Comps : WriteHeader(c)
             \/ \E k \in 0 .. 2 * MaxWritten : Spill(k)
    BY <2>1, EncoderKeeps
  <2>2. CASE NewStreamDecoder
    BY <2>2, ReaderComes
  <2>3. CASE Probe
    BY <2>3, ProbeKeeps
  <2>4. CASE Pick
    BY <2>4, PickKeeps
  <2>5. CASE Ends
    BY <2>5, EndsKeeps
  <2>6. CASE Decode
    BY <2>6, DecodeKeeps
  <2> QED BY <1>2, <2>1, <2>2, <2>3, <2>4, <2>5, <2>6 DEF StreamNext
<1> QED BY <1>1, <1>2

\* What a reader has at its end follows.
LEMMA StreamConclusion ==
  ASSUME StreamInv
  PROVE  StreamReads
<1>1. EncInv /\ EncTypes /\ DecTypes /\ MessageReader /\ LineReader
  BY DEF StreamInv, EncInv
<1>2. /\ file \in Seq(StreamUnits) /\ Len(file) \in Nat /\ Begins(file, Tape)
      /\ NumberedIn(Tape, accepted, half) /\ accepted \in Nat
      /\ decpos \in Nat /\ decpos <= Len(file) /\ returned \in Seq(StreamUnits)
      /\ DOMAIN file = 1 .. Len(file) /\ DOMAIN returned = 1 .. Len(returned)
  BY <1>1, EncFacts DEF DecTypes
<1>3. StreamTypeOK
  <2>1. saved \subseteq 1 .. accepted
    <3>1. ASSUME NEW n \in saved PROVE n \in 1 .. accepted
      <4>1. PICK i \in 1 .. Len(file) : file[i].is = "body" /\ file[i].n = n
        BY <1>1 DEF EncInv, SavedIn
      <4>2. i \in 1 .. Len(Tape) /\ Tape[i] = file[i]
        BY <1>2 DEF Begins
      <4>3. n >= 1 /\ n <= accepted
        BY <4>1, <4>2, <1>2 DEF NumberedIn
      <4>4. file[i] \in StreamUnits
        BY <1>2
      <4>5. n \in Nat
        BY <4>1, <4>4, UnitsAre
      <4> QED BY <4>3, <4>5, <1>2
    <3> QED BY <3>1
  <2>2. accepted \in 0 .. MaxWritten /\ decpos \in 0 .. Len(file)
    BY <1>1, <1>2, StreamAssumption DEF EncTypes, StreamAssumption
  <2> QED BY <2>1, <2>2, <1>1 DEF StreamTypeOK, EncTypes, DecTypes
<1>4. ReadsSaved
  <2> SUFFICES ASSUME decpc = "ended", file # << >>, ~Foreign(file[1])
      PROVE  /\ \A k \in DOMAIN returned :
                  IF returned[k] = Junk THEN \E i \in DOMAIN file : Barrier(i)
                  ELSE \E i \in DOMAIN file :
                         /\ file[i] = returned[k] /\ file[i].is = "body"
                         /\ \A j \in 1 .. i : file[j].is = "body" => Got(j, k)
             /\ \A k, l \in DOMAIN returned :
                  k < l /\ Junk \notin {returned[k], returned[l]} => returned[k].n < returned[l].n
             /\ \A n \in saved : \E i \in DOMAIN file :
                  /\ file[i] = Unit("body", n)
                  /\ Got(i, Len(returned)) \/ \E j \in 1 .. i - 1 : Barrier(j)
    BY DEF ReadsSaved
  <2>1. (\A k \in 1 .. Len(returned) : Whole(k)) /\ Rising /\ AllPassed
    <3>1. Len(file) >= 1
      BY <1>2
    <3> QED BY <3>1, <1>1 DEF MessageReader, Reading
  <2>2. ASSUME NEW k \in DOMAIN returned
        PROVE  IF returned[k] = Junk THEN \E i \in DOMAIN file : Barrier(i)
               ELSE \E i \in DOMAIN file :
                      /\ file[i] = returned[k] /\ file[i].is = "body"
                      /\ \A j \in 1 .. i : file[j].is = "body" => Got(j, k)
    <3>1. Whole(k)
      BY <2>1, <2>2, <1>2
    <3>2. \A i \in 1 .. decpos : i \in DOMAIN file
      BY <1>2
    <3> QED BY <3>1, <3>2, <1>2 DEF Whole
  <2>3. ASSUME NEW n \in saved
        PROVE  \E i \in DOMAIN file :
                 /\ file[i] = Unit("body", n)
                 /\ Got(i, Len(returned)) \/ \E j \in 1 .. i - 1 : Barrier(j)
    <3>1. PICK i \in 1 .. Len(file) : file[i].is = "body" /\ file[i].n = n
      BY <1>1 DEF EncInv, SavedIn
    <3>2. file[i] = Unit("body", n)
      <4>1. file[i] \in StreamUnits
        BY <1>2
      <4> QED BY <3>1, <4>1, UnitsAre
    <3>3. Got(i, Len(returned)) \/ Cutoff(i)
      BY <2>1, <3>1 DEF AllPassed
    <3> QED BY <3>2, <3>3, <1>2 DEF Cutoff
  <2> QED BY <2>1, <2>2, <2>3, <1>2 DEF Rising
<1>5. ReadsLines
  <2> SUFFICES ASSUME decpc = "ended", file # << >>, Foreign(file[1]), file[1].is # "dash",
                      \A i \in DOMAIN file : file[i].is = file[1].is
      PROVE  LET unended == IF file[1].is = "text" /\ file[Len(file)].n = Cut THEN 1 ELSE 0
             IN  returned = SubSeq(file, 1, Len(file) - unended)
    BY DEF ReadsLines
  <2>1. Len(file) >= 1 /\ OneFormat
    BY <1>2 DEF OneFormat
  <2>2. /\ \A k \in 1 .. Len(returned) : returned[k] = file[k]
        /\ Len(returned) = Len(file) - Unended
    BY <2>1, <1>1 DEF LineReader, Reading
  <2>3. PICK n \in Nat : n = Len(file) - Unended /\ n <= Len(file)
    <3>1. Unended \in {0, 1}
      BY DEF Unended
    <3>2. Len(file) - Unended \in Nat /\ Len(file) - Unended <= Len(file)
      BY <3>1, <2>1, <1>2
    <3> QED BY <3>2
  <2>4. /\ SubSeq(file, 1, n) \in Seq(StreamUnits) /\ Len(SubSeq(file, 1, n)) = n
        /\ \A k \in 1 .. n : SubSeq(file, 1, n)[k] = file[k]
    BY <2>3, <1>2
  <2>5. returned = SubSeq(file, 1, n)
    BY <2>2, <2>3, <2>4, <1>2, SameUnits
  <2> QED BY <2>3, <2>5 DEF Unended
<1>6. OpensAgain
  <2>1. 1 <= Len(file) => (Headed(file) => file[1] = Mark)
    <3>1. ASSUME 1 <= Len(file), Headed(file) PROVE file[1] = Mark
      <4>1. Tape[1] = file[1] /\ 1 \in 1 .. Len(Tape) /\ Kinds(Tape)
        BY <3>1, <1>1, <1>2 DEF Begins, EncInv, Shape
      <4>2. file[1].is = "-" /\ file[1].n = 0 /\ file[1] \in StreamUnits
        BY <3>1, <4>1, <1>2 DEF Kinds, Headed
      <4> QED BY <4>2, UnitsAre DEF Mark
    <3> QED BY <3>1
  <2> QED BY <2>1, <1>1 DEF OpensAgain, EncInv, Stuck
<1>7. PanicsFor
  BY <1>1 DEF PanicsFor, DecTypes
<1> QED BY <1>3, <1>4, <1>5, <1>6, <1>7 DEF StreamReads

\* What was written out by any number of encoders, with crashes between and in
\* them, is read back, in order, up to where a crash cut a message or another
\* zlib stream begins; lines of other programs are read as what they are
\* (Receive, Flush, OpenFile, Close, Probe, Generate).
THEOREM StreamsDecoded == StreamSpec => []StreamReads
<1>1. StreamInit => StreamInv
  BY StreamStarts
<1>2. StreamInv /\ [StreamNext]_strVars => StreamInv'
  BY StreamStep
<1>3. StreamInv => StreamReads
  BY StreamConclusion
<1> QED BY <1>1, <1>2, <1>3, PTL DEF StreamSpec
=============================================================================
