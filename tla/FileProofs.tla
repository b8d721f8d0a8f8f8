----------------------------- MODULE FileProofs -----------------------------
(***************************************************************************)
(* Proofs about modules FollowFile and Monitor, the file plugin.           *)
(*                                                                         *)
(* A follower, for every number of lines and files and every length of a   *)
(* line: as long as its writer does what readFollow is ready for, the      *)
(* lines sent are those of the files before the one it reads and those up  *)
(* to its offset.                                                          *)
(*                                                                         *)
(* The monitor, for every finite set of files, any number of lines, of     *)
(* files at a path and of runs of the process, and crashes anywhere.  A    *)
(* line has a place in the order of its path: first by file, then by       *)
(* number.  The inductive invariant has everything on the way to the       *)
(* receiver in that order and without gaps, and relates the entries of the *)
(* database, and their IDs, to what was received.                          *)
(***************************************************************************)
EXTENDS FollowFile, Monitor, SequenceTheorems, FiniteSetTheorems, TLAPS

-----------------------------------------------------------------------------
(* The follower's inductive invariant                                      *)

\* Types; there is no event before the watches are set, and a file to come when
\* there is none at the path.
Typed ==
  /\ FollowTypeOK
  /\ fpc \in {"open", "watch"} => events = << >>
  /\ linked \/ Newest < MaxAtPath

\* Where the events say that a file was created.
Creates == {k \in DOMAIN events : events[k] = "create"}

\* As long as a file is replaced only when readFollow has opened and watches
\* it, readFollow is at most one file behind, has the event of it to come, and
\* finds it at the path when it gets there.
Ready ==
  /\ fpc # "failed"
  /\ fpc \in {"open", "watch"} => linked /\ Newest = 1
  /\ followed >= Newest - 1
  /\ followed < Newest => linked
  /\ followed < Newest <=> Creates # {}
  /\ \A j, k \in Creates : j = k

ReadyWhen == unready \cap {"early", "again"} = {} => Ready

\* Lines are whole, and readFollow is between two of them.
WholeLines ==
  /\ \A g \in DOMAIN size : size[g] % Parts = 0
  /\ start % Parts = 0 /\ pos % Parts = 0 /\ offset % Parts = 0
  /\ pos <= size[followed] /\ offset <= pos
  /\ prefix = << >>
  /\ followed = 1 => start <= offset
  /\ fpc = "open" => pos = start
  /\ fpc = "send" => pos = offset + Parts /\ line = LineAt(followed, offset)
  /\ fpc \notin {"send", "ended"} => pos = offset

\* What was appended after the end of the file was reached has an event, before
\* that of the next file.
WillRead ==
  fpc = "wait" /\ pos < size[followed] => events # << >> /\ Head(events) = "write"

\* The lines of the files before, and those of this one up to offset.
Upto(g) == IF g = followed THEN offset ELSE size[g]
Done == UNION {{LineAt(g, o) : o \in Begins(g, Upto(g))} : g \in 1 .. followed}

\* They were sent, each once and in order.
SentDone ==
  /\ Range(out) = Done
  /\ \A i, j \in DOMAIN out : i < j => Before(out[i], out[j])

WhenPlain == unready = {} => WholeLines /\ WillRead /\ SentDone

FollowInv ==
  /\ Typed
  /\ ReadyWhen
  /\ WhenPlain

-----------------------------------------------------------------------------
(* Multiples of the length of a line                                       *)

\* A multiple, and the next one.
LEMMA Multiple ==
  ASSUME NEW P \in Nat \ {0}, NEW n \in Nat, n % P = 0
  PROVE  /\ n = (n \div P) * P /\ n \div P \in Nat
         /\ (n \div P + 1) * P = n + P
<1>1. n = (n \div P) * P /\ n \div P \in Nat
  OBVIOUS
<1>2. (n \div P + 1) * P = n + P
  OBVIOUS
<1> QED
  BY <1>1, <1>2

\* What is counted in lines is a multiple.
LEMMA Product ==
  ASSUME NEW P \in Nat \ {0}, NEW k \in Nat
  PROVE  (k * P) % P = 0 /\ k * P \in Nat
OBVIOUS

\* The next multiple is one.
LEMMA NextMultiple ==
  ASSUME NEW P \in Nat \ {0}, NEW n \in Nat, n % P = 0
  PROVE  (n + P) % P = 0
<1>1. PICK j \in Nat : (j + 1) * P = n + P
  BY Multiple
<1>2. j + 1 \in Nat
  OBVIOUS
<1> QED
  BY <1>1, <1>2, Product

\* There is none in between.
LEMMA MultiplesApart ==
  ASSUME NEW P \in Nat \ {0}, NEW n \in Nat, n % P = 0, NEW m \in Nat, m % P = 0,
         n < m
  PROVE  n + P <= m
<1>1. PICK k \in Nat : n = k * P
  BY Multiple
<1>2. PICK j \in Nat : m = j * P
  BY Multiple
<1>3. \A i \in Nat : i <= k => i * P <= k * P
  OBVIOUS
<1>4. k < j
  BY <1>1, <1>2, <1>3
<1>5. \A i \in Nat : k < i => k * P + P <= i * P
  OBVIOUS
<1> QED
  BY <1>1, <1>2, <1>4, <1>5

\* Where a line ends.
LEMMA LineEnds ==
  ASSUME FollowTypeOK
  PROVE  /\ LineEnd \in Nat /\ LineEnd > pos
         /\ pos % Parts = 0 => LineEnd = pos + Parts
<1>1. pos \in Nat /\ Parts \in Nat \ {0}
  BY FollowAssumption DEF FollowTypeOK, Limit
<1>2. \A P \in Nat \ {0}, n \in Nat : (n \div P + 1) * P \in Nat /\ (n \div P + 1) * P > n
  OBVIOUS
<1> QED
  BY <1>1, <1>2, Multiple DEF LineEnd

-----------------------------------------------------------------------------
(* Types                                                                   *)

\* The files and their sizes.
LEMMA SizesAre ==
  ASSUME FollowTypeOK
  PROVE  /\ Newest \in 1 .. MaxAtPath /\ Newest \in Nat /\ DOMAIN size = 1 .. Newest
         /\ \A g \in 1 .. Newest : size[g] \in 0 .. Limit /\ size[g] \in Nat
         /\ Limit \in Nat /\ followed \in 1 .. Newest /\ followed \in 1 .. MaxAtPath
         /\ pos \in Nat /\ offset \in Nat /\ Parts \in Nat \ {0} /\ MaxAtPath \in Nat
<1>1. Limit \in Nat /\ Parts \in Nat \ {0} /\ MaxAtPath \in Nat
  BY FollowAssumption, Product DEF Limit
<1> HIDE DEF Limit
<1>2. /\ Newest \in 1 .. MaxAtPath /\ Newest \in Nat /\ DOMAIN size = 1 .. Newest
      /\ followed \in 1 .. Newest
  BY <1>1 DEF FollowTypeOK, Newest
<1>3. \A g \in 1 .. Newest : size[g] \in 0 .. Limit
  BY <1>1, <1>2 DEF FollowTypeOK
<1> QED
  BY <1>1, <1>2, <1>3 DEF FollowTypeOK

\* The newest file is not larger than all files together.
LEMMA NewestFits ==
  ASSUME FollowTypeOK
  PROVE  Cardinality(Written) \in Nat /\ size[Newest] <= Cardinality(Written)
<1>1. /\ Newest \in 1 .. Newest /\ Newest \in Nat /\ DOMAIN size = 1 .. Newest /\ Limit \in Nat
      /\ \A g \in 1 .. Newest : size[g] \in 0 .. Limit /\ size[g] \in Nat
  BY SizesAre
<1> HIDE DEF Limit, Newest
<1> DEFINE All == (1 .. Newest) \X (1 .. Limit)
           f == [p \in 1 .. size[Newest] |-> <<Newest, p>>]
<1>2. IsFiniteSet(Written)
  <2>1. Written \in SUBSET All
    BY <1>1 DEF Written
  <2>2. IsFiniteSet(1 .. Newest) /\ IsFiniteSet(1 .. Limit)
    BY <1>1, FS_Interval
  <2>3. IsFiniteSet(All)
    BY <2>2, FS_Product
  <2> QED
    BY <2>1, <2>3, FS_Subset
<1>3. f \in Injection(1 .. size[Newest], Written)
  <2>1. \A p \in 1 .. size[Newest] : <<Newest, p>> \in Written
    BY <1>1 DEF Written
  <2> QED
    BY <2>1 DEF Injection, IsInjective
<1>4. Cardinality(1 .. size[Newest]) = size[Newest]
  BY <1>1, FS_Interval
<1>5. Cardinality(1 .. size[Newest]) <= Cardinality(Written)
  BY <1>2, <1>3, FS_Injection
<1> QED
  BY <1>2, <1>4, <1>5, FS_CardinalityType

\* What ReadString returns, and the line made of it.
LEMMA TextIs ==
  ASSUME FollowTypeOK, NEW n \in Int, n <= Limit
  PROVE  /\ ReadString(n) \in Text /\ prefix \o ReadString(n) \in Text
         /\ n >= pos => Len(ReadString(n)) = n - pos
<1>1. /\ followed \in 1 .. MaxAtPath /\ pos \in Nat /\ Limit \in Nat /\ MaxAtPath \in Nat
  BY SizesAre
<1> DEFINE Part == (1 .. MaxAtPath) \X (1 .. Limit)
<1>2. prefix \in Seq(Part)
  BY DEF FollowTypeOK, Text
<1> HIDE DEF Limit
<1>3. \A i \in 1 .. n - pos : <<followed, pos + i>> \in Part
  BY <1>1
<1> HIDE DEF Part
<1>4. ReadString(n) \in Seq(Part) /\ (n >= pos => Len(ReadString(n)) = n - pos)
  <2>1. CASE n >= pos
    <3>1. n - pos \in Nat
      BY <1>1, <2>1
    <3> DEFINE k == n - pos
    <3> HIDE DEF k
    <3>2. [i \in 1 .. k |-> <<followed, pos + i>>] \in Seq(Part)
      BY <1>3, <3>1 DEF k
    <3>3. Len([i \in 1 .. k |-> <<followed, pos + i>>]) = k
      BY <3>1 DEF k
    <3> QED
      BY <3>2, <3>3 DEF k, ReadString
  <2>2. CASE ~(n >= pos)
    <3>1. 1 .. n - pos = {}
      BY <1>1, <2>2
    <3>2. ReadString(n) = << >>
      BY <3>1 DEF ReadString
    <3> QED
      BY <2>2, <3>2
  <2> QED
    BY <2>1, <2>2
<1>5. prefix \o ReadString(n) \in Seq(Part)
  BY <1>2, <1>4
<1> QED
  BY <1>4, <1>5 DEF Text, Part

\* What the writer changes.
LEMMA WriterTyped == Typed /\ Writer => Typed'
<1> SUFFICES ASSUME Typed, Writer PROVE Typed'
  OBVIOUS
<1>1. /\ FollowTypeOK /\ (fpc \in {"open", "watch"} => events = << >>)
      /\ linked \/ Newest < MaxAtPath
  BY DEF Typed
<1>2. /\ Newest \in 1 .. MaxAtPath /\ Newest \in Nat /\ DOMAIN size = 1 .. Newest
      /\ \A g \in 1 .. Newest : size[g] \in 0 .. Limit /\ size[g] \in Nat
      /\ Limit \in Nat /\ MaxAtPath \in Nat /\ Parts \in Nat \ {0}
      /\ size \in Seq(0 .. Limit) /\ events \in Seq({"write", "create"})
      /\ followed \in 1 .. Newest
  BY <1>1, SizesAre DEF FollowTypeOK
<1> HIDE DEF Limit
<1>3. /\ UNCHANGED <<readVars, fpc, dying, out, start>> /\ linked' \in BOOLEAN
      /\ unready' \subseteq {"parts", "early", "again"}
  BY <1>1 DEF Writer, Unlink, Create, AppendParts, FollowTypeOK
<1>4. /\ size' \in Seq(0 .. Limit) /\ Len(size') \in 1 .. MaxAtPath
      /\ followed \in 1 .. Len(size')
  <2>1. CASE Unlink
    BY <1>2, <2>1 DEF Unlink, Newest
  <2>2. CASE Create
    <3>1. Len(size') = Newest + 1 /\ size' \in Seq(0 .. Limit)
      BY <1>2, <2>2 DEF Create, Newest
    <3>2. Newest < MaxAtPath
      BY <1>1, <2>2 DEF Create
    <3> QED
      BY <1>2, <3>1, <3>2
  <2>3. ASSUME NEW n \in 1 .. Parts, AppendParts(n)
        PROVE  size' \in Seq(0 .. Limit) /\ Len(size') = Newest
    <3>1. size[Newest] + n \in 0 .. Limit
      BY <1>1, <1>2, <2>3, NewestFits DEF AppendParts
    <3>2. size' = [size EXCEPT ![Newest] = size[Newest] + n]
      BY <2>3 DEF AppendParts
    <3> QED
      BY <1>2, <3>1, <3>2 DEF Newest
  <2> QED
    BY <1>2, <2>1, <2>2, <2>3 DEF Writer
<1>5. events' \in Seq({"write", "create"}) /\ (~Watching => events' = events)
  <2>1. CASE Unlink
    BY <1>2, <2>1 DEF Unlink
  <2>2. CASE Create
    <3>1. events' = IF Watching THEN Append(events, "create") ELSE events
      BY <2>2 DEF Create
    <3> QED
      BY <1>2, <3>1
  <2>3. ASSUME NEW n \in 1 .. Parts, AppendParts(n)
        PROVE  events' \in Seq({"write", "create"}) /\ (~Watching => events' = events)
    <3>1. PICK seen \in {<<"write">>, <<"write", "write">>} :
            events' = IF Watching THEN events \o seen ELSE events
      BY <2>3 DEF AppendParts
    <3>2. seen \in Seq({"write", "create"})
      <4>1. CASE seen = <<"write">>
        BY <4>1
      <4>2. CASE seen = <<"write", "write">>
        BY <4>2
      <4> QED
        BY <4>1, <4>2
    <3>3. events \o seen \in Seq({"write", "create"})
      BY <1>2, <3>2
    <3> QED
      BY <1>2, <3>1, <3>3
  <2> QED
    BY <2>1, <2>2, <2>3 DEF Writer
<1>6. linked' \/ Newest' < MaxAtPath
  <2>1. CASE Unlink
    BY <2>1 DEF Unlink, Newest
  <2>2. CASE Create
    BY <2>2 DEF Create
  <2>3. ASSUME NEW n \in 1 .. Parts, AppendParts(n) PROVE linked'
    BY <2>3 DEF AppendParts
  <2> QED
    BY <2>1, <2>2, <2>3 DEF Writer
<1> QED
  BY <1>1, <1>3, <1>4, <1>5, <1>6 DEF Typed, FollowTypeOK, readVars, Watching

\* What readFollow changes.
LEMMA ReaderTyped == Typed /\ (ReadFollow \/ Close \/ Dies \/ IOError) => Typed'
<1> SUFFICES ASSUME Typed, ReadFollow \/ Close \/ Dies \/ IOError PROVE Typed'
  OBVIOUS
<1>1. /\ FollowTypeOK /\ (fpc \in {"open", "watch"} => events = << >>)
      /\ linked \/ Newest < MaxAtPath
  BY DEF Typed
<1>2. /\ Newest \in 1 .. MaxAtPath /\ Newest \in Nat /\ DOMAIN size = 1 .. Newest
      /\ \A g \in 1 .. Newest : size[g] \in 0 .. Limit /\ size[g] \in Nat
      /\ Limit \in Nat /\ MaxAtPath \in Nat /\ Parts \in Nat \ {0}
      /\ followed \in 1 .. Newest /\ pos \in 0 .. Limit
      /\ events \in Seq({"write", "create"}) /\ line \in LineType /\ out \in Seq(LineType)
      /\ line.text \in Text /\ Len(line.text) \in Nat /\ offset \in Nat
  <2>1. line.text \in Text /\ line \in LineType /\ out \in Seq(LineType)
    BY <1>1 DEF FollowTypeOK, LineType
  <2>2. Len(line.text) \in Nat
    BY <2>1 DEF Text
  <2> QED
    BY <1>1, <2>1, <2>2, SizesAre DEF FollowTypeOK
<1> HIDE DEF Limit, Text, LineType
<1>3. UNCHANGED <<size, linked, unready, start>> /\ Newest' = Newest
  BY DEF ReadFollow, Open, Watch, ReadLine, ReadEOF, EventWrite, EventCreate, SendLine,
         Close, Dies, IOError, writerVars, Newest
<1>4. CASE Open
  BY <1>1, <1>2, <1>3, <1>4 DEF Open, Typed, FollowTypeOK, writerVars, Newest
<1>5. CASE Watch
  BY <1>1, <1>2, <1>3, <1>5 DEF Watch, Typed, FollowTypeOK, writerVars, readVars
<1>6. CASE ReadLine
  <2>1. LineEnd \in Nat /\ LineEnd <= Limit
    BY <1>1, <1>2, <1>6, LineEnds DEF ReadLine
  <2>2. LineEnd \in 0 .. Limit /\ [text |-> prefix \o ReadString(LineEnd), offset |-> offset] \in LineType
    BY <1>1, <1>2, <2>1, TextIs DEF LineType
  <2>3. << >> \in Text
    BY DEF Text
  <2> QED
    BY <1>1, <1>2, <1>3, <1>6, <2>2, <2>3 DEF ReadLine, Typed, FollowTypeOK, writerVars
<1>7. CASE ReadEOF
  <2>1. ReadString(size[followed]) \in Text /\ size[followed] \in 0 .. Limit
    BY <1>1, <1>2, TextIs
  <2> QED
    BY <1>1, <1>2, <1>3, <1>7, <2>1 DEF ReadEOF, Typed, FollowTypeOK, writerVars
<1>8. CASE EventWrite
  BY <1>1, <1>2, <1>3, <1>8 DEF EventWrite, Typed, FollowTypeOK, readVars
<1>9. CASE EventCreate
  <2>1. Tail(events) \in Seq({"write", "create"})
    BY <1>2, <1>9 DEF EventCreate
  <2>2. /\ followed' \in 1 .. Newest /\ pos' \in 0 .. Limit /\ offset' \in Nat
        /\ fpc' \in {"read", "failed"} /\ events' = Tail(events)
        /\ prefix' = prefix /\ line' = line /\ dying' = dying /\ out' = out
    <3>1. CASE linked
      <4>1. followed' = Newest /\ pos' = 0 /\ offset' = 0 /\ fpc' = "read"
        BY <1>9, <3>1 DEF EventCreate, ReopenPath, ReopenedOffset
      <4>2. Newest \in 1 .. Newest /\ 0 \in 0 .. Limit
        BY <1>2
      <4> QED
        BY <1>9, <4>1, <4>2 DEF EventCreate
    <3>2. CASE ~linked
      BY <1>2, <1>9, <3>2 DEF EventCreate, ReopenPath
    <3> QED
      BY <3>1, <3>2
  <2> QED
    BY <1>1, <1>3, <2>1, <2>2 DEF Typed, FollowTypeOK, Newest
<1>10. CASE SendLine
  <2>1. NextOffset \in Nat
    BY <1>2 DEF NextOffset
  <2>2. Append(out, line) \in Seq(LineType)
    BY <1>2
  <2> QED
    BY <1>1, <1>2, <1>3, <1>10, <2>1, <2>2 DEF SendLine, Typed, FollowTypeOK, writerVars
<1>11. CASE Close \/ Dies \/ IOError
  BY <1>1, <1>2, <1>3, <1>11 DEF Close, Dies, IOError, Typed, FollowTypeOK, writerVars, readVars
<1> QED
  BY <1>4, <1>5, <1>6, <1>7, <1>8, <1>9, <1>10, <1>11 DEF ReadFollow

-----------------------------------------------------------------------------
(* The events                                                              *)

\* Writes at the end of the events create nothing, and one create does.
LEMMA MoreEvents ==
  ASSUME NEW ev \in Seq({"write", "create"})
  PROVE  /\ \A seen \in {<<"write">>, <<"write", "write">>} :
              /\ ev \o seen # << >>
              /\ Head(ev \o seen) = IF ev = << >> THEN "write" ELSE Head(ev)
              /\ {k \in DOMAIN (ev \o seen) : (ev \o seen)[k] = "create"}
                   = {k \in DOMAIN ev : ev[k] = "create"}
         /\ {k \in DOMAIN Append(ev, "create") : Append(ev, "create")[k] = "create"}
              = {k \in DOMAIN ev : ev[k] = "create"} \cup {Len(ev) + 1}
         /\ ev # << >> => Append(ev, "create") # << >> /\ Head(Append(ev, "create")) = Head(ev)
<1>1. DOMAIN ev = 1 .. Len(ev) /\ Len(ev) \in Nat
  OBVIOUS
<1>2. ASSUME NEW seen \in {<<"write">>, <<"write", "write">>}
      PROVE  /\ ev \o seen # << >>
             /\ Head(ev \o seen) = IF ev = << >> THEN "write" ELSE Head(ev)
             /\ {k \in DOMAIN (ev \o seen) : (ev \o seen)[k] = "create"}
                  = {k \in DOMAIN ev : ev[k] = "create"}
  <2>1. /\ seen \in Seq({"write", "create"})
        /\ Len(seen) \in 1 .. 2 /\ Len(seen) \in Int /\ Len(seen) >= 1
        /\ \A k \in 1 .. Len(seen) : seen[k] = "write"
    <3>1. CASE seen = <<"write">>
      BY <3>1
    <3>2. CASE seen = <<"write", "write">>
      BY <3>2
    <3> QED
      BY <3>1, <3>2
  <2> DEFINE all == ev \o seen
  <2>2. /\ all \in Seq({"write", "create"}) /\ Len(all) = Len(ev) + Len(seen)
        /\ DOMAIN all = 1 .. Len(ev) + Len(seen)
        /\ \A k \in 1 .. Len(ev) : all[k] = ev[k]
        /\ \A k \in Len(ev) + 1 .. Len(ev) + Len(seen) : all[k] = seen[k - Len(ev)]
    BY <2>1
  <2> HIDE DEF all
  <2>3. \A k \in Len(ev) + 1 .. Len(ev) + Len(seen) : all[k] = "write"
    <3>1. \A k \in Len(ev) + 1 .. Len(ev) + Len(seen) : k - Len(ev) \in 1 .. Len(seen)
      BY <1>1, <2>1
    <3> QED
      BY <2>1, <2>2, <3>1
  <2>4. {k \in DOMAIN all : all[k] = "create"} = {k \in DOMAIN ev : ev[k] = "create"}
    <3>1. \A k : k \in 1 .. Len(ev) + Len(seen) <=>
                   k \in 1 .. Len(ev) \/ k \in Len(ev) + 1 .. Len(ev) + Len(seen)
      BY <1>1, <2>1
    <3> QED
      BY <1>1, <2>2, <2>3, <3>1
  <2>5. all # << >> /\ Head(all) = all[1]
    BY <1>1, <2>1, <2>2
  <2>6. all[1] = IF ev = << >> THEN "write" ELSE Head(ev)
    <3>1. CASE ev = << >>
      <4>1. Len(ev) = 0 /\ 1 \in Len(ev) + 1 .. Len(ev) + Len(seen)
        <5>1. Len(ev) = 0
          BY <3>1
        <5>2. Len(seen) >= 1 /\ Len(seen) \in Int
          BY ONLY <2>1
        <5> QED
          BY ONLY <5>1, <5>2
      <4> QED
        BY <2>3, <3>1, <4>1
    <3>2. CASE ev # << >>
      <4>1. 1 \in 1 .. Len(ev) /\ Head(ev) = ev[1]
        BY <1>1, <3>2
      <4> QED
        BY <2>2, <3>2, <4>1
    <3> QED
      BY <3>1, <3>2
  <2> QED
    BY <2>4, <2>5, <2>6 DEF all
<1>3. {k \in DOMAIN Append(ev, "create") : Append(ev, "create")[k] = "create"}
        = {k \in DOMAIN ev : ev[k] = "create"} \cup {Len(ev) + 1}
  <2> DEFINE all == Append(ev, "create")
  <2>1. /\ DOMAIN all = 1 .. Len(ev) + 1 /\ all[Len(ev) + 1] = "create"
        /\ \A k \in 1 .. Len(ev) : all[k] = ev[k]
    OBVIOUS
  <2> HIDE DEF all
  <2>2. \A k : k \in 1 .. Len(ev) + 1 <=> k \in 1 .. Len(ev) \/ k = Len(ev) + 1
    BY <1>1
  <2>3. {k \in DOMAIN all : all[k] = "create"}
          = {k \in DOMAIN ev : ev[k] = "create"} \cup {Len(ev) + 1}
    BY <1>1, <2>1, <2>2
  <2> QED
    BY <2>3 DEF all
<1>4. ev # << >> => Append(ev, "create") # << >> /\ Head(Append(ev, "create")) = Head(ev)
  OBVIOUS
<1> QED
  BY <1>2, <1>3, <1>4

\* The first event goes.
LEMMA NextEvent ==
  ASSUME NEW ev \in Seq({"write", "create"}), ev # << >>
  PROVE  LET old == {k \in DOMAIN ev : ev[k] = "create"}
             new == {k \in DOMAIN Tail(ev) : Tail(ev)[k] = "create"}
         IN  /\ 1 \in old <=> Head(ev) = "create"
             /\ \A k \in new : k \in Nat /\ k + 1 \in old
             /\ \A k \in old : k = 1 \/ k - 1 \in new
<1> DEFINE t == Tail(ev)
<1>1. /\ DOMAIN ev = 1 .. Len(ev) /\ Len(ev) \in Nat \ {0} /\ ev[1] = Head(ev)
      /\ t \in Seq({"write", "create"}) /\ DOMAIN t = 1 .. Len(ev) - 1
      /\ \A k \in 1 .. Len(ev) - 1 : t[k] = ev[k + 1]
  OBVIOUS
<1> HIDE DEF t
<1>2. \A k \in 1 .. Len(ev) - 1 : k \in Nat /\ k + 1 \in 1 .. Len(ev)
  BY <1>1
<1>3. \A k \in 1 .. Len(ev) : k = 1 \/ (k - 1 \in 1 .. Len(ev) - 1 /\ (k - 1) + 1 = k)
  BY <1>1
<1>4. 1 \in 1 .. Len(ev)
  BY <1>1
<1> QED
  BY <1>1, <1>2, <1>3, <1>4 DEF t

\* As long as files are replaced when readFollow is ready for it, it stays so.
LEMMA ReadyKept == Typed /\ ReadyWhen /\ FollowNext => ReadyWhen'
<1> SUFFICES ASSUME Typed, ReadyWhen, FollowNext, unready' \cap {"early", "again"} = {}
             PROVE  Ready'
  BY DEF ReadyWhen
<1>1. /\ FollowTypeOK /\ (fpc \in {"open", "watch"} => events = << >>)
      /\ Newest \in Nat /\ followed \in 1 .. Newest /\ events \in Seq({"write", "create"})
      /\ DOMAIN size = 1 .. Newest /\ Newest = Len(size) /\ size \in Seq(0 .. Limit)
  BY SizesAre DEF Typed, FollowTypeOK, Newest
<1>2. Ready
  <2>1. unready \subseteq unready'
    BY DEF FollowNext, Writer, ReadFollow, Unlink, Create, AppendParts, Open, Watch,
           ReadLine, ReadEOF, EventWrite, EventCreate, SendLine, Close, Dies, IOError, writerVars
  <2> QED
    BY <2>1 DEF ReadyWhen
<1>3. CASE Unlink
  <2>1. /\ Watching /\ ~(followed < Newest) /\ linked' = FALSE /\ fpc' = fpc
        /\ size' = size /\ events' = events /\ followed' = followed
    BY <1>3 DEF Unlink, readVars
  <2> QED
    BY <1>1, <1>2, <2>1 DEF Ready, Creates, Newest, Watching
<1>4. CASE Create
  <2>1. /\ linked' = TRUE /\ fpc' = fpc /\ followed' = followed /\ size' = Append(size, 0)
        /\ events' = IF Watching THEN Append(events, "create") ELSE events
        /\ ~linked
    BY <1>4 DEF Create, readVars
  <2>2. Watching /\ followed = Newest /\ Creates = {} /\ Newest' = Newest + 1
    <3>1. Newest' = Newest + 1
      BY <1>1, <2>1 DEF Newest
    <3>2. ~(followed < Newest) /\ Watching /\ Creates = {}
      BY <1>2, <2>1 DEF Ready, Watching
    <3>3. followed = Newest
      <4>1. followed \in 1 .. Newest /\ Newest \in Nat /\ ~(followed < Newest)
        BY <1>1, <3>2
      <4> QED
        BY ONLY <4>1
    <3> QED
      BY <3>1, <3>2, <3>3
  <2>3. Creates' = {Len(events) + 1}
    BY <1>1, <2>1, <2>2, MoreEvents DEF Creates
  <2> QED
    BY <1>1, <1>2, <2>1, <2>2, <2>3 DEF Ready, Watching
<1>5. ASSUME NEW n \in 1 .. Parts, AppendParts(n) PROVE Ready'
  <2>1. /\ linked' = linked /\ fpc' = fpc /\ followed' = followed /\ Newest' = Newest
    BY <1>1, <1>5 DEF AppendParts, readVars, Newest
  <2>2. Creates' = Creates
    <3>1. PICK seen \in {<<"write">>, <<"write", "write">>} :
            events' = IF Watching THEN events \o seen ELSE events
      BY <1>5 DEF AppendParts
    <3>2. {k \in DOMAIN (events \o seen) : (events \o seen)[k] = "create"} = Creates
      BY <1>1, MoreEvents DEF Creates
    <3> QED
      BY <3>1, <3>2 DEF Creates
  <2> QED
    BY <1>2, <2>1, <2>2 DEF Ready
<1>6. CASE Open
  <2>1. linked /\ Newest = 1 /\ followed = Newest
    <3>1. linked /\ Newest = 1
      BY <1>2, <1>6 DEF Open, Ready
    <3>2. followed \in 1 .. 1
      BY <1>1, <3>1
    <3> QED
      BY <3>1, <3>2
  <2>2. /\ linked' = linked /\ fpc' = "watch" /\ followed' = followed /\ Newest' = Newest
        /\ Creates' = Creates
    BY <1>6, <2>1 DEF Open, writerVars, Newest, Creates
  <2> QED
    BY <1>2, <2>1, <2>2 DEF Ready
<1>7. CASE Watch \/ ReadLine \/ ReadEOF \/ SendLine \/ Close \/ Dies \/ IOError
  <2>1. /\ linked' = linked /\ followed' = followed /\ Newest' = Newest /\ Creates' = Creates
    BY <1>7 DEF Watch, ReadLine, ReadEOF, SendLine, Close, Dies, IOError, writerVars, readVars,
                Newest, Creates
  <2>2. fpc' = fpc \/ fpc' \in {"read", "send", "wait", "ended", "error"}
    BY <1>7 DEF Watch, ReadLine, ReadEOF, SendLine, Close, Dies, IOError
  <2> QED
    BY <1>2, <2>1, <2>2 DEF Ready
<1>8. CASE EventWrite
  <2>1. /\ linked' = linked /\ followed' = followed /\ Newest' = Newest /\ fpc' = "read"
        /\ events # << >> /\ events' = Tail(events) /\ Head(events) = "write"
    BY <1>8 DEF EventWrite, readVars, Newest
  <2>2. 1 \notin Creates
    BY <1>1, <2>1, NextEvent DEF Creates
  <2>3. /\ \A k \in Creates' : k \in Nat /\ k + 1 \in Creates
        /\ \A k \in Creates : k - 1 \in Creates'
    BY <1>1, <2>1, <2>2, NextEvent DEF Creates
  <2>4. \A j, k \in Creates' : j = k
    <3> SUFFICES ASSUME NEW j \in Creates', NEW k \in Creates' PROVE j = k
      OBVIOUS
    <3>1. j + 1 = k + 1 /\ j \in Nat /\ k \in Nat
      BY <1>2, <2>3 DEF Ready
    <3> QED
      BY <3>1
  <2> QED
    BY <1>2, <2>1, <2>3, <2>4 DEF Ready
<1>9. CASE EventCreate
  <2>1. /\ linked' = linked /\ Newest' = Newest
        /\ events # << >> /\ events' = Tail(events) /\ Head(events) = "create"
    BY <1>9 DEF EventCreate, Newest
  <2>2. 1 \in Creates
    BY <1>1, <2>1, NextEvent DEF Creates
  <2>3. linked /\ followed' = Newest /\ fpc' = "read"
    BY <1>2, <1>9, <2>2 DEF Ready, EventCreate, ReopenPath
  <2>4. Creates' = {}
    <3> SUFFICES ASSUME NEW k \in Creates' PROVE FALSE
      OBVIOUS
    <3>1. k \in DOMAIN Tail(events) /\ k + 1 \in Creates
      BY <1>1, <2>1, NextEvent DEF Creates
    <3>2. k \in 1 .. Len(events)
      BY <1>1, <2>1, <3>1
    <3>3. k + 1 # 1
      BY <3>2
    <3> QED
      BY <1>2, <2>2, <3>1, <3>3 DEF Ready
  <2> QED
    BY <1>1, <2>1, <2>3, <2>4 DEF Ready
<1> QED
  BY <1>3, <1>4, <1>5, <1>6, <1>7, <1>8, <1>9 DEF FollowNext, Writer, ReadFollow

-----------------------------------------------------------------------------
(* The lines that were sent                                                *)

\* Where a line of file g begins.
LEMMA BeginsIs ==
  ASSUME NEW g, NEW n \in Nat, NEW o
  PROVE  o \in Begins(g, n) <=> /\ o \in Nat /\ o + Parts <= n /\ o % Parts = 0
                                /\ g = 1 => start <= o
BY FollowAssumption DEF Begins

\* A line that was sent.
LEMMA DoneIs ==
  ASSUME NEW x
  PROVE  x \in Done <=> \E g \in 1 .. followed : \E o \in Begins(g, Upto(g)) : x = LineAt(g, o)
BY DEF Done

\* The same after a step.
LEMMA DoneNext ==
  ASSUME NEW x
  PROVE  x \in Done' <=> \E g \in 1 .. followed' : \E o \in Begins(g, Upto(g))' : x = LineAt(g, o)
BY DEF Done

\* Nothing more is done while readFollow stays where it is.
LEMMA SentStays ==
  ASSUME Typed, SentDone, UNCHANGED <<followed, offset, out, start>>,
         \A g \in 1 .. followed - 1 : size'[g] = size[g]
  PROVE  SentDone'
<1>1. followed \in Nat
  BY SizesAre DEF Typed
<1>2. \A g \in 1 .. followed : Upto(g)' = Upto(g)
  <2>1. \A g \in 1 .. followed : g = followed \/ g \in 1 .. followed - 1
    BY <1>1
  <2> QED
    BY <2>1 DEF Upto
<1>3. \A g \in 1 .. followed : Begins(g, Upto(g))' = Begins(g, Upto(g))
  BY <1>2 DEF Begins
<1>4. Done' = Done
  BY <1>3 DEF Done
<1> QED
  BY <1>4 DEF SentDone, Before

\* The writer and the events, before the next file is opened.
LEMMA PlainWaits ==
  ASSUME Typed, ReadyWhen, WhenPlain, unready' = {},
         Unlink \/ Watch \/ EventWrite \/ Close \/ Dies \/ IOError
  PROVE  WholeLines' /\ WillRead' /\ SentDone'
<1>1. unready = {}
  BY DEF Unlink, Watch, EventWrite, Close, Dies, IOError, writerVars
<1>2. WholeLines /\ WillRead /\ SentDone
  BY <1>1 DEF WhenPlain
<1>3. /\ size' = size /\ followed' = followed /\ pos' = pos /\ prefix' = prefix
      /\ line' = line /\ offset' = offset /\ start' = start /\ out' = out
  BY DEF Unlink, Watch, EventWrite, Close, Dies, IOError, writerVars, readVars
<1>4. \/ fpc' = fpc /\ events' = events
      \/ fpc = "watch" /\ fpc' = "read"
      \/ fpc = "wait" /\ fpc' = "read"
      \/ fpc' = "ended"
      \/ fpc' = "error" /\ fpc # "send" /\ fpc # "ended"
  BY DEF Unlink, Watch, EventWrite, Close, Dies, IOError, writerVars
<1>5. WholeLines'
  <2>1. DOMAIN size' = DOMAIN size /\ size'[followed'] = size[followed]
    BY <1>3
  <2> QED
    BY <1>2, <1>3, <1>4, <2>1 DEF WholeLines
<1>6. WillRead'
  BY <1>2, <1>3, <1>4 DEF WillRead
<1>7. SentDone'
  BY <1>2, <1>3, SentStays
<1> QED
  BY <1>5, <1>6, <1>7

\* A file is created: the one that is read is as large as before.
LEMMA PlainCreate ==
  ASSUME Typed, ReadyWhen, WhenPlain, unready' = {}, Create
  PROVE  WholeLines' /\ WillRead' /\ SentDone'
<1>1. unready = {}
  BY DEF Create
<1>2. WholeLines /\ WillRead /\ SentDone
  BY <1>1 DEF WhenPlain
<1>3. /\ size' = Append(size, 0) /\ followed' = followed /\ pos' = pos /\ prefix' = prefix
      /\ line' = line /\ offset' = offset /\ start' = start /\ out' = out /\ fpc' = fpc
      /\ events' = IF Watching THEN Append(events, "create") ELSE events
  BY DEF Create, readVars
<1>4. /\ Newest \in Nat /\ DOMAIN size = 1 .. Newest /\ followed \in 1 .. Newest
      /\ Parts \in Nat \ {0} /\ events \in Seq({"write", "create"})
      /\ size \in Seq(0 .. Limit)
  BY SizesAre DEF Typed, FollowTypeOK
<1>5. /\ DOMAIN size' = 1 .. Newest + 1 /\ size'[Newest + 1] = 0
      /\ \A g \in 1 .. Newest : size'[g] = size[g]
  <2> HIDE DEF Limit
  <2> QED
    BY <1>3, <1>4 DEF Newest
<1>6. WholeLines'
  <2>1. 0 % Parts = 0
    <3>1. 0 * Parts = 0 /\ (0 * Parts) % Parts = 0
      BY <1>4, Product
    <3> QED
      BY <3>1
  <2>2. \A g \in 1 .. Newest + 1 : g \in 1 .. Newest \/ g = Newest + 1
    BY <1>4
  <2>3. \A g \in DOMAIN size' : size'[g] % Parts = 0
    BY <1>2, <1>4, <1>5, <2>1, <2>2 DEF WholeLines
  <2>4. size'[followed'] = size[followed]
    BY <1>3, <1>4, <1>5
  <2> QED
    BY <1>2, <1>3, <2>3, <2>4 DEF WholeLines
<1>7. WillRead'
  <2>1. size'[followed'] = size[followed]
    BY <1>3, <1>4, <1>5
  <2> SUFFICES ASSUME fpc = "wait", pos < size[followed]
               PROVE  events' # << >> /\ Head(events') = "write"
    BY <1>3, <2>1 DEF WillRead
  <2>2. events # << >> /\ Head(events) = "write" /\ Watching
    BY <1>2 DEF WillRead, Watching
  <2> QED
    BY <1>3, <1>4, <2>2, MoreEvents
<1>8. SentDone'
  <2>1. \A g \in 1 .. followed - 1 : size'[g] = size[g]
    BY <1>4, <1>5
  <2> QED
    BY <1>2, <1>3, <2>1, SentStays
<1> QED
  BY <1>6, <1>7, <1>8

\* A line is appended.
LEMMA PlainAppend ==
  ASSUME Typed, ReadyWhen, WhenPlain, unready' = {}, NEW n \in 1 .. Parts, AppendParts(n)
  PROVE  WholeLines' /\ WillRead' /\ SentDone'
<1>1. unready = {} /\ n = Parts /\ size[Newest] % Parts = 0
  BY DEF AppendParts
<1>2. WholeLines /\ WillRead /\ SentDone /\ Ready
  BY <1>1 DEF WhenPlain, ReadyWhen
<1>3. PICK seen \in {<<"write">>, <<"write", "write">>} :
        events' = IF Watching THEN events \o seen ELSE events
  BY DEF AppendParts
<1>4. /\ size' = [size EXCEPT ![Newest] = size[Newest] + Parts]
      /\ followed' = followed /\ pos' = pos /\ prefix' = prefix
      /\ line' = line /\ offset' = offset /\ start' = start /\ out' = out /\ fpc' = fpc
  BY <1>1 DEF AppendParts, readVars
<1>5. /\ Newest \in 1 .. Newest /\ DOMAIN size = 1 .. Newest /\ followed \in 1 .. Newest
      /\ \A g \in 1 .. Newest : size[g] \in Nat
      /\ Parts \in Nat \ {0} /\ events \in Seq({"write", "create"}) /\ Newest \in Nat
      /\ pos \in Nat
  BY SizesAre DEF Typed, FollowTypeOK
<1>6. /\ DOMAIN size' = DOMAIN size
      /\ \A g \in 1 .. Newest : size'[g] = IF g = Newest THEN size[Newest] + Parts ELSE size[g]
  BY <1>4, <1>5
<1>7. WholeLines'
  <2>1. (size[Newest] + Parts) % Parts = 0
    BY <1>1, <1>5, NextMultiple
  <2>2. \A g \in DOMAIN size' : size'[g] % Parts = 0
    BY <1>2, <1>5, <1>6, <2>1 DEF WholeLines
  <2>3. size'[followed] >= size[followed] /\ size'[followed] \in Nat
    BY <1>5, <1>6
  <2>4. pos <= size'[followed]
    BY <1>2, <1>5, <2>3 DEF WholeLines
  <2> QED
    BY <1>2, <1>4, <2>2, <2>4 DEF WholeLines
<1>8. WillRead'
  <2> SUFFICES ASSUME fpc = "wait", pos < size'[followed]
               PROVE  events' # << >> /\ Head(events') = "write"
    BY <1>4 DEF WillRead
  <2>1. events' = events \o seen
    BY <1>3 DEF Watching
  <2>2. events # << >> => Head(events) = "write"
    <3> SUFFICES ASSUME events # << >>, Head(events) # "write" PROVE FALSE
      OBVIOUS
    <3>1. Head(events) = "create" /\ 1 \in DOMAIN events /\ events[1] = Head(events)
      BY <1>5
    <3>2. 1 \in Creates
      BY <3>1 DEF Creates
    <3>3. followed < Newest
      BY <1>2, <3>2 DEF Ready
    <3>4. size'[followed] = size[followed]
      BY <1>5, <1>6, <3>3
    <3> QED
      BY <1>2, <3>4 DEF WillRead
  <2> QED
    BY <1>5, <2>1, <2>2, MoreEvents
<1>9. SentDone'
  <2>1. \A g \in 1 .. followed - 1 : size'[g] = size[g]
    BY <1>5, <1>6
  <2> QED
    BY <1>2, <1>4, <2>1, SentStays
<1> QED
  BY <1>7, <1>8, <1>9

\* The file is opened.
LEMMA PlainOpen ==
  ASSUME Typed, ReadyWhen, WhenPlain, unready' = {}, Open
  PROVE  WholeLines' /\ WillRead' /\ SentDone'
<1>1. unready = {}
  BY DEF Open, writerVars
<1>2. WholeLines /\ WillRead /\ SentDone /\ Ready
  BY <1>1 DEF WhenPlain, ReadyWhen
<1>3. Newest = 1 /\ linked /\ followed = 1 /\ pos = start
  <2>1. Newest = 1 /\ linked /\ pos = start
    BY <1>2 DEF Open, Ready, WholeLines
  <2>2. followed \in 1 .. Newest
    BY SizesAre DEF Typed
  <2>3. followed \in 1 .. 1
    BY <2>1, <2>2
  <2> QED
    BY <2>1, <2>3
<1>4. /\ size' = size /\ followed' = followed /\ pos' = pos /\ prefix' = prefix
      /\ line' = line /\ offset' = offset /\ start' = start /\ out' = out
      /\ fpc' = "watch" /\ fpc = "open"
  BY <1>3 DEF Open, writerVars
<1>5. WholeLines' /\ WillRead'
  BY <1>2, <1>4 DEF WholeLines, WillRead
<1>6. SentDone'
  BY <1>2, <1>4, SentStays
<1> QED
  BY <1>5, <1>6

\* A line is read: it is the one that begins at offset.
LEMMA PlainReadLine ==
  ASSUME Typed, ReadyWhen, WhenPlain, unready' = {}, ReadLine
  PROVE  WholeLines' /\ WillRead' /\ SentDone'
<1>1. unready = {}
  BY DEF ReadLine, writerVars
<1>2. WholeLines /\ SentDone
  BY <1>1 DEF WhenPlain
<1>3. /\ size' = size /\ followed' = followed /\ offset' = offset /\ start' = start
      /\ out' = out /\ prefix' = << >> /\ pos' = LineEnd /\ fpc' = "send" /\ fpc = "read"
      /\ line' = [text |-> prefix \o ReadString(LineEnd), offset |-> offset]
      /\ size[followed] >= LineEnd
  BY DEF ReadLine, writerVars
<1>4. /\ pos \in Nat /\ offset \in Nat /\ Parts \in Nat \ {0} /\ followed \in Nat
  BY SizesAre DEF Typed
<1>5. /\ pos = offset /\ pos % Parts = 0 /\ prefix = << >>
  BY <1>2, <1>3 DEF WholeLines
<1>6. LineEnd = offset + Parts
  BY <1>5, LineEnds DEF Typed
<1>7. line' = LineAt(followed, offset)
  <2>1. (offset + Parts) - pos = Parts
    BY <1>4, <1>5
  <2>2. ReadString(offset + Parts) = [i \in 1 .. Parts |-> <<followed, offset + i>>]
    BY <1>5, <2>1 DEF ReadString
  <2>3. << >> \o [i \in 1 .. Parts |-> <<followed, offset + i>>]
          = [i \in 1 .. Parts |-> <<followed, offset + i>>]
    <3> DEFINE s == [i \in 1 .. Parts |-> <<followed, offset + i>>]
    <3>1. s \in Seq(Nat \X Nat)
      BY <1>4
    <3> HIDE DEF s
    <3>2. << >> \o s = s
      BY <3>1
    <3> QED
      BY <3>2 DEF s
  <2> QED
    BY <1>3, <1>5, <1>6, <2>2, <2>3 DEF LineAt
<1>8. WholeLines'
  <2>1. pos' % Parts = 0
    BY <1>3, <1>4, <1>5, <1>6, NextMultiple
  <2>2. pos' <= size'[followed'] /\ pos' = offset' + Parts
    BY <1>3, <1>4, <1>6, SizesAre DEF Typed
  <2>3. offset' <= pos'
    BY <1>3, <1>4, <1>6
  <2> QED
    BY <1>2, <1>3, <1>7, <2>1, <2>2, <2>3 DEF WholeLines
<1>9. WillRead'
  BY <1>3 DEF WillRead
<1>10. SentDone'
  BY <1>2, <1>3, SentStays
<1> QED
  BY <1>8, <1>9, <1>10

\* The end of the file is reached, between two lines.
LEMMA PlainReadEOF ==
  ASSUME Typed, ReadyWhen, WhenPlain, unready' = {}, ReadEOF
  PROVE  WholeLines' /\ WillRead' /\ SentDone'
<1>1. unready = {}
  BY DEF ReadEOF, writerVars
<1>2. WholeLines /\ SentDone
  BY <1>1 DEF WhenPlain
<1>3. /\ size' = size /\ followed' = followed /\ offset' = offset /\ start' = start
      /\ out' = out /\ line' = line /\ fpc' = "wait" /\ fpc = "read"
      /\ prefix' = ReadString(size[followed])
      /\ pos' = IF size[followed] < pos THEN pos ELSE size[followed]
      /\ size[followed] < LineEnd
  BY DEF ReadEOF, writerVars
<1>4. /\ pos \in Nat /\ Parts \in Nat \ {0} /\ followed \in DOMAIN size
      /\ size[followed] \in Nat
  BY SizesAre DEF Typed
<1>5. /\ pos = offset /\ pos % Parts = 0 /\ pos <= size[followed] /\ size[followed] % Parts = 0
  BY <1>2, <1>3, <1>4 DEF WholeLines
<1>6. pos = size[followed]
  <2>1. LineEnd = pos + Parts
    BY <1>5, LineEnds DEF Typed
  <2>2. pos < size[followed] => pos + Parts <= size[followed]
    BY <1>4, <1>5, MultiplesApart
  <2> QED
    BY <1>3, <1>4, <1>5, <2>1, <2>2
<1>7. prefix' = << >> /\ pos' = pos
  <2>1. 1 .. size[followed] - pos = {}
    BY <1>4, <1>6
  <2> QED
    BY <1>3, <1>6, <2>1 DEF ReadString
<1>8. WholeLines'
  BY <1>2, <1>3, <1>5, <1>7 DEF WholeLines
<1>9. WillRead'
  <2>1. ~(pos < size[followed])
    BY <1>4, <1>6
  <2> QED
    BY <1>3, <1>7, <2>1 DEF WillRead
<1>10. SentDone'
  BY <1>2, <1>3, SentStays
<1> QED
  BY <1>8, <1>9, <1>10

\* The next file is opened: all lines of the one before were sent.
LEMMA PlainReopen ==
  ASSUME Typed, ReadyWhen, WhenPlain, unready' = {}, EventCreate
  PROVE  WholeLines' /\ WillRead' /\ SentDone'
<1>1. unready = {}
  BY DEF EventCreate
<1>2. WholeLines /\ WillRead /\ SentDone /\ Ready
  BY <1>1 DEF WhenPlain, ReadyWhen
<1>3. /\ size' = size /\ prefix' = prefix /\ line' = line /\ start' = start /\ out' = out
      /\ fpc = "wait" /\ events # << >> /\ Head(events) = "create" /\ ReopenPath
  BY DEF EventCreate
<1>4. /\ Newest \in Nat /\ followed \in 1 .. Newest /\ DOMAIN size = 1 .. Newest
      /\ \A g \in 1 .. Newest : size[g] \in Nat
      /\ pos \in Nat /\ Parts \in Nat \ {0} /\ events \in Seq({"write", "create"})
  BY SizesAre DEF Typed, FollowTypeOK
<1>5. followed < Newest /\ linked /\ Newest = followed + 1
  <2>1. 1 \in Creates
    BY <1>3, <1>4 DEF Creates
  <2>2. followed < Newest /\ linked /\ followed >= Newest - 1
    BY <1>2, <2>1 DEF Ready
  <2>3. Newest = followed + 1
    <3>1. followed \in 1 .. Newest /\ Newest \in Nat /\ followed < Newest
          /\ followed >= Newest - 1
      BY <1>4, <2>2
    <3> QED
      BY ONLY <3>1
  <2> QED
    BY <2>2, <2>3
<1>6. /\ followed' = followed + 1 /\ pos' = 0 /\ offset' = 0 /\ fpc' = "read"
  BY <1>3, <1>5 DEF ReopenPath, ReopenedOffset
<1>7. offset = size[followed]
  <2>1. ~(pos < size[followed]) /\ pos = offset /\ pos <= size[followed]
    BY <1>2, <1>3 DEF WillRead, WholeLines
  <2> QED
    BY <1>4, <2>1
<1>8. WholeLines'
  <2>1. 0 % Parts = 0
    <3>1. 0 * Parts = 0 /\ (0 * Parts) % Parts = 0
      BY <1>4, Product
    <3> QED
      BY <3>1
  <2>2. followed + 1 \in 1 .. Newest /\ followed + 1 # 1 /\ size[followed + 1] \in Nat
    <3>1. followed + 1 \in 1 .. Newest /\ followed + 1 # 1
      BY <1>4, <1>5
    <3> QED
      BY <1>4, <3>1
  <2>3. pos' <= size'[followed'] /\ offset' <= pos'
    BY <1>3, <1>6, <2>2
  <2> QED
    BY <1>2, <1>3, <1>6, <2>1, <2>2, <2>3 DEF WholeLines
<1>9. WillRead'
  BY <1>6 DEF WillRead
<1>10. SentDone'
  <2>1. \A g \in 1 .. followed : Begins(g, Upto(g))' = Begins(g, Upto(g))
    <3>1. \A g \in 1 .. followed : g # followed + 1
      BY <1>4
    <3>2. \A g \in 1 .. followed : Upto(g)' = size[g] /\ Upto(g) = size[g]
      BY <1>3, <1>6, <1>7, <3>1 DEF Upto
    <3> QED
      BY <1>3, <3>2 DEF Begins
  <2>2. \A g : g = followed + 1 => Begins(g, Upto(g))' = {}
    <3>1. \A g : g = followed + 1 => Upto(g)' = 0
      BY <1>6 DEF Upto
    <3>2. 0 .. 0 - Parts = {}
      BY <1>4
    <3> QED
      BY <3>1, <3>2 DEF Begins
  <2>3. \A g : g \in 1 .. followed' <=> g \in 1 .. followed \/ g = followed + 1
    BY <1>4, <1>6
  <2>4. Done' = Done
    <3>1. \A x : x \in Done' => x \in Done
      BY <2>1, <2>2, <2>3, DoneIs, DoneNext
    <3>2. \A x : x \in Done => x \in Done'
      BY <2>1, <2>3, DoneIs, DoneNext
    <3> QED
      BY <3>1, <3>2
  <2> QED
    BY <1>2, <1>3, <2>4 DEF SentDone, Before
<1> QED
  BY <1>8, <1>9, <1>10

\* A new element at the end of a sequence.
LEMMA AtTheEnd ==
  ASSUME NEW S, NEW s \in Seq(S), NEW x \in S
  PROVE  /\ DOMAIN s = 1 .. Len(s) /\ Len(s) \in Nat
         /\ DOMAIN Append(s, x) = 1 .. Len(s) + 1
         /\ \A i \in 1 .. Len(s) : Append(s, x)[i] = s[i]
         /\ Append(s, x)[Len(s) + 1] = x
         /\ Range(Append(s, x)) = Range(s) \cup {x}
<1> DEFINE t == Append(s, x)
<1>1. /\ DOMAIN s = 1 .. Len(s) /\ Len(s) \in Nat /\ DOMAIN t = 1 .. Len(s) + 1
      /\ \A i \in 1 .. Len(s) : t[i] = s[i]
      /\ t[Len(s) + 1] = x
  OBVIOUS
<1> HIDE DEF t
<1>2. \A i : i \in 1 .. Len(s) + 1 <=> i \in 1 .. Len(s) \/ i = Len(s) + 1
  BY <1>1
<1>3. Range(t) = Range(s) \cup {x}
  BY <1>1, <1>2 DEF Range
<1> QED
  BY <1>1, <1>3 DEF t

\* The file and the beginning of a line.
LEMMA LineIs ==
  ASSUME NEW g, NEW o, Parts \in Nat \ {0}
  PROVE  /\ LineAt(g, o).text[1][1] = g /\ LineAt(g, o).offset = o
         /\ Len(LineAt(g, o).text) = Parts
<1>1. 1 \in 1 .. Parts
  OBVIOUS
<1>2. Len([i \in 1 .. Parts |-> <<g, o + i>>]) = Parts
  OBVIOUS
<1> QED
  BY <1>1, <1>2 DEF LineAt

\* The line that was read is sent.
LEMMA PlainSend ==
  ASSUME Typed, ReadyWhen, WhenPlain, unready' = {}, SendLine
  PROVE  WholeLines' /\ WillRead' /\ SentDone'
<1>1. unready = {}
  BY DEF SendLine, writerVars
<1>2. WholeLines /\ SentDone
  BY <1>1 DEF WhenPlain
<1>3. /\ size' = size /\ followed' = followed /\ pos' = pos /\ start' = start
      /\ prefix' = prefix /\ line' = line /\ out' = Append(out, line)
      /\ offset' = offset + Len(line.text) /\ fpc' = "read" /\ fpc = "send"
  BY DEF SendLine, NextOffset, writerVars
<1>4. /\ pos \in Nat /\ offset \in Nat /\ Parts \in Nat \ {0} /\ followed \in Nat
      /\ out \in Seq(LineType) /\ line \in LineType /\ start \in Nat
      /\ followed \in 1 .. followed
  <2>1. /\ pos \in Nat /\ offset \in Nat /\ Parts \in Nat \ {0} /\ followed \in Nat
        /\ followed \in 1 .. Newest
    BY SizesAre DEF Typed
  <2>2. out \in Seq(LineType) /\ line \in LineType /\ start \in Nat
    BY SizesAre DEF Typed, FollowTypeOK
  <2> QED
    BY <2>1, <2>2
<1>5. /\ line = LineAt(followed, offset) /\ pos = offset + Parts
      /\ offset % Parts = 0 /\ (followed = 1 => start <= offset)
  BY <1>2, <1>3 DEF WholeLines
<1>6. offset' = offset + Parts
  BY <1>3, <1>4, <1>5, LineIs
<1>7. WholeLines' /\ WillRead'
  <2>1. /\ offset' = pos /\ pos % Parts = 0 /\ pos <= size[followed]
        /\ (followed = 1 => start <= pos)
    BY <1>2, <1>4, <1>5, <1>6 DEF WholeLines
  <2>2. offset' % Parts = 0 /\ offset' <= pos' /\ pos' = offset'
        /\ (followed' = 1 => start' <= offset')
    <3>1. pos' = pos /\ followed' = followed /\ start' = start
      BY <1>3
    <3>2. pos <= pos
      BY <1>4
    <3> QED
      BY ONLY <2>1, <3>1, <3>2
  <2> QED
    BY <1>2, <1>3, <2>2 DEF WholeLines, WillRead
<1>8. \A o : o \in Begins(followed, offset + Parts) <=> o \in Begins(followed, offset) \/ o = offset
  <2> SUFFICES ASSUME NEW o
               PROVE  o \in Begins(followed, offset + Parts)
                        <=> o \in Begins(followed, offset) \/ o = offset
    OBVIOUS
  <2>1. /\ o \in Begins(followed, offset + Parts) <=>
             /\ o \in Nat /\ o + Parts <= offset + Parts /\ o % Parts = 0
             /\ followed = 1 => start <= o
        /\ o \in Begins(followed, offset) <=>
             /\ o \in Nat /\ o + Parts <= offset /\ o % Parts = 0
             /\ followed = 1 => start <= o
    BY <1>4, BeginsIs
  <2>2. o \in Nat /\ o % Parts = 0 /\ o < offset => o + Parts <= offset
    BY <1>4, <1>5, MultiplesApart
  <2> QED
    BY <1>4, <1>5, <2>1, <2>2
<1>9. Done' = Done \cup {line}
  <2>1. \A g \in 1 .. followed : g # followed => Begins(g, Upto(g))' = Begins(g, Upto(g))
    BY <1>3 DEF Begins, Upto
  <2>2. \A g : g = followed => /\ Begins(g, Upto(g))' = Begins(g, offset + Parts)
                             /\ Begins(g, Upto(g)) = Begins(g, offset)
    BY <1>3, <1>6 DEF Begins, Upto
  <2>3. 1 .. followed' = 1 .. followed
    BY <1>3
  <2>4. ASSUME NEW g \in 1 .. followed, NEW o, g # followed \/ o # offset
        PROVE  o \in Begins(g, Upto(g))' <=> o \in Begins(g, Upto(g))
    <3>1. CASE g # followed
      BY <2>1, <3>1
    <3>2. CASE g = followed
      BY <1>8, <2>2, <2>4, <3>2
    <3> QED
      BY <3>1, <3>2
  <2>6. \A g : g = followed => offset \in Begins(g, Upto(g))'
    BY <1>8, <2>2
  <2>7. ASSUME NEW x \in Done' PROVE x \in Done \cup {line}
    <3>1. PICK g \in 1 .. followed : \E o \in Begins(g, Upto(g))' : x = LineAt(g, o)
      BY <2>3, DoneNext
    <3>2. PICK o \in Begins(g, Upto(g))' : x = LineAt(g, o)
      BY <3>1
    <3>3. CASE g # followed \/ o # offset
      BY <2>4, <3>2, <3>3, DoneIs
    <3>4. CASE g = followed /\ o = offset
      BY <1>5, <3>2, <3>4
    <3> QED
      BY <3>3, <3>4
  <2>8. ASSUME NEW x \in Done PROVE x \in Done'
    <3>1. PICK g \in 1 .. followed : \E o \in Begins(g, Upto(g)) : x = LineAt(g, o)
      BY DoneIs
    <3>2. PICK o \in Begins(g, Upto(g)) : x = LineAt(g, o)
      BY <3>1
    <3>3. o \in Begins(g, Upto(g))'
      BY <2>4, <2>6, <3>2
    <3> QED
      BY <2>3, <3>2, <3>3, DoneNext
  <2>9. line \in Done'
    BY <1>4, <1>5, <2>3, <2>6, DoneNext
  <2> QED
    BY <2>7, <2>8, <2>9
<1>10. \A x \in Done : Before(x, line)
  <2> SUFFICES ASSUME NEW x \in Done PROVE Before(x, line)
    OBVIOUS
  <2>1. PICK g \in 1 .. followed : \E o \in Begins(g, Upto(g)) : x = LineAt(g, o)
    BY DoneIs
  <2>2. PICK o \in Begins(g, Upto(g)) : x = LineAt(g, o)
    BY <2>1
  <2>3. /\ x.text[1][1] = g /\ x.offset = o
        /\ line.text[1][1] = followed /\ line.offset = offset
    BY <1>4, <1>5, <2>2, LineIs
  <2>4. g = followed => o < offset
    <3> SUFFICES ASSUME g = followed PROVE o < offset
      OBVIOUS
    <3>1. o \in Begins(followed, offset)
      BY <2>2 DEF Upto
    <3>2. o \in Nat /\ o + Parts <= offset
      BY <1>4, <3>1, BeginsIs
    <3> QED
      BY <1>4, <3>2
  <2>5. g < followed \/ g = followed
    BY <1>4
  <2> QED
    BY <2>3, <2>4, <2>5 DEF Before
<1>11. SentDone'
  <2>1. /\ DOMAIN out = 1 .. Len(out) /\ Len(out) \in Nat /\ DOMAIN out' = 1 .. Len(out) + 1
        /\ \A i \in 1 .. Len(out) : out'[i] = out[i]
        /\ out'[Len(out) + 1] = line
        /\ Range(out') = Range(out) \cup {line}
    BY <1>3, <1>4, AtTheEnd
  <2>2. Range(out') = Done'
    BY <1>2, <1>9, <2>1 DEF SentDone
  <2>3. ASSUME NEW i \in DOMAIN out', NEW j \in DOMAIN out', i < j
        PROVE  Before(out'[i], out'[j])
    <3>1. i \in 1 .. Len(out)
      BY <2>1, <2>3
    <3>2. out'[i] = out[i] /\ out[i] \in Done
      BY <1>2, <2>1, <3>1 DEF SentDone, Range
    <3>3. CASE j = Len(out) + 1
      BY <1>10, <2>1, <3>2, <3>3
    <3>4. CASE j # Len(out) + 1
      <4>1. j \in 1 .. Len(out)
        BY <2>1, <2>3, <3>4
      <4> QED
        BY <1>2, <2>1, <2>3, <3>1, <4>1 DEF SentDone
    <3> QED
      BY <3>3, <3>4
  <2> QED
    BY <2>2, <2>3 DEF SentDone, Before
<1> QED
  BY <1>7, <1>11

-----------------------------------------------------------------------------
(* The theorem                                                             *)

\* Every step keeps what holds while the writer does what readFollow is ready
\* for.
LEMMA PlainKept == Typed /\ ReadyWhen /\ WhenPlain /\ FollowNext => WhenPlain'
<1> SUFFICES ASSUME Typed, ReadyWhen, WhenPlain, FollowNext, unready' = {}
             PROVE  WholeLines' /\ WillRead' /\ SentDone'
  BY DEF WhenPlain
<1>1. CASE Unlink \/ Watch \/ EventWrite \/ Close \/ Dies \/ IOError
  BY <1>1, PlainWaits
<1>2. CASE Create
  BY <1>2, PlainCreate
<1>3. CASE \E n \in 1 .. Parts : AppendParts(n)
  BY <1>3, PlainAppend
<1>4. CASE Open
  BY <1>4, PlainOpen
<1>5. CASE ReadLine
  BY <1>5, PlainReadLine
<1>6. CASE ReadEOF
  BY <1>6, PlainReadEOF
<1>7. CASE EventCreate
  BY <1>7, PlainReopen
<1>8. CASE SendLine
  BY <1>8, PlainSend
<1> QED
  BY <1>1, <1>2, <1>3, <1>4, <1>5, <1>6, <1>7, <1>8 DEF FollowNext, Writer, ReadFollow

\* A stutter changes nothing.
LEMMA FollowStutters == FollowInv /\ UNCHANGED followVars => FollowInv'
<1> SUFFICES ASSUME FollowInv, UNCHANGED followVars PROVE FollowInv'
  OBVIOUS
<1>1. UNCHANGED <<size, linked, events, unready, followed, pos, prefix, line, offset,
                  fpc, dying, out, start>>
  BY DEF followVars, writerVars, readVars
<1>2. Typed'
  BY <1>1 DEF FollowInv, Typed, FollowTypeOK, Newest
<1>3. ReadyWhen'
  BY <1>1 DEF FollowInv, ReadyWhen, Ready, Newest, Creates
<1>4. unready = {} => SentDone'
  BY <1>1, SentStays DEF FollowInv, WhenPlain
<1>5. WhenPlain'
  <2>1. unready = {} => WholeLines' /\ WillRead'
    BY <1>1 DEF FollowInv, WhenPlain, WholeLines, WillRead
  <2> QED
    BY <1>1, <1>4, <2>1 DEF WhenPlain
<1> QED
  BY <1>2, <1>3, <1>5 DEF FollowInv

\* The follower starts at a line of the file that is there.
LEMMA FollowStarts == FollowInit => FollowInv
<1> SUFFICES ASSUME FollowInit PROVE FollowInv
  OBVIOUS
<1> USE FollowAssumption
<1>1. PICK n \in 0 .. MaxAppended : size = <<n * Parts>>
  BY DEF FollowInit
<1>2. n * Parts \in Nat /\ (n * Parts) % Parts = 0 /\ n * Parts <= Limit /\ Limit \in Nat
  <2>1. \A j, k, P \in Nat : j <= k => j * P <= k * P
    OBVIOUS
  <2> QED
    BY <2>1, Product DEF Limit
<1>3. size[1] = n * Parts /\ Len(size) = 1 /\ DOMAIN size = {1}
  BY <1>1
<1>4. PICK m \in 0 .. size[1] \div Parts : start = m * Parts
  BY DEF FollowInit
<1>5. /\ start \in Nat /\ start % Parts = 0 /\ start <= n * Parts
  <2>1. n * Parts = ((n * Parts) \div Parts) * Parts /\ (n * Parts) \div Parts \in Nat
    BY <1>2, Multiple
  <2>2. \A j, k, P \in Nat : j <= k => j * P <= k * P
    OBVIOUS
  <2> DEFINE whole == (n * Parts) \div Parts
  <2>3. whole \in Nat /\ n * Parts = whole * Parts /\ m \in 0 .. whole
    BY <1>3, <1>4, <2>1
  <2> HIDE DEF whole
  <2>4. m * Parts <= whole * Parts
    BY <2>2, <2>3
  <2>5. m * Parts \in Nat /\ (m * Parts) % Parts = 0
    BY <2>3, Product
  <2> QED
    BY <1>4, <2>3, <2>4, <2>5
<1>6. /\ linked = TRUE /\ events = << >> /\ fpc = "open" /\ followed = 1 /\ prefix = << >>
      /\ line = [text |-> << >>, offset |-> 0] /\ offset = start /\ pos = start
      /\ dying = FALSE /\ out = << >> /\ unready = {}
  BY DEF FollowInit
<1> HIDE DEF Limit
<1>7. Typed
  <2>1. size \in Seq(0 .. Limit) /\ Len(size) \in 1 .. MaxAtPath
    BY <1>1, <1>2
  <2>2. << >> \in Text /\ line \in LineType /\ out \in Seq(LineType)
    BY <1>6 DEF Text, LineType
  <2>3. start \in 0 .. Limit /\ followed \in 1 .. Len(size)
    BY <1>2, <1>3, <1>5, <1>6
  <2>4. /\ linked \in BOOLEAN /\ dying \in BOOLEAN /\ events \in Seq({"write", "create"})
        /\ prefix \in Text /\ unready \subseteq {"parts", "early", "again"}
    <3>1. events \in Seq({"write", "create"})
      BY <1>6
    <3>2. prefix \in Text
      BY <1>6, <2>2
    <3>3. linked \in BOOLEAN /\ dying \in BOOLEAN
      BY <1>6
    <3>4. unready \subseteq {"parts", "early", "again"}
      BY <1>6
    <3> QED
      BY <3>1, <3>2, <3>3, <3>4
  <2>5. FollowTypeOK
    BY <1>5, <1>6, <2>1, <2>2, <2>3, <2>4 DEF FollowTypeOK
  <2> QED
    BY <1>6, <2>5 DEF Typed
<1>8. ReadyWhen
  BY <1>3, <1>6 DEF ReadyWhen, Ready, Newest, Creates
<1>9. WholeLines /\ WillRead
  BY <1>2, <1>3, <1>5, <1>6 DEF WholeLines, WillRead
<1>10. SentDone
  <2>1. Done = {}
    <3> SUFFICES ASSUME NEW x \in Done PROVE FALSE
      OBVIOUS
    <3>1. PICK g \in 1 .. followed : \E o \in Begins(g, Upto(g)) : x = LineAt(g, o)
      BY DoneIs
    <3>2. g = 1
      BY <1>6, <3>1
    <3>3. PICK o : o \in Begins(1, start)
      BY <1>6, <3>1, <3>2 DEF Upto
    <3>4. o \in Nat /\ o + Parts <= start /\ start <= o
      BY <1>5, <3>3, BeginsIs
    <3> QED
      BY <1>5, <3>4
  <2> QED
    BY <1>6, <2>1 DEF SentDone, Range
<1> QED
  BY <1>7, <1>8, <1>9, <1>10 DEF FollowInv, WhenPlain

\* What was done are lines of the files, and all those before them.
LEMMA SentIsFaithful == Typed /\ WholeLines /\ SentDone => Faithful
<1> SUFFICES ASSUME Typed, WholeLines, SentDone PROVE Faithful
  OBVIOUS
<1>1. /\ Newest \in Nat /\ DOMAIN size = 1 .. Newest /\ followed \in 1 .. Newest
      /\ \A g \in 1 .. Newest : size[g] \in Nat
      /\ offset \in Nat /\ pos \in Nat /\ Parts \in Nat \ {0}
  BY SizesAre DEF Typed
<1>2. \A g \in 1 .. followed : g \in 1 .. Newest /\ (g = followed \/ g < followed)
  BY <1>1
<1>3. offset <= size[followed]
  BY <1>1 DEF WholeLines
<1>4. ASSUME NEW g \in 1 .. followed
      PROVE  /\ Begins(g, Upto(g)) \subseteq Begins(g, size[g]) /\ Upto(g) \in Nat
  <2>1. Upto(g) \in Nat /\ size[g] \in Nat /\ Upto(g) <= size[g]
    <3>1. size[g] \in Nat
      BY <1>1, <1>2
    <3> QED
      BY <1>1, <1>3, <3>1 DEF Upto
  <2>2. \A o \in Nat : o + Parts <= Upto(g) => o + Parts <= size[g]
    BY <1>1, <2>1
  <2>3. ASSUME NEW o \in Begins(g, Upto(g)) PROVE o \in Begins(g, size[g])
    BY <2>1, <2>2, BeginsIs
  <2> QED
    BY <2>1, <2>3
<1>5. Range(out) \subseteq Expected
  <2> SUFFICES ASSUME NEW x \in Done PROVE x \in Expected
    BY DEF SentDone
  <2>1. PICK g \in 1 .. followed : \E o \in Begins(g, Upto(g)) : x = LineAt(g, o)
    BY DoneIs
  <2>2. g \in DOMAIN size /\ \E o \in Begins(g, size[g]) : x = LineAt(g, o)
    BY <1>1, <1>2, <1>4, <2>1
  <2> QED
    BY <2>2 DEF Expected
<1>6. ASSUME NEW a \in Expected, NEW i \in DOMAIN out, Before(a, out[i])
      PROVE  a \in Range(out)
  <2>1. PICK h \in DOMAIN size : \E p \in Begins(h, size[h]) : a = LineAt(h, p)
    BY DEF Expected
  <2>2. PICK p \in Begins(h, size[h]) : a = LineAt(h, p)
    BY <2>1
  <2>3. out[i] \in Done
    BY DEF SentDone, Range
  <2>4. PICK g \in 1 .. followed : \E o \in Begins(g, Upto(g)) : out[i] = LineAt(g, o)
    BY <2>3, DoneIs
  <2>5. PICK o \in Begins(g, Upto(g)) : out[i] = LineAt(g, o)
    BY <2>4
  <2>6. h < g \/ (h = g /\ p < o)
    <3>1. /\ a.text[1][1] = h /\ a.offset = p
          /\ out[i].text[1][1] = g /\ out[i].offset = o
      BY <1>1, <2>2, <2>5, LineIs
    <3> QED
      BY <1>6, <3>1 DEF Before
  <2>7. h \in 1 .. followed /\ p \in Begins(h, Upto(h))
    <3>1. CASE h < g
      <4>1. h \in 1 .. followed /\ h # followed
        BY <1>1, <3>1
      <4> QED
        BY <2>2, <4>1 DEF Upto
    <3>2. CASE h = g /\ p < o
      <4>1. /\ Upto(g) \in Nat /\ size[g] \in Nat
            /\ o \in Nat /\ o + Parts <= Upto(g) /\ p \in Nat /\ p % Parts = 0
            /\ (g = 1 => start <= p)
        BY <1>1, <1>2, <1>4, <2>2, <2>5, <3>2, BeginsIs
      <4>2. p + Parts <= Upto(g)
        BY <1>1, <3>2, <4>1
      <4> QED
        BY <3>2, <4>1, <4>2, BeginsIs
    <3> QED
      BY <2>6, <3>1, <3>2
  <2>8. a \in Done
    BY <2>2, <2>7, DoneIs
  <2> QED
    BY <2>8 DEF SentDone
<1> QED
  BY <1>5, <1>6 DEF Faithful, SentDone

\* As long as lines are appended whole and a file is replaced when readFollow
\* watches it, what is sent are the lines of the files, complete, in order, each
\* once and with its offset; and only a replacement that readFollow was not ready
\* for ends it (readFollow).
THEOREM FollowerFollows == FollowSpec => []Following
<1>1. FollowInit => FollowInv
  BY FollowStarts
<1>2. FollowInv /\ [FollowNext]_followVars => FollowInv'
  <2> SUFFICES ASSUME FollowInv, [FollowNext]_followVars PROVE FollowInv'
    OBVIOUS
  <2>1. CASE FollowNext
    <3>1. Typed'
      BY <2>1, WriterTyped, ReaderTyped DEF FollowInv, FollowNext
    <3> QED
      BY <2>1, <3>1, ReadyKept, PlainKept DEF FollowInv
  <2>2. CASE UNCHANGED followVars
    BY <2>2, FollowStutters
  <2> QED
    BY <2>1, <2>2
<1>3. FollowInv => Following
  <2> SUFFICES ASSUME FollowInv PROVE Following
    OBVIOUS
  <2>1. FollowTypeOK
    BY DEF FollowInv, Typed
  <2>2. FaithfulIfPlain
    BY SentIsFaithful DEF FollowInv, WhenPlain, FaithfulIfPlain
  <2>3. FollowsOn
    BY DEF FollowInv, ReadyWhen, Ready, FollowsOn
  <2> QED
    BY <2>1, <2>2, <2>3 DEF Following
<1> QED
  BY <1>1, <1>2, <1>3, PTL DEF FollowSpec

-----------------------------------------------------------------------------
(* The monitor's inductive invariant                                       *)

\* The lines between the goroutines and the receiver: what Run holds, then the
\* channel.
Way == IF held = << >> THEN lines ELSE <<held>> \o lines

\* Line n of file g comes before line m of file h; or is the same.  A file in w,
\* which its File opened once more, has its lines in any order.
Lt(w, g, n, h, m) == g < h \/ (g = h /\ (n < m \/ g \in w))
Le(w, g, n, h, m) == g < h \/ (g = h /\ (n <= m \/ g \in w))

\* Files have their numbers in turn, and what is known of a file has to do with
\* one that was at the path.  Only FlushOffsets opens an entry, one at a time.
Known ==
  /\ held # << >> <=> mpc = "receive"
  /\ \A f \in Files :
       /\ offsets[f].of <= file[f] /\ reading[f] <= file[f] /\ id[f] <= file[f]
       /\ creates[f] < file[f] /\ (creates[f] # -1 => reading[f] # 0)
       /\ db[f].of <= file[f] /\ db[f].id <= file[f]
       /\ db[f] = Torn \/ db[f].n \in Numbers
  /\ \A o \in opened : mpc = "flush" /\ o[2] <= file[o[1]]
  /\ \A o, p \in opened : o = p

\* The offset, the lines of f on their way, the line its goroutine has and the
\* place where it reads are in order.
InTurn(f) ==
  /\ \A k \in 1 .. Len(Way) : Way[k][1] = f =>
       Lt(again[f], offsets[f].of, offsets[f].n, Way[k][2], Way[k][3])
  /\ \A j, k \in 1 .. Len(Way) : j < k /\ Way[j][1] = f /\ Way[k][1] = f =>
       Lt(again[f], Way[j][2], Way[j][3], Way[k][2], Way[k][3])
  /\ hand[f] # << >> =>
       /\ hand[f][1] = f /\ reading[f] # 0
       /\ Lt(again[f], offsets[f].of, offsets[f].n, hand[f][2], hand[f][3])
       /\ Le(again[f], hand[f][2], hand[f][3], reading[f], given[f])
       /\ \A k \in 1 .. Len(Way) : Way[k][1] = f =>
            Lt(again[f], Way[k][2], Way[k][3], hand[f][2], hand[f][3])
  /\ reading[f] # 0 =>
       /\ Le(again[f], offsets[f].of, offsets[f].n, reading[f], given[f])
       /\ \A k \in 1 .. Len(Way) : Way[k][1] = f =>
            Le(again[f], Way[k][2], Way[k][3], reading[f], given[f])
  /\ reading[f] = 0 =>
       given[f] = offsets[f].n /\ \A k \in 1 .. Len(Way) : Way[k][1] # f

\* Line m of file g was received, or is one of the first k on their way.
Passes(f, g, m, k) ==
  <<g, m>> \in Range(received[f]) \/ \E j \in 1 .. k : Way[j] = <<f, g, m>>

\* Until Run leaves its loop, all lines before one that is on its way, and all
\* that were given, were received or are on their way before it.
Gapless(f) ==
  mpc \in {"select", "receive"} =>
    /\ \A k \in 1 .. Len(Way) : Way[k][1] = f /\ <<f, Way[k][2]>> \notin odd =>
         \A m \in 1 .. Way[k][3] - 1 : Passes(f, Way[k][2], m, k - 1)
    /\ hand[f] # << >> /\ <<f, hand[f][2]>> \notin odd =>
         \A m \in 1 .. hand[f][3] - 1 : Passes(f, hand[f][2], m, Len(Way))
    /\ reading[f] # 0 /\ <<f, reading[f]>> \notin odd =>
         \A m \in 1 .. given[f] : \/ Passes(f, reading[f], m, Len(Way))
                                  \/ hand[f] = <<f, reading[f], m>>

\* The same of what was received, and of the offset.
Complete(f) ==
  /\ \A i \in 1 .. Len(received[f]) :
       LET g == received[f][i][1]
       IN  <<f, g>> \notin odd => \A n \in 1 .. received[f][i][2] - 1 :
             \E j \in 1 .. i - 1 : received[f][j] = <<g, n>>
  /\ <<f, offsets[f].of>> \notin odd => \A n \in 1 .. offsets[f].n :
       <<offsets[f].of, n>> \in Range(received[f])
  /\ <<f, db[f].of>> \notin odd => \A n \in 1 .. db[f].n :
       <<db[f].of, n>> \in Range(received[f])

\* An entry, or the one that is about to be written, has the ID of the file at
\* the path if it counts its lines, and only then, or the file is excused.
Entries(f) ==
  /\ db[f].n > 0 /\ db[f].of = file[f] => db[f].id = id[f]
  /\ db[f].n > 0 /\ db[f].id = id[f] /\ db[f].of # file[f] => <<f, file[f]>> \in odd
  /\ \A o \in opened : o[1] = f =>
       /\ offsets[f].of = file[f] => o[2] = id[f]
       /\ o[2] = id[f] /\ offsets[f].of # file[f] => <<f, file[f]>> \in odd

\* What FlushOffsets has dealt with is saved.
Saved ==
  /\ mpc \in {"flush", "returned"} => \A f \in Files \ (unsaved \cup unset) :
       db[f].of = offsets[f].of /\ db[f].n = offsets[f].n
  /\ mpc = "returned" => unsaved = {}

\* If every process so far ended as it should, what was received is in order
\* and not beyond the offset, and no entry is left empty.
Once ==
  clean =>
    /\ mpc # "failed"
    /\ \A f \in Files :
         /\ db[f] = Torn => \E o \in opened : o[1] = f
         /\ \A i \in 1 .. Len(received[f]) :
              Le(again[f], received[f][i][1], received[f][i][2], offsets[f].of, offsets[f].n)
         /\ \A i, j \in 1 .. Len(received[f]) : i < j =>
              Lt(again[f], received[f][i][1], received[f][i][2],
                 received[f][j][1], received[f][j][2])

PerFile(f) == InTurn(f) /\ Gapless(f) /\ Complete(f) /\ Entries(f)

IInv == TypeOK /\ Known /\ (\A f \in Files : PerFile(f)) /\ Saved /\ Once

-----------------------------------------------------------------------------
(* Lines and their order                                                   *)

\* A line has a path, a file and a number.
LEMMA LineFacts ==
  /\ \A x \in Lines : /\ x[1] \in Files /\ x[2] \in 1 .. MaxFiles /\ x[2] \in Nat
                      /\ x[3] \in Numbers /\ x[3] \in Nat /\ x[3] > 0 /\ x[2] > 0
                      /\ x = <<x[1], x[2], x[3]>> /\ x # << >>
  /\ Numbers \subseteq Nat /\ MaxFiles \in Nat /\ 0 \in Numbers
  /\ \A f \in Files : \A n \in 1 .. MaxLines[f] : n \in Numbers
<1>1. Numbers \subseteq Nat /\ MaxFiles \in Nat
  BY MonitorAssumption DEF Numbers
<1>2. \A f \in Files : \A n \in 0 .. MaxLines[f] : n \in Numbers
  BY DEF Numbers
<1>3. 0 \in Numbers
  <2>1. PICK f \in Files : TRUE
    BY MonitorAssumption
  <2>2. 0 \in 0 .. MaxLines[f]
    BY MonitorAssumption
  <2> QED BY <1>2, <2>2
<1>4. ASSUME NEW x \in Lines
      PROVE  /\ x[1] \in Files /\ x[2] \in 1 .. MaxFiles /\ x[2] \in Nat
             /\ x[3] \in Numbers /\ x[3] \in Nat /\ x[3] > 0 /\ x[2] > 0
             /\ x = <<x[1], x[2], x[3]>> /\ x # << >>
  <2>1. /\ x[1] \in Files /\ x[2] \in 1 .. MaxFiles /\ x[3] \in Numbers \ {0}
        /\ x = <<x[1], x[2], x[3]>>
    BY DEF Lines
  <2>2. x # << >>
    <3>1. <<x[1], x[2], x[3]>> # << >>
      OBVIOUS
    <3> QED BY <2>1, <3>1
  <2> QED BY <1>1, <2>1, <2>2
<1>5. \A f \in Files : \A n \in 1 .. MaxLines[f] : n \in Numbers
  <2>1. ASSUME NEW f \in Files, NEW n \in 1 .. MaxLines[f] PROVE n \in Numbers
    <3>1. n \in 0 .. MaxLines[f]
      BY MonitorAssumption
    <3> QED BY <1>2, <3>1
  <2> QED BY <2>1
<1> QED BY <1>1, <1>3, <1>4, <1>5

\* The types of what the invariant speaks of.
LEMMA Types ==
  ASSUME TypeOK, NEW f \in Files
  PROVE  /\ offsets[f].of \in Nat /\ offsets[f].n \in Nat /\ offsets[f].n \in Numbers
         /\ offsets[f].of \in 1 .. MaxFiles
         /\ reading[f] \in Nat /\ given[f] \in Nat /\ given[f] \in Numbers
         /\ file[f] \in Nat /\ file[f] \in 1 .. MaxFiles /\ id[f] \in Nat
         /\ hand[f] # << >> => hand[f] \in Lines
         /\ held # << >> => held \in Lines
         /\ db[f].of \in Nat /\ db[f].id \in Nat /\ db[f].n \in Int
         /\ received[f] \in Seq((1 .. MaxFiles) \X (Numbers \ {0}))
         /\ Len(received[f]) \in Nat
         /\ \A i \in 1 .. Len(received[f]) :
              received[f][i][1] \in Nat /\ received[f][i][2] \in Nat
<1>1. Numbers \subseteq Nat /\ MaxFiles \in Nat
  BY LineFacts
<1>0. 1 .. MaxFiles \subseteq Nat /\ 0 .. MaxFiles \subseteq Nat
  BY <1>1
<1>2. /\ offsets[f].of \in 1 .. MaxFiles /\ offsets[f].n \in Numbers
      /\ reading[f] \in 0 .. MaxFiles /\ given[f] \in Numbers
      /\ file[f] \in 1 .. MaxFiles /\ id[f] \in 1 .. MaxFiles
      /\ db[f].of \in 1 .. MaxFiles /\ db[f].id \in 0 .. MaxFiles
      /\ db[f].n \in Numbers \cup {-1}
  BY DEF TypeOK
<1>3. hand[f] \in {<< >>} \cup Lines /\ held \in {<< >>} \cup Lines
  BY DEF TypeOK
<1>4. received[f] \in Seq((1 .. MaxFiles) \X (Numbers \ {0}))
  BY DEF TypeOK
<1>5. /\ Len(received[f]) \in Nat
      /\ \A i \in 1 .. Len(received[f]) :
           received[f][i] \in (1 .. MaxFiles) \X (Numbers \ {0})
  BY <1>4
<1>6. ASSUME NEW i \in 1 .. Len(received[f])
      PROVE  received[f][i][1] \in Nat /\ received[f][i][2] \in Nat
  <2> DEFINE r == received[f][i]
  <2>1. r \in (1 .. MaxFiles) \X (Numbers \ {0})
    BY <1>5
  <2> HIDE DEF r
  <2>2. r[1] \in 1 .. MaxFiles /\ r[2] \in Numbers
    BY <2>1
  <2>3. r[1] \in Nat /\ r[2] \in Nat
    BY <1>0, <1>1, <2>2
  <2> QED BY <2>3 DEF r
<1>7. /\ offsets[f].of \in Nat /\ offsets[f].n \in Nat
      /\ reading[f] \in Nat /\ given[f] \in Nat
      /\ file[f] \in Nat /\ id[f] \in Nat
      /\ db[f].of \in Nat /\ db[f].id \in Nat /\ db[f].n \in Int
  <2>1. \A n \in Nat : n \in Int
    OBVIOUS
  <2>2. -1 \in Int
    OBVIOUS
  <2> QED BY ONLY <1>0, <1>1, <1>2, <2>1, <2>2
<1>8. (hand[f] # << >> => hand[f] \in Lines) /\ (held # << >> => held \in Lines)
  BY <1>3
<1> QED BY <1>2, <1>4, <1>5, <1>6, <1>7, <1>8

\* What is on its way.
LEMMA WayFacts ==
  ASSUME TypeOK
  PROVE  /\ lines \in Seq(Lines) /\ Way \in Seq(Lines) /\ Len(Way) \in Nat
         /\ \A k \in 1 .. Len(Way) : Way[k] \in Lines
         /\ held = << >> => Way = lines
         /\ held # << >> => /\ Way # << >> /\ Head(Way) = held /\ Tail(Way) = lines
                            /\ held \in Lines
<1>1. lines \in Seq(Lines) /\ held \in {<< >>} \cup Lines
  BY DEF TypeOK
<1>2. CASE held = << >>
  BY <1>1, <1>2 DEF Way
<1>3. CASE held # << >>
  <2>1. held \in Lines
    BY <1>1, <1>3
  <2>2. /\ <<held>> \o lines \in Seq(Lines) /\ <<held>> \o lines # << >>
        /\ Head(<<held>> \o lines) = held /\ Tail(<<held>> \o lines) = lines
    BY <1>1, <2>1
  <2>3. Way = <<held>> \o lines
    BY <1>3 DEF Way
  <2> DEFINE w == Way
  <2> HIDE DEF w
  <2>4. w \in Seq(Lines)
    BY <2>2, <2>3 DEF w
  <2>5. Len(w) \in Nat /\ \A k \in 1 .. Len(w) : w[k] \in Lines
    BY <2>4
  <2> QED BY <1>1, <1>3, <2>1, <2>2, <2>3, <2>5 DEF w
<1> QED BY <1>2, <1>3

-----------------------------------------------------------------------------
(* What does not change                                                    *)

\* The order is kept with what is ordered.
LEMMA InTurnKeeps ==
  ASSUME NEW f \in Files, InTurn(f), Way' = Way, offsets'[f] = offsets[f],
         hand'[f] = hand[f], reading'[f] = reading[f], given'[f] = given[f],
         again'[f] = again[f]
  PROVE  InTurn(f)'
BY DEF InTurn

\* So is that there are no gaps, if no file is excused no longer.
LEMMA GaplessKeeps ==
  ASSUME NEW f \in Files, Gapless(f), Way' = Way, received'[f] = received[f],
         hand'[f] = hand[f], reading'[f] = reading[f], given'[f] = given[f],
         odd \subseteq odd',
         mpc' \in {"select", "receive"} => mpc \in {"select", "receive"}
  PROVE  Gapless(f)'
<1>1. \A g, m, k : Passes(f, g, m, k)' <=> Passes(f, g, m, k)
  BY DEF Passes, Range
<1> QED BY <1>1 DEF Gapless

\* The same of what was received and noted.
LEMMA CompleteKeeps ==
  ASSUME NEW f \in Files, Complete(f), received'[f] = received[f],
         offsets'[f] = offsets[f], db'[f] = db[f], odd \subseteq odd'
  PROVE  Complete(f)'
<1>1. \A x : x \notin odd' => x \notin odd
  OBVIOUS
<1>2. \A i \in 1 .. Len(received'[f]) :
        LET g == received'[f][i][1]
        IN  <<f, g>> \notin odd' => \A n \in 1 .. received'[f][i][2] - 1 :
              \E j \in 1 .. i - 1 : received'[f][j] = <<g, n>>
  <2>1. SUFFICES ASSUME NEW i \in 1 .. Len(received[f]), <<f, received[f][i][1]>> \notin odd
                 PROVE  \A n \in 1 .. received[f][i][2] - 1 :
                          \E j \in 1 .. i - 1 : received[f][j] = <<received[f][i][1], n>>
    BY ZenonT(60), <1>1
  <2> QED BY <2>1 DEF Complete
<1>3. Range(received'[f]) = Range(received[f])
  OBVIOUS
<1>4. <<f, offsets[f].of>> \notin odd' => \A n \in 1 .. offsets[f].n :
        <<offsets[f].of, n>> \in Range(received[f])
  BY <1>1 DEF Complete
<1>5. <<f, db[f].of>> \notin odd' => \A n \in 1 .. db[f].n :
        <<db[f].of, n>> \in Range(received[f])
  BY <1>1 DEF Complete
<1>6. /\ <<f, offsets'[f].of>> \notin odd' => \A n \in 1 .. offsets'[f].n :
           <<offsets'[f].of, n>> \in Range(received'[f])
      /\ <<f, db'[f].of>> \notin odd' => \A n \in 1 .. db'[f].n :
           <<db'[f].of, n>> \in Range(received'[f])
  BY <1>3, <1>4, <1>5
<1> QED BY <1>2, <1>6 DEF Complete

\* The same of the entries.
LEMMA EntriesKeep ==
  ASSUME NEW f \in Files, Entries(f), db'[f] = db[f], file'[f] = file[f],
         id'[f] = id[f], offsets'[f] = offsets[f], odd \subseteq odd',
         opened' \subseteq opened
  PROVE  Entries(f)'
BY DEF Entries

\* A step that changes neither what is on its way nor what is noted.
LEMMA Frame ==
  ASSUME IInv, Way' = Way, odd' = odd,
         UNCHANGED <<offsets, hand, reading, again, given, received, db, file, id, opened>>,
         mpc' \in {"select", "receive"} => mpc \in {"select", "receive"}
  PROVE  \A f \in Files : PerFile(f)'
BY InTurnKeeps, GaplessKeeps, CompleteKeeps, EntriesKeep DEF IInv, PerFile

\* What was received once is kept with it.
LEMMA OnceKeeps ==
  ASSUME Once, UNCHANGED <<clean, received, offsets, db, opened, again>>,
         mpc' = "failed" => mpc = "failed"
  PROVE  Once'
BY DEF Once, Torn

\* A step that leaves Run, the lines and the files alone.
LEMMA Idle ==
  ASSUME IInv, TypeOK',
         UNCHANGED <<allRuns, runVars, lines, reading, creates, again, given, hand, disk,
                     received>>
  PROVE  IInv'
<1> USE DEF allRuns, runVars, disk
<1>1. Way' = Way
  BY DEF Way
<1>2. \A f \in Files : PerFile(f)'
  BY <1>1, Frame
<1>3. Known'
  BY DEF IInv, Known, Torn
<1>4. Saved' /\ Once'
  BY OnceKeeps DEF IInv, Saved
<1> QED BY <1>2, <1>3, <1>4 DEF IInv

-----------------------------------------------------------------------------
(* Types                                                                   *)

\* A goroutine keeps the types.
LEMMA TypeGoroutine ==
  ASSUME IInv, NEW f \in Files, Goroutine(f) \/ Reopen(f) \/ FileEnds(f)
  PROVE  TypeOK'
<1> USE DEF allRuns, runVars, goVars, disk
<1>0. TypeOK
  BY DEF IInv
<1>1. file[f] \in 1 .. MaxFiles /\ file[f] \in 0 .. MaxFiles /\ 0 \in Numbers
  <2>1. file[f] \in 1 .. MaxFiles /\ 1 .. MaxFiles \subseteq 0 .. MaxFiles
    BY <1>0, LineFacts DEF TypeOK
  <2> QED BY <2>1, LineFacts
<1>2. CASE OpenFile(f)
  <2>1. reading' \in [Files -> 0 .. MaxFiles]
    BY <1>0, <1>1, <1>2 DEF OpenFile, TypeOK
  <2>2. odd' \subseteq Files \X (1 .. MaxFiles)
    BY <1>0, <1>1, <1>2 DEF OpenFile, TypeOK
  <2> QED BY <1>0, <1>2, <2>1, <2>2 DEF OpenFile, TypeOK
<1>3. CASE GenerateLine(f)
  <2>1. given[f] + 1 \in Numbers \ {0}
    <3>1. given[f] \in Nat /\ MaxLines[f] \in Nat
      BY <1>0, Types, MonitorAssumption
    <3>2. given[f] + 1 \in 1 .. MaxLines[f]
      BY <1>3, <3>1 DEF GenerateLine
    <3>3. given[f] + 1 # 0
      BY <3>1
    <3> QED BY <3>2, <3>3, LineFacts
  <2>2. reading[f] \in 1 .. MaxFiles
    <3>1. reading[f] \in 0 .. MaxFiles
      BY <1>0 DEF TypeOK
    <3>2. Known /\ creates[f] # -1
      BY <1>3 DEF IInv, GenerateLine
    <3>3. reading[f] # 0
      BY <3>2 DEF Known
    <3> QED BY <3>1, <3>3, LineFacts
  <2>3. <<f, reading[f], given[f] + 1>> \in Lines
    BY <2>1, <2>2 DEF Lines
  <2>4. hand' \in [Files -> {<< >>} \cup Lines]
    BY <1>0, <1>3, <2>3 DEF GenerateLine, TypeOK
  <2>5. given' \in [Files -> Numbers]
    BY <1>0, <1>3, <2>1 DEF GenerateLine, TypeOK
  <2> QED BY <1>0, <1>3, <2>4, <2>5 DEF GenerateLine, TypeOK
<1>4. CASE PutLine(f)
  <2>1. hand[f] \in Lines
    BY <1>0, <1>4, Types DEF PutLine
  <2>2. lines \in Seq(Lines) /\ Len(lines) < Cardinality(Files) /\ lines' = Append(lines, hand[f])
    BY <1>0, <1>4 DEF PutLine, TypeOK
  <2>3. Cardinality(Files) \in Nat
    BY MonitorAssumption, FS_CardinalityType
  <2>4. lines' \in Seq(Lines) /\ Len(lines') = Len(lines) + 1 /\ Len(lines) \in Nat
    BY <2>1, <2>2
  <2>5. Len(lines') <= Cardinality(Files)
    BY ONLY <2>2, <2>3, <2>4
  <2>6. hand' \in [Files -> {<< >>} \cup Lines]
    BY <1>0, <1>4 DEF PutLine, TypeOK
  <2> QED BY <1>0, <1>4, <2>4, <2>5, <2>6 DEF PutLine, TypeOK
<1>5. CASE GoroutineEnds(f)
  BY <1>0, <1>5 DEF GoroutineEnds, TypeOK
<1>6. CASE Reopen(f)
  <2>1. reading' \in [Files -> 0 .. MaxFiles] /\ given' \in [Files -> Numbers]
    BY <1>0, <1>1, <1>6 DEF Reopen, TypeOK
  <2>2. creates[f] - 1 \in -1 .. MaxFiles
    <3>1. creates[f] \in -1 .. MaxFiles /\ creates[f] > 0 /\ MaxFiles \in Nat
      BY <1>0, <1>6, LineFacts DEF Reopen, TypeOK
    <3> QED BY ONLY <3>1
  <2>3. creates' \in [Files -> -1 .. MaxFiles]
    BY <1>0, <1>6, <2>2 DEF Reopen, TypeOK
  <2>4. again[f] \cup ({reading[f]} \cap {file[f]}) \in SUBSET (1 .. MaxFiles)
    BY <1>0, <1>1 DEF TypeOK
  <2>5. again' \in [Files -> SUBSET (1 .. MaxFiles)]
    BY <1>0, <1>6, <2>4 DEF Reopen, TypeOK
  <2> QED BY <1>0, <1>6, <2>1, <2>3, <2>5 DEF Reopen, TypeOK
<1>7. CASE FileEnds(f)
  BY <1>0, <1>7 DEF FileEnds, TypeOK
<1>8. CASE AddWatch(f)
  <2>1. 0 \in -1 .. MaxFiles
    BY LineFacts
  <2>2. creates' \in [Files -> -1 .. MaxFiles]
    BY <1>0, <1>8, <2>1 DEF AddWatch, TypeOK
  <2> QED BY <1>0, <1>8, <2>2 DEF AddWatch, TypeOK
<1> QED BY <1>2, <1>3, <1>4, <1>5, <1>6, <1>7, <1>8 DEF Goroutine

\* Run keeps them.
LEMMA TypeRun ==
  ASSUME IInv, Run
  PROVE  TypeOK'
<1> USE DEF allRuns, runVars, goVars, disk
<1>0. TypeOK /\ Known
  BY DEF IInv
<1>1. CASE TakeLine
  <2>1. lines \in Seq(Lines) /\ lines # << >> /\ lines' = Tail(lines) /\ held' = Head(lines)
        /\ Len(lines) <= Cardinality(Files)
    BY <1>0, <1>1 DEF TakeLine, TypeOK
  <2>2. Cardinality(Files) \in Nat
    BY MonitorAssumption, FS_CardinalityType
  <2>3. lines' \in Seq(Lines) /\ Len(lines') = Len(lines) - 1 /\ Len(lines) \in Nat
        /\ held' \in Lines
    BY <2>1
  <2>4. Len(lines') <= Cardinality(Files)
    BY ONLY <2>1, <2>2, <2>3
  <2> QED BY <1>0, <1>1, <2>3, <2>4 DEF TakeLine, TypeOK
<1>2. CASE TakeNil
  <2>1. shutdown' \in 0 .. 1
    BY <1>2 DEF TakeNil, SignalShutdown
  <2> QED BY <1>0, <1>2, <2>1 DEF TakeNil, TypeOK
<1>3. CASE TakeShutdown
  <2>1. shutdown' \in 0 .. 1
    BY <1>3 DEF TakeShutdown
  <2> QED BY <1>0, <1>3, <2>1 DEF TakeShutdown, TypeOK
<1>4. CASE ReceiveOK
  <2>1. held \in Lines
    BY <1>0, <1>4, WayFacts DEF ReceiveOK, Known
  <2>2. held[1] \in Files /\ held[2] \in 1 .. MaxFiles /\ held[3] \in Numbers \ {0}
    BY <2>1 DEF Lines
  <2>3. <<held[2], held[3]>> \in (1 .. MaxFiles) \X (Numbers \ {0})
    BY <2>2
  <2>4. received' \in [Files -> Seq((1 .. MaxFiles) \X (Numbers \ {0}))]
    <3> DEFINE S == (1 .. MaxFiles) \X (Numbers \ {0})
               h == held[1]
               e == <<held[2], held[3]>>
    <3>1. received \in [Files -> Seq(S)] /\ e \in S /\ h \in Files
          /\ received' = [received EXCEPT ![h] = Append(@, e)]
      BY <1>0, <1>4, <2>2, <2>3 DEF ReceiveOK, TypeOK
    <3> HIDE DEF S, h, e
    <3>2. Append(received[h], e) \in Seq(S)
      BY <3>1
    <3> QED BY <3>1, <3>2 DEF S
  <2>5. offsets' \in [Files -> [of : 1 .. MaxFiles, n : Numbers]]
    BY <1>0, <1>4, <2>2 DEF ReceiveOK, TypeOK
  <2> QED BY <1>0, <1>4, <2>4, <2>5 DEF ReceiveOK, TypeOK
<1>5. CASE ReceiveFails
  BY <1>0, <1>5 DEF ReceiveFails, TypeOK
<1>6. CASE CloseFile
  BY <1>0, <1>6 DEF CloseFile, ToClose, TypeOK
<1>7. CASE Finished
  BY <1>0, <1>7 DEF Finished, TypeOK
<1>8. CASE CreateEntry
  <2>1. PICK f \in unsaved :
          /\ opened' = {<<f, id[f]>>}
          /\ db' = [db EXCEPT ![f] = Torn]
          /\ odd' = IF offsets[f].of # file[f] THEN odd \cup {<<f, file[f]>>} ELSE odd
    BY <1>8 DEF CreateEntry, Calculate
  <2>2. f \in Files /\ id[f] \in 1 .. MaxFiles /\ file[f] \in 1 .. MaxFiles
    BY <1>0 DEF TypeOK
  <2>3. Cardinality(opened') = 1
    BY <2>1, FS_Singleton
  <2>4. opened' \subseteq unsaved \X (1 .. MaxFiles) /\ Cardinality(opened') <= 1
    BY <2>1, <2>2, <2>3
  <2>5. Torn \in [of : 1 .. MaxFiles, n : Numbers \cup {-1}, id : 0 .. MaxFiles]
    <3>1. 1 \in 1 .. MaxFiles /\ 0 \in 0 .. MaxFiles
      BY MonitorAssumption
    <3> QED BY <3>1 DEF Torn
  <2>6. db' \in [Files -> [of : 1 .. MaxFiles, n : Numbers \cup {-1}, id : 0 .. MaxFiles]]
    BY <1>0, <2>1, <2>2, <2>5 DEF TypeOK
  <2>7. odd' \subseteq Files \X (1 .. MaxFiles)
    BY <1>0, <2>1, <2>2 DEF TypeOK
  <2> QED BY <1>0, <1>8, <2>4, <2>6, <2>7 DEF CreateEntry, TypeOK
<1>9. CASE SetFails
  <2>1. PICK f \in unsaved : unsaved' = unsaved \ {f} /\ unset' = unset \cup {f}
    BY <1>9 DEF SetFails
  <2>2. opened' = {} /\ opened = {}
    BY <1>9 DEF SetFails, None
  <2>3. opened' \subseteq unsaved' \X (1 .. MaxFiles) /\ Cardinality(opened') <= 1
    BY <1>0, <2>2 DEF TypeOK
  <2> QED BY <1>0, <1>9, <2>1, <2>3 DEF SetFails, TypeOK
<1>10. CASE WriteEntry
  <2>1. PICK o \in opened :
          /\ db' = [db EXCEPT ![o[1]] = [of |-> offsets[o[1]].of, n |-> offsets[o[1]].n, id |-> o[2]]]
          /\ unsaved' = unsaved \ {o[1]}
    BY <1>10 DEF WriteEntry, Saves
  <2>2. o[1] \in Files /\ o[2] \in 1 .. MaxFiles
    BY <1>0 DEF TypeOK
  <2>3. o[2] \in 0 .. MaxFiles /\ offsets[o[1]].of \in 1 .. MaxFiles /\ offsets[o[1]].n \in Numbers
    <3>1. o[2] \in 0 .. MaxFiles
      BY <2>2, LineFacts
    <3> QED BY <1>0, <2>2, <3>1, Types
  <2>4. db' \in [Files -> [of : 1 .. MaxFiles, n : Numbers \cup {-1}, id : 0 .. MaxFiles]]
    BY <1>0, <2>1, <2>2, <2>3 DEF TypeOK
  <2>5. Cardinality(opened') = 0 /\ opened' = {}
    BY <1>10, FS_EmptySet DEF WriteEntry, None
  <2>6. opened' \subseteq unsaved' \X (1 .. MaxFiles) /\ Cardinality(opened') <= 1
    BY <2>5
  <2> QED BY <1>0, <1>10, <2>1, <2>4, <2>6 DEF WriteEntry, TypeOK
<1>11. CASE RunReturns
  BY <1>0, <1>11 DEF RunReturns, TypeOK
<1> QED BY ONLY Run, <1>1, <1>2, <1>3, <1>4, <1>5, <1>6, <1>7, <1>8, <1>9, <1>10, <1>11 DEF Run

\* A new file, the end of a process and the callers keep them.
LEMMA TypeOthers ==
  ASSUME IInv,
         \/ \E f \in Rotated : Replace(f)
         \/ WaitShutdown \/ WaitReturns \/ UNCHANGED vars
         \/ \E kept, large \in SUBSET Rotated : Restart(kept, large)
  PROVE  TypeOK'
<1> USE DEF allRuns, runVars, goVars, disk
<1>0. TypeOK /\ Known
  BY DEF IInv
<1>1. ASSUME NEW f \in Rotated, Replace(f) PROVE TypeOK'
  <2>1. f \in Files /\ file[f] + 1 \in 1 .. MaxFiles
    <3>1. f \in Files
      BY MonitorAssumption
    <3>2. file[f] \in 1 .. MaxFiles /\ file[f] < MaxFiles /\ MaxFiles \in Nat
      BY <1>0, <1>1, <3>1, LineFacts DEF Replace, TypeOK
    <3> QED BY <3>1, <3>2
  <2>2. file' \in [Files -> 1 .. MaxFiles] /\ id' \in [Files -> 1 .. MaxFiles]
    BY <1>0, <1>1, <2>1 DEF Replace, TypeOK
  <2>3. (IF creates[f] = -1 THEN -1 ELSE creates[f] + 1) \in -1 .. MaxFiles
    <3>1. /\ creates[f] \in -1 .. MaxFiles /\ creates[f] < file[f] /\ file[f] < MaxFiles
          /\ file[f] \in Nat /\ MaxFiles \in Nat
      BY <1>0, <1>1, <2>1, Types, LineFacts DEF Replace, Known, TypeOK
    <3> QED BY ONLY <3>1
  <2>4. creates' \in [Files -> -1 .. MaxFiles]
    BY <1>0, <1>1, <2>1, <2>3 DEF Replace, TypeOK
  <2> QED BY <1>0, <1>1, <2>2, <2>4 DEF Replace, TypeOK
<1>2. CASE WaitShutdown
  <2>1. shutdown' \in 0 .. 1
    BY <1>2 DEF WaitShutdown, SignalShutdown
  <2> QED BY <1>0, <1>2, <2>1 DEF WaitShutdown, TypeOK
<1>3. CASE WaitReturns
  BY <1>0, <1>3 DEF WaitReturns, TypeOK
<1>4. CASE UNCHANGED vars
  BY <1>0, <1>4 DEF vars, TypeOK
<1>5. ASSUME NEW kept \in SUBSET Rotated, NEW large \in SUBSET Rotated, Restart(kept, large)
      PROVE  TypeOK'
  <2>1. runs' \in 1 .. MaxRuns
    <3>1. runs \in 1 .. MaxRuns /\ MaxRuns \in Nat /\ runs < MaxRuns /\ runs' = runs + 1
      BY <1>0, <1>5, MonitorAssumption DEF Restart, TypeOK
    <3> QED BY ONLY <3>1
  <2>2. clean' \in BOOLEAN /\ done' \in BOOLEAN
    BY <1>5 DEF Restart
  <2>3. shutdown' \in 0 .. 1
    BY <1>5 DEF Restart
  <2>4. file' \in [Files -> 1 .. MaxFiles]
    <3>1. ASSUME NEW f \in Files PROVE (IF f \in kept THEN file[f] + 1 ELSE file[f]) \in 1 .. MaxFiles
      <4>1. file[f] \in 1 .. MaxFiles /\ MaxFiles \in Nat /\ (f \in kept => file[f] < MaxFiles)
        BY <1>0, <1>5, LineFacts DEF Restart, TypeOK
      <4> QED BY <4>1
    <3> QED BY <1>5, <3>1 DEF Restart
  <2>5. \A f \in Files : FromEntry(f, large) \in Numbers
    <3>1. ASSUME NEW f \in Files PROVE FromEntry(f, large) \in Numbers
      <4>1. db[f] # Torn => db[f].n \in Numbers
        BY <1>0 DEF Known
      <4> QED BY <4>1, LineFacts DEF FromEntry
    <3> QED BY <3>1
  <2>6. given' \in [Files -> Numbers]
    BY <1>5, <2>5 DEF Restart
  <2>7. offsets' \in [Files -> [of : 1 .. MaxFiles, n : Numbers]]
    <3>1. \A f \in Files : file'[f] \in 1 .. MaxFiles
      BY <2>4
    <3>2. offsets' = [f \in Files |-> [of |-> file'[f], n |-> FromEntry(f, large)]]
      BY <1>5 DEF Restart
    <3> HIDE DEF FromEntry
    <3> QED BY ONLY <2>5, <3>1, <3>2
  <2>8. odd' \subseteq Files \X (1 .. MaxFiles)
    <3>1. odd \subseteq Files \X (1 .. MaxFiles) /\ kept \subseteq Files
      BY <1>0, MonitorAssumption DEF TypeOK
    <3>2. {<<f, file'[f]>> : f \in kept} \subseteq Files \X (1 .. MaxFiles)
      BY <2>4, <3>1
    <3>3. odd' = odd \cup {<<f, file'[f]>> : f \in kept}
      BY <1>5 DEF Restart
    <3> QED BY ONLY <3>1, <3>2, <3>3
  <2>9. /\ reading' \in [Files -> 0 .. MaxFiles] /\ hand' \in [Files -> {<< >>} \cup Lines]
        /\ creates' \in [Files -> -1 .. MaxFiles]
    <3>1. 0 \in 0 .. MaxFiles /\ -1 \in -1 .. MaxFiles
      BY LineFacts
    <3> QED BY <1>5, <3>1 DEF Restart
  <2>10. /\ opened' \subseteq unsaved' \X (1 .. MaxFiles) /\ Cardinality(opened') <= 1
         /\ lines' \in Seq(Lines) /\ Len(lines') <= Cardinality(Files)
    <3>1. Cardinality(Files) \in Nat /\ opened' = {} /\ Cardinality(opened') = 0
      BY <1>5, MonitorAssumption, FS_CardinalityType, FS_EmptySet DEF Restart, None
    <3>2. lines' = << >>
      BY <1>5 DEF Restart
    <3> QED BY <3>1, <3>2
  <2>11. /\ mpc' \in {"select", "failed"} /\ held' = << >> /\ gone' = {} /\ ended' = {}
         /\ unsaved' = {} /\ unset' = {} /\ caller' = "none" /\ UNCHANGED <<id, db, again, received>>
    BY <1>5 DEF Restart
  <2> QED BY <1>0, <2>1, <2>2, <2>3, <2>4, <2>6, <2>7, <2>8, <2>9, <2>10, <2>11 DEF TypeOK
<1> QED BY <1>1, <1>2, <1>3, <1>4, <1>5

-----------------------------------------------------------------------------
(* Steps that move no line                                                 *)

\* Ends of goroutines and calls of WaitShutdown.
LEMMA IdleSteps ==
  ASSUME IInv, TypeOK',
         \/ \E f \in Files : FileEnds(f) \/ GoroutineEnds(f)
         \/ TakeNil \/ CloseFile \/ WaitShutdown \/ WaitReturns \/ UNCHANGED vars
  PROVE  IInv'
<1>1. UNCHANGED <<allRuns, runVars, lines, reading, creates, again, given, hand, disk,
                  received>>
  BY DEF FileEnds, GoroutineEnds, TakeNil, CloseFile, WaitShutdown, WaitReturns, vars, goVars
<1> QED BY <1>1, Idle

\* Run's own steps between its loop and its end.
LEMMA LeaveSteps ==
  ASSUME IInv, TypeOK', TakeShutdown \/ Finished \/ SetFails \/ RunReturns
  PROVE  IInv'
<1> USE DEF allRuns, runVars, goVars, disk
<1>0. TypeOK /\ Known /\ Saved /\ Once
  BY DEF IInv
<1>1. UNCHANGED <<allRuns, held, offsets, goVars, lines, disk, opened, received>>
  BY DEF TakeShutdown, Finished, SetFails, RunReturns
<1>2. /\ mpc' \in {"closing", "flush", "returned"} /\ mpc # "receive"
      /\ mpc' \in {"select", "receive"} => mpc \in {"select", "receive"}
  BY DEF TakeShutdown, Finished, SetFails, RunReturns
<1>3. Way' = Way
  BY <1>1 DEF Way
<1>4. \A f \in Files : PerFile(f)'
  BY <1>1, <1>2, <1>3, Frame
<1>5. Known'
  <2>1. opened = {}
    BY <1>0 DEF TakeShutdown, Finished, SetFails, RunReturns, Known, TypeOK, None
  <2> QED BY <1>0, <1>1, <1>2, <2>1 DEF Known, Torn
<1>6. Saved'
  <2>1. CASE TakeShutdown
    BY <2>1 DEF TakeShutdown, Saved
  <2>2. CASE Finished
    BY <2>2 DEF Finished, Saved
  <2>3. CASE SetFails
    BY <1>0, <2>3 DEF SetFails, Saved
  <2>4. CASE RunReturns
    BY <1>0, <2>4 DEF RunReturns, Saved
  <2> QED BY <2>1, <2>2, <2>3, <2>4
<1>7. Once'
  BY <1>0, <1>1, <1>2, OnceKeeps
<1> QED BY <1>4, <1>5, <1>6, <1>7 DEF IInv

\* Run takes a line off the channel: it is on its way as before.
LEMMA TakeLineStep ==
  ASSUME IInv, TypeOK', TakeLine
  PROVE  IInv'
<1> USE DEF allRuns, runVars, goVars, disk
<1>0. TypeOK /\ Known /\ Saved /\ Once
  BY DEF IInv
<1>1. /\ UNCHANGED <<allRuns, offsets, unsaved, opened, unset, goVars, disk, received>>
      /\ mpc = "select" /\ mpc' = "receive" /\ lines # << >>
      /\ held' = Head(lines) /\ lines' = Tail(lines)
  BY DEF TakeLine
<1>2. held = << >> /\ lines \in Seq(Lines)
  BY <1>0, <1>1 DEF Known, TypeOK
<1>3. Head(lines) \in Lines
  BY <1>1, <1>2
<1>4. held' # << >>
  BY <1>1, <1>3, LineFacts
<1>5. Way' = Way
  <2>1. <<Head(lines)>> \o Tail(lines) = lines
    BY <1>1, <1>2
  <2>2. Way' = <<held'>> \o lines' /\ Way = lines
    BY <1>2, <1>4 DEF Way
  <2> QED BY <1>1, <2>1, <2>2
<1>6. \A f \in Files : PerFile(f)'
  BY <1>1, <1>5, Frame
<1>7. Known'
  BY <1>0, <1>1, <1>4 DEF Known, Torn
<1>8. Saved' /\ Once'
  BY <1>0, <1>1, OnceKeeps DEF Saved
<1> QED BY <1>6, <1>7, <1>8 DEF IInv

-----------------------------------------------------------------------------
(* The goroutines                                                          *)

\* A file that a step does not concern.
LEMMA PerFileKeeps ==
  ASSUME IInv, NEW g \in Files, Way' = Way, odd \subseteq odd',
         UNCHANGED <<mpc, offsets, received, db, id, opened>>,
         file'[g] = file[g], hand'[g] = hand[g], reading'[g] = reading[g],
         given'[g] = given[g], again'[g] = again[g]
  PROVE  PerFile(g)'
BY InTurnKeeps, GaplessKeeps, CompleteKeeps, EntriesKeep DEF IInv, PerFile

\* A goroutine opens its file where the offset says, or the file is excused.
LEMMA OpenFileStep ==
  ASSUME IInv, TypeOK', NEW f \in Files, OpenFile(f)
  PROVE  IInv'
<1> USE DEF allRuns, runVars, disk
<1>0. TypeOK /\ Known /\ Saved /\ Once /\ PerFile(f)
  BY DEF IInv
<1>1. /\ UNCHANGED <<allRuns, runVars, creates, again, given, hand, lines, file, id, db,
                      received>>
      /\ reading[f] = 0 /\ reading' = [reading EXCEPT ![f] = file[f]]
      /\ odd' = IF given[f] > 0 /\ offsets[f].of # file[f] THEN odd \cup {<<f, file[f]>>} ELSE odd
  BY DEF OpenFile
<1>2. Way' = Way
  BY <1>1 DEF Way
<1>3. odd \subseteq odd'
  BY <1>1
<1>4. reading'[f] = file[f] /\ \A g \in Files \ {f} : reading'[g] = reading[g]
  BY <1>0, <1>1 DEF TypeOK
<1>5. ASSUME NEW g \in Files \ {f} PROVE PerFile(g)'
  BY <1>1, <1>2, <1>3, <1>4, PerFileKeeps
<1>6. /\ given[f] = offsets[f].n /\ hand[f] = << >>
      /\ \A k \in 1 .. Len(Way) : Way[k][1] # f
  BY <1>0, <1>1 DEF PerFile, InTurn
<1>7. file[f] \in Nat /\ file[f] # 0 /\ offsets[f].of \in Nat /\ offsets[f].n \in Nat
      /\ offsets[f].of <= file[f]
  <2>1. file[f] \in 1 .. MaxFiles
    BY <1>0 DEF TypeOK
  <2>2. file[f] # 0
    BY <2>1
  <2> QED BY <1>0, <2>2, Types DEF Known
<1>8. InTurn(f)'
  <2>1. Le(again[f], offsets[f].of, offsets[f].n, file[f], given[f])
    BY <1>6, <1>7 DEF Le
  <2> QED BY <1>1, <1>2, <1>4, <1>6, <1>7, <2>1 DEF InTurn
<1>9. Gapless(f)'
  <2>1. \A g, m, k : Passes(f, g, m, k)' <=> Passes(f, g, m, k)
    BY <1>1, <1>2 DEF Passes
  <2>2. ASSUME <<f, file[f]>> \notin odd', NEW m \in 1 .. given[f]
        PROVE  Passes(f, file[f], m, Len(Way))
    <3>1. given[f] > 0
      BY <1>6, <1>7
    <3>2. offsets[f].of = file[f]
      BY <1>1, <2>2, <3>1
    <3>3. <<offsets[f].of, m>> \in Range(received[f])
      BY <1>0, <1>3, <1>6, <2>2, <3>2 DEF PerFile, Complete
    <3> QED BY <3>2, <3>3 DEF Passes
  <2> QED BY <1>1, <1>2, <1>4, <1>6, <2>1, <2>2 DEF Gapless
<1>10. Complete(f)' /\ Entries(f)'
  BY <1>0, <1>1, <1>3, CompleteKeeps, EntriesKeep DEF PerFile
<1>11. \A g \in Files : PerFile(g)'
  BY <1>5, <1>8, <1>9, <1>10 DEF PerFile
<1>12. Known'
  <2>1. \A g \in Files : reading'[g] <= file[g]
    BY <1>0, <1>4, <1>7 DEF Known
  <2> QED BY <1>0, <1>1, <2>1 DEF Known, Torn
<1>13. Saved' /\ Once'
  BY <1>0, <1>1, OnceKeeps DEF Saved
<1> QED BY <1>11, <1>12, <1>13 DEF IInv

\* It reads the next line.
LEMMA GenerateLineStep ==
  ASSUME IInv, TypeOK', NEW f \in Files, GenerateLine(f)
  PROVE  IInv'
<1> USE DEF allRuns, runVars, disk
<1>0. TypeOK /\ Known /\ Saved /\ Once /\ PerFile(f)
  BY DEF IInv
<1>1. /\ UNCHANGED <<allRuns, runVars, reading, creates, again, lines, disk, received>>
      /\ reading[f] # 0 /\ hand[f] = << >>
      /\ given' = [given EXCEPT ![f] = @ + 1]
      /\ hand' = [hand EXCEPT ![f] = <<f, reading[f], given[f] + 1>>]
  BY <1>0 DEF GenerateLine, Known
<1>2. Way' = Way
  BY <1>1 DEF Way
<1>4. /\ given'[f] = given[f] + 1 /\ hand'[f] = <<f, reading[f], given[f] + 1>>
      /\ \A g \in Files \ {f} : given'[g] = given[g] /\ hand'[g] = hand[g]
  BY <1>0, <1>1 DEF TypeOK
<1>5. ASSUME NEW g \in Files \ {f} PROVE PerFile(g)'
  BY <1>1, <1>2, <1>4, PerFileKeeps
<1>6. /\ reading[f] \in Nat /\ given[f] \in Nat /\ offsets[f].of \in Nat /\ offsets[f].n \in Nat
      /\ \A k \in 1 .. Len(Way) : Way[k][2] \in Nat /\ Way[k][3] \in Nat
  BY <1>0, Types, WayFacts, LineFacts
<1>7. /\ Le(again[f], offsets[f].of, offsets[f].n, reading[f], given[f])
      /\ \A k \in 1 .. Len(Way) : Way[k][1] = f => Le(again[f], Way[k][2], Way[k][3], reading[f], given[f])
  BY <1>0, <1>1 DEF PerFile, InTurn
<1>8. InTurn(f)'
  <2> DEFINE h == <<f, reading[f], given[f] + 1>>
  <2>1. h[1] = f /\ h[2] = reading[f] /\ h[3] = given[f] + 1
    OBVIOUS
  <2> HIDE DEF h
  <2>2. /\ Lt(again[f], offsets[f].of, offsets[f].n, h[2], h[3])
        /\ Le(again[f], offsets[f].of, offsets[f].n, reading[f], given[f] + 1)
        /\ Le(again[f], h[2], h[3], reading[f], given[f] + 1)
    BY <1>6, <1>7, <2>1 DEF Lt, Le
  <2>3. \A k \in 1 .. Len(Way) : Way[k][1] = f =>
          /\ Lt(again[f], Way[k][2], Way[k][3], h[2], h[3])
          /\ Le(again[f], Way[k][2], Way[k][3], reading[f], given[f] + 1)
    BY <1>6, <1>7, <2>1 DEF Lt, Le
  <2>4. hand'[f] = h
    BY <1>4 DEF h
  <2>5. /\ \A k \in 1 .. Len(Way) : Way[k][1] = f =>
             Lt(again[f], offsets[f].of, offsets[f].n, Way[k][2], Way[k][3])
        /\ \A j, k \in 1 .. Len(Way) : j < k /\ Way[j][1] = f /\ Way[k][1] = f =>
             Lt(again[f], Way[j][2], Way[j][3], Way[k][2], Way[k][3])
    BY <1>0 DEF PerFile, InTurn
  <2>6. /\ offsets'[f] = offsets[f] /\ reading'[f] = reading[f] /\ reading[f] # 0
        /\ given'[f] = given[f] + 1 /\ again'[f] = again[f]
    BY <1>1, <1>4
  <2> QED BY ONLY <1>2, <2>1, <2>2, <2>3, <2>4, <2>5, <2>6 DEF InTurn
<1>9. Gapless(f)'
  <2>1. \A g, m, k : Passes(f, g, m, k)' <=> Passes(f, g, m, k)
    BY <1>1, <1>2 DEF Passes
  <2>2. SUFFICES ASSUME mpc \in {"select", "receive"} PROVE Gapless(f)'
    BY <1>1 DEF Gapless
  <2>3. \A k \in 1 .. Len(Way) : Way[k][1] = f /\ <<f, Way[k][2]>> \notin odd =>
         \A m \in 1 .. Way[k][3] - 1 : Passes(f, Way[k][2], m, k - 1)
    BY <1>0, <2>2 DEF PerFile, Gapless
  <2>4. <<f, reading[f]>> \notin odd => \A m \in 1 .. given[f] : Passes(f, reading[f], m, Len(Way))
    <3>1. \A m : hand[f] # <<f, reading[f], m>>
      BY <1>1
    <3> QED BY <1>0, <1>1, <2>2, <3>1 DEF PerFile, Gapless
  <2>5. hand'[f][2] = reading[f] /\ hand'[f][3] - 1 = given[f]
    BY <1>4, <1>6
  <2>6. <<f, hand'[f][2]>> \notin odd =>
         \A m \in 1 .. hand'[f][3] - 1 : Passes(f, hand'[f][2], m, Len(Way))
    BY <2>4, <2>5
  <2>7. <<f, reading[f]>> \notin odd =>
         \A m \in 1 .. given'[f] : \/ Passes(f, reading[f], m, Len(Way))
                                   \/ hand'[f] = <<f, reading[f], m>>
    <3>1. \A m \in 1 .. given[f] + 1 : m \in 1 .. given[f] \/ m = given[f] + 1
      BY <1>6
    <3> QED BY <1>4, <2>4, <3>1
  <2>8. odd' = odd /\ reading'[f] = reading[f] /\ mpc' = mpc
    BY <1>1
  <2> QED BY ONLY <1>2, <2>1, <2>3, <2>6, <2>7, <2>8 DEF Gapless
<1>10. Complete(f)' /\ Entries(f)'
  BY <1>0, <1>1, CompleteKeeps, EntriesKeep DEF PerFile
<1>11. \A g \in Files : PerFile(g)'
  BY <1>5, <1>8, <1>9, <1>10 DEF PerFile
<1>12. Known'
  BY <1>0, <1>1 DEF Known, Torn
<1>13. Saved' /\ Once'
  BY <1>0, <1>1, OnceKeeps DEF Saved
<1> QED BY <1>11, <1>12, <1>13 DEF IInv

\* The File watches its path.
LEMMA AddWatchStep ==
  ASSUME IInv, TypeOK', NEW f \in Files, AddWatch(f)
  PROVE  IInv'
<1> USE DEF allRuns, runVars, disk
<1>0. TypeOK /\ Known /\ Saved /\ Once
  BY DEF IInv
<1>1. /\ UNCHANGED <<allRuns, runVars, reading, again, given, hand, lines, disk, received>>
      /\ reading[f] # 0 /\ creates' = [creates EXCEPT ![f] = 0]
  BY DEF AddWatch
<1>2. Way' = Way
  BY <1>1 DEF Way
<1>3. \A g \in Files : PerFile(g)'
  BY <1>1, <1>2, PerFileKeeps
<1>4. \A g \in Files : creates'[g] < file[g] /\ (creates'[g] # -1 => reading[g] # 0)
  <2>1. creates'[f] = 0 /\ \A g \in Files \ {f} : creates'[g] = creates[g]
    BY <1>0, <1>1 DEF TypeOK
  <2>2. 0 < file[f]
    <3>1. file[f] \in 1 .. MaxFiles
      BY <1>0 DEF TypeOK
    <3> QED BY <3>1
  <2> QED BY <1>0, <1>1, <2>1, <2>2 DEF Known
<1>5. Known'
  BY <1>0, <1>1, <1>4 DEF Known, Torn
<1>6. Saved' /\ Once'
  BY <1>0, <1>1, OnceKeeps DEF Saved
<1> QED BY <1>3, <1>5, <1>6 DEF IInv

\* It opens its path anew: the file there comes after its own, or is excused.
LEMMA ReopenStep ==
  ASSUME IInv, TypeOK', NEW f \in Files, Reopen(f)
  PROVE  IInv'
<1> USE DEF allRuns, runVars, disk
<1>0. TypeOK /\ Known /\ Saved /\ Once /\ PerFile(f)
  BY DEF IInv
<1>1. /\ UNCHANGED <<allRuns, runVars, hand, lines, disk, received>>
      /\ creates[f] > 0 /\ creates' = [creates EXCEPT ![f] = @ - 1]
      /\ reading' = [reading EXCEPT ![f] = file[f]]
      /\ again' = [again EXCEPT ![f] = @ \cup ({reading[f]} \cap {file[f]})]
      /\ given' = [given EXCEPT ![f] = 0]
  BY DEF Reopen
<1>2. Way' = Way
  BY <1>1 DEF Way
<1>3. creates[f] \in Int
  <2>1. creates[f] \in -1 .. MaxFiles
    BY <1>0 DEF TypeOK
  <2> QED BY <2>1, LineFacts
<1>4. /\ reading'[f] = file[f] /\ given'[f] = 0 /\ creates'[f] = creates[f] - 1
      /\ again'[f] = again[f] \cup ({reading[f]} \cap {file[f]})
      /\ \A g \in Files \ {f} : /\ reading'[g] = reading[g] /\ given'[g] = given[g]
                              /\ creates'[g] = creates[g] /\ again'[g] = again[g]
  BY <1>0, <1>1 DEF TypeOK
<1>5. ASSUME NEW g \in Files \ {f} PROVE PerFile(g)'
  BY <1>1, <1>2, <1>4, PerFileKeeps
<1>6. /\ reading[f] \in Nat /\ given[f] \in Nat /\ offsets[f].of \in Nat /\ offsets[f].n \in Nat
      /\ file[f] \in Nat /\ reading[f] <= file[f]
      /\ \A k \in 1 .. Len(Way) : Way[k][2] \in Nat /\ Way[k][3] \in Nat
      /\ hand[f] # << >> => hand[f][2] \in Nat /\ hand[f][3] \in Nat
  BY <1>0, Types, WayFacts, LineFacts DEF Known
<1>7. reading[f] # 0 /\ file[f] # 0
  <2>1. creates[f] # -1
    BY <1>1, <1>3
  <2>2. file[f] \in 1 .. MaxFiles
    BY <1>0 DEF TypeOK
  <2> QED BY <1>0, <2>1, <2>2 DEF Known
<1> DEFINE w == again[f]
           v == again'[f]
<1>8. v = w \cup ({reading[f]} \cap {file[f]}) /\ w \subseteq v
  BY <1>4
<1> HIDE DEF w, v
<1>9. \A g, n, h, m : (Lt(w, g, n, h, m) => Lt(v, g, n, h, m)) /\ (Le(w, g, n, h, m) => Le(v, g, n, h, m))
  BY <1>8 DEF Lt, Le
<1>10. InTurn(f)'
  <2>1. \A g, n \in Nat : Le(w, g, n, reading[f], given[f]) => Le(v, g, n, file[f], 0)
    <3>1. ASSUME NEW g \in Nat, NEW n \in Nat, Le(w, g, n, reading[f], given[f])
          PROVE  Le(v, g, n, file[f], 0)
      <4>1. g <= reading[f]
        BY <1>6, <3>1 DEF Le
      <4>2. g < file[f] \/ (g = file[f] /\ reading[f] = file[f])
        BY ONLY <1>6, <3>1, <4>1
      <4> QED BY <1>8, <4>2 DEF Le
    <3> QED BY <3>1
  <2>2. /\ \A k \in 1 .. Len(Way) : Way[k][1] = f =>
             Lt(w, offsets[f].of, offsets[f].n, Way[k][2], Way[k][3])
        /\ \A j, k \in 1 .. Len(Way) : j < k /\ Way[j][1] = f /\ Way[k][1] = f =>
             Lt(w, Way[j][2], Way[j][3], Way[k][2], Way[k][3])
        /\ hand[f] # << >> =>
             /\ hand[f][1] = f
             /\ Lt(w, offsets[f].of, offsets[f].n, hand[f][2], hand[f][3])
             /\ Le(w, hand[f][2], hand[f][3], reading[f], given[f])
             /\ \A k \in 1 .. Len(Way) : Way[k][1] = f =>
                  Lt(w, Way[k][2], Way[k][3], hand[f][2], hand[f][3])
        /\ Le(w, offsets[f].of, offsets[f].n, reading[f], given[f])
        /\ \A k \in 1 .. Len(Way) : Way[k][1] = f =>
             Le(w, Way[k][2], Way[k][3], reading[f], given[f])
    BY <1>0, <1>7 DEF PerFile, InTurn, w
  <2>3. /\ \A k \in 1 .. Len(Way) : Way[k][1] = f =>
             Lt(v, offsets[f].of, offsets[f].n, Way[k][2], Way[k][3])
        /\ \A j, k \in 1 .. Len(Way) : j < k /\ Way[j][1] = f /\ Way[k][1] = f =>
             Lt(v, Way[j][2], Way[j][3], Way[k][2], Way[k][3])
        /\ hand[f] # << >> =>
             /\ hand[f][1] = f
             /\ Lt(v, offsets[f].of, offsets[f].n, hand[f][2], hand[f][3])
             /\ Le(v, hand[f][2], hand[f][3], file[f], 0)
             /\ \A k \in 1 .. Len(Way) : Way[k][1] = f =>
                  Lt(v, Way[k][2], Way[k][3], hand[f][2], hand[f][3])
        /\ Le(v, offsets[f].of, offsets[f].n, file[f], 0)
        /\ \A k \in 1 .. Len(Way) : Way[k][1] = f => Le(v, Way[k][2], Way[k][3], file[f], 0)
    BY <1>6, <1>9, <2>1, <2>2
  <2>4. offsets'[f] = offsets[f] /\ hand'[f] = hand[f]
    BY <1>1
  <2> QED BY ONLY <1>2, <1>4, <1>7, <2>3, <2>4 DEF InTurn, v
<1>11. Gapless(f)'
  <2>1. \A g, m, k : Passes(f, g, m, k)' <=> Passes(f, g, m, k)
    BY <1>1, <1>2 DEF Passes
  <2>2. \A m \in 1 .. given'[f] : FALSE
    BY <1>4
  <2> QED BY <1>0, <1>1, <1>2, <2>1, <2>2 DEF PerFile, Gapless
<1>12. Complete(f)' /\ Entries(f)'
  BY <1>0, <1>1, CompleteKeeps, EntriesKeep DEF PerFile
<1>13. \A g \in Files : PerFile(g)'
  BY <1>5, <1>10, <1>11, <1>12 DEF PerFile
<1>14. Known'
  <2>1. \A g \in Files : reading'[g] <= file[g]
    BY <1>0, <1>4, <1>6 DEF Known
  <2>2. \A g \in Files : creates'[g] < file[g] /\ (creates'[g] # -1 => reading'[g] # 0)
    <3>1. creates[f] < file[f]
      BY <1>0 DEF Known
    <3>2. creates[f] - 1 < file[f]
      BY ONLY <1>3, <1>6, <3>1
    <3> QED BY <1>0, <1>4, <1>7, <3>2 DEF Known
  <2> QED BY <1>0, <1>1, <2>1, <2>2 DEF Known, Torn
<1>15. Saved'
  BY <1>0, <1>1 DEF Saved
<1>16. Once'
  <2>1. SUFFICES ASSUME clean PROVE Once'
    BY <1>1 DEF Once
  <2>2. ASSUME NEW g \in Files
        PROVE  /\ \A i \in 1 .. Len(received[g]) :
                    Le(again'[g], received[g][i][1], received[g][i][2], offsets[g].of, offsets[g].n)
               /\ \A i, j \in 1 .. Len(received[g]) : i < j =>
                    Lt(again'[g], received[g][i][1], received[g][i][2],
                       received[g][j][1], received[g][j][2])
    <3>1. /\ \A i \in 1 .. Len(received[g]) :
               Le(again[g], received[g][i][1], received[g][i][2], offsets[g].of, offsets[g].n)
          /\ \A i, j \in 1 .. Len(received[g]) : i < j =>
               Lt(again[g], received[g][i][1], received[g][i][2],
                  received[g][j][1], received[g][j][2])
      BY <1>0, <2>1 DEF Once
    <3>2. CASE g # f
      BY <1>4, <3>1, <3>2
    <3>3. CASE g = f
      BY <1>9, <3>1, <3>3 DEF w, v
    <3> QED BY <3>2, <3>3
  <2>3. mpc' # "failed" /\ UNCHANGED <<received, offsets, db, opened>>
    BY <1>0, <1>1, <2>1 DEF Once
  <2>4. \A g \in Files : db[g] = Torn => \E o \in opened : o[1] = g
    BY <1>0, <2>1 DEF Once
  <2> QED BY ONLY <2>2, <2>3, <2>4 DEF Once, Torn
<1> QED BY <1>13, <1>14, <1>15, <1>16 DEF IInv

\* It puts its line into the channel.
LEMMA PutLineStep ==
  ASSUME IInv, TypeOK', NEW f \in Files, PutLine(f)
  PROVE  IInv'
<1> USE DEF allRuns, runVars, disk
<1>0. TypeOK /\ Known /\ Saved /\ Once /\ \A g \in Files : PerFile(g)
  BY DEF IInv
<1>1. /\ UNCHANGED <<allRuns, runVars, reading, creates, again, given, disk, received>>
      /\ hand[f] # << >> /\ lines' = Append(lines, hand[f])
      /\ hand' = [hand EXCEPT ![f] = << >>]
  BY DEF PutLine
<1>2. hand[f] \in Lines /\ lines \in Seq(Lines) /\ Way \in Seq(Lines) /\ Len(Way) \in Nat
  BY <1>0, <1>1, Types, WayFacts
<1>3. Way' = Append(Way, hand[f])
  <2>1. CASE held = << >>
    BY <1>1, <2>1 DEF Way
  <2>2. CASE held # << >>
    <3>1. held \in Lines
      BY <1>0, <2>2, WayFacts
    <3>2. <<held>> \o Append(lines, hand[f]) = Append(<<held>> \o lines, hand[f])
      BY <1>2, <3>1
    <3> QED BY <1>1, <2>2, <3>2 DEF Way
  <2> QED BY <2>1, <2>2
<1> DEFINE l == Len(Way)
<1>4. /\ l \in Nat /\ Len(Way') = l + 1 /\ Way'[l + 1] = hand[f]
      /\ \A k \in 1 .. l : Way'[k] = Way[k]
      /\ \A k \in 1 .. l + 1 : k \in 1 .. l \/ k = l + 1
      /\ \A k \in 1 .. l : k \in 1 .. l + 1
  BY <1>2, <1>3
<1>5. hand'[f] = << >> /\ \A g \in Files \ {f} : hand'[g] = hand[g]
  BY <1>0, <1>1 DEF TypeOK
<1>6. \A g \in Files : /\ offsets'[g] = offsets[g] /\ reading'[g] = reading[g]
                       /\ given'[g] = given[g] /\ received'[g] = received[g]
                       /\ mpc' = mpc /\ odd' = odd /\ again' = again
  BY <1>1
<1>7. hand[f][1] = f
  BY <1>0, <1>1 DEF PerFile, InTurn
<1> HIDE DEF l
<1> DEFINE Now(g, h, m, k) ==
             <<h, m>> \in Range(received'[g]) \/ \E j \in 1 .. k : Way'[j] = <<g, h, m>>
<1>8. ASSUME NEW g \in Files, NEW h, NEW m, NEW k \in 0 .. l, Passes(g, h, m, k)
      PROVE  Now(g, h, m, k) /\ (k = l => Now(g, h, m, l + 1))
  <2>1. CASE <<h, m>> \in Range(received[g])
    BY <1>6, <2>1
  <2>2. CASE \E j \in 1 .. k : Way[j] = <<g, h, m>>
    <3>1. PICK j \in 1 .. k : Way[j] = <<g, h, m>>
      BY <2>2
    <3>2. j \in 1 .. l /\ j \in 1 .. l + 1 /\ Way'[j] = <<g, h, m>>
      BY <1>4, <3>1
    <3> QED BY <3>2
  <2> QED BY <1>8, <2>1, <2>2 DEF Passes
<1> HIDE DEF Now
<1>9. ASSUME NEW g \in Files PROVE InTurn(g)'
  <2>1. InTurn(g)
    BY <1>0 DEF PerFile
  <2>2. CASE g # f
    <3>1. hand'[g] = hand[g]
      BY <1>5, <2>2
    <3>2. \A k \in 1 .. l + 1 : Way'[k][1] = g => k \in 1 .. l /\ Way'[k] = Way[k]
      BY <1>4, <1>7, <2>2
    <3> QED BY ZenonT(60), <1>4, <1>6, <2>1, <3>1, <3>2 DEF InTurn, l
  <2>3. CASE g = f
    <3>1. \A k \in 1 .. l + 1 : Way'[k][1] = f =>
            Lt(again[f], offsets[f].of, offsets[f].n, Way'[k][2], Way'[k][3])
      BY <1>1, <1>4, <2>1, <2>3 DEF InTurn, l
    <3>2. ASSUME NEW j \in 1 .. l + 1, NEW k \in 1 .. l + 1, j < k,
                 Way'[j][1] = f, Way'[k][1] = f
          PROVE  Lt(again[f], Way'[j][2], Way'[j][3], Way'[k][2], Way'[k][3])
      <4>1. j \in 1 .. l
        BY <1>4, <3>2
      <4>2. CASE k \in 1 .. l
        BY <1>4, <2>1, <2>3, <3>2, <4>1, <4>2 DEF InTurn, l
      <4>3. CASE k = l + 1
        BY <1>1, <1>4, <2>1, <2>3, <3>2, <4>1, <4>3 DEF InTurn, l
      <4> QED BY <1>4, <4>2, <4>3
    <3>3. /\ reading[f] # 0
          /\ Le(again[f], offsets[f].of, offsets[f].n, reading[f], given[f])
          /\ \A k \in 1 .. l + 1 : Way'[k][1] = f =>
               Le(again[f], Way'[k][2], Way'[k][3], reading[f], given[f])
      BY <1>1, <1>4, <2>1, <2>3 DEF InTurn, l
    <3> QED BY <1>4, <1>5, <1>6, <2>3, <3>1, <3>2, <3>3 DEF InTurn
  <2> QED BY <2>2, <2>3
<1>10. ASSUME NEW g \in Files PROVE Gapless(g)'
  <2>1. SUFFICES ASSUME mpc \in {"select", "receive"} PROVE Gapless(g)'
    BY <1>6 DEF Gapless
  <2>2. /\ \A k \in 1 .. l : Way[k][1] = g /\ <<g, Way[k][2]>> \notin odd =>
             \A m \in 1 .. Way[k][3] - 1 : Passes(g, Way[k][2], m, k - 1)
        /\ hand[g] # << >> /\ <<g, hand[g][2]>> \notin odd =>
             \A m \in 1 .. hand[g][3] - 1 : Passes(g, hand[g][2], m, l)
        /\ reading[g] # 0 /\ <<g, reading[g]>> \notin odd =>
             \A m \in 1 .. given[g] : \/ Passes(g, reading[g], m, l)
                                      \/ hand[g] = <<g, reading[g], m>>
    BY <1>0, <2>1 DEF PerFile, Gapless, l
  <2>3. l \in 0 .. l /\ \A k \in 1 .. l : k - 1 \in 0 .. l
    BY <1>4
  <2>4. ASSUME NEW k \in 1 .. l + 1, Way'[k][1] = g, <<g, Way'[k][2]>> \notin odd,
               NEW m \in 1 .. Way'[k][3] - 1
        PROVE  Now(g, Way'[k][2], m, k - 1)
    <3>1. CASE k \in 1 .. l
      <4>1. Passes(g, Way[k][2], m, k - 1) /\ Way'[k] = Way[k]
        BY <1>4, <2>2, <2>4, <3>1
      <4>2. Now(g, Way[k][2], m, k - 1)
        BY <1>8, <2>3, <3>1, <4>1
      <4> QED BY <4>1, <4>2
    <3>2. CASE k = l + 1
      <4>1. Way'[k] = hand[f] /\ g = f /\ k - 1 = l
        BY <1>4, <1>7, <2>4, <3>2
      <4>2. Passes(f, hand[f][2], m, l)
        BY <1>1, <2>2, <2>4, <4>1
      <4>3. Now(f, hand[f][2], m, l)
        BY <1>8, <2>3, <4>2
      <4> QED BY <4>1, <4>3
    <3> QED BY <1>4, <3>1, <3>2
  <2>5. ASSUME hand'[g] # << >>, <<g, hand'[g][2]>> \notin odd, NEW m \in 1 .. hand'[g][3] - 1
        PROVE  Now(g, hand'[g][2], m, l + 1)
    <3>1. g # f /\ hand'[g] = hand[g]
      BY <1>5, <2>5
    <3>2. Passes(g, hand[g][2], m, l)
      BY <2>2, <2>5, <3>1
    <3>3. Now(g, hand[g][2], m, l + 1)
      BY <1>8, <2>3, <3>2
    <3> QED BY <3>1, <3>3
  <2>6. ASSUME reading[g] # 0, <<g, reading[g]>> \notin odd, NEW m \in 1 .. given[g]
        PROVE  Now(g, reading[g], m, l + 1) \/ hand'[g] = <<g, reading[g], m>>
    <3>1. CASE Passes(g, reading[g], m, l)
      <4>1. Now(g, reading[g], m, l + 1)
        BY <1>8, <2>3, <3>1
      <4> QED BY <4>1
    <3>2. CASE hand[g] = <<g, reading[g], m>>
      <4>1. CASE g # f
        BY <1>5, <3>2, <4>1
      <4>2. CASE g = f
        <5>1. l + 1 \in 1 .. l + 1 /\ Way'[l + 1] = <<g, reading[g], m>>
          BY <1>4, <3>2, <4>2
        <5> QED BY <1>6, <5>1 DEF Now
      <4> QED BY <4>1, <4>2
    <3> QED BY <2>2, <2>6, <3>1, <3>2
  <2>7. Len(Way)' = l + 1 /\ odd' = odd /\ reading'[g] = reading[g] /\ given'[g] = given[g]
    BY <1>4, <1>6
  <2> QED BY ONLY <2>4, <2>5, <2>6, <2>7 DEF Gapless, Passes, Now
<1>11. \A g \in Files : Complete(g)' /\ Entries(g)'
  BY <1>0, <1>1, CompleteKeeps, EntriesKeep DEF PerFile
<1>12. \A g \in Files : PerFile(g)'
  BY <1>9, <1>10, <1>11 DEF PerFile
<1>13. Known'
  BY <1>0, <1>1 DEF Known, Torn
<1>14. Saved' /\ Once'
  BY <1>0, <1>1, OnceKeeps DEF Saved
<1> QED BY <1>12, <1>13, <1>14 DEF IInv

-----------------------------------------------------------------------------
(* The receiver                                                            *)

\* What is on its way when Run is done with its line.
LEMMA WayTail ==
  ASSUME TypeOK, Known, mpc = "receive", held' = << >>, lines' = lines
  PROVE  /\ held \in Lines /\ Way[1] = held /\ Len(Way) \in Nat /\ Len(Way) >= 1
         /\ Len(Way') = Len(Way) - 1
         /\ \A k \in 1 .. Len(Way) - 1 : k + 1 \in 1 .. Len(Way) /\ Way'[k] = Way[k + 1]
<1>1. held # << >>
  BY DEF Known
<1>2. /\ held \in Lines /\ Way # << >> /\ Head(Way) = held /\ Tail(Way) = lines
      /\ Way \in Seq(Lines)
  BY <1>1, WayFacts
<1>3. Way' = lines
  BY DEF Way
<1> DEFINE w == Way
<1>4. Way' = Tail(w) /\ w \in Seq(Lines) /\ w # << >> /\ Head(w) = held
  BY <1>2, <1>3
<1> HIDE DEF w
<1>5. /\ Len(w) \in Nat /\ Len(w) >= 1 /\ w[1] = held /\ Len(Tail(w)) = Len(w) - 1
      /\ \A k \in 1 .. Len(w) - 1 : k + 1 \in 1 .. Len(w) /\ Tail(w)[k] = w[k + 1]
  BY <1>4
<1> QED BY <1>2, <1>4, <1>5 DEF w

\* The lines behind it stay in order, and those of its file come after it.
LEMMA InTurnTail ==
  ASSUME IInv, mpc = "receive", held' = << >>, lines' = lines,
         UNCHANGED <<hand, reading, again, given>>, NEW f \in Files,
         offsets'[f] = offsets[f] \/
           (f = held[1] /\ offsets'[f].of = held[2] /\ offsets'[f].n = held[3])
  PROVE  InTurn(f)'
<1>1. TypeOK /\ Known /\ InTurn(f)
  BY DEF IInv, PerFile
<1> DEFINE w == Way
           v == Way'
<1>2. /\ held \in Lines /\ w[1] = held /\ Len(w) \in Nat /\ Len(w) >= 1
      /\ Len(v) = Len(w) - 1
      /\ \A k \in 1 .. Len(w) - 1 : k + 1 \in 1 .. Len(w) /\ v[k] = w[k + 1]
  BY <1>1, WayTail
<1>3. /\ hand'[f] = hand[f] /\ reading'[f] = reading[f] /\ given'[f] = given[f]
      /\ again' = again
  OBVIOUS
<1>4. /\ \A k \in 1 .. Len(w) : w[k][1] = f =>
           Lt(again[f], offsets[f].of, offsets[f].n, w[k][2], w[k][3])
      /\ \A j, k \in 1 .. Len(w) : j < k /\ w[j][1] = f /\ w[k][1] = f =>
           Lt(again[f], w[j][2], w[j][3], w[k][2], w[k][3])
      /\ hand[f] # << >> =>
           /\ hand[f][1] = f /\ reading[f] # 0
           /\ Lt(again[f], offsets[f].of, offsets[f].n, hand[f][2], hand[f][3])
           /\ Le(again[f], hand[f][2], hand[f][3], reading[f], given[f])
           /\ \A k \in 1 .. Len(w) : w[k][1] = f =>
                Lt(again[f], w[k][2], w[k][3], hand[f][2], hand[f][3])
      /\ reading[f] # 0 =>
           /\ Le(again[f], offsets[f].of, offsets[f].n, reading[f], given[f])
           /\ \A k \in 1 .. Len(w) : w[k][1] = f =>
                Le(again[f], w[k][2], w[k][3], reading[f], given[f])
      /\ reading[f] = 0 =>
           given[f] = offsets[f].n /\ \A k \in 1 .. Len(w) : w[k][1] # f
  BY <1>1 DEF InTurn
<1> HIDE DEF w, v
<1>5. 1 \in 1 .. Len(w)
  BY <1>2
<1>6. \A k \in 1 .. Len(v) : v[k][1] = f =>
        Lt(again[f], offsets'[f].of, offsets'[f].n, v[k][2], v[k][3])
  <2>1. SUFFICES ASSUME NEW k \in 1 .. Len(v), v[k][1] = f
                 PROVE  Lt(again[f], offsets'[f].of, offsets'[f].n, v[k][2], v[k][3])
    OBVIOUS
  <2>2. k + 1 \in 1 .. Len(w) /\ v[k] = w[k + 1] /\ 1 < k + 1
    BY <1>2
  <2>3. CASE offsets'[f] = offsets[f]
    BY <1>4, <2>1, <2>2, <2>3
  <2>4. CASE f = held[1] /\ offsets'[f].of = held[2] /\ offsets'[f].n = held[3]
    BY <1>2, <1>4, <1>5, <2>1, <2>2, <2>4
  <2> QED BY <2>3, <2>4
<1>7. \A j, k \in 1 .. Len(v) : j < k /\ v[j][1] = f /\ v[k][1] = f =>
           Lt(again[f], v[j][2], v[j][3], v[k][2], v[k][3])
  <2>1. SUFFICES ASSUME NEW j \in 1 .. Len(v), NEW k \in 1 .. Len(v), j < k,
                        v[j][1] = f, v[k][1] = f
                 PROVE  Lt(again[f], v[j][2], v[j][3], v[k][2], v[k][3])
    OBVIOUS
  <2>2. /\ k + 1 \in 1 .. Len(w) /\ v[k] = w[k + 1] /\ j + 1 \in 1 .. Len(w)
        /\ v[j] = w[j + 1] /\ j + 1 < k + 1
    BY <1>2, <2>1
  <2> QED BY <1>4, <2>1, <2>2
<1>8. hand[f] # << >> =>
        /\ hand[f][1] = f /\ reading[f] # 0
        /\ Lt(again[f], offsets'[f].of, offsets'[f].n, hand[f][2], hand[f][3])
        /\ Le(again[f], hand[f][2], hand[f][3], reading[f], given[f])
        /\ \A k \in 1 .. Len(v) : v[k][1] = f =>
             Lt(again[f], v[k][2], v[k][3], hand[f][2], hand[f][3])
  BY <1>2, <1>4, <1>5
<1>9. reading[f] # 0 =>
        /\ Le(again[f], offsets'[f].of, offsets'[f].n, reading[f], given[f])
        /\ \A k \in 1 .. Len(v) : v[k][1] = f =>
             Le(again[f], v[k][2], v[k][3], reading[f], given[f])
  BY <1>2, <1>4, <1>5
<1>10. reading[f] = 0 =>
         given[f] = offsets'[f].n /\ \A k \in 1 .. Len(v) : v[k][1] # f
  BY <1>2, <1>4, <1>5
<1> QED BY <1>3, <1>6, <1>7, <1>8, <1>9, <1>10 DEF InTurn, v

\* The receiver does not take the line: nothing more is passed on.
LEMMA ReceiveFailsStep ==
  ASSUME IInv, TypeOK', ReceiveFails
  PROVE  IInv'
<1> USE DEF allRuns, runVars, goVars, disk
<1>0. TypeOK /\ Known /\ Saved /\ Once /\ \A f \in Files : PerFile(f)
  BY DEF IInv
<1>1. /\ UNCHANGED <<allRuns, offsets, unsaved, opened, unset, goVars, lines, disk, received>>
      /\ mpc = "receive" /\ mpc' = "closing" /\ held' = << >>
  BY DEF ReceiveFails
<1>2. ASSUME NEW f \in Files PROVE PerFile(f)'
  <2>1. InTurn(f)'
    BY <1>1, InTurnTail
  <2>2. Gapless(f)'
    BY <1>1 DEF Gapless
  <2>3. Complete(f)' /\ Entries(f)'
    BY <1>0, <1>1, CompleteKeeps, EntriesKeep DEF PerFile
  <2> QED BY <2>1, <2>2, <2>3 DEF PerFile
<1>3. Known'
  BY <1>0, <1>1 DEF Known, Torn
<1>4. Saved' /\ Once'
  BY <1>0, <1>1, OnceKeeps DEF Saved
<1> QED BY <1>2, <1>3, <1>4 DEF IInv

\* The receiver takes the line: all earlier ones it had, and the offset moves on.
LEMMA ReceiveOKStep ==
  ASSUME IInv, TypeOK', ReceiveOK
  PROVE  IInv'
<1> USE DEF allRuns, runVars, goVars, disk
<1>0. TypeOK /\ Known /\ Saved /\ Once /\ \A f \in Files : PerFile(f)
  BY DEF IInv
<1> DEFINE e == <<held[2], held[3]>>
<1>a. PICK f \in Files : f = held[1]
  <2>1. held \in Lines
    BY <1>0, WayTail DEF ReceiveOK
  <2> QED BY <2>1, LineFacts
<1>1. /\ UNCHANGED <<allRuns, unsaved, opened, unset, goVars, lines, disk>>
      /\ mpc = "receive" /\ mpc' = "select" /\ held' = << >>
      /\ received' = [received EXCEPT ![f] = Append(@, e)]
      /\ offsets' = [offsets EXCEPT ![f] = [of |-> held[2], n |-> held[3]]]
  BY <1>a DEF ReceiveOK
<1> DEFINE w == Way
           v == Way'
           l == Len(Way)
<1>2. /\ held \in Lines /\ w[1] = held /\ l \in Nat /\ l >= 1
      /\ Len(v) = l - 1
      /\ \A k \in 1 .. l - 1 : k + 1 \in 1 .. l /\ v[k] = w[k + 1]
  BY <1>0, <1>1, WayTail
<1>3. /\ f \in Files /\ held[2] \in Nat /\ held[3] \in Nat /\ held[3] > 0
      /\ held = <<f, held[2], held[3]>> /\ e[1] = held[2] /\ e[2] = held[3]
  BY <1>2, <1>a, LineFacts
<1> HIDE DEF e
<1>4. /\ received'[f] = Append(received[f], e)
      /\ offsets'[f].of = held[2] /\ offsets'[f].n = held[3]
      /\ \A g \in Files \ {f} : received'[g] = received[g] /\ offsets'[g] = offsets[g]
  BY <1>0, <1>1, <1>3 DEF TypeOK
<1>5. \A g \in Files : Len(received[g]) \in Nat /\ received[g] \in Seq((1 .. MaxFiles) \X (Numbers \ {0}))
  BY <1>0, Types
<1> DEFINE r == received[f]
           q == Len(r)
<1>6. /\ q \in Nat /\ Len(received'[f]) = q + 1 /\ received'[f][q + 1] = e
      /\ \A i \in 1 .. q : received'[f][i] = r[i]
      /\ \A i \in 1 .. q + 1 : i \in 1 .. q \/ i = q + 1
  <2>1. r \in Seq((1 .. MaxFiles) \X (Numbers \ {0})) /\ received'[f] = Append(r, e)
    BY <1>3, <1>4, <1>5
  <2>2. e \in (1 .. MaxFiles) \X (Numbers \ {0})
    <3>1. held[2] \in 1 .. MaxFiles /\ held[3] \in Numbers \ {0}
      BY <1>2 DEF Lines
    <3> QED BY <3>1 DEF e
  <2> HIDE DEF r
  <2> QED BY <2>1, <2>2
<1>7. /\ Range(received'[f]) = Range(received[f]) \cup {e}
      /\ \A g \in Files : Range(received[g]) \subseteq Range(received'[g])
  <2>1. /\ DOMAIN received'[f] = 1 .. q + 1 /\ DOMAIN received[f] = 1 .. q
    <3>1. received'[f] \in Seq((1 .. MaxFiles) \X (Numbers \ {0}))
      BY <1>3 DEF TypeOK
    <3> QED BY <1>3, <1>5, <1>6, <3>1
  <2>2. \A i \in 1 .. q : i \in 1 .. q + 1
    BY <1>6
  <2>3. q + 1 \in 1 .. q + 1
    BY <1>6
  <2>4. Range(received'[f]) = Range(received[f]) \cup {e}
    BY <1>6, <2>1, <2>2, <2>3 DEF Range
  <2> QED BY <1>4, <2>4
<1>8. ASSUME NEW g \in Files PROVE InTurn(g)'
  <2>1. \/ offsets'[g] = offsets[g]
        \/ g = held[1] /\ offsets'[g].of = held[2] /\ offsets'[g].n = held[3]
    BY <1>4, <1>a
  <2> QED BY <1>1, <2>1, InTurnTail
<1> DEFINE Now(g, h, m, k) ==
             <<h, m>> \in Range(received'[g]) \/ \E j \in 1 .. k : v[j] = <<g, h, m>>
<1> HIDE DEF w, v, l, r, q
<1>9. ASSUME NEW g \in Files, NEW h, NEW m, NEW k \in 0 .. l,
             <<h, m>> \in Range(received[g]) \/ \E j \in 1 .. k : w[j] = <<g, h, m>>
      PROVE  Now(g, h, m, k - 1)
  <2>1. CASE <<h, m>> \in Range(received[g])
    BY <1>7, <2>1
  <2>2. ASSUME NEW j \in 1 .. k, w[j] = <<g, h, m>> PROVE Now(g, h, m, k - 1)
    <3>1. CASE j = 1
      <4>1. g = f /\ <<h, m>> = e
        BY <1>2, <1>3, <2>2, <3>1 DEF e
      <4> QED BY <1>7, <4>1
    <3>2. CASE j # 1
      <4>1. j - 1 \in 1 .. l - 1 /\ j - 1 \in 1 .. k - 1 /\ (j - 1) + 1 = j
        BY <1>2, <3>2
      <4>2. v[j - 1] = <<g, h, m>>
        BY <1>2, <2>2, <4>1
      <4> QED BY <4>1, <4>2
    <3> QED BY <3>1, <3>2
  <2> QED BY <1>9, <2>1, <2>2
<1> HIDE DEF Now
<1>10. ASSUME NEW g \in Files PROVE Gapless(g)'
  <2> DEFINE Then(h, m, k) ==
               <<h, m>> \in Range(received[g]) \/ \E j \in 1 .. k : w[j] = <<g, h, m>>
  <2>1. /\ \A k \in 1 .. l : w[k][1] = g /\ <<g, w[k][2]>> \notin odd =>
             \A m \in 1 .. w[k][3] - 1 : Then(w[k][2], m, k - 1)
        /\ hand[g] # << >> /\ <<g, hand[g][2]>> \notin odd =>
             \A m \in 1 .. hand[g][3] - 1 : Then(hand[g][2], m, l)
        /\ reading[g] # 0 /\ <<g, reading[g]>> \notin odd =>
             \A m \in 1 .. given[g] : \/ Then(reading[g], m, l)
                                      \/ hand[g] = <<g, reading[g], m>>
    BY <1>0, <1>1 DEF PerFile, Gapless, Passes, l, w
  <2>2. l \in 0 .. l
    BY <1>2
  <2>3. \A h, m : Then(h, m, l) => Now(g, h, m, l - 1)
    BY <1>9, <2>2
  <2> HIDE DEF Then
  <2>4. ASSUME NEW k \in 1 .. l - 1, v[k][1] = g, <<g, v[k][2]>> \notin odd,
               NEW m \in 1 .. v[k][3] - 1
        PROVE  Now(g, v[k][2], m, k - 1)
    <3>1. k + 1 \in 1 .. l /\ v[k] = w[k + 1] /\ (k + 1) - 1 = k /\ k \in 0 .. l
      BY <1>2
    <3>2. Then(w[k + 1][2], m, (k + 1) - 1)
      BY <2>1, <2>4, <3>1
    <3>3. Now(g, w[k + 1][2], m, k - 1)
      BY <1>9, <3>1, <3>2 DEF Then
    <3> QED BY <3>1, <3>3
  <2>5. /\ hand[g] # << >> /\ <<g, hand[g][2]>> \notin odd =>
             \A m \in 1 .. hand[g][3] - 1 : Now(g, hand[g][2], m, l - 1)
        /\ reading[g] # 0 /\ <<g, reading[g]>> \notin odd =>
             \A m \in 1 .. given[g] : \/ Now(g, reading[g], m, l - 1)
                                      \/ hand[g] = <<g, reading[g], m>>
    BY <2>1, <2>3
  <2>6. Len(v) = l - 1 /\ UNCHANGED <<hand, reading, given, odd>>
    BY <1>1, <1>2
  <2> QED BY ONLY <2>4, <2>5, <2>6 DEF Gapless, Passes, Now, v
<1>11. ASSUME <<f, held[2]>> \notin odd, NEW n \in 1 .. held[3] - 1
       PROVE  <<held[2], n>> \in Range(received[f])
  <2>1. 1 \in 1 .. l /\ \A j \in 1 .. 1 - 1 : FALSE
    BY <1>2
  <2>2. w[1][1] = f
    BY <1>2, <1>a
  <2>3. Passes(f, w[1][2], n, 1 - 1)
    BY <1>0, <1>1, <1>2, <1>3, <1>11, <2>1, <2>2 DEF PerFile, Gapless, w, l
  <2> QED BY <1>2, <2>1, <2>3 DEF Passes
<1>12. Complete(f)'
  <2>1. odd' = odd /\ db'[f] = db[f] /\ Complete(f)
    BY <1>0, <1>1, <1>3 DEF PerFile
  <2>2. ASSUME NEW i \in 1 .. q + 1, <<f, received'[f][i][1]>> \notin odd,
               NEW n \in 1 .. received'[f][i][2] - 1
        PROVE  \E j \in 1 .. i - 1 : received'[f][j] = <<received'[f][i][1], n>>
    <3>1. CASE i \in 1 .. q
      <4>1. received'[f][i] = received[f][i] /\ i \in 1 .. Len(received[f])
        BY <1>6, <3>1 DEF r, q
      <4>2. PICK j \in 1 .. i - 1 : received[f][j] = <<received[f][i][1], n>>
        BY <2>1, <2>2, <4>1 DEF Complete
      <4>3. j \in 1 .. q
        BY <1>6, <3>1
      <4>4. received'[f][j] = received[f][j]
        BY <1>6, <4>3 DEF r
      <4> QED BY <4>1, <4>2, <4>4
    <3>2. CASE i = q + 1
      <4>1. received'[f][i] = e /\ i - 1 = q
        BY <1>6, <3>2
      <4>2. <<held[2], n>> \in Range(received[f])
        BY <1>3, <1>11, <2>2, <4>1
      <4>3. PICK j \in DOMAIN received[f] : received[f][j] = <<held[2], n>>
        BY <4>2 DEF Range
      <4>4. j \in 1 .. q
        BY <1>3, <1>5, <4>3 DEF r, q
      <4>5. received'[f][j] = <<held[2], n>>
        BY <1>6, <4>3, <4>4 DEF r
      <4> QED BY <1>3, <4>1, <4>4, <4>5
    <3> QED BY <1>6, <3>1, <3>2
  <2>3. <<f, held[2]>> \notin odd => \A n \in 1 .. held[3] : <<held[2], n>> \in Range(received'[f])
    <3>1. \A n \in 1 .. held[3] : n \in 1 .. held[3] - 1 \/ n = held[3]
      BY <1>3
    <3> QED BY <1>7, <1>11, <3>1 DEF e
  <2>4. <<f, db[f].of>> \notin odd => \A n \in 1 .. db[f].n : <<db[f].of, n>> \in Range(received'[f])
    BY <1>7, <2>1 DEF Complete
  <2>5. Len(received'[f]) = q + 1 /\ offsets'[f].of = held[2] /\ offsets'[f].n = held[3]
    BY <1>4, <1>6
  <2> QED BY ONLY <2>1, <2>2, <2>3, <2>4, <2>5 DEF Complete
<1>13. ASSUME NEW g \in Files PROVE Complete(g)'
  <2>1. CASE g = f
    BY <1>12, <2>1
  <2>2. CASE g # f
    <3>1. received'[g] = received[g] /\ offsets'[g] = offsets[g] /\ db'[g] = db[g] /\ odd' = odd
      BY <1>1, <1>4, <2>2
    <3> QED BY <1>0, <3>1, CompleteKeeps DEF PerFile
  <2> QED BY <2>1, <2>2
<1>14. \A g \in Files : Entries(g)'
  <2>1. opened = {} /\ opened' = {}
    BY <1>0, <1>1 DEF Known
  <2> QED BY <1>0, <1>1, <2>1 DEF PerFile, Entries
<1>15. Known'
  <2>1. held[2] <= file[f]
    <3>1. 1 \in 1 .. l /\ w[1][1] = f
      BY <1>2, <1>a
    <3>2. InTurn(f)
      BY <1>0 DEF PerFile
    <3>3. reading[f] # 0
      BY <3>1, <3>2 DEF InTurn, w, l
    <3>4. Le(again[f], held[2], held[3], reading[f], given[f])
      BY <1>2, <3>1, <3>2, <3>3 DEF InTurn, w, l
    <3>5. reading[f] <= file[f] /\ reading[f] \in Nat /\ file[f] \in Nat
      BY <1>0, Types DEF Known
    <3> QED BY <1>3, <3>4, <3>5 DEF Le
  <2>2. \A g \in Files : offsets'[g].of <= file[g]
    BY <1>0, <1>4, <2>1 DEF Known
  <2> QED BY <1>0, <1>1, <2>2 DEF Known, Torn
<1>16. Saved'
  BY <1>1 DEF Saved
<1>17. Once'
  <2>1. SUFFICES ASSUME clean PROVE Once'
    BY <1>1 DEF Once
  <2>2. mpc' # "failed" /\ UNCHANGED <<clean, db, opened, again>>
    BY <1>1
  <2>3. \A g \in Files : db[g] = Torn => \E o \in opened : o[1] = g
    BY <1>0, <2>1 DEF Once
  <2>4. /\ \A i \in 1 .. q : Le(again[f], r[i][1], r[i][2], offsets[f].of, offsets[f].n)
        /\ \A i, j \in 1 .. q : i < j => Lt(again[f], r[i][1], r[i][2], r[j][1], r[j][2])
    BY <1>0, <2>1 DEF Once, r, q
  <2>5. Lt(again[f], offsets[f].of, offsets[f].n, held[2], held[3])
    <3>1. 1 \in 1 .. l /\ w[1][1] = f
      BY <1>2, <1>a
    <3>2. InTurn(f)
      BY <1>0 DEF PerFile
    <3> QED BY <1>2, <3>1, <3>2 DEF InTurn, w, l
  <2>6. /\ \A i \in 1 .. q : r[i][1] \in Nat /\ r[i][2] \in Nat
        /\ offsets[f].of \in Nat /\ offsets[f].n \in Nat
    BY <1>0, Types DEF r, q
  <2>7. \A i \in 1 .. q : /\ Lt(again[f], r[i][1], r[i][2], held[2], held[3])
                          /\ Le(again[f], r[i][1], r[i][2], held[2], held[3])
    BY <1>3, <2>4, <2>5, <2>6 DEF Lt, Le
  <2>8. \A i \in 1 .. q + 1 :
          Le(again[f], received'[f][i][1], received'[f][i][2], offsets'[f].of, offsets'[f].n)
    <3>1. Le(again[f], e[1], e[2], held[2], held[3])
      BY <1>3 DEF Le
    <3> QED BY <1>4, <1>6, <2>7, <3>1
  <2>9. \A i, j \in 1 .. q + 1 : i < j =>
          Lt(again[f], received'[f][i][1], received'[f][i][2], received'[f][j][1], received'[f][j][2])
    <3>1. SUFFICES ASSUME NEW i \in 1 .. q + 1, NEW j \in 1 .. q + 1, i < j
                   PROVE  Lt(again[f], received'[f][i][1], received'[f][i][2],
                             received'[f][j][1], received'[f][j][2])
      OBVIOUS
    <3>2. i \in 1 .. q /\ received'[f][i] = r[i]
      BY <1>6, <3>1
    <3>3. CASE j \in 1 .. q
      BY <1>6, <2>4, <3>1, <3>2, <3>3
    <3>4. CASE j = q + 1
      BY <1>3, <1>6, <2>7, <3>2, <3>4
    <3> QED BY <1>6, <3>3, <3>4
  <2>10. ASSUME NEW g \in Files
         PROVE  /\ \A i \in 1 .. Len(received'[g]) :
                     Le(again[g], received'[g][i][1], received'[g][i][2],
                        offsets'[g].of, offsets'[g].n)
                /\ \A i, j \in 1 .. Len(received'[g]) : i < j =>
                     Lt(again[g], received'[g][i][1], received'[g][i][2],
                        received'[g][j][1], received'[g][j][2])
    <3>1. CASE g = f
      BY <1>6, <2>8, <2>9, <3>1
    <3>2. CASE g # f
      <4>1. received'[g] = received[g] /\ offsets'[g] = offsets[g]
        BY <1>4, <3>2
      <4> QED BY <1>0, <2>1, <4>1 DEF Once
    <3> QED BY <3>1, <3>2
  <2> QED BY ONLY <2>2, <2>3, <2>10 DEF Once, Torn
<1>18. \A g \in Files : PerFile(g)'
  BY <1>8, <1>10, <1>13, <1>14 DEF PerFile
<1> QED BY <1>15, <1>16, <1>17, <1>18 DEF IInv

-----------------------------------------------------------------------------
(* The offset database                                                     *)

\* A file whose entry a step of FlushOffsets does not concern.
LEMMA FlushKeeps ==
  ASSUME IInv, NEW g \in Files, Way' = Way, odd \subseteq odd',
         UNCHANGED <<mpc, offsets, received, id, hand, reading, again, given, file>>,
         db'[g] = db[g], \A o \in opened' : o[1] # g
  PROVE  PerFile(g)'
<1>1. PerFile(g)
  BY DEF IInv
<1>2. InTurn(g)' /\ Gapless(g)' /\ Complete(g)'
  BY <1>1, InTurnKeeps, GaplessKeeps, CompleteKeeps DEF PerFile
<1>3. Entries(g)'
  BY <1>1 DEF PerFile, Entries
<1> QED BY <1>2, <1>3 DEF PerFile

\* Set empties the entry and keeps the ID of the file at the path.
LEMMA CreateEntryStep ==
  ASSUME IInv, TypeOK', CreateEntry
  PROVE  IInv'
<1> USE DEF allRuns, runVars, goVars, disk
<1>0. TypeOK /\ Known /\ Saved /\ Once
  BY DEF IInv
<1>1. PICK f \in unsaved :
        /\ opened' = {<<f, id[f]>>}
        /\ db' = [db EXCEPT ![f] = Torn]
        /\ odd' = IF offsets[f].of # file[f] THEN odd \cup {<<f, file[f]>>} ELSE odd
  BY DEF CreateEntry, Calculate
<1>2. /\ UNCHANGED <<allRuns, mpc, held, offsets, unsaved, unset, goVars, lines, file, id, received>>
      /\ mpc = "flush" /\ opened = {}
  BY DEF CreateEntry, None
<1>3. f \in Files /\ PerFile(f)
  BY <1>0 DEF TypeOK, IInv
<1>4. db'[f] = Torn /\ \A g \in Files \ {f} : db'[g] = db[g]
  BY <1>0, <1>1, <1>3 DEF TypeOK
<1>5. Way' = Way /\ odd \subseteq odd'
  BY <1>1, <1>2 DEF Way
<1>6. ASSUME NEW g \in Files \ {f} PROVE PerFile(g)'
  <2>1. db'[g] = db[g] /\ \A o \in opened' : o[1] # g
    BY <1>1, <1>4
  <2> QED BY <1>2, <1>5, <2>1, FlushKeeps
<1>7. PerFile(f)'
  <2>1. InTurn(f)' /\ Gapless(f)'
    BY <1>2, <1>3, <1>5, InTurnKeeps, GaplessKeeps DEF PerFile
  <2>2. Complete(f)'
    <3>1. \A n \in 1 .. db'[f].n : FALSE
      BY <1>4 DEF Torn
    <3>2. /\ \A i \in 1 .. Len(received[f]) :
               <<f, received[f][i][1]>> \notin odd => \A n \in 1 .. received[f][i][2] - 1 :
                 \E j \in 1 .. i - 1 : received[f][j] = <<received[f][i][1], n>>
          /\ <<f, offsets[f].of>> \notin odd => \A n \in 1 .. offsets[f].n :
               <<offsets[f].of, n>> \in Range(received[f])
      BY <1>3 DEF PerFile, Complete
    <3>3. \A x : x \notin odd' => x \notin odd
      BY <1>5
    <3>4. received'[f] = received[f] /\ offsets'[f] = offsets[f]
      BY <1>2
    <3> QED BY ONLY <3>1, <3>2, <3>3, <3>4 DEF Complete
  <2>3. Entries(f)'
    <3>1. ~ (db'[f].n > 0)
      BY <1>4 DEF Torn
    <3>2. offsets[f].of # file[f] => <<f, file[f]>> \in odd'
      BY <1>1
    <3>3. \A o \in opened' : o[2] = id[f]
      BY <1>1
    <3>4. offsets'[f] = offsets[f] /\ file'[f] = file[f] /\ id'[f] = id[f]
      BY <1>2
    <3> QED BY ONLY <3>1, <3>2, <3>3, <3>4 DEF Entries
  <2> QED BY <2>1, <2>2, <2>3 DEF PerFile
<1>8. Known'
  <2>1. file[f] \in 1 .. MaxFiles /\ id[f] <= file[f]
    BY <1>0, <1>3 DEF TypeOK, Known
  <2>2. Torn.of <= file[f] /\ Torn.id <= file[f]
    BY <2>1, LineFacts DEF Torn
  <2>3. \A g \in Files : /\ db'[g].of <= file[g] /\ db'[g].id <= file[g]
                         /\ db'[g] = Torn \/ db'[g].n \in Numbers
    BY <1>0, <1>4, <2>2 DEF Known
  <2>4. \A o \in opened' : mpc = "flush" /\ o[2] <= file[o[1]]
    BY <1>1, <1>2, <2>1
  <2>5. \A o, p \in opened' : o = p
    BY <1>1
  <2> QED BY <1>0, <1>2, <2>3, <2>4, <2>5 DEF Known, Torn
<1>9. Saved'
  BY <1>0, <1>2, <1>3, <1>4 DEF Saved
<1>10. Once'
  <2>1. SUFFICES ASSUME clean PROVE Once'
    BY <1>2 DEF Once
  <2>2. \A g \in Files : db'[g] = Torn => \E o \in opened' : o[1] = g
    BY <1>0, <1>1, <1>2, <1>4, <2>1 DEF Once
  <2> QED BY <1>0, <1>2, <2>1, <2>2 DEF Once, Torn
<1>11. \A g \in Files : PerFile(g)'
  BY <1>6, <1>7
<1> QED BY <1>8, <1>9, <1>10, <1>11 DEF IInv

\* Set writes the entry.
LEMMA WriteEntryStep ==
  ASSUME IInv, TypeOK', WriteEntry
  PROVE  IInv'
<1> USE DEF allRuns, runVars, goVars, disk
<1>0. TypeOK /\ Known /\ Saved /\ Once
  BY DEF IInv
<1>1. PICK o \in opened :
        /\ db' = [db EXCEPT ![o[1]] = [of |-> offsets[o[1]].of, n |-> offsets[o[1]].n, id |-> o[2]]]
        /\ unsaved' = unsaved \ {o[1]}
  BY DEF WriteEntry, Saves
<1>2. PICK f \in Files : f = o[1]
  BY <1>0 DEF TypeOK
<1>3. /\ UNCHANGED <<allRuns, mpc, held, offsets, unset, goVars, lines, file, id, odd, received>>
      /\ mpc = "flush" /\ opened' = {}
  BY DEF WriteEntry, None
<1>4. /\ db'[f] = [of |-> offsets[f].of, n |-> offsets[f].n, id |-> o[2]]
      /\ \A g \in Files \ {f} : db'[g] = db[g]
  BY <1>0, <1>1, <1>2 DEF TypeOK
<1>5. db'[f].of = offsets[f].of /\ db'[f].n = offsets[f].n /\ db'[f].id = o[2]
  BY <1>4
<1>6. Way' = Way /\ PerFile(f)
  BY <1>3 DEF Way, IInv
<1>7. ASSUME NEW g \in Files \ {f} PROVE PerFile(g)'
  <2>1. db'[g] = db[g] /\ \A p \in opened' : p[1] # g
    BY <1>3, <1>4
  <2> QED BY <1>3, <1>6, <2>1, FlushKeeps
<1>8. PerFile(f)'
  <2>1. InTurn(f)' /\ Gapless(f)'
    BY <1>3, <1>6, InTurnKeeps, GaplessKeeps DEF PerFile
  <2>2. Complete(f)'
    <3>1. /\ \A i \in 1 .. Len(received[f]) :
               <<f, received[f][i][1]>> \notin odd => \A n \in 1 .. received[f][i][2] - 1 :
                 \E j \in 1 .. i - 1 : received[f][j] = <<received[f][i][1], n>>
          /\ <<f, offsets[f].of>> \notin odd => \A n \in 1 .. offsets[f].n :
               <<offsets[f].of, n>> \in Range(received[f])
      BY <1>6 DEF PerFile, Complete
    <3>2. received'[f] = received[f] /\ offsets'[f] = offsets[f] /\ odd' = odd
      BY <1>3
    <3> QED BY ONLY <1>5, <3>1, <3>2 DEF Complete
  <2>3. Entries(f)'
    <3>1. /\ offsets[f].of = file[f] => o[2] = id[f]
          /\ o[2] = id[f] /\ offsets[f].of # file[f] => <<f, file[f]>> \in odd
      BY <1>2, <1>6 DEF PerFile, Entries
    <3> QED BY <1>3, <1>5, <3>1 DEF Entries
  <2> QED BY <2>1, <2>2, <2>3 DEF PerFile
<1>9. Known'
  <2>1. offsets[f].of <= file[f] /\ o[2] <= file[f] /\ offsets[f].n \in Numbers
    BY <1>0, <1>2, Types DEF Known
  <2>2. \A g \in Files : /\ db'[g].of <= file[g] /\ db'[g].id <= file[g]
                         /\ db'[g] = Torn \/ db'[g].n \in Numbers
    BY <1>0, <1>4, <1>5, <2>1 DEF Known
  <2> QED BY <1>0, <1>3, <2>2 DEF Known, Torn
<1>10. Saved'
  BY <1>0, <1>1, <1>2, <1>3, <1>4, <1>5 DEF Saved
<1>11. Once'
  <2>1. SUFFICES ASSUME clean PROVE Once'
    BY <1>3 DEF Once
  <2>2. ASSUME NEW g \in Files PROVE db'[g] # Torn
    <3>1. CASE g = f
      <4>1. offsets[f].n \in Nat /\ Torn.n = -1
        BY <1>0, Types DEF Torn
      <4>2. offsets[f].n # -1
        BY <4>1
      <4> QED BY <1>5, <3>1, <4>1, <4>2
    <3>2. CASE g # f
      <4>1. \A p \in opened : p[1] # g
        BY <1>0, <1>2, <3>2 DEF Known
      <4> QED BY <1>0, <1>4, <2>1, <3>2, <4>1 DEF Once
    <3> QED BY <3>1, <3>2
  <2> QED BY <1>0, <1>3, <2>1, <2>2 DEF Once, Torn
<1>12. \A g \in Files : PerFile(g)'
  BY <1>7, <1>8
<1> QED BY <1>9, <1>10, <1>11, <1>12 DEF IInv

-----------------------------------------------------------------------------
(* New files and new processes                                             *)

\* A file that is put at the path has an ID that no entry has.
LEMMA ReplaceStep ==
  ASSUME IInv, TypeOK', NEW f \in Files, Replace(f)
  PROVE  IInv'
<1> USE DEF allRuns, runVars, goVars
<1>0. TypeOK /\ Known /\ Saved /\ Once
  BY DEF IInv
<1>1. /\ UNCHANGED <<allRuns, runVars, reading, again, given, hand, lines, db, odd, received>>
      /\ creates' = [creates EXCEPT ![f] = IF @ = -1 THEN -1 ELSE @ + 1]
      /\ file' = [file EXCEPT ![f] = @ + 1]
      /\ id' = [id EXCEPT ![f] = file[f] + 1]
  BY DEF Replace
<1>2. /\ file'[f] = file[f] + 1 /\ id'[f] = file[f] + 1
      /\ \A g \in Files \ {f} : file'[g] = file[g] /\ id'[g] = id[g]
  BY <1>0, <1>1 DEF TypeOK
<1>3. Way' = Way
  BY <1>1 DEF Way
<1>4. \A g \in Files : InTurn(g)' /\ Gapless(g)' /\ Complete(g)'
  BY <1>1, <1>3, InTurnKeeps, GaplessKeeps, CompleteKeeps DEF IInv, PerFile
<1>5. ASSUME NEW g \in Files PROVE Entries(g)'
  <2>0. Entries(g)
    BY DEF IInv, PerFile
  <2>1. CASE g # f
    BY <1>1, <1>2, <2>0, <2>1, EntriesKeep
  <2>2. CASE g = f
    <3>1. /\ file[f] \in Nat /\ db[f].of \in Nat /\ db[f].id \in Nat /\ offsets[f].of \in Nat
          /\ db[f].of <= file[f] /\ db[f].id <= file[f] /\ offsets[f].of <= file[f]
      BY <1>0, Types DEF Known
    <3>2. db[f].of # file[f] + 1 /\ db[f].id # file[f] + 1 /\ offsets[f].of # file[f] + 1
      BY <3>1
    <3>3. ASSUME NEW o \in opened, o[1] = f PROVE o[2] # file[f] + 1
      <4>1. o[2] \in 1 .. MaxFiles /\ o[2] <= file[f]
        BY <1>0, <3>3 DEF TypeOK, Known
      <4> QED BY <3>1, <4>1
    <3>4. db'[f] = db[f] /\ offsets'[f] = offsets[f] /\ opened' = opened
      BY <1>1
    <3> QED BY <1>2, <2>2, <3>2, <3>3, <3>4 DEF Entries
  <2> QED BY <2>1, <2>2
<1>6. Known'
  <2>1. \A g \in Files : \A x \in Nat : x <= file[g] => x <= file'[g]
    <3>1. \A g \in Files : file[g] \in Nat
      BY <1>0, Types
    <3>2. \A x \in Nat : x <= file[f] => x <= file[f] + 1
      BY <3>1
    <3> QED BY <1>2, <3>2
  <2>2. \A g \in Files : /\ offsets[g].of \in Nat /\ reading[g] \in Nat /\ id[g] \in Nat
                         /\ db[g].of \in Nat /\ db[g].id \in Nat
    BY <1>0, Types
  <2>3. \A g \in Files : /\ offsets[g].of <= file'[g] /\ reading[g] <= file'[g]
                         /\ db[g].of <= file'[g] /\ db[g].id <= file'[g]
    BY <1>0, <2>1, <2>2 DEF Known
  <2>4. \A g \in Files : id'[g] <= file'[g]
    <3>1. file[f] + 1 <= file[f] + 1
      BY <1>0, Types
    <3> QED BY <1>0, <1>2, <3>1 DEF Known
  <2>5. ASSUME NEW o \in opened PROVE o[2] <= file'[o[1]]
    <3>1. o[1] \in Files /\ o[2] \in 1 .. MaxFiles /\ o[2] <= file[o[1]]
      BY <1>0 DEF TypeOK, Known
    <3>2. o[2] \in Nat
      BY <3>1, LineFacts
    <3> QED BY <2>1, <3>1, <3>2
  <2>6. ASSUME NEW g \in Files
        PROVE  creates'[g] < file'[g] /\ (creates'[g] # -1 => reading[g] # 0)
    <3>1. /\ creates[g] \in -1 .. MaxFiles /\ file[g] \in Nat /\ MaxFiles \in Nat
          /\ creates[g] < file[g] /\ (creates[g] # -1 => reading[g] # 0)
      BY <1>0, Types, LineFacts DEF Known, TypeOK
    <3>2. CASE g # f
      BY <1>0, <1>1, <1>2, <3>1, <3>2 DEF TypeOK
    <3>3. CASE g = f
      <4>1. creates'[f] = IF creates[f] = -1 THEN -1 ELSE creates[f] + 1
        BY <1>0, <1>1 DEF TypeOK
      <4>2. file'[f] = file[f] + 1
        BY <1>2
      <4> QED BY ONLY <3>1, <3>3, <4>1, <4>2
    <3> QED BY <3>2, <3>3
  <2> QED BY <1>0, <1>1, <2>3, <2>4, <2>5, <2>6 DEF Known, Torn
<1>7. Saved' /\ Once'
  BY <1>0, <1>1, OnceKeeps DEF Saved
<1>8. \A g \in Files : PerFile(g)'
  BY <1>4, <1>5 DEF PerFile
<1> QED BY <1>6, <1>7, <1>8 DEF IInv

\* The next process goes on where the entries say: not beyond what was received,
\* and not before it if the last process saved all of them.
LEMMA RestartStep ==
  ASSUME IInv, TypeOK', NEW kept \in SUBSET Rotated, NEW large \in SUBSET Rotated,
         Restart(kept, large)
  PROVE  IInv'
<1> USE DEF allRuns, runVars, goVars, disk
<1>0. TypeOK /\ Known /\ Saved /\ Once
  BY DEF IInv
<1>1. /\ UNCHANGED <<id, db, again, received>>
      /\ creates' = [f \in Files |-> -1]
      /\ clean' = (clean /\ mpc = "returned" /\ unset = {})
      /\ mpc' = IF \E f \in Files : db[f] = Torn THEN "failed" ELSE "select"
      /\ held' = << >> /\ lines' = << >> /\ opened' = {}
      /\ file' = [f \in Files |-> IF f \in kept THEN file[f] + 1 ELSE file[f]]
      /\ given' = [f \in Files |-> FromEntry(f, large)]
      /\ offsets' = [f \in Files |-> [of |-> file'[f], n |-> FromEntry(f, large)]]
      /\ odd' = odd \cup {<<f, file'[f]>> : f \in kept}
      /\ reading' = [f \in Files |-> 0] /\ hand' = [f \in Files |-> << >>]
  BY DEF Restart, None
<1>2. Way' = << >> /\ Len(Way') = 0
  BY <1>1 DEF Way
<1>3. \A k \in 1 .. Len(Way') : FALSE
  BY <1>2
<1>4. odd \subseteq odd' /\ kept \subseteq Files
  BY <1>1, MonitorAssumption
<1>5. ASSUME NEW f \in Files
      PROVE  /\ reading'[f] = 0 /\ hand'[f] = << >> /\ given'[f] = offsets'[f].n
             /\ offsets'[f].of = file'[f] /\ offsets'[f].n = FromEntry(f, large)
             /\ f \in kept => file'[f] = file[f] + 1 /\ <<f, file'[f]>> \in odd'
             /\ f \notin kept => file'[f] = file[f]
             /\ file'[f] \in Nat /\ file[f] \in Nat /\ file[f] <= file'[f]
  <2>1. file'[f] = IF f \in kept THEN file[f] + 1 ELSE file[f]
    BY <1>1
  <2>2. file[f] \in Nat
    BY <1>0, Types
  <2>3. file'[f] \in Nat /\ file[f] <= file'[f]
    BY <2>1, <2>2
  <2>4. f \in kept => <<f, file'[f]>> \in odd'
    BY <1>1
  <2>5. offsets'[f] = [of |-> file'[f], n |-> FromEntry(f, large)] /\ given'[f] = FromEntry(f, large)
    BY <1>1
  <2>6. reading'[f] = 0 /\ hand'[f] = << >>
    BY <1>1
  <2> HIDE DEF FromEntry
  <2> QED BY <2>1, <2>2, <2>3, <2>4, <2>5, <2>6
<1>6. ASSUME NEW f \in Files PROVE InTurn(f)'
  BY <1>3, <1>5 DEF InTurn
<1>7. ASSUME NEW f \in Files PROVE Gapless(f)'
  BY <1>3, <1>5 DEF Gapless
<1>8. ASSUME NEW f \in Files
      PROVE  FromEntry(f, large) = 0 \/
               /\ FromEntry(f, large) = db[f].n /\ db[f].n > 0 /\ db[f].id = id[f]
  <2>1. db[f] # Torn => db[f].n \in Numbers
    BY <1>0 DEF Known
  <2>2. \A n \in Numbers : n = 0 \/ n > 0
    BY LineFacts
  <2> QED BY <2>1, <2>2 DEF FromEntry, Valid, Calculate
<1>9. ASSUME NEW f \in Files PROVE Complete(f)'
  <2>0. Complete(f) /\ Entries(f)
    BY DEF IInv, PerFile
  <2>1. ASSUME <<f, file'[f]>> \notin odd', NEW n \in 1 .. FromEntry(f, large)
        PROVE  <<file'[f], n>> \in Range(received[f])
    <3>1. f \notin kept /\ file'[f] = file[f] /\ <<f, file[f]>> \notin odd
      BY <1>4, <1>5, <2>1
    <3>2. FromEntry(f, large) # 0
      BY <2>1
    <3>3. FromEntry(f, large) = db[f].n /\ db[f].n > 0 /\ db[f].id = id[f]
      BY <1>8, <3>2
    <3>4. db[f].of = file[f]
      BY <2>0, <3>1, <3>3 DEF Entries
    <3> QED BY <2>0, <2>1, <3>1, <3>3, <3>4 DEF Complete
  <2>2. \A x : x \notin odd' => x \notin odd
    BY <1>4
  <2>3. /\ \A i \in 1 .. Len(received[f]) :
             <<f, received[f][i][1]>> \notin odd => \A n \in 1 .. received[f][i][2] - 1 :
               \E j \in 1 .. i - 1 : received[f][j] = <<received[f][i][1], n>>
        /\ <<f, db[f].of>> \notin odd => \A n \in 1 .. db[f].n :
             <<db[f].of, n>> \in Range(received[f])
    BY <2>0 DEF Complete
  <2>4. /\ received'[f] = received[f] /\ db'[f] = db[f] /\ offsets'[f].of = file'[f]
        /\ offsets'[f].n = FromEntry(f, large)
    BY <1>1, <1>5
  <2> HIDE DEF FromEntry
  <2> QED BY ONLY <2>1, <2>2, <2>3, <2>4 DEF Complete
<1>10. ASSUME NEW f \in Files PROVE Entries(f)'
  <2>0. Entries(f)
    BY DEF IInv, PerFile
  <2>1. db'[f] = db[f] /\ id'[f] = id[f] /\ opened' = {}
    BY <1>1
  <2>2. db[f].of \in Nat /\ db[f].of <= file[f]
    BY <1>0, Types DEF Known
  <2>3. CASE f \in kept
    <3>1. db[f].of # file'[f] /\ <<f, file'[f]>> \in odd'
      BY <1>5, <2>2, <2>3
    <3> QED BY <2>1, <3>1 DEF Entries
  <2>4. CASE f \notin kept
    BY <1>4, <1>5, <2>0, <2>1, <2>4 DEF Entries
  <2> QED BY <2>3, <2>4
<1>11. Known'
  <2>1. \A f \in Files : /\ id[f] \in Nat /\ db[f].of \in Nat /\ db[f].id \in Nat
                         /\ id[f] <= file[f] /\ db[f].of <= file[f] /\ db[f].id <= file[f]
    BY <1>0, Types DEF Known
  <2>2. \A f \in Files : /\ id[f] <= file'[f] /\ db[f].of <= file'[f] /\ db[f].id <= file'[f]
                         /\ 0 <= file'[f] /\ file'[f] <= file'[f]
    <3>1. \A f \in Files : file'[f] \in Nat /\ file[f] \in Nat /\ file[f] <= file'[f]
      BY <1>5
    <3> QED BY ONLY <2>1, <3>1
  <2>3. \A f \in Files : /\ offsets'[f].of <= file'[f] /\ reading'[f] <= file'[f]
                         /\ creates'[f] = -1 /\ creates'[f] < file'[f]
    <3>1. \A f \in Files : creates'[f] = -1
      BY <1>1
    <3>2. \A f \in Files : file'[f] \in Nat /\ offsets'[f].of = file'[f] /\ reading'[f] = 0
      BY <1>5
    <3>3. \A x \in Nat : -1 < x /\ x <= x /\ 0 <= x
      OBVIOUS
    <3> QED BY ONLY <3>1, <3>2, <3>3
  <2>4. mpc' # "receive" /\ held' = << >> /\ opened' = {} /\ UNCHANGED <<id, db>>
    BY <1>1
  <2> QED BY <1>0, <2>2, <2>3, <2>4 DEF Known, Torn
<1>12. Saved'
  BY <1>1 DEF Saved
<1>13. Once'
  <2>1. SUFFICES ASSUME clean, mpc = "returned", unset = {} PROVE Once'
    BY <1>1 DEF Once
  <2>2. \A f \in Files : db[f] # Torn
    BY <1>0, <2>1 DEF Once, Known
  <2>3. mpc' # "failed"
    BY <1>1, <2>2
  <2>4. \A f \in Files : db[f].of = offsets[f].of /\ db[f].n = offsets[f].n
    BY <1>0, <2>1 DEF Saved
  <2>5. ASSUME NEW f \in Files
        PROVE  Le(again[f], offsets[f].of, offsets[f].n, offsets'[f].of, offsets'[f].n)
    <3>1. /\ offsets[f].of \in Nat /\ offsets[f].n \in Nat /\ offsets[f].of <= file[f]
      BY <1>0, Types DEF Known
    <3>2. CASE offsets[f].of < file'[f]
      BY <1>5, <3>2 DEF Le
    <3>3. CASE offsets[f].of >= file'[f]
      <4>1. f \notin kept /\ file'[f] = file[f] /\ offsets[f].of = file[f]
        <5>1. /\ file'[f] \in Nat /\ file[f] \in Nat
              /\ f \in kept => file'[f] = file[f] + 1
              /\ f \notin kept => file'[f] = file[f]
          BY <1>5
        <5> QED BY ONLY <3>1, <3>3, <5>1
      <4>2. offsets'[f].of = offsets[f].of /\ offsets'[f].n = FromEntry(f, large)
        BY <1>5, <4>1
      <4>3. CASE offsets[f].n = 0
        <5>1. FromEntry(f, large) \in Nat
          <6>1. FromEntry(f, large) = 0 \/ FromEntry(f, large) = offsets[f].n
            BY <1>8, <2>4
          <6> QED BY <3>1, <6>1
        <5> QED BY <3>1, <4>2, <4>3, <5>1 DEF Le
      <4>4. CASE offsets[f].n # 0
        <5>1. db[f].n > 0 /\ db[f].of = file[f]
          BY <2>4, <3>1, <4>1, <4>4
        <5>2. db[f].id = id[f]
          BY <5>1 DEF IInv, PerFile, Entries
        <5>3. FromEntry(f, large) = offsets[f].n
          BY <2>2, <2>4, <4>1, <5>1, <5>2 DEF FromEntry, Valid, Calculate
        <5> QED BY <3>1, <4>2, <5>3 DEF Le
      <4> QED BY <4>3, <4>4
    <3>4. file'[f] \in Nat
      BY <1>5
    <3>5. offsets[f].of < file'[f] \/ offsets[f].of >= file'[f]
      BY ONLY <3>1, <3>4
    <3> QED BY <3>2, <3>3, <3>5
  <2>6. ASSUME NEW f \in Files, NEW i \in 1 .. Len(received[f])
        PROVE  Le(again[f], received[f][i][1], received[f][i][2], offsets'[f].of, offsets'[f].n)
    <3>1. Le(again[f], received[f][i][1], received[f][i][2], offsets[f].of, offsets[f].n)
      BY <1>0, <2>1 DEF Once
    <3>2. /\ received[f][i][1] \in Nat /\ received[f][i][2] \in Nat
          /\ offsets[f].of \in Nat /\ offsets[f].n \in Nat
      BY <1>0, Types
    <3>3. offsets'[f].of \in Nat /\ offsets'[f].n \in Nat
      <4>1. offsets'[f].of \in 1 .. MaxFiles /\ offsets'[f].n \in Numbers
        BY DEF TypeOK
      <4> QED BY <4>1, LineFacts
    <3>4. Le(again[f], offsets[f].of, offsets[f].n, offsets'[f].of, offsets'[f].n)
      BY <2>5
    <3> QED BY ONLY SMTT(30), <3>1, <3>2, <3>3, <3>4 DEF Le
  <2>7. UNCHANGED <<received, db, again>>
    BY <1>1
  <2>8. \A f \in Files : \A i, j \in 1 .. Len(received[f]) : i < j =>
          Lt(again[f], received[f][i][1], received[f][i][2], received[f][j][1], received[f][j][2])
    BY <1>0, <2>1 DEF Once
  <2> QED BY ONLY <2>2, <2>3, <2>6, <2>7, <2>8 DEF Once, Torn
<1>14. \A f \in Files : PerFile(f)'
  BY <1>6, <1>7, <1>9, <1>10 DEF PerFile
<1> QED BY <1>11, <1>12, <1>13, <1>14 DEF IInv

-----------------------------------------------------------------------------
(* The theorem                                                             *)

\* The invariant holds before anything was read.
LEMMA InitIInv == Init => IInv
<1> SUFFICES ASSUME Init PROVE IInv
  OBVIOUS
<1>0. /\ MaxFiles \in Nat /\ MaxFiles >= 1 /\ MaxRuns \in Nat /\ MaxRuns >= 1 /\ 0 \in Numbers
  BY MonitorAssumption, LineFacts
<1>1. 1 \in 1 .. MaxFiles /\ 0 \in 0 .. MaxFiles /\ 1 \in 1 .. MaxRuns /\ 0 \in 0 .. 1
  BY <1>0
<1>2. TypeOK
  <2>1. /\ opened \subseteq unsaved \X (1 .. MaxFiles) /\ Cardinality(opened) <= 1
    BY FS_EmptySet DEF Init, None
  <2>2. lines \in Seq(Lines) /\ Len(lines) <= Cardinality(Files)
    <3>1. Cardinality(Files) \in Nat
      BY MonitorAssumption, FS_CardinalityType
    <3> QED BY <3>1 DEF Init
  <2>3. /\ offsets \in [Files -> [of : 1 .. MaxFiles, n : Numbers]]
        /\ db \in [Files -> [of : 1 .. MaxFiles, n : Numbers \cup {-1}, id : 0 .. MaxFiles]]
    BY <1>0, <1>1 DEF Init, NoEntry
  <2>4. /\ reading \in [Files -> 0 .. MaxFiles] /\ hand \in [Files -> {<< >>} \cup Lines]
        /\ given \in [Files -> Numbers] /\ file \in [Files -> 1 .. MaxFiles]
        /\ id \in [Files -> 1 .. MaxFiles]
        /\ received \in [Files -> Seq((1 .. MaxFiles) \X (Numbers \ {0}))]
        /\ creates \in [Files -> -1 .. MaxFiles] /\ again \in [Files -> SUBSET (1 .. MaxFiles)]
    BY <1>0, <1>1 DEF Init
  <2>5. runs \in 1 .. MaxRuns /\ clean \in BOOLEAN /\ shutdown \in 0 .. 1 /\ done \in BOOLEAN
    BY <1>1 DEF Init
  <2> QED BY <2>1, <2>2, <2>3, <2>4, <2>5 DEF TypeOK, Init
<1>3. /\ Way = << >> /\ \A k \in 1 .. Len(Way) : FALSE
  <2>1. Way = << >>
    BY DEF Init, Way
  <2>2. Len(Way) = 0
    BY <2>1
  <2> QED BY <2>1, <2>2
<1>4. \A f \in Files :
        /\ offsets[f].of = 1 /\ offsets[f].n = 0 /\ db[f] = NoEntry /\ db[f].of = 1
        /\ db[f].n = 0 /\ db[f].id = 0 /\ reading[f] = 0 /\ hand[f] = << >> /\ given[f] = 0
        /\ creates[f] = -1 /\ file[f] = 1 /\ id[f] = 1 /\ received[f] = << >> /\ Len(received[f]) = 0
  BY DEF Init, NoEntry
<1>5. opened = {} /\ mpc = "select" /\ held = << >> /\ unsaved = {}
  BY DEF Init, None
<1>6. Known
  BY <1>0, <1>4, <1>5 DEF Known
<1>7. ASSUME NEW f \in Files PROVE PerFile(f)
  <2>1. InTurn(f)
    BY <1>3, <1>4 DEF InTurn
  <2>2. Gapless(f)
    BY <1>3, <1>4 DEF Gapless
  <2>3. Complete(f)
    <3>1. (\A i \in 1 .. Len(received[f]) : FALSE) /\ (\A n \in 1 .. 0 : FALSE)
      BY <1>4
    <3> QED BY <1>4, <3>1 DEF Complete
  <2>4. Entries(f)
    BY <1>4, <1>5 DEF Entries
  <2> QED BY <2>1, <2>2, <2>3, <2>4 DEF PerFile
<1>8. Saved
  BY <1>5 DEF Saved
<1>9. Once
  <2>1. \A f \in Files : /\ db[f] # Torn
                         /\ \A i \in 1 .. Len(received[f]) : FALSE
    BY <1>4 DEF Torn
  <2> QED BY <1>5, <2>1 DEF Once
<1> QED BY <1>2, <1>6, <1>7, <1>8, <1>9 DEF IInv

\* Every step keeps it.
LEMMA NextIInv == IInv /\ [Next]_vars => IInv'
<1> SUFFICES ASSUME IInv, [Next]_vars PROVE IInv'
  OBVIOUS
<1>1. ASSUME NEW f \in Files, Goroutine(f) \/ Reopen(f) \/ FileEnds(f) PROVE IInv'
  <2>1. TypeOK'
    BY <1>1, TypeGoroutine
  <2>2. CASE OpenFile(f)
    BY <2>1, <2>2, OpenFileStep
  <2>3. CASE GenerateLine(f)
    BY <2>1, <2>3, GenerateLineStep
  <2>4. CASE PutLine(f)
    BY <2>1, <2>4, PutLineStep
  <2>5. CASE Reopen(f) \/ AddWatch(f)
    BY <2>1, <2>5, ReopenStep, AddWatchStep
  <2>6. CASE GoroutineEnds(f) \/ FileEnds(f)
    BY <2>1, <2>6, IdleSteps
  <2> QED BY <1>1, <2>2, <2>3, <2>4, <2>5, <2>6 DEF Goroutine
<1>2. CASE Run
  <2>1. TypeOK'
    BY <1>2, TypeRun
  <2>2. CASE TakeLine
    BY <2>1, <2>2, TakeLineStep
  <2>3. CASE TakeNil \/ CloseFile
    BY <2>1, <2>3, IdleSteps
  <2>4. CASE TakeShutdown \/ Finished \/ SetFails \/ RunReturns
    BY <2>1, <2>4, LeaveSteps
  <2>5. CASE ReceiveOK
    BY <2>1, <2>5, ReceiveOKStep
  <2>6. CASE ReceiveFails
    BY <2>1, <2>6, ReceiveFailsStep
  <2>7. CASE CreateEntry
    BY <2>1, <2>7, CreateEntryStep
  <2>8. CASE WriteEntry
    BY <2>1, <2>8, WriteEntryStep
  <2> QED BY <1>2, <2>2, <2>3, <2>4, <2>5, <2>6, <2>7, <2>8 DEF Run
<1>3. ASSUME NEW f \in Rotated, Replace(f) PROVE IInv'
  <2>1. TypeOK' /\ f \in Files
    BY <1>3, TypeOthers, MonitorAssumption
  <2> QED BY <1>3, <2>1, ReplaceStep
<1>4. CASE WaitShutdown \/ WaitReturns \/ UNCHANGED vars
  <2>1. TypeOK'
    BY <1>4, TypeOthers
  <2> QED BY <1>4, <2>1, IdleSteps
<1>5. ASSUME NEW kept \in SUBSET Rotated, NEW large \in SUBSET Rotated, Restart(kept, large)
      PROVE  IInv'
  <2>1. TypeOK'
    BY <1>5, TypeOthers
  <2> QED BY <1>5, <2>1, RestartStep
<1> QED BY <1>1, <1>2, <1>3, <1>4, <1>5 DEF Next

\* It says of the receiver what the offsets are for.
LEMMA IInvRight == IInv => OffsetsRight
<1> SUFFICES ASSUME IInv PROVE OffsetsRight
  OBVIOUS
<1>0. TypeOK
  BY DEF IInv
<1>1. ASSUME NEW f \in Files
      PROVE  DOMAIN received[f] = 1 .. Len(received[f]) /\ Len(received[f]) \in Nat
  BY <1>0, Types
<1>2. NoneSkipped
  BY <1>1 DEF IInv, PerFile, Complete, NoneSkipped
<1>3. NoneRepeated
  <2>1. SUFFICES ASSUME clean PROVE NoneRepeated
    BY DEF NoneRepeated
  <2>2. mpc # "failed"
    BY <2>1 DEF IInv, Once
  <2>3. ASSUME NEW f \in Files, NEW i \in DOMAIN received[f], NEW j \in DOMAIN received[f],
               received[f][i] = received[f][j], received[f][i][1] \notin again[f]
        PROVE  i = j
    <3>1. /\ i \in 1 .. Len(received[f]) /\ j \in 1 .. Len(received[f]) /\ i \in Nat /\ j \in Nat
          /\ received[f][i][1] \in Nat /\ received[f][i][2] \in Nat
      BY SMTT(30), <1>0, <1>1, Types
    <3>2. ~ Lt(again[f], received[f][i][1], received[f][i][2], received[f][i][1], received[f][i][2])
      BY ONLY <2>3, <3>1 DEF Lt
    <3>3. ~ (i < j) /\ ~ (j < i)
      BY <2>1, <2>3, <3>1, <3>2 DEF IInv, Once
    <3> QED BY <3>1, <3>3
  <2> QED BY <2>2, <2>3 DEF NoneRepeated
<1> QED BY <1>0, <1>2, <1>3 DEF OffsetsRight

\* Over any number of runs of the process, with crashes anywhere and files that
\* are replaced at any time, the receiver of Monitor.Run misses no line before
\* one that it takes, no saved offset is beyond what it took, and it has no line
\* twice if every process saved all offsets and returned from Run; the files
\* that an entry of another may be taken for are excused (Run, FlushOffsets,
\* OpenFiles, OffsetDB.Set, CheckValid).
THEOREM MonitorOffsetsRight == Spec => []OffsetsRight
<1>1. Spec => []IInv
  BY InitIInv, NextIInv, PTL DEF Spec
<1> QED BY <1>1, IInvRight, PTL
=============================================================================
