------------------------------- MODULE Poller -------------------------------
(***************************************************************************)
(* The inputs that poll a service: LogglyRecv, PapertrailRecv,             *)
(* LogentriesRecv and PostgresRecv (plugins/*/*_recv.go).  Generate takes  *)
(* an event from the buffer; if there is none it searches the service,     *)
(* buffers what it is answered and starts again.  Each keeps a cursor in   *)
(* its options, from which the next search goes on.                        *)
(*                                                                         *)
(* The services are external: each answers with at most Size events of its *)
(* log.  Events are named by their place in the log, the order in which    *)
(* they came.  The time of a message is its own, set by who made it: it    *)
(* may come later than another with a later time, and its clock may be     *)
(* ahead of the service's.  Times count milliseconds, PerSecond of them to *)
(* a second.  The options that are not a cursor (filters, formats) pick    *)
(* the log and never change.                                               *)
(***************************************************************************)
EXTENDS Integers, Sequences, SequencesExt, FiniteSetsExt

CONSTANTS
  MaxEvents,   \* bound: events in the log
  MaxTime,     \* bound: the time
  PerSecond,   \* 1000 in the code
  Size,        \* events of an answer: size, limit, or the service's page
  BufferSizes, \* capacities of EventBuffer
  MaxPage      \* bound: pages asked for

ASSUME PollerAssumption ==
  /\ MaxEvents \in Nat
  /\ MaxTime \in Nat
  /\ PerSecond \in Nat \ {0}
  /\ Size \in Nat \ {0}
  /\ BufferSizes \subseteq Nat
  /\ MaxPage \in Nat

VARIABLES
  kind,        \* which of the four
  order,       \* RSIDOptions.Order, Options.Order: "asc", or what is not that
  bufferSize,  \* capacity of EventBuffer
  log,         \* the service's log: when an event came, the message's own time,
               \* and whether it is a message of cypress in JSON
  now,
  cursor,      \* EventsOptions.Page, .MinId, .Start or Options.Start; 0: unset
  eventBuffer, \* EventBuffer, MessageBuffer
  gpc,         \* where Generate is
  answer,      \* the events of the search
  searched,    \* length of the log at that search
  polled,      \* the events returned
  odd,         \* an answer came that the cursor does not account for
  open,        \* Close was not called
  down         \* the process panicked or exited

options  == <<kind, order, bufferSize>>
service  == <<log, now>>
fetched  == <<answer, searched>>
pollVars == <<options, service, cursor, eventBuffer, gpc, fetched, polled, odd, open, down>>

Events == DOMAIN log
Second(i) == log[i].time \div PerSecond
Kept == polled \o eventBuffer

-----------------------------------------------------------------------------
(* The services                                                            *)

\* What no cursor or search of the kind looks at is fixed.
LogEvent ==
  /\ Len(log) < MaxEvents
  /\ \E time \in IF kind \in {"logentries", "postgres"} THEN 0 .. MaxTime ELSE {0},
        json \in IF kind = "logentries" THEN BOOLEAN ELSE {TRUE} :
       log' = Append(log, [at |-> now, time |-> time, json |-> json])
  /\ UNCHANGED <<options, now, cursor, eventBuffer, gpc, fetched, polled, odd, open, down>>

\* The clock is for logentries, whose lines have a time of their own.
Tick ==
  /\ kind = "logentries" /\ now < MaxTime
  /\ now' = now + 1
  /\ UNCHANGED <<options, log, cursor, eventBuffer, gpc, fetched, polled, odd, open, down>>

\* The events from i on, in the order of the log.
Since(i) == [k \in 1 .. Len(log) - i + 1 |-> i + k - 1]

\* The first of these events, and thus all after it are among them.
First(late) == Min(late \cup {Len(log) + 1})

Sorted(s) == IF order = "asc" THEN s ELSE Reverse(s)

\* At most Size of them, after the first n.
Page(s, n) == SubSeq(s, n + 1, IF Len(s) < n + Size THEN Len(s) ELSE n + Size)

\* One page of the search; the events after min_id; those at start or later.
Paged == Page(Sorted(Since(1)), cursor * Size)
Newer == Page(Since(cursor + 1), 0)
From  == Page(Since(First({i \in Events : log[i].at >= cursor})), 0)

\* The rows whose timestamp, the message's own, is at the start or later, and
\* their order, which leaves open that of equal ones.
Rows == {i \in Events : Second(i) >= cursor}
Precedes(i, j) ==
  IF order = "asc" THEN log[i].time <= log[j].time ELSE log[j].time <= log[i].time

-----------------------------------------------------------------------------
(* Search                                                                  *)

SearchLoggly     == kind = "loggly" /\ answer' = Paged
SearchPapertrail == kind = "papertrail" /\ answer' = Newer

\* NewEvents: an answer that is one JSON value is taken for the service's
\* "no events" or its error, also if it is the only event.
SearchLogentries ==
  /\ kind = "logentries"
  /\ From # << >> /\ ~(Len(From) = 1 /\ log[From[1]].json)
  /\ answer' = From

\* BuildStmt: a start in whole seconds, the default order descending, a limit.
BuildStmt ==
  {s \in SeqOf(Rows, Size) :
     /\ Len(s) = Size \/ Rows \subseteq Range(s)
     /\ \A k \in DOMAIN s :
          LET before == {s[l] : l \in 1 .. k - 1}
          IN  s[k] \notin before /\ \A i \in Rows \ before : Precedes(s[k], i)}

SearchPostgres == kind = "postgres" /\ answer' \in BuildStmt

\* The clauses of Generate's select: an event if there is one, else a search;
\* the second of time.After has not passed by then.
Search ==
  /\ gpc = "take" /\ eventBuffer = << >> /\ open
  /\ kind = "loggly" => cursor < MaxPage
  /\ SearchLoggly \/ SearchPapertrail \/ SearchLogentries \/ SearchPostgres
  /\ gpc' = "answered" /\ searched' = Len(log)
  /\ UNCHANGED <<options, service, cursor, eventBuffer, polled, odd, open, down>>

\* Generate returns an error, and may be called again; a query that fails is
\* log.Fatal.
SearchFails ==
  /\ gpc = "take" /\ eventBuffer = << >> /\ open
  /\ down' = (kind = "postgres")
  /\ UNCHANGED <<options, service, cursor, eventBuffer, gpc, fetched, polled, odd, open>>

-----------------------------------------------------------------------------
(* BufferEvents, BufferMessages                                            *)

\* A full buffer drops the event: break leaves the select, not the loop.
BufferedEvents == IF Len(answer) <= bufferSize THEN answer ELSE SubSeq(answer, 1, bufferSize)

\* Mutant: the cursor follows every event of the answer.
LastAnswered == Last(answer)

\* Mutant: the cursor follows the first.
FirstBuffered == BufferedEvents[1]

\* The event the cursor is set from.
LastBuffered == Last(BufferedEvents)

\* The page counts up whatever it held.
NextLoggly     == cursor + 1
NextPapertrail == LastBuffered

\* An event that is no message gets the time it is read at.
NextLogentries == IF log[LastBuffered].json THEN log[LastBuffered].time ELSE now
NextPostgres   == Second(LastBuffered)

Advanced ==
  IF kind = "loggly" THEN NextLoggly
  ELSE IF BufferedEvents = << >> THEN cursor
  ELSE CASE kind = "papertrail" -> NextPapertrail
         [] kind = "logentries" -> NextLogentries
         [] kind = "postgres"   -> NextPostgres

\* Answers that do not bring the cursor where it should be: a page of loggly
\* that is not full or does not fit, a line of logentries that is not JSON or
\* whose time is ahead of the service's.
Misleading ==
  CASE kind = "loggly"     -> Len(answer) < Size \/ Len(answer) > bufferSize
    [] kind = "logentries" -> \E i \in Range(answer) : log[i].json => log[i].time > log[i].at
    [] OTHER               -> FALSE

BufferEvents ==
  /\ gpc = "answered"
  /\ down' = (~open /\ answer # << >>)
  /\ eventBuffer' = BufferedEvents
  /\ cursor' = Advanced
  /\ gpc' = "take"
  /\ odd' = (odd \/ Misleading)
  /\ answer' = << >>
  /\ UNCHANGED <<options, service, searched, polled, open>>

\* Generate returns an event.
TakeEvent ==
  /\ gpc = "take" /\ eventBuffer # << >>
  /\ polled' = Append(polled, Head(eventBuffer))
  /\ eventBuffer' = Tail(eventBuffer)
  /\ UNCHANGED <<options, service, cursor, gpc, fetched, odd, open, down>>

\* A closed buffer gives nil: NewCypressMessage reads the nil event's field,
\* the others return nil, for ever.
TakeNil ==
  /\ gpc = "take" /\ eventBuffer = << >> /\ ~open
  /\ down' = (kind \in {"loggly", "papertrail"})
  /\ gpc' = "nil"
  /\ UNCHANGED <<options, service, cursor, eventBuffer, fetched, polled, odd, open>>

ClosePoller ==
  /\ open
  /\ open' = FALSE
  /\ UNCHANGED <<options, service, cursor, eventBuffer, gpc, fetched, polled, odd, down>>

-----------------------------------------------------------------------------
PollInit ==
  /\ kind \in {"loggly", "papertrail", "logentries", "postgres"}
  /\ order \in IF kind \in {"loggly", "postgres"} THEN {"asc", "other"} ELSE {"asc"}
  /\ bufferSize \in BufferSizes
  /\ log = << >> /\ now = 0 /\ cursor = 0 /\ eventBuffer = << >>
  /\ gpc = "take" /\ answer = << >> /\ searched = 0 /\ polled = << >> /\ odd = FALSE
  /\ open = TRUE /\ down = FALSE

\* MaxOut bounds what the repeated answers return.
Poll == TakeEvent \/ TakeNil \/ Search \/ SearchFails \/ BufferEvents
MaxOut == Len(polled) < MaxEvents + Size
PollNext == ~down /\ (LogEvent \/ Tick \/ ClosePoller \/ (Poll /\ MaxOut))

PollSpec == PollInit /\ [][PollNext]_pollVars

-----------------------------------------------------------------------------
(* Properties                                                              *)

PollTypeOK ==
  /\ log \in Seq([at : 0 .. MaxTime, time : 0 .. MaxTime, json : BOOLEAN])
  /\ cursor \in 0 .. MaxEvents + MaxPage + MaxTime
  /\ eventBuffer \in Seq(Events) /\ Len(eventBuffer) <= bufferSize
  /\ answer \in Seq(Events) /\ Len(answer) <= Size /\ polled \in Seq(Events)
  /\ gpc \in {"take", "answered", "nil"}

\* The cursor has gone past event i: no search asks for it again.
Passed(i) ==
  CASE kind = "loggly"     -> i <= cursor * Size
    [] kind = "papertrail" -> i <= cursor
    [] kind = "logentries" -> log[i].at < cursor
    [] kind = "postgres"   -> Second(i) < cursor

\* A row whose second is older than one that was inserted before it: the
\* cursor may have gone past it by then (Postgres.Receive inserts the
\* message's own timestamp).
Late(i) == kind = "postgres" /\ \E j \in 1 .. i - 1 : Second(i) < Second(j)

\* An answer that misled the cursor, or an order other than ascending.
Excused == odd \/ order # "asc"

\* However the log grows between searches and however small the buffer is, the
\* cursor passes no event that was not kept, a late row excepted: what a full
\* buffer drops is answered again (BufferEvents, Search).
NoneSkipped ==
  ~Excused => \A i \in Events : Passed(i) /\ ~Late(i) => i \in Range(Kept)

\* The time the cursor of logentries is set from, or an earlier one.
Stamp(i) == IF log[i].json THEN log[i].time ELSE log[i].at

\* PapertrailRecv returns each event once, in order; LogglyRecv too, from pages
\* in ascending order.  The cursors that are times let an event be returned
\* again: LogentriesRecv one that came no earlier than the time of the message
\* before it, PostgresRecv one of the same second.
EventsInOrder ==
  \A k \in 2 .. Len(Kept) :
    LET a == Kept[k - 1]  b == Kept[k]
    IN  CASE kind = "papertrail" -> a < b
          [] kind = "loggly"     -> order = "asc" => a < b
          [] kind = "logentries" -> a < b \/ Stamp(a) <= log[b].at
          [] kind = "postgres"   -> order = "asc" => Second(a) <= Second(b)

\* When a search brings nothing new to keep, nothing new is there but rows that
\* came late, except that for ever the same events may be answered and kept
\* again: if as many as an answer, or the buffer, holds are of the cursor's
\* second, or came to logentries since its millisecond; and with a buffer for
\* none (BuildStmt, BufferEvents).
Advances ==
  (gpc = "answered" /\ ~Excused /\ Range(BufferedEvents) \subseteq Range(Kept)) =>
    \/ \A i \in 1 .. searched : i \in Range(Kept) \/ Late(i)
    \/ bufferSize = 0
    \/ /\ Len(BufferedEvents) \in {Size, bufferSize}
       /\ \/ kind = "logentries"
          \/ kind = "postgres" /\ \A i \in Range(BufferedEvents) : Second(i) = cursor

\* A poller loses nothing between the service and Generate, and goes on, each
\* with the exceptions stated above (Search, BufferEvents).
PollsAll == PollTypeOK /\ NoneSkipped /\ EventsInOrder /\ Advances
=============================================================================
