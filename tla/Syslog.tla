------------------------------- MODULE Syslog -------------------------------
(***************************************************************************)
(* The syslog input (plugins/syslog/syslog.go): runConn reads messages off *)
(* a connection one after another, in octets that are counted (RFC 6587),  *)
(* or line by line, or as datagrams, whose ends the reader does not see.   *)
(* Each TCP connection has a goroutine of its own and shares with the      *)
(* others only the process: one connection is modelled.                    *)
(*                                                                         *)
(* A message is sent as a head (all up to its text), the octets of its     *)
(* text and, if it ends so, a newline.  Sizes are counted in these units.  *)
(* What follows the first element of structured data is text.              *)
(*                                                                         *)
(* A head is whole; or invalid; or open, without a blank, colon or = that  *)
(* the parser looks for; or one that it slices out of bounds, with an      *)
(* empty id of structured data or a ] before the [ in its tag.             *)
(***************************************************************************)
EXTENDS Integers, Sequences, SequencesExt, FiniteSetsExt

CONSTANTS
  Modes,       \* of "counted", "lines", "dgram"
  MaxFrames,   \* bound: messages sent
  MaxText,     \* bound: octets of a text
  Priorities   \* the numbers between < and >

ASSUME SyslogAssumption ==
  /\ Modes \subseteq {"counted", "lines", "dgram"}
  /\ MaxFrames \in Nat /\ MaxText \in Nat
  /\ Priorities \subseteq Int

VARIABLES
  mode,
  frames,      \* sent: [prio, form, text, nl]
  stream,      \* the units sent: [frame, part]
  arrived,     \* units in the reader's buffer or read
  split,       \* a message that was read had not arrived whole
  rpos,        \* units read
  start,       \* where the head is that was read
  syspc,       \* "head", "text"
  total,       \* what is left of the count, 0 without one
  head,        \* the frame whose head was read
  heard,       \* messages given to Receive: [frame, severity, facility, from, to]
  totalBytes,  \* TotalBytes
  sysEnd,      \* "no", "error", "failed": runConn returned an error or that
               \* of Receive, "panic": the process ended
  shut         \* the sender closed the connection

sender  == <<mode, frames, stream, shut>>
reader  == <<split, rpos, start, syspc, total, head, heard, totalBytes, sysEnd>>
sysVars == <<sender, arrived, reader>>

Facilities == 24
Severities == 8

-----------------------------------------------------------------------------
(* The network                                                             *)

Units(i, f) ==
  [j \in 1 .. 1 + f.text + (IF f.nl THEN 1 ELSE 0) |->
     [frame |-> i, part |-> IF j = 1 THEN "head" ELSE IF j <= 1 + f.text THEN "text" ELSE "nl"]]

\* A datagram arrives whole.
Send(f) ==
  /\ Len(frames) < MaxFrames /\ ~shut
  /\ frames' = Append(frames, f)
  /\ stream' = stream \o Units(Len(frames) + 1, f)
  /\ arrived' = IF mode = "dgram" THEN Len(stream') ELSE arrived
  /\ UNCHANGED <<mode, shut, reader>>

Arrive(n) ==
  /\ mode # "dgram" /\ arrived + n <= Len(stream)
  /\ arrived' = arrived + n
  /\ UNCHANGED <<sender, reader>>

Shut ==
  /\ mode # "dgram" /\ ~shut /\ shut' = TRUE
  /\ UNCHANGED <<mode, frames, stream, arrived, reader>>

-----------------------------------------------------------------------------
(* runConn                                                                 *)

\* An error: runConn returns, and the connection is read no more.
Fail == sysEnd' = "error" /\ UNCHANGED <<split, rpos, start, syspc, total, head, heard, totalBytes>>

\* Mutant: the head is not taken off the count.
SizeOfFrame(f) == 1 + f.text + (IF f.nl THEN 1 ELSE 0)

\* What is left of the count of a message once its head is read.
SizeOfText(f) == f.text + (IF f.nl THEN 1 ELSE 0)

\* The head of frame i, at start, is read up to unit to; the rest of a unit
\* that a delimiter was found in is text.
HeadRead(i, to) ==
  /\ rpos' = to /\ start' = rpos + 1 /\ head' = i /\ syspc' = "text"
  /\ total' = LET left == SizeOfText(frames[i]) - (to - (rpos + 1))
              IN  IF mode = "counted" /\ left > 0 THEN left ELSE 0
  /\ UNCHANGED <<split, heard, totalBytes, sysEnd>>

\* The size, '<', and on to the ':' or the structured data, which wait for
\* more input where there is none.  Where a delimiter is missing ReadString
\* reads on, over the newline, to one in a text or a later head; behind a =
\* there has to be a quote.
ReadHead ==
  /\ sysEnd = "no" /\ syspc = "head" /\ rpos < arrived
  /\ LET u == stream[rpos + 1]
         form == frames[u.frame].form
     IN  \/ (u.part # "head" \/ form \in {"invalid", "open"}) /\ Fail
         \/ u.part = "head" /\ form = "whole" /\ HeadRead(u.frame, rpos + 1)
         \/ /\ u.part = "head" /\ form = "open"
            /\ \E j \in rpos + 2 .. arrived : stream[j].part # "nl" /\ HeadRead(u.frame, j)
         \/ /\ u.part = "head" /\ form = "slice"
            /\ sysEnd' = "panic" /\ head' = u.frame
            /\ UNCHANGED <<split, rpos, start, syspc, total, heard, totalBytes>>
  /\ UNCHANGED <<sender, arrived>>

\* The end of parseSyslog and parse5425: severity and facility by the tables,
\* prio > 8 and fac > len(facility) where >= is meant; then Receive, whose
\* error ends the connection.
Received(to) ==
  LET p == frames[head].prio
      fac == IF p \div 8 > Facilities THEN 0 ELSE p \div 8
      sev == IF p > 8 THEN p % 8 ELSE p
  IN  /\ rpos' = to /\ syspc' = "head"
      /\ IF sev \notin 0 .. Severities - 1 \/ (p > 8 /\ fac >= Facilities)
         THEN sysEnd' = "panic" /\ UNCHANGED <<heard, totalBytes>>
         ELSE /\ heard' = Append(heard, [frame |-> head, severity |-> sev,
                                         facility |-> IF p > 8 THEN fac ELSE -1,
                                         from |-> start, to |-> to])
              /\ totalBytes' = totalBytes + (IF mode = "counted" THEN SizeOfText(frames[head]) + 1
                                                                ELSE to - start + 1)
              /\ sysEnd' \in {"no", "failed"}

\* A count: one Read, which returns what is in the buffer; the message is as
\* long as the count, the rest of it zeroes.
ReadCounted ==
  /\ sysEnd = "no" /\ syspc = "text" /\ total > 0 /\ rpos < arrived
  /\ LET n == Min({total, arrived - rpos})
     IN  /\ Received(rpos + n)
         /\ split' = (split \/ n < total)
  /\ UNCHANGED <<sender, arrived, start, total, head>>

\* No count, or nothing left of it: up to a newline, whichever message's.
ReadLine ==
  LET ends == {i \in rpos + 1 .. arrived : stream[i].part = "nl"}
  IN  /\ sysEnd = "no" /\ syspc = "text" /\ total = 0 /\ ends # {}
      /\ Received(Min(ends))
      /\ UNCHANGED <<sender, arrived, split, start, total, head>>

\* The connection is closed: what a read had so far is dropped.
ReadEOF ==
  /\ sysEnd = "no" /\ shut /\ arrived = Len(stream)
  /\ \/ rpos = arrived
     \/ syspc = "text" /\ total = 0 /\ \A i \in rpos + 1 .. arrived : stream[i].part # "nl"
  /\ Fail
  /\ UNCHANGED <<sender, arrived>>

-----------------------------------------------------------------------------
SysInit ==
  /\ mode \in Modes /\ frames = << >> /\ stream = << >> /\ arrived = 0 /\ split = FALSE
  /\ rpos = 0 /\ start = 0 /\ syspc = "head" /\ total = 0 /\ head = 0 /\ heard = << >> /\ totalBytes = 0
  /\ sysEnd = "no" /\ shut = FALSE

\* Other priorities and heads come with a text, most with a newline.
Frames == [prio : {0}, form : {"whole"}, text : 0 .. MaxText, nl : BOOLEAN]
          \cup [prio : {0}, form : {"open"}, text : {1}, nl : BOOLEAN]
          \cup [prio : {0}, form : {"invalid", "slice"}, text : {1}, nl : {TRUE}]
          \cup [prio : Priorities, form : {"whole"}, text : {1}, nl : {TRUE}]
RunConn == ReadHead \/ ReadCounted \/ ReadLine \/ ReadEOF

SysNext == \/ \E f \in Frames : Send(f)
           \/ \E n \in 1 .. MaxText + 2 : Arrive(n)
           \/ Shut
           \/ RunConn

SysSpec == SysInit /\ [][SysNext]_sysVars

-----------------------------------------------------------------------------
(* Properties                                                              *)

SysTypeOK ==
  /\ mode \in Modes /\ frames \in Seq(Frames) /\ syspc \in {"head", "text"}
  /\ rpos \in 0 .. arrived /\ arrived \in 0 .. Len(stream) /\ start \in 0 .. rpos
  /\ head \in 0 .. Len(frames) /\ sysEnd \in {"no", "error", "failed", "panic"}

\* The frames whose end the reader can tell: with a newline where there is no
\* count, with a text where there is one.
Ended(f) == IF mode = "counted" THEN SizeOfText(f) > 0 ELSE f.nl

\* However a stream is cut into segments, messages come in order, without a
\* gap between them, and each starts with a head; one whose head is whole and
\* whose end can be told has its own text, all of it and no other's, whatever
\* came before: an open head costs the messages it reads into and no others.
\* The last one is excepted if it is counted and came in pieces (runConn,
\* parseSyslog).
OwnText ==
  \A i \in DOMAIN heard :
    LET h == heard[i]
        f == frames[h.frame]
    IN  /\ h.from = (IF i = 1 THEN 0 ELSE heard[i - 1].to) + 1
        /\ stream[h.from].frame = h.frame /\ stream[h.from].part = "head"
        /\ f.form = "whole" /\ Ended(f) /\ ~(split /\ i = Len(heard)) =>
             /\ \A k \in h.from .. h.to : stream[k].frame = h.frame
             /\ h.to - h.from + 1 = Len(Units(h.frame, f))

\* TotalBytes is what was read, unless messages are counted and one came in
\* pieces, a count ran out before its text, or a head was open (runConn).
CountsBytes ==
  syspc = "head" /\ sysEnd \in {"no", "failed"} /\ ~split
  /\ (mode = "counted" => \A j \in DOMAIN frames : Ended(frames[j]) /\ frames[j].form # "open")
    => totalBytes = rpos

\* A connection is given up only for a head that is malformed, at its end, and
\* by the receiver ("failed"); a piece of a text is taken for a head only after
\* a message that came in pieces.
GivesUp ==
  sysEnd = "error" /\ ~shut =>
    split \/ frames[stream[rpos + 1].frame].form \in {"invalid", "open"}

\* The process panics only for a priority that is one past a table, and for a
\* head that is sliced out of bounds.
PanicsAt ==
  sysEnd = "panic" =>
    LET p == frames[head].prio
    IN  frames[head].form = "slice" \/ p < 0 \/ p = 8 \/ p \div 8 = Facilities

\* A syslog stream is read message by message (runConn, parseSyslog).
SyslogReads == SysTypeOK /\ OwnText /\ CountsBytes /\ GivesUp /\ PanicsAt
=============================================================================
