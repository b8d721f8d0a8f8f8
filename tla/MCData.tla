------------------------------- MODULE MCData -------------------------------
(***************************************************************************)
(* Where messages are kept, where they come from and what they are written *)
(* as, for TLC: Spool, StreamCodec, S3, Poller, Message with Json, KV,     *)
(* Syslog, Metrics.  They have no variable in common: one of them, focus,  *)
(* moves and the others keep an initial state.                             *)
(***************************************************************************)
EXTENDS Spool, Poller, S3, Syslog, StreamCodec

CONSTANTS
  MaxParts,                                      \* of Message
  MetricNames, Amounts, MaxMetrics, MaxExports   \* of Metrics

VARIABLES
  known, attrs, tags, sid, panicked, given, given2, doubled,
  lines, text, bare, pos, pc, m, parsed,
  due, todo, handled, registry, crashed, exports, exporting, unread, readings, began,
  influx, window, flush,
  focus

-----------------------------------------------------------------------------
(* The messages                                                            *)

Symbols   == <<<<"-">>, <<"message">>>>
AttrNames == {<<"a">>, <<"message">>, <<"a", "0">>}
TagNames  == {<<"t">>, <<"u">>}

\* Every kind of value and of string, dotted and other names, tags with and
\* without a value, a session, nothing at all.
Attr(n, k, t) == [name |-> n, val |-> [kind |-> k, text |-> t]]
Tag(n, v)     == [name |-> n, value |-> v]
NoValue == <<"nil">>
Written ==
  LET a == <<"a">>
      attrSeqs ==
        {<<Attr(a, k, << >>)>> : k \in {"int", "negative", "float", "whole", "bool", "interval"}}
        \cup {<<Attr(n, "int", << >>)>> :
                n \in {<<"a", ".", "b">>, <<"a", ".", "b", ".", "a">>, <<"a", ".", "int">>,
                       <<"a", "-", "b">>, <<"a", "quote">>}}
        \cup {<<Attr(a, "bytes", <<"quote">>)>>}
        \cup {<<Attr(a, "string", t)>> : t \in {<< >>, <<"a">>, <<"quote">>, <<"\\">>, <<"\n">>}}
        \cup {<<Attr(a, "string", <<"\\">>), x>> :
                x \in {Attr(<<"b">>, "int", << >>), Attr(a, "string", <<"a">>)}}
      tagSeqs ==
        {<<Tag(<<"t">>, v)>> : v \in {NoValue, <<"quote">>, <<"\\">>}}
        \cup {<<Tag(<<"t", ".", "u">>, v)>> : v \in {NoValue, <<"a">>}}
        \cup {<<Tag(<<"t">>, v), Tag(<<"u">>, w)>> : v, w \in {NoValue, <<"a">>}}
  IN  [sid : {FALSE}, tags : {<< >>}, attrs : attrSeqs]
      \cup [sid : {TRUE}, tags : tagSeqs, attrs : {<< >>}]
      \cup [sid : {TRUE}, tags : {<<Tag(<<"t">>, NoValue)>>}, attrs : {<<Attr(a, "int", << >>)>>}]
      \cup [sid : BOOLEAN, tags : {<< >>}, attrs : {<< >>}]

\* Lines of text, and messages that stop early.
Malformed ==
  [raw : {<<"a", "b">>, << >>, <<">">>, <<">", "!", " ", "=">>}, eats : {FALSE}]
  \cup [raw : {<<">", " ", "a">>, <<">", " ", "a", "=">>, <<">", " ", "a", "=", "int", " ">>,
               <<">", " ", "[", "t">>, <<">", " ", "quote", "a">>, <<">", " ", "\\", "a">>,
               <<">", " ", "a", "=", ":", "int", ".">>}, eats : {TRUE}]

-----------------------------------------------------------------------------
J == INSTANCE Json WITH IndexToStr <- Symbols, Names <- AttrNames
K == INSTANCE KV WITH Messages <- Written, out <- parsed
M == INSTANCE Metrics WITH panicked <- crashed

msgVars == <<known, attrs, tags, sid, panicked, given, given2, doubled>>
kvVars  == <<lines, text, bare, pos, pc, m, parsed>>
metVars == <<due, todo, handled, registry, crashed, exports, exporting, unread, readings,
             began, influx, window, flush>>
dataVars == <<spoolVars, strVars, s3Vars, pollVars, msgVars, kvVars, sysVars, metVars, focus>>

InSpool   == focus = "Spool" /\ UNCHANGED <<strVars, s3Vars, pollVars, msgVars, kvVars, sysVars, metVars, focus>>
InStream  == focus = "Stream" /\ UNCHANGED <<spoolVars, s3Vars, pollVars, msgVars, kvVars, sysVars, metVars, focus>>
InS3      == focus = "S3" /\ UNCHANGED <<spoolVars, strVars, pollVars, msgVars, kvVars, sysVars, metVars, focus>>
InPoller  == focus = "Poller" /\ UNCHANGED <<spoolVars, strVars, s3Vars, msgVars, kvVars, sysVars, metVars, focus>>
InMessage == focus = "Message" /\ UNCHANGED <<spoolVars, strVars, s3Vars, pollVars, kvVars, sysVars, metVars, focus>>
InKV      == focus = "KV" /\ UNCHANGED <<spoolVars, strVars, s3Vars, pollVars, msgVars, sysVars, metVars, focus>>
InSyslog  == focus = "Syslog" /\ UNCHANGED <<spoolVars, strVars, s3Vars, pollVars, msgVars, kvVars, metVars, focus>>
InMetrics == focus = "Metrics" /\ UNCHANGED <<spoolVars, strVars, s3Vars, pollVars, msgVars, kvVars, sysVars, focus>>

\* A component that does not move starts in one of its initial states.
DataInit ==
  /\ focus \in {"Spool", "Stream", "S3", "Poller", "Message", "KV", "Syslog", "Metrics"}
  /\ SpoolInit /\ M!Init
  /\ J!Init /\ (focus # "Message" => known)
  /\ StreamInit /\ (focus # "Stream" => file = << >>)
  /\ S3Init /\ (focus # "S3" => signed /\ allow)
  /\ PollInit /\ (focus # "Poller" => kind = "loggly" /\ order = "asc" /\ bufferSize = 1)
  /\ K!Init /\ (focus # "KV" => bare)
  /\ SysInit /\ (focus # "Syslog" => mode = "lines")

\* Bound: a second crash falls into the recovery from the first.
SecondCrash == crashes' = 2 /\ crashes = 1 => wpc \in {"prune", "open"} /\ ~serving

\* Bound: logentries, of which both the service's time and the message's own
\* matter, has two moments.
TwoMoments ==
  kind = "logentries" => now' < 2 /\ \A i \in DOMAIN log' : log'[i].time < 2

\* Bound: one object at a time that is neither good nor unsigned.
OneFlaw == Cardinality({k \in DOMAIN bucket' : bucket'[k].is \notin {"good", "unsigned"}}) <= 1

\* Bound: of the third attribute of a message only three kinds.
LastKinds == Len(attrs') = 3 => attrs'[3].val.kind \in {"int", "bool", "string"}

\* Bound: a reader of bare lines gets one that does not begin as a message or
\* where a quote opens a string.
Bares(g) == IF "raw" \in DOMAIN g THEN TRUE
            ELSE \E a \in Range(g.attrs) : "quote" \in Range(a.name)
BareLines == bare /\ Len(lines') = 2 => \E i \in {1, 2} : Bares(lines'[i])

\* By the symmetry of their names, the first metric is "x".
FirstName == due = << >> /\ due' # << >> => due'[1].name = "x"

DataNext ==
  \/ InSpool /\ SpoolNext /\ SecondCrash
  \/ InStream /\ StreamNext
  \/ InS3 /\ S3Next /\ OneFlaw
  \/ InPoller /\ PollNext /\ TwoMoments
  \/ InMessage /\ J!Next /\ LastKinds
  \/ InKV /\ K!Next /\ BareLines
  \/ InSyslog /\ SysNext
  \/ InMetrics /\ M!Next /\ FirstName

DataSpec == DataInit /\ [][DataNext]_dataVars

-----------------------------------------------------------------------------
(* Properties                                                              *)

\* A message holds what the calls gave it, under the names they used
\* (log.go, Add, Remove, Get, AddTag, RemoveTag; symbols.go).
MessageHolds == focus = "Message" => J!MessageHolds



=============================================================================
