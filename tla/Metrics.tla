------------------------------ MODULE Metrics ------------------------------
(***************************************************************************)
(* From a statsd packet to InfluxDB: the statsd server parses a packet     *)
(* (statsd/server.go), the endpoint makes messages of its metrics          *)
(* (plugins/statsd/statsd.go), MetricSink keeps them in a registry         *)
(* (plugins/metrics/metrics.go), which is exported from time to time       *)
(* (influxdb/influxdb.go).                                                 *)
(*                                                                         *)
(* The registry (go-metrics) is external: GetOrRegister returns what is    *)
(* there under a name, and asserting another type of it panics; Each goes  *)
(* through a copy of the names and reads each metric when it gets there.   *)
(* The export has a goroutine of its own (EnableInflux).  Values are       *)
(* counted in halves, so that they have fractions.                         *)
(***************************************************************************)
EXTENDS Integers, Sequences, SequencesExt

CONSTANTS
  MetricNames,
  Amounts,     \* values of metrics, in halves
  MaxMetrics,  \* bound: metrics handled
  MaxExports   \* bound: exports

VARIABLES
  due,         \* the metrics of the packets received that parse, in order
  todo,        \* metrics of a packet that HandleMetric is still to be called for
  handled,     \* those it was called for, in order
  registry,    \* [name -> [type, value]]; a timer's value is its count
  panicked,    \* the process ended
  exports,     \* exports begun
  exporting,   \* send08 runs
  unread,      \* names Each has not come to
  readings,    \* [name -> [type, value]]: the series so far
  began,       \* metrics handled when the export began
  influx,      \* the series InfluxDB has
  window,      \* metrics handled when their export began and when it was sent
  flush        \* the last export: "none", "sent", "lost", "unencodable"

server   == <<due, todo, handled, registry>>
exporter == <<exports, exporting, unread, readings, began, influx, window, flush>>
vars     == <<server, exporter, panicked>>

\* NaN is a value that strconv reads and JSON cannot write.
NaN == 1000

-----------------------------------------------------------------------------
(* The statsd server                                                       *)

\* A line: a counter, a timer or a gauge; a signed gauge or a set ("unknown");
\* nothing after the bar; or no metric at all.
Lines == [is : {"counter", "timer", "gauge", "unknown"}, name : MetricNames, value : Amounts]
         \cup [is : {"gauge"}, name : MetricNames, value : {NaN}]
         \cup [is : {"typeless", "invalid"}, name : {"-"}, value : {0}]

\* The first line that stops the loop of parsePacket; none is Len(ls) + 1.
FirstBad(ls) ==
  LET bad == {i \in DOMAIN ls : ls[i].is \in {"typeless", "invalid"}}
  IN  IF bad = {} THEN Len(ls) + 1 ELSE CHOOSE i \in bad : \A j \in bad : i <= j


\* parsePacket: all lines, or an error and none; rest[0] of a line that ends
\* in its bar is out of range.
parsePacket(ls) == IF FirstBad(ls) > Len(ls) THEN ls ELSE << >>

-----------------------------------------------------------------------------
(* MetricSink.Receive of what handleMetric makes of a metric               *)

Truncated(v) == IF v >= 0 THEN v \div 2 ELSE -((-v) \div 2)

\* The registry after a metric: a counter counts whole numbers, a gauge keeps
\* the last value, a timer counts.  Another type is returned as
\* ErrInvalidMetric, which handleMetric drops.
Kept(r, l) ==
  LET old == IF l.name \in DOMAIN r THEN r[l.name].value ELSE 0
      new == CASE l.is = "counter" -> old + Truncated(l.value)
               [] l.is = "gauge" -> l.value
               [] OTHER -> old + 1
  IN  IF l.is = "unknown" THEN r
      ELSE [n \in DOMAIN r \cup {l.name} |->
              IF n = l.name THEN [type |-> l.is, value |-> new] ELSE r[n]]

\* A metric under a name that has another type.
Clashes(r, l) == /\ l.is # "unknown"
                 /\ l.name \in DOMAIN r /\ r[l.name].type # l.is

\* handlePacket; a line without a type ends the process before any metric is
\* handled.
HandlePacket(ls) ==
  /\ todo = << >> /\ Len(handled) + Len(ls) <= MaxMetrics
  /\ due' = due \o (IF FirstBad(ls) > Len(ls) THEN ls ELSE << >>)
  /\ IF FirstBad(ls) <= Len(ls) /\ ls[FirstBad(ls)].is = "typeless"
     THEN panicked' = TRUE /\ UNCHANGED todo
     ELSE todo' = parsePacket(ls) /\ UNCHANGED panicked
  /\ UNCHANGED <<handled, registry, exporter>>

\* HandleMetric for the next metric of the packet.
HandleMetric ==
  /\ todo # << >>
  /\ IF Clashes(registry, Head(todo)) THEN panicked' = TRUE /\ UNCHANGED server
     ELSE /\ registry' = Kept(registry, Head(todo))
          /\ handled' = Append(handled, Head(todo)) /\ todo' = Tail(todo)
          /\ UNCHANGED <<due, panicked>>
  /\ UNCHANGED exporter

-----------------------------------------------------------------------------
(* send08, beside the server                                               *)

\* r.Each: the names that are there now.
Begin ==
  /\ ~exporting /\ exports < MaxExports
  /\ exporting' = TRUE /\ exports' = exports + 1 /\ began' = Len(handled)
  /\ unread' = DOMAIN registry /\ readings' = << >>
  /\ UNCHANGED <<server, panicked, influx, window, flush>>

\* The function Each is given, for one of them: what the metric is by now.
ReadMetric(n) ==
  /\ exporting /\ n \in unread
  /\ unread' = unread \ {n}
  /\ readings' = [k \in DOMAIN readings \cup {n} |-> IF k = n THEN registry[n] ELSE readings[k]]
  /\ UNCHANGED <<server, panicked, exports, exporting, began, influx, window, flush>>

Encodable == \A n \in DOMAIN readings : readings[n].value # NaN

\* One request for all of them.  A value that cannot be encoded drops them
\* all; an error of the request or of its answer is logged, whether InfluxDB
\* took it or not.
Export(ok, taken) ==
  /\ exporting /\ unread = {} /\ (ok => taken)
  /\ exporting' = FALSE
  /\ flush' = IF ~Encodable THEN "unencodable" ELSE IF ok THEN "sent" ELSE "lost"
  /\ IF Encodable /\ taken THEN influx' = readings /\ window' = <<began, Len(handled)>>
                           ELSE UNCHANGED <<influx, window>>
  /\ UNCHANGED <<server, panicked, exports, unread, readings, began>>

-----------------------------------------------------------------------------
Init ==
  /\ due = << >> /\ todo = << >> /\ handled = << >> /\ registry = << >> /\ panicked = FALSE
  /\ exports = 0 /\ exporting = FALSE /\ unread = {} /\ readings = << >> /\ began = 0
  /\ influx = << >> /\ window = <<0, 0>> /\ flush = "none"

Next ==
  /\ ~panicked
  /\ \/ \E a \in Lines : HandlePacket(<<a>>)
     \/ \E a, b \in Lines : HandlePacket(<<a, b>>)
     \/ HandleMetric
     \/ Begin
     \/ \E n \in MetricNames : ReadMetric(n)
     \/ \E ok, taken \in BOOLEAN : Export(ok, taken)

Spec == Init /\ [][Next]_vars

-----------------------------------------------------------------------------
(* Properties                                                              *)

TypeOK ==
  /\ DOMAIN registry \subseteq MetricNames /\ DOMAIN influx \subseteq DOMAIN registry
  /\ unread \subseteq DOMAIN registry /\ DOMAIN readings \subseteq DOMAIN registry
  /\ flush \in {"none", "sent", "lost", "unencodable"}
  /\ exports \in 0 .. MaxExports /\ {panicked, exporting} \subseteq BOOLEAN

\* The metrics of a packet are handled in order, all of them or, if one line
\* of it is bad, none; the comment of Receive (server.go) has each line that
\* parses handled (parsePacket, handlePacket).
AllOrNone == ~panicked => handled \o todo = due

\* The value of n, of type is, after the first k metrics: a counter is the sum
\* of what it was sent, each rounded to a whole number by itself, a gauge the
\* last value, a timer the number of its times.
Value(n, is, k) ==
  LET of == SelectSeq(SubSeq(handled, 1, k), LAMBDA l : l.name = n /\ l.is = is)
  IN  CASE is = "counter" -> FoldLeft(LAMBDA sum, l : sum + Truncated(l.value), 0, of)
        [] is = "gauge" -> IF of = << >> THEN 0 ELSE Last(of).value
        [] OTHER -> Len(of)

\* No metric that was handled is left out of the registry or counted twice
\* (handleMetric, Receive).
Totals ==
  ~panicked => \A n \in DOMAIN registry :
    registry[n].value = Value(n, registry[n].type, Len(handled))

\* A name keeps its type: a metric of another type under it ends the process
\* (GetOrRegisterCounter).
OneType ==
  \A n \in MetricNames : \A i, j \in DOMAIN handled :
    LET typed == {"counter", "gauge", "timer"}
    IN  handled[i].name = n /\ handled[j].name = n
          /\ handled[i].is \in typed /\ handled[j].is \in typed
        => handled[i].is = handled[j].is

\* What InfluxDB has of a metric is what it was at some moment of the export,
\* not one moment for all of them, and it has every metric there was when the
\* export began; so it has the registry if none was handled in between.  An
\* export that was lost is made good by the next; one gauge that is NaN keeps
\* back all metrics until it is set again (send08).
Exported ==
  /\ \A n \in DOMAIN influx : \E k \in window[1] .. window[2] :
       influx[n].value = Value(n, influx[n].type, k) /\ influx[n].value # NaN
  /\ \A i \in 1 .. window[1] : handled[i].is \in {"counter", "gauge", "timer"} =>
       handled[i].name \in DOMAIN influx
  /\ flush = "sent" /\ ~exporting => window[1] = began
  /\ flush = "unencodable" =>
       \E i \in DOMAIN handled : handled[i].is = "gauge" /\ handled[i].value = NaN

=============================================================================
