---------------------------- MODULE StreamCodec ----------------------------
(***************************************************************************)
(* A file or connection as a stream of messages: StreamEncoder writes its  *)
(* header and its messages (stream_encoder.go, encoder.go, compress.go),   *)
(* several of them one after another to the same file; StreamDecoder and   *)
(* Decoder find out what it is and read it (stream_decoder.go, probe.go,   *)
(* header.go, peek.go, decoder.go).                                        *)
(*                                                                         *)
(* The stream is made of units: the three writes of a header, the two      *)
(* writes of a message, the marks of a zlib stream, and lines that another *)
(* program wrote.  A writer's process may end at any moment, with what it  *)
(* has not written out yet.  A unit that was written in part is, to a      *)
(* reader, one that is missing.  The reader comes when no encoder is open. *)
(***************************************************************************)
EXTENDS Integers, Sequences, SequencesExt

CONSTANTS
  Comps,       \* compressions given to Init
  Formats,     \* what other programs write, by the first byte: "text", "kv",
               \* "json", or "dash" for a text that starts like a header
  MaxWritten,  \* bound: messages
  MaxEncoders  \* bound: encoders made

ASSUME StreamAssumption ==
  /\ Comps \subseteq {"none", "snappy", "zlib"}
  /\ Formats \subseteq {"text", "kv", "json", "dash"}
  /\ MaxWritten \in Nat /\ MaxEncoders \in Nat

VARIABLES
  file,        \* the units of the stream: [is, n]
  encpc,       \* the encoder: "none", "raw" before a header, "header", "open"
  comp,        \* its compression
  encbuf,      \* units in its bufio.Writer, snappyWriter or zlib.Writer
  begun,       \* the zlib.Writer has written its mark
  accepted,    \* messages given to Receive
  half,        \* Encode has written a length and not yet the message
  saved,       \* messages written out by Flush or Close, or not buffered
  encoders,    \* encoders made
  unopened,    \* OpenFile returned an error
  decpc,       \* the reader: "none", "start", "probe", "decode"; how it ended
  decpos,      \* units it has read
  decoder,     \* d.decoder
  returned,    \* what it returned
  undone       \* "no", or the call that panicked

encodeVars == <<encpc, comp, encbuf, begun, accepted, half, saved, encoders, unopened>>
decodeVars == <<decpc, decpos, decoder, returned>>
strVars == <<file, encodeVars, decodeVars, undone>>

Unit(is, n) == [is |-> is, n |-> n]
Mark == Unit("-", 0)
ZHead == Unit("zhead", 0)
ZEnd == Unit("zend", 0)
Junk == Unit("junk", 0)

\* A line without its newline.
Cut == 1

-----------------------------------------------------------------------------
(* StreamEncoder                                                           *)

Encoding == decpc = "none" /\ undone = "no"

NewStreamEncoder ==
  /\ Encoding /\ encpc = "none" /\ encoders < MaxEncoders
  /\ encoders' = encoders + 1
  /\ encpc' = "raw" /\ encbuf' = << >> /\ begun' = FALSE /\ half' = FALSE
  /\ UNCHANGED <<file, comp, accepted, saved, unopened, decodeVars, undone>>

\* Init, WriteCustomHeader: the mark, the size, the header, in three writes to
\* a stream that is empty (Spool.openCurrent, Send.SendHandshake).
WriteHeader(c) ==
  /\ Encoding
  /\ (encpc = "raw" /\ file = << >>) \/ encpc = "header"
  /\ file' = Append(file, CASE Len(file) = 0 -> Mark
                            [] Len(file) = 1 -> Unit("size", 0)
                            [] OTHER         -> Unit(c, 0))
  /\ encpc' = IF Len(file) = 2 THEN "open" ELSE "header"
  /\ comp' = c
  /\ UNCHANGED <<encbuf, begun, accepted, half, saved, encoders, unopened, decodeVars, undone>>

\* UnmarshalFrom: the size and the header behind the mark are all there.
HeaderWhole == Len(file) >= 3

\* Probe.Probe: the compression, "none" without a header, or an error.
Probed == IF file = << >> THEN "eof"
          ELSE IF file[1].is = "dash" THEN "garbled"
          ELSE IF file[1] # Mark THEN "none"
          ELSE IF ~HeaderWhole THEN "eof" ELSE file[3].is

\* OpenFile, of a file that is not empty: what is there decides how to go on.
OpenFile ==
  /\ Encoding /\ encpc = "raw" /\ file # << >> /\ ~half
  /\ IF Probed \in {"eof", "garbled"}
     THEN encpc' = "none" /\ unopened' = TRUE /\ UNCHANGED comp
     ELSE encpc' = "open" /\ comp' = Probed /\ UNCHANGED unopened
  /\ UNCHANGED <<file, encbuf, begun, accepted, half, saved, encoders, decodeVars, undone>>

\* Encode: '+' and the length, then the message, each in a Write.
Encode(u) ==
  IF encpc = "raw" THEN file' = Append(file, u) /\ UNCHANGED encbuf
  ELSE encbuf' = Append(encbuf, u) /\ UNCHANGED file

\* Without a header messages go to a stream that has none.
EncodeHead ==
  /\ Encoding /\ ~half /\ accepted < MaxWritten
  /\ encpc = "open" \/ (encpc = "raw" /\ \A i \in DOMAIN file : file[i].is \in {"+", "body"})
  /\ Encode(Unit("+", accepted + 1))
  /\ accepted' = accepted + 1 /\ half' = TRUE
  /\ UNCHANGED <<encpc, comp, begun, saved, encoders, unopened, decodeVars, undone>>

EncodeBody ==
  /\ Encoding /\ half
  /\ Encode(Unit("body", accepted))
  /\ half' = FALSE
  /\ saved' = IF encpc = "raw" THEN saved \cup {accepted} ELSE saved
  /\ UNCHANGED <<encpc, comp, begun, accepted, encoders, unopened, decodeVars, undone>>

\* What is written out when the first k units of the buffer are.
WrittenOut(k) == (IF comp = "zlib" /\ ~begun THEN <<ZHead>> ELSE << >>) \o SubSeq(encbuf, 1, k)
Unsaved == {encbuf[i].n : i \in {j \in DOMAIN encbuf : encbuf[j].is = "body"}}

\* A Write that fills the buffer: a snappy chunk is all of it.
Spill(k) ==
  /\ Encoding /\ encpc = "open" /\ encbuf # << >> /\ k <= Len(encbuf)
  /\ k = Len(encbuf) \/ comp # "snappy"
  /\ file' = file \o WrittenOut(k)
  /\ encbuf' = SubSeq(encbuf, k + 1, Len(encbuf))
  /\ begun' = TRUE
  /\ saved' = saved \cup (Unsaved \ {encbuf'[i].n : i \in DOMAIN encbuf'})
  /\ UNCHANGED <<encpc, comp, accepted, half, encoders, unopened, decodeVars, undone>>

\* Flush, and flushTimer, under the lock of Receive.
FlushStream ==
  /\ Encoding /\ encpc = "open" /\ ~half
  /\ file' = file \o WrittenOut(Len(encbuf))
  /\ encbuf' = << >> /\ begun' = TRUE /\ saved' = saved \cup Unsaved
  /\ UNCHANGED <<encpc, comp, accepted, half, encoders, unopened, decodeVars, undone>>

\* s.ew is nil without Init or OpenFile.
CloseStream ==
  /\ Encoding /\ encpc \in {"raw", "open"} /\ ~half
  /\ file' = IF encpc = "raw" THEN file
             ELSE file \o WrittenOut(Len(encbuf)) \o (IF comp = "zlib" THEN <<ZEnd>> ELSE << >>)
  /\ undone' = IF encpc = "raw" THEN "Close" ELSE undone
  /\ encpc' = "none" /\ encbuf' = << >> /\ saved' = saved \cup Unsaved
  /\ UNCHANGED <<comp, begun, accepted, half, encoders, unopened, decodeVars>>

CrashEncoder ==
  /\ Encoding /\ encpc # "none"
  /\ encpc' = "none" /\ encbuf' = << >> /\ half' = FALSE
  /\ UNCHANGED <<file, comp, begun, accepted, saved, encoders, unopened, decodeVars, undone>>

-----------------------------------------------------------------------------
(* StreamDecoder                                                           *)

NewStreamDecoder ==
  /\ Encoding /\ encpc = "none"
  /\ decpc' = "start"
  /\ UNCHANGED <<file, encodeVars, decpos, decoder, returned, undone>>

\* Mutant: the byte that Probe looked at is not given back.
PeekLost == IF Probed = "none" /\ file[1] # Mark THEN 1 ELSE 3

\* bytePeekReader gives back the byte that is no mark.
AfterProbe == IF Probed = "none" /\ file[1] # Mark THEN 0 ELSE 3

\* Probe, in the first Generate.  After an error the next Generate goes on with
\* the decoder of the stream as it is.  zlib.NewReader reads its mark at once.
Probe ==
  /\ decpc = "start"
  /\ CASE Probed = "eof"     -> decpc' = "probe" /\ decpos' = Len(file) /\ UNCHANGED undone
       [] Probed = "garbled" -> decpc' = "probe" /\ decpos' = 1 /\ UNCHANGED undone
       [] Probed = "zlib" /\ Len(file) = 3 ->
            decpc' = "ended" /\ undone' = "Probe" /\ UNCHANGED decpos
       [] OTHER -> /\ decpc' = "probe" /\ UNCHANGED undone
                   /\ decpos' = AfterProbe + (IF Probed = "zlib" THEN 1 ELSE 0)
  /\ UNCHANGED <<file, encodeVars, decoder, returned>>

\* The end of the data: of the first zlib stream, or where another one starts
\* inside it and is an error.
AtEnd == decpos \notin {i \in 0 .. Len(file) - 1 : file[i + 1] \notin {ZHead, ZEnd}}

\* Decoder.probe: the first byte decides for the whole stream.
Pick ==
  /\ decpc = "probe" /\ ~AtEnd
  /\ decpc' = "decode"
  /\ decoder' = CASE file[decpos + 1].is = "+" -> "native"
              [] file[decpos + 1].is \in {"kv", "json"} -> file[decpos + 1].is
              [] OTHER -> "text"
  /\ UNCHANGED <<file, encodeVars, decpos, returned, undone>>

Ends ==
  /\ decpc \in {"probe", "decode"} /\ AtEnd
  /\ decpc' = "ended"
  /\ UNCHANGED <<file, encodeVars, decpos, decoder, returned, undone>>

Returns(u, p) == returned' = Append(returned, u) /\ decpos' = p /\ UNCHANGED decpc
Fails == decpc' = "ended" /\ UNCHANGED <<decpos, returned>>

\* decodeNative: a length, and as many bytes, whatever they are.  Those of other
\* units unmarshal to an error or to something; it is not followed further.
Native ==
  LET u == file[decpos + 1]
      next == IF decpos + 1 = Len(file) THEN ZEnd ELSE file[decpos + 2]
  IN  IF u.is = "+" /\ next = Unit("body", u.n) THEN Returns(next, decpos + 2)
      ELSE Fails \/ (u.is = "+" /\ next \notin {ZHead, ZEnd} /\ Returns(Junk, Len(file)))

\* decodeBare: a line that ends; KVParser skips what is no message, the JSON
\* decoder keeps its error.
Line ==
  LET u == file[decpos + 1]
  IN  IF decoder = "text" THEN IF u.n = Cut THEN Fails ELSE Returns(u, decpos + 1)
      ELSE IF u.is = decoder THEN Returns(u, decpos + 1)
      ELSE IF decoder = "kv" THEN decpos' = decpos + 1 /\ UNCHANGED <<returned, decpc>> ELSE Fails

Decode ==
  /\ decpc = "decode" /\ ~AtEnd
  /\ IF decoder = "native" THEN Native ELSE Line
  /\ UNCHANGED <<file, encodeVars, decoder, undone>>

-----------------------------------------------------------------------------
\* A file that is empty, or of lines of another program, the last perhaps
\* without its newline.
StreamInit ==
  /\ file \in {<< >>} \cup {<<Unit(f, k)>> : f \in Formats, k \in {0, Cut}}
              \cup {<<Unit(f, 0), Unit(g, k)>> : f \in Formats, g \in Formats, k \in {0, Cut}}
  /\ encpc = "none" /\ comp = "none" /\ encbuf = << >> /\ begun = FALSE
  /\ accepted = 0 /\ half = FALSE /\ saved = {} /\ encoders = 0 /\ unopened = FALSE
  /\ decpc = "none" /\ decpos = 0 /\ decoder = "none" /\ returned = << >> /\ undone = "no"

StreamNext ==
  \/ NewStreamEncoder \/ OpenFile \/ EncodeHead \/ EncodeBody \/ FlushStream \/ CloseStream \/ CrashEncoder
  \/ \E c \in Comps : WriteHeader(c)
  \/ \E k \in 0 .. 2 * MaxWritten : Spill(k)
  \/ NewStreamDecoder \/ Probe \/ Pick \/ Ends \/ Decode

StreamSpec == StreamInit /\ [][StreamNext]_strVars

-----------------------------------------------------------------------------
(* Properties                                                              *)

StreamUnits == [is : {"-", "size", "+", "body", "zhead", "zend", "junk"} \cup Comps \cup Formats, n : Nat]

StreamTypeOK ==
  /\ file \in Seq(StreamUnits) /\ encbuf \in Seq(StreamUnits) /\ returned \in Seq(StreamUnits)
  /\ encpc \in {"none", "raw", "header", "open"} /\ comp \in Comps \cup {"none"}
  /\ saved \subseteq 1 .. accepted /\ accepted \in 0 .. MaxWritten /\ decpos \in 0 .. Len(file)
  /\ decpc \in {"none", "start", "probe", "decode", "ended"}
  /\ decoder \in {"none", "native", "kv", "json", "text"}

Foreign(u) == u.is \in Formats

\* Where a reader of messages cannot go on: a length without its message, or
\* a second zlib stream.
Barrier(i) ==
  \/ file[i].is = "+" /\ (i = Len(file) \/ file[i + 1] # Unit("body", file[i].n))
  \/ file[i] = ZHead /\ \E j \in 1 .. i - 1 : file[j] = ZHead

\* Unit i of the file is a message that was among the first k returned.
Got(i, k) == \E l \in 1 .. k : returned[l] = file[i]

\* Through any number of encoders and crashes, a stream that starts with a
\* header or a message is read back in order, each message after all that come
\* before it in the file, up to a message that a crash cut or a second zlib
\* stream: what was written out is only lost behind one of these (Receive,
\* Flush, Close, OpenFile, Probe, decodeNative).
ReadsSaved ==
  decpc = "ended" /\ file # << >> /\ ~Foreign(file[1]) =>
    /\ \A k \in DOMAIN returned :
         IF returned[k] = Junk THEN \E i \in DOMAIN file : Barrier(i)
         ELSE \E i \in DOMAIN file :
                /\ file[i] = returned[k] /\ file[i].is = "body"
                /\ \A j \in 1 .. i : file[j].is = "body" => Got(j, k)
    /\ \A k, l \in DOMAIN returned :
         k < l /\ Junk \notin {returned[k], returned[l]} => returned[k].n < returned[l].n
    /\ \A n \in saved : \E i \in DOMAIN file :
         /\ file[i] = Unit("body", n)
         /\ Got(i, Len(returned)) \/ \E j \in 1 .. i - 1 : Barrier(j)

\* Of lines of one format, all are read that end, and nothing else is read as a
\* message, whatever was appended to the file (decodeBare, probe).
ReadsLines ==
  decpc = "ended" /\ file # << >> /\ Foreign(file[1]) /\ file[1].is # "dash"
  /\ (\A i \in DOMAIN file : file[i].is = file[1].is) =>
    LET unended == IF file[1].is = "text" /\ file[Len(file)].n = Cut THEN 1 ELSE 0
    IN  returned = SubSeq(file, 1, Len(file) - unended)

\* An encoder is refused a file only if it is text that starts like a header,
\* or a crash cut the header; that file stays as it is, for every later encoder
\* (OpenFile).
OpensAgain ==
  unopened => file[1].is = "dash" \/ (file[1] = Mark /\ Len(file) < 3)

\* Close panics only without Init or OpenFile, a reader only in a zlib stream
\* that a crash left without its first byte (Close, ReadCompressed).
PanicsFor ==
  undone = "Probe" => Len(file) = 3 /\ file[3].is = "zlib"

\* A stream is read as what was written to it.
StreamReads == StreamTypeOK /\ ReadsSaved /\ ReadsLines /\ OpensAgain /\ PanicsFor
=============================================================================
