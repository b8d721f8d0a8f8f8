------------------------------- MODULE Spool -------------------------------
(***************************************************************************)
(* The on-disk spool (plugins/spool/spool.go) with the encoder it writes   *)
(* through (stream_encoder.go, the snappyWriter of compress.go), a writer  *)
(* that can crash between any two steps, and one SpoolGenerator that reads *)
(* the directory while the writer goes on.                                 *)
(*                                                                         *)
(* Receive may have several callers at once (the agent has one goroutine   *)
(* for each connection).  The encoder has a lock, the Spool has none: what *)
(* a caller does after encoding, the comparison with PerFileSize and       *)
(* Rotate, happens while others encode.                                    *)
(*                                                                         *)
(* The encoder writes a message in two parts, its length and its body:     *)
(* message m is the parts 2m-1 and 2m, and sizes count parts.  Files are   *)
(* numbered as they are created; as a rotated file is named after the time *)
(* of its rotation, the order of names is the order of these numbers.      *)
(***************************************************************************)
EXTENDS Integers, Sequences, SequencesExt, FiniteSets, FiniteSetsExt

CONSTANTS
  Callers,     \* calls of Receive and Rotate at a time
  MaxSpooled,  \* bound: messages given to Receive
  MaxOpens,    \* bound: files created for an explicit Rotate
  MaxCrashes,  \* bound: crashes
  Chunk,       \* chunkBuffer of the snappyWriter
  PerFile,     \* sf.PerFileSize
  MaxFiles     \* sf.MaxFiles

ASSUME SpoolAssumption ==
  /\ Callers \in Nat \ {0}
  /\ MaxSpooled \in Nat
  /\ MaxOpens \in Nat
  /\ MaxCrashes \in Nat
  /\ Chunk \in Nat \ {0}
  /\ PerFile \in Nat \ {0}
  /\ MaxFiles \in Nat

VARIABLES
  wpc,        \* where the caller is that encodes or rotates
  checks,     \* callers that have encoded and still compare with PerFileSize
  serving,    \* NewSpool has returned
  contents,   \* what was written to each file ever created
  current,    \* the file named "current", 0 if there is none
  rotated,    \* the files with a time for a name
  chunk,      \* the snappyWriter's buf
  startSize,  \* sf.startSize
  encoded,    \* s.encoded of the encoder
  received,   \* number of messages encoded
  lost,       \* parts that were in chunk at a crash
  astray,     \* parts given to an encoder whose file was closed
  unchecked,  \* calls that a crash cut off before the end of their rotation
  crashes,    \* number of crashes
  rpc,        \* where the reader is
  names,      \* the names Generator has still to open, 0 for "current"
  files,      \* sg.files
  index,      \* sg.current, counted from 1
  offset,     \* parts of that file decoded
  got,        \* messages Generate returned
  listed,     \* messages on disk when Generator read the directory
  disturbed   \* "current" was away while Generator opened the files

encVars    == <<chunk, startSize, encoded, received>>
dirVars    == <<contents, current, rotated>>
callVars   == <<checks, serving, astray>>
crashVars  == <<lost, unchecked, crashes>>
readerVars == <<rpc, names, files, index, offset, got, listed>>
spoolVars == <<wpc, encVars, dirVars, callVars, crashVars, readerVars, disturbed>>

Parts == 1 .. 2 * MaxSpooled
Files == DOMAIN contents
Linked == rotated \cup ({current} \ {0})

-----------------------------------------------------------------------------
(* The encoder                                                             *)

\* What is in buf reaches the current file.
WriteOut(data) == contents' = [contents EXCEPT ![current] = @ \o data]

\* s.buf.Len() < s.chunkBuffer
Buffered(data) == Len(data) < Chunk

\* snappyWriter.Write: buf is written once it has chunkBuffer bytes.
Put(part) ==
  LET data == Append(chunk, part)
  IN  IF Buffered(data)
      THEN chunk' = data /\ UNCHANGED contents
      ELSE chunk' = << >> /\ WriteOut(data)

\* snappyWriter.Flush
FlushChunk == chunk' = << >> /\ WriteOut(chunk)

-----------------------------------------------------------------------------
(* The writer                                                              *)

\* Rotate is under way; "late" is a Receive between its flush and its close.
Rotating == {"flush", "close", "late", "rename", "prune", "open"}

\* A caller holds the encoder's lock and has written the length.
InBody == wpc \in {"body", "late"}

\* Calls under way.
Busy == checks + (IF InBody THEN 1 ELSE 0)
               + (IF serving /\ wpc \in Rotating THEN 1 ELSE 0)

\* Receive, first part: the encoder writes the length.  It does not wait for
\* another caller's Rotate: what it does before the flush it may as well do
\* before that caller's comparison, what it does after the close is
\* ReceiveAstray.
ReceiveHead ==
  /\ wpc \in {"idle", "close"} /\ received < MaxSpooled /\ Busy < Callers
  /\ Put(2 * received + 1)
  /\ wpc' = IF wpc = "idle" THEN "body" ELSE "late"
  /\ UNCHANGED <<startSize, encoded, received, current, rotated, callVars,
                 crashVars, readerVars, disturbed>>

\* Receive goes on: the body, and the encoder is unlocked.
ReceiveBody ==
  /\ InBody
  /\ Put(2 * received + 2)
  /\ received' = received + 1
  /\ encoded' = encoded + 2
  /\ checks' = checks + 1
  /\ wpc' = IF wpc = "body" THEN "idle" ELSE "close"
  /\ UNCHANGED <<startSize, current, rotated, serving, astray, crashVars,
                 readerVars, disturbed>>

\* startSize + encoded has reached PerFileSize.
Full == startSize + encoded >= PerFile

\* The rest of Receive: a rotation if the file is full by now.  While another
\* caller rotates, both rename and open the same names, and what becomes of
\* the directory and of sf is not followed: "tangled".
Check ==
  /\ checks > 0
  /\ \/ ~Full /\ wpc \in {"idle", "body"} \cup Rotating /\ UNCHANGED wpc
     \/ Full /\ wpc = "idle" /\ wpc' = "flush"
     \/ Full /\ wpc \in Rotating /\ wpc' = "tangled"
  /\ checks' = checks - 1
  /\ UNCHANGED <<encVars, dirVars, serving, astray, crashVars, readerVars, disturbed>>

\* Flush, or the flush timer of the encoder, which waits for the lock that
\* Receive holds while it encodes.
Flush ==
  /\ wpc \in {"idle", "close"} /\ chunk # << >>
  /\ FlushChunk
  /\ UNCHANGED <<wpc, startSize, encoded, received, current, rotated, callVars,
                 crashVars, readerVars, disturbed>>

\* A caller's Rotate, or that of a Receive which found the file full before
\* another's rotation and goes on after it.
Rotate ==
  /\ wpc = "idle" /\ Len(contents) < MaxOpens /\ Busy < Callers
  /\ wpc' = "flush"
  /\ UNCHANGED <<encVars, dirVars, callVars, crashVars, readerVars, disturbed>>

\* Mutant: Rotate closes the file without flushing the encoder.
CloseUnflushed == chunk' = << >> /\ UNCHANGED contents

\* What Rotate does with buf before it closes the file.
RotateFlushes == FlushChunk

\* sf.enc.Flush()
RotateFlush ==
  /\ wpc = "flush"
  /\ RotateFlushes
  /\ wpc' = "close"
  /\ UNCHANGED <<startSize, encoded, received, current, rotated, callVars,
                 crashVars, readerVars, disturbed>>

\* sf.file.Close(), which does not wait for the encoder: what others have put
\* into buf since the flush does not reach the file any more.
CloseFile ==
  /\ wpc \in {"close", "late"}
  /\ chunk' = << >>
  /\ astray' = astray \cup Range(chunk)
               \cup (IF wpc = "late" THEN {2 * received + 2} ELSE {})
  /\ IF wpc = "late"
     THEN received' = received + 1 /\ encoded' = encoded + 2 /\ checks' = checks + 1
     ELSE UNCHANGED <<received, encoded, checks>>
  /\ wpc' = "rename"
  /\ UNCHANGED <<startSize, dirVars, serving, crashVars, readerVars, disturbed>>

\* Receive while another caller's Rotate has closed the file and not yet set
\* sf.enc: the old encoder keeps the message, or fails to write it.
ReceiveAstray ==
  /\ serving /\ wpc \in {"rename", "prune", "open"}
  /\ received < MaxSpooled /\ Busy < Callers
  /\ astray' = astray \cup {2 * received + 1, 2 * received + 2}
  /\ received' = received + 1
  /\ encoded' = encoded + 2
  /\ checks' = checks + 1
  /\ UNCHANGED <<wpc, chunk, startSize, dirVars, serving, crashVars, readerVars,
                 disturbed>>

\* os.Rename(sf.current, newName)
Rename ==
  /\ wpc = "rename"
  /\ rotated' = rotated \cup {current}
  /\ current' = 0
  /\ wpc' = "prune"
  /\ disturbed' = (disturbed \/ rpc = "opening")
  /\ UNCHANGED <<encVars, contents, callVars, crashVars, readerVars>>

\* count <= sf.MaxFiles returns early.
TooMany == Cardinality(rotated) > MaxFiles

\* The file with the least timestamp.
Oldest == Min(rotated)

\* pruneOldFiles: at most one file is removed.
Prune ==
  /\ wpc = "prune"
  /\ rotated' = IF TooMany THEN rotated \ {Oldest} ELSE rotated
  /\ wpc' = "open"
  /\ UNCHANGED <<encVars, contents, current, callVars, crashVars, readerVars,
                 disturbed>>

\* openCurrent: a file left by an earlier process is appended to.
OpenCurrent ==
  /\ wpc = "open"
  /\ IF current = 0
     THEN /\ contents' = Append(contents, << >>)
          /\ current' = Len(contents) + 1
          /\ startSize' = 0
     ELSE /\ startSize' = Len(contents[current])
          /\ UNCHANGED <<contents, current>>
  /\ encoded' = 0
  /\ wpc' = "idle"
  /\ serving' = TRUE
  /\ UNCHANGED <<chunk, received, rotated, checks, astray, crashVars, readerVars,
                 disturbed>>

\* Close when no other call is under way, and the process ends.
CloseSpool ==
  /\ wpc = "idle" /\ checks = 0
  /\ FlushChunk
  /\ wpc' = "down"
  /\ serving' = FALSE
  /\ UNCHANGED <<startSize, encoded, received, current, rotated, checks, astray,
                 crashVars, readerVars, disturbed>>

\* The process ends without Close (a crash, or the exit of a router, which
\* closes only its generators): what is in buf is gone.  A message whose body
\* was not written counts as received, and that part as lost.
Crash ==
  /\ wpc \notin {"down", "tangled"} /\ crashes < MaxCrashes
  /\ crashes' = crashes + 1
  /\ lost' = lost \cup Range(chunk) \cup (IF InBody THEN {2 * received + 2} ELSE {})
  /\ received' = IF InBody THEN received + 1 ELSE received
  /\ chunk' = << >>
  /\ unchecked' = unchecked + Busy
  /\ checks' = 0
  /\ serving' = FALSE
  /\ wpc' = "down"
  /\ UNCHANGED <<startSize, encoded, dirVars, astray, readerVars, disturbed>>

\* NewSpool in a new process: pruneOldFiles, then openCurrent.
NewSpool ==
  /\ wpc = "down"
  /\ wpc' = "prune"
  /\ UNCHANGED <<encVars, dirVars, callVars, crashVars, readerVars, disturbed>>

-----------------------------------------------------------------------------
(* The reader                                                              *)

\* The messages whose two parts are in file f.
Whole(f) == {m \in 1 .. MaxSpooled : {2 * m - 1, 2 * m} \subseteq Range(contents[f])}

\* The names in the directory, 0 for "current".
Names == rotated \cup {0}

\* They are opened in time order, "current" last.
NextName == IF names = {0} THEN 0 ELSE Min(names \ {0})

\* Generator: ioutil.ReadDir.
List ==
  /\ rpc = "none"
  /\ names' = Names
  /\ listed' = UNION {Whole(f) : f \in Linked}
  /\ disturbed' = (current = 0)
  /\ rpc' = "opening"
  /\ UNCHANGED <<wpc, encVars, dirVars, callVars, crashVars, files, index, offset, got>>

\* Generator: os.Open of the next name, skipped if there is no such file.
OpenNext ==
  /\ rpc = "opening" /\ names # {}
  /\ LET f == IF NextName = 0 THEN current ELSE NextName
     IN  files' = IF f \in Linked THEN Append(files, f) ELSE files
  /\ names' = names \ {NextName}
  /\ UNCHANGED <<wpc, encVars, dirVars, callVars, crashVars, rpc, index, offset, got,
                 listed, disturbed>>

\* Generator: NewStreamDecoder(files[0]).
Opened ==
  /\ rpc = "opening" /\ names = {}
  /\ rpc' = IF files = << >> THEN "panic" ELSE "reading"
  /\ UNCHANGED <<wpc, encVars, dirVars, callVars, crashVars, names, files, index, offset,
                 got, listed, disturbed>>

\* Mutant: the files are opened when they are reached.
OnlyLinked == IF files[index] \in Linked THEN contents[files[index]] ELSE << >>

\* An open file is read to its end, removed or not.
Data == contents[files[index]]

\* Generate: a whole message is returned.  A length that the body does not
\* follow is the remains of a crash; what comes after it is decoded as that
\* body.
Generate ==
  /\ rpc = "reading" /\ offset + 1 < Len(Data)
  /\ IF Data[offset + 1] % 2 = 1 /\ Data[offset + 2] = Data[offset + 1] + 1
     THEN /\ got' = Append(got, Data[offset + 2] \div 2)
          /\ offset' = offset + 2
          /\ UNCHANGED rpc
     ELSE /\ rpc' = "corrupt"
          /\ UNCHANGED <<got, offset>>
  /\ UNCHANGED <<wpc, encVars, dirVars, callVars, crashVars, names, files, index, listed,
                 disturbed>>

\* Generate at io.EOF, which is also what a length without a body ends in.
NextFile ==
  /\ rpc = "reading" /\ offset + 1 >= Len(Data)
  /\ index' = index + 1
  /\ offset' = 0
  /\ rpc' = IF index = Len(files) THEN "end" ELSE "reading"
  /\ UNCHANGED <<wpc, encVars, dirVars, callVars, crashVars, names, files, got, listed,
                 disturbed>>

-----------------------------------------------------------------------------
SpoolInit ==
  /\ wpc = "prune"
  /\ contents = << >> /\ current = 0 /\ rotated = {}
  /\ chunk = << >> /\ startSize = 0 /\ encoded = 0 /\ received = 0
  /\ checks = 0 /\ serving = FALSE
  /\ lost = {} /\ astray = {} /\ unchecked = 0 /\ crashes = 0
  /\ rpc = "none"
  /\ names = {} /\ files = << >> /\ index = 1 /\ offset = 0
  /\ got = << >> /\ listed = {} /\ disturbed = FALSE

Writer == \/ ReceiveHead \/ ReceiveBody \/ ReceiveAstray \/ Check \/ Flush
          \/ Rotate \/ RotateFlush \/ CloseFile \/ Rename \/ Prune \/ OpenCurrent
          \/ CloseSpool \/ Crash \/ NewSpool
Reader == List \/ OpenNext \/ Opened \/ Generate \/ NextFile

SpoolNext == Writer \/ Reader

SpoolSpec == SpoolInit /\ [][SpoolNext]_spoolVars

-----------------------------------------------------------------------------
(* Properties                                                              *)

WriterTypeOK ==
  /\ wpc \in {"idle", "body", "down", "tangled"} \cup Rotating
  /\ checks \in 0 .. Callers /\ serving \in BOOLEAN
  /\ contents \in Seq(Seq(Parts))
  /\ current \in {0} \cup Files /\ rotated \subseteq Files
  /\ wpc \in {"idle", "body", "flush", "close", "late", "rename"} => current # 0
  /\ chunk \in Seq(Parts) /\ Len(chunk) < Chunk
  /\ startSize \in Nat /\ encoded \in Nat /\ received \in 0 .. MaxSpooled
  /\ lost \subseteq Parts /\ astray \subseteq Parts
  /\ unchecked \in Nat /\ crashes \in 0 .. MaxCrashes

ReaderTypeOK ==
  /\ rpc \in {"none", "opening", "reading", "end", "panic", "corrupt"}
  /\ names \subseteq {0} \cup Files /\ files \in Seq(Files)
  /\ index \in 1 .. Len(files) + 1 /\ offset \in Nat
  /\ got \in Seq(1 .. MaxSpooled)
  /\ listed \subseteq 1 .. MaxSpooled /\ disturbed \in BOOLEAN

SpoolTypeOK == WriterTypeOK /\ ReaderTypeOK

\* In order, and nothing twice.
Increasing(s) == \A i, j \in DOMAIN s : i < j => s[i] < s[j]
Before(s, u)  == \A x \in Range(s), y \in Range(u) : x < y

\* What was written to files.
OnDisk == UNION {Range(contents[f]) : f \in Files}

\* What is in no file any more: a crash, or a Rotate beside a Receive.
Gone == lost \cup astray

\* Everything Receive encoded was written, in order, to the files or is still
\* in the encoder's buffer, except what was in that buffer at a crash, and what
\* was encoded while another caller's Rotate was between its flush and the new
\* encoder: no rotation, flush, close or restart loses, repeats or reorders
\* another part.
Stored ==
  LET put == IF InBody THEN 2 * received + 1 ELSE 2 * received
  IN  /\ \A f \in Files : Increasing(contents[f]) /\ Before(contents[f], chunk)
      /\ \A f, g \in Files : f < g => Before(contents[f], contents[g])
      /\ Increasing(chunk)
      /\ OnDisk \cup Range(chunk) = (1 .. put) \ Gone

\* A Spool with one caller at a time loses nothing but by a crash, and no
\* rotation begins during another (Receive, Rotate).
OneCaller == Callers = 1 => astray = {} /\ wpc # "tangled"

\* The spool keeps at most MaxFiles rotated files whenever the writer is ready
\* for a message, however often it was stopped between the rename and the
\* removal (Rotate, pruneOldFiles).
FilesBounded ==
  wpc \in {"open", "idle", "body"} => Cardinality(rotated) <= MaxFiles

\* What was removed is older than everything that is kept.
KeepsNewest == \A f \in Linked, g \in Files \ Linked : g < f

\* A SpoolGenerator returns the messages in the order of Receive and none of
\* them twice, whatever the writer does meanwhile.
ReadsInOrder == Increasing(got)

\* "we open all the files up front because something might rotate them out and
\* delete them, so we want to be sure we've still got access to them"
\* (spool.go, Generator): what was on disk when the directory was read is read,
\* whatever is rotated and removed meanwhile, unless the rename of "current"
\* falls between the ReadDir and the last Open.
ReadsAllListed == ~disturbed => /\ rpc # "panic"
                                /\ rpc = "end" => listed \subseteq Range(got)

\* A file outgrows PerFileSize by less than a message for each caller, and by
\* one more for every call that a crash cut off before its rotation: a file that
\* a restarted process goes on with counts with its size (openCurrent, Receive).
SizeLimit == PerFile - 1 + 2 * (Callers + unchecked)
SizeBounded == \A f \in Files : Len(contents[f]) <= SizeLimit

\* "reads all files when generating messages from the spool" (spool_test.go):
\* what was spooled can be decoded, unless a crash, or a Rotate that closed the
\* file during another caller's Receive, cut a message in half.
Decodable ==
  rpc = "corrupt" =>
    \E m \in 1 .. received : {2 * m - 1, 2 * m} \cap Gone = {2 * m}

\* The directory holds the newest files, not too many and not too large,
\* through rotations, crashes and restarts (Rotate, pruneOldFiles, openCurrent).
Retention == SpoolTypeOK /\ FilesBounded /\ KeepsNewest /\ SizeBounded

\* What a SpoolGenerator returns is what was spooled: in order, complete and
\* whole, with the exceptions stated above, as long as no two rotations overlap
\* (Generator, Generate).
ReadsBack == wpc = "tangled" \/ (ReadsInOrder /\ ReadsAllListed /\ Decodable)

\* Through rotations, crashes and restarts nothing but what Stored names is
\* lost of what is to be kept, and what is to go is removed, as long as no two
\* rotations overlap; with one caller they do not (Receive, Rotate).
SpoolKeeps == OneCaller /\ (wpc = "tangled" \/ (Retention /\ Stored))
=============================================================================
