--------------------------------- MODULE KV ---------------------------------
(***************************************************************************)
(* The KV format: KVString writes a message as a line (log.go), KVParser   *)
(* reads a stream of lines (kv.go) with a scanner of its own               *)
(* (scanner/scanner.go).                                                   *)
(*                                                                         *)
(* Text is a sequence of lexemes: words, "int" for digits, and single      *)
(* characters; words side by side are one identifier.  Peek and Next see   *)
(* one of them, Scan a token.  The stream ends behind a line, before the   *)
(* newline, or anywhere in one.                                            *)
(***************************************************************************)
EXTENDS Integers, Sequences, SequencesExt

CONSTANTS
  Messages,    \* messages to write: [sid, tags, attrs]
  Malformed    \* lines that nothing wrote: [raw, eats], eats if one
               \* ends inside a tag, a pair or a string

VARIABLES
  lines,       \* what the stream is made of: a message or a malformed line
  text,        \* its lexemes
  bare,        \* KVParser.Bare
  pos,         \* the scanner: lexemes read
  pc,          \* where Generate is; "eof", "hangs" and "panics" at its end
  m,           \* the message that is read
  out          \* the messages returned, in order

vars == <<lines, text, bare, pos, pc, m, out>>

Nil == <<"nil">>
NoName == <<"?">>
Short  == <<"">>      \* of a string that is a quote alone: [1:len-1] panics
Words == {"a", "b", "t", "u", "true", "label", "session"}
Empty == [sid |-> FALSE, tags |-> << >>, attrs |-> << >>]

-----------------------------------------------------------------------------
(* KVString                                                                *)

\* strquote: a quote gets a backslash, a backslash none.
strquote(s) == FlattenSeq([i \in DOMAIN s |-> IF s[i] = "quote" THEN <<"\\", "quote">>
                                              ELSE <<s[i]>>])

Quoted(s) == <<"quote">> \o strquote(s) \o <<"quote">>

\* The value's switch of KVPairsInto.  A float is written in the shortest
\* form; nanoseconds of zero do not get here.
WriteValue(v) ==
  CASE v.kind \in {"int", "whole"} -> <<"int">>
    [] v.kind = "negative" -> <<"-", "int">>
    [] v.kind = "float" -> <<"int", ".", "int">>
    [] v.kind = "bool" -> <<"true">>
    [] v.kind = "interval" -> <<":", "int", ".", "int">>
    [] OTHER -> Quoted(v.text)

\* A name is written as it is, whatever is in it.
KVPairsInto(attrs) ==
  FlattenSeq([i \in DOMAIN attrs |->
    <<" ">> \o attrs[i].name \o <<"=">> \o WriteValue(attrs[i].val)])

\* A blank follows a tag with a value that is not the last, and no other.
KVTagsInto(tags) ==
  IF tags = << >> THEN << >>
  ELSE <<" ", "[">> \o
       FlattenSeq([i \in DOMAIN tags |->
         IF tags[i].value = Nil THEN <<"!">> \o tags[i].name
         ELSE tags[i].name \o <<"=">> \o Quoted(tags[i].value)
              \o (IF i < Len(tags) THEN <<" ">> ELSE << >>)])
       \o <<"]">>

KVString(g) ==
  <<">", " ", "@", "label">> \o (IF g.sid THEN <<" ", "\\", "session">> ELSE << >>)
  \o KVTagsInto(g.tags) \o KVPairsInto(g.attrs)

-----------------------------------------------------------------------------
(* The scanner                                                             *)

At(i) == IF i <= Len(text) THEN text[i] ELSE "EOF"
Peek  == At(pos + 1)

\* The first i from p on for which Stop(i); Len(text) + 1 is the end.
First(p, Stop(_)) ==
  LET f[i \in 1 .. Len(text) + 1] == IF i > Len(text) \/ Stop(i) THEN i ELSE f[i + 1]
  IN  f[p]

\* Letters and digits, as long as there are any: the last of them.
scanIdentifier(s) == First(s, LAMBDA i : text[i] \notin Words \cup {"int"}) - 1

\* A number with a dot is a float, also if nothing follows the dot.
scanNumber(s) == IF At(s + 1) # "." THEN [tok |-> "Int", last |-> s]
                 ELSE [tok |-> "Float", last |-> IF At(s + 2) = "int" THEN s + 2 ELSE s + 1]

\* scanString: ends at a quote that no backslash escapes, at the end of the
\* line, or at the end of the stream; what it ends at is read with it.
StringEnd(p) ==
  LET f[i \in 1 .. Len(text) + 2] ==
        IF i > Len(text) THEN Len(text) + 1
        ELSE IF text[i] \in {"quote", "\n"} THEN i
        ELSE IF text[i] = "\\" /\ At(i + 1) \in {"quote", "\\"} THEN f[i + 2]
        ELSE f[i + 1]
  IN  f[p]

\* TokenText()[1:len-1] of the string at s: at the end of the stream there is
\* no quote to take off, and its last character goes.
String(s) ==
  LET e    == StringEnd(s + 1)
      last == IF e > Len(text) THEN Len(text) ELSE e
  IN  [tok |-> "String", pos |-> last,
       text |-> IF last = s THEN Short ELSE SubSeq(text, s + 1, last - 1)]

\* Scan from lexeme p on: the token, its text, and the lexemes read after it.
Scan(p) ==
  LET s == First(p + 1, LAMBDA i : text[i] # " ")
      t == At(s)
      Token(tok, last) == [tok |-> tok, text |-> SubSeq(text, s, last), pos |-> last]
  IN  CASE t \in Words -> Token("Ident", scanIdentifier(s))
        [] t = "int" -> Token(scanNumber(s).tok, scanNumber(s).last)
        [] t = "." /\ At(s + 1) = "int" -> Token("Float", s + 1)
        [] t = "quote" -> String(s)
        [] t = "EOF" -> [tok |-> "EOF", text |-> << >>, pos |-> Len(text)]
        [] OTHER -> Token(t, s)

\* skipToNewline, by tokens: the end of a line that is in a string is not seen.
SkipToNewline(p) ==
  LET f[i \in 0 .. Len(text)] == LET s == Scan(i)
                                 IN  IF s.tok \in {"\n", "EOF"} THEN s.pos ELSE f[s.pos]
  IN  f[p]

-----------------------------------------------------------------------------
(* KVParser.Generate                                                       *)

Return(g) ==
  /\ out' = Append(out, g)
  /\ pc' = "restart"

To(at, p) == pc' = at /\ pos' = p /\ UNCHANGED <<lines, text, bare, m, out>>


\* badtag, bad: what Scan has read is not read again.
Bad(p) == To("restart", SkipToNewline(p))

\* restart: the end, or a line that does not start a message.
Restart ==
  /\ pc = "restart"
  /\ \/ Peek = "EOF" /\ To("eof", pos)
     \/ Peek = ">" /\ To("flag", pos + 1)
     \/ /\ Peek \notin {"EOF", ">"} /\ ~bare
        /\ LET i == First(pos + 1, LAMBDA j : text[j] = "\n" /\ At(j + 1) \in {">", "EOF"})
           IN  IF i >= Len(text) THEN To("eof", Len(text)) ELSE To("flag", i + 1)

Pair(n, kind, t) == [name |-> n, val |-> [kind |-> kind, text |-> t]]
Bare(t) == [Empty EXCEPT !.attrs = <<Pair(<<"message">>, "string", t)>>]

\* readBare: the rest of this line, or the next that is not empty.
ReadBare ==
  /\ pc = "restart" /\ bare /\ Peek \notin {"EOF", ">"}
  /\ LET from == First(pos + 1, LAMBDA i : text[i] # "\n")
         to   == First(from, LAMBDA i : text[i] = "\n")
     IN  IF from > Len(text) THEN To("eof", Len(text))
         ELSE /\ pos' = (IF to > Len(text) THEN Len(text) ELSE to)
              /\ Return(Bare(SubSeq(text, from, to - 1)))
              /\ UNCHANGED <<lines, text, bare, m>>

\* The flag of the type, and the blank after it.
Flag ==
  /\ pc = "flag"
  /\ m' = Empty
  /\ LET p == IF Peek = "!" THEN pos + 1 ELSE pos
     IN  /\ pc' = IF Peek = "EOF" THEN "eof" ELSE IF At(p + 1) = " " THEN "stamp" ELSE "restart"
         /\ pos' = IF p < Len(text) THEN p + 1 ELSE p
  /\ UNCHANGED <<lines, text, bare, out>>

\* The label and the session are read up to a blank, over the end of the line;
\* at the end of the stream Next returns EOF for ever.
Label(at, mark, then) ==
  /\ pc = at
  /\ LET e == First(pos + 1, LAMBDA i : text[i] = " ")
     IN  /\ pc' = IF Peek = mark /\ e > Len(text) THEN "hangs" ELSE then
         /\ pos' = IF Peek # mark THEN pos ELSE IF e > Len(text) THEN Len(text) ELSE e
         /\ m' = IF at = "session" /\ Peek = mark THEN [m EXCEPT !.sid = TRUE] ELSE m
  /\ UNCHANGED <<lines, text, bare, out>>

TagsStart == pc = "open" /\ IF Peek = "[" THEN To("tags", pos + 1) ELSE To("pairs", pos)

\* An identifier with dots, or a string, that starts with the token s: its text
\* and where it ends.
ScanName(s) ==
  LET parts[p \in 1 .. Len(text)] ==
        LET more == Scan(Scan(p).pos)
        IN  IF At(p + 1) # "." THEN [name |-> << >>, pos |-> p]
            ELSE IF more.tok # "Ident" THEN [name |-> NoName, pos |-> more.pos]
            ELSE [parts[more.pos] EXCEPT !.name = IF @ = NoName THEN NoName
                                                  ELSE <<".">> \o more.text \o @]
  IN  IF s.tok = "Ident"
      THEN [parts[s.pos] EXCEPT !.name = IF @ = NoName THEN NoName ELSE s.text \o @]
      ELSE [name |-> IF s.tok = "String" THEN s.text ELSE NoName, pos |-> s.pos]

TakeTag(name, value, p) ==
  /\ m' = [m EXCEPT !.tags = Append(@, [name |-> name, value |-> value])]
  /\ pos' = p
  /\ UNCHANGED <<lines, text, bare, pc, out>>

\* Each Scan goes on behind the one before.
Tags ==
  /\ pc = "tags"
  /\ \E s \in {Scan(pos)} :
       \/ s.tok = "]" /\ To("pairs", s.pos)
       \/ /\ s.tok = "!"
          /\ \E flag \in {Scan(s.pos)} :
               IF flag.tok = "Ident" THEN TakeTag(flag.text, Nil, flag.pos) ELSE Bad(flag.pos)
       \/ /\ s.tok \notin {"]", "!"}
          /\ \E n \in {ScanName(s)} : \E eq \in {Scan(n.pos)} : \E v \in {Scan(eq.pos)} :
               IF n.name = NoName THEN Bad(n.pos)
               ELSE IF n.name = Short THEN To("panics", n.pos)
               ELSE IF eq.tok # "=" THEN Bad(eq.pos)
               ELSE IF v.tok \notin {"String", "Ident"} THEN Bad(v.pos)
               ELSE IF v.text = Short THEN To("panics", v.pos)
               ELSE TakeTag(n.name, v.text, v.pos)

\* The value of a pair: a token, or an interval; cToNano[len(tssec)-1] of an
\* interval that ends in a dot is out of range.
ReadValue(s) ==
  LET f == Scan(s.pos)
  IN  CASE s.tok = "Int" -> [kind |-> "int", text |-> << >>, pos |-> s.pos]
        [] s.tok = "Float" -> [kind |-> "float", text |-> << >>, pos |-> s.pos]
        [] s.tok \in {"String", "Ident"} ->
             [kind |-> IF s.text = Short THEN "panics" ELSE "string", text |-> s.text, pos |-> s.pos]
        [] s.tok = ":" /\ f.tok = "Float" ->
             [kind |-> IF Last(f.text) = "." THEN "panics" ELSE "interval", text |-> << >>,
              pos |-> f.pos]
        [] s.tok = ":" /\ f.tok # "Float" -> [kind |-> "bad", text |-> << >>, pos |-> f.pos]
        [] OTHER -> [kind |-> "bad", text |-> << >>, pos |-> s.pos]

Pairs ==
  /\ pc = "pairs"
  /\ IF Peek \in {"\n", "EOF"} THEN Return(m) /\ UNCHANGED <<lines, text, bare, m, pos>>
     ELSE \E s \in {Scan(pos)} : \E n \in {ScanName(s)} : \E eq \in {Scan(n.pos)} :
          \E w \in {Scan(eq.pos)} : \E v \in {ReadValue(w)} :
            IF n.name = NoName THEN Bad(n.pos)
            ELSE IF n.name = Short THEN To("panics", n.pos)
            ELSE IF eq.tok # "=" THEN Bad(eq.pos)
            ELSE IF v.kind = "bad" THEN Bad(v.pos)
            ELSE IF v.kind = "panics" THEN To("panics", v.pos)
            ELSE /\ m' = [m EXCEPT !.attrs = Append(@, Pair(n.name, v.kind, v.text))]
                 /\ pos' = v.pos
                 /\ UNCHANGED <<lines, text, bare, pc, out>>

-----------------------------------------------------------------------------
Plain == [Empty EXCEPT !.attrs = <<Pair(<<"b">>, "int", << >>)>>]
Line(line) == IF "raw" \in DOMAIN line THEN line.raw ELSE KVString(line)

\* The stream (external): two lines of any kind, then one that is plain.
Write(line) ==
  /\ pc = "write" /\ Len(lines) < 3 /\ (Len(lines) = 2 => line = Plain)
  /\ lines' = Append(lines, line) /\ text' = text \o Line(line) \o <<"\n">>
  /\ pc' = IF Len(lines') = 3 THEN "restart" ELSE "write"
  /\ UNCHANGED <<bare, pos, m, out>>

\* Or it ends in the first or second line: behind lexeme k of a message, in
\* the second of one that is plain or has nothing to tell.
End(line, k) ==
  LET whole == Line(line) \o <<"\n">>
  IN  /\ pc = "write" /\ Len(lines) < 2 /\ (Len(lines) = 1 => line \in {Plain, Empty})
      /\ lines' = Append(lines, IF k >= Len(Line(line)) THEN line
                                ELSE [raw |-> SubSeq(whole, 1, k), eats |-> TRUE])
      /\ text' = text \o SubSeq(whole, 1, k)
      /\ pc' = "restart"
      /\ UNCHANGED <<bare, pos, m, out>>

Init ==
  /\ lines = << >> /\ text = << >> /\ bare \in BOOLEAN
  /\ pos = 0 /\ pc = "write" /\ m = Empty /\ out = << >>

Next == \/ \E line \in Messages \cup Malformed \cup {Plain} : Write(line)
        \/ \E line \in Messages \cup {Plain} : \E k \in 1 .. Len(Line(line)) + 1 : End(line, k)
        \/ Restart \/ ReadBare \/ Flag \/ Label("stamp", "@", "session")
        \/ Label("session", "\\", "open") \/ TagsStart \/ Tags \/ Pairs

Spec == Init /\ [][Next]_vars

-----------------------------------------------------------------------------
(* Properties                                                              *)

TypeOK ==
  /\ pos \in 0 .. Len(text) /\ bare \in BOOLEAN
  /\ pc \in {"write", "restart", "flag", "stamp", "session", "open", "tags", "pairs",
             "eof", "hangs", "panics"}

\* What a message is read as: an int for a whole float, a string for a bool
\* and for bytes, a string with its quotes escaped.
ReadAs(g) ==
  [sid |-> g.sid,
   tags |-> [i \in DOMAIN g.tags |-> [name |-> g.tags[i].name,
               value |-> IF g.tags[i].value = Nil THEN Nil ELSE strquote(g.tags[i].value)]],
   attrs |-> [i \in DOMAIN g.attrs |->
     [name |-> g.attrs[i].name,
      val |-> LET v == g.attrs[i].val
              IN  CASE v.kind = "whole" -> [kind |-> "int", text |-> << >>]
                    [] v.kind = "bool" -> [kind |-> "string", text |-> <<"true">>]
                    [] v.kind \in {"string", "bytes"} -> [kind |-> "string", text |-> strquote(v.text)]
                    [] OTHER -> v]]]

Written(i) == "raw" \notin DOMAIN lines[i]
Said(i) == lines[i].attrs # << >> \/ lines[i].tags # << >>

\* A string that is read over the end of its line; a name is written as it is,
\* without quotes, and may start one.
RunsOn(s) == s # Nil /\ s # << >> /\ (Last(s) = "\\" \/ \E i \in DOMAIN s : s[i] = "\n")
Broken(g) == \/ \E i \in DOMAIN g.attrs : RunsOn(g.attrs[i].val.text) \/ "quote" \in Range(g.attrs[i].name)
             \/ \E i \in DOMAIN g.tags : RunsOn(g.tags[i].value)

\* The names that Scan takes for one: identifiers with dots between them.
Dotted(n) == \A i \in DOMAIN n : IF i % 2 = 1 THEN n[i] \in Words ELSE n[i] = "."

\* The lines that cannot be read back, and those that take the next with them.
Clean(i) ==
  /\ Written(i) /\ Said(i) /\ ~Broken(lines[i])
  /\ \A j \in DOMAIN lines[i].attrs :
       lines[i].attrs[j].val.kind # "negative" /\ Dotted(lines[i].attrs[j].name)
  /\ \A j \in DOMAIN lines[i].tags :
       Dotted(lines[i].tags[j].name) /\ (lines[i].tags[j].value = Nil => Len(lines[i].tags[j].name) = 1)
  /\ \A j \in 1 .. Len(lines[i].tags) - 1 :
       lines[i].tags[j].value = Nil => lines[i].tags[j + 1].value = Nil
Eats(i) == IF Written(i) THEN ~Said(i) \/ Broken(lines[i]) ELSE lines[i].eats

\* A label runs over the lines that have no blank.
Through(i) == Eats(i) \/ (i > 1 /\ Eats(i - 1) /\ ~Written(i) /\ " " \notin Range(lines[i].raw))
MustRead == {i \in DOMAIN lines : Clean(i) /\ (i > 1 => ~Through(i - 1))}

\* Whatever else is in the stream, and wherever it ends, a message that was
\* written to its end is read back, in its place, unless it has a form the
\* format cannot hold (a negative number, a name that is not one identifier
\* or several with dots, a tag behind one without a value) or the line before
\* it ended inside a label, a tag, a pair, a name or a string: an error costs
\* one line more at most.  In Bare mode it may come back as text (Generate,
\* readBare, skipToNewline, scanString).
ReadsBackKV ==
  pc = "eof" =>
    IF bare
    THEN \A i \in MustRead : \E j \in DOMAIN out :
           out[j] \in {ReadAs(lines[i]), Bare(KVString(lines[i]))}
    ELSE \E s \in SUBSET DOMAIN lines :
           LET order == SetToSortSeq(s, <)
           IN  /\ MustRead \subseteq s /\ Len(out) = Len(order)
               /\ \A j \in DOMAIN out :
                    Clean(order[j]) => out[j] = ReadAs(lines[order[j]])

\* The parser waits for ever only in a stream whose last blank stands before a
\* label or a session, and panics only in one with an interval that ends in a
\* dot, or that ends in a quote (Generate).
LastBlank == CHOOSE i \in DOMAIN text : text[i] = " " /\ \A j \in i + 1 .. Len(text) : text[j] # " "
EndsInDot == \E i \in 3 .. Len(text) : /\ text[i] = "." /\ text[i - 1] = "int" /\ text[i - 2] = ":"
                                      /\ At(i + 1) # "int"
KVEnds ==
  /\ pc = "hangs" => At(LastBlank + 1) \in {"@", "\\"}
  /\ pc = "panics" => EndsInDot \/ Last(text) = "quote"

=============================================================================
