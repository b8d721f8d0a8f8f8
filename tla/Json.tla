-------------------------------- MODULE Json --------------------------------
(***************************************************************************)
(* A Message as JSON (json.go): SimpleJSONMap and ParseSimpleJSON, for     *)
(* every message that Message reaches.  The map is given by the paths to   *)
(* its values, which a dotted name nests; a path that ends at a value and  *)
(* one that goes on from it cannot both be there.  What JSON itself        *)
(* does (encoding/json) is external: a map has no order and no name twice, *)
(* a number is text.  No name starts with @; the session is not written.   *)
(***************************************************************************)
EXTENDS Message

\* target[key] = val: what was nested there is gone.
PutAt(p, path, v) ==
  LET others == {n \in DOMAIN p : ~IsPrefix(path, n)}
  IN  [n \in others \cup {path} |-> IF n = path THEN v ELSE p[n]]


\* A name of which the part d and those up to the last are left out.
Without(n, d) == Append(SubSeq(n, 1, d - 1), Last(n))

\* findTarget: where a value that is no map of names is in the way, it stops,
\* and the last part of the name is put into the map it has come to.
findTarget(p, n) ==
  LET stops == {d \in 1 .. Len(n) - 1 : SubSeq(n, 1, d) \in DOMAIN p}
  IN  IF stops = {} THEN n ELSE Without(n, Min(stops))

PutNamed(p, n, v) == PutAt(p, findTarget(p, n), v)

SimpleJSONMap ==
  LET put(p, g) == PutNamed(p, g.name, g.val)
  IN  FoldLeft(put, << >>, Named)

\* A tag without a value is written "true".
JsonTags ==
  [t \in {tags[i].name : i \in DOMAIN tags} |->
     LET v == tags[CHOOSE i \in TagAt(t) : \A j \in TagAt(t) : j <= i].value
     IN  IF v = Nil THEN "true" ELSE v]

-----------------------------------------------------------------------------
\* A value of the top level: a number without a fraction is an int; bytes and
\* intervals are maps that are known by their keys.
TopValue(v) == IF v = Value("float", "whole") THEN Value("int", "plain") ELSE v

\* m.Add of an element of any other map, by tryContainers: json.Number is a
\* Stringer, and the maps of bytes and intervals are maps like any other.
Element(n, v) ==
  LET text == Value("string", "plain")
  IN  CASE v.kind \in {"int", "float"} -> {[name |-> n, val |-> text]}
        [] v.kind = "bytes" -> {[name |-> Append(n, "bytes"), val |-> text]}
        [] v.kind = "interval" -> {[name |-> Append(n, k), val |-> text] :
                                     k \in {"seconds", "nanoseconds"}}
        [] OTHER -> {[name |-> n, val |-> v]}

\* A map with seconds and nanoseconds or with bytes is not told from the value
\* that is written so.
ParseSimpleJSON(p) ==
  LET at(k)  == {n \in DOMAIN p : n[1] = k}
      top(k) ==
        IF <<k>> \in at(k) THEN {[name |-> <<k>>, val |-> TopValue(p[<<k>>])]}
        ELSE IF \A part \in {"seconds", "nanoseconds"} :
                  <<k, part>> \in at(k) /\ p[<<k, part>>].kind \in {"int", "float"}
        THEN {[name |-> <<k>>, val |-> Value("interval", "plain")]}
        ELSE IF <<k, "bytes">> \in at(k) /\ p[<<k, "bytes">>].kind = "string"
        THEN {[name |-> <<k>>, val |-> Value("bytes", "plain")]}
        ELSE UNION {Element(n, p[n]) : n \in at(k)}
  IN  UNION {top(n[1]) : n \in DOMAIN p}

ParseTags(q) ==
  {[name |-> t, value |-> IF q[t] = "true" THEN Nil ELSE q[t]] : t \in DOMAIN q}

-----------------------------------------------------------------------------
(* Properties                                                              *)

\* Of a message in which no name is there twice or goes on from another, every
\* attribute is read back under its name, and a value of the top level as it
\* was (a float without a fraction as an int); tags as they were, unless their
\* value is "true" (SimpleJSONMap, findTarget, ParseSimpleJSON).
ReadsBackJSON ==
  LET got == ParseSimpleJSON(SimpleJSONMap)
      apart == \A i, j \in DOMAIN Named : i # j => ~IsPrefix(Named[i].name, Named[j].name)
      tagged == {tags[i] : i \in DOMAIN tags}
  IN  /\ apart => \A i \in DOMAIN Named :
           LET n == Named[i].name  v == Named[i].val
           IN  \E g \in got : IsPrefix(n, g.name) /\
                 (Len(n) = 1 => g = [name |-> n, val |-> TopValue(v)])
      /\ (\A t \in TagNames : Len(SelectSeq(tags, LAMBDA g : g.name = t)) < 2) =>
           {g \in tagged : g.value # "true"} = {g \in ParseTags(JsonTags) :
              [g EXCEPT !.value = "true"] \notin tagged}

\* Where an attribute may be: under its name, or where a value in the way
\* leaves the last part of it.
Places(n) == {n} \cup {Without(n, d) : d \in 1 .. Len(n) - 1}

\* Nothing is read that was not written: an attribute of the message goes by
\* that name, or an earlier one is in the way of its name, which then lacks the
\* parts from there to the last: it may be a name that nobody wrote (findTarget).
NothingInvented ==
  \A g \in ParseSimpleJSON(SimpleJSONMap) :
    \E i \in DOMAIN Named :
      LET n == Named[i].name
      IN  \/ IsPrefix(n, g.name)
          \/ \E d \in 1 .. Len(n) - 1 :
               /\ IsPrefix(Without(n, d), g.name)
               /\ \E j \in 1 .. i - 1 : SubSeq(n, 1, d) \in Places(Named[j].name)

=============================================================================
