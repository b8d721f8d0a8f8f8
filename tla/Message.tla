------------------------------ MODULE Message ------------------------------
(***************************************************************************)
(* A Message (log.go, symbols.go): attributes in the order they were       *)
(* added, tags, a session.  An attribute's key is an index into the        *)
(* symbols of the message's version, or a string when the index is 0.  A   *)
(* message that was decoded may have a version that has no symbols.        *)
(*                                                                         *)
(* A name is the sequence of its parts, <<"a", "0">> for "a.0".  A value   *)
(* is its kind and what the formats tell apart.  A message is built by the *)
(* calls of this module or comes off the wire with any key.                *)
(***************************************************************************)
EXTENDS Integers, Sequences, SequencesExt

CONSTANTS
  IndexToStr,  \* the symbols: names by index, the first reserved for 0
  Names,       \* names given to Add
  TagNames,
  MaxParts     \* bound: attributes, tags and a session

VARIABLES
  known,       \* m.Version is an index of versionSymbols
  attrs,       \* m.Attributes: [key, skey, val]
  tags,        \* m.Tags: [name, value]
  sid,         \* m.SessionId by its length: "none", "short", "long"
  panicked,    \* the call that panicked, or "no"
  given,       \* the attributes the calls named and did not remove: [name, val]
  given2,      \* the same of the tags
  doubled      \* names and tags that Remove or RemoveTag met twice

vars == <<known, attrs, tags, sid, panicked, given, given2, doubled>>

Nil == "nil"
Room(n) == Len(attrs) + Len(tags) + (IF sid = "none" THEN 0 ELSE 1) + n <= MaxParts

\* The values; a whole interval has no nanoseconds, a whole float no fraction.
Kinds == {"int", "float", "bool", "string", "bytes", "interval"}
Value(kind, is) == [kind |-> kind, is |-> is]
None == Value("none", "none")
Aborted == Value("panic", "none")
Values == {Value(k, "plain") : k \in Kinds}
          \cup {Value("interval", "whole"), Value("float", "whole")}

-----------------------------------------------------------------------------
(* Keys                                                                    *)

\* What a key gives that has no name: an index out of range.
Panics == <<"panic">>

\* i > len(IndexToStr): the index that is its length is out of range.
FromIndex(i) == IF ~known \/ i = Len(IndexToStr) THEN Panics
                ELSE IF i > Len(IndexToStr) THEN <<"symbol">>
                ELSE IndexToStr[i + 1]

FindIndex(n) == {i \in 1 .. Len(IndexToStr) - 1 : IndexToStr[i + 1] = n}

\* Mutant: index 0 is taken for a symbol.
KeyFromZero(n) == [key |-> IF FindIndex(n) = {} THEN 0 ELSE (CHOOSE i \in FindIndex(n) : TRUE) - 1,
                   skey |-> IF FindIndex(n) = {} THEN n ELSE << >>]

\* SetKey, and the same in Add.
SetKey(n) == IF FindIndex(n) = {} THEN [key |-> 0, skey |-> n]
             ELSE [key |-> CHOOSE i \in FindIndex(n) : TRUE, skey |-> << >>]

StringKey(a) == IF a.key # 0 THEN FromIndex(a.key)
                ELSE IF a.skey = << >> THEN <<"<nil>">> ELSE a.skey

-----------------------------------------------------------------------------
(* Attributes                                                              *)

NewAttr(n, v) == [key |-> SetKey(n).key, skey |-> SetKey(n).skey, val |-> v]

Appended(s) ==
  /\ known /\ Room(Len(s))
  /\ attrs' = attrs \o [i \in DOMAIN s |-> NewAttr(s[i].name, s[i].val)]
  /\ given' = given \o s
  /\ UNCHANGED <<known, tags, sid, panicked, given2, doubled>>

\* A version without symbols: Add and SetKey index versionSymbols first.
AddPanics ==
  /\ ~known
  /\ panicked' = "Add"
  /\ UNCHANGED <<known, attrs, tags, sid, given, given2, doubled>>

\* Add of a value of a known type, AddInt to AddInterval.  Of another type it
\* returns an error and adds nothing; nil has no type to put into the error.
Add(n, v) == Appended(<<[name |-> n, val |-> v]>>)

\* AddMany: an Add for each pair.
AddMany(pairs) == Appended([i \in DOMAIN pairs |-> [name |-> pairs[i][1], val |-> pairs[i][2]]])

AddNil ==
  /\ panicked' = "AddNil"
  /\ UNCHANGED <<known, attrs, tags, sid, given, given2, doubled>>

\* tryContainers: the elements one by one, named after their place, their key
\* or their field; an element Add returns an error for is left out.
tryContainers(n, vs) ==
  Appended([i \in DOMAIN vs |-> [name |-> n \o <<vs[i][1]>>, val |-> vs[i][2]]])

\* An attribute of a message that was decoded (external).
Decoded(k, n, v) ==
  /\ Room(1)
  /\ attrs' = Append(attrs, [key |-> k, skey |-> n, val |-> v])
  /\ given' = Append(given, [name |-> StringKey([key |-> k, skey |-> n]), val |-> v])
  /\ UNCHANGED <<known, tags, sid, panicked, given2, doubled>>

\* for idx := range s { if it is in gone { s = append(s[:idx], s[idx+1:]...) } }:
\* the range goes over the array s had at first, which append shifts under it,
\* and s[idx+1:] is out of range once s has become that short.  So is the key
\* of one that is broken, if the range comes to it.
RemoveLoop(s, gone, broken) ==
  LET cut(st, i) ==
        IF st.bad \/ st.arr[i] \notin gone \cup broken THEN st
        ELSE IF i > st.len \/ st.arr[i] \in broken THEN [st EXCEPT !.bad = TRUE]
        ELSE [arr |-> [j \in DOMAIN s |-> IF j \in i .. st.len - 1
                                          THEN st.arr[j + 1] ELSE st.arr[j]],
              len |-> st.len - 1, bad |-> FALSE]
  IN  FoldLeft(cut, [arr |-> s, len |-> Len(s), bad |-> FALSE], [i \in DOMAIN s |-> i])

Others(s, n) == SelectSeq(s, LAMBDA g : g.name # n)

RemoveAttr(n) ==
  LET called(k) == {a \in Range(attrs) : StringKey(a) = k}
      r == RemoveLoop(attrs, called(n), called(Panics))
  IN  /\ attrs' = SubSeq(r.arr, 1, r.len)
      /\ panicked' = IF r.bad THEN "Remove" ELSE panicked
      /\ given' = Others(given, n)
      /\ doubled' = IF Len(given) - Len(given') > 1 THEN doubled \cup {n} ELSE doubled
      /\ UNCHANGED <<known, tags, sid, given2>>

\* Get: the first of that name, unless a key before it panics.  The typed ones
\* (GetInt to GetBool) return its value only if it has that type; a later one
\* is not looked at.
Get(n) ==
  LET at == {i \in DOMAIN attrs : StringKey(attrs[i]) \in {n, Panics}}
      a  == attrs[Min(at)]
  IN  IF at = {} THEN None ELSE IF StringKey(a) = Panics THEN Aborted ELSE a.val

GetAs(n, kind) == IF Get(n).kind \in {kind, "panic"} THEN Get(n) ELSE None

-----------------------------------------------------------------------------
(* Tags and the session                                                    *)

TagAt(t) == {i \in DOMAIN tags : tags[i].name = t}

\* AddTag: an empty value is no value; a tag of that name is set, the first.
AddTag(t, v) ==
  /\ IF TagAt(t) = {}
     THEN /\ Room(1)
          /\ tags' = Append(tags, [name |-> t, value |-> v])
     ELSE tags' = [tags EXCEPT ![CHOOSE i \in TagAt(t) : \A j \in TagAt(t) : i <= j].value = v]
  /\ given2' = IF \E i \in DOMAIN given2 : given2[i].name = t
               THEN [given2 EXCEPT ![SelectInSeq(given2, LAMBDA g : g.name = t)].value = v]
               ELSE Append(given2, [name |-> t, value |-> v])
  /\ UNCHANGED <<known, attrs, sid, panicked, given, doubled>>

\* GetTag: the first of that name.
GetTag(t) == IF TagAt(t) = {} THEN "absent"
             ELSE tags[CHOOSE i \in TagAt(t) : \A j \in TagAt(t) : i <= j].value

\* A tag of a message that was decoded or parsed, which may be there already.
DecodedTag(t, v) ==
  /\ Room(1)
  /\ tags' = Append(tags, [name |-> t, value |-> v])
  /\ given2' = Append(given2, [name |-> t, value |-> v])
  /\ UNCHANGED <<known, attrs, sid, panicked, given, doubled>>

RemoveTag(t) ==
  LET r == RemoveLoop(tags, {g \in Range(tags) : g.name = t}, {})
  IN  /\ tags' = SubSeq(r.arr, 1, r.len)
      /\ panicked' = IF r.bad THEN "RemoveTag" ELSE panicked
      /\ given2' = Others(given2, t)
      /\ doubled' = IF Len(given2) - Len(given2') > 1 THEN doubled \cup {t} ELSE doubled
      /\ UNCHANGED <<known, attrs, sid, given>>

For(id) ==
  /\ sid = "none" /\ Room(1)
  /\ sid' = id
  /\ UNCHANGED <<known, attrs, tags, panicked, given, given2, doubled>>

-----------------------------------------------------------------------------
(* Text                                                                    *)

\* subsecond trims the zeroes of a whole second until there is no character
\* left to look at.
subsecondPanics(v) == v = Value("interval", "whole")

\* KVPairsInto and HstoreAttributesInto: StringKey and the value of each.
PairsPanic == \E i \in DOMAIN attrs :
                subsecondPanics(attrs[i].val) \/ StringKey(attrs[i]) = Panics

\* KVString, HstoreAttributes; HumanString, and SyslogString like it, cut the
\* session at seven characters.
Show(how) ==
  /\ panicked' = IF PairsPanic THEN how
                 ELSE IF how = "HumanString" /\ sid = "short" THEN how ELSE panicked
  /\ UNCHANGED <<known, attrs, tags, sid, given, given2, doubled>>

-----------------------------------------------------------------------------
\* NewMessage has a version with symbols, a decoded message any.
Init ==
  /\ known \in BOOLEAN
  /\ attrs = << >> /\ tags = << >> /\ sid = "none" /\ panicked = "no"
  /\ given = << >> /\ given2 = << >> /\ doubled = {}

Container == <<<<"0", Value("int", "plain")>>, <<"1", Value("string", "plain")>>>>

\* Bound: a message that a Remove went wrong for is not followed further.
Next ==
  /\ panicked = "no" /\ doubled = {}
  /\ \/ \E n \in Names, v \in Values : Add(n, v)
     \/ AddNil \/ AddPanics
     \/ \E n, o \in Names : AddMany(<<<<n, Value("int", "plain")>>, <<o, Value("bool", "plain")>>>>)
     \/ \E n \in Names : tryContainers(n, Container) \/ RemoveAttr(n)
     \/ \E k \in 0 .. Len(IndexToStr) + 1, n \in {<< >>, <<"a">>} :
          Decoded(k, n, Value("int", "plain"))
     \/ \E t \in TagNames, v \in {Nil, "v", "true"} : AddTag(t, v) \/ DecodedTag(t, v)
     \/ \E t \in TagNames : RemoveTag(t)
     \/ \E id \in {"short", "long"} : For(id)
     \/ \E how \in {"KVString", "HumanString"} : Show(how)

Spec == Init /\ [][Next]_vars

-----------------------------------------------------------------------------
(* Properties                                                              *)

TypeOK ==
  /\ known \in BOOLEAN
  /\ \A i \in DOMAIN attrs : attrs[i].key \in 0 .. Len(IndexToStr) + 1 /\ attrs[i].val \in Values
  /\ \A i \in DOMAIN tags : tags[i].name \in TagNames /\ tags[i].value \in {Nil, "v", "true"}
  /\ sid \in {"none", "short", "long"} /\ given \in Seq([name : Seq(STRING), val : Values])

Named == [i \in DOMAIN attrs |-> [name |-> StringKey(attrs[i]), val |-> attrs[i].val]]
Kept(s) == SelectSeq(s, LAMBDA g : g.name \notin doubled)

\* The message holds what the calls gave it, under the names they used and in
\* that order: no call loses, renames or moves an attribute or a tag of another
\* name, and what Remove was told to remove is gone, unless the name was there
\* twice (Add, SetKey, StringKey, Remove, AddTag, RemoveTag).
Holds ==
  panicked = "no" => Kept(Named) = Kept(given) /\ Kept(tags) = Kept(given2)

\* Get returns the first value that is still there under a name, a typed Get
\* none when a value of another type shadows the one it is asked for; neither
\* panics for a key without a symbol that comes after.  GetTag returns the
\* value of the first tag of that name (Get, GetInt to GetBool, GetTag).
Shadowed ==
  panicked = "no" =>
    /\ \A n \in Names \ doubled :
         LET at   == SelectSeq(given, LAMBDA g : g.name \in {n, Panics})
             none == at = << >> \/ at[1].name = Panics
         IN  /\ at = << >> => Get(n) = None
             /\ ~none => Get(n) = at[1].val
             /\ \A k \in Kinds : GetAs(n, k) \notin {None, Aborted} => ~none /\ at[1].val.kind = k
    /\ \A t \in TagNames \ doubled :
         LET of == SelectSeq(given2, LAMBDA g : g.name = t)
         IN  GetTag(t) = (IF of = << >> THEN "absent" ELSE of[1].value)

\* A key that has no name: the index after the last symbol, or any of a message
\* whose version has no symbols.
Nameless == \E i \in DOMAIN attrs :
              attrs[i].key = Len(IndexToStr) \/ (~known /\ attrs[i].key # 0)

\* Remove panics only for a name that is there twice or a key that has no name,
\* what writes a message only for such a key, a whole second or a short
\* session, Add for a version without symbols or nil (Remove, FromIndex,
\* subsecond, HumanString, Add, tryContainers).
PanicsFor ==
  /\ panicked = "Remove" => doubled # {} \/ Nameless
  /\ panicked = "RemoveTag" => doubled # {}
  /\ panicked = "Add" => ~known
  /\ panicked \in {"KVString", "HumanString"} =>
       \/ Nameless \/ \E i \in DOMAIN attrs : attrs[i].val = Value("interval", "whole")
       \/ panicked = "HumanString" /\ sid = "short"

\* A message holds what the calls gave it (log.go, symbols.go).
MessageHolds == TypeOK /\ Holds /\ Shadowed /\ PanicsFor
=============================================================================
