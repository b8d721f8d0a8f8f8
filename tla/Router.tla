------------------------------- MODULE Router -------------------------------
(***************************************************************************)
(* The router (router/router.go): Open wires every enabled route, finding  *)
(* a generator, filter or receiver for each of its names, and starts its   *)
(* Flow: one goroutine per generator feeds the route's channel, and a loop *)
(* takes each message from it, filters it and hands it to every receiver.  *)
(*                                                                         *)
(* A plugin is known by what it provides.  Filters are given by what they  *)
(* do to the n-th message of a generator: drop it (return nil), fail, or   *)
(* pass it on, marked by the filter; a mark is made on the message itself  *)
(* (as the json and geoip filters do) or on a new message.                 *)
(***************************************************************************)
EXTENDS Integers, Sequences, SequencesExt, FiniteSets

CONSTANTS
  Routes,      \* names of the routes
  Enabled,     \* the enabled ones
  Input,       \* plugin names per route, sequences
  Filter,
  Output,
  Generators,  \* plugins that provide a generator
  Filterers,   \* plugins that provide a filter
  Receivers,   \* plugins that provide a receiver
  Drops,       \* per filter, the numbers of the messages it returns nil for
  Fails,       \* per filter, the numbers of the messages it fails on
  InPlace,     \* the filters that change the message they are given
  MaxMsgs      \* bound: messages per generator

ASSUME RouterAssumption ==
  /\ Enabled \subseteq Routes
  /\ \A r \in Routes :
       {Input[r], Filter[r], Output[r]} \subseteq Seq(STRING)
  /\ MaxMsgs \in Nat

VARIABLES
  state,   \* where the Router is
  todo,    \* enabled routes that are not wired
  opened,  \* generators in the routes' generators: <<route, index in Input>>
  closed,  \* generators that were closed
  made,    \* per generator, how many messages it generated
  held,    \* per generator, the message its goroutine has to put: << >> or <<m>>
  ended,   \* generators whose goroutine returned
  chan,    \* per route, the channel c
  now,     \* per route, the message in the body of Flow's loop: << >> or <<m>>
  next,    \* per route, the receiver that is to get it
  out      \* per route and index in Output, the messages Receive was given

wireVars == <<state, todo, opened, closed>>
genVars  == <<made, held, ended>>
flowVars == <<now, next, out>>
vars == <<wireVars, genVars, chan, flowVars>>

Gens == UNION {{r} \X DOMAIN Input[r] : r \in Routes}
OutputsOf(r) == DOMAIN Output[r]

\* The n-th message of generator g, with the marks filters made on it.
Message(g, n, marks) == [gen |-> g, n |-> n, marks |-> marks]

-----------------------------------------------------------------------------
(* Open                                                                    *)

\* The names of a route that wireRoutes can use.
Wirable(r) ==
  /\ Range(Input[r]) \subseteq Generators
  /\ Range(Filter[r]) \subseteq Filterers
  /\ Range(Output[r]) \subseteq Receivers

\* wireRoutes, one round of its loop over the map of routes.
WireRoute(r) ==
  /\ state = "wiring" /\ r \in todo
  /\ Wirable(r)
  /\ opened' = opened \cup ({r} \X DOMAIN Input[r])
  /\ todo' = todo \ {r}
  /\ UNCHANGED <<state, closed, genVars, chan, flowVars>>

\* A name of the route is not usable, or its plugin fails to provide what it
\* should: Open returns the error.  The generators made so far, n of them for
\* this route, stay open.
WireFails(r) ==
  /\ state = "wiring" /\ r \in todo
  /\ \E n \in 0 .. Len(Input[r]) :
       /\ \A i \in 1 .. n : Input[r][i] \in Generators
       /\ opened' = opened \cup ({r} \X (1 .. n))
  /\ state' = "failed"
  /\ UNCHANGED <<todo, closed, genVars, chan, flowVars>>

\* Every route is wired: Open starts the Flows and returns.
StartFlows ==
  /\ state = "wiring" /\ todo = {}
  /\ state' = "flowing"
  /\ UNCHANGED <<todo, opened, closed, genVars, chan, flowVars>>

\* Mutant: only the first generator of each route is closed.
FirstOfEach == {g \in opened : g[2] = 1}

\* The generators Close closes.
ToClose == opened

Close ==
  /\ state = "flowing"
  /\ state' = "closed"
  /\ closed' = ToClose
  /\ UNCHANGED <<todo, opened, genVars, chan, flowVars>>

-----------------------------------------------------------------------------
(* Flow                                                                    *)

Flowing == state \in {"flowing", "closed"}

\* g.Generate returns a message.
Generate(g) ==
  /\ Flowing /\ g \in opened \ (closed \cup ended)
  /\ held[g] = << >> /\ made[g] < MaxMsgs
  /\ made' = [made EXCEPT ![g] = @ + 1]
  /\ held' = [held EXCEPT ![g] = <<Message(g, made[g] + 1, {})>>]
  /\ UNCHANGED <<wireVars, ended, chan, flowVars>>

\* g.Generate returns an error: the generator was closed, or failed by itself.
GenerateFails(g) ==
  /\ Flowing /\ g \in opened \ ended /\ held[g] = << >>
  /\ ended' = ended \cup {g}
  /\ UNCHANGED <<wireVars, made, held, chan, flowVars>>

\* c <- msg
Put(g) ==
  /\ held[g] # << >>
  /\ Len(chan[g[1]]) < 2 * Len(Input[g[1]])
  /\ chan' = [chan EXCEPT ![g[1]] = @ \o held[g]]
  /\ held' = [held EXCEPT ![g] = << >>]
  /\ UNCHANGED <<wireVars, made, ended, flowVars>>

\* The index of the filter at which the loop over the filters breaks.
Stop(r, n) ==
  LET stops == {i \in DOMAIN Filter[r] :
                  n \in Drops[Filter[r][i]] \cup Fails[Filter[r][i]]}
  IN  IF stops = {} THEN Len(Filter[r]) + 1
      ELSE CHOOSE i \in stops : \A j \in stops : i <= j

\* What the loop over the filters leaves in msg.  The msg that is assigned
\* there is a new variable of the loop's body, so msg itself stays, and every
\* filter is given it; only marks made in place are seen afterwards.
Filtered(r, m) ==
  <<[m EXCEPT !.marks =
       @ \cup (InPlace \cap {Filter[r][i] : i \in 1 .. Stop(r, m.n) - 1})]>>

\* range c, and one round of Flow's loop up to the first receiver.
Take(r) ==
  /\ Flowing /\ now[r] = << >> /\ chan[r] # << >>
  /\ chan' = [chan EXCEPT ![r] = Tail(@)]
  /\ now' = [now EXCEPT ![r] = Filtered(r, Head(chan[r]))]
  /\ next' = [next EXCEPT ![r] = 1]
  /\ UNCHANGED <<wireVars, genVars, out>>

\* Mutant: an error of a receiver ends the loop over the receivers.
SkipsRest(r, failed) == IF failed THEN Len(Output[r]) + 1 ELSE next[r] + 1

\* The error of a receiver is logged.
AfterReceive(r, failed) == next[r] + 1

\* recv.Receive(msg) for the next receiver, which may fail.
Deliver(r) ==
  /\ now[r] # << >> /\ next[r] <= Len(Output[r])
  /\ out' = [out EXCEPT ![r][next[r]] = Append(@, now[r][1])]
  /\ \E failed \in BOOLEAN : next' = [next EXCEPT ![r] = AfterReceive(r, failed)]
  /\ UNCHANGED <<wireVars, genVars, chan, now>>

\* The end of the round.
Delivered(r) ==
  /\ now[r] # << >> /\ next[r] > Len(Output[r])
  /\ now' = [now EXCEPT ![r] = << >>]
  /\ UNCHANGED <<wireVars, genVars, chan, next, out>>

-----------------------------------------------------------------------------
Init ==
  /\ state = "wiring"
  /\ todo = Enabled
  /\ opened = {} /\ closed = {} /\ ended = {}
  /\ made = [g \in Gens |-> 0]
  /\ held = [g \in Gens |-> << >>]
  /\ chan = [r \in Routes |-> << >>]
  /\ now = [r \in Routes |-> << >>]
  /\ next = [r \in Routes |-> 1]
  /\ out = [r \in Routes |-> [i \in OutputsOf(r) |-> << >>]]

Next == \/ \E r \in Routes : \/ WireRoute(r) \/ WireFails(r)
                          \/ Take(r) \/ Deliver(r) \/ Delivered(r)
        \/ \E g \in Gens : Generate(g) \/ GenerateFails(g) \/ Put(g)
        \/ StartFlows \/ Close

Spec == Init /\ [][Next]_vars

\* Every goroutine runs whenever it can; a closed generator's Generate returns.
FairSpec ==
  /\ Spec
  /\ \A r \in Routes : WF_vars(WireRoute(r) \/ WireFails(r)) /\ WF_vars(Take(r))
                       /\ WF_vars(Deliver(r)) /\ WF_vars(Delivered(r))
  /\ \A g \in Gens : WF_vars(Put(g)) /\ WF_vars(g \in closed /\ GenerateFails(g))
  /\ WF_vars(StartFlows)

-----------------------------------------------------------------------------
(* Properties                                                              *)

Messages == [gen : Gens, n : 1 .. MaxMsgs, marks : SUBSET Filterers]

TypeOK ==
  /\ state \in {"wiring", "flowing", "failed", "closed"}
  /\ todo \subseteq Enabled
  /\ opened \subseteq Gens
  /\ closed \subseteq opened /\ ended \subseteq opened
  /\ made \in [Gens -> 0 .. MaxMsgs] /\ held \in [Gens -> Seq(Messages)]
  /\ \A g \in Gens : Len(held[g]) <= 1
  /\ chan \in [Routes -> Seq(Messages)] /\ now \in [Routes -> Seq(Messages)]
  /\ DOMAIN next = Routes /\ DOMAIN out = Routes
  /\ \A r \in Routes :
       /\ Len(chan[r]) <= 2 * Len(Input[r]) /\ Len(now[r]) <= 1
       /\ next[r] \in 1 .. Len(Output[r]) + 1
       /\ out[r] \in [OutputsOf(r) -> Seq(Messages)]

\* Every receiver of a route gets the messages of one generator in the order
\* they were generated and without a gap, although the route's generators share
\* one channel: the n-th message it gets from a generator is the n-th that was
\* generated (Flow).
InOrder ==
  \A r \in Routes : \A i \in OutputsOf(r) :
    LET s == out[r][i]
    IN  \A k \in DOMAIN s :
          s[k].n = Cardinality({j \in 1 .. k : s[j].gen = s[k].gen})

\* Between two messages, all receivers of a route were given the same messages
\* in the same order, whichever of them failed (Flow).
SameForAll ==
  \A r \in Routes : now[r] = << >> =>
    \A i, j \in OutputsOf(r) : out[r][i] = out[r][j]

\* A route hands each generator's messages to its receivers in order, to all of
\* them the same (Flow).
Distribution == TypeOK /\ InOrder /\ SameForAll

\* A message that was generated reaches every receiver of its route, also if
\* its generator fails or is closed right after it (Flow, Close).
EventuallyDelivered ==
  \A g \in Gens, n \in 1 .. MaxMsgs :
    made[g] = n ~> \A i \in OutputsOf(g[1]) :
                     \E m \in Range(out[g[1]][i]) : m.gen = g /\ m.n = n

\* After Close the goroutine of every generator returns, none of them stays
\* blocked on the route's channel (Flow, Close).
CloseStops == state = "closed" ~> opened \subseteq ended

\* What is generated is delivered, and Close stops every generator, as stated
\* above (Flow, Close).
DeliversAndStops == EventuallyDelivered /\ CloseStops

\* "represents a type that takes a message and returns a new message. The
\* returned message can be nil." (interfaces.go, Filterer): a receiver is not
\* given a message that a filter of its route returned nil for or failed on.
FiltersApply ==
  \A r \in Routes : \A i \in OutputsOf(r) : \A m \in Range(out[r][i]) :
    \A f \in Range(Filter[r]) : m.n \notin Drops[f] \cup Fails[f]
=============================================================================
