------------------------------ MODULE Pipeline ------------------------------
(***************************************************************************)
(* An agent's pipeline (agent/pipeline.go): Start starts a goroutine per   *)
(* source and waits for their latches in turn, Close closes each source.   *)
(* The source Local is the server of Agent, of which the listeners matter  *)
(* here; the others are RedisInputs, whose Init may have failed.  A        *)
(* listener is named by the goroutine that made it.                        *)
(***************************************************************************)
EXTENDS Integers, Sequences

CONSTANTS
  Sources,   \* number of sources
  Local      \* the one that is a server

VARIABLES
  loop,      \* goroutines made so far; s, the loop's variable, is that source
  gpc,       \* where each goroutine is
  src,       \* the source whose Start it called, 0 at first
  err,       \* goroutines whose Start returned an error
  gate,      \* the latch Start waits for
  outer,     \* the latch its result comes from, 0: nil
  bound,     \* the listener the socket's path leads to, 0: none
  server,    \* s.server, 0: nil
  shut,      \* the listener that Close closed, 0: none
  closed,    \* Close was called
  dialed,    \* RedisInputs whose Init succeeded
  crashed    \* the process panicked

vars == <<loop, gpc, src, err, gate, outer, bound, server, shut, closed,
              dialed, crashed>>
Gs == 1 .. Sources

-----------------------------------------------------------------------------
\* MakePipeline looks at no error of Init.
Init ==
  /\ loop = 0 /\ gpc = [g \in Gs |-> "none"] /\ src = [g \in Gs |-> 0]
  /\ err = {} /\ gate = 1 /\ outer = 0
  /\ bound = 0 /\ server = 0 /\ shut = 0 /\ closed = FALSE /\ crashed = FALSE
  /\ dialed \in SUBSET (Gs \ {Local})

Spawn ==
  /\ loop < Sources
  /\ loop' = loop + 1
  /\ gpc' = [gpc EXCEPT ![loop + 1] = "made"]
  /\ UNCHANGED <<src, err, gate, outer, bound, server, shut, closed, dialed, crashed>>

\* The goroutines share the loop's variable: each starts what it is by then.
Captured == loop

\* A RedisInput without a connection panics in its first Do.
Run(g) ==
  /\ gpc[g] = "made"
  /\ src' = [src EXCEPT ![g] = Captured]
  /\ gpc' = [gpc EXCEPT ![g] = IF Captured = Local THEN "listen" ELSE "input"]
  /\ crashed' = (Captured \notin dialed \cup {Local})
  /\ UNCHANGED <<loop, err, gate, outer, bound, server, shut, closed, dialed>>

\* os.RemoveAll and net.Listen: the path is this listener's.
Listen(g) ==
  /\ gpc[g] = "listen"
  /\ gpc' = [gpc EXCEPT ![g] = "assign"]
  /\ bound' = g
  /\ UNCHANGED <<loop, src, err, gate, outer, server, shut, closed, dialed, crashed>>

\* s.server = l
Assign(g) ==
  /\ gpc[g] = "assign"
  /\ gpc' = [gpc EXCEPT ![g] = "accept"]
  /\ server' = g
  /\ UNCHANGED <<loop, src, err, gate, outer, bound, shut, closed, dialed, crashed>>

\* The arguments of strings.Index are swapped: it looks for the long message in
\* "closed network connection", never finds it, and the loop accepts again.
Recognised == FALSE

AcceptFails(g) ==
  /\ gpc[g] = "accept" /\ shut = g
  /\ gpc' = [gpc EXCEPT ![g] = IF Recognised THEN "latch" ELSE "spin"]
  /\ UNCHANGED <<loop, src, err, gate, outer, bound, server, shut, closed, dialed, crashed>>

\* net.Listen fails, or RedisInput.Start returns, with an error or without.
Ends(g, fails) ==
  /\ gpc[g] = "input" \/ (gpc[g] = "listen" /\ fails)
  /\ gpc' = [gpc EXCEPT ![g] = "latch"]
  /\ err' = IF fails THEN err \cup {g} ELSE err
  /\ UNCHANGED <<loop, src, gate, outer, bound, server, shut, closed, dialed, crashed>>

\* Mutant: the first error is returned at once.
ReturnsAtError == IF gate \in err THEN Sources + 1 ELSE gate + 1

\* An error does not end the loop over the latches.
NextGate == gate + 1

\* err := <-l: the latches have no buffer and are read in order.
Gate ==
  /\ loop = Sources /\ gate <= Sources /\ gpc[gate] = "latch"
  /\ gate' = NextGate
  /\ gpc' = [gpc EXCEPT ![gate] = "ended"]
  /\ outer' = IF gate \in err THEN gate ELSE outer
  /\ UNCHANGED <<loop, src, err, bound, server, shut, closed, dialed, crashed>>

\* Each source's Close: a nil s.server and a nil connection panic; closing the
\* listener unlinks the path, whosever it is by then.
Close ==
  /\ ~closed
  /\ closed' = TRUE
  /\ crashed' = (server = 0 \/ dialed # Gs \ {Local})
  /\ shut' = server
  /\ bound' = IF server = 0 THEN bound ELSE 0
  /\ UNCHANGED <<loop, gpc, src, err, gate, outer, server, dialed>>

GStep(g) == \/ Run(g) \/ Listen(g) \/ Assign(g) \/ AcceptFails(g)
            \/ \E fails \in BOOLEAN : Ends(g, fails)
Next == ~crashed /\ (Spawn \/ Gate \/ Close \/ \E g \in Gs : GStep(g))

Spec == Init /\ [][Next]_vars

-----------------------------------------------------------------------------
(* Properties                                                              *)

TypeOK ==
  /\ loop \in 0 .. Sources /\ gate \in 1 .. Sources + 1 /\ outer \in 0 .. Sources
  /\ gpc \in [Gs -> {"none", "made", "input", "listen", "assign", "accept",
                     "spin", "latch", "ended"}]
  /\ src \in [Gs -> 0 .. Sources] /\ err \subseteq Gs /\ dialed \subseteq Gs
  /\ {bound, server, shut} \subseteq 0 .. Sources
  /\ closed \in BOOLEAN /\ crashed \in BOOLEAN

Listening(g) == gpc[g] \in {"assign", "accept"} /\ shut # g

\* A goroutine starts its own source or a later one, so that the last source is
\* always started, at times more than once; and the listener that the path
\* leads to is one that accepts (Start, server.Start).
SourcesStart ==
  /\ \A g \in Gs : src[g] # 0 => src[g] >= g
  /\ bound # 0 /\ ~crashed => Listening(bound)

\* Start returns only when each goroutine's source has, with the error of the
\* last that failed; once a server listens, it never returns.
StartWaits ==
  gate > Sources =>
    /\ \A g \in Gs : gpc[g] = "ended" /\ g # server /\ g # bound
    /\ outer = IF err = {} THEN 0 ELSE CHOOSE g \in err : \A h \in err : h <= g

\* A pipeline starts, runs and ends as one (Start, Close).
PipelineRuns == TypeOK /\ SourcesStart /\ StartWaits
=============================================================================
