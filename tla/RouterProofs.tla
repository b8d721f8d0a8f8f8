---------------------------- MODULE RouterProofs ----------------------------
(***************************************************************************)
(* Proofs about module Router, for all routes, plugins and filters, and    *)
(* any number of generators, receivers and messages.                       *)
(***************************************************************************)
EXTENDS Router, Lemmas

-----------------------------------------------------------------------------
(* The inductive invariant                                                 *)

\* Only a failed Open leaves a generator of a route that cannot be wired.
Wired == state # "failed" => \A g \in opened : Wirable(g[1])

\* The message a generator's goroutine has is the last one it generated, and a
\* route's channel has only messages of the route's generators.
Owned ==
  /\ \A g \in Gens : held[g] # << >> =>
       g \in opened /\ held[g] = <<Message(g, made[g], {})>>
  /\ \A r \in Routes : \A k \in 1 .. Len(chan[r]) :
       chan[r][k].gen \in opened /\ chan[r][k].gen[1] = r

\* The message that receiver i has yet to get in this round.
Due(r, i) == IF now[r] # << >> /\ next[r] <= i THEN now[r] ELSE << >>

\* What a receiver got or is to get in this round, and with it the messages in
\* the channel: all it ever gets of what was put so far.
Got(r, i) == out[r][i] \o Due(r, i)
Gets(r, i) == Got(r, i) \o chan[r]

\* How many messages of g are in s, and whether the n-th of each generator has
\* number n.
Count(s, g) == Cardinality({j \in 1 .. Len(s) : s[j].gen = g})
Numbered(s) ==
  \A k \in 1 .. Len(s) :
    s[k].n = Cardinality({j \in 1 .. k : s[j].gen = s[k].gen})

\* Each receiver is on its way to get every message that was put, in order.
InTurn(r) ==
  \A i \in OutputsOf(r) :
    /\ Numbered(Gets(r, i))
    /\ \A g \in Gens : g[1] = r => Count(Gets(r, i), g) + Len(held[g]) = made[g]

\* All receivers of a route get the same.
Alike(r) == \A i, j \in OutputsOf(r) : Got(r, i) = Got(r, j)

Flows == \A r \in Routes : InTurn(r) /\ Alike(r)

IInv == TypeOK /\ Wired /\ Owned /\ Flows

-----------------------------------------------------------------------------
(* Counting the messages of a generator                                    *)

\* The messages of g among the first n are finitely many.
LEMMA CountFinite ==
  ASSUME NEW n \in Nat, NEW s, NEW g
  PROVE  /\ IsFiniteSet({j \in 1 .. n : s[j].gen = g})
         /\ Cardinality({j \in 1 .. n : s[j].gen = g}) \in Nat
<1> DEFINE S == {j \in 1 .. n : s[j].gen = g}
<1>1. IsFiniteSet(1 .. n)
  BY CardinalityInterval
<1>2. S \in SUBSET (1 .. n)
  OBVIOUS
<1> HIDE DEF S
<1>3. IsFiniteSet(S)
  BY ONLY <1>1, <1>2, FS_Subset
<1>4. Cardinality(S) \in Nat
  BY ONLY <1>3, FS_CardinalityType
<1> QED BY <1>3, <1>4 DEF S

\* One more message.
LEMMA CountAppend ==
  ASSUME NEW s \in Seq(Messages), NEW x \in Messages, NEW g
  PROVE  /\ Count(s, g) \in Nat
         /\ Count(Append(s, x), g) = IF x.gen = g THEN Count(s, g) + 1 ELSE Count(s, g)
<1> DEFINE t == Append(s, x)
<1> DEFINE n == Len(s)
<1> DEFINE S == {j \in 1 .. n : s[j].gen = g}
<1> DEFINE T == {j \in 1 .. n + 1 : t[j].gen = g}
<1>1. n \in Nat /\ Len(t) = n + 1 /\ t[n + 1] = x /\ \A j \in 1 .. n : t[j] = s[j]
  OBVIOUS
<1>2. IsFiniteSet(S) /\ Cardinality(S) \in Nat
  <2>1. IsFiniteSet(1 .. n) /\ S \in SUBSET (1 .. n)
    BY <1>1, CardinalityInterval
  <2> HIDE DEF S, n
  <2>2. IsFiniteSet(S)
    BY ONLY <2>1, FS_Subset
  <2> QED BY ONLY <2>2, FS_CardinalityType
<1>3. /\ \A j \in 1 .. n + 1 : j \in 1 .. n \/ j = n + 1
      /\ \A j \in 1 .. n : j \in 1 .. n + 1 /\ j # n + 1
      /\ n + 1 \in 1 .. n + 1
  BY <1>1
<1>4. T = IF x.gen = g THEN S \cup {n + 1} ELSE S
  <2> HIDE DEF n, t
  <2> QED BY <1>1, <1>3
<1>5. n + 1 \notin S
  BY <1>3
<1>6. Count(s, g) = Cardinality(S) /\ Count(t, g) = Cardinality(T)
  <2>1. Count(s, g) = Cardinality(S)
    BY DEF Count
  <2>2. Len(t) = n + 1
    BY <1>1
  <2> HIDE DEF t
  <2>3. Count(t, g) = Cardinality({j \in 1 .. Len(t) : t[j].gen = g})
    BY DEF Count
  <2> QED BY <2>1, <2>2, <2>3
<1> HIDE DEF S, T, n, t
<1>7. /\ Cardinality(S \cup {n + 1}) =
           IF n + 1 \in S THEN Cardinality(S) ELSE Cardinality(S) + 1
  BY ONLY <1>2, FS_AddElement
<1> QED BY <1>2, <1>4, <1>5, <1>6, <1>7 DEF t

\* A message with the next number of its generator.
LEMMA NumberedAppend ==
  ASSUME NEW s \in Seq(Messages), NEW x \in Messages, Numbered(s),
         x.n = Count(s, x.gen) + 1
  PROVE  Numbered(Append(s, x))
<1> DEFINE t == Append(s, x)
<1>1. /\ Len(s) \in Nat /\ Len(t) = Len(s) + 1 /\ t[Len(s) + 1] = x
      /\ \A j \in 1 .. Len(s) : t[j] = s[j]
  OBVIOUS
<1>2. Count(t, x.gen) = Count(s, x.gen) + 1
  BY CountAppend
<1> HIDE DEF t
<1>3. ASSUME NEW k \in 1 .. Len(t)
      PROVE  t[k].n = Cardinality({j \in 1 .. k : t[j].gen = t[k].gen})
  <2>1. CASE k \in 1 .. Len(s)
    <3>1. \A j \in 1 .. k : t[j] = s[j]
      BY <1>1, <2>1
    <3>2. {j \in 1 .. k : t[j].gen = t[k].gen} = {j \in 1 .. k : s[j].gen = s[k].gen}
      BY <1>1, <2>1, <3>1
    <3>3. s[k].n = Cardinality({j \in 1 .. k : s[j].gen = s[k].gen})
      BY <2>1 DEF Numbered
    <3> QED BY <1>1, <2>1, <3>2, <3>3
  <2>2. CASE k = Len(t)
    <3>1. t[k] = x /\ k = Len(t)
      BY <1>1, <2>2
    <3>2. Count(t, x.gen) = Cardinality({j \in 1 .. k : t[j].gen = x.gen})
      BY <3>1 DEF Count
    <3> QED BY <1>2, <3>1, <3>2
  <2> QED BY <1>1, <2>1, <2>2
<1> QED BY <1>3 DEF Numbered, t

\* Two sequences with the same generators and numbers.
SameKeys(s, t) ==
  Len(s) = Len(t) /\ \A k \in 1 .. Len(s) : s[k].gen = t[k].gen /\ s[k].n = t[k].n

\* They count and are numbered alike.
LEMMA SameKeysCount ==
  ASSUME NEW s \in Seq(Messages), NEW t \in Seq(Messages), SameKeys(s, t)
  PROVE  /\ \A g : Count(s, g) = Count(t, g)
         /\ Numbered(s) => Numbered(t)
<1>1. Len(s) = Len(t) /\ Len(s) \in Nat
  BY DEF SameKeys
<1>2. ASSUME NEW n \in 0 .. Len(s), NEW g
      PROVE  {j \in 1 .. n : s[j].gen = g} = {j \in 1 .. n : t[j].gen = g}
  <2>1. \A j \in 1 .. n : j \in 1 .. Len(s)
    BY <1>1
  <2> QED BY <2>1 DEF SameKeys
<1>3. \A g : Count(s, g) = Count(t, g)
  <2>1. Len(s) \in 0 .. Len(s)
    BY <1>1
  <2> QED BY <1>1, <1>2, <2>1 DEF Count
<1>4. ASSUME Numbered(s) PROVE Numbered(t)
  <2>1. ASSUME NEW k \in 1 .. Len(t)
        PROVE  t[k].n = Cardinality({j \in 1 .. k : t[j].gen = t[k].gen})
    <3>1. k \in 0 .. Len(s) /\ k \in 1 .. Len(s)
      BY <1>1
    <3>2. {j \in 1 .. k : s[j].gen = t[k].gen} = {j \in 1 .. k : t[j].gen = t[k].gen}
      BY <1>2, <3>1
    <3>3. s[k].gen = t[k].gen /\ s[k].n = t[k].n
      BY <3>1 DEF SameKeys
    <3>4. s[k].n = Cardinality({j \in 1 .. k : s[j].gen = s[k].gen})
      BY <1>4, <3>1 DEF Numbered
    <3> QED BY <3>2, <3>3, <3>4
  <2> QED BY <2>1 DEF Numbered
<1> QED BY <1>3, <1>4

\* The first part of a numbered sequence is numbered.
LEMMA NumberedPrefix ==
  ASSUME NEW s \in Seq(Messages), NEW t \in Seq(Messages), Numbered(s \o t)
  PROVE  Numbered(s)
<1> DEFINE u == s \o t
<1>1. /\ Len(s) \in Nat /\ Len(t) \in Nat /\ Len(u) = Len(s) + Len(t)
      /\ \A j \in 1 .. Len(s) : u[j] = s[j]
  OBVIOUS
<1>2. Numbered(u)
  OBVIOUS
<1> HIDE DEF u
<1>3. ASSUME NEW k \in 1 .. Len(s)
      PROVE  s[k].n = Cardinality({j \in 1 .. k : s[j].gen = s[k].gen})
  <2>1. k \in 1 .. Len(u) /\ \A j \in 1 .. k : u[j] = s[j]
    BY <1>1
  <2>2. u[k].n = Cardinality({j \in 1 .. k : u[j].gen = u[k].gen})
    BY <1>2, <2>1 DEF Numbered
  <2>3. {j \in 1 .. k : u[j].gen = u[k].gen} = {j \in 1 .. k : s[j].gen = s[k].gen}
    BY <1>1, <2>1
  <2> QED BY <1>1, <2>2, <2>3
<1> QED BY <1>3 DEF Numbered

\* A marked message goes from the head of one sequence to the end of the other.
LEMMA HeadMarked ==
  ASSUME NEW s \in Seq(Messages), NEW t \in Seq(Messages), t # << >>,
         NEW m \in Messages, m.gen = Head(t).gen, m.n = Head(t).n
  PROVE  /\ (s \o <<m>>) \o Tail(t) \in Seq(Messages)
         /\ SameKeys(s \o t, (s \o <<m>>) \o Tail(t))
<1> DEFINE u == s \o t
<1> DEFINE w == s \o <<m>>
<1> DEFINE v == w \o Tail(t)
<1>1. /\ Len(s) \in Nat /\ Len(t) \in Nat /\ Len(t) >= 1 /\ Head(t) = t[1]
      /\ Tail(t) \in Seq(Messages) /\ Len(Tail(t)) = Len(t) - 1
      /\ \A j \in 1 .. Len(t) - 1 : Tail(t)[j] = t[j + 1]
  OBVIOUS
<1>2. /\ u \in Seq(Messages) /\ Len(u) = Len(s) + Len(t)
      /\ \A j \in 1 .. Len(s) : u[j] = s[j]
      /\ \A j \in Len(s) + 1 .. Len(u) : u[j] = t[j - Len(s)]
  OBVIOUS
<1>3. /\ w \in Seq(Messages) /\ Len(w) = Len(s) + 1
      /\ \A j \in 1 .. Len(s) : w[j] = s[j]
      /\ w[Len(s) + 1] = m
  OBVIOUS
<1> HIDE DEF w
<1>4. /\ v \in Seq(Messages) /\ Len(v) = Len(w) + Len(Tail(t))
      /\ \A j \in 1 .. Len(w) : v[j] = w[j]
      /\ \A j \in Len(w) + 1 .. Len(v) : v[j] = Tail(t)[j - Len(w)]
  BY SMTT(30), <1>1, <1>3
<1> HIDE DEF u, v
<1>5. Len(u) = Len(v)
  BY <1>1, <1>2, <1>3, <1>4
<1>6. ASSUME NEW k \in 1 .. Len(u) PROVE u[k].gen = v[k].gen /\ u[k].n = v[k].n
  <2>1. CASE k \in 1 .. Len(s)
    <3>1. k \in 1 .. Len(w)
      BY <1>1, <1>3, <2>1
    <3> QED BY <1>2, <1>3, <1>4, <2>1, <3>1
  <2>2. CASE k = Len(s) + 1
    <3>1. k \in 1 .. Len(w) /\ k \in Len(s) + 1 .. Len(u) /\ k - Len(s) = 1
      BY <1>1, <1>2, <1>3, <2>2
    <3>2. v[k] = m /\ u[k] = Head(t)
      BY <1>1, <1>2, <1>3, <1>4, <2>2, <3>1
    <3> QED BY <3>2
  <2>3. CASE k > Len(s) + 1
    <3>1. /\ k \in Len(s) + 1 .. Len(u) /\ k \in Len(w) + 1 .. Len(v)
          /\ k - Len(w) \in 1 .. Len(t) - 1 /\ (k - Len(w)) + 1 = k - Len(s)
      BY <1>1, <1>2, <1>3, <1>4, <2>3
    <3>2. u[k] = t[k - Len(s)] /\ v[k] = Tail(t)[k - Len(w)]
      BY <1>2, <1>4, <3>1
    <3>3. Tail(t)[k - Len(w)] = t[(k - Len(w)) + 1]
      BY <1>1, <3>1
    <3> QED BY <3>1, <3>2, <3>3
  <2> QED BY <1>1, <1>2, <2>1, <2>2, <2>3
<1> QED BY <1>4, <1>5, <1>6 DEF SameKeys, u, v, w

-----------------------------------------------------------------------------
(* What does not change                                                    *)

\* The indices of a route's names.
LEMMA Indices ==
  ASSUME NEW r \in Routes
  PROVE  /\ Len(Input[r]) \in Nat /\ Len(Output[r]) \in Nat /\ Len(Filter[r]) \in Nat
         /\ OutputsOf(r) = 1 .. Len(Output[r])
         /\ DOMAIN Input[r] = 1 .. Len(Input[r])
         /\ DOMAIN Filter[r] = 1 .. Len(Filter[r])
         /\ \A i \in DOMAIN Input[r] : <<r, i>> \in Gens
<1>1. Input[r] \in Seq(STRING) /\ Output[r] \in Seq(STRING) /\ Filter[r] \in Seq(STRING)
  BY RouterAssumption
<1> QED BY <1>1 DEF OutputsOf, Gens

\* What a receiver gets is a sequence of messages.
LEMMA GetsTyped ==
  ASSUME TypeOK, NEW r \in Routes, NEW i \in OutputsOf(r)
  PROVE  /\ out[r][i] \in Seq(Messages) /\ Due(r, i) \in Seq(Messages)
         /\ chan[r] \in Seq(Messages) /\ now[r] \in Seq(Messages)
         /\ Got(r, i) \in Seq(Messages) /\ Gets(r, i) \in Seq(Messages)
<1>1. /\ out[r][i] \in Seq(Messages) /\ chan[r] \in Seq(Messages)
      /\ now[r] \in Seq(Messages)
  BY DEF TypeOK
<1>2. Due(r, i) \in Seq(Messages)
  BY <1>1 DEF Due
<1>3. out[r][i] \o Due(r, i) \in Seq(Messages)
  BY <1>1, <1>2
<1>4. Got(r, i) \in Seq(Messages)
  BY <1>3 DEF Got
<1>5. Got(r, i) \o chan[r] \in Seq(Messages)
  BY <1>1, <1>4
<1> QED BY <1>1, <1>2, <1>4, <1>5 DEF Gets

\* A route whose messages do not move.
LEMMA RouteKeeps ==
  ASSUME NEW r \in Routes, InTurn(r), Alike(r), chan'[r] = chan[r],
         now'[r] = now[r], next'[r] = next[r], out'[r] = out[r],
         \A g \in Gens : g[1] = r => held'[g] = held[g] /\ made'[g] = made[g]
  PROVE  InTurn(r)' /\ Alike(r)'
<1>1. \A i \in OutputsOf(r) : Got(r, i)' = Got(r, i) /\ Gets(r, i)' = Gets(r, i)
  BY DEF Got, Gets, Due
<1> QED BY <1>1 DEF InTurn, Alike, Numbered, Count

\* A step of Open or Close, or a generator that returns.
LEMMA FlowsKeep ==
  ASSUME IInv, UNCHANGED <<made, held, chan, flowVars>>, opened \subseteq opened'
  PROVE  Owned' /\ Flows'
<1> USE DEF flowVars
<1>1. Owned'
  BY DEF IInv, Owned
<1>2. Flows'
  BY RouteKeeps DEF IInv, Flows
<1> QED BY <1>1, <1>2

-----------------------------------------------------------------------------
(* Open and Close                                                          *)

\* The generators of a route are generators.
LEMMA RouteGens ==
  ASSUME NEW r \in Routes, NEW n \in 0 .. Len(Input[r])
  PROVE  /\ {r} \X (1 .. n) \subseteq Gens /\ {r} \X DOMAIN Input[r] \subseteq Gens
         /\ \A g \in Gens : g[1] \in Routes
<1>1. \A i \in 1 .. n : i \in DOMAIN Input[r]
  BY Indices
<1> QED BY <1>1 DEF Gens

\* A route is wired.
LEMMA WireRouteKeeps ==
  ASSUME IInv, NEW r \in Routes, WireRoute(r) PROVE IInv'
<1> USE DEF WireRoute, genVars, flowVars
<1>1. Owned' /\ Flows'
  BY FlowsKeep
<1>2. opened' \subseteq Gens
  BY DEF IInv, TypeOK, Gens
<1>3. TypeOK'
  BY <1>2 DEF IInv, TypeOK
<1>4. Wired'
  BY DEF IInv, Wired, Wirable
<1> QED BY <1>1, <1>3, <1>4 DEF IInv

\* Open fails.
LEMMA WireFailsKeeps ==
  ASSUME IInv, NEW r \in Routes, WireFails(r) PROVE IInv'
<1> USE DEF WireFails, genVars, flowVars
<1>1. PICK n \in 0 .. Len(Input[r]) : opened' = opened \cup ({r} \X (1 .. n))
  OBVIOUS
<1>2. Owned' /\ Flows'
  BY <1>1, FlowsKeep
<1>3. opened' \subseteq Gens
  BY <1>1, RouteGens DEF IInv, TypeOK
<1>4. TypeOK'
  BY <1>1, <1>3 DEF IInv, TypeOK
<1>5. Wired'
  BY DEF Wired
<1> QED BY <1>2, <1>4, <1>5 DEF IInv

\* Open returns, or Close is called.
LEMMA StartKeeps ==
  ASSUME IInv, StartFlows \/ Close PROVE IInv'
<1> USE DEF StartFlows, Close, ToClose, genVars, flowVars
<1>1. Owned' /\ Flows'
  BY FlowsKeep
<1>2. TypeOK'
  BY DEF IInv, TypeOK
<1>3. Wired'
  BY DEF IInv, Wired, Wirable
<1> QED BY <1>1, <1>2, <1>3 DEF IInv

\* A generator's goroutine returns.
LEMMA GenerateFailsKeeps ==
  ASSUME IInv, NEW g \in Gens, GenerateFails(g) PROVE IInv'
<1> USE DEF GenerateFails, wireVars, flowVars
<1>1. Owned' /\ Flows'
  BY FlowsKeep
<1>2. TypeOK'
  BY DEF IInv, TypeOK
<1>3. Wired'
  BY DEF IInv, Wired, Wirable
<1> QED BY <1>1, <1>2, <1>3 DEF IInv

-----------------------------------------------------------------------------
(* Flow                                                                    *)

\* A message of generator g.
LEMMA MessageTyped ==
  ASSUME NEW g \in Gens, NEW n \in 1 .. MaxMsgs
  PROVE  /\ Message(g, n, {}) \in Messages
         /\ Message(g, n, {}).gen = g /\ Message(g, n, {}).n = n
         /\ <<Message(g, n, {})>> \in Seq(Messages)
         /\ Len(<<Message(g, n, {})>>) = 1
<1>1. /\ Message(g, n, {}) \in Messages
      /\ Message(g, n, {}).gen = g /\ Message(g, n, {}).n = n
  BY DEF Message, Messages
<1> QED BY <1>1

\* A message is generated.
LEMMA GenerateKeeps ==
  ASSUME IInv, NEW g \in Gens, Generate(g) PROVE IInv'
<1> USE DEF Generate, wireVars, flowVars
<1> DEFINE n == made[g] + 1
<1>1. n \in 1 .. MaxMsgs /\ made[g] \in Nat
  BY RouterAssumption DEF IInv, TypeOK
<1> DEFINE h == <<Message(g, n, {})>>
<1>2. h \in Seq(Messages) /\ Len(h) = 1
  BY <1>1, MessageTyped
<1>3. /\ held'[g] = h /\ made'[g] = n /\ held[g] = << >>
      /\ \A d \in Gens : d # g => held'[d] = held[d] /\ made'[d] = made[d]
  BY DEF IInv, TypeOK
<1>4. TypeOK'
  <2>1. made' \in [Gens -> 0 .. MaxMsgs] /\ held' \in [Gens -> Seq(Messages)]
    <3>1. made \in [Gens -> 0 .. MaxMsgs] /\ held \in [Gens -> Seq(Messages)]
      BY DEF IInv, TypeOK
    <3>2. n \in 0 .. MaxMsgs
      BY <1>1, RouterAssumption
    <3>3. made' = [made EXCEPT ![g] = n] /\ held' = [held EXCEPT ![g] = h]
      OBVIOUS
    <3> HIDE DEF n, h
    <3> QED BY ZenonT(60), <1>2, <3>1, <3>2, <3>3
  <2>2. \A d \in Gens : Len(held'[d]) <= 1
    <3>1. \A d \in Gens : Len(held[d]) <= 1
      BY DEF IInv, TypeOK
    <3> HIDE DEF n, h
    <3> QED BY <1>2, <1>3, <3>1
  <2> QED BY <2>1, <2>2 DEF IInv, TypeOK
<1>5. Wired'
  BY DEF IInv, Wired, Wirable
<1>6. Owned'
  <2>1. ASSUME NEW d \in Gens, held'[d] # << >>
        PROVE  d \in opened' /\ held'[d] = <<Message(d, made'[d], {})>>
    BY <1>3, <2>1 DEF IInv, Owned
  <2> QED BY <2>1 DEF IInv, Owned, Message
<1>7. Flows'
  <2>1. ASSUME NEW r \in Routes PROVE InTurn(r)' /\ Alike(r)'
    <3>1. \A i \in OutputsOf(r) : Got(r, i)' = Got(r, i) /\ Gets(r, i)' = Gets(r, i)
      BY DEF Got, Gets, Due
    <3>2. InTurn(r) /\ Alike(r)
      BY DEF IInv, Flows
    <3>3. ASSUME NEW i \in OutputsOf(r), NEW d \in Gens, d[1] = r
          PROVE  Count(Gets(r, i), d) + Len(held'[d]) = made'[d]
      <4>1. Count(Gets(r, i), d) + Len(held[d]) = made[d]
        BY <3>2, <3>3 DEF InTurn
      <4>2. CASE d = g
        <5>1. Len(held[d]) = 0
          BY <1>3, <4>2
        <5>2. Count(Gets(r, i), d) \in Nat
          <6>1. Gets(r, i) \in Seq(Messages)
            BY GetsTyped DEF IInv
          <6>2. Len(Gets(r, i)) \in Nat
            BY <6>1
          <6> QED BY <6>2, CountFinite DEF Count
        <5>3. Len(held'[d]) = 1 /\ made'[d] = made[d] + 1
          BY <1>2, <1>3, <4>2
        <5> DEFINE c == Count(Gets(r, i), d)
        <5> HIDE DEF c
        <5>4. c \in Nat /\ c + 0 = made[d]
          BY <4>1, <5>1, <5>2 DEF c
        <5>5. c + 1 = made[d] + 1
          BY <5>4
        <5> QED BY <5>3, <5>5 DEF c
      <4>3. CASE d # g
        BY <1>3, <4>1, <4>3
      <4> QED BY <4>2, <4>3
    <3>4. InTurn(r)'
      BY <3>1, <3>2, <3>3 DEF InTurn, Numbered, Count
    <3>5. Alike(r)'
      BY <3>1, <3>2 DEF Alike
    <3> QED BY <3>4, <3>5
  <2> QED BY <2>1 DEF Flows
<1> QED BY <1>4, <1>5, <1>6, <1>7 DEF IInv

\* A message goes into the channel of its route.
LEMMA PutKeeps ==
  ASSUME IInv, NEW g \in Gens, Put(g) PROVE IInv'
<1> USE DEF Put, wireVars, flowVars
<1> DEFINE q == g[1]
<1> DEFINE x == Message(g, made[g], {})
<1>1. q \in Routes
  BY DEF Gens
<1>2. held[g] = <<x>> /\ g \in opened
  BY DEF IInv, Owned
<1>3. x \in Messages /\ x.gen = g /\ x.n = made[g]
  <2>1. <<x>> \in Seq(Messages)
    BY <1>2 DEF IInv, TypeOK
  <2> HIDE DEF x
  <2>2. x \in Messages
    <3>1. <<x>>[1] \in Messages
      BY <2>1
    <3> QED BY <3>1
  <2> QED BY <2>2 DEF x, Message
<1>4. chan[q] \in Seq(Messages) /\ Len(chan[q]) < 2 * Len(Input[q])
  BY <1>1 DEF IInv, TypeOK
<1>5. /\ held'[g] = << >> /\ chan'[q] = chan[q] \o <<x>>
      /\ \A d \in Gens : d # g => held'[d] = held[d]
      /\ \A r \in Routes : r # q => chan'[r] = chan[r]
  BY <1>1, <1>2 DEF IInv, TypeOK
<1> HIDE DEF x, q
<1>6. /\ chan[q] \o <<x>> \in Seq(Messages)
      /\ Len(chan[q] \o <<x>>) = Len(chan[q]) + 1
      /\ \A k \in 1 .. Len(chan[q]) : (chan[q] \o <<x>>)[k] = chan[q][k]
      /\ (chan[q] \o <<x>>)[Len(chan[q]) + 1] = x
  BY <1>3, <1>4
<1>7. TypeOK'
  <2>1. held' \in [Gens -> Seq(Messages)] /\ \A d \in Gens : Len(held'[d]) <= 1
    <3>1. << >> \in Seq(Messages) /\ Len(<< >>) <= 1
      OBVIOUS
    <3>2. /\ held \in [Gens -> Seq(Messages)] /\ \A d \in Gens : Len(held[d]) <= 1
      BY DEF IInv, TypeOK
    <3> QED BY <1>5, <3>1, <3>2
  <2>2. chan' \in [Routes -> Seq(Messages)]
    <3>1. chan \in [Routes -> Seq(Messages)] /\ chan' = [chan EXCEPT ![q] = @ \o <<x>>]
      BY <1>2 DEF IInv, TypeOK, q
    <3> QED BY <1>6, <3>1
  <2>3. \A r \in Routes : Len(chan'[r]) <= 2 * Len(Input[r])
    <3>1. Len(chan'[q]) <= 2 * Len(Input[q])
      <4>1. Len(Input[q]) \in Nat /\ Len(chan[q]) \in Nat
        BY <1>1, <1>4, Indices
      <4>2. Len(chan[q]) + 1 <= 2 * Len(Input[q])
        BY <1>4, <4>1
      <4> QED BY <1>5, <1>6, <4>2
    <3>2. \A r \in Routes : Len(chan[r]) <= 2 * Len(Input[r])
      BY DEF IInv, TypeOK
    <3> QED BY <1>5, <3>1, <3>2
  <2> QED BY <2>1, <2>2, <2>3 DEF IInv, TypeOK
<1>8. Wired'
  BY DEF IInv, Wired, Wirable
<1>9. Owned'
  <2>1. \A d \in Gens : held'[d] # << >> =>
          d \in opened' /\ held'[d] = <<Message(d, made'[d], {})>>
    BY <1>5 DEF IInv, Owned, Message
  <2>2. ASSUME NEW r \in Routes, NEW k \in 1 .. Len(chan'[r])
        PROVE  chan'[r][k].gen \in opened /\ chan'[r][k].gen[1] = r
    <3>1. CASE r # q
      BY <1>5, <2>2, <3>1 DEF IInv, Owned
    <3>2. CASE r = q /\ k \in 1 .. Len(chan[q])
      <4>1. chan'[r][k] = chan[q][k]
        BY ZenonT(60), <1>5, <1>6, <3>2
      <4>2. chan[q][k].gen \in opened /\ chan[q][k].gen[1] = q
        BY <1>1, <3>2 DEF IInv, Owned
      <4> QED BY ONLY <3>2, <4>1, <4>2
    <3>3. CASE r = q /\ k = Len(chan[q]) + 1
      BY <1>2, <1>3, <1>5, <1>6, <3>3 DEF q
    <3>4. r = q => k \in 1 .. Len(chan[q]) \/ k = Len(chan[q]) + 1
      <4>1. ASSUME r = q PROVE k \in 1 .. Len(chan[q]) + 1
        BY <1>5, <1>6, <2>2, <4>1
      <4>2. Len(chan[q]) \in Nat
        BY <1>4
      <4> QED BY <4>1, <4>2
    <3> QED BY <3>1, <3>2, <3>3, <3>4
  <2>3. opened' = opened
    OBVIOUS
  <2> QED BY ONLY <2>1, <2>2, <2>3 DEF Owned, Message
<1>10. InTurn(q)' /\ Alike(q)'
  <2>1. InTurn(q) /\ Alike(q)
    BY <1>1 DEF IInv, Flows
  <2>2. \A i \in OutputsOf(q) : Got(q, i)' = Got(q, i)
    BY DEF Got, Due
  <2>3. ASSUME NEW i \in OutputsOf(q)
        PROVE  /\ Numbered(Gets(q, i)')
               /\ \A d \in Gens : d[1] = q =>
                    Count(Gets(q, i)', d) + Len(held'[d]) = made'[d]
    <3>1. /\ Got(q, i) \in Seq(Messages) /\ Gets(q, i) \in Seq(Messages)
          /\ Gets(q, i) = Got(q, i) \o chan[q]
      BY <1>1, GetsTyped DEF IInv, Gets
    <3> DEFINE s == Got(q, i)
    <3> DEFINE u == Gets(q, i)
    <3>2. Gets(q, i)' = s \o (chan[q] \o <<x>>)
      BY <1>5, <2>2 DEF Gets
    <3>3. s \in Seq(Messages) /\ u = s \o chan[q] /\ u \in Seq(Messages)
      BY <3>1
    <3>4. /\ Numbered(u)
          /\ \A d \in Gens : d[1] = q => Count(u, d) + Len(held[d]) = made[d]
      BY <2>1 DEF InTurn
    <3> HIDE DEF s, u
    <3>5. s \o (chan[q] \o <<x>>) = Append(s \o chan[q], x)
      BY <1>3, <1>4, <3>3
    <3>6. Count(u, g) + 1 = made[g] /\ g[1] = q
      <4>1. Len(held[g]) = 1
        BY <1>2
      <4> QED BY <3>4, <4>1 DEF q
    <3>7. Numbered(Append(u, x))
      BY <1>3, <3>3, <3>4, <3>6, NumberedAppend
    <3>8. ASSUME NEW d \in Gens, d[1] = q
          PROVE  Count(Append(u, x), d) + Len(held'[d]) = made[d]
      <4>1. /\ Count(u, d) \in Nat
            /\ Count(Append(u, x), d) = IF x.gen = d THEN Count(u, d) + 1 ELSE Count(u, d)
        BY <1>3, <3>3, CountAppend
      <4>2. CASE d = g
        <5>1. Len(held'[d]) = 0 /\ Count(Append(u, x), d) = Count(u, d) + 1
          BY <1>3, <1>5, <4>1, <4>2
        <5>2. Count(u, d) + 1 = made[d]
          BY <3>6, <4>2
        <5> DEFINE c == Count(u, d)
        <5> HIDE DEF c
        <5>3. c \in Nat /\ Count(Append(u, x), d) = c + 1 /\ c + 1 = made[d]
          BY <4>1, <5>1, <5>2 DEF c
        <5>4. (c + 1) + 0 = c + 1
          BY <5>3
        <5> QED BY <5>1, <5>3, <5>4
      <4>3. CASE d # g
        BY <1>3, <1>5, <3>4, <3>8, <4>1, <4>3
      <4> QED BY <4>2, <4>3
    <3>9. Gets(q, i)' = Append(u, x) /\ made' = made
      BY <3>2, <3>3, <3>5
    <3> QED BY <3>7, <3>8, <3>9
  <2>4. InTurn(q)'
    BY <2>3 DEF InTurn, Numbered, Count
  <2>5. Alike(q)'
    BY <2>1, <2>2 DEF Alike
  <2> QED BY <2>4, <2>5
<1>11. Flows'
  <2>1. ASSUME NEW r \in Routes, r # q PROVE InTurn(r)' /\ Alike(r)'
    <3>1. InTurn(r) /\ Alike(r)
      BY DEF IInv, Flows
    <3>2. \A d \in Gens : d[1] = r => held'[d] = held[d] /\ made'[d] = made[d]
      BY <1>5, <2>1 DEF q
    <3> QED BY <1>5, <2>1, <3>1, <3>2, RouteKeeps
  <2> QED BY <1>10, <2>1 DEF Flows
<1> QED BY <1>7, <1>8, <1>9, <1>11 DEF IInv

\* The filters leave a message its generator and its number.
LEMMA FilteredFacts ==
  ASSUME NEW r \in Routes, Wirable(r), NEW m \in Messages
  PROVE  \E x \in Messages : /\ Filtered(r, m) = <<x>>
                             /\ x.gen = m.gen /\ x.n = m.n
<1> DEFINE S == {i \in DOMAIN Filter[r] :
                   m.n \in Drops[Filter[r][i]] \cup Fails[Filter[r][i]]}
<1> DEFINE k == Stop(r, m.n)
<1>1. Len(Filter[r]) \in Nat /\ DOMAIN Filter[r] = 1 .. Len(Filter[r])
  BY Indices
<1>2. k \in 1 .. Len(Filter[r]) + 1
  <2>1. CASE S = {}
    BY <1>1, <2>1 DEF Stop
  <2>2. CASE S # {}
    <3>1. S \in SUBSET Nat /\ S \subseteq 1 .. Len(Filter[r])
      BY <1>1
    <3>2. k = CHOOSE i \in S : \A j \in S : i <= j
      BY <2>2 DEF Stop
    <3> HIDE DEF S
    <3>3. \E i \in S : \A j \in S : i <= j
      BY ONLY <2>2, <3>1, LeastNatural
    <3>4. k \in S
      BY <3>2, <3>3
    <3>5. k \in 1 .. Len(Filter[r])
      BY <3>1, <3>4
    <3> HIDE DEF k
    <3> QED BY <1>1, <3>5
  <2> QED BY <2>1, <2>2
<1> HIDE DEF k
<1> DEFINE F == {Filter[r][i] : i \in 1 .. k - 1}
<1>3. F \subseteq Filterers
  <2>1. \A i \in 1 .. k - 1 : i \in DOMAIN Filter[r]
    BY <1>1, <1>2
  <2>2. Range(Filter[r]) \subseteq Filterers
    BY DEF Wirable
  <2> QED BY <2>1, <2>2 DEF Range
<1> DEFINE x == [m EXCEPT !.marks = @ \cup (InPlace \cap F)]
<1>4. Filtered(r, m) = <<x>>
  BY DEF Filtered, k
<1> HIDE DEF F
<1>5. x \in Messages /\ x.gen = m.gen /\ x.n = m.n
  BY <1>3 DEF Messages
<1> QED BY <1>4, <1>5

\* A round begins: the message that is taken is due to every receiver.
LEMMA TakeKeeps ==
  ASSUME IInv, NEW q \in Routes, Take(q) PROVE IInv'
<1> USE DEF Take, wireVars, genVars
<1> DEFINE c == chan[q]
<1>1. c \in Seq(Messages) /\ c # << >>
  BY DEF IInv, TypeOK
<1> HIDE DEF c
<1>2. /\ Head(c) \in Messages /\ Tail(c) \in Seq(Messages) /\ Len(c) \in Nat
      /\ Len(c) >= 1 /\ Len(Tail(c)) = Len(c) - 1 /\ Head(c) = c[1]
      /\ \A k \in 1 .. Len(c) - 1 : Tail(c)[k] = c[k + 1]
  BY <1>1
<1>3. Wirable(q)
  <2>1. 1 \in 1 .. Len(c)
    BY <1>2
  <2>2. c[1].gen \in opened /\ c[1].gen[1] = q
    BY <2>1 DEF IInv, Owned, c
  <2> QED BY <2>2 DEF IInv, Wired, Flowing
<1>4. PICK x \in Messages : /\ Filtered(q, Head(c)) = <<x>>
                            /\ x.gen = Head(c).gen /\ x.n = Head(c).n
  BY <1>2, <1>3, FilteredFacts
<1>5. /\ now'[q] = <<x>> /\ now[q] = << >> /\ chan'[q] = Tail(c) /\ next'[q] = 1
      /\ \A r \in Routes : r # q => /\ now'[r] = now[r] /\ chan'[r] = chan[r]
                                    /\ next'[r] = next[r]
  BY <1>4 DEF IInv, TypeOK, c
<1>6. <<x>> \in Seq(Messages) /\ Len(<<x>>) = 1 /\ <<x>> # << >>
  OBVIOUS
<1>7. TypeOK'
  <2>1. now' \in [Routes -> Seq(Messages)] /\ chan' \in [Routes -> Seq(Messages)]
    <3>1. now \in [Routes -> Seq(Messages)] /\ chan \in [Routes -> Seq(Messages)]
      BY DEF IInv, TypeOK
    <3>2. now' = [now EXCEPT ![q] = <<x>>] /\ chan' = [chan EXCEPT ![q] = Tail(c)]
      BY <1>4 DEF c
    <3>3. now' \in [Routes -> Seq(Messages)]
      BY ONLY <1>6, <3>1, <3>2
    <3>4. chan' \in [Routes -> Seq(Messages)]
      BY ONLY <1>2, <3>1, <3>2
    <3> QED BY <3>3, <3>4
  <2>2. ASSUME NEW r \in Routes
        PROVE  /\ Len(chan'[r]) <= 2 * Len(Input[r]) /\ Len(now'[r]) <= 1
               /\ next'[r] \in 1 .. Len(Output[r]) + 1
    <3>1. /\ Len(chan[r]) <= 2 * Len(Input[r]) /\ Len(now[r]) <= 1
          /\ next[r] \in 1 .. Len(Output[r]) + 1
      BY DEF IInv, TypeOK
    <3>2. CASE r = q
      <4>1. Len(Output[r]) \in Nat /\ Len(Input[r]) \in Nat
        BY Indices
      <4>2. Len(Tail(c)) <= 2 * Len(Input[r])
        <5>1. Len(c) <= 2 * Len(Input[r])
          BY <3>1, <3>2 DEF c
        <5> QED BY <1>2, <4>1, <5>1
      <4>3. 1 \in 1 .. Len(Output[r]) + 1
        BY <4>1
      <4>4. Len(<<x>>) <= 1
        BY <1>6
      <4> QED BY <1>5, <3>2, <4>2, <4>3, <4>4
    <3>3. CASE r # q
      BY <1>5, <3>1, <3>3
    <3> QED BY <3>2, <3>3
  <2>3. DOMAIN next' = Routes
    BY DEF IInv, TypeOK
  <2> QED BY <2>1, <2>2, <2>3 DEF IInv, TypeOK
<1>8. Wired'
  BY DEF IInv, Wired, Wirable
<1>9. Owned'
  <2>1. ASSUME NEW r \in Routes, NEW k \in 1 .. Len(chan'[r])
        PROVE  chan'[r][k].gen \in opened /\ chan'[r][k].gen[1] = r
    <3>1. CASE r # q
      BY <1>5, <2>1, <3>1 DEF IInv, Owned
    <3>2. CASE r = q
      <4>1. k \in 1 .. Len(c) - 1
        BY <1>2, <1>5, <2>1, <3>2
      <4>2. k + 1 \in 1 .. Len(c) /\ Tail(c)[k] = c[k + 1]
        BY <1>2, <4>1
      <4>3. c[k + 1].gen \in opened /\ c[k + 1].gen[1] = q
        BY <4>2 DEF IInv, Owned, c
      <4>4. chan'[r] = Tail(c)
        BY <1>5, <3>2
      <4>5. chan'[r][k] = c[k + 1]
        BY ONLY <4>2, <4>4
      <4> QED BY ONLY <3>2, <4>3, <4>5
    <3> QED BY <3>1, <3>2
  <2> QED BY <2>1 DEF IInv, Owned, Message
<1>10. ASSUME NEW i \in OutputsOf(q)
       PROVE  /\ Got(q, i) = out[q][i] /\ Got(q, i)' = out[q][i] \o <<x>>
              /\ out[q][i] \in Seq(Messages)
  <2>1. i \in 1 .. Len(Output[q]) /\ 1 <= i
    BY Indices
  <2>2. out[q][i] \in Seq(Messages) /\ out[q][i] \o << >> = out[q][i]
    <3>1. out[q][i] \in Seq(Messages)
      BY GetsTyped DEF IInv
    <3> QED BY <3>1
  <2>3. Due(q, i) = << >>
    BY <1>5 DEF Due
  <2>4. Due(q, i)' = <<x>>
    BY <1>5, <1>6, <2>1 DEF Due
  <2> QED BY <2>2, <2>3, <2>4 DEF Got
<1>11. InTurn(q)' /\ Alike(q)'
  <2>1. InTurn(q) /\ Alike(q)
    BY DEF IInv, Flows
  <2>2. Alike(q)'
    BY <1>10, <2>1 DEF Alike
  <2>3. ASSUME NEW i \in OutputsOf(q)
        PROVE  /\ Numbered(Gets(q, i)')
               /\ \A d \in Gens : d[1] = q =>
                    Count(Gets(q, i)', d) + Len(held[d]) = made[d]
    <3> DEFINE s == out[q][i]
    <3> DEFINE u == (s \o <<x>>) \o Tail(c)
    <3>1. s \in Seq(Messages)
      BY <1>10
    <3>2. Gets(q, i) = s \o c /\ Gets(q, i)' = u
      BY <1>5, <1>10 DEF Gets, c
    <3>3. /\ Numbered(s \o c)
          /\ \A d \in Gens : d[1] = q => Count(s \o c, d) + Len(held[d]) = made[d]
      BY <2>1, <3>2 DEF InTurn
    <3> HIDE DEF s
    <3>4. u \in Seq(Messages) /\ SameKeys(s \o c, u) /\ s \o c \in Seq(Messages)
      BY <1>1, <1>4, <3>1, HeadMarked
    <3> HIDE DEF u
    <3>5. Numbered(u) /\ \A d : Count(s \o c, d) = Count(u, d)
      BY <3>3, <3>4, SameKeysCount
    <3> QED BY <3>2, <3>3, <3>5
  <2>4. InTurn(q)'
    BY <2>3 DEF InTurn, Numbered, Count
  <2> QED BY <2>2, <2>4
<1>12. Flows'
  <2>1. ASSUME NEW r \in Routes, r # q PROVE InTurn(r)' /\ Alike(r)'
    BY <1>5, <2>1, RouteKeeps DEF IInv, Flows
  <2> QED BY <1>11, <2>1 DEF Flows
<1> QED BY <1>7, <1>8, <1>9, <1>12 DEF IInv

\* The next receiver is given the message.
LEMMA DeliverKeeps ==
  ASSUME IInv, NEW q \in Routes, Deliver(q) PROVE IInv'
<1> USE DEF Deliver, AfterReceive, wireVars, genVars
<1> DEFINE k == next[q]
<1> DEFINE x == now[q][1]
<1>1. k \in OutputsOf(q) /\ k \in Nat /\ k + 1 \in 1 .. Len(Output[q]) + 1
      /\ OutputsOf(q) = 1 .. Len(Output[q])
  <2>1. k \in 1 .. Len(Output[q]) + 1 /\ k <= Len(Output[q]) /\ Len(Output[q]) \in Nat
        /\ OutputsOf(q) = 1 .. Len(Output[q])
    BY Indices DEF IInv, TypeOK
  <2> HIDE DEF k
  <2> QED BY <2>1
<1>2. now[q] = <<x>> /\ x \in Messages
  <2>1. now[q] \in Seq(Messages) /\ Len(now[q]) <= 1 /\ now[q] # << >>
    BY DEF IInv, TypeOK
  <2> DEFINE s == now[q]
  <2> HIDE DEF s
  <2>2. s \in Seq(Messages) /\ Len(s) <= 1 /\ s # << >>
    BY <2>1 DEF s
  <2>3. Len(s) = 1
    <3>1. Len(s) # 0 /\ Len(s) \in Nat
      BY <2>2, EmptySeq
    <3> DEFINE n == Len(s)
    <3>2. n # 0 /\ n \in Nat /\ n <= 1
      BY <2>2, <3>1
    <3> HIDE DEF n
    <3>3. n = 1
      BY ONLY <3>2
    <3> QED BY <3>3 DEF n
  <2>4. s = <<s[1]>> /\ s[1] \in Messages
    BY <2>2, <2>3
  <2> QED BY <2>4 DEF s
<1>3. next'[q] = k + 1 /\ \A r \in Routes : r # q => next'[r] = next[r]
  BY DEF IInv, TypeOK
<1>4. /\ out'[q] = [out[q] EXCEPT ![k] = Append(@, x)]
      /\ \A r \in Routes : r # q => out'[r] = out[r]
  BY DEF IInv, TypeOK
<1> HIDE DEF k, x
<1>5. out[q] \in [OutputsOf(q) -> Seq(Messages)]
  BY DEF IInv, TypeOK
<1>6. /\ out'[q][k] = Append(out[q][k], x)
      /\ \A i \in OutputsOf(q) : i # k => out'[q][i] = out[q][i]
      /\ out'[q] \in [OutputsOf(q) -> Seq(Messages)]
  BY <1>1, <1>2, <1>4, <1>5
<1>7. TypeOK'
  <2>1. DOMAIN next' = Routes /\ DOMAIN out' = Routes
    BY DEF IInv, TypeOK
  <2>2. \A r \in Routes : /\ next'[r] \in 1 .. Len(Output[r]) + 1
                          /\ out'[r] \in [OutputsOf(r) -> Seq(Messages)]
    BY SMTT(30), <1>1, <1>3, <1>4, <1>6 DEF IInv, TypeOK
  <2> QED BY <2>1, <2>2 DEF IInv, TypeOK
<1>8. Wired' /\ Owned'
  BY DEF IInv, Wired, Wirable, Owned, Message
<1>9. ASSUME NEW i \in OutputsOf(q) PROVE Got(q, i)' = Got(q, i)
  <2>1. i \in Nat /\ k \in Nat
    BY <1>1
  <2>2. out[q][i] \in Seq(Messages)
    BY <1>5
  <2>3. CASE i = k
    <3>1. Due(q, i) = <<x>> /\ Due(q, i)' = << >>
      <4>1. k <= k /\ ~(k + 1 <= k)
        BY <2>1
      <4> QED BY <1>2, <1>3, <2>3, <4>1 DEF Due, k
    <3>2. Append(out[q][k], x) \o << >> = out[q][k] \o <<x>>
      BY <1>2, <2>2, <2>3
    <3> QED BY <1>6, <2>3, <3>1, <3>2 DEF Got
  <2>4. CASE i # k
    <3>1. k + 1 <= i <=> k <= i
      BY <2>1, <2>4
    <3>2. Due(q, i)' = Due(q, i)
      BY <1>3, <3>1 DEF Due, k
    <3> QED BY <1>6, <2>4, <3>2 DEF Got
  <2> QED BY <2>3, <2>4
<1>10. InTurn(q)' /\ Alike(q)'
  <2>1. \A i \in OutputsOf(q) : Gets(q, i)' = Gets(q, i)
    BY <1>9 DEF Gets
  <2>2. InTurn(q) /\ Alike(q)
    BY DEF IInv, Flows
  <2>3. InTurn(q)'
    BY <2>1, <2>2 DEF InTurn, Numbered, Count
  <2>4. Alike(q)'
    BY <1>9, <2>2 DEF Alike
  <2> QED BY <2>3, <2>4
<1>11. Flows'
  <2>1. ASSUME NEW r \in Routes, r # q PROVE InTurn(r)' /\ Alike(r)'
    BY <1>3, <1>4, <2>1, RouteKeeps DEF IInv, Flows
  <2> QED BY <1>10, <2>1 DEF Flows
<1> QED BY <1>7, <1>8, <1>11 DEF IInv

\* The round ends: nothing is due.
LEMMA DeliveredKeeps ==
  ASSUME IInv, NEW q \in Routes, Delivered(q) PROVE IInv'
<1> USE DEF Delivered, wireVars, genVars
<1>1. now'[q] = << >> /\ \A r \in Routes : r # q => now'[r] = now[r]
  BY DEF IInv, TypeOK
<1>2. TypeOK'
  <2>1. << >> \in Seq(Messages) /\ Len(<< >>) <= 1
    OBVIOUS
  <2>2. now' \in [Routes -> Seq(Messages)]
    BY <2>1 DEF IInv, TypeOK
  <2>3. \A r \in Routes : Len(now'[r]) <= 1
    BY <1>1, <2>1 DEF IInv, TypeOK
  <2> QED BY <2>2, <2>3 DEF IInv, TypeOK
<1>3. Wired' /\ Owned'
  BY DEF IInv, Wired, Wirable, Owned, Message
<1>4. ASSUME NEW i \in OutputsOf(q) PROVE Got(q, i)' = Got(q, i) /\ Gets(q, i)' = Gets(q, i)
  <2>1. ~(next[q] <= i)
    <3>1. /\ i \in 1 .. Len(Output[q]) /\ next[q] \in 1 .. Len(Output[q]) + 1
          /\ Len(Output[q]) \in Nat /\ next[q] > Len(Output[q])
      BY Indices DEF IInv, TypeOK
    <3> QED BY <3>1
  <2>2. Due(q, i)' = Due(q, i)
    BY <1>1, <2>1 DEF Due
  <2> QED BY <2>2 DEF Got, Gets
<1>5. InTurn(q)' /\ Alike(q)'
  <2>1. InTurn(q) /\ Alike(q)
    BY DEF IInv, Flows
  <2>2. \A i \in OutputsOf(q) : Gets(q, i)' = Gets(q, i)
    BY <1>4
  <2>3. InTurn(q)'
    BY SMTT(30), <2>1, <2>2 DEF InTurn, Numbered, Count
  <2>4. Alike(q)'
    BY <1>4, <2>1 DEF Alike
  <2> QED BY <2>3, <2>4
<1>6. Flows'
  <2>1. ASSUME NEW r \in Routes, r # q PROVE InTurn(r)' /\ Alike(r)'
    BY <1>1, <2>1, RouteKeeps DEF IInv, Flows
  <2> QED BY <1>5, <2>1 DEF Flows
<1> QED BY <1>2, <1>3, <1>6 DEF IInv

-----------------------------------------------------------------------------
(* The theorem                                                             *)

\* The invariant holds before Open.
LEMMA InitHolds == Init => IInv
<1> SUFFICES ASSUME Init PROVE IInv
  OBVIOUS
<1> USE DEF Init
<1>1. << >> \in Seq(Messages) /\ Len(<< >>) = 0
  OBVIOUS
<1>2. TypeOK
  <2>1. made \in [Gens -> 0 .. MaxMsgs]
    <3>1. 0 \in 0 .. MaxMsgs
      BY RouterAssumption
    <3> QED BY <3>1
  <2>2. ASSUME NEW r \in Routes
        PROVE  /\ Len(chan[r]) <= 2 * Len(Input[r]) /\ Len(now[r]) <= 1
               /\ next[r] \in 1 .. Len(Output[r]) + 1
               /\ out[r] \in [OutputsOf(r) -> Seq(Messages)]
    <3>1. Len(Input[r]) \in Nat /\ Len(Output[r]) \in Nat
      BY Indices
    <3>2. 0 <= 2 * Len(Input[r]) /\ 1 \in 1 .. Len(Output[r]) + 1
      BY <3>1
    <3> QED BY <1>1, <3>2
  <2> QED BY <1>1, <2>1, <2>2 DEF TypeOK
<1>3. Wired /\ Owned
  BY <1>1 DEF Wired, Owned
<1>4. ASSUME NEW r \in Routes, NEW i \in OutputsOf(r)
      PROVE  Got(r, i) = << >> /\ Gets(r, i) = << >>
  BY DEF Got, Gets, Due
<1>5. Numbered(<< >>) /\ \A g : Count(<< >>, g) = 0
  <2>1. \A g : {j \in 1 .. Len(<< >>) : << >>[j].gen = g} = {}
    BY <1>1
  <2>2. Cardinality({}) = 0
    BY FS_EmptySet
  <2>3. Numbered(<< >>)
    BY <1>1 DEF Numbered
  <2> QED BY <2>1, <2>2, <2>3 DEF Count
<1>6. Flows
  <2>1. \A g \in Gens : Len(held[g]) = 0 /\ made[g] = 0
    BY <1>1
  <2>2. 0 + 0 = 0
    OBVIOUS
  <2> QED BY <1>4, <1>5, <2>1, <2>2 DEF Flows, InTurn, Alike
<1> QED BY <1>2, <1>3, <1>6 DEF IInv

\* Nothing happens.
LEMMA StutterKeeps == ASSUME IInv, UNCHANGED vars PROVE IInv'
<1> USE DEF vars, wireVars, genVars, flowVars
<1>1. Owned' /\ Flows'
  BY FlowsKeep
<1>2. TypeOK'
  BY DEF IInv, TypeOK
<1>3. Wired'
  BY DEF IInv, Wired, Wirable
<1> QED BY <1>1, <1>2, <1>3 DEF IInv

\* Every step keeps the invariant.
LEMMA StepKeeps == ASSUME IInv, [Next]_vars PROVE IInv'
<1>1. CASE UNCHANGED vars
  BY <1>1, StutterKeeps
<1>2. ASSUME NEW r \in Routes,
             WireRoute(r) \/ WireFails(r) \/ Take(r) \/ Deliver(r) \/ Delivered(r)
      PROVE  IInv'
  BY <1>2, WireRouteKeeps, WireFailsKeeps, TakeKeeps, DeliverKeeps, DeliveredKeeps
<1>3. ASSUME NEW g \in Gens, Generate(g) \/ GenerateFails(g) \/ Put(g) PROVE IInv'
  BY <1>3, GenerateKeeps, GenerateFailsKeeps, PutKeeps
<1>4. CASE StartFlows \/ Close
  BY <1>4, StartKeeps
<1> QED BY <1>1, <1>2, <1>3, <1>4 DEF Next

\* The invariant implies the property.
LEMMA Enough == IInv => Distribution
<1> SUFFICES ASSUME IInv PROVE Distribution
  OBVIOUS
<1>1. InOrder
  <2>1. ASSUME NEW r \in Routes, NEW i \in OutputsOf(r)
        PROVE  LET s == out[r][i]
               IN  \A k \in DOMAIN s :
                     s[k].n = Cardinality({j \in 1 .. k : s[j].gen = s[k].gen})
    <3> DEFINE s == out[r][i]
    <3>1. /\ s \in Seq(Messages) /\ Due(r, i) \in Seq(Messages)
          /\ chan[r] \in Seq(Messages) /\ s \o Due(r, i) \in Seq(Messages)
      BY GetsTyped DEF IInv, Got
    <3>2. Numbered((s \o Due(r, i)) \o chan[r])
      BY DEF IInv, Flows, InTurn, Gets, Got
    <3>3. Numbered(s \o Due(r, i))
      BY ONLY <3>1, <3>2, NumberedPrefix
    <3>4. Numbered(s)
      BY ONLY <3>1, <3>3, NumberedPrefix
    <3>5. DOMAIN s = 1 .. Len(s)
      BY <3>1
    <3> QED BY <3>4, <3>5 DEF Numbered
  <2> QED BY <2>1 DEF InOrder
<1>2. SameForAll
  <2>1. ASSUME NEW r \in Routes, now[r] = << >>, NEW i \in OutputsOf(r)
        PROVE  Got(r, i) = out[r][i]
    <3>1. out[r][i] \in Seq(Messages)
      BY GetsTyped DEF IInv
    <3>2. out[r][i] \o << >> = out[r][i]
      BY <3>1
    <3> QED BY <2>1, <3>2 DEF Got, Due
  <2> QED BY <2>1 DEF IInv, Flows, Alike, SameForAll
<1> QED BY <1>1, <1>2 DEF IInv, Distribution

\* Every receiver of a route gets each generator's messages in the order they
\* were generated, none twice and none left out, and all receivers of a route
\* get the same, whatever the filters and receivers return and whenever
\* generators fail or are closed (Flow, Close).
THEOREM RouterDistribution == Spec => []Distribution
<1>1. Init => IInv
  BY InitHolds
<1>2. IInv /\ [Next]_vars => IInv'
  BY StepKeeps
<1>3. IInv => Distribution
  BY Enough
<1> QED BY <1>1, <1>2, <1>3, PTL DEF Spec
=============================================================================
