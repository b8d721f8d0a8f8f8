------------------------------- MODULE Lemmas -------------------------------
(***************************************************************************)
(* What several of the proof modules need: the least element of a set of   *)
(* natural numbers, sequences of consecutive numbers, numbers modulo a     *)
(* width, and sizes of sets of pairs.                                      *)
(***************************************************************************)
EXTENDS Integers, Sequences, FiniteSets, SequenceTheorems, FiniteSetTheorems,
        WellFoundedInduction, TLAPS

\* Every set of natural numbers that is not empty has a least element.
LEMMA LeastNatural ==
  ASSUME NEW T \in SUBSET Nat, T # {}
  PROVE  \E x \in T : \A y \in T : x <= y
<1> DEFINE Less == {ss \in Nat \X Nat : ss[1] < ss[2]}
<1>1. IsWellFoundedOn(Less, Nat)
  BY NatLessThanWellFounded DEF OpToRel
<1> HIDE DEF Less
<1>2. \E x \in T : \A y \in T : <<y, x>> \notin Less
  BY <1>1, WFMin
<1>3. ASSUME NEW x \in T, NEW y \in T, <<y, x>> \notin Less PROVE x <= y
  BY <1>3 DEF Less
<1> QED BY <1>2, <1>3

\* 1 .. n has n elements.
LEMMA CardinalityInterval ==
  ASSUME NEW n \in Nat
  PROVE  IsFiniteSet(1 .. n) /\ Cardinality(1 .. n) = n
BY FS_Interval

\* s is a + 1, a + 2, ...
Run(s, a) == \A i \in 1 .. Len(s) : s[i] = a + i

\* A run and the run that goes on where it ends.
LEMMA RunConcat ==
  ASSUME NEW S, NEW s \in Seq(S), NEW t \in Seq(S), NEW a \in Int,
         Run(s, a), Run(t, a + Len(s))
  PROVE  /\ s \o t \in Seq(S) /\ Len(s \o t) = Len(s) + Len(t)
         /\ Run(s \o t, a)
BY DEF Run

\* The head and the tail of a run.
LEMMA RunTail ==
  ASSUME NEW S, NEW s \in Seq(S), NEW a \in Int, Run(s, a), s # << >>
  PROVE  /\ Tail(s) \in Seq(S) /\ Len(Tail(s)) = Len(s) - 1
         /\ Head(s) \in S /\ Head(s) = a + 1 /\ Run(Tail(s), a + 1)
BY DEF Run

\* A run and the number after it.
LEMMA RunAppend ==
  ASSUME NEW S, NEW s \in Seq(S), NEW a \in Int, Run(s, a), NEW m \in S,
         m = a + Len(s) + 1
  PROVE  /\ Append(s, m) \in Seq(S) /\ Len(Append(s, m)) = Len(s) + 1
         /\ Run(Append(s, m), a)
BY DEF Run

\* The empty run.
LEMMA RunEmpty ==
  ASSUME NEW S, NEW a \in Int
  PROVE  << >> \in Seq(S) /\ Len(<< >>) = 0 /\ Run(<< >>, a)
BY DEF Run

\* A run is given by its start and its length.
LEMMA RunEqual ==
  ASSUME NEW S, NEW s \in Seq(S), NEW a \in Int, Run(s, a)
  PROVE  s = [i \in 1 .. Len(s) |-> a + i]
BY DEF Run

\* s[1], ..., s[n] are a + 1, ..., a + n in some order.
Permutes(s, n, a) ==
  /\ \A i \in 1 .. n : s[i] \in a + 1 .. a + n
  /\ \A i, j \in 1 .. n : s[i] = s[j] => i = j
  /\ \A v \in a + 1 .. a + n : \E i \in 1 .. n : s[i] = v

\* s[1], ..., s[n] are in order.
Ascending(s, n) == \A i, j \in 1 .. n : i < j => s[i] <= s[j]

\* A permutation of a + 1, ..., a + n in increasing order is that run.
LEMMA SortedIsRun ==
  ASSUME NEW n \in Nat, NEW a \in Int, NEW u, Permutes(u, n, a), Ascending(u, n)
  PROVE  \A i \in 1 .. n : u[i] = a + i
<1> USE DEF Permutes, Ascending
<1> DEFINE Wrong == {i \in 1 .. n : u[i] # a + i}
<1> SUFFICES ASSUME Wrong # {} PROVE FALSE
  OBVIOUS
<1>1. PICK k \in Wrong : \A j \in Wrong : k <= j
  <2>1. Wrong \in SUBSET Nat
    OBVIOUS
  <2> QED
    BY <2>1, LeastNatural
<1>2. \A j \in 1 .. k - 1 : u[j] = a + j
  BY <1>1
<1>3. u[k] \in Int /\ u[k] > a + k
  <2>1. u[k] \in a + 1 .. a + n /\ u[k] # a + k
    BY <1>1
  <2>2. ASSUME u[k] < a + k PROVE FALSE
    <3>1. u[k] - a \in 1 .. k - 1
      BY <1>1, <2>1, <2>2
    <3>2. u[u[k] - a] = u[k]
      BY <1>2, <2>1, <3>1
    <3>3. u[k] - a \in 1 .. n /\ u[k] - a # k
      BY <1>1, <3>1
    <3> QED
      BY <1>1, <3>2, <3>3
  <2> QED
    BY SMTT(30), <1>1, <2>1, <2>2
<1>4. PICK m \in 1 .. n : u[m] = a + k
  BY <1>1
<1>5. m > k
  BY <1>1, <1>2, <1>4
<1> QED
  BY <1>1, <1>3, <1>4, <1>5


\* A run cut in two, the second part in front: of k numbers, and then of l.
Rotated(s, k, l, a) ==
  \A i \in 1 .. k + l : s[i] = IF i <= k THEN a + l + i ELSE a + i - k

\* It is a permutation of the run.
LEMMA RotatedRun ==
  ASSUME NEW k \in Nat, NEW l \in Nat, NEW a \in Int, NEW s, Rotated(s, k, l, a)
  PROVE  Permutes(s, k + l, a)
<1> DEFINE n == k + l
<1> USE DEF Permutes, Rotated
<1>1. /\ n \in Nat
      /\ \A i \in 1 .. n : s[i] \in a + 1 .. a + n
      /\ \A i, j \in 1 .. n : s[i] = s[j] => i = j
  OBVIOUS
<1>2. ASSUME NEW v \in a + 1 .. a + n
      PROVE  \E i \in 1 .. n : s[i] = v
  <2>1. CASE v - a <= l
    <3>1. v - a + k \in 1 .. n /\ s[v - a + k] = v
      BY <2>1
    <3> QED BY <3>1
  <2>2. CASE ~(v - a <= l)
    <3>1. v - a - l \in 1 .. n /\ s[v - a - l] = v
      BY <2>2
    <3> QED BY <3>1
  <2> QED BY <2>1, <2>2
<1> QED BY <1>1, <1>2

-----------------------------------------------------------------------------
(* Sequences without repetition                                            *)

\* What a sequence holds, by its positions.
LEMMA RangeOf ==
  ASSUME NEW S, NEW s \in Seq(S)
  PROVE  /\ Range(s) = {s[i] : i \in 1 .. Len(s)}
         /\ Range(s) \subseteq S
BY DEF Range

\* A new element at the end.
LEMMA DistinctAppend ==
  ASSUME NEW S, NEW s \in Seq(S), NEW m \in S
  PROVE  /\ Append(s, m) \in Seq(S) /\ Len(Append(s, m)) = Len(s) + 1
         /\ Range(Append(s, m)) = Range(s) \cup {m}
         /\ IsInjective(s) /\ m \notin Range(s) => IsInjective(Append(s, m))
<1>1. /\ Append(s, m) \in Seq(S) /\ Len(Append(s, m)) = Len(s) + 1
      /\ \A i \in 1 .. Len(s) : Append(s, m)[i] = s[i]
      /\ Append(s, m)[Len(s) + 1] = m
  OBVIOUS
<1> DEFINE t == Append(s, m)
<1> HIDE DEF t
<1>2. Range(t) = Range(s) \cup {m}
  <2>1. \A i \in 1 .. Len(t) : i \in 1 .. Len(s) \/ i = Len(s) + 1
    BY <1>1 DEF t
  <2>2. \A i \in 1 .. Len(s) : i \in 1 .. Len(t)
    BY <1>1 DEF t
  <2>3. Len(s) + 1 \in 1 .. Len(t)
    BY <1>1 DEF t
  <2>4. /\ t \in Seq(S) /\ t[Len(s) + 1] = m
        /\ \A i \in 1 .. Len(s) : t[i] = s[i]
    BY <1>1 DEF t
  <2>5. Range(t) = {t[i] : i \in 1 .. Len(t)}
    BY <2>4, RangeOf
  <2>6. Range(s) = {s[i] : i \in 1 .. Len(s)}
    BY RangeOf
  <2> QED
    BY <2>1, <2>2, <2>3, <2>4, <2>5, <2>6
<1>3. ASSUME IsInjective(s), m \notin Range(s) PROVE IsInjective(t)
  <2>1. t \in Seq(S)
    BY <1>1 DEF t
  <2> SUFFICES ASSUME NEW i \in 1 .. Len(t), NEW j \in 1 .. Len(t), t[i] = t[j]
               PROVE  i = j
    BY <2>1 DEF IsInjective
  <2>2. \A k \in 1 .. Len(t) : k \in 1 .. Len(s) \/ k = Len(s) + 1
    BY <1>1 DEF t
  <2>3. \A k \in 1 .. Len(s) : t[k] = s[k] /\ s[k] # m
    BY <1>1, <1>3, RangeOf DEF t
  <2>4. t[Len(s) + 1] = m
    BY <1>1 DEF t
  <2>5. \A a, b \in 1 .. Len(s) : s[a] = s[b] => a = b
    BY <1>3 DEF IsInjective
  <2> QED
    BY <2>2, <2>3, <2>4, <2>5
<1> QED
  BY <1>1, <1>2, <1>3 DEF t

\* Without its head.
LEMMA DistinctTail ==
  ASSUME NEW S, NEW s \in Seq(S), IsInjective(s), s # << >>
  PROVE  /\ Tail(s) \in Seq(S) /\ Len(Tail(s)) = Len(s) - 1
         /\ Head(s) \in Range(s)
         /\ Range(Tail(s)) = Range(s) \ {Head(s)}
         /\ IsInjective(Tail(s))
<1> DEFINE t == Tail(s)
<1>1. /\ t \in Seq(S) /\ Len(t) = Len(s) - 1 /\ Len(s) \in Nat /\ Len(s) > 0
      /\ \A i \in 1 .. Len(t) : t[i] = s[i + 1]
      /\ Head(s) = s[1]
  OBVIOUS
<1> HIDE DEF t
<1>2. \A a, b \in 1 .. Len(s) : s[a] = s[b] => a = b
  BY DEF IsInjective
<1>3. IsInjective(t)
  <2> SUFFICES ASSUME NEW i \in 1 .. Len(t), NEW j \in 1 .. Len(t), t[i] = t[j]
               PROVE  i = j
    BY <1>1 DEF IsInjective
  <2>1. i + 1 \in 1 .. Len(s) /\ j + 1 \in 1 .. Len(s)
    BY <1>1
  <2>2. i + 1 = j + 1
    BY <1>1, <1>2, <2>1
  <2> QED
    BY <2>2
<1>4. Head(s) \in Range(s)
  BY <1>1, RangeOf
<1>5. Range(t) = Range(s) \ {Head(s)}
  <2>1. ASSUME NEW x \in Range(t) PROVE x \in Range(s) \ {Head(s)}
    <3>1. PICK i \in 1 .. Len(t) : x = s[i + 1]
      BY <1>1, RangeOf
    <3>2. i + 1 \in 1 .. Len(s) /\ i + 1 # 1 /\ 1 \in 1 .. Len(s)
      BY <1>1
    <3> QED
      BY <1>1, <1>2, <3>1, <3>2, RangeOf
  <2>2. ASSUME NEW x \in Range(s), x # Head(s) PROVE x \in Range(t)
    <3>1. PICK i \in 1 .. Len(s) : x = s[i]
      BY RangeOf
    <3>2. i - 1 \in 1 .. Len(t) /\ (i - 1) + 1 = i
      BY <1>1, <2>2, <3>1
    <3>3. t[i - 1] = x
      BY <1>1, <3>1, <3>2
    <3> QED
      BY <1>1, <3>2, <3>3, RangeOf
  <2> QED
    BY <2>1, <2>2
<1> QED
  BY <1>1, <1>3, <1>4, <1>5 DEF t

\* One behind the other.
LEMMA DistinctConcat ==
  ASSUME NEW S, NEW s \in Seq(S), NEW t \in Seq(S)
  PROVE  /\ s \o t \in Seq(S) /\ Len(s \o t) = Len(s) + Len(t)
         /\ Range(s \o t) = Range(s) \cup Range(t)
         /\ IsInjective(s) /\ IsInjective(t) /\ Range(s) \cap Range(t) = {}
              => IsInjective(s \o t)
<1> DEFINE u == s \o t
<1>1. /\ u \in Seq(S) /\ Len(u) = Len(s) + Len(t)
      /\ Len(s) \in Nat /\ Len(t) \in Nat
      /\ \A i \in 1 .. Len(s) : u[i] = s[i]
      /\ \A i \in 1 .. Len(t) : u[Len(s) + i] = t[i]
  BY ConcatProperties
<1> HIDE DEF u
<1>2. ASSUME NEW i \in 1 .. Len(u)
      PROVE  \/ i \in 1 .. Len(s) /\ u[i] = s[i]
             \/ i - Len(s) \in 1 .. Len(t) /\ u[i] = t[i - Len(s)]
  <2>1. CASE i <= Len(s)
    BY <1>1, <2>1
  <2>2. CASE i > Len(s)
    <3>1. i - Len(s) \in 1 .. Len(t) /\ Len(s) + (i - Len(s)) = i
      BY <1>1, <2>2
    <3> QED
      BY <1>1, <3>1
  <2> QED
    BY <1>1, <2>1, <2>2
<1>3. Range(u) = Range(s) \cup Range(t)
  <2>1. ASSUME NEW x \in Range(u) PROVE x \in Range(s) \cup Range(t)
    BY <1>1, <1>2, RangeOf
  <2>2. ASSUME NEW x \in Range(s) PROVE x \in Range(u)
    <3>1. PICK i \in 1 .. Len(s) : x = s[i]
      BY RangeOf
    <3>2. i \in 1 .. Len(u) /\ u[i] = x
      BY <1>1, <3>1
    <3> QED
      BY <1>1, <3>2, RangeOf
  <2>3. ASSUME NEW x \in Range(t) PROVE x \in Range(u)
    <3>1. PICK i \in 1 .. Len(t) : x = t[i]
      BY RangeOf
    <3>2. Len(s) + i \in 1 .. Len(u) /\ u[Len(s) + i] = x
      BY <1>1, <3>1
    <3>3. \E k \in 1 .. Len(u) : u[k] = x
      BY <3>2
    <3> QED
      BY <1>1, <3>3, RangeOf
  <2> QED
    BY <2>1, <2>2, <2>3
<1>4. ASSUME IsInjective(s), IsInjective(t), Range(s) \cap Range(t) = {}
      PROVE  IsInjective(u)
  <2> SUFFICES ASSUME NEW i \in 1 .. Len(u), NEW j \in 1 .. Len(u), u[i] = u[j]
               PROVE  i = j
    BY <1>1 DEF IsInjective
  <2>1. /\ \A a, b \in 1 .. Len(s) : s[a] = s[b] => a = b
        /\ \A a, b \in 1 .. Len(t) : t[a] = t[b] => a = b
    BY <1>4 DEF IsInjective
  <2>0. \A a \in 1 .. Len(s), b \in 1 .. Len(t) : s[a] # t[b]
    <3>1. \A a \in 1 .. Len(s) : s[a] \in Range(s)
      BY RangeOf
    <3>2. \A b \in 1 .. Len(t) : t[b] \in Range(t)
      BY RangeOf
    <3> QED
      BY <1>4, <3>1, <3>2
  <2>2. i \in Int /\ j \in Int
    OBVIOUS
  <2>3. CASE i - Len(s) \in 1 .. Len(t) /\ j - Len(s) \in 1 .. Len(t)
    <3>0. i \notin 1 .. Len(s) /\ j \notin 1 .. Len(s)
      BY <1>1, <2>2, <2>3
    <3>1. i - Len(s) = j - Len(s)
      BY <1>2, <2>1, <2>3, <3>0
    <3> QED
      BY <1>1, <2>2, <3>1
  <2> QED
    BY <1>2, <2>0, <2>1, <2>3
<1> QED
  BY <1>1, <1>3, <1>4 DEF u

\* A full buffer takes m at its front and loses its last element.
LEMMA DistinctPush ==
  ASSUME NEW S, NEW s \in Seq(S), IsInjective(s), s # << >>,
         NEW m \in S, m \notin Range(s), NEW k, k = Len(s)
  PROVE  LET t == <<m>> \o SubSeq(s, 1, k - 1)
         IN  /\ t \in Seq(S) /\ Len(t) = k /\ IsInjective(t)
             /\ s[k] \in Range(s)
             /\ Range(t) = {m} \cup (Range(s) \ {s[k]})
<1> DEFINE f == SubSeq(s, 1, k - 1)
<1>1. /\ f \in Seq(S) /\ Len(f) = k - 1 /\ k \in Nat /\ k > 0
      /\ \A i \in 1 .. k - 1 : f[i] = s[i]
  BY SubSeqProperties
<1> HIDE DEF f
<1>2. /\ <<m>> \in Seq(S) /\ Len(<<m>>) = 1 /\ IsInjective(<<m>>)
  BY DEF IsInjective
<1>3. Range(<<m>>) = {m}
  BY DEF Range
<1>4. \A a, b \in 1 .. k : s[a] = s[b] => a = b
  BY DEF IsInjective
<1>5. IsInjective(f)
  BY <1>1, <1>4 DEF IsInjective
<1>6. Range(f) = Range(s) \ {s[k]} /\ s[k] \in Range(s)
  <2>1. Range(f) = {f[i] : i \in 1 .. k - 1}
    BY <1>1, RangeOf
  <2>2. Range(s) = {s[i] : i \in 1 .. k}
    BY RangeOf
  <2>3. \A i \in 1 .. k - 1 : i \in 1 .. k /\ i # k
    BY <1>1
  <2>4. \A i \in 1 .. k : i = k \/ i \in 1 .. k - 1
    BY <1>1
  <2>5. k \in 1 .. k
    BY <1>1
  <2>6. \A x \in Range(f) : x \in Range(s) /\ x # s[k]
    <3> SUFFICES ASSUME NEW x \in Range(f) PROVE x \in Range(s) /\ x # s[k]
      OBVIOUS
    <3>1. PICK i \in 1 .. k - 1 : x = f[i]
      BY <2>1
    <3>2. i \in 1 .. k /\ i # k /\ x = s[i]
      BY <1>1, <2>3, <3>1
    <3> QED
      BY <1>4, <2>2, <2>5, <3>2
  <2>7. \A x \in Range(s) : x # s[k] => x \in Range(f)
    BY <1>1, <2>1, <2>2, <2>4
  <2>8. s[k] \in Range(s)
    BY <2>2, <2>5
  <2> QED
    BY <2>6, <2>7, <2>8
<1>7. Range(<<m>>) \cap Range(f) = {}
  BY <1>3, <1>6
<1> DEFINE o == <<m>>
           t == o \o f
<1> HIDE DEF o
<1>8. /\ t \in Seq(S) /\ Len(t) = Len(o) + Len(f)
      /\ Range(t) = Range(o) \cup Range(f) /\ IsInjective(t)
  <2>1. o \in Seq(S) /\ IsInjective(o) /\ Range(o) \cap Range(f) = {}
    BY <1>2, <1>7 DEF o
  <2> QED
    <3>1. f \in Seq(S)
      BY <1>1
    <3>2. o \in Seq(S)
      BY <2>1
    <3>3. /\ o \o f \in Seq(S) /\ Len(o \o f) = Len(o) + Len(f)
          /\ Range(o \o f) = Range(o) \cup Range(f)
          /\ IsInjective(o) /\ IsInjective(f) /\ Range(o) \cap Range(f) = {}
               => IsInjective(o \o f)
      BY ONLY <3>1, <3>2, DistinctConcat
    <3> QED
      BY <1>5, <2>1, <3>3
<1> HIDE DEF t
<1>9. Len(t) = k
  BY <1>1, <1>2, <1>8 DEF o
<1> QED
  BY <1>3, <1>6, <1>8, <1>9 DEF f, o, t

\* What a run holds.
LEMMA RunDistinct ==
  ASSUME NEW S, NEW s \in Seq(S), NEW a \in Int, Run(s, a)
  PROVE  IsInjective(s) /\ Range(s) = a + 1 .. a + Len(s)
<1>1. \A i \in 1 .. Len(s) : s[i] = a + i
  BY DEF Run
<1>2. IsInjective(s)
  BY <1>1 DEF IsInjective
<1>3. Range(s) = {s[i] : i \in 1 .. Len(s)}
  BY RangeOf
<1>4. \A x \in a + 1 .. a + Len(s) : x - a \in 1 .. Len(s) /\ a + (x - a) = x
  OBVIOUS
<1>5. \A x \in a + 1 .. a + Len(s) : s[x - a] = x
  BY <1>1, <1>4
<1>6. \A i \in 1 .. Len(s) : a + i \in a + 1 .. a + Len(s)
  OBVIOUS
<1> QED
  BY <1>1, <1>2, <1>3, <1>4, <1>5, <1>6

-----------------------------------------------------------------------------
(* Numbers modulo a width, and sizes of sets of pairs                      *)

\* a and b are the same modulo w.
Congruent(a, b, w) == \E k \in Int : a - b = k * w

\* A remainder, its quotient and its range.
LEMMA Remainder ==
  ASSUME NEW a \in Int, NEW w \in Nat, w > 0
  PROVE  /\ a % w \in 0 .. w - 1 /\ Congruent(a % w, a, w)
         /\ \E k \in Int : a = k * w + (a % w)
<1>1. a % w \in 0 .. w - 1
  BY Z3
<1>2. a = (a \div w) * w + (a % w) /\ a \div w \in Int
  BY Z3
<1> DEFINE q == a \div w
<1>3. (a % w) - a = (-q) * w /\ -q \in Int
  <2> HIDE DEF q
  <2>1. q \in Int /\ a = q * w + (a % w) /\ a % w \in Int
    BY <1>1, <1>2 DEF q
  <2> DEFINE r == a % w
  <2> HIDE DEF r
  <2>2. r \in Int /\ a = q * w + r
    BY <2>1 DEF r
  <2>3. r - a = (-q) * w
    BY <2>1, <2>2
  <2> QED BY <2>1, <2>3 DEF r
<1> QED BY <1>1, <1>2, <1>3 DEF Congruent

\* Congruence is reflexive.
LEMMA CongruentReflexive ==
  ASSUME NEW a \in Int, NEW w \in Int
  PROVE  Congruent(a, a, w)
<1>1. a - a = 0 * w
  OBVIOUS
<1> QED BY <1>1 DEF Congruent

\* It is symmetric.
LEMMA CongruentSymmetric ==
  ASSUME NEW a \in Int, NEW b \in Int, NEW w \in Int, Congruent(a, b, w)
  PROVE  Congruent(b, a, w)
<1>1. PICK k \in Int : a - b = k * w
  BY DEF Congruent
<1>2. b - a = (-k) * w /\ -k \in Int
  BY <1>1
<1> QED BY <1>2 DEF Congruent

\* It goes with sums.
LEMMA CongruentSum ==
  ASSUME NEW a \in Int, NEW b \in Int, NEW c \in Int, NEW d \in Int,
         NEW w \in Int, Congruent(a, b, w), Congruent(c, d, w)
  PROVE  Congruent(a + c, b + d, w)
<1>1. PICK k \in Int : a - b = k * w
  BY DEF Congruent
<1>2. PICK l \in Int : c - d = l * w
  BY DEF Congruent
<1>3. (a + c) - (b + d) = (k + l) * w /\ k + l \in Int
  BY <1>1, <1>2
<1> QED BY <1>3 DEF Congruent

\* It is transitive.
LEMMA CongruentTransitive ==
  ASSUME NEW a \in Int, NEW b \in Int, NEW c \in Int,
         NEW w \in Int, Congruent(a, b, w), Congruent(b, c, w)
  PROVE  Congruent(a, c, w)
<1>1. PICK k \in Int : a - b = k * w
  BY DEF Congruent
<1>2. PICK l \in Int : b - c = l * w
  BY DEF Congruent
<1>3. a - c = (k + l) * w /\ k + l \in Int
  BY <1>1, <1>2
<1> QED BY <1>3 DEF Congruent

\* Congruent numbers have the same remainder, and the other way round.
LEMMA SameRemainder ==
  ASSUME NEW a \in Int, NEW b \in Int, NEW w \in Nat, w > 0
  PROVE  a % w = b % w <=> Congruent(a, b, w)
<1> DEFINE r == a % w
<1> DEFINE s == b % w
<1>1. PICK k \in Int : a = k * w + r
  BY Remainder
<1>2. PICK l \in Int : b = l * w + s
  BY Remainder
<1>3. r \in 0 .. w - 1 /\ s \in 0 .. w - 1
  BY Remainder
<1> HIDE DEF r, s
<1>4. ASSUME r = s PROVE Congruent(a, b, w)
  <2>1. a - b = (k - l) * w /\ k - l \in Int
    BY <1>1, <1>2, <1>3, <1>4
  <2> QED BY <2>1 DEF Congruent
<1>5. ASSUME Congruent(a, b, w) PROVE r = s
  <2>1. PICK m \in Int : a - b = m * w
    BY <1>5 DEF Congruent
  <2> DEFINE n == m - k + l
  <2>2. n \in Int
    OBVIOUS
  <2>3. r - s = n * w
    BY <1>1, <1>2, <1>3, <2>1
  <2> HIDE DEF n
  <2>4. CASE n = 0
    BY <2>3, <2>4, <1>3
  <2>5. CASE n >= 1
    <3>1. n * w >= w
      BY <2>5, <2>2
    <3> QED BY <3>1, <2>3, <1>3, <2>2
  <2>6. CASE n <= -1
    <3>1. n * w <= -w
      BY <2>6, <2>2
    <3> QED BY <3>1, <2>3, <1>3, <2>2
  <2> QED BY <2>2, <2>4, <2>5, <2>6
<1> QED BY <1>4, <1>5 DEF r, s

\* n pairs with one first element, and a set that has none of them.
LEMMA CardinalityPairs ==
  ASSUME NEW S, IsFiniteSet(S), NEW c, NEW n \in Nat,
         \A p \in S : p \notin {c} \X (1 .. n)
  PROVE  /\ IsFiniteSet(S \cup ({c} \X (1 .. n)))
         /\ Cardinality(S \cup ({c} \X (1 .. n))) = Cardinality(S) + n
         /\ Cardinality(S) \in Nat
<1> DEFINE T == {c} \X (1 .. n)
<1>1. IsFiniteSet({c}) /\ Cardinality({c}) = 1
  BY FS_Singleton
<1>2. IsFiniteSet(1 .. n) /\ Cardinality(1 .. n) = n
  BY CardinalityInterval
<1>3. IsFiniteSet(T) /\ Cardinality(T) = Cardinality({c}) * Cardinality(1 .. n)
  BY ONLY <1>1, <1>2, FS_Product
<1>4. Cardinality(T) = n
  <2>1. Cardinality(T) = 1 * n
    BY ONLY <1>1, <1>2, <1>3
  <2> HIDE DEF T
  <2> QED BY <2>1
<1>5. S \cap T = {}
  OBVIOUS
<1> HIDE DEF T
<1>6. Cardinality(S \cap T) = 0
  BY <1>5, FS_EmptySet
<1>7. /\ IsFiniteSet(S \cup T)
      /\ Cardinality(S \cup T) = Cardinality(S) + Cardinality(T) - Cardinality(S \cap T)
  BY ONLY IsFiniteSet(S), <1>3, FS_Union
<1>8. Cardinality(S) \in Nat
  BY FS_CardinalityType
<1> DEFINE k == Cardinality(S)
<1>9. Cardinality(S \cup T) = k + n - 0 /\ k \in Nat
  BY ONLY <1>4, <1>6, <1>7, <1>8
<1> HIDE DEF k
<1>10. k + n - 0 = k + n
  BY <1>9
<1> QED BY <1>7, <1>9, <1>10 DEF T, k
=============================================================================
