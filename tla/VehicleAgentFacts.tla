-------------------------- MODULE VehicleAgentFacts --------------------------
(***************************************************************************)
(* What the operators of VehicleAgent compute, for every input: the parts  *)
(* and elements of sequences, the size of a buffer and what is kept of it, *)
(* the tick windows of a set of samples and the batches made of them.      *)
(* Where the argument is an induction it is put as the absence of a least  *)
(* counterexample.  Then the agent's inductive invariant, and that every   *)
(* step keeps its counters, flags, threads and registry in order.          *)
(***************************************************************************)
EXTENDS VehicleAgent, FiniteSetTheorems, TLAPS
\* The samples with a number up to k, and the batches made of them.
Upto(k) == {s \in Sample : s.n <= k}
Parcel(k) == [class : Classes, epoch : 0..MaxTime, samples : SUBSET Upto(k)]
Sent(k) == [batch : Parcel(k), acked : BOOLEAN]
Flying(k) == [batch : Parcel(k), live : BOOLEAN]

-----------------------------------------------------------------------------
(* Least elements, which stand in for induction.                           *)

\* A nonempty set of naturals has a least element.
LEMMA Least ==
  ASSUME NEW T, T \subseteq Nat, T # {}
  PROVE  \E x \in T : \A y \in T : x <= y
  <1>1. PICK x \in T : \A y \in T : ~ (<<y, x>> \in OpToRel(<, Nat))
    BY NatLessThanWellFounded, WFMin
  <1>2. \A y \in T : <<y, x>> \in OpToRel(<, Nat) <=> y < x
    BY DEF OpToRel
  <1>3. \A y \in T : ~(y < x)
    BY <1>1, <1>2
  <1>4. \A y \in T : x <= y
    BY <1>3
  <1> QED BY <1>4

\* Min of a nonempty set of naturals is its least element.
LEMMA MinFacts ==
  ASSUME NEW T, T \subseteq Nat, T # {}
  PROVE  Min(T) \in T /\ \A y \in T : Min(T) <= y
  BY Least DEF Min

\* Max of a nonempty bounded set of naturals is its greatest element.
LEMMA MaxFacts ==
  ASSUME NEW n \in Nat, NEW T, T \subseteq 0..n, T # {}
  PROVE  Max(T) \in T /\ \A y \in T : Max(T) >= y
  <1> DEFINE U == {n - t : t \in T}
  <1>0. U \subseteq Nat /\ U # {}
    <2>1. \A t \in T : n - t \in Nat OBVIOUS
    <2>2. PICK t \in T : TRUE OBVIOUS
    <2>3. n - t \in U BY <2>2
    <2> QED BY <2>1, <2>3
  <1>1. PICK u \in U : \A y \in U : u <= y
    BY <1>0, Least
  <1>2. PICK m \in T : u = n - m
    BY <1>1
  <1>3. \A y \in T : m >= y
    <2> TAKE y \in T
    <2>1. n - y \in U OBVIOUS
    <2>2. n - m <= n - y BY <1>1, <1>2, <2>1
    <2>3. m \in Nat /\ y \in Nat BY <1>2
    <2> QED BY <2>2, <2>3
  <1> QED BY <1>3 DEF Max

-----------------------------------------------------------------------------
(* Sequences and the sets of their elements.                               *)

\* The elements of a sequence, by their places.
LEMMA ElementFacts ==
  ASSUME NEW S, NEW q \in Seq(S)
  PROVE  /\ Len(q) \in Nat /\ DOMAIN q = 1..Len(q)
         /\ \A i \in 1..Len(q) : q[i] \in S /\ q[i] \in Range(q)
         /\ \A e \in Range(q) : e \in S /\ \E i \in 1..Len(q) : q[i] = e
         /\ q = <<>> <=> Len(q) = 0
         /\ q = <<>> => Range(q) = {}
  BY DEF Range

\* What it is to be an element of a sequence.
LEMMA MemberFacts ==
  ASSUME NEW S, NEW q \in Seq(S), NEW x
  PROVE  x \in Range(q) <=> \E i \in 1..Len(q) : q[i] = x
  BY ElementFacts

\* Appending adds one element at the end.
LEMMA AppendFacts ==
  ASSUME NEW S, NEW q \in Seq(S), NEW e \in S
  PROVE  /\ Append(q, e) \in Seq(S) /\ Len(Append(q, e)) = Len(q) + 1
         /\ \A i \in 1..Len(q) : Append(q, e)[i] = q[i]
         /\ Append(q, e)[Len(q) + 1] = e
         /\ Append(q, e) # <<>>
         /\ Range(Append(q, e)) = Range(q) \cup {e}
  <1>1. /\ Append(q, e) \in Seq(S) /\ Len(Append(q, e)) = Len(q) + 1
        /\ \A i \in 1..Len(q) : Append(q, e)[i] = q[i]
        /\ Append(q, e)[Len(q) + 1] = e
    OBVIOUS
  <1>2. Len(q) \in Nat
    OBVIOUS
  <1>3. ASSUME NEW x PROVE x \in Range(Append(q, e)) <=> x \in Range(q) \/ x = e
    <2>1. ASSUME x \in Range(Append(q, e)) PROVE x \in Range(q) \/ x = e
      <3>1. PICK i \in 1..(Len(q) + 1) : Append(q, e)[i] = x
        BY <1>1, <2>1, ElementFacts
      <3>2. i \in 1..Len(q) \/ i = Len(q) + 1
        BY <1>2
      <3> QED BY <1>1, <3>1, <3>2, ElementFacts
    <2>2. ASSUME x \in Range(q) PROVE x \in Range(Append(q, e))
      <3>1. PICK i \in 1..Len(q) : q[i] = x
        BY <2>2, ElementFacts
      <3>2. i \in 1..Len(Append(q, e)) /\ Append(q, e)[i] = x
        BY <1>1, <1>2, <3>1
      <3> QED BY <1>1, <3>2, ElementFacts
    <2>3. e \in Range(Append(q, e))
      <3>1. Len(q) + 1 \in 1..Len(Append(q, e))
        BY <1>1, <1>2
      <3>2. \E i \in 1..Len(Append(q, e)) : Append(q, e)[i] = e
        BY <1>1, <3>1
      <3> QED BY <1>1, <3>2, MemberFacts
    <2> QED BY <2>1, <2>2, <2>3
  <1>4. Append(q, e) # <<>>
    BY <1>1, <1>2
  <1>5. Range(Append(q, e)) = Range(q) \cup {e}
    BY <1>3
  <1> QED BY <1>1, <1>4, <1>5

\* Taking the first element off.
LEMMA TailFacts ==
  ASSUME NEW S, NEW q \in Seq(S), q # <<>>
  PROVE  /\ Head(q) = q[1] /\ Head(q) \in S /\ Head(q) \in Range(q)
         /\ Tail(q) \in Seq(S) /\ Len(q) \in Nat \ {0} /\ Len(Tail(q)) = Len(q) - 1
         /\ \A i \in 1..(Len(q) - 1) : Tail(q)[i] = q[i + 1]
         /\ Range(Tail(q)) \subseteq Range(q)
         /\ Range(q) = Range(Tail(q)) \cup {Head(q)}
  <1>1. /\ Head(q) = q[1] /\ Head(q) \in S
        /\ Tail(q) \in Seq(S) /\ Len(q) \in Nat \ {0} /\ Len(Tail(q)) = Len(q) - 1
        /\ \A i \in 1..(Len(q) - 1) : Tail(q)[i] = q[i + 1]
    OBVIOUS
  <1>2. Head(q) \in Range(q)
    <2>1. 1 \in 1..Len(q) BY <1>1
    <2> QED BY <1>1, <2>1, ElementFacts
  <1>3. Range(Tail(q)) \subseteq Range(q)
    <2> SUFFICES ASSUME NEW x \in Range(Tail(q)) PROVE x \in Range(q)
      OBVIOUS
    <2>0. \E i \in 1..Len(Tail(q)) : Tail(q)[i] = x
      BY Zenon, <1>1, MemberFacts
    <2>1. PICK i \in 1..(Len(q) - 1) : Tail(q)[i] = x
      BY <1>1, <2>0
    <2>2. i + 1 \in 1..Len(q) /\ q[i + 1] = x
      BY <1>1, <2>1
    <2> QED BY <2>2, ElementFacts
  <1>4. ASSUME NEW x \in Range(q) PROVE x \in Range(Tail(q)) \/ x = Head(q)
    <2>1. PICK i \in 1..Len(q) : q[i] = x
      BY <1>4, ElementFacts
    <2>2. CASE i = 1 BY <1>1, <2>1, <2>2
    <2>3. CASE i # 1
      <3>1. i - 1 \in 1..(Len(q) - 1) /\ (i - 1) + 1 = i
        BY <1>1, <2>3
      <3>2. Tail(q)[i - 1] = x /\ i - 1 \in 1..Len(Tail(q))
        BY <1>1, <2>1, <3>1
      <3> QED BY <1>1, <3>2, ElementFacts
    <2> QED BY <2>2, <2>3
  <1> QED BY <1>1, <1>2, <1>3, <1>4

\* A stretch of a sequence.
LEMMA SubSeqFacts ==
  ASSUME NEW S, NEW q \in Seq(S), NEW a \in 1..(Len(q) + 1), NEW b \in 0..Len(q), a <= b + 1
  PROVE  /\ SubSeq(q, a, b) \in Seq(S) /\ Len(SubSeq(q, a, b)) = (b - a) + 1
         /\ \A i \in 1..((b - a) + 1) : SubSeq(q, a, b)[i] = q[(a + i) - 1]
  <1>1. Len(q) \in Nat OBVIOUS
  <1>2. \A i \in 1..((b - a) + 1) : (a + i) - 1 \in 1..Len(q)
    BY <1>1
  <1>3. /\ Len(SubSeq(q, a, b)) = (b - a) + 1
        /\ \A i \in 1..((b - a) + 1) : SubSeq(q, a, b)[i] = q[(a + i) - 1]
    BY <1>1
  <1>4. SubSeq(q, a, b) \in Seq(S)
    BY <1>1, <1>2
  <1> QED BY <1>3, <1>4

\* A sequence cut in two loses no element.
LEMMA CutFacts ==
  ASSUME NEW S, NEW q \in Seq(S), NEW k \in 0..Len(q)
  PROVE  /\ SubSeq(q, 1, k) \in Seq(S) /\ SubSeq(q, k + 1, Len(q)) \in Seq(S)
         /\ Len(SubSeq(q, k + 1, Len(q))) = Len(q) - k
         /\ Range(q) = Range(SubSeq(q, 1, k)) \cup Range(SubSeq(q, k + 1, Len(q)))
  <1> DEFINE u == SubSeq(q, 1, k)
             w == SubSeq(q, k + 1, Len(q))
  <1>0. Len(q) \in Nat /\ k \in Nat /\ k <= Len(q) OBVIOUS
  <1>1. u \in Seq(S) /\ Len(u) = k /\ \A i \in 1..k : u[i] = q[i]
    <2>1. u \in Seq(S) /\ Len(u) = (k - 1) + 1 /\ \A i \in 1..((k - 1) + 1) : u[i] = q[(1 + i) - 1]
      BY <1>0, SubSeqFacts
    <2>2. (k - 1) + 1 = k /\ \A i \in 1..k : (1 + i) - 1 = i
      BY <1>0
    <2> QED BY <2>1, <2>2
  <1>2. w \in Seq(S) /\ Len(w) = Len(q) - k /\ \A i \in 1..(Len(q) - k) : w[i] = q[k + i]
    <2>1. /\ w \in Seq(S) /\ Len(w) = (Len(q) - (k + 1)) + 1
          /\ \A i \in 1..((Len(q) - (k + 1)) + 1) : w[i] = q[((k + 1) + i) - 1]
      <3>1. k + 1 \in 1..(Len(q) + 1) /\ Len(q) \in 0..Len(q) /\ k + 1 <= Len(q) + 1
        BY <1>0
      <3> QED BY <3>1, SubSeqFacts
    <2>2. (Len(q) - (k + 1)) + 1 = Len(q) - k /\ \A i \in 1..(Len(q) - k) : ((k + 1) + i) - 1 = k + i
      BY <1>0
    <2> QED BY <2>1, <2>2
  <1>3. ASSUME NEW x \in Range(q) PROVE x \in Range(u) \/ x \in Range(w)
    <2>1. PICK i \in 1..Len(q) : q[i] = x
      BY <1>3, ElementFacts
    <2>2. CASE i <= k
      <3>1. i \in 1..Len(u) /\ u[i] = x BY <1>0, <1>1, <2>1, <2>2
      <3> QED BY Zenon, <1>1, <3>1, ElementFacts
    <2>3. CASE i > k
      <3>1. i - k \in 1..(Len(q) - k) /\ k + (i - k) = i BY <1>0, <2>3
      <3>2. i - k \in 1..Len(w) /\ w[i - k] = x BY <1>2, <2>1, <3>1
      <3>3. \E j \in 1..Len(w) : w[j] = x BY <3>2
      <3> HIDE DEF u, w
      <3> QED BY <1>2, <3>3, MemberFacts
    <2> QED BY <1>0, <2>2, <2>3
  <1>4. ASSUME NEW x \in Range(u) PROVE x \in Range(q)
    <2>0. \E i \in 1..Len(u) : u[i] = x
      <3> HIDE DEF u
      <3> QED BY <1>1, <1>4, MemberFacts
    <2>1. PICK i \in 1..k : u[i] = x
      BY <1>1, <2>0
    <2>2. i \in 1..Len(q) /\ q[i] = x BY <1>0, <1>1, <2>1
    <2> QED BY <2>2, ElementFacts
  <1>5. ASSUME NEW x \in Range(w) PROVE x \in Range(q)
    <2>0. \E i \in 1..Len(w) : w[i] = x
      <3> HIDE DEF w
      <3> QED BY <1>2, <1>5, MemberFacts
    <2>1. PICK i \in 1..(Len(q) - k) : w[i] = x
      BY <1>2, <2>0
    <2>2. k + i \in 1..Len(q) /\ q[k + i] = x BY <1>0, <1>2, <2>1
    <2> QED BY <2>2, ElementFacts
  <1>6. Range(q) = Range(u) \cup Range(w)
    BY <1>3, <1>4, <1>5
  <1> QED BY <1>1, <1>2, <1>6

\* Two sequences one after the other.
LEMMA JoinFacts ==
  ASSUME NEW S, NEW p \in Seq(S), NEW q \in Seq(S)
  PROVE  /\ p \o q \in Seq(S) /\ Len(p \o q) = Len(p) + Len(q)
         /\ Range(p \o q) = Range(p) \cup Range(q)
  <1>0. Len(p) \in Nat /\ Len(q) \in Nat OBVIOUS
  <1>1. /\ p \o q \in Seq(S) /\ Len(p \o q) = Len(p) + Len(q)
        /\ \A i \in 1..Len(p) : (p \o q)[i] = p[i]
        /\ \A i \in 1..Len(q) : (p \o q)[Len(p) + i] = q[i]
    <2>1. p \o q \in Seq(S) /\ Len(p \o q) = Len(p) + Len(q)
      OBVIOUS
    <2>2. \A i \in 1..Len(p) : (p \o q)[i] = p[i]
      OBVIOUS
    <2>3. ASSUME NEW i \in 1..Len(q) PROVE (p \o q)[Len(p) + i] = q[i]
      <3>1. Len(p) + i \in 1..(Len(p) + Len(q)) /\ ~(Len(p) + i <= Len(p)) /\ (Len(p) + i) - Len(p) = i
        BY <1>0
      <3> QED BY <3>1
    <2> QED BY <2>1, <2>2, <2>3
  <1>2. ASSUME NEW x \in Range(p \o q) PROVE x \in Range(p) \/ x \in Range(q)
    <2>0. \E i \in 1..Len(p \o q) : (p \o q)[i] = x
      BY <1>1, <1>2, MemberFacts
    <2>1. PICK i \in 1..(Len(p) + Len(q)) : (p \o q)[i] = x
      BY <1>1, <2>0
    <2>2. CASE i <= Len(p)
      <3>1. i \in 1..Len(p) /\ p[i] = x BY <1>0, <1>1, <2>1, <2>2
      <3> QED BY <3>1, ElementFacts
    <2>3. CASE i > Len(p)
      <3>1. i - Len(p) \in 1..Len(q) /\ Len(p) + (i - Len(p)) = i BY <1>0, <2>3
      <3>2. q[i - Len(p)] = x BY <1>1, <2>1, <3>1
      <3> QED BY <3>1, <3>2, ElementFacts
    <2> QED BY <1>0, <2>2, <2>3
  <1>3. ASSUME NEW x \in Range(p) PROVE x \in Range(p \o q)
    <2>1. PICK i \in 1..Len(p) : p[i] = x BY <1>3, ElementFacts
    <2>2. i \in 1..Len(p \o q) /\ (p \o q)[i] = x BY <1>0, <1>1, <2>1
    <2> QED BY <1>1, <2>2, ElementFacts
  <1>4. ASSUME NEW x \in Range(q) PROVE x \in Range(p \o q)
    <2>1. PICK i \in 1..Len(q) : q[i] = x BY <1>4, ElementFacts
    <2>2. Len(p) + i \in 1..Len(p \o q) /\ (p \o q)[Len(p) + i] = x BY <1>0, <1>1, <2>1
    <2> QED BY <1>1, <2>2, ElementFacts
  <1> QED BY <1>1, <1>2, <1>3, <1>4

\* A sequence over a set is one over any larger set.
LEMMA WiderFacts ==
  ASSUME NEW S, NEW T, S \subseteq T, NEW q \in Seq(S)
  PROVE  q \in Seq(T)
  OBVIOUS

-----------------------------------------------------------------------------
(* The bytes of a buffer, and how it is held to its budget.                *)

Running(f, w, k) ==
  f \in [0..k -> Nat] /\ f[0] = 0 /\ \A j \in 1..k : f[j] = f[j - 1] + w[j]

\* Every sequence of weights has its running sums.
LEMMA SumExists ==
  ASSUME NEW n \in Nat, NEW w \in [1..n -> Nat]
  PROVE  \E f : Running(f, w, n)
  <1> DEFINE T == {k \in 0..n : ~\E f : Running(f, w, k)}
  <1>1. SUFFICES T = {}
    <2>1. n \in 0..n OBVIOUS
    <2> QED BY <2>1
  <1>2. SUFFICES ASSUME T # {} PROVE FALSE
    OBVIOUS
  <1>3. PICK k \in T : \A j \in T : k <= j
    <2>1. T \subseteq Nat OBVIOUS
    <2> HIDE DEF T
    <2> QED BY <1>2, <2>1, Least
  <1>4. CASE k = 0
    <2> DEFINE f == [j \in 0..0 |-> 0]
    <2>1. Running(f, w, 0) BY DEF Running
    <2> QED BY <1>4, <2>1
  <1>5. CASE k # 0
    <2>1. k \in 1..n /\ k - 1 \in 0..n /\ k - 1 \notin T
      BY <1>3, <1>5
    <2>2. PICK f : Running(f, w, k - 1)
      BY <2>1
    <2> DEFINE g == [j \in 0..k |-> IF j = k THEN f[k - 1] + w[k] ELSE f[j]]
    <2>3. g \in [0..k -> Nat]
      BY <2>1, <2>2 DEF Running
    <2>4. g[0] = 0
      BY <2>1, <2>2 DEF Running
    <2>5. ASSUME NEW j \in 1..k PROVE g[j] = g[j - 1] + w[j]
      <3>1. CASE j = k BY <2>1, <3>1
      <3>2. CASE j # k
        <4>1. j \in 1..(k - 1) /\ j - 1 \in 0..k /\ j - 1 # k /\ j \in 0..k BY <2>1, <3>2
        <4> QED BY <2>2, <3>2, <4>1 DEF Running
      <3> QED BY <3>1, <3>2
    <2>6. Running(g, w, k)
      BY <2>3, <2>4, <2>5 DEF Running
    <2> QED BY <2>6
  <1> QED BY <1>4, <1>5

\* Running sums of a sequence without its first weight are no larger.
LEMMA SumTail ==
  ASSUME NEW n \in Nat \ {0}, NEW w \in [1..n -> Nat], NEW v \in [1..(n - 1) -> Nat],
         \A i \in 1..(n - 1) : v[i] = w[i + 1],
         NEW f, NEW g, Running(f, w, n), Running(g, v, n - 1)
  PROVE  g[n - 1] <= f[n] /\ f[n] \in Nat
  <1> DEFINE T == {k \in 0..(n - 1) : f[k + 1] # g[k] + w[1]}
  <1>0. w[1] \in Nat /\ g[n - 1] \in Nat /\ f[n] \in Nat
    BY DEF Running
  <1>1. T = {}
    <2>1. SUFFICES ASSUME T # {} PROVE FALSE
      OBVIOUS
    <2>2. PICK k \in T : \A j \in T : k <= j
      <3>1. T \subseteq Nat OBVIOUS
      <3> HIDE DEF T
      <3> QED BY <2>1, <3>1, Least
    <2>3. CASE k = 0
      <3>1. f[0 + 1] = f[0] + w[1] /\ f[0] = 0 /\ g[0] = 0
        BY DEF Running
      <3> QED BY <1>0, <2>2, <2>3, <3>1
    <2>4. CASE k # 0
      <3>1. k \in 1..(n - 1) /\ k - 1 \in 0..(n - 1) /\ k - 1 \notin T /\ (k - 1) + 1 = k
        BY <2>2, <2>4
      <3>2. f[k] = g[k - 1] + w[1]
        BY <3>1
      <3>3. f[k + 1] = f[k] + w[k + 1]
        <4>1. k + 1 \in 1..n /\ (k + 1) - 1 = k BY <3>1
        <4>2. f[k + 1] = f[(k + 1) - 1] + w[k + 1] BY <4>1 DEF Running
        <4> QED BY <4>1, <4>2
      <3>4. g[k] = g[k - 1] + v[k] /\ v[k] = w[k + 1]
        BY <3>1 DEF Running
      <3>5. g[k - 1] \in Nat /\ w[k + 1] \in Nat
        BY <3>1 DEF Running
      <3>6. f[k + 1] = g[k] + w[1]
        BY <1>0, <3>2, <3>3, <3>4, <3>5
      <3> QED BY <2>2, <3>6
    <2> QED BY <2>3, <2>4
  <1>2. n - 1 \in 0..(n - 1) /\ (n - 1) + 1 = n
    OBVIOUS
  <1>3. f[n] = g[n - 1] + w[1]
    BY <1>1, <1>2
  <1> QED BY <1>0, <1>3

\* A batch holds finitely many samples.
LEMMA FiniteFacts ==
  /\ IsFiniteSet(Sample)
  /\ \A k : \A b \in Parcel(k) : Cardinality(b.samples) \in Nat
  <1>1. IsFiniteSet(Classes)
    BY ClassAssumption, FS_AddElement DEF Classes
  <1>2. IsFiniteSet(Numbers) /\ IsFiniteSet(0..MaxTime)
    <2>1. MaxSamples + Metrics * (MaxRounds + 1) \in Nat /\ MaxTime \in Nat
      BY SizesAssumption
    <2> QED BY <2>1, FS_Interval DEF Numbers
  <1> DEFINE P == (Numbers \X Classes) \X (0..MaxTime)
             h == [s \in Sample |-> <<<<s.n, s.class>>, s.t>>]
  <1>3. IsFiniteSet(P)
    BY <1>1, <1>2, FS_Product
  <1>4. h \in Injection(Sample, P)
    <2>1. h \in [Sample -> P]
      BY DEF Sample
    <2>2. ASSUME NEW a \in Sample, NEW b \in Sample, h[a] = h[b] PROVE a = b
      BY <2>2 DEF Sample
    <2> QED BY <2>1, <2>2 DEF Injection, IsInjective
  <1>5. IsFiniteSet(Sample)
    BY <1>3, <1>4, FS_Injection
  <1>6. ASSUME NEW k, NEW b \in Parcel(k) PROVE Cardinality(b.samples) \in Nat
    <2>1. b.samples \in SUBSET Sample
      BY DEF Parcel, Upto
    <2> QED BY <1>5, <2>1, FS_Subset, FS_CardinalityType
  <1> QED BY <1>5, <1>6

IsBytes(f, q) ==
  f = [k \in 0..Len(q) |-> IF k = 0 THEN 0 ELSE f[k - 1] + Cardinality(q[k].samples)]

\* The size of a buffer is the last of its running sums.
LEMMA SizeFacts ==
  ASSUME NEW k, NEW q \in Seq(Parcel(k))
  PROVE  \E f : /\ Running(f, [i \in 1..Len(q) |-> Cardinality(q[i].samples)], Len(q))
                /\ Size(q) = f[Len(q)]
  <1> DEFINE w == [i \in 1..Len(q) |-> Cardinality(q[i].samples)]
  <1>0. Len(q) \in Nat OBVIOUS
  <1>1. w \in [1..Len(q) -> Nat]
    BY FiniteFacts
  <1>2. PICK f : Running(f, w, Len(q))
    BY <1>0, <1>1, SumExists
  <1>3. IsBytes(f, q)
    <2>1. f = [j \in 0..Len(q) |-> f[j]]
      BY <1>2 DEF Running
    <2>2. ASSUME NEW j \in 0..Len(q)
          PROVE  f[j] = IF j = 0 THEN 0 ELSE f[j - 1] + Cardinality(q[j].samples)
      <3>1. CASE j = 0 BY <1>2, <3>1 DEF Running
      <3>2. CASE j # 0
        <4>1. j \in 1..Len(q) BY <1>0, <3>2
        <4>2. f[j] = f[j - 1] + w[j] BY <1>2, <4>1 DEF Running
        <4> QED BY <3>2, <4>1, <4>2
      <3> QED BY <3>1, <3>2
    <2> QED BY <2>1, <2>2 DEF IsBytes
  <1> DEFINE g == CHOOSE h : IsBytes(h, q)
  <1>4. IsBytes(g, q)
    BY <1>3
  <1>5. Size(q) = g[Len(q)]
    BY DEF Size, IsBytes
  <1>6. Running(g, w, Len(q))
    <2> HIDE DEF g
    <2>1. \A j \in 0..Len(q) : g[j] = f[j]
      <3> DEFINE T == {j \in 0..Len(q) : g[j] # f[j]}
      <3>1. SUFFICES ASSUME T # {} PROVE FALSE
        OBVIOUS
      <3>2. PICK j \in T : \A i \in T : j <= i
        <4>1. T \subseteq Nat BY <1>0
        <4> HIDE DEF T
        <4> QED BY <3>1, <4>1, Least
      <3>3. CASE j = 0
        BY <1>2, <1>4, <3>2, <3>3 DEF IsBytes, Running
      <3>4. CASE j # 0
        <4>1. j \in 1..Len(q) /\ j - 1 \in 0..Len(q) /\ j - 1 \notin T
          BY <1>0, <3>2, <3>4
        <4>2. g[j - 1] = f[j - 1] BY <4>1
        <4>3. f[j] = f[j - 1] + w[j] BY <1>2, <4>1 DEF Running
        <4>4. g[j] = g[j - 1] + Cardinality(q[j].samples)
          BY <1>4, <3>2, <3>4 DEF IsBytes
        <4> QED BY <3>2, <4>1, <4>2, <4>3, <4>4
      <3> QED BY <3>3, <3>4
    <2>2. g = [j \in 0..Len(q) |-> g[j]]
      BY <1>4 DEF IsBytes
    <2>3. g = f
      BY <1>2, <2>1, <2>2 DEF Running
    <2> QED BY <1>2, <2>3
  <1> HIDE DEF g, w
  <1>7. Running(g, w, Len(q)) /\ Size(q) = g[Len(q)]
    BY <1>5, <1>6
  <1> QED BY <1>7 DEF w

\* A buffer without its first batch is no larger, and an empty one has size 0.
LEMMA SizeTail ==
  ASSUME NEW k, NEW q \in Seq(Parcel(k))
  PROVE  /\ q # <<>> => Size(Tail(q)) <= Size(q)
         /\ q = <<>> => Size(q) = 0
         /\ Size(q) \in Nat
  <1> DEFINE w == [i \in 1..Len(q) |-> Cardinality(q[i].samples)]
  <1>0. Len(q) \in Nat OBVIOUS
  <1>1. PICK f : Running(f, w, Len(q)) /\ Size(q) = f[Len(q)]
    BY SizeFacts
  <1>2. Size(q) \in Nat
    BY <1>0, <1>1 DEF Running
  <1>3. q = <<>> => Size(q) = 0
    BY <1>1 DEF Running
  <1>4. ASSUME q # <<>> PROVE Size(Tail(q)) <= Size(q)
    <2> DEFINE r == Tail(q)
               v == [i \in 1..Len(r) |-> Cardinality(r[i].samples)]
    <2>1. /\ r \in Seq(Parcel(k)) /\ Len(q) \in Nat \ {0} /\ Len(r) = Len(q) - 1
          /\ \A i \in 1..(Len(q) - 1) : r[i] = q[i + 1]
      BY <1>4, TailFacts
    <2>2. PICK g : Running(g, v, Len(r)) /\ Size(r) = g[Len(r)]
      BY <2>1, SizeFacts
    <2>3. w \in [1..Len(q) -> Nat]
      BY FiniteFacts
    <2>4. v \in [1..(Len(q) - 1) -> Nat]
      <3> HIDE DEF r
      <3> QED BY <2>1, FiniteFacts
    <2>5. \A i \in 1..(Len(q) - 1) : v[i] = w[i + 1]
      <3> HIDE DEF r
      <3> QED BY <2>1
    <2> HIDE DEF r, v, w
    <2>6. g[Len(q) - 1] <= f[Len(q)]
      BY <1>1, <2>1, <2>2, <2>3, <2>4, <2>5, SumTail
    <2> QED BY <1>1, <2>1, <2>2, <2>6 DEF r
  <1> QED BY <1>2, <1>3, <1>4

\* What is kept of a buffer that is too large fits, or is one batch, and is part
\* of it.
LEMMA KeepFacts ==
  ASSUME NEW k, NEW q \in Seq(Parcel(k)), q # <<>>
  PROVE  /\ KeepNewest(q) \in Seq(Parcel(k)) /\ KeepOldest(q) \in Seq(Parcel(k))
         /\ Size(KeepNewest(q)) <= BufferBudget \/ Len(KeepNewest(q)) = 1
         /\ Size(KeepOldest(q)) <= BufferBudget \/ Len(KeepOldest(q)) = 1
  <1> DEFINE new(j) == SubSeq(q, j, Len(q))
             old(j) == SubSeq(q, 1, j)
             N == {j \in 1..Len(q) : Size(new(j)) <= BufferBudget} \cup {Len(q)}
             O == {j \in 1..Len(q) : Size(old(j)) <= BufferBudget} \cup {1}
  <1>0. Len(q) \in Nat \ {0} OBVIOUS
  <1>1. KeepNewest(q) = new(Min(N)) /\ KeepOldest(q) = old(Max(O))
    BY DEF KeepNewest, KeepOldest
  <1>2. Min(N) \in N /\ Min(N) \in 1..Len(q)
    <2>1. N \subseteq Nat /\ N # {} /\ N \subseteq 1..Len(q) BY <1>0
    <2> HIDE DEF N
    <2> QED BY <2>1, MinFacts
  <1>3. Max(O) \in O /\ Max(O) \in 1..Len(q)
    <2>1. O \subseteq 0..Len(q) /\ O # {} /\ O \subseteq 1..Len(q) BY <1>0
    <2> HIDE DEF O
    <2> QED BY <1>0, <2>1, MaxFacts
  <1>4. new(Min(N)) \in Seq(Parcel(k)) /\ Len(new(Min(N))) = (Len(q) - Min(N)) + 1
    <2> HIDE DEF N
    <2> QED BY <1>0, <1>2, SubSeqFacts
  <1>5. old(Max(O)) \in Seq(Parcel(k)) /\ Len(old(Max(O))) = (Max(O) - 1) + 1
    <2> HIDE DEF O
    <2> QED BY <1>0, <1>3, SubSeqFacts
  <1>6. Size(new(Min(N))) <= BufferBudget \/ Min(N) = Len(q)
    BY <1>2
  <1>7. Size(old(Max(O))) <= BufferBudget \/ Max(O) = 1
    BY <1>3
  <1> HIDE DEF N, O
  <1> QED BY <1>0, <1>1, <1>2, <1>3, <1>4, <1>5, <1>6, <1>7

-----------------------------------------------------------------------------
(* The tick windows.                                                       *)

IsEpochs(E, times) ==
  /\ E \subseteq times
  /\ \A t \in times : t \in E <=> \A e \in E : ~(e < t /\ t - e < Tick)

\* Any set of times can be cut into windows: each time either begins a window or
\* lies within the tick of an earlier beginning.
LEMMA EpochsExist ==
  ASSUME NEW times, times \subseteq 0..MaxTime
  PROVE  \E E : IsEpochs(E, times)
  <1> DEFINE Before(n) == {t \in times : t < n}
             T == {n \in Nat : ~\E E : IsEpochs(E, Before(n))}
  <1>0. MaxTime \in Nat /\ Tick \in Nat \ {0} BY SizesAssumption
  <1>1. T = {}
    <2>1. SUFFICES ASSUME T # {} PROVE FALSE
      OBVIOUS
    <2>2. PICK n \in T : \A m \in T : n <= m
      <3>1. T \subseteq Nat OBVIOUS
      <3> HIDE DEF T
      <3> QED BY <2>1, <3>1, Least
    <2>3. CASE n = 0
      <3>1. Before(0) = {}
        <4>1. \A t \in times : ~(t < 0) BY <1>0
        <4> QED BY <4>1
      <3>2. IsEpochs({}, {}) BY DEF IsEpochs
      <3> QED BY <2>2, <2>3, <3>1, <3>2
    <2>4. CASE n # 0
      <3>1. n - 1 \in Nat /\ n - 1 \notin T BY <2>2, <2>4
      <3>2. PICK E : IsEpochs(E, Before(n - 1)) BY <3>1
      <3> DEFINE begins == n - 1 \in times /\ \A e \in E : ~(e < n - 1 /\ (n - 1) - e < Tick)
                 F == IF begins THEN E \cup {n - 1} ELSE E
      <3>3. \A t \in times : t \in Int /\ (t < n <=> t < n - 1 \/ t = n - 1)
        BY <1>0, <3>1
      <3>4. E \subseteq Before(n - 1) BY <3>2 DEF IsEpochs
      <3>5. F \subseteq Before(n)
        BY <3>3, <3>4
      <3>6. ASSUME NEW t \in Before(n)
            PROVE  t \in F <=> \A e \in F : ~(e < t /\ t - e < Tick)
        <4>1. CASE t < n - 1
          <5>1. t \in Before(n - 1) BY <4>1
          <5>2. t \in E <=> \A e \in E : ~(e < t /\ t - e < Tick)
            BY <3>2, <5>1 DEF IsEpochs
          <5>3. t \in F <=> t \in E
            BY <3>1, <3>3, <4>1
          <5>4. ~(n - 1 < t) BY <3>1, <3>3, <4>1
          <5> QED BY <5>2, <5>3, <5>4
        <4>2. CASE t = n - 1
          <5>1. t \notin E BY <3>1, <3>4, <4>2
          <5>2. t \in times /\ ~(n - 1 < t) BY <3>1, <4>2
          <5> QED BY <4>2, <5>1, <5>2
        <4> QED BY <3>3, <4>1, <4>2
      <3>7. IsEpochs(F, Before(n)) BY <3>5, <3>6 DEF IsEpochs
      <3> QED BY <2>2, <3>7
    <2> QED BY <2>3, <2>4
  <1>2. Before(MaxTime + 1) = times
    <2>1. \A t \in times : t < MaxTime + 1 BY <1>0
    <2> QED BY <2>1
  <1>3. MaxTime + 1 \in Nat BY <1>0
  <1> QED BY <1>1, <1>2, <1>3

\* The windows of a set of samples cover it.
LEMMA WindowFacts ==
  ASSUME NEW S, S \subseteq Sample
  PROVE  /\ Epochs(S) \subseteq 0..MaxTime
         /\ \A s \in S : \E e \in Epochs(S) : s \in InWindow(S, e)
  <1> DEFINE times == {s.t : s \in S}
             P(E) == \A t \in times : t \in E <=> \A e \in E : ~(e < t /\ t - e < Tick)
  <1>0. MaxTime \in Nat /\ Tick \in Nat \ {0} BY SizesAssumption
  <1>1. times \subseteq 0..MaxTime
    BY DEF Sample
  <1>2. \E E : IsEpochs(E, times)
    <2> HIDE DEF times
    <2> QED BY <1>1, EpochsExist
  <1>3. \E E \in SUBSET times : P(E)
    BY <1>2 DEF IsEpochs
  <1>4. Epochs(S) = CHOOSE E \in SUBSET times : P(E)
    BY DEF Epochs
  <1>5. Epochs(S) \in SUBSET times /\ P(Epochs(S))
    <2> HIDE DEF times, P
    <2> QED BY <1>3, <1>4
  <1>6. ASSUME NEW s \in S PROVE \E e \in Epochs(S) : s \in InWindow(S, e)
    <2>1. s.t \in times /\ s.t \in 0..MaxTime
      BY DEF Sample
    <2>2. CASE s.t \in Epochs(S)
      <3>1. s.t <= s.t /\ s.t - s.t < Tick BY <1>0, <2>1
      <3> QED BY <2>2, <3>1 DEF InWindow
    <2>3. CASE s.t \notin Epochs(S)
      <3>1. PICK e \in Epochs(S) : e < s.t /\ s.t - e < Tick
        BY <1>5, <2>1, <2>3
      <3>2. e \in 0..MaxTime BY <1>1, <1>5
      <3>3. e <= s.t BY <2>1, <3>1, <3>2
      <3> QED BY <3>1, <3>3 DEF InWindow
    <2> QED BY <2>2, <2>3
  <1> QED BY <1>1, <1>5, <1>6

\* The batches of the windows that are not discarded are well-formed and carry
\* every sample of those windows.
LEMMA BatchFacts ==
  ASSUME NEW k, NEW S, S \subseteq Upto(k), NEW E, E \subseteq 0..MaxTime
  PROVE  /\ Batches(S, E) \subseteq Parcel(k)
         /\ \A e \in E : \A s \in InWindow(S, e) : \E b \in Batches(S, E) : s \in b.samples
  <1> DEFINE of(p) == {s \in InWindow(S, p[1]) : s.class = p[2]}
             D == {q \in E \X Classes : of(q) # {}}
  <1>1. Batches(S, E) = {[class |-> p[2], epoch |-> p[1], samples |-> of(p)] : p \in D}
    BY DEF Batches
  <1>2. ASSUME NEW p \in E \X Classes PROVE of(p) \subseteq Upto(k)
    BY DEF InWindow
  <1>3. Batches(S, E) \subseteq Parcel(k)
    <2> SUFFICES ASSUME NEW p \in D
                 PROVE  [class |-> p[2], epoch |-> p[1], samples |-> of(p)] \in Parcel(k)
      BY <1>1
    <2>1. p \in E \X Classes /\ p[1] \in 0..MaxTime /\ p[2] \in Classes
      OBVIOUS
    <2>2. of(p) \in SUBSET Upto(k) BY <1>2, <2>1
    <2> HIDE DEF of, D
    <2> QED BY <2>1, <2>2 DEF Parcel
  <1>4. ASSUME NEW e \in E, NEW s \in InWindow(S, e)
        PROVE  \E b \in Batches(S, E) : s \in b.samples
    <2>1. s.class \in Classes
      BY DEF InWindow, Upto, Sample
    <2> DEFINE p == <<e, s.class>>
    <2>2. p \in E \X Classes /\ s \in of(p) BY <2>1
    <2>3. p \in D BY <2>2
    <2> DEFINE b == [class |-> p[2], epoch |-> p[1], samples |-> of(p)]
    <2>4. b \in Batches(S, E) BY <1>1, <2>3
    <2>5. s \in b.samples BY <2>2
    <2> QED BY <2>4, <2>5
  <1> QED BY <1>3, <1>4

-----------------------------------------------------------------------------
(* The invariant.                                                          *)
\* Whatever the agent and the broker hold was stamped before.
Stamped ==
  /\ stamped \in [Classes -> Seq(Upto(count))] /\ queue \in [Classes -> Seq(Upto(count))]
  /\ staged \subseteq Upto(count) /\ counted \subseteq Upto(count)
  /\ ready \subseteq Parcel(count) /\ swallowed \subseteq Parcel(count)
  /\ buffer \in Seq(Parcel(count)) /\ stream \in Seq(Parcel(count))
  /\ pending \in Seq(Sent(count)) /\ wire \in Seq(Flying(count))

\* The clock, the counters and the faults left are within their bounds.
Counters ==
  /\ now \in 0..MaxTime /\ count \in Nat /\ rounds \in 0..MaxRounds
  /\ running \in [Collectors -> BOOLEAN]
  /\ budget \in [FaultKinds -> Nat] /\ \A k \in FaultKinds : budget[k] <= FaultBudget[k]

Flags ==
  /\ stop \in BOOLEAN /\ stopping \in BOOLEAN /\ drained \in BOOLEAN
  /\ last \in BOOLEAN /\ oldest \in BOOLEAN /\ announced \in BOOLEAN

\* Where the threads are.
Posts ==
  /\ health \in {"wait", "exited"}
  /\ main \in {"running", "health", "drain", "final", "stopped"}
  /\ pipe \in {"wait", "drain", "submit", "exited"}
  /\ pub \in {"connect", "fill", "await", "requeue", "off"}
  /\ todo \subseteq Classes

Placed == Counters /\ Flags /\ Posts

\* No more samples are stamped than the bounds allow, and no queue outgrows its
\* length.
Sized ==
  /\ count <= MaxSamples + Metrics * (rounds + 1)
  /\ main \in {"running", "health", "drain"} => count <= MaxSamples + Metrics * rounds
  /\ \A c \in Classes : Len(queue[c]) <= QueueLen

\* The order of the shutdown: once the health thread has left it stamps nothing,
\* a collector that does not run has nothing in hand, and the last drain leaves
\* nothing in front of the publisher.
Orderly ==
  /\ health = "exited" => stop /\ stamped["derived"] = <<>>
  /\ \A c \in Collectors : ~running[c] => stamped[c] = <<>>
  /\ main \in {"drain", "final", "stopped"} =>
       health = "exited" /\ \A c \in Collectors : ~running[c]
  /\ main \in {"drain", "stopped"} => pipe = "exited"
  /\ main = "final" => pipe # "wait" /\ last
  /\ pipe # "submit" => ready = {}
  /\ pipe # "drain" => staged = {}
  /\ main \in {"final", "stopped"} =>
       \A c \in Classes : pipe # "drain" \/ c \notin todo => queue[c] = <<>>

\* The window's mark is true, and while the loop waits for the window or takes
\* it back there is something in it.
Marked ==
  /\ oldest = (pending # <<>>)
  /\ pub \in {"await", "requeue"} => pending # <<>>
  /\ main = "stopped" /\ drained => buffer = <<>> /\ pending = <<>>

\* An acknowledged batch was stored, or was taken for a duplicate.
AckedIsSettled ==
  \A i \in 1..Len(pending) :
     pending[i].acked => pending[i].batch \in Range(stream) \cup swallowed

\* Every number up to the count is the number of a sample somewhere.
Complete == \A m \in 1..count : m \in NumbersOf(Held \cup Settled)

\* As long as the duplicate window lasts it knows the id of every stored batch.
IdsDiffer ==
  ~Spent("forget") =>
    /\ \A i \in 1..Len(stream) : Id(stream[i]) \in recent
    /\ \A i, j \in 1..Len(stream) : Id(stream[i]) = Id(stream[j]) => i = j

\* Batches leave the agent only on a connection that announced the registry.
Announced ==
  pub \in {"fill", "await", "requeue"} \/ wire # <<>> \/ stream # <<>> => announced

IInv ==
  /\ Stamped /\ Placed /\ Sized /\ Orderly /\ Marked /\ AckedIsSettled /\ Complete
  /\ IdsDiffer /\ Announced /\ MemoryBounded

-----------------------------------------------------------------------------
(* Control: counters, places, the order of the shutdown, the registry.     *)

\* Spending a fault lowers its budget by one and leaves the others alone.
LEMMA SpendFacts ==
  ASSUME Placed, NEW k \in FaultKinds, Spend(k)
  PROVE  /\ budget' \in [FaultKinds -> Nat] /\ \A f \in FaultKinds : budget'[f] <= FaultBudget[f]
         /\ \A f \in FaultKinds \ {k} : budget'[f] = budget[f]
         /\ budget'[k] < FaultBudget[k]
  <1>1. budget[k] \in Nat \ {0} /\ budget' = [budget EXCEPT ![k] = budget[k] - 1]
    BY DEF Spend, Placed, Counters
  <1>2. \A f \in FaultKinds : budget[f] \in Nat /\ FaultBudget[f] \in Nat /\ budget[f] <= FaultBudget[f]
    BY FaultAssumption DEF Placed, Counters
  <1>3. \A f \in FaultKinds : budget'[f] = IF f = k THEN budget[k] - 1 ELSE budget[f]
    BY <1>1 DEF Placed, Counters
  <1>4. budget' \in [FaultKinds -> Nat]
    BY <1>1 DEF Placed, Counters
  <1> QED BY <1>1, <1>2, <1>3, <1>4

\* The steps of the agent, one by one.
LEMMA NextCases ==
  ASSUME [Next]_vars
  PROVE  \/ UNCHANGED vars \/ Clock
         \/ \E c \in Collectors : StopCollector(c) \/ CollectorDies(c) \/ Capture(c)
         \/ \E c \in Classes : PutSample(c) \/ PipeDrain(c)
         \/ HealthRound \/ HealthExits \/ PipeTick \/ PipeFlush \/ \E b \in ready : Submit(b)
         \/ Serve \/ Fill \/ Filled \/ Acked \/ PublishFails \/ Requeue \/ Disconnected
         \/ Land \/ Lose \/ Forget
         \/ StopRequested \/ JoinPipeline \/ FinalStatus \/ StopPublisher
  BY DEF Next, CaptureNext, PipelineNext, PublisherNext, BrokerNext, ShutdownNext

\* A step leaves the budget alone or spends one fault; only Forget spends the
\* duplicate window.
LEMMA BudgetFacts ==
  ASSUME Placed, [Next]_vars
  PROVE  /\ budget' \in [FaultKinds -> Nat] /\ \A k \in FaultKinds : budget'[k] <= FaultBudget[k]
         /\ ~Forget => budget'["forget"] = budget["forget"]
         /\ Forget => budget'["forget"] < FaultBudget["forget"]
  <1>1. CASE UNCHANGED budget /\ ~Forget
    BY <1>1 DEF Placed, Counters
  <1>2. CASE \E k \in FaultKinds \ {"forget"} : Spend(k) /\ ~Forget
    BY <1>2, SpendFacts DEF FaultKinds
  <1>3. CASE Forget
    BY <1>3, SpendFacts DEF Forget, FaultKinds
  <1>4. \/ UNCHANGED budget \/ Spend("collector") \/ Spend("serve") \/ Spend("timeout")
        \/ Spend("lose") \/ Spend("ack") \/ Forget
    <2>1. CASE UNCHANGED vars \/ Clock \/ HealthRound \/ HealthExits \/ PipeTick \/ PipeFlush
      BY <2>1 DEF vars, Clock, HealthRound, HealthExits, PipeTick, PipeFlush
    <2>2. CASE \E c \in Collectors : StopCollector(c) \/ CollectorDies(c) \/ Capture(c)
      BY <2>2 DEF StopCollector, CollectorDies, Capture
    <2>3. CASE \/ \E c \in Classes : PutSample(c) \/ PipeDrain(c)
               \/ \E b \in ready : Submit(b)
      BY <2>3 DEF PutSample, PipeDrain, Submit
    <2>4. CASE Serve \/ Fill \/ Filled \/ Acked \/ PublishFails \/ Requeue \/ Disconnected
      BY <2>4 DEF Serve, Fill, Filled, Acked, PublishFails, Requeue, Disconnected
    <2>5. CASE Land \/ Lose \/ Forget
      BY <2>5 DEF Land, Lose
    <2>6. CASE StopRequested \/ JoinPipeline \/ FinalStatus \/ StopPublisher
      BY <2>6 DEF StopRequested, JoinPipeline, FinalStatus, StopPublisher
    <2> QED BY <2>1, <2>2, <2>3, <2>4, <2>5, <2>6, NextCases
  <1> QED BY <1>1, <1>2, <1>3, <1>4 DEF FaultKinds

\* Every step keeps the clock, the counters and the faults within their bounds.
LEMMA CountersStep ==
  ASSUME Placed, [Next]_vars
  PROVE  Counters'
  <1> USE DEF capture, pipeline, publisher, broker, shutdown
  <1>0. /\ now \in 0..MaxTime /\ count \in Nat /\ rounds \in 0..MaxRounds
        /\ running \in [Collectors -> BOOLEAN] /\ MaxTime \in Nat /\ MaxRounds \in Nat /\ Metrics \in Nat
    BY SizesAssumption DEF Placed, Counters
  <1>1. now' \in 0..MaxTime /\ count' \in Nat /\ rounds' \in 0..MaxRounds
        /\ running' \in [Collectors -> BOOLEAN]
    <2>1. CASE UNCHANGED vars \/ HealthExits \/ PipeTick \/ PipeFlush \/ Serve \/ Fill \/ Filled
      BY <1>0, <2>1 DEF vars, HealthExits, PipeTick, PipeFlush, Serve, Fill, Filled
    <2>2. CASE Clock BY <1>0, <2>2 DEF Clock
    <2>3. CASE \E c \in Collectors : StopCollector(c) \/ CollectorDies(c)
      BY <1>0, <2>3 DEF StopCollector, CollectorDies
    <2>4. CASE \E c \in Collectors : Capture(c) BY <1>0, <2>4 DEF Capture
    <2>5. CASE \E c \in Classes : PutSample(c) \/ PipeDrain(c)
      BY <1>0, <2>5 DEF PutSample, PipeDrain
    <2>6. CASE HealthRound
      <3>1. now' = now /\ count' = count + Metrics /\ rounds' = rounds + 1 /\ rounds < MaxRounds
        BY <2>6 DEF HealthRound
      <3>2. running' \in [Collectors -> BOOLEAN] BY <2>6 DEF HealthRound
      <3> QED BY <1>0, <3>1, <3>2
    <2>7. CASE Acked \/ PublishFails \/ Requeue \/ Disconnected \/ \E b \in ready : Submit(b)
      BY <1>0, <2>7 DEF Acked, PublishFails, Requeue, Disconnected, Submit
    <2>8. CASE Land \/ Lose \/ Forget \/ StopRequested \/ JoinPipeline \/ StopPublisher
      BY <1>0, <2>8 DEF Land, Lose, Forget, StopRequested, JoinPipeline, StopPublisher
    <2>9. CASE FinalStatus
      <3>1. UNCHANGED <<now, rounds, running>> /\ count' = count + Metrics BY <2>9 DEF FinalStatus
      <3> QED BY <1>0, <3>1
    <2> QED BY <2>1, <2>2, <2>3, <2>4, <2>5, <2>6, <2>7, <2>8, <2>9, NextCases
  <1> QED BY <1>1, BudgetFacts DEF Counters

\* Every step keeps the flags Boolean.
LEMMA FlagsStep ==
  ASSUME Placed, [Next]_vars
  PROVE  Flags'
  <1> USE DEF capture, pipeline, publisher, broker, shutdown
  <1>0. Flags BY DEF Placed
  <1>1. CASE UNCHANGED <<stop, stopping, drained, last, oldest, announced>>
    BY <1>0, <1>1 DEF Flags
  <1>2. CASE PipeTick
    <2>1. last' = stop /\ UNCHANGED <<stop, stopping, drained, oldest, announced>>
      BY <1>2 DEF PipeTick
    <2> QED BY <1>0, <2>1 DEF Flags
  <1>3. CASE Serve
    <2>1. announced' \in {announced, TRUE} /\ UNCHANGED <<stop, stopping, drained, last,
                                                          oldest>>
      BY <1>3 DEF Serve
    <2> QED BY <1>0, <2>1 DEF Flags
  <1>4. CASE Fill \/ Acked \/ Requeue
    <2>1. oldest' \in BOOLEAN /\ UNCHANGED <<stop, stopping, drained, last, announced>>
      BY <1>4 DEF Fill, Acked, Requeue
    <2> QED BY <1>0, <2>1 DEF Flags
  <1>5. CASE StopRequested
    <2>1. stop' = TRUE /\ UNCHANGED <<stopping, drained, last, oldest, announced>>
      BY <1>5 DEF StopRequested
    <2> QED BY <1>0, <2>1 DEF Flags
  <1>6. CASE FinalStatus
    <2>1. last' = TRUE /\ UNCHANGED <<stop, stopping, drained, oldest, announced>>
      BY <1>6 DEF FinalStatus
    <2> QED BY <1>0, <2>1 DEF Flags
  <1>7. CASE StopPublisher
    <2>1. stopping' = TRUE /\ UNCHANGED <<stop, last, oldest, announced>> BY <1>7 DEF StopPublisher
    <2>2. drained' \in BOOLEAN BY <1>7 DEF StopPublisher, Idle
    <2> QED BY <1>0, <2>1, <2>2 DEF Flags
  <1>8. \/ UNCHANGED <<stop, stopping, drained, last, oldest, announced>>
        \/ PipeTick \/ Serve \/ Fill \/ Acked \/ Requeue \/ StopRequested \/ FinalStatus \/ StopPublisher
    <2>1. CASE UNCHANGED vars \/ Clock \/ HealthRound \/ HealthExits \/ PipeFlush \/ Filled
      BY <2>1 DEF vars, Clock, HealthRound, HealthExits, PipeFlush, Filled
    <2>2. CASE \E c \in Collectors : StopCollector(c) \/ CollectorDies(c) \/ Capture(c)
      BY <2>2 DEF StopCollector, CollectorDies, Capture
    <2>3. CASE \/ \E c \in Classes : PutSample(c) \/ PipeDrain(c)
               \/ \E b \in ready : Submit(b)
      BY <2>3 DEF PutSample, PipeDrain, Submit
    <2>4. CASE PublishFails \/ Disconnected \/ Land \/ Lose \/ Forget \/ JoinPipeline
      BY <2>4 DEF PublishFails, Disconnected, Land, Lose, Forget, JoinPipeline
    <2> QED BY <2>1, <2>2, <2>3, <2>4, NextCases
  <1> QED BY <1>1, <1>2, <1>3, <1>4, <1>5, <1>6, <1>7, <1>8

\* Every step leaves the threads in places they have.
LEMMA PostsStep ==
  ASSUME Placed, [Next]_vars
  PROVE  Posts'
  <1> USE DEF capture, pipeline, publisher, broker, shutdown
  <1>0. Posts BY DEF Placed
  <1>1. CASE UNCHANGED vars \/ Clock \/ HealthRound \/ HealthExits
    BY <1>0, <1>1 DEF vars, Clock, HealthRound, HealthExits, Posts
  <1>2. CASE \E c \in Collectors : StopCollector(c) \/ CollectorDies(c) \/ Capture(c)
    BY <1>0, <1>2 DEF StopCollector, CollectorDies, Capture, Posts
  <1>3. CASE \E c \in Classes : PutSample(c) \/ PipeDrain(c)
    BY <1>0, <1>3 DEF PutSample, PipeDrain, Posts
  <1>4. CASE PipeTick \/ PipeFlush \/ \E b \in ready : Submit(b)
    <2>1. /\ UNCHANGED <<health, main, pub>> /\ todo' \in {Classes, {}, todo}
          /\ pipe' \in {"wait", "drain", "submit", "exited"}
      BY <1>4 DEF PipeTick, PipeFlush, Submit, Returned
    <2> QED BY <1>0, <2>1 DEF Posts
  <1>5. CASE Serve \/ Fill \/ Filled \/ Acked \/ PublishFails \/ Requeue \/ Disconnected
    <2>1. /\ UNCHANGED <<health, main, pipe, todo>>
          /\ pub' \in {pub, "fill", "await", "requeue", "off"}
      BY <1>5 DEF Serve, Fill, Filled, Acked, PublishFails, Requeue, Disconnected
    <2> QED BY <1>0, <2>1 DEF Posts
  <1>6. CASE Land \/ Lose \/ Forget
    BY <1>0, <1>6 DEF Land, Lose, Forget, Posts
  <1>7. CASE StopRequested \/ JoinPipeline \/ StopPublisher
    BY <1>0, <1>7 DEF StopRequested, JoinPipeline, StopPublisher, Posts
  <1>8. CASE FinalStatus
    <2>1. /\ UNCHANGED <<health, pub>> /\ main' = "final" /\ pipe' = "drain" /\ todo' = Classes
      BY <1>8 DEF FinalStatus
    <2> QED BY <1>0, <2>1 DEF Posts
  <1> QED BY <1>1, <1>2, <1>3, <1>4, <1>5, <1>6, <1>7, <1>8, NextCases

\* Every step keeps counters, flags and places.
LEMMA PlacedStep ==
  ASSUME Placed, [Next]_vars
  PROVE  Placed'
  BY CountersStep, FlagsStep, PostsStep DEF Placed

\* Every step keeps the registry ahead of the batches.
LEMMA AnnouncedStep ==
  ASSUME Announced, [Next]_vars
  PROVE  Announced'
  <1> USE DEF capture, pipeline, publisher, broker, shutdown
  <1>1. CASE UNCHANGED vars \/ Clock BY <1>1 DEF vars, Clock, Announced
  <1>2. CASE \E c \in Collectors : StopCollector(c) \/ CollectorDies(c) \/ Capture(c)
    BY SMTT(30), <1>2 DEF StopCollector, CollectorDies, Capture, Announced
  <1>3. CASE \E c \in Classes : PutSample(c) \/ PipeDrain(c)
    BY <1>3 DEF PutSample, PipeDrain, Announced
  <1>4. CASE HealthRound \/ HealthExits \/ PipeTick \/ PipeFlush
    BY <1>4 DEF HealthRound, HealthExits, PipeTick, PipeFlush, Announced
  <1>5. CASE \E b \in ready : Submit(b)
    BY <1>5 DEF Submit, Announced
  <1>6. CASE Serve \/ Fill \/ Filled \/ Acked \/ PublishFails \/ Disconnected
    BY <1>6 DEF Serve, Fill, Filled, Acked, PublishFails, Disconnected, Announced
  <1>7. CASE Requeue BY <1>7 DEF Requeue, Announced
  <1>8. CASE Land \/ Lose \/ Forget BY <1>8 DEF Land, Lose, Forget, Announced
  <1>9. CASE StopRequested \/ JoinPipeline \/ FinalStatus \/ StopPublisher
    BY <1>9 DEF StopRequested, JoinPipeline, FinalStatus, StopPublisher, Announced
  <1> QED BY <1>1, <1>2, <1>3, <1>4, <1>5, <1>6, <1>7, <1>8, <1>9, NextCases

=============================================================================
