------------------------- MODULE VehicleAgentProofs -------------------------
(***************************************************************************)
(* Proofs about VehicleAgent for every number of collectors, samples,      *)
(* rounds and faults and every size of its queues, window and buffer: the  *)
(* stream holds what was acknowledged, no step loses a sample, and what    *)
(* the invariant says of the agent.                                        *)
(***************************************************************************)
EXTENDS VehicleAgentSteps

-----------------------------------------------------------------------------
(* The stream: what it was sent, once per id, and what it acknowledged.    *)

\* Only a publish that lands changes the stream and what was swallowed; only it
\* and the publisher's own steps change the window.
LEMMA StreamFacts ==
  ASSUME [Next]_vars
  PROVE  /\ ~Land => UNCHANGED <<stream, swallowed>>
         /\ ~(Land \/ Forget) => UNCHANGED recent
         /\ ~(Land \/ Fill \/ Acked \/ Requeue) => UNCHANGED pending
         /\ ~(Fill \/ Requeue \/ \E b \in ready : Submit(b)) => UNCHANGED buffer
  <1> USE DEF capture, pipeline, publisher, broker, shutdown
  <1>1. CASE \/ UNCHANGED vars \/ Clock \/ HealthRound \/ HealthExits \/ PipeTick \/ PipeFlush
             \/ Serve \/ Disconnected
    BY <1>1 DEF vars, Clock, HealthRound, HealthExits, PipeTick, PipeFlush, Serve, Disconnected
  <1>2. CASE \E c \in Collectors : StopCollector(c) \/ CollectorDies(c) \/ Capture(c)
    BY <1>2 DEF StopCollector, CollectorDies, Capture
  <1>3. CASE \/ \E c \in Classes : PutSample(c) \/ PipeDrain(c)
             \/ \E b \in ready : Submit(b)
    BY <1>3 DEF PutSample, PipeDrain, Submit
  <1>4. CASE Fill \/ Filled \/ Acked \/ PublishFails \/ Requeue
    BY <1>4 DEF Fill, Filled, Acked, PublishFails, Requeue
  <1>5. CASE Land \/ Lose \/ Forget
    BY <1>5 DEF Land, Lose, Forget
  <1>6. CASE StopRequested \/ JoinPipeline \/ FinalStatus \/ StopPublisher
    BY <1>6 DEF StopRequested, JoinPipeline, FinalStatus, StopPublisher
  <1> QED BY <1>1, <1>2, <1>3, <1>4, <1>5, <1>6, NextCases

\* A publish enters the window at its end.
LEMMA FillFacts ==
  ASSUME Stamped, Fill
  PROVE  /\ Len(pending') = Len(pending) + 1 /\ Len(pending) \in Nat
         /\ \A i \in 1..Len(pending) : pending'[i] = pending[i]
         /\ pending'[Len(pending) + 1] = [batch |-> Head(buffer), acked |-> FALSE]
         /\ buffer # <<>> /\ buffer' = Tail(buffer) /\ UNCHANGED <<stream, swallowed>>
  <1>1. buffer \in Seq(Parcel(count)) /\ pending \in Seq(Sent(count)) BY DEF Stamped
  <1>2. /\ buffer # <<>> /\ buffer' = Tail(buffer) /\ UNCHANGED <<stream, swallowed>>
        /\ pending' = Append(pending, [batch |-> Head(buffer), acked |-> FALSE])
    BY DEF Fill
  <1>3. Head(buffer) \in Parcel(count) BY <1>1, <1>2, TailFacts
  <1>4. [batch |-> Head(buffer), acked |-> FALSE] \in Sent(count) BY <1>3 DEF Sent
  <1>5. Len(pending) \in Nat BY <1>1
  <1> DEFINE e == [batch |-> Head(buffer), acked |-> FALSE]
  <1>6. pending' = Append(pending, e) /\ e \in Sent(count) BY <1>2, <1>4
  <1> HIDE DEF e
  <1>7. /\ Len(pending') = Len(pending) + 1
        /\ \A i \in 1..Len(pending) : pending'[i] = pending[i]
        /\ pending'[Len(pending) + 1] = e
    BY <1>1, <1>6, AppendFacts
  <1> QED BY <1>2, <1>5, <1>7 DEF e

\* An acknowledged publish leaves the front of the window.
LEMMA AckedFacts ==
  ASSUME Stamped, Marked, Acked
  PROVE  /\ Len(pending) \in Nat \ {0} /\ Len(pending') = Len(pending) - 1
         /\ \A i \in 1..(Len(pending) - 1) : pending'[i] = pending[i + 1]
         /\ pending[1].acked /\ UNCHANGED <<stream, swallowed, buffer>>
  <1>1. pending \in Seq(Sent(count)) /\ pending # <<>> BY DEF Stamped, Marked, Acked
  <1>2. pending' = Tail(pending) /\ Head(pending).acked BY DEF Acked
  <1>3. UNCHANGED <<stream, swallowed, buffer>> BY DEF Acked, broker
  <1> QED BY <1>1, <1>2, <1>3, TailFacts

\* Every step keeps acknowledged batches among the stored or swallowed ones.
LEMMA AckedIsSettledStep ==
  ASSUME Stamped, Marked, AckedIsSettled, [Next]_vars
  PROVE  AckedIsSettled'
  <1>1. CASE ~(Land \/ Fill \/ Acked \/ Requeue)
    <2>1. UNCHANGED <<stream, swallowed, pending>> BY <1>1, StreamFacts
    <2> QED BY <2>1 DEF AckedIsSettled
  <1>2. CASE Land
    <2>1. ASSUME NEW i \in 1..Len(pending'), pending'[i].acked
          PROVE  pending'[i].batch \in Range(stream') \cup swallowed'
      <3>1. /\ i \in 1..Len(pending) /\ pending'[i].batch = pending[i].batch
            /\ (pending[i].acked \/ pending[i].batch = Head(wire).batch)
        BY <1>2, <2>1, LandFacts
      <3>2. CASE pending[i].acked
        <4>1. pending[i].batch \in Range(stream) \cup swallowed
          BY <3>1, <3>2 DEF AckedIsSettled
        <4> QED BY <1>2, <3>1, <4>1, LandFacts
      <3>3. CASE pending[i].batch = Head(wire).batch
        BY <1>2, <3>1, <3>3, LandFacts
      <3> QED BY <3>1, <3>2, <3>3
    <2> QED BY <2>1 DEF AckedIsSettled
  <1>3. CASE Fill
    <2>1. ASSUME NEW i \in 1..Len(pending'), pending'[i].acked
          PROVE  pending'[i].batch \in Range(stream') \cup swallowed'
      <3>1. i \in 1..Len(pending) \/ i = Len(pending) + 1
        BY <1>3, FillFacts
      <3>2. i # Len(pending) + 1
        BY <1>3, <2>1, FillFacts
      <3> QED BY <1>3, <2>1, <3>1, <3>2, FillFacts DEF AckedIsSettled
    <2> QED BY <2>1 DEF AckedIsSettled
  <1>4. CASE Acked
    <2>1. ASSUME NEW i \in 1..Len(pending'), pending'[i].acked
          PROVE  pending'[i].batch \in Range(stream') \cup swallowed'
      <3>1. i \in 1..(Len(pending) - 1) /\ i + 1 \in 1..Len(pending)
        BY <1>4, AckedFacts
      <3>2. pending'[i] = pending[i + 1] /\ UNCHANGED <<stream, swallowed>>
        BY <1>4, <3>1, AckedFacts
      <3> QED BY <2>1, <3>1, <3>2 DEF AckedIsSettled
    <2> QED BY <2>1 DEF AckedIsSettled
  <1>5. CASE Requeue
    <2>1. pending' = <<>> BY <1>5 DEF Requeue
    <2>2. Len(pending') = 0 BY <2>1
    <2> QED BY <2>2 DEF AckedIsSettled
  <1> QED BY <1>1, <1>2, <1>3, <1>4, <1>5

\* Every step keeps the window and the buffer within their bounds.
LEMMA MemoryStep ==
  ASSUME Stamped, Marked, MemoryBounded, [Next]_vars
  PROVE  MemoryBounded'
  <1>0. /\ buffer \in Seq(Parcel(count)) /\ pending \in Seq(Sent(count))
        /\ Len(buffer) \in Nat /\ Len(pending) \in Nat /\ Window \in Nat \ {0} /\ BufferBudget \in Nat
    BY SizesAssumption DEF Stamped
  <1>1. Len(pending') <= Window
    <2>1. CASE ~(Land \/ Fill \/ Acked \/ Requeue)
      BY <2>1, StreamFacts DEF MemoryBounded
    <2>2. CASE Land BY <2>2, LandFacts DEF MemoryBounded
    <2>3. CASE Fill
      <3>1. Len(pending) < Window BY <2>3 DEF Fill
      <3> QED BY <1>0, <2>3, <3>1, FillFacts
    <2>4. CASE Acked BY <1>0, <2>4, AckedFacts DEF MemoryBounded
    <2>5. CASE Requeue
      <3>1. pending' = <<>> BY <2>5 DEF Requeue
      <3>2. Len(pending') = 0 BY <3>1
      <3> QED BY <1>0, <3>2
    <2> QED BY <2>1, <2>2, <2>3, <2>4, <2>5
  <1>2. Size(buffer') <= BufferBudget \/ Len(buffer') = 1
    <2>1. CASE ~(Fill \/ Requeue \/ \E b \in ready : Submit(b))
      BY <2>1, StreamFacts DEF MemoryBounded
    <2>2. CASE Fill
      <3>1. buffer # <<>> /\ buffer' = Tail(buffer) BY <2>2, FillFacts
      <3>2. /\ Tail(buffer) \in Seq(Parcel(count)) /\ Len(Tail(buffer)) = Len(buffer) - 1
        BY <1>0, <3>1, TailFacts
      <3>3. CASE Len(buffer) = 1
        <4>1. Tail(buffer) = <<>> BY <3>2, <3>3, ElementFacts
        <4>2. Size(Tail(buffer)) = 0 BY <3>2, <4>1, SizeTail
        <4> QED BY <1>0, <3>1, <4>2
      <3>4. CASE Size(buffer) <= BufferBudget
        <4>1. Size(Tail(buffer)) <= Size(buffer) /\ Size(buffer) \in Nat /\ Size(Tail(buffer)) \in Nat
          BY <1>0, <3>1, <3>2, SizeTail
        <4> QED BY <1>0, <3>1, <3>4, <4>1
      <3> QED BY <3>3, <3>4 DEF MemoryBounded
    <2>3. CASE \E b \in ready : Submit(b)
      <3>1. PICK b \in ready : Submit(b) BY <2>3
      <3>2. b \in Parcel(count) BY DEF Stamped
      <3>3. Append(buffer, b) \in Seq(Parcel(count)) /\ Append(buffer, b) # <<>>
        BY <1>0, <3>2, AppendFacts
      <3>4. buffer' = KeepNewest(Append(buffer, b)) BY <3>1 DEF Submit
      <3> QED BY <3>3, <3>4, KeepFacts
    <2>4. CASE Requeue
      <3>1. pending # <<>> /\ buffer' = KeepOldest(TakenBack(pending, buffer))
        BY <2>4 DEF Requeue, Marked, TakenBack
      <3>2. TakenBack(pending, buffer) \in Seq(Parcel(count)) /\ TakenBack(pending, buffer) # <<>>
        BY <1>0, <3>1, WindowBack
      <3> QED BY <3>1, <3>2, KeepFacts
    <2> QED BY <2>1, <2>2, <2>3, <2>4
  <1> QED BY <1>1, <1>2 DEF MemoryBounded

\* Every step keeps the ids of the stored batches known and different, as long as
\* the duplicate window lasts.
LEMMA IdsDifferStep ==
  ASSUME Stamped, Placed, IdsDiffer, [Next]_vars
  PROVE  IdsDiffer'
  <1>1. SUFFICES ASSUME ~Spent("forget")'
                 PROVE  /\ \A i \in 1..Len(stream') : Id(stream'[i]) \in recent'
                        /\ \A i, j \in 1..Len(stream') : Id(stream'[i]) = Id(stream'[j]) => i = j
    BY DEF IdsDiffer, Id
  <1>2. ~Forget /\ ~Spent("forget")
    BY <1>1, BudgetFacts DEF Spent
  <1>3. /\ \A i \in 1..Len(stream) : Id(stream[i]) \in recent
        /\ \A i, j \in 1..Len(stream) : Id(stream[i]) = Id(stream[j]) => i = j
    BY <1>2 DEF IdsDiffer
  <1>4. CASE UNCHANGED <<stream, recent>>
    BY <1>3, <1>4
  <1>5. CASE Land /\ ~UNCHANGED <<stream, recent>>
    <2> DEFINE b == Head(wire).batch
    <2>1. Id(b) \notin recent /\ stream' = Append(stream, b) /\ recent' = recent \cup {Id(b)}
      BY <1>5 DEF Land
    <2>2. b \in Parcel(count) /\ stream \in Seq(Parcel(count)) /\ Len(stream) \in Nat
      <3>1. wire \in Seq(Flying(count)) /\ wire # <<>> /\ stream \in Seq(Parcel(count))
        BY <1>5 DEF Land, Stamped
      <3>2. Head(wire) \in Flying(count) BY <3>1, TailFacts
      <3> QED BY <3>1, <3>2 DEF Flying
    <2>3. /\ Len(stream') = Len(stream) + 1 /\ stream'[Len(stream) + 1] = b
          /\ \A i \in 1..Len(stream) : stream'[i] = stream[i]
      BY <2>1, <2>2, AppendFacts
    <2>4. \A i \in 1..Len(stream') : i \in 1..Len(stream) \/ i = Len(stream) + 1
      BY <2>2, <2>3
    <2> HIDE DEF b
    <2>5. \A i \in 1..Len(stream') : Id(stream'[i]) \in recent'
      BY <1>3, <2>1, <2>3, <2>4
    <2>6. ASSUME NEW i \in 1..Len(stream'), NEW j \in 1..Len(stream'), Id(stream'[i]) = Id(stream'[j])
          PROVE  i = j
      <3>1. CASE i \in 1..Len(stream) /\ j \in 1..Len(stream)
        BY <1>3, <2>3, <2>6, <3>1
      <3>2. CASE i = Len(stream) + 1 /\ j \in 1..Len(stream)
        BY <1>3, <2>1, <2>3, <2>6, <3>2
      <3>3. CASE i \in 1..Len(stream) /\ j = Len(stream) + 1
        BY <1>3, <2>1, <2>3, <2>6, <3>3
      <3> QED BY <2>4, <3>1, <3>2, <3>3
    <2> QED BY <2>5, <2>6
  <1> QED BY <1>2, <1>4, <1>5, StreamFacts

-----------------------------------------------------------------------------
(* Where the samples are: no step loses one.                               *)

Loaded ==
  ready \cup Range(buffer) \cup {pending[i].batch : i \in 1..Len(pending)}
    \cup Range(stream) \cup swallowed
Where(s) ==
  \/ \E c \in Classes : s \in Range(stamped[c]) \/ s \in Range(queue[c])
  \/ s \in staged \/ s \in counted
  \/ \E b \in Loaded : s \in b.samples

\* A sample is held or settled exactly when it is in one of these places, in
\* the state before a step and in the one after it.
LEMMA WhereFacts ==
  ASSUME NEW s
  PROVE  /\ s \in Held \cup Settled <=> Where(s)
         /\ (s \in Held \cup Settled)' <=> Where(s)'
  <1>1. s \in Held \cup Settled <=> Where(s)
    BY DEF Held, Settled, Carried, Where, Loaded
  <1>2. (s \in Held \cup Settled)' <=> Where(s)'
    BY DEF Held, Settled, Carried, Where, Loaded
  <1> QED BY <1>1, <1>2

\* If no sample disappears and every new number has its sample, all numbers
\* still have theirs.
LEMMA Survives ==
  ASSUME Complete,
         \A s : Where(s) => Where(s)',
         \A m \in 1..count' : m \in 1..count \/ \E s : Where(s)' /\ s.n = m
  PROVE  Complete'
  <1>1. SUFFICES ASSUME NEW m \in 1..count'
                 PROVE  \E s \in (Held \cup Settled)' : s.n = m
    BY DEF Complete, NumbersOf
  <1>2. CASE m \in 1..count
    <2>1. PICK s \in Held \cup Settled : s.n = m
      BY <1>2 DEF Complete, NumbersOf
    <2>2. Where(s)' BY <2>1, WhereFacts
    <2> QED BY <2>1, <2>2, WhereFacts
  <1>3. CASE \E s : Where(s)' /\ s.n = m
    BY <1>3, WhereFacts
  <1> QED BY <1>2, <1>3

\* A step of the publisher or the broker: it is enough that every batch stays
\* somewhere or has its samples counted.
LEMMA BatchesSurvive ==
  ASSUME Complete, UNCHANGED <<count, stamped, queue, staged>>, counted \subseteq counted',
         \A b \in Loaded : b \in Loaded' \/ b.samples \subseteq counted'
  PROVE  Complete'
  <1>1. ASSUME NEW s, Where(s) PROVE Where(s)'
    <2>1. CASE \E b \in Loaded : s \in b.samples
      <3>1. PICK b \in Loaded : s \in b.samples BY <2>1
      <3>2. CASE b \in Loaded' BY <3>1, <3>2 DEF Where
      <3>3. CASE b.samples \subseteq counted'
        <4>1. s \in counted' BY <3>1, <3>3
        <4> QED BY <4>1 DEF Where
      <3> QED BY <3>1, <3>2, <3>3
    <2>2. CASE s \in staged \/ s \in counted
      <3>1. s \in staged' \/ s \in counted' BY <2>2
      <3> QED BY <3>1 DEF Where
    <2>3. CASE \E c \in Classes : s \in Range(stamped[c]) \/ s \in Range(queue[c])
      <3>1. \E c \in Classes : s \in Range(stamped'[c]) \/ s \in Range(queue'[c]) BY <2>3
      <3> QED BY <3>1 DEF Where
    <2> QED BY <1>1, <2>1, <2>2, <2>3 DEF Where
  <1>2. \A m \in 1..count' : m \in 1..count OBVIOUS
  <1> QED BY <1>1, <1>2, Survives

\* A step in front of the publisher: it is enough that the samples in hand, in
\* the queues and staged stay there or are counted.
LEMMA SamplesSurvive ==
  ASSUME Complete, UNCHANGED <<ready, buffer, pending, stream, swallowed>>,
         counted \subseteq counted',
         \A c \in Classes : \A s \in Range(stamped[c]) \cup Range(queue[c]) : Where(s)',
         staged \subseteq staged',
         \A m \in 1..count' : m \in 1..count \/ \E s : Where(s)' /\ s.n = m
  PROVE  Complete'
  <1>1. ASSUME NEW s, Where(s) PROVE Where(s)'
    <2>1. CASE \E b \in Loaded : s \in b.samples
      <3>1. Loaded' = Loaded BY DEF Loaded
      <3> QED BY <2>1, <3>1 DEF Where
    <2>2. CASE s \in staged \/ s \in counted
      <3>1. s \in staged' \/ s \in counted' BY <2>2
      <3> QED BY <3>1 DEF Where
    <2>3. CASE \E c \in Classes : s \in Range(stamped[c]) \/ s \in Range(queue[c])
      BY <2>3
    <2> QED BY <1>1, <2>1, <2>2, <2>3 DEF Where
  <1> QED BY <1>1, Survives

\* Capturing keeps every sample and adds the next one.
LEMMA CaptureKeeps ==
  ASSUME Stamped, Placed, Sized, Complete, NEW c \in Collectors, Capture(c)
  PROVE  Complete'
  <1>0. PICK new : new = [n |-> count + 1, class |-> c, t |-> now] OBVIOUS
  <1>1. /\ stamped[c] = <<>> /\ count' = count + 1
        /\ stamped' = [stamped EXCEPT ![c] = <<new>>]
        /\ UNCHANGED <<queue, staged, ready, buffer, pending, stream, swallowed, counted>>
    BY <1>0 DEF Capture, pipeline, publisher, broker
  <1>2. c \in Classes /\ DOMAIN stamped = Classes /\ count \in Nat
    BY DEF Classes, Stamped, Placed, Counters
  <1>3. stamped'[c] = <<new>> /\ \A d \in Classes \ {c} : stamped'[d] = stamped[d]
    BY <1>1, <1>2
  <1>4. new.n = count + 1 BY <1>0
  <1>5. Range(<<>>) = {} /\ new \in Range(<<new>>)
    BY DEF Range
  <1>6. Where(new)'
    BY <1>2, <1>3, <1>5 DEF Where
  <1>7. \A d \in Classes : \A s \in Range(stamped[d]) \cup Range(queue[d]) : Where(s)'
    <2>1. SUFFICES ASSUME NEW d \in Classes, NEW s \in Range(stamped[d]) \cup Range(queue[d])
                   PROVE  s \in Range(stamped'[d]) \/ s \in Range(queue'[d])
      BY DEF Where
    <2> QED BY <1>1, <1>3, <1>5
  <1>8. \A m \in 1..count' : m \in 1..count \/ \E s : Where(s)' /\ s.n = m
    <2>1. \A m \in 1..count' : m \in 1..count \/ m = count + 1 BY <1>1, <1>2
    <2> QED BY <1>4, <1>6, <2>1
  <1> QED BY <1>1, <1>7, <1>8, SamplesSurvive

\* A put keeps every sample or counts it.
LEMMA PutKeeps ==
  ASSUME Stamped, Sized, Complete, NEW c \in Classes, PutSample(c)
  PROVE  Complete'
  <1>1. /\ stamped[c] # <<>> /\ Put(c, Head(stamped[c]))
        /\ stamped' = [stamped EXCEPT ![c] = Tail(stamped[c])]
        /\ UNCHANGED <<count, staged, ready, buffer, pending, stream, swallowed>>
    BY DEF PutSample, pipeline, publisher, broker
  <1>2. stamped \in [Classes -> Seq(Upto(count))] BY DEF Stamped
  <1>3. stamped[c] \in Seq(Upto(count)) BY <1>2
  <1>4. /\ Head(stamped[c]) \in Upto(count)
        /\ Range(stamped[c]) = Range(Tail(stamped[c])) \cup {Head(stamped[c])}
    BY <1>1, <1>3, TailFacts
  <1>5. /\ \A d \in Classes \ {c} : queue'[d] = queue[d]
        /\ counted \subseteq counted' /\ Head(stamped[c]) \in Range(queue'[c])
        /\ Range(queue[c]) \subseteq Range(queue'[c]) \cup counted'
    BY <1>1, <1>4, PutFacts
  <1>6. stamped'[c] = Tail(stamped[c]) /\ \A d \in Classes \ {c} : stamped'[d] = stamped[d]
    BY <1>1, <1>2
  <1>7. \A d \in Classes : \A s \in Range(stamped[d]) \cup Range(queue[d]) : Where(s)'
    <2>1. SUFFICES ASSUME NEW d \in Classes, NEW s \in Range(stamped[d]) \cup Range(queue[d])
                   PROVE  s \in Range(stamped'[d]) \/ s \in Range(queue'[d]) \/ s \in counted'
      BY DEF Where
    <2>2. CASE d = c BY <1>4, <1>5, <1>6, <2>2
    <2>3. CASE d # c BY <1>5, <1>6, <2>3
    <2> QED BY <2>2, <2>3
  <1> QED BY <1>1, <1>5, <1>7, SamplesSurvive

\* A drain stages every sample of the queue or counts it.
LEMMA DrainKeeps ==
  ASSUME Stamped, Complete, NEW c \in Classes, PipeDrain(c)
  PROVE  Complete'
  <1>1. PICK kept \in SUBSET Range(queue[c]) :
          staged' = staged \cup kept /\ counted' = counted \cup (Range(queue[c]) \ kept)
    BY DEF PipeDrain
  <1>2. /\ queue' = [queue EXCEPT ![c] = <<>>]
        /\ UNCHANGED <<count, stamped, ready, buffer, pending, stream, swallowed>>
    BY DEF PipeDrain, publisher, broker
  <1>3. \A d \in Classes \ {c} : queue'[d] = queue[d]
    BY <1>2 DEF Stamped
  <1>4. \A d \in Classes : \A s \in Range(stamped[d]) \cup Range(queue[d]) : Where(s)'
    <2>1. SUFFICES ASSUME NEW d \in Classes, NEW s \in Range(stamped[d]) \cup Range(queue[d])
                   PROVE  \/ s \in Range(stamped'[d]) \/ s \in Range(queue'[d])
                          \/ s \in staged' \/ s \in counted'
      BY DEF Where
    <2> QED BY <1>1, <1>2, <1>3
  <1> QED BY <1>1, <1>2, <1>4, SamplesSurvive

\* A health round keeps every sample and adds the ones it stamps.
LEMMA RoundKeeps ==
  ASSUME Stamped, Placed, Sized, Orderly, Complete, HealthRound
  PROVE  Complete'
  <1>1. /\ stamped["derived"] = <<>> /\ health = "wait" /\ count' = count + Metrics
        /\ stamped' = [stamped EXCEPT !["derived"] = HealthSamples]
        /\ UNCHANGED <<queue, staged, ready, buffer, pending, stream, swallowed, counted>>
    BY DEF HealthRound, pipeline, publisher, broker
  <1>2. "derived" \in Classes /\ DOMAIN stamped = Classes /\ count \in Nat /\ Metrics \in Nat
    BY SizesAssumption DEF Classes, Stamped, Placed, Counters
  <1>3. main \in {"running", "health", "drain"}
    BY <1>1 DEF Orderly, Placed, Posts
  <1>4. \A m \in (count + 1)..(count + Metrics) : \E s \in Range(HealthSamples) : s.n = m
    BY <1>3, HealthFacts
  <1>5. stamped'["derived"] = HealthSamples
        /\ \A d \in Classes \ {"derived"} : stamped'[d] = stamped[d]
    BY <1>1, <1>2
  <1>6. Range(<<>>) = {} BY DEF Range
  <1>7. \A d \in Classes : \A s \in Range(stamped[d]) \cup Range(queue[d]) : Where(s)'
    <2>1. SUFFICES ASSUME NEW d \in Classes, NEW s \in Range(stamped[d]) \cup Range(queue[d])
                   PROVE  s \in Range(stamped'[d]) \/ s \in Range(queue'[d])
      BY DEF Where
    <2> QED BY <1>1, <1>5, <1>6
  <1>8. \A s \in Range(HealthSamples) : Where(s)'
    BY <1>2, <1>5 DEF Where
  <1>9. \A m \in 1..count' : m \in 1..count \/ \E s : Where(s)' /\ s.n = m
    <2>1. \A m \in 1..count' : m \in 1..count \/ m \in (count + 1)..(count + Metrics)
      BY <1>1, <1>2
    <2> QED BY <1>4, <1>8, <2>1
  <1> QED BY <1>1, <1>7, <1>9, SamplesSurvive

\* A flush puts every sample into a batch or counts it.
LEMMA FlushKeeps ==
  ASSUME Stamped, Placed, Orderly, Complete, PipeFlush
  PROVE  Complete'
  <1> DEFINE all == staged \cup Range(queue["derived"])
  <1>0. /\ pipe = "drain" /\ queue' = [queue EXCEPT !["derived"] = <<>>]
        /\ UNCHANGED <<count, stamped, buffer, pending, stream, swallowed>>
    BY DEF PipeFlush, publisher, broker
  <1>1. PICK bad \in SUBSET Epochs(all) :
          /\ ready' = Batches(all, Epochs(all) \ bad)
          /\ counted' = counted \cup UNION {InWindow(all, e) : e \in bad}
    BY DEF PipeFlush
  <1>2. ready = {} BY <1>0 DEF Orderly
  <1>3. all \subseteq Upto(count)
    <2>1. /\ staged \subseteq Upto(count) /\ queue["derived"] \in Seq(Upto(count))
      BY DEF Stamped, Classes
    <2>2. Range(queue["derived"]) \subseteq Upto(count) BY <2>1, ElementFacts
    <2> QED BY <2>1, <2>2
  <1>4. /\ Epochs(all) \subseteq 0..MaxTime
        /\ \A s \in all : \E e \in Epochs(all) : s \in InWindow(all, e)
    <2>1. all \subseteq Sample BY <1>3 DEF Upto
    <2> QED BY <2>1, WindowFacts
  <1>5. \A e \in Epochs(all) \ bad : \A s \in InWindow(all, e) : \E b \in ready' : s \in b.samples
    <2>1. Epochs(all) \ bad \subseteq 0..MaxTime BY <1>4
    <2> HIDE DEF all
    <2> QED BY <1>1, <1>3, <2>1, BatchFacts
  <1>6. \A s \in all : Where(s)'
    <2>1. SUFFICES ASSUME NEW s \in all PROVE s \in counted' \/ \E b \in Loaded' : s \in b.samples
      BY DEF Where
    <2>2. PICK e \in Epochs(all) : s \in InWindow(all, e) BY <1>4
    <2>3. CASE e \in bad BY <1>1, <2>2, <2>3
    <2>4. CASE e \notin bad
      <3>1. PICK b \in ready' : s \in b.samples BY <1>5, <2>2, <2>4
      <3>2. b \in Loaded' BY DEF Loaded
      <3> QED BY <3>1, <3>2
    <2> QED BY <2>3, <2>4
  <1>7. \A c \in Classes \ {"derived"} : queue'[c] = queue[c]
    BY <1>0 DEF Stamped
  <1>8. ASSUME NEW s, Where(s) PROVE Where(s)'
    <2>1. CASE s \in all BY <1>6, <2>1
    <2>2. CASE s \in counted
      <3>1. s \in counted' BY <1>1, <2>2
      <3> QED BY <3>1 DEF Where
    <2>3. CASE \E b \in Loaded : s \in b.samples
      <3>1. Loaded \subseteq Loaded' BY <1>0, <1>2 DEF Loaded
      <3> QED BY <2>3, <3>1 DEF Where
    <2>4. ASSUME NEW c \in Classes, s \in Range(stamped[c]) \/ s \in Range(queue[c]), s \notin all
          PROVE  Where(s)'
      <3>1. s \in Range(stamped'[c]) \/ s \in Range(queue'[c])
        BY <1>0, <1>7, <2>4
      <3> QED BY <3>1 DEF Where
    <2>5. s \in staged => s \in all OBVIOUS
    <2> HIDE DEF all
    <2> QED BY <1>8, <2>1, <2>2, <2>3, <2>4, <2>5 DEF Where
  <1> QED BY <1>0, <1>8, Survives

\* The final status keeps every sample or counts it, and adds its own.
LEMMA FinalKeeps ==
  ASSUME Stamped, Placed, Sized, Complete, FinalStatus
  PROVE  Complete'
  <1> DEFINE all == queue["derived"] \o HealthSamples
             cut == Max({0, Len(all) - QueueLen})
  <1>1. /\ main = "drain" /\ count' = count + Metrics
        /\ queue' = [queue EXCEPT !["derived"] = SubSeq(all, cut + 1, Len(all))]
        /\ counted' = counted \cup Range(SubSeq(all, 1, cut))
        /\ UNCHANGED <<stamped, staged, ready, buffer, pending, stream, swallowed>>
    BY DEF FinalStatus, publisher, broker
  <1>2. "derived" \in Classes /\ DOMAIN queue = Classes /\ count \in Nat /\ Metrics \in Nat
        /\ QueueLen \in Nat
    BY SizesAssumption DEF Classes, Stamped, Placed, Counters
  <1>3. /\ HealthSamples \in Seq(Upto(count + Metrics))
        /\ \A m \in (count + 1)..(count + Metrics) : \E s \in Range(HealthSamples) : s.n = m
    BY <1>1, HealthFacts
  <1>4. queue["derived"] \in Seq(Upto(count + Metrics))
    <2>1. count + Metrics \in Nat /\ count <= count + Metrics BY <1>2
    <2>2. queue \in [Classes -> Seq(Upto(count + Metrics))] BY <2>1, WiderStamped
    <2> QED BY <1>2, <2>2
  <1>5. all \in Seq(Upto(count + Metrics)) /\ Range(all) = Range(queue["derived"]) \cup Range(HealthSamples)
    BY <1>3, <1>4, JoinFacts
  <1> HIDE DEF all
  <1>6. cut \in 0..Len(all)
    <2>1. Len(all) \in Nat BY <1>5
    <2>2. CASE Len(all) - QueueLen <= 0
      <3>1. cut = 0 BY <1>2, <2>1, <2>2 DEF Max
      <3> QED BY <2>1, <3>1
    <2>3. CASE Len(all) - QueueLen > 0
      <3>1. cut = Len(all) - QueueLen BY <1>2, <2>1, <2>3 DEF Max
      <3> QED BY <1>2, <2>1, <2>3, <3>1
    <2> QED BY <1>2, <2>1, <2>2, <2>3
  <1> HIDE DEF cut
  <1>7. Range(all) = Range(SubSeq(all, 1, cut)) \cup Range(SubSeq(all, cut + 1, Len(all)))
    BY <1>5, <1>6, CutFacts
  <1>8. /\ Range(all) \subseteq counted' \cup Range(queue'["derived"])
        /\ \A c \in Classes \ {"derived"} : queue'[c] = queue[c]
    <2>1. /\ queue'["derived"] = SubSeq(all, cut + 1, Len(all))
          /\ \A c \in Classes \ {"derived"} : queue'[c] = queue[c]
      BY <1>1, <1>2
    <2> QED BY <1>1, <1>7, <2>1
  <1>9. \A s \in Range(all) : Where(s)'
    <2>1. SUFFICES ASSUME NEW s \in Range(all)
                   PROVE  s \in counted' \/ s \in Range(queue'["derived"])
      BY <1>2 DEF Where
    <2> QED BY <1>8
  <1>10. \A d \in Classes : \A s \in Range(stamped[d]) \cup Range(queue[d]) : Where(s)'
    <2>1. SUFFICES ASSUME NEW d \in Classes, NEW s \in Range(stamped[d]) \cup Range(queue[d]),
                          s \notin Range(all)
                   PROVE  s \in Range(stamped'[d]) \/ s \in Range(queue'[d])
      BY <1>9 DEF Where
    <2>2. CASE d = "derived"
      <3>1. s \in Range(stamped[d]) BY <1>5, <2>1, <2>2
      <3> QED BY <1>1, <3>1
    <2>3. CASE d # "derived" BY <1>1, <1>8, <2>3
    <2> QED BY <2>2, <2>3
  <1>11. \A m \in 1..count' : m \in 1..count \/ \E s : Where(s)' /\ s.n = m
    <2>1. \A m \in 1..count' : m \in 1..count \/ m \in (count + 1)..(count + Metrics)
      BY <1>1, <1>2
    <2> QED BY <1>3, <1>5, <1>9, <2>1
  <1> QED BY <1>1, <1>10, <1>11, SamplesSurvive

\* A submitted batch is buffered; what the buffer sheds is counted.
LEMMA SubmitKeeps ==
  ASSUME Stamped, Complete, NEW n \in ready, Submit(n)
  PROVE  Complete'
  <1>1. /\ ready' = ready \ {n}
        /\ counted' = counted \cup Carried(Range(Append(buffer, n)) \ Range(buffer'))
        /\ UNCHANGED <<count, stamped, queue, staged, pending, stream, swallowed>>
    BY DEF Submit, capture, broker
  <1>2. Range(Append(buffer, n)) = Range(buffer) \cup {n}
    BY SMTT(30), AppendFacts DEF Stamped
  <1>3. ASSUME NEW b \in Loaded PROVE b \in Loaded' \/ b.samples \subseteq counted'
    <2>1. CASE b \in Range(buffer) \cup {n}
      <3>1. CASE b \in Range(buffer') BY <3>1 DEF Loaded
      <3>2. CASE b \notin Range(buffer')
        <4>1. b \in Range(Append(buffer, n)) \ Range(buffer') BY <1>2, <2>1, <3>2
        <4>2. b.samples \subseteq Carried(Range(Append(buffer, n)) \ Range(buffer'))
          BY <4>1 DEF Carried
        <4> QED BY <1>1, <4>2
      <3> QED BY <3>1, <3>2
    <2>2. CASE b \notin Range(buffer) \cup {n}
      <3>1. b \in Loaded' BY <1>1, <2>2 DEF Loaded
      <3> QED BY <3>1
    <2> QED BY <2>1, <2>2
  <1>4. counted \subseteq counted' BY <1>1
  <1> QED BY <1>1, <1>3, <1>4, BatchesSurvive

\* The window goes back into the buffer; what does not fit is counted.
LEMMA RequeueKeeps ==
  ASSUME Stamped, Complete, Requeue
  PROVE  Complete'
  <1> DEFINE all == TakenBack(pending, buffer)
  <1>1. /\ counted' = counted \cup Carried(Range(all) \ Range(buffer'))
        /\ UNCHANGED <<count, stamped, queue, staged, ready, stream, swallowed>>
    BY DEF Requeue, TakenBack, capture, pipeline
  <1>2. Range(all) = {pending[i].batch : i \in 1..Len(pending)} \cup Range(buffer)
    BY SMTT(30), WindowBack DEF Stamped
  <1> HIDE DEF all
  <1>3. ASSUME NEW b \in Loaded PROVE b \in Loaded' \/ b.samples \subseteq counted'
    <2>1. CASE b \in Range(all)
      <3>1. CASE b \in Range(buffer') BY <3>1 DEF Loaded
      <3>2. CASE b \notin Range(buffer')
        <4>1. b.samples \subseteq Carried(Range(all) \ Range(buffer'))
          BY <2>1, <3>2 DEF Carried
        <4> QED BY <1>1, <4>1
      <3> QED BY <3>1, <3>2
    <2>2. CASE b \notin Range(all)
      <3>1. b \in ready \cup Range(stream) \cup swallowed BY <1>2, <2>2 DEF Loaded
      <3>2. b \in Loaded' BY <1>1, <3>1 DEF Loaded
      <3> QED BY <3>2
    <2> QED BY <2>1, <2>2
  <1>4. counted \subseteq counted' BY <1>1
  <1> QED BY <1>1, <1>3, <1>4, BatchesSurvive

\* A batch moves from the buffer into the window.
LEMMA FillKeeps ==
  ASSUME Stamped, Complete, Fill
  PROVE  Complete'
  <1>1. UNCHANGED <<count, stamped, queue, staged, counted, ready, stream, swallowed>>
    BY DEF Fill, capture, pipeline
  <1>2. buffer \in Seq(Parcel(count)) BY DEF Stamped
  <1>3. Range(buffer) = Range(buffer') \cup {Head(buffer)}
    BY <1>2, FillFacts, TailFacts
  <1>4. {pending[i].batch : i \in 1..Len(pending)} \cup {Head(buffer)}
          \subseteq {pending'[i].batch : i \in 1..Len(pending')}
    <2>1. Len(pending) \in Nat /\ Len(pending') = Len(pending) + 1 BY FillFacts
    <2>2. /\ \A i \in 1..Len(pending) : i \in 1..Len(pending') /\ pending'[i].batch = pending[i].batch
          /\ Len(pending) + 1 \in 1..Len(pending') /\ pending'[Len(pending) + 1].batch = Head(buffer)
      BY <2>1, FillFacts
    <2> QED BY <2>2
  <1>5. Loaded \subseteq Loaded' BY <1>1, <1>3, <1>4 DEF Loaded
  <1> QED BY <1>1, <1>5, BatchesSurvive

\* The batch that leaves the window is on the stream, or was taken for a
\* duplicate.
LEMMA AckedKeeps ==
  ASSUME Stamped, Marked, AckedIsSettled, Complete, Acked
  PROVE  Complete'
  <1>1. UNCHANGED <<count, stamped, queue, staged, counted, ready, buffer, stream, swallowed>>
    BY DEF Acked, capture, pipeline, broker
  <1>2. Len(pending) \in Nat \ {0} /\ Len(pending') = Len(pending) - 1 BY AckedFacts
  <1>3. pending[1].batch \in Range(stream) \cup swallowed
    BY SMTT(30), <1>2, AckedFacts DEF AckedIsSettled
  <1>4. ASSUME NEW i \in 1..Len(pending)
        PROVE  \/ pending[i].batch \in Range(stream) \cup swallowed
               \/ pending[i].batch \in {pending'[j].batch : j \in 1..Len(pending')}
    <2>1. CASE i = 1 BY <1>3, <2>1
    <2>2. CASE i # 1
      <3>1. i - 1 \in 1..Len(pending') /\ i - 1 \in 1..(Len(pending) - 1) /\ (i - 1) + 1 = i
        BY <1>2, <2>2
      <3>2. pending'[i - 1] = pending[i] BY <3>1, AckedFacts
      <3> QED BY <3>1, <3>2
    <2> QED BY <2>1, <2>2
  <1>5. Loaded \subseteq Loaded' BY <1>1, <1>4 DEF Loaded
  <1> QED BY <1>1, <1>5, BatchesSurvive

\* The broker only adds to what it holds.
LEMMA LandKeeps ==
  ASSUME Stamped, Complete, Land
  PROVE  Complete'
  <1>1. UNCHANGED <<count, stamped, queue, staged, counted, ready, buffer>>
    BY DEF Land, capture, pipeline
  <1>2. /\ Len(pending') = Len(pending)
        /\ \A i \in 1..Len(pending) : pending'[i].batch = pending[i].batch
        /\ Range(stream) \subseteq Range(stream') /\ swallowed \subseteq swallowed'
    BY LandFacts
  <1>3. {pending[i].batch : i \in 1..Len(pending)} \subseteq {pending'[i].batch : i \in 1..Len(pending')}
    BY <1>2
  <1>4. Loaded \subseteq Loaded' BY <1>1, <1>2, <1>3 DEF Loaded
  <1> QED BY <1>1, <1>4, BatchesSurvive

\* Every step leaves every number with its sample.
LEMMA CompleteStep ==
  ASSUME Stamped, Placed, Sized, Orderly, Marked, AckedIsSettled, Complete, [Next]_vars
  PROVE  Complete'
  <1>1. CASE Quiet \/ Lose
    <2>1. UNCHANGED <<count, stamped, queue, staged, counted, ready, buffer, pending,
                      stream, swallowed>>
      <3>1. CASE Quiet BY <3>1, QuietFacts
      <3>2. CASE Lose BY <3>2 DEF Lose, capture, pipeline, publisher
      <3> QED BY <1>1, <3>1, <3>2
    <2>2. Loaded' = Loaded BY <2>1 DEF Loaded
    <2> QED BY <2>1, <2>2, BatchesSurvive
  <1>2. CASE \E c \in Collectors : Capture(c) BY <1>2, CaptureKeeps
  <1>3. CASE \E c \in Classes : PutSample(c) \/ PipeDrain(c) BY <1>3, PutKeeps, DrainKeeps
  <1>4. CASE HealthRound \/ PipeFlush \/ FinalStatus BY <1>4, RoundKeeps, FlushKeeps, FinalKeeps
  <1>5. CASE \E b \in ready : Submit(b) BY <1>5, SubmitKeeps
  <1>6. CASE Fill \/ Acked \/ Requeue \/ Land BY <1>6, FillKeeps, AckedKeeps, RequeueKeeps, LandKeeps
  <1> QED BY <1>1, <1>2, <1>3, <1>4, <1>5, <1>6, BusyCases

-----------------------------------------------------------------------------
(* The invariant, and what it says of the agent.                           *)

\* The agent starts in the invariant.
LEMMA InitHolds ==
  ASSUME Init
  PROVE  IInv
  <1> USE DEF Init
  <1>0. /\ Range(<<>>) = {} /\ \A S : <<>> \in Seq(S) /\ Len(<<>>) = 0
    BY DEF Range
  <1>1. Stamped
    <2>1. /\ stamped = [c \in Classes |-> <<>>] /\ queue = [c \in Classes |-> <<>>]
          /\ buffer = <<>> /\ pending = <<>> /\ stream = <<>> /\ wire = <<>>
          /\ staged = {} /\ ready = {} /\ counted = {} /\ swallowed = {}
      OBVIOUS
    <2> QED BY <1>0, <2>1 DEF Stamped
  <1>2. Placed
    <2>1. budget \in [FaultKinds -> Nat] /\ \A k \in FaultKinds : budget[k] <= FaultBudget[k]
      <3>1. budget = FaultBudget /\ FaultBudget \in [FaultKinds -> Nat] BY FaultAssumption
      <3>2. \A k \in FaultKinds : budget[k] \in Nat /\ budget[k] = FaultBudget[k] BY <3>1
      <3> QED BY <3>1, <3>2
    <2>2. /\ running \in [Collectors -> BOOLEAN] /\ now \in 0..MaxTime /\ rounds \in 0..MaxRounds
          /\ count \in Nat
      BY SizesAssumption
    <2>3. /\ stop = FALSE /\ stopping = FALSE /\ drained = FALSE /\ last = FALSE
          /\ oldest = FALSE /\ announced = FALSE /\ health = "wait" /\ main = "running"
          /\ pipe = "wait" /\ pub = "connect" /\ todo = {}
      OBVIOUS
    <2> QED BY <2>1, <2>2, <2>3 DEF Placed, Counters, Flags, Posts
  <1>3. Sized
    <2>1. /\ MaxSamples \in Nat /\ Metrics \in Nat /\ QueueLen \in Nat /\ count = 0 /\ rounds = 0
      BY SizesAssumption
    <2>2. \A c \in Classes : Len(queue[c]) = 0 OBVIOUS
    <2> QED BY <2>1, <2>2 DEF Sized
  <1>4. Orderly BY DEF Orderly
  <1>5. Marked BY DEF Marked
  <1>6. AckedIsSettled /\ IdsDiffer
    <2>1. Len(pending) = 0 /\ Len(stream) = 0 OBVIOUS
    <2> QED BY <2>1 DEF AckedIsSettled, IdsDiffer
  <1>7. Complete
    <2>1. count = 0 OBVIOUS
    <2> QED BY <2>1 DEF Complete
  <1>8. Announced BY DEF Announced
  <1>9. MemoryBounded
    <2>1. buffer \in Seq(Parcel(count)) /\ buffer = <<>> /\ Len(pending) = 0 BY <1>1 DEF Stamped
    <2>2. Size(buffer) = 0 BY <2>1, SizeTail
    <2> QED BY <2>1, <2>2, SizesAssumption DEF MemoryBounded
  <1> QED BY <1>1, <1>2, <1>3, <1>4, <1>5, <1>6, <1>7, <1>8, <1>9 DEF IInv

\* The inductive invariant of the agent holds in every behaviour, whatever is
\* captured, shed, lost, timed out or forgotten and whenever the agent is
\* stopped.
THEOREM Invariance == Spec => []IInv
  <1>1. Init => IInv BY InitHolds
  <1>2. IInv /\ [Next]_vars => IInv'
    <2>1. SUFFICES ASSUME IInv, [Next]_vars PROVE IInv' OBVIOUS
    <2>2. /\ Stamped /\ Placed /\ Sized /\ Orderly /\ Marked /\ AckedIsSettled /\ Complete
          /\ IdsDiffer /\ Announced /\ MemoryBounded
      BY <2>1 DEF IInv
    <2>3. Stamped' /\ Placed' /\ Sized' BY <2>1, <2>2, StampedStep, PlacedStep, SizedStep
    <2>4. Orderly' /\ Marked' BY <2>1, <2>2, OrderlyStep, MarkedStep
    <2>5. AckedIsSettled' /\ Complete' BY <2>1, <2>2, AckedIsSettledStep, CompleteStep
    <2>6. IdsDiffer' /\ Announced' /\ MemoryBounded'
      BY <2>1, <2>2, IdsDifferStep, AnnouncedStep, MemoryStep
    <2> QED BY <2>3, <2>4, <2>5, <2>6 DEF IInv
  <1> QED BY <1>1, <1>2, PTL DEF Spec

\* Everything held or settled was stamped, so its number is at most the count.
LEMMA NumbersBounded ==
  ASSUME Stamped, Placed
  PROVE  NumbersOf(Held \cup Settled) \subseteq 1..count
  <1>1. \A s \in Upto(count) : s.n \in 1..count
    BY SizesAssumption DEF Upto, Sample, Numbers, Placed, Counters
  <1>2. ASSUME NEW b \in Loaded PROVE b.samples \subseteq Upto(count)
    <2>1. b \in Parcel(count)
      <3>1. CASE b \in ready \/ b \in swallowed BY <3>1 DEF Stamped
      <3>2. CASE b \in Range(buffer) \/ b \in Range(stream) BY <3>2, ElementFacts DEF Stamped
      <3>3. CASE \E i \in 1..Len(pending) : pending[i].batch = b
        <4>1. PICK i \in 1..Len(pending) : pending[i].batch = b BY <3>3
        <4>2. pending[i] \in Sent(count) BY DEF Stamped
        <4> QED BY <4>1, <4>2 DEF Sent
      <3> QED BY <3>1, <3>2, <3>3 DEF Loaded
    <2> QED BY <2>1 DEF Parcel
  <1>3. ASSUME NEW s, Where(s) PROVE s \in Upto(count)
    <2>1. CASE s \in staged \/ s \in counted BY <2>1 DEF Stamped
    <2>2. CASE \E b \in Loaded : s \in b.samples BY <1>2, <2>2
    <2>3. CASE \E c \in Classes : s \in Range(stamped[c]) \/ s \in Range(queue[c])
      <3>1. PICK c \in Classes : s \in Range(stamped[c]) \/ s \in Range(queue[c]) BY <2>3
      <3>2. stamped[c] \in Seq(Upto(count)) /\ queue[c] \in Seq(Upto(count)) BY DEF Stamped
      <3> QED BY <3>1, <3>2, ElementFacts
    <2> QED BY <1>3, <2>1, <2>2, <2>3 DEF Where
  <1>4. \A s \in Held \cup Settled : s.n \in 1..count BY <1>1, <1>3, WhereFacts
  <1> QED BY <1>4 DEF NumbersOf

\* No sample is lost uncounted, for every number of collectors and samples,
\* every queue length, window and budget: each one is in the agent, on the
\* stream, counted, or in a batch the broker took for a duplicate.
THEOREM AlwaysAccounted == Spec => []Accounted
  <1>1. IInv => Accounted
    <2>1. SUFFICES ASSUME IInv PROVE Accounted OBVIOUS
    <2>2. NumbersOf(Held \cup Settled) \subseteq 1..count BY <2>1, NumbersBounded DEF IInv
    <2>3. 1..count \subseteq NumbersOf(Held \cup Settled) BY <2>1 DEF IInv, Complete
    <2> QED BY <2>2, <2>3 DEF Accounted
  <1> QED BY <1>1, Invariance, PTL

\* The publisher's memory stays within its byte budget (or one batch) and one
\* window, for every size of them.
THEOREM AlwaysMemoryBounded == Spec => []MemoryBounded
  <1>1. IInv => MemoryBounded BY DEF IInv
  <1> QED BY <1>1, Invariance, PTL

\* After a shutdown whose last drain found the publisher idle, everything that
\* was captured has its fate decided, whatever the order in which the threads
\* left.
THEOREM AlwaysNothingLeftBehind == Spec => []NothingLeftBehind
  <1>1. IInv => NothingLeftBehind
    <2>1. SUFFICES ASSUME IInv, main = "stopped", drained
                   PROVE  NumbersOf(Settled) = 1..count
      BY DEF NothingLeftBehind
    <2>2. /\ health = "exited" /\ \A c \in Collectors : ~running[c]
          /\ pipe = "exited" /\ ready = {} /\ staged = {} /\ \A c \in Classes : queue[c] = <<>>
      BY <2>1 DEF IInv, Orderly
    <2>3. \A c \in Classes : stamped[c] = <<>> BY <2>1, <2>2 DEF IInv, Orderly, Classes
    <2>4. buffer = <<>> /\ pending = <<>> BY <2>1 DEF IInv, Marked
    <2>5. Held = {}
      <3>1. Range(<<>>) = {} BY DEF Range
      <3>2. Len(pending) = 0 BY <2>4
      <3>3. {pending[i].batch : i \in 1..Len(pending)} = {} BY <3>2
      <3>4. UNION {Range(stamped[c]) \cup Range(queue[c]) : c \in Classes} = {}
        BY <2>2, <2>3, <3>1
      <3>5. Carried({}) = {} BY DEF Carried
      <3>6. ready \cup Range(buffer) \cup {pending[i].batch : i \in 1..Len(pending)} = {}
        BY <2>2, <2>4, <3>1, <3>3
      <3> QED BY <2>2, <3>4, <3>5, <3>6 DEF Held
    <2>6. NumbersOf(Held \cup Settled) \subseteq 1..count BY <2>1, NumbersBounded DEF IInv
    <2>7. 1..count \subseteq NumbersOf(Held \cup Settled) BY <2>1 DEF IInv, Complete
    <2>8. Held \cup Settled = Settled BY <2>5
    <2> QED BY <2>6, <2>7, <2>8
  <1> QED BY <1>1, Invariance, PTL

\* The stream can be decoded and counted: the registry is on it before any
\* batch, no batch is stored twice while the duplicate window lasts, and every
\* variable keeps its type and every queue its length.
THEOREM AlwaysStreamIsSound == Spec => []StreamIsSound
  <1>1. ASSUME IInv PROVE TypeOK
    <2>1. Stamped /\ Placed /\ Sized BY <1>1 DEF IInv
    <2>2. count \in 0..(MaxSamples + Metrics * (MaxRounds + 1))
      <3>1. count \in Nat /\ rounds \in 0..MaxRounds /\ MaxRounds \in Nat
        BY <2>1, SizesAssumption DEF Placed, Counters
      <3>2. count <= MaxSamples + Metrics * (rounds + 1) BY <2>1 DEF Sized
      <3>3. CASE count = 0
        <4>1. MaxSamples \in Nat /\ Metrics * (MaxRounds + 1) \in Nat BY SizesAssumption
        <4> QED BY <3>3, <4>1
      <3>4. CASE count # 0
        <4>1. count \in Nat \ {0} /\ rounds + 1 \in Nat /\ rounds + 1 <= MaxRounds + 1 BY <3>1, <3>4
        <4>2. count \in Numbers BY <3>2, <4>1, NumberFacts
        <4> QED BY <3>1, <4>2 DEF Numbers
      <3> QED BY <3>3, <3>4
    <2>3. stamped \in [Classes -> Seq(Sample)] /\ queue \in [Classes -> Seq(Sample)]
      <3>1. Upto(count) \subseteq Sample BY DEF Upto
      <3>2. stamped \in [Classes -> Seq(Upto(count))] /\ queue \in [Classes -> Seq(Upto(count))]
        BY <2>1 DEF Stamped
      <3>3. \A c \in Classes : stamped[c] \in Seq(Sample) /\ queue[c] \in Seq(Sample)
        BY <3>1, <3>2, WiderFacts
      <3> QED BY <3>2, <3>3
    <2>4. staged \subseteq Sample BY <2>1 DEF Stamped, Upto
    <2> QED BY <2>1, <2>2, <2>3, <2>4 DEF TypeOK, Placed, Counters, Flags, Posts, Sized
  <1>2. ASSUME IInv PROVE NoDuplicateBatch
    <2>1. SUFFICES ASSUME ~Spent("forget"), NEW i \in 1..Len(stream), NEW j \in 1..Len(stream),
                          stream[i] = stream[j]
                   PROVE  i = j
      BY DEF NoDuplicateBatch
    <2>2. Id(stream[i]) = Id(stream[j]) BY <2>1
    <2> QED BY <1>2, <2>1, <2>2 DEF IInv, IdsDiffer
  <1>3. ASSUME IInv PROVE RegistryFirst
    BY <1>3 DEF IInv, Announced, RegistryFirst
  <1>4. IInv => StreamIsSound BY <1>1, <1>2, <1>3 DEF StreamIsSound
  <1> QED BY <1>4, Invariance, PTL

=============================================================================
