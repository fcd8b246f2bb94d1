------------------------- MODULE VehicleAgentSteps --------------------------
(***************************************************************************)
(* Every step of VehicleAgent keeps the parts of its invariant that are    *)
(* about what it holds: it was stamped, the queues and the buffer keep to  *)
(* their sizes, the shutdown to its order and the window to its marks.     *)
(***************************************************************************)
EXTENDS VehicleAgentFacts

-----------------------------------------------------------------------------
(* Data: what is stamped, staged, buffered, sent and stored.               *)

\* The steps that move no sample.
Quiet ==
  \/ UNCHANGED vars \/ Clock \/ HealthExits \/ PipeTick \/ Serve \/ Filled \/ PublishFails
  \/ Disconnected \/ Forget \/ StopRequested \/ JoinPipeline \/ StopPublisher
  \/ \E c \in Collectors : StopCollector(c) \/ CollectorDies(c)

\* A quiet step leaves every sample where it is.
LEMMA QuietFacts ==
  ASSUME Quiet
  PROVE  UNCHANGED <<count, rounds, stamped, queue, staged, counted, ready, swallowed, buffer,
                     stream, pending, wire, oldest>>
  <1> USE DEF capture, pipeline, publisher, broker, shutdown
  <1>1. CASE UNCHANGED vars \/ Clock \/ HealthExits \/ PipeTick \/ Serve \/ Filled
    BY <1>1 DEF vars, Clock, HealthExits, PipeTick, Serve, Filled
  <1>2. CASE PublishFails \/ Disconnected \/ Forget \/ StopRequested \/ JoinPipeline \/ StopPublisher
    BY <1>2 DEF PublishFails, Disconnected, Forget, StopRequested, JoinPipeline, StopPublisher
  <1>3. CASE \E c \in Collectors : StopCollector(c) \/ CollectorDies(c)
    BY <1>3 DEF StopCollector, CollectorDies
  <1> QED BY <1>1, <1>2, <1>3 DEF Quiet

\* The steps that move samples, and the others.
LEMMA BusyCases ==
  ASSUME [Next]_vars
  PROVE  \/ Quiet \/ \E c \in Collectors : Capture(c)
         \/ \E c \in Classes : PutSample(c) \/ PipeDrain(c)
         \/ HealthRound \/ PipeFlush \/ \E b \in ready : Submit(b)
         \/ Fill \/ Acked \/ Requeue \/ Land \/ Lose \/ FinalStatus
  BY NextCases DEF Quiet

\* More numbers make more samples and more batches.
LEMMA WiderUpto ==
  ASSUME NEW k \in Nat, NEW m \in Nat, k <= m
  PROVE  /\ Upto(k) \subseteq Upto(m) /\ Parcel(k) \subseteq Parcel(m)
         /\ Sent(k) \subseteq Sent(m) /\ Flying(k) \subseteq Flying(m)
  <1>1. Upto(k) \subseteq Upto(m)
    BY DEF Upto, Sample, Numbers
  <1>2. Parcel(k) \subseteq Parcel(m)
    BY <1>1 DEF Parcel
  <1> QED BY <1>1, <1>2 DEF Sent, Flying

\* What was stamped up to the count was stamped up to any later count.
LEMMA WiderStamped ==
  ASSUME Stamped, Placed, NEW m \in Nat, count <= m
  PROVE  /\ stamped \in [Classes -> Seq(Upto(m))] /\ queue \in [Classes -> Seq(Upto(m))]
         /\ staged \subseteq Upto(m) /\ counted \subseteq Upto(m)
         /\ ready \subseteq Parcel(m) /\ swallowed \subseteq Parcel(m)
         /\ buffer \in Seq(Parcel(m)) /\ stream \in Seq(Parcel(m))
         /\ pending \in Seq(Sent(m)) /\ wire \in Seq(Flying(m))
  <1>1. /\ Upto(count) \subseteq Upto(m) /\ Parcel(count) \subseteq Parcel(m)
        /\ Sent(count) \subseteq Sent(m) /\ Flying(count) \subseteq Flying(m)
    BY WiderUpto DEF Placed, Counters
  <1>2. \A q \in Seq(Upto(count)) : q \in Seq(Upto(m))
    BY <1>1, WiderFacts
  <1>3. stamped \in [Classes -> Seq(Upto(m))] /\ queue \in [Classes -> Seq(Upto(m))]
    BY <1>2 DEF Stamped
  <1>4. buffer \in Seq(Parcel(m)) /\ stream \in Seq(Parcel(m))
    BY <1>1, WiderFacts DEF Stamped
  <1>5. pending \in Seq(Sent(m)) /\ wire \in Seq(Flying(m))
    BY <1>1, WiderFacts DEF Stamped
  <1> QED BY <1>1, <1>3, <1>4, <1>5 DEF Stamped

\* A number within the bound of the rounds so far is a number of a sample.
LEMMA NumberFacts ==
  ASSUME NEW r \in Nat, r <= MaxRounds + 1, NEW m \in Nat \ {0}, m <= MaxSamples + Metrics * r
  PROVE  m \in Numbers
  <1>1. /\ MaxSamples \in Nat /\ Metrics \in Nat /\ MaxRounds \in Nat
        /\ Metrics * r \in Nat /\ Metrics * (MaxRounds + 1) \in Nat
    BY SizesAssumption
  <1>2. PICK d \in Nat : MaxRounds + 1 = r + d
    <2>1. (MaxRounds + 1) - r \in Nat /\ MaxRounds + 1 = r + ((MaxRounds + 1) - r)
      BY <1>1
    <2> QED BY <2>1
  <1>3. Metrics * (r + d) = Metrics * r + Metrics * d /\ Metrics * d \in Nat
    BY <1>1
  <1>4. Metrics * r <= Metrics * (MaxRounds + 1)
    BY <1>1, <1>2, <1>3
  <1> QED BY <1>1, <1>4 DEF Numbers

\* One round's worth of numbers more.
LEMMA RoundFacts ==
  ASSUME Placed
  PROVE  /\ MaxSamples \in Nat /\ Metrics \in Nat /\ MaxRounds \in Nat /\ rounds \in Nat
         /\ Metrics * rounds \in Nat /\ Metrics * (rounds + 1) \in Nat
         /\ Metrics * (rounds + 1) = Metrics * rounds + Metrics
         /\ Metrics * ((rounds + 1) + 1) = Metrics * (rounds + 1) + Metrics
  <1>1. MaxSamples \in Nat /\ Metrics \in Nat /\ MaxRounds \in Nat /\ rounds \in Nat
    BY SizesAssumption DEF Placed, Counters
  <1> QED BY <1>1

\* The samples of a round of the health loop, or of the final status.
LEMMA HealthFacts ==
  ASSUME Placed, Sized, main \in {"running", "health", "drain"}
  PROVE  /\ HealthSamples \in Seq(Upto(count + Metrics)) /\ Len(HealthSamples) = Metrics
         /\ \A m \in (count + 1)..(count + Metrics) :
               \E s \in Range(HealthSamples) : s.n = m
  <1>0. count \in Nat /\ now \in 0..MaxTime BY DEF Placed, Counters
  <1>1. count + Metrics <= MaxSamples + Metrics * (rounds + 1)
    <2>1. count <= MaxSamples + Metrics * rounds BY DEF Sized
    <2>2. /\ MaxSamples \in Nat /\ Metrics \in Nat /\ Metrics * rounds \in Nat
          /\ Metrics * (rounds + 1) = Metrics * rounds + Metrics
      BY RoundFacts
    <2> QED BY <1>0, <2>1, <2>2
  <1>2. ASSUME NEW i \in 1..Metrics
        PROVE  [n |-> count + i, class |-> "derived", t |-> now] \in Upto(count + Metrics)
    <2>1. /\ count + i \in Nat \ {0} /\ count + i <= MaxSamples + Metrics * (rounds + 1)
          /\ count + i <= count + Metrics /\ rounds + 1 \in Nat /\ rounds + 1 <= MaxRounds + 1
      BY <1>0, <1>1, RoundFacts DEF Placed, Counters
    <2>2. count + i \in Numbers
      BY <2>1, NumberFacts
    <2> QED BY <1>0, <2>1, <2>2 DEF Upto, Sample, Classes
  <1>3. Metrics \in Nat BY SizesAssumption
  <1>4. HealthSamples \in Seq(Upto(count + Metrics)) /\ Len(HealthSamples) = Metrics
    BY <1>2, <1>3 DEF HealthSamples
  <1>5. ASSUME NEW m \in (count + 1)..(count + Metrics)
        PROVE  \E s \in Range(HealthSamples) : s.n = m
    <2>1. m - count \in 1..Metrics /\ count + (m - count) = m
      BY <1>0, <1>3
    <2>2. HealthSamples[m - count].n = m
      BY <2>1 DEF HealthSamples
    <2>3. HealthSamples[m - count] \in Range(HealthSamples)
      BY <1>4, <2>1, ElementFacts
    <2> QED BY <2>2, <2>3
  <1> QED BY <1>4, <1>5

\* The sample a collector stamps.
LEMMA CaptureFacts ==
  ASSUME Placed, Sized, NEW c \in Collectors, Capture(c)
  PROVE  [n |-> count + 1, class |-> c, t |-> now] \in Upto(count + 1)
  <1>0. count \in Nat /\ now \in 0..MaxTime BY DEF Placed, Counters
  <1>1. count + 1 <= MaxSamples + Metrics * rounds
    BY <1>0, RoundFacts DEF Capture
  <1>2. count + 1 \in Numbers
    <2>1. count + 1 \in Nat \ {0} /\ rounds <= MaxRounds + 1 /\ rounds \in Nat
      BY <1>0, SizesAssumption DEF Placed, Counters
    <2> QED BY <1>1, <2>1, NumberFacts
  <1> QED BY <1>0, <1>2 DEF Upto, Sample, Classes

\* SampleQueue.put loses no sample: the one it sheds is counted.
LEMMA PutFacts ==
  ASSUME Stamped, Sized, NEW c \in Classes, NEW s \in Upto(count), Put(c, s)
  PROVE  /\ queue' \in [Classes -> Seq(Upto(count))] /\ counted' \subseteq Upto(count)
         /\ \A d \in Classes \ {c} : queue'[d] = queue[d]
         /\ counted \subseteq counted' /\ s \in Range(queue'[c])
         /\ Range(queue[c]) \subseteq Range(queue'[c]) \cup counted'
         /\ Len(queue'[c]) <= QueueLen
  <1> DEFINE full == Len(queue[c]) >= QueueLen
             kept == IF full THEN Tail(queue[c]) ELSE queue[c]
  <1>0. QueueLen \in Nat \ {0} BY SizesAssumption
  <1>1. queue[c] \in Seq(Upto(count)) /\ Len(queue[c]) <= QueueLen /\ Len(queue[c]) \in Nat
    BY DEF Stamped, Sized
  <1>2. /\ queue' = [queue EXCEPT ![c] = Append(kept, s)]
        /\ counted' = IF full THEN counted \cup {Head(queue[c])} ELSE counted
    BY DEF Put
  <1>3. full => queue[c] # <<>>
    BY <1>0, <1>1
  <1>4. /\ kept \in Seq(Upto(count)) /\ Len(kept) + 1 <= QueueLen /\ Len(kept) \in Nat
        /\ Range(queue[c]) \subseteq Range(kept) \cup counted'
        /\ counted' \subseteq Upto(count) /\ counted \subseteq counted'
    <2>1. CASE full
      <3>1. /\ Tail(queue[c]) \in Seq(Upto(count)) /\ Len(Tail(queue[c])) = Len(queue[c]) - 1
            /\ Range(queue[c]) = Range(Tail(queue[c])) \cup {Head(queue[c])}
            /\ Head(queue[c]) \in Upto(count)
        BY <1>1, <1>3, <2>1, TailFacts
      <3> QED BY <1>0, <1>1, <1>2, <1>3, <2>1, <3>1 DEF Stamped
    <2>2. CASE ~full
      BY <1>0, <1>1, <1>2, <2>2 DEF Stamped
    <2> QED BY <2>1, <2>2
  <1> HIDE DEF full, kept
  <1>5. /\ Append(kept, s) \in Seq(Upto(count)) /\ Len(Append(kept, s)) = Len(kept) + 1
        /\ Range(Append(kept, s)) = Range(kept) \cup {s}
    BY SMTT(30), <1>4, AppendFacts
  <1>6. queue'[c] = Append(kept, s) /\ \A d \in Classes \ {c} : queue'[d] = queue[d]
    BY <1>2 DEF Stamped
  <1>7. queue' \in [Classes -> Seq(Upto(count))]
    BY <1>2, <1>5 DEF Stamped
  <1> QED BY <1>4, <1>5, <1>6, <1>7

\* The whole window, taken back in front of the buffer.
TakenBack(p, q) == [i \in 1..Len(p) |-> p[i].batch] \o q

\* Taking the window back keeps its batches and the buffer's.
LEMMA WindowBack ==
  ASSUME NEW k, NEW p \in Seq(Sent(k)), NEW q \in Seq(Parcel(k))
  PROVE  /\ TakenBack(p, q) \in Seq(Parcel(k))
         /\ p # <<>> => TakenBack(p, q) # <<>>
         /\ Range(TakenBack(p, q)) = {p[i].batch : i \in 1..Len(p)} \cup Range(q)
  <1> DEFINE w == [i \in 1..Len(p) |-> p[i].batch]
  <1>0. Len(p) \in Nat /\ Len(q) \in Nat OBVIOUS
  <1>1. \A i \in 1..Len(p) : p[i].batch \in Parcel(k)
    <2>1. \A i \in 1..Len(p) : p[i] \in Sent(k) OBVIOUS
    <2> QED BY <2>1 DEF Sent
  <1>2. w \in Seq(Parcel(k)) /\ Len(w) = Len(p)
    BY <1>0, <1>1
  <1>3. Range(w) = {p[i].batch : i \in 1..Len(p)}
    BY <1>0 DEF Range
  <1>4. TakenBack(p, q) = w \o q
    BY DEF TakenBack
  <1> HIDE DEF w
  <1>5. /\ w \o q \in Seq(Parcel(k)) /\ Len(w \o q) = Len(w) + Len(q)
        /\ Range(w \o q) = Range(w) \cup Range(q)
    BY <1>2, JoinFacts
  <1>6. p # <<>> => w \o q # <<>>
    <2>1. p # <<>> => Len(p) # 0 BY ElementFacts
    <2>2. Len(w) # 0 => Len(w \o q) # 0 BY <1>0, <1>2, <1>5
    <2>3. Len(w \o q) # 0 => w \o q # <<>> BY <1>5, ElementFacts
    <2> QED BY <1>2, <2>1, <2>2, <2>3
  <1> QED BY <1>3, <1>4, <1>5, <1>6

\* Every step keeps whatever is held among what was stamped.
LEMMA StampedStep ==
  ASSUME Stamped, Placed, Sized, Orderly, Marked, [Next]_vars
  PROVE  Stamped'
  <1> USE DEF capture, pipeline, publisher, broker, shutdown
  <1>0. count \in Nat /\ Metrics \in Nat BY SizesAssumption DEF Placed, Counters
  <1>1. CASE Quiet
    BY <1>1, QuietFacts DEF Stamped
  <1>2. CASE \E c \in Collectors : Capture(c)
    <2>1. PICK c \in Collectors : Capture(c) BY <1>2
    <2> DEFINE e == [n |-> count + 1, class |-> c, t |-> now]
    <2>2. e \in Upto(count + 1) BY <2>1, CaptureFacts
    <2>3. count' = count + 1 /\ stamped' = [stamped EXCEPT ![c] = <<e>>]
          /\ UNCHANGED <<queue, staged, counted, ready, swallowed, buffer, stream, pending,
                         wire>>
      BY <2>1 DEF Capture
    <2>4. count + 1 \in Nat /\ count <= count + 1 BY <1>0
    <2>5. <<e>> \in Seq(Upto(count + 1))
      <3> HIDE DEF e
      <3> QED BY <2>2
    <2>6. stamped' \in [Classes -> Seq(Upto(count + 1))]
      <3>1. stamped \in [Classes -> Seq(Upto(count + 1))] BY <2>4, WiderStamped
      <3> HIDE DEF e
      <3> QED BY <2>3, <2>5, <3>1
    <2> QED BY <2>3, <2>4, <2>6, WiderStamped DEF Stamped
  <1>3. CASE \E c \in Classes : PutSample(c)
    <2>1. PICK c \in Classes : PutSample(c) BY <1>3
    <2>2. stamped[c] \in Seq(Upto(count)) /\ stamped[c] # <<>>
      BY <2>1 DEF PutSample, Stamped
    <2>3. Tail(stamped[c]) \in Seq(Upto(count)) /\ Head(stamped[c]) \in Upto(count)
      BY <2>2, TailFacts
    <2>4. /\ Put(c, Head(stamped[c])) /\ stamped' = [stamped EXCEPT ![c] = Tail(stamped[c])]
          /\ UNCHANGED <<count, staged, ready, swallowed, buffer, stream, pending, wire>>
      BY <2>1 DEF PutSample
    <2>5. queue' \in [Classes -> Seq(Upto(count))] /\ counted' \subseteq Upto(count)
      BY <2>3, <2>4, PutFacts
    <2>6. stamped' \in [Classes -> Seq(Upto(count))]
      BY <2>3, <2>4 DEF Stamped
    <2> QED BY <2>4, <2>5, <2>6 DEF Stamped
  <1>4. CASE \E c \in Classes : PipeDrain(c)
    <2>1. PICK c \in Classes : PipeDrain(c) BY <1>4
    <2>2. Range(queue[c]) \subseteq Upto(count)
      BY ElementFacts DEF Stamped
    <2>3. staged' \subseteq Upto(count) /\ counted' \subseteq Upto(count)
      BY <2>1, <2>2 DEF PipeDrain, Stamped
    <2>4. queue' \in [Classes -> Seq(Upto(count))]
      BY <2>1 DEF PipeDrain, Stamped
    <2> QED BY <2>1, <2>3, <2>4 DEF PipeDrain, Stamped
  <1>5. CASE HealthRound
    <2>1. main \in {"running", "health", "drain"}
      BY <1>5 DEF HealthRound, Orderly, Placed, Posts
    <2>2. HealthSamples \in Seq(Upto(count + Metrics)) BY <2>1, HealthFacts
    <2>3. /\ count' = count + Metrics /\ stamped' = [stamped EXCEPT !["derived"] = HealthSamples]
          /\ UNCHANGED <<queue, staged, counted, ready, swallowed, buffer, stream, pending,
                         wire>>
      BY <1>5 DEF HealthRound
    <2>4. count + Metrics \in Nat /\ count <= count + Metrics BY <1>0
    <2>5. stamped' \in [Classes -> Seq(Upto(count + Metrics))]
      <3>1. stamped \in [Classes -> Seq(Upto(count + Metrics))] BY <2>4, WiderStamped
      <3> QED BY <2>2, <2>3, <3>1
    <2> QED BY <2>3, <2>4, <2>5, WiderStamped DEF Stamped
  <1>6. CASE PipeFlush
    <2> DEFINE all == staged \cup Range(queue["derived"])
    <2>1. all \subseteq Upto(count)
      BY ElementFacts DEF Stamped, Classes
    <2>2. PICK bad \in SUBSET {e \in Epochs(all) : \E s \in InWindow(all, e) : s.class # "derived"} :
             /\ ready' = Batches(all, Epochs(all) \ bad)
             /\ counted' = counted \cup UNION {InWindow(all, e) : e \in bad}
      BY <1>6 DEF PipeFlush
    <2>3. Epochs(all) \subseteq 0..MaxTime
      BY <2>1, WindowFacts DEF Upto
    <2>4. ready' \subseteq Parcel(count)
      <3>1. Epochs(all) \ bad \subseteq 0..MaxTime BY <2>3
      <3> HIDE DEF all
      <3> QED BY <2>1, <2>2, <3>1, BatchFacts
    <2>5. counted' \subseteq Upto(count)
      BY <2>1, <2>2 DEF InWindow, Stamped
    <2>6. queue' \in [Classes -> Seq(Upto(count))]
      <3>1. queue' = [queue EXCEPT !["derived"] = <<>>] BY <1>6 DEF PipeFlush
      <3>2. queue \in [Classes -> Seq(Upto(count))] BY DEF Stamped
      <3>3. <<>> \in Seq(Upto(count)) OBVIOUS
      <3> QED BY <3>1, <3>2, <3>3
    <2>7. staged' = {} /\ UNCHANGED <<count, stamped, swallowed, buffer, stream, pending, wire>>
      BY <1>6 DEF PipeFlush
    <2> QED BY <2>4, <2>5, <2>6, <2>7 DEF Stamped
  <1>7. CASE \E b \in ready : Submit(b)
    <2>1. PICK b \in ready : Submit(b) BY <1>7
    <2>2. b \in Parcel(count) /\ buffer \in Seq(Parcel(count)) BY DEF Stamped
    <2>3. /\ Append(buffer, b) \in Seq(Parcel(count)) /\ Append(buffer, b) # <<>>
          /\ Range(Append(buffer, b)) = Range(buffer) \cup {b}
      BY SMTT(30), <2>2, AppendFacts
    <2>4. /\ ready' = ready \ {b} /\ buffer' = KeepNewest(Append(buffer, b))
          /\ counted' = counted \cup Carried(Range(Append(buffer, b)) \ Range(buffer'))
          /\ UNCHANGED <<count, stamped, queue, staged, swallowed, stream, pending, wire>>
      BY <2>1 DEF Submit
    <2>5. buffer' \in Seq(Parcel(count)) BY <2>3, <2>4, KeepFacts
    <2>6. Range(Append(buffer, b)) \subseteq Parcel(count)
      BY <2>2, <2>3, ElementFacts
    <2>7. counted' \subseteq Upto(count)
      BY <2>4, <2>6 DEF Carried, Parcel, Stamped
    <2> QED BY <2>4, <2>5, <2>7 DEF Stamped
  <1>8. CASE Fill
    <2>1. buffer \in Seq(Parcel(count)) /\ buffer # <<>>
      BY <1>8 DEF Fill, Stamped
    <2>2. Tail(buffer) \in Seq(Parcel(count)) /\ Head(buffer) \in Parcel(count)
      BY <2>1, TailFacts
    <2>3. /\ [batch |-> Head(buffer), acked |-> FALSE] \in Sent(count)
          /\ [batch |-> Head(buffer), live |-> TRUE] \in Flying(count)
      BY <2>2 DEF Sent, Flying
    <2>4. pending' \in Seq(Sent(count)) /\ wire' \in Seq(Flying(count))
      BY <1>8, <2>3, AppendFacts DEF Fill, Stamped
    <2> QED BY <1>8, <2>2, <2>4 DEF Fill, Stamped
  <1>9. CASE Acked
    <2>1. pending \in Seq(Sent(count)) /\ pending # <<>>
      BY <1>9 DEF Acked, Stamped, Marked
    <2>2. pending' \in Seq(Sent(count))
      BY <1>9, <2>1, TailFacts DEF Acked
    <2> QED BY <1>9, <2>2 DEF Acked, Stamped
  <1>10. CASE Requeue
    <2> DEFINE all == TakenBack(pending, buffer)
    <2>1. pending \in Seq(Sent(count)) /\ pending # <<>> /\ buffer \in Seq(Parcel(count))
      BY <1>10 DEF Requeue, Stamped, Marked
    <2>2. all \in Seq(Parcel(count)) /\ all # <<>>
      BY <2>1, WindowBack
    <2>3. /\ buffer' = KeepOldest(all) /\ pending' = <<>>
          /\ counted' = counted \cup Carried(Range(all) \ Range(buffer'))
          /\ wire' = [i \in 1..Len(wire) |-> [wire[i] EXCEPT !.live = FALSE]]
          /\ UNCHANGED <<count, stamped, queue, staged, ready, swallowed, stream>>
      BY <1>10 DEF Requeue, TakenBack
    <2> HIDE DEF all
    <2>4. buffer' \in Seq(Parcel(count)) BY <2>2, <2>3, KeepFacts
    <2>5. Range(all) \subseteq Parcel(count) BY <2>2, ElementFacts
    <2>6. counted' \subseteq Upto(count)
      BY <2>3, <2>5 DEF Carried, Parcel, Stamped
    <2>7. wire' \in Seq(Flying(count))
      <3>1. Len(wire) \in Nat /\ \A i \in 1..Len(wire) : wire[i] \in Flying(count)
        BY DEF Stamped
      <3>2. \A i \in 1..Len(wire) : [wire[i] EXCEPT !.live = FALSE] \in Flying(count)
        BY <3>1 DEF Flying
      <3> QED BY <2>3, <3>1, <3>2
    <2>8. pending' \in Seq(Sent(count)) BY <2>3
    <2> QED BY <2>3, <2>4, <2>6, <2>7, <2>8 DEF Stamped
  <1>11. CASE Land
    <2>1. wire \in Seq(Flying(count)) /\ wire # <<>> /\ stream \in Seq(Parcel(count))
      BY <1>11 DEF Land, Stamped
    <2>2. Tail(wire) \in Seq(Flying(count)) /\ Head(wire) \in Flying(count)
      BY <2>1, TailFacts
    <2>3. Head(wire).batch \in Parcel(count) BY <2>2 DEF Flying
    <2>4. stream' \in Seq(Parcel(count)) /\ swallowed' \subseteq Parcel(count)
      <3> DEFINE b == Head(wire).batch
      <3>1. \/ stream' = stream /\ swallowed' \in {swallowed, swallowed \cup {b}}
            \/ stream' = Append(stream, b) /\ swallowed' = swallowed
        BY <1>11 DEF Land
      <3> HIDE DEF b
      <3>2. Append(stream, b) \in Seq(Parcel(count))
        BY <2>1, <2>3, AppendFacts DEF b
      <3> QED BY <2>1, <2>3, <3>1, <3>2 DEF Stamped, b
    <2>5. pending' \in Seq(Sent(count))
      <3>1. Len(pending) \in Nat /\ \A i \in 1..Len(pending) : pending[i] \in Sent(count)
        BY DEF Stamped
      <3>2. \A i \in 1..Len(pending) : [pending[i] EXCEPT !.acked = TRUE] \in Sent(count)
        BY <3>1 DEF Sent
      <3>3. CASE pending' = pending BY <3>3 DEF Stamped
      <3>4. CASE pending' = [i \in 1..Len(pending) |->
                              IF Head(wire).live /\ pending[i].batch = Head(wire).batch
                                THEN [pending[i] EXCEPT !.acked = TRUE] ELSE pending[i]]
        BY <3>1, <3>2, <3>4
      <3> QED BY <1>11, <3>3, <3>4 DEF Land
    <2> QED BY <1>11, <2>2, <2>4, <2>5 DEF Land, Stamped
  <1>12. CASE Lose
    <2>1. wire' \in Seq(Flying(count)) BY <1>12 DEF Lose
    <2> QED BY <1>12, <2>1 DEF Lose, Stamped
  <1>13. CASE FinalStatus
    <2> DEFINE all == queue["derived"] \o HealthSamples
               cut == Max({0, Len(all) - QueueLen})
    <2>1. HealthSamples \in Seq(Upto(count + Metrics))
      BY <1>13, HealthFacts DEF FinalStatus
    <2>2. count + Metrics \in Nat /\ count <= count + Metrics BY <1>0
    <2>3. queue \in [Classes -> Seq(Upto(count + Metrics))] BY <2>2, WiderStamped
    <2>4. all \in Seq(Upto(count + Metrics))
      BY <2>1, <2>3, JoinFacts DEF Classes
    <2>5. /\ queue' = [queue EXCEPT !["derived"] = SubSeq(all, cut + 1, Len(all))]
          /\ counted' = counted \cup Range(SubSeq(all, 1, cut)) /\ count' = count + Metrics
          /\ UNCHANGED <<stamped, staged, ready, swallowed, buffer, stream, pending, wire>>
      BY <1>13 DEF FinalStatus
    <2> HIDE DEF all
    <2>6. cut \in 0..Len(all)
      <3>0. Len(all) \in Nat /\ QueueLen \in Nat \ {0} BY <2>4, SizesAssumption
      <3>1. Max({0, Len(all) - QueueLen}) \in {0, Len(all) - QueueLen} /\ Max({0, Len(all) - QueueLen}) >= 0
        BY <3>0 DEF Max
      <3> QED BY <3>0, <3>1
    <2> HIDE DEF cut
    <2>7. /\ SubSeq(all, 1, cut) \in Seq(Upto(count + Metrics))
          /\ SubSeq(all, cut + 1, Len(all)) \in Seq(Upto(count + Metrics))
      BY <2>4, <2>6, CutFacts
    <2>8. queue' \in [Classes -> Seq(Upto(count + Metrics))]
      BY <2>3, <2>5, <2>7
    <2>9. counted' \subseteq Upto(count + Metrics)
      <3>1. counted \subseteq Upto(count + Metrics) BY <2>2, WiderStamped
      <3>2. Range(SubSeq(all, 1, cut)) \subseteq Upto(count + Metrics) BY <2>7, ElementFacts
      <3> QED BY <2>5, <3>1, <3>2
    <2> QED BY <2>2, <2>5, <2>8, <2>9, WiderStamped DEF Stamped
  <1> QED BY <1>1, <1>2, <1>3, <1>4, <1>5, <1>6, <1>7, <1>8, <1>9, <1>10, <1>11, <1>12, <1>13,
             BusyCases

\* Every step keeps the queues within their length and the count within its bound.
LEMMA SizedStep ==
  ASSUME Stamped, Placed, Sized, Orderly, [Next]_vars
  PROVE  Sized'
  <1> USE DEF capture, pipeline, publisher, broker, shutdown
  <1>0. count \in Nat BY DEF Placed, Counters
  <1>l. QueueLen \in Nat \ {0} BY SizesAssumption
  <1>1. CASE Quiet
    <2>1. UNCHANGED <<count, rounds, queue>> BY <1>1, QuietFacts
    <2>2. main' \in {"running", "health", "drain"} => main \in {"running", "health", "drain"}
      <3>1. CASE JoinPipeline BY <3>1 DEF JoinPipeline
      <3>2. CASE StopRequested BY <3>2 DEF StopRequested
      <3>3. CASE StopPublisher BY <3>3 DEF StopPublisher
      <3>4. CASE UNCHANGED vars \/ Clock \/ HealthExits \/ PipeTick \/ Serve \/ Filled
        BY <3>4 DEF vars, Clock, HealthExits, PipeTick, Serve, Filled
      <3>5. CASE PublishFails \/ Disconnected \/ Forget
        BY <3>5 DEF PublishFails, Disconnected, Forget
      <3>6. CASE \E c \in Collectors : StopCollector(c) \/ CollectorDies(c)
        BY <3>6 DEF StopCollector, CollectorDies
      <3> QED BY <1>1, <3>1, <3>2, <3>3, <3>4, <3>5, <3>6 DEF Quiet
    <2> QED BY <2>1, <2>2 DEF Sized
  <1>2. CASE \E c \in Collectors : Capture(c)
    <2>1. PICK c \in Collectors : Capture(c) BY <1>2
    <2>2. count' = count + 1 /\ UNCHANGED <<rounds, queue, main>>
      BY <2>1 DEF Capture
    <2>3. count + 1 <= MaxSamples + Metrics * rounds
      BY <1>0, <2>1, RoundFacts DEF Capture
    <2>4. count + 1 <= MaxSamples + Metrics * (rounds + 1)
      BY <1>0, <2>3, RoundFacts
    <2> QED BY <2>2, <2>3, <2>4 DEF Sized
  <1>3. CASE \E c \in Classes : PutSample(c)
    <2>1. PICK c \in Classes : PutSample(c) BY <1>3
    <2>2. stamped[c] \in Seq(Upto(count)) /\ stamped[c] # <<>>
      BY <2>1 DEF PutSample, Stamped
    <2>3. Head(stamped[c]) \in Upto(count) BY <2>2, TailFacts
    <2>4. Put(c, Head(stamped[c])) /\ UNCHANGED <<count, rounds, main>>
      BY <2>1 DEF PutSample
    <2>5. Len(queue'[c]) <= QueueLen /\ \A d \in Classes \ {c} : queue'[d] = queue[d]
      BY <2>3, <2>4, PutFacts
    <2> QED BY <2>4, <2>5 DEF Sized
  <1>4. CASE \E c \in Classes : PipeDrain(c)
    <2>1. PICK c \in Classes : PipeDrain(c) BY <1>4
    <2>2. queue' = [queue EXCEPT ![c] = <<>>] /\ UNCHANGED <<count, rounds, main>>
      BY <2>1 DEF PipeDrain
    <2>3. \A d \in Classes : Len(queue'[d]) <= QueueLen
      <3>1. Len(<<>>) = 0 OBVIOUS
      <3>2. \A d \in Classes : queue'[d] = IF d = c THEN <<>> ELSE queue[d]
        BY <2>2 DEF Stamped
      <3> QED BY <1>l, <3>1, <3>2 DEF Sized
    <2> QED BY <2>2, <2>3 DEF Sized
  <1>5. CASE HealthRound
    <2>1. main \in {"running", "health", "drain"}
      BY <1>5 DEF HealthRound, Orderly, Placed, Posts
    <2>2. count' = count + Metrics /\ rounds' = rounds + 1 /\ UNCHANGED <<queue, main>>
      BY <1>5 DEF HealthRound
    <2>3. count + Metrics <= MaxSamples + Metrics * (rounds + 1)
      <3>1. count <= MaxSamples + Metrics * rounds BY <2>1 DEF Sized
      <3> QED BY <1>0, <3>1, RoundFacts
    <2>4. count + Metrics <= MaxSamples + Metrics * ((rounds + 1) + 1)
      BY <1>0, <2>3, RoundFacts
    <2> QED BY <2>2, <2>3, <2>4 DEF Sized
  <1>6. CASE PipeFlush
    <2>2. queue' = [queue EXCEPT !["derived"] = <<>>] /\ UNCHANGED <<count, rounds, main>>
      BY <1>6 DEF PipeFlush
    <2>3. \A d \in Classes : Len(queue'[d]) <= QueueLen
      <3>1. Len(<<>>) = 0 OBVIOUS
      <3>2. \A d \in Classes : queue'[d] = IF d = "derived" THEN <<>> ELSE queue[d]
        BY <2>2 DEF Stamped
      <3> QED BY <1>l, <3>1, <3>2 DEF Sized
    <2> QED BY <2>2, <2>3 DEF Sized
  <1>7. CASE \E b \in ready : Submit(b)
    <2>1. UNCHANGED <<count, rounds, queue, main>> BY <1>7 DEF Submit
    <2> QED BY <2>1 DEF Sized
  <1>8. CASE Fill \/ Acked \/ Requeue \/ Land \/ Lose
    <2>1. UNCHANGED <<count, rounds, queue, main>>
      BY <1>8 DEF Fill, Acked, Requeue, Land, Lose
    <2> QED BY <2>1 DEF Sized
  <1>9. CASE FinalStatus
    <2> DEFINE all == queue["derived"] \o HealthSamples
               cut == Max({0, Len(all) - QueueLen})
    <2>1. /\ HealthSamples \in Seq(Upto(count + Metrics)) /\ main = "drain"
          /\ queue["derived"] \in Seq(Upto(count + Metrics))
      <3>1. count + Metrics \in Nat /\ count <= count + Metrics BY <1>0, SizesAssumption
      <3>2. queue \in [Classes -> Seq(Upto(count + Metrics))] BY <3>1, WiderStamped
      <3> QED BY <1>9, <3>2, HealthFacts DEF FinalStatus, Classes
    <2>2. all \in Seq(Upto(count + Metrics)) BY <2>1, JoinFacts
    <2>3. /\ queue' = [queue EXCEPT !["derived"] = SubSeq(all, cut + 1, Len(all))]
          /\ count' = count + Metrics /\ rounds' = rounds /\ main' = "final"
      BY <1>9 DEF FinalStatus
    <2> HIDE DEF all
    <2>4. cut \in 0..Len(all) /\ Len(all) - cut <= QueueLen
      <3>0. Len(all) \in Nat BY <2>2
      <3>1. /\ Max({0, Len(all) - QueueLen}) \in {0, Len(all) - QueueLen}
            /\ Max({0, Len(all) - QueueLen}) >= 0
            /\ Max({0, Len(all) - QueueLen}) >= Len(all) - QueueLen
        BY <1>l, <3>0 DEF Max
      <3> QED BY <1>l, <3>0, <3>1
    <2> HIDE DEF cut
    <2>5. Len(SubSeq(all, cut + 1, Len(all))) <= QueueLen
      BY <2>2, <2>4, CutFacts
    <2>6. \A d \in Classes : Len(queue'[d]) <= QueueLen
      <3>2. \A d \in Classes : queue'[d] = IF d = "derived" THEN SubSeq(all, cut + 1, Len(all)) ELSE queue[d]
        BY <2>3 DEF Stamped
      <3> QED BY <2>5, <3>2 DEF Sized
    <2>7. count + Metrics <= MaxSamples + Metrics * (rounds + 1)
      <3>1. count <= MaxSamples + Metrics * rounds BY <2>1 DEF Sized
      <3> QED BY <1>0, <3>1, RoundFacts
    <2> QED BY <2>3, <2>6, <2>7 DEF Sized
  <1> QED BY <1>1, <1>2, <1>3, <1>4, <1>5, <1>6, <1>7, <1>8, <1>9, BusyCases

\* Every step keeps to the order of the shutdown.
LEMMA OrderlyStep ==
  ASSUME Stamped, Placed, Orderly, [Next]_vars
  PROVE  Orderly'
  <1> USE DEF capture, pipeline, publisher, broker, shutdown
  <1>0. /\ \A c \in Collectors : c \in Classes /\ c # "derived"
        /\ "derived" \in Classes /\ \A c \in Classes : c \in Collectors \/ c = "derived"
    BY ClassAssumption DEF Classes
  <1>t. /\ DOMAIN stamped = Classes /\ DOMAIN queue = Classes
        /\ running \in [Collectors -> BOOLEAN]
    BY DEF Stamped, Placed, Counters
  <1>1. CASE \/ UNCHANGED vars \/ Clock \/ Serve \/ Fill \/ Filled \/ Acked \/ PublishFails
             \/ Requeue \/ Disconnected \/ Land \/ Lose \/ Forget
    <2>1. UNCHANGED <<health, stop, stamped, running, main, pipe, last, ready, staged,
                      queue, todo>>
      <3>1. CASE UNCHANGED vars \/ Clock \/ Serve \/ Fill \/ Filled \/ Acked
        BY <3>1 DEF vars, Clock, Serve, Fill, Filled, Acked
      <3>2. CASE PublishFails \/ Requeue \/ Disconnected \/ Land \/ Lose \/ Forget
        BY <3>2 DEF PublishFails, Requeue, Disconnected, Land, Lose, Forget
      <3> QED BY <1>1, <3>1, <3>2
    <2> QED BY <2>1 DEF Orderly
  <1>2. CASE \E c \in Collectors : StopCollector(c) \/ CollectorDies(c)
    <2>1. PICK c \in Collectors : StopCollector(c) \/ CollectorDies(c) BY <1>2
    <2>2. /\ stamped[c] = <<>> /\ running' = [running EXCEPT ![c] = FALSE]
          /\ UNCHANGED <<health, stop, stamped, main, pipe, last, ready, staged, queue, todo>>
      BY <2>1 DEF StopCollector, CollectorDies
    <2>3. \A d \in Collectors : running'[d] = IF d = c THEN FALSE ELSE running[d]
      BY <1>t, <2>2
    <2> QED BY <2>2, <2>3 DEF Orderly
  <1>3. CASE \E c \in Collectors : Capture(c)
    <2>1. PICK c \in Collectors : Capture(c) BY <1>3
    <2>2. /\ running[c]
          /\ UNCHANGED <<health, stop, running, main, pipe, last, ready, staged, queue, todo>>
      BY <2>1 DEF Capture
    <2>3. \A d \in Classes \ {c} : stamped'[d] = stamped[d]
      BY <1>t, <2>1 DEF Capture
    <2> QED BY <1>0, <2>2, <2>3 DEF Orderly
  <1>4. CASE \E c \in Classes : PutSample(c)
    <2>1. PICK c \in Classes : PutSample(c) BY <1>4
    <2>2. /\ stamped[c] # <<>>
          /\ UNCHANGED <<health, stop, running, main, pipe, last, ready, staged, todo>>
      BY <2>1 DEF PutSample
    <2>3. \A d \in Classes \ {c} : stamped'[d] = stamped[d]
      BY <1>t, <2>1 DEF PutSample
    <2>4. /\ c = "derived" => health # "exited"
          /\ c \in Collectors => running[c]
      BY <2>2 DEF Orderly
    <2>5. main \notin {"drain", "final", "stopped"}
      BY <1>0, <2>4 DEF Orderly
    <2> QED BY <1>0, <2>2, <2>3, <2>4, <2>5 DEF Orderly
  <1>5. CASE \E c \in Classes : PipeDrain(c)
    <2>1. PICK c \in Classes : PipeDrain(c) BY <1>5
    <2>2. /\ pipe = "drain" /\ queue' = [queue EXCEPT ![c] = <<>>] /\ todo' = todo \ {c}
          /\ UNCHANGED <<health, stop, stamped, running, main, pipe, last, ready>>
      BY <2>1 DEF PipeDrain
    <2>3. \A d \in Classes : queue'[d] = IF d = c THEN <<>> ELSE queue[d]
      BY <1>t, <2>2
    <2> QED BY <2>2, <2>3 DEF Orderly
  <1>6. CASE HealthRound
    <2>1. /\ health = "wait"
          /\ UNCHANGED <<health, stop, main, pipe, last, ready, staged, queue, todo>>
          /\ \A c \in Collectors : running[c] => running'[c]
      BY <1>6 DEF HealthRound
    <2>2. \A d \in Classes \ {"derived"} : stamped'[d] = stamped[d]
      BY <1>6, <1>t DEF HealthRound
    <2> QED BY <1>0, <2>1, <2>2 DEF Orderly
  <1>7. CASE HealthExits
    BY <1>7 DEF HealthExits, Orderly
  <1>8. CASE PipeTick
    BY <1>8 DEF PipeTick, Orderly
  <1>9. CASE PipeFlush
    <2>1. /\ pipe = "drain" /\ todo = {"derived"} /\ queue' = [queue EXCEPT !["derived"] = <<>>]
          /\ staged' = {} /\ pipe' = IF ready' = {} THEN Returned ELSE "submit"
          /\ UNCHANGED <<health, stop, stamped, running, main, last>>
      BY <1>9 DEF PipeFlush
    <2>2. \A d \in Classes : queue'[d] = IF d = "derived" THEN <<>> ELSE queue[d]
      BY <1>t, <2>1
    <2>3. main \in {"final", "stopped"} => \A d \in Classes : queue'[d] = <<>>
      BY <2>1, <2>2 DEF Orderly
    <2>4. /\ pipe' \in {"wait", "exited", "submit"} /\ (pipe' # "submit" => ready' = {})
          /\ (last => pipe' # "wait")
      BY <2>1 DEF Returned
    <2>5. main \notin {"drain", "stopped"} BY <2>1 DEF Orderly
    <2> QED BY <2>1, <2>3, <2>4, <2>5 DEF Orderly
  <1>10. CASE \E b \in ready : Submit(b)
    <2>1. /\ pipe = "submit" /\ pipe' = IF ready' = {} THEN Returned ELSE "submit"
          /\ UNCHANGED <<health, stop, stamped, running, main, last, staged, queue, todo>>
      BY <1>10 DEF Submit
    <2>2. /\ pipe' \in {"wait", "exited", "submit"} /\ (pipe' # "submit" => ready' = {})
          /\ (last => pipe' # "wait")
      BY <2>1 DEF Returned
    <2>3. main \notin {"drain", "stopped"} BY <2>1 DEF Orderly
    <2> QED BY <2>1, <2>2, <2>3 DEF Orderly
  <1>11. CASE StopRequested
    BY <1>11 DEF StopRequested, Orderly
  <1>12. CASE JoinPipeline
    BY <1>12 DEF JoinPipeline, Orderly
  <1>13. CASE FinalStatus
    BY <1>13 DEF FinalStatus, Orderly
  <1>14. CASE StopPublisher
    BY <1>14 DEF StopPublisher, Orderly
  <1> QED BY <1>1, <1>2, <1>3, <1>4, <1>5, <1>6, <1>7, <1>8, <1>9, <1>10, <1>11, <1>12, <1>13,
             <1>14, NextCases

-----------------------------------------------------------------------------
(* The publisher's window, its buffer and the stream.                      *)

\* Landing a publish keeps the batches of the window and may acknowledge some.
LEMMA LandFacts ==
  ASSUME Stamped, Land
  PROVE  /\ Len(pending') = Len(pending)
         /\ pending' = <<>> <=> pending = <<>>
         /\ \A i \in 1..Len(pending) :
              /\ pending'[i].batch = pending[i].batch
              /\ pending'[i].acked => pending[i].acked \/ pending[i].batch = Head(wire).batch
         /\ Head(wire).batch \in Range(stream') \cup swallowed'
         /\ Range(stream) \subseteq Range(stream') /\ swallowed \subseteq swallowed'
  <1> DEFINE b == Head(wire).batch
             acks == [i \in 1..Len(pending) |->
                        IF Head(wire).live /\ pending[i].batch = b
                          THEN [pending[i] EXCEPT !.acked = TRUE] ELSE pending[i]]
  <1>0. /\ wire \in Seq(Flying(count)) /\ wire # <<>> /\ stream \in Seq(Parcel(count))
        /\ pending \in Seq(Sent(count)) /\ Len(pending) \in Nat
    BY DEF Land, Stamped
  <1>1. b \in Parcel(count)
    <2>1. Head(wire) \in Flying(count) BY <1>0, TailFacts
    <2> QED BY <2>1 DEF Flying
  <1>2. \/ b \in Range(stream) /\ UNCHANGED <<stream, swallowed>>
        \/ stream' = stream /\ swallowed' = swallowed \cup {b}
        \/ stream' = Append(stream, b) /\ swallowed' = swallowed
    BY DEF Land
  <1>3. Range(Append(stream, b)) = Range(stream) \cup {b}
    BY <1>0, <1>1, AppendFacts
  <1>4. /\ b \in Range(stream') \cup swallowed'
        /\ Range(stream) \subseteq Range(stream') /\ swallowed \subseteq swallowed'
    BY <1>2, <1>3
  <1>5. pending' = pending \/ pending' = acks
    BY DEF Land
  <1>6. \A i \in 1..Len(pending) :
           /\ acks[i].batch = pending[i].batch
           /\ acks[i].acked => pending[i].acked \/ pending[i].batch = b
    <2>1. \A i \in 1..Len(pending) : pending[i] \in Sent(count) BY <1>0
    <2> QED BY <2>1 DEF Sent
  <1>7. Len(acks) = Len(pending) /\ (acks = <<>> <=> pending = <<>>)
    <2>1. Len(acks) = Len(pending) BY <1>0
    <2>2. acks \in Seq(Sent(count))
      <3>1. \A i \in 1..Len(pending) : pending[i] \in Sent(count) BY <1>0
      <3>2. \A i \in 1..Len(pending) : [pending[i] EXCEPT !.acked = TRUE] \in Sent(count)
        BY <3>1 DEF Sent
      <3> QED BY <1>0, <3>1, <3>2
    <2> HIDE DEF acks
    <2> QED BY <1>0, <2>1, <2>2, ElementFacts
  <1> HIDE DEF acks
  <1> QED BY <1>4, <1>5, <1>6, <1>7

\* Every step keeps the window's mark true.
LEMMA MarkedStep ==
  ASSUME Stamped, Placed, Orderly, Marked, [Next]_vars
  PROVE  Marked'
  <1> USE DEF capture, pipeline, publisher, broker, shutdown
  <1>1. CASE \/ UNCHANGED vars \/ Clock \/ HealthRound \/ HealthExits \/ PipeTick \/ PipeFlush
             \/ Serve \/ Disconnected \/ Lose \/ Forget \/ StopRequested \/ JoinPipeline \/ FinalStatus
    <2>1. /\ UNCHANGED <<oldest, pending, buffer, drained>>
          /\ (main' = "stopped" => main = "stopped") /\ (pub' \in {"await", "requeue"} => pub' = pub)
      <3>1. CASE UNCHANGED vars \/ Clock \/ HealthRound \/ HealthExits \/ PipeTick \/ PipeFlush
        BY <3>1 DEF vars, Clock, HealthRound, HealthExits, PipeTick, PipeFlush
      <3>2. CASE Serve \/ Disconnected \/ Lose \/ Forget
        BY <3>2 DEF Serve, Disconnected, Lose, Forget
      <3>3. CASE StopRequested \/ JoinPipeline \/ FinalStatus
        BY <3>3 DEF StopRequested, JoinPipeline, FinalStatus
      <3> QED BY <1>1, <3>1, <3>2, <3>3
    <2> QED BY <2>1 DEF Marked
  <1>2. CASE \E c \in Collectors : StopCollector(c) \/ CollectorDies(c) \/ Capture(c)
    <2>1. UNCHANGED <<oldest, pending, buffer, drained, main, pub>>
      BY <1>2 DEF StopCollector, CollectorDies, Capture
    <2> QED BY <2>1 DEF Marked
  <1>3. CASE \E c \in Classes : PutSample(c) \/ PipeDrain(c)
    <2>1. UNCHANGED <<oldest, pending, buffer, drained, main, pub>>
      BY <1>3 DEF PutSample, PipeDrain
    <2> QED BY <2>1 DEF Marked
  <1>4. CASE \E b \in ready : Submit(b)
    <2>1. pipe = "submit" /\ UNCHANGED <<oldest, pending, drained, main, pub>>
      BY <1>4 DEF Submit
    <2>2. main # "stopped" BY <2>1 DEF Orderly
    <2> QED BY <2>1, <2>2 DEF Marked
  <1>5. CASE Fill
    <2>1. /\ buffer # <<>> /\ pub = "fill" /\ oldest' = TRUE
          /\ pending' = Append(pending, [batch |-> Head(buffer), acked |-> FALSE])
          /\ UNCHANGED <<drained, main, pub>>
      BY <1>5 DEF Fill
    <2>2. pending' # <<>>
      <3>1. buffer \in Seq(Parcel(count)) /\ pending \in Seq(Sent(count)) BY DEF Stamped
      <3>2. Head(buffer) \in Parcel(count) BY <2>1, <3>1, TailFacts
      <3>3. [batch |-> Head(buffer), acked |-> FALSE] \in Sent(count) BY <3>2 DEF Sent
      <3> DEFINE e == [batch |-> Head(buffer), acked |-> FALSE]
      <3>4. e \in Sent(count) /\ pending' = Append(pending, e) BY <2>1, <3>3
      <3> HIDE DEF e
      <3> QED BY <3>1, <3>4, AppendFacts
    <2>3. ~(main = "stopped" /\ drained) BY <2>1 DEF Marked
    <2> QED BY <2>1, <2>2, <2>3 DEF Marked
  <1>6. CASE Filled \/ PublishFails
    <2>1. /\ UNCHANGED <<oldest, pending, buffer, drained, main>>
          /\ (pub' \in {"await", "requeue"} => pending # <<>>)
      <3>1. CASE Filled BY <3>1 DEF Filled
      <3>2. CASE PublishFails BY <3>2 DEF PublishFails, Marked
      <3> QED BY <1>6, <3>1, <3>2
    <2> QED BY <2>1 DEF Marked
  <1>7. CASE Acked
    <2>1. /\ pub = "await" /\ oldest' = (pending' # <<>>) /\ pub' = "fill"
          /\ UNCHANGED <<drained, main>>
      BY <1>7 DEF Acked
    <2>2. ~(main = "stopped" /\ drained) BY <2>1 DEF Marked
    <2> QED BY <2>1, <2>2 DEF Marked
  <1>8. CASE Requeue
    <2>1. /\ pub = "requeue" /\ pending' = <<>> /\ oldest' = FALSE /\ pub' \in {"off", "fill"}
          /\ UNCHANGED <<drained, main>>
      BY <1>8 DEF Requeue
    <2>2. ~(main = "stopped" /\ drained) BY <2>1 DEF Marked
    <2> QED BY <2>1, <2>2 DEF Marked
  <1>9. CASE Land
    <2>1. pending' = <<>> <=> pending = <<>> BY <1>9, LandFacts
    <2>2. UNCHANGED <<oldest, pub, buffer, drained, main>> BY <1>9 DEF Land
    <2> QED BY <2>1, <2>2 DEF Marked
  <1>10. CASE StopPublisher
    <2>1. drained' \in {FALSE, Idle} /\ UNCHANGED <<oldest, pending, buffer, pub>>
      BY <1>10 DEF StopPublisher
    <2>2. drained' => buffer = <<>> /\ pending = <<>>
      BY <2>1 DEF Idle, Marked
    <2> QED BY <2>1, <2>2 DEF Marked
  <1> QED BY <1>1, <1>2, <1>3, <1>4, <1>5, <1>6, <1>7, <1>8, <1>9, <1>10, NextCases

=============================================================================
