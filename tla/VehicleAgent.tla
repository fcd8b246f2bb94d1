---------------------------- MODULE VehicleAgent ----------------------------
(***************************************************************************)
(* The vehicle agent (src/src/agent/): collector threads stamp samples and *)
(* put them on bounded queues; the pipeline thread drains the queues every *)
(* tick, cuts what it staged into tick windows and submits one batch per   *)
(* source class and window; the publisher's event loop sends the batches   *)
(* to JetStream through a window of unacknowledged publishes; the health   *)
(* thread restarts collectors and adds samples of its own; the main thread *)
(* shuts all of them down in order.                                        *)
(*                                                                         *)
(* A sample is its number, class and capture time.  Whether it has a       *)
(* mapping, passes report-by-exception and can be encoded depends on its   *)
(* value and is left open.  A batch has as many bytes as samples.  Times   *)
(* are milliseconds of a clock that is never stepped.                      *)
(***************************************************************************)
EXTENDS Integers, Sequences, FiniteSets, FiniteSetsExt

CONSTANTS Collectors,    \* the collectors, each with a queue of its own
          MaxSamples,    \* bound: samples captured by the collectors
          MaxRounds,     \* bound: rounds of the health loop
          Metrics,       \* samples per round, all with one time stamp
          MaxTime,       \* bound: the clock
          Tick,          \* tick_ms
          QueueLen,      \* queue_maxlen
          Window,        \* publish_window
          BufferBudget,  \* publish_buffer_bytes
          FaultBudget,   \* bound: how often each fault may happen
          MaxFaults      \* bound: how many kinds of fault in one behaviour

FaultKinds == {"collector", "serve", "timeout", "lose", "ack", "forget"}

ASSUME SizesAssumption ==
  /\ MaxSamples \in Nat /\ MaxRounds \in Nat /\ Metrics \in Nat /\ MaxTime \in Nat
  /\ Tick \in Nat \ {0} /\ QueueLen \in Nat \ {0}
  /\ Window \in Nat \ {0} /\ BufferBudget \in Nat
ASSUME ClassAssumption == IsFiniteSet(Collectors) /\ "derived" \notin Collectors
ASSUME FaultAssumption == FaultBudget \in [FaultKinds -> Nat] /\ MaxFaults \in Nat

VARIABLES
  now,        \* the monotonic clock
  count,      \* samples stamped so far
  rounds,     \* rounds of the health loop so far
  running,    \* the collector's thread is alive
  stamped,    \* what a collector or the health thread stamped and has not put yet
  queue,      \* SampleQueue._queue of each class
  stop,       \* VehicleAgent._stop
  health,     \* where the health thread is
  main,       \* where the main thread is in stop()
  pipe,       \* where the pipeline thread is
  last,       \* its current drain is the one after its loop
  todo,       \* queues the current _drain_and_flush has still to drain
  staged,     \* Pipeline._staged
  ready,      \* batches flush returned that are not submitted yet
  buffer,     \* JetStreamPublisher._buffer
  pending,    \* the window: batches sent, and whether the ack is there
  oldest,     \* _oldest_pending_mono_ns is not None
  pub,        \* where the publisher's loop is
  stopping,   \* JetStreamPublisher._stopping
  drained,    \* the last drain saw the publisher idle
  wire,       \* publishes on their way to the broker
  stream,     \* TELE, without its copies of the registry
  announced,  \* TELE holds the registry
  recent,     \* message ids in the duplicate window
  counted,    \* history: samples whose loss the agent counts (or logs)
  swallowed,  \* history: batches refused as duplicates of another batch
  budget      \* faults left

capture == <<count, rounds, running, stamped, queue, health>>
pipeline == <<pipe, last, todo, staged, ready>>
publisher == <<buffer, pending, oldest, pub>>
broker == <<wire, stream, announced, recent, swallowed>>
shutdown == <<stop, main, stopping, drained>>
vars == <<now, capture, pipeline, publisher, broker, shutdown, counted, budget>>

Classes == Collectors \cup {"derived"}
Numbers == 1..(MaxSamples + Metrics * (MaxRounds + 1))
Sample == [n : Numbers, class : Classes, t : 0..MaxTime]
Batch == [class : Classes, epoch : 0..MaxTime, samples : SUBSET Sample]

Spend(fault) == /\ budget[fault] > 0
                /\ Cardinality({k \in FaultKinds \ {fault} : budget[k] < FaultBudget[k]}) < MaxFaults
                /\ budget' = [budget EXCEPT ![fault] = @ - 1]

Init ==
  /\ now = 0 /\ count = 0 /\ rounds = 0
  /\ running = [c \in Collectors |-> TRUE]
  /\ stamped = [c \in Classes |-> <<>>] /\ queue = [c \in Classes |-> <<>>]
  /\ stop = FALSE /\ health = "wait" /\ main = "running"
  /\ pipe = "wait" /\ last = FALSE /\ todo = {} /\ staged = {} /\ ready = {}
  /\ buffer = <<>> /\ pending = <<>> /\ oldest = FALSE /\ pub = "connect"
  /\ stopping = FALSE /\ drained = FALSE
  /\ wire = <<>> /\ stream = <<>> /\ announced = FALSE /\ recent = {}
  /\ counted = {} /\ swallowed = {}
  /\ budget = FaultBudget

-----------------------------------------------------------------------------
(* Capture: the collectors, their queues and the health thread.            *)

Clock == /\ now < MaxTime /\ now' = now + 1
         /\ UNCHANGED <<capture, pipeline, publisher, broker, shutdown, counted, budget>>

\* A collector stamps a sample; it reaches the queue in a later step.
Capture(c) ==
  /\ running[c] /\ stamped[c] = <<>>
  /\ count - Metrics * rounds < MaxSamples
  /\ count' = count + 1
  /\ stamped' = [stamped EXCEPT ![c] = <<[n |-> count + 1, class |-> c, t |-> now]>>]
  /\ UNCHANGED <<now, rounds, running, queue, health, pipeline, publisher, broker, shutdown,
                 counted, budget>>

\* SampleQueue.put: shed the oldest sample when the queue is full.
Put(c, s) ==
  LET full == Len(queue[c]) >= QueueLen
      kept == IF full THEN Tail(queue[c]) ELSE queue[c]
  IN  /\ queue' = [queue EXCEPT ![c] = Append(kept, s)]
      /\ counted' = IF full THEN counted \cup {Head(queue[c])} ELSE counted

PutSample(c) ==
  /\ stamped[c] # <<>>
  /\ Put(c, Head(stamped[c]))
  /\ stamped' = [stamped EXCEPT ![c] = Tail(@)]
  /\ UNCHANGED <<now, count, rounds, running, health, pipeline, publisher, broker,
                 shutdown, budget>>

CollectorDies(c) ==
  /\ running[c] /\ stamped[c] = <<>> /\ Spend("collector")
  /\ running' = [running EXCEPT ![c] = FALSE]
  /\ UNCHANGED <<now, count, rounds, stamped, queue, health, pipeline, publisher, broker,
                 shutdown, counted>>

HealthSamples == [i \in 1..Metrics |-> [n |-> count + i, class |-> "derived", t |-> now]]

\* A round of the health loop restarts the dead collectors whose backoff is
\* over, then emits its samples one by one (PutSample).
HealthRound ==
  /\ health = "wait" /\ ~stop /\ rounds < MaxRounds /\ stamped["derived"] = <<>>
  /\ \E up \in SUBSET {c \in Collectors : ~running[c]} :
       running' = [c \in Collectors |-> running[c] \/ c \in up]
  /\ stamped' = [stamped EXCEPT !["derived"] = HealthSamples]
  /\ count' = count + Metrics /\ rounds' = rounds + 1
  /\ UNCHANGED <<now, queue, health, pipeline, publisher, broker, shutdown, counted, budget>>

HealthExits ==
  /\ health = "wait" /\ stop /\ stamped["derived"] = <<>>
  /\ health' = "exited"
  /\ UNCHANGED <<now, count, rounds, running, stamped, queue, pipeline, publisher, broker,
                 shutdown, counted, budget>>

-----------------------------------------------------------------------------
(* The pipeline thread.                                                    *)

\* A tick, or the final drain once the loop sees the stop flag.
PipeTick ==
  /\ pipe = "wait"
  /\ pipe' = "drain" /\ last' = stop /\ todo' = Classes
  /\ UNCHANGED <<now, capture, staged, ready, publisher, broker, shutdown, counted, budget>>

\* Windows are anchored on the earliest staged sample they hold.
Epochs(S) ==
  LET times == {s.t : s \in S} IN
  CHOOSE E \in SUBSET times :
    \A t \in times : t \in E <=> \A e \in E : ~(e < t /\ t - e < Tick)

InWindow(S, e) == {s \in S : e <= s.t /\ s.t - e < Tick}

\* One batch per class and window.
Batches(S, epochs) ==
  LET of(p) == {s \in InWindow(S, p[1]) : s.class = p[2]} IN
  {[class |-> p[2], epoch |-> p[1], samples |-> of(p)] :
     p \in {q \in epochs \X Classes : of(q) # {}}}

\* SampleQueue.drain and ingest, queue by queue; the agent's own comes last.
\* The collectors' samples may be unmapped or suppressed.
PipeDrain(c) ==
  /\ pipe = "drain" /\ c \in todo \ {"derived"}
  /\ \E kept \in SUBSET Range(queue[c]) :
       /\ staged' = staged \cup kept
       /\ counted' = counted \cup (Range(queue[c]) \ kept)
  /\ queue' = [queue EXCEPT ![c] = <<>>]
  /\ todo' = todo \ {c}
  /\ UNCHANGED <<now, count, rounds, running, stamped, health, pipe, last, ready,
                 publisher, broker, shutdown, budget>>

Returned == IF last THEN "exited" ELSE "wait"

\* The agent's own queue, and then flush.  A window with a value that cannot be
\* encoded is discarded as a whole; the agent's own values always can.
PipeFlush ==
  /\ pipe = "drain" /\ todo = {"derived"}
  /\ LET all == staged \cup Range(queue["derived"]) IN
     \E bad \in SUBSET {e \in Epochs(all) : \E s \in InWindow(all, e) : s.class # "derived"} :
       /\ ready' = Batches(all, Epochs(all) \ bad)
       /\ counted' = counted \cup UNION {InWindow(all, e) : e \in bad}
  /\ queue' = [queue EXCEPT !["derived"] = <<>>]
  /\ staged' = {} /\ todo' = {}
  /\ pipe' = IF ready' = {} THEN Returned ELSE "submit"
  /\ UNCHANGED <<now, count, rounds, running, stamped, health, last, publisher, broker,
                 shutdown, budget>>

-----------------------------------------------------------------------------
(* The publisher: submit runs on the pipeline thread, the rest on its loop. *)

Carried(batches) == UNION {b.samples : b \in batches}
Size(batches) ==
  LET bytes[k \in 0..Len(batches)] ==
        IF k = 0 THEN 0 ELSE bytes[k - 1] + Cardinality(batches[k].samples)
  IN  bytes[Len(batches)]

\* What is left of a buffer when batches are shed from its old end, or from its
\* new end, until it fits the budget or is down to one.
KeepNewest(batches) ==
  LET rest(k) == SubSeq(batches, k, Len(batches))
      fits == {k \in 1..Len(batches) : Size(rest(k)) <= BufferBudget} \cup {Len(batches)}
  IN  rest(Min(fits))
KeepOldest(batches) ==
  LET rest(k) == SubSeq(batches, 1, k)
      fits == {k \in 1..Len(batches) : Size(rest(k)) <= BufferBudget} \cup {1}
  IN  rest(Max(fits))

Submit(b) ==
  /\ pipe = "submit" /\ b \in ready /\ \A r \in ready : b.epoch <= r.epoch
  /\ ready' = ready \ {b}
  /\ pipe' = IF ready' = {} THEN Returned ELSE "submit"
  /\ buffer' = KeepNewest(Append(buffer, b))
  /\ counted' = counted \cup Carried(Range(Append(buffer, b)) \ Range(buffer'))
  /\ UNCHANGED <<now, capture, last, todo, staged, pending, oldest, pub, broker, shutdown,
                 budget>>

\* A connection provisions the streams and publishes the registry before any
\* batch; if that fails it is closed and another one is made.
Serve ==
  /\ pub = "connect" /\ ~stopping
  /\ \/ /\ pub' = "fill" /\ announced' = TRUE
        /\ UNCHANGED budget
     \/ /\ Spend("serve")
        /\ UNCHANGED <<pub, announced>>
  /\ UNCHANGED <<now, capture, pipeline, buffer, pending, oldest, wire, stream, recent,
                 swallowed, shutdown, counted>>

\* Variant: the window does not say that it holds something.
FillUnmarked ==
  /\ pub = "fill" /\ Len(pending) < Window /\ buffer # <<>>
  /\ buffer' = Tail(buffer)
  /\ pending' = Append(pending, [batch |-> Head(buffer), acked |-> FALSE])
  /\ wire' = Append(wire, [batch |-> Head(buffer), live |-> TRUE])
  /\ UNCHANGED <<now, capture, pipeline, oldest, pub, stream, announced, recent, swallowed, shutdown,
                 counted, budget>>

\* _fill_window takes the lock once per batch.
Fill ==
  /\ pub = "fill" /\ Len(pending) < Window /\ buffer # <<>>
  /\ buffer' = Tail(buffer)
  /\ pending' = Append(pending, [batch |-> Head(buffer), acked |-> FALSE])
  /\ wire' = Append(wire, [batch |-> Head(buffer), live |-> TRUE])
  /\ oldest' = TRUE
  /\ UNCHANGED <<now, capture, pipeline, pub, stream, announced, recent, swallowed, shutdown,
                 counted, budget>>

\* Variant: the loop does not look at the stop flag.
FilledStays ==
  /\ pub = "fill" /\ (Len(pending) = Window \/ buffer = <<>>) /\ pending # <<>>
  /\ pub' = "await"
  /\ UNCHANGED <<now, capture, pipeline, buffer, pending, oldest, broker, shutdown, counted,
                 budget>>

\* The window is full or the buffer is empty: wait for the oldest publish, or
\* leave when there is none and the publisher is stopping.
Filled ==
  /\ pub = "fill" /\ (Len(pending) = Window \/ buffer = <<>>)
  /\ pending # <<>> \/ stopping
  /\ pub' = IF pending # <<>> THEN "await" ELSE "off"
  /\ UNCHANGED <<now, capture, pipeline, buffer, pending, oldest, broker, shutdown, counted,
                 budget>>

Acked ==
  /\ pub = "await" /\ Head(pending).acked
  /\ pending' = Tail(pending) /\ oldest' = (pending' # <<>>)
  /\ pub' = "fill"
  /\ UNCHANGED <<now, capture, pipeline, buffer, broker, shutdown, counted, budget>>

\* The oldest publish times out: for certain when it was lost, else because the
\* answer is too late.
PublishFails ==
  /\ pub = "await" /\ ~Head(pending).acked
  /\ \/ /\ \A i \in 1..Len(wire) : wire[i] # [batch |-> Head(pending).batch, live |-> TRUE]
        /\ UNCHANGED budget
     \/ Spend("timeout")
  /\ pub' = "requeue"
  /\ UNCHANGED <<now, capture, pipeline, buffer, pending, oldest, broker, shutdown, counted>>

\* Variant: the publish that failed is not put back.
RequeueTail ==
  /\ pub = "requeue"
  /\ buffer' = [i \in 1..(Len(pending) - 1) |-> pending[i + 1].batch] \o buffer
  /\ pending' = <<>> /\ oldest' = FALSE
  /\ wire' = [i \in 1..Len(wire) |-> [wire[i] EXCEPT !.live = FALSE]]
  /\ pub' = IF stopping THEN "off" ELSE "fill"
  /\ UNCHANGED <<now, capture, pipeline, stream, announced, recent, swallowed, shutdown, counted,
                 budget>>

\* Variant: what is put back is not held to the budget.
RequeueAll ==
  /\ pub = "requeue"
  /\ buffer' = [i \in 1..Len(pending) |-> pending[i].batch] \o buffer
  /\ pending' = <<>> /\ oldest' = FALSE
  /\ wire' = [i \in 1..Len(wire) |-> [wire[i] EXCEPT !.live = FALSE]]
  /\ pub' = IF stopping THEN "off" ELSE "fill"
  /\ UNCHANGED <<now, capture, pipeline, stream, announced, recent, swallowed, shutdown, counted,
                 budget>>

\* The whole window goes back in front of the buffer, acknowledged or not; what
\* does not fit is shed from the new end.
Requeue ==
  /\ pub = "requeue"
  /\ LET all == [i \in 1..Len(pending) |-> pending[i].batch] \o buffer IN
       /\ buffer' = KeepOldest(all)
       /\ counted' = counted \cup Carried(Range(all) \ Range(buffer'))
  /\ pending' = <<>> /\ oldest' = FALSE
  /\ wire' = [i \in 1..Len(wire) |-> [wire[i] EXCEPT !.live = FALSE]]
  /\ pub' = IF stopping THEN "off" ELSE "fill"
  /\ UNCHANGED <<now, capture, pipeline, stream, announced, recent, swallowed, shutdown,
                 budget>>

Disconnected ==
  /\ pub = "connect" /\ stopping
  /\ pub' = "off"
  /\ UNCHANGED <<now, capture, pipeline, buffer, pending, oldest, broker, shutdown, counted,
                 budget>>

-----------------------------------------------------------------------------
(* The broker: external.                                                   *)

\* Variant: every attempt has an id of its own.
IdPerAttempt(b) == <<b.class, Len(stream)>>

Id(b) == <<b.class, b.epoch>>

\* The broker stores a publish unless its id is in the duplicate window, and
\* answers; the answer of a cancelled publish goes nowhere.
Land ==
  /\ wire # <<>>
  /\ wire' = Tail(wire)
  /\ LET b == Head(wire).batch IN
       /\ IF Id(b) \in recent
            THEN /\ swallowed' = IF b \in Range(stream) THEN swallowed ELSE swallowed \cup {b}
                 /\ UNCHANGED <<stream, recent>>
            ELSE /\ stream' = Append(stream, b) /\ recent' = recent \cup {Id(b)}
                 /\ UNCHANGED swallowed
       /\ \/ /\ pending' = [i \in 1..Len(pending) |->
                              IF Head(wire).live /\ pending[i].batch = b
                                THEN [pending[i] EXCEPT !.acked = TRUE] ELSE pending[i]]
             /\ UNCHANGED budget
          \/ Head(wire).live /\ Spend("ack") /\ UNCHANGED pending
  /\ UNCHANGED <<now, capture, pipeline, buffer, oldest, pub, announced, shutdown, counted>>

\* The connection breaks with publishes on the way.
Lose ==
  /\ wire # <<>> /\ Spend("lose")
  /\ wire' = <<>>
  /\ UNCHANGED <<now, capture, pipeline, publisher, stream, announced, recent, swallowed,
                 shutdown, counted>>

\* The duplicate window (two minutes) runs out.
Forget ==
  /\ recent # {} /\ Spend("forget")
  /\ recent' = {}
  /\ UNCHANGED <<now, capture, pipeline, publisher, wire, stream, announced, swallowed,
                 shutdown, counted>>

-----------------------------------------------------------------------------
(* Shutdown, on the main thread.                                           *)

StopRequested ==
  /\ main = "running"
  /\ stop' = TRUE /\ main' = "health"
  /\ UNCHANGED <<now, capture, pipeline, publisher, broker, stopping, drained, counted, budget>>

\* The health thread is joined first, so that it restarts nothing any more; a
\* collector's stop joins its thread, which finishes the put it is in.
StopCollector(c) ==
  /\ main = "health" /\ health = "exited" /\ running[c] /\ stamped[c] = <<>>
  /\ running' = [running EXCEPT ![c] = FALSE]
  /\ UNCHANGED <<now, count, rounds, stamped, queue, health, pipeline, publisher, broker,
                 shutdown, counted, budget>>

JoinPipeline ==
  /\ main = "health" /\ health = "exited" /\ pipe = "exited"
  /\ \A c \in Collectors : ~running[c]
  /\ main' = "drain"
  /\ UNCHANGED <<now, capture, pipeline, publisher, broker, stop, stopping, drained, counted,
                 budget>>

Idle == buffer = <<>> /\ ~oldest

\* drain returned, with the publisher idle or not; the final status is emitted and the pipeline is
\* driven from this thread: every queue is drained and flushed once more.
FinalStatus ==
  /\ main = "drain"
  /\ count' = count + Metrics
  /\ LET all == queue["derived"] \o HealthSamples
         cut == Max({0, Len(all) - QueueLen})
     IN  /\ queue' = [queue EXCEPT !["derived"] = SubSeq(all, cut + 1, Len(all))]
         /\ counted' = counted \cup Range(SubSeq(all, 1, cut))
  /\ pipe' = "drain" /\ last' = TRUE /\ todo' = Classes
  /\ main' = "final"
  /\ UNCHANGED <<now, rounds, running, stamped, health, staged, ready, publisher, broker,
                 stop, stopping, drained, budget>>

\* The second drain returned; the publisher is told to stop.
StopPublisher ==
  /\ main = "final" /\ pipe = "exited"
  /\ drained' \in {FALSE, Idle}
  /\ main' = "stopped" /\ stopping' = TRUE
  /\ UNCHANGED <<now, capture, pipeline, publisher, broker, stop, counted, budget>>

-----------------------------------------------------------------------------
CaptureNext ==
  \/ \E c \in Collectors : StopCollector(c) \/ CollectorDies(c)
                             \/ Capture(c)
  \/ \E c \in Classes : PutSample(c)
  \/ HealthRound \/ HealthExits
PipelineNext ==
  \/ PipeTick \/ PipeFlush
  \/ \E c \in Classes : PipeDrain(c)
  \/ \E b \in ready : Submit(b)
PublisherNext == Serve \/ Fill \/ Filled \/ Acked \/ PublishFails \/ Requeue \/ Disconnected
BrokerNext == Land \/ Lose \/ Forget
ShutdownNext == StopRequested \/ JoinPipeline \/ FinalStatus \/ StopPublisher

Next == Clock \/ CaptureNext \/ PipelineNext \/ PublisherNext \/ BrokerNext \/ ShutdownNext

Spec == Init /\ [][Next]_vars

\* Every thread keeps running, the broker takes what reaches it, and a shutdown
\* that has begun goes on.  Nobody need stop the agent or produce samples.
Fairness ==
  /\ \A c \in Classes : WF_vars(PutSample(c))
  /\ \A c \in Collectors : WF_vars(StopCollector(c))
  /\ WF_vars(HealthExits) /\ WF_vars(PipelineNext) /\ WF_vars(PublisherNext) /\ WF_vars(Land)
  /\ WF_vars(JoinPipeline \/ FinalStatus \/ StopPublisher)

FairSpec == Spec /\ Fairness

-----------------------------------------------------------------------------
Spent(fault) == budget[fault] < FaultBudget[fault]
NumbersOf(samples) == {s.n : s \in samples}

\* Samples the agent still holds, and those whose fate is decided.
Held ==
  staged
    \cup Carried(ready \cup Range(buffer) \cup {pending[i].batch : i \in 1..Len(pending)})
    \cup UNION {Range(stamped[c]) \cup Range(queue[c]) : c \in Classes}
Settled == counted \cup Carried(Range(stream) \cup swallowed)

\* The agent's variables have their types.
TypeOK ==
  /\ now \in 0..MaxTime /\ count \in 0..(MaxSamples + Metrics * (MaxRounds + 1)) /\ rounds \in 0..MaxRounds
  /\ running \in [Collectors -> BOOLEAN]
  /\ stamped \in [Classes -> Seq(Sample)] /\ queue \in [Classes -> Seq(Sample)]
  /\ \A c \in Classes : Len(queue[c]) <= QueueLen
  /\ stop \in BOOLEAN /\ stopping \in BOOLEAN /\ drained \in BOOLEAN /\ last \in BOOLEAN /\ oldest \in BOOLEAN
  /\ health \in {"wait", "exited"}
  /\ main \in {"running", "health", "drain", "final", "stopped"}
  /\ pipe \in {"wait", "drain", "submit", "exited"}
  /\ pub \in {"connect", "fill", "await", "requeue", "off"}
  /\ todo \subseteq Classes
  /\ staged \subseteq Sample

\* No sample is lost uncounted: each one is still in the agent, on the stream,
\* shed by a queue or the publisher, filtered or discarded by the pipeline, or
\* in a batch the broker took for a duplicate.
Accounted == NumbersOf(Held \cup Settled) = 1..count

\* However long the broker is away, the publisher's memory stays within its byte
\* budget (or one batch) and one window.
MemoryBounded ==
  /\ Len(pending) <= Window
  /\ Size(buffer) <= BufferBudget \/ Len(buffer) = 1

\* Retries of a window whose acknowledgements are unknown do not store a batch
\* twice while the duplicate window lasts.
NoDuplicateBatch ==
  ~Spent("forget") =>
    \A i, j \in 1..Len(stream) : stream[i] = stream[j] => i = j

\* No batch is on the stream before the registry that decodes it, whatever
\* connection attempts failed in between.
RegistryFirst == stream # <<>> => announced

\* The stream can be decoded and counted: registries first, no batch twice, and
\* every queue and window within its type.
StreamIsSound == TypeOK /\ NoDuplicateBatch /\ RegistryFirst

\* After a shutdown whose last drain found the publisher idle, everything that
\* was captured has its fate decided, although the pipeline thread may have
\* left before the last collector did.
NothingLeftBehind == main = "stopped" /\ drained => NumbersOf(Settled) = 1..count

\* Every sample's fate is decided in the end, unless the agent is stopped.
Settles == <>[](NumbersOf(Settled) = 1..count \/ stopping)

\* A shutdown ends, whatever the broker does.
Stops == []<>(stop => main = "stopped" /\ pub = "off")

\* "Same source-class ticks get distinct dedupe ids": no batch is taken for a
\* duplicate of another one.
DistinctIds == swallowed = {}

-----------------------------------------------------------------------------
(* Fault budgets of the instances that are model-checked.                  *)

Budget(faults) == [k \in FaultKinds |-> IF k \in faults THEN 1 ELSE 0]
MCAll == Budget(FaultKinds)
MCNone == Budget({})

=============================================================================
