------------------------------ MODULE Strategy ------------------------------
(***************************************************************************)
(* The strategy service's loop: probe the views, decide whether anything   *)
(* calls for an evaluation, read the inputs, commit the state row with its *)
(* findings, and put the channels in the MQTT outbox                       *)
(* (pit/strategy/service.py, database.py, publisher.py).                   *)
(*                                                                         *)
(* The race moves between any two statements; the database and the broker  *)
(* fail.  What evaluate computes is StopPlan and FuelModel: here a state   *)
(* is the session, lap and plan revision it was computed from, and the     *)
(* monitors it warns of are any.                                           *)
(***************************************************************************)
EXTENDS Integers, Sequences, SequencesExt, FiniteSets

CONSTANTS
    Monitors,       \* MONITORS
    Channels,       \* OUTPUT_CHANNELS
    OutboxSize,     \* maxsize of the outbox
    PitInterval,    \* pit_interval_s, in polls
    MaxInterval,    \* max_interval_s, in polls
    MaxSessions,
    StrategyMaxLaps,  \* laps of a session and revisions of its plan together
    StrategyMaxFaults

VARIABLES
    world,      \* [session, lap, plan, pits]; session 0 for none
    sessions,   \* sessions begun
    strategyPhase,  \* "wait", "probed", "read"
    probe,      \* the probe of this step
    last,       \* _last_probe, or NoProbe
    age,        \* polls since _last_evaluated_mono
    polled,     \* the poll of this interval is done
    strategyAdopted,  \* _adopted
    memory,     \* open_findings
    strategyState,  \* the state about to be written
    row,        \* the latest row of strategy_state
    open,       \* open findings rows of each monitor
    outbox,     \* <<channel, whether it is of the latest evaluation>>
    sending,    \* an item taken out of the outbox, or <<>>
    connected,  \* the MQTT client
    retained,   \* what the broker retains of each channel is of the latest evaluation
    strategyTorn,  \* a write failed since the findings were adopted
    unsure,     \* the latest row's write was reported as failed
    strategyLost,  \* channels whose newest message was taken and not delivered
    strategyFaults

StrategyRace == <<world, sessions>>
StrategyService == <<probe, last, strategyAdopted, memory, strategyState>>
Clock == <<age, polled>>
StrategyTables == <<row, open, unsure>>
Mqtt == <<outbox, sending, connected, retained, strategyLost>>
strategyVars == <<StrategyRace, strategyPhase, StrategyService, Clock, StrategyTables, Mqtt,
                  strategyTorn, strategyFaults>>

NoProbe == [session |-> -1, lap |-> 0, plan |-> 0, pits |-> FALSE]
NoSession == [session |-> 0, lap |-> 0, plan |-> 0, pits |-> FALSE]
NoState == [session |-> -1, lap |-> 0, plan |-> 0, warns |-> {}]

StrategyInit ==
    /\ world = NoSession
    /\ sessions = 0
    /\ strategyPhase = "wait"
    /\ probe = NoProbe
    /\ last = NoProbe
    /\ age = 0
    /\ polled = FALSE
    /\ strategyAdopted = FALSE
    /\ memory = {}
    /\ strategyState = NoState
    /\ row = NoState
    /\ open = [m \in Monitors |-> 0]
    /\ outbox = <<>>
    /\ sending = <<>>
    /\ connected = FALSE
    /\ retained = [c \in Channels |-> FALSE]
    /\ strategyTorn = FALSE
    /\ unsure = FALSE
    /\ strategyLost = {}
    /\ strategyFaults = 0

-----------------------------------------------------------------------------
(* The race. *)

RaceMoves ==
    /\ \/ /\ world.session = 0 /\ sessions < MaxSessions
          /\ sessions' = sessions + 1
          /\ world' = [NoSession EXCEPT !.session = sessions + 1]
       \/ world.session # 0 /\ world' = NoSession /\ UNCHANGED sessions
       \/ world.session # 0 /\ world.lap + world.plan < StrategyMaxLaps /\ UNCHANGED sessions
            /\ world' = [world EXCEPT !.lap = @ + 1]
       \/ world.session # 0 /\ world.lap + world.plan < StrategyMaxLaps /\ UNCHANGED sessions
            /\ world' = [world EXCEPT !.plan = @ + 1]
       \/ world.session # 0 /\ UNCHANGED sessions /\ world' = [world EXCEPT !.pits = ~@]
    /\ UNCHANGED <<strategyPhase, StrategyService, Clock, StrategyTables, Mqtt,
                   strategyTorn, strategyFaults>>

\* A poll interval passes.
StrategyTick ==
    /\ strategyPhase = "wait" /\ polled
    /\ polled' = FALSE
    /\ age' = IF age > MaxInterval THEN age ELSE age + 1
    /\ UNCHANGED <<StrategyRace, strategyPhase, StrategyService, StrategyTables, Mqtt,
                   strategyTorn, strategyFaults>>

-----------------------------------------------------------------------------
(* One step. *)

\* Variant: a plan revised in the same poll as nothing else is overlooked.
TriggerLaps(p) ==
    CASE last = NoProbe -> "start"
      [] last # NoProbe /\ p.session # last.session -> IF p.session = 0 THEN "idle" ELSE "start"
      [] last # NoProbe /\ p.session = last.session /\ p.session = 0 -> "none"
      [] OTHER -> IF p.lap # last.lap THEN "lap" ELSE "none"

\* _trigger.
Trigger(p) ==
    CASE last = NoProbe -> "start"
      [] last # NoProbe /\ p.session # last.session -> IF p.session = 0 THEN "idle" ELSE "start"
      [] last # NoProbe /\ p.session = last.session /\ p.session = 0 -> "none"
      [] OTHER -> IF p.lap # last.lap THEN "lap"
                  ELSE IF p.plan # last.plan THEN "plan"
                  ELSE IF p.pits /\ age >= PitInterval THEN "pit"
                  ELSE IF age >= MaxInterval THEN "timer" ELSE "none"

\* adopt_open_findings: whatever the last run left open, by monitor.
AdoptOpenFindings ==
    IF strategyAdopted THEN UNCHANGED <<strategyAdopted, memory, strategyTorn>>
    ELSE /\ strategyAdopted' = TRUE
         /\ memory' = {m \in Monitors : open[m] > 0}
         /\ strategyTorn' = \E m \in Monitors : open[m] > 1

\* step up to the trigger: adopt once, probe, decide.
Probe ==
    /\ strategyPhase = "wait" /\ ~polled
    /\ AdoptOpenFindings
    /\ IF Trigger(world) = "none"
         THEN strategyPhase' = "wait" /\ polled' = TRUE /\ UNCHANGED probe
         ELSE strategyPhase' = "probed" /\ probe' = world /\ UNCHANGED polled
    /\ UNCHANGED <<StrategyRace, last, strategyState, age, StrategyTables, Mqtt,
                   strategyFaults>>

\* read_inputs, or idle_state without a session: the views may be newer than
\* the probe, but are of the session it named.  A finished session's laps and
\* plan stay as they were.
StrategyRead ==
    /\ strategyPhase = "probed"
    /\ \E warns \in SUBSET Monitors :
          strategyState' = IF probe.session = 0 THEN [session |-> 0, lap |-> 0, plan |-> 0, warns |-> {}]
                           ELSE LET seen == IF world.session = probe.session THEN world ELSE probe
                                IN  [session |-> probe.session, lap |-> seen.lap, plan |-> seen.plan,
                                     warns |-> warns]
    /\ strategyPhase' = "read"
    /\ UNCHANGED <<StrategyRace, probe, last, strategyAdopted, memory, Clock,
                   StrategyTables, Mqtt, strategyTorn, strategyFaults>>

\* _reconcile_findings on the tables and on the memory.
Reconciled(o) ==
    [m \in Monitors |->
        IF m \in strategyState.warns /\ m \notin memory THEN o[m] + 1
        ELSE IF m \notin strategyState.warns /\ m \in memory /\ o[m] > 0 THEN o[m] - 1
        ELSE o[m]]

\* _publish: every channel, the oldest dropped from a full outbox.
StrategyPublish(box) ==
    FoldLeft(LAMBDA b, c : Append(IF Len(b) = OutboxSize THEN Tail(b) ELSE b, <<c, TRUE>>), box,
             SetToSeq(Channels))

\* write and the rest of step, then _publish.
StrategyWrite ==
    /\ strategyPhase = "read"
    /\ row' = strategyState
    /\ open' = Reconciled(open)
    /\ memory' = strategyState.warns
    /\ last' = probe
    /\ age' = 0
    /\ outbox' = StrategyPublish([i \in DOMAIN outbox |-> <<outbox[i][1], FALSE>>])
    /\ sending' = IF sending = <<>> THEN <<>> ELSE <<sending[1], FALSE>>
    /\ retained' = [c \in Channels |-> FALSE]
    /\ probe' = NoProbe
    /\ strategyState' = NoState
    /\ strategyLost' = {}
    /\ unsure' = FALSE
    /\ strategyPhase' = "wait"
    /\ polled' = TRUE
    /\ UNCHANGED <<StrategyRace, strategyAdopted, connected, strategyTorn, strategyFaults>>

\* The transaction fails: open_findings was changed inside it, nothing else of
\* the step is done.  The commit may have reached the database all the same.
StrategyWriteFails(committed) ==
    /\ strategyPhase = "read" /\ strategyFaults < StrategyMaxFaults
    /\ row' = IF committed THEN strategyState ELSE row
    /\ open' = IF committed THEN Reconciled(open) ELSE open
    /\ memory' = strategyState.warns
    /\ strategyTorn' = (strategyTorn \/ ~committed)
    /\ unsure' = (unsure \/ committed)
    /\ strategyFaults' = strategyFaults + 1
    /\ strategyPhase' = "wait"
    /\ polled' = TRUE
    /\ probe' = NoProbe
    /\ strategyState' = NoState
    /\ UNCHANGED <<StrategyRace, last, strategyAdopted, age, Mqtt>>

\* A statement of adopt_open_findings, probe or read_inputs fails: the
\* connection is closed and the step is tried again.
QueryFails ==
    /\ (strategyPhase = "wait" /\ ~polled) \/ (strategyPhase = "probed" /\ probe.session # 0)
    /\ strategyFaults < StrategyMaxFaults
    /\ strategyFaults' = strategyFaults + 1
    /\ strategyPhase' = "wait"
    /\ polled' = TRUE
    /\ probe' = NoProbe
    /\ UNCHANGED <<StrategyRace, last, strategyAdopted, memory, strategyState, age,
                   StrategyTables, Mqtt, strategyTorn>>

StrategyRestart ==
    /\ strategyFaults < StrategyMaxFaults
    /\ strategyFaults' = strategyFaults + 1
    /\ strategyPhase' = "wait"
    /\ last' = NoProbe
    /\ age' = 0
    /\ polled' = FALSE
    /\ strategyAdopted' = FALSE
    /\ memory' = {}
    /\ strategyState' = NoState
    /\ outbox' = <<>>
    /\ sending' = <<>>
    /\ connected' = FALSE
    /\ strategyLost' = {c \in Channels : ~retained[c]}
    /\ probe' = NoProbe
    /\ UNCHANGED <<StrategyRace, StrategyTables, retained, strategyTorn>>

-----------------------------------------------------------------------------
(* _mqtt_loop. *)

StrategyConnect == ~connected /\ connected' = TRUE
                   /\ UNCHANGED <<StrategyRace, strategyPhase, StrategyService, Clock, StrategyTables, outbox, sending, retained, strategyLost,
                                  strategyTorn, strategyFaults>>

StrategyTake ==
    /\ connected /\ sending = <<>> /\ outbox # <<>>
    /\ sending' = Head(outbox)
    /\ outbox' = Tail(outbox)
    /\ UNCHANGED <<StrategyRace, strategyPhase, StrategyService, Clock, StrategyTables,
                   connected, retained, strategyLost, strategyTorn, strategyFaults>>

Delivered ==
    /\ sending # <<>>
    /\ retained' = [retained EXCEPT ![sending[1]] = sending[2]]
    /\ sending' = <<>>
    /\ UNCHANGED <<StrategyRace, strategyPhase, StrategyService, Clock, StrategyTables,
                   outbox, connected, strategyLost, strategyTorn, strategyFaults>>

\* The publish fails: the item taken is gone, the client reconnects.
PublishFails ==
    /\ connected /\ strategyFaults < StrategyMaxFaults
    /\ strategyFaults' = strategyFaults + 1
    /\ connected' = FALSE
    /\ sending' = <<>>
    /\ strategyLost' = IF sending # <<>> /\ ~\E i \in DOMAIN outbox : outbox[i][1] = sending[1]
                 THEN strategyLost \cup {sending[1]} ELSE strategyLost
    /\ UNCHANGED <<StrategyRace, strategyPhase, StrategyService, Clock, StrategyTables,
                   outbox, retained, strategyTorn>>

-----------------------------------------------------------------------------

StrategyNext ==
    \/ RaceMoves \/ StrategyTick
    \/ Probe \/ StrategyRead \/ StrategyWrite \/ \E c \in BOOLEAN : StrategyWriteFails(c)
    \/ QueryFails \/ StrategyRestart
    \/ StrategyConnect \/ StrategyTake \/ Delivered \/ PublishFails

StrategySpec == StrategyInit /\ [][StrategyNext]_strategyVars

-----------------------------------------------------------------------------

\* The variables keep their types and the queue its bound.
StrategyTypeOK ==
    /\ strategyPhase \in {"wait", "probed", "read"}
    /\ Len(outbox) <= OutboxSize
    /\ memory \subseteq Monitors
    /\ age \in 0..MaxInterval + 1

Same(a, b) == a.session = b.session /\ a.lap = b.lap /\ a.plan = b.plan

\* No change of the race is overlooked: when a poll finds nothing to do, the
\* latest row was computed from the session, lap and plan that are current at
\* that poll, whatever changed or failed between its probe and its read,
\* but for a commit whose answer was lost.
RowIsCurrent ==
    strategyPhase = "wait" /\ ~polled /\ polled' /\ strategyFaults' = strategyFaults /\ ~unsure
        => Same(row, world)

\* While a session runs and nothing fails, no more polls pass without a row
\* than the longest interval.
NeverStale == strategyFaults = 0 /\ row.session > 0 => age <= MaxInterval

\* A finding is one row: while no write has failed since they were adopted,
\* the open rows are those of the last state, one each.
OneRowPerWarning ==
    strategyAdopted /\ ~strategyTorn => \A m \in Monitors : open[m] = IF m \in memory THEN 1 ELSE 0

\* With the outbox drained, the broker retains the latest row in every channel
\* but those whose newest message a failing connection took along.
RetainedIsLatest ==
    outbox = <<>> /\ sending = <<>> /\ strategyPhase = "wait" /\ ~unsure /\ last # NoProbe =>
        \A c \in Channels \ strategyLost : retained[c]
=============================================================================
