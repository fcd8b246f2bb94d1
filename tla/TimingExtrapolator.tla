------------------------ MODULE TimingExtrapolator ------------------------
(***************************************************************************)
(* The pit's running lap and sector clocks: started by the car's crossing  *)
(* events, gated on the health of the car's clock, bounded, and published  *)
(* through an outbox of two (pit/timing_extrapolator/).                    *)
(*                                                                         *)
(* The car, two sectors to the lap, is the environment.  Its events carry  *)
(* its own clock, which may be off; they arrive in order, late, and only   *)
(* while the service is subscribed.  The cache of registries is            *)
(* LiveDecoder's.                                                          *)
(***************************************************************************)
EXTENDS Integers, Sequences, SequencesExt, FiniteSets

CONSTANTS
    Fallback,   \* fallback_max_lap_s
    Multiple,   \* best_lap_multiple
    ExtrapolatorMinLap,  \* min_lap_time_s of the car
    Reports,    \* the readings a car may report
    Skews,      \* how far the car's clock may be off
    MaxTime,
    MaxFlight,  \* messages in flight
    ExtrapolatorMaxFaults

VARIABLES
    now,        \* the time
    carLap,     \* when the car's timing began its lap, or None
    carSeg,     \* and its sector
    sectors,    \* sectors_done
    skew,       \* the car's clock less the time
    flight,     \* messages on their way
    extrapolatorUp,  \* subscribed
    extrapolatorEngine,  \* [lap, sector, best, clock]
    ticked,     \* the tick of this moment is done
    outbox,     \* <<channel, whether it is the newest of its channel>>
    sending,    \* the item taken from it, or <<>>
    extrapolatorShown,  \* the newest value of a channel is the one displayed
    tainted,    \* channels whose start does not stand for the car's
    told,       \* the car has reported its clock since it last stepped
    lost,       \* channels whose newest value a failed publish took along
    extrapolatorFaults

Car == <<carLap, carSeg, sectors, skew>>
Mqtt == <<outbox, sending, extrapolatorShown, lost>>
extrapolatorVars == <<now, Car, flight, extrapolatorUp, extrapolatorEngine, ticked, Mqtt,
                      tainted, told, extrapolatorFaults>>

ExtrapolatorNone == -99
ExtrapolatorLap == "timing.lap_elapsed_pit"
Sector == "timing.sector_elapsed_pit"
Channels == {ExtrapolatorLap, Sector}
Readings == {"none", "good", "bad", "odd"}

\* A fresh engine: TimingExtrapolator.__init__.
ExtrapolatorBlank == [lap |-> ExtrapolatorNone, sector |-> ExtrapolatorNone, best |-> 0,
                      clock |-> [offset |-> "none", stratum |-> "none", source |-> "none"]]

ExtrapolatorInit ==
    /\ now = 0
    /\ carLap = ExtrapolatorNone /\ carSeg = ExtrapolatorNone /\ sectors = 0
    /\ skew = 0
    /\ flight = <<>>
    /\ extrapolatorUp = FALSE
    /\ extrapolatorEngine = ExtrapolatorBlank
    /\ ticked = FALSE
    /\ outbox = <<>> /\ sending = <<>>
    /\ extrapolatorShown = [c \in Channels |-> TRUE]
    /\ tainted = Channels
    /\ told = FALSE
    /\ lost = {}
    /\ extrapolatorFaults = 0

-----------------------------------------------------------------------------
(* The engine. *)

\* Variant: the lap clock starts at the first split.
ObserveSplit(e, m) ==
    CASE m.type = "clock" -> [e EXCEPT !.clock = m.clock]
      [] m.type = "best" -> [e EXCEPT !.best = IF m.span > 0 THEN m.span ELSE @]
      [] m.type = "sector" ->
            [e EXCEPT !.sector = m.at, !.lap = IF m.sector = 1 /\ @ = ExtrapolatorNone THEN m.at ELSE @]
      [] m.type = "lap" -> [e EXCEPT !.lap = m.at, !.sector = m.at]

\* observe: what one sample does to the engine.
ExtrapolatorObserve(e, m) ==
    CASE m.type = "clock" -> [e EXCEPT !.clock = m.clock]
      [] m.type = "best" -> [e EXCEPT !.best = IF m.span > 0 THEN m.span ELSE @]
      [] m.type = "sector" ->
            [e EXCEPT !.sector = m.at,
                      !.lap = IF m.sector = 1 /\ @ = ExtrapolatorNone THEN m.at - m.span ELSE @]
      [] m.type = "lap" -> [e EXCEPT !.lap = m.at, !.sector = m.at]

\* The channels observe returns a value for.
Authoritative(m) ==
    CASE m.type = "sector" -> {Sector} [] m.type = "lap" -> {ExtrapolatorLap} [] OTHER -> {}

\* The clocks a crossing sets whatever they were.
Stamped(m) == CASE m.type = "sector" -> {Sector} [] m.type = "lap" -> Channels [] OTHER -> {}

\* _runaway_bound.
RunawayBound(e) ==
    IF e.best = 0 \/ Fallback < e.best * Multiple THEN Fallback ELSE e.best * Multiple

\* _clock_gate_reason is not None: a report is missing, not a number, or past
\* its limit.
Gated(e) ==
    \/ "none" \in {e.clock[k] : k \in DOMAIN e.clock}
    \/ e.clock.offset \in {"bad", "odd"}
    \/ e.clock.stratum \in {"bad", "odd"}
    \/ e.clock.source = "bad"

Start(e, c) == IF c = ExtrapolatorLap THEN e.lap ELSE e.sector

\* tick: for each clock that has started, a value, its bound, or None.
TickValue(e, c) ==
    LET elapsed == IF now < Start(e, c) THEN 0 ELSE now - Start(e, c)
    IN  IF Gated(e) THEN ExtrapolatorNone ELSE IF elapsed > RunawayBound(e) THEN RunawayBound(e) ELSE elapsed

Started(e) == {c \in Channels : Start(e, c) # ExtrapolatorNone}

-----------------------------------------------------------------------------
(* The outbox. *)

\* _queue_publish: a full outbox keeps the newest of each channel.
QueuePublish(box, c) ==
    LET older == [i \in DOMAIN box |-> <<box[i][1], box[i][2] /\ box[i][1] # c>>]
        keep == IF older[1][1] = older[2][1] THEN <<older[2]>> ELSE older
    IN  IF Len(box) < 2 THEN Append(older, <<c, TRUE>>)
        ELSE IF \E i \in DOMAIN keep : keep[i][1] = c
               THEN [i \in DOMAIN keep |-> IF keep[i][1] = c THEN <<c, TRUE>> ELSE keep[i]]
               ELSE Append(keep, <<c, TRUE>>)

\* _emit: each value in turn; what is on its way or displayed is now older.
Emit(values) ==
    /\ outbox' = FoldLeft(QueuePublish, outbox, SelectSeq(<<ExtrapolatorLap, Sector>>, LAMBDA c : c \in values))
    /\ sending' = IF sending = <<>> THEN <<>>
                  ELSE <<sending[1], sending[2] /\ sending[1] \notin values>>
    /\ extrapolatorShown' = [c \in Channels |-> extrapolatorShown[c] /\ c \notin values]
    /\ lost' = lost \ values

-----------------------------------------------------------------------------
(* The car. *)

Time ==
    /\ now < MaxTime
    /\ now' = now + 1
    /\ ticked' = FALSE
    /\ UNCHANGED <<Car, flight, extrapolatorUp, extrapolatorEngine, Mqtt, tainted, told,
                   extrapolatorFaults>>

\* What the car sends reaches the pit while the service is subscribed.
Send(ms) == flight' = IF extrapolatorUp THEN flight \o ms ELSE flight

Event(type, sector, span) ==
    [type |-> type, sector |-> sector, at |-> now + skew, span |-> span, true |-> skew = 0]

\* The first line starts the car's clocks and sends nothing.
FirstLine ==
    /\ carLap = ExtrapolatorNone
    /\ carLap' = now /\ carSeg' = now /\ sectors' = 0
    /\ UNCHANGED <<now, skew, flight, extrapolatorUp, extrapolatorEngine, ticked, Mqtt,
                   tainted, told, extrapolatorFaults>>

CrossSector ==
    /\ carLap # ExtrapolatorNone /\ sectors = 0 /\ now > carSeg /\ Len(flight) < MaxFlight
    /\ Send(<<Event("sector", 1, now - carSeg)>>)
    /\ carSeg' = now /\ sectors' = 1
    /\ UNCHANGED <<now, carLap, skew, extrapolatorUp, extrapolatorEngine, ticked, Mqtt,
                   tainted, told, extrapolatorFaults>>

\* The line: a sector and a lap; a lap too short or without its sector begins
\* again and sends nothing, so the pit's lap clock is not restarted.
CrossLine ==
    /\ carLap # ExtrapolatorNone /\ now > carSeg /\ Len(flight) + 2 < MaxFlight
    /\ carLap' = now /\ carSeg' = now /\ sectors' = 0
    /\ IF sectors = 0 \/ now - carLap < ExtrapolatorMinLap
         THEN /\ tainted' = Channels
              /\ extrapolatorFaults' = extrapolatorFaults + 1 /\ extrapolatorFaults < ExtrapolatorMaxFaults
              /\ UNCHANGED flight
         ELSE /\ Send(<<Event("sector", 2, now - carSeg), Event("lap", 0, now - carLap),
                        [type |-> "best", span |-> now - carLap]>>)
              /\ UNCHANGED <<tainted, told, extrapolatorFaults>>
    /\ UNCHANGED <<now, skew, extrapolatorUp, extrapolatorEngine, ticked, Mqtt, told>>

\* The car reports its clock: one of the readings is bad when it is off.
ReportClock(r) ==
    /\ Len(flight) < MaxFlight /\ extrapolatorUp
    /\ (skew # 0) = (\E k \in DOMAIN r : r[k] # "good")
    /\ Send(<<[type |-> "clock", clock |-> r]>>)
    /\ told' = TRUE
    /\ UNCHANGED <<now, Car, extrapolatorUp, extrapolatorEngine, ticked, Mqtt, tainted,
                   extrapolatorFaults>>

\* The car's clock steps; it is some time before a report says so.
ClockSteps(s) ==
    /\ s # skew /\ extrapolatorFaults < ExtrapolatorMaxFaults
    /\ skew' = s
    /\ told' = FALSE
    /\ extrapolatorFaults' = extrapolatorFaults + 1
    /\ UNCHANGED <<now, carLap, carSeg, sectors, flight, extrapolatorUp, extrapolatorEngine,
                   ticked, Mqtt, tainted>>

-----------------------------------------------------------------------------
(* The service. *)

\* run: the registries are read, then the subscription takes what is new.
Ready ==
    /\ ~extrapolatorUp /\ extrapolatorUp' = TRUE
    /\ UNCHANGED <<now, Car, flight, extrapolatorEngine, ticked, Mqtt, tainted, told,
                   extrapolatorFaults>>

ExtrapolatorRestart ==
    /\ extrapolatorUp /\ extrapolatorFaults < ExtrapolatorMaxFaults
    /\ extrapolatorUp' = FALSE
    /\ extrapolatorEngine' = ExtrapolatorBlank
    /\ flight' = <<>>
    /\ outbox' = <<>> /\ sending' = <<>>
    /\ lost' = {c \in Channels : ~extrapolatorShown[c]}
    /\ tainted' = Channels
    /\ extrapolatorFaults' = extrapolatorFaults + 1
    /\ UNCHANGED <<now, Car, ticked, extrapolatorShown, told>>

\* _handle_message.
HandleMessage ==
    /\ extrapolatorUp /\ flight # <<>>
    /\ LET m == Head(flight)
       IN  /\ extrapolatorEngine' = ExtrapolatorObserve(extrapolatorEngine, m)
           /\ Emit(Authoritative(m))
           /\ tainted' = IF m.type \notin {"lap", "sector"} THEN tainted
                         ELSE LET set == {c \in Channels : Start(extrapolatorEngine', c) # Start(extrapolatorEngine, c)
                                                             \/ c \in Stamped(m)}
                              IN  IF m.true THEN tainted \ set ELSE tainted \cup set
    /\ flight' = Tail(flight)
    /\ UNCHANGED <<now, Car, extrapolatorUp, ticked, told, extrapolatorFaults>>

\* _publish_tick, once a moment.
PublishTick ==
    /\ ~ticked
    /\ Emit(Started(extrapolatorEngine))
    /\ ticked' = TRUE
    /\ UNCHANGED <<now, Car, flight, extrapolatorUp, extrapolatorEngine, tainted, told,
                   extrapolatorFaults>>

\* _mqtt_loop, while it has a connection.
Take ==
    /\ sending = <<>> /\ outbox # <<>>
    /\ sending' = Head(outbox) /\ outbox' = Tail(outbox)
    /\ UNCHANGED <<now, Car, flight, extrapolatorUp, extrapolatorEngine, ticked,
                   extrapolatorShown, lost, tainted, told, extrapolatorFaults>>

Delivered ==
    /\ sending # <<>>
    /\ extrapolatorShown' = [extrapolatorShown EXCEPT ![sending[1]] = sending[2]]
    /\ sending' = <<>>
    /\ UNCHANGED <<now, Car, flight, extrapolatorUp, extrapolatorEngine, ticked, outbox,
                   lost, tainted, told, extrapolatorFaults>>

PublishFails ==
    /\ sending # <<>> /\ extrapolatorFaults < ExtrapolatorMaxFaults
    /\ sending' = <<>>
    /\ lost' = IF sending[2] THEN lost \cup {sending[1]} ELSE lost
    /\ extrapolatorFaults' = extrapolatorFaults + 1
    /\ UNCHANGED <<now, Car, flight, extrapolatorUp, extrapolatorEngine, ticked, outbox,
                   extrapolatorShown, tainted, told>>

ExtrapolatorNext ==
    \/ Time \/ FirstLine \/ CrossSector \/ CrossLine
    \/ \E r \in Reports : ReportClock(r)
    \/ \E s \in Skews : ClockSteps(s)
    \/ Ready \/ ExtrapolatorRestart \/ HandleMessage \/ PublishTick
    \/ Take \/ Delivered \/ PublishFails

ExtrapolatorSpec == ExtrapolatorInit /\ [][ExtrapolatorNext]_extrapolatorVars

-----------------------------------------------------------------------------

\* The outbox keeps its bound and the engine its shape.
ExtrapolatorTypeOK ==
    /\ Len(outbox) <= 2
    /\ \A k \in DOMAIN extrapolatorEngine.clock : extrapolatorEngine.clock[k] \in Readings
    /\ tainted \subseteq Channels /\ lost \subseteq Channels

\* A clock that is shown running is the car's: with every event handled, its
\* value is the time since the car's own lap or sector began, up to the bound,
\* whenever the service started and however late the events came.  A lap the
\* car abandoned without an event, and a crossing stamped while the car's clock
\* was off, are the exceptions.
ClockIsCars ==
    flight = <<>> /\ extrapolatorUp => \A c \in Started(extrapolatorEngine) \ tainted :
        LET elapsed == now - (IF c = ExtrapolatorLap THEN carLap ELSE carSeg)
        IN  TickValue(extrapolatorEngine, c) \in
              {ExtrapolatorNone, IF elapsed > RunawayBound(extrapolatorEngine) THEN RunawayBound(extrapolatorEngine) ELSE elapsed}

\* Nothing runs on a clock known to be off: with every report handled, no value
\* is computed unless the car has said, since its clock last stepped, that it
\* is right.
GatedWhenOff ==
    flight = <<>> /\ extrapolatorUp /\ (IF told THEN skew # 0 ELSE extrapolatorEngine.clock = ExtrapolatorBlank.clock) => Gated(extrapolatorEngine)

\* With the outbox drained the display shows the newest value of each channel,
\* but for one a failed publish took along.
NewestShown ==
    outbox = <<>> /\ sending = <<>> => \A c \in Channels \ lost : extrapolatorShown[c]
=============================================================================
