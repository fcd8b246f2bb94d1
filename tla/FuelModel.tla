----------------------------- MODULE FuelModel -----------------------------
(***************************************************************************)
(* The fuel figure of the strategy service against the fuel in the tank:   *)
(* the re-base at the last trustworthy level reading, and the laps' burn   *)
(* since (pit/strategy/model.py).  The car is the environment: it burns    *)
(* one unit a time unit, stops, is filled, and its level sensor reads true *)
(* when it stands and up to Slosh wrong when it moves.                     *)
(***************************************************************************)
EXTENDS Integers, Sequences, SequencesExt, FiniteSets

CONSTANTS
    FuelLapTime,  \* time units, and fuel units, of a lap
    Tank,       \* tank_l of the plan
    Fills,      \* the levels a refuel may end at
    Unusable,   \* tank_l less usable_fuel_l
    Uncertainty,  \* _REBASE_UNCERTAINTY_L by confidence
    Slosh,      \* the error of a reading taken on track
    FuelMaxLaps,
    FuelMaxStops

VARIABLES
    now,        \* the time
    level,      \* the fuel in the tank
    place,      \* "track", "pit"
    part,       \* time driven since the line
    lapStart,   \* when the line was crossed last
    reset,      \* the fuel counter restarted in this lap
    filled,     \* this stop's fill is done
    stints,     \* v_stints: [from, to, first, last], to 0 while it runs;
                \* standing (history): the first reading is of the filled tank
    fuelStops,  \* v_pit_stops: [refuel, entry, exit], exit 0 while open
    fuelLaps    \* v_laps: [at, time, used, clean]

fuelVars == <<now, level, place, part, lapStart, reset, filled, stints, fuelStops, fuelLaps>>

FuelNone == -99  \* no reading

FuelLeast(a, b) == IF a < b THEN a ELSE b
FuelGreatest(a, b) == IF a < b THEN b ELSE a
FuelAtLeast0(n) == FuelGreatest(n, 0)

-----------------------------------------------------------------------------
(* The service's reading of the race. *)

Known(r) == r # FuelNone

\* clean_laps and _burn, the burn being the same every lap: the mean is known
\* once a lap is measured that touches no stop.
FuelTouchesPits(l) ==
    \E i \in DOMAIN fuelStops :
        LET s == fuelStops[i]
        IN  \/ l.at - l.time < s.entry /\ s.entry <= l.at
            \/ s.exit # 0 /\ l.at - l.time < s.exit /\ s.exit <= l.at
            \/ s.entry <= l.at - l.time /\ (s.exit = 0 \/ s.exit >= l.at)

CleanLaps == SelectSeq(fuelLaps, LAMBDA l : l.clean /\ ~FuelTouchesPits(l))

Burn == IF CleanLaps = <<>> THEN FuelNone ELSE Last(CleanLaps).used

\* _stint_containing: the first stint that has the moment in it.
StintContaining(at) ==
    LET those == {i \in DOMAIN stints :
                    stints[i].from <= at /\ (stints[i].to = 0 \/ at <= stints[i].to)}
    IN  IF those = {} THEN 0 ELSE CHOOSE i \in those : \A j \in those : i <= j

\* _rebase: a stint that began during the last refuel has its first reading
\* after it; else the latest reading, else the plan's tank.
Rebase ==
    LET refuels == SelectSeq(fuelStops, LAMBDA s : s.refuel /\ s.exit # 0)
        current == Last(stints)
    IN  IF refuels # <<>> THEN
            LET stop == Last(refuels)
                i == StintContaining(stop.exit)
            IN  IF i # 0 /\ stints[i].from >= stop.entry /\ Known(stints[i].first)
                  THEN [level |-> stints[i].first, at |-> stints[i].from, why |-> "key_on"]
                ELSE IF Known(current.last)
                  THEN [level |-> current.last, at |-> now, why |-> "moving"]
                ELSE [level |-> Tank, at |-> stop.exit, why |-> "plan"]
        ELSE IF Known(stints[1].first)
            THEN [level |-> stints[1].first, at |-> stints[1].from, why |-> "session_start"]
        ELSE IF Known(current.last)
            THEN [level |-> current.last, at |-> now, why |-> "moving"]
        ELSE [level |-> Tank, at |-> 0, why |-> "plan"]

\* _driven_seconds: the time between two moments not spent in a stop.
FuelDrivenSeconds(start, end) ==
    LET Overlap(s) == FuelAtLeast0(FuelLeast(end, IF s.exit = 0 THEN end ELSE s.exit)
                                   - FuelGreatest(start, s.entry))
    IN  IF end <= start THEN 0
        ELSE FuelAtLeast0(end - start - FoldLeft(LAMBDA sum, s : sum + Overlap(s), 0, fuelStops))

\* Variant: an unmeasured lap costs nothing.
UsedSkips(l, at) ==
    IF l.at <= at THEN 0 ELSE IF l.clean THEN l.used ELSE 0

\* One lap's part of _fuel_remaining: measured, or the mean for the share of a
\* lap driven since the re-base.
Used(l, at) ==
    IF l.at <= at THEN 0
    ELSE IF l.clean THEN l.used
    ELSE IF ~Known(Burn) THEN 0
    ELSE (Burn * FuelLeast(FuelDrivenSeconds(FuelGreatest(l.at - l.time, at), l.at), FuelLapTime)) \div FuelLapTime

\* _fuel_remaining: the level, and its bounds: the re-base's uncertainty and a
\* quarter of the mean, rounded up, for each lap substituted.
FuelRemaining ==
    LET r == Rebase
        used == FoldLeft(LAMBDA sum, l : sum + Used(l, r.at), 0, fuelLaps)
        substituted == Len(SelectSeq(fuelLaps, LAMBDA l : l.at > r.at /\ ~l.clean /\ Known(Burn)))
        spread == Uncertainty[r.why]
                    + (IF Known(Burn) THEN substituted * ((Burn + 3) \div 4) ELSE 0)
    IN  IF r.why = "moving"
          THEN [fuel |-> r.level, lo |-> r.level - Uncertainty[r.why],
                hi |-> r.level + Uncertainty[r.why]]
          ELSE [fuel |-> r.level - used, lo |-> r.level - used - spread,
                hi |-> r.level - used + spread]

\* The usable fuel of evaluate: a low bound of exactly zero is taken for no
\* bound at all.
UsableLo ==
    LET f == FuelRemaining
    IN  FuelAtLeast0((IF f.lo = 0 THEN f.fuel ELSE f.lo) - Unusable)

-----------------------------------------------------------------------------
(* The car, and the views the service reads. *)

FuelInit ==
    /\ now = 0
    /\ level = Tank
    /\ place = "track"
    /\ part = 0
    /\ lapStart = 0
    /\ reset = FALSE
    /\ filled = FALSE
    /\ stints \in {<<[from |-> 0, to |-> 0, first |-> f, last |-> f, standing |-> FALSE]>> : f \in {FuelNone, Tank}}
    /\ fuelStops = <<>>
    /\ fuelLaps = <<>>

\* A reading of the level on track, e off.
ReadOnTrack(e, l) ==
    LET s == Last(stints)
    IN  stints' = [stints EXCEPT ![Len(stints)] =
                     [s EXCEPT !.last = l + e, !.first = IF Known(@) THEN @ ELSE l + e]]

\* The car completes its lap.
CrossLine(e) ==
    /\ place = "track" /\ Len(fuelLaps) < FuelMaxLaps /\ level >= FuelLapTime
    /\ LET t == now + FuelLapTime - part
       IN  /\ now' = t
           /\ level' = level - (FuelLapTime - part)
           /\ fuelLaps' = Append(fuelLaps, [at |-> t, time |-> t - lapStart, used |-> FuelLapTime,
                                            clean |-> ~reset])
           /\ lapStart' = t
           /\ ReadOnTrack(e, level - (FuelLapTime - part))
    /\ part' = 0
    /\ reset' = FALSE
    /\ UNCHANGED <<place, filled, fuelStops>>

PitIn(refuel) ==
    /\ place = "track" /\ part = 0 /\ level >= 1 /\ Len(fuelStops) < FuelMaxStops
    /\ now' = now + 1
    /\ level' = level - 1
    /\ part' = 1
    /\ fuelStops' = Append(fuelStops, [refuel |-> refuel, entry |-> now + 1, exit |-> 0])
    /\ place' = "pit"
    /\ filled' = FALSE
    /\ UNCHANGED <<lapStart, reset, stints, fuelLaps>>

Fill(l) ==
    /\ place = "pit" /\ Last(fuelStops).refuel /\ ~filled
    /\ now' = now + 1
    /\ level' = FuelGreatest(level, l)
    /\ filled' = TRUE
    /\ UNCHANGED <<place, part, lapStart, reset, stints, fuelStops, fuelLaps>>

\* A driver change: with the key off and on the counter restarts, and the new
\* stint's first reading is taken standing, if one is accepted.
NewStint(key, read) ==
    /\ place = "pit" /\ Last(stints).from < Last(fuelStops).entry
    /\ now' = now + 1
    /\ stints' = Append([stints EXCEPT ![Len(stints)].to = now + 1],
                        [from |-> now + 1, to |-> 0, first |-> IF read THEN level ELSE FuelNone,
                         last |-> IF read THEN level ELSE FuelNone,
                         standing |-> read /\ key /\ filled])
    /\ reset' = (reset \/ key)
    /\ UNCHANGED <<level, place, part, lapStart, filled, fuelStops, fuelLaps>>

PitOut ==
    /\ place = "pit" /\ (Last(fuelStops).refuel => filled)
    /\ now' = now + 1
    /\ fuelStops' = [fuelStops EXCEPT ![Len(fuelStops)].exit = now + 1]
    /\ place' = "track"
    /\ UNCHANGED <<level, part, lapStart, reset, filled, stints, fuelLaps>>

FuelNext ==
    \/ \E e \in -Slosh..Slosh : CrossLine(e)
    \/ \E refuel \in BOOLEAN : PitIn(refuel)
    \/ \E l \in Fills : Fill(l)
    \/ \E key, read \in BOOLEAN : NewStint(key, read)
    \/ PitOut

FuelSpec == FuelInit /\ [][FuelNext]_fuelVars

-----------------------------------------------------------------------------

\* The views have the shape the service reads.
FuelTypeOK ==
    /\ level \in 0..Tank
    /\ \A i \in DOMAIN fuelStops : fuelStops[i].exit = 0 => i = Len(fuelStops)
    /\ \A i \in DOMAIN stints : stints[i].to = 0 <=> i = Len(stints)
    /\ FuelRemaining.lo <= FuelRemaining.fuel /\ FuelRemaining.fuel <= FuelRemaining.hi

\* The state is evaluated as a lap is completed.
AtLine == fuelLaps # <<>> /\ place = "track" /\ part = 0 /\ Last(fuelLaps).at = now

\* A refuel short of the plan's tank is not in the figure while the plan is
\* all there is to go by.
OnThePlan == Rebase.why = "plan"

\* The lower bound of the fuel figure is never more than what is in the tank
\* once the burn is known, however the stops, driver changes, counter resets
\* and readings fell: only a tank assumed from the plan can be too high.
LowBoundIsSafe ==
    AtLine /\ Known(Burn) /\ ~OnThePlan => FuelRemaining.lo <= level

\* With a first reading taken standing, after the fill and the key turned,
\* the figure at the line is exactly what is in the tank: the out-lap, later
\* stops and counter resets are neither missed nor counted twice.
KeyOnIsExact ==
    AtLine /\ Known(Burn) /\ Rebase.why = "key_on"
        /\ stints[StintContaining(Last(SelectSeq(fuelStops, LAMBDA s : s.refuel /\ s.exit # 0)).exit)].standing
    => FuelRemaining.fuel = level

\* Every re-base is at or after the last completed refuel.
RebaseNotStale ==
    LET done == {i \in DOMAIN fuelStops : fuelStops[i].refuel /\ fuelStops[i].exit # 0}
    IN  done # {} =>
            \A i \in done : Rebase.at >= fuelStops[i].entry

=============================================================================
