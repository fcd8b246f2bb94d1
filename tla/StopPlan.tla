------------------------------ MODULE StopPlan ------------------------------
(***************************************************************************)
(* What the strategy service computes for the rest of the race: the laps   *)
(* remaining, the stops needed, the pit window, the walk that makes the    *)
(* stop plan, its drift against the operator's plan, and the clean laps    *)
(* and driven time the burn rests on (pit/strategy/model.py).              *)
(*                                                                         *)
(* Fuel is counted in parts of a lap, Part to the lap, so that floors and  *)
(* ceilings matter; time in units, LapTime to the lap.  Each behaviour     *)
(* takes one set of inputs and walks to the end of the race, one stop a    *)
(* step.                                                                   *)
(***************************************************************************)
EXTENDS Integers, Sequences, SequencesExt, FiniteSets

CONSTANTS
    Part,       \* parts of a lap in which fuel is counted
    LapTime,    \* time units of a lap
    RefuelMin,  \* refuel_min_s
    Service,    \* service_typical_s
    Ranges,     \* full_range_lo: the range of a full tank, in parts
    Fuels,      \* laps_lo: the range of the fuel in the tank, in parts
    Ends,       \* the race ends: laps or time units from now
    Limits,     \* max_continuous, in time units; 0 for no limit
    Plans,      \* the operator's planned stops, some of them past (at <= 0)
    MaxStops,   \* max_simulated_stops
    Horizon     \* the times of the lap and the stop that are compared

VARIABLES
    in,         \* the inputs
    lap,        \* laps from now
    clock,      \* time from now
    remaining,  \* laps to the end of the race
    fuel,       \* fuel_laps
    drive,      \* drive_left
    stops,      \* the stop plan so far
    done        \* the walk has ended

vars == <<in, lap, clock, remaining, fuel, drive, stops, done>>

Ceil(a, b) == (a + b - 1) \div b
AtLeast0(n) == IF n < 0 THEN 0 ELSE n
Least(a, b) == IF a < b THEN a ELSE b
Greatest(a, b) == IF a < b THEN b ELSE a

\* _laps_remaining: by the laps of the race, or by its time and the lap time.
LapsRemaining(authority, end, now) ==
    IF authority = "laps" THEN AtLeast0(end) ELSE AtLeast0(Ceil(end - now, LapTime))

\* stops_needed of evaluate: none if the fuel lasts, else by full tanks.
StopsNeeded(laps, tank, full) ==
    IF laps * Part <= tank THEN 0 ELSE Ceil(laps * Part - tank, full)

\* The pit window of evaluate: from the earliest lap from which the stops to
\* come reach the end, to the last lap the fuel lasts to.
Window(laps, tank, full, refuels) ==
    LET total == Greatest(StopsNeeded(laps, tank, full), refuels)
    IN  [open |-> AtLeast0(Ceil(laps * Part - total * full, Part)), close |-> tank \div Part,
         stops |-> total]

\* _remaining_planned: the planned stops that are still ahead.
RemainingPlanned(plan) == SelectSeq(plan, LAMBDA s : s.at > 0)

\* planned_refuels of evaluate.
PlannedRefuels(plan) == Len(SelectSeq(RemainingPlanned(plan), LAMBDA s : s.type = "refuel"))

\* _touches_pits: a pit crossing inside the lap, or a stop around it.  exit = 0
\* stands for a stop that is still open.
TouchesPits(start, end, entry, exit) ==
    \/ start < entry /\ entry <= end
    \/ exit # 0 /\ start < exit /\ exit <= end
    \/ entry <= start /\ (exit = 0 \/ exit >= end)

\* _driven_seconds: the time between two moments not spent in a stop.
DrivenSeconds(start, end, entry, exit) ==
    LET leave == IF exit = 0 THEN end ELSE exit
        overlap == Least(end, leave) - Greatest(start, entry)
    IN  IF end <= start THEN 0 ELSE AtLeast0((end - start) - AtLeast0(overlap))

-----------------------------------------------------------------------------

Inputs ==
    [authority : {"laps", "time"}, end : Ends, tank : Fuels, full : Ranges, limit : Limits,
     driven : {0, LapTime}, plan : Plans]

Init ==
    /\ in \in Inputs
    /\ in.limit = 0 => in.driven = 0
    /\ lap = 0
    /\ clock = 0
    /\ remaining = LapsRemaining(in.authority, in.end, 0)
    /\ fuel = in.tank
    /\ drive = in.limit - in.driven
    /\ stops = <<>>
    /\ done = FALSE

LapsOnFuel == AtLeast0(fuel \div Part)

LapsOnDriver == AtLeast0(drive) \div LapTime
Can == IF in.limit = 0 THEN LapsOnFuel ELSE Least(LapsOnFuel, LapsOnDriver)

\* The walk ends: the rest can be driven, or there are too many stops.
Ended == remaining = 0 \/ Can >= remaining \/ Len(stops) >= MaxStops

Reason == IF in.limit = 0 \/ LapsOnFuel <= LapsOnDriver THEN "fuel" ELSE "driver"

\* A driver's stop is a refuel if the fuel left would not reach the end.
Refuels == Reason = "fuel" \/ fuel - Can * Part < (remaining - Can) * Part

\* The operator's plan names a driver for this stop.
Named ==
    LET planned == RemainingPlanned(in.plan)
    IN  Len(stops) < Len(planned) /\ planned[Len(stops) + 1].change

\* The loop body after its decisions: the stop, its time, the tank, the
\* driver and the laps left.
PitStop(fills, change) ==
    LET at == clock + Can * LapTime + (IF Refuels THEN RefuelMin ELSE Service)
    IN  /\ stops' = Append(stops, [lap |-> lap + Can, change |-> change,
                                   type |-> IF Refuels THEN "refuel" ELSE "service"])
        /\ lap' = lap + Can
        /\ clock' = at
        /\ fuel' = IF fills THEN in.full ELSE fuel - Can * Part
        /\ drive' = IF in.limit = 0 THEN 0
                    ELSE IF change THEN in.limit ELSE drive - Can * LapTime
        /\ remaining' = IF in.authority = "time" THEN LapsRemaining("time", in.end, at)
                        ELSE remaining - Can

\* _stop_plan's loop body: the laps fuel and driver allow, then a stop.
Stop ==
    /\ ~done /\ ~Ended
    /\ PitStop(Refuels, Named \/ Reason = "driver")
    /\ UNCHANGED <<in, done>>

Finish ==
    /\ ~done /\ Ended
    /\ done' = TRUE
    /\ UNCHANGED <<in, lap, clock, remaining, fuel, drive, stops>>

Next == Stop \/ Finish

Spec == Init /\ [][Next]_vars

-----------------------------------------------------------------------------

\* The lap of the last stop up to the i-th for which the test holds, 0 if none.
LastLap(i, Test(_)) ==
    LET before == {j \in 1..i : Test(stops[j])}
    IN  IF before = {} THEN 0 ELSE stops[CHOOSE j \in before : \A k \in before : k <= j].lap

IsRefuel(s) == s.type = "refuel"
IsChange(s) == s.change

Filled == {j \in DOMAIN stops : IsRefuel(stops[j])}

\* The state has the shape the code gives it.
TypeOK ==
    /\ remaining \in Nat /\ lap \in Nat /\ Len(stops) <= MaxStops
    /\ \A i \in DOMAIN stops : stops[i].type \in {"refuel", "service"}

\* The plan can be driven: between two refuels the car never needs more than a
\* full tank, nor before the first one more than is in it now, over service
\* stops, and when the walk ends within the stops it may simulate, the last
\* tank reaches the end.
FuelLasts ==
    /\ \A i \in DOMAIN stops :
          LET from == LastLap(i - 1, IsRefuel)
              tank == IF \E j \in 1..i - 1 : IsRefuel(stops[j]) THEN in.full ELSE in.tank
          IN  (stops[i].lap - from) * Part <= tank
    /\ done /\ Len(stops) < MaxStops =>
          LET tank == IF Filled # {} THEN in.full ELSE in.tank
          IN  (lap + remaining - LastLap(Len(stops), IsRefuel)) * Part <= tank

\* No driver drives longer than the continuous limit, the laps driven before
\* now included for the first one (who may be over it already).
DriversWithinLimit ==
    in.limit # 0 => \A i \in DOMAIN stops :
        LET from == LastLap(i - 1, IsChange)
            had == IF \E j \in 1..i - 1 : IsChange(stops[j]) THEN 0 ELSE in.driven
        IN  had <= in.limit => (stops[i].lap - from) * LapTime + had <= in.limit

\* The walk runs into the bound on simulated stops only when the limit is less
\* than a lap: otherwise every two stops make progress.
WalkEnds ==
    done /\ Len(stops) >= MaxStops => in.limit # 0 /\ in.limit < LapTime

\* The number of stops shown beside the plan is never more than the plan's
\* refuels when only fuel decides, and equals it when a tank lasts a whole
\* number of laps.
StopsAgree ==
    done /\ in.limit = 0 /\ in.authority = "laps" /\ Len(stops) < MaxStops =>
        LET needed == StopsNeeded(in.end, in.tank, in.full)
        IN  /\ needed <= Cardinality(Filled)
            /\ in.full % Part = 0 /\ in.tank % Part = 0 => needed = Cardinality(Filled)

\* A first stop at any lap of the window is within the fuel in the tank, and
\* leaves no more than the stops to come can fuel; the earliest lap shown is
\* the first of which that is so.  (Asked of every input once, where its walk ends.)
WindowHolds ==
    done =>
    LET laps == LapsRemaining(in.authority, in.end, 0)
        w == Window(laps, in.tank, in.full, PlannedRefuels(in.plan))
    IN  StopsNeeded(laps, in.tank, in.full) > 0 =>
            /\ \A l \in w.open..w.close :
                  l * Part <= in.tank /\ (laps - l) * Part <= w.stops * in.full
            /\ w.open > 0 => (laps - (w.open - 1)) * Part > w.stops * in.full

\* A lap is kept out of the burn exactly when some moment of it was spent in
\* the pits, and the time driven in it is the rest of it.  (Asked where a walk ends.)
PitTimeExact ==
    done =>
    \A start, end, entry \in 1..Horizon, exit \in 0..Horizon :
        start < end /\ (exit = 0 \/ entry <= exit) =>
            /\ TouchesPits(start, end, entry, exit)
                   <=> \E t \in start + 1..end : entry <= t /\ (exit = 0 \/ t <= exit)
            /\ DrivenSeconds(start, end, entry, exit)
                   = Cardinality({t \in start..end - 1 : ~(entry <= t /\ (exit = 0 \/ t < exit))})
=============================================================================
