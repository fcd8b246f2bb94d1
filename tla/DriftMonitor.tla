---------------------------- MODULE DriftMonitor ----------------------------
(***************************************************************************)
(* The arithmetic of the drift monitor (pit/watch/monitors.py, Drift): a   *)
(* two-sided CUSUM of each clean lap's residual against the frozen         *)
(* baseline, in half standard deviations so that the default allowance k   *)
(* (0.5 sigma) and threshold h (4 sigma) are integers.                     *)
(***************************************************************************)
EXTENDS Naturals, Integers, FiniteSets, FiniteSetsExt

CONSTANTS
    K,          \* cusum_k in half sigmas
    H,          \* cusum_h in half sigmas
    Sigma,      \* one sigma in half sigmas
    Residuals,  \* the residuals a lap can have
    Shift,      \* a residual that is a drift: above K
    MaxCusum    \* bound on the accumulated sums

VARIABLES
    driftUp,  \* cusum_up
    down,     \* cusum_down
    calm,     \* consecutive laps within a sigma, capped where it stops mattering
    open,     \* a finding is open
    opened,   \* history: the last clean lap is the one that opened it
    dirty,    \* the car has been in the pits during this lap
    drifting  \* history: consecutive clean laps with a residual of Shift or more

driftVars == <<driftUp, down, calm, open, opened, dirty, drifting>>

CalmLaps == 3

DriftInit ==
    /\ driftUp = 0
    /\ down = 0
    /\ calm = 0
    /\ open = FALSE
    /\ opened = FALSE
    /\ dirty = FALSE
    /\ drifting = 0

Abs(r) == IF r < 0 THEN -r ELSE r

\* on_pit: the current lap is an in-lap or an out-lap.
OnPit ==
    /\ dirty' = TRUE
    /\ UNCHANGED <<driftUp, down, calm, open, opened, drifting>>

\* on_lap, a lap that is not clean: invalid, visited the pits, or too few
\* samples.  Only the lap's own accumulators start again.
UncleanLap ==
    /\ dirty' = FALSE
    /\ UNCHANGED <<driftUp, down, calm, open, opened, drifting>>

\* on_lap, a clean lap after the baseline is frozen.  Three laps back inside a
\* sigma while a finding is open start the sums again.
DriftLap(r) ==
         LET c == IF Abs(r) <= Sigma THEN Min({calm + 1, CalmLaps}) ELSE 0
             reset == open /\ c >= CalmLaps
             u == IF reset THEN 0 ELSE Max({0, driftUp + r - K})
             d == IF reset THEN 0 ELSE Max({0, down - r - K})
         IN  /\ ~dirty
             /\ u <= MaxCusum /\ d <= MaxCusum
             /\ driftUp' = u
             /\ down' = d
             /\ calm' = c
             /\ open' = (Max({u, d}) >= H)
             /\ opened' = (open' /\ ~open)
             /\ dirty' = FALSE
             /\ drifting' = IF r >= Shift THEN drifting + 1 ELSE 0

DriftNext ==
    \/ OnPit
    \/ UncleanLap
    \/ \E r \in Residuals : DriftLap(r)

DriftSpec == DriftInit /\ [][DriftNext]_driftVars

-----------------------------------------------------------------------------
\* The sums are non-negative, the calm count is capped.
DriftTypeOK ==
    /\ driftUp \in 0..MaxCusum
    /\ down \in 0..MaxCusum
    /\ calm \in 0..CalmLaps
    /\ open \in BOOLEAN
    /\ opened \in BOOLEAN
    /\ dirty \in BOOLEAN
    /\ drifting \in Nat

\* "Three laps back inside a sigma: the drift has stopped or been fixed"
\* (monitors.py): however large the sum had grown, a finding is never still
\* open after three calm laps.  One may open on such a lap, because a shift of
\* less than a sigma accumulates too, and then the next calm lap closes it.
CalmCloses == open /\ calm >= CalmLaps => opened

\* A sustained drift is found in time: once consecutive clean laps have each
\* been Shift off, in-laps and out-laps between them or not, for long enough
\* to carry the sum to the threshold, the finding is open.
DriftFound == drifting * (Shift - K) >= H => open
=============================================================================
