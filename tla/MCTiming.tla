------------------------------ MODULE MCTiming ------------------------------
(***************************************************************************)
(* What a lap is worth, where the car is and how it wears, one part at a time: *)
(* lap timing from crossing to row, the fusion of satellite and inertial fixes, *)
(* the live extrapolation, and the watch monitors with the sums that find a *)
(* drift.                                                                  *)
(***************************************************************************)
EXTENDS LapTiming, Fusion, TimingExtrapolator, DriftMonitor, Watch

ClockReports ==
    {[offset |-> "good", stratum |-> "good", source |-> "good"],
     [offset |-> "odd", stratum |-> "good", source |-> "bad"]}

\* The component that runs in this behaviour; the others rest.
VARIABLE component

allVars == <<component, vars, fusionVars, extrapolatorVars, driftVars, watchVars>>

ComponentsInit ==
    /\ component \in {"laps", "fusion", "extrapolator", "drift", "watch"}
    /\ Init
    /\ FusionInit
    /\ ExtrapolatorInit
    /\ DriftInit
    /\ (component # "watch" => kind = "drift") /\ WatchInit

LapsRuns ==
    /\ component = "laps" /\ Next
    /\ UNCHANGED <<component, fusionVars, extrapolatorVars, driftVars, watchVars>>

FusionRuns ==
    /\ component = "fusion" /\ FusionNext
    /\ UNCHANGED <<component, vars, extrapolatorVars, driftVars, watchVars>>

ExtrapolatorRuns ==
    /\ component = "extrapolator" /\ ExtrapolatorNext
    /\ UNCHANGED <<component, vars, fusionVars, driftVars, watchVars>>

DriftRuns ==
    /\ component = "drift" /\ DriftNext
    /\ UNCHANGED <<component, vars, fusionVars, extrapolatorVars, watchVars>>

WatchRuns ==
    /\ component = "watch" /\ WatchNext
    /\ UNCHANGED <<component, vars, fusionVars, extrapolatorVars, driftVars>>

ComponentsNext ==
    \/ LapsRuns \/ FusionRuns \/ ExtrapolatorRuns \/ DriftRuns
    \/ WatchRuns

ComponentsSpec == ComponentsInit /\ [][ComponentsNext]_allVars

-----------------------------------------------------------------------------
\* The filter is not used on a faulty input, and dead reckoning has an end.
PositionIsTrue ==
    /\ component = "fusion" => FusionTypeOK /\ NoFilterOnFault /\ NoLongDeadReckoning

\* The extrapolated timing runs on the car's clock, is withheld while that clock is
\* off, and the newest publication is the one shown.
ClockShownIsTrue ==
    /\ component = "extrapolator" => /\ ExtrapolatorTypeOK /\ ClockIsCars /\ GatedWhenOff
                                     /\ NewestShown


\* Sources change on evidence: a failed filter returns after its recovery time, a
\* parked car is not a frozen one, a disagreement ends; a finding is closed by
\* evidence or a change of session, never by silence.
EvidenceDecides ==
    [][/\ component = "fusion" => NoFlapping /\ ParkedIsNotFrozen /\ DisagreementEnds
       /\ component = "watch" => ClosedByEvidence]_allVars
=============================================================================
