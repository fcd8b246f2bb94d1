----------------------------- MODULE MCPitData -----------------------------
(***************************************************************************)
(* The data services of the pit, one at a time: the plan of stops, the fuel *)
(* model and the strategy service, the timing feed with its connection, its *)
(* ingest and its findings, the identity of channels, and the import of old *)
(* data.                                                                   *)
(***************************************************************************)
EXTENDS StopPlan, FuelModel, Strategy, TimingFeed, FeedConnection, FieldFindings,
        FeedIngest, ChannelIdentity, LegacyImport

PlannedStop(by, when, type, change) == [by |-> by, at |-> when, type |-> type, change |-> change]
StopPlans ==
    {<<>>, <<PlannedStop("lap", 1, "refuel", TRUE)>>,
     <<PlannedStop("lap", 0, "refuel", TRUE), PlannedStop("time", 3, "service", FALSE),
       PlannedStop("lap", 3, "refuel", TRUE)>>}

Crossing(line, n, time) == [line |-> line, lap |-> n, elapsed |-> time]
Crossings ==
    {Crossing("Sector1", 1, 1), Crossing("Sector1", 2, 1), Crossing("Sector2", 1, 2),
     Crossing("Sector2", 1, 1), Crossing("StartFinish", 2, 3), Crossing("StartFinish", 2, 2),
     Crossing("StartFinish", 3, 4), Crossing("StartFinish", 1, 0), Crossing("Pit", 1, 0)}

FirstProfile == [catalog |-> <<"a">>, derived |-> <<"d">>]
ChannelProfiles ==
    {FirstProfile, [catalog |-> <<"b", "a">>, derived |-> <<"d">>],
     [catalog |-> <<"a">>, derived |-> <<"d", "b">>], [catalog |-> <<"a", "c">>, derived |-> <<"d">>]}

AnyInput == CHOOSE i \in Inputs : TRUE

MCUncertainty == [key_on |-> 0, session_start |-> 0, moving |-> 1, plan |-> 2]
MCShapes == {{"documents"}, {"snapshots"}, {"documents", "snapshots"}}
MCRegistries == {<<7, 8>>}
MCSizes == <<2, 0, 5, 1>>
MCBackoff == <<1, 2>>
MCBoardBoards == {<<1, 2>>, <<1, 1>>, <<0, 1>>}
MCSourceOf == [a |-> 1, b |-> 2, c |-> 1, d |-> 2, e |-> 2]
MCSynthetic == <<"b", "e">>
MCSampleDumps == [1 .. 4 -> {-1, 0, 1, 2}]
MCLapDumps == [1 .. 4 -> Crossings]

\* The component that runs in this behaviour; the others rest.
VARIABLE component

allVars == <<component, vars, fuelVars, strategyVars, feedVars, connectionVars, fieldVars,
             boardVars, identityVars, importVars>>

ComponentsInit ==
    /\ component \in {"stops", "fuel", "strategy", "feed", "connection", "findings",
                      "boards", "identity", "import"}
    /\ (component # "stops" => in = AnyInput) /\ Init
    /\ FuelInit /\ (component # "fuel" => stints[1].first = 8)
    /\ StrategyInit
    /\ (component # "feed" => shapes = {"documents"}) /\ FeedInit
    /\ ConnectionInit
    /\ FieldInit
    /\ BoardInit
    /\ IdentityInit
    /\ (component # "import" => dump = [kind |-> "read", lines |-> <<0, 0, 0, 0>>]) /\ ImportInit

StopsRuns ==
    /\ component = "stops" /\ Next
    /\ UNCHANGED <<component, fuelVars, strategyVars, feedVars, connectionVars, fieldVars,
                   boardVars, identityVars, importVars>>

FuelRuns ==
    /\ component = "fuel" /\ FuelNext
    /\ UNCHANGED <<component, vars, strategyVars, feedVars, connectionVars, fieldVars,
                   boardVars, identityVars, importVars>>

StrategyRuns ==
    /\ component = "strategy" /\ StrategyNext
    /\ UNCHANGED <<component, vars, fuelVars, feedVars, connectionVars, fieldVars,
                   boardVars, identityVars, importVars>>

FeedRuns ==
    /\ component = "feed" /\ FeedNext
    /\ UNCHANGED <<component, vars, fuelVars, strategyVars, connectionVars, fieldVars,
                   boardVars, identityVars, importVars>>

ConnectionRuns ==
    /\ component = "connection" /\ ConnectionNext
    /\ UNCHANGED <<component, vars, fuelVars, strategyVars, feedVars, fieldVars, boardVars,
                   identityVars, importVars>>

FieldRuns ==
    /\ component = "findings" /\ FieldNext
    /\ UNCHANGED <<component, vars, fuelVars, strategyVars, feedVars, connectionVars,
                   boardVars, identityVars, importVars>>

BoardRuns ==
    /\ component = "boards" /\ BoardNext
    /\ UNCHANGED <<component, vars, fuelVars, strategyVars, feedVars, connectionVars,
                   fieldVars, identityVars, importVars>>

IdentityRuns ==
    /\ component = "identity" /\ IdentityNext
    /\ UNCHANGED <<component, vars, fuelVars, strategyVars, feedVars, connectionVars,
                   fieldVars, boardVars, importVars>>

ImportRuns ==
    /\ component = "import" /\ ImportNext
    /\ UNCHANGED <<component, vars, fuelVars, strategyVars, feedVars, connectionVars,
                   fieldVars, boardVars, identityVars>>

ComponentsNext ==
    \/ StopsRuns \/ FuelRuns \/ StrategyRuns \/ FeedRuns
    \/ ConnectionRuns \/ FieldRuns \/ BoardRuns \/ IdentityRuns
    \/ ImportRuns

ComponentsSpec == ComponentsInit /\ [][ComponentsNext]_allVars

-----------------------------------------------------------------------------
\* The planned stops never run the tank or a driver past the limit and end with the
\* race; the fuel figure's lower bound is below the fuel there is; the row shown is
\* the latest, and each warning has one.
StrategyIsSound ==
    /\ component = "stops" => /\ TypeOK /\ FuelLasts /\ DriversWithinLimit /\ WalkEnds
                              /\ StopsAgree /\ WindowHolds /\ PitTimeExact
    /\ component = "fuel" => FuelTypeOK /\ LowBoundIsSafe /\ KeyOnIsExact /\ RebaseNotStale
    /\ component = "strategy" => /\ StrategyTypeOK /\ NeverStale /\ OneRowPerWarning
                                 /\ RetainedIsLatest


\* A channel number means one thing for ever and leads to its channel; an import
\* resumed after a crash leaves nothing out and attributes splits to their own lap.
ArchiveIsTrue ==
    /\ component = "identity" => IdentityTypeOK /\ OneMeaning /\ RightChannel
    /\ component = "import" => /\ ImportTypeOK /\ CursorTellsAll /\ FinishedIsWhole
                               /\ SplitsAreOwn

\* A poll that finds nothing to do finds the latest strategy row current; a channel's
\* key is for ever, and what the vehicle has described stays so.
ChangesAreSeen ==
    [][/\ component = "strategy" => RowIsCurrent
       /\ component = "identity" => KeyIsForever /\ VehicleDescribes]_allVars
=============================================================================
