----------------------------- MODULE MCDevices -----------------------------
(***************************************************************************)
(* Programs that must keep going whatever their surroundings do, one at a  *)
(* time: the migrations of the database, the source on the CAN bus, the raw *)
(* capture, the programs that discipline the clock, the corrections client, *)
(* the pit monitor and the alarm notifier.                                 *)
(***************************************************************************)
EXTENDS Migrate, CanSource, RawCapture, ClockShims, NtripClient, PitMonitor, Notifier

MCDir == [a \in Appliers |-> IF a = "old" THEN {1, 2} ELSE {1, 2, 3}]

MCDevices == [i \in {"shared", "stray", "odd"} |-> IF i = "shared" THEN {"ecu", "dash"} ELSE {}]
MCSeverity == [oil |-> 2, drill |-> 1]
MCChannels == <<"page", "phones">>
MCMinSeverity == [page |-> 1, phones |-> 2]
MCRepeatS == [page |-> 0, phones |-> 2]
MCBackoff == <<1, 2>>

\* The component that runs in this behaviour; the others rest.
VARIABLE component

allVars == <<component, vars, canVars, candumpVars, shimVars, ntripVars, monitorVars,
             notifierVars>>

ComponentsInit ==
    /\ component \in {"migrate", "can", "capture", "clock", "ntrip", "monitor", "notifier"}
    /\ Init
    /\ CanInit
    /\ CandumpInit
    /\ ShimInit
    /\ NtripInit
    /\ MonitorInit
    /\ NotifierInit

MigrationRuns ==
    /\ component = "migrate" /\ Next
    /\ UNCHANGED <<component, canVars, candumpVars, shimVars, ntripVars, monitorVars,
                   notifierVars>>

CanRuns ==
    /\ component = "can" /\ CanNext
    /\ UNCHANGED <<component, vars, candumpVars, shimVars, ntripVars, monitorVars,
                   notifierVars>>

CandumpRuns ==
    /\ component = "capture" /\ CandumpNext
    /\ UNCHANGED <<component, vars, canVars, shimVars, ntripVars, monitorVars,
                   notifierVars>>

ShimRuns ==
    /\ component = "clock" /\ ShimNext
    /\ UNCHANGED <<component, vars, canVars, candumpVars, ntripVars, monitorVars,
                   notifierVars>>

NtripRuns ==
    /\ component = "ntrip" /\ NtripNext
    /\ UNCHANGED <<component, vars, canVars, candumpVars, shimVars, monitorVars,
                   notifierVars>>

MonitorRuns ==
    /\ component = "monitor" /\ MonitorNext
    /\ UNCHANGED <<component, vars, canVars, candumpVars, shimVars, ntripVars,
                   notifierVars>>

NotifierRuns ==
    /\ component = "notifier" /\ NotifierNext
    /\ UNCHANGED <<component, vars, canVars, candumpVars, shimVars, ntripVars, monitorVars>>

ComponentsNext ==
    \/ MigrationRuns \/ CanRuns \/ CandumpRuns \/ ShimRuns
    \/ NtripRuns \/ MonitorRuns \/ NotifierRuns

\* The variables of the component that runs.
awake ==
    CASE component = "can" -> canVars
      [] component = "capture" -> candumpVars
      [] component = "clock" -> shimVars
      [] component = "ntrip" -> ntripVars
      [] component = "monitor" -> monitorVars
      [] OTHER -> <<>>

\* The fairness of each component is the one its module states.  Only one runs in
\* a behaviour, so one condition serves the first fair action of every component,
\* another the second of every component, and so on.
Weak1 ==
    /\ UNCHANGED component
    /\ \/ component = "can" /\ CanStep
       \/ component = "capture" /\ CandumpStep
       \/ component = "clock" /\ Reopen
       \/ component = "ntrip" /\ NtripTick
       \/ component = "monitor" /\ MonitorStep

Weak2 ==
    /\ UNCHANGED component
    /\ \/ component = "can" /\ CanTick
       \/ component = "capture" /\ (candumpPc = "wait" /\ CandumpTick)
       \/ component = "clock" /\ Line
       \/ component = "ntrip" /\ Wake

Weak3 ==
    /\ UNCHANGED component
    /\ \/ component = "capture" /\ (child = "ending" /\ ChildEnds)
       \/ component = "ntrip" /\ Dial

Weak4 ==
    /\ UNCHANGED component
    /\ \/ component = "ntrip" /\ ConnectNats

Weak5 ==
    /\ UNCHANGED component
    /\ \/ component = "ntrip" /\ CasterSilent

Weak6 ==
    /\ UNCHANGED component
    /\ \/ component = "ntrip" /\ NtripRestart

Weak7 ==
    /\ UNCHANGED component
    /\ \/ component = "ntrip" /\ FeedWakes

Fair ==
    /\ WF_awake(Weak1)
    /\ WF_awake(Weak2)
    /\ WF_awake(Weak3)
    /\ WF_awake(Weak4)
    /\ WF_awake(Weak5)
    /\ WF_awake(Weak6)
    /\ WF_awake(Weak7)

ComponentsSpec == ComponentsInit /\ [][ComponentsNext]_allVars /\ Fair

-----------------------------------------------------------------------------
\* No applier waits for ever on the lock of one that failed or went away.
LockIsGrantedWhenRun ==
    <>[](component = "migrate") /\ (\A a \in Appliers : SF_vars(Step(a))) => LockIsGranted

\* A bus that failed is read again.
BusReadAgainWhenRun == <>[](component = "can") => BusReadAgain

\* A candump that dies is started again, whatever it relayed, unless the
\* service was stopped meanwhile (or lost its disk or its power).
StartedAgainWhenRun == <>[](component = "capture") => StartedAgain

\* A stop ends the run, unless the signal met one of the two lock blocks.
StopReturnsWhenRun == <>[](component = "capture") => StopReturns

\* process_line, run: the numbers wrap, lines are lost, the firmware starts over,
\* the device is unplugged, and chrony still gets a new sample in the end.
LinesResumeWhenRun ==
    <>[](component = "clock") /\ SF_shimVars(Line /\ shimLast' # shimLast) => LinesResume

\* The corrections come back: whatever fails, the caster is streamed from
\* again and again.
CorrectionsResumeWhenRun == <>[](component = "ntrip") => CorrectionsResume

\* Whatever probe or write failed before, a poll with every reading is
\* committed again, for ever.
FullPollsResumeWhenRun == <>[](component = "monitor") => FullPollsResume

\* An alert nobody acknowledges is repeated again and again on a repeating
\* channel that is reachable (Dispatcher.repeat_due from the one-second tick).
RepeatsUntilAckedWhenRun ==
    <>[](component = "notifier") /\ []<><<second' # second>>_second => RepeatsUntilAcked

\* Every frame of the bus is accounted for with its true time, and what the raw
\* capture has left behind in closed files or by a clean stop is durable.
CanPathIsTrue ==
    /\ component = "can" => CanTypeOK /\ StampsTrue /\ FramesAccounted
    /\ component = "capture" => /\ CandumpTypeOK /\ OlderIsDurable /\ WriteSyncs
                                /\ CleanStopKeepsAll /\ NoOrphan


\* No alert is lost without a word, retried past its deadline or kept after it was
\* delivered.
AlertsAreKept ==
    /\ component = "notifier" => /\ NotifierTypeOK /\ NoSilentLoss /\ DeadlineHonoured
                                 /\ QueueForgets /\ LocalWordIsState

\* None of these programs stays where a fault has put it; a role is set before it is
\* used, a known position is not lost, and a slow poll is not made up for in a burst.
DevicesProgress ==
    /\ LockIsGrantedWhenRun /\ BusReadAgainWhenRun /\ StartedAgainWhenRun
    /\ StopReturnsWhenRun /\ LinesResumeWhenRun /\ CorrectionsResumeWhenRun
    /\ FullPollsResumeWhenRun /\ RepeatsUntilAckedWhenRun /\ RoleIsSet
    /\ PositionKept /\ NoBurst
=============================================================================
