----------------------------- MODULE MCVehicle -----------------------------
(***************************************************************************)
(* The agent on the car with the faults of its links and threads, and, one at *)
(* a time, its session inbox, its source on the serial line, the report by *)
(* exception that decides which samples are kept, and the reassembly of the *)
(* samples that a position is made from.                                   *)
(***************************************************************************)
EXTENDS VehicleAgent, SessionInbox, SerialSource, ReportByException, FusionInputs

\* The component that runs in this behaviour; the others rest.
VARIABLE component

allVars == <<component, vars, inboxVars, serialVars, reportVars, inputVars>>

ComponentsInit ==
    /\ component \in {"agent", "inbox", "serial", "report", "inputs"}
    /\ Init
    /\ InboxInit
    /\ SerialInit /\ (component # "serial" => strict)
    /\ ReportInit
    /\ InputInit

AgentRuns ==
    /\ component = "agent" /\ Next
    /\ UNCHANGED <<component, inboxVars, serialVars, reportVars, inputVars>>

InboxRuns ==
    /\ component = "inbox" /\ InboxNext
    /\ UNCHANGED <<component, vars, serialVars, reportVars, inputVars>>

SerialRuns ==
    /\ component = "serial" /\ SerialNext
    /\ UNCHANGED <<component, vars, inboxVars, reportVars, inputVars>>

ReportRuns ==
    /\ component = "report" /\ ReportNext
    /\ UNCHANGED <<component, vars, inboxVars, serialVars, inputVars>>

InputRuns ==
    /\ component = "inputs" /\ InputNext
    /\ UNCHANGED <<component, vars, inboxVars, serialVars, reportVars>>

ComponentsNext ==
    \/ AgentRuns \/ InboxRuns \/ SerialRuns \/ ReportRuns
    \/ InputRuns

\* The variables of the component that runs.
awake ==
    CASE component = "inbox" -> inboxVars
      [] component = "serial" -> serialVars
      [] OTHER -> <<>>

\* The fairness of each component is the one its module states.  Only one runs in
\* a behaviour, so one condition serves the first fair action of every component,
\* another the second of every component, and so on.
Weak1 ==
    /\ UNCHANGED component
    /\ \/ component = "inbox" /\ InboxDeliver
       \/ component = "serial" /\ Step

Weak2 ==
    /\ UNCHANGED component
    /\ \/ component = "inbox" /\ Take
       \/ component = "serial" /\ SerialDeliver

Weak3 ==
    /\ UNCHANGED component
    /\ \/ component = "inbox" /\ (\E w \in workers : Work(w))
       \/ component = "serial" /\ SerialTick

Fair ==
    /\ \A c \in Classes : WF_vars(component = "agent" /\ PutSample(c))
    /\ \A c \in Collectors : WF_vars(component = "agent" /\ StopCollector(c))
    /\ WF_vars(component = "agent" /\ HealthExits)
    /\ WF_vars(component = "agent" /\ PipelineNext)
    /\ WF_vars(component = "agent" /\ PublisherNext)
    /\ WF_vars(component = "agent" /\ Land)
    /\ WF_vars(component = "agent" /\ (JoinPipeline \/ FinalStatus \/ StopPublisher))
    /\ WF_awake(Weak1)
    /\ WF_awake(Weak2)
    /\ WF_awake(Weak3)

ComponentsSpec == ComponentsInit /\ [][ComponentsNext]_allVars /\ Fair

-----------------------------------------------------------------------------
\* cmd.<vehicle>.session is last-value: once the pit has published a session
\* and goes on to no other, the laps are stamped with it in the end.
NewestInForceWhenRun == <>[](component = "inbox") => NewestInForce

\* Once the faults are over the receiver is configured and read again, from
\* whichever command format it was left in.
ReadingResumesWhenRun == <>[](component = "serial") => ReadingResumes

\* What comes into the car is taken for what it is: the session in force, in memory
\* and in its file is the newest one sent, and a receiver counts as configured, is
\* sent corrections and has its sentences believed only when that is so.
IntakeIsTrue ==
    /\ component = "inbox" => InboxTypeOK /\ AllAgree
    /\ component = "serial" => /\ SerialTypeOK /\ ConfiguredIsTrue /\ NoStrayCorrection
                               /\ NoFixNoValue

\* What the deadband holds back is close to what was shown, and not for longer than
\* the heartbeat; what the fusion is given was captured together, at its rate.
SamplesAreTrue ==
    /\ component = "report" => ReportTypeOK /\ ShownIsClose /\ Heartbeat
    /\ component = "inputs" => InputTypeOK /\ OneCapture /\ FixOfOneEpoch /\ RateHonoured

\* The car keeps going: every sample's fate is decided and every shutdown ends, the
\* newest session comes into force and no older one after it, the receiver is read
\* again, and a window that raises costs that window.
VehicleProgress ==
    /\ Settles /\ Stops /\ NewestInForceWhenRun
    /\ ReadingResumesWhenRun /\ NeverBackwards /\ CostsOneWindow
=============================================================================
