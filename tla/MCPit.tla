------------------------------- MODULE MCPit -------------------------------
(***************************************************************************)
(* The services the pit wall works with, one at a time: the session service *)
(* and its state machine, the race plan, the page of the annunciator, and  *)
(* the live decoder with its limiter.                                      *)
(***************************************************************************)
EXTENDS SessionControl, SessionState, RacePlan, AnnunciatorFeed, LiveDecoder, LiveLimiter

PlanBodies ==
    {[end |-> 1, laps |-> -1, authority |-> "", usable |-> 1],
     [end |-> 0, laps |-> -1, authority |-> "time", usable |-> 1],
     [end |-> -1, laps |-> 1, authority |-> "time", usable |-> 1]}

LiveViews ==
    {[hz |-> <<1, 2>>, total |-> 3], [hz |-> <<2, 1>>, total |-> 1], [hz |-> <<1, 0>>, total |-> 0]}

LiveFiles ==
    {[vehicle |-> "none", rules |-> {"rpm"}], [vehicle |-> "car", rules |-> {"oil", "fuel"}],
     [vehicle |-> "other", rules |-> {"rpm"}], [vehicle |-> "none", rules |-> {}]}

MCNames == << <<"rpm", "oil">>, <<"oil", "fuel">> >>
MCBatches == {<<1>>, <<2>>, <<1, 2>>, <<2, 2>>}

\* The component that runs in this behaviour; the others rest.
VARIABLE component

allVars == <<component, vars, stateVars, planVars, annunciatorVars, decoderVars,
             limiterVars>>

ComponentsInit ==
    /\ component \in {"control", "state", "plan", "annunciator", "decoder", "limiter"}
    /\ Init
    /\ StateInit
    /\ PlanInit
    /\ AnnunciatorInit
    /\ (component # "decoder" => decoderFile = [vehicle |-> "none", rules |-> {"rpm"}]) /\ DecoderInit
    /\ (component # "limiter" => view = CHOOSE v \in LiveViews : TRUE) /\ LimiterInit

ControlRuns ==
    /\ component = "control" /\ Next
    /\ UNCHANGED <<component, stateVars, planVars, annunciatorVars, decoderVars,
                   limiterVars>>

StateRuns ==
    /\ component = "state" /\ StateNext
    /\ UNCHANGED <<component, vars, planVars, annunciatorVars, decoderVars, limiterVars>>

PlanRuns ==
    /\ component = "plan" /\ PlanNext
    /\ UNCHANGED <<component, vars, stateVars, annunciatorVars, decoderVars, limiterVars>>

AnnunciatorRuns ==
    /\ component = "annunciator" /\ AnnunciatorNext
    /\ UNCHANGED <<component, vars, stateVars, planVars, decoderVars, limiterVars>>

DecoderRuns ==
    /\ component = "decoder" /\ DecoderNext
    /\ UNCHANGED <<component, vars, stateVars, planVars, annunciatorVars, limiterVars>>

LimiterRuns ==
    /\ component = "limiter" /\ LimiterNext
    /\ UNCHANGED <<component, vars, stateVars, planVars, annunciatorVars, decoderVars>>

ComponentsNext ==
    \/ ControlRuns \/ StateRuns \/ PlanRuns \/ AnnunciatorRuns
    \/ DecoderRuns \/ LimiterRuns

\* The variables of the component that runs.
awake ==
    CASE component = "plan" -> planVars
      [] component = "annunciator" -> annunciatorVars
      [] OTHER -> <<>>

\* The fairness of each component is the one its module states.  Only one runs in
\* a behaviour, so one condition serves the first fair action of every component,
\* another the second of every component, and so on.
Weak1 ==
    /\ UNCHANGED component
    /\ \/ component = "plan" /\ Step("c1")
       \/ component = "annunciator" /\ (AnnunciatorRecord("t1") \/ TakeSnapshot("t1") \/ Push("t1"))

Weak2 ==
    /\ UNCHANGED component
    /\ \/ component = "plan" /\ Step("c2")
       \/ component = "annunciator" /\ (AnnunciatorRecord("t2") \/ TakeSnapshot("t2") \/ Push("t2"))

Weak3 ==
    /\ UNCHANGED component
    /\ \/ component = "plan" /\ Decide
       \/ component = "annunciator" /\ AnnunciatorSubscribe

Weak4 ==
    /\ UNCHANGED component
    /\ \/ component = "annunciator" /\ FirstSnapshot

Weak5 ==
    /\ UNCHANGED component
    /\ \/ component = "annunciator" /\ AnnunciatorDrain

Weak6 ==
    /\ UNCHANGED component
    /\ \/ component = "annunciator" /\ (\E t \in {"t1", "t2"} : AnnunciatorTick(t) /\ heartbeat' # heartbeat)

Fair ==
    /\ WF_vars(component = "control" /\ Boot)
    /\ WF_vars(component = "control" /\ Record)
    /\ WF_vars(component = "control" /\ FlushFails)
    /\ WF_vars(component = "control" /\ FlushSettles)
    /\ WF_vars(component = "control" /\ Send)
    /\ WF_vars(component = "control" /\ Sent)
    /\ WF_vars(component = "control" /\ DbUp)
    /\ WF_awake(Weak1)
    /\ WF_awake(Weak2)
    /\ WF_awake(Weak3)
    /\ WF_awake(Weak4)
    /\ WF_awake(Weak5)
    /\ WF_awake(Weak6)

ComponentsSpec == ComponentsInit /\ [][ComponentsNext]_allVars /\ Fair

-----------------------------------------------------------------------------
\* Once the faults are over, the database holds the last snapshot of every
\* session, the queue is empty and the vehicle knows the current state (again as
\* long as the retry queue can be written and no action is cancelled).
ConvergesWhenRun ==
    <>[](component = "control") /\ SF_vars(Connect) /\ SF_vars(FlushCommits) => Converges

\* do_POST and do_GET: every request that got a worker is answered.
AnsweredWhenRun == <>[](component = "plan") => Answered

\* A page that stays connected ends up showing the book once the book stops
\* changing and no more events are recorded, as long as heartbeats keep arriving: every notification, even one
\* without an event, is followed by a snapshot (_after).
PageConvergesWhenRun == <>[](component = "annunciator") => PageConverges

\* A plan the operator was told is saved is stored, under its own revision, and what
\* the validation accepts the database can store.
PlanIsSafe ==
    /\ component = "plan" => /\ PlanTypeOK /\ SavedIsStored /\ RevisionsCount
                             /\ AcceptedIsStorable


\* Once the faults are over, database and vehicle know the current session; every
\* request for a plan is answered; the page comes to show what is the case; and no
\* value shown is followed by an older one.
PitProgress ==
    /\ ConvergesWhenRun /\ AnsweredWhenRun /\ PageConvergesWhenRun
    /\ NeverBackwards
=============================================================================
