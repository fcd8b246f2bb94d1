---------------------------- MODULE PitMonitor ----------------------------
(***************************************************************************)
(* The pit monitor (pit/pit_monitor): every Interval it reads its probes   *)
(* in turn, each a few groups of readings that may raise part-way, and     *)
(* inserts what it read in one transaction, on a connection that is        *)
(* dropped after an error and opened again by the next poll.               *)
(***************************************************************************)
EXTENDS Integers, Sequences, FiniteSets

CONSTANTS
    HostGroups,  \* the host reader's metric groups
    NatsPages,  \* the monitoring pages read of the NATS server
    Interval,
    MaxSlow,    \* the longest a poll takes
    MonitorMaxFaults

VARIABLES
    monitorPhase,  \* "wait", "probe", "insert"
    at,         \* the probe being read
    got,        \* what each has yielded in this poll
    failures,   \* the host reader's counter of groups it could not read
    raised,     \* the probes that raised in this poll
    conn,       \* "none", "open", or "stale": closed by the server
    inserted,   \* rows of the open transaction
    visible,    \* rows of this poll that are in pit_metrics
    monitorReported,  \* what poll made of it: "none", "written", "error"
    monitorDue,  \* next_poll, from now
    since,      \* the time since the poll began
    monitorFaults

monitorVars == <<monitorPhase, at, got, failures, raised, conn, inserted, visible,
                 monitorReported, monitorDue, since, monitorFaults>>
pollVars == <<at, got, failures, raised>>
writeVars == <<conn, inserted, visible>>
timeVars == <<monitorDue, since>>

Probes == <<"host", "ntrip", "nats", "done">>
Nothing == [host |-> {}, counter |-> FALSE, ntrip |-> FALSE, nats |-> 0]
Everything == [host |-> HostGroups, counter |-> TRUE, ntrip |-> TRUE, nats |-> NatsPages]

\* to_rows: a row for each reading.
Rows(g) ==
    Cardinality(g.host) + (IF g.counter THEN 1 ELSE 0) + (IF g.ntrip THEN 1 ELSE 0) + g.nats

MonitorSpend == monitorFaults < MonitorMaxFaults /\ monitorFaults' = monitorFaults + 1

\* __init__: no connection is opened until a poll needs it.
MonitorInit ==
    /\ monitorPhase = "wait" /\ at = 1
    /\ got = Nothing /\ failures = 0 /\ raised = {}
    /\ conn = "none" /\ inserted = 0 /\ visible = 0
    /\ monitorReported = "none"
    /\ monitorDue = 0 /\ since = Interval
    /\ monitorFaults = 0

\* The loop comes round: a poll begins.
Begin ==
    /\ monitorPhase = "wait" /\ monitorDue <= 0
    /\ monitorPhase' = "probe" /\ at' = 1
    /\ got' = Nothing /\ raised' = {}
    /\ inserted' = 0 /\ visible' = 0
    /\ monitorReported' = "none"
    /\ since' = 0
    /\ UNCHANGED <<failures, conn, monitorDue, monitorFaults>>

Reading(p) == monitorPhase = "probe" /\ Probes[at] = p

\* HostMetricsReader.read: a group that raises is counted, the others kept.
HostGroupsRead(bad) ==
    /\ got' = [got EXCEPT !.host = HostGroups \ bad, !.counter = TRUE]
    /\ failures' = failures + Cardinality(bad)

\* HostProbe.read: the groups, then the counter as a reading of its own.
ReadHost(bad) ==
    /\ Reading("host")
    /\ HostGroupsRead(bad)
    /\ IF bad = {} THEN UNCHANGED monitorFaults ELSE MonitorSpend
    /\ at' = at + 1
    /\ UNCHANGED <<monitorPhase, raised, writeVars, monitorReported, timeVars>>

\* NtripProbe.read: one document, or nothing.
ReadNtrip ==
    /\ Reading("ntrip")
    /\ got' = [got EXCEPT !.ntrip = TRUE]
    /\ at' = at + 1
    /\ UNCHANGED <<monitorPhase, failures, raised, writeVars, monitorReported, timeVars,
                   monitorFaults>>

\* NatsProbe.read: the next page.
ReadNats ==
    /\ Reading("nats")
    /\ IF got.nats < NatsPages
       THEN got' = [got EXCEPT !.nats = @ + 1] /\ UNCHANGED at
       ELSE at' = at + 1 /\ UNCHANGED got
    /\ UNCHANGED <<monitorPhase, failures, raised, writeVars, monitorReported, timeVars,
                   monitorFaults>>

\* collect: a probe that raises is left, with what it yielded.
Raises(p) ==
    /\ Reading(p) /\ got.nats < NatsPages
    /\ MonitorSpend
    /\ raised' = raised \cup {p}
    /\ at' = at + 1
    /\ UNCHANGED <<monitorPhase, got, failures, writeVars, monitorReported, timeVars>>

\* The rest of run's round: the next slot, or now when that has gone by.
Schedule(outcome) ==
    /\ monitorPhase' = "wait"
    /\ monitorReported' = outcome
    /\ monitorDue' = IF monitorDue + Interval <= 0 THEN 0 ELSE monitorDue + Interval

\* _connection: the one there is, or a new one; then the transaction begins.
Write ==
    /\ Reading("done")
    /\ monitorPhase' = "insert"
    /\ conn' = IF conn = "none" THEN "open" ELSE conn
    /\ UNCHANGED <<pollVars, inserted, visible, monitorReported, timeVars, monitorFaults>>

\* psycopg.connect fails: there is still no connection.
MonitorDialFails ==
    /\ Reading("done") /\ conn = "none"
    /\ MonitorSpend
    /\ Schedule("error")
    /\ UNCHANGED <<pollVars, conn, inserted, visible, since>>


\* executemany inserts a row of the transaction.
Insert ==
    /\ monitorPhase = "insert" /\ conn = "open" /\ inserted < Rows(got)
    /\ inserted' = inserted + 1
    /\ UNCHANGED <<monitorPhase, pollVars, conn, visible, monitorReported, timeVars,
                   monitorFaults>>

Commit ==
    /\ monitorPhase = "insert" /\ conn = "open" /\ inserted = Rows(got)
    /\ visible' = inserted
    /\ Schedule("written")
    /\ UNCHANGED <<pollVars, conn, inserted, since, monitorFaults>>

\* The transaction fails: it is rolled back, unless the error came after the
\* commit had landed; the connection is dropped.
WriteFails ==
    /\ monitorPhase = "insert"
    /\ conn = "stale" \/ (conn = "open" /\ monitorFaults < MonitorMaxFaults)
    /\ monitorFaults' = IF conn = "open" THEN monitorFaults + 1 ELSE monitorFaults
    /\ conn' = "none"
    /\ inserted' = 0
    /\ visible' \in IF inserted = Rows(got) THEN {0, inserted} ELSE {visible}
    /\ Schedule("error")
    /\ UNCHANGED <<pollVars, since>>

\* The server closes an idle connection, which nobody notices.
GoesStale ==
    /\ conn = "open" /\ monitorPhase # "insert"
    /\ MonitorSpend
    /\ conn' = "stale"
    /\ UNCHANGED <<monitorPhase, pollVars, inserted, visible, monitorReported, timeVars>>

Passes ==
    /\ monitorDue' = monitorDue - 1
    /\ since' = since + 1
    /\ UNCHANGED <<monitorPhase, pollVars, conn, inserted, visible, monitorReported,
                   monitorFaults>>

\* stop.wait sleeps to the next slot.
Sleep == monitorPhase = "wait" /\ monitorDue > 0 /\ Passes

\* A probe sits on its timeout, or the database is slow.
Slow == monitorPhase # "wait" /\ since < MaxSlow /\ Passes

MonitorStep == Begin \/ ReadHost({}) \/ ReadNtrip \/ ReadNats \/ Write \/ Insert \/ Commit \/ Sleep
           \/ (conn = "stale" /\ WriteFails)

MonitorNext ==
    \/ MonitorStep
    \/ \E bad \in SUBSET HostGroups \ {{}} : ReadHost(bad)
    \/ \E p \in {"ntrip", "nats"} : Raises(p)
    \/ MonitorDialFails \/ (conn = "open" /\ WriteFails) \/ GoesStale \/ Slow

MonitorSpec == MonitorInit /\ [][MonitorNext]_monitorVars /\ WF_monitorVars(MonitorStep)

-----------------------------------------------------------------------------

\* The variables keep their types; the next poll is never more than one
\* interval away.
MonitorTypeOK ==
    /\ monitorPhase \in {"wait", "probe", "insert"}
    /\ at \in 1..Len(Probes)
    /\ got.host \subseteq HostGroups /\ got.nats \in 0..NatsPages
    /\ failures \in Nat
    /\ raised \subseteq {"ntrip", "nats"}
    /\ conn \in {"none", "open", "stale"}
    /\ inserted \in 0..Rows(Everything) /\ visible \in 0..Rows(Everything)
    /\ monitorReported \in {"none", "written", "error"}
    /\ monitorDue \in (-MaxSlow)..Interval /\ since \in Nat
    /\ monitorFaults \in 0..MonitorMaxFaults

\* pit_metrics has all of a poll's rows or none, at every moment of the write
\* and whatever fails, and all of them when the poll is reported written.
PollIsWhole ==
    /\ visible \in {0, Rows(got)}
    /\ monitorReported = "written" => visible = Rows(got)

\* A probe that raises costs its own readings only: the poll that is written
\* has every reading of the others, the pages that had arrived, and the
\* counter that says why a host group is absent.
OthersAreKept ==
    monitorPhase = "insert" =>
        /\ got.counter
        /\ "ntrip" \in raised \/ got.ntrip
        /\ "nats" \in raised \/ got.nats = NatsPages
        /\ got.host # HostGroups => failures > 0

\* Polls begin at least an interval apart, also after one that overran.
NoBurst == [][monitorPhase = "wait" /\ monitorPhase' = "probe" => since >= Interval]_monitorVars

\* Whatever probe or write failed before, a poll with every reading is
\* committed again, for ever.
FullPollsResume ==
    []<>(monitorPhase = "wait" /\ monitorReported = "written" /\ visible = Rows(Everything))
=============================================================================
