--------------------------- MODULE FieldFindings ----------------------------
(***************************************************************************)
(* The timing feed's reconciliation of our car: the finding opened while   *)
(* the feed's lap count and the vehicle's disagree, and the clock offset   *)
(* measured from our passings (pit/timing_feed: service.py                 *)
(* _reconcile_sync and _clock_offset, reconcile.py, database.py            *)
(* adopt_open_findings and reconcile_findings).  strategy/database.py      *)
(* keeps its findings in the same way.                                     *)
(*                                                                         *)
(* A pass is three steps, each a use of the database that may fail: the    *)
(* reads, the metrics, the transaction.  The commit is the interesting     *)
(* one: the open findings held in memory are changed inside it.            *)
(***************************************************************************)
EXTENDS Naturals, Integers, Sequences, SequencesExt, FiniteSets

CONSTANTS
    FieldMaxLaps,  \* bound on lap counts
    Tolerance,  \* lap_tolerance
    Times,      \* the times passings and crossings may have
    FieldWindow,  \* clock_offset_s's window
    MaxRows,    \* bound on findings opened
    FieldMaxFaults  \* bound on database failures and restarts

VARIABLES
    feed,       \* our car's lap count in the standings, -1 when it is not there
    vehicle,    \* the vehicle's lap count, in the database
    assigned,   \* the session names our car
    crossings,  \* the vehicle's crossings, in the database
    passings,   \* _our_passings
    fieldAdopted,  \* _adopted
    held,       \* open_findings of the one monitor, 0 for none
    rows,       \* watch_findings: the rows, by id; an id rolled back has none
    metrics,    \* pit_metrics: the offsets written, with their passing
    step,       \* where the pass is
    found,      \* the pass's findings: a difference in laps, 0 for none
    taken,      \* the passings the pass has taken
    ids,        \* the ids used so far
    slipped,    \* history: a transaction was rolled back after memory had changed
    fieldFaults  \* failures and restarts so far

fieldVars == <<feed, vehicle, assigned, crossings, passings, fieldAdopted, held, rows, metrics, step,
               found, taken, ids, slipped, fieldFaults>>

World == <<feed, vehicle, assigned, crossings>>

FieldPut(f, k, v) == [x \in DOMAIN f \cup {k} |-> IF x = k THEN v ELSE f[x]]

Abs(n) == IF n < 0 THEN -n ELSE n

Open == {i \in DOMAIN rows : rows[i].open}

\* lap_count_finding: the difference when it is beyond the tolerance.
LapCountFinding(feedLaps, vehicleLaps) ==
    IF feedLaps = -1 \/ Abs(feedLaps - vehicleLaps) <= Tolerance THEN 0
    ELSE feedLaps - vehicleLaps

\* clock_offset_s: to the nearest crossing within the window, if there is one.
ClockOffset(passing, list) ==
    FoldLeft(LAMBDA best, c :
                IF /\ Abs(c - passing) <= FieldWindow
                   /\ best = <<>> \/ Abs(c - passing) < Abs(best[1])
                THEN <<c - passing>> ELSE best,
             <<>>, list)

-----------------------------------------------------------------------------

FieldInit ==
    /\ feed = -1
    /\ vehicle = 0
    /\ assigned = FALSE
    /\ crossings = <<>>
    /\ passings = <<>>
    /\ fieldAdopted = FALSE
    /\ held = 0
    /\ rows = <<>>
    /\ metrics = <<>>
    /\ step = "idle"
    /\ found = 0
    /\ taken = <<>>
    /\ ids = 0
    /\ slipped = FALSE
    /\ fieldFaults = 0

\* The feed's count, the vehicle's count or the assignment of our car changes.
CountsChange ==
    /\ \/ feed < FieldMaxLaps /\ feed' = feed + 1 /\ UNCHANGED <<vehicle, assigned>>
       \/ vehicle < FieldMaxLaps /\ vehicle' = vehicle + 1 /\ UNCHANGED <<feed, assigned>>
       \/ assigned' = ~assigned /\ UNCHANGED <<feed, vehicle>>
    /\ UNCHANGED <<crossings, passings, fieldAdopted, held, rows, metrics, step, found, taken, ids,
                   slipped, fieldFaults>>

\* The vehicle records a crossing.
Crosses(t) ==
    /\ Len(crossings) < 2
    /\ crossings' = Append(crossings, t)
    /\ UNCHANGED <<feed, vehicle, assigned, passings, fieldAdopted, held, rows, metrics, step,
                   found, taken, ids, slipped, fieldFaults>>

\* _note_passings: a passing of our car over the main line.
NotePassing(t) ==
    /\ assigned
    /\ Len(passings) + Len(taken) + Len(metrics) < 1
    /\ passings' = Append(passings, t)
    /\ UNCHANGED <<World, fieldAdopted, held, rows, metrics, step, found, taken, ids,
                   slipped, fieldFaults>>

\* _reconcile_sync's reads: adopt once, our car, the two counts; the passings
\* are taken before the crossings are read.
FieldRead ==
    /\ step = "idle"
    /\ fieldAdopted' = TRUE
    /\ held' = IF fieldAdopted THEN held
               ELSE IF Open = {} THEN 0 ELSE CHOOSE i \in Open : \A j \in Open : j <= i
    /\ found' = IF assigned THEN LapCountFinding(feed, vehicle) ELSE 0
    /\ taken' = IF assigned THEN passings ELSE <<>>
    /\ passings' = IF assigned THEN <<>> ELSE passings
    /\ step' = IF assigned THEN "clock" ELSE "findings"
    /\ UNCHANGED <<World, rows, metrics, ids, slipped, fieldFaults>>

\* _clock_offset: the metrics of the passings taken.
WriteMetrics ==
    /\ step = "clock"
    /\ LET measured == SelectSeq(taken, LAMBDA p : ClockOffset(p, crossings) # <<>>)
       IN  metrics' = metrics \o [i \in DOMAIN measured |->
                                     [passing |-> measured[i], seen |-> crossings,
                                      offset |-> ClockOffset(measured[i], crossings)[1]]]
    /\ taken' = <<>>
    /\ step' = "findings"
    /\ UNCHANGED <<World, passings, fieldAdopted, held, rows, found, ids, slipped, fieldFaults>>

\* reconcile_findings' statements: open, update or close.  An update or a close
\* of an id with no row changes nothing.
Committed ==
    IF found # 0 /\ held = 0 THEN FieldPut(rows, ids + 1, [open |-> TRUE, delta |-> found])
    ELSE [i \in DOMAIN rows |->
             IF i # held THEN rows[i]
             ELSE IF found # 0 THEN [rows[i] EXCEPT !.delta = found]
             ELSE [rows[i] EXCEPT !.open = FALSE]]

\* The dictionary, changed between the statements.
HeldAfter == IF found = 0 THEN 0 ELSE IF held = 0 THEN ids + 1 ELSE held

Reconcile ==
    /\ step = "findings"
    /\ ids < MaxRows \/ held # 0 \/ found = 0
    /\ rows' = Committed
    /\ held' = HeldAfter
    /\ ids' = IF held = 0 /\ found # 0 THEN ids + 1 ELSE ids
    /\ step' = "done"
    /\ UNCHANGED <<World, passings, fieldAdopted, metrics, found, taken, slipped, fieldFaults>>

\* The transaction is rolled back: the rows are as they were, the dictionary is
\* not.
RolledBack ==
    /\ step = "findings"
    /\ fieldFaults < FieldMaxFaults
    /\ ids < MaxRows \/ held # 0 \/ found = 0
    /\ fieldFaults' = fieldFaults + 1
    /\ held' = HeldAfter
    /\ ids' = IF held = 0 /\ found # 0 THEN ids + 1 ELSE ids
    /\ slipped' = (slipped \/ HeldAfter # held)
    /\ step' = "idle"
    /\ UNCHANGED <<World, passings, fieldAdopted, rows, metrics, found, taken>>

\* A read or a metric fails: the pass ends, with the passings it had taken.
ReadFails ==
    /\ step \in {"idle", "clock"}
    /\ fieldFaults < FieldMaxFaults
    /\ fieldFaults' = fieldFaults + 1
    /\ taken' = <<>>
    /\ step' = "idle"
    /\ UNCHANGED <<World, passings, fieldAdopted, held, rows, metrics, found, ids, slipped>>

\* The next pass is due.
PassEnds ==
    /\ step = "done"
    /\ step' = "idle"
    /\ UNCHANGED <<World, passings, fieldAdopted, held, rows, metrics, found, taken, ids, slipped,
                   fieldFaults>>

\* The service is started again, wherever the pass was.
FieldRestart ==
    /\ fieldFaults < FieldMaxFaults
    /\ fieldFaults' = fieldFaults + 1
    /\ fieldAdopted' = FALSE
    /\ held' = 0
    /\ passings' = <<>>
    /\ taken' = <<>>
    /\ step' = "idle"
    /\ UNCHANGED <<World, rows, metrics, found, ids, slipped>>

FieldNext ==
    \/ CountsChange
    \/ \E t \in Times : Crosses(t) \/ NotePassing(t)
    \/ FieldRead
    \/ WriteMetrics
    \/ Reconcile
    \/ RolledBack
    \/ ReadFails
    \/ PassEnds
    \/ FieldRestart

FieldSpec == FieldInit /\ [][FieldNext]_fieldVars

-----------------------------------------------------------------------------
\* The state has the shape the code gives it.
FieldTypeOK ==
    /\ feed \in -1..FieldMaxLaps /\ vehicle \in 0..FieldMaxLaps
    /\ held \in 0..ids /\ ids \in 0..MaxRows
    /\ step \in {"idle", "clock", "findings", "done"}
    /\ DOMAIN rows \subseteq 1..ids
    /\ taken # <<>> => step = "clock"

\* After a pass, exactly the pass's finding is open, with its value, across
\* restarts and failed reads; a rollback after memory had changed is excused.
ExactlyFindings ==
    step = "done" /\ ~slipped =>
        IF found = 0 THEN Open = {}
        ELSE Cardinality(Open) = 1 /\ \A i \in Open : rows[i].delta = found

\* An offset is to the nearest crossing there was, and none is written for a
\* passing with no crossing in the window; no passing is measured twice,
\* although a failed pass is made again.
OffsetsAreNearest ==
    /\ Len(metrics) <= 1
    /\ \A i \in DOMAIN metrics : \A k \in DOMAIN metrics[i].seen :
          /\ Abs(metrics[i].offset) <= FieldWindow
          /\ Abs(metrics[i].offset) <= Abs(metrics[i].seen[k] - metrics[i].passing)
=============================================================================
