----------------------------- MODULE LapTiming -----------------------------
(***************************************************************************)
(* Lap timing from the crossing to the database row.                       *)
(*                                                                         *)
(* In the car, LapTimingApp (agent/timing_app.py) feeds GPS fixes to the   *)
(* TimingEngine (timing/timing_core.py).  A segment between two fixes may  *)
(* cross timing lines; the engine accepts or rejects each crossing and     *)
(* emits sector, lap and pit events.  In the pit, the ingest-writer folds  *)
(* the events, in stream order, into lap rows (LapMaterialiser,            *)
(* pit/ingest_writer/laps.py) and commits them with its cursor             *)
(* (pit/ingest_writer/store.py).                                           *)
(*                                                                         *)
(* A fix is reduced to the crossings it causes: line, time and sign.       *)
(* Times are small naturals; 0 stands for "none yet", as 0.0 does in       *)
(* TimingState.  The stream between car and pit is a sequence; what it     *)
(* does to batches is the business of VehicleAgent and IngestWriter.       *)
(***************************************************************************)
EXTENDS Integers, Sequences, FiniteSets, FiniteSetsExt, SequencesExt

CONSTANTS
    N,            \* n_points: start/finish and N - 1 sector lines
    Reentry,      \* min_line_reentry_s
    MinLap,       \* min_lap_time_s
    MaxBuffered,  \* _MAX_BUFFERED_SECTORS
    MaxCross,     \* bound on the crossings of a behaviour
    Gaps,         \* possible times between two crossings
    FaultBudget,  \* how often each kind of fault may happen
    MaxFaults     \* bound on the number of kinds in one behaviour

ASSUME ConstantsAssumption ==
    /\ N \in Nat \ {0, 1}
    /\ {Reentry, MinLap, MaxCross, MaxFaults} \subseteq Nat
    /\ MaxBuffered \in Nat \ {0}
    /\ Gaps \subseteq Nat \ {0}

FaultKinds == {"wrongway", "double", "sparse", "rebuild", "writer", "refuse"}

VARIABLES
    eng,        \* TimingEngine.state
    origin,     \* when DistanceModel and LapRecorder were last reset
    reference,  \* lap time of DeltaTracker.reference, 0 for none
    stream,     \* batches of lap.event samples in JetStream, one per fix with events
    mat,        \* LapMaterialiser: buffered sectors, highest lap number, restarts
    pending,    \* ingest-writer: rows, pit updates and number of batches of the open flush
    db,         \* the laps and lap_sectors tables, by crossing time
    cursor,     \* batches of the stream covered by a committed flush
    clock, crossings, spent,
    \* History: accepted crossings of this engine, its valid laps, crossings
    \* of the two kinds of rebuild, laps whose rows the database refused.
    log, valids, rebuilds, refused

carVars == <<eng, origin, reference, log, valids>>
pitVars == <<mat, pending, db, cursor, refused>>
vars == <<carVars, pitVars, stream, clock, crossings, spent, rebuilds>>

\* Lines are numbered: the lap points in track order, then the pit lines.
LapPoints == 0 .. N - 1
PitEntry == N
PitExit == N + 1
PitLines == {PitEntry, PitExit}
Lines == LapPoints \cup PitLines
None == -1

Spent(fault) == spent[fault] > 0
Spend(faults) ==
    /\ \A f \in faults : spent[f] < FaultBudget[f]
    /\ spent' = [f \in FaultKinds |-> spent[f] + IF f \in faults THEN 1 ELSE 0]
    /\ Cardinality({f \in FaultKinds : spent'[f] > 0}) <= MaxFaults

-----------------------------------------------------------------------------
(* TimingEngine *)

FreshState ==
    [lap_number |-> 0, expected_idx |-> 0, lap_start_time |-> 0,
     segment_start_time |-> 0, sectors_done |-> 0, pit_status |-> "track",
     lap_valid |-> TRUE, best_lap_time |-> 0,
     last_cross_time |-> [l \in Lines |-> 0], line_direction |-> [l \in Lines |-> 0]]

\* _accept, the test: outside the debounce time and in the learned direction.
Accepts(st, hit) ==
    /\ st.last_cross_time[hit.line] = 0 \/ hit.time - st.last_cross_time[hit.line] >= Reentry
    /\ st.line_direction[hit.line] \in {0, hit.sign}

\* _accept, the side effects of an accepted crossing.
Record(st, hit) ==
    [st EXCEPT !.last_cross_time[hit.line] = hit.time, !.line_direction[hit.line] = hit.sign]


HandlePit(st, hit) ==
    LET status == IF hit.line = PitEntry THEN "pit" ELSE "track" IN
    [eng |-> [st EXCEPT !.pit_status = status,
                        !.lap_valid = @ /\ hit.line /= PitEntry],
     events |-> <<[type |-> "pit", time |-> hit.time, lap |-> st.lap_number, pit |-> status]>>]

StartNewLap(st, time) ==
    [st EXCEPT !.lap_start_time = time, !.segment_start_time = time,
               !.expected_idx = 1 % N, !.sectors_done = 0,
               !.lap_valid = st.pit_status = "track"]

SectorEvent(st, sector, time) ==
    [type |-> "sector", time |-> time, lap |-> st.lap_number, sector |-> sector,
     split |-> time - st.segment_start_time]

LapEvent(st, time, valid) ==
    [type |-> "lap", time |-> time, lap |-> st.lap_number,
     lap_time |-> time - st.lap_start_time, valid |-> valid, pit |-> st.pit_status]

\* The very first crossing only starts the clocks.
FirstCrossing(st, hit) ==
    [eng |-> [StartNewLap(st, hit.time) EXCEPT
                !.lap_number = 1, !.expected_idx = (hit.line + 1) % N,
                !.lap_valid = @ /\ hit.line = 0],
     events |-> <<>>]

\* A re-cross without sector progress, or too early, restarts the lap silently.
Abandons(st, hit) == st.sectors_done = 0 \/ hit.time - st.lap_start_time < MinLap

Faster(lapTime, best) == best = 0 \/ lapTime < best

FinishLap(st, hit) ==
    LET lapTime == hit.time - st.lap_start_time
        valid == st.lap_valid /\ st.expected_idx = 0 /\ st.pit_status = "track"
        closed == [st EXCEPT !.lap_number = @ + 1,
                             !.best_lap_time = IF valid /\ Faster(lapTime, @) THEN lapTime ELSE @]
    IN [eng |-> StartNewLap(closed, hit.time),
        events |-> <<SectorEvent(st, N, hit.time), LapEvent(st, hit.time, valid)>>]

PassSector(st, hit) ==
    [eng |-> [st EXCEPT !.sectors_done = @ + 1, !.segment_start_time = hit.time,
                        !.lap_valid = @ /\ hit.line = st.expected_idx,
                        !.expected_idx = (hit.line + 1) % N],
     events |-> <<SectorEvent(st, hit.line, hit.time)>>]

HandleLapPoint(st, hit) ==
    CASE st.lap_start_time = 0 -> FirstCrossing(st, hit)
      [] st.lap_start_time /= 0 /\ hit.line = 0 /\ Abandons(st, hit) ->
             [eng |-> StartNewLap(st, hit.time), events |-> <<>>]
      [] st.lap_start_time /= 0 /\ hit.line = 0 /\ ~Abandons(st, hit) -> FinishLap(st, hit)
      [] st.lap_start_time /= 0 /\ hit.line /= 0 -> PassSector(st, hit)

\* The hits among those of the segment that process_point accepts, in the order
\* it handles them: pit entry, pit exit, then the first lap point.
AcceptedHits(st, hits) ==
    LET ok == {h \in hits : Accepts(st, h)}
        on(l) == {h \in ok : h.line = l}
        points == {h.line : h \in {k \in ok : k.line \in LapPoints}}
    IN SetToSeq(on(PitEntry)) \o SetToSeq(on(PitExit))
         \o IF points = {} THEN <<>> ELSE SetToSeq(on(Min(points)))

ProcessPoint(st, hits) ==
    LET step(acc, hit) ==
            LET done == IF hit.line \in PitLines
                        THEN HandlePit(Record(acc.eng, hit), hit)
                        ELSE HandleLapPoint(Record(acc.eng, hit), hit)
            IN [eng |-> done.eng, events |-> acc.events \o done.events]
    IN FoldLeft(step, [eng |-> st, events |-> <<>>], AcceptedHits(st, hits))

-----------------------------------------------------------------------------
(* LapTimingApp *)

\* DeltaTracker.offer of a recorded curve.
Offer(lapTime, valid) ==
    IF valid /\ (reference = 0 \/ lapTime < reference) THEN lapTime ELSE reference

\* A segment whose crossings are hits reaches the engine.  The recorder may
\* hold too few points for a curve (sparse).
ProcessFix(hits, sparse) ==
    LET out == ProcessPoint(eng, hits)
        ends == SelectSeq(out.events, LAMBDA e : e.type = "lap")
        started == eng.lap_start_time = 0 /\ out.eng.lap_start_time /= 0
    IN /\ eng' = out.eng
       /\ stream' = IF out.events = <<>> THEN stream ELSE Append(stream, out.events)
       /\ log' = log \o SetToSortSeq(Range(AcceptedHits(eng, hits)), LAMBDA a, b : a.time < b.time)
       /\ origin' = IF started \/ ends /= <<>> THEN out.eng.lap_start_time ELSE origin
       /\ reference' = IF ends = <<>> \/ sparse THEN reference
                       ELSE Offer(Head(ends).lap_time, Head(ends).valid)
       /\ valids' = valids \cup {<<e.time - e.lap_time, e.time>> : e \in {x \in Range(ends) : x.valid}}

Hit(line, time, sign) == [line |-> line, time |-> time, sign |-> sign]

\* One crossing, in the normal direction or against it.
Cross ==
    \E line \in Lines, gap \in Gaps, sign \in {1, -1}, sparse \in BOOLEAN :
        /\ crossings < MaxCross
        /\ sparse => line = 0
        /\ crossings' = crossings + 1
        /\ clock' = clock + gap
        /\ Spend((IF sign = -1 THEN {"wrongway"} ELSE {}) \cup IF sparse THEN {"sparse"} ELSE {})
        /\ ProcessFix({Hit(line, clock + gap, sign)}, sparse)
        /\ UNCHANGED <<pitVars, rebuilds>>

\* Two lines crossed within one segment; pit entry and exit are too far apart.
CrossTwo ==
    \E first, second \in Lines :
        /\ first /= second /\ {first, second} /= PitLines
        /\ crossings + 1 < MaxCross
        /\ crossings' = crossings + 2
        /\ clock' = clock + 2
        /\ Spend({"double"})
        /\ ProcessFix({Hit(first, clock + 1, 1), Hit(second, clock + 2, 1)}, FALSE)
        /\ UNCHANGED <<pitVars, rebuilds>>

InstallTrack ==
    /\ eng' = FreshState
    /\ origin' = 0
    /\ reference' = 0
    /\ log' = <<>>
    /\ valids' = {}
    /\ rebuilds' = rebuilds + 1

\* apply_session names another track: the engine is rebuilt.
ApplySession ==
    /\ Spend({"rebuild"})
    /\ InstallTrack
    /\ UNCHANGED <<pitVars, stream, clock, crossings>>

\* The agent restarts; events it had not published yet are gone.
AgentRestart ==
    /\ Spend({"rebuild"})
    /\ InstallTrack
    /\ \E kept \in cursor + pending.taken .. Len(stream) :
           stream' = SubSeq(stream, 1, kept)
    /\ UNCHANGED <<pitVars, clock, crossings>>

-----------------------------------------------------------------------------
(* LapMaterialiser and the writer's flush *)

NoSectors == [k \in {} |-> 0]
FreshMaterialiser == [sectors |-> NoSectors, highest |-> None, restarts |-> 0]
NothingPending == [rows |-> <<>>, pits |-> <<>>, taken |-> 0]

Without(f, keys) == [k \in DOMAIN f \ keys |-> f[k]]
Oldest(keys) == CHOOSE k \in keys : \A j \in keys : k[1] < j[1] \/ (k[1] = j[1] /\ k[2] <= j[2])

\* observe: a lap number that goes backwards means the engine was rebuilt.
Numbered(m, lap) ==
    IF lap < m.highest
    THEN [sectors |-> NoSectors, highest |-> lap, restarts |-> m.restarts + 1]
    ELSE [m EXCEPT !.highest = IF lap > @ THEN lap ELSE @]


\* _buffer_sector: the newest split of a sector counts; the oldest key makes room.
BufferSector(m, e) ==
    LET room == IF Cardinality(DOMAIN m.sectors) >= MaxBuffered
                THEN Without(m.sectors, {Oldest(DOMAIN m.sectors)}) ELSE m.sectors
        key == <<e.lap, e.sector>>
    IN [m EXCEPT !.sectors = [k \in DOMAIN room \cup {key} |->
                                IF k = key THEN [split |-> e.split, at |-> e.time] ELSE room[k]]]

OfLap(m, lap) == {k \in DOMAIN m.sectors : k[1] = lap}

CompleteLap(m, e) ==
    [crossed_at |-> e.time, lap |-> e.lap, lap_time |-> e.lap_time, valid |-> e.valid,
     pit |-> e.pit,
     sectors |-> [s \in {k[2] : k \in OfLap(m, e.lap)} |-> m.sectors[<<e.lap, s>>]]]

\* observe and _materialise_lap: one event folded into the buffer and the open flush.
Fold(acc, e) ==
    LET m == Numbered(acc.mat, e.lap) IN
    CASE e.type = "sector" -> [acc EXCEPT !.mat = BufferSector(m, e)]
      [] e.type = "lap" -> [acc EXCEPT !.mat = [m EXCEPT !.sectors = Without(@, OfLap(m, e.lap))],
                                       !.work.rows = Append(@, CompleteLap(m, e))]
      [] e.type = "pit" -> [acc EXCEPT !.mat = m, !.work.pits = Append(@, e)]

\* The next batch of the stream is folded; the rows it completes wait for the flush.
Observe ==
    /\ cursor + pending.taken < Len(stream)
    /\ LET out == FoldLeft(Fold, [mat |-> mat, work |-> [pending EXCEPT !.taken = @ + 1]],
                           stream[cursor + pending.taken + 1])
       IN mat' = out.mat /\ pending' = out.work
    /\ UNCHANGED <<carVars, stream, db, cursor, refused, clock, crossings, spent, rebuilds>>

NoRow == [crossed_at |-> 0]

\* _write_lap: upsert of the lap by crossing time, then of its sectors.
WriteLap(tables, row) ==
    LET old == IF row.crossed_at \in DOMAIN tables THEN tables[row.crossed_at].sectors
               ELSE [s \in {} |-> 0]
        merged == [row EXCEPT !.sectors = row.sectors @@ old]
    IN (row.crossed_at :> merged) @@ tables

\* _UPDATE_PIT_STATUS: the most recent lap at the instant of the pit event.
UpdatePit(tables, update) ==
    LET before == {t \in DOMAIN tables : t <= update.time} IN
    IF before = {} THEN tables
    ELSE [tables EXCEPT ![Max(before)].pit = update.pit]

\* TimescaleStore.flush: the laps, then the pit updates.
Written(tables, work) ==
    FoldLeft(UpdatePit, FoldLeft(WriteLap, tables, work.rows), work.pits)

Flush ==
    /\ pending /= NothingPending
    /\ db' = Written(db, pending)
    /\ cursor' = cursor + pending.taken
    /\ pending' = NothingPending
    /\ UNCHANGED <<carVars, stream, mat, refused, clock, crossings, spent, rebuilds>>

\* The schema refuses a row: the flush is retried without laps and pit updates.
FlushRefused ==
    /\ pending /= NothingPending
    /\ Spend({"refuse"})
    /\ refused' = refused \cup {r.crossed_at : r \in Range(pending.rows)}
    /\ cursor' = cursor + pending.taken
    /\ pending' = NothingPending
    /\ UNCHANGED <<carVars, stream, mat, db, clock, crossings, rebuilds>>

\* The writer dies; what it had not committed is delivered again.
WriterRestart ==
    /\ Spend({"writer"})
    /\ mat' = FreshMaterialiser
    /\ pending' = NothingPending
    /\ UNCHANGED <<carVars, stream, db, cursor, refused, clock, crossings, rebuilds>>

-----------------------------------------------------------------------------
Init ==
    /\ eng = FreshState
    /\ origin = 0
    /\ reference = 0
    /\ stream = <<>>
    /\ mat = FreshMaterialiser
    /\ pending = NothingPending
    /\ db = [t \in {} |-> NoRow]
    /\ cursor = 0
    /\ clock = 0
    /\ crossings = 0
    /\ spent = [f \in FaultKinds |-> 0]
    /\ log = <<>>
    /\ valids = {}
    /\ rebuilds = 0
    /\ refused = {}

Next ==
    \/ Cross \/ CrossTwo \/ ApplySession \/ AgentRestart
    \/ Observe \/ Flush \/ FlushRefused \/ WriterRestart

Spec == Init /\ [][Next]_vars

-----------------------------------------------------------------------------
(* Properties *)

Times == 0 .. clock
Status == {"track", "pit"}
SectorTables == UNION {[S -> [split : Times, at : Times]] : S \in SUBSET (1 .. N)}

\* Types of the state of the engine, of the materialiser and of the tables.
TypeOK ==
    /\ eng \in [lap_number : 0 .. MaxCross, expected_idx : LapPoints, lap_start_time : Times,
                segment_start_time : Times, sectors_done : 0 .. MaxCross, pit_status : Status,
                lap_valid : BOOLEAN, best_lap_time : Times,
                last_cross_time : [Lines -> Times], line_direction : [Lines -> {-1, 0, 1}]]
    /\ {origin, reference} \subseteq Times
    /\ \A b \in Range(stream) : Len(b) \in 1 .. 4
    /\ mat.highest \in -1 .. MaxCross
    /\ mat.restarts \in Nat
    /\ \A k \in DOMAIN mat.sectors : k \in (0 .. MaxCross) \X (1 .. N)
    /\ cursor + pending.taken \in 0 .. Len(stream)
    /\ \A t \in DOMAIN db :
           /\ db[t].crossed_at = t
           /\ db[t].pit \in Status
           /\ db[t].sectors \in SectorTables

\* What a valid lap is, read off the accepted crossings alone: from one
\* start/finish crossing to the next, all sector lines once and in order, the
\* minimum lap time, and the car on the track from beginning to end.
InPit(i) ==
    LET pits == {k \in 1 .. i : log[k].line \in PitLines} IN
    pits /= {} /\ log[Max(pits)].line = PitEntry

PointsBetween(i, j) ==
    SelectSeq([k \in 1 .. j - i - 1 |-> log[i + k].line], LAMBDA l : l \in LapPoints)

CleanLaps ==
    {<<log[p[1]].time, log[p[2]].time>> : p \in
        {p \in (DOMAIN log) \X (DOMAIN log) :
            /\ p[1] < p[2]
            /\ log[p[1]].line = 0 /\ log[p[2]].line = 0
            /\ PointsBetween(p[1], p[2]) = [k \in 1 .. N - 1 |-> k]
            /\ log[p[2]].time - log[p[1]].time >= MinLap
            /\ \A k \in p[1] .. p[2] : ~InPit(k)}}

\* The laps the engine calls valid are exactly the clean laps, and the best lap
\* time is the fastest of them: no skipped line, re-cross, wrong-way crossing or
\* visit to the pit lane makes a lap valid, and none spoils a later one
\* (timing_core.py, "Validity").  Two lines within one segment are set apart:
\* pit lines are handled before lap points whatever their order.
ValidLapsAreClean ==
    ~Spent("double") =>
        /\ valids = CleanLaps
        /\ eng.best_lap_time = IF valids = {} THEN 0 ELSE Min({v[2] - v[1] : v \in valids})

\* The live delta refers to the best lap: whenever every completed lap has a
\* curve, the reference lap time is the engine's best (DeltaTracker.offer).
ReferenceIsBest == ~Spent("sparse") => reference = eng.best_lap_time


\* Lap distance is counted from the line where the lap began: "anchor lap
\* distance at the line ... so the reference curve and later laps share the
\* same distance origin" (timing_app.py, _process_fix).
DistanceAnchored == eng.lap_start_time /= 0 => origin = eng.lap_start_time

\* A valid lap's row holds every sector once and its splits add up to the lap
\* time, whatever the engine and the agent did before: abandoned laps, rebuilds
\* and replayed lap numbers.  A writer restart in mid-lap loses the sectors it
\* had buffered.
SplitsAddUp ==
    ~Spent("writer") =>
        \A t \in DOMAIN db : db[t].valid =>
            /\ DOMAIN db[t].sectors = 1 .. N
            /\ MapThenSumSet(LAMBDA s : db[t].sectors[s].split, 1 .. N) = db[t].lap_time

\* No sector of another lap is attached to a valid lap, writer restarts included.
SectorsBelong ==
    \A t \in DOMAIN db : db[t].valid =>
        \A s \in DOMAIN db[t].sectors : db[t].sectors[s].at \in t - db[t].lap_time + 1 .. t

\* The materialiser buffers sectors of one lap only, the one it saw last, so
\* the buffer never reaches its limit; and it takes the engine for rebuilt no
\* more often than that happened (observe, _buffer_sector).
OneLapBuffered ==
    /\ \A k \in DOMAIN mat.sectors : k[1] = mat.highest
    /\ mat.restarts <= rebuilds

Committed == UNION {Range(stream[i]) : i \in 1 .. cursor}
LapEvents == {e \in Committed : e.type = "lap"}
PitEvents(from, to) == {e \in Committed : e.type = "pit" /\ e.time >= from /\ e.time < to}
NextLapAfter(t) == LET later == {e.time : e \in LapEvents} \cap (t + 1 .. clock) IN
            IF later = {} THEN clock + 1 ELSE Min(later)

\* The tables hold one row for every lap event the cursor covers, unless the
\* schema refused it, and a row's pit status is that of the last pit event
\* before the next lap, however the events were spread over flushes and
\* whichever flushes were repeated after a restart (store.flush).
RowsMatchEvents ==
    /\ DOMAIN db = {e.time : e \in LapEvents} \ refused
    /\ ~Spent("refuse") =>
         \A e \in LapEvents :
            LET pits == PitEvents(e.time, NextLapAfter(e.time)) IN
            db[e.time].pit = IF pits = {} THEN e.pit
                             ELSE (CHOOSE p \in pits : \A q \in pits : q.time <= p.time).pit


-----------------------------------------------------------------------------
(* Fault budgets of the instances that are model-checked.                  *)

Budget(faults) == [k \in FaultKinds |-> IF k \in faults THEN 1 ELSE 0]
MCAll == Budget(FaultKinds)
MCNone == Budget({})

=============================================================================
