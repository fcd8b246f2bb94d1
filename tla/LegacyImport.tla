---------------------------- MODULE LegacyImport ----------------------------
(***************************************************************************)
(* tools/import_legacy.py: a dump of the old system's database is read     *)
(* into the new one, in batches that each carry the place in the file they *)
(* reach.  The import may be killed at any point and is then run again,    *)
(* seeking to that place (--resume) or reading the file from its start.    *)
(* A dump of lap crossings is first sorted by time; its laps, splits and   *)
(* pit calls are then written in batches without a place, which only the   *)
(* last one records.                                                       *)
(*                                                                         *)
(* A line of a sample dump is the number of rows it gives, or Bad; a point *)
(* of a lap dump is a crossing, and its time its place in the sorted dump. *)
(***************************************************************************)
EXTENDS Integers, FiniteSets, SequencesExt

CONSTANTS
    SampleDumps,    \* sequences of lines
    LapDumps,       \* sequences of crossings [line, lap, elapsed]
    BatchRows,      \* --batch-rows
    CheckpointLines,    \* CHECKPOINT_LINE_INTERVAL
    MaxRuns         \* how often the operator starts the import

Bad == -1

VARIABLES
    dump,           \* [kind, lines]
    importPhase,    \* of the process: "off", "read", "flush", "laps"
    resume, from,   \* --resume, and the cursor read at the start
    pos,            \* handle.tell()
    pending, since,  \* rows, and lines_since_flush
    todo,           \* lap rows still to be written
    cursor,         \* ingest_cursor.stream_seq
    stored,         \* how often each sample row is in the table
    importLaps,     \* laps and lap_sectors, by crossed_at
    finished,       \* some run came to its end
    runs

importVars == <<dump, importPhase, resume, from, pos, pending, since, todo, cursor, stored,
                importLaps, finished, runs>>

importTables == <<cursor, stored, importLaps>>

Lines == dump.lines
Size == Len(Lines)
RowsOf(line) == {<<line, k>> : k \in 1 .. Lines[line]}
AllRows == UNION {RowsOf(line) : line \in 1 .. Size}

-----------------------------------------------------------------------------
(* Runs of the program.                                                    *)

\* A process that ended has no state.
ImportEnded ==
    /\ importPhase' = "off"
    /\ resume' = FALSE /\ from' = 0 /\ pos' = 0 /\ pending' = {} /\ since' = 0 /\ todo' = <<>>

\* import_paths, _import_path: connect and read the cursor of this file.
ImportStart ==
    /\ importPhase = "off" /\ runs < MaxRuns
    /\ runs' = runs + 1
    /\ importPhase' = dump.kind
    /\ resume' \in BOOLEAN
    /\ from' = cursor
    /\ pos' = IF resume' THEN cursor ELSE 0
    /\ UNCHANGED <<dump, pending, since, todo, importTables, finished>>

\* The process is killed, or the database fails it: a statement that was under
\* way is undone.
Die ==
    /\ importPhase # "off"
    /\ ImportEnded
    /\ UNCHANGED <<dump, importTables, finished, runs>>

-----------------------------------------------------------------------------
(* A dump of samples.                                                      *)

\* _import_path: without --resume, what is behind the cursor is read past.
Skipped(offset) == ~resume /\ offset <= from

\* One line: it is counted, skipped or refused, or its rows join the batch.
ReadLine ==
    LET offset == pos + 1
        taken == ~Skipped(offset) /\ Lines[offset] # Bad
        rows == pending \cup (IF taken THEN RowsOf(offset) ELSE {}) IN
    /\ importPhase = "read" /\ pos < Size
    /\ pos' = offset /\ since' = since + 1 /\ pending' = rows
    /\ importPhase' = IF taken /\ (Cardinality(rows) >= BatchRows \/ since' >= CheckpointLines)
                      THEN "flush" ELSE "read"
    /\ UNCHANGED <<dump, resume, from, todo, importTables, finished, runs>>

\* _UPSERT_CURSOR: forward only, and never to zero.
Advanced(offset) == IF offset > cursor THEN offset ELSE cursor

\* TimescaleStore.flush: rows and cursor in one transaction.
ImportCommit ==
    /\ stored' = [r \in DOMAIN stored |-> stored[r] + (IF r \in pending THEN 1 ELSE 0)]
    /\ cursor' = Advanced(pos)
    /\ UNCHANGED importLaps

Flush ==
    /\ importPhase = "flush"
    /\ ImportCommit
    /\ pending' = {} /\ since' = 0
    /\ importPhase' = "read"
    /\ UNCHANGED <<dump, resume, from, pos, todo, finished, runs>>

\* The last flush, at the end of the file.
ImportFinish ==
    /\ importPhase = "read" /\ pos >= Size
    /\ ImportCommit
    /\ ImportEnded
    /\ finished' = TRUE
    /\ UNCHANGED <<dump, runs>>

\* The transaction commits and the process is gone before it knows.
CommitUnseen ==
    /\ importPhase = "flush" \/ (importPhase = "read" /\ pos >= Size)
    /\ ImportCommit
    /\ ImportEnded
    /\ UNCHANGED <<dump, finished, runs>>

-----------------------------------------------------------------------------
(* A dump of crossings.                                                    *)

\* _iter_legacy_lap_rows: both splits were crossed in the lap that ends here, which
\* the old system numbered one lower.
Continuous(one, two, finish) ==
    /\ one # 0 /\ two # 0
    /\ Lines[one].lap = Lines[finish].lap - 1
    /\ Lines[two].lap = Lines[finish].lap - 1

Split(n, at, time) == [kind |-> "split", sector |-> n, at |-> at, time |-> time]

\* convert_lap_point, _legacy_sector: a lap and the splits that belong to it.
LapRows(one, two, i) ==
    LET lap == <<[kind |-> "lap", at |-> i, number |-> Lines[i].lap, time |-> Lines[i].elapsed]>>
        first == Lines[one].elapsed
        second == Lines[two].elapsed IN
    IF ~Continuous(one, two, i) THEN lap
    ELSE lap \o <<Split(1, one, first), Split(2, two, second - first)>>
             \o (IF Lines[i].elapsed > second THEN <<Split(3, i, Lines[i].elapsed - second)>>
                                              ELSE <<>>)

\* One crossing of the fold: the two splits remembered, and the rows so far.
Fold(s, i) ==
    LET p == Lines[i] IN
    CASE p.line = "Sector1" ->
            [s EXCEPT !.one = IF p.elapsed > 0 THEN i ELSE 0, !.two = 0]
      [] p.line = "Sector2" ->
            IF s.one # 0 /\ p.lap = Lines[s.one].lap /\ p.elapsed > Lines[s.one].elapsed
            THEN [s EXCEPT !.two = i]
            ELSE [s EXCEPT !.one = 0, !.two = 0]
      [] p.line = "Pit" ->
            [s EXCEPT !.rows = Append(@, [kind |-> "pit", at |-> i])]
      [] p.line = "StartFinish" ->
            [one |-> 0, two |-> 0,
             rows |-> IF p.elapsed <= 0 THEN s.rows ELSE s.rows \o LapRows(s.one, s.two, i)]

\* _ordered_lap_points and the fold over them.
Ordered ==
    FoldLeft(Fold, [one |-> 0, two |-> 0, rows |-> <<>>],
             [i \in 1 .. Size |-> i]).rows

\* _write_lap: the row of the crossing, new or written over; its splits stay.
WriteLap(table, row) ==
    [t \in DOMAIN table \cup {row.at} |->
        IF t = row.at
        THEN [number |-> row.number, time |-> row.time, pit |-> FALSE,
              splits |-> IF t \in DOMAIN table THEN table[t].splits ELSE {}]
        ELSE table[t]]

\* _UPSERT_LEGACY_SECTOR: the first lap that ended at or after the split.
SplitLap(table, row) ==
    {t \in DOMAIN table : t >= row.at /\ \A u \in DOMAIN table : u >= row.at => t <= u}

WriteSplit(table, row) ==
    [t \in DOMAIN table |->
        IF t \in SplitLap(table, row)
        THEN [table[t] EXCEPT !.splits = {s \in @ : s.sector # row.sector}
                                  \cup {[sector |-> row.sector, at |-> row.at, time |-> row.time]}]
        ELSE table[t]]

\* _UPDATE_PIT_STATUS: the last lap that had ended.
WritePit(table, row) ==
    [t \in DOMAIN table |->
        IF t <= row.at /\ \A u \in DOMAIN table : u <= row.at => u <= t
        THEN [table[t] EXCEPT !.pit = TRUE] ELSE table[t]]

Of(rows, kind) == SelectSeq(rows, LAMBDA r : r.kind = kind)

\* TimescaleStore.flush: the laps, then the splits, then the pit calls.
Written(rows) ==
    FoldLeft(WritePit, FoldLeft(WriteSplit, FoldLeft(WriteLap, importLaps, Of(rows, "lap")),
                                Of(rows, "split")), Of(rows, "pit"))

\* _import_lap_dump: all lines past the cursor are read and sorted; a file read to
\* its end before has none.
Sort ==
    /\ importPhase = "laps"
    /\ importPhase' = "batch"
    /\ todo' = IF from >= Size THEN <<>> ELSE Ordered
    /\ pos' = Size
    /\ UNCHANGED <<dump, resume, from, pending, since, importTables, finished, runs>>

\* The cursor a batch leaves: stream_seq is 0 before the last.
Place(last) == IF last THEN Advanced(pos) ELSE cursor

\* A full batch, or what is left; the process may be gone before it knows that
\* its last one was committed.
Batch ==
    LET last == Len(todo) < BatchRows
        rows == IF last THEN todo ELSE SubSeq(todo, 1, BatchRows) IN
    /\ importPhase = "batch"
    /\ importLaps' = Written(rows)
    /\ cursor' = Place(last)
    /\ IF last THEN ImportEnded /\ finished' \in {finished, TRUE}
       ELSE /\ todo' = SubSeq(todo, BatchRows + 1, Len(todo))
            /\ UNCHANGED <<importPhase, resume, from, pos, pending, since, finished>>
    /\ UNCHANGED <<dump, stored, runs>>

-----------------------------------------------------------------------------
ImportInit ==
    /\ dump \in [kind : {"read"}, lines : SampleDumps] \cup [kind : {"laps"}, lines : LapDumps]
    /\ importPhase = "off" /\ resume = FALSE /\ from = 0 /\ pos = 0
    /\ pending = {} /\ since = 0 /\ todo = <<>>
    /\ cursor = 0 /\ importLaps = <<>>
    /\ stored = [r \in IF dump.kind = "read" THEN AllRows ELSE {} |-> 0]
    /\ finished = FALSE /\ runs = 0

ImportNext ==
    \/ ImportStart \/ Die
    \/ ReadLine \/ Flush \/ ImportFinish \/ CommitUnseen
    \/ Sort \/ Batch

ImportSpec == ImportInit /\ [][ImportNext]_importVars

-----------------------------------------------------------------------------
(* Properties.                                                             *)

\* Types of the process and of the tables.
ImportTypeOK ==
    /\ importPhase \in {"off", "read", "flush", "laps", "batch"}
    /\ resume \in BOOLEAN /\ finished \in BOOLEAN
    /\ from \in 0 .. Size /\ pos \in 0 .. Size /\ cursor \in 0 .. Size
    /\ since \in 0 .. Size /\ runs \in 0 .. MaxRuns

\* _import_path and flush: whenever the import is interrupted, the samples in the
\* database are those of the lines up to the cursor, each once, and no others.
CursorTellsAll ==
    dump.kind = "read" =>
        \A r \in DOMAIN stored : stored[r] = IF r[1] <= cursor THEN 1 ELSE 0

\* What the old system's lap that ends at t should be: its splits, if both lines
\* were crossed in it, in order, and nothing contradicts them.
IsLap(t) == Lines[t].line = "StartFinish" /\ Lines[t].elapsed > 0
ReferenceSplits(t) ==
    LET before == {i \in 1 .. t - 1 : \A j \in i + 1 .. t - 1 : Lines[j].line # "StartFinish"
                                      /\ Lines[i].line # "StartFinish"}
        ones == {i \in before : Lines[i].line = "Sector1"}
        one == CHOOSE i \in ones : \A j \in ones : j <= i
        twos == {i \in before : Lines[i].line = "Sector2" /\ i > one}
        two == CHOOSE i \in twos : \A j \in twos : j <= i
        whole == /\ ones # {} /\ twos # {}
                 /\ Lines[one].elapsed > 0
                 /\ \A i \in twos : Lines[i].elapsed > Lines[one].elapsed
                 /\ \A i \in {one} \cup twos : Lines[i].lap = Lines[t].lap - 1 IN
    IF ~whole THEN {}
    ELSE {[sector |-> 1, at |-> one, time |-> Lines[one].elapsed],
          [sector |-> 2, at |-> two, time |-> Lines[two].elapsed - Lines[one].elapsed]}
         \cup {s \in {[sector |-> 3, at |-> t, time |-> Lines[t].elapsed - Lines[two].elapsed]} :
                  s.time > 0}

Reference ==
    [t \in {i \in 1 .. Size : IsLap(i)} |->
        [number |-> Lines[t].lap, time |-> Lines[t].elapsed,
         pit |-> \E i \in t + 1 .. Size :
                    /\ Lines[i].line = "Pit"
                    /\ \A j \in t + 1 .. i : ~IsLap(j),
         splits |-> ReferenceSplits(t)]]

\* _import_lap_dump: once a run has come to its end, however many were cut short
\* before and whatever the batches, the tables hold the laps of the dump with their
\* own splits and pit calls.
FinishedIsWhole ==
    finished /\ dump.kind = "laps" /\ importPhase = "off" => importLaps = Reference

\* _iter_legacy_lap_rows, _UPSERT_LEGACY_SECTOR: at no moment, between batches and
\* after a crash included, does a lap show a split that was crossed in another.
SplitsAreOwn ==
    \A t \in DOMAIN importLaps : \A s \in importLaps[t].splits :
        /\ s.at <= t /\ \A u \in DOMAIN importLaps : u < t => u < s.at
        /\ s.sector < 3 => Lines[s.at].lap = importLaps[t].number - 1
=============================================================================
