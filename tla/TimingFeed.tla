----------------------------- MODULE TimingFeed -----------------------------
(***************************************************************************)
(* The timing feed: the other cars, from the provider's documents to the   *)
(* field_* tables (pit/timing_feed: model.py FieldState, service.py        *)
(* handle_document, handle_snapshot, submit and _write, database.py        *)
(* write).                                                                 *)
(*                                                                         *)
(* A document is a sequence of elements, applied in order to the standings *)
(* in memory; the rows it changed are one batch, written in one            *)
(* transaction behind the database lock.  The source's documents and the   *)
(* relay's snapshots are applied by two tasks.  A car's row is reduced to  *)
(* its lap count; the race itself is modelled, so that what is written can *)
(* be compared with what happened.                                         *)
(***************************************************************************)
EXTENDS Naturals, Integers, Sequences, SequencesExt, FiniteSets

CONSTANTS
    Comps,      \* competitor ids, numbers
    Shapes,     \* the settings: which of documents and snapshots are taken
    Registries,  \* the competitor lists the provider may send: id -> car number
    FeedMaxLaps,  \* bound on the laps of a car
    MaxEpochs,  \* bound on changes of the field
    MixedCars,  \* bound on the cars when documents and snapshots are mixed
    FeedQueueSize,  \* the ingest queue
    FeedMaxFaults  \* bound on failures and restarts

VARIABLES
    shapes,     \* what this service is set up to take: documents, snapshots
    track,      \* the race: competitor -> laps done, for those entered
    order,      \* the race: the competitors entered, in the order of the board
    flag,       \* the race: the flag shown
    registry,   \* FieldState.competitors, 0 for an id that is not in it
    lines,      \* FieldState._lines: line of the board -> competitor and laps
    cars,       \* FieldState.cars: number -> the last row emitted
    session,    \* FieldState.session
    epoch,      \* FieldState.epoch, 0 for none
    begun,      \* the epochs begun so far, the clock they are named by
    inbox,      \* the ingest queue of snapshots
    writes,     \* the batches at the database lock, with the task holding each
    tableCars,  \* field_cars: number -> the last row
    tableFlag,  \* field_session: the last row
    lapRows,    \* field_laps: competitor and lap -> rows, counted to 2
    first,      \* history: competitor -> its laps when it was first seen, -1 before
    feedLost,   \* history: a batch was dropped, or a document refused half-way
    muddled,    \* history: a number stood for two competitors or on two lines, or
                \* its count went back
    feedFaults  \* failures and restarts so far

feedVars == <<shapes, track, order, flag, registry, lines, cars, session, epoch, begun, inbox, writes, tableCars,
              tableFlag, lapRows, first, feedLost, muddled, feedFaults>>

FeedRace == <<shapes, track, order, flag>>
Memory == <<registry, lines, cars, session, epoch, begun>>
FeedTables == <<tableCars, tableFlag, lapRows>>

NoBatch == [cars |-> <<>>, laps |-> <<>>, flag |-> "none"]

\* Assigns or adds one entry of a dictionary.
FeedPut(f, k, v) == [x \in DOMAIN f \cup {k} |-> IF x = k THEN v ELSE f[x]]

Now == [registry |-> registry, lines |-> lines, cars |-> cars, session |-> session,
        epoch |-> epoch, begun |-> begun, batch |-> NoBatch, refused |-> FALSE, muddled |-> muddled]

\* The car's number: the registry's, or the id when it is not listed.
NumberOf(reg, c) == IF reg[c] = 0 THEN c ELSE reg[c]

\* FieldState._rows_from_lines, in line order.
RowsFromLines(d) ==
    LET sorted == SetToSortSeq(DOMAIN d.lines, <)
    IN  [i \in DOMAIN sorted |-> [num |-> NumberOf(d.registry, d.lines[sorted[i]].comp),
                                  comp |-> d.lines[sorted[i]].comp,
                                  laps |-> d.lines[sorted[i]].laps]]

\* FieldState._diff for one row: nothing if it shows what it showed; a lap when
\* the count rose against one already held.
DiffRow(d, row) ==
    LET new == [comp |-> row.comp, laps |-> row.laps, epoch |-> d.epoch]
        held == row.num \in DOMAIN d.cars
        old == d.cars[row.num]
        emit == [d EXCEPT !.cars = FeedPut(@, row.num, new),
                          !.batch.cars = Append(@, [num |-> row.num, row |-> new])]
    IN  IF held /\ old.comp = new.comp /\ old.laps = new.laps THEN d
        ELSE IF held /\ new.laps > old.laps
             THEN [emit EXCEPT !.batch.laps = Append(@, [comp |-> row.comp, lap |-> row.laps]),
                               !.muddled = @ \/ old.comp # new.comp]
             ELSE [emit EXCEPT !.muddled = @ \/ held]

\* The same competitor, or the same number, on two lines.
Doubled(rows) ==
    \E i, j \in DOMAIN rows :
        i # j /\ (rows[i].comp = rows[j].comp \/ rows[i].num = rows[j].num)

\* FieldState._diff: a full board with another set of cars starts an epoch, for
\* which every row is sent again.
Diff(d, rows, full) ==
    LET fresh == full /\ (d.epoch = 0 \/ {rows[i].num : i \in DOMAIN rows} # DOMAIN d.cars)
        start == IF fresh THEN [d EXCEPT !.epoch = d.begun + 1, !.begun = @ + 1, !.cars = <<>>] ELSE d
    IN  FoldLeft(DiffRow, [start EXCEPT !.muddled = @ \/ Doubled(rows)], rows)

\* FieldState._leaderboard: a part update is merged into the lines, a full one
\* replaces them; beyond the cap the document is refused, the lines already
\* replaced.
Leaderboard(d, e) ==
    LET merged == [d EXCEPT !.lines = IF e.kind = "full" THEN e.board
                                      ELSE [l \in DOMAIN @ \cup DOMAIN e.board |->
                                               IF l \in DOMAIN e.board THEN e.board[l] ELSE @[l]]]
    IN  IF e.over THEN [merged EXCEPT !.refused = TRUE]
        ELSE Diff(merged, RowsFromLines(merged), e.kind = "full")

\* FieldState._competitor_list, and the rows derived again from the lines held.
CompetitorList(d, e) ==
    LET listed == [d EXCEPT !.registry = e.registry,
                            !.muddled = @ \/ \E c \in Comps :
                                             d.registry[c] \notin {0, e.registry[c]}]
    IN  IF d.lines = <<>> THEN listed ELSE Diff(listed, RowsFromLines(listed), FALSE)

\* FieldState._session_update
SessionUpdate(d, e) ==
    IF d.session = e.flag THEN d ELSE [d EXCEPT !.session = e.flag, !.batch.flag = e.flag]

\* FieldState.apply_document: the elements in order, until one is refused.
ApplyElement(d, e) ==
    CASE d.refused -> d
      [] ~d.refused /\ e.kind \in {"full", "part"} -> Leaderboard(d, e)
      [] ~d.refused /\ e.kind = "list" -> CompetitorList(d, e)
      [] ~d.refused /\ e.kind = "flag" -> SessionUpdate(d, e)

ApplyDocument(document) == FoldLeft(ApplyElement, Now, document)

\* FieldState.apply_snapshot: the session first, then the cap, then the diff; a
\* relay gives numbers, never ids.
ApplySnapshot(s) ==
    LET flagged == SessionUpdate(Now, [flag |-> s.flag])
    IN  IF s.over THEN [flagged EXCEPT !.refused = TRUE]
        ELSE Diff(flagged, s.rows, TRUE)

Empty(b) == b = NoBatch

\* What a document leaves: the standings, and its batch at the lock.  A refused
\* document leaves its standings and no batch.
Applied(d, task) ==
    /\ registry' = d.registry
    /\ lines' = d.lines
    /\ cars' = d.cars
    /\ session' = d.session
    /\ epoch' = d.epoch
    /\ begun' = d.begun
    /\ d.begun <= MaxEpochs
    /\ writes' = IF d.refused \/ Empty(d.batch) THEN writes
                 ELSE Append(writes, [task |-> task, batch |-> d.batch])
    /\ feedLost' = (feedLost \/ d.refused)
    /\ muddled' = d.muddled
    /\ first' = [c \in Comps |->
                    IF first[c] = -1 /\ \E n \in DOMAIN d.cars : d.cars[n].comp = c
                    THEN (CHOOSE v \in {d.cars[n] : n \in DOMAIN d.cars} : v.comp = c).laps
                    ELSE first[c]]

Busy(task) == \E i \in DOMAIN writes : writes[i].task = task

-----------------------------------------------------------------------------

FeedInit ==
    /\ shapes \in Shapes
    /\ track = <<>>
    /\ order = <<>>
    /\ flag = "green"
    /\ registry = [c \in Comps |-> 0]
    /\ lines = <<>>
    /\ cars = <<>>
    /\ session = "none"
    /\ epoch = 0
    /\ begun = 0
    /\ inbox = <<>>
    /\ writes = <<>>
    /\ tableCars = <<>>
    /\ tableFlag = "none"
    /\ lapRows = [k \in Comps \X (1..FeedMaxLaps) |-> 0]
    /\ first = [c \in Comps |-> -1]
    /\ feedLost = FALSE
    /\ muddled = FALSE
    /\ feedFaults = 0

\* The race goes on: a car enters, completes a lap, overtakes, or the race is
\* stopped (that one only where documents and snapshots are mixed, to bound the
\* states).
RaceGoesOn ==
    /\ \/ \E c \in Comps \ DOMAIN track :
             /\ Cardinality(shapes) = 1 \/ Len(order) < MixedCars
             /\ track' = FeedPut(track, c, 0)
             /\ order' = Append(order, c)
             /\ UNCHANGED flag
       \/ \E c \in DOMAIN track :
             track[c] < FeedMaxLaps /\ track' = [track EXCEPT ![c] = @ + 1] /\ UNCHANGED <<order, flag>>
       \/ \E i \in 1..Len(order) - 1 :
             /\ track[order[i]] < track[order[i + 1]]
             /\ order' = [order EXCEPT ![i] = order[i + 1], ![i + 1] = order[i]]
             /\ UNCHANGED <<track, flag>>
       \/ /\ flag = "green" /\ Cardinality(shapes) = 2
          /\ flag' = "red"
          /\ UNCHANGED <<track, order>>
    /\ UNCHANGED <<shapes, Memory, inbox, writes, FeedTables, first, feedLost, muddled,
                   feedFaults>>

Line(l) == [comp |-> order[l], laps |-> track[order[l]]]

\* The documents the provider may send of the race as it is: some lines of the
\* board, the whole board, or the whole board behind the flag.
FeedBoards ==
    {<<[kind |-> "part", board |-> [l \in {k} |-> Line(l)], over |-> FALSE]>> :
        k \in DOMAIN order}
    \cup {<<[kind |-> "flag", flag |-> flag],
            [kind |-> "full", board |-> [l \in DOMAIN order |-> Line(l)], over |-> FALSE]>>}

Lists == {<<[kind |-> "list", registry |-> r]>> : r \in Registries}

\* handle_document, up to the wait for the lock; a document that is not XML is
\* refused and changes nothing.
HandleDocument(document) ==
    /\ "documents" \in shapes
    /\ ~Busy("source")
    /\ Applied(ApplyDocument(document), "source")
    /\ UNCHANGED <<FeedRace, inbox, FeedTables, feedFaults>>

\* A document refused half-way: a board beyond the cap behind a flag.
HandleOversize ==
    /\ "documents" \in shapes
    /\ ~Busy("source")
    /\ feedFaults < FeedMaxFaults
    /\ feedFaults' = feedFaults + 1
    /\ Applied(ApplyDocument(<<[kind |-> "flag", flag |-> flag],
                               [kind |-> "part", board |-> [l \in DOMAIN order |-> Line(l)],
                                over |-> TRUE]>>), "source")
    /\ UNCHANGED <<FeedRace, inbox, FeedTables>>

\* submit, on the loop's thread: the oldest makes room for the newest.
FeedSubmit ==
    /\ "snapshots" \in shapes
    /\ track # <<>>
    /\ LET rows == [i \in DOMAIN order |-> [num |-> NumberOf(registry, order[i]),
                                            comp |-> order[i], laps |-> track[order[i]]]]
           room == IF Len(inbox) >= FeedQueueSize THEN Tail(inbox) ELSE inbox
       IN  inbox' = Append(room, [flag |-> flag, rows |-> rows, over |-> FALSE])
    /\ UNCHANGED <<FeedRace, Memory, writes, FeedTables, first, feedLost, muddled, feedFaults>>

\* _ingest_loop and handle_snapshot, up to the wait for the lock.
HandleSnapshot ==
    /\ inbox # <<>>
    /\ ~Busy("ingest")
    /\ Applied(ApplySnapshot(Head(inbox)), "ingest")
    /\ inbox' = Tail(inbox)
    /\ UNCHANGED <<FeedRace, FeedTables, feedFaults>>

\* FieldDatabase.write: the batch's rows, in one transaction.
FeedCommit(b) ==
    /\ tableCars' = FoldLeft(LAMBDA t, u : FeedPut(t, u.num, u.row), tableCars, b.cars)
    /\ tableFlag' = IF b.flag = "none" THEN tableFlag ELSE b.flag
    /\ lapRows' = FoldLeft(LAMBDA t, l : [t EXCEPT ![l.comp, l.lap] = IF @ = 2 THEN 2 ELSE @ + 1],
                           lapRows, b.laps)


\* _write: the lock is fair, so batches are written in the order they were made.
FeedWrite ==
    /\ writes # <<>>
    /\ writes' = Tail(writes)
    /\ FeedCommit(Head(writes).batch)
    /\ UNCHANGED <<FeedRace, Memory, inbox, first, feedLost, muddled, feedFaults>>

\* The database refuses: the batch is dropped, the standings keep its rows.
FeedWriteFails ==
    /\ writes # <<>>
    /\ feedFaults < FeedMaxFaults
    /\ feedFaults' = feedFaults + 1
    /\ writes' = Tail(writes)
    /\ feedLost' = TRUE
    /\ UNCHANGED <<FeedRace, Memory, inbox, FeedTables, first, muddled>>

\* The service is started again: the standings are empty, the tables are not.
FeedRestart ==
    /\ feedFaults < FeedMaxFaults
    /\ feedFaults' = feedFaults + 1
    /\ registry' = [c \in Comps |-> 0]
    /\ lines' = <<>>
    /\ cars' = <<>>
    /\ session' = "none"
    /\ epoch' = 0
    /\ inbox' = <<>>
    /\ writes' = <<>>
    /\ UNCHANGED <<FeedRace, begun, FeedTables, first, feedLost, muddled>>

FeedNext ==
    \/ RaceGoesOn
    \/ \E doc \in FeedBoards \cup Lists : HandleDocument(doc)
    \/ HandleOversize
    \/ FeedSubmit
    \/ HandleSnapshot
    \/ FeedWrite
    \/ FeedWriteFails
    \/ FeedRestart

FeedSpec == FeedInit /\ [][FeedNext]_feedVars

-----------------------------------------------------------------------------
\* The state has the shape the code gives it.
FeedTypeOK ==
    /\ DOMAIN track \subseteq Comps /\ Len(order) = Cardinality(DOMAIN track)
    /\ \A l \in DOMAIN lines : lines[l].comp \in Comps
    /\ registry \in [Comps -> Nat]
    /\ epoch \in 0..begun /\ begun <= MaxEpochs
    /\ Len(inbox) <= FeedQueueSize
    /\ Len(writes) <= 2
    /\ \A n \in DOMAIN cars : cars[n].laps \in 0..FeedMaxLaps

\* Once the writes are done, the tables show the standings held: the last row
\* of every car and of the session is the one in memory, epoch included, so the
\* "latest snapshot" view has every car.  A dropped batch and a document
\* refused after it had changed the standings are excused: nothing sends their
\* rows again until the car changes.
TablesFollow ==
    writes = <<>> /\ ~feedLost =>
        /\ \A n \in DOMAIN cars : n \in DOMAIN tableCars /\ tableCars[n] = cars[n]
        /\ session \in {"none", tableFlag}

\* All rows of the standings belong to one epoch: the one the view shows.
OneEpoch ==
    epoch > 0 => \A n \in DOMAIN cars : cars[n].epoch = epoch

\* No lap is written twice, over epochs
\* and restarts.  Excused: the board named one car twice, a number passed from
\* one competitor to another, a count went back, or a relay was mixed with a
\* source and sent a snapshot older than the board.
NoLapTwice ==
    ~muddled /\ Cardinality(shapes) = 1 => \A k \in DOMAIN lapRows : lapRows[k] <= 1

\* No lap is invented: the count a competitor has when it is first seen is
\* adopted, and every lap row is of a later lap that was really completed.
\* Excused as above.
LapsAreReal ==
    ~muddled /\ Cardinality(shapes) = 1 => \A c \in Comps, l \in 1..FeedMaxLaps :
        lapRows[c, l] > 0 => c \in DOMAIN track /\ first[c] < l /\ l <= track[c]
=============================================================================
