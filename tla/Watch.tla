------------------------------- MODULE Watch -------------------------------
(***************************************************************************)
(* The condition monitor (pit/watch: service.py, engine.py, monitors.py,   *)
(* store.py): one monitor's life through ticks, laps, session and stint    *)
(* changes, database failures and restarts.                                *)
(*                                                                         *)
(* A monitor learns a baseline, then judges.  What it computes from the    *)
(* readings is abstracted to its verdict: "gated" (no opinion: stale data, *)
(* a closed gate, a unit change, a thin bin), "low" (valid and healthy) or *)
(* "high" (at or beyond the threshold).  Envelope, Ratio, Counter and      *)
(* WholeCar judge on every tick; Drift judges on lap events and reports on *)
(* the next row.  Monitors share nothing but the tick, so one monitor, of  *)
(* any kind, is the whole story.                                           *)
(***************************************************************************)
EXTENDS Naturals, Integers, Sequences, SequencesExt, FiniteSets

CONSTANTS
    Kinds,        \* "envelope", "ratio", "drift" (session_start), "whole_car"
                  \* (stint_start), "counter", "stored" (a baseline from a file)
    Baseline,     \* observations, or laps, that make a baseline
    MaxTick,      \* bound on the clock
    MaxSession,   \* bound on sessions started
    MaxStint,     \* bound on stints per session
    MaxBacklog,   \* bound on lap events waiting in the heap
    WatchMaxFaults  \* bound on the number of failures

VARIABLES
    kind,       \* the kind of the monitor; constant
    watchClock,  \* the second the next tick is about
    sessions,   \* sessions started so far
    session,    \* the active session in the database, 0 for none
    stint,      \* its open stint
    laps,       \* the lap verdicts waiting in the heap, with other samples
    pc,         \* "idle", or "evaluated": between the tick and its write
    watchEngine,  \* the monitor and the engine's last_tick
    previous,   \* the copy taken before the tick
    context,    \* the service's session, stint and whether it has either
    row,        \* the row this tick computed
    baselines,  \* watch_baselines: slot -> checkpoint
    scores,     \* watch_scores: slot -> number of "learning" rows
    findings,   \* watch_findings: id -> open or closed, and whose it is
    watchFaults,  \* failures so far
    ambiguous,  \* history: a commit succeeded and was reported as a failure
    unreported  \* history: two laps in one tick, the first opening or closing

watchVars == <<kind, watchClock, sessions, session, stint, laps, pc, watchEngine, previous, context, row,
               baselines, scores, findings, watchFaults, ambiguous, unreported>>

WatchNone == 0

Slots == (1..MaxSession) \X (0..MaxStint)

WatchBlank == [learned |-> 0, finding |-> WatchNone, pending |-> <<>>, last |-> -1]

NoModel == [WatchBlank EXCEPT !.learned = -1]

\* The checkpoint slot: the stint for a stint_start baseline, else 0.
Slot(s, n) == <<s, IF kind = "whole_car" THEN n ELSE 0>>

Frozen(m) == m.learned >= Baseline

Finding(id, open) == <<[id |-> id, open |-> open]>>

WatchNoRow == [judged |-> FALSE, learning |-> FALSE, finding |-> <<>>]

\* uuid4: an identifier not in the table, nor held by the engine.
FreshId(m) == 1 + Cardinality(DOMAIN findings) + (IF m.finding \in DOMAIN findings \cup {WatchNone} THEN 0 ELSE 1)

\* _Findings._transition (and the end of Envelope.evaluate): open, update or
\* close the one finding; the second component is the row's finding.
Transition(m, v) ==
    LET id == IF m.finding = WatchNone THEN FreshId(m) ELSE m.finding
    IN  CASE v = "high" -> [m |-> [m EXCEPT !.finding = id], f |-> Finding(id, TRUE)]
          [] v = "low" /\ m.finding # WatchNone ->
                [m |-> [m EXCEPT !.finding = WatchNone], f |-> Finding(m.finding, FALSE)]
          [] OTHER -> [m |-> m, f |-> <<>>]

\* Drift.on_lap: an unclean lap is skipped (outside a session no second counts
\* towards one), a baseline lap banked, any other judged; the transition waits
\* in _pending, replacing what waited there.
OnLap(m, v) ==
    CASE v = "gated" \/ context.session = WatchNone -> m
      [] ~Frozen(m)   -> [m EXCEPT !.learned = @ + 1]
      [] OTHER        -> LET t == Transition(m, v) IN [t.m EXCEPT !.pending = t.f]

NoOpinion(m) == [m |-> m, row |-> WatchNoRow]

Learned(m) == [m |-> [m EXCEPT !.learned = @ + 1], row |-> [WatchNoRow EXCEPT !.learning = TRUE]]

Judged(m, v) ==
    LET t == Transition(m, v)
    IN  [m |-> t.m, row |-> [judged |-> v = "low", learning |-> FALSE, finding |-> t.f]]

\* One second of a kind: the row, and the monitor after it.  The envelope and
\* the ratio have no opinion of a gated second or a thin bin, and bank the
\* observation until the baseline is frozen.
EnvelopeEvaluate(m, v) ==
    IF v = "gated" THEN NoOpinion(m) ELSE IF Frozen(m) THEN Judged(m, v) ELSE Learned(m)

RatioEvaluate(m, v) ==
    IF v = "gated" THEN NoOpinion(m) ELSE IF Frozen(m) THEN Judged(m, v) ELSE Learned(m)

\* The whole-car model keeps sufficient statistics instead of samples.
WholeCarEvaluate(m, v) ==
    IF v = "gated" THEN NoOpinion(m) ELSE IF Frozen(m) THEN Judged(m, v) ELSE Learned(m)

\* The counter has nothing to learn: it is silent until its window spans
\* enough seconds, which is a gated second here, and judges the rate after.
CounterEvaluate(m, v) ==
    IF v = "gated" THEN NoOpinion(m) ELSE Judged(m, v)

\* The drift reports what a lap left in _pending, whether gated or not.
DriftEvaluate(m) ==
    [m |-> [m EXCEPT !.pending = <<>>], row |-> [WatchNoRow EXCEPT !.finding = m.pending]]

Evaluate(m, v) ==
    CASE kind = "drift"     -> DriftEvaluate(m)
      [] kind = "whole_car" -> WholeCarEvaluate(m, v)
      [] kind = "ratio"     -> RatioEvaluate(m, v)
      [] kind = "counter"   -> CounterEvaluate(m, v)
      [] OTHER              -> EnvelopeEvaluate(m, v)

WatchSpend == watchFaults < WatchMaxFaults /\ watchFaults' = watchFaults + 1

OpenFindings == {id \in DOMAIN findings : findings[id].open}

\* WatchStore.close_previous: every open finding of the monitor but the kept.
ClosePrevious(keep) ==
    findings' = [id \in DOMAIN findings |->
                    IF id = keep THEN findings[id] ELSE [findings[id] EXCEPT !.open = FALSE]]

WatchInit ==
    /\ kind \in Kinds
    /\ watchClock = 0
    /\ sessions = 0
    /\ session = WatchNone
    /\ stint = 0
    /\ laps = <<>>
    /\ pc = "idle"
    /\ watchEngine = WatchBlank
    /\ previous = WatchBlank
    /\ context = [session |-> WatchNone, stint |-> 0, initialized |-> FALSE]
    /\ row = WatchNoRow
    /\ baselines = [s \in Slots |-> NoModel]
    /\ scores = [s \in Slots |-> 0]
    /\ findings = <<>>
    /\ watchFaults = 0
    /\ ambiguous = FALSE
    /\ unreported = FALSE

Service == <<watchEngine, previous, context, row, pc>>
Database == <<baselines, scores, findings>>
History == <<ambiguous, unreported>>

\* Session-control starts, ends or replaces the session, or opens a stint.
SessionChanges ==
    /\ \/ /\ sessions < MaxSession
          /\ sessions' = sessions + 1
          /\ session' = sessions'
          /\ stint' = 0
       \/ /\ session # WatchNone
          /\ session' = WatchNone
          /\ stint' = 0
          /\ UNCHANGED sessions
       \/ /\ session # WatchNone
          /\ stint < MaxStint
          /\ stint' = stint + 1
          /\ UNCHANGED <<sessions, session>>
    /\ UNCHANGED <<kind, watchClock, laps, Service, Database, watchFaults, History>>

\* A lap_completed event is pushed on the heap (handle); the event is young
\* enough to be live, or it never gets here.
LapArrives(v) ==
    /\ kind = "drift"
    /\ Len(laps) < MaxBacklog
    /\ laps' = Append(laps, v)
    /\ UNCHANGED <<kind, watchClock, sessions, session, stint, Service, Database,
                   watchFaults, History>>

\* _fresh_monitor: the checkpoint of the slot, or the frozen baseline of a
\* file, or a clean monitor.
Fresh(s, n) ==
    CASE s # WatchNone /\ baselines[Slot(s, n)] # NoModel -> baselines[Slot(s, n)]
      [] kind = "stored" -> [WatchBlank EXCEPT !.learned = Baseline]
      [] OTHER -> WatchBlank

\* _context: nothing to do; a new stint, which only a stint_start monitor
\* starts again for; or a new session (or a restart), where every monitor comes
\* from its checkpoint and last_tick with it.  Findings not carried over are
\* closed in the table.
Context ==
    \/ /\ context.initialized
       /\ context.session = session
       /\ \/ stint = context.stint \/ kind # "whole_car"
       /\ context' = [context EXCEPT !.stint = stint]
       /\ UNCHANGED <<watchEngine, findings>>
    \/ /\ context.initialized
       /\ context.session = session
       /\ stint # context.stint /\ kind = "whole_car"
       /\ LET fresh == Fresh(session, stint)
          IN  /\ watchEngine' = [fresh EXCEPT !.last = watchEngine.last]
              /\ ClosePrevious(fresh.finding)
       /\ context' = [context EXCEPT !.stint = stint]
    \/ /\ ~context.initialized \/ context.session # session
       /\ LET fresh == Fresh(session, stint)
          IN  /\ watchEngine' = fresh
              /\ ClosePrevious(fresh.finding)
       /\ context' = [session |-> session, stint |-> stint, initialized |-> TRUE]

\* The start of tick(), a second after the last unless the clock was set back:
\* the database says who is driving, and may not answer.
ContextStep ==
    /\ pc = "idle"
    /\ \/ /\ watchClock < MaxTick /\ watchClock' = watchClock + 1
          /\ \/ Context /\ pc' = "context" /\ UNCHANGED watchFaults
             \/ WatchSpend /\ UNCHANGED <<pc, watchEngine, context, findings>>
       \/ Context /\ pc' = "context" /\ WatchSpend /\ UNCHANGED watchClock
    /\ UNCHANGED <<kind, sessions, session, stint, laps, previous, row, baselines, scores,
                   History>>

\* Then the heap up to now is observed, a copy kept, and the engine ticked.  A
\* second the engine has already evaluated gives no rows and no write.
TickStep(v) ==
    /\ pc = "context"
    /\ LET seen == FoldLeft(OnLap, watchEngine, laps)
           judged == Evaluate(seen, IF context.session = WatchNone THEN "gated" ELSE v)
       IN  IF watchClock <= watchEngine.last
           THEN /\ pc' = "idle"
                /\ watchEngine' = seen
                /\ UNCHANGED <<previous, row>>
           ELSE /\ pc' = "evaluated"
                /\ previous' = seen
                /\ watchEngine' = [judged.m EXCEPT !.last = watchClock]
                /\ row' = judged.row
    /\ laps' = <<>>
    /\ unreported' = (unreported \/ \E i \in 0..(Len(laps) - 1) :
                         FoldLeft(OnLap, watchEngine, SubSeq(laps, 1, i)).pending # <<>>)
    /\ UNCHANGED <<kind, watchClock, sessions, session, stint, context, Database,
                   watchFaults, ambiguous>>

\* write_tick: scores, the finding's transition and the checkpoint commit
\* together.
Commit ==
    /\ scores' = IF row.learning /\ context.session # WatchNone
                 THEN [scores EXCEPT ![Slot(context.session, context.stint)] = @ + 1]
                 ELSE scores
    /\ findings' = IF row.finding = <<>> THEN findings
                   ELSE LET f == row.finding[1]
                        IN  [id \in DOMAIN findings \cup {f.id} |->
                                IF id # f.id THEN findings[id]
                                ELSE [open |-> f.open,
                                      slot |-> Slot(context.session, context.stint)]]
    /\ baselines' = IF context.session = WatchNone THEN baselines
                    ELSE [baselines EXCEPT ![Slot(context.session, context.stint)] =
                             [watchEngine EXCEPT !.pending = <<>>]]


\* The write succeeds; or fails and the engine goes back to its copy; or the
\* commit takes effect while its answer is lost, which looks like a failure.
WriteStep ==
    /\ pc = "evaluated"
    /\ pc' = "idle"
    /\ \/ /\ Commit
          /\ UNCHANGED <<watchEngine, watchFaults, ambiguous>>
       \/ /\ WatchSpend
          /\ watchEngine' = previous
          /\ UNCHANGED <<Database, ambiguous>>
       \/ /\ WatchSpend
          /\ Commit
          /\ watchEngine' = previous
          /\ ambiguous' = TRUE
    /\ row' = WatchNoRow
    /\ previous' = WatchBlank
    /\ UNCHANGED <<kind, watchClock, sessions, session, stint, laps, context, unreported>>

\* The process dies and is started again: memory is gone, the heap with it.
WatchRestart ==
    /\ WatchSpend
    /\ pc' = "idle"
    /\ watchEngine' = WatchBlank
    /\ previous' = WatchBlank
    /\ context' = [session |-> WatchNone, stint |-> 0, initialized |-> FALSE]
    /\ row' = WatchNoRow
    /\ laps' = <<>>
    /\ UNCHANGED <<kind, watchClock, sessions, session, stint, Database, History>>

Verdicts == {"gated", "low", "high"}

WatchNext ==
    \/ SessionChanges
    \/ \E v \in Verdicts : LapArrives(v)
    \/ ContextStep
    \/ \E v \in Verdicts : TickStep(v)
    \/ WriteStep
    \/ WatchRestart

WatchSpec == WatchInit /\ [][WatchNext]_watchVars

-----------------------------------------------------------------------------
\* The state has the shape the code gives it.
WatchTypeOK ==
    /\ kind \in Kinds
    /\ pc \in {"idle", "context", "evaluated"}
    /\ watchEngine.learned \in 0..MaxTick
    /\ watchEngine.last \in -1..MaxTick
    /\ \A s \in Slots : baselines[s].learned \in -1..MaxTick
    /\ \A id \in DOMAIN findings : findings[id].open \in BOOLEAN

\* What the operator's table shows open is what the monitor holds open: between
\* ticks the open findings of a monitor are exactly its current one, through
\* failed writes, restarts, session and stint changes.  Two things are excused
\* because the code has no answer to them: a commit whose answer was lost, and
\* laps that shared a tick (see LapFindingReported).
OneOpenFinding ==
    pc = "idle" /\ context.initialized /\ watchEngine.pending = <<>> /\ ~ambiguous /\ ~unreported =>
        OpenFindings = {watchEngine.finding} \ {WatchNone}

\* A finding is closed by evidence or by a change of session or stint, never by
\* silence: a gated second, stale data, a failed write or a restart leaves it
\* open ("no opinion and never clear an existing finding").
ClosedByEvidence ==
    \A id \in DOMAIN findings :
        findings[id].open /\ ~findings'[id].open =>
            \/ row.judged
            \/ kind = "drift" /\ row.finding # <<>>
            \/ findings[id].slot # Slot(context'.session, context'.stint)
            \/ ambiguous \/ unreported

\* A second is learned once: the checkpoint's count of learned observations is
\* the number of "learning" rows stored for its slot, whatever failed or
\* restarted in between (copy.deepcopy and the rollback to it).
LearnedOnce ==
    kind \in {"envelope", "ratio", "whole_car"} /\ ~ambiguous =>
        \A s \in Slots : baselines[s].learned \in {-1, scores[s]}

=============================================================================
