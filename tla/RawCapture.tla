---------------------------- MODULE RawCapture ----------------------------
(***************************************************************************)
(* Raw CAN capture: openlaps-canlog relays candump's lines into a capture  *)
(* run (collectors/canlog.py) whose segments are flushed, synced and       *)
(* rotated as lines are written (collectors/rawlog.py).  SIGTERM's handler *)
(* runs on the relaying thread itself; power may fail at any moment.       *)
(***************************************************************************)
EXTENDS Integers

CONSTANTS
    FsyncInterval, RotateInterval,
    CandumpBackoffStart, CandumpBackoffMax,
    MaxLines,   \* lines in a run
    MaxRuns,
    CandumpMaxFaults

VARIABLES
    candumpPc,  \* where the relaying thread is
    child,      \* candump: "none", "up", "ending" (told to stop), "gone"
    known,      \* self._child is set
    stopped,    \* self._stop is set
    relayed,    \* a line of this child arrived
    candumpBackoff,  \* the next wait
    candumpWait,  \* what is left of this one
    count,      \* lines written in this run
    rotated,    \* of them, in segments that were rotated out
    synced,     \* of them, flushed and synced
    open,       \* the segment is open
    fsyncDue, rotateDue,
    dirtyAge,   \* the age of the oldest line not synced
    wrote,      \* the last step wrote a line
    kept,       \* lines of the last run that survived its end; -1 before
    runs, candumpFaults

procVars == <<child, known, stopped, relayed, candumpBackoff, candumpWait>>
fileVars == <<count, rotated, synced, open, fsyncDue, rotateDue, dirtyAge>>
candumpVars == <<candumpPc, procVars, fileVars, wrote, kept, runs, candumpFaults>>

CandumpLeast(a, b) == IF a < b THEN a ELSE b
CandumpSpend == candumpFaults < CandumpMaxFaults /\ candumpFaults' = candumpFaults + 1

FreshFile ==
    /\ count' = 0 /\ rotated' = 0 /\ synced' = 0 /\ open' = TRUE
    /\ fsyncDue' = FsyncInterval /\ rotateDue' = RotateInterval
    /\ dirtyAge' = 0

\* RawLogWriter.__init__: a new run directory, its manifest, its first segment.
CandumpInit ==
    /\ candumpPc = "loop" /\ child = "none" /\ known = FALSE /\ stopped = FALSE
    /\ relayed = FALSE /\ candumpBackoff = CandumpBackoffStart /\ candumpWait = 0
    /\ count = 0 /\ rotated = 0 /\ synced = 0 /\ open = TRUE
    /\ fsyncDue = FsyncInterval /\ rotateDue = RotateInterval /\ dirtyAge = 0
    /\ wrote = FALSE /\ kept = -1 /\ runs = 1 /\ candumpFaults = 0

\* The loop's head: run ends when asked to.
Loop ==
    /\ candumpPc = "loop"
    /\ candumpPc' = IF stopped THEN "close" ELSE "spawn"
    /\ wrote' = FALSE
    /\ UNCHANGED <<procVars, fileVars, kept, runs, candumpFaults>>

\* Popen.
Spawn ==
    /\ candumpPc = "spawn"
    /\ child' = "up" /\ relayed' = FALSE
    /\ candumpPc' = "lock"
    /\ UNCHANGED <<known, stopped, candumpBackoff, candumpWait, fileVars, wrote, kept, runs,
                   candumpFaults>>

\* The rest of run's round: a child that relayed starts the backoff afresh.
Rest ==
    LET b == IF relayed THEN CandumpBackoffStart ELSE candumpBackoff IN
    /\ candumpWait' = b
    /\ candumpBackoff' = CandumpLeast(b * 2, CandumpBackoffMax)

\* The command cannot be started.
SpawnFails ==
    /\ candumpPc = "spawn"
    /\ CandumpSpend
    /\ IF stopped THEN candumpPc' = "close" /\ UNCHANGED <<candumpWait, candumpBackoff>>
       ELSE /\ candumpPc' = "wait"
            /\ candumpWait' = candumpBackoff /\ candumpBackoff' = CandumpLeast(candumpBackoff * 2, CandumpBackoffMax)
    /\ UNCHANGED <<child, known, stopped, relayed, fileVars, wrote, kept, runs>>

\* with self._child_lock: self._child = child.
Register ==
    /\ candumpPc = "lock"
    /\ known' = TRUE
    /\ candumpPc' = "check"
    /\ UNCHANGED <<child, stopped, relayed, candumpBackoff, candumpWait, fileVars, wrote,
                   kept, runs, candumpFaults>>

\* A stop that came before the child was known is met here.
Check ==
    /\ candumpPc = "check"
    /\ child' = IF stopped /\ child = "up" THEN "ending" ELSE child
    /\ candumpPc' = "read"
    /\ UNCHANGED <<known, stopped, relayed, candumpBackoff, candumpWait, fileVars, wrote,
                   kept, runs, candumpFaults>>

-----------------------------------------------------------------------------

\* _rotate: sync, close, sync the directory, open the next.
Rotate ==
    /\ rotated' = count + 1
    /\ synced' = count + 1
    /\ fsyncDue' = FsyncInterval /\ rotateDue' = RotateInterval
    /\ dirtyAge' = 0

\* Not yet time to rotate: sync, if that is due.
SyncIfDue ==
    /\ UNCHANGED <<rotated, rotateDue>>
    /\ IF fsyncDue <= 0
       THEN /\ synced' = count + 1 /\ dirtyAge' = 0
            /\ fsyncDue' = FsyncInterval
       ELSE UNCHANGED <<synced, dirtyAge, fsyncDue>>

\* write_line.
WriteLine ==
    /\ count' = count + 1
    /\ IF rotateDue <= 0 THEN Rotate ELSE SyncIfDue
    /\ UNCHANGED open

\* A line of candump's is relayed.
Relay ==
    /\ candumpPc = "read" /\ child # "none" /\ count < MaxLines
    /\ WriteLine
    /\ relayed' = TRUE /\ wrote' = TRUE
    /\ UNCHANGED <<candumpPc, child, known, stopped, candumpBackoff, candumpWait, kept,
                   runs, candumpFaults>>

\* The write, a sync or a rotation raises OSError: the relay ends, and with it
\* the process.
RelayFails ==
    /\ candumpPc = "read" /\ child # "none" /\ count < MaxLines
    /\ CandumpSpend
    /\ count' \in {count, count + 1}
    /\ open' \in IF rotateDue <= 0 THEN BOOLEAN ELSE {TRUE}
    /\ candumpPc' = "failing"
    /\ wrote' = FALSE
    /\ UNCHANGED <<procVars, rotated, synced, fsyncDue, rotateDue, dirtyAge, kept, runs>>

\* candump ends: told to, or because the interface is down.
ChildEnds ==
    /\ \/ child = "ending" /\ UNCHANGED candumpFaults
       \/ child = "up" /\ CandumpSpend
    /\ child' = "gone"
    /\ wrote' = FALSE
    /\ UNCHANGED <<candumpPc, known, stopped, relayed, candumpBackoff, candumpWait,
                   fileVars, kept, runs>>

\* End of its output: with self._child_lock: self._child = None.
CandumpReadEnds ==
    /\ candumpPc = "read" /\ child = "gone"
    /\ candumpPc' = "unlock"
    /\ wrote' = FALSE
    /\ UNCHANGED <<procVars, fileVars, kept, runs, candumpFaults>>

Clear ==
    /\ candumpPc \in {"unlock", "failing"}
    /\ known' = FALSE
    /\ candumpPc' = IF candumpPc = "unlock" THEN "reap" ELSE "kill"
    /\ UNCHANGED <<child, stopped, relayed, candumpBackoff, candumpWait, fileVars, wrote,
                   kept, runs, candumpFaults>>

\* child.wait, then run's round: leave if asked to, else rest.
Reap ==
    /\ candumpPc = "reap"
    /\ child' = "none"
    /\ IF stopped THEN candumpPc' = "close" /\ UNCHANGED <<candumpWait, candumpBackoff>>
       ELSE candumpPc' = "wait" /\ Rest
    /\ UNCHANGED <<known, stopped, relayed, fileVars, wrote, kept, runs, candumpFaults>>

\* After a write failure candump does not end by itself: wait times out, kill.
ReapKills ==
    /\ candumpPc = "kill"
    /\ child' = "none"
    /\ stopped' = TRUE
    /\ candumpPc' = "close"
    /\ UNCHANGED <<known, relayed, candumpBackoff, candumpWait, fileVars, wrote, kept, runs,
                   candumpFaults>>

\* self._stop.wait(backoff) is over, or cut short by the stop.
CandumpWaitEnds ==
    /\ candumpPc = "wait" /\ (candumpWait = 0 \/ stopped)
    /\ candumpPc' = "loop" /\ candumpWait' = 0
    /\ UNCHANGED <<child, known, stopped, relayed, candumpBackoff, fileVars, wrote, kept,
                   runs, candumpFaults>>

\* RawLogWriter.close: flush, sync, close; a failure is only logged.
Close ==
    /\ candumpPc = "close"
    /\ candumpPc' = "returned"
    /\ open' = FALSE
    /\ \/ synced' = (IF open THEN count ELSE synced) /\ UNCHANGED candumpFaults
       \/ UNCHANGED synced /\ CandumpSpend
    /\ kept' = synced'
    /\ UNCHANGED <<procVars, count, rotated, fsyncDue, rotateDue, dirtyAge, wrote, runs>>

\* SIGTERM: the handler, stop(), runs on the relaying thread, between any two
\* of its steps.  Inside one of the two lock blocks it waits for itself.
Signal ==
    /\ ~stopped /\ candumpPc # "returned"
    /\ stopped' = TRUE
    /\ candumpPc' = IF candumpPc \in {"lock", "unlock", "failing"} THEN "wedged" ELSE candumpPc
    /\ child' = IF candumpPc' # "wedged" /\ known /\ child = "up" THEN "ending" ELSE child
    /\ wrote' = FALSE
    /\ UNCHANGED <<known, relayed, candumpBackoff, candumpWait, fileVars, kept, runs,
                   candumpFaults>>

\* Power fails: of the open segment, what was synced survives, and whatever
\* else had reached the disk.
PowerFails ==
    /\ candumpPc # "returned"
    /\ CandumpSpend
    /\ kept' \in synced..count
    /\ candumpPc' = "returned" /\ child' = "none" /\ stopped' = TRUE
    /\ open' = FALSE
    /\ wrote' = FALSE
    /\ UNCHANGED <<known, relayed, candumpBackoff, candumpWait, count, rotated, synced, fsyncDue, rotateDue, dirtyAge,
                   runs>>

\* systemd starts the service again, into a fresh run.
CandumpRestart ==
    /\ candumpPc = "returned" /\ runs < MaxRuns
    /\ runs' = runs + 1
    /\ candumpPc' = "loop" /\ child' = "none" /\ known' = FALSE /\ stopped' = FALSE
    /\ relayed' = FALSE /\ candumpBackoff' = CandumpBackoffStart /\ candumpWait' = 0
    /\ FreshFile
    /\ wrote' = FALSE /\ kept' = -1
    /\ UNCHANGED candumpFaults

CandumpTick ==
    /\ candumpPc \in {"read", "wait"} /\ (candumpPc = "wait" => candumpWait > 0)
    /\ candumpWait' = IF candumpWait > 0 THEN candumpWait - 1 ELSE 0
    /\ fsyncDue' = IF fsyncDue > 0 THEN fsyncDue - 1 ELSE 0
    /\ rotateDue' = IF rotateDue > 0 THEN rotateDue - 1 ELSE 0
    /\ dirtyAge' = IF count > synced THEN CandumpLeast(dirtyAge + 1, FsyncInterval + 1) ELSE 0
    /\ wrote' = FALSE
    /\ UNCHANGED <<candumpPc, child, known, stopped, relayed, candumpBackoff, count,
                   rotated, synced, open, kept, runs, candumpFaults>>

CandumpStep == Loop \/ Spawn \/ Register \/ Check \/ CandumpReadEnds \/ Clear \/ Reap \/ ReapKills \/ CandumpWaitEnds \/ Close

CandumpNext == CandumpStep \/ SpawnFails \/ Relay \/ RelayFails \/ ChildEnds \/ Signal \/ PowerFails \/ CandumpRestart \/ CandumpTick

\* The thread runs, its waits end, a candump that was told to stop does.
CandumpSpec ==
    /\ CandumpInit /\ [][CandumpNext]_candumpVars
    /\ WF_candumpVars(CandumpStep) /\ WF_candumpVars(candumpPc = "wait" /\ CandumpTick) /\ WF_candumpVars(child = "ending" /\ ChildEnds)

-----------------------------------------------------------------------------

\* The variables keep their types; the backoff keeps its bounds.
CandumpTypeOK ==
    /\ candumpPc \in {"loop", "spawn", "lock", "check", "read", "unlock", "failing", "reap", "kill", "wait",
                      "close", "returned", "wedged"}
    /\ child \in {"none", "up", "ending", "gone"}
    /\ candumpBackoff \in CandumpBackoffStart..CandumpBackoffMax /\ candumpWait \in 0..CandumpBackoffMax
    /\ {count, rotated, synced} \subseteq 0..MaxLines
    /\ kept \in -1..MaxLines

\* Whatever ends a run, the segments rotated out of it are there whole: their
\* lines had been synced before the next segment was opened.
OlderIsDurable == kept # -1 => kept >= rotated

\* A line that is written leaves nothing unsynced that is older than the sync
\* interval.
WriteSyncs == wrote => dirtyAge < FsyncInterval

\* A run that ends without a fault keeps every line it relayed.
CleanStopKeepsAll == candumpPc = "returned" /\ candumpFaults = 0 => kept = count

\* candump is gone when the service is.
NoOrphan == candumpPc = "returned" => child \in {"none", "gone"}

\* A candump that dies is started again, whatever it relayed, unless the
\* service was stopped meanwhile (or lost its disk or its power).
StartedAgain == []<>(child = "up" \/ stopped)

\* A stop ends the run, unless the signal met one of the two lock blocks.
StopReturns == []<>(stopped => candumpPc \in {"returned", "wedged"})

=============================================================================
