--------------------------- MODULE SessionControl ---------------------------
(***************************************************************************)
(* The pit's session-control service (src/src/pit/session_control): an     *)
(* operator action changes the session state, which is saved to the state  *)
(* file, recorded in the database or in its durable retry queue, and then  *)
(* handed to a publisher that retains the latest payload only.             *)
(*                                                                         *)
(* A snapshot of the state is known by the number of the action that made  *)
(* it and a session by the number of the action that started it; what the  *)
(* state machine puts into a snapshot is the subject of SessionState.      *)
(***************************************************************************)
EXTENDS Integers, Sequences, FiniteSets

CONSTANTS MaxActs,      \* bound: operator actions that change the state
          FaultBudget,  \* bound: how often each fault may happen
          MaxFaults     \* bound: how many kinds of fault in one behaviour

FaultKinds == {"crash", "outage", "reply", "reject", "queueFile", "stateFile",
               "cancel", "link"}

ASSUME ActsAssumption == MaxActs \in Nat
ASSUME FaultAssumption == FaultBudget \in [FaultKinds -> Nat] /\ MaxFaults \in Nat

Sessions == 1..MaxActs
None == [sess |-> 0, ver |-> 0, status |-> "none"]
Snapshot == [sess : Sessions, ver : Sessions, status : {"active", "ended"}]

VARIABLES
  issued,     \* number of the last action that made a snapshot
  state,      \* SessionController.state
  prior,      \* prior_state of the action under way
  file,       \* the state file
  queue,      \* SessionDatabase._pending, in order
  queueFile,  \* the retry queue on disk
  db,         \* per session, the snapshot its rows are from (0: no row)
  dbUp,       \* the database can be reached
  connected,  \* the service holds a connection it believes in
  pc,         \* the action under way, and where it is
  flushing,   \* _flush_one has committed and not yet popped its entry
  pending,    \* LatestSessionPublisher._pending
  sending,    \* the payload of the publish under way
  nats,       \* the message cmd.<vehicle>.session retains
  latest,     \* history: per session, the last snapshot that was submitted
  rejected,   \* history: actions rolled back in memory and in the state file
  budget      \* faults left

disk == <<file, queueFile>>
publisher == <<pending, sending, nats>>
history == <<latest, rejected>>
vars == <<issued, state, prior, file, queue, queueFile, db, dbUp, connected, pc,
          flushing, pending, sending, nats, latest, rejected, budget>>

Spend(faults) ==
  /\ \A k \in faults : budget[k] > 0
  /\ Cardinality(faults \cup {k \in FaultKinds : budget[k] < FaultBudget[k]}) <= MaxFaults
  /\ budget' = [k \in FaultKinds |-> IF k \in faults THEN budget[k] - 1 ELSE budget[k]]

\* Where the controller's task is: no process, between actions, in
\* database.record, or in it after the transaction has committed; the startup
\* records the restored state before anything else runs.
Places == {"down", "idle", "record", "settle", "bootRecord", "bootSettle"}
Booting == pc \in {"bootRecord", "bootSettle"}
Running == pc \in {"idle", "record", "settle"}
LockFree == pc \notin {"settle", "bootSettle"} /\ ~flushing

-----------------------------------------------------------------------------
(* The retry queue: an ordered dictionary of snapshots by session.         *)

Queued(q, s) == \E i \in 1..Len(q) : q[i].sess = s
Place(q, s) == CHOOSE i \in 1..Len(q) : q[i].sess = s

\* The entry of a queued session is taken out; the others keep their order.
Without(q, s) == [i \in 1..(Len(q) - 1) |-> q[IF i < Place(q, s) THEN i ELSE i + 1]]

\* A session that is queued already keeps its place.
Put(q, e) == IF Queued(q, e.sess)
               THEN [i \in 1..Len(q) |-> IF q[i].sess = e.sess THEN e ELSE q[i]]
               ELSE Append(q, e)

\* _write_state: the rows of the session become those of the snapshot.
Write(e) == db' = [db EXCEPT ![e.sess] = e.ver]

Init ==
  /\ issued = 0 /\ state = None /\ prior = None /\ file = None
  /\ queue = <<>> /\ queueFile = <<>>
  /\ db = [s \in Sessions |-> 0] /\ dbUp = TRUE /\ connected = FALSE
  /\ pc = "down" /\ flushing = FALSE
  /\ pending = None /\ sending = None /\ nats = None
  /\ latest = [s \in Sessions |-> 0] /\ rejected = {} /\ budget = FaultBudget

-----------------------------------------------------------------------------
(* Startup and loss of the process.                                        *)

\* Variant: the startup neither records nor publishes the restored state.
BootQuiet ==
  /\ pc = "down"
  /\ state' = file /\ queue' = queueFile /\ connected' = dbUp
  /\ pc' = "idle"
  /\ UNCHANGED <<issued, prior, disk, db, dbUp, flushing, publisher, history, budget>>

\* run_service up to connect_once: the state file and the queue are loaded.
Boot ==
  /\ pc = "down"
  /\ state' = file /\ queue' = queueFile /\ connected' = dbUp
  /\ pc' = IF file = None THEN "idle" ELSE "bootRecord"
  /\ UNCHANGED <<issued, prior, disk, db, dbUp, flushing, publisher, history, budget>>

Vanish ==
  /\ pc' = "down" /\ state' = None /\ prior' = None /\ queue' = <<>>
  /\ connected' = FALSE /\ flushing' = FALSE /\ pending' = None /\ sending' = None
  /\ UNCHANGED <<issued, disk, dbUp, nats, history>>

Crash == pc # "down" /\ Spend({"crash"}) /\ Vanish /\ UNCHANGED db

-----------------------------------------------------------------------------
(* SessionController.act up to the call of database.record.                *)

\* The snapshots an action may make of the state: a start opens a session, a
\* driver change or an amended stint leaves it active, an end closes it.
Outcomes ==
  IF state.status = "active"
    THEN {[sess |-> state.sess, ver |-> issued + 1, status |-> st] :
            st \in {"active", "ended"}}
    ELSE {[sess |-> issued + 1, ver |-> issued + 1, status |-> "active"]}

\* Variant: the state is saved before the action is applied to it.
ActSavesPrior ==
  /\ pc = "idle" /\ issued < MaxActs
  /\ issued' = issued + 1
  /\ state' \in Outcomes /\ prior' = state /\ file' = state /\ pc' = "record"
  /\ UNCHANGED <<queue, queueFile, db, dbUp, connected, flushing, publisher,
                 history, budget>>

Act ==
  /\ pc = "idle" /\ issued < MaxActs
  /\ issued' = issued + 1
  /\ state' \in Outcomes /\ prior' = state /\ file' = state' /\ pc' = "record"
  /\ UNCHANGED <<queue, queueFile, db, dbUp, connected, flushing, publisher,
                 history, budget>>

\* The state file cannot be written: the action is refused, nothing has changed.
ActUnsavable ==
  /\ pc = "idle" /\ issued < MaxActs /\ Spend({"stateFile"})
  /\ issued' = issued + 1 /\ rejected' = rejected \cup {issued + 1}
  /\ UNCHANGED <<state, prior, disk, queue, db, dbUp, connected, pc, flushing,
                 publisher, latest>>

-----------------------------------------------------------------------------
(* SessionDatabase.record, and what the caller does with its outcome.      *)

Recording == pc \in {"record", "bootRecord"} /\ ~flushing

\* Recorded or queued: publisher.submit, and the action or the startup is over.
Submit ==
  /\ pc' = "idle" /\ prior' = None /\ pending' = state
  /\ latest' = [latest EXCEPT ![state.sess] = state.ver]

\* An exception in an action: the prior state is restored and saved, and that
\* save may fail as well.
RollBack(faults) ==
  /\ pc' = "idle" /\ state' = prior /\ prior' = None
  /\ \/ Spend(faults) /\ file' = prior /\ rejected' = rejected \cup {state.ver}
     \/ Spend(faults \cup {"stateFile"}) /\ UNCHANGED <<file, rejected>>
  /\ UNCHANGED <<issued, queue, queueFile, dbUp, flushing, publisher, latest>>

\* During startup an exception ends the process.
Fail(faults) == IF Booting THEN Vanish /\ Spend(faults) ELSE RollBack(faults)

RecordCommits ==
  /\ Recording /\ connected /\ dbUp
  /\ Write(state) /\ pc' = IF Booting THEN "bootSettle" ELSE "settle"
  /\ UNCHANGED <<issued, state, prior, disk, queue, dbUp, connected, flushing,
                 publisher, history, budget>>

\* Variant: an older queued snapshot of the session is left in the queue.
RecordSettlesKeeps ==
  /\ pc \in {"settle", "bootSettle"} /\ Submit
  /\ UNCHANGED <<issued, state, file, queue, queueFile, db, dbUp, connected,
                 flushing, sending, nats, rejected, budget>>

\* Committed: an older snapshot of the session leaves the queue.  When the
\* queue cannot be written it is put back, at the end.
RecordSettles ==
  /\ pc \in {"settle", "bootSettle"} /\ Submit
  /\ \/ ~Queued(queue, state.sess) /\ UNCHANGED <<queue, queueFile, budget>>
     \/ /\ Queued(queue, state.sess) /\ queue' = Without(queue, state.sess)
        /\ queueFile' = queue' /\ UNCHANGED budget
     \/ /\ Queued(queue, state.sess) /\ Spend({"queueFile"})
        /\ queue' = Append(Without(queue, state.sess), queue[Place(queue, state.sess)])
        /\ UNCHANGED queueFile
  /\ UNCHANGED <<issued, state, file, db, dbUp, connected, flushing, sending,
                 nats, rejected>>

\* The write cannot be made now; or the connection dies under it, and the
\* transaction has committed although the service does not learn of it.
Unwritable(lost) ==
  \/ lost = {} /\ ~(connected /\ dbUp) /\ UNCHANGED db
  \/ lost = {"reply"} /\ connected /\ dbUp /\ Write(state)

\* Variant: the retry queue is kept in memory only.
RecordQueuesVolatile ==
  /\ Recording /\ Submit
  /\ \E lost \in SUBSET {"reply"} : Unwritable(lost) /\ Spend(lost)
  /\ queue' = Put(queue, state) /\ connected' = FALSE
  /\ UNCHANGED <<issued, state, disk, dbUp, flushing, sending, nats, rejected>>

\* Deferred: the snapshot is in the retry queue, which is on disk.
RecordQueues ==
  /\ Recording /\ Submit
  /\ \E lost \in SUBSET {"reply"} : Unwritable(lost) /\ Spend(lost)
  /\ queue' = Put(queue, state) /\ queueFile' = queue' /\ connected' = FALSE
  /\ UNCHANGED <<issued, state, file, dbUp, flushing, sending, nats, rejected>>

\* The retry queue cannot be written either, and keeps what it held.
RecordUnqueuable ==
  /\ Recording /\ connected' = FALSE
  /\ \E lost \in SUBSET {"reply"} : Unwritable(lost) /\ Fail(lost \cup {"queueFile"})

\* Variant: a refused snapshot is not rolled back.
RecordRejectedKeeps ==
  /\ Recording /\ connected /\ dbUp /\ Spend({"reject"})
  /\ pc' = IF Booting THEN "down" ELSE "idle"
  /\ prior' = None /\ rejected' = rejected \cup {state.ver}
  /\ UNCHANGED <<issued, state, disk, queue, db, dbUp, connected, flushing,
                 publisher, latest>>

\* The database refuses the snapshot for good: any other exception.
RecordRejected ==
  /\ Recording /\ connected /\ dbUp
  /\ Fail({"reject"}) /\ UNCHANGED db /\ (Booting \/ UNCHANGED connected)

\* The HTTP thread gives up after five seconds and cancels the action: no
\* handler runs, the state and its file stay as they are.
Cancel ==
  /\ pc \in {"record", "settle"} /\ Spend({"cancel"})
  /\ pc' = "idle" /\ prior' = None
  /\ UNCHANGED <<issued, state, disk, queue, db, dbUp, connected, flushing,
                 publisher, history>>

-----------------------------------------------------------------------------
(* SessionDatabase.run: reconnect, and drain the queue one entry at a time. *)

Connect ==
  /\ Running /\ LockFree /\ ~connected /\ dbUp /\ connected' = TRUE
  /\ UNCHANGED <<issued, state, prior, disk, queue, db, dbUp, pc, flushing,
                 publisher, history, budget>>

FlushCommits ==
  /\ Running /\ LockFree /\ connected /\ dbUp /\ queue # <<>>
  /\ Write(Head(queue)) /\ flushing' = TRUE
  /\ UNCHANGED <<issued, state, prior, disk, queue, dbUp, connected, pc,
                 publisher, history, budget>>

\* The entry leaves the queue, or goes back to its end if that is not saved.
FlushSettles ==
  /\ flushing /\ flushing' = FALSE
  /\ \/ queue' = Tail(queue) /\ queueFile' = queue' /\ UNCHANGED budget
     \/ /\ queue' = Append(Tail(queue), Head(queue)) /\ Spend({"queueFile"})
        /\ UNCHANGED queueFile
  /\ UNCHANGED <<issued, state, prior, file, db, dbUp, connected, pc, publisher, history>>

\* The write fails, or its commit is not answered: the entry stays.
FlushFails ==
  /\ Running /\ LockFree /\ connected /\ queue # <<>> /\ connected' = FALSE
  /\ \/ ~dbUp /\ UNCHANGED <<db, budget>>
     \/ dbUp /\ Write(Head(queue)) /\ Spend({"reply"})
  /\ UNCHANGED <<issued, state, prior, disk, queue, dbUp, pc, flushing, publisher, history>>

\* The database refuses the entry: the task fails, and with it the service.
FlushRejected ==
  /\ Running /\ LockFree /\ connected /\ dbUp /\ queue # <<>>
  /\ Spend({"reject"}) /\ Vanish /\ UNCHANGED db

DbDown == /\ dbUp /\ Spend({"outage"}) /\ dbUp' = FALSE
          /\ UNCHANGED <<issued, state, prior, disk, queue, db, connected, pc,
                         flushing, publisher, history>>

DbUp == /\ ~dbUp /\ dbUp' = TRUE
        /\ UNCHANGED <<issued, state, prior, disk, queue, db, connected, pc,
                       flushing, publisher, history, budget>>

-----------------------------------------------------------------------------
(* LatestSessionPublisher._publish_loop.                                   *)

control == <<issued, state, prior, disk, queue, db, dbUp, connected, pc, flushing, history>>

Send ==
  /\ Running /\ sending = None /\ pending # None /\ sending' = pending
  /\ UNCHANGED <<control, pending, nats, budget>>

\* Variant: whatever is pending is taken for the payload just published.
SentForgets ==
  /\ sending # None /\ nats' = sending /\ sending' = None
  /\ pending' = None
  /\ UNCHANGED <<control, budget>>

\* Published; a payload submitted meanwhile stays pending.
Sent ==
  /\ sending # None /\ nats' = sending /\ sending' = None
  /\ pending' = IF pending = sending THEN None ELSE pending
  /\ UNCHANGED <<control, budget>>

\* The publish fails or is not answered in time, and may have arrived.
SendFails ==
  /\ sending # None /\ Spend({"link"}) /\ nats' \in {nats, sending} /\ sending' = None
  /\ UNCHANGED <<control, pending>>

-----------------------------------------------------------------------------
Record == RecordCommits \/ RecordSettles \/ RecordQueues
Database == Connect \/ FlushCommits \/ FlushSettles
Fault == \/ Crash \/ ActUnsavable \/ RecordUnqueuable \/ RecordRejected \/ Cancel
         \/ FlushFails \/ FlushRejected \/ DbDown \/ SendFails

Next == Boot \/ Act \/ Record \/ Database \/ Send \/ Sent \/ DbUp \/ Fault

Spec == Init /\ [][Next]_vars

\* The three tasks of the event loop run, a supervisor restarts the service, and
\* the database comes back.  Operators need not act.
Fairness == /\ WF_vars(Boot) /\ WF_vars(Record) /\ WF_vars(FlushFails)
            /\ SF_vars(Connect) /\ SF_vars(FlushCommits) /\ WF_vars(FlushSettles)
            /\ WF_vars(Send) /\ WF_vars(Sent) /\ WF_vars(DbUp)

FairSpec == Spec /\ Fairness

-----------------------------------------------------------------------------
(* Properties.                                                             *)

\* Every variable has the type the code gives it.
TypeOK ==
  /\ issued \in 0..MaxActs
  /\ {state, prior, file, pending, sending, nats} \subseteq Snapshot \cup {None}
  /\ queue \in Seq(Snapshot) /\ queueFile \in Seq(Snapshot)
  /\ db \in [Sessions -> 0..MaxActs] /\ latest \in [Sessions -> 0..MaxActs]
  /\ dbUp \in BOOLEAN /\ connected \in BOOLEAN /\ flushing \in BOOLEAN
  /\ pc \in Places /\ rejected \subseteq 1..MaxActs
  /\ budget \in [FaultKinds -> Nat]

Spent(fault) == budget[fault] < FaultBudget[fault]

\* What the database will hold of session s once the queue q is drained.
Settled(q, s) ==
  IF Queued(q, s) THEN q[Place(q, s)].ver ELSE db[s]

\* Between actions the database holds, or the retry queue will bring it to, the
\* current snapshot of the current session and the last one of every earlier
\* session; what is on disk is enough for the earlier ones at any time.  This is
\* so as long as the retry queue can be written and no action is cancelled.
Recorded ==
  ~Spent("queueFile") /\ ~Spent("cancel") =>
  /\ pc = "idle" /\ state # None => Settled(queue, state.sess) = state.ver
  /\ \A s \in Sessions : latest[s] > 0 /\ s # file.sess => Settled(queueFile, s) = latest[s]

\* Whatever the vehicle was told is in the database or durably queued for it, as
\* long as the retry queue can be written.
PublishedIsRecorded ==
  ~Spent("queueFile") /\ nats # None =>
    Settled(queueFile, nats.sess) >= nats.ver \/ db[nats.sess] >= nats.ver

\* An action that was refused and rolled back never reaches the vehicle; nor the
\* database, unless its write had committed unanswered and could not be queued.
RefusedHasNoEffect ==
  /\ nats.ver \notin rejected
  /\ ~(Spent("reply") /\ Spent("queueFile")) =>
       \A s \in Sessions : db[s] \notin rejected

\* "Every state change publishes the payload": when the publisher has nothing
\* left to send, the vehicle has been told the state the operator sees.
EveryChangePublished ==
  pc = "idle" /\ pending = None /\ sending = None => nats = state

\* So it is as long as no action is cancelled, whatever was submitted while an
\* earlier payload was under way and whatever the startup found on disk.
QuietIsPublished == ~Spent("cancel") => EveryChangePublished

\* The vehicle is never told an older state after a newer one.
NatsInOrder == [][nats'.ver >= nats.ver]_vars

\* Once the faults are over, the database holds the last snapshot of every
\* session, the queue is empty and the vehicle knows the current state (again as
\* long as the retry queue can be written and no action is cancelled).
Converges ==
  <>[](~Spent("queueFile") /\ ~Spent("cancel") =>
         /\ \A s \in Sessions : db[s] = latest[s]
         /\ queueFile = <<>> /\ nats = state)

\* "The DB commit is durable. Retaining this snapshot only causes a harmless
\* idempotent replay later": with the queue drained, the rows of the current
\* session are those of the current state.
ReplayIsHarmless ==
  pc = "idle" /\ ~flushing /\ queue = <<>> /\ state # None => db[state.sess] = state.ver

-----------------------------------------------------------------------------
(* Fault budgets of the instances that are model-checked.                  *)

Budget(faults) == [k \in FaultKinds |-> IF k \in faults THEN 1 ELSE 0]
MCAll == Budget(FaultKinds)
MCQueueFile == Budget({"outage", "queueFile"})
MCCancel == Budget({"cancel"})

=============================================================================
