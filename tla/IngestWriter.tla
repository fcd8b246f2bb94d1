---------------------------- MODULE IngestWriter ----------------------------
(***************************************************************************)
(* The pit's ingest-writer (src/src/pit/ingest_writer/writer.py): a        *)
(* durable JetStream pull consumer that decodes batches and commits their  *)
(* rows, together with the cursor, to TimescaleDB.                         *)
(*                                                                         *)
(* A message is known by its stream sequence number.  One batch stands for *)
(* its rows, so the buffered rows, the pending messages and the set of     *)
(* buffered sequences of the code are one set here.  The stream and its    *)
(* consumer, and the database, are external: only what the writer relies   *)
(* on is modelled.  Faults are spent from a budget, so that every run      *)
(* says which of them, and how many, it allows.                            *)
(***************************************************************************)
EXTENDS Integers, Sequences, FiniteSets

CONSTANTS Gens,             \* registry generations (registry_seq), positive
          MaxBatches,       \* bound: messages on the stream that are no registry
          FetchBatch,       \* settings.fetch_batch
          MaxAckPending,    \* settings.max_ack_pending
          BatchRows,        \* settings.batch_rows, in batches
          MaxBufferedRows,  \* settings.max_buffered_rows, in batches
          FaultBudget,      \* bound: how often each fault may happen
          MaxFaults         \* bound: how many kinds of fault in one behaviour

FaultKinds == {"restart", "outage", "fetch", "reject", "reply", "ack", "expire"}

ASSUME GensAssumption == Gens \subseteq (Nat \ {0}) /\ Gens # {}
ASSUME BoundsAssumption ==
  /\ MaxBatches \in Nat
  /\ FetchBatch \in Nat \ {0}
  /\ MaxAckPending \in Nat \ {0}
  /\ BatchRows \in Nat \ {0}
  /\ MaxBufferedRows \in Nat \ {0}
ASSUME FaultAssumption == FaultBudget \in [FaultKinds -> Nat] /\ MaxFaults \in Nat

VARIABLES
  stream,     \* the sourced stream: message n is stream[n]
  nextSeq,    \* the consumer's next sequence never delivered so far
  unacked,    \* delivered, not acknowledged
  expired,    \* of those, the ones whose ack_wait has run out
  rows,       \* sequences whose rows the database holds
  twice,      \* sequences whose rows it holds more than once
  dbCursor,   \* ingest_cursor.stream_seq
  dbUp,       \* the database can be reached
  pc,         \* where the writer's task is
  after,      \* where _flush returns to
  stopping,   \* the stop event
  known,      \* generations in the registry cache
  messages,   \* the fetch in hand, or what a barrier holds of it (_held)
  buffered,   \* _rows, _pending and _buffered
  cursor,     \* _cursor
  maxSeq,     \* _max_seq
  dropped,    \* history: sequences of flushes the database rejected
  exposed,    \* history: uncommitted sequences the process lost hold of
  budget      \* faults left

server == <<stream, nextSeq, unacked, expired>>
database == <<rows, twice, dbCursor>>
memory == <<known, messages, buffered, cursor, maxSeq>>
control == <<pc, after, stopping>>
vars == <<stream, nextSeq, unacked, expired, rows, twice, dbCursor, dbUp, pc,
          after, stopping, known, messages, buffered, cursor, maxSeq, dropped,
          exposed, budget>>

Message == [kind : {"registry", "batch"}, gen : Gens] \cup [kind : {"poison"}, gen : {0}]

Places == {"down", "consume", "fetch", "handle", "flush", "acking",
           "reconnect", "recover", "exit"}

Larger(a, b) == IF a >= b THEN a ELSE b
InHand == {messages[i] : i \in 1..Len(messages)}

\* A batch this build can decode once its generation is known.
Good(n) == n \in 1..Len(stream) /\ stream[n].kind = "batch"

Offered == {stream[n].gen : n \in {m \in 1..Len(stream) : stream[m].kind = "registry"}}

Spend(fault) == /\ budget[fault] > 0
                /\ Cardinality({k \in FaultKinds \ {fault} : budget[k] < FaultBudget[k]}) < MaxFaults
                /\ budget' = [budget EXCEPT ![fault] = @ - 1]

-----------------------------------------------------------------------------
(* The stream, its consumer and the database: external.                    *)

Init ==
  /\ stream = <<>> /\ nextSeq = 1 /\ unacked = {} /\ expired = {}
  /\ rows = {} /\ twice = {} /\ dbCursor = 0 /\ dbUp = TRUE
  /\ pc = "down" /\ after = "consume" /\ stopping = FALSE
  /\ known = {} /\ messages = <<>> /\ buffered = {} /\ cursor = 0 /\ maxSeq = 0
  /\ dropped = {} /\ exposed = {} /\ budget = FaultBudget

Source(m) ==
  /\ stream' = Append(stream, m)
  /\ UNCHANGED <<nextSeq, unacked, expired, database, dbUp, control, memory,
                 dropped, exposed, budget>>

SourceBatch ==
  /\ Cardinality({n \in 1..Len(stream) : stream[n].kind # "registry"}) < MaxBatches
  /\ \/ Source([kind |-> "poison", gen |-> 0])
     \/ \E g \in Gens : Source([kind |-> "batch", gen |-> g])

\* The agent republishes its registry on an interval; one copy is enough here.
SourceRegistry(g) == g \notin Offered /\ Source([kind |-> "registry", gen |-> g])

\* The server answers a standing pull request: expired messages first, then
\* the next new one while max_ack_pending allows.
Deliver ==
  /\ pc = "fetch" /\ Len(messages) < FetchBatch
  /\ \/ /\ \E n \in expired : /\ messages' = Append(messages, n)
                              /\ expired' = expired \ {n}
        /\ UNCHANGED <<nextSeq, unacked>>
     \/ /\ expired = {} /\ nextSeq <= Len(stream)
        /\ Cardinality(unacked) < MaxAckPending
        /\ messages' = Append(messages, nextSeq)
        /\ nextSeq' = nextSeq + 1
        /\ unacked' = unacked \cup {nextSeq}
        /\ UNCHANGED expired
  /\ UNCHANGED <<stream, database, dbUp, control, known, buffered, cursor,
                 maxSeq, dropped, exposed, budget>>

\* The awaits that can outlast ack_wait: the database, or a missing registry.
Waiting == \/ pc \in {"flush", "acking", "reconnect", "recover"}
           \/ /\ pc = "handle" /\ ~dbUp /\ messages # <<>>
              /\ stream[Head(messages)].kind = "registry"

\* ack_wait runs out on a message that is still unacknowledged.  What a dead
\* process held always expires in the end; while it is held it takes a long wait.
Expire(n) ==
  /\ n \in unacked \ expired
  /\ \/ n \notin buffered \cup InHand /\ UNCHANGED budget
     \/ n \in buffered \cup InHand /\ Waiting /\ Spend("expire")
  /\ expired' = expired \cup {n}
  /\ UNCHANGED <<stream, nextSeq, unacked, database, dbUp, control, memory,
                 dropped, exposed>>

DbDown == /\ dbUp /\ Spend("outage") /\ dbUp' = FALSE
          /\ UNCHANGED <<server, database, control, memory, dropped, exposed>>

DbUp == /\ ~dbUp /\ dbUp' = TRUE
        /\ UNCHANGED <<server, database, control, memory, dropped, exposed, budget>>

\* Variant: an acknowledged message stays due for redelivery.
AckLeavesExpiry(S) ==
  \E T \in SUBSET S :
     /\ unacked' = unacked \ T /\ UNCHANGED expired
     /\ IF T = S THEN UNCHANGED budget ELSE Spend("ack")

\* Acknowledgements, some of which may be lost on the way (_ack swallows that).
Ack(S) ==
  \E T \in SUBSET S :
     /\ unacked' = unacked \ T /\ expired' = expired \ T
     /\ IF T = S THEN UNCHANGED budget ELSE Spend("ack")

-----------------------------------------------------------------------------
(* The life of the process.                                                *)

\* Variant: the cursor is not read back.
StartForgetsCursor ==
  /\ pc = "down" /\ dbUp
  /\ pc' = "consume" /\ stopping' = FALSE
  /\ cursor' = 0 /\ maxSeq' = dbCursor /\ known' = Offered
  /\ UNCHANGED <<server, database, dbUp, after, messages, buffered, dropped,
                 exposed, budget>>

\* run(): the cursor is read back, the registry subject is scanned.
Start ==
  /\ pc = "down" /\ dbUp
  /\ pc' = "consume" /\ stopping' = FALSE
  /\ cursor' = dbCursor /\ maxSeq' = dbCursor /\ known' = Offered
  /\ UNCHANGED <<server, database, dbUp, after, messages, buffered, dropped,
                 exposed, budget>>

\* The process is gone, and with it whatever it held and had not committed.
Vanish ==
  /\ pc' = "down" /\ known' = {} /\ messages' = <<>> /\ buffered' = {}
  /\ cursor' = 0 /\ maxSeq' = 0
  /\ exposed' = exposed \cup ((buffered \cup InHand) \ rows)

Crash ==
  /\ pc # "down" /\ Spend("restart") /\ Vanish
  /\ UNCHANGED <<server, database, dbUp, after, stopping, dropped>>

\* run() returns after the last flush, whether or not that flush landed.
Exit ==
  /\ pc = "exit" /\ Vanish
  /\ UNCHANGED <<server, database, dbUp, after, stopping, dropped, budget>>

RequestStop ==
  /\ pc # "down" /\ ~stopping /\ Spend("restart") /\ stopping' = TRUE
  /\ UNCHANGED <<server, database, dbUp, pc, after, memory, dropped, exposed>>

-----------------------------------------------------------------------------
(* _consume: held messages first, then a pause while the buffer is full,   *)
(* then a fetch.                                                           *)

Goto(place) == pc' = place /\ UNCHANGED <<after, stopping>>
CallFlush(return) == pc' = "flush" /\ after' = return /\ UNCHANGED stopping

TakeHeld ==
  /\ pc = "consume" /\ ~stopping /\ messages # <<>>
  /\ Goto("handle")
  /\ UNCHANGED <<server, database, dbUp, memory, dropped, exposed, budget>>

Pause ==
  /\ pc = "consume" /\ ~stopping /\ messages = <<>>
  /\ Cardinality(buffered) >= MaxBufferedRows
  /\ CallFlush("consume")
  /\ UNCHANGED <<server, database, dbUp, memory, dropped, exposed, budget>>

\* Variant: fetching goes on although the buffer is full.
BeginFetchUnpaused ==
  /\ pc = "consume" /\ ~stopping /\ messages = <<>>
  /\ Goto("fetch")
  /\ UNCHANGED <<server, database, dbUp, memory, dropped, exposed, budget>>

BeginFetch ==
  /\ pc = "consume" /\ ~stopping /\ messages = <<>>
  /\ Cardinality(buffered) < MaxBufferedRows
  /\ Goto("fetch")
  /\ UNCHANGED <<server, database, dbUp, memory, dropped, exposed, budget>>

\* The fetch is full, or its timeout has passed with any number of messages.
FetchReturns ==
  /\ pc = "fetch" /\ Goto("handle")
  /\ UNCHANGED <<server, database, dbUp, memory, dropped, exposed, budget>>

\* The fetch raises: what was delivered to it is gone with the subscription.
FetchFails ==
  /\ pc = "fetch" /\ Spend("fetch") /\ Goto("consume")
  /\ messages' = <<>>
  /\ exposed' = exposed \cup ((InHand \ rows) \ buffered)
  /\ UNCHANGED <<server, database, dbUp, known, buffered, cursor, maxSeq, dropped>>

\* The end of a pass: flush when enough is buffered or the interval has passed.
PassFlushes ==
  /\ pc = "handle" /\ messages = <<>> /\ CallFlush("consume")
  /\ UNCHANGED <<server, database, dbUp, memory, dropped, exposed, budget>>

PassContinues ==
  /\ pc = "handle" /\ messages = <<>> /\ Cardinality(buffered) < BatchRows
  /\ Goto("consume")
  /\ UNCHANGED <<server, database, dbUp, memory, dropped, exposed, budget>>

FinalFlush ==
  /\ pc = "consume" /\ stopping /\ CallFlush("exit")
  /\ UNCHANGED <<server, database, dbUp, memory, dropped, exposed, budget>>

-----------------------------------------------------------------------------
(* _handle: one message of the fetch.                                      *)

Handling == pc = "handle" /\ messages # <<>>

\* Already committed, or already in the buffer: acknowledged and skipped.
Skip ==
  /\ Handling
  /\ Head(messages) <= cursor \/ Head(messages) \in buffered
  /\ Ack({Head(messages)}) /\ messages' = Tail(messages)
  /\ UNCHANGED <<stream, nextSeq, database, dbUp, control, known, buffered,
                 cursor, maxSeq, dropped, exposed>>

Fresh(kind) == /\ Handling
               /\ Head(messages) > cursor /\ Head(messages) \notin buffered
               /\ stream[Head(messages)].kind = kind

\* _apply_registry retries until the generation is recorded, or until a stop:
\* then the message is acknowledged all the same.
HandleRegistry ==
  /\ Fresh("registry")
  /\ \/ dbUp /\ known' = known \cup {stream[Head(messages)].gen}
     \/ ~dbUp /\ stopping /\ UNCHANGED known
  /\ Ack({Head(messages)}) /\ messages' = Tail(messages)
  /\ UNCHANGED <<stream, nextSeq, database, dbUp, control, buffered, cursor,
                 maxSeq, dropped, exposed>>

\* An unknown format_version is acknowledged and the position moves past it.
HandlePoison ==
  /\ Fresh("poison")
  /\ Ack({Head(messages)}) /\ messages' = Tail(messages)
  /\ maxSeq' = Larger(maxSeq, Head(messages))
  /\ UNCHANGED <<stream, nextSeq, database, dbUp, control, known, buffered,
                 cursor, dropped, exposed>>

HandleBatch ==
  /\ Fresh("batch") /\ stream[Head(messages)].gen \in known
  /\ messages' = Tail(messages)
  /\ buffered' = buffered \cup {Head(messages)}
  /\ maxSeq' = Larger(maxSeq, Head(messages))
  /\ UNCHANGED <<server, database, dbUp, control, known, cursor, dropped,
                 exposed, budget>>

\* Variant: an undecodable batch is passed over and left unacknowledged.
BarrierSkips ==
  /\ Fresh("batch") /\ stream[Head(messages)].gen \notin known
  /\ messages' = Tail(messages)
  /\ UNCHANGED <<server, database, dbUp, control, known, buffered, cursor, maxSeq,
                 dropped, exposed, budget>>

\* Variant: an undecodable batch is treated like an unknown format.
BarrierDrops ==
  /\ Fresh("batch") /\ stream[Head(messages)].gen \notin known
  /\ Ack({Head(messages)}) /\ messages' = Tail(messages)
  /\ UNCHANGED <<stream, nextSeq, database, dbUp, control, known, buffered,
                 cursor, maxSeq, dropped, exposed>>

\* Variant: the position moves to the batch the barrier holds.
BarrierMovesPosition ==
  /\ Fresh("batch") /\ stream[Head(messages)].gen \notin known
  /\ CallFlush("recover") /\ maxSeq' = Larger(maxSeq, Head(messages))
  /\ UNCHANGED <<server, database, dbUp, known, messages, buffered, cursor,
                 dropped, exposed, budget>>

\* An unknown generation: this message and the rest of the fetch are held,
\* everything ahead of it is flushed, then the registry is looked for.
Barrier ==
  /\ Fresh("batch") /\ stream[Head(messages)].gen \notin known
  /\ CallFlush("recover")
  /\ UNCHANGED <<server, database, dbUp, memory, dropped, exposed, budget>>

\* Variant: waits for the registry to come by on the durable consumer.
RecoverWaits ==
  /\ pc = "recover" /\ Goto("consume")
  /\ UNCHANGED <<server, database, dbUp, memory, dropped, exposed, budget>>

\* _recover_registry: a scan of the registry subject, whatever it finds.
Recover ==
  /\ pc = "recover" /\ Goto("consume")
  /\ \/ dbUp /\ known' = known \cup Offered
     \/ ~dbUp /\ stopping /\ UNCHANGED known
  /\ UNCHANGED <<server, database, dbUp, messages, buffered, cursor, maxSeq,
                 dropped, exposed, budget>>

-----------------------------------------------------------------------------
(* _flush: one transaction for the rows and the cursor, then the acks.     *)

PendingWork == buffered # {} \/ maxSeq > cursor

FlushNothing ==
  /\ pc = "flush" /\ ~PendingWork
  /\ Goto(after)
  /\ UNCHANGED <<server, database, dbUp, memory, dropped, exposed, budget>>

\* store.flush commits the buffered rows and, if it is larger, the cursor.
Commit ==
  /\ rows' = rows \cup buffered
  /\ twice' = twice \cup (rows \cap buffered)
  /\ dbCursor' = Larger(dbCursor, maxSeq)

\* Committed, with the lap rows or, when the schema refuses those, without.
FlushCommits ==
  /\ pc = "flush" /\ PendingWork /\ dbUp
  /\ Commit /\ cursor' = Larger(cursor, maxSeq) /\ Goto("acking")
  /\ UNCHANGED <<server, dbUp, known, messages, buffered, maxSeq, dropped,
                 exposed, budget>>

\* Variant: an outage is taken for a refusal.
FlushFailsDrops ==
  /\ pc = "flush" /\ PendingWork /\ ~dbUp
  /\ cursor' = Larger(cursor, maxSeq) /\ buffered' = {} /\ Goto("reconnect")
  /\ UNCHANGED <<server, database, dbUp, known, messages, maxSeq, dropped, exposed,
                 budget>>

\* An OperationalError before the commit: everything is kept.
FlushFails ==
  /\ pc = "flush" /\ PendingWork /\ ~dbUp
  /\ Goto("reconnect")
  /\ UNCHANGED <<server, database, dbUp, memory, dropped, exposed, budget>>

\* The connection dies after the server committed and before its answer
\* arrives: the writer sees the same OperationalError and keeps everything.
FlushUnanswered ==
  /\ pc = "flush" /\ PendingWork /\ dbUp /\ Spend("reply")
  /\ Commit /\ Goto("reconnect")
  /\ UNCHANGED <<server, dbUp, memory, dropped, exposed>>

\* The database refuses the rows twice: the flush is given up, in memory only.
FlushRejected ==
  /\ pc = "flush" /\ PendingWork /\ dbUp /\ Spend("reject")
  /\ dropped' = dropped \cup buffered
  /\ cursor' = Larger(cursor, maxSeq) /\ Goto("acking")
  /\ UNCHANGED <<server, database, dbUp, known, messages, buffered, maxSeq, exposed>>

\* The acks of a flush that is over, then _discard.
AckFlushed ==
  /\ pc = "acking" /\ Goto(after)
  /\ Ack(buffered) /\ buffered' = {}
  /\ UNCHANGED <<stream, nextSeq, database, dbUp, known, messages, cursor,
                 maxSeq, dropped, exposed>>

\* _reconnect_db: until the database answers, or a stop.
Reconnect ==
  /\ pc = "reconnect" /\ (dbUp \/ stopping) /\ Goto(after)
  /\ UNCHANGED <<server, database, dbUp, memory, dropped, exposed, budget>>

-----------------------------------------------------------------------------
Consume == \/ TakeHeld \/ Pause \/ BeginFetch \/ FetchReturns
           \/ PassFlushes \/ PassContinues \/ FinalFlush
Handle == Skip \/ HandleRegistry \/ HandlePoison \/ HandleBatch \/ Barrier
Flush == FlushNothing \/ FlushCommits \/ FlushFails \/ AckFlushed \/ Reconnect
Writer == Start \/ Exit \/ Consume \/ Handle \/ Recover \/ Flush
Fault == Crash \/ RequestStop \/ FetchFails \/ FlushUnanswered \/ FlushRejected \/ DbDown

Next ==
  \/ SourceBatch \/ (\E g \in Gens : SourceRegistry(g))
  \/ Deliver \/ (\E n \in unacked : Expire(n)) \/ DbUp
  \/ Writer \/ Fault

Spec == Init /\ [][Next]_vars

\* The writer's task runs whenever it can, the database comes back, the agent
\* republishes its registry, ack_wait runs out on what a dead process held, the
\* flush interval passes, and a standing pull request is answered in the end
\* although any one fetch may time out.
Fairness ==
  /\ WF_vars(Writer) /\ WF_vars(DbUp)
  /\ \A g \in Gens : WF_vars(SourceRegistry(g))
  /\ WF_vars(\E n \in unacked : Expire(n)) /\ SF_vars(Deliver)
  /\ SF_vars(PassFlushes)

FairSpec == Spec /\ Fairness

-----------------------------------------------------------------------------
(* Properties.                                                             *)

\* Every variable has the type the code gives it.
TypeOK ==
  /\ stream \in Seq(Message) /\ nextSeq \in Nat \ {0}
  /\ unacked \subseteq Nat \ {0} /\ expired \subseteq unacked
  /\ rows \subseteq Nat \ {0} /\ twice \subseteq rows /\ dbCursor \in Nat
  /\ dbUp \in BOOLEAN /\ pc \in Places
  /\ after \in {"consume", "recover", "exit"} /\ stopping \in BOOLEAN
  /\ known \subseteq Gens /\ messages \in Seq(Nat \ {0})
  /\ buffered \subseteq Nat \ {0} /\ cursor \in Nat /\ maxSeq \in Nat
  /\ dropped \subseteq Nat \ {0} /\ exposed \subseteq Nat \ {0}
  /\ budget \in [FaultKinds -> Nat]

\* As long as every commit is answered, no batch's rows are written twice, not
\* even across crashes, redelivery and lost acks: the cursor is read back and
\* skips what is committed, the buffer recognises what is in flight.
NoDuplicateRows == budget["reply"] = FaultBudget["reply"] => twice = {}

\* A batch at or below the committed cursor is in the database, unless its
\* flush was rejected or the process lost hold of it (crash, stop with held
\* messages, dead subscription) before it was committed.
LossOnlyIfExposed ==
  \A n \in 1..dbCursor : Good(n) => n \in rows \cup dropped \cup exposed

\* A delivered batch the server will not redeliver any more is in the
\* database, in the buffer, given up, or was lost by a process that held it.
SettledIsSafe ==
  \A n \in 1..(nextSeq - 1) :
     Good(n) /\ n \notin unacked => n \in rows \cup buffered \cup dropped \cup exposed

\* The cursor never advances past the batch a barrier is holding, unless that
\* batch had been in the hands of a process that lost it.
HeldNotPassed ==
  pc = "recover" => \/ Head(messages) > dbCursor
                    \/ Head(messages) \in exposed

\* The pause keeps the buffer within one fetch of max_buffered_rows.
BufferBounded == Cardinality(buffered) < MaxBufferedRows + FetchBatch

\* Every batch on the stream is passed by the committed cursor in the end:
\* neither a barrier, an outage, a pause nor lost acks wedge the writer.
EventuallyIngested ==
  \A n \in 1..(MaxBatches + Cardinality(Gens)) :
     Good(n) ~> (n <= dbCursor \/ n \in exposed \cup dropped)

\* The writer implements the archive: its commits add rows in windows above the
\* cursor, and leave out only rejected batches and the ones a process lost.
Archive == INSTANCE IngestArchive WITH
             batches <- {n \in 1..Len(stream) : stream[n].kind = "batch"},
             cursor <- dbCursor, excused <- dropped \cup exposed
ArchiveSpec == Archive!Spec

\* "restarting resumes from `ingest_cursor`, and that costs nothing": every
\* batch the cursor has passed is archived or was rejected.
NoGap == \A n \in 1..dbCursor : Good(n) => n \in rows \cup dropped

-----------------------------------------------------------------------------
(* Fault budgets of the instances that are model-checked.                  *)

Budget(faults) == [k \in FaultKinds |-> IF k \in faults THEN 1 ELSE 0]
MCAll == Budget(FaultKinds)

\* The process dies or is stopped, the database goes away, ack_wait runs out.
MCCrash == Budget({"restart", "outage", "expire"})

MCRestart == Budget({"restart"})

=============================================================================
