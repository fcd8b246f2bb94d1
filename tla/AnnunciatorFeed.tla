--------------------------- MODULE AnnunciatorFeed ---------------------------
(***************************************************************************)
(* What the notifier does after it has released its lock                   *)
(* (pit/notifier/service.py _after, _push_snapshot and _stream_events,     *)
(* channels.py Broadcaster, ledger.py) and the page at the other end of    *)
(* the event stream (static/app.js).                                       *)
(*                                                                         *)
(* The book changes under the lock; recording the events, computing the    *)
(* snapshot and publishing it follow outside it, on the HTTP server's      *)
(* threads and the tick's, in any order.  The book is one alert's state:   *)
(* what matters here is whether the page shows the one the book holds.     *)
(***************************************************************************)
EXTENDS Naturals, Integers, Sequences, FiniteSets

CONSTANTS
    Threads,         \* the HTTP server's threads and the ticking main thread
    ClientQueue,     \* Broadcaster max_queue
    HeartbeatLimit   \* heartbeat_expected_s * heartbeat_missed_intervals, in ticks

VARIABLES
    book,      \* the alert in the book: absent, firing or acknowledged
    heartbeat,  \* ticks since heartbeat_seen, -1 before the first
    annunciatorPc,  \* where each thread is after releasing the lock
    events,    \* the events it still has to record
    snap,      \* the snapshot it computed and has not yet published
    stream,    \* the browser's connection: off, subscribed or live
    client,    \* its queue in the broadcaster
    page,      \* what the browser shows
    balance,   \* history: firing rows less resolved rows, until a write fails
    unwritten,  \* history: a ledger write failed
    overlap,   \* history: two threads were past the lock at once
    dropped    \* history: the last snapshot put met a full client queue

annunciatorVars == <<book, heartbeat, annunciatorPc, events, snap, stream, client, page, 
                     balance, unwritten, overlap, dropped>>

States == {"absent", "firing", "acked"}
AnnunciatorSnapshot(s) == [type |-> "snapshot", shows |-> s]
Message == [type |-> "message", shows |-> "absent"]

InFlight == {t \in Threads : annunciatorPc[t] # "idle"}

\* Broadcaster.publish: every subscribed client's queue, or nothing when full.
AnnunciatorPublish(payload) ==
    IF stream = "off" \/ Len(client) >= ClientQueue THEN client
    ELSE Append(client, payload)

\* A thread leaves the lock with its events.
Leaves(t, es, where) ==
    /\ annunciatorPc[t] = "idle"
    /\ annunciatorPc' = [annunciatorPc EXCEPT ![t] = where]
    /\ events' = [events EXCEPT ![t] = es]
    /\ overlap' = (InFlight # {})

AnnunciatorInit ==
    /\ book = "absent"
    /\ heartbeat = -1
    /\ annunciatorPc = [t \in Threads |-> "idle"]
    /\ events = [t \in Threads |-> "none"]
    /\ snap = [t \in Threads |-> "absent"]
    /\ stream = "off"
    /\ client = <<>>
    /\ page = "blank"
    /\ balance = 0
    /\ unwritten = FALSE
    /\ overlap = FALSE
    /\ dropped = FALSE

\* receive, ack or raise_test under the lock: the book changes and the
\* annunciator channel publishes the message.  What changes nothing, such as
\* the resolution of an absent alert, leaves no event.
Change(t, s) ==
    /\ \/ book = "absent" /\ s = "firing"
       \/ book # "absent" /\ s \in {"absent", "acked"}
    /\ Leaves(t, s, "record")
    /\ book' = s
    /\ client' = AnnunciatorPublish(Message)
    /\ UNCHANGED <<heartbeat, snap, stream, page, balance, unwritten,
                   dropped>>

\* The heartbeat rule's notification: no event, but a snapshot all the same.
HeartbeatArrives(t) ==
    /\ Leaves(t, "none", "snapshot")
    /\ heartbeat' = 0
    /\ UNCHANGED <<book, snap, stream, client, page, balance,
                   unwritten, dropped>>

\* The tick, once a second; it pushes a snapshot if it repeated or retried
\* anything.
AnnunciatorTick(t) ==
               /\ heartbeat' = IF heartbeat \in {-1, HeartbeatLimit + 1} THEN heartbeat
                               ELSE heartbeat + 1
               /\ \/ UNCHANGED <<annunciatorPc, events, overlap>>
                  \/ Leaves(t, "none", "snapshot")
               /\ UNCHANGED <<book, snap, stream, client, page, balance,
                              unwritten, dropped>>

\* AlertLedger.record: one transaction on the kept connection or a new one.  A
\* failure is counted, the connection closed, and the rows are lost.
AnnunciatorRecord(t) ==
    /\ annunciatorPc[t] = "record"
    /\ annunciatorPc' = [annunciatorPc EXCEPT ![t] = "snapshot"]
    /\ events' = [events EXCEPT ![t] = "none"]
    /\ \/ /\ ~unwritten
          /\ balance' = balance + (CASE events[t] = "firing" -> 1
                                     [] events[t] = "absent" -> -1
                                     [] OTHER -> 0)
          /\ UNCHANGED unwritten
       \/ /\ unwritten' = TRUE
          /\ balance' = 0
    /\ UNCHANGED <<book, heartbeat, snap, stream, client, page, 
                   overlap, dropped>>

\* _push_snapshot, first half: the book is read without the lock ...
TakeSnapshot(t) ==
    /\ annunciatorPc[t] = "snapshot"
    /\ annunciatorPc' = [annunciatorPc EXCEPT ![t] = "push"]
    /\ snap' = [snap EXCEPT ![t] = book]
    /\ UNCHANGED <<book, heartbeat, events, stream, client, page, 
                   balance, unwritten, overlap, dropped>>

\* ... second half: what was read is published, however old it has become.
Push(t) ==
    /\ annunciatorPc[t] = "push"
    /\ annunciatorPc' = [annunciatorPc EXCEPT ![t] = "idle"]
    /\ snap' = [snap EXCEPT ![t] = "absent"]
    /\ client' = AnnunciatorPublish(AnnunciatorSnapshot(snap[t]))
    /\ dropped' = (stream # "off" /\ Len(client) >= ClientQueue)
    /\ UNCHANGED <<book, heartbeat, events, stream, page, balance,
                   unwritten, overlap>>

\* GET /events: subscribe to the broadcaster first ...
AnnunciatorSubscribe ==
    /\ stream = "off"
    /\ stream' = "subscribed"
    /\ client' = <<>>
    /\ dropped' = FALSE
    /\ UNCHANGED <<book, heartbeat, annunciatorPc, events, snap, page, balance,
                   unwritten, overlap>>

\* ... then send the snapshot, taken under the lock, as the first event.
FirstSnapshot ==
    /\ stream = "subscribed"
    /\ stream' = "live"
    /\ page' = book
    /\ UNCHANGED <<book, heartbeat, annunciatorPc, events, snap, client, balance,
                   unwritten, overlap, dropped>>

\* The stream writes one queued payload; the page shows snapshots only.
AnnunciatorDrain ==
    /\ stream = "live"
    /\ client # <<>>
    /\ client' = Tail(client)
    /\ page' = IF Head(client).type = "snapshot" THEN Head(client).shows ELSE page
    /\ UNCHANGED <<book, heartbeat, annunciatorPc, events, snap, stream, balance,
                   unwritten, overlap, dropped>>

\* The browser or the network drops the connection: unsubscribe.  EventSource
\* reconnects by itself.
Disconnect ==
    /\ stream # "off"
    /\ stream' = "off"
    /\ client' = <<>>
    /\ UNCHANGED <<book, heartbeat, annunciatorPc, events, snap, page, balance,
                   unwritten, overlap, dropped>>

AnnunciatorNext ==
    \/ \E t \in Threads :
          \/ \E s \in States : Change(t, s)
          \/ HeartbeatArrives(t)
          \/ AnnunciatorTick(t)
          \/ AnnunciatorRecord(t)
          \/ TakeSnapshot(t)
          \/ Push(t)
    \/ AnnunciatorSubscribe
    \/ FirstSnapshot
    \/ AnnunciatorDrain
    \/ Disconnect

\* Threads run to the end of their request, the browser reconnects and reads.
AnnunciatorFairness ==
    /\ \A t \in Threads : WF_annunciatorVars(AnnunciatorRecord(t) \/ TakeSnapshot(t) \/ Push(t))
    /\ WF_annunciatorVars(AnnunciatorSubscribe)
    /\ WF_annunciatorVars(FirstSnapshot)
    /\ WF_annunciatorVars(AnnunciatorDrain)
    /\ WF_heartbeat(\E t \in Threads : AnnunciatorTick(t))

AnnunciatorSpec == AnnunciatorInit /\ [][AnnunciatorNext]_annunciatorVars /\ AnnunciatorFairness

-----------------------------------------------------------------------------
\* The state has the shape the code gives it.
AnnunciatorTypeOK ==
    /\ book \in States
    /\ heartbeat \in -1..(HeartbeatLimit + 1)
    /\ annunciatorPc \in [Threads -> {"idle", "record", "snapshot", "push"}]
    /\ events \in [Threads -> States \cup {"none"}]
    /\ snap \in [Threads -> States]
    /\ stream \in {"off", "subscribed", "live"}
    /\ Len(client) <= ClientQueue
    /\ page \in States \cup {"blank"}
    /\ <<unwritten, overlap, dropped>> \in BOOLEAN \X BOOLEAN \X BOOLEAN
    /\ balance \in Int

LastShown ==
    LET shots == {i \in DOMAIN client : client[i].type = "snapshot"}
    IN  IF shots = {} THEN page
        ELSE client[CHOOSE i \in shots : \A j \in shots : j <= i].shows

\* A connected page misses nothing: when no thread is between the lock and its
\* push, the page shows the book or has the snapshot that does in its queue.
\* What may break that is named: a snapshot that met a full queue, and two
\* threads past the lock at once, whose snapshots may be published in the
\* opposite order to the book's changes (_push_snapshot reads and publishes
\* outside the lock).
NothingMissed ==
    stream = "live" /\ InFlight = {} /\ ~overlap /\ ~dropped => LastShown = book

\* Whatever the order of the threads, the ledger holds one more firing than
\* resolutions exactly while the alert is in the book, once every thread has
\* recorded, unless a write failed.
LedgerBalances ==
    ~unwritten /\ (\A t \in Threads : annunciatorPc[t] # "record")
        => balance = IF book = "absent" THEN 0 ELSE 1

\* A page that stays connected ends up showing the book once the book stops
\* changing and no more events are recorded, as long as heartbeats keep arriving: every notification, even one
\* without an event, is followed by a snapshot (_after).
PageConverges ==
    \A s \in States :
        /\ <>[](book = s /\ \A t \in Threads : annunciatorPc[t] # "record")
        /\ <>[](stream # "off")
        /\ []<>(heartbeat = 0)
        /\ []<>(heartbeat # 0)
        => <>[](page = s)

=============================================================================
