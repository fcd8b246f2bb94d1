----------------------------- MODULE FeedIngest -----------------------------
(***************************************************************************)
(* The timing feed's ingest server: WebSocket clients that send Timing71   *)
(* messages in fragments, the worker threads that put them together and    *)
(* read each state against the client's last manifest, and the queue to    *)
(* the event loop (pit/timing_feed: ingest.py, websocket.py messages,      *)
(* shapes.py T71Translator, service.py submit).                            *)
(***************************************************************************)
EXTENDS Naturals, Sequences, SequencesExt, FiniteSets

CONSTANTS
    Clients,    \* who may connect
    MaxWorkers,  \* MAX_HTTP_WORKERS
    Layouts,    \* the manifests a Timing71 service may send, not 0
    BoardBoards,  \* the rows a state may have: sequences of car numbers, 0 for a row
                     \* that names none
    BoardQueueSize,  \* the ingest queue
    MaxSent     \* bound on messages sent

VARIABLES
    slots,      \* _worker_slots: free workers
    worker,     \* client -> its worker, or none
    layout,     \* client -> the manifest it last sent and lays its states out by
    frames,     \* client -> frames sent and not read
    calls,      \* call_soon_threadsafe: snapshots on their way to the loop
    queue,      \* the ingest queue
    handled,    \* the last snapshot handled
    accepted,   \* history: the last snapshot a worker took
    misread,    \* history: a snapshot was read against another manifest, although
                \* none of its client's was refused
    mixed,      \* history: a message was made of pieces of two
    refusedLayout,  \* history: the clients a manifest of which was refused
    boardSent   \* messages sent so far

boardVars == <<slots, worker, layout, frames, calls, queue, handled, accepted, misread,
               mixed, refusedLayout, boardSent>>

Loop == <<queue, handled>>

BoardNone == [live |-> FALSE]

\* A fresh worker: no fragment held, no columns known.
Fresh == [live |-> TRUE, parts |-> <<>>, columns |-> 0]

\* What a message is: its pieces are all of one message.
Meaning(parts) == parts[1].msg

\* T71Translator.manifest: which column is which; a refused one changes nothing.
Manifest(w, m) == IF m.good THEN [w EXCEPT !.columns = m.layout] ELSE w

\* _car_from: a row with no car number is no row.
CarFrom(n) == n # 0

\* T71Translator.state: needs a manifest first; a bad row refuses the state, a
\* car that appears twice is read once.
State(w, m) ==
    IF w.columns # 0 /\ \A i \in DOMAIN m.rows : CarFrom(m.rows[i])
    THEN <<FoldLeft(LAMBDA seen, n : IF Contains(seen, n) THEN seen ELSE Append(seen, n),
                    <<>>, m.rows)>>
    ELSE <<>>

\* snapshot_from_json: a bad row or a car that appears twice refuses the body.
SnapshotFromJson(board) ==
    IF (\A i \in DOMAIN board : CarFrom(board[i])) /\ IsInjective(board) THEN <<board>>
    ELSE <<>>

\* websocket.messages, for one frame: control frames inline; a new message
\* inside an open one, or a continuation of none, drops the client.
Assemble(w, f) ==
    CASE f.op = "ping" -> [w |-> w, message |-> <<>>, drop |-> FALSE]
      [] f.op = "close" -> [w |-> w, message |-> <<>>, drop |-> TRUE]
      [] f.op \in {"text", "continuation"} ->
            IF (f.op = "text") # (w.parts = <<>>) THEN [w |-> w, message |-> <<>>, drop |-> TRUE]
            ELSE LET all == Append(w.parts, f)
                 IN  IF f.fin THEN [w |-> [w EXCEPT !.parts = <<>>], message |-> all, drop |-> FALSE]
                     ELSE [w |-> [w EXCEPT !.parts = all], message |-> <<>>, drop |-> FALSE]

-----------------------------------------------------------------------------

BoardInit ==
    /\ slots = MaxWorkers
    /\ worker = [c \in Clients |-> BoardNone]
    /\ layout = [c \in Clients |-> 0]
    /\ frames = [c \in Clients |-> <<>>]
    /\ calls = <<>>
    /\ queue = <<>>
    /\ handled = 0
    /\ accepted = 0
    /\ misread = FALSE
    /\ mixed = FALSE
    /\ refusedLayout = {}
    /\ boardSent = 0

\* process_request and the upgrade: a worker if there is a slot, 503 otherwise.
BoardConnect(c) ==
    /\ ~worker[c].live
    /\ frames[c] = <<>>
    /\ slots > 0
    /\ slots' = slots - 1
    /\ worker' = [worker EXCEPT ![c] = Fresh]
    /\ layout' = [layout EXCEPT ![c] = 0]
    /\ refusedLayout' = refusedLayout \ {c}
    /\ UNCHANGED <<frames, calls, Loop, accepted, misread, mixed, boardSent>>

\* The client's side: a message in one frame or two, a ping between them or not.
BoardSend(c, m, cut) ==
         /\ worker[c].live
         /\ boardSent < MaxSent
         /\ boardSent' = boardSent + 1
         /\ layout' = IF m.kind = "manifest" THEN [layout EXCEPT ![c] = m.layout] ELSE layout
         /\ LET n == IF cut = "whole" THEN 1 ELSE 2
                piece(i) == [op |-> IF i = 1 THEN "text" ELSE "continuation", fin |-> i = n,
                             msg |-> [m EXCEPT !.id = boardSent'], piece |-> i]
                ping == [op |-> "ping"]
            IN  frames' = [frames EXCEPT ![c] = @ \o (CASE cut = "whole" -> <<piece(1)>>
                                                      [] cut = "two" -> <<piece(1), piece(2)>>
                                                      [] cut = "pinged" -> <<piece(1), ping, piece(2)>>
                                                      [] cut = "left" -> <<piece(1)>>
                                                      [] cut = "closed" -> <<piece(1), [op |-> "close"]>>)]
         /\ UNCHANGED <<slots, worker, calls, Loop, accepted, misread, mixed, refusedLayout>>

\* _t71_message: a manifest is adopted, a state is read against the columns
\* held and its snapshot sent to the loop; what cannot be read is refused.
BoardTake(c, m) ==
         /\ IF m.kind = "state" /\ State(worker[c], m) # <<>>
            THEN /\ calls' = Append(calls, [id |-> m.id, rows |-> State(worker[c], m)[1]])
                 /\ accepted' = m.id
                 /\ misread' = (misread \/ (c \notin refusedLayout /\ m.layout # worker[c].columns))
            ELSE UNCHANGED <<calls, accepted, misread>>
         /\ refusedLayout' = IF m.kind = "manifest" /\ ~m.good THEN refusedLayout \cup {c}
                             ELSE refusedLayout

\* The worker reads one frame.
ReadFrame(c) ==
    /\ worker[c].live
    /\ frames[c] # <<>>
    /\ LET a == Assemble(worker[c], Head(frames[c]))
           m == Meaning(a.message)
       IN  /\ IF a.drop
              THEN /\ worker' = [worker EXCEPT ![c] = BoardNone]
                   /\ slots' = slots + 1
                   /\ frames' = [frames EXCEPT ![c] = <<>>]
              ELSE /\ worker' = [worker EXCEPT ![c] = IF a.message # <<>> /\ m.kind = "manifest"
                                                      THEN Manifest(a.w, m) ELSE a.w]
                   /\ frames' = [frames EXCEPT ![c] = Tail(@)]
                   /\ UNCHANGED slots
           /\ mixed' = (mixed \/ \E i \in DOMAIN a.message : a.message[i].msg # m)
           /\ IF a.message # <<>> THEN BoardTake(c, m)
              ELSE UNCHANGED <<calls, accepted, misread, refusedLayout>>
    /\ UNCHANGED <<layout, Loop, boardSent>>

\* The connection is lost: the worker ends.
Close(c) ==
    /\ worker[c].live
    /\ worker' = [worker EXCEPT ![c] = BoardNone]
    /\ slots' = slots + 1
    /\ frames' = [frames EXCEPT ![c] = <<>>]
    /\ UNCHANGED <<layout, calls, Loop, accepted, misread, mixed, refusedLayout, boardSent>>

\* do_POST, from the slot to its release: one snapshot in one request.
Post(board) ==
    /\ slots > 0
    /\ boardSent < MaxSent
    /\ boardSent' = boardSent + 1
    /\ IF SnapshotFromJson(board) # <<>>
       THEN /\ calls' = Append(calls, [id |-> boardSent', rows |-> board])
            /\ accepted' = boardSent'
       ELSE UNCHANGED <<calls, accepted>>
    /\ UNCHANGED <<slots, worker, layout, frames, Loop, misread, mixed, refusedLayout>>

\* submit, on the loop's thread: the newest wins when the queue is full.
BoardSubmit ==
    /\ calls # <<>>
    /\ calls' = Tail(calls)
    /\ queue' = Append(IF Len(queue) >= BoardQueueSize THEN Tail(queue) ELSE queue, Head(calls))
    /\ UNCHANGED <<slots, worker, layout, frames, handled, accepted, misread, mixed,
                   refusedLayout, boardSent>>

\* _ingest_loop
Handle ==
    /\ queue # <<>>
    /\ queue' = Tail(queue)
    /\ handled' = Head(queue).id
    /\ UNCHANGED <<slots, worker, layout, frames, calls, accepted, misread, mixed,
                   refusedLayout, boardSent>>

Messages(c) ==
    {[kind |-> "manifest", layout |-> l, good |-> g, rows |-> <<>>, id |-> 0] : l \in Layouts, g \in BOOLEAN}
        \cup {[kind |-> "state", layout |-> layout[c], good |-> TRUE, rows |-> b, id |-> 0] :
                 b \in BoardBoards}

BoardNext ==
    \/ \E c \in Clients :
          \/ BoardConnect(c)
          \/ \E m \in Messages(c), cut \in {"whole", "two", "pinged", "left", "closed"} : BoardSend(c, m, cut)
          \/ ReadFrame(c)
          \/ Close(c)
    \/ \E b \in BoardBoards : Post(b)
    \/ BoardSubmit
    \/ Handle

BoardSpec == BoardInit /\ [][BoardNext]_boardVars

-----------------------------------------------------------------------------
\* The state has the shape the code gives it; a slot is held by a live worker
\* and by nothing else.
BoardTypeOK ==
    /\ slots + Cardinality({c \in Clients : worker[c].live}) = MaxWorkers
    /\ Len(queue) <= BoardQueueSize
    /\ handled \in 0..MaxSent

\* A state is only read against the manifest its client laid it out by; a
\* client one of whose manifests was refused is excused, for its states are
\* still read against the manifest before.
RightColumns == ~misread

\* A message is made of the fragments of one message, whatever control frames
\* come between them and wherever a client breaks off.
MessagesWhole == ~mixed

\* Whatever is dropped on the way, the newest snapshot taken is the last one
\* handled.
NewestHandled ==
    calls = <<>> /\ queue = <<>> => handled = accepted
=============================================================================
