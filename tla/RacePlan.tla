------------------------------ MODULE RacePlan ------------------------------
(***************************************************************************)
(* The race plan of session-control: the operator's HTTP requests, the     *)
(* bounded server that carries them, the coroutines that save and read a   *)
(* plan behind the one lock of the database connection, the two timeouts   *)
(* (two seconds around the statement, five around the whole request), and  *)
(* the race_plans table with its constraints.                              *)
(*                                                                         *)
(* A statement whose connection is dropped while its commit is on the wire *)
(* is an orphan: the server decides it later, either way.                  *)
(***************************************************************************)
EXTENDS Integers, Sequences, FiniteSets, FiniteSetsExt, SequencesExt

CONSTANTS
    Clients,        \* operators' connections
    Workers,        \* _MAX_HTTP_WORKERS
    Bodies,         \* what an operator may submit
    Tank,           \* tank_l, the same in every body
    MaxSessions, MaxRequests, PlanMaxFaults

PlanNone == -1
PlanSessions == 1 .. MaxSessions

VARIABLES
    session,        \* the current session, 0 before the first (SessionController.state)
    planKnown,      \* sessions that have a row: the others wait in the retry queue
    rows,           \* race_plans
    orphans,        \* rows whose commit the server has yet to decide
    up,             \* the database answers
    planConnected,  \* SessionDatabase._conn
    line,           \* SessionDatabase._lock: the holder first, then the waiters
    request,        \* what each client asked, and how far its coroutine is
    answer,         \* the last answer each client got
    confirmed,      \* history: the newest revision confirmed for each session
    asked, planFaults

planVars == <<session, planKnown, rows, orphans, up, planConnected, line, request, answer,
              confirmed, asked, planFaults>>
store == <<planKnown, rows, orphans, up>>
planBudget == <<asked, planFaults>>

NoPlan == [end |-> PlanNone, laps |-> PlanNone, authority |-> "", usable |-> 0]
PlanIdle == [at |-> "idle", kind |-> "", body |-> NoPlan, session |-> 0,
             revision |-> 0, floor |-> [s \in PlanSessions |-> 0]]
NoAnswer == [code |-> "none", session |-> 0, revision |-> 0, plan |-> NoPlan]

Plans == [end : {PlanNone, 0, 1}, laps : {PlanNone, 0, 1}, authority : {"", "time", "laps"},
          usable : 0 .. Tank + 1]

PlanSpend == planFaults < PlanMaxFaults /\ planFaults' = planFaults + 1

-----------------------------------------------------------------------------
(* Validation and the table.                                               *)

\* validate_plan: what it accepts.
Valid(b) ==
    /\ b.end # PlanNone \/ b.laps # PlanNone
    /\ b.laps # PlanNone => b.laps > 0
    /\ b.authority = "time" => b.end # PlanNone
    /\ b.authority = "laps" => b.laps # PlanNone
    /\ b.usable > 0 /\ b.usable <= Tank

\* validate_plan: an authority left out is the end that was given.
Completed(b) ==
    IF b.authority # "" THEN b
    ELSE [b EXCEPT !.authority = IF b.end # PlanNone THEN "time" ELSE "laps"]

\* The row of a plan: an end at time zero is written as no end.
Row(s, rev, plan) ==
    [session |-> s, revision |-> rev,
     plan |-> [plan EXCEPT !.end = IF @ = 0 THEN PlanNone ELSE @]]

\* The CHECK constraints of race_plans.
Storable(row) ==
    /\ row.plan.end # PlanNone \/ row.plan.laps # PlanNone
    /\ row.plan.authority = "time" => row.plan.end # PlanNone
    /\ row.plan.authority = "laps" => row.plan.laps # PlanNone
    /\ row.plan.usable > 0 /\ row.plan.usable <= Tank

Of(s) == {row \in rows : row.session = s}

\* COALESCE(MAX(revision), 0) + 1 of the session's committed rows.
NextRevision(s) == Max({0} \cup {row.revision : row \in Of(s)}) + 1

\* v_race_plan: the latest revision of the session, or none.
LatestOf(s) ==
    IF Of(s) = {} THEN [session |-> s, revision |-> 0, plan |-> NoPlan]
    ELSE CHOOSE row \in Of(s) : \A other \in Of(s) : row.revision >= other.revision

-----------------------------------------------------------------------------
(* The server.                                                             *)

Busy == {c \in Clients : request[c].at # "idle"}

\* The lock passes on when its holder leaves, and a waiter may leave the line.
Leave(c) == line' = SelectSeq(line, LAMBDA d : d # c)

\* The request ends: its thread answers and gives its worker slot back.
Answer(c, code, row) ==
    /\ request' = [request EXCEPT ![c] = PlanIdle]
    /\ answer' = [answer EXCEPT ![c] =
                    [code |-> code, session |-> row.session, revision |-> row.revision,
                     plan |-> row.plan]]
    /\ confirmed' = IF code = "saved" /\ row.revision > confirmed[row.session]
                    THEN [confirmed EXCEPT ![row.session] = row.revision]
                    ELSE confirmed

Nothing(s) == [session |-> s, revision |-> 0, plan |-> NoPlan]

\* process_request: a request takes a worker slot, or is refused at once; a
\* request for something else may hold a slot too.
Process(c, kind, body) ==
    /\ request[c].at = "idle" /\ asked < MaxRequests
    /\ asked' = asked + 1
    /\ \/ /\ Cardinality(Busy) < Workers
          /\ request' = [request EXCEPT ![c] = [PlanIdle EXCEPT !.at = "called", !.kind = kind,
                                                !.body = body, !.floor = confirmed]]
          /\ answer' = [answer EXCEPT ![c] = NoAnswer]
       \/ /\ Cardinality(Busy) + 1 >= Workers
          /\ answer' = [answer EXCEPT ![c] = [NoAnswer EXCEPT !.code = "refused"]]
          /\ UNCHANGED request
    /\ UNCHANGED <<session, store, planConnected, line, confirmed, planFaults>>

\* plan_set and plan_get: read the session under the controller's lock, refuse
\* without one, validate, and ask for the database lock.
Call(c) ==
    LET r == request[c] IN
    /\ r.at = "called"
    /\ IF session = 0
       THEN Answer(c, IF r.kind = "save" THEN "conflict" ELSE "read", Nothing(0))
            /\ UNCHANGED line
       ELSE IF r.kind = "save" /\ ~Valid(r.body)
       THEN Answer(c, "invalid", Nothing(session)) /\ UNCHANGED line
       ELSE /\ request' = [request EXCEPT ![c].at = "waits", ![c].session = session,
                                          ![c].body = Completed(@)]
            /\ line' = Append(line, c)
            /\ UNCHANGED <<answer, confirmed>>
    /\ UNCHANGED <<session, store, planConnected, planBudget>>

Holds(c) == line # <<>> /\ Head(line) = c

\* save_plan and load_plan: with the lock, refuse at once without a connection;
\* otherwise run the statement. An insert takes its number from the rows the
\* server has committed; a read answers from the view.
Run(c) ==
    LET r == request[c] IN
    /\ r.at = "waits" /\ Holds(c)
    /\ CASE ~planConnected -> /\ Answer(c, "unavailable", Nothing(r.session))
                              /\ Leave(c)
         [] planConnected /\ up /\ r.kind = "save" ->
                              /\ request' = [request EXCEPT ![c].at = "runs",
                                                  ![c].revision = NextRevision(r.session)]
                              /\ UNCHANGED <<answer, confirmed, line>>
         [] planConnected /\ up /\ r.kind = "read" ->
                              /\ Answer(c, "read", LatestOf(r.session))
                              /\ Leave(c)
         [] planConnected /\ ~up -> FALSE
    /\ UNCHANGED <<session, store, planConnected, planBudget>>

Wanted(c) == Row(request[c].session, request[c].revision, request[c].body)

SameKey(a, b) == a.session = b.session /\ a.revision = b.revision

\* The server checks the row: a missing session, a constraint or a revision
\* that is already there is an IntegrityError, and the connection stays. A row
\* of the same number that is still undecided makes the statement wait.
Integrity(c) ==
    LET row == Wanted(c) IN
    /\ request[c].at = "runs" /\ up
    /\ \/ request[c].session \notin planKnown
       \/ ~Storable(row)
       \/ \E other \in rows : SameKey(other, row)
    /\ Answer(c, "not yet", [Nothing(row.session) EXCEPT !.revision = row.revision,
                                                         !.plan = request[c].body])
    /\ Leave(c)
    /\ UNCHANGED <<session, store, planConnected, planBudget>>

\* The transaction commits; the answer is still to come back.
Commit(c) ==
    LET row == Wanted(c) IN
    /\ request[c].at = "runs" /\ up
    /\ request[c].session \in planKnown /\ Storable(row)
    /\ ~ \E other \in rows \cup orphans : SameKey(other, row)
    /\ rows' = rows \cup {row}
    /\ request' = [request EXCEPT ![c].at = "committed"]
    /\ UNCHANGED <<session, planKnown, orphans, up, planConnected, line, answer, confirmed,
                   planBudget>>

\* save_plan returns the row: 200.
Return(c) ==
    /\ request[c].at = "committed"
    /\ rows' = rows
    /\ Answer(c, "saved", Wanted(c))
    /\ Leave(c)
    /\ UNCHANGED <<session, planKnown, orphans, up, planConnected, planBudget>>

\* The statement can be under way: its row is checked and its commit is sent.
Sendable(c) ==
    /\ request[c].at = "runs" /\ request[c].session \in planKnown /\ Storable(Wanted(c))
    /\ ~ \E other \in rows \cup orphans : SameKey(other, Wanted(c))

\* The two-second timeout or a lost connection: the connection is dropped and
\* the operator told that the plan was not saved, wherever the transaction is.
PlanFail(c) ==
        /\ \/ request[c].at \in {"runs", "committed"} /\ PlanSpend
           \/ request[c].at \in {"waits", "runs", "committed"} /\ Holds(c) /\ ~up /\ UNCHANGED planFaults
        /\ planConnected
        /\ planConnected' = FALSE
        /\ \/ UNCHANGED orphans
           \/ Sendable(c) /\ orphans' = orphans \cup {Wanted(c)}
        /\ rows' = rows
        /\ Answer(c, "unavailable", [Nothing(request[c].session) EXCEPT
                                        !.revision = request[c].revision, !.plan = request[c].body])
        /\ Leave(c)
        /\ UNCHANGED <<session, planKnown, up, asked>>

\* Variant: a save that is cancelled after its commit was sent counts as saved.
CancelHopes(c) ==
    /\ request[c].at \in {"called", "waits", "runs", "committed"} /\ PlanSpend
    /\ rows' = rows
    /\ Answer(c, IF request[c].at = "runs" THEN "saved" ELSE "busy", Wanted(c))
    /\ Leave(c)
    /\ UNCHANGED <<session, planKnown, orphans, up, planConnected, asked>>

\* The five-second timeout of the HTTP thread cancels the coroutine: the lock is
\* released and the transaction rolled back, unless its commit is already done.
PlanCancel(c) ==
    /\ request[c].at \in {"called", "waits", "runs", "committed"} /\ PlanSpend
    /\ \/ rows' = rows
       \/ up /\ Sendable(c) /\ rows' = rows \cup {Wanted(c)}
    /\ Answer(c, "busy", Nothing(request[c].session))
    /\ Leave(c)
    /\ UNCHANGED <<session, planKnown, orphans, up, planConnected, asked>>

-----------------------------------------------------------------------------
(* What goes on beside the requests.                                       *)

\* start_session: a new session becomes current; its row is written at once or
\* left to the retry queue.
PlanStartSession ==
    /\ session < MaxSessions
    /\ session' = session + 1
    /\ planKnown' \in {planKnown, IF planConnected /\ up THEN planKnown \cup {session'} ELSE planKnown}
    /\ UNCHANGED <<rows, orphans, up, planConnected, line, request, answer, confirmed,
                   planBudget>>

\* _flush_one: the oldest queued session gets its row.
Flush ==
    /\ line = <<>> /\ planConnected /\ up
    /\ \E s \in PlanSessions : /\ s <= session /\ s \notin planKnown
                               /\ planKnown' = planKnown \cup {s}
    /\ UNCHANGED <<session, rows, orphans, up, planConnected, line, request, answer,
                   confirmed, planBudget>>

\* connect_once, from the retry task.
PlanConnect ==
    /\ ~planConnected /\ up /\ line = <<>>
    /\ planConnected' = TRUE
    /\ UNCHANGED <<session, store, line, request, answer, confirmed, planBudget>>

\* The server decides a transaction whose client has gone.
Decide ==
    /\ up
    /\ \E row \in orphans : /\ orphans' = orphans \ {row}
                            /\ rows' \in {rows, rows \cup {row}}
    /\ UNCHANGED <<session, planKnown, up, planConnected, line, request, answer, confirmed,
                   planBudget>>

PlanDbDown ==
    /\ up /\ PlanSpend
    /\ up' = FALSE
    /\ UNCHANGED <<session, planKnown, rows, orphans, planConnected, line, request, answer,
                   confirmed, asked>>

PlanDbUp ==
    /\ ~up
    /\ up' = TRUE
    /\ UNCHANGED <<session, planKnown, rows, orphans, planConnected, line, request, answer,
                   confirmed, planBudget>>

-----------------------------------------------------------------------------
PlanInit ==
    /\ session = 0 /\ planKnown = {} /\ rows = {} /\ orphans = {}
    /\ up = TRUE /\ planConnected = TRUE /\ line = <<>>
    /\ request = [c \in Clients |-> PlanIdle]
    /\ answer = [c \in Clients |-> NoAnswer]
    /\ confirmed = [s \in PlanSessions |-> 0]
    /\ asked = 0 /\ planFaults = 0

Step(c) == Call(c) \/ Run(c) \/ Integrity(c) \/ Commit(c) \/ Return(c) \/ PlanFail(c)

PlanNext ==
    \/ \E c \in Clients :
         \/ \E body \in Bodies : Process(c, "save", body)
         \/ Process(c, "read", NoPlan)
         \/ Step(c)
         \/ PlanCancel(c)
    \/ PlanStartSession \/ Flush \/ PlanConnect \/ Decide \/ PlanDbDown \/ PlanDbUp

PlanSpec == PlanInit /\ [][PlanNext]_planVars /\ \A c \in Clients : WF_planVars(Step(c)) /\ WF_planVars(Decide)

-----------------------------------------------------------------------------
(* Properties.                                                             *)

\* Types of the requests, the rows and the lock's line.
PlanTypeOK ==
    /\ session \in 0 .. MaxSessions /\ planKnown \subseteq PlanSessions
    /\ rows \cup orphans \subseteq [session : PlanSessions, revision : 1 .. MaxRequests, plan : Plans]
    /\ up \in BOOLEAN /\ planConnected \in BOOLEAN
    /\ line \in Seq(Clients) /\ IsInjective(line)
    /\ \A c \in Clients : /\ request[c].at \in {"idle", "called", "waits", "runs", "committed"}
                          /\ request[c].at \in {"waits", "runs", "committed"} <=> c \in Range(line)
    /\ confirmed \in [PlanSessions -> 0 .. MaxRequests]
    /\ asked \in 0 .. MaxRequests /\ planFaults \in 0 .. PlanMaxFaults

\* save_plan: a 200 means that this very plan is in race_plans under the
\* revision and session of the answer, whatever timed out meanwhile.
SavedIsStored ==
    \A c \in Clients : answer[c].code = "saved"
        => [session |-> answer[c].session, revision |-> answer[c].revision,
            plan |-> answer[c].plan] \in rows

\* _insert_plan: the revisions of a session are 1, 2, 3 ... without a gap and
\* without two plans of one number, even when a dropped connection leaves a
\* transaction behind that the server commits late.
RevisionsCount ==
    \A s \in PlanSessions :
        /\ {row.revision : row \in Of(s)} = 1 .. Cardinality(Of(s))
        /\ \A c \in Clients : answer[c].code = "saved" /\ answer[c].session = s
                                 => answer[c].revision <= Cardinality(Of(s))

\* validate_plan against the table: for a session that has its row, the only
\* plans the table refuses are those whose end is at time zero and those that
\* lose their number to a transaction left behind.
AcceptedIsStorable ==
    \A c \in Clients :
        request[c].at = "runs" /\ request[c].body.end # 0 => Storable(Wanted(c))

\* do_POST and do_GET: every request that got a worker is answered.
Answered == \A c \in Clients : []<>(request[c].at = "idle")

=============================================================================
