------------------------------ MODULE Notifier ------------------------------
(***************************************************************************)
(* The notifier's alert book and its delivery dispatcher                   *)
(* (pit/notifier: alerts.py, channels.py, push.py, service.py).            *)
(*                                                                         *)
(* Grafana's webhook, the acknowledgement endpoint, the test button and    *)
(* the one-second tick each run under the service lock, so each is one     *)
(* action here.  Time is relative: a queued delivery carries the ticks     *)
(* until it is due and until its deadline, a channel the ticks since it    *)
(* last told of an alert, so the state space is finite with no clock and   *)
(* the behaviours are unbounded.                                           *)
(***************************************************************************)
EXTENDS Naturals, Integers, Sequences, SequencesExt, FiniteSets

CONSTANTS
    Alerts,         \* fingerprints
    TestAlert,      \* the one raised by the delivery drill
    Severity,       \* Alerts -> 0..2: none, warning, critical
    Channels,       \* the configured channels, in order
    MinSeverity,    \* channel -> 0..2
    RepeatS,        \* channel -> ticks between repeats, 0 for "once"
    Backoff,        \* _BACKOFF_S in ticks
    RetryDeadline,  \* retry_deadline_s in ticks
    NotifierMaxQueue  \* bound on the queue at which requests stop arriving

VARIABLES
    active,    \* the book: not present, firing, or acknowledged
    age,       \* ticks since last_notified, per channel and alert
    notifierQueue,  \* the dispatcher's deque of pending deliveries
    second,    \* the parity of the seconds ticked, so that ticks are visible
    reach,     \* what a delivery to the channel meets now
    told,      \* history: did the channel learn of this episode
    word,      \* history: the last message the channel delivered
    late       \* history: a message was delivered after its deadline

notifierVars == <<active, age, notifierQueue, second, reach, told, word, late>>

Names == ToSet(Channels)
Local == {"page", "log"}

\* Who hears what: severity against the channel's minimum.
Wants(c, a) == Severity[a] >= MinSeverity[c]

Fires(kind) == kind \in {"firing", "repeat"}

\* A delivery that worked, seen from the receiving end.
Delivered(d, m) ==
    [d EXCEPT !.word[m.chan][m.alert] = m.kind,
              !.told[m.chan][m.alert] = IF Fires(m.kind) THEN "yes" ELSE @]

\* A delivery that will never be tried again.
Abandoned(d, m) ==
    [d EXCEPT !.told[m.chan][m.alert] =
                 IF Fires(m.kind) /\ @ = "no" THEN "lost" ELSE @]

BackoffAfter(attempts) ==
    Backoff[IF attempts < Len(Backoff) THEN attempts + 1 ELSE Len(Backoff)]

\* Dispatcher._attempt: deliver now, queue what may work later.
Attempt(d, c, kind, a) ==
    LET m == [chan |-> c, kind |-> kind, alert |-> a, attempts |-> 1,
              due |-> BackoffAfter(0), left |-> RetryDeadline, aged |-> 0]
    IN  CASE reach[c] = "ok"    -> Delivered(d, m)
          [] reach[c] = "retry" -> [d EXCEPT !.queue = Append(@, m)]
          [] reach[c] = "fail"  -> Abandoned(d, m)

\* Dispatcher.announce, one channel: deliver and note when it was told.  The
\* entry may be gone by then (a resolution), in which case nothing is noted.
Announce(d, e, c) ==
    LET sent == Attempt(d, c, e.kind, e.alert)
    IN  IF ~Wants(c, e.alert) THEN d
        ELSE IF reach[c] = "ok" /\ d.active[e.alert] # "none"
             THEN [sent EXCEPT !.age[c][e.alert] = 0]
             ELSE sent

AnnounceAll(d, events) ==
    FoldLeft(LAMBDA acc, e :
                FoldLeft(LAMBDA x, c : Announce(x, e, c), acc, Channels),
             d, events)

\* AlertBook.receive, one alert of the notification.  A new entry has no
\* last_notified, which the repeat policy treats as due.
ReceiveOne(d, n) ==
    CASE n.status = "firing" /\ d.active[n.alert] = "none" ->
            [d EXCEPT !.active[n.alert] = "firing",
                      !.age = [c \in Names |-> [@[c] EXCEPT ![n.alert] = RepeatS[c]]],
                      !.told = [c \in Names |-> [@[c] EXCEPT ![n.alert] = "no"]],
                      !.events = Append(@, [kind |-> "firing", alert |-> n.alert])]
      [] n.status = "resolved" /\ d.active[n.alert] # "none" ->
            [d EXCEPT !.active[n.alert] = "none",
                      !.events = Append(@, [kind |-> "resolved", alert |-> n.alert])]
      [] OTHER -> d

Now == [active |-> active, age |-> age, queue |-> notifierQueue,
        told |-> told, word |-> word, late |-> late, events |-> <<>>]

Become(d) ==
    /\ active' = d.active
    /\ age' = d.age
    /\ notifierQueue' = d.queue
    /\ told' = d.told
    /\ word' = d.word
    /\ late' = d.late

-----------------------------------------------------------------------------

NotifierInit ==
    /\ active = [a \in Alerts |-> "none"]
    /\ age = [c \in Names |-> [a \in Alerts |-> RepeatS[c]]]
    /\ notifierQueue = <<>>
    /\ second = 0
    /\ reach = [c \in Names |-> "ok"]
    /\ told = [c \in Names |-> [a \in Alerts |-> "no"]]
    /\ word = [c \in Names |-> [a \in Alerts |-> "none"]]
    /\ late = FALSE

\* POST /grafana-alerts: fold the notification into the book, then announce
\* its events in order.
NotifierReceive(notification) ==
    /\ Len(notifierQueue) < NotifierMaxQueue
    /\ LET d == FoldLeft(ReceiveOne, Now, notification)
       IN  Become(AnnounceAll(d, d.events))
    /\ UNCHANGED <<second, reach>>

\* POST /ack.  A test alert has no resolver but the acknowledgement, and its
\* entry is gone before the announcement looks for it.
Ack(a) ==
    /\ active[a] # "none"
    /\ Len(notifierQueue) < NotifierMaxQueue
    /\ Become(AnnounceAll(
                [Now EXCEPT !.active[a] = IF a = TestAlert THEN "none" ELSE "acked"],
                <<[kind |-> "ack", alert |-> a]>>))
    /\ UNCHANGED <<second, reach>>

\* POST /test: the synthetic alert goes through the whole chain.
RaiseTest == NotifierReceive(<<[status |-> "firing", alert |-> TestAlert]>>)

\* Dispatcher.repeat_due, one alert on one channel.
RepeatOne(d, a, c) ==
    IF /\ d.active[a] = "firing"
       /\ RepeatS[c] > 0
       /\ Wants(c, a)
       /\ d.age[c][a] >= RepeatS[c]
    THEN LET sent == Attempt(d, c, "repeat", a)
         IN  IF reach[c] = "ok" THEN [sent EXCEPT !.age[c][a] = 0] ELSE sent
    ELSE d

RepeatDue(d) ==
    FoldLeft(LAMBDA acc, a :
                FoldLeft(LAMBDA x, c : RepeatOne(x, a, c), acc, Channels),
             d, SetToSeq(Alerts))

\* Variant: a retry that fails again is lost without a trace.
RetryDrops(d, m) ==
    IF reach[m.chan] = "ok"
    THEN [Delivered(d, m) EXCEPT !.late = @ \/ m.aged > RetryDeadline]
    ELSE d

\* Dispatcher._retry: deliver, or go back in the queue with a longer backoff
\* and the deadline it already had.  Nothing asks the book whether the alert
\* is still firing, and last_notified is not moved.
Retry(d, m) ==
    CASE reach[m.chan] = "ok"    ->
            [Delivered(d, m) EXCEPT !.late = @ \/ m.aged > RetryDeadline]
      [] reach[m.chan] = "retry" ->
            [d EXCEPT !.queue = Append(@, [m EXCEPT !.attempts = @ + 1,
                                                    !.due = BackoffAfter(m.attempts)])]
      [] reach[m.chan] = "fail"  -> Abandoned(d, m)

\* Dispatcher.pump: take everything due out of the queue, give up on what is
\* past its deadline, retry the rest.
Pump(d) ==
    LET due  == SelectSeq(d.queue, LAMBDA m : m.due <= 0)
        rest == SelectSeq(d.queue, LAMBDA m : m.due > 0)
    IN  FoldLeft(LAMBDA acc, m : IF m.left < 0 THEN Abandoned(acc, m) ELSE Retry(acc, m),
                 [d EXCEPT !.queue = rest], due)

\* One second passes for everything that keeps a time.
Elapsed(d) ==
    [d EXCEPT !.age = [c \in Names |-> [a \in Alerts |->
                          IF @[c][a] < RepeatS[c] THEN @[c][a] + 1 ELSE @[c][a]]],
              !.queue = [i \in DOMAIN @ |-> [@[i] EXCEPT !.due = @ - 1,
                                                         !.left = @ - 1,
                                                         !.aged = @ + 1]]]

\* NotifierService.tick, one second after the last: repeats, then retries.
NotifierTick ==
    /\ Become(Pump(RepeatDue(Elapsed(Now))))
    /\ second' = 1 - second
    /\ UNCHANGED reach

\* The network between the pit and a push service comes and goes: http_post
\* and _raise_for_status make a timeout, a 429 or a 5xx retryable and any
\* other refusal permanent.
LinkChanges(c, r) ==
    /\ c \notin Local
    /\ reach[c] # r
    /\ reach' = [reach EXCEPT ![c] = r]
    /\ UNCHANGED <<active, age, notifierQueue, second, told, word, late>>

One(a) == {[status |-> s, alert |-> a] : s \in {"firing", "resolved"}}

\* Grafana's notifications: one alert, or a group of two.
Notifications ==
    {<<n>> : n \in UNION {One(a) : a \in Alerts \ {TestAlert}}}
        \cup {<<n, m>> : n, m \in UNION {One(a) : a \in Alerts \ {TestAlert}}}

NotifierNext ==
    \/ \E n \in Notifications : NotifierReceive(n)
    \/ \E a \in Alerts : Ack(a)
    \/ RaiseTest
    \/ NotifierTick
    \/ \E c \in Names, r \in {"ok", "retry", "fail"} : LinkChanges(c, r)

\* The tick loop outlives any one exception (run()), so ticks never stop; Tick
\* is always enabled, so its fairness is that it happens infinitely often.
NotifierSpec == NotifierInit /\ [][NotifierNext]_notifierVars /\ []<><<second' # second>>_second

-----------------------------------------------------------------------------
Kinds == {"firing", "resolved", "ack", "repeat"}

\* The state has the shape the code gives it: a book entry is present or not,
\* ages and deadlines are counted in ticks, and the deque holds _Pending items.
NotifierTypeOK ==
    /\ active \in [Alerts -> {"none", "firing", "acked"}]
    /\ \A c \in Names : age[c] \in [Alerts -> 0..RepeatS[c]]
    /\ second \in 0..1
    /\ reach \in [Names -> {"ok", "retry", "fail"}]
    /\ told \in [Names -> [Alerts -> {"no", "yes", "lost"}]]
    /\ word \in [Names -> [Alerts -> Kinds \cup {"none"}]]
    /\ late \in BOOLEAN
    /\ \A i \in DOMAIN notifierQueue :
          notifierQueue[i] \in [chan : Names, kind : Kinds, alert : Alerts, attempts : Nat,
                                due : Int, left : Int, aged : Nat]

\* An alert that is in the book has reached every channel that wants it, or is
\* still queued for it, or the channel refused it or ran out its deadline: no
\* interleaving of outages, retries, repeats and acknowledgements loses one
\* silently (Dispatcher._attempt, pump and _retry together).
NoSilentLoss ==
    \A c \in Names, a \in Alerts :
        active[a] # "none" /\ Wants(c, a) =>
            \/ told[c][a] # "no"
            \/ \E i \in DOMAIN notifierQueue :
                  notifierQueue[i].chan = c /\ notifierQueue[i].alert = a /\ Fires(notifierQueue[i].kind)

\* The retry deadline is counted from the first failure and never renewed: no
\* message is delivered more than retry_deadline_s after it was raised.
DeadlineHonoured == ~late

\* A delivery leaves the queue at most one backoff after its deadline, whatever
\* the channel does, so the queue cannot hold anything for ever.
QueueForgets ==
    \A i \in DOMAIN notifierQueue : notifierQueue[i].aged <= RetryDeadline + Backoff[Len(Backoff)]

\* On the channels that cannot fail, the last message about an alert is the
\* state of the alert in the book: the announcements of two requests are never
\* interleaved or reordered, because each is made under the service lock.
LocalWordIsState ==
    \A c \in Names \cap Local, a \in Alerts :
        Wants(c, a) /\ word[c][a] # "none" =>
            CASE active[a] = "firing" -> Fires(word[c][a])
              [] active[a] = "acked"  -> word[c][a] = "ack"
              [] active[a] = "none"   -> ~Fires(word[c][a])

\* An alert nobody acknowledges is repeated again and again on a repeating
\* channel that is reachable (Dispatcher.repeat_due from the one-second tick).
RepeatsUntilAcked ==
    \A c \in Names, a \in Alerts :
        RepeatS[c] > 0 /\ Wants(c, a) =>
            (<>[](active[a] = "firing" /\ reach[c] = "ok") => []<>(age[c][a] = 0))

=============================================================================
