---------------------------- MODULE LiveLimiter ----------------------------
(***************************************************************************)
(* The live-decoder from a decoded batch to the broker                     *)
(* (pit/live_decoder: limiter.py ConflatingLimiter, service.py _consume,   *)
(* _handle_message and MqttSink).                                          *)
(*                                                                         *)
(* Two tasks share the sink: the consumer, whose every iteration is one    *)
(* step because it does not await between a message and its submits, and   *)
(* the sender, which awaits the broker.  Time is counted in ticks, Tps to  *)
(* the second, and kept relative; the aggregate budget is counted in       *)
(* 1/Tps of an update, so that a tick refills total_max_hz of them.  The   *)
(* value of a channel is its number in the order it was sampled.           *)
(***************************************************************************)
EXTENDS Integers, Sequences, SequencesExt, FiniteSets, FiniteSetsExt

CONSTANTS
    Chans,       \* the channels, as numbers: the order of their names
    Views,       \* the views a reload may bring: [hz : Chans -> -1, 0 or the
                 \* limit in Hz, total : total_max_hz]
    Tps,         \* ticks per second, a multiple of every limit
    QueueSize,   \* mqtt_queue_size
    Batches,     \* the channels of the samples of a batch, in order
    MaxOffers,   \* bound on the samples of a channel
    LimiterMaxFaults  \* bound on reloads and broker failures

VARIABLES
    view,        \* the view in force
    limiterPending,  \* _ChannelState.pending: the value waiting, 0 for none
    due,         \* ticks until next_due
    rank,        \* the order of last_published, 0 for never
    tokens,      \* _aggregate_tokens
    limiterConnected,  \* MqttSink.connected
    limited,     \* MqttSink._limited, in insertion order
    unlimited,   \* MqttSink._unlimited
    newest,      \* history: the last value sampled while selected
    shown,       \* history: the last value published
    excused,     \* history: the newest value was shed, dropped or discarded
    burst,       \* history: updates admitted since the channel was last due
    shed,        \* history: the budget turned an update away under this view
    mixed,       \* history: a reload lifted the limit of a queued channel
    limiterFaults  \* reloads and failures so far

limiterVars == <<view, limiterPending, due, rank, tokens, limiterConnected, limited, unlimited, newest, shown,
                 excused, burst, shed, mixed, limiterFaults>>

Update(c, v, conflate) == [chan |-> c, value |-> v, conflate |-> conflate]

\* 1 / max_hz, in ticks; an unlimited channel is due at once.
Interval(vw, c) == IF vw.hz[c] > 0 THEN Tps \div vw.hz[c] ELSE 0

\* _refill_aggregate: the bucket holds one second's worth, and at least one.
Capacity(vw) == Tps * (IF vw.total > 1 THEN vw.total ELSE 1)

Now == [view |-> view, pending |-> limiterPending, due |-> due, rank |-> rank, tokens |-> tokens,
        limited |-> limited, unlimited |-> unlimited, newest |-> newest,
        excused |-> excused, burst |-> burst, shed |-> shed, cands |-> <<>>]

Become(d) ==
    /\ view' = d.view
    /\ limiterPending' = d.pending
    /\ due' = d.due
    /\ rank' = d.rank
    /\ tokens' = d.tokens
    /\ limited' = d.limited
    /\ unlimited' = d.unlimited
    /\ newest' = d.newest
    /\ excused' = d.excused
    /\ burst' = d.burst
    /\ shed' = d.shed

\* ConflatingLimiter.offer: not selected, unlimited, due, or waiting in the
\* place of an older value.
Offer(d, c) ==
    LET v == d.newest[c] + 1
        seen == [d EXCEPT !.newest[c] = v, !.excused[c] = FALSE]
    IN  CASE d.view.hz[c] = -1 -> d
          [] d.view.hz[c] = 0  -> [seen EXCEPT !.cands = Append(@, Update(c, v, FALSE))]
          [] d.view.hz[c] > 0 /\ d.due[c] = 0 ->
                [seen EXCEPT !.cands = Append(@, Update(c, v, TRUE)), !.pending[c] = 0]
          [] OTHER -> [seen EXCEPT !.pending[c] = v]

\* Recently published first, then the later name (the sorts of drain and admit).
Before(d, u, w) ==
    \/ d.rank[u.chan] > d.rank[w.chan]
    \/ d.rank[u.chan] = d.rank[w.chan] /\ u.chan > w.chan

Ranked(d, cands) ==
    LET pos == [i \in DOMAIN cands |->
                   1 + Cardinality({j \in DOMAIN cands :
                          \/ Before(d, cands[j], cands[i])
                          \/ j < i /\ cands[j].chan = cands[i].chan})]
    IN  [n \in DOMAIN cands |-> cands[CHOOSE i \in DOMAIN cands : pos[i] = n]]

\* ConflatingLimiter.drain: every waiting value that has come due.
LimiterDrain(d) ==
    LET ready == {c \in Chans : d.pending[c] # 0 /\ d.due[c] = 0}
    IN  [d EXCEPT !.cands = @ \o Ranked(d, SetToSeq({Update(c, d.pending[c], TRUE) : c \in ready})),
                  !.pending = [c \in Chans |-> IF c \in ready THEN 0 ELSE @[c]]]

\* ConflatingLimiter.conflate_candidates: the newest of a limited channel, in
\* the place of its first.
ConflateCandidates(d) ==
    LET put(acc, u) ==
            LET at == {i \in DOMAIN acc : acc[i].chan = u.chan}
            IN  IF u.conflate /\ at # {} THEN [acc EXCEPT ![Min(at)] = u] ELSE Append(acc, u)
    IN  [d EXCEPT !.cands = FoldLeft(put, <<>>, @)]

\* The order of last_published after this batch: its channels are the latest.
Reranked(rk, chans) ==
    LET kept == {rk[c] : c \in Chans \ chans} \ {0}
    IN  [c \in Chans |-> IF c \in chans THEN Cardinality(kept) + 1
                         ELSE Cardinality({r \in kept : r <= rk[c]})]

\* ConflatingLimiter.admit: as many as the budget has whole updates, the most
\* recently published channels first; the others are shed.
Admit(d) ==
    LET ranked == Ranked(d, d.cands)
        available == IF d.view.total = 0 THEN Len(ranked)
                     ELSE Min({Len(ranked), d.tokens \div Tps})
        accepted == SubSeq(ranked, 1, available)
        rejected == SubSeq(ranked, available + 1, Len(ranked))
        chans == {accepted[i].chan : i \in DOMAIN accepted}
    IN  [d EXCEPT !.cands = accepted,
                  !.rank = Reranked(@, chans),
                  !.due = [c \in Chans |-> IF c \in chans THEN Interval(d.view, c) ELSE @[c]],
                  !.tokens = IF d.view.total = 0 THEN @ ELSE @ - Tps * Len(accepted),
                  !.excused = [c \in Chans |->
                                  @[c] \/ \E i \in DOMAIN rejected : rejected[i].chan = c],
                  !.burst = [c \in Chans |-> @[c] + Cardinality(
                                {i \in DOMAIN accepted : accepted[i].chan = c})],
                  !.shed = @ \/ rejected # <<>>]

\* MqttSink.submit: dropped without a broker, into the place of a queued older
\* value, dropped when the queue is full, or queued.
LimiterSubmit(d, u) ==
    LET at == {i \in DOMAIN d.limited : d.limited[i].chan = u.chan}
    IN  CASE ~limiterConnected -> [d EXCEPT !.excused[u.chan] = TRUE]
          [] limiterConnected /\ u.conflate /\ at # {} -> [d EXCEPT !.limited[Min(at)] = u]
          [] OTHER -> IF Len(d.limited) + Len(d.unlimited) >= QueueSize
                      THEN [d EXCEPT !.excused[u.chan] = TRUE]
                      ELSE IF u.conflate THEN [d EXCEPT !.limited = Append(@, u)]
                           ELSE [d EXCEPT !.unlimited = Append(@, u)]

\* _publish
LimiterPublish(d) == FoldLeft(LimiterSubmit, d, d.cands)

\* ConflatingLimiter.reconfigure: every channel starts anew under the view, and
\* what was waiting is discarded.
Reconfigure(d, vw) ==
    [d EXCEPT !.view = vw,
              !.pending = [c \in Chans |-> 0],
              !.due = [c \in Chans |-> 0],
              !.rank = [c \in Chans |-> 0],
              !.tokens = Capacity(vw),
              !.excused = [c \in Chans |-> @[c] \/ d.pending[c] # 0],
              !.burst = [c \in Chans |-> 0],
              !.shed = FALSE]

LimiterInit ==
    /\ view \in Views
    /\ limiterPending = [c \in Chans |-> 0]
    /\ due = [c \in Chans |-> 0]
    /\ rank = [c \in Chans |-> 0]
    /\ tokens = Capacity(view)
    /\ limiterConnected = FALSE
    /\ limited = <<>>
    /\ unlimited = <<>>
    /\ newest = [c \in Chans |-> 0]
    /\ shown = [c \in Chans |-> 0]
    /\ excused = [c \in Chans |-> FALSE]
    /\ burst = [c \in Chans |-> 0]
    /\ shed = FALSE
    /\ mixed = FALSE
    /\ limiterFaults = 0

\* _handle_message: the samples are offered, what has come due is added, and
\* the batch is conflated, admitted and submitted as one.
LimiterHandle(batch) == LimiterPublish(Admit(ConflateCandidates(LimiterDrain(FoldLeft(Offer, Now, batch)))))

\* One iteration of _consume with a batch.
Consume(batch) ==
    /\ \A c \in Chans : newest[c] + Len(SelectSeq(batch, LAMBDA x : x = c)) <= MaxOffers
    /\ Become(LimiterHandle(batch))
    /\ UNCHANGED <<limiterConnected, shown, mixed, limiterFaults>>

\* One iteration that timed out: only what has come due.
LimiterIdle ==
    /\ \E c \in Chans : limiterPending[c] # 0 /\ due[c] = 0
    /\ Become(LimiterPublish(Admit(LimiterDrain(Now))))
    /\ UNCHANGED <<limiterConnected, shown, mixed, limiterFaults>>

\* One iteration that timed out and found the file changed (_reload).
Reload(vw) ==
    /\ limiterFaults < LimiterMaxFaults
    /\ limiterFaults' = limiterFaults + 1
    /\ vw # view
    /\ Become(Reconfigure(LimiterPublish(Admit(LimiterDrain(Now))), vw))
    /\ mixed' = (mixed \/ \E c \in Chans : view.hz[c] > 0 /\ vw.hz[c] <= 0)
    /\ UNCHANGED <<limiterConnected, shown>>

\* A tick passes: the next iteration finds next_due nearer and the bucket
\* fuller (_refill_aggregate).
LimiterTick ==
    /\ \/ \E c \in Chans : due[c] > 0
       \/ view.total # 0 /\ tokens < Capacity(view)
    /\ due' = [c \in Chans |-> IF due[c] > 0 THEN due[c] - 1 ELSE 0]
    /\ burst' = [c \in Chans |-> IF due[c] <= 1 THEN 0 ELSE burst[c]]
    /\ tokens' = IF view.total = 0 THEN tokens
                 ELSE Min({Capacity(view), tokens + view.total})
    /\ UNCHANGED <<view, limiterPending, rank, limiterConnected, limited, unlimited, newest, shown, excused,
                   shed, mixed, limiterFaults>>

\* MqttSink.run: the client connects.
LimiterConnect ==
    /\ ~limiterConnected
    /\ limiterConnected' = TRUE
    /\ UNCHANGED <<view, limiterPending, due, rank, tokens, limited, unlimited, newest, shown, excused,
                   burst, shed, mixed, limiterFaults>>

\* _next_pending: unlimited updates first, then the limited in their order.
NextPending == IF unlimited # <<>> THEN Head(unlimited) ELSE Head(limited)

\* The sender takes the next update and publishes it.
LimiterSend ==
    /\ limiterConnected
    /\ limited \o unlimited # <<>>
    /\ unlimited' = IF unlimited # <<>> THEN Tail(unlimited) ELSE unlimited
    /\ limited' = IF unlimited # <<>> THEN limited ELSE Tail(limited)
    /\ shown' = [shown EXCEPT ![NextPending.chan] = NextPending.value]
    /\ UNCHANGED <<view, limiterPending, due, rank, tokens, limiterConnected, newest, excused, burst, shed,
                   mixed, limiterFaults>>

\* The broker fails the publish: the update is lost, and the queue with it
\* (_drop_queued).
LimiterSendFails ==
    /\ limiterFaults < LimiterMaxFaults
    /\ limiterFaults' = limiterFaults + 1
    /\ limiterConnected
    /\ limited \o unlimited # <<>>
    /\ limiterConnected' = FALSE
    /\ limited' = <<>>
    /\ unlimited' = <<>>
    /\ excused' = [c \in Chans |->
                      excused[c] \/ \E i \in DOMAIN (limited \o unlimited) :
                                       (limited \o unlimited)[i].chan = c]
    /\ UNCHANGED <<view, limiterPending, due, rank, tokens, newest, shown, burst, shed, mixed>>

LimiterNext ==
    \/ \E b \in Batches : Consume(b)
    \/ LimiterIdle
    \/ \E vw \in Views : Reload(vw)
    \/ LimiterTick
    \/ LimiterConnect
    \/ LimiterSend
    \/ LimiterSendFails

LimiterSpec == LimiterInit /\ [][LimiterNext]_limiterVars

-----------------------------------------------------------------------------
\* The state has the shape the code gives it.
LimiterTypeOK ==
    /\ view \in Views
    /\ limiterPending \in [Chans -> 0..MaxOffers]
    /\ due \in [Chans -> 0..Tps]
    /\ rank \in [Chans -> 0..Cardinality(Chans)]
    /\ tokens \in 0..Capacity(view)
    /\ Len(limited) + Len(unlimited) <= QueueSize
    /\ shown \in [Chans -> 0..MaxOffers]

LimiterQueued(c) ==
    LET all == unlimited \o limited
    IN  {all[i].value : i \in {j \in DOMAIN all : all[j].chan = c}}

\* A gauge never goes back to an older value: a channel's updates leave in the
\* order they were sampled, through waiting, conflation and the sink's two
\* queues.  One case is excused: a reload that lifts the limit of a channel,
\* whose older value then waits behind its newer ones in the other queue.
NeverBackwards ==
    [][~mixed => \A c \in Chans : shown'[c] >= shown[c]]_limiterVars

\* The newest value of a channel is on the gauge, or waiting or queued, unless
\* it was shed, dropped or discarded: conflation only ever discards what is not
\* the newest.
NewestNotLost ==
    \A c \in Chans :
        newest[c] # shown[c] /\ ~excused[c] /\ ~mixed =>
            newest[c] \in LimiterQueued(c) \cup {limiterPending[c]}

\* No limited channel is admitted twice in one interval, whatever was waiting,
\* in the batch or drained.
RateHonoured ==
    \A c \in Chans : view.hz[c] > 0 => burst[c] <= 1

\* When the limits fit the aggregate budget, nothing is shed: the bucket of one
\* second's worth is always enough for channels of at least 1 Hz whose limits
\* add up to no more than total_max_hz.
FitsBudget(vw) ==
    /\ \A c \in Chans : vw.hz[c] \in {-1} \cup (1..Tps)
    /\ FoldFunctionOnSet(LAMBDA h, s : IF h > 0 THEN h + s ELSE s, 0, vw.hz, Chans) <= vw.total

NoShedWithinBudget == FitsBudget(view) => ~shed
=============================================================================
