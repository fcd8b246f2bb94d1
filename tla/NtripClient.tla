---------------------------- MODULE NtripClient ----------------------------
(***************************************************************************)
(* The pit's correction client: a connection to the caster, dialled again  *)
(* with backoff, whose bytes are published as they come, and beside it the *)
(* feed of the car's position for casters that want one                    *)
(* (pit/ntrip_client/service.py, ntrip.py, health.py).                     *)
(***************************************************************************)
EXTENDS Integers, Sequences, FiniteSets

CONSTANTS
    NtripBackoffStart, NtripBackoffMax,  \* _CONNECT_BACKOFF_START_S, _MAX_S
    AuthRetry,                  \* _AUTH_ERROR_RETRY_S
    IdleTimeout,                \* idle_timeout_s
    GgaInterval,                \* gga_interval_s
    MaxFixes,                   \* fixes of the car
    NtripMaxFaults

VARIABLES
    ntripPhase,  \* "nats", "dial", "sleep", "stream", "publish", "ended"
    ntripWait,  \* time left of a sleep
    ntripBackoff,  \* of the NATS connection, then of the caster's
    after,      \* "nats", "dial": what the sleep is before
    idle,       \* time since the last chunk, while streaming
    connected,  \* health.connected
    gga,        \* time to gga_due
    feed,       \* the position task: "off", "scan", "sleep", "live", "ended"
    feedWait, feedBackoff,
    lat, lon,   \* _last_lat, _last_lon: the fix they are of, 0 for none
    fix,        \* fixes the car has made
    ntripDue,   \* channels of the last fix not yet arrived
    dialled,    \* time since a dial last failed for its credentials, or for
    refused,    \* another reason; and the backoff that was in force then
    refusedFor,
    ntripFaults

Caster == <<ntripPhase, ntripWait, ntripBackoff, after, idle, connected, gga>>
Feed == <<feed, feedWait, feedBackoff, lat, lon>>
History == <<dialled, refused, refusedFor>>
ntripVars == <<Caster, Feed, fix, ntripDue, History, ntripFaults>>

Long == AuthRetry + NtripBackoffMax + 1  \* longer than any wait

Doubled(b) == IF 2 * b < NtripBackoffMax THEN 2 * b ELSE NtripBackoffMax

NtripInit ==
    /\ ntripPhase = "nats" /\ ntripWait = 0 /\ ntripBackoff = NtripBackoffStart /\ after = "nats"
    /\ idle = 0 /\ connected = FALSE /\ gga = 0
    /\ feed = "off" /\ feedWait = 0 /\ feedBackoff = NtripBackoffStart
    /\ lat = 0 /\ lon = 0 /\ fix = 0 /\ ntripDue = {}
    /\ dialled = Long /\ refused = Long /\ refusedFor = 0
    /\ ntripFaults = 0

Fault == ntripFaults < NtripMaxFaults /\ ntripFaults' = ntripFaults + 1

-----------------------------------------------------------------------------
(* The NATS connection. *)

\* _connect_nats succeeds: run starts the caster loop and the position task.
ConnectNats ==
    /\ ntripPhase = "nats"
    /\ ntripPhase' = "dial" /\ ntripBackoff' = NtripBackoffStart
    /\ feed' = "scan" /\ feedBackoff' = NtripBackoffStart /\ feedWait' = 0
    /\ UNCHANGED <<ntripWait, after, idle, connected, gga, lat, lon, fix, ntripDue, History,
                   ntripFaults>>

ConnectNatsFails ==
    /\ ntripPhase = "nats" /\ Fault
    /\ ntripPhase' = "sleep" /\ after' = "nats" /\ ntripWait' = ntripBackoff /\ ntripBackoff' = Doubled(ntripBackoff)
    /\ UNCHANGED <<idle, connected, gga, Feed, fix, ntripDue, History>>

-----------------------------------------------------------------------------
(* _caster_loop. *)

\* connect completes the handshake: the backoff starts again.
Dial ==
    /\ ntripPhase = "dial"
    /\ ntripPhase' = "stream" /\ ntripBackoff' = NtripBackoffStart
    /\ connected' = TRUE /\ idle' = 0 /\ gga' = GgaInterval
    /\ UNCHANGED <<ntripWait, after, Feed, fix, ntripDue, History, ntripFaults>>

\* Variant: a refusal of the credentials is final.
DialRejectedStops ==
    /\ ntripPhase = "dial" /\ Fault
    /\ ntripPhase' = "sleep" /\ after' = "sleep" /\ ntripWait' = AuthRetry
    /\ dialled' = 0
    /\ UNCHANGED <<ntripBackoff, idle, connected, gga, Feed, fix, ntripDue, refused,
                   refusedFor>>

\* The caster refuses the credentials.
DialRejected ==
    /\ ntripPhase = "dial" /\ Fault
    /\ ntripPhase' = "sleep" /\ after' = "dial" /\ ntripWait' = AuthRetry
    /\ dialled' = 0
    /\ UNCHANGED <<ntripBackoff, idle, connected, gga, Feed, fix, ntripDue, refused,
                   refusedFor>>

\* Any other status, an unknown answer, no answer or no connection.
NtripDialFails ==
    /\ ntripPhase = "dial" /\ Fault
    /\ ntripPhase' = "sleep" /\ after' = "dial" /\ ntripWait' = ntripBackoff /\ ntripBackoff' = Doubled(ntripBackoff)
    /\ refused' = 0 /\ refusedFor' = ntripBackoff
    /\ UNCHANGED <<idle, connected, gga, Feed, fix, ntripDue, dialled>>

\* _sleep_unless is over.
Wake ==
    /\ ntripPhase = "sleep" /\ ntripWait = 0
    /\ ntripPhase' = after
    /\ UNCHANGED <<ntripWait, ntripBackoff, after, idle, connected, gga, Feed, fix,
                   ntripDue, History, ntripFaults>>

\* _stream: a chunk is read ...
ReadChunk ==
    /\ ntripPhase = "stream"
    /\ ntripPhase' = "publish" /\ idle' = 0
    /\ UNCHANGED <<ntripWait, ntripBackoff, after, connected, gga, Feed, fix, ntripDue,
                   History, ntripFaults>>

\* ... published, and the position sent upstream when it is time.
PublishChunk ==
    /\ ntripPhase = "publish"
    /\ ntripPhase' = "stream"
    /\ gga' = IF gga = 0 THEN GgaInterval ELSE gga
    /\ UNCHANGED <<ntripWait, ntripBackoff, after, idle, connected, Feed, fix, ntripDue,
                   History, ntripFaults>>

\* read_chunk times out: a dead caster, dialled again at once.
CasterSilent ==
    /\ ntripPhase = "stream" /\ idle >= IdleTimeout
    /\ ntripPhase' = "dial" /\ idle' = 0 /\ connected' = FALSE
    /\ UNCHANGED <<ntripWait, ntripBackoff, after, gga, Feed, fix, ntripDue, History,
                   ntripFaults>>

\* The caster closes: the same empty read, dialled again at once.
CasterCloses ==
    /\ ntripPhase = "stream" /\ Fault
    /\ ntripPhase' = "dial" /\ idle' = 0 /\ connected' = FALSE
    /\ UNCHANGED <<ntripWait, ntripBackoff, after, gga, Feed, fix, ntripDue, History>>

\* A reset connection, or a failing publish: raised out of _caster_loop, it
\* ends run and the process.
StreamRaises ==
    /\ ntripPhase \in {"stream", "publish"} /\ Fault
    /\ ntripPhase' = "ended" /\ idle' = 0 /\ connected' = FALSE
    /\ feed' = "ended" /\ feedWait' = 0
    /\ UNCHANGED <<ntripWait, ntripBackoff, after, gga, feedBackoff, lat, lon, fix,
                   ntripDue, History>>

\* The container starts it again.
NtripRestart ==
    /\ ntripPhase = "ended"
    /\ ntripPhase' = "nats" /\ ntripWait' = 0 /\ ntripBackoff' = NtripBackoffStart /\ after' = "nats"
    /\ gga' = 0
    /\ feed' = "off" /\ feedWait' = 0 /\ feedBackoff' = NtripBackoffStart
    /\ lat' = 0 /\ lon' = 0
    /\ dialled' = Long /\ refused' = Long
    /\ UNCHANGED <<idle, connected, fix, ntripDue, refusedFor, ntripFaults>>

-----------------------------------------------------------------------------
(* _track_position. *)

\* The registries are read and the subscription made.
FeedSubscribes ==
    /\ feed = "scan"
    /\ feed' = "live" /\ feedBackoff' = NtripBackoffStart
    /\ UNCHANGED <<Caster, feedWait, lat, lon, fix, ntripDue, History, ntripFaults>>

FeedSubscribeFails ==
    /\ feed = "scan" /\ Fault
    /\ feed' = "sleep" /\ feedWait' = feedBackoff /\ feedBackoff' = Doubled(feedBackoff)
    /\ UNCHANGED <<Caster, lat, lon, fix, ntripDue, History>>

FeedWakes ==
    /\ feed = "sleep" /\ feedWait = 0
    /\ feed' = "scan"
    /\ UNCHANGED <<Caster, feedWait, feedBackoff, lat, lon, fix, ntripDue, History,
                   ntripFaults>>

\* _consume_position: the samples of one batch; a fix may come in two.
ConsumePosition(channels) ==
    /\ feed = "live" /\ channels # {} /\ channels \subseteq ntripDue
    /\ lat' = IF "lat" \in channels THEN fix ELSE lat
    /\ lon' = IF "lon" \in channels THEN fix ELSE lon
    /\ ntripDue' = ntripDue \ channels
    /\ UNCHANGED <<Caster, feed, feedWait, feedBackoff, fix, History, ntripFaults>>

\* A payload that does not parse: the task ends, the corrections go on.
FeedEnds ==
    /\ feed = "live" /\ Fault
    /\ feed' = "ended"
    /\ UNCHANGED <<Caster, feedWait, feedBackoff, lat, lon, fix, ntripDue, History>>

\* The car makes a fix; what is not taken from the last one is lost.
CarMoves ==
    /\ fix < MaxFixes
    /\ ntripDue = {} \/ feed # "live"
    /\ fix' = fix + 1 /\ ntripDue' = {"lat", "lon"}
    /\ UNCHANGED <<Caster, Feed, History, ntripFaults>>

-----------------------------------------------------------------------------

Less(t) == IF t > 0 THEN t - 1 ELSE 0
More(t) == IF t < Long THEN t + 1 ELSE t

\* Time passes while both tasks wait for something.
NtripTick ==
    /\ (ntripPhase = "sleep" /\ ntripWait > 0) \/ (ntripPhase = "stream" /\ idle < IdleTimeout)
    /\ ~(feed = "sleep" /\ feedWait = 0)
    /\ ntripWait' = Less(ntripWait) /\ feedWait' = Less(feedWait) /\ gga' = Less(gga)
    /\ idle' = IF ntripPhase = "stream" THEN idle + 1 ELSE idle
    /\ dialled' = More(dialled) /\ refused' = More(refused)
    /\ UNCHANGED <<ntripPhase, ntripBackoff, after, connected, feed, feedBackoff, lat, lon, fix, ntripDue,
                   refusedFor, ntripFaults>>

NtripNext ==
    \/ ConnectNats \/ ConnectNatsFails
    \/ Dial \/ DialRejected \/ NtripDialFails \/ Wake
    \/ ReadChunk \/ PublishChunk \/ CasterSilent \/ CasterCloses \/ StreamRaises \/ NtripRestart
    \/ FeedSubscribes \/ FeedSubscribeFails \/ FeedWakes \/ FeedEnds \/ CarMoves
    \/ \E c \in SUBSET {"lat", "lon"} : ConsumePosition(c)
    \/ NtripTick

NtripFairness ==
    /\ WF_ntripVars(NtripTick) /\ WF_ntripVars(Wake) /\ WF_ntripVars(Dial) /\ WF_ntripVars(ConnectNats)
    /\ WF_ntripVars(CasterSilent) /\ WF_ntripVars(NtripRestart) /\ WF_ntripVars(FeedWakes)

NtripSpec == NtripInit /\ [][NtripNext]_ntripVars /\ NtripFairness

-----------------------------------------------------------------------------

\* The variables keep their types.
NtripTypeOK ==
    /\ ntripPhase \in {"nats", "dial", "sleep", "stream", "publish", "ended"}
    /\ ntripWait \in 0..AuthRetry \cup 0..NtripBackoffMax /\ ntripBackoff \in NtripBackoffStart..NtripBackoffMax
    /\ idle \in 0..IdleTimeout /\ gga \in 0..GgaInterval
    /\ lat \in 0..fix /\ lon \in 0..fix

\* The caster is not hammered: a dial after a refusal of the credentials comes
\* no sooner than _AUTH_ERROR_RETRY_S, and one after any other failure no sooner
\* than the backoff then in force.
NotHammered ==
    ntripPhase = "dial" => dialled >= AuthRetry /\ (refused >= refusedFor \/ refused = Long)

\* Health says connected exactly while there is a connection to read from,
\* whichever way the last one ended.
ConnectedIsTrue == connected <=> ntripPhase \in {"stream", "publish"}

\* The position sent upstream is of one fix unless that fix is just arriving,
\* however the feed failed in between.
PositionOfOneFix ==
    feed = "live" /\ ntripDue = {} /\ lat # 0 /\ lon # 0 => lat = lon

\* A position once known is sent for as long as the process runs, whatever
\* becomes of the feed.
PositionKept ==
    [][lat # 0 /\ lon # 0 /\ ntripPhase # "ended" => lat' # 0 /\ lon' # 0]_ntripVars

\* The corrections come back: whatever fails, the caster is streamed from
\* again and again.
CorrectionsResume == []<>(ntripPhase \in {"stream", "publish"})
=============================================================================
