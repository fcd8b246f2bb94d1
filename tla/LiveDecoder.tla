---------------------------- MODULE LiveDecoder ----------------------------
(***************************************************************************)
(* The live-decoder's knowledge of the car and of its own view             *)
(* (pit/live_decoder: service.py run, _scan_registries, _handle_message,   *)
(* _add_registry, _reload; reload.py; pit/registry_cache.py).              *)
(*                                                                         *)
(* A registry generation gives channel numbers their names.  The service   *)
(* scans the generations the stream retains, then subscribes to what is    *)
(* new; the car restarts, republishes its registry now and then, and sends *)
(* batches of its current generation.  The view file may be edited at any  *)
(* moment, also between the two reads a poll makes of it.                  *)
(***************************************************************************)
EXTENDS Naturals, Sequences, FiniteSets

CONSTANTS
    Names,      \* generation -> the names of the channels 1, 2, ... in it
    Files,      \* what the view file may hold: [vehicle, rules], or Broken
    MaxInbox,   \* bound on messages waiting at the subscription
    MaxEdits,   \* bound on edits of the file
    DecoderMaxFaults  \* bound on slow scans and decoder restarts

VARIABLES
    car,        \* the generation the car publishes under, 0 before the first
    catalog,    \* the generations whose registry the stream holds
    inbox,      \* messages delivered to the subscription and not yet handled
    phase,      \* start, scan, gap, live, or poll: mid-reload
    scanned,    \* generations the scan has been sent
    decoderKnown,  \* RegistryCache: the generations held
    unknown,    \* RegistryCache.unknown_seqs
    last,       \* _last_registry
    gauge,      \* history: the last sample decoded, with its true generation
    decoderFile,  \* the view file
    mtime,      \* its modification time
    stat,       \* the time the current poll read
    config,     \* the configuration in force
    seen,       \* ConfigReloader.mtime_ns
    unmatched,  \* health.unmatched_rules
    raced,      \* history: the file changed between the constructor's reads
    missed,     \* history: what the stream held and the cache did not, when going live
    decoderFaults  \* slow scans and restarts so far

decoderVars == <<car, catalog, inbox, phase, scanned, decoderKnown, unknown, last, gauge, decoderFile, mtime, stat,
                 config, seen, unmatched, raced, decoderFaults, missed>>

World == <<car, catalog, decoderFile, mtime>>
Cache == <<decoderKnown, unknown, last>>
Reader == <<stat, config, seen, raced>>

Generations == DOMAIN Names
\* A file that is missing, or does not parse or validate.
Broken == [vehicle |-> "none", rules |-> {}]
NoGauge == [gen |-> 0, id |-> 0, name |-> "none"]
Registry(g) == [kind |-> "registry", gen |-> g, id |-> 0]
Batch(g, i) == [kind |-> "batch", gen |-> g, id |-> i]
Malformed == [kind |-> "malformed", gen |-> 0, id |-> 0]

ToSeqSet(s) == {s[i] : i \in DOMAIN s}

\* _resolve_vehicle: the file names no car, or the deployment's.
VehicleAgrees(f) == f.vehicle \in {"none", "car"}

Loadable(f) == f # Broken

\* LiveConfig.unmatched_rules, and nothing before the first registry.
UnmatchedRules(cfg, g) == IF g = 0 THEN {} ELSE cfg.rules \ ToSeqSet(Names[g])

DecoderInit ==
    /\ car = 0
    /\ catalog = {}
    /\ inbox = <<>>
    /\ phase = "start"
    /\ scanned = {}
    /\ decoderKnown = {}
    /\ unknown = {}
    /\ last = 0
    /\ gauge = NoGauge
    /\ decoderFile \in {f \in Files : Loadable(f) /\ VehicleAgrees(f)}
    /\ mtime = 0
    /\ stat = 0
    /\ config = decoderFile
    /\ seen = 0
    /\ unmatched = {}
    /\ raced = FALSE
    /\ missed = {}
    /\ decoderFaults = 0

\* A message reaches the stream; a live subscription is sent it.
Deliver(m) ==
    inbox' = IF phase \in {"live", "poll"} THEN Append(inbox, m) ELSE inbox

\* The car starts under its next generation, or republishes its registry.
CarPublishesRegistry ==
    /\ Len(inbox) < MaxInbox
    /\ \/ car + 1 \in Generations /\ car' = car + 1
       \/ car # 0 /\ car' = car
    /\ catalog' = catalog \cup {car'}
    /\ Deliver(Registry(car'))
    /\ UNCHANGED <<phase, scanned, Cache, gauge, decoderFile, mtime, Reader, unmatched,
                   decoderFaults, missed>>

CarPublishesBatch ==
    /\ car # 0
    /\ Len(inbox) < MaxInbox
    /\ \E i \in DOMAIN Names[car] : \E m \in {Batch(car, i), Malformed} : Deliver(m)
    /\ UNCHANGED <<World, phase, scanned, Cache, gauge, Reader, unmatched, decoderFaults,
                   missed>>

\* Someone saves the view file.
Edit(f) ==
    /\ mtime < MaxEdits
    /\ f # decoderFile
    /\ decoderFile' = f
    /\ mtime' = mtime + 1
    /\ raced' = (raced \/ phase = "start")
    /\ UNCHANGED <<car, catalog, inbox, phase, scanned, Cache, gauge, stat, config, seen,
                   unmatched, decoderFaults, missed>>

\* LiveDecoder.__init__: the constructor of the reloader has loaded the file
\* and only now reads its time.
StatFile ==
    /\ phase = "start"
    /\ phase' = "scan"
    /\ seen' = mtime
    /\ UNCHANGED <<World, inbox, scanned, Cache, gauge, stat, config, unmatched, raced,
                   decoderFaults, missed>>

\* _add_registry and RegistryCache.add_registry.
AddRegistry(g) ==
    /\ decoderKnown' = decoderKnown \cup {g}
    /\ unknown' = unknown \ {g}
    /\ last' = g
    /\ unmatched' = UnmatchedRules(config, g)

\* _scan_registries: one retained registry, in stream order.
Scan(g) ==
    /\ phase = "scan"
    /\ g \in catalog \ scanned
    /\ \A h \in catalog \ scanned : g <= h
    /\ scanned' = scanned \cup {g}
    /\ AddRegistry(g)
    /\ UNCHANGED <<World, inbox, phase, gauge, Reader, decoderFaults, missed>>

\* A second without a message ends the scan: everything was read, or the
\* server was slow.
ScanEnds ==
    /\ phase = "scan"
    /\ \/ catalog = scanned /\ UNCHANGED decoderFaults
       \/ catalog # scanned /\ decoderFaults < DecoderMaxFaults /\ decoderFaults' = decoderFaults + 1
    /\ phase' = "gap"
    /\ UNCHANGED <<World, inbox, scanned, Cache, gauge, Reader, unmatched, missed>>

\* _subscribe with DeliverPolicy.NEW.
DecoderSubscribe ==
    /\ phase = "gap"
    /\ phase' = "live"
    /\ inbox' = <<>>
    /\ missed' = catalog \ decoderKnown
    /\ UNCHANGED <<World, scanned, Cache, gauge, Reader, unmatched, decoderFaults>>


\* RegistryCache.decode_batch: only against its own generation.
Decode(m) ==
    IF m.gen \in decoderKnown
    THEN /\ gauge' = [gen |-> m.gen, id |-> m.id, name |-> Names[m.gen][m.id]]
         /\ UNCHANGED unknown
    ELSE /\ unknown' = unknown \cup {m.gen}
         /\ UNCHANGED gauge

\* _handle_message: a registry, a batch, or something that does not parse.
DecoderHandle ==
    /\ phase = "live"
    /\ inbox # <<>>
    /\ inbox' = Tail(inbox)
    /\ LET m == Head(inbox)
       IN  CASE m.kind = "registry"  -> AddRegistry(m.gen) /\ UNCHANGED gauge
             [] m.kind = "batch"     -> Decode(m) /\ UNCHANGED <<decoderKnown, last, unmatched>>
             [] m.kind = "malformed" -> UNCHANGED <<Cache, gauge, unmatched>>
    /\ UNCHANGED <<World, phase, scanned, Reader, decoderFaults, missed>>

\* ConfigReloader.poll, first read: the time of the file.
PollStats ==
    /\ phase = "live"
    /\ stat' = mtime
    /\ phase' = IF mtime = seen THEN "live" ELSE "poll"
    /\ UNCHANGED <<World, inbox, scanned, Cache, gauge, config, seen, unmatched, raced,
                   decoderFaults, missed>>

\* SIGHUP: the poll reads the file whatever its time.
ForcedPoll ==
    /\ phase = "live"
    /\ stat' = mtime
    /\ phase' = "poll"
    /\ UNCHANGED <<World, inbox, scanned, Cache, gauge, config, seen, unmatched, raced,
                   decoderFaults, missed>>

\* ConfigReloader.poll, second read, and _reload: a file that does not load
\* changes nothing and will be tried again; one that names another car is
\* noted and refused; any other is in force at once.
PollLoads ==
    /\ phase = "poll"
    /\ phase' = "live"
    /\ IF ~Loadable(decoderFile) THEN UNCHANGED <<config, seen, raced, unmatched>>
       ELSE /\ seen' = stat
            /\ raced' = FALSE
            /\ IF VehicleAgrees(decoderFile)
               THEN config' = decoderFile /\ unmatched' = UnmatchedRules(decoderFile, last)
               ELSE UNCHANGED <<config, unmatched>>
    /\ UNCHANGED <<World, inbox, scanned, Cache, gauge, stat, decoderFaults, missed>>

\* The process is started again with a file it can use.
DecoderRestart ==
    /\ decoderFaults < DecoderMaxFaults
    /\ decoderFaults' = decoderFaults + 1
    /\ Loadable(decoderFile) /\ VehicleAgrees(decoderFile)
    /\ phase' = "start"
    /\ inbox' = <<>>
    /\ scanned' = {}
    /\ decoderKnown' = {}
    /\ unknown' = {}
    /\ last' = 0
    /\ config' = decoderFile
    /\ unmatched' = {}
    /\ raced' = FALSE
    /\ missed' = {}
    /\ UNCHANGED <<World, gauge, stat, seen>>

DecoderNext ==
    \/ CarPublishesRegistry
    \/ CarPublishesBatch
    \/ \E f \in Files : Edit(f)
    \/ StatFile
    \/ \E g \in Generations : Scan(g)
    \/ ScanEnds
    \/ DecoderSubscribe
    \/ DecoderHandle
    \/ PollStats
    \/ ForcedPoll
    \/ PollLoads
    \/ DecoderRestart

DecoderSpec == DecoderInit /\ [][DecoderNext]_decoderVars

-----------------------------------------------------------------------------
\* The state has the shape the code gives it.
DecoderTypeOK ==
    /\ phase \in {"start", "scan", "gap", "live", "poll"}
    /\ catalog \cup scanned \cup decoderKnown \cup unknown \subseteq Generations
    /\ last \in decoderKnown \cup {0}
    /\ config \in Files /\ Loadable(config) /\ VehicleAgrees(config)
    /\ Len(inbox) <= MaxInbox
    /\ {stat, seen} \subseteq 0..MaxEdits

\* A number on a gauge is the channel the car meant: a sample is only ever read
\* with the registry of its own generation, also when that one was missed
\* between the scan and the subscription (the hard equality of
\* decode_batch).
RightMeaning ==
    gauge # NoGauge => gauge.name = Names[gauge.gen][gauge.id]

\* The rules reported as matching nothing are those of the view in force
\* against the latest registry, whichever of the two changed last.
UnmatchedIsCurrent == unmatched = UnmatchedRules(config, last)

\* A file whose time has been noted is in force, if it can be: an edit between
\* the two reads of a poll leaves the old time noted, and is picked up by the
\* next poll.  The constructor reads in the other order, and an edit between
\* its reads is excused.
NotedIsInForce ==
    /\ phase \in {"live", "gap", "scan"}
    /\ seen = mtime
    /\ Loadable(decoderFile) /\ VehicleAgrees(decoderFile)
    /\ ~raced
    => config = decoderFile

\* A live decoder lacks only generations it could not have been sent: their
\* registry was published between the scan and the subscription, or a slow
\* scan left it behind, and it has not been republished since.
MissedOnlyAtStart ==
    phase \in {"live", "poll"} =>
        catalog \subseteq decoderKnown \cup missed \cup {inbox[i].gen : i \in DOMAIN inbox}
=============================================================================
