-------------------------- MODULE ChannelIdentity --------------------------
(***************************************************************************)
(* What a channel number means, from the profile to the database.  A       *)
(* process that starts builds its catalog from the profile, takes the      *)
(* registry generation from the state file beside it under a file lock,    *)
(* and publishes the registry: generation, and the names its wire ids      *)
(* stand for.  The ingest writer records each registry it is handed, any   *)
(* number of times and in any order, and its own synthetic channels.       *)
(*                                                                         *)
(* Profiles are edited while processes run and start; a process can die at *)
(* any step; a power cut can take back the last rename of the state file.  *)
(***************************************************************************)
EXTENDS Integers, Sequences, FiniteSets, SequencesExt

CONSTANTS
    Starters,       \* processes that build the catalog of this profile
    Names,          \* channel names
    SourceOf,       \* the source reference a catalog gives each name
    Profiles,       \* [catalog, derived]: sequences of names
    First,          \* the one the car is delivered with
    DerivedStart,   \* DERIVED_ID_START
    Synthetic,      \* SyntheticChannel names, in order
    MaxSeq,         \* the last registry_seq, 2^32 - 1
    NoOne,          \* nobody holds the lock
    MaxEdits, IdentityMaxFaults

VARIABLES
    profile,        \* what is on disk now
    identityState,  \* the state file: [hash, seq], seq 0 when there is none
    durable,        \* what the disk would show after a power cut
    lock,           \* who holds the flock of the state file
    identityPhase, loaded, number,  \* of each starter
    published,      \* registries on the wire: [seq, entries]
    channels,       \* table channels: name -> [key, by]
    channelMap,     \* table channel_map: {[seq, wire, key]}
    reverted,       \* history: a power cut took a rename back
    edits, identityFaults

identityVars == <<profile, identityState, durable, lock, identityPhase, loaded, number, published, channels,
                  channelMap, reverted, edits, identityFaults>>
files == <<profile, identityState, durable, reverted>>
identityTables == <<channels, channelMap>>
starter == <<lock, identityPhase, loaded, number>>

\* A process that runs or is gone has no use for what it read.
Forget(s) ==
    /\ loaded' = [loaded EXCEPT ![s] = First]
    /\ number' = [number EXCEPT ![s] = 0]

Spend == identityFaults < IdentityMaxFaults /\ identityFaults' = identityFaults + 1

-----------------------------------------------------------------------------
(* The catalog.                                                            *)

\* _add_mapping and the duplicate checks: what build_runtime_catalog refuses.
Buildable(p) ==
    /\ IsInjective(p.catalog \o p.derived)
    /\ \A i, j \in DOMAIN p.catalog :
          SourceOf[p.catalog[i]] = SourceOf[p.catalog[j]] => i = j

\* build_runtime_catalog: the catalog from one, the derived channels from
\* their own range.
Entries(p) ==
    [i \in DOMAIN p.catalog |-> [id |-> i, name |-> p.catalog[i]]]
    \o [i \in DOMAIN p.derived |-> [id |-> DerivedStart + i - 1, name |-> p.derived[i]]]

\* registry_hash: of the catalog and the derived channels.
Hash(p) == p

\* load_profile: the files as they are when the process starts, or starts again:
\* one that runs on what it built is at rest here.
Load(s) ==
    /\ identityPhase[s] = "rest"
    /\ loaded' = [loaded EXCEPT ![s] = profile]
    /\ identityPhase' = [identityPhase EXCEPT ![s] = "loaded"]
    /\ UNCHANGED <<files, lock, number, published, identityTables, edits, identityFaults>>

\* The generation of a catalog: the last one's if nothing changed, else the next.
Generation(s) ==
    IF identityState.seq > 0 /\ identityState.hash = Hash(loaded[s]) THEN identityState.seq ELSE identityState.seq + 1

\* What the read under the lock leads to: past the last generation the process
\* does not start, an unchanged catalog needs no write.
Numbered(s) ==
    IF Generation(s) > MaxSeq
    THEN /\ identityPhase' = [identityPhase EXCEPT ![s] = "rest"]
         /\ Forget(s)
    ELSE /\ identityPhase' = [identityPhase EXCEPT ![s] =
                          IF Generation(s) = identityState.seq THEN "numbered" ELSE "writing"]
         /\ number' = [number EXCEPT ![s] = Generation(s)]
         /\ UNCHANGED loaded

\* Variant: nobody waits for the lock.
LockIgnored(s) ==
    /\ identityPhase[s] = "loaded"
    /\ Numbered(s)
    /\ UNCHANGED <<files, lock, published, identityTables, edits, identityFaults>>

\* _update_registry_state: flock(LOCK_EX), and read the state file.
Lock(s) ==
    /\ identityPhase[s] = "loaded" /\ lock = NoOne
    /\ Numbered(s)
    /\ lock' = IF identityPhase'[s] = "writing" THEN s ELSE NoOne
    /\ UNCHANGED <<files, published, identityTables, edits, identityFaults>>

\* _write_registry_state: the temporary file is synced and renamed, and the lock
\* released; the rename itself reaches the disk later.
Replace(s) ==
    /\ identityPhase[s] = "writing"
    /\ identityState' = [hash |-> Hash(loaded[s]), seq |-> number[s]]
    /\ identityPhase' = [identityPhase EXCEPT ![s] = "numbered"]
    /\ lock' = NoOne
    /\ UNCHANGED <<profile, durable, reverted, loaded, number, published, identityTables,
                   edits, identityFaults>>

\* The file system writes the directory back.
Settle ==
    /\ durable # identityState
    /\ durable' = identityState
    /\ UNCHANGED <<profile, identityState, reverted, starter, published, identityTables,
                   edits, identityFaults>>

\* The rest of build_runtime_catalog and the publish: duplicates end the start,
\* with the generation already spent.
IdentityPublish(s) ==
    /\ identityPhase[s] = "numbered"
    /\ identityPhase' = [identityPhase EXCEPT ![s] = "rest"]
    /\ published' = IF Buildable(loaded[s])
                    THEN published \cup {[seq |-> number[s], entries |-> Entries(loaded[s])]}
                    ELSE published
    /\ Forget(s)
    /\ UNCHANGED <<files, lock, identityTables, edits, identityFaults>>

\* An operator edits or redeploys the profile, at any moment.
Edit ==
    /\ edits < MaxEdits /\ edits' = edits + 1
    /\ profile' \in Profiles \ {profile}
    /\ UNCHANGED <<identityState, durable, reverted, starter, published, identityTables,
                   identityFaults>>

\* The process dies; the kernel releases its flock. A temporary file stays.
Crash(s) ==
    /\ identityPhase[s] # "rest" /\ Spend
    /\ identityPhase' = [identityPhase EXCEPT ![s] = "rest"]
    /\ lock' = IF lock = s THEN NoOne ELSE lock
    /\ Forget(s)
    /\ UNCHANGED <<files, published, identityTables, edits>>

\* The power goes: every process dies and an unsettled rename may be undone.
PowerCut ==
    /\ Spend
    /\ identityPhase' = [s \in Starters |-> "rest"]
    /\ lock' = NoOne
    /\ identityState' \in {identityState, durable}
    /\ durable' = identityState'
    /\ reverted' = (reverted \/ identityState' # identityState)
    /\ loaded' = [s \in Starters |-> First]
    /\ number' = [s \in Starters |-> 0]
    /\ UNCHANGED <<profile, published, identityTables, edits>>

-----------------------------------------------------------------------------
(* The database.                                                           *)

NewKey(table) == Cardinality(DOMAIN table) + 1

With(table, name, by) ==
    [n \in DOMAIN table \cup {name} |->
        IF n # name THEN table[n]
        ELSE IF name \in DOMAIN table THEN [table[n] EXCEPT !.by = by]
        ELSE [key |-> NewKey(table), by |-> by]]

\* INSERT ... ON CONFLICT (vehicle_id, name) DO UPDATE: the key stays.
Upsert(table, names) == FoldSeq(LAMBDA name, t : With(t, name, "vehicle"), table, names)

\* INSERT ... ON CONFLICT DO NOTHING, then SELECT: the row stays as it is.
InsertSynthetic(table, names) ==
    FoldSeq(LAMBDA name, t : IF name \in DOMAIN t THEN t ELSE With(t, name, "synthetic"), table, names)

\* channel_map's ON CONFLICT (registry_seq, wire_id) DO UPDATE.
Mapped(entries) ==
    {e \in channelMap : ~ \E f \in entries : f.seq = e.seq /\ f.wire = e.wire} \cup entries

\* upsert_registry: one transaction for the whole registry, first time or not.
UpsertRegistry ==
    /\ \E r \in published :
          LET table == Upsert(channels, [i \in DOMAIN r.entries |-> r.entries[i].name]) IN
          /\ channels' = table
          /\ channelMap' = Mapped({[seq |-> r.seq, wire |-> e.id, key |-> table[e.name].key] :
                                      e \in Range(r.entries)})
    /\ UNCHANGED <<files, starter, published, edits, identityFaults>>

\* upsert_synthetic_channels: generation zero, each under its own key.
UpsertSyntheticChannels ==
    LET table == InsertSynthetic(channels, Synthetic) IN
    /\ channels' = table
    /\ channelMap' = Mapped({[seq |-> 0, wire |-> table[n].key, key |-> table[n].key] :
                                n \in Range(Synthetic)})
    /\ UNCHANGED <<files, starter, published, edits, identityFaults>>

-----------------------------------------------------------------------------
IdentityInit ==
    /\ profile = First
    /\ identityState = [hash |-> First, seq |-> 0] /\ durable = identityState
    /\ lock = NoOne
    /\ identityPhase = [s \in Starters |-> "rest"]
    /\ loaded = [s \in Starters |-> First]
    /\ number = [s \in Starters |-> 0]
    /\ published = {} /\ channels = <<>> /\ channelMap = {}
    /\ reverted = FALSE /\ edits = 0 /\ identityFaults = 0

IdentityStart(s) == Lock(s) \/ Replace(s) \/ IdentityPublish(s)

IdentityNext ==
    \/ \E s \in Starters : Load(s) \/ IdentityStart(s) \/ Crash(s)
    \/ Settle \/ Edit \/ PowerCut \/ UpsertRegistry \/ UpsertSyntheticChannels

IdentitySpec == IdentityInit /\ [][IdentityNext]_identityVars

-----------------------------------------------------------------------------
(* Properties.                                                             *)

\* Types of the files, the starters and the tables.
IdentityTypeOK ==
    /\ profile \in Profiles
    /\ identityState.seq \in 0 .. MaxSeq /\ durable.seq \in 0 .. MaxSeq
    /\ lock \in Starters \cup {NoOne}
    /\ identityPhase \in [Starters -> {"rest", "loaded", "writing", "numbered"}]
    /\ number \in [Starters -> 0 .. MaxSeq]
    /\ DOMAIN channels \subseteq Names
    /\ \A e \in channelMap : e.seq \in 0 .. MaxSeq

\* build_runtime_catalog with the state file: a generation stands for one list
\* of channels for ever, whoever starts, edits or dies in between; only a power
\* cut that undoes the last rename can make two of one number.
OneMeaning ==
    reverted \/ \A r, q \in published : r.seq = q.seq => r.entries = q.entries

\* upsert_registry: a channel's key outlives every generation it appears in and
\* belongs to no other channel.
KeyIsForever ==
    /\ DOMAIN channels \subseteq DOMAIN channels'
    /\ \A n \in DOMAIN channels : channels'[n].key = channels[n].key
    /\ \A n, o \in DOMAIN channels' : channels'[n].key = channels'[o].key => n = o

\* channel_map: a wire id of a recorded generation leads to the name the vehicle
\* meant by it, after any replay of older registries and with the writer's own
\* channels in the same table.
RightChannel ==
    reverted \/
    \A r \in published, m \in channelMap :
        m.seq = r.seq => \E e \in Range(r.entries) : /\ e.id = m.wire
                                                     /\ e.name \in DOMAIN channels
                                                     /\ channels[e.name].key = m.key

\* upsert_synthetic_channels: it never takes over the units and the type of a
\* channel that the vehicle's registry has described.
VehicleDescribes ==
    \A n \in DOMAIN channels : channels[n].by = "vehicle" => channels'[n].by = "vehicle"
=============================================================================
