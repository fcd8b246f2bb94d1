------------------------------ MODULE Migrate ------------------------------
(***************************************************************************)
(* Applying the pit database's migrations (pit/db/migrate.py): several     *)
(* appliers, as when two services that both migrate start together, each   *)
(* with the files of its own image, an advisory lock, and one transaction  *)
(* per file that also records it.  An applier may fail or lose its session *)
(* at any step and be started again.                                       *)
(***************************************************************************)
EXTENDS Integers, FiniteSets

CONSTANTS
    Appliers,
    Versions,   \* the migrations, in filename order
    Dir,        \* the files of each applier's image
    RoleFrom,   \* the first migration that needs the deployment role
    NoOne,      \* the lock is free
    MaxFaults

ASSUME VersionsAssumption == Versions \subseteq Nat
ASSUME DirAssumption == Dir \in [Appliers -> SUBSET Versions]
ASSUME NoOneAssumption == NoOne \notin Appliers
ASSUME RoleAssumption == RoleFrom \in Nat

\* An image has every migration before any it has.
ASSUME PrefixAssumption ==
    \A a \in Appliers : \A v \in Dir[a] : \A u \in Versions : u < v => u \in Dir[a]

VARIABLES
    pc,         \* where each applier is
    todo,       \* its pending files
    table,      \* schema_migrations exists
    applied,    \* the versions recorded in it
    ran,        \* how often each file's statements were committed
    holder,     \* of the advisory lock
    role,       \* appliers whose session has the role settings
    faults

vars == <<pc, todo, table, applied, ran, holder, role, faults>>

Locked == {"relook", "role", "apply", "unlock", "fail"}
Steps == {"look", "create", "lock", "done", "failed", "down"} \cup Locked

Init ==
    /\ pc = [a \in Appliers |-> "look"]
    /\ todo = [a \in Appliers |-> {}]
    /\ table = FALSE
    /\ applied = {}
    /\ ran = [v \in Versions |-> 0]
    /\ holder = NoOne
    /\ role = {}
    /\ faults = 0

\* pending: the files on disk that are not recorded.
Pending(a) == Dir[a] \ applied

\* applied_versions and pending, before the lock, once the table exists.
Look(a) ==
    /\ pc[a] = "look" /\ table
    /\ todo' = [todo EXCEPT ![a] = Pending(a)]
    /\ pc' = [pc EXCEPT ![a] = IF Pending(a) = {} THEN "done" ELSE "lock"]
    /\ UNCHANGED <<table, applied, ran, holder, role, faults>>

\* CREATE TABLE IF NOT EXISTS finds no table: it is creating one.
CreateBegins(a) ==
    /\ pc[a] = "look" /\ ~table
    /\ pc' = [pc EXCEPT ![a] = "create"]
    /\ UNCHANGED <<todo, table, applied, ran, holder, role, faults>>

\* Two creators: the second is refused the name, else the table is there.
CreateEnds(a) ==
    /\ pc[a] = "create"
    /\ pc' = [pc EXCEPT ![a] = IF table THEN "failed" ELSE "look"]
    /\ table' = TRUE
    /\ UNCHANGED <<todo, applied, ran, holder, role, faults>>

\* pg_advisory_lock waits for the holder.
Lock(a) ==
    /\ pc[a] = "lock" /\ holder = NoOne
    /\ holder' = a
    /\ pc' = [pc EXCEPT ![a] = "relook"]
    /\ UNCHANGED <<todo, table, applied, ran, role, faults>>

\* Variant: what was pending before the lock is applied.
RelookTrusts(a) ==
    /\ pc[a] = "relook"
    /\ pc' = [pc EXCEPT ![a] = IF \E v \in todo[a] : v >= RoleFrom THEN "role" ELSE "apply"]
    /\ UNCHANGED <<todo, table, applied, ran, holder, role, faults>>

\* pending again, under the lock.
Relook(a) ==
    /\ pc[a] = "relook"
    /\ todo' = [todo EXCEPT ![a] = Pending(a)]
    /\ pc' = [pc EXCEPT ![a] = IF \E v \in Pending(a) : v >= RoleFrom THEN "role" ELSE "apply"]
    /\ UNCHANGED <<table, applied, ran, holder, role, faults>>

\* _configure_grafana_role.
Configure(a) ==
    /\ pc[a] = "role"
    /\ role' = role \cup {a}
    /\ pc' = [pc EXCEPT ![a] = "apply"]
    /\ UNCHANGED <<todo, table, applied, ran, holder, faults>>

\* One round of _apply_each: the first file left, run and recorded together.
Apply(a, v) ==
    /\ pc[a] = "apply" /\ v \in todo[a] /\ \A u \in todo[a] : v <= u
    /\ ran' = [ran EXCEPT ![v] = @ + 1]
    /\ applied' = applied \cup {v}
    /\ todo' = [todo EXCEPT ![a] = @ \ {v}]
    /\ UNCHANGED <<pc, table, holder, role, faults>>

\* The loop is over.
Applied(a) ==
    /\ pc[a] = "apply" /\ todo[a] = {}
    /\ pc' = [pc EXCEPT ![a] = "unlock"]
    /\ UNCHANGED <<todo, table, applied, ran, holder, role, faults>>

\* A setting is missing, or a file's transaction is rolled back.
Fail(a) ==
    /\ pc[a] = "role" \/ (pc[a] = "apply" /\ todo[a] # {})
    /\ faults < MaxFaults /\ faults' = faults + 1
    /\ pc' = [pc EXCEPT ![a] = "fail"]
    /\ UNCHANGED <<todo, table, applied, ran, holder, role>>

\* The finally clause of apply_migrations.
Unlock(a) ==
    /\ pc[a] \in {"unlock", "fail"}
    /\ holder' = NoOne
    /\ pc' = [pc EXCEPT ![a] = IF pc[a] = "unlock" THEN "done" ELSE "failed"]
    /\ UNCHANGED <<todo, table, applied, ran, role, faults>>

\* The session ends, and with it its lock and its settings.
Crash(a) ==
    /\ pc[a] \notin {"done", "failed", "down"}
    /\ faults < MaxFaults /\ faults' = faults + 1
    /\ pc' = [pc EXCEPT ![a] = "down"]
    /\ holder' = IF holder = a THEN NoOne ELSE holder
    /\ role' = role \ {a}
    /\ UNCHANGED <<todo, table, applied, ran>>

\* openlaps-migrate is run again, in a new session.
Restart(a) ==
    /\ pc[a] \in {"down", "failed"}
    /\ pc' = [pc EXCEPT ![a] = "look"]
    /\ role' = role \ {a}
    /\ UNCHANGED <<todo, table, applied, ran, holder, faults>>

Step(a) ==
    \/ Look(a) \/ CreateBegins(a) \/ CreateEnds(a) \/ Lock(a) \/ Relook(a) \/ Configure(a)
    \/ (\E v \in Versions : Apply(a, v)) \/ Applied(a) \/ Unlock(a)

Next == \E a \in Appliers : Step(a) \/ Fail(a) \/ Crash(a) \/ Restart(a)

Spec == Init /\ [][Next]_vars

\* Every applier that can go on does, and a lock that keeps coming free is
\* granted to each that waits (PostgreSQL queues them).  Nobody is sure to
\* start a one-shot again.
FairSpec == Spec /\ \A a \in Appliers : SF_vars(Step(a))

-----------------------------------------------------------------------------

\* The variables keep their types; an applier only lists files of its image.
TypeOK ==
    /\ pc \in [Appliers -> Steps]
    /\ todo \in [Appliers -> SUBSET Versions] /\ \A a \in Appliers : todo[a] \subseteq Dir[a]
    /\ table \in BOOLEAN
    /\ applied \in SUBSET Versions
    /\ ran \in [Versions -> Nat]
    /\ holder \in Appliers \cup {NoOne}
    /\ role \in SUBSET Appliers
    /\ faults \in Nat

\* A migration's statements are committed once, with its record, whoever
\* applies it and however often an applier fails or starts again.
OnceEach == \A v \in Versions : ran[v] = IF v \in applied THEN 1 ELSE 0

\* The database has every migration before any it has.
InOrder == \A v \in applied : \A u \in Versions : u < v => u \in applied

\* At most one applier is between lock and unlock.
OneAtATime == \A a, b \in Appliers : pc[a] \in Locked /\ pc[b] \in Locked => a = b

\* A migration that grants to the role runs in a session that has its name,
\* set since that session began.
RoleIsSet ==
    [][\A a \in Appliers : \A v \in applied' \ applied :
          v >= RoleFrom /\ pc[a] = "apply" => a \in role]_vars

\* An applier that reports success leaves none of its files out.
DoneIsApplied == \A a \in Appliers : pc[a] = "done" => Dir[a] \subseteq applied

\* Whatever appliers race, fail or start over, the database has been migrated by
\* one at a time, each file once and in order, and nobody reports more than that.
AppliedSafely == TypeOK /\ OnceEach /\ InOrder /\ OneAtATime /\ DoneIsApplied

\* No applier waits for ever on the lock of one that failed or went away.
LockIsGranted == \A a \in Appliers : []<>(pc[a] # "lock")
=============================================================================
