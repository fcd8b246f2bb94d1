--------------------------- MODULE MigrateProofs ---------------------------
(***************************************************************************)
(* Migrate's safety, proved for any number of appliers, migrations and     *)
(* failures.                                                               *)
(***************************************************************************)
EXTENDS Migrate, TLAPS

\* The lock is held by exactly the applier that is between lock and unlock.
LockIsHeld == \A a \in Appliers : pc[a] \in Locked <=> holder = a

\* Under the lock, an applier's list is what the database still lacks.
ListIsFresh == \A a \in Appliers : pc[a] \in {"role", "apply"} => todo[a] = Pending(a)

\* Past the role step, a list that needs the role finds it set.
RoleBeforeUse ==
    \A a \in Appliers : pc[a] = "apply" /\ (\E v \in todo[a] : v >= RoleFrom) => a \in role

\* An applier that ends well has nothing left.
NothingLeft == \A a \in Appliers : pc[a] \in {"unlock", "done"} => Dir[a] \subseteq applied

\* The inductive invariant.
IInv ==
    /\ TypeOK /\ LockIsHeld /\ OnceEach /\ InOrder
    /\ ListIsFresh /\ RoleBeforeUse /\ NothingLeft

-----------------------------------------------------------------------------

\* The invariant holds in an empty database before any applier has looked.
LEMMA InitIInv == Init => IInv
  <1>. SUFFICES ASSUME Init PROVE IInv  OBVIOUS
  <1>1. TypeOK  BY NoOneAssumption DEF Init, TypeOK, Steps, Locked
  <1>2. LockIsHeld  BY NoOneAssumption DEF Init, LockIsHeld, Locked
  <1>3. OnceEach /\ InOrder  BY DEF Init, OnceEach, InOrder
  <1>4. ListIsFresh /\ RoleBeforeUse /\ NothingLeft
    BY DEF Init, ListIsFresh, RoleBeforeUse, NothingLeft
  <1>. QED  BY <1>1, <1>2, <1>3, <1>4 DEF IInv

\* A step that applies nothing keeps what the database has.
LEMMA QuietStep ==
    ASSUME OnceEach, InOrder, UNCHANGED <<applied, ran>>
    PROVE  OnceEach' /\ InOrder'
  BY DEF OnceEach, InOrder

\* Applying the first file left keeps the order and the single commit.
LEMMA ApplyKeeps ==
    ASSUME IInv, NEW a \in Appliers, NEW v \in Versions, Apply(a, v)
    PROVE  IInv'
  <1>. USE DEF IInv, Apply
  <1>1. pc[a] = "apply" /\ holder = a /\ todo[a] = Dir[a] \ applied /\ v \in Dir[a] \ applied
    BY DEF LockIsHeld, Locked, ListIsFresh, Pending
  <1>2. TypeOK'  BY DirAssumption DEF TypeOK
  <1>3. LockIsHeld'  BY DEF LockIsHeld
  <1>4. OnceEach'  BY <1>1 DEF OnceEach, TypeOK
  <1>5. InOrder'
    <2>1. \A u \in Versions : u < v => u \in applied
      BY <1>1, PrefixAssumption, DirAssumption, VersionsAssumption
    <2>. QED  BY <2>1 DEF InOrder
  <1>6. \A b \in Appliers : b # a => pc[b] \notin Locked
    BY <1>1 DEF LockIsHeld
  <1>7. ListIsFresh'
    <2>1. todo'[a] = Dir[a] \ applied'  BY <1>1 DEF TypeOK
    <2>. QED  BY <2>1, <1>6 DEF ListIsFresh, Locked, Pending, TypeOK
  <1>8. RoleBeforeUse'
    <2>1. \A b \in Appliers : todo'[b] \subseteq todo[b]  BY DEF TypeOK
    <2>. QED  BY <2>1 DEF RoleBeforeUse
  <1>9. NothingLeft'  BY DEF NothingLeft
  <1>. QED  BY <1>2, <1>3, <1>4, <1>5, <1>7, <1>8, <1>9

\* Every step of every applier keeps the invariant.
LEMMA NextIInv == IInv /\ [Next]_vars => IInv'
  <1>. SUFFICES ASSUME IInv, [Next]_vars PROVE IInv'  OBVIOUS
  <1>. USE DEF IInv
  <1>a. TypeOK  OBVIOUS
  <1>1. ASSUME NEW a \in Appliers, Look(a) PROVE IInv'
    <2>. USE <1>1 DEF Look
    <2>1. TypeOK'  BY DirAssumption DEF TypeOK, Steps, Locked, Pending
    <2>2. LockIsHeld'  BY <1>a DEF LockIsHeld, Locked, TypeOK
    <2>3. OnceEach' /\ InOrder'  BY QuietStep
    <2>4. ListIsFresh' /\ RoleBeforeUse'
      BY <1>a DEF ListIsFresh, RoleBeforeUse, Pending, TypeOK
    <2>5. NothingLeft'  BY <1>a DEF NothingLeft, Pending, TypeOK
    <2>. QED  BY <2>1, <2>2, <2>3, <2>4, <2>5
  <1>2. ASSUME NEW a \in Appliers, CreateBegins(a) PROVE IInv'
    <2>. USE <1>2 DEF CreateBegins
    <2>1. TypeOK'  BY DEF TypeOK, Steps, Locked
    <2>2. LockIsHeld'  BY <1>a DEF LockIsHeld, Locked, TypeOK
    <2>3. OnceEach' /\ InOrder'  BY QuietStep
    <2>4. ListIsFresh' /\ RoleBeforeUse' /\ NothingLeft'
      BY <1>a DEF ListIsFresh, RoleBeforeUse, NothingLeft, Pending, TypeOK
    <2>. QED  BY <2>1, <2>2, <2>3, <2>4
  <1>3. ASSUME NEW a \in Appliers, CreateEnds(a) PROVE IInv'
    <2>. USE <1>3 DEF CreateEnds
    <2>1. TypeOK'  BY DEF TypeOK, Steps, Locked
    <2>2. LockIsHeld'  BY <1>a DEF LockIsHeld, Locked, TypeOK
    <2>3. OnceEach' /\ InOrder'  BY QuietStep
    <2>4. ListIsFresh' /\ RoleBeforeUse' /\ NothingLeft'
      BY <1>a DEF ListIsFresh, RoleBeforeUse, NothingLeft, Pending, TypeOK
    <2>. QED  BY <2>1, <2>2, <2>3, <2>4
  <1>4. ASSUME NEW a \in Appliers, Lock(a) PROVE IInv'
    <2>. USE <1>4 DEF Lock
    <2>1. TypeOK'  BY DEF TypeOK, Steps, Locked
    <2>2. LockIsHeld'  BY <1>a, NoOneAssumption DEF LockIsHeld, Locked, TypeOK
    <2>3. OnceEach' /\ InOrder'  BY QuietStep
    <2>4. ListIsFresh' /\ RoleBeforeUse' /\ NothingLeft'
      BY <1>a DEF ListIsFresh, RoleBeforeUse, NothingLeft, Pending, TypeOK
    <2>. QED  BY <2>1, <2>2, <2>3, <2>4
  <1>5. ASSUME NEW a \in Appliers, Relook(a) PROVE IInv'
    <2>. USE <1>5 DEF Relook
    <2>1. TypeOK'  BY DirAssumption DEF TypeOK, Steps, Locked, Pending
    <2>2. LockIsHeld'  BY <1>a DEF LockIsHeld, Locked, TypeOK
    <2>3. OnceEach' /\ InOrder'  BY QuietStep
    <2>4. ListIsFresh'  BY <1>a DEF ListIsFresh, Pending, TypeOK
    <2>5. RoleBeforeUse'  BY <1>a DEF RoleBeforeUse, Pending, TypeOK
    <2>6. NothingLeft'  BY <1>a DEF NothingLeft, Pending, TypeOK
    <2>. QED  BY <2>1, <2>2, <2>3, <2>4, <2>5, <2>6
  <1>6. ASSUME NEW a \in Appliers, Configure(a) PROVE IInv'
    <2>. USE <1>6 DEF Configure
    <2>1. TypeOK'  BY DEF TypeOK, Steps, Locked
    <2>2. LockIsHeld'  BY <1>a DEF LockIsHeld, Locked, TypeOK
    <2>3. OnceEach' /\ InOrder'  BY QuietStep
    <2>4. ListIsFresh'  BY <1>a DEF ListIsFresh, Pending, TypeOK
    <2>5. RoleBeforeUse' /\ NothingLeft'  BY <1>a DEF RoleBeforeUse, NothingLeft, TypeOK
    <2>. QED  BY <2>1, <2>2, <2>3, <2>4, <2>5
  <1>7. ASSUME NEW a \in Appliers, Applied(a) PROVE IInv'
    <2>. USE <1>7 DEF Applied
    <2>1. TypeOK'  BY DEF TypeOK, Steps, Locked
    <2>2. LockIsHeld'  BY <1>a DEF LockIsHeld, Locked, TypeOK
    <2>3. OnceEach' /\ InOrder'  BY QuietStep
    <2>4. ListIsFresh' /\ RoleBeforeUse'
      BY <1>a DEF ListIsFresh, RoleBeforeUse, Pending, TypeOK
    <2>5. NothingLeft'  BY <1>a DEF NothingLeft, ListIsFresh, Pending, TypeOK
    <2>. QED  BY <2>1, <2>2, <2>3, <2>4, <2>5
  <1>8. ASSUME NEW a \in Appliers, Unlock(a) PROVE IInv'
    <2>. USE <1>8 DEF Unlock
    <2>1. TypeOK'  BY DEF TypeOK, Steps, Locked
    <2>2. LockIsHeld'  BY <1>a, NoOneAssumption DEF LockIsHeld, Locked, TypeOK
    <2>3. OnceEach' /\ InOrder'  BY QuietStep
    <2>4. ListIsFresh' /\ RoleBeforeUse' /\ NothingLeft'
      BY <1>a DEF ListIsFresh, RoleBeforeUse, NothingLeft, Pending, TypeOK
    <2>. QED  BY <2>1, <2>2, <2>3, <2>4
  <1>9. ASSUME NEW a \in Appliers, Fail(a) PROVE IInv'
    <2>. USE <1>9 DEF Fail
    <2>1. TypeOK'  BY DEF TypeOK, Steps, Locked
    <2>2. LockIsHeld'  BY <1>a DEF LockIsHeld, Locked, TypeOK
    <2>3. OnceEach' /\ InOrder'  BY QuietStep
    <2>4. ListIsFresh' /\ RoleBeforeUse' /\ NothingLeft'
      BY <1>a DEF ListIsFresh, RoleBeforeUse, NothingLeft, Pending, TypeOK
    <2>. QED  BY <2>1, <2>2, <2>3, <2>4
  <1>10. ASSUME NEW a \in Appliers, Crash(a) PROVE IInv'
    <2>. USE <1>10 DEF Crash
    <2>1. TypeOK'  BY DEF TypeOK, Steps, Locked
    <2>2. LockIsHeld'  BY <1>a, NoOneAssumption DEF LockIsHeld, Locked, TypeOK
    <2>3. OnceEach' /\ InOrder'  BY QuietStep
    <2>4. ListIsFresh' /\ RoleBeforeUse' /\ NothingLeft'
      BY <1>a DEF ListIsFresh, RoleBeforeUse, NothingLeft, Pending, TypeOK
    <2>. QED  BY <2>1, <2>2, <2>3, <2>4
  <1>11. ASSUME NEW a \in Appliers, Restart(a) PROVE IInv'
    <2>. USE <1>11 DEF Restart
    <2>1. TypeOK'  BY DEF TypeOK, Steps, Locked
    <2>2. LockIsHeld'  BY <1>a DEF LockIsHeld, Locked, TypeOK
    <2>3. OnceEach' /\ InOrder'  BY QuietStep
    <2>4. ListIsFresh' /\ RoleBeforeUse' /\ NothingLeft'
      BY <1>a DEF ListIsFresh, RoleBeforeUse, NothingLeft, Pending, TypeOK
    <2>. QED  BY <2>1, <2>2, <2>3, <2>4
  <1>12. CASE UNCHANGED vars
    BY <1>12 DEF vars, TypeOK, LockIsHeld, OnceEach, InOrder, ListIsFresh, RoleBeforeUse,
                 NothingLeft, Pending
  <1>. QED
    BY <1>1, <1>2, <1>3, <1>4, <1>5, <1>6, <1>7, <1>8, <1>9, <1>10, <1>11, <1>12, ApplyKeeps
    DEF Next, Step

\* The invariant holds in every state of every behaviour.
LEMMA AlwaysIInv == Spec => []IInv
  BY InitIInv, NextIInv, PTL DEF Spec

-----------------------------------------------------------------------------

\* However many appliers race, fail and are run again, each migration's
\* statements are committed exactly once, with its record (_apply_each).
THEOREM MigrateOnceEach == Spec => []OnceEach
  <1>1. IInv => OnceEach  BY DEF IInv
  <1>. QED  BY <1>1, AlwaysIInv, PTL

\* Migrations land in filename order: none is in the database without all
\* before it (discover, _apply_each).
THEOREM MigrateInOrder == Spec => []InOrder
  <1>1. IInv => InOrder  BY DEF IInv
  <1>. QED  BY <1>1, AlwaysIInv, PTL

\* The advisory lock keeps two appliers from migrating at once
\* (apply_migrations).
THEOREM MigrateOneAtATime == Spec => []OneAtATime
  <1>1. IInv => OneAtATime  BY DEF IInv, LockIsHeld, OneAtATime
  <1>. QED  BY <1>1, AlwaysIInv, PTL

\* An applier that reports success has left none of its files out, though
\* another may have applied them (apply_migrations).
THEOREM MigrateDoneIsApplied == Spec => []DoneIsApplied
  <1>1. IInv => DoneIsApplied  BY DEF IInv, NothingLeft, DoneIsApplied
  <1>. QED  BY <1>1, AlwaysIInv, PTL

\* Whatever appliers race, fail or start over, the database is migrated by one at
\* a time, each file once and in order, and nobody reports more (apply_migrations).
THEOREM MigrateAppliedSafely == Spec => []AppliedSafely
  <1>1. IInv => TypeOK  BY DEF IInv
  <1>. QED  BY <1>1, AlwaysIInv, MigrateOnceEach, MigrateInOrder, MigrateOneAtATime,
               MigrateDoneIsApplied, PTL DEF AppliedSafely

\* A migration that names the deployment role is run only by a session that
\* has set it (_configure_grafana_role).
THEOREM MigrateRoleIsSet == Spec => RoleIsSet
  <1>1. ASSUME IInv, [Next]_vars
        PROVE  [\A a \in Appliers : \A v \in applied' \ applied :
                   v >= RoleFrom /\ pc[a] = "apply" => a \in role]_vars
    <2>. USE <1>1 DEF IInv
    <2>1. ASSUME NEW b \in Appliers, NEW u \in Versions, Apply(b, u),
                 NEW a \in Appliers, NEW v \in applied' \ applied, v >= RoleFrom, pc[a] = "apply"
          PROVE  a \in role
      <3>1. a = b  BY <2>1 DEF Apply, LockIsHeld, Locked
      <3>2. v = u /\ u \in todo[b]  BY <2>1 DEF Apply
      <3>. QED  BY <3>1, <3>2, <2>1 DEF RoleBeforeUse
    <2>2. CASE UNCHANGED applied  BY <2>2
    <2>. QED
      BY <2>1, <2>2 DEF Next, Step, Look, CreateBegins, CreateEnds, Lock, Relook, Configure,
                        Applied, Unlock, Fail, Crash, Restart, vars
  <1>. QED  BY <1>1, AlwaysIInv, PTL DEF Spec, RoleIsSet
=============================================================================
