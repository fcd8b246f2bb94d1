------------------------ MODULE SessionControlProofs ------------------------
(***************************************************************************)
(* Proofs about SessionControl for any number of actions and any budget of *)
(* faults.                                                                 *)
(***************************************************************************)
EXTENDS SessionControl, TLAPS

Acting == pc \in {"record", "settle"}
Starting == pc \in {"down", "bootRecord", "bootSettle"}

\* The state that the last finished action left: what a roll back returns to,
\* and what a start makes of the state file.
Base == IF Acting THEN prior ELSE IF pc = "idle" THEN state ELSE file

Unique(q) == \A i, j \in 1..Len(q) : q[i].sess = q[j].sess => i = j
Versions(q) == {q[i].ver : i \in 1..Len(q)}
Held == {state, prior, file, pending, sending, nats}

\* Every fault was in the budget.
Budgeted == \A k \in FaultKinds : budget[k] <= FaultBudget[k]

\* Snapshots are numbered as they are made, and a queue holds one for each
\* session.
Numbered ==
  /\ \A x \in Held : x.sess <= x.ver /\ x.ver <= issued
  /\ \A s \in Sessions : db[s] <= issued
  /\ \A q \in {queue, queueFile} : Unique(q) /\ \A v \in Versions(q) : v <= issued

\* What holds at each place of the controller's task.
Placed ==
  /\ Starting => pending = None /\ sending = None
  /\ flushing => /\ pc \in {"idle", "record"} /\ queue # <<>>
                 /\ db[Head(queue).sess] = Head(queue).ver
  /\ pc \in {"record", "settle", "bootRecord", "bootSettle"} => state = file /\ state # None
  /\ Acting => state.ver = issued /\ prior.ver < issued
  /\ pc \in {"settle", "bootSettle"} => db[state.sess] = state.ver
  /\ pc = "record" => /\ \A s \in Sessions : db[s] < issued
                      /\ \A q \in {queue, queueFile} : issued \notin Versions(q)
  /\ pc = "idle" => state.ver <= file.ver

\* Snapshots reach the vehicle in the order they were submitted in.
Ordered ==
  /\ \A s \in Sessions : latest[s] <= Base.ver /\ (latest[s] > 0 => s <= latest[s])
  /\ \A x \in {pending, sending, nats} : x # None => x.ver <= latest[x.sess]
  /\ sending # None => nats.ver <= sending.ver /\ sending.ver <= pending.ver
  /\ pending # None => nats.ver <= pending.ver

\* No trace of an action that was rolled back.
Clean ==
  /\ rejected \subseteq 1..issued
  /\ \A x \in Held : x.ver \notin rejected
  /\ \A q \in {queue, queueFile} : Versions(q) \cap rejected = {}
  /\ ~(Spent("reply") /\ Spent("queueFile")) => \A s \in Sessions : db[s] \notin rejected

\* What rows d and the queue q make of session s.
In(d, q, s) == IF Queued(q, s) THEN q[Place(q, s)].ver ELSE d[s]

\* The queue on disk is the one in memory, and keeps what was submitted.
Durable ==
  ~Spent("queueFile") =>
    /\ pc # "down" => queue = queueFile
    /\ \A s \in Sessions : latest[s] <= In(db, queueFile, s)

\* The same, exactly, where no action was cancelled.
Exact ==
  ~Spent("queueFile") /\ ~Spent("cancel") =>
    \A s \in Sessions : latest[s] > 0 =>
      \/ In(db, queueFile, s) = latest[s]
      \/ pc \notin {"idle", "record"} /\ s = file.sess

\* The vehicle knows x, or x is the payload to send.
Told(x) == \/ x # None /\ pending = x
           \/ pending = None /\ sending = None /\ nats = x

\* Where no action was cancelled, the last finished action was submitted.
Submitted ==
  ~Spent("cancel") /\ ~Starting =>
    Told(Base) /\ (Base # None => latest[Base.sess] = Base.ver)

IInv == /\ TypeOK /\ Budgeted /\ Numbered /\ Placed /\ Ordered /\ Clean
        /\ Durable /\ Exact /\ Submitted

-----------------------------------------------------------------------------
(* The retry queue.                                                        *)

\* A queued session has its place in the queue, and only one.
LEMMA PlaceFacts ==
  ASSUME NEW q \in Seq(Snapshot), NEW s
  PROVE  /\ Queued(q, s) => Place(q, s) \in 1..Len(q) /\ q[Place(q, s)].sess = s
         /\ Unique(q) => \A i \in 1..Len(q) : q[i].sess = s => Place(q, s) = i
<1>1. Queued(q, s) => Place(q, s) \in 1..Len(q) /\ q[Place(q, s)].sess = s
  BY DEF Queued, Place
<1>2. ASSUME Unique(q), NEW i \in 1..Len(q), q[i].sess = s
      PROVE  Place(q, s) = i
  BY <1>1, <1>2 DEF Queued, Unique
<1> QED BY <1>1, <1>2

\* The queues q and w hold the same of session t.
Same(q, w, t) == /\ Queued(q, t) <=> Queued(w, t)
                 /\ Queued(q, t) => q[Place(q, t)] = w[Place(w, t)]

\* To show it, a place in each is enough.
LEMMA SameFacts ==
  ASSUME NEW q \in Seq(Snapshot), NEW w \in Seq(Snapshot), Unique(q), Unique(w), NEW t,
         \A i \in 1..Len(q) : q[i].sess = t => \E j \in 1..Len(w) : w[j] = q[i],
         \A j \in 1..Len(w) : w[j].sess = t => \E i \in 1..Len(q) : q[i] = w[j]
  PROVE  Same(q, w, t)
<1>1. Queued(q, t) <=> Queued(w, t)
  BY DEF Queued
<1>2. ASSUME Queued(q, t) PROVE q[Place(q, t)] = w[Place(w, t)]
  <2>1. PICK i \in 1..Len(q) : q[i].sess = t
    BY <1>2 DEF Queued
  <2>2. PICK j \in 1..Len(w) : w[j] = q[i]
    BY <2>1
  <2>3. Place(q, t) = i /\ Place(w, t) = j
    BY <2>1, <2>2, PlaceFacts
  <2> QED BY <2>2, <2>3
<1> QED BY <1>1, <1>2 DEF Same

\* SessionDatabase.record takes the session's entry out of the queue.
LEMMA WithoutFacts ==
  ASSUME NEW q \in Seq(Snapshot), Unique(q), NEW s, Queued(q, s)
  PROVE  /\ Without(q, s) \in Seq(Snapshot) /\ Unique(Without(q, s))
         /\ ~Queued(Without(q, s), s)
         /\ \A t : t # s => Same(q, Without(q, s), t)
         /\ Versions(Without(q, s)) \subseteq Versions(q)
<1> DEFINE w == Without(q, s)
           k == Place(q, s)
<1>1. k \in 1..Len(q) /\ q[k].sess = s
  BY PlaceFacts
<1>2. Len(q) - 1 \in Nat
  BY <1>1
<1>3. w = [i \in 1..(Len(q) - 1) |-> q[IF i < k THEN i ELSE i + 1]]
  BY DEF Without
<1>4. \A i \in 1..(Len(q) - 1) : (IF i < k THEN i ELSE i + 1) \in 1..Len(q)
  BY <1>1
<1>5. w \in Seq(Snapshot) /\ Len(w) = Len(q) - 1
  <2>1. \A i \in 1..(Len(q) - 1) : q[IF i < k THEN i ELSE i + 1] \in Snapshot
    BY <1>4
  <2> QED BY <1>2, <1>3, <2>1
<1>6. \A i \in 1..Len(w) : w[i] = q[IF i < k THEN i ELSE i + 1]
  BY <1>3, <1>5
<1>7. Unique(w)
  <2> SUFFICES ASSUME NEW i \in 1..Len(w), NEW j \in 1..Len(w), w[i].sess = w[j].sess
               PROVE  i = j
    BY DEF Unique
  <2>1. (IF i < k THEN i ELSE i + 1) = (IF j < k THEN j ELSE j + 1)
    BY <1>4, <1>5, <1>6 DEF Unique
  <2> QED BY <1>1, <1>5, <2>1
<1>8. ~Queued(w, s)
  BY <1>1, <1>4, <1>5, <1>6 DEF Unique, Queued
<1>9. ASSUME NEW t, t # s PROVE Same(q, w, t)
  <2>1. ASSUME NEW i \in 1..Len(q), q[i].sess = t
        PROVE  \E j \in 1..Len(w) : w[j] = q[i]
    <3>1. CASE i < k
      BY <3>1, <1>1, <1>5, <1>6
    <3>2. CASE i > k
      <4>1. i - 1 \in 1..Len(w) /\ ~(i - 1 < k) /\ (i - 1) + 1 = i
        BY <3>2, <1>1, <1>5
      <4> QED BY <4>1, <1>6
    <3> QED BY <2>1, <1>9, <1>1, <3>1, <3>2
  <2>2. ASSUME NEW j \in 1..Len(w) PROVE \E i \in 1..Len(q) : q[i] = w[j]
    BY <1>4, <1>5, <1>6
  <2> QED BY <1>5, <1>7, <2>1, <2>2, SameFacts
<1>10. Versions(w) \subseteq Versions(q)
  BY <1>4, <1>5, <1>6 DEF Versions
<1> QED BY <1>5, <1>7, <1>8, <1>9, <1>10

\* An entry put at the end, where its session was not queued.
LEMMA EndFacts ==
  ASSUME NEW q \in Seq(Snapshot), Unique(q), NEW e \in Snapshot, ~Queued(q, e.sess)
  PROVE  /\ Append(q, e) \in Seq(Snapshot) /\ Unique(Append(q, e))
         /\ Queued(Append(q, e), e.sess)
         /\ Append(q, e)[Place(Append(q, e), e.sess)] = e
         /\ \A t : t # e.sess => Same(q, Append(q, e), t)
         /\ Versions(Append(q, e)) \subseteq Versions(q) \cup {e.ver}
<1> DEFINE w == Append(q, e)
<1>1. /\ w \in Seq(Snapshot) /\ Len(w) = Len(q) + 1 /\ w[Len(w)] = e
      /\ \A i \in 1..Len(q) : w[i] = q[i]
  OBVIOUS
<1>2. \A i \in 1..Len(w) : i = Len(w) \/ i \in 1..Len(q)
  BY <1>1
<1> HIDE DEF w
<1>3. Unique(w)
  BY <1>1, <1>2 DEF Unique, Queued
<1>4. Len(w) \in 1..Len(w) /\ Queued(w, e.sess)
  BY <1>1 DEF Queued
<1>5. w[Place(w, e.sess)] = e
  BY <1>1, <1>3, <1>4, PlaceFacts
<1>6. ASSUME NEW t, t # e.sess PROVE Same(q, w, t)
  <2>1. \A i \in 1..Len(q) : q[i].sess = t => \E j \in 1..Len(w) : w[j] = q[i]
    BY <1>1
  <2>2. \A j \in 1..Len(w) : w[j].sess = t => \E i \in 1..Len(q) : q[i] = w[j]
    BY <1>1, <1>2, <1>6
  <2> QED BY <1>1, <1>3, <2>1, <2>2, SameFacts
<1>7. Versions(w) \subseteq Versions(q) \cup {e.ver}
  BY <1>1, <1>2 DEF Versions
<1> QED BY <1>1, <1>3, <1>4, <1>5, <1>6, <1>7 DEF w

\* SessionDatabase._queue: the session has the new entry, the others theirs.
LEMMA PutFacts ==
  ASSUME NEW q \in Seq(Snapshot), Unique(q), NEW e \in Snapshot
  PROVE  /\ Put(q, e) \in Seq(Snapshot) /\ Unique(Put(q, e))
         /\ Queued(Put(q, e), e.sess)
         /\ Put(q, e)[Place(Put(q, e), e.sess)] = e
         /\ \A t : t # e.sess => Same(q, Put(q, e), t)
         /\ Versions(Put(q, e)) \subseteq Versions(q) \cup {e.ver}
<1>1. CASE ~Queued(q, e.sess)
  BY <1>1, EndFacts DEF Put
<1>2. CASE Queued(q, e.sess)
  <2> DEFINE w == Put(q, e)
  <2>1. w = [i \in 1..Len(q) |-> IF q[i].sess = e.sess THEN e ELSE q[i]]
    BY <1>2 DEF Put
  <2> HIDE DEF w
  <2>2. w \in Seq(Snapshot) /\ Len(w) = Len(q)
    BY <2>1
  <2>3. \A i \in 1..Len(q) : w[i] = IF q[i].sess = e.sess THEN e ELSE q[i]
    BY <2>1
  <2>4. \A i \in 1..Len(q) : w[i].sess = q[i].sess
    BY <2>3
  <2>5. Unique(w)
    BY <2>2, <2>4 DEF Unique
  <2>6. Queued(w, e.sess)
    BY <1>2, <2>2, <2>4 DEF Queued
  <2>7. w[Place(w, e.sess)] = e
    BY <2>2, <2>3, <2>4, <2>6, PlaceFacts
  <2>8. ASSUME NEW t, t # e.sess PROVE Same(q, w, t)
    <3>1. \A i \in 1..Len(q) : q[i].sess = t => \E j \in 1..Len(w) : w[j] = q[i]
      BY <2>2, <2>3, <2>8
    <3>2. \A j \in 1..Len(w) : w[j].sess = t => \E i \in 1..Len(q) : q[i] = w[j]
      BY <2>2, <2>3, <2>8
    <3> QED BY <2>2, <2>5, <3>1, <3>2, SameFacts
  <2>9. Versions(w) \subseteq Versions(q) \cup {e.ver}
    BY <2>2, <2>3 DEF Versions
  <2> QED BY <2>2, <2>5, <2>6, <2>7, <2>8, <2>9 DEF w
<1> QED BY <1>1, <1>2

\* SessionDatabase._flush_one takes the first entry out.
LEMMA TailFacts ==
  ASSUME NEW q \in Seq(Snapshot), Unique(q), q # <<>>
  PROVE  /\ Head(q) \in Snapshot
         /\ Tail(q) \in Seq(Snapshot) /\ Unique(Tail(q))
         /\ Queued(q, Head(q).sess) /\ q[Place(q, Head(q).sess)] = Head(q)
         /\ ~Queued(Tail(q), Head(q).sess)
         /\ \A t : t # Head(q).sess => Same(q, Tail(q), t)
         /\ Versions(Tail(q)) \subseteq Versions(q) /\ Head(q).ver \in Versions(q)
<1> DEFINE w == Tail(q)
           h == Head(q)
<1>1. /\ w \in Seq(Snapshot) /\ Len(w) = Len(q) - 1 /\ h \in Snapshot /\ h = q[1]
      /\ 1 \in 1..Len(q) /\ \A i \in 1..Len(w) : w[i] = q[i + 1] /\ i + 1 \in 1..Len(q)
  OBVIOUS
<1> HIDE DEF w, h
<1>2. Unique(w)
  BY <1>1 DEF Unique
<1>3. Queued(q, h.sess) /\ q[Place(q, h.sess)] = h
  BY <1>1, PlaceFacts DEF Queued
<1>4. ~Queued(w, h.sess)
  <2>1. \A i \in 1..Len(w) : i + 1 # 1
    BY <1>1
  <2> QED BY <1>1, <2>1 DEF Queued, Unique
<1>5. ASSUME NEW t, t # h.sess PROVE Same(q, w, t)
  <2>1. ASSUME NEW i \in 1..Len(q), q[i].sess = t
        PROVE  \E j \in 1..Len(w) : w[j] = q[i]
    <3>1. i # 1
      BY <1>1, <1>5, <2>1
    <3>2. i - 1 \in 1..Len(w) /\ (i - 1) + 1 = i
      BY <1>1, <3>1
    <3> QED BY <1>1, <3>2
  <2>2. \A j \in 1..Len(w) : \E i \in 1..Len(q) : q[i] = w[j]
    BY <1>1
  <2> QED BY <1>1, <1>2, <2>1, <2>2, SameFacts
<1>6. Versions(w) \subseteq Versions(q) /\ h.ver \in Versions(q)
  BY <1>1 DEF Versions
<1> QED BY <1>1, <1>2, <1>3, <1>4, <1>5, <1>6 DEF w, h

-----------------------------------------------------------------------------
(* Faults.                                                                 *)

\* What is spent is spent for good.
Sticky == /\ budget' \in [FaultKinds -> Nat] /\ Budgeted'
          /\ Spent("queueFile") => Spent("queueFile")'
          /\ Spent("reply") => Spent("reply")'
          /\ Spent("cancel") => Spent("cancel")'

LEMMA SpendFacts ==
  ASSUME TypeOK, Budgeted, NEW faults \in SUBSET FaultKinds, Spend(faults)
  PROVE  Sticky /\ \A k \in faults : Spent(k)'
<1>1. budget \in [FaultKinds -> Nat] /\ FaultBudget \in [FaultKinds -> Nat]
  BY FaultAssumption DEF TypeOK
<1>2. /\ \A k \in faults : budget[k] > 0
      /\ budget' = [k \in FaultKinds |-> IF k \in faults THEN budget[k] - 1 ELSE budget[k]]
  BY DEF Spend
<1>3. \A k \in FaultKinds : /\ budget'[k] \in Nat /\ budget'[k] <= budget[k]
                            /\ k \in faults => budget'[k] < budget[k]
  BY <1>1, <1>2
<1>4. budget' \in [FaultKinds -> Nat]
  BY <1>2, <1>3
<1>5. \A k \in FaultKinds : Spent(k) => Spent(k)'
  BY <1>1, <1>3 DEF Spent
<1>6. \A k \in faults : Spent(k)'
  BY <1>1, <1>3 DEF Spent, Budgeted
<1>7. Budgeted'
  BY <1>1, <1>3 DEF Budgeted
<1> QED BY <1>4, <1>5, <1>6, <1>7 DEF Sticky, FaultKinds

\* Without a fault nothing is spent.
LEMMA KeepFacts ==
  ASSUME TypeOK, Budgeted, UNCHANGED budget
  PROVE  Sticky
BY DEF TypeOK, Budgeted, Spent, Sticky

-----------------------------------------------------------------------------
(* The steps.                                                              *)

\* The numbers of a snapshot, and of the rows.
LEMMA TypeFacts ==
  ASSUME TypeOK
  PROVE  /\ issued \in Nat /\ MaxActs \in Nat
         /\ None.sess = 0 /\ None.ver = 0
         /\ \A x \in Held : x.sess \in Nat /\ x.ver \in Nat
         /\ \A x \in Held : x # None => x \in Snapshot
         /\ \A x \in Snapshot : /\ x.sess \in Sessions /\ x.ver \in Sessions
                                /\ x.sess \in Nat /\ x.ver \in Nat /\ x.ver > 0 /\ x # None
         /\ \A s \in Sessions : s \in Nat /\ db[s] \in Nat /\ latest[s] \in Nat
         /\ \A q \in {queue, queueFile} : Versions(q) \subseteq Sessions
<1>1. issued \in Nat /\ MaxActs \in Nat /\ \A s \in Sessions : s \in Nat /\ s > 0
  BY ActsAssumption DEF TypeOK, Sessions
<1>2. None.sess = 0 /\ None.ver = 0
  BY DEF None
<1>3. \A x \in Snapshot : x.sess \in Sessions /\ x.ver \in Sessions
  BY DEF Snapshot
<1>4. \A x \in Snapshot : x # None
  BY <1>1, <1>2, <1>3
<1>5. \A x \in Held : x = None \/ x \in Snapshot
  BY DEF TypeOK, Held
<1>6. \A s \in Sessions : db[s] \in Nat /\ latest[s] \in Nat
  BY <1>1 DEF TypeOK
<1>7. \A q \in {queue, queueFile} : Versions(q) \subseteq Sessions
  BY <1>3 DEF TypeOK, Versions
<1> QED BY <1>1, <1>2, <1>3, <1>4, <1>5, <1>6, <1>7

USE DEF disk, publisher, history

\* The empty queue.
LEMMA EmptyFacts == <<>> \in Seq(Snapshot) /\ Unique(<<>>) /\ Versions(<<>>) = {}
BY DEF Unique, Versions

\* A start: the state is what the file holds.
LEMMA BootStep == ASSUME IInv, Boot PROVE IInv'
<1>0. Sticky
  BY KeepFacts DEF IInv, Boot
<1>1. TypeOK'
  BY <1>0 DEF IInv, Boot, Sticky, TypeOK, Places
<1>2. Numbered'
  BY TypeFacts DEF IInv, Boot, Numbered, Held
<1>3. Placed'
  BY TypeFacts DEF IInv, Boot, Placed, Starting, Acting, Held
<1>4. Ordered'
  BY TypeFacts DEF IInv, Boot, Ordered, Base, Placed, Starting, Acting, Numbered, Held
<1>5. Clean'
  BY <1>0, TypeFacts DEF IInv, Boot, Clean, Held, Sticky, Placed
<1>6. Durable'
  BY <1>0, TypeFacts DEF IInv, Boot, Durable, Sticky
<1>7. Exact'
  BY <1>0, TypeFacts DEF IInv, Boot, Exact, Sticky, Durable, Placed, Ordered, Base, Acting, Held
<1>8. Submitted'
  BY <1>0, TypeFacts DEF IInv, Boot, Submitted, Told, Sticky, Starting, Base, Acting, Placed, Ordered, Held
<1> QED BY <1>0, <1>1, <1>2, <1>3, <1>4, <1>5, <1>6, <1>7, <1>8 DEF IInv, Sticky

\* A connection to the database.
LEMMA ConnectStep == ASSUME IInv, Connect PROVE IInv'
<1>0. Sticky
  BY KeepFacts DEF IInv, Connect
<1>1. TypeOK'
  BY <1>0 DEF IInv, Connect, Sticky, TypeOK, Places
<1>2. Numbered'
  BY TypeFacts DEF IInv, Connect, Numbered, Held
<1>3. Placed'
  BY TypeFacts DEF IInv, Connect, Placed, Starting, Acting, Held
<1>4. Ordered'
  BY TypeFacts DEF IInv, Connect, Ordered, Base, Placed, Starting, Acting, Numbered, Held
<1>5. Clean'
  BY <1>0, TypeFacts DEF IInv, Connect, Clean, Held, Sticky, Placed
<1>6. Durable'
  BY <1>0, TypeFacts DEF IInv, Connect, Durable, Sticky
<1>7. Exact'
  BY <1>0, TypeFacts DEF IInv, Connect, Exact, Sticky, Durable, Placed
<1>8. Submitted'
  BY <1>0, TypeFacts DEF IInv, Connect, Submitted, Told, Sticky, Starting, Base, Acting, Placed, Ordered, Held
<1> QED BY <1>0, <1>1, <1>2, <1>3, <1>4, <1>5, <1>6, <1>7, <1>8 DEF IInv, Sticky

\* The database comes back.
LEMMA DbUpStep == ASSUME IInv, DbUp PROVE IInv'
<1>0. Sticky
  BY KeepFacts DEF IInv, DbUp
<1>1. TypeOK'
  BY <1>0 DEF IInv, DbUp, Sticky, TypeOK, Places
<1>2. Numbered'
  BY TypeFacts DEF IInv, DbUp, Numbered, Held
<1>3. Placed'
  BY TypeFacts DEF IInv, DbUp, Placed, Starting, Acting, Held
<1>4. Ordered'
  BY TypeFacts DEF IInv, DbUp, Ordered, Base, Placed, Starting, Acting, Numbered, Held
<1>5. Clean'
  BY <1>0, TypeFacts DEF IInv, DbUp, Clean, Held, Sticky, Placed
<1>6. Durable'
  BY <1>0, TypeFacts DEF IInv, DbUp, Durable, Sticky
<1>7. Exact'
  BY <1>0, TypeFacts DEF IInv, DbUp, Exact, Sticky, Durable, Placed
<1>8. Submitted'
  BY <1>0, TypeFacts DEF IInv, DbUp, Submitted, Told, Sticky, Starting, Base, Acting, Placed, Ordered, Held
<1> QED BY <1>0, <1>1, <1>2, <1>3, <1>4, <1>5, <1>6, <1>7, <1>8 DEF IInv, Sticky

\* The database goes away.
LEMMA DbDownStep == ASSUME IInv, DbDown PROVE IInv'
<1>0. Sticky
  BY SpendFacts DEF IInv, DbDown, FaultKinds
<1>1. TypeOK'
  BY <1>0 DEF IInv, DbDown, Sticky, TypeOK, Places
<1>2. Numbered'
  BY TypeFacts DEF IInv, DbDown, Numbered, Held
<1>3. Placed'
  BY TypeFacts DEF IInv, DbDown, Placed, Starting, Acting, Held
<1>4. Ordered'
  BY TypeFacts DEF IInv, DbDown, Ordered, Base, Placed, Starting, Acting, Numbered, Held
<1>5. Clean'
  BY <1>0, TypeFacts DEF IInv, DbDown, Clean, Held, Sticky, Placed
<1>6. Durable'
  BY <1>0, TypeFacts DEF IInv, DbDown, Durable, Sticky
<1>7. Exact'
  BY <1>0, TypeFacts DEF IInv, DbDown, Exact, Sticky, Durable, Placed
<1>8. Submitted'
  BY <1>0, TypeFacts DEF IInv, DbDown, Submitted, Told, Sticky, Starting, Base, Acting, Placed, Ordered, Held
<1> QED BY <1>0, <1>1, <1>2, <1>3, <1>4, <1>5, <1>6, <1>7, <1>8 DEF IInv, Sticky

\* A publish begins.
LEMMA SendStep == ASSUME IInv, Send PROVE IInv'
<1>0. Sticky
  BY KeepFacts DEF IInv, Send
<1>1. TypeOK'
  BY <1>0 DEF IInv, Send, control, Sticky, TypeOK, Places
<1>2. Numbered'
  BY TypeFacts DEF IInv, Send, control, Numbered, Held
<1>3. Placed'
  BY TypeFacts DEF IInv, Send, control, Placed, Starting, Acting, Held
<1>4. Ordered'
  BY TypeFacts DEF IInv, Send, control, Ordered, Base, Placed, Starting, Acting, Numbered, Held
<1>5. Clean'
  BY <1>0, TypeFacts DEF IInv, Send, control, Clean, Held, Sticky, Placed
<1>6. Durable'
  BY <1>0, TypeFacts DEF IInv, Send, control, Durable, Sticky
<1>7. Exact'
  BY <1>0, TypeFacts DEF IInv, Send, control, Exact, Sticky, Durable, Placed
<1>8. Submitted'
  BY <1>0, TypeFacts DEF IInv, Send, control, Submitted, Told, Sticky, Starting, Base, Acting, Placed, Ordered, Held
<1> QED BY <1>0, <1>1, <1>2, <1>3, <1>4, <1>5, <1>6, <1>7, <1>8 DEF IInv, Sticky

\* A publish ends.
LEMMA SentStep == ASSUME IInv, Sent PROVE IInv'
<1>0. Sticky
  BY KeepFacts DEF IInv, Sent
<1>1. TypeOK'
  BY <1>0 DEF IInv, Sent, control, Sticky, TypeOK, Places
<1>2. Numbered'
  BY TypeFacts DEF IInv, Sent, control, Numbered, Held
<1>3. Placed'
  BY TypeFacts DEF IInv, Sent, control, Placed, Starting, Acting, Held
<1>4. Ordered'
  BY TypeFacts DEF IInv, Sent, control, Ordered, Base, Placed, Starting, Acting, Numbered, Held
<1>5. Clean'
  BY <1>0, TypeFacts DEF IInv, Sent, control, Clean, Held, Sticky, Placed
<1>6. Durable'
  BY <1>0, TypeFacts DEF IInv, Sent, control, Durable, Sticky
<1>7. Exact'
  BY <1>0, TypeFacts DEF IInv, Sent, control, Exact, Sticky, Durable, Placed
<1>8. Submitted'
  BY <1>0, TypeFacts DEF IInv, Sent, control, Submitted, Told, Sticky, Starting, Base, Acting, Placed, Ordered, Held
<1> QED BY <1>0, <1>1, <1>2, <1>3, <1>4, <1>5, <1>6, <1>7, <1>8 DEF IInv, Sticky

\* A publish fails.
LEMMA SendFailsStep == ASSUME IInv, SendFails PROVE IInv'
<1>0. Sticky
  BY SpendFacts DEF IInv, SendFails, FaultKinds
<1>1. TypeOK'
  BY <1>0 DEF IInv, SendFails, control, Sticky, TypeOK, Places
<1>2. Numbered'
  BY TypeFacts DEF IInv, SendFails, control, Numbered, Held
<1>3. Placed'
  BY TypeFacts DEF IInv, SendFails, control, Placed, Starting, Acting, Held
<1>4. Ordered'
  BY TypeFacts DEF IInv, SendFails, control, Ordered, Base, Placed, Starting, Acting, Numbered, Held
<1>5. Clean'
  BY <1>0, TypeFacts DEF IInv, SendFails, control, Clean, Held, Sticky, Placed
<1>6. Durable'
  BY <1>0, TypeFacts DEF IInv, SendFails, control, Durable, Sticky
<1>7. Exact'
  BY <1>0, TypeFacts DEF IInv, SendFails, control, Exact, Sticky, Durable, Placed
<1>8. Submitted'
  BY <1>0, TypeFacts DEF IInv, SendFails, control, Submitted, Told, Sticky, Starting, Base, Acting, Placed, Ordered, Held
<1> QED BY <1>0, <1>1, <1>2, <1>3, <1>4, <1>5, <1>6, <1>7, <1>8 DEF IInv, Sticky

\* _write_state changes what the database makes of the written session, unless
\* that session is queued.
LEMMA WriteFacts ==
  ASSUME TypeOK, NEW e \in Snapshot, Write(e)
  PROVE  /\ db' \in [Sessions -> 0..MaxActs]
         /\ \A s \in Sessions : db'[s] = IF s = e.sess THEN e.ver ELSE db[s]
         /\ \A q, s : s \in Sessions /\ s # e.sess => In(db', q, s) = In(db, q, s)
         /\ \A q : IF Queued(q, e.sess) THEN In(db', q, e.sess) = In(db, q, e.sess)
                                        ELSE In(db', q, e.sess) = e.ver
<1>1. e.sess \in Sessions /\ e.ver \in 0..MaxActs
  BY ActsAssumption DEF Snapshot, Sessions
<1>2. db' = [db EXCEPT ![e.sess] = e.ver] /\ db \in [Sessions -> 0..MaxActs]
  BY DEF Write, TypeOK
<1> QED BY <1>1, <1>2 DEF In

\* The process is gone, and with it all that is not on disk.
LEMMA VanishStep == ASSUME IInv, Vanish, Sticky,
                            UNCHANGED db \/ (state # None /\ Write(state) /\ Spent("queueFile")')
                     PROVE IInv'
<1>0. Sticky
  OBVIOUS
<1>a. /\ db' \in [Sessions -> 0..MaxActs]
      /\ \A s \in Sessions : db'[s] = db[s] \/ db'[s] = state.ver
      /\ ~Spent("queueFile")' => db' = db
  <2>1. CASE UNCHANGED db
    BY <2>1 DEF IInv, TypeOK
  <2>2. CASE state # None /\ Write(state) /\ Spent("queueFile")'
    BY <2>2, TypeFacts, WriteFacts DEF IInv, Held
  <2> QED BY <2>1, <2>2
<1>1. TypeOK'
  BY <1>0, <1>a, EmptyFacts DEF IInv, Vanish, Sticky, TypeOK, Places
<1>2. Numbered'
  <2>1. (\A x \in Held : x.sess <= x.ver /\ x.ver <= issued)'
    BY TypeFacts DEF IInv, Vanish, Numbered, Held
  <2>2. \A s \in Sessions : db'[s] <= issued'
    BY <1>a DEF IInv, Vanish, Numbered, Held
  <2> QED BY <2>1, <2>2, EmptyFacts DEF IInv, Vanish, Numbered
<1>3. Placed'
  BY TypeFacts, <1>a DEF IInv, Vanish, Placed, Starting, Acting, Held
<1>4. Ordered'
  BY SMTT(30), TypeFacts, <1>a DEF IInv, Vanish, Ordered, Base, Placed, Starting, Acting, Numbered, Held
<1>5. Clean'
  <2>1. (\A x \in Held : x.ver \notin rejected)'
    BY TypeFacts DEF IInv, Vanish, Clean, Held
  <2>2. \A s \in Sessions : db'[s] = db[s] \/ db'[s] \notin rejected
    BY <1>a DEF IInv, Clean, Held
  <2> QED BY <1>0, <2>1, <2>2, EmptyFacts DEF IInv, Vanish, Clean, Sticky
<1>6. Durable'
  BY <1>0, TypeFacts, <1>a DEF IInv, Vanish, Durable, Sticky
<1>7. Exact'
  BY <1>0, TypeFacts, <1>a DEF IInv, Vanish, Exact, Sticky, Durable, Placed
<1>8. Submitted'
  BY <1>0, TypeFacts, <1>a DEF IInv, Vanish, Submitted, Told, Sticky, Starting, Base, Acting, Placed, Ordered, Held
<1> QED BY <1>0, <1>1, <1>2, <1>3, <1>4, <1>5, <1>6, <1>7, <1>8 DEF IInv, Sticky

\* The process is killed.
LEMMA CrashStep == ASSUME IInv, Crash PROVE IInv'
BY SpendFacts, VanishStep DEF IInv, Crash, FaultKinds

\* The database refuses a queued snapshot.
LEMMA FlushRejectedStep == ASSUME IInv, FlushRejected PROVE IInv'
BY SpendFacts, VanishStep DEF IInv, FlushRejected, FaultKinds

\* The snapshot an action makes is newer than any other.
LEMMA OutcomeFacts ==
  ASSUME TypeOK, Numbered, issued < MaxActs, NEW x \in Outcomes
  PROVE  x \in Snapshot /\ x # None /\ x.ver = issued + 1 /\ x.sess <= x.ver
<1>1. issued + 1 \in Sessions
  BY ActsAssumption DEF TypeOK, Sessions
<1>2. CASE state.status = "active"
  <2>1. state \in Snapshot
    BY <1>2 DEF TypeOK, None
  <2>2. state.sess \in Sessions /\ state.sess <= issued + 1
    BY <2>1, TypeFacts DEF Numbered, Held
  <2> QED BY <1>1, <1>2, <2>2, TypeFacts DEF Outcomes, Snapshot
<1>3. CASE state.status # "active"
  BY <1>1, <1>3, TypeFacts DEF Outcomes, Snapshot
<1> QED BY <1>2, <1>3

\* An action changes the state and saves it.
LEMMA ActStep == ASSUME IInv, Act PROVE IInv'
<1>0. Sticky
  BY KeepFacts DEF IInv, Act
<1>a. /\ state' \in Snapshot /\ state' # None /\ state'.ver = issued + 1
      /\ state'.sess <= state'.ver /\ issued' = issued + 1 /\ issued + 1 \in 0..MaxActs
  BY OutcomeFacts, TypeFacts DEF IInv, Act
<1>1. TypeOK'
  BY <1>0, <1>a DEF IInv, Act, Sticky, TypeOK, Places
<1>2. Numbered'
  BY TypeFacts, <1>a DEF IInv, Act, Numbered, Held
<1>3. Placed'
  BY TypeFacts, <1>a DEF IInv, Act, Placed, Starting, Acting, Held, Numbered
<1>4. Ordered'
  BY TypeFacts, <1>a DEF IInv, Act, Ordered, Base, Placed, Starting, Acting, Numbered, Held
<1>5. Clean'
  BY <1>0, TypeFacts, <1>a DEF IInv, Act, Clean, Held, Sticky, Placed
<1>6. Durable'
  BY <1>0, TypeFacts, <1>a DEF IInv, Act, Durable, Sticky
<1>7. Exact'
  BY <1>0, TypeFacts, <1>a DEF IInv, Act, Exact, Sticky, Durable, Placed
<1>8. Submitted'
  BY <1>0, TypeFacts, <1>a DEF IInv, Act, Submitted, Told, Sticky, Starting, Base, Acting, Placed, Ordered, Held
<1> QED BY <1>0, <1>1, <1>2, <1>3, <1>4, <1>5, <1>6, <1>7, <1>8 DEF IInv, Sticky

\* An action whose state cannot be saved.
LEMMA ActUnsavableStep == ASSUME IInv, ActUnsavable PROVE IInv'
<1>0. Sticky
  BY SpendFacts DEF IInv, ActUnsavable, FaultKinds
<1>1. TypeOK'
  BY <1>0, ActsAssumption, TypeFacts DEF IInv, ActUnsavable, Sticky, TypeOK, Places
<1>2. Numbered'
  BY TypeFacts DEF IInv, ActUnsavable, Numbered, Held
<1>3. Placed'
  BY TypeFacts DEF IInv, ActUnsavable, Placed, Starting, Acting, Held
<1>4. Ordered'
  BY TypeFacts DEF IInv, ActUnsavable, Ordered, Base, Placed, Starting, Acting, Numbered, Held
<1>5. Clean'
  <2>1. rejected' = rejected \cup {issued + 1} /\ issued' = issued + 1
    BY DEF ActUnsavable
  <2>2. rejected' \subseteq 1..issued'
    <3>1. \A v \in rejected : v \in 1..(issued + 1)
      BY TypeFacts DEF IInv, Clean
    <3>2. issued + 1 \in 1..(issued + 1)
      BY TypeFacts DEF IInv
    <3> QED BY <2>1, <3>1, <3>2
  <2>3. \A x \in Held : x.ver # issued + 1
    BY TypeFacts DEF IInv, Numbered
  <2>4. (\A x \in Held : x.ver \notin rejected)'
    BY <2>1, <2>3 DEF IInv, ActUnsavable, Clean, Held
  <2>5. \A q \in {queue, queueFile} : issued + 1 \notin Versions(q)
    BY TypeFacts DEF IInv, Numbered
  <2>6. (\A q \in {queue, queueFile} : Versions(q) \cap rejected = {})'
    BY <2>1, <2>5 DEF IInv, ActUnsavable, Clean
  <2>7. \A s \in Sessions : db[s] # issued + 1
    BY TypeFacts DEF IInv, Numbered
  <2> QED BY <1>0, <2>1, <2>2, <2>4, <2>6, <2>7 DEF IInv, ActUnsavable, Clean, Sticky
<1>6. Durable'
  BY <1>0, TypeFacts DEF IInv, ActUnsavable, Durable, Sticky
<1>7. Exact'
  BY <1>0, TypeFacts DEF IInv, ActUnsavable, Exact, Sticky, Durable, Placed
<1>8. Submitted'
  BY <1>0, TypeFacts DEF IInv, ActUnsavable, Submitted, Told, Sticky, Starting, Base, Acting, Placed, Ordered, Held
<1> QED BY <1>0, <1>1, <1>2, <1>3, <1>4, <1>5, <1>6, <1>7, <1>8 DEF IInv, Sticky

\* The HTTP thread gives up an action.
LEMMA CancelStep == ASSUME IInv, Cancel PROVE IInv'
<1>0. Sticky /\ Spent("cancel")'
  BY SpendFacts DEF IInv, Cancel, FaultKinds
<1>1. TypeOK'
  BY <1>0 DEF IInv, Cancel, Sticky, TypeOK, Places
<1>2. Numbered'
  BY TypeFacts DEF IInv, Cancel, Numbered, Held
<1>3. Placed'
  BY TypeFacts DEF IInv, Cancel, Placed, Starting, Acting, Held
<1>4. Ordered'
  BY TypeFacts DEF IInv, Cancel, Ordered, Base, Placed, Starting, Acting, Numbered, Held
<1>5. Clean'
  BY <1>0, TypeFacts DEF IInv, Cancel, Clean, Held, Sticky, Placed
<1>6. Durable'
  BY <1>0, TypeFacts DEF IInv, Cancel, Durable, Sticky
<1>7. Exact'
  BY <1>0, TypeFacts DEF IInv, Cancel, Exact, Sticky, Durable, Placed
<1>8. Submitted'
  BY <1>0, TypeFacts DEF IInv, Cancel, Submitted, Told, Sticky, Starting, Base, Acting, Placed, Ordered, Held
<1> QED BY <1>0, <1>1, <1>2, <1>3, <1>4, <1>5, <1>6, <1>7, <1>8 DEF IInv, Sticky

\* The snapshot is written.
LEMMA RecordCommitsStep == ASSUME IInv, RecordCommits PROVE IInv'
<1>0. Sticky
  BY KeepFacts DEF IInv, RecordCommits
<1>a. /\ state \in Snapshot /\ state.sess \in Sessions /\ Write(state) /\ state = file
      /\ pc' \in {"settle", "bootSettle"} /\ ~flushing
      /\ (pc' = "settle" <=> pc = "record") /\ (pc' = "bootSettle" <=> pc = "bootRecord")
  BY TypeFacts DEF IInv, Placed, Held, RecordCommits, Recording, Booting
<1>b. /\ db' \in [Sessions -> 0..MaxActs]
      /\ \A s \in Sessions : db'[s] = IF s = state.sess THEN state.ver ELSE db[s]
  BY <1>a, WriteFacts DEF IInv
<1>1. TypeOK'
  BY <1>0, <1>a, <1>b DEF IInv, RecordCommits, Sticky, TypeOK, Places
<1>2. Numbered'
  BY TypeFacts, <1>a, <1>b DEF IInv, RecordCommits, Numbered, Held
<1>3. Placed'
  BY TypeFacts, <1>a, <1>b DEF IInv, RecordCommits, Placed, Starting, Acting, Held
<1>4. Ordered'
  BY TypeFacts, <1>a, <1>b DEF IInv, RecordCommits, Ordered, Base, Placed, Starting, Acting, Numbered, Held
<1>5. Clean'
  BY <1>0, TypeFacts, <1>a, <1>b DEF IInv, RecordCommits, Clean, Held, Sticky, Placed
<1>6. Durable'
  <2>0. ~Spent("queueFile")' => queue' = queueFile'
    BY <1>0, <1>a DEF IInv, Durable, Sticky, RecordCommits, Recording
  <2> SUFFICES ASSUME ~Spent("queueFile")', NEW s \in Sessions
               PROVE  latest'[s] <= In(db', queueFile', s)
    BY <2>0 DEF Durable
  <2>1. latest[s] <= In(db, queueFile, s)
    BY <1>0, <1>a DEF IInv, Durable, Sticky, RecordCommits, Recording
  <2>2. latest[s] <= state.ver
    BY SMTT(30), <1>a, TypeFacts DEF IInv, Ordered, Base, Placed, Acting, Held, RecordCommits, Recording
  <2>3. In(db', queueFile, s) = In(db, queueFile, s) \/ In(db', queueFile, s) = state.ver
    BY <1>a, WriteFacts DEF IInv
  <2> QED BY <2>1, <2>2, <2>3 DEF RecordCommits
<1>7. Exact'
  <2>1. \A s \in Sessions : s # state.sess => In(db', queueFile, s) = In(db, queueFile, s)
    BY <1>a, WriteFacts DEF IInv
  <2> QED BY <1>0, <1>a, <2>1 DEF IInv, Exact, Sticky, RecordCommits, Recording
<1>8. Submitted'
  BY <1>0, TypeFacts, <1>a, <1>b DEF IInv, RecordCommits, Submitted, Told, Sticky, Starting, Base, Acting, Placed, Ordered, Held
<1> QED BY <1>0, <1>1, <1>2, <1>3, <1>4, <1>5, <1>6, <1>7, <1>8 DEF IInv, Sticky

\* SessionDatabase.run writes the first of the queue: whatever the queue makes of
\* the database is as before.
LEMMA FlushFacts ==
  ASSUME IInv, queue # <<>>, pc # "down", Write(Head(queue))
  PROVE  /\ Head(queue) \in Snapshot /\ Head(queue).sess \in Sessions
         /\ Head(queue).ver \in Versions(queue)
         /\ db' \in [Sessions -> 0..MaxActs]
         /\ \A s \in Sessions :
              db'[s] = IF s = Head(queue).sess THEN Head(queue).ver ELSE db[s]
         /\ ~Spent("queueFile") => \A s \in Sessions : In(db', queueFile, s) = In(db, queueFile, s)
<1>1. queue \in Seq(Snapshot) /\ Unique(queue)
  BY DEF IInv, TypeOK, Numbered
<1>2. /\ Head(queue) \in Snapshot /\ Head(queue).sess \in Sessions
      /\ Head(queue).ver \in Versions(queue) /\ Queued(queue, Head(queue).sess)
  BY <1>1, TailFacts, TypeFacts DEF IInv
<1>3. /\ db' \in [Sessions -> 0..MaxActs]
      /\ \A s \in Sessions :
           db'[s] = IF s = Head(queue).sess THEN Head(queue).ver ELSE db[s]
      /\ \A s \in Sessions : In(db', queue, s) = In(db, queue, s)
  BY <1>2, WriteFacts DEF IInv
<1> QED BY <1>2, <1>3 DEF IInv, Durable

\* The first of the queue is written.
LEMMA FlushCommitsStep == ASSUME IInv, FlushCommits PROVE IInv'
<1>0. Sticky
  BY KeepFacts DEF IInv, FlushCommits
<1>a. /\ pc \in {"idle", "record"} /\ ~flushing /\ Write(Head(queue)) /\ queue # <<>>
      /\ pc # "down"
  BY DEF FlushCommits, Running, LockFree
<1>b. /\ Head(queue) \in Snapshot /\ Head(queue).sess \in Sessions
      /\ Head(queue).ver \in Versions(queue)
      /\ db' \in [Sessions -> 0..MaxActs]
      /\ \A s \in Sessions :
           db'[s] = IF s = Head(queue).sess THEN Head(queue).ver ELSE db[s]
      /\ ~Spent("queueFile") => \A s \in Sessions : In(db', queueFile, s) = In(db, queueFile, s)
  BY <1>a, FlushFacts
<1>1. TypeOK'
  BY <1>0, <1>a, <1>b DEF IInv, FlushCommits, Sticky, TypeOK, Places
<1>2. Numbered'
  BY TypeFacts, <1>a, <1>b DEF IInv, FlushCommits, Numbered, Held
<1>3. Placed'
  <2>1. pc' = pc /\ queue' = queue /\ queueFile' = queueFile /\ issued' = issued
    BY DEF FlushCommits
  <2>2. db'[Head(queue).sess] = Head(queue).ver
    BY <1>b
  <2>3. ASSUME pc = "record", NEW s \in Sessions PROVE db'[s] < issued
    BY <1>b, <2>3, TypeFacts DEF IInv, Placed, Numbered
  <2> QED BY <1>a, <2>1, <2>2, <2>3 DEF IInv, FlushCommits, Placed, Starting, Acting
<1>4. Ordered'
  BY TypeFacts, <1>a, <1>b DEF IInv, FlushCommits, Ordered, Base, Placed, Starting, Acting, Numbered, Held
<1>5. Clean'
  BY <1>0, TypeFacts, <1>a, <1>b DEF IInv, FlushCommits, Clean, Held, Sticky, Placed
<1>6. Durable'
  BY <1>0, TypeFacts, <1>a, <1>b DEF IInv, FlushCommits, Durable, Sticky
<1>7. Exact'
  BY <1>0, TypeFacts, <1>a, <1>b DEF IInv, FlushCommits, Exact, Sticky, Durable, Placed
<1>8. Submitted'
  BY <1>0, TypeFacts, <1>a, <1>b DEF IInv, FlushCommits, Submitted, Told, Sticky, Starting, Base, Acting, Placed, Ordered, Held
<1> QED BY <1>0, <1>1, <1>2, <1>3, <1>4, <1>5, <1>6, <1>7, <1>8 DEF IInv, Sticky

\* The write of the first of the queue is not answered, or not made.
LEMMA FlushFailsStep == ASSUME IInv, FlushFails PROVE IInv'
<1>0. Sticky
  BY SpendFacts, KeepFacts DEF IInv, FlushFails, FaultKinds
<1>a. /\ pc \in {"idle", "record"} /\ ~flushing /\ queue # <<>> /\ pc # "down"
      /\ db' = db \/ Write(Head(queue))
  BY DEF FlushFails, Running, LockFree
<1>b. /\ db' \in [Sessions -> 0..MaxActs]
      /\ \A s \in Sessions : db'[s] = db[s] \/ db'[s] \in Versions(queue)
      /\ ~Spent("queueFile") => \A s \in Sessions : In(db', queueFile, s) = In(db, queueFile, s)
  <2>1. CASE db' = db
    BY <2>1 DEF IInv, TypeOK
  <2>2. CASE Write(Head(queue))
    BY <1>a, <2>2, FlushFacts
  <2> QED BY <1>a, <2>1, <2>2
<1>1. TypeOK'
  BY <1>0, <1>a, <1>b DEF IInv, FlushFails, Sticky, TypeOK, Places
<1>2. Numbered'
  BY TypeFacts, <1>a, <1>b DEF IInv, FlushFails, Numbered, Held
<1>3. Placed'
  BY SMTT(30), TypeFacts, <1>a, <1>b DEF IInv, FlushFails, Placed, Starting, Acting, Held, Numbered
<1>4. Ordered'
  BY TypeFacts, <1>a, <1>b DEF IInv, FlushFails, Ordered, Base, Placed, Starting, Acting, Numbered, Held
<1>5. Clean'
  BY <1>0, TypeFacts, <1>a, <1>b DEF IInv, FlushFails, Clean, Held, Sticky, Placed
<1>6. Durable'
  BY <1>0, TypeFacts, <1>a, <1>b DEF IInv, FlushFails, Durable, Sticky
<1>7. Exact'
  BY <1>0, TypeFacts, <1>a, <1>b DEF IInv, FlushFails, Exact, Sticky, Durable, Placed
<1>8. Submitted'
  BY <1>0, TypeFacts, <1>a, <1>b DEF IInv, FlushFails, Submitted, Told, Sticky, Starting, Base, Acting, Placed, Ordered, Held
<1> QED BY <1>0, <1>1, <1>2, <1>3, <1>4, <1>5, <1>6, <1>7, <1>8 DEF IInv, Sticky

\* The written entry leaves the queue, or goes back to its end.
LEMMA FlushSettlesStep == ASSUME IInv, FlushSettles PROVE IInv'
<1>0. Sticky
  BY SpendFacts, KeepFacts DEF IInv, FlushSettles, FaultKinds
<1>a. /\ queue \in Seq(Snapshot) /\ queueFile \in Seq(Snapshot) /\ Unique(queue)
      /\ queue # <<>> /\ pc \in {"idle", "record"}
      /\ db[Head(queue).sess] = Head(queue).ver
  BY DEF IInv, TypeOK, Numbered, Placed, FlushSettles
<1>b. /\ queue' \in Seq(Snapshot) /\ Unique(queue') /\ Versions(queue') \subseteq Versions(queue)
      /\ queueFile' = queueFile \/ queueFile' = queue'
      /\ ~Spent("queueFile")' => /\ queueFile' = queue'
                                 /\ \A s \in Sessions : In(db, queue', s) = In(db, queue, s)
  <2>1. CASE queue' = Tail(queue) /\ queueFile' = queue'
    <3>1. ASSUME NEW s \in Sessions PROVE In(db, Tail(queue), s) = In(db, queue, s)
      BY <1>a, TailFacts DEF In, Same
    <3> QED BY <1>a, <2>1, <3>1, TailFacts
  <2>2. CASE /\ queue' = Append(Tail(queue), Head(queue)) /\ Spend({"queueFile"})
             /\ UNCHANGED queueFile
    <3>1. Spent("queueFile")'
      BY <2>2, SpendFacts DEF IInv, FaultKinds
    <3>2. /\ queue' \in Seq(Snapshot) /\ Unique(queue')
          /\ Versions(queue') \subseteq Versions(Tail(queue)) \cup {Head(queue).ver}
      BY <1>a, <2>2, TailFacts, EndFacts
    <3> QED BY <1>a, <2>2, <3>1, <3>2, TailFacts
  <2> QED BY <2>1, <2>2 DEF FlushSettles
<1>1. TypeOK'
  BY <1>0, <1>b DEF IInv, FlushSettles, Sticky, TypeOK, Places
<1>2. Numbered'
  BY TypeFacts, <1>b DEF IInv, FlushSettles, Numbered, Held
<1>3. Placed'
  BY TypeFacts, <1>b DEF IInv, FlushSettles, Placed, Starting, Acting, Held
<1>4. Ordered'
  BY TypeFacts DEF IInv, FlushSettles, Ordered, Base, Placed, Starting, Acting, Numbered, Held
<1>5. Clean'
  BY <1>0, TypeFacts, <1>b DEF IInv, FlushSettles, Clean, Held, Sticky, Placed
<1>6. Durable'
  BY <1>0, TypeFacts, <1>a, <1>b DEF IInv, FlushSettles, Durable, Sticky
<1>7. Exact'
  BY <1>0, TypeFacts, <1>a, <1>b DEF IInv, FlushSettles, Exact, Sticky, Durable, Placed
<1>8. Submitted'
  BY <1>0, TypeFacts DEF IInv, FlushSettles, Submitted, Told, Sticky, Starting, Base, Acting, Placed, Ordered, Held
<1> QED BY <1>0, <1>1, <1>2, <1>3, <1>4, <1>5, <1>6, <1>7, <1>8 DEF IInv, Sticky

\* The snapshot is in the database or in the queue, whatever was there of its
\* session before, and the other sessions are as they were.
Stored ==
  /\ db' \in [Sessions -> 0..MaxActs]
  /\ \A s \in Sessions : db'[s] = db[s] \/ db'[s] = state.ver
  /\ queue' \in Seq(Snapshot) /\ queueFile' \in Seq(Snapshot)
  /\ Unique(queue') /\ Unique(queueFile')
  /\ Versions(queue') \subseteq Versions(queue) \cup {state.ver}
  /\ Versions(queueFile') \subseteq Versions(queue) \cup Versions(queueFile) \cup {state.ver}

StoredExactly ==
  ~Spent("queueFile")' =>
    /\ queue' = queueFile' /\ In(db', queueFile', state.sess) = state.ver
    /\ \A s \in Sessions : s # state.sess => In(db', queueFile', s) = In(db, queueFile, s)

\* The end of record: the snapshot is handed to the publisher.
Handed ==
  /\ Submit /\ ~flushing /\ pc \in {"record", "settle", "bootRecord", "bootSettle"}
  /\ UNCHANGED <<issued, state, file, dbUp, flushing, sending, nats, rejected>>
  /\ connected' \in BOOLEAN

\* What is stored and handed to the publisher keeps the invariant.
LEMMA SubmitStep == ASSUME IInv, Handed, Sticky, Stored, StoredExactly
  PROVE IInv'
<1>0. Sticky /\ Stored /\ StoredExactly
  OBVIOUS
<1>i. /\ TypeOK /\ Budgeted /\ Numbered /\ Placed /\ Ordered /\ Clean
      /\ Durable /\ Exact /\ Submitted
  BY DEF IInv
<1>u. UNCHANGED <<issued, state, file, dbUp, flushing, sending, nats, rejected>> /\ ~flushing
  BY DEF Handed
<1>a. /\ state \in Snapshot /\ state # None /\ state = file /\ state.sess \in Sessions
      /\ state.ver \in 1..MaxActs /\ state.ver \in Nat /\ pc' = "idle" /\ pending' = state /\ prior' = None
  <2>1. state = file /\ state # None
    BY <1>i DEF Placed, Handed
  <2>2. state \in Snapshot
    BY <1>i, <2>1, TypeFacts DEF Held
  <2>3. state.sess \in Sessions /\ state.ver \in 1..MaxActs /\ state.ver \in Nat
    BY <1>i, <2>2, TypeFacts DEF Sessions
  <2> QED BY <2>1, <2>2, <2>3 DEF Handed, Submit
<1>b. /\ latest' \in [Sessions -> 0..MaxActs]
      /\ \A s \in Sessions : latest'[s] = IF s = state.sess THEN state.ver ELSE latest[s]
  <2>1. latest' = [latest EXCEPT ![state.sess] = state.ver]
    BY DEF Handed, Submit
  <2>2. state.ver \in 0..MaxActs /\ latest \in [Sessions -> 0..MaxActs]
    BY <1>a, <1>i, ActsAssumption DEF TypeOK
  <2> QED BY <1>a, <2>1, <2>2
<1>c. \A s \in Sessions : latest[s] <= state.ver
  <2>1. Base = prior \/ Base = state
    BY <1>a DEF Base, Acting
  <2>2. Base = prior => (prior.ver < issued /\ state.ver = issued) \/ Base = state
    BY <1>a, <1>i DEF Base, Placed, Acting
  <2>3. prior.ver \in Nat /\ issued \in Nat /\ \A s \in Sessions : latest[s] \in Nat
    BY <1>i, TypeFacts DEF Held
  <2>4. \A s \in Sessions : latest[s] <= Base.ver
    BY <1>i DEF Ordered
  <2> QED BY <1>a, <2>1, <2>2, <2>3, <2>4
<1>1. TypeOK'
  <2>1. {state, None, file, state, sending, nats} \subseteq Snapshot \cup {None}
    BY <1>i DEF TypeOK
  <2>2. {state, prior, file, pending, sending, nats}' \subseteq Snapshot \cup {None}
    BY <1>a, <1>u, <2>1
  <2>3. /\ issued' \in 0..MaxActs /\ dbUp' \in BOOLEAN /\ flushing' \in BOOLEAN
        /\ rejected' \subseteq 1..MaxActs
    BY <1>i, <1>u DEF TypeOK
  <2>4. connected' \in BOOLEAN /\ pc' \in Places
    BY <1>a DEF Handed, Places
  <2> QED BY <1>0, <1>b, <2>2, <2>3, <2>4 DEF Stored, Sticky, TypeOK
<1>v. \A v \in Versions(queue) \cup Versions(queueFile) \cup {state.ver} : v <= issued /\ v \notin rejected
  <2>1. \A v \in Versions(queue) \cup Versions(queueFile) : v <= issued /\ v \notin rejected
    BY <1>i DEF Numbered, Clean
  <2>2. state \in Held BY DEF Held
  <2>3. state.ver <= issued /\ state.ver \notin rejected
    BY <1>i, <2>2 DEF Numbered, Clean
  <2> QED BY <2>1, <2>3
<1>h. Held' \subseteq Held \cup {None}
  BY <1>a, <1>u DEF Held
<1>2. Numbered'
  <2>0. None.sess = 0 /\ None.ver = 0 /\ issued \in Nat
    BY <1>i, TypeFacts
  <2>1. \A x \in Held' : x.sess <= x.ver /\ x.ver <= issued'
    BY <1>h, <1>i, <1>u, <2>0 DEF Numbered
  <2>2. \A s \in Sessions : db'[s] <= issued'
    BY <1>0, <1>i, <1>u, <1>v DEF Numbered, Stored
  <2>3. \A v \in Versions(queue') \cup Versions(queueFile') : v <= issued'
    BY <1>0, <1>u, <1>v DEF Stored
  <2> QED BY <1>0, <2>1, <2>2, <2>3 DEF Numbered, Stored
<1>3. Placed'
  <2>1. ~Starting' /\ ~Acting' /\ pc' = "idle" /\ ~flushing' /\ state' = file'
    BY <1>a, <1>u DEF Starting, Acting
  <2>2. state'.ver <= file'.ver
    BY <1>a, <1>u
  <2> QED BY <2>1, <2>2 DEF Placed
<1>4. Ordered'
  <2>1. Base' = state
    BY <1>a, <1>u DEF Base, Acting
  <2>2. \A s \in Sessions : latest'[s] <= Base'.ver /\ (latest'[s] > 0 => s <= latest'[s])
    <3>1. state.sess <= state.ver /\ state.ver <= state.ver
      <4>1. state \in Held BY DEF Held
      <4> QED BY <1>a, <1>i, <4>1 DEF Numbered
    <3>2. \A s \in Sessions : latest[s] > 0 => s <= latest[s]
      BY <1>i DEF Ordered
    <3> QED BY <1>b, <1>c, <2>1, <3>1, <3>2
  <2>3. \A s \in Sessions : latest[s] <= latest'[s] /\ latest[s] \in Nat /\ latest'[s] \in Nat
    <3>1. \A s \in Sessions : latest[s] \in Nat BY <1>i, TypeFacts
    <3> QED BY <1>a, <1>b, <1>c, <3>1
  <2>4. ASSUME NEW x \in {sending, nats}, x # None
        PROVE  x.ver <= latest'[x.sess] /\ x.ver <= state.ver
    <3>0. x \in Held BY DEF Held
    <3>1. x \in Snapshot /\ x.ver <= latest[x.sess]
      BY <1>i, <2>4, <3>0, TypeFacts DEF Ordered
    <3>2. x.sess \in Sessions /\ x.ver \in Nat
      BY <1>i, <3>1, TypeFacts
    <3>3. /\ latest[x.sess] <= latest'[x.sess] /\ latest[x.sess] <= state.ver
          /\ latest[x.sess] \in Nat /\ latest'[x.sess] \in Nat
      BY <1>c, <2>3, <3>2
    <3> QED BY <1>a, <3>1, <3>2, <3>3
  <2>5. nats.ver <= state.ver
    <3>1. CASE nats = None
      <4>1. nats.ver = 0 BY <1>i, <3>1, TypeFacts
      <4> QED BY <1>a, <4>1
    <3>2. CASE nats # None BY <2>4, <3>2
    <3> QED BY <3>1, <3>2
  <2>6. state.ver <= latest'[state.sess]
    <3>1. latest'[state.sess] = state.ver BY <1>a, <1>b
    <3> QED BY <1>a, <3>1
  <2>7. sending # None => nats.ver <= sending.ver /\ sending.ver <= state.ver
    BY <1>i, <2>4 DEF Ordered
  <2> QED BY <1>a, <1>u, <2>2, <2>4, <2>5, <2>6, <2>7 DEF Ordered
<1>5. Clean'
  <2>0. None.ver \notin rejected /\ rejected' \subseteq 1..issued'
    <3>1. None.ver = 0 /\ issued \in Nat BY <1>i, TypeFacts
    <3>2. rejected \subseteq 1..issued BY <1>i DEF Clean
    <3> QED BY <1>u, <3>1, <3>2
  <2>1. \A x \in Held' : x.ver \notin rejected'
    BY <1>h, <1>i, <1>u, <2>0 DEF Clean
  <2>2. \A v \in Versions(queue') \cup Versions(queueFile') : v \notin rejected'
    BY <1>0, <1>u, <1>v DEF Stored
  <2>3. \A s \in Sessions : db'[s] = db[s] \/ db'[s] \notin rejected
    BY <1>0, <1>v DEF Stored
  <2>4. ~(Spent("reply") /\ Spent("queueFile"))' => \A s \in Sessions : db'[s] \notin rejected'
    BY <1>0, <1>i, <1>u, <2>3 DEF Clean, Sticky
  <2> QED BY <2>0, <2>1, <2>2, <2>4 DEF Clean
<1>6. Durable'
  <2>1. ASSUME ~Spent("queueFile")', NEW s \in Sessions
        PROVE  latest'[s] <= In(db', queueFile', s)
    <3>1. ~Spent("queueFile") BY <1>0, <2>1 DEF Sticky
    <3>2. latest[s] <= In(db, queueFile, s) BY <1>i, <3>1 DEF Durable
    <3>3. CASE s = state.sess
      BY SMTT(30), <1>0, <1>a, <1>b, <2>1, <3>3 DEF StoredExactly
    <3>4. CASE s # state.sess
      BY <1>0, <1>b, <2>1, <3>2, <3>4 DEF StoredExactly
    <3> QED BY <3>3, <3>4
  <2> QED BY <1>0, <2>1 DEF Durable, StoredExactly
<1>7. Exact'
  <2>1. ASSUME ~Spent("queueFile")', ~Spent("cancel")', NEW s \in Sessions, latest'[s] > 0
        PROVE  In(db', queueFile', s) = latest'[s]
    <3>1. CASE s = state.sess
      BY <1>0, <1>b, <2>1, <3>1 DEF StoredExactly
    <3>2. CASE s # state.sess
      <4>1. ~Spent("queueFile") /\ ~Spent("cancel") BY <1>0, <2>1 DEF Sticky
      <4>2. latest'[s] = latest[s] /\ s # file.sess BY <1>a, <1>b, <3>2
      <4>3. In(db, queueFile, s) = latest[s] BY <1>i, <2>1, <4>1, <4>2 DEF Exact
      <4> QED BY <1>0, <2>1, <3>2, <4>2, <4>3 DEF StoredExactly
    <3> QED BY <3>1, <3>2
  <2> QED BY <2>1 DEF Exact
<1>8. Submitted'
  <2>1. Base' = state
    BY <1>a, <1>u DEF Base, Acting
  <2>2. Told(state)' /\ latest'[state.sess] = state.ver
    BY <1>a, <1>b, <1>u DEF Told
  <2> QED BY <1>a, <1>u, <2>1, <2>2 DEF Submitted, Told
<1> QED BY <1>0, <1>1, <1>2, <1>3, <1>4, <1>5, <1>6, <1>7, <1>8 DEF IInv, Sticky

\* The snapshot was written: an older one leaves the queue, or goes back to its
\* end when the queue cannot be saved.
LEMMA RecordSettlesStep == ASSUME IInv, RecordSettles PROVE IInv'
<1>0. Sticky
  BY SpendFacts, KeepFacts DEF IInv, RecordSettles, FaultKinds
<1>1. /\ queue \in Seq(Snapshot) /\ queueFile \in Seq(Snapshot) /\ Unique(queue) /\ Unique(queueFile)
      /\ pc \in {"settle", "bootSettle"} /\ ~flushing /\ state \in Snapshot /\ state.sess \in Sessions
      /\ db[state.sess] = state.ver /\ db \in [Sessions -> 0..MaxActs] /\ connected \in BOOLEAN
  BY TypeFacts DEF IInv, TypeOK, Numbered, Placed, Held, RecordSettles
<1>2. /\ queue' \in Seq(Snapshot) /\ Unique(queue')
      /\ Versions(queue') \subseteq Versions(queue) \cup {state.ver}
      /\ queueFile' = queueFile \/ queueFile' = queue'
      /\ ~Spent("queueFile")' =>
           /\ queueFile' = queue' /\ In(db, queue', state.sess) = state.ver
           /\ \A s \in Sessions : s # state.sess => In(db, queue', s) = In(db, queueFile, s)
  <2>0. ~Spent("queueFile")' => queue = queueFile
    BY <1>0, <1>1 DEF IInv, Durable, Sticky
  <2>1. CASE ~Queued(queue, state.sess) /\ UNCHANGED <<queue, queueFile, budget>>
    <3>1. In(db, queue, state.sess) = state.ver
      BY <1>1, <2>1 DEF In
    <3> QED BY <1>1, <2>0, <2>1, <3>1
  <2>2. CASE /\ Queued(queue, state.sess) /\ queue' = Without(queue, state.sess)
             /\ queueFile' = queue'
    <3>1. ~Queued(queue', state.sess) /\ \A s : s # state.sess => Same(queue, queue', s)
      BY <1>1, <2>2, WithoutFacts
    <3>2. In(db, queue', state.sess) = state.ver
      BY <1>1, <3>1 DEF In
    <3>3. \A s \in Sessions : s # state.sess => In(db, queue', s) = In(db, queue, s)
      BY <3>1 DEF In, Same
    <3> QED BY <1>1, <2>0, <2>2, <3>2, <3>3, WithoutFacts
  <2>3. CASE /\ Queued(queue, state.sess) /\ Spend({"queueFile"}) /\ UNCHANGED queueFile
             /\ queue' = Append(Without(queue, state.sess), queue[Place(queue, state.sess)])
    <3> DEFINE w == Without(queue, state.sess)
               e == queue[Place(queue, state.sess)]
    <3>1. Spent("queueFile")'
      BY <2>3, SpendFacts DEF IInv, FaultKinds
    <3>2. w \in Seq(Snapshot) /\ Unique(w) /\ ~Queued(w, state.sess) /\ Versions(w) \subseteq Versions(queue)
      BY <1>1, <2>3, WithoutFacts
    <3>3. Place(queue, state.sess) \in 1..Len(queue) /\ e.sess = state.sess
      BY <1>1, <2>3, PlaceFacts
    <3>4. e \in Snapshot /\ e.ver \in Versions(queue)
      BY SMTT(30), <1>1, <3>3 DEF Versions
    <3> HIDE DEF w, e
    <3>5. Append(w, e) \in Seq(Snapshot) /\ Unique(Append(w, e)) /\ Versions(Append(w, e)) \subseteq Versions(w) \cup {e.ver}
      BY <3>2, <3>3, <3>4, EndFacts
    <3>6. queue' = Append(w, e)
      BY <2>3 DEF w, e
    <3>7. Versions(queue') \subseteq Versions(queue)
      BY <3>2, <3>4, <3>5, <3>6
    <3> QED BY <2>3, <3>1, <3>5, <3>6, <3>7
  <2> QED BY <2>1, <2>2, <2>3 DEF RecordSettles
<1>3. UNCHANGED db /\ Handed
  BY <1>1 DEF RecordSettles, Handed
<1>4. Stored
  BY <1>1, <1>2, <1>3 DEF Stored
<1>5. StoredExactly
  BY <1>2, <1>3 DEF StoredExactly
<1> QED BY <1>0, <1>3, <1>4, <1>5, SubmitStep

\* The snapshot is in the retry queue, written or not.
LEMMA RecordQueuesStep == ASSUME IInv, RecordQueues PROVE IInv'
<1>0. Sticky
  BY SpendFacts DEF IInv, RecordQueues, FaultKinds
<1>1. /\ queue \in Seq(Snapshot) /\ Unique(queue)
      /\ pc \in {"record", "bootRecord"} /\ ~flushing /\ state \in Snapshot /\ state.sess \in Sessions
  BY TypeFacts DEF IInv, TypeOK, Numbered, Placed, Held, RecordQueues, Recording
<1>2. /\ queue' \in Seq(Snapshot) /\ Unique(queue') /\ queueFile' = queue'
      /\ Queued(queue', state.sess) /\ queue'[Place(queue', state.sess)] = state
      /\ \A t : t # state.sess => Same(queue, queue', t)
      /\ Versions(queue') \subseteq Versions(queue) \cup {state.ver}
  BY <1>1, PutFacts DEF RecordQueues
<1>3. /\ db' \in [Sessions -> 0..MaxActs]
      /\ \A s \in Sessions : db'[s] = IF s = state.sess THEN db'[s] ELSE db[s]
      /\ \A s \in Sessions : db'[s] = db[s] \/ db'[s] = state.ver
  <2>1. UNCHANGED db \/ Write(state)
    BY DEF RecordQueues, Unwritable
  <2>2. CASE UNCHANGED db
    BY <2>2 DEF IInv, TypeOK
  <2>3. CASE Write(state)
    BY <1>1, <2>3, WriteFacts DEF IInv
  <2> QED BY <2>1, <2>2, <2>3
<1>4. In(db', queue', state.sess) = state.ver
  BY <1>2 DEF In
<1>5. ASSUME ~Spent("queueFile")', NEW s \in Sessions, s # state.sess
      PROVE  In(db', queue', s) = In(db, queueFile, s)
  <2>1. queue = queueFile
    BY <1>0, <1>1, <1>5 DEF IInv, Durable, Sticky
  <2> QED BY <1>2, <1>3, <1>5, <2>1 DEF In, Same
<1>6. Handed
  BY <1>1 DEF RecordQueues, Handed
<1>7. Stored
  BY <1>2, <1>3 DEF Stored
<1>8. StoredExactly
  BY <1>2, <1>4, <1>5 DEF StoredExactly
<1> QED BY <1>0, <1>6, <1>7, <1>8, SubmitStep

\* An action is refused: the state of before is restored, and saved if it can be.
LEMMA RollBackStep == ASSUME IInv, NEW faults \in SUBSET FaultKinds, RollBack(faults),
         pc = "record", ~flushing, connected' \in BOOLEAN,
         UNCHANGED db \/ (Write(state) /\ {"reply", "queueFile"} \subseteq faults)
  PROVE IInv'
<1>0. Sticky /\ \A k \in faults : Spent(k)'
  <2>1. faults \cup {"stateFile"} \in SUBSET FaultKinds
    BY DEF FaultKinds
  <2>2. CASE Spend(faults)
    BY <2>2, SpendFacts DEF IInv
  <2>3. CASE Spend(faults \cup {"stateFile"})
    BY <2>1, <2>3, SpendFacts DEF IInv
  <2> QED BY <2>2, <2>3 DEF RollBack
<1>a. /\ state \in Snapshot /\ state = file /\ state.ver = issued /\ prior.ver < issued
      /\ pc' = "idle" /\ state' = prior /\ prior' = None /\ issued \in 1..MaxActs
      /\ \/ file' = prior /\ rejected' = rejected \cup {issued}
         \/ file' = file /\ rejected' = rejected
  BY TypeFacts DEF IInv, Placed, Acting, Held, RollBack, Sessions
<1>b. /\ db' \in [Sessions -> 0..MaxActs]
      /\ \A s \in Sessions : db'[s] = db[s] \/ db'[s] = state.ver
      /\ ~Spent("queueFile")' => db' = db
      /\ ~(Spent("reply") /\ Spent("queueFile"))' => db' = db
  <2>1. CASE UNCHANGED db
    BY <2>1 DEF IInv, TypeOK
  <2>2. CASE Write(state) /\ {"reply", "queueFile"} \subseteq faults
    BY <1>0, <1>a, <2>2, WriteFacts DEF IInv
  <2> QED BY <2>1, <2>2
<1>1. TypeOK'
  BY <1>0, <1>a, <1>b DEF IInv, RollBack, Sticky, TypeOK, Places
<1>u. UNCHANGED <<issued, queue, queueFile, flushing, pending, sending, nats>>
  BY DEF RollBack, publisher
<1>2. Numbered'
  <2>1. TypeOK /\ Numbered BY DEF IInv
  <2>2. Held' \subseteq Held \cup {None}
    BY <1>a, <1>u DEF Held
  <2>3. None.sess = 0 /\ None.ver = 0 /\ issued \in Nat
    BY <2>1, TypeFacts
  <2>4. \A x \in Held' : x.sess <= x.ver /\ x.ver <= issued'
    BY <1>u, <2>1, <2>2, <2>3 DEF Numbered
  <2>5. \A s \in Sessions : db'[s] <= issued'
    BY <1>a, <1>b, <1>u, <2>1, <2>3 DEF Numbered
  <2> QED BY <1>u, <2>1, <2>4, <2>5 DEF Numbered
<1>3. Placed'
  <2>1. TypeOK BY DEF IInv
  <2>2. prior.ver <= issued /\ state.ver = issued
    <3>1. prior.ver \in Nat /\ issued \in Nat BY <2>1, TypeFacts DEF Held
    <3> QED BY <1>a, <3>1
  <2>3. prior.ver <= prior.ver
    <3>1. prior.ver \in Nat BY <2>1, TypeFacts DEF Held
    <3> QED BY <3>1
  <2>4. state'.ver <= file'.ver
    BY <1>a, <2>2, <2>3
  <2>5. ~Starting' /\ ~Acting' /\ pc' = "idle" /\ ~flushing'
    BY <1>a, <1>u DEF Starting, Acting
  <2> QED BY <2>4, <2>5 DEF Placed
<1>4. Ordered'
  BY TypeFacts, <1>a, <1>b DEF IInv, RollBack, Ordered, Base, Placed, Starting, Acting, Numbered, Held
<1>5. Clean'
  <2>1. rejected' \subseteq rejected \cup {issued} /\ rejected' \subseteq 1..issued
    <3>1. issued \in 1..issued /\ rejected \subseteq 1..issued
      BY <1>a DEF IInv, Clean
    <3> QED BY <1>a, <3>1
  <2>2. ASSUME NEW x \in {pending, sending, nats} PROVE x.ver # issued
    <3>1. CASE x = None
      BY <1>a, <3>1, TypeFacts DEF IInv
    <3>2. CASE x # None
      <4>1. x.ver <= latest[x.sess] /\ x \in Snapshot
        BY <3>2, TypeFacts DEF IInv, Ordered, Held
      <4>2. x.sess \in Sessions /\ latest[x.sess] \in Nat /\ x.ver \in Nat
        BY <4>1, TypeFacts DEF IInv
      <4>3. latest[x.sess] <= prior.ver /\ prior.ver \in Nat
        BY <4>2, TypeFacts DEF IInv, Ordered, Base, Acting, Held
      <4> QED BY <1>a, <4>1, <4>2, <4>3
    <3> QED BY <3>1, <3>2
  <2>3. prior.ver # issued /\ None.ver # issued /\ None.ver \notin rejected
    BY <1>a, TypeFacts DEF IInv, Held, Clean
  <2>4. (\A x \in Held : x.ver \notin rejected)'
    <3>1. CASE file' = prior
      BY <1>a, <2>1, <2>2, <2>3, <3>1 DEF IInv, Clean, Held, RollBack
    <3>2. CASE file' = file /\ rejected' = rejected
      BY SMTT(30), <1>a, <3>2, TypeFacts DEF IInv, Clean, Held, RollBack
    <3> QED BY <1>a, <3>1, <3>2
  <2>5. (\A q \in {queue, queueFile} : Versions(q) \cap rejected = {})'
    BY <2>1 DEF IInv, Clean, Placed, RollBack
  <2>6. ASSUME NEW s \in Sessions PROVE db[s] # issued
    BY <2>6, TypeFacts DEF IInv, Placed
  <2> QED BY <1>0, <1>b, <2>1, <2>4, <2>5, <2>6 DEF IInv, Clean, Sticky, RollBack
<1>6. Durable'
  BY <1>0, TypeFacts, <1>a, <1>b DEF IInv, RollBack, Durable, Sticky
<1>7. Exact'
  BY <1>0, TypeFacts, <1>a, <1>b DEF IInv, RollBack, Exact, Sticky, Durable, Placed
<1>8. Submitted'
  BY <1>0, TypeFacts, <1>a, <1>b DEF IInv, RollBack, Submitted, Told, Sticky, Starting, Base, Acting, Placed, Ordered, Held
<1> QED BY <1>0, <1>1, <1>2, <1>3, <1>4, <1>5, <1>6, <1>7, <1>8 DEF IInv, Sticky

\* Neither the database nor the queue can be written.
LEMMA RecordUnqueuableStep == ASSUME IInv, RecordUnqueuable PROVE IInv'
<1>1. PICK lost \in SUBSET {"reply"} : Unwritable(lost) /\ Fail(lost \cup {"queueFile"})
  BY DEF RecordUnqueuable
<1>2. /\ lost \cup {"queueFile"} \in SUBSET FaultKinds
      /\ UNCHANGED db \/ (Write(state) /\ {"reply", "queueFile"} \subseteq lost \cup {"queueFile"})
  BY <1>1 DEF Unwritable, FaultKinds
<1>3. pc \in {"record", "bootRecord"} /\ ~flushing /\ connected' \in BOOLEAN /\ state # None
  BY DEF IInv, Placed, RecordUnqueuable, Recording
<1>4. CASE Booting
  <2>1. Vanish /\ Spend(lost \cup {"queueFile"})
    BY <1>1, <1>4 DEF Fail
  <2>2. Sticky /\ Spent("queueFile")'
    BY <1>2, <2>1, SpendFacts DEF IInv
  <2> QED BY <1>2, <1>3, <2>1, <2>2, VanishStep
<1>5. CASE ~Booting
  <2>1. RollBack(lost \cup {"queueFile"}) /\ pc = "record"
    BY <1>1, <1>3, <1>5 DEF Fail, Booting
  <2> QED BY <1>2, <1>3, <2>1, RollBackStep
<1> QED BY <1>4, <1>5

\* The database refuses the snapshot.
LEMMA RecordRejectedStep == ASSUME IInv, RecordRejected PROVE IInv'
<1>1. /\ pc \in {"record", "bootRecord"} /\ ~flushing /\ UNCHANGED db /\ Fail({"reject"})
      /\ {"reject"} \in SUBSET FaultKinds
  BY DEF RecordRejected, Recording, FaultKinds
<1>2. CASE Booting
  <2>1. Vanish /\ Spend({"reject"})
    BY <1>1, <1>2 DEF Fail
  <2> QED BY <1>1, <2>1, SpendFacts, VanishStep DEF IInv
<1>3. CASE ~Booting
  <2>1. RollBack({"reject"}) /\ pc = "record" /\ connected' \in BOOLEAN
    BY <1>1, <1>3 DEF Fail, Booting, RecordRejected, IInv, TypeOK
  <2> QED BY <1>1, <2>1, RollBackStep
<1> QED BY <1>2, <1>3

\* A step that changes nothing.
LEMMA StutterStep == ASSUME IInv, UNCHANGED vars PROVE IInv'
<1> USE DEF vars
<1>1. TypeOK' BY DEF IInv, TypeOK
<1>2. Budgeted' BY DEF IInv, Budgeted
<1>3. Numbered' BY DEF IInv, Numbered, Held
<1>4. Placed' BY DEF IInv, Placed, Starting, Acting
<1>5. Ordered' BY DEF IInv, Ordered, Base, Acting
<1>6. Clean' BY DEF IInv, Clean, Held, Spent
<1>7. Durable' BY DEF IInv, Durable, Spent
<1>8. Exact' BY DEF IInv, Exact, Spent
<1>9. Submitted' BY DEF IInv, Submitted, Told, Starting, Base, Acting, Spent
<1> QED BY <1>1, <1>2, <1>3, <1>4, <1>5, <1>6, <1>7, <1>8, <1>9 DEF IInv

-----------------------------------------------------------------------------
(* The theorems.                                                           *)

\* The inductive invariant holds of every state the service, its disk, its
\* database and the vehicle's message can be in.
THEOREM Invariance == Spec => []IInv
<1>1. Init => IInv
  <2> SUFFICES ASSUME Init PROVE IInv
    OBVIOUS
  <2>1. TypeOK
    <3>1. 0 \in 0..MaxActs /\ FaultBudget \in [FaultKinds -> Nat]
      BY ActsAssumption, FaultAssumption
    <3>2. [s \in Sessions |-> 0] \in [Sessions -> 0..MaxActs]
      BY <3>1
    <3> QED BY <3>1, <3>2, EmptyFacts DEF Init, TypeOK, Places
  <2>0. Budgeted
    BY FaultAssumption DEF Init, Budgeted
  <2>2. Numbered /\ Clean
    BY SMTT(30), <2>1, TypeFacts, EmptyFacts DEF Init, Numbered, Held, Clean
  <2>4. Placed /\ Submitted
    BY <2>1, TypeFacts, EmptyFacts DEF Init, Placed, Starting, Acting, Submitted
  <2>5. Ordered
    BY <2>1, TypeFacts DEF Init, Ordered, Base, Acting
  <2>3. Durable /\ Exact
    <3>1. \A s \in Sessions : In(db, queueFile, s) = 0 /\ latest[s] = 0
      BY DEF Init, In, Queued
    <3> QED BY <3>1 DEF Durable, Exact, Init
  <2> QED BY <2>0, <2>1, <2>2, <2>3, <2>4, <2>5 DEF IInv
<1>2. IInv /\ [Next]_vars => IInv'
  <2> SUFFICES ASSUME IInv, [Next]_vars PROVE IInv'
    OBVIOUS
  <2> QED
    BY BootStep, ActStep, RecordCommitsStep, RecordSettlesStep, RecordQueuesStep, ConnectStep,
       FlushCommitsStep, FlushSettlesStep, SendStep, SentStep, DbUpStep, CrashStep,
       ActUnsavableStep, RecordUnqueuableStep, RecordRejectedStep, CancelStep, FlushFailsStep,
       FlushRejectedStep, DbDownStep, SendFailsStep, StutterStep
    DEF Next, Record, Database, Fault
<1> QED BY <1>1, <1>2, PTL DEF Spec

\* The number a queue and the rows make of a session.
LEMMA SettledIs == \A q, s : Settled(q, s) = In(db, q, s)
BY DEF Settled, In

\* Every variable of the service has its type, whatever happens.
THEOREM TypeCorrect == Spec => []TypeOK
<1>1. IInv => TypeOK BY DEF IInv
<1> QED BY <1>1, Invariance, PTL

\* Between actions the database and the retry queue amount to the operator's
\* state, and at all times to the last snapshot of every earlier session.
THEOREM AlwaysRecorded == Spec => []Recorded
<1>1. IInv => Recorded
  <2> SUFFICES ASSUME IInv, ~Spent("queueFile"), ~Spent("cancel")
               PROVE  /\ pc = "idle" /\ state # None => Settled(queue, state.sess) = state.ver
                      /\ \A s \in Sessions : latest[s] > 0 /\ s # file.sess =>
                           Settled(queueFile, s) = latest[s]
    BY DEF Recorded
  <2>1. ASSUME pc = "idle", state # None PROVE Settled(queue, state.sess) = state.ver
    <3>1. state.sess \in Sessions /\ state.ver > 0
      BY <2>1, TypeFacts DEF IInv, Held
    <3>2. latest[state.sess] = state.ver
      BY <2>1 DEF IInv, Submitted, Starting, Base, Acting
    <3>3. In(db, queueFile, state.sess) = state.ver
      BY <2>1, <3>1, <3>2 DEF IInv, Exact
    <3>4. queue = queueFile
      BY <2>1 DEF IInv, Durable
    <3> QED BY <3>3, <3>4, SettledIs
  <2>2. ASSUME NEW s \in Sessions, latest[s] > 0, s # file.sess
        PROVE  Settled(queueFile, s) = latest[s]
    BY <2>2, SettledIs DEF IInv, Exact
  <2> QED BY <2>1, <2>2
<1> QED BY <1>1, Invariance, PTL

\* Whatever the vehicle was told is in the database or durably queued.
THEOREM AlwaysPublishedIsRecorded == Spec => []PublishedIsRecorded
<1>1. IInv => PublishedIsRecorded
  <2> SUFFICES ASSUME IInv, ~Spent("queueFile"), nats # None
               PROVE  Settled(queueFile, nats.sess) >= nats.ver
    BY DEF PublishedIsRecorded
  <2>1. nats.sess \in Sessions /\ nats.ver \in Nat /\ latest[nats.sess] \in Nat
    BY TypeFacts DEF IInv, Held
  <2>2. nats.ver <= latest[nats.sess]
    BY DEF IInv, Ordered
  <2>3. latest[nats.sess] <= In(db, queueFile, nats.sess)
    BY <2>1 DEF IInv, Durable
  <2>4. In(db, queueFile, nats.sess) \in Nat
    <3>1. CASE Queued(queueFile, nats.sess)
      <4>1. Place(queueFile, nats.sess) \in 1..Len(queueFile) /\ queueFile \in Seq(Snapshot)
        BY <3>1, PlaceFacts DEF IInv, TypeOK
      <4>2. queueFile[Place(queueFile, nats.sess)] \in Snapshot BY <4>1
      <4>3. queueFile[Place(queueFile, nats.sess)].ver \in Nat BY <4>2, TypeFacts DEF IInv
      <4> QED BY <3>1, <4>3 DEF In
    <3>2. CASE ~Queued(queueFile, nats.sess)
      BY <2>1, <3>2, TypeFacts DEF In, IInv
    <3> QED BY <3>1, <3>2
  <2> QED BY <2>1, <2>2, <2>3, <2>4, SettledIs
<1> QED BY <1>1, Invariance, PTL

\* A refused action that was rolled back has no effect on the vehicle, nor on
\* the database unless its commit was lost and the queue could not be written.
THEOREM AlwaysRefusedHasNoEffect == Spec => []RefusedHasNoEffect
<1>1. IInv => RefusedHasNoEffect BY DEF IInv, Clean, Held, RefusedHasNoEffect
<1> QED BY <1>1, Invariance, PTL

\* A publisher with nothing left to send has told the vehicle the state the
\* operator sees, unless an action was cancelled.
THEOREM AlwaysQuietIsPublished == Spec => []QuietIsPublished
<1>1. IInv => QuietIsPublished
  BY DEF IInv, Submitted, Told, Starting, Base, Acting, QuietIsPublished, EveryChangePublished
<1> QED BY <1>1, Invariance, PTL

\* The vehicle is never told an older state after a newer one.
THEOREM AlwaysNatsInOrder == Spec => NatsInOrder
<1>1. IInv /\ [Next]_vars => [nats'.ver >= nats.ver]_vars
  <2> SUFFICES ASSUME IInv, Next PROVE nats'.ver >= nats.ver
    OBVIOUS
  <2>1. nats.ver \in Nat /\ sending.ver \in Nat
    BY TypeFacts DEF IInv, Held
  <2>2. nats' = nats \/ (sending # None /\ nats' = sending)
    BY DEF Next, Boot, Act, Record, RecordCommits, RecordSettles, RecordQueues, Submit, Database, Connect,
           FlushCommits, FlushSettles, Send, Sent, DbUp, Fault, Crash, Vanish, ActUnsavable,
           RecordUnqueuable, RecordRejected, Fail, RollBack, Cancel, FlushFails, FlushRejected,
           DbDown, SendFails, control
  <2> QED BY <2>1, <2>2 DEF IInv, Ordered
<1> QED BY <1>1, Invariance, PTL DEF Spec, NatsInOrder

=============================================================================
