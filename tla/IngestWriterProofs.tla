-------------------------- MODULE IngestWriterProofs --------------------------
(***************************************************************************)
(* Proofs about IngestWriter for every stream, every setting and every     *)
(* fault budget.                                                           *)
(***************************************************************************)
EXTENDS IngestWriter, FiniteSetTheorems, TLAPS

Answered == budget["reply"] = FaultBudget["reply"]
Covered == {n \in Nat : Good(n) => n \in rows \cup dropped \cup exposed \cup buffered}

\* What the process holds: nothing when it is down; otherwise its position is
\* at least both cursors and at least every buffered sequence.
Position ==
  /\ pc = "down" => messages = <<>> /\ buffered = {} /\ maxSeq = 0 /\ cursor = 0
  /\ pc # "down" => dbCursor <= maxSeq
  /\ cursor <= maxSeq
  /\ \A n \in buffered : n <= maxSeq /\ Good(n)
  /\ pc = "acking" => buffered \subseteq rows \cup dropped

\* The consumer has delivered no more than the stream holds, and the writer
\* has seen no more than was delivered.
Delivered ==
  /\ nextSeq <= Len(stream) + 1
  /\ \A n \in unacked : n < nextSeq
  /\ \A j \in 1..Len(messages) : messages[j] < nextSeq
  /\ maxSeq < nextSeq /\ dbCursor < nextSeq

\* No delivered batch is forgotten: it is accounted for, or still in hand, and
\* whatever precedes a message in hand is accounted for or ahead of it there.
NothingForgotten ==
  /\ \A n \in 1..maxSeq : n \in Covered
  /\ \A n \in 1..(nextSeq - 1) : n \in Covered \/ n \in InHand
  /\ \A j \in 1..Len(messages) : \A n \in 1..(messages[j] - 1) :
        n \in Covered \/ \E i \in 1..(j - 1) : messages[i] = n
  /\ \A j \in 1..Len(messages) : messages[j] \in unacked \/ messages[j] \in Covered

\* While every commit is answered, the writer's cursor knows of every commit,
\* so that what is in the buffer is not in the database yet.
InStep ==
  /\ budget["reply"] <= FaultBudget["reply"]
  /\ \A n \in rows : n <= dbCursor
  /\ Answered => twice = {}
  /\ Answered /\ pc # "down" => dbCursor <= cursor
  /\ Answered /\ pc \notin {"down", "acking"} => \A n \in buffered : n > cursor

IInv == TypeOK /\ Delivered /\ Position /\ NothingForgotten /\ InStep /\ LossOnlyIfExposed

-----------------------------------------------------------------------------
(* Facts about sequences in the form the steps need them.                  *)

\* Appending adds one element at the end and keeps the others in place.
LEMMA AppendFacts ==
  ASSUME NEW S, NEW s \in Seq(S), NEW e \in S
  PROVE  /\ Append(s, e) \in Seq(S)
         /\ Len(Append(s, e)) = Len(s) + 1
         /\ \A i \in 1..Len(s) : Append(s, e)[i] = s[i]
         /\ Append(s, e)[Len(s) + 1] = e
  OBVIOUS

\* The tail of a nonempty sequence is the sequence shifted by one.
LEMMA TailFacts ==
  ASSUME NEW S, NEW s \in Seq(S), s # <<>>
  PROVE  /\ Head(s) = s[1] /\ Head(s) \in S
         /\ Len(s) \in Nat \ {0}
         /\ Tail(s) \in Seq(S)
         /\ Len(Tail(s)) = Len(s) - 1
         /\ \A i \in 1..(Len(s) - 1) : Tail(s)[i] = s[i + 1]
  OBVIOUS

\* Spending a fault or an ack keeps the budget a function to Nat, and only the
\* fault that is spent changes.
LEMMA SpendFacts ==
  ASSUME NEW k \in FaultKinds, budget \in [FaultKinds -> Nat], Spend(k)
  PROVE  /\ budget' \in [FaultKinds -> Nat]
         /\ \A f \in FaultKinds \ {k} : budget'[f] = budget[f]
         /\ budget'[k] = budget[k] - 1
  BY DEF Spend

\* Acknowledging removes messages from the unacknowledged ones, and expires none.
LEMMA AckFacts ==
  ASSUME NEW S, budget \in [FaultKinds -> Nat], Ack(S)
  PROVE  /\ unacked' \subseteq unacked /\ unacked \ S \subseteq unacked'
         /\ expired \subseteq unacked => expired' \subseteq unacked'
         /\ budget' \in [FaultKinds -> Nat]
         /\ budget'["reply"] = budget["reply"]
  <1>1. PICK T \in SUBSET S : /\ unacked' = unacked \ T /\ expired' = expired \ T
                             /\ IF T = S THEN UNCHANGED budget ELSE Spend("ack")
    BY DEF Ack
  <1>2. budget' \in [FaultKinds -> Nat] /\ budget'["reply"] = budget["reply"]
    <2>1. CASE T = S BY <1>1, <2>1
    <2>2. CASE T # S BY <1>1, <2>2, SpendFacts DEF FaultKinds
    <2> QED BY <2>1, <2>2
  <1> QED BY <1>1, <1>2

-----------------------------------------------------------------------------
(* Type correctness.                                                       *)

\* The actions that only move the writer's program counter.
Moves == Consume \/ Barrier \/ FlushNothing \/ FlushFails \/ Reconnect

\* Such a step leaves data, history and budget alone and never leads to or from
\* the states in which the process is down or acknowledging a flush.
LEMMA MoveFacts ==
  ASSUME TypeOK, Moves
  PROVE  /\ UNCHANGED <<server, database, dbUp, memory, dropped, exposed, budget>>
         /\ UNCHANGED stopping /\ after' \in {"consume", "recover", "exit"}
         /\ pc \notin {"down", "acking"} /\ pc' \in Places \ {"down", "acking"}
  BY DEF Moves, TypeOK, Consume, TakeHeld, Pause, BeginFetch, FetchReturns, PassFlushes,
         PassContinues, FinalFlush, Barrier, FlushNothing, FlushFails, Reconnect,
         Goto, CallFlush, Fresh, Handling, Places

\* The generations a registry scan finds are generations.
LEMMA OfferedFacts ==
  ASSUME TypeOK
  PROVE  Offered \subseteq Gens
  <1> SUFFICES ASSUME NEW n \in 1..Len(stream), stream[n].kind = "registry"
               PROVE  stream[n].gen \in Gens
    BY DEF Offered
  <1>1. stream[n] \in Message BY DEF TypeOK
  <1> QED BY <1>1 DEF Message

\* The message a handler takes off the fetch leaves the fetch well-typed.
LEMMA HandledFacts ==
  ASSUME TypeOK, Delivered, Handling
  PROVE  /\ Head(messages) = messages[1] /\ Head(messages) \in 1..Len(stream)
         /\ Head(messages) \in Nat \ {0} /\ stream[Head(messages)] \in Message
         /\ Len(messages) \in Nat \ {0}
         /\ Tail(messages) \in Seq(Nat \ {0})
         /\ Len(Tail(messages)) = Len(messages) - 1
         /\ \A i \in 1..(Len(messages) - 1) : Tail(messages)[i] = messages[i + 1]
  BY TailFacts DEF TypeOK, Delivered, Handling

\* Every step of the writer, its consumer and its database keeps the types.
LEMMA TypeStep ==
  ASSUME TypeOK, Delivered, [Next]_vars
  PROVE  TypeOK'
  <1>1. CASE UNCHANGED vars
    BY <1>1 DEF TypeOK, vars
  <1>2. CASE SourceBatch \/ \E g \in Gens : SourceRegistry(g)
    <2>1. PICK m \in Message : Source(m)
      BY <1>2 DEF SourceBatch, SourceRegistry, Message
    <2> QED BY <2>1, AppendFacts DEF Source, TypeOK, database, control, memory
  <1>3. CASE Deliver
    <2>1. CASE \E n \in expired : /\ messages' = Append(messages, n)
                                  /\ expired' = expired \ {n}
                                  /\ UNCHANGED <<nextSeq, unacked>>
      BY <1>3, <2>1, AppendFacts DEF Deliver, TypeOK, database, control
    <2>2. CASE /\ messages' = Append(messages, nextSeq)
               /\ nextSeq' = nextSeq + 1
               /\ unacked' = unacked \cup {nextSeq}
               /\ UNCHANGED expired
      BY <1>3, <2>2, AppendFacts DEF Deliver, TypeOK, database, control
    <2> QED BY <1>3, <2>1, <2>2 DEF Deliver
  <1>4. CASE \E n \in unacked : Expire(n)
    <2>1. budget' \in [FaultKinds -> Nat]
      BY <1>4, SpendFacts DEF Expire, TypeOK, FaultKinds
    <2> QED BY <1>4, <2>1 DEF Expire, TypeOK, database, control, memory
  <1>5. CASE DbDown \/ DbUp
    <2>1. budget' \in [FaultKinds -> Nat]
      BY <1>5, SpendFacts DEF DbDown, DbUp, TypeOK, FaultKinds
    <2> QED BY <1>5, <2>1 DEF DbDown, DbUp, TypeOK, server, database, control, memory
  <1>6. CASE Start
    <2>1. Offered \subseteq Gens BY OfferedFacts
    <2> QED BY <1>6, <2>1 DEF Start, TypeOK, server, database, Places
  <1>7. CASE Crash \/ Exit
    <2>1. budget' \in [FaultKinds -> Nat]
      BY <1>7, SpendFacts DEF Crash, Exit, TypeOK, FaultKinds
    <2>2. InHand \subseteq Nat \ {0}
      BY DEF InHand, TypeOK
    <2>3. /\ pc' \in Places /\ known' = {} /\ messages' = <<>> /\ buffered' = {}
          /\ cursor' = 0 /\ maxSeq' = 0 /\ exposed' \subseteq Nat \ {0}
          /\ UNCHANGED <<server, database, dbUp, after, stopping, dropped>>
      BY <1>7, <2>2 DEF Crash, Exit, Vanish, TypeOK, Places
    <2> QED BY <2>1, <2>3 DEF TypeOK, server, database
  <1>8. CASE RequestStop
    <2>1. budget' \in [FaultKinds -> Nat]
      BY <1>8, SpendFacts DEF RequestStop, TypeOK, FaultKinds
    <2> QED BY <1>8, <2>1 DEF RequestStop, TypeOK, server, database, memory
  <1>9. CASE Moves
    BY <1>9, MoveFacts DEF TypeOK, server, database, memory
  <1>10. CASE FetchFails
    <2>1. budget' \in [FaultKinds -> Nat]
      BY <1>10, SpendFacts DEF FetchFails, TypeOK, FaultKinds
    <2>2. InHand \subseteq Nat \ {0}
      BY DEF InHand, TypeOK
    <2> QED BY <1>10, <2>1, <2>2 DEF FetchFails, Goto, TypeOK, server, database, Places
  <1>11. CASE Skip \/ HandleRegistry \/ HandlePoison \/ HandleBatch
    <2>1. Handling
      BY <1>11 DEF Skip, HandleRegistry, HandlePoison, HandleBatch, Fresh
    <2>2. CASE Skip
      BY <2>1, <2>2, HandledFacts, AckFacts DEF Skip, TypeOK, database, control
    <2>3. CASE HandleRegistry
      <3>1. known' \subseteq Gens
        BY <2>1, <2>3, HandledFacts DEF HandleRegistry, Fresh, Message, TypeOK
      <3> QED BY <2>1, <2>3, <3>1, HandledFacts, AckFacts DEF HandleRegistry, TypeOK, database, control
    <2>4. CASE HandlePoison
      <3>1. maxSeq' \in Nat
        BY <2>1, <2>4, HandledFacts DEF HandlePoison, Larger, TypeOK
      <3> QED BY <2>1, <2>4, <3>1, HandledFacts, AckFacts DEF HandlePoison, TypeOK, database, control
    <2>5. CASE HandleBatch
      <3>1. maxSeq' \in Nat
        BY <2>1, <2>5, HandledFacts DEF HandleBatch, Larger, TypeOK
      <3>2. buffered' \subseteq Nat \ {0}
        BY <2>1, <2>5, HandledFacts DEF HandleBatch, TypeOK
      <3> QED BY <2>1, <2>5, <3>1, <3>2, HandledFacts DEF HandleBatch, TypeOK, server, database, control
    <2> QED BY <1>11, <2>2, <2>3, <2>4, <2>5
  <1>12. CASE Recover
    <2>1. Offered \subseteq Gens BY OfferedFacts
    <2> QED BY <1>12, <2>1 DEF Recover, Goto, TypeOK, server, database, Places
  <1>13. CASE FlushCommits \/ FlushUnanswered \/ FlushRejected
    <2>1. budget' \in [FaultKinds -> Nat]
      BY <1>13, SpendFacts DEF FlushCommits, FlushUnanswered, FlushRejected, TypeOK, FaultKinds
    <2> QED
      BY <1>13, <2>1 DEF FlushCommits, FlushUnanswered, FlushRejected, Commit, Goto, Larger,
         TypeOK, server, database, memory, Places
  <1>14. CASE AckFlushed
    BY <1>14, AckFacts DEF AckFlushed, Goto, TypeOK, database, Places
  <1> QED
    BY <1>1, <1>2, <1>3, <1>4, <1>5, <1>6, <1>7, <1>8, <1>9, <1>10, <1>11, <1>12, <1>13,
       <1>14 DEF Next, Writer, Consume, Handle, Flush, Fault, Moves

-----------------------------------------------------------------------------
(* What each group of actions does to the variables of the invariant.      *)

Handles == Skip \/ HandleRegistry \/ HandlePoison \/ HandleBatch

\* A handler takes the first message off the fetch.  Either it is skipped
\* because it is behind the cursor or buffered, or it is no batch, or it is a
\* batch and enters the buffer.
LEMMA HandleFacts ==
  ASSUME TypeOK, Delivered, Handles
  PROVE  /\ Handling /\ messages' = Tail(messages)
         /\ UNCHANGED <<stream, nextSeq, rows, twice, dbCursor, pc, cursor, dropped, exposed>>
         /\ unacked \ {messages[1]} \subseteq unacked' /\ unacked' \subseteq unacked
         /\ budget'["reply"] = budget["reply"]
         /\ \/ /\ messages[1] <= cursor \/ messages[1] \in buffered
               /\ UNCHANGED <<buffered, maxSeq>>
            \/ /\ ~Good(messages[1])
               /\ maxSeq' = maxSeq \/ maxSeq' = Larger(maxSeq, messages[1])
               /\ UNCHANGED buffered
            \/ /\ Good(messages[1]) /\ messages[1] > cursor
               /\ buffered' = buffered \cup {messages[1]}
               /\ maxSeq' = Larger(maxSeq, messages[1])
  <1>1. Handling /\ messages' = Tail(messages)
    BY DEF Handles, Skip, HandleRegistry, HandlePoison, HandleBatch, Fresh
  <1>2. UNCHANGED <<stream, nextSeq, rows, twice, dbCursor, pc, cursor, dropped, exposed>>
    BY DEF Handles, Skip, HandleRegistry, HandlePoison, HandleBatch, database, control, server
  <1>3. Head(messages) = messages[1] /\ messages[1] \in 1..Len(stream)
    BY <1>1, HandledFacts
  <1>4. /\ unacked \ {messages[1]} \subseteq unacked' /\ unacked' \subseteq unacked
        /\ budget'["reply"] = budget["reply"]
    <2>1. CASE HandleBatch
      BY <2>1 DEF HandleBatch, server
    <2>2. CASE Skip \/ HandleRegistry \/ HandlePoison
      <3>1. Ack({messages[1]})
        BY <1>3, <2>2 DEF Skip, HandleRegistry, HandlePoison
      <3> QED BY <3>1, AckFacts DEF TypeOK
    <2> QED BY <2>1, <2>2 DEF Handles
  <1>5. CASE Skip
    BY <1>1, <1>2, <1>3, <1>4, <1>5 DEF Skip
  <1>6. CASE HandleRegistry
    BY <1>1, <1>2, <1>3, <1>4, <1>6 DEF HandleRegistry, Fresh, Good
  <1>7. CASE HandlePoison
    BY <1>1, <1>2, <1>3, <1>4, <1>7 DEF HandlePoison, Fresh, Good
  <1>8. CASE HandleBatch
    BY <1>1, <1>2, <1>3, <1>4, <1>8 DEF HandleBatch, Fresh, Good
  <1> QED BY <1>5, <1>6, <1>7, <1>8 DEF Handles

\* The steps that change nothing the invariant is about but the acknowledged
\* set, which only loses members that are accounted for, and the budget.
Idle == DbDown \/ DbUp \/ RequestStop \/ Recover \/ Moves \/ (\E n \in unacked : Expire(n))

\* The steps that only move the task touch neither the stream nor the archive.
LEMMA IdleFacts ==
  ASSUME TypeOK, Idle
  PROVE  /\ UNCHANGED <<stream, nextSeq, unacked, rows, twice, dbCursor, messages, buffered,
                        cursor, maxSeq, dropped, exposed>>
         /\ budget'["reply"] = budget["reply"]
         /\ pc' = pc \/ (pc \notin {"down", "acking"} /\ pc' \notin {"down", "acking"})
  <1>1. CASE DbDown \/ DbUp \/ RequestStop
    <2>1. budget'["reply"] = budget["reply"]
      BY <1>1, SpendFacts DEF DbDown, DbUp, RequestStop, TypeOK, FaultKinds
    <2> QED BY <1>1, <2>1 DEF DbDown, DbUp, RequestStop, server, database, control, memory
  <1>2. CASE Recover
    BY <1>2 DEF Recover, Goto, server, database
  <1>3. CASE Moves
    BY <1>3, MoveFacts DEF server, database, memory
  <1>4. CASE \E n \in unacked : Expire(n)
    <2>1. budget'["reply"] = budget["reply"]
      BY <1>4, SpendFacts DEF Expire, TypeOK, FaultKinds
    <2> QED BY <1>4, <2>1 DEF Expire, database, control, memory
  <1> QED BY <1>1, <1>2, <1>3, <1>4 DEF Idle

\* The stream grows by one message.
Sources == SourceBatch \/ (\E g \in Gens : SourceRegistry(g))

\* Sourcing a message appends it to the stream and changes nothing else.
LEMMA SourceFacts ==
  ASSUME TypeOK, Sources
  PROVE  /\ Len(stream') = Len(stream) + 1
         /\ \A i \in 1..Len(stream) : stream'[i] = stream[i]
         /\ UNCHANGED <<nextSeq, unacked, rows, twice, dbCursor, pc, messages, buffered,
                        cursor, maxSeq, dropped, exposed, budget>>
  <1>1. PICK m \in Message : Source(m)
    BY DEF Sources, SourceBatch, SourceRegistry, Message
  <1> QED BY <1>1, AppendFacts DEF Source, TypeOK, database, control, memory

\* A delivery appends a message that is known to the consumer.
LEMMA DeliverFacts ==
  ASSUME TypeOK, Delivered, Deliver
  PROVE  \E n \in 1..(nextSeq' - 1) :
           /\ Len(messages') = Len(messages) + 1
           /\ \A i \in 1..Len(messages) : messages'[i] = messages[i]
           /\ messages'[Len(messages) + 1] = n /\ n \in unacked'
           /\ n <= nextSeq /\ nextSeq' \in {nextSeq, nextSeq + 1}
           /\ nextSeq' = nextSeq + 1 => n = nextSeq
           /\ nextSeq' <= Len(stream) + 1 /\ unacked \subseteq unacked'
           /\ unacked' \subseteq unacked \cup {n}
           /\ UNCHANGED <<stream, rows, twice, dbCursor, pc, buffered, cursor, maxSeq,
                          dropped, exposed, budget>>
           /\ pc # "down"
  <1>1. UNCHANGED <<stream, rows, twice, dbCursor, pc, buffered, cursor, maxSeq, dropped,
                    exposed, budget>> /\ pc # "down"
    BY DEF Deliver, database, control
  <1>2. CASE \E n \in expired : messages' = Append(messages, n) /\ UNCHANGED <<nextSeq, unacked>>
    <2>1. PICK n \in expired : messages' = Append(messages, n) /\ UNCHANGED <<nextSeq, unacked>>
      BY <1>2
    <2>2. n \in Nat \ {0} /\ n < nextSeq /\ n \in unacked
      BY DEF TypeOK, Delivered
    <2>3. /\ Len(messages') = Len(messages) + 1
          /\ \A i \in 1..Len(messages) : messages'[i] = messages[i]
          /\ messages'[Len(messages) + 1] = n
      BY <2>1, <2>2, AppendFacts DEF TypeOK
    <2> QED BY <1>1, <2>1, <2>2, <2>3 DEF TypeOK, Delivered
  <1>3. CASE /\ nextSeq <= Len(stream) /\ messages' = Append(messages, nextSeq)
             /\ nextSeq' = nextSeq + 1 /\ unacked' = unacked \cup {nextSeq}
    <2>1. /\ Len(messages') = Len(messages) + 1
          /\ \A i \in 1..Len(messages) : messages'[i] = messages[i]
          /\ messages'[Len(messages) + 1] = nextSeq
      BY <1>3, AppendFacts DEF TypeOK
    <2> QED BY <1>1, <1>3, <2>1 DEF TypeOK, Delivered
  <1> QED BY <1>2, <1>3 DEF Deliver

\* The steps of the system, grouped by what they can disturb.
LEMMA NextCases ==
  ASSUME [Next]_vars
  PROVE  \/ UNCHANGED vars \/ Sources \/ Deliver \/ Idle \/ Start \/ Crash \/ Exit
         \/ Handles \/ FetchFails \/ FlushCommits \/ FlushUnanswered \/ FlushRejected
         \/ AckFlushed
  BY DEF Next, Writer, Consume, Handle, Flush, Fault, Moves, Idle, Sources, Handles

\* The last commit of a flush, its rejection, and its acknowledgements.
LEMMA FlushFacts ==
  ASSUME TypeOK, FlushCommits \/ FlushUnanswered \/ FlushRejected
  PROVE  /\ pc = "flush" /\ pc' \in {"acking", "reconnect"}
         /\ UNCHANGED <<stream, nextSeq, unacked, messages, buffered, maxSeq, exposed>>
         /\ \/ /\ rows' = rows \cup buffered /\ twice' = twice \cup (rows \cap buffered)
               /\ dbCursor' = Larger(dbCursor, maxSeq) /\ UNCHANGED dropped
               /\ \/ cursor' = Larger(cursor, maxSeq) /\ budget' = budget /\ pc' = "acking"
                  \/ /\ cursor' = cursor /\ budget'["reply"] = budget["reply"] - 1
                     /\ pc' = "reconnect"
            \/ /\ UNCHANGED <<rows, twice, dbCursor>> /\ dropped' = dropped \cup buffered
               /\ cursor' = Larger(cursor, maxSeq) /\ pc' = "acking"
               /\ budget'["reply"] = budget["reply"]
  <1>1. CASE FlushCommits
    BY <1>1 DEF FlushCommits, Commit, Goto, server
  <1>2. CASE FlushUnanswered
    <2>1. budget'["reply"] = budget["reply"] - 1
      BY <1>2, SpendFacts DEF FlushUnanswered, TypeOK, FaultKinds
    <2> QED BY <1>2, <2>1 DEF FlushUnanswered, Commit, Goto, server, memory
  <1>3. CASE FlushRejected
    <2>1. budget'["reply"] = budget["reply"]
      BY <1>3, SpendFacts DEF FlushRejected, TypeOK, FaultKinds
    <2> QED BY <1>3, <2>1 DEF FlushRejected, Goto, server, database
  <1> QED BY <1>1, <1>2, <1>3

\* The acknowledgements after a flush empty the buffer and keep the archive.
LEMMA AckFlushedFacts ==
  ASSUME TypeOK, AckFlushed
  PROVE  /\ pc = "acking" /\ pc' \notin {"down", "acking"}
         /\ UNCHANGED <<stream, nextSeq, rows, twice, dbCursor, messages, cursor, maxSeq,
                        dropped, exposed>>
         /\ buffered' = {} /\ unacked \ buffered \subseteq unacked' /\ unacked' \subseteq unacked
         /\ budget'["reply"] = budget["reply"]
  BY AckFacts DEF AckFlushed, Goto, TypeOK, database

\* A process that ends, or a subscription that dies, exposes what it had in hand.
LEMMA LossFacts ==
  ASSUME TypeOK, Crash \/ Exit \/ FetchFails
  PROVE  /\ UNCHANGED <<stream, nextSeq, unacked, rows, twice, dbCursor, dropped>>
         /\ messages' = <<>> /\ budget'["reply"] = budget["reply"] /\ exposed \subseteq exposed'
         /\ \A j \in 1..Len(messages) : messages[j] \in exposed' \cup rows \cup buffered
         /\ \/ /\ pc' = "down" /\ buffered' = {} /\ maxSeq' = 0 /\ cursor' = 0
               /\ buffered \subseteq exposed' \cup rows
            \/ /\ pc = "fetch" /\ pc' = "consume" /\ UNCHANGED <<buffered, maxSeq, cursor>>
  <1>1. budget'["reply"] = budget["reply"]
    BY SpendFacts DEF Crash, Exit, FetchFails, TypeOK, FaultKinds
  <1>2. CASE Crash \/ Exit
    <2>1. Vanish /\ UNCHANGED <<server, database, dropped>>
      BY <1>2 DEF Crash, Exit
    <2> QED BY <1>1, <2>1 DEF Vanish, InHand, server, database, TypeOK
  <1>3. CASE FetchFails
    <2>1. \A j \in 1..Len(messages) : messages[j] \in exposed' \cup rows \cup buffered
      BY <1>3 DEF FetchFails, InHand
    <2> QED BY <1>1, <1>3, <2>1 DEF FetchFails, Goto, server, database
  <1> QED BY <1>2, <1>3

\* A start reads the cursor back and finds nothing in memory.
LEMMA StartFacts ==
  ASSUME TypeOK, Start
  PROVE  /\ pc = "down" /\ pc' = "consume" /\ cursor' = dbCursor /\ maxSeq' = dbCursor
         /\ UNCHANGED <<stream, nextSeq, unacked, rows, twice, dbCursor, messages, buffered,
                        dropped, exposed, budget>>
  BY DEF Start, server, database

-----------------------------------------------------------------------------
(* The inductive invariant, part by part.                                  *)

\* The arithmetic content of the type invariant.
LEMMA NumberFacts ==
  ASSUME TypeOK
  PROVE  /\ Len(stream) \in Nat /\ Len(messages) \in Nat /\ nextSeq \in Nat \ {0}
         /\ dbCursor \in Nat /\ cursor \in Nat /\ maxSeq \in Nat
         /\ \A j \in 1..Len(messages) : messages[j] \in Nat \ {0}
         /\ \A n \in buffered : n \in Nat \ {0}
         /\ \A n \in rows : n \in Nat \ {0}
         /\ \A n \in unacked : n \in Nat \ {0}
  BY DEF TypeOK

\* Every step keeps the relation between the consumer and what was delivered.
LEMMA DeliveredStep ==
  ASSUME TypeOK, Delivered, [Next]_vars
  PROVE  Delivered'
  <1>1. CASE UNCHANGED vars
    BY <1>1 DEF Delivered, vars
  <1>2. CASE Sources
    BY <1>2, SourceFacts, NumberFacts DEF Delivered
  <1>3. CASE Deliver
    <2>1. PICK n \in 1..(nextSeq' - 1) :
           /\ Len(messages') = Len(messages) + 1
           /\ \A i \in 1..Len(messages) : messages'[i] = messages[i]
           /\ messages'[Len(messages) + 1] = n /\ n \in unacked'
           /\ n <= nextSeq /\ nextSeq' \in {nextSeq, nextSeq + 1}
           /\ nextSeq' <= Len(stream) + 1
           /\ unacked' \subseteq unacked \cup {n}
           /\ UNCHANGED <<stream, dbCursor, maxSeq>>
      BY <1>3, DeliverFacts
    <2>2. nextSeq' \in Nat /\ nextSeq <= nextSeq' /\ n < nextSeq'
      BY <2>1, NumberFacts
    <2>3. \A j \in 1..Len(messages') : messages'[j] < nextSeq'
      <3> TAKE j \in 1..Len(messages')
      <3>1. j \in 1..Len(messages) \/ j = Len(messages) + 1
        BY <2>1, NumberFacts
      <3> QED BY <2>1, <2>2, <3>1, NumberFacts DEF Delivered
    <2>4. \A k \in unacked' : k < nextSeq'
      BY <2>1, <2>2, NumberFacts DEF Delivered
    <2> QED BY <2>1, <2>2, <2>3, <2>4, NumberFacts DEF Delivered
  <1>4. CASE Idle
    BY <1>4, IdleFacts DEF Delivered
  <1>5. CASE Start
    BY <1>5, StartFacts DEF Delivered
  <1>6. CASE Crash \/ Exit \/ FetchFails
    <2>1. Len(messages') = 0 BY <1>6, LossFacts
    <2> QED BY <1>6, <2>1, LossFacts, NumberFacts DEF Delivered
  <1>7. CASE Handles
    <2>1. /\ Len(messages) \in Nat \ {0} /\ Len(messages') = Len(messages) - 1
          /\ \A i \in 1..(Len(messages) - 1) : messages'[i] = messages[i + 1]
      BY <1>7, HandleFacts, HandledFacts
    <2>2. maxSeq' < nextSeq
      BY <1>7, <2>1, HandleFacts, NumberFacts DEF Delivered, Larger
    <2> QED BY <1>7, <2>1, <2>2, HandleFacts DEF Delivered
  <1>8. CASE FlushCommits \/ FlushUnanswered \/ FlushRejected
    BY <1>8, FlushFacts DEF Delivered, Larger
  <1>9. CASE AckFlushed
    BY <1>9, AckFlushedFacts DEF Delivered
  <1> QED BY <1>1, <1>2, <1>3, <1>4, <1>5, <1>6, <1>7, <1>8, <1>9, NextCases

\* Every step keeps the order of the database cursor, the cursor and the position.
LEMMA PositionStep ==
  ASSUME TypeOK, Delivered, Position, [Next]_vars
  PROVE  Position'
  <1>1. CASE UNCHANGED vars
    BY <1>1 DEF Position, Good, vars
  <1>2. CASE Sources
    BY <1>2, SourceFacts, NumberFacts DEF Position, Good
  <1>3. CASE Deliver
    BY <1>3, DeliverFacts DEF Position, Good
  <1>4. CASE Idle
    BY <1>4, IdleFacts DEF Position, Good
  <1>5. CASE Start
    BY <1>5, StartFacts, NumberFacts DEF Position, Good
  <1>6. CASE Crash \/ Exit \/ FetchFails
    BY <1>6, LossFacts, NumberFacts DEF Position, Good
  <1>7. CASE Handles
    BY <1>7, HandleFacts, NumberFacts DEF Position, Good, Handling, Larger
  <1>8. CASE FlushCommits \/ FlushUnanswered \/ FlushRejected
    BY <1>8, FlushFacts, NumberFacts DEF Position, Good, Larger
  <1>9. CASE AckFlushed
    BY <1>9, AckFlushedFacts DEF Position, Good
  <1> QED BY <1>1, <1>2, <1>3, <1>4, <1>5, <1>6, <1>7, <1>8, <1>9, NextCases

\* Every step keeps every delivered batch accounted for (NothingForgotten).
LEMMA ForgottenStep ==
  ASSUME TypeOK, Delivered, Position, NothingForgotten, LossOnlyIfExposed, [Next]_vars
  PROVE  NothingForgotten'
  <1> USE NumberFacts
  <1>1. CASE UNCHANGED vars
    <2>1. UNCHANGED <<stream, messages, nextSeq, maxSeq, unacked, rows, buffered, dropped,
                      exposed>>
      BY <1>1 DEF vars, database, control, memory
    <2>2. Covered' = Covered /\ InHand' = InHand
      BY <2>1 DEF Covered, Good, InHand
    <2> QED BY <2>1, <2>2 DEF NothingForgotten
  <1>2. CASE Sources
    <2>1. \A n \in 1..(nextSeq - 1) : n \in Covered => n \in Covered'
      BY <1>2, SourceFacts DEF Covered, Good, Delivered
    <2>2. \A n \in 1..maxSeq : n \in Covered'
      BY <2>1 DEF NothingForgotten, Delivered
    <2>3. \A n \in 1..(nextSeq - 1) : n \in Covered' \/ n \in InHand
      BY <2>1 DEF NothingForgotten
    <2>4. ASSUME NEW j \in 1..Len(messages)
          PROVE  /\ messages[j] \in 1..(nextSeq - 1)
                 /\ \A n \in 1..(messages[j] - 1) : n \in 1..(nextSeq - 1)
      BY DEF Delivered
    <2>5. \A j \in 1..Len(messages) : \A n \in 1..(messages[j] - 1) :
             n \in Covered' \/ \E i \in 1..(j - 1) : messages[i] = n
      BY <2>1, <2>4 DEF NothingForgotten
    <2>6. \A j \in 1..Len(messages) : messages[j] \in unacked \/ messages[j] \in Covered'
      BY <2>1, <2>4 DEF NothingForgotten
    <2>7. UNCHANGED <<maxSeq, nextSeq, messages, unacked>>
      BY <1>2, SourceFacts
    <2>8. InHand' = InHand BY <2>7 DEF InHand
    <2>9. \A n \in 1..(nextSeq' - 1) : n \in Covered' \/ n \in InHand'
      BY <2>3, <2>7, <2>8
    <2> QED BY <2>2, <2>5, <2>6, <2>7, <2>9 DEF NothingForgotten
  <1>3. CASE Deliver
    <2>1. PICK k \in 1..(nextSeq' - 1) :
           /\ Len(messages') = Len(messages) + 1
           /\ \A i \in 1..Len(messages) : messages'[i] = messages[i]
           /\ messages'[Len(messages) + 1] = k /\ k \in unacked'
           /\ k <= nextSeq /\ nextSeq' \in {nextSeq, nextSeq + 1}
           /\ nextSeq' = nextSeq + 1 => k = nextSeq
           /\ unacked \subseteq unacked'
           /\ UNCHANGED <<stream, rows, buffered, maxSeq, dropped, exposed>>
      BY <1>3, DeliverFacts
    <2>2. Covered' = Covered
      BY <2>1 DEF Covered, Good
    <2>a. /\ Len(messages') = Len(messages) + 1
          /\ \A i \in 1..Len(messages) : messages'[i] = messages[i]
          /\ messages'[Len(messages) + 1] = k
      BY <2>1
    <2>b. k \in InHand' /\ InHand \subseteq InHand'
      BY <2>a DEF InHand
    <2>d. nextSeq' = nextSeq \/ (nextSeq' = nextSeq + 1 /\ k = nextSeq)
      BY <2>1
    <2>c. \A j \in 1..Len(messages') : j \in 1..Len(messages) \/ j = Len(messages) + 1
      BY <2>a
    <2>3. \A n \in 1..(nextSeq' - 1) : n \in Covered \/ n \in InHand'
      <3> TAKE n \in 1..(nextSeq' - 1)
      <3>1. CASE n \in 1..(nextSeq - 1)
        BY <2>b, <3>1 DEF NothingForgotten
      <3>2. CASE n = nextSeq
        <4>1. k = nextSeq
          BY <2>d, <3>2
        <4> QED BY <2>b, <3>2, <4>1
      <3>3. n \in 1..(nextSeq - 1) \/ n = nextSeq
        BY <2>1
      <3> QED BY <3>1, <3>2, <3>3
    <2>4. \A j \in 1..Len(messages') : \A n \in 1..(messages'[j] - 1) :
             n \in Covered \/ \E i \in 1..(j - 1) : messages'[i] = n
      <3> TAKE j \in 1..Len(messages')
      <3>1. CASE j \in 1..Len(messages)
        <4>1. messages'[j] = messages[j] /\ \A i \in 1..(j - 1) : messages'[i] = messages[i]
          BY <2>a, <3>1
        <4> TAKE n \in 1..(messages'[j] - 1)
        <4>2. n \in Covered \/ \E i \in 1..(j - 1) : messages[i] = n
          BY <3>1, <4>1 DEF NothingForgotten
        <4> QED BY <4>1, <4>2
      <3>2. CASE j = Len(messages) + 1
        <4> TAKE n \in 1..(messages'[j] - 1)
        <4>1. n \in 1..(nextSeq - 1)
          BY <2>1, <3>2
        <4>2. CASE n \in InHand
          <5>1. PICK i \in 1..Len(messages) : messages[i] = n
            BY <4>2 DEF InHand
          <5>2. i \in 1..(j - 1) /\ messages'[i] = n
            BY <2>a, <3>2, <5>1
          <5> QED BY <5>2
        <4> QED BY <4>1, <4>2 DEF NothingForgotten
      <3> QED BY <2>c, <3>1, <3>2
    <2>5. \A j \in 1..Len(messages') : messages'[j] \in unacked' \/ messages'[j] \in Covered
      <3> TAKE j \in 1..Len(messages')
      <3>1. CASE j \in 1..Len(messages)
        BY <2>1, <3>1 DEF NothingForgotten
      <3>2. CASE j = Len(messages) + 1
        BY <2>1, <3>2
      <3> QED BY <2>c, <3>1, <3>2
    <2> QED BY <2>1, <2>2, <2>3, <2>4, <2>5 DEF NothingForgotten
  <1>4. CASE Idle
    <2>1. Covered' = Covered /\ InHand' = InHand
      BY <1>4, IdleFacts DEF Covered, Good, InHand
    <2> QED BY SMTT(30), <1>4, <2>1, IdleFacts DEF NothingForgotten
  <1>5. CASE Start
    <2>1. messages' = <<>> /\ buffered = {} /\ buffered' = {}
      BY <1>5, StartFacts DEF Position
    <2>2. Covered' = Covered
      BY <1>5, StartFacts DEF Covered, Good
    <2>3. \A n \in 1..dbCursor : n \in Covered
      BY DEF LossOnlyIfExposed, Covered
    <2> QED BY <1>5, <2>1, <2>2, <2>3, StartFacts DEF NothingForgotten, InHand
  <1>6. CASE Crash \/ Exit \/ FetchFails
    <2>1. Covered \subseteq Covered'
      BY <1>6, LossFacts DEF Covered, Good
    <2>2. \A n \in InHand : n \in Covered'
      BY <1>6, LossFacts DEF Covered, InHand
    <2>3. \A n \in 1..(nextSeq - 1) : n \in Covered'
      BY <2>1, <2>2 DEF NothingForgotten
    <2>4. maxSeq' = 0 \/ maxSeq' = maxSeq
      BY <1>6, LossFacts
    <2>5. \A n \in 1..maxSeq' : n \in Covered'
      BY <2>3, <2>4 DEF Delivered
    <2>6. Len(messages') = 0 /\ nextSeq' = nextSeq BY <1>6, LossFacts
    <2> QED BY <2>3, <2>5, <2>6 DEF NothingForgotten
  <1>7. CASE Handles
    <2> DEFINE h == messages[1]
    <2>1. /\ Len(messages) \in Nat \ {0} /\ Len(messages') = Len(messages) - 1
          /\ \A i \in 1..(Len(messages) - 1) : messages'[i] = messages[i + 1]
          /\ h \in 1..Len(stream) /\ h < nextSeq
      <3>1. Handling BY <1>7, HandleFacts
      <3>2. h < nextSeq
        BY <3>1, HandledFacts DEF Delivered
      <3> QED BY <1>7, <3>1, <3>2, HandleFacts, HandledFacts
    <2>2. Covered \subseteq Covered'
      BY <1>7, HandleFacts DEF Covered, Good
    <2>3. h \in Covered'
      <3>1. CASE h <= cursor
        BY <2>1, <2>2, <3>1 DEF NothingForgotten, Position
      <3>2. CASE h \in buffered \/ ~Good(h)
        BY <2>1, <2>2, <3>2 DEF Covered
      <3>3. CASE h \in buffered'
        BY <2>1, <3>3 DEF Covered
      <3> QED BY <1>7, <3>1, <3>2, <3>3, HandleFacts
    <2>4. \A n \in 1..(h - 1) : n \in Covered'
      BY <2>1, <2>2 DEF NothingForgotten
    <2>5. \A n \in 1..maxSeq' : n \in Covered'
      <3>1. maxSeq' \in {maxSeq, h}
        BY <1>7, HandleFacts DEF Larger
      <3> QED BY <2>1, <2>2, <2>3, <2>4, <3>1 DEF NothingForgotten
    <2>6. \A n \in InHand : n = h \/ n \in InHand'
      <3> SUFFICES ASSUME NEW j \in 1..Len(messages), j # 1
                   PROVE  messages[j] \in InHand'
        BY DEF InHand
      <3>1. j - 1 \in 1..Len(messages') /\ messages'[j - 1] = messages[j]
        BY <2>1
      <3> QED BY <3>1 DEF InHand
    <2>7. \A j \in 1..Len(messages') : \A n \in 1..(messages'[j] - 1) :
             n \in Covered' \/ \E i \in 1..(j - 1) : messages'[i] = n
      <3> TAKE j \in 1..Len(messages')
      <3> TAKE n \in 1..(messages'[j] - 1)
      <3>1. j + 1 \in 1..Len(messages) /\ messages'[j] = messages[j + 1]
        BY <2>1
      <3>2. n \in Covered \/ \E i \in 1..j : messages[i] = n
        BY <3>1 DEF NothingForgotten
      <3>3. ASSUME NEW i \in 1..j, messages[i] = n
            PROVE  n \in Covered' \/ \E i2 \in 1..(j - 1) : messages'[i2] = n
        <4>1. CASE i = 1
          BY <2>3, <3>3, <4>1
        <4>2. CASE i # 1
          <5>1. i - 1 \in 1..(j - 1) /\ messages'[i - 1] = n
            <6>1. i - 1 \in 1..(Len(messages) - 1) /\ (i - 1) + 1 = i
              BY <2>1, <3>1, <4>2
            <6>2. messages'[i - 1] = messages[i]
              BY <2>1, <6>1
            <6>3. i - 1 \in 1..(j - 1)
              BY <4>2
            <6> QED BY <3>3, <6>2, <6>3
          <5> QED BY <5>1
        <4> QED BY <4>1, <4>2
      <3> QED BY <2>2, <3>2, <3>3
    <2>8. \A j \in 1..Len(messages') : messages'[j] \in unacked' \/ messages'[j] \in Covered'
      <3> TAKE j \in 1..Len(messages')
      <3>1. j + 1 \in 1..Len(messages) /\ messages'[j] = messages[j + 1]
        BY <2>1
      <3> QED BY <1>7, <2>2, <2>3, <3>1, HandleFacts DEF NothingForgotten
    <2> QED
      BY <1>7, <2>2, <2>3, <2>5, <2>6, <2>7, <2>8, HandleFacts DEF NothingForgotten
  <1>8. CASE FlushCommits \/ FlushUnanswered \/ FlushRejected
    <2>1. Covered \subseteq Covered'
      BY <1>8, FlushFacts DEF Covered, Good
    <2>2. UNCHANGED <<messages, nextSeq, maxSeq, unacked>>
      BY <1>8, FlushFacts
    <2> QED BY SMTT(30), <2>1, <2>2 DEF NothingForgotten, InHand
  <1>9. CASE AckFlushed
    <2>1. Covered \subseteq Covered'
      BY <1>9, AckFlushedFacts DEF Covered, Good, Position
    <2>2. \A j \in 1..Len(messages) : messages[j] \in unacked' \/ messages[j] \in Covered'
      <3> TAKE j \in 1..Len(messages)
      <3>1. CASE messages[j] \in buffered
        BY <1>9, <2>1, <3>1 DEF Covered
      <3> QED BY <1>9, <2>1, <3>1, AckFlushedFacts DEF NothingForgotten
    <2> QED BY <1>9, <2>1, <2>2, AckFlushedFacts DEF NothingForgotten, InHand
  <1> QED BY <1>1, <1>2, <1>3, <1>4, <1>5, <1>6, <1>7, <1>8, <1>9, NextCases

\* Every step keeps LossOnlyIfExposed: the commit of a flush passes no batch it forgot.
LEMMA LossStep ==
  ASSUME TypeOK, Delivered, Position, NothingForgotten, LossOnlyIfExposed, [Next]_vars
  PROVE  LossOnlyIfExposed'
  <1> USE NumberFacts
  <1>1. CASE UNCHANGED vars
    BY <1>1 DEF LossOnlyIfExposed, Good, vars
  <1>2. CASE Sources
    BY <1>2, SourceFacts DEF LossOnlyIfExposed, Good, Delivered
  <1>3. CASE Deliver
    <2>1. UNCHANGED <<stream, rows, dbCursor, dropped, exposed>>
      BY <1>3, DeliverFacts
    <2> QED BY <2>1 DEF LossOnlyIfExposed, Good
  <1>4. CASE Idle
    BY <1>4, IdleFacts DEF LossOnlyIfExposed, Good
  <1>5. CASE Start
    BY <1>5, StartFacts DEF LossOnlyIfExposed, Good
  <1>6. CASE Crash \/ Exit \/ FetchFails
    BY <1>6, LossFacts DEF LossOnlyIfExposed, Good
  <1>7. CASE Handles
    BY <1>7, HandleFacts DEF LossOnlyIfExposed, Good
  <1>8. CASE FlushCommits \/ FlushUnanswered \/ FlushRejected
    <2>1. \A n \in 1..maxSeq : Good(n) => n \in rows \cup dropped \cup exposed \cup buffered
      BY DEF NothingForgotten, Covered
    <2>2. UNCHANGED <<stream, exposed>> /\ rows \subseteq rows' /\ dropped \subseteq dropped'
      BY <1>8, FlushFacts
    <2>3. dbCursor' = dbCursor \/ (dbCursor' = maxSeq /\ rows' = rows \cup buffered)
      BY <1>8, FlushFacts DEF Larger
    <2> QED BY <2>1, <2>2, <2>3 DEF LossOnlyIfExposed, Good
  <1>9. CASE AckFlushed
    BY <1>9, AckFlushedFacts DEF LossOnlyIfExposed, Good
  <1> QED BY <1>1, <1>2, <1>3, <1>4, <1>5, <1>6, <1>7, <1>8, <1>9, NextCases

\* Every step keeps the cursor in memory in step with the committed one.
LEMMA InStepStep ==
  ASSUME TypeOK, Delivered, Position, InStep, [Next]_vars
  PROVE  InStep'
  <1> USE NumberFacts DEF Answered
  <1>0. budget["reply"] \in Nat /\ FaultBudget["reply"] \in Nat
    BY FaultAssumption DEF TypeOK, FaultKinds
  <1>1. CASE UNCHANGED vars
    BY <1>1 DEF InStep, vars
  <1>2. CASE Sources
    BY <1>2, SourceFacts DEF InStep
  <1>3. CASE Deliver
    <2>1. UNCHANGED <<budget, rows, twice, dbCursor, pc, cursor, buffered>>
      BY <1>3, DeliverFacts
    <2> QED BY <2>1 DEF InStep
  <1>4. CASE Idle
    BY <1>4, IdleFacts DEF InStep
  <1>5. CASE Start
    BY <1>5, StartFacts DEF InStep, Position
  <1>6. CASE Crash \/ Exit \/ FetchFails
    BY <1>6, LossFacts DEF InStep
  <1>7. CASE Handles
    <2>1. pc = "handle"
      BY <1>7, HandleFacts DEF Handling
    <2> QED BY <1>7, <2>1, HandleFacts DEF InStep
  <1>8. CASE FlushCommits \/ FlushUnanswered \/ FlushRejected
    <2>1. \A n \in rows' : n <= dbCursor'
      BY <1>8, FlushFacts DEF InStep, Position, Larger
    <2>2. Answered /\ pc = "flush" => rows \cap buffered = {}
      BY DEF InStep
    <2>3. CASE Answered'
      <3>1. budget'["reply"] = budget["reply"] /\ Answered /\ pc = "flush" /\ pc' = "acking"
        BY SMTT(30), <1>0, <1>8, <2>3, FlushFacts DEF InStep
      <3>2. cursor' = maxSeq /\ dbCursor' \in {dbCursor, maxSeq} /\ twice' = {}
        BY SMTT(30), <1>0, <1>8, <2>2, <2>3, <3>1, FlushFacts DEF InStep, Position, Larger
      <3> QED BY SMTT(30), <1>8, <2>1, <3>1, <3>2, FlushFacts DEF InStep, Position
    <2>4. CASE ~Answered'
      <3>1. budget'["reply"] <= FaultBudget["reply"]
        BY <1>0, <1>8, FlushFacts DEF InStep
      <3> QED BY <2>1, <2>4, <3>1 DEF InStep
    <2> QED BY <2>3, <2>4
  <1>9. CASE AckFlushed
    BY <1>9, AckFlushedFacts DEF InStep
  <1> QED BY <1>1, <1>2, <1>3, <1>4, <1>5, <1>6, <1>7, <1>8, <1>9, NextCases

-----------------------------------------------------------------------------
(* The barrier: what the writer waits with is ahead of all it has passed.  *)

Waits == pc = "recover" \/ (pc \in {"flush", "acking", "reconnect"} /\ after = "recover")

\* Whatever was decoded has a generation the stream offers, and a running
\* writer knows it: the scan at start-up finds it again.
Decoded ==
  /\ known \subseteq Offered
  /\ \A n \in rows \cup dropped \cup buffered :
        /\ Good(n) /\ stream[n].gen \in Offered
        /\ pc # "down" => stream[n].gen \in known

\* The batch a barrier holds lies ahead of the writer's position, unless a
\* process lost it earlier.
HeldAhead ==
  Waits => /\ messages # <<>>
           /\ Head(messages) > maxSeq \/ Head(messages) \in exposed

\* The stream only grows: what was good, or offered, stays so.
LEMMA StreamFacts ==
  ASSUME TypeOK, [Next]_vars
  PROVE  /\ Offered \subseteq Offered'
         /\ \A n : Good(n) => Good(n)' /\ stream'[n] = stream[n]
  <1>1. CASE Sources
    BY SMTT(30), <1>1, SourceFacts, NumberFacts DEF Offered, Good
  <1>2. CASE ~Sources
    <2>1. stream' = stream
      <3>1. CASE Handles BY <3>1 DEF Handles, Skip, HandleRegistry, HandlePoison, HandleBatch, server
      <3>2. CASE ~Handles
        BY <1>2, <3>2, NextCases, IdleFacts, StartFacts, LossFacts, FlushFacts, AckFlushedFacts
           DEF Deliver, vars
      <3> QED BY <3>1, <3>2
    <2> QED BY <2>1 DEF Offered, Good
  <1> QED BY <1>1, <1>2

\* How a step changes the registry cache: it is emptied, or it grows by
\* generations the stream offers, or a start replaces it by all of those.
LEMMA KnownFacts ==
  ASSUME TypeOK, Delivered, [Next]_vars, known \subseteq Offered
  PROVE  /\ known' \subseteq Offered
         /\ known \subseteq known' \/ pc' = "down" \/ known' = Offered
  <1>1. CASE Handles
    <2>1. Handling BY <1>1, HandleFacts
    <2>2. CASE HandleRegistry
      <3>1. Head(messages) \in 1..Len(stream) /\ stream[Head(messages)].kind = "registry"
        BY <2>1, <2>2, HandledFacts DEF HandleRegistry, Fresh
      <3>2. stream[Head(messages)].gen \in Offered
        BY <3>1 DEF Offered
      <3> QED BY <2>2, <3>2 DEF HandleRegistry
    <2>3. CASE ~HandleRegistry
      BY <1>1, <2>3 DEF Handles, Skip, HandlePoison, HandleBatch
    <2> QED BY <2>2, <2>3
  <1>2. CASE Idle
    <2>1. CASE Moves BY <2>1, MoveFacts DEF memory
    <2>2. CASE ~Moves BY <1>2, <2>2 DEF Idle, DbDown, DbUp, RequestStop, Recover, Expire, memory
    <2> QED BY <2>1, <2>2
  <1>3. CASE Sources BY <1>3 DEF Sources, SourceBatch, SourceRegistry, Source, memory
  <1>4. CASE Deliver \/ Start BY <1>4 DEF Deliver, Start
  <1>5. CASE Crash \/ Exit \/ FetchFails BY <1>5 DEF Crash, Exit, Vanish, FetchFails
  <1>6. CASE FlushCommits \/ FlushUnanswered \/ FlushRejected \/ AckFlushed
    BY <1>6 DEF FlushCommits, FlushUnanswered, FlushRejected, AckFlushed, memory
  <1>7. CASE UNCHANGED vars BY <1>7 DEF vars
  <1> QED BY <1>1, <1>2, <1>3, <1>4, <1>5, <1>6, <1>7, NextCases

\* What is archived, given up or buffered grows only by what was in the buffer,
\* or by a batch whose generation the running writer knows.
LEMMA GrowFacts ==
  ASSUME TypeOK, Delivered, [Next]_vars
  PROVE  \A n \in rows' \cup dropped' \cup buffered' :
            \/ n \in rows \cup dropped \cup buffered
            \/ Good(n) /\ stream[n].gen \in known /\ known' = known /\ pc # "down"
  <1>1. CASE Handles
    <2>1. CASE HandleBatch
      <3>1. Handling BY <1>1, HandleFacts
      <3>2. Head(messages) \in 1..Len(stream) BY <3>1, HandledFacts
      <3>3. /\ Good(Head(messages)) /\ stream[Head(messages)].gen \in known /\ pc # "down"
            /\ known' = known
        BY <2>1, <3>2 DEF HandleBatch, Fresh, Handling, Good
      <3>4. rows' = rows /\ dropped' = dropped /\ buffered' = buffered \cup {Head(messages)}
        BY <2>1 DEF HandleBatch, database
      <3> QED BY <3>3, <3>4
    <2>2. CASE ~HandleBatch
      BY <1>1, <2>2 DEF Handles, Skip, HandleRegistry, HandlePoison, database
    <2> QED BY <2>1, <2>2
  <1>2. CASE Deliver
    BY <1>2 DEF Deliver, database
  <1>3. CASE ~Handles /\ ~Deliver
    BY <1>3, NextCases, SourceFacts, IdleFacts, StartFacts, LossFacts, FlushFacts,
       AckFlushedFacts DEF vars
  <1> QED BY <1>1, <1>2, <1>3

\* Every step keeps what was decoded decodable.
LEMMA DecodedStep ==
  ASSUME TypeOK, Delivered, Decoded, [Next]_vars
  PROVE  Decoded'
  <1>1. known' \subseteq Offered'
    BY KnownFacts, StreamFacts DEF Decoded
  <1>2. ASSUME NEW n \in rows' \cup dropped' \cup buffered'
        PROVE  Good(n)' /\ stream'[n].gen \in Offered' /\ (pc' # "down" => stream'[n].gen \in known')
    <2>1. Good(n) /\ stream[n].gen \in Offered
      BY <1>2, GrowFacts DEF Decoded
    <2>2. Good(n)' /\ stream'[n].gen \in Offered' /\ stream'[n] = stream[n]
      BY <2>1, StreamFacts
    <2>3. CASE pc' # "down" /\ pc # "down"
      <3>1. stream[n].gen \in known
        BY <1>2, <2>3, GrowFacts DEF Decoded
      <3>2. known \subseteq known' \/ known' = Offered
        BY <2>3, KnownFacts DEF Decoded
      <3> QED BY <2>1, <2>2, <3>1, <3>2
    <2>4. CASE pc' # "down" /\ pc = "down"
      <3>1. known' = Offered \/ (pc' = pc)
        BY <2>4, NextCases, MoveFacts, SourceFacts, IdleFacts, HandleFacts, DeliverFacts,
           FlushFacts, AckFlushedFacts
           DEF Start, Crash, Exit, FetchFails, vars
      <3> QED BY <2>1, <2>2, <2>4, <3>1
    <2> QED BY <2>2, <2>3, <2>4
  <1> QED BY <1>1, <1>2 DEF Decoded

\* Every step keeps what a barrier holds ahead of the writer's position.
LEMMA HeldStep ==
  ASSUME IInv, Decoded, HeldAhead, [Next]_vars
  PROVE  HeldAhead'
  <1>0. TypeOK /\ Delivered /\ Position /\ NothingForgotten BY DEF IInv
  <1>1. CASE Barrier
    <2>1. /\ Handling /\ messages' = messages /\ maxSeq' = maxSeq /\ exposed' = exposed
          /\ stream[Head(messages)].kind = "batch" /\ stream[Head(messages)].gen \notin known
          /\ pc # "down"
      BY <1>1 DEF Barrier, Fresh, Handling, memory
    <2>2. Head(messages) \in Nat \ {0} /\ Good(Head(messages))
      BY <1>0, <2>1, HandledFacts DEF Good
    <2>3. Head(messages) \notin rows \cup dropped \cup buffered
      BY <2>1 DEF Decoded
    <2>4. Head(messages) <= maxSeq => Head(messages) \in exposed
      BY <1>0, <2>2, <2>3, NumberFacts DEF NothingForgotten, Covered
    <2> QED BY <1>0, <2>1, <2>2, <2>4, NumberFacts DEF HeldAhead, Handling
  <1>2. CASE Waits /\ UNCHANGED <<messages, maxSeq>> /\ exposed \subseteq exposed'
    BY <1>2 DEF HeldAhead
  <1>3. CASE ~Waits /\ ~Barrier
    <2>1. ~Waits'
      <3>1. CASE Idle
        <4>1. CASE Moves
          BY <1>3, <4>1 DEF Moves, Consume, TakeHeld, Pause, BeginFetch, FetchReturns,
             PassFlushes, PassContinues, FinalFlush, FlushNothing, FlushFails, Reconnect,
             Goto, CallFlush, Waits
        <4>2. CASE ~Moves
          BY <1>3, <3>1, <4>2 DEF Idle, DbDown, DbUp, RequestStop, Recover, Expire, Goto,
             control, Waits
        <4> QED BY <4>1, <4>2
      <3>2. CASE Sources \/ Deliver \/ Handles
        BY <1>3, <3>2 DEF Sources, SourceBatch, SourceRegistry, Source, Deliver, Handles, Skip,
           HandleRegistry, HandlePoison, HandleBatch, control, Waits
      <3>3. CASE Start \/ Crash \/ Exit \/ FetchFails
        BY <3>3 DEF Start, Crash, Exit, Vanish, FetchFails, Goto, Waits
      <3>4. CASE FlushCommits \/ FlushUnanswered \/ FlushRejected \/ AckFlushed
        BY <1>0, <1>3, <3>4 DEF FlushCommits, FlushUnanswered, FlushRejected, AckFlushed, Goto,
           Waits, TypeOK
      <3>5. CASE UNCHANGED vars BY <1>3, <3>5 DEF vars, Waits
      <3> QED BY <3>1, <3>2, <3>3, <3>4, <3>5, NextCases
    <2> QED BY <2>1 DEF HeldAhead
  <1>4. CASE Waits /\ ~(UNCHANGED <<messages, maxSeq>> /\ exposed \subseteq exposed')
    <2>1. CASE Deliver \/ Handles \/ FetchFails \/ Start
      BY <1>4, <2>1 DEF Deliver, Handles, Skip, HandleRegistry, HandlePoison, HandleBatch,
         Fresh, Handling, FetchFails, Start, Waits
    <2>2. CASE Crash \/ Exit
      BY <2>2 DEF Crash, Exit, Vanish, HeldAhead, Waits
    <2>3. CASE ~(Deliver \/ Handles \/ FetchFails \/ Start \/ Crash \/ Exit)
      BY <1>0, <1>4, <2>3, NextCases, SourceFacts, IdleFacts, FlushFacts, AckFlushedFacts
         DEF vars
    <2> QED BY <2>1, <2>2, <2>3
  <1> QED BY <1>1, <1>2, <1>3, <1>4

-----------------------------------------------------------------------------
(* The pause: how much the buffer and the fetch in hand can hold.          *)

\* The buffer and the fetch in hand together stay within the limit, and a
\* fetch begins only with the buffer below it.
Roomy ==
  /\ IsFiniteSet(buffered)
  /\ Cardinality(buffered) + Len(messages) < MaxBufferedRows + FetchBatch
  /\ pc = "fetch" => Cardinality(buffered) < MaxBufferedRows /\ Len(messages) <= FetchBatch

\* Every step keeps the buffer within its limit.
LEMMA RoomyStep ==
  ASSUME TypeOK, Delivered, Roomy, [Next]_vars
  PROVE  Roomy'
  <1> USE BoundsAssumption, NumberFacts
  <1>0. Cardinality(buffered) \in Nat
    BY FS_CardinalityType DEF Roomy
  <1>e. IsFiniteSet({}) /\ Cardinality({}) = 0
    BY FS_EmptySet
  <1>1. CASE UNCHANGED <<buffered, messages>> /\ (pc' = "fetch" => pc = "fetch")
    BY <1>1 DEF Roomy
  <1>2. CASE BeginFetch
    <2>1. UNCHANGED <<buffered, messages>> /\ Len(messages) = 0
      BY <1>2 DEF BeginFetch, memory
    <2> QED BY <1>0, <1>2, <2>1 DEF BeginFetch, Roomy
  <1>3. CASE Deliver
    <2>1. UNCHANGED <<buffered, pc>> /\ pc = "fetch" /\ Len(messages) < FetchBatch
      BY <1>3 DEF Deliver, control
    <2>2. Len(messages') = Len(messages) + 1
      BY <1>3, DeliverFacts
    <2>3. Cardinality(buffered) < MaxBufferedRows BY <2>1 DEF Roomy
    <2>4. Len(messages) + 1 <= FetchBatch BY <2>1
    <2>5. Cardinality(buffered) + (Len(messages) + 1) < MaxBufferedRows + FetchBatch
      BY <1>0, <2>3, <2>4
    <2> QED BY <2>1, <2>2, <2>3, <2>4, <2>5 DEF Roomy
  <1>4. CASE Handles
    <2>1. Handling /\ messages' = Tail(messages) /\ pc' = pc
      BY <1>4, HandleFacts
    <2>2. Len(messages) \in Nat \ {0} /\ Len(messages') = Len(messages) - 1 /\ pc' # "fetch"
      BY <2>1, HandledFacts DEF Handling
    <2>3. buffered' = buffered \/ buffered' = buffered \cup {messages[1]}
      BY <1>4, HandleFacts
    <2>4. /\ IsFiniteSet(buffered') /\ Cardinality(buffered') \in Nat
          /\ Cardinality(buffered') <= Cardinality(buffered) + 1
      <3> DEFINE B == buffered \cup {messages[1]}
      <3>1. IsFiniteSet(buffered) BY DEF Roomy
      <3>2. /\ IsFiniteSet(B)
            /\ Cardinality(B) = IF messages[1] \in buffered THEN Cardinality(buffered)
                                ELSE Cardinality(buffered) + 1
        BY <3>1, FS_AddElement
      <3>3. Cardinality(B) \in Nat /\ Cardinality(B) <= Cardinality(buffered) + 1
        BY <1>0, <3>2
      <3>4. CASE buffered' = buffered BY <1>0, <3>1, <3>4
      <3>5. CASE buffered' = B BY <3>2, <3>3, <3>5
      <3> QED BY <2>3, <3>4, <3>5
    <2> QED BY <1>0, <2>2, <2>4 DEF Roomy
  <1>5. CASE Crash \/ Exit
    <2>1. buffered' = {} /\ Len(messages') = 0 /\ pc' = "down"
      BY <1>5 DEF Crash, Exit, Vanish
    <2> QED BY <1>e, <2>1 DEF Roomy
  <1>6. CASE FetchFails
    <2>1. buffered' = buffered /\ Len(messages') = 0 /\ pc' = "consume"
      BY <1>6 DEF FetchFails, Goto
    <2> QED BY <1>0, <2>1 DEF Roomy
  <1>7. CASE AckFlushed
    <2>1. buffered' = {} /\ messages' = messages /\ pc' # "fetch"
      BY <1>7 DEF AckFlushed, Goto, TypeOK
    <2> QED BY <1>0, <1>e, <2>1 DEF Roomy
  <1>8. CASE Idle /\ ~BeginFetch
    <2>1. UNCHANGED <<buffered, messages>> BY <1>8, IdleFacts
    <2>2. pc' = "fetch" => pc = "fetch"
      <3>1. CASE Moves
        BY <1>8, <3>1 DEF Moves, Consume, TakeHeld, Pause, FetchReturns, PassFlushes, Barrier,
           PassContinues, FinalFlush, FlushNothing, FlushFails, Reconnect, Goto, CallFlush, TypeOK
      <3>2. CASE ~Moves
        BY <1>8, <3>2 DEF Idle, DbDown, DbUp, RequestStop, Recover, Expire, Goto, control
      <3> QED BY <3>1, <3>2
    <2> QED BY <1>1, <2>1, <2>2
  <1>9. CASE \/ Sources \/ Start \/ UNCHANGED vars
             \/ FlushCommits \/ FlushUnanswered \/ FlushRejected
    <2>1. UNCHANGED <<buffered, messages>> /\ (pc' = "fetch" => pc = "fetch")
      BY <1>9, SourceFacts, StartFacts, FlushFacts DEF vars
    <2> QED BY <1>1, <2>1
  <1> QED BY <1>2, <1>3, <1>4, <1>5, <1>6, <1>7, <1>8, <1>9, NextCases

-----------------------------------------------------------------------------
(* The theorems.                                                           *)

\* The inductive invariant holds initially and is kept by every step.
THEOREM Invariance == Spec => []IInv
  <1>1. Init => IInv
    <2> SUFFICES ASSUME Init PROVE IInv
      OBVIOUS
    <2>1. TypeOK
      <3>1. budget \in [FaultKinds -> Nat]
        BY FaultAssumption DEF Init
      <3>2. stream \in Seq(Message) /\ messages \in Seq(Nat \ {0})
        BY DEF Init
      <3>3. /\ nextSeq \in Nat \ {0} /\ unacked \subseteq Nat \ {0} /\ expired \subseteq unacked
            /\ rows \subseteq Nat \ {0} /\ twice \subseteq rows /\ dbCursor \in Nat
        BY DEF Init
      <3>4. /\ dbUp \in BOOLEAN /\ pc \in Places /\ stopping \in BOOLEAN
            /\ after \in {"consume", "recover", "exit"}
        BY DEF Init, Places
      <3>5. /\ known \subseteq Gens /\ buffered \subseteq Nat \ {0}
            /\ cursor \in Nat /\ maxSeq \in Nat
            /\ dropped \subseteq Nat \ {0} /\ exposed \subseteq Nat \ {0}
        BY DEF Init
      <3> QED BY <3>1, <3>2, <3>3, <3>4, <3>5 DEF TypeOK
    <2>2. Len(stream) = 0 /\ Len(messages) = 0
      BY DEF Init
    <2>3. FaultBudget["reply"] \in Nat
      BY FaultAssumption DEF FaultKinds
    <2>4. Delivered /\ Position /\ InStep
      BY <2>2, <2>3 DEF Init, Delivered, Position, InStep, Answered, Good
    <2>5. NothingForgotten /\ LossOnlyIfExposed
      BY <2>2 DEF Init, NothingForgotten, LossOnlyIfExposed, InHand
    <2> QED BY <2>1, <2>4, <2>5 DEF IInv
  <1>2. IInv /\ [Next]_vars => IInv'
    BY TypeStep, DeliveredStep, PositionStep, ForgottenStep, InStepStep, LossStep DEF IInv
  <1> QED BY <1>1, <1>2, PTL DEF Spec

\* Type correctness of the writer, its consumer and its database.
THEOREM TypeCorrect == Spec => []TypeOK
  BY Invariance, PTL DEF IInv

\* For every stream, every setting and every number of faults: a batch at or
\* below the committed cursor is in the database unless its flush was rejected
\* or a process lost hold of it before committing it.
THEOREM LossOnly == Spec => []LossOnlyIfExposed
  BY Invariance, PTL DEF IInv

\* While every commit is answered, no batch's rows are written twice, whatever
\* crashes, redeliveries and lost acknowledgements happen.
THEOREM NoDuplicates == Spec => []NoDuplicateRows
  <1>1. IInv => NoDuplicateRows
    BY DEF IInv, InStep, NoDuplicateRows, Answered
  <1> QED BY Invariance, <1>1, PTL

\* A delivered batch the server has forgotten is committed, buffered, rejected,
\* or was in the hands of a process that lost it.
THEOREM Settled == Spec => []SettledIsSafe
  <1>1. IInv => SettledIsSafe
    <2> SUFFICES ASSUME IInv, NEW n \in 1..(nextSeq - 1), Good(n), n \notin unacked
                 PROVE  n \in rows \cup buffered \cup dropped \cup exposed
      BY DEF SettledIsSafe
    <2>1. n \in Covered
      BY DEF IInv, NothingForgotten, InHand
    <2> QED BY <2>1 DEF Covered
  <1> QED BY Invariance, <1>1, PTL

\* For every stream, every setting and every number of faults: the committed
\* cursor never passes the batch a registry barrier is holding, unless a process
\* had already lost that batch.
THEOREM Held == Spec => []HeldNotPassed
  <1>1. Init => Decoded /\ HeldAhead
    <2> SUFFICES ASSUME Init PROVE Decoded /\ HeldAhead
      OBVIOUS
    <2>1. rows = {} /\ dropped = {} /\ buffered = {} /\ known = {} /\ pc = "down"
      BY DEF Init
    <2> QED BY <2>1 DEF Decoded, HeldAhead, Waits
  <1>2. IInv /\ Decoded /\ HeldAhead /\ [Next]_vars => Decoded' /\ HeldAhead'
    BY DecodedStep, HeldStep DEF IInv
  <1>3. IInv /\ HeldAhead => HeldNotPassed
    <2> SUFFICES ASSUME IInv, HeldAhead, pc = "recover", Head(messages) \notin exposed
                 PROVE  Head(messages) > dbCursor
      BY DEF HeldNotPassed
    <2>1. messages # <<>> /\ Head(messages) > maxSeq
      BY DEF HeldAhead, Waits
    <2>2. Head(messages) \in Nat
      BY <2>1, TailFacts DEF IInv, TypeOK
    <2>3. dbCursor <= maxSeq /\ dbCursor \in Nat /\ maxSeq \in Nat
      BY DEF IInv, Position, TypeOK
    <2> QED BY <2>1, <2>2, <2>3
  <1> QED BY <1>1, <1>2, <1>3, Invariance, PTL DEF Spec

\* For every setting: the pause keeps the buffer within one fetch of its limit,
\* whatever outages, barriers and redeliveries happen.
THEOREM Bounded == Spec => []BufferBounded
  <1>1. Init => Roomy
    <2> SUFFICES ASSUME Init PROVE Roomy
      OBVIOUS
    <2>1. buffered = {} /\ Len(messages) = 0 /\ pc = "down"
      BY DEF Init
    <2>2. IsFiniteSet({}) /\ Cardinality({}) = 0
      BY FS_EmptySet
    <2> QED BY <2>1, <2>2, BoundsAssumption DEF Roomy
  <1>2. IInv /\ Roomy /\ [Next]_vars => Roomy'
    BY RoomyStep DEF IInv
  <1>3. IInv /\ Roomy => BufferBounded
    <2> SUFFICES ASSUME IInv, Roomy PROVE BufferBounded
      OBVIOUS
    <2>1. Cardinality(buffered) \in Nat /\ Len(messages) \in Nat
      BY FS_CardinalityType, NumberFacts DEF Roomy, IInv
    <2> QED BY <2>1, BoundsAssumption DEF Roomy, BufferBounded
  <1> QED BY <1>1, <1>2, <1>3, Invariance, PTL DEF Spec

\* The writer implements the archive: each commit adds rows of a window above
\* the cursor, leaves out only excused batches and adds below it only those.
THEOREM Refinement == Spec => ArchiveSpec
  <1> DEFINE B == {n \in 1..Len(stream) : stream[n].kind = "batch"}
  <1>1. Init => Archive!Init
    <2> SUFFICES ASSUME Init PROVE Archive!Init
      OBVIOUS
    <2>1. Len(stream) = 0 BY DEF Init
    <2> QED BY <2>1 DEF Init, Archive!Init
  <1>2. ASSUME IInv, [Next]_vars
        PROVE  [Archive!Next]_Archive!vars
    <2>0. TypeOK /\ Delivered /\ Position /\ NothingForgotten /\ InStep /\ LossOnlyIfExposed
      BY <1>2 DEF IInv
    <2> USE <2>0, NumberFacts
    <2>1. CASE UNCHANGED vars
      BY <2>1 DEF vars, Archive!vars
    <2>2. CASE Sources
      <3>0. /\ Len(stream) \in Nat /\ dbCursor < nextSeq /\ nextSeq <= Len(stream) + 1
            /\ dbCursor \in Nat /\ nextSeq \in Nat
        BY DEF Delivered
      <3>a. /\ Len(stream') = Len(stream) + 1
            /\ \A i \in 1..Len(stream) : stream'[i] = stream[i]
        BY <2>2, SourceFacts
      <3>b. B \subseteq B' BY <3>0, <3>a
      <3>c. ASSUME NEW n \in B', n \notin B PROVE n > dbCursor
        <4>1. n \in 1..(Len(stream) + 1) /\ stream'[n].kind = "batch" BY <3>a
        <4>2. n \notin 1..Len(stream) BY <3>a, <3>c, <4>1
        <4> QED BY <3>0, <4>1, <4>2
      <3>1. B \subseteq B' /\ \A n \in B' \ B : n > dbCursor
        BY <3>b, <3>c
      <3> QED BY <2>2, <3>1, SourceFacts DEF Archive!Next, Archive!Publish
    <2>3. CASE Deliver
      <3>1. UNCHANGED <<stream, rows, dbCursor, dropped, exposed>>
        BY <2>3, DeliverFacts
      <3> QED BY <3>1 DEF Archive!vars
    <2>4. CASE Idle
      BY <2>4, IdleFacts DEF Archive!vars
    <2>5. CASE Start
      BY <2>5, StartFacts DEF Archive!vars
    <2>6. CASE Crash \/ Exit \/ FetchFails
      BY <2>6, LossFacts DEF Archive!Next, Archive!Excuse
    <2>7. CASE Handles
      BY <2>7, HandleFacts DEF Archive!vars
    <2>8. CASE AckFlushed
      BY <2>8, AckFlushedFacts DEF Archive!vars
    <2>9. CASE FlushRejected
      <3>1. UNCHANGED <<stream, rows, dbCursor, exposed>> /\ dropped \subseteq dropped'
        BY <2>9 DEF FlushRejected, Goto, server, database
      <3> QED BY <3>1 DEF Archive!Next, Archive!Excuse
    <2>10. CASE FlushCommits \/ FlushUnanswered
      <3>1. /\ UNCHANGED <<stream, dropped, exposed>> /\ rows' = rows \cup buffered
            /\ dbCursor' = Larger(dbCursor, maxSeq) /\ pc = "flush"
        BY <2>10 DEF FlushCommits, FlushUnanswered, Commit, server
      <3>2. dbCursor <= maxSeq /\ dbCursor' = maxSeq
        BY <3>1 DEF Position, Larger
      <3>3. \A n \in buffered : n \in B /\ n \in Nat \ {0} /\ n <= maxSeq
        BY <3>1 DEF Position, Good, TypeOK
      <3>4. \A n \in buffered \ rows : dbCursor < n \/ n \in dropped \cup exposed
        BY <3>3 DEF LossOnlyIfExposed, Good
      <3>5. \A n \in B : n <= maxSeq => n \in rows' \cup dropped \cup exposed
        BY SMTT(30), <3>1 DEF NothingForgotten, Covered, Good
      <3> QED BY <3>1, <3>2, <3>3, <3>4, <3>5 DEF Archive!Next, Archive!Archive, Archive!Window
    <2> QED BY <1>2, <2>1, <2>2, <2>3, <2>4, <2>5, <2>6, <2>7, <2>8, <2>9, <2>10, NextCases
  <1> QED BY <1>1, <1>2, Invariance, PTL DEF Spec, ArchiveSpec, Archive!Spec

=============================================================================
