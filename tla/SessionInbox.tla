---------------------------- MODULE SessionInbox ----------------------------
(***************************************************************************)
(* How the vehicle learns which session it is in.  The pit publishes the   *)
(* session on a stream that holds one message; the agent's subscription    *)
(* hands it to a worker thread, which replaces the stored session, writes  *)
(* its file and puts it in the inbox that the pipeline empties at every    *)
(* tick.  A subscription works on one message at a time, but a thread      *)
(* cannot be cancelled: one of an earlier subscription may still run when  *)
(* the agent has subscribed again.                                         *)
(*                                                                         *)
(* Sessions are numbered in the order the pit publishes them.              *)
(***************************************************************************)
EXTENDS Integers, FiniteSets

CONSTANTS
    Malformed,      \* messages that are not a JSON object
    MaxMessages, InboxMaxFaults

VARIABLES
    inboxStream,    \* the one message on cmd.<vehicle>.session, 0 for none
    delivered,      \* the last message given to this subscription
    subscription,   \* which subscription this is
    workers,        \* threads: [message, of, at]
    current, file,  \* SessionStore._current and its file
    inbox,          \* _SessionInbox.pending, 0 for none
    applied,        \* LapTimingApp._session: what laps are stamped with
    raced,          \* history: two subscriptions' threads ran at once
    unsaved,        \* history: the file could not be written
    inboxFaults

inboxVars == <<inboxStream, delivered, subscription, workers, current, file, inbox, applied,
               raced, unsaved, inboxFaults>>
agent == <<current, file, inbox, applied>>

InboxSpend == inboxFaults < InboxMaxFaults /\ inboxFaults' = inboxFaults + 1

-----------------------------------------------------------------------------
\* The pit publishes; max_msgs_per_subject is one.
Publish ==
    /\ inboxStream < MaxMessages
    /\ inboxStream' = inboxStream + 1
    /\ UNCHANGED <<delivered, subscription, workers, agent, raced, unsaved, inboxFaults>>

\* _handle_session: one message of the subscription at a time, in a thread.
InboxDeliver ==
    /\ delivered < inboxStream
    /\ ~ \E w \in workers : w.of = subscription
    /\ delivered' = inboxStream
    /\ workers' = workers \cup {[message |-> inboxStream, of |-> subscription, at |-> "store"]}
    /\ raced' = (raced \/ workers # {})
    /\ UNCHANGED <<inboxStream, subscription, agent, unsaved, inboxFaults>>

\* SessionStore.update: replace the session and its file under the lock.
Store(w) ==
    /\ w.at = "store" /\ w.message \notin Malformed
    /\ current' = w.message
    /\ file' = w.message
    /\ workers' = (workers \ {w}) \cup {[w EXCEPT !.at = "inbox"]}
    /\ UNCHANGED <<inboxStream, delivered, subscription, inbox, applied, raced, unsaved,
                   inboxFaults>>

\* _persist_locked: the file cannot be written; the session is used all the same.
StoreUnsaved(w) ==
    /\ w.at = "store" /\ w.message \notin Malformed /\ InboxSpend
    /\ current' = w.message
    /\ unsaved' = TRUE
    /\ workers' = (workers \ {w}) \cup {[w EXCEPT !.at = "inbox"]}
    /\ UNCHANGED <<inboxStream, delivered, subscription, file, inbox, applied, raced>>

\* Variant: a malformed message empties the session.
DiscardClears(w) ==
    /\ w.at = "store" /\ w.message \in Malformed
    /\ workers' = workers \ {w}
    /\ current' = 0 /\ file' = 0
    /\ UNCHANGED <<inboxStream, delivered, subscription, inbox, applied, raced, unsaved,
                   inboxFaults>>

\* update_from_bytes: a malformed message is counted and forgotten.
Discard(w) ==
    /\ w.at = "store" /\ w.message \in Malformed
    /\ workers' = workers \ {w}
    /\ UNCHANGED <<inboxStream, delivered, subscription, agent, raced, unsaved, inboxFaults>>

\* _SessionInbox.put
InboxPut(w) ==
         /\ w.at = "inbox"
         /\ inbox' = w.message
         /\ workers' = workers \ {w}
         /\ UNCHANGED <<inboxStream, delivered, subscription, current, file, applied, raced,
                        unsaved, inboxFaults>>

\* _drain_and_flush: take what is in the inbox and adopt it.
Take ==
    /\ inbox # 0
    /\ applied' = inbox
    /\ inbox' = 0
    /\ UNCHANGED <<inboxStream, delivered, subscription, workers, current, file, raced,
                   unsaved, inboxFaults>>

\* _serve ends and begins again: a new ordered consumer from the last message.
Resubscribe ==
    /\ InboxSpend
    /\ subscription' = 1 - subscription
    /\ ~ \E w \in workers : w.of = subscription'
    /\ delivered' = 0
    /\ UNCHANGED <<inboxStream, workers, agent, raced, unsaved>>

\* The agent starts again: the store is loaded and adopted at once.
Restart ==
    /\ InboxSpend
    /\ workers' = {} /\ delivered' = 0 /\ inbox' = 0
    /\ current' = file /\ applied' = file
    /\ UNCHANGED <<inboxStream, subscription, file, raced, unsaved>>

-----------------------------------------------------------------------------
InboxInit ==
    /\ inboxStream = 0 /\ delivered = 0 /\ subscription = 0 /\ workers = {}
    /\ current = 0 /\ file = 0 /\ inbox = 0 /\ applied = 0
    /\ raced = FALSE /\ unsaved = FALSE /\ inboxFaults = 0

Work(w) == Store(w) \/ Discard(w) \/ InboxPut(w)

InboxNext ==
    \/ Publish \/ InboxDeliver \/ Take \/ Resubscribe \/ Restart
    \/ \E w \in workers : Work(w) \/ StoreUnsaved(w)

InboxSpec ==
    /\ InboxInit /\ [][InboxNext]_inboxVars
    /\ WF_inboxVars(InboxDeliver) /\ WF_inboxVars(Take)
    /\ WF_inboxVars(\E w \in workers : Work(w))

-----------------------------------------------------------------------------
(* Properties.                                                             *)

\* Types of the messages, the threads and the stored session.
InboxTypeOK ==
    /\ inboxStream \in 0 .. MaxMessages /\ delivered \in 0 .. inboxStream
    /\ \A w \in workers : w.message \in 1 .. inboxStream /\ w.at \in {"store", "inbox"}
    /\ {current, file, inbox, applied} \subseteq 0 .. inboxStream
    /\ Cardinality(workers) <= 2

\* SessionStore, inbox and timing engine: as long as no two threads overlap and
\* the file can be written, the session that laps are stamped with never goes
\* back to an earlier one, not even through a restart.
NeverBackwards == [][raced' \/ unsaved \/ applied' >= applied]_inboxVars

\* update_from_bytes: when everything handed over has been taken, the laps, the
\* memory and the file hold one session, and a malformed message has not
\* displaced it.
AllAgree ==
    workers = {} /\ inbox = 0 /\ ~raced /\ ~unsaved => applied = current /\ file = current

\* cmd.<vehicle>.session is last-value: once the pit has published a session
\* and goes on to no other, the laps are stamped with it in the end.
NewestInForce ==
    []<>(inboxStream \in Malformed \union {0} \/ applied = inboxStream \/ raced)

=============================================================================
