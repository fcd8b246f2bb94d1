----------------------------- MODULE CanSource -----------------------------
(***************************************************************************)
(* A CAN bus (collectors/can.py): the interface is opened and reopened     *)
(* with backoff, each frame is stamped by projecting the kernel's realtime *)
(* stamp onto the monotonic clock, and decoded once for every device that  *)
(* knows its identifier.                                                   *)
(***************************************************************************)
EXTENDS Integers, Sequences, FiniteSets

CONSTANTS
    Devices,    \* the frame identifiers of the model, each with the devices
                \* whose DBC defines it: a function to sets
    CanBackoffStart, CanBackoffMax,
    MaxReported,  \* _MAX_TRACKED_UNKNOWN_IDS
    MaxTime, CanMaxOffset, CanMaxQueue, MaxFrames, CanMaxFaults

VARIABLES
    canPc, stop, canBackoff, canWait,
    received,   \* a frame arrived on this connection
    now,        \* the monotonic clock
    offset,     \* the realtime clock's distance from it
    canQueue,   \* frames the kernel received and stamped
    epochRef, monoRef, anchored,
    canLast,    \* the last frame handled on this connection
    delay,      \* history: how late the anchoring frame was handled
    stepped,    \* history: the realtime clock stepped on this connection
    backwards,  \* history: a frame was stamped before the one before it
    stats, canReported,
    canFaults

linkVars == <<canBackoff, canWait, received>>
clockVars == <<epochRef, monoRef, anchored>>
histVars == <<canLast, delay, stepped, backwards>>
decVars == <<stats, canReported>>
canVars == <<canPc, stop, linkVars, now, offset, canQueue, clockVars, histVars, decVars,
             canFaults>>

CanNone == [at |-> -1, stamp |-> -1]
Ids == DOMAIN Devices
CanLeast(a, b) == IF a < b THEN a ELSE b
CanSpend == canFaults < CanMaxFaults /\ canFaults' = canFaults + 1

CanInit ==
    /\ canPc = "loop" /\ stop = FALSE /\ canBackoff = CanBackoffStart /\ canWait = 0 /\ received = FALSE
    /\ now = 0 /\ offset = 0 /\ canQueue = <<>>
    /\ epochRef = 0 /\ monoRef = 0 /\ anchored = FALSE
    /\ canLast = CanNone /\ delay = 0 /\ stepped = FALSE /\ backwards = FALSE
    /\ stats = [frames |-> 0, decoded |-> 0, unknown |-> 0, malformed |-> 0]
    /\ canReported = {} /\ canFaults = 0

\* Variant: the anchor of the connection before is kept.
OpenKeepsAnchor ==
    /\ canPc = "loop" /\ ~stop
    /\ canPc' = "reading" /\ received' = FALSE
    /\ canQueue' = <<>> /\ canLast' = CanNone /\ stepped' = FALSE /\ delay' = 0
    /\ UNCHANGED <<stop, clockVars, canBackoff, canWait, now, offset, backwards, decVars,
                   canFaults>>

\* The interface opens: the frame clock's anchor is dropped.
Open ==
    /\ canPc = "loop" /\ ~stop
    /\ canPc' = "reading" /\ received' = FALSE
    /\ anchored' = FALSE /\ epochRef' = 0 /\ monoRef' = 0
    /\ canQueue' = <<>> /\ canLast' = CanNone /\ stepped' = FALSE /\ delay' = 0
    /\ UNCHANGED <<stop, canBackoff, canWait, now, offset, backwards, decVars, canFaults>>

\* _open: no such interface.
OpenFails ==
    /\ canPc = "loop" /\ ~stop
    /\ CanSpend
    /\ canPc' = "wait" /\ canWait' = canBackoff /\ canBackoff' = CanLeast(2 * canBackoff, CanBackoffMax)
    /\ UNCHANGED <<stop, received, now, offset, canQueue, clockVars, histVars, decVars>>

LoopEnds ==
    /\ canPc = "loop" /\ stop
    /\ canPc' = "ended"
    /\ UNCHANGED <<stop, linkVars, now, offset, canQueue, clockVars, histVars, decVars,
                   canFaults>>

\* _FrameClock.to_mono_ns, once the anchor is set.
ToMono(ts) == IF anchored THEN monoRef + (ts - epochRef) ELSE now

\* decode: unknown to every DBC, or decoded by the devices that can.
Classify(id, good) ==
    IF Devices[id] = {} THEN "unknown"
    ELSE IF good = {} THEN "malformed" ELSE "decoded"

\* _report_unknown: each identifier once, up to a limit.
Reported(id) ==
    IF Cardinality(canReported) >= MaxReported THEN canReported ELSE canReported \cup {id}

\* handle_message: stamp, decode, emit.
Handle ==
    /\ canPc = "reading" /\ ~stop /\ canQueue # <<>> /\ stats.frames < MaxFrames
    /\ canQueue' = Tail(canQueue)
    /\ received' = TRUE
    /\ LET f == Head(canQueue)
           stamp == ToMono(f.ts)
       IN /\ anchored' = TRUE
          /\ epochRef' = IF anchored THEN epochRef ELSE f.ts
          /\ monoRef' = IF anchored THEN monoRef ELSE now
          /\ canLast' = [at |-> f.at, stamp |-> stamp]
          /\ delay' = IF canLast = CanNone THEN now - f.at ELSE delay
          /\ backwards' = (canLast # CanNone /\ stamp < canLast.stamp)
          /\ \E id \in Ids : \E good \in SUBSET Devices[id] :
              LET class == Classify(id, good) IN
              /\ stats' = [k \in DOMAIN stats |-> IF k \in {"frames", class} THEN stats[k] + 1 ELSE stats[k]]
              /\ canReported' = IF class = "unknown" THEN Reported(id) ELSE canReported
    /\ UNCHANGED <<canPc, stop, canBackoff, canWait, now, offset, stepped, canFaults>>

\* A bus error, or the stop is seen; the wait starts afresh if a frame came.
CanReadEnds ==
    LET b == IF received THEN CanBackoffStart ELSE canBackoff IN
    /\ canPc = "reading"
    /\ \/ stop /\ canPc' = "loop" /\ UNCHANGED <<canWait, canBackoff, canFaults>>
       \/ ~stop /\ CanSpend /\ canPc' = "wait" /\ canWait' = b /\ canBackoff' = CanLeast(2 * b, CanBackoffMax)
    /\ canQueue' = <<>>
    /\ UNCHANGED <<stop, received, now, offset, clockVars, histVars, decVars>>

CanWaitEnds ==
    /\ canPc = "wait" /\ (canWait = 0 \/ stop)
    /\ canPc' = "loop" /\ canWait' = 0
    /\ UNCHANGED <<stop, canBackoff, received, now, offset, canQueue, clockVars, histVars,
                   decVars, canFaults>>

Stop ==
    /\ ~stop /\ stop' = TRUE
    /\ UNCHANGED <<canPc, linkVars, now, offset, canQueue, clockVars, histVars, decVars,
                   canFaults>>

\* The kernel receives a frame and stamps it with the realtime clock; its
\* identifier is looked at when it is handled.
CanReceive ==
    /\ canPc = "reading" /\ Len(canQueue) < CanMaxQueue
    /\ canQueue' = Append(canQueue, [at |-> now, ts |-> now + offset])
    /\ UNCHANGED <<canPc, stop, linkVars, now, offset, clockVars, histVars, decVars, canFaults>>

\* chrony steps the realtime clock.
ClockSteps ==
    /\ CanSpend
    /\ offset' \in (0..CanMaxOffset) \ {offset}
    /\ stepped' = TRUE
    /\ UNCHANGED <<canPc, stop, linkVars, now, canQueue, clockVars, canLast, delay,
                   backwards, decVars>>

CanTick ==
    /\ now < MaxTime \/ canWait > 0
    /\ now' = CanLeast(now + 1, MaxTime)
    /\ canWait' = IF canWait > 0 THEN canWait - 1 ELSE 0
    /\ UNCHANGED <<canPc, stop, canBackoff, received, offset, canQueue, clockVars, histVars,
                   decVars, canFaults>>

CanStep == Open \/ LoopEnds \/ CanWaitEnds \/ (stop /\ CanReadEnds)

CanNext == CanStep \/ OpenFails \/ Handle \/ CanReadEnds \/ Stop \/ CanReceive \/ ClockSteps \/ CanTick

CanSpec == CanInit /\ [][CanNext]_canVars /\ WF_canVars(CanStep) /\ WF_canVars(CanTick)

-----------------------------------------------------------------------------

\* The variables keep their types.
CanTypeOK ==
    /\ canPc \in {"loop", "reading", "wait", "ended"}
    /\ canBackoff \in CanBackoffStart..CanBackoffMax /\ canWait \in 0..CanBackoffMax
    /\ Len(canQueue) <= CanMaxQueue /\ canReported \subseteq Ids /\ Cardinality(canReported) <= MaxReported

\* On a connection during which the realtime clock did not step, every stamp is
\* the frame's arrival plus one constant, the delay of the first frame: the
\* kernel's spacing is kept however late a frame is handled, and neither an
\* earlier connection's anchor nor a step before this one shows.
StampsTrue == canLast # CanNone /\ ~stepped => canLast.stamp = canLast.at + delay

\* Every frame is counted once: decoded by some device, unknown, or malformed.
FramesAccounted == stats.frames = stats.decoded + stats.unknown + stats.malformed

\* A bus that failed is read again.
BusReadAgain == []<>(canPc = "reading" \/ stop)

=============================================================================
