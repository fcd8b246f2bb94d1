--------------------------- MODULE FusionInputs ---------------------------
(***************************************************************************)
(* The fusion app's reassembly (agent/fusion_app.py): the samples of the   *)
(* CAN frames, some of them shed by a full queue, are put together again   *)
(* into IMU vectors, pairs of vectors and fixes; what the engine gives is  *)
(* emitted at a bounded rate.  The GNSS queue is drained after the CAN     *)
(* queue, so its samples may be older than what was already handled.       *)
(***************************************************************************)
EXTENDS Integers, Sequences

CONSTANTS
    Axes,           \* of a vector, 1..n, in the order of its frame's signals
    Roles,          \* of a fix
    MaxSkew,        \* _MAX_PAIR_SKEW_NS
    Period,         \* _emit_period_ns, less its millisecond
    Lateness,       \* how far the GNSS queue lags
    MaxQueue,       \* the collector's queue
    InputMaxTime

VARIABLES
    inputNow,
    frame,          \* the frame being decoded: whose, its stamp, the next axis
    inputQueue, items,  \* the collector's queue, and what was drained of it
    dead,           \* an exception ended the pipeline thread
    accel, gyro,    \* _Vector: its stamp, the axes' own stamps, fresh
    fix,            \* each role's last sample, by stamp; 0 for none
    aligned,        \* the engine's answer
    stepped,        \* the last pair given to the engine
    fixed,          \* the last fix given to it
    lastEmit,       \* _last_emit_ns; -1 for none
    emitted         \* the stamps of the last two outputs

inVars == <<frame, inputQueue, items>>
inputVars == <<inputNow, inVars, dead, accel, gyro, fix, aligned, stepped, fixed, lastEmit,
               emitted>>

Blank == [t |-> -1, of |-> [a \in Axes |-> 0], fresh |-> FALSE]
NoFix == [r \in Roles |-> 0]
InputAbs(n) == IF n < 0 THEN -n ELSE n

InputInit ==
    /\ inputNow = 1 /\ frame = [of |-> "accel", t |-> 1, axis |-> 1] /\ inputQueue = <<>> /\ items = <<>>
    /\ dead = FALSE
    /\ accel = Blank /\ gyro = Blank /\ fix = NoFix /\ aligned = FALSE
    /\ stepped = <<Blank, Blank>> /\ fixed = NoFix /\ lastEmit = -1 /\ emitted = <<-1, -1>>

LastAxis == CHOOSE a \in Axes : \A b \in Axes : b <= a

\* SampleQueue.put: a full queue sheds its oldest.
PutShedding(q, sample) == Append(IF Len(q) < MaxQueue THEN q ELSE Tail(q), sample)

\* The collector emits the next sample of the frame (an accel frame and a gyro
\* frame in turn) into its queue.
InputPut ==
         /\ inputQueue' = PutShedding(inputQueue, [of |-> frame.of, t |-> frame.t, axis |-> frame.axis])
         /\ frame.t <= InputMaxTime
         /\ frame' = IF frame.axis < LastAxis THEN [frame EXCEPT !.axis = frame.axis + 1]
                     ELSE IF frame.of = "accel" THEN [of |-> "gyro", t |-> inputNow, axis |-> 1]
                     ELSE [of |-> "accel", t |-> inputNow + 1, axis |-> 1]
         /\ inputNow' = IF frame.axis = LastAxis /\ frame.of = "gyro" THEN inputNow + 1 ELSE inputNow
         /\ UNCHANGED <<items, dead, accel, gyro, fix, aligned, stepped, fixed, lastEmit,
                        emitted>>

\* The pipeline thread drains the queue.
Drain ==
    /\ ~dead /\ items = <<>> /\ inputQueue # <<>>
    /\ items' = inputQueue /\ inputQueue' = <<>>
    /\ UNCHANGED <<inputNow, frame, dead, accel, gyro, fix, aligned, stepped, fixed,
                   lastEmit, emitted>>

\* _Vector.offer: a new stamp begins a new vector; fresh is only ever set.
Offer(v, axis, t) ==
    LET u == IF v.t = t THEN v ELSE [v EXCEPT !.t = t, !.of = [a \in Axes |-> 0]]
        w == [u EXCEPT !.of[axis] = t]
    IN [w EXCEPT !.fresh = (\A a \in Axes : w.of[a] # 0) \/ v.fresh]

\* The last sample offered completed its vector.
Completes(v) == \A a \in Axes : v.of[a] # 0

\* The output is due.
Due(t) == lastEmit = -1 \/ t - lastEmit >= Period

\* _outputs with a full output.
Emit(t) ==
    IF Due(t) THEN lastEmit' = t /\ emitted' = <<emitted[2], t>>
    ELSE UNCHANGED <<lastEmit, emitted>>

\* Two vectors are one reading.
Pairs(a, g) == InputAbs(a.t - g.t) <= MaxSkew

\* The pair goes to the engine; a vector with an axis missing raises before.
Given(a, g) ==
    IF Completes(a) /\ Completes(g)
    THEN /\ aligned' \in BOOLEAN
         /\ IF aligned' THEN Emit(IF a.t >= g.t THEN a.t ELSE g.t) ELSE UNCHANGED <<lastEmit, emitted>>
         /\ UNCHANGED dead
    ELSE dead' = TRUE /\ UNCHANGED <<aligned, lastEmit, emitted>>

\* _maybe_step: of two vectors too far apart the older is given up; a pair goes
\* to the engine, once.
MaybeStep(a, g) ==
    IF ~(a.fresh /\ g.fresh)
    THEN accel' = a /\ gyro' = g /\ UNCHANGED <<dead, stepped, aligned, lastEmit, emitted>>
    ELSE IF ~Pairs(a, g)
    THEN /\ accel' = [a EXCEPT !.fresh = a.t > g.t]
         /\ gyro' = [g EXCEPT !.fresh = a.t <= g.t]
         /\ UNCHANGED <<dead, stepped, aligned, lastEmit, emitted>>
    ELSE /\ accel' = [a EXCEPT !.fresh = FALSE] /\ gyro' = [g EXCEPT !.fresh = FALSE]
         /\ stepped' = <<a, g>>
         /\ Given(a, g)

\* observe, the next IMU sample of what was drained.
ObserveImu ==
    /\ ~dead /\ items # <<>>
    /\ items' = Tail(items)
    /\ LET x == Head(items)
           a == IF x.of = "accel" THEN Offer(accel, x.axis, x.t) ELSE accel
           g == IF x.of = "gyro" THEN Offer(gyro, x.axis, x.t) ELSE gyro
       IN IF Completes(IF x.of = "accel" THEN a ELSE g) THEN MaybeStep(a, g)
          ELSE accel' = a /\ gyro' = g /\ UNCHANGED <<dead, stepped, aligned, lastEmit,
                                                      emitted>>
    /\ UNCHANGED <<inputNow, frame, inputQueue, fix, fixed>>

\* _complete: every part is there, of this very stamp.
Complete(parts, t) == \A r \in Roles : parts[r] = t

\* observe, a part of a fix: the whole goes to the engine, and while no filter
\* runs to the output.
ObserveGnss ==
    /\ ~dead /\ items = <<>>
    /\ \E r \in Roles, t \in {x \in inputNow - Lateness..inputNow : x > 0} :
        /\ \A q \in Roles : fix[q] <= t
        /\ fix[r] < t
        /\ LET parts == [fix EXCEPT ![r] = t] IN
           IF Complete(parts, t)
           THEN /\ fix' = NoFix /\ fixed' = parts
                /\ aligned' \in BOOLEAN
                /\ IF aligned' THEN UNCHANGED <<lastEmit, emitted>> ELSE Emit(t)
           ELSE fix' = parts /\ UNCHANGED <<fixed, aligned, lastEmit, emitted>>
    /\ UNCHANGED <<inputNow, inVars, dead, accel, gyro, stepped>>

\* A frame may be late.
InputTick ==
    /\ inputNow < InputMaxTime /\ frame.axis = 1
    /\ inputNow' = inputNow + 1 /\ frame' = [frame EXCEPT !.t = inputNow + 1]
    /\ UNCHANGED <<inputQueue, items, dead, accel, gyro, fix, aligned, stepped, fixed,
                   lastEmit, emitted>>

InputNext == InputPut \/ Drain \/ ObserveImu \/ ObserveGnss \/ InputTick

InputSpec == InputInit /\ [][InputNext]_inputVars

-----------------------------------------------------------------------------

\* The variables keep their types.
InputTypeOK ==
    /\ {accel.t, gyro.t} \subseteq -1..InputMaxTime + 1 /\ fix \in [Roles -> 0..InputMaxTime + 1]
    /\ lastEmit \in -1..InputMaxTime + 1 /\ Len(inputQueue) <= MaxQueue

\* Whatever samples were lost, the engine is never given a vector with axes of
\* two captures, nor a pair further apart than the skew allows.
OneCapture ==
    /\ \A i \in {1, 2} : \A a \in Axes : stepped[i].of[a] \in {0, stepped[i].t}
    /\ InputAbs(stepped[1].t - stepped[2].t) <= MaxSkew

\* A fix given to the engine is of one epoch: never one sentence's latitude
\* with the next one's longitude.
FixOfOneEpoch == \A r, q \in Roles : fixed[r] = fixed[q]

\* Outputs are in order and no closer than the rate allows, though the fixes
\* that drive some of them are handled late.
RateHonoured == emitted[1] # -1 => emitted[2] - emitted[1] >= Period

=============================================================================
