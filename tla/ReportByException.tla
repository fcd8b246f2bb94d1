------------------------- MODULE ReportByException -------------------------
(***************************************************************************)
(* What the pit knows of a channel the vehicle reports by exception.  A    *)
(* sample passes the filter (deadband, rate cap, heartbeat), waits for a   *)
(* tick, is encoded with its tick window, and is decoded and stored at the *)
(* pit.  The filter remembers a sample as sent before anything is sent: a  *)
(* window with a value that cannot be encoded is thrown away as a whole.   *)
(*                                                                         *)
(* Values are whole numbers of the finest unit; a scaled channel is an     *)
(* unsigned integer of Scale such units above Offset, a flag is 0 or 1.    *)
(***************************************************************************)
EXTENDS Integers, FiniteSets, FiniteSetsExt

CONSTANTS
    Values,                             \* what the scaled channel may read
    Scale, Offset,                      \* its EncodeConfig
    Deadband, MinInterval, MaxInterval,  \* its RbeConfig
    ReportTick,                         \* tick_ms
    ReportMaxTime

Channels == {"scaled", "flag"}
Reads(c) == IF c = "scaled" THEN Values ELSE {1, 2}     \* 2: not a flag
Reported == {"scaled"}                                     \* channels with a policy
Nothing == [value |-> 0, t |-> -1]

VARIABLES
    reportNow,  \* capture time
    reportLast,  \* the newest sample of each channel
    sent,       \* RbeFilter._state
    reportStaged,  \* Pipeline._staged
    shown,      \* the newest row of each channel at the pit
    gone        \* history: the last sample sent was thrown away with its window

reportVars == <<reportNow, reportLast, sent, reportStaged, shown, gone>>

ReportAbs(n) == IF n < 0 THEN -n ELSE n

-----------------------------------------------------------------------------
(* The filter.                                                             *)

\* Variant: a sample that is suppressed becomes the one compared with.
AcceptDrifts(c, x) ==
    LET was == sent[c]
        keep == \/ c \notin Reported \/ was.t < 0
                \/ x.t - was.t >= MaxInterval
                \/ x.t - was.t >= MinInterval /\ ReportAbs(x.value - was.value) > Deadband IN
    [keep |-> keep, sent |-> IF c \in Reported THEN x ELSE was]

\* RbeFilter.accept: the heartbeat forces, the rate cap suppresses, then the
\* deadband does; what is kept is recorded as sent.
Accept(c, x) ==
    LET was == sent[c]
        keep == \/ c \notin Reported \/ was.t < 0
                \/ x.t - was.t >= MaxInterval
                \/ x.t - was.t >= MinInterval /\ ReportAbs(x.value - was.value) > Deadband IN
    [keep |-> keep, sent |-> IF keep /\ c \in Reported THEN x ELSE was]

\* Pipeline.ingest
Ingest(c, v) ==
    LET x == [value |-> v, t |-> reportNow]
        verdict == Accept(c, x) IN
    /\ reportLast[c].t < reportNow
    /\ reportLast' = [reportLast EXCEPT ![c] = x]
    /\ sent' = [sent EXCEPT ![c] = verdict.sent]
    /\ reportStaged' = IF verdict.keep THEN reportStaged \cup {[chan |-> c, value |-> v, t |-> reportNow]}
                       ELSE reportStaged
    /\ gone' = [gone EXCEPT ![c] = @ /\ ~verdict.keep]
    /\ UNCHANGED <<reportNow, shown>>

-----------------------------------------------------------------------------
(* The wire.                                                               *)

\* Python's round of n / d: to the nearest, halves to even.
Round(n, d) ==
    LET q == n \div d  r == n % d IN
    IF 2 * r < d THEN q ELSE IF 2 * r > d THEN q + 1 ELSE q + (q % 2)

\* _encode_value: the wire value.
Encode(x) == IF x.chan = "scaled" THEN Round(x.value - Offset, Scale) ELSE x.value

\* _encode_value: what it raises for.
Encodable(x) == IF x.chan = "scaled" THEN Encode(x) >= 0 ELSE x.value \in {0, 1}

\* decode_batch and rows_from_batch: the row's number.
ReportDecode(chan, wire) == IF chan = "scaled" THEN wire * Scale + Offset ELSE wire

Times == {x.t : x \in reportStaged}

\* Pipeline.flush: the window a capture time falls in starts at the earliest
\* staged time that no earlier window reaches.
ReportEpochs ==
    LET epoch[t \in 0 .. ReportMaxTime] ==
            LET before == {u \in Times : u < t} IN
            IF before = {} THEN t
            ELSE IF t - epoch[Max(before)] < ReportTick THEN epoch[Max(before)] ELSE t
    IN  [t \in Times |-> epoch[t]]

\* Batcher.tick: the windows with a value that cannot be encoded are discarded.
Discarded(epochs) == {epochs[x.t] : x \in {y \in reportStaged : ~Encodable(y)}}

\* What a flush sends: the windows that encode, the failed ones skipped.
Kept(epochs) == LET bad == Discarded(epochs) IN {x \in reportStaged : epochs[x.t] \notin bad}

\* The newest row of a channel once some more have been written.
Stored(c, xs) ==
    LET mine == {x \in xs : x.chan = c} IN
    IF mine = {} THEN shown[c]
    ELSE LET x == CHOOSE y \in mine : \A z \in mine : y.t >= z.t IN
         [value |-> ReportDecode(c, Encode(x)), t |-> x.t]

\* Pipeline.flush, and the pit's rows for what it sends.
Flush ==
    LET kept == Kept(ReportEpochs)  thrown == reportStaged \ kept IN
    /\ reportStaged # {}
    /\ reportStaged' = {}
    /\ shown' = [c \in Channels |-> Stored(c, kept)]
    /\ gone' = [c \in Channels |->
                  IF \E x \in reportStaged : x.chan = c
                  THEN \E x \in thrown : x.chan = c /\ x.t = sent[c].t
                  ELSE gone[c]]
    /\ UNCHANGED <<reportNow, reportLast, sent>>

Pass ==
    /\ reportNow < ReportMaxTime
    /\ reportNow' = reportNow + 1
    /\ UNCHANGED <<reportLast, sent, reportStaged, shown, gone>>

-----------------------------------------------------------------------------
ReportInit ==
    /\ reportNow = 0
    /\ reportLast = [c \in Channels |-> Nothing]
    /\ sent = [c \in Channels |-> Nothing]
    /\ reportStaged = {}
    /\ shown = [c \in Channels |-> Nothing]
    /\ gone = [c \in Channels |-> FALSE]

ReportNext ==
    \/ \E c \in Channels : \E v \in Reads(c) : Ingest(c, v)
    \/ Flush \/ Pass

ReportSpec == ReportInit /\ [][ReportNext]_reportVars

-----------------------------------------------------------------------------
(* Properties.                                                             *)

\* Types of the samples, the filter's state and the rows.
ReportTypeOK ==
    /\ reportNow \in 0 .. ReportMaxTime
    /\ \A c \in Channels : /\ reportLast[c].t \in -1 .. reportNow
                           /\ sent[c].t \in -1 .. reportLast[c].t
                           /\ shown[c].t \in -1 .. reportLast[c].t
    /\ \A x \in reportStaged : x.value \in Reads(x.chan) /\ x.t \in 0 .. reportNow

Delivered(c) == reportLast[c].t >= 0 /\ ~ \E x \in reportStaged : x.chan = c

\* The filter, the encoding and the pit's decoding together: what the pit shows
\* of a channel is within its deadband and half a step of the encoding of what
\* the sensor last read, except while the rate cap holds, or until the heartbeat
\* when the last report was thrown away with its window.
ShownIsClose ==
    \A c \in Reported : Delivered(c) =>
        \/ 2 * ReportAbs(shown[c].value - reportLast[c].value) <= 2 * Deadband + Scale
        \/ reportLast[c].t - shown[c].t < MinInterval
        \/ gone[c] /\ reportLast[c].t - sent[c].t < MaxInterval

\* max_interval is a heartbeat: as long as the channel is sampled, the pit's row
\* is never older than that, unless its window was thrown away.
Heartbeat ==
    \A c \in Reported : Delivered(c) /\ ~gone[c] => reportLast[c].t - shown[c].t < MaxInterval

\* Pipeline.flush: a value that cannot be encoded costs its own tick window and
\* nothing else, however many windows one flush has to send.
CostsOneWindow ==
    [][reportStaged # {} /\ reportStaged' = {} =>
          \A x \in reportStaged :
             (\A y \in reportStaged : Encodable(y) \/ ReportAbs(x.t - y.t) >= ReportTick)
                => shown'[x.chan].t >= x.t]_reportVars
=============================================================================
