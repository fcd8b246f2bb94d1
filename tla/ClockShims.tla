----------------------------- MODULE ClockShims -----------------------------
(***************************************************************************)
(* The two programs that give chrony the receiver's seconds.  One reads a  *)
(* pulse wire: an edge says when a second starts, and the system clock     *)
(* itself says which one.  The other reads the lines of a microcontroller  *)
(* that name the second, numbered so that a late line is not taken twice.  *)
(* A sample is the offset chrony is to correct by.                         *)
(*                                                                         *)
(* Time is in parts of a second, Second of them; error is the system clock *)
(* less the true time, and may be moved by anyone at any moment.           *)
(***************************************************************************)
EXTENDS Integers

CONSTANTS
    Second,         \* NS_PER_S
    ShimMaxOffset,  \* --max-offset
    MaxDelay,       \* MAX_FIRMWARE_DELAY_US
    Width,          \* bits of the line number: 32
    MaxLatency,     \* of the serial line
    MaxError, ShimMaxFaults

ShimNone == -1
Numbers == 2 ^ Width
Abs(n) == IF n < 0 THEN -n ELSE n

VARIABLES
    error,          \* of the system clock
    wire, port,     \* the GPIO line and the serial port: "open" or "closed"
    number,         \* the firmware's next line number
    shimLast,       \* GnssReceiverInterfaceShim._last_sequence
    given,          \* the last sample chrony got since the clock moved: [by, offset]
    shimFaults

shimVars == <<error, wire, port, number, shimLast, given, shimFaults>>

NoSample == [by |-> "none", offset |-> 0]

ShimSpend == shimFaults < ShimMaxFaults /\ shimFaults' = shimFaults + 1

-----------------------------------------------------------------------------
(* The pulse wire.                                                         *)

\* process_edge: round the edge's own time stamp to a second; the offset is what
\* was rounded away.
OffsetOf(stamp) == (Second \div 2) - ((stamp + (Second \div 2)) % Second)

\* process_edge: --max-offset.
Accepted(offset) == Abs(offset) <= ShimMaxOffset

\* run, process_edge: the pulse of a true second, its rising edge at the second and
\* its falling edge a little later; only the edge asked for counts.  A sample
\* the socket refuses is dropped.
Edge ==
    \E rising \in BOOLEAN :
        LET stamp == 10 * Second + error + (IF rising THEN 0 ELSE 1)
            offset == OffsetOf(stamp) IN
        /\ wire = "open"
        /\ rising /\ Accepted(offset)
        /\ given' = [by |-> "wire", offset |-> offset]
        /\ UNCHANGED <<error, wire, port, number, shimLast, shimFaults>>

-----------------------------------------------------------------------------
(* The microcontroller.                                                    *)

\* _is_newer_sequence: less than half the range ahead.
IsNewer(n, previous) ==
    LET difference == (n - previous) % Numbers IN 0 < difference /\ difference < Numbers \div 2

\* process_line: when the edge was, by the system clock.
EdgeOf(arrival, delay) == arrival - delay

\* run, process_line: a line that names its second and its delay since the edge.
Line ==
    \E delay \in {0, MaxDelay, MaxDelay + 1}, late \in 0 .. MaxLatency, valid \in BOOLEAN :
        LET second == 10 * Second
            arrival == second + error + delay + late IN
        /\ port = "open"
        /\ number' = (number + 1) % Numbers
        /\ IF valid /\ delay <= MaxDelay /\ (shimLast = ShimNone \/ IsNewer(number, shimLast))
           THEN /\ shimLast' = number
                /\ given' = [by |-> "line", offset |-> second - EdgeOf(arrival, delay)]
           ELSE UNCHANGED <<shimLast, given>>
        /\ UNCHANGED <<error, wire, port, shimFaults>>

\* A good line whose sample the socket refuses, or that never arrives whole.
LineFails ==
    /\ port = "open" /\ ShimSpend
    /\ number' = (number + 1) % Numbers
    /\ UNCHANGED <<shimLast, given>>
    /\ UNCHANGED <<error, wire, port>>

\* The firmware is flashed or powered again: its numbers start over.
Reflash ==
    /\ ShimSpend
    /\ number' = 0 /\ port' = "closed"
    /\ UNCHANGED <<error, wire, shimLast, given>>

-----------------------------------------------------------------------------
(* Devices and the clock.                                                  *)

Unplug ==
    /\ ShimSpend
    /\ \/ wire = "open" /\ wire' = "closed" /\ UNCHANGED port
       \/ port = "open" /\ port' = "closed" /\ UNCHANGED wire
    /\ UNCHANGED <<error, number, shimLast, given>>

\* run: the device is opened again after the pause, and the shim kept.
Reopen ==
    /\ \/ wire = "closed" /\ wire' = "open" /\ UNCHANGED port
       \/ port = "closed" /\ port' = "open" /\ UNCHANGED wire
    /\ UNCHANGED <<error, number, shimLast, given, shimFaults>>

\* Drift, and whatever else sets the clock.
Move ==
    /\ error' \in -MaxError .. MaxError
    /\ given' = NoSample
    /\ UNCHANGED <<wire, port, number, shimLast, shimFaults>>

-----------------------------------------------------------------------------
ShimInit ==
    /\ error = 0
    /\ wire = "closed" /\ port = "closed"
    /\ number = 0 /\ shimLast = ShimNone
    /\ given = NoSample
    /\ shimFaults = 0

ShimNext == Edge \/ Line \/ LineFails \/ Reflash \/ Unplug \/ Reopen \/ Move

\* The firmware sends a line every second, valid whenever it has a fix, and never
\* loses the fix for good; the programs retry their devices.
ShimSpec ==
    /\ ShimInit /\ [][ShimNext]_shimVars
    /\ WF_shimVars(Reopen) /\ WF_shimVars(Line) /\ SF_shimVars(Line /\ shimLast' # shimLast)

-----------------------------------------------------------------------------
(* Properties.                                                             *)

\* Types of the counters and the samples.
ShimTypeOK ==
    /\ error \in -MaxError .. MaxError
    /\ wire \in {"open", "closed"} /\ port \in {"open", "closed"}
    /\ number \in 0 .. Numbers - 1 /\ shimLast \in {ShimNone} \cup (0 .. Numbers - 1)
    /\ given.by = "wire" => given.offset \in -ShimMaxOffset .. ShimMaxOffset

\* process_edge: as long as the clock is nearer to this second than the guard
\* reaches from the next, a sample from the wire tells chrony its true error.
PulseIsTrue ==
    given.by = "wire" /\ Abs(error) < Second - ShimMaxOffset => given.offset = -error

\* process_line: a sample of the microcontroller is the true error of the clock,
\* however far off it is and however long the firmware took,
\* but for the time the line itself was under way.
LineIsTrue == given.by = "line" => -error - given.offset \in 0 .. MaxLatency

\* process_line, run: the numbers wrap, lines are lost, the firmware starts over,
\* the device is unplugged, and chrony still gets a new sample in the end.
LinesResume == []<><<shimLast' # shimLast>>_shimVars

=============================================================================
