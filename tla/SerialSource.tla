--------------------------- MODULE SerialSource ---------------------------
(***************************************************************************)
(* A GNSS receiver on a serial port (collectors/serial): the transport     *)
(* opens the port, the UM980 driver configures the receiver command by     *)
(* command, and only then are sentences read and corrections written back  *)
(* from the publisher's thread.                                            *)
(***************************************************************************)
EXTENDS Integers, Sequences

CONSTANTS
    Sentences,      \* the commands after UNLOG, one per sentence, 3..n
    BackoffStart, BackoffMax,
    RawRetry,       \* RAW_LOG_RETRY_S
    SerialMaxFaults

VARIABLES
    pc,
    serialStop,  \* the collector was told to stop
    step,       \* the command being sent: 1 is CONFIG CMDFORMAT, 2 is UNLOG
    retried,    \* CONFIG CMDFORMAT is being sent again, checksummed
    backoff, wait,
    connected,  \* a line was read on this connection
    active,     \* self._active_driver is set
    held,       \* the driver the RTCM thread took: of this port or an old one
    configured,  \* history: this port's handshake was completed
    stray,      \* history: a correction reached a port that was not configured
    strict,     \* the receiver wants checksummed commands
    outputs,    \* the sentences the receiver sends
    rebooted,   \* history: the receiver restarted on this connection
    serialWire, inbuf,  \* acknowledgements on their way, and in the input buffer
    tail,       \* the rest of a sentence is still to be read
    out,        \* what the last values emitted were decoded from
    raw, rawRest,
    serialFaults

rxVars == <<strict, outputs, rebooted>>
ackVars == <<serialWire, inbuf>>
readVars == <<tail, out, raw, rawRest>>
rtcmVars == <<held, stray>>
portVars == <<step, retried, connected, active, configured>>
waitVars == <<backoff, wait>>
serialVars == <<pc, serialStop, portVars, waitVars, rtcmVars, rxVars, ackVars, readVars,
                serialFaults>>

Commands == {1, 2} \cup Sentences
Last == CHOOSE k \in Commands : \A j \in Commands : j <= k
Least(a, b) == IF a < b THEN a ELSE b
SerialSpend == serialFaults < SerialMaxFaults /\ serialFaults' = serialFaults + 1

SerialInit ==
    /\ pc = "loop" /\ serialStop = FALSE /\ step = 1 /\ retried = FALSE
    /\ backoff = BackoffStart /\ wait = 0 /\ connected = FALSE /\ active = FALSE
    /\ held = "none" /\ configured = FALSE /\ stray = FALSE
    /\ strict \in BOOLEAN /\ outputs = {} /\ rebooted = FALSE
    /\ serialWire = <<>> /\ inbuf = <<>> /\ tail = FALSE /\ out = "none"
    /\ raw = "none" /\ rawRest = 0 /\ serialFaults = 0

-----------------------------------------------------------------------------

\* The loop's head: the port is opened and its driver built.
Open ==
    /\ pc = "loop" /\ ~serialStop
    /\ pc' = "send" /\ step' = 1 /\ retried' = FALSE
    /\ connected' = FALSE /\ configured' = FALSE /\ rebooted' = FALSE
    /\ inbuf' = <<>>
    /\ UNCHANGED <<serialStop, active, waitVars, rtcmVars, strict, outputs, serialWire,
                   readVars, serialFaults>>

\* _open: the port is not there.
OpenFails ==
    /\ pc = "loop" /\ ~serialStop
    /\ SerialSpend
    /\ pc' = "wait"
    /\ wait' = backoff /\ backoff' = Least(backoff * 2, BackoffMax)
    /\ UNCHANGED <<serialStop, portVars, rtcmVars, rxVars, ackVars, readVars>>

\* Told to stop: the thread ends, and run closes the capture.
LoopEnds ==
    /\ pc = "loop" /\ serialStop
    /\ pc' = "ended" /\ raw' = "none"
    /\ UNCHANGED <<serialStop, portVars, waitVars, rtcmVars, rxVars, ackVars, tail, out,
                   rawRest, serialFaults>>

\* The receiver takes a command it understands; what it replies is checksummed
\* once it is in CMDFORMAT 1.
Obeys ==
    /\ strict' = (strict \/ step = 1)
    /\ outputs' = IF step = 2 THEN {} ELSE outputs \cup ({step} \cap Sentences)
    /\ \E sum \in {TRUE, strict} : serialWire' = Append(serialWire, [cmd |-> step, ok |-> TRUE, sum |-> sum])

Ignores == UNCHANGED <<strict, outputs, serialWire>>

\* Every command after the first is checksummed, and the first's second try.
Checksummed == step > 1 \/ retried

\* _send_command up to its scan: the input buffer is emptied, the command goes
\* out.  A receiver in CMDFORMAT 1 ignores one without a checksum; one that is
\* not may ignore one with it.
SendCommand ==
    /\ pc = "send"
    /\ pc' = "scan"
    /\ inbuf' = <<>>
    /\ \/ (strict => Checksummed) /\ Obeys /\ UNCHANGED serialFaults
       \/ strict # Checksummed /\ Ignores /\ UNCHANGED serialFaults
       \/ Ignores /\ SerialSpend
       \/ /\ SerialSpend /\ UNCHANGED <<strict, outputs>>
          /\ serialWire' = Append(serialWire, [cmd |-> step, ok |-> FALSE, sum |-> TRUE])
    /\ UNCHANGED <<serialStop, portVars, waitVars, rtcmVars, rebooted, readVars>>

\* The finally block: no driver, the port closed; then the backoff, from its
\* start if anything was read.
Closed ==
    LET b == IF connected THEN BackoffStart ELSE backoff IN
    /\ active' = FALSE
    /\ held' = IF held = "current" THEN "old" ELSE held
    /\ IF serialStop THEN pc' = "loop" /\ UNCHANGED waitVars
       ELSE pc' = "wait" /\ wait' = b /\ backoff' = Least(b * 2, BackoffMax)

\* _require_ok, and the next command; after the last the driver is published
\* and reading begins.
CommandDone ==
    /\ retried' = FALSE
    /\ IF step < Last
       THEN /\ step' = step + 1 /\ pc' = "send"
            /\ UNCHANGED <<connected, active, configured, held, waitVars>>
       ELSE /\ pc' = "reading" /\ active' = TRUE /\ configured' = TRUE
            /\ UNCHANGED <<step, connected, held, waitVars>>

ConfigureFails ==
    /\ Closed
    /\ UNCHANGED <<step, retried, connected, configured>>

\* _send_command's scan, one acknowledgement: a bad checksum fails the
\* configuration, another command's is skipped.
Scan ==
    /\ pc = "scan" /\ inbuf # <<>>
    /\ inbuf' = Tail(inbuf)
    /\ LET ack == Head(inbuf) IN
       IF Checksummed /\ ~ack.sum THEN ConfigureFails
       ELSE IF ack.cmd # step THEN UNCHANGED <<pc, portVars, held, waitVars>>
       ELSE IF ack.ok THEN CommandDone ELSE ConfigureFails
    /\ UNCHANGED <<serialStop, stray, rxVars, serialWire, readVars, serialFaults>>

\* No acknowledgement in time.  CONFIG CMDFORMAT is tried once more, with a
\* checksum; for any other command the configuration fails.
TimedOut ==
    /\ IF step = 1 /\ ~retried
       THEN /\ retried' = TRUE /\ pc' = "send"
            /\ UNCHANGED <<step, connected, active, configured, held, waitVars>>
       ELSE ConfigureFails
    /\ UNCHANGED <<serialStop, stray, rxVars, ackVars, readVars>>

ScanEmpty == pc = "scan" /\ serialWire = <<>> /\ inbuf = <<>> /\ TimedOut /\ UNCHANGED serialFaults
ScanLate == pc = "scan" /\ (serialWire # <<>> \/ inbuf # <<>>) /\ TimedOut /\ SerialSpend

-----------------------------------------------------------------------------

Lines == {"fix", "unfixed", "other", "garbled", "cut early", "cut late", "tail", "oversized"}

\* handle_line through NmeaDecoder.decode: the sentence's kind, checksum (where
\* one is there), fields, status and ranges.  A sentence cut inside its last
\* field has all its fields and no checksum.
SerialDecode(line) ==
    IF line \in {"fix", "cut late"} THEN line ELSE "nothing"

\* _raw_capture: the line goes to the capture run, which is begun when there is
\* none; a failure drops it and rests before the next.
RawCapture ==
    \/ /\ rawRest > 0 /\ UNCHANGED <<raw, rawRest, serialFaults>>
    \/ /\ rawRest = 0 /\ raw' = "open" /\ UNCHANGED <<rawRest, serialFaults>>
    \/ /\ rawRest = 0 /\ SerialSpend /\ raw' = "none" /\ rawRest' = RawRetry

\* readline gives a line, or after its timeout what there is of one.
Read ==
    /\ pc = "reading" /\ ~serialStop
    /\ \E line \in Lines :
        /\ (line = "tail") = tail
        /\ (line = "fix") => outputs # {}
        /\ tail' = (line \in {"cut early", "cut late", "oversized"})
        /\ out' = IF SerialDecode(line) = "nothing" THEN out ELSE SerialDecode(line)
    /\ connected' = TRUE
    /\ RawCapture
    /\ UNCHANGED <<pc, serialStop, step, retried, active, configured, waitVars, rtcmVars,
                   rxVars, ackVars>>

\* The port fails under the read, or the stop is seen.
ReadEnds ==
    /\ pc = "reading"
    /\ \/ serialStop /\ UNCHANGED serialFaults
       \/ ~serialStop /\ SerialSpend
    /\ Closed
    /\ tail' = FALSE
    /\ UNCHANGED <<serialStop, step, retried, connected, configured, stray, rxVars, ackVars,
                   out, raw, rawRest>>

WaitEnds ==
    /\ pc = "wait" /\ (wait = 0 \/ serialStop)
    /\ pc' = "loop" /\ wait' = 0
    /\ UNCHANGED <<serialStop, portVars, backoff, rtcmVars, rxVars, ackVars, readVars,
                   serialFaults>>

\* write_rtcm on the publisher's thread: the driver is taken under the lock and
\* written to after it.
TakeDriver ==
    /\ held = "none" /\ active
    /\ held' = "current"
    /\ UNCHANGED <<pc, serialStop, portVars, waitVars, stray, rxVars, ackVars, readVars,
                   serialFaults>>

WriteRtcm ==
    /\ held # "none"
    /\ held' = "none"
    /\ stray' = (stray \/ (held = "current" /\ ~configured))
    /\ UNCHANGED <<pc, serialStop, portVars, waitVars, rxVars, ackVars, readVars, serialFaults>>

\* VehicleAgent.stop.
Stop ==
    /\ ~serialStop /\ serialStop' = TRUE
    /\ UNCHANGED <<pc, portVars, waitVars, rtcmVars, rxVars, ackVars, readVars, serialFaults>>

-----------------------------------------------------------------------------

\* An acknowledgement arrives, now and then damaged; in order, always.
SerialDeliver ==
    /\ serialWire # <<>>
    /\ serialWire' = Tail(serialWire)
    /\ \/ inbuf' = Append(inbuf, Head(serialWire)) /\ UNCHANGED serialFaults
       \/ inbuf' = Append(inbuf, [Head(serialWire) EXCEPT !.sum = FALSE]) /\ SerialSpend
    /\ UNCHANGED <<pc, serialStop, portVars, waitVars, rtcmVars, rxVars, readVars>>

\* The receiver restarts with its defaults.
Reboot ==
    /\ SerialSpend
    /\ strict' = FALSE /\ outputs' = {} /\ rebooted' = TRUE /\ serialWire' = <<>>
    /\ UNCHANGED <<pc, serialStop, portVars, waitVars, rtcmVars, inbuf, readVars>>

SerialTick ==
    /\ wait > 0 \/ rawRest > 0
    /\ wait' = IF wait > 0 THEN wait - 1 ELSE 0
    /\ rawRest' = IF rawRest > 0 THEN rawRest - 1 ELSE 0
    /\ UNCHANGED <<pc, serialStop, portVars, backoff, rtcmVars, rxVars, ackVars, tail, out,
                   raw, serialFaults>>

Step == Open \/ LoopEnds \/ SendCommand \/ Scan \/ ScanEmpty \/ WaitEnds \/ (serialStop /\ ReadEnds)

SerialNext ==
    \/ Step \/ OpenFails \/ ScanLate \/ Read \/ ReadEnds \/ TakeDriver \/ WriteRtcm
    \/ Stop \/ SerialDeliver \/ Reboot \/ SerialTick

SerialSpec == SerialInit /\ [][SerialNext]_serialVars /\ WF_serialVars(Step) /\ WF_serialVars(SerialDeliver) /\ WF_serialVars(SerialTick)

-----------------------------------------------------------------------------

\* The variables keep their types.
SerialTypeOK ==
    /\ pc \in {"loop", "send", "scan", "reading", "wait", "ended"}
    /\ step \in Commands /\ backoff \in BackoffStart..BackoffMax /\ wait \in 0..BackoffMax
    /\ held \in {"none", "current", "old"} /\ outputs \subseteq Sentences
    /\ out \in {"none"} \cup Lines /\ raw \in {"none", "open"} /\ rawRest \in 0..RawRetry

\* While sentences are read the receiver sends exactly the configured ones: a
\* command is done only on its own acknowledgement, whatever was lost, late or
\* left over from an earlier attempt.  A receiver that restarted since is not
\* known to have.
ConfiguredIsTrue == pc = "reading" /\ ~rebooted => outputs = Sentences /\ strict

\* No correction is written into a handshake: a driver taken before the port
\* failed writes to the closed port, not to the next one.
NoStrayCorrection == ~stray

\* Only a sentence with an active fix gives values.
NoFixNoValue == out # "unfixed"

\* Once the faults are over the receiver is configured and read again, from
\* whichever command format it was left in.
ReadingResumes == []<>(pc = "reading" \/ serialStop)

=============================================================================
