---------------------------- MODULE SessionState ----------------------------
(***************************************************************************)
(* The pure session and driver-stint state machine                         *)
(* (src/src/pit/session_control/state.py) under the calls                  *)
(* SessionController.act makes of it, and the restore of a saved state.    *)
(*                                                                         *)
(* Times are the server's clock and the times operators type; the clock    *)
(* may be set back, so an action may come with any time.                   *)
(***************************************************************************)
EXTENDS Integers, Sequences

CONSTANTS Drivers,    \* names the operator may enter, stripped and not empty
          Times,      \* epoch milliseconds
          MaxStints   \* bound: stints of one session

ASSUME TimesAssumption == Times \subseteq Nat
ASSUME StintsAssumption == MaxStints \in Nat \ {0}

NoDriver == "nobody"
ASSUME DriversAssumption == NoDriver \notin Drivers

VARIABLES status, driver, stintNumber, sessionStart, stintStart,
          stints      \* the closed stints

stateVars == <<status, driver, stintNumber, sessionStart, stintStart, stints>>

Stint == [driver : Drivers, number : 1..MaxStints, start : Times, end : Times]

StateInit ==
  /\ status = "none" /\ driver = NoDriver /\ stintNumber = 0
  /\ sessionStart = 0 /\ stintStart = 0 /\ stints = <<>>

-----------------------------------------------------------------------------
StateStartSession(d, now) ==
  /\ status # "active"
  /\ status' = "active" /\ driver' = d /\ stintNumber' = 1
  /\ sessionStart' = now /\ stintStart' = now /\ stints' = <<>>

\* The active stint, closed at time now.
Closed(now) == [driver |-> driver, number |-> stintNumber, start |-> stintStart, end |-> now]

ChangeDriver(d, now) ==
  /\ status = "active" /\ d # driver /\ now >= stintStart /\ stintNumber < MaxStints
  /\ stints' = Append(stints, Closed(now))
  /\ driver' = d /\ stintNumber' = stintNumber + 1 /\ stintStart' = now
  /\ UNCHANGED <<status, sessionStart>>

\* Variant: the stint before keeps its end.
AmendStintStartAlone(at) ==
  /\ status = "active" /\ stintNumber >= 2
  /\ at >= stints[Len(stints)].start
  /\ stintStart' = at
  /\ UNCHANGED <<status, driver, stintNumber, sessionStart, stints>>

\* Variant: bounded by the session's start instead of the previous stint's.
AmendStintStartFar(at) ==
  /\ status = "active" /\ stintNumber >= 2
  /\ at >= sessionStart
  /\ stints' = [stints EXCEPT ![Len(stints)].end = at]
  /\ stintStart' = at
  /\ UNCHANGED <<status, driver, stintNumber, sessionStart>>

\* Re-stating the driver in the car with a time: the boundary between the last
\* closed stint and the active one moves.
AmendStintStart(at) ==
  /\ status = "active" /\ stintNumber >= 2
  /\ at >= stints[Len(stints)].start
  /\ stints' = [stints EXCEPT ![Len(stints)].end = at]
  /\ stintStart' = at
  /\ UNCHANGED <<status, driver, stintNumber, sessionStart>>

EndSession(now) ==
  /\ status = "active" /\ now >= stintStart
  /\ stints' = Append(stints, Closed(now)) /\ status' = "ended"
  /\ UNCHANGED <<driver, stintNumber, sessionStart, stintStart>>

-----------------------------------------------------------------------------
(* from_dict, on what to_dict saved.                                       *)

\* previous_end of the validating loop, at the i-th stint.
PreviousEnd(first, closed, i) == IF i = 1 THEN first ELSE closed[i - 1].end

Accepted ==
  /\ stintStart >= sessionStart /\ stintNumber >= 1
  /\ \A i \in 1..Len(stints) :
        /\ stints[i].number = i
        /\ stints[i].start >= PreviousEnd(sessionStart, stints, i) /\ stints[i].end >= stints[i].start
  /\ Len(stints) = IF status = "ended" THEN stintNumber ELSE stintNumber - 1
  /\ status = "active" => stintStart >= PreviousEnd(sessionStart, stints, Len(stints) + 1)
  /\ status = "ended" => /\ driver = stints[Len(stints)].driver
                         /\ stintStart = stints[Len(stints)].start

\* A restart: StateFile.load falls back to no session when from_dict refuses.
StateRestart ==
  IF status = "none" \/ Accepted
    THEN UNCHANGED stateVars
    ELSE /\ status' = "none" /\ driver' = NoDriver /\ stintNumber' = 0
         /\ sessionStart' = 0 /\ stintStart' = 0 /\ stints' = <<>>

StateNext ==
  \/ \E d \in Drivers, now \in Times : StateStartSession(d, now) \/ ChangeDriver(d, now)
  \/ \E t \in Times : AmendStintStart(t) \/ EndSession(t)
  \/ StateRestart

StateSpec == StateInit /\ [][StateNext]_stateVars

-----------------------------------------------------------------------------
(* Properties.                                                             *)

\* Every variable has the type the code gives it.
StateTypeOK ==
  /\ status \in {"none", "active", "ended"} /\ driver \in Drivers \cup {NoDriver}
  /\ stintNumber \in 0..MaxStints
  /\ sessionStart \in Times \cup {0} /\ stintStart \in Times \cup {0}
  /\ stints \in Seq(Stint)

\* Every state the actions can make is one from_dict accepts again.
SavedIsAccepted == status # "none" => Accepted

\* The stints of a session cover it without gap or overlap, from its start to
\* its end or to the active stint, whichever boundaries were backdated or
\* amended; and no stint follows one of the same driver.
Contiguous ==
  /\ \A i \in 1..Len(stints) : stints[i].start = PreviousEnd(sessionStart, stints, i)
  /\ status = "active" => stintStart = PreviousEnd(sessionStart, stints, Len(stints) + 1)
  /\ \A i \in 2..Len(stints) : stints[i].driver # stints[i - 1].driver
  /\ status = "active" /\ stints # <<>> => driver # stints[Len(stints)].driver

\* A session can be saved, loaded again and billed to its drivers at any time.
SessionSound == SavedIsAccepted /\ Contiguous

\* A restart never loses the session; a later session replaces an ended one only.
SessionSurvives == [][status = "active" => status' # "none" /\ sessionStart' = sessionStart]_stateVars

=============================================================================
