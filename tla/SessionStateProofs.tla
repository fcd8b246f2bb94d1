------------------------- MODULE SessionStateProofs -------------------------
(***************************************************************************)
(* Proofs about SessionState for every set of drivers, every clock and     *)
(* sessions of any length.                                                 *)
(***************************************************************************)
EXTENDS SessionState, TLAPS

\* Accepted and Contiguous are not inductive by themselves: that an amended
\* boundary stays after the session's start needs every closed stint to start
\* there, not only the one whose end moves.
Bounded == \A i \in 1..Len(stints) : stints[i].start >= sessionStart

\* There are no stints without a session, and a session has a driver and times.
Named ==
  IF status = "none"
    THEN stints = <<>> /\ stintNumber = 0
    ELSE driver \in Drivers /\ sessionStart \in Times /\ stintStart \in Times
         /\ stintNumber \in 1..MaxStints

IInv == StateTypeOK /\ SavedIsAccepted /\ Contiguous /\ Bounded /\ Named

\* Appending adds one element at the end and keeps the others in place.
LEMMA AppendFacts ==
  ASSUME NEW S, NEW s \in Seq(S), NEW e \in S
  PROVE  /\ Append(s, e) \in Seq(S) /\ Len(Append(s, e)) = Len(s) + 1
         /\ \A i \in 1..Len(s) : Append(s, e)[i] = s[i]
         /\ Append(s, e)[Len(s) + 1] = e
         /\ Append(s, e) # <<>>
  OBVIOUS

\* The arithmetic content of the types.
LEMMA NumberFacts ==
  ASSUME StateTypeOK
  PROVE  /\ stintNumber \in Nat /\ sessionStart \in Nat /\ stintStart \in Nat
         /\ Len(stints) \in Nat
         /\ \A i \in 1..Len(stints) :
               stints[i] \in Stint /\ stints[i].start \in Nat /\ stints[i].end \in Nat
<1>1. stintNumber \in Nat /\ sessionStart \in Nat /\ stintStart \in Nat
  BY TimesAssumption, StintsAssumption DEF StateTypeOK
<1>2. Len(stints) \in Nat /\ \A i \in 1..Len(stints) : stints[i] \in Stint
  BY DEF StateTypeOK
<1>3. \A s \in Stint : s.start \in Nat /\ s.end \in Nat
  BY TimesAssumption DEF Stint
<1> QED BY <1>1, <1>2, <1>3

\* Closing the active stint makes a stint.
LEMMA ClosedFacts ==
  ASSUME IInv, status = "active", NEW now \in Times
  PROVE  /\ Closed(now) \in Stint
         /\ Closed(now).driver = driver /\ Closed(now).number = stintNumber
         /\ Closed(now).start = stintStart /\ Closed(now).end = now
  BY DEF Closed, IInv, Named, Stint

\* Moving the end of the last stint keeps everything else of the history.
LEMMA AmendFacts ==
  ASSUME NEW s \in Seq(Stint), Len(s) > 0, NEW at \in Times,
         NEW t, t = [s EXCEPT ![Len(s)].end = at]
  PROVE  /\ t \in Seq(Stint) /\ Len(t) = Len(s)
         /\ \A i \in 1..Len(s) : i # Len(s) => t[i] = s[i]
         /\ \A i \in 1..Len(s) : /\ t[i].driver = s[i].driver /\ t[i].number = s[i].number
                                 /\ t[i].start = s[i].start
         /\ t[Len(s)].end = at
<1>1. Len(s) \in 1..Len(s) /\ \A i \in 1..Len(s) : s[i] \in Stint OBVIOUS
<1>2. [s[Len(s)] EXCEPT !.end = at] \in Stint
  BY <1>1 DEF Stint
<1>3. t = [s EXCEPT ![Len(s)] = [s[Len(s)] EXCEPT !.end = at]] OBVIOUS
<1>4. t \in Seq(Stint) /\ Len(t) = Len(s) BY <1>1, <1>2, <1>3
<1>5. t[Len(s)] = [s[Len(s)] EXCEPT !.end = at] BY <1>1, <1>3
<1>6. \A i \in 1..Len(s) : i # Len(s) => t[i] = s[i] BY <1>3
<1>7. /\ t[Len(s)].driver = s[Len(s)].driver /\ t[Len(s)].number = s[Len(s)].number
      /\ t[Len(s)].start = s[Len(s)].start /\ t[Len(s)].end = at
  BY <1>1, <1>5 DEF Stint
<1> QED BY <1>1, <1>4, <1>6, <1>7

-----------------------------------------------------------------------------
(* One lemma per action.                                                   *)

\* A start makes a session whose only stint is active and begins with it.
LEMMA StartStep ==
  ASSUME IInv, NEW d \in Drivers, NEW now \in Times, StateStartSession(d, now)
  PROVE  IInv'
<1>1. now \in Nat BY TimesAssumption
<1>2. /\ status' = "active" /\ driver' = d /\ stintNumber' = 1 /\ sessionStart' = now
      /\ stintStart' = now /\ stints' = <<>>
  BY DEF StateStartSession
<1>3. StateTypeOK' /\ Named'
  BY <1>2, StintsAssumption DEF StateTypeOK, Named
<1>4. Accepted' /\ Contiguous' /\ Bounded'
  BY <1>1, <1>2 DEF Accepted, PreviousEnd, Contiguous, Bounded
<1> QED BY <1>3, <1>4 DEF IInv, SavedIsAccepted

\* Closing the active stint keeps the history in order.
LEMMA CloseStep ==
  ASSUME IInv, status = "active", NEW now \in Times, now >= stintStart,
         stints' = Append(stints, Closed(now)), UNCHANGED sessionStart
  PROVE  /\ stints' \in Seq(Stint) /\ Len(stints') = Len(stints) + 1
         /\ stints'[Len(stints')] = Closed(now)
         /\ \A i \in 1..Len(stints') :
               /\ stints'[i].number = i /\ stints'[i].start = PreviousEnd(sessionStart', stints', i)
               /\ stints'[i].end >= stints'[i].start /\ stints'[i].start >= sessionStart'
         /\ \A i \in 2..Len(stints') : stints'[i].driver # stints'[i - 1].driver
         /\ PreviousEnd(sessionStart', stints', Len(stints') + 1) = now /\ Len(stints') = stintNumber
         /\ stints' # <<>>
<1> DEFINE n == Len(stints)
<1>1. /\ Closed(now) \in Stint /\ stints \in Seq(Stint) /\ n \in Nat
      /\ Closed(now).driver = driver /\ Closed(now).number = stintNumber
      /\ Closed(now).start = stintStart /\ Closed(now).end = now
  BY ClosedFacts, NumberFacts DEF IInv, StateTypeOK
<1>2. /\ stints' \in Seq(Stint) /\ Len(stints') = n + 1 /\ stints' # <<>>
      /\ \A i \in 1..n : stints'[i] = stints[i]
      /\ stints'[n + 1] = Closed(now)
  BY <1>1, AppendFacts
<1>3. /\ \A i \in 1..n : /\ stints[i].number = i /\ stints[i].start = PreviousEnd(sessionStart, stints, i)
                        /\ stints[i].end >= stints[i].start /\ stints[i].start >= sessionStart
      /\ stintStart = PreviousEnd(sessionStart, stints, n + 1) /\ stintStart >= sessionStart
      /\ n = stintNumber - 1 /\ stintNumber \in Nat
      /\ \A i \in 2..n : stints[i].driver # stints[i - 1].driver
      /\ n # 0 => driver # stints[n].driver
  BY NumberFacts DEF IInv, SavedIsAccepted, Accepted, Contiguous, Bounded, StateTypeOK
<1>4. \A i \in 1..(n + 1) : PreviousEnd(sessionStart', stints', i) = PreviousEnd(sessionStart, stints, i)
  BY <1>1, <1>2 DEF PreviousEnd
<1>5. PreviousEnd(sessionStart', stints', n + 2) = now
  BY <1>1, <1>2 DEF PreviousEnd
<1>6. n + 1 = stintNumber BY <1>1, <1>3
<1>7. ASSUME NEW i \in 1..(n + 1)
      PROVE  /\ stints'[i].number = i /\ stints'[i].start = PreviousEnd(sessionStart', stints', i)
             /\ stints'[i].end >= stints'[i].start /\ stints'[i].start >= sessionStart'
  <2>1. CASE i \in 1..n BY <2>1, <1>1, <1>2, <1>3, <1>4
  <2>2. CASE i = n + 1 BY <2>2, <1>1, <1>2, <1>3, <1>4, <1>6
  <2> QED BY <2>1, <2>2, <1>1
<1>8. ASSUME NEW i \in 2..(n + 1) PROVE stints'[i].driver # stints'[i - 1].driver
  <2>1. CASE i \in 2..n
    <3>1. stints'[i] = stints[i] /\ stints'[i - 1] = stints[i - 1] BY <2>1, <1>1, <1>2
    <3> QED BY <3>1, <2>1, <1>3
  <2>2. CASE i = n + 1
    <3>1. stints'[i - 1] = stints[n] /\ n # 0 BY <2>2, <1>1, <1>2
    <3> QED BY <3>1, <2>2, <1>1, <1>2, <1>3
  <2> QED BY <2>1, <2>2, <1>1
<1> QED BY <1>1, <1>2, <1>5, <1>6, <1>7, <1>8

\* A driver change closes the active stint and opens the next one at its end.
LEMMA ChangeStep ==
  ASSUME IInv, NEW d \in Drivers, NEW now \in Times, ChangeDriver(d, now)
  PROVE  IInv'
<1>1. /\ status = "active" /\ now >= stintStart /\ stints' = Append(stints, Closed(now))
      /\ UNCHANGED sessionStart /\ status' = "active" /\ driver' = d /\ stintStart' = now
      /\ d # driver /\ stintNumber' = stintNumber + 1 /\ stintNumber < MaxStints
  BY DEF ChangeDriver
<1>2. /\ stints' \in Seq(Stint) /\ Len(stints') = stintNumber
      /\ stints'[Len(stints')] = Closed(now)
      /\ \A i \in 1..Len(stints') :
            /\ stints'[i].number = i /\ stints'[i].start = PreviousEnd(sessionStart', stints', i)
            /\ stints'[i].end >= stints'[i].start /\ stints'[i].start >= sessionStart'
      /\ \A i \in 2..Len(stints') : stints'[i].driver # stints'[i - 1].driver
      /\ PreviousEnd(sessionStart', stints', Len(stints') + 1) = now
  BY <1>1, CloseStep
<1>3. /\ stintNumber \in 1..MaxStints /\ stintNumber \in Nat /\ sessionStart \in Times
      /\ stintStart >= sessionStart /\ sessionStart \in Nat /\ stintStart \in Nat /\ now \in Nat
  BY <1>1, NumberFacts, TimesAssumption DEF IInv, Named, SavedIsAccepted, Accepted
<1>4. Named' BY <1>1, <1>3, StintsAssumption DEF Named
<1>5. StateTypeOK' BY <1>1, <1>2, <1>3, StintsAssumption DEF StateTypeOK
<1>6. \A i \in 1..Len(stints') : stints'[i].start >= PreviousEnd(sessionStart', stints', i)
  <2>1. \A i \in 1..Len(stints') : stints'[i] \in Stint BY <1>2
  <2>2. \A e \in Stint : e.start \in Nat BY TimesAssumption DEF Stint
  <2> QED BY <2>1, <2>2, <1>2
<1>7. Accepted' BY <1>1, <1>2, <1>3, <1>6 DEF Accepted
<1>8. Closed(now).driver = driver BY DEF Closed
<1>9. Contiguous' BY <1>1, <1>2, <1>8 DEF Contiguous
<1>10. Bounded' BY <1>2 DEF Bounded
<1> QED BY <1>4, <1>5, <1>7, <1>9, <1>10 DEF IInv, SavedIsAccepted

\* Amending moves the boundary before the active stint on both of its sides.
LEMMA AmendStep ==
  ASSUME IInv, NEW at \in Times, AmendStintStart(at)
  PROVE  IInv'
<1> DEFINE n == Len(stints)
<1>1. /\ status = "active" /\ stintNumber >= 2 /\ at >= stints[n].start
      /\ stints' = [stints EXCEPT ![n].end = at] /\ stintStart' = at
      /\ UNCHANGED <<status, driver, stintNumber, sessionStart>>
  BY DEF AmendStintStart
<1>2. /\ stintNumber \in Nat /\ sessionStart \in Nat /\ n \in Nat /\ at \in Nat
      /\ stints \in Seq(Stint) /\ \A i \in 1..n : stints[i].start \in Nat
  BY NumberFacts, TimesAssumption DEF IInv, StateTypeOK
<1>3. /\ \A i \in 1..n : /\ stints[i].number = i
                        /\ stints[i].start = PreviousEnd(sessionStart, stints, i)
                        /\ stints[i].end >= stints[i].start /\ stints[i].start >= sessionStart
      /\ n = stintNumber - 1
      /\ \A i \in 2..n : stints[i].driver # stints[i - 1].driver
      /\ stints # <<>> => driver # stints[n].driver
  BY <1>1 DEF IInv, SavedIsAccepted, Accepted, Contiguous, Bounded
<1>4. n > 0 /\ n \in 1..n BY <1>1, <1>2, <1>3
<1>5. /\ stints' \in Seq(Stint) /\ Len(stints') = n
      /\ \A i \in 1..n : i # n => stints'[i] = stints[i]
      /\ \A i \in 1..n : /\ stints'[i].driver = stints[i].driver
                         /\ stints'[i].number = stints[i].number
                         /\ stints'[i].start = stints[i].start
      /\ stints'[n].end = at
  BY <1>1, <1>2, <1>4, AmendFacts
<1>6. \A i \in 1..n : PreviousEnd(sessionStart', stints', i) = PreviousEnd(sessionStart, stints, i)
  BY <1>1, <1>2, <1>5 DEF PreviousEnd
<1>7. PreviousEnd(sessionStart', stints', n + 1) = at
  BY <1>2, <1>4, <1>5 DEF PreviousEnd
<1>8. \A i \in 1..n : stints'[i].end >= stints'[i].start
  BY <1>1, <1>3, <1>4, <1>5
<1>9. StateTypeOK' /\ Named'
  BY <1>1, <1>5 DEF IInv, StateTypeOK, Named
<1>10. at >= sessionStart BY <1>1, <1>2, <1>3, <1>4
<1>11. Accepted'
  <2>1. \A i \in 1..n : stints'[i].start >= PreviousEnd(sessionStart', stints', i)
    BY <1>2, <1>3, <1>5, <1>6
  <2>2. stintStart' >= sessionStart' /\ stintNumber' >= 1 /\ Len(stints') = stintNumber' - 1
    BY <1>1, <1>2, <1>3, <1>5, <1>10
  <2>3. stintStart' >= PreviousEnd(sessionStart', stints', Len(stints') + 1)
    BY <1>1, <1>2, <1>5, <1>7
  <2>4. \A i \in 1..n : stints'[i].number = i BY <1>3, <1>5
  <2>5. status' = "active" BY <1>1
  <2>6. Len(stints') = n BY <1>5
  <2> QED BY <2>1, <2>2, <2>3, <2>4, <2>5, <2>6, <1>8 DEF Accepted
<1>12. \A i \in 2..n : stints'[i].driver # stints'[i - 1].driver
  <2>1. \A i \in 2..n : i \in 1..n /\ i - 1 \in 1..n BY <1>2
  <2> QED BY <2>1, <1>3, <1>5
<1>13. stints # <<>> BY <1>4
<1>14. Contiguous'
  <2>1. \A i \in 1..n : stints'[i].start = PreviousEnd(sessionStart', stints', i)
    BY <1>3, <1>5, <1>6
  <2>2. driver' # stints'[n].driver BY <1>1, <1>3, <1>4, <1>5, <1>13
  <2>3. Len(stints') = n /\ stintStart' = at BY <1>1, <1>5
  <2> QED BY <2>1, <2>2, <2>3, <1>7, <1>12 DEF Contiguous
<1>15. Bounded' BY <1>1, <1>3, <1>5 DEF Bounded
<1> QED BY <1>9, <1>11, <1>14, <1>15 DEF IInv, SavedIsAccepted

\* The end closes the active stint, which stays the current one.
LEMMA EndStep ==
  ASSUME IInv, NEW now \in Times, EndSession(now)
  PROVE  IInv'
<1>1. /\ status = "active" /\ now >= stintStart /\ stints' = Append(stints, Closed(now))
      /\ UNCHANGED sessionStart /\ status' = "ended"
      /\ UNCHANGED <<driver, stintNumber, stintStart>>
  BY DEF EndSession
<1>2. /\ stints' \in Seq(Stint) /\ Len(stints') = stintNumber
      /\ stints'[Len(stints')] = Closed(now)
      /\ \A i \in 1..Len(stints') :
            /\ stints'[i].number = i /\ stints'[i].start = PreviousEnd(sessionStart', stints', i)
            /\ stints'[i].end >= stints'[i].start /\ stints'[i].start >= sessionStart'
      /\ \A i \in 2..Len(stints') : stints'[i].driver # stints'[i - 1].driver
  BY <1>1, CloseStep
<1>3. stintStart >= sessionStart /\ stintNumber >= 1
  BY <1>1 DEF IInv, SavedIsAccepted, Accepted
<1>4. Named' BY <1>1 DEF IInv, Named
<1>5. StateTypeOK' BY <1>1, <1>2 DEF IInv, StateTypeOK
<1>6. \A i \in 1..Len(stints') : stints'[i].start >= PreviousEnd(sessionStart', stints', i)
  <2>1. \A i \in 1..Len(stints') : stints'[i] \in Stint BY <1>2
  <2>2. \A e \in Stint : e.start \in Nat BY TimesAssumption DEF Stint
  <2> QED BY <2>1, <2>2, <1>2
<1>7. Closed(now).driver = driver /\ Closed(now).start = stintStart BY DEF Closed
<1>8. Accepted' BY <1>1, <1>2, <1>3, <1>6, <1>7 DEF Accepted
<1>9. Contiguous' BY <1>1, <1>2 DEF Contiguous
<1>10. Bounded' BY <1>2 DEF Bounded
<1> QED BY <1>4, <1>5, <1>8, <1>9, <1>10 DEF IInv, SavedIsAccepted

-----------------------------------------------------------------------------
\* The inductive invariant holds initially and is kept by every action, so that
\* a restart always takes the branch that keeps the state.
THEOREM Invariance == StateSpec => []IInv
<1>1. StateInit => IInv
  <2> SUFFICES ASSUME StateInit PROVE IInv OBVIOUS
  <2>1. StateTypeOK BY StintsAssumption DEF StateInit, StateTypeOK
  <2>2. SavedIsAccepted /\ Contiguous /\ Bounded /\ Named
    BY DEF StateInit, SavedIsAccepted, Contiguous, Bounded, Named
  <2> QED BY <2>1, <2>2 DEF IInv
<1>2. IInv /\ [StateNext]_stateVars => IInv'
  <2> SUFFICES ASSUME IInv, [StateNext]_stateVars PROVE IInv' OBVIOUS
  <2>1. ASSUME UNCHANGED stateVars PROVE IInv'
    <3>1. StateTypeOK' /\ Bounded' /\ Named' BY <2>1 DEF stateVars, IInv, StateTypeOK, Bounded, Named
    <3>2. SavedIsAccepted' BY <2>1 DEF stateVars, IInv, SavedIsAccepted, Accepted
    <3>3. Contiguous' BY <2>1 DEF stateVars, IInv, Contiguous
    <3> QED BY <3>1, <3>2, <3>3 DEF IInv
  <2>2. ASSUME NEW d \in Drivers, NEW now \in Times, StateStartSession(d, now) PROVE IInv'
    BY <2>2, StartStep
  <2>3. ASSUME NEW d \in Drivers, NEW now \in Times, ChangeDriver(d, now) PROVE IInv'
    BY <2>3, ChangeStep
  <2>4. ASSUME NEW t \in Times, AmendStintStart(t) PROVE IInv' BY <2>4, AmendStep
  <2>5. ASSUME NEW t \in Times, EndSession(t) PROVE IInv' BY <2>5, EndStep
  <2>6. ASSUME StateRestart PROVE IInv'
    <3>1. status = "none" \/ Accepted BY DEF IInv, SavedIsAccepted
    <3> QED BY <3>1, <2>6, <2>1 DEF StateRestart
  <2> QED BY <2>1, <2>2, <2>3, <2>4, <2>5, <2>6 DEF StateNext
<1> QED BY <1>1, <1>2, PTL DEF StateSpec

\* Type correctness of the state machine.
THEOREM TypeCorrect == StateSpec => []StateTypeOK
<1>1. IInv => StateTypeOK BY DEF IInv
<1> QED BY <1>1, Invariance, PTL

\* from_dict accepts every state that start, driver change, amendment and end
\* can make, whatever the clock does: the state file is never ignored.
THEOREM AlwaysAccepted == StateSpec => []SavedIsAccepted
<1>1. IInv => SavedIsAccepted BY DEF IInv
<1> QED BY <1>1, Invariance, PTL

\* The stints of a session always cover it without gap or overlap.
THEOREM AlwaysContiguous == StateSpec => []Contiguous
<1>1. IInv => Contiguous BY DEF IInv
<1> QED BY <1>1, Invariance, PTL

\* Whatever the operators do, with any clock, the state is one a restart reads
\* back, and its stints cover the session.
THEOREM Sound == StateSpec => []SessionSound
<1>1. IInv => SessionSound BY DEF IInv, SessionSound
<1> QED BY <1>1, Invariance, PTL

\* No step, a restart included, loses an active session or moves its start.
THEOREM Survives == StateSpec => SessionSurvives
<1>1. IInv /\ [StateNext]_stateVars =>
        [status = "active" => status' # "none" /\ sessionStart' = sessionStart]_stateVars
  <2> SUFFICES ASSUME IInv, StateNext, status = "active"
               PROVE  status' # "none" /\ sessionStart' = sessionStart
    OBVIOUS
  <2>1. CASE StateRestart
    BY <2>1 DEF StateRestart, IInv, SavedIsAccepted, stateVars
  <2>2. CASE ~StateRestart
    BY <2>2 DEF StateNext, StateStartSession, ChangeDriver, AmendStintStart, EndSession
  <2> QED BY <2>1, <2>2
<1> QED BY <1>1, Invariance, PTL DEF StateSpec, SessionSurvives

=============================================================================
