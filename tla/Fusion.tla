------------------------------ MODULE Fusion ------------------------------
(***************************************************************************)
(* The life of the inertial solution (fusion/engine.py) and what the       *)
(* fusion app shows of it (agent/fusion_app.py): alignment, outlier gate,  *)
(* outages, and an IMU that goes silent, freezes or reports nonsense.  The *)
(* numbers are left out: whether a fix passes the filter's gate is any.    *)
(***************************************************************************)
EXTENDS Integers

CONSTANTS
    ImuTimeout, ImuRecovery,
    Stale,      \* 0.5 s: a fix older than this is not current
    Second,     \* the second after which a disagreement is believed
    MaxOutage,
    FrozenSamples

VARIABLES
    ins,        \* the filter is running
    altRef,     \* it has a height reference
    fault,      \* the IMU's fault is latched
    failed,     \* there was a failover before
    imuAge,     \* since the last good IMU sample; -1 for never (as below)
    goodFor,    \* since the IMU became good
    frozen,     \* bit-identical samples in a row, up to FrozenSamples
    fixAge,     \* since the last fix the filter accepted
    rawAge,     \* since the last fix
    speed,      \* its speed
    rejFor,     \* since self._rejected_since
    status,     \* the status last emitted
    fusionShown,  \* the last position shown: whose, and how old its fix was
    disagree,   \* history: since the filter's fixes began to be rejected
    sinceBad,   \* history: since the last bad sample or end of a silence
    forced      \* history: the last re-anchor came after so long

imuVars == <<imuAge, goodFor, frozen>>
healthVars == <<fault, failed>>
fixVars == <<fixAge, rawAge, speed, rejFor>>
histVars == <<disagree, sinceBad, forced>>
fusionVars == <<ins, altRef, healthVars, imuVars, fixVars, status, fusionShown, histVars>>

Speeds == {"still", "slow", "fast"}    \* under FROZEN_CHECK_SPEED, under align_speed, over
Moving == rawAge # -1 /\ speed # "still"

FusionInit ==
    /\ ins = FALSE /\ altRef = FALSE /\ fault = FALSE /\ failed = FALSE
    /\ imuAge = -1 /\ goodFor = -1 /\ frozen = 0
    /\ fixAge = -1 /\ rawAge = -1 /\ speed = "still" /\ rejFor = -1
    /\ status = "none" /\ fusionShown = [of |-> "none", age |-> 0]
    /\ disagree = -1 /\ sinceBad = -1 /\ forced = -1

-----------------------------------------------------------------------------

\* _fail_over.
FailOver ==
    /\ ins' = FALSE
    /\ altRef' = (altRef /\ ~ins)
    /\ failed' = (failed \/ ins)

\* _check_outage.
Outage == fixAge > MaxOutage

\* _imu_sample_ok's verdict.
Bad(sample) == sample = "bad" \/ (sample = "same" /\ Moving /\ frozen + 1 >= FrozenSamples)

\* The fault stays latched until imu_recovery_s of good samples.
FaultAfter(good) == fault /\ good < ImuRecovery

\* _outputs on the IMU's step: a position only while the filter runs.
PositionOnImu ==
    IF ins' THEN fusionShown' = [of |-> "filter", age |-> fixAge] ELSE UNCHANGED fusionShown

\* output and _passthrough on the IMU's step.
StatusOnImu ==
    status' = IF ins' THEN (IF fixAge > Stale THEN "dead_reckoning" ELSE "gnss")
              ELSE IF rawAge = -1 \/ rawAge > Stale THEN "aligning"
              ELSE IF fault' THEN "gnss_only" ELSE "aligning"

\* imu refuses the sample: the fault is latched, the filter dropped.
ImuRefused(sample) ==
    /\ Bad(sample)
    /\ frozen' = IF sample = "same" THEN FrozenSamples ELSE 0
    /\ goodFor' = -1
    /\ fault' = TRUE
    /\ IF fault THEN UNCHANGED <<ins, altRef, failed>> ELSE FailOver
    /\ sinceBad' = 0 /\ disagree' = -1
    /\ UNCHANGED imuAge

\* imu takes the sample.  After a silence the filter is dropped and recovery
\* counts from now; without one, the filter steps and an outage ends it.
ImuTaken(sample) ==
    LET good == IF goodFor = -1 THEN 0 ELSE goodFor
        silent == imuAge > ImuTimeout
    IN /\ ~Bad(sample)
       /\ frozen' = IF sample = "same" /\ Moving THEN frozen + 1 ELSE 0
       /\ fault' = FaultAfter(good)
       /\ imuAge' = 0
       /\ IF silent
          THEN FailOver /\ goodFor' = 0 /\ sinceBad' = 0 /\ disagree' = -1
          ELSE /\ goodFor' = good
               /\ IF ins /\ imuAge > 0 /\ Outage
                  THEN ins' = FALSE /\ altRef' = FALSE /\ disagree' = -1
                  ELSE UNCHANGED <<ins, altRef, disagree>>
               /\ UNCHANGED <<failed, sinceBad>>

\* A paired IMU reading reaches the engine and the app shows what came of it.
Imu ==
    \E sample \in {"good", "same", "bad"} :
        /\ ImuRefused(sample) \/ ImuTaken(sample)
        /\ PositionOnImu /\ StatusOnImu
        /\ UNCHANGED <<fixVars, forced>>

-----------------------------------------------------------------------------

\* Variant: an IMU is healthy as soon as its samples are taken.
HealthyByAge == imuAge # -1 /\ imuAge <= ImuTimeout

\* imu_healthy at a fix.
Healthy == ~fault /\ imuAge # -1 /\ imuAge <= ImuTimeout

\* Variant: a filter that failed over may align at once.
RecoveredAtOnce == goodFor # -1

\* _imu_recovered.
Recovered == goodFor # -1 /\ (~failed \/ goodFor >= ImuRecovery)

\* The fix finds no filter: align on it if it may, else pass it through.
FixAligns(s) ==
    LET aligns == Healthy /\ Recovered /\ s = "fast" IN
    /\ ~ins
    /\ ins' = aligns /\ altRef' = FALSE
    /\ fixAge' = IF aligns THEN 0 ELSE fixAge
    /\ UNCHANGED <<failed, rejFor, disagree, forced>>

\* The filter is running on an IMU that fell silent: it is dropped first.
FixFailsOver(s) ==
    /\ ins /\ ~Healthy
    /\ FailOver
    /\ disagree' = -1
    /\ UNCHANGED <<fixAge, rejFor, forced>>

\* Coming back from an outage the first fix is taken ungated.
Recovering == fixAge > Second

\* A fix the gate rejects: dropped, or forced when the disagreement has lasted.
FixRejected ==
    IF rejFor # -1 /\ rejFor > Second
    THEN /\ rejFor' = -1 /\ fixAge' = 0
         /\ forced' = (IF disagree = -1 THEN 0 ELSE disagree) /\ disagree' = -1
    ELSE /\ rejFor' = (IF rejFor = -1 THEN 0 ELSE rejFor)
         /\ disagree' = (IF disagree = -1 THEN 0 ELSE disagree)
         /\ UNCHANGED <<fixAge, forced>>

\* The filter weighs the fix.
FixWeighed(s) ==
    /\ ins /\ Healthy
    /\ \/ rejFor' = -1 /\ fixAge' = 0 /\ disagree' = -1 /\ UNCHANGED forced
       \/ ~Recovering /\ FixRejected
    /\ UNCHANGED <<ins, altRef, failed>>

\* gnss_fix, and what the app shows when no filter runs.
Fix ==
    \E s \in Speeds :
        /\ FixAligns(s) \/ FixFailsOver(s) \/ FixWeighed(s)
        /\ rawAge' = 0 /\ speed' = s
        /\ IF ins' THEN UNCHANGED <<status, fusionShown>>
           ELSE /\ fusionShown' = [of |-> "fix", age |-> 0]
                /\ status' = IF Healthy THEN "aligning" ELSE "gnss_only"
        /\ UNCHANGED <<fault, imuVars, sinceBad>>

\* gnss_alt: the first height anchors the frame.
Alt ==
    /\ ins /\ ~altRef
    /\ altRef' = TRUE
    /\ UNCHANGED <<ins, healthVars, imuVars, fixVars, status, fusionShown, histVars>>

Older(age, cap) == IF age = -1 \/ age = cap THEN age ELSE age + 1

Tick ==
    /\ imuAge' = Older(imuAge, ImuTimeout + 1)
    /\ goodFor' = Older(goodFor, ImuRecovery)
    /\ fixAge' = Older(fixAge, MaxOutage + 1)
    /\ rawAge' = Older(rawAge, Stale + 1)
    /\ rejFor' = Older(rejFor, Second + 1)
    /\ disagree' = Older(disagree, Second + 1)
    /\ sinceBad' = Older(sinceBad, ImuRecovery)
    /\ UNCHANGED <<ins, altRef, healthVars, frozen, speed, status, fusionShown, forced>>

FusionNext == Imu \/ Fix \/ Alt \/ Tick

FusionSpec == FusionInit /\ [][FusionNext]_fusionVars

-----------------------------------------------------------------------------

\* The variables keep their types.
FusionTypeOK ==
    /\ imuAge \in -1..ImuTimeout + 1 /\ goodFor \in -1..ImuRecovery /\ frozen \in 0..FrozenSamples
    /\ fixAge \in -1..MaxOutage + 1 /\ rawAge \in -1..Stale + 1 /\ speed \in Speeds
    /\ status \in {"none", "aligning", "gnss", "dead_reckoning", "gnss_only"}
    /\ fusionShown.of \in {"none", "fix", "filter"}

\* A latched fault means no filter: nothing inertial is shown of an IMU that
\* is known to be faulty.
NoFilterOnFault == fault => ~ins

\* Past max_outage_s without an accepted fix no inertial position is shown,
\* and no position at all is older than its fix allows.
NoLongDeadReckoning == fusionShown.age <= MaxOutage

\* A filter that failed over starts again only after imu_recovery_s without a
\* bad sample or a silence.
NoFlapping == ~ins /\ ins' /\ failed => sinceBad = -1 \/ sinceBad >= ImuRecovery

\* A parked car's quiet IMU is not taken for a frozen one: without a bad
\* sample, no fault is latched unless the car moves.
ParkedIsNotFrozen == ~fault /\ fault' /\ ~Moving => frozen' = 0

\* A filter that disagrees with its fixes for longer than a second is moved to
\* the next one: the disagreement never outlives it.
DisagreementEnds == Fix /\ ins /\ ins' /\ disagree > Second => disagree' = -1

=============================================================================
