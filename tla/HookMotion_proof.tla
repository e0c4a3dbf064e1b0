--------------------------- MODULE HookMotion_proof ---------------------------
(***************************************************************************)
(* Theorems about HookMotion, for any 16-bit positions, any errors and any *)
(* number of reports that make a standstill.                               *)
(***************************************************************************)
EXTENDS HookMotion, TLAPS

\* MotionTypeOK, with the Boolean variables apart from the others.
Flags == isVelocityZero \in BOOLEAN /\ reported \in BOOLEAN

Numbers ==
  /\ hookPosition \in Word16 /\ hookPreviousPosition \in Word16
  /\ hookVelocityCounter \in 0 .. StandstillReports
  /\ elapsed \in 0 .. StandstillReports /\ extra \in 0 .. StandstillReports

Codes ==
  /\ errorNo \in ReportedErrors \cup {"NONE"}
  /\ reportedError \in ReportedErrors \cup {"NONE"}

\* Every report of a count is the first of a period that has passed, one of the extra ones,
\* or the first of the present period.
CountIsOld ==
  IF reported THEN hookVelocityCounter <= elapsed + extra + 1
              ELSE hookVelocityCounter <= elapsed + extra

MotionInv == Flags /\ Numbers /\ Codes /\ CountIsOld /\ StandstillLasts

LEMMA TypeParts == MotionTypeOK <=> Flags /\ Numbers /\ Codes
BY DEF MotionTypeOK, Flags, Numbers, Codes

LEMMA InitInv == MotionInit => MotionInv
<1> SUFFICES ASSUME MotionInit PROVE MotionInv
  OBVIOUS
<1>1. Flags
  BY Zenon DEF MotionInit, Flags
<1>2. Numbers
  BY MotionAssumption DEF MotionInit, Numbers, Word16, INT16_MAX
<1>3. Codes /\ CountIsOld /\ StandstillLasts
  BY DEF MotionInit, Codes, CountIsOld, StandstillLasts
<1> QED BY <1>1, <1>2, <1>3 DEF MotionInv

LEMMA VelocityIsInt ==
  ASSUME hookPreviousPosition \in Word16, NEW position \in Word16
  PROVE  AbsVelocity(position) \in Int
BY DEF Word16, AbsVelocity

\* database_run with a report. The Boolean variables are what their right-hand sides say.
LEMMA ReportKeeps ==
  ASSUME MotionInv, NEW position \in ReportedPositions, NEW error \in ReportedErrors,
         Report(position, error)
  PROVE  MotionInv'
<1> DEFINE slow == AbsVelocity(position) < 25
           count == IF slow THEN hookVelocityCounter + 1 ELSE 0
<1>1. /\ isVelocityZero' \in BOOLEAN /\ (isVelocityZero' <=> count > StandstillReports)
      /\ reported' \in BOOLEAN /\ reported'
  <2>1. isVelocityZero' = (count > StandstillReports)
    BY Zenon DEF Report, IsStopped
  <2>2. reported' = TRUE
    BY Zenon DEF Report, Recorded
  <2> HIDE DEF count, slow
  <2>3. isVelocityZero' \in BOOLEAN
    BY <2>1, SMT
  <2>4. isVelocityZero' <=> count > StandstillReports
    BY <2>1, Zenon
  <2> QED BY <2>2, <2>3, <2>4, Zenon
<1>2. /\ hookVelocityCounter' = IF count > StandstillReports THEN StandstillReports ELSE count
      /\ elapsed' = IF slow THEN elapsed ELSE 0
      /\ hookPosition' = position /\ hookPreviousPosition' = position
  BY Zenon DEF Report, IsStopped, Recorded
<1> DEFINE fast == AbsVelocity(position) >= 25
<1>3. AbsVelocity(position) \in Int
  BY MotionAssumption, VelocityIsInt, Zenon DEF MotionInv, Numbers
<1>4. extra' = IF ~slow THEN 0 ELSE IF reported THEN CountedUp(extra) ELSE extra
  <2>1. extra' = CASE fast -> 0
                   [] slow /\ reported -> CountedUp(extra)
                   [] OTHER -> extra
    BY Zenon DEF Report, Recorded
  <2>2. fast <=> ~slow
    BY <1>3
  <2> HIDE DEF fast, slow
  <2> QED BY <2>1, <2>2
<1>5. Flags'
  BY <1>1, Zenon DEF Flags
<1>6. Codes'
  BY DEF Report, SetError, MotionInv, Codes
<1> HIDE DEF slow
<1>7. Numbers'
  BY <1>2, <1>4, MotionAssumption DEF MotionInv, Numbers, CountedUp
<1>8. /\ slow => hookVelocityCounter <= elapsed' + extra'
      /\ slow /\ hookVelocityCounter >= StandstillReports =>
           elapsed' + extra' >= StandstillReports
  BY <1>2, <1>4, MotionAssumption DEF MotionInv, Numbers, CountIsOld, CountedUp
<1>9. CountIsOld'
  <2>1. hookVelocityCounter' <= elapsed' + extra' + 1
    BY <1>2, <1>4, <1>7, <1>8, MotionAssumption DEF MotionInv, Numbers
  <2> QED BY <1>1, <2>1 DEF CountIsOld
<1>10. StandstillLasts'
  <2>1. count > StandstillReports => slow /\ hookVelocityCounter >= StandstillReports
    BY MotionAssumption DEF MotionInv, Numbers
  <2> HIDE DEF count
  <2> QED BY <1>1, <1>8, <2>1, Zenon DEF StandstillLasts
<1> QED BY <1>5, <1>6, <1>7, <1>9, <1>10 DEF MotionInv

LEMMA TickKeeps == MotionInv /\ Tick => MotionInv'
<1> SUFFICES ASSUME MotionInv, Tick PROVE MotionInv'
  OBVIOUS
<1>1. /\ elapsed' = IF elapsed < StandstillReports THEN elapsed + 1 ELSE elapsed
      /\ UNCHANGED <<hookPosition, velocityVars, errorNo, reportedError, extra>>
  BY Zenon DEF Tick, CountedUp
<1>2. /\ ~reported' /\ reported' \in BOOLEAN
      /\ isVelocityZero' = isVelocityZero
  BY Zenon DEF Tick
<1>3. Flags'
  BY <1>2, Zenon DEF MotionInv, Flags
<1>4. Numbers' /\ Codes'
  BY <1>1, MotionAssumption DEF MotionInv, Numbers, Codes, velocityVars
<1>5. CountIsOld'
  <2>1. hookVelocityCounter <= elapsed' + extra'
    BY <1>1, MotionAssumption DEF MotionInv, Numbers, CountIsOld
  <2> QED BY <1>1, <1>2, <2>1 DEF CountIsOld, velocityVars
<1>6. StandstillLasts'
  <2>1. elapsed + extra >= StandstillReports => elapsed' + extra' >= StandstillReports
    BY <1>1, MotionAssumption DEF MotionInv, Numbers
  <2> QED BY <1>2, <2>1, Zenon DEF MotionInv, StandstillLasts
<1> QED BY <1>3, <1>4, <1>5, <1>6 DEF MotionInv

\* database_resetPosition and database_eackError change one variable.
LEMMA ResetsKeep == MotionInv /\ (ResetPosition \/ EackError) => MotionInv'
<1> SUFFICES ASSUME MotionInv, ResetPosition \/ EackError PROVE MotionInv'
  OBVIOUS
<1>1. UNCHANGED <<velocityVars, isVelocityZero, histories>>
  BY DEF ResetPosition, EackError
<1>2. Flags' /\ CountIsOld' /\ StandstillLasts'
  BY <1>1, Zenon DEF MotionInv, Flags, CountIsOld, StandstillLasts, velocityVars, histories
<1>3. hookPosition' \in Word16
  <2>1. 0 \in Word16
    BY DEF Word16
  <2> QED BY <2>1, Zenon DEF ResetPosition, EackError, MotionInv, Numbers
<1>4. Codes'
  BY Zenon DEF ResetPosition, EackError, MotionInv, Codes
<1>5. Numbers'
  BY <1>1, <1>3, Zenon DEF MotionInv, Numbers, velocityVars, histories
<1> QED BY <1>2, <1>4, <1>5 DEF MotionInv

LEMMA MotionInvariant == MotionSpec => []MotionInv
<1>1. MotionInv /\ [MotionNext]_motionVars => MotionInv'
  <2> SUFFICES ASSUME MotionInv, [MotionNext]_motionVars PROVE MotionInv'
    OBVIOUS
  <2>1. CASE UNCHANGED motionVars
    BY <2>1 DEF motionVars, velocityVars, histories, MotionInv, Flags, Numbers, Codes,
                CountIsOld, StandstillLasts
  <2> QED BY <2>1, ReportKeeps, TickKeeps, ResetsKeep DEF MotionNext
<1> QED BY <1>1, InitInv, PTL DEF MotionSpec

\* The words of database.c stay in their width, the count below its limit.
THEOREM MotionTypeCorrect == MotionSpec => []MotionTypeOK
BY MotionInvariant, TypeParts, PTL DEF MotionInv

\* isStopped: since the last fast report of a hook that counts as standing still, at least as
\* many periods of 25 ms have passed as there are reports to count, less one for each report
\* that was not the first of its period. The time of database.c:207 is not implied.
THEOREM StandstillHasLasted == MotionSpec => []StandstillLasts
BY MotionInvariant, PTL DEF MotionInv

-----------------------------------------------------------------------------
\* The range of a position, one range at a time.
LEMMA RangeOf ==
  ASSUME NEW p \in Int
  PROVE  /\ p <= 1 => ClassOf(p) = "home"
         /\ p > 1 /\ p < 13720 => ClassOf(p) = "lower"
         /\ p = 13720 => ClassOf(p) = "mid"
         /\ p > 13720 /\ p < 18293 => ClassOf(p) = "upper"
         /\ p = 18293 => ClassOf(p) = "open"
         /\ p > 18293 /\ p < 32767 => ClassOf(p) = "beyond"
         /\ p = 32767 => ClassOf(p) = "unknown"
         /\ p > 32767 /\ p <= 33768 => ClassOf(p) = "endStroke"
         /\ p > 33768 => ClassOf(p) = "overrun"
<1>1. p <= 1 => ClassOf(p) = "home"
  BY SMT DEF ClassOf
<1>2. p > 1 /\ p < 13720 => ClassOf(p) = "lower"
  BY SMT DEF ClassOf
<1>3. p = 13720 => ClassOf(p) = "mid"
  BY SMT DEF ClassOf
<1>4. p > 13720 /\ p < 18293 => ClassOf(p) = "upper"
  BY SMT DEF ClassOf
<1>5. p = 18293 => ClassOf(p) = "open"
  BY SMT DEF ClassOf
<1>6. p > 18293 /\ p < 32767 => ClassOf(p) = "beyond"
  BY SMT DEF ClassOf
<1>7. p = 32767 => ClassOf(p) = "unknown"
  BY SMT DEF ClassOf
<1>8. p > 32767 /\ p <= 33768 => ClassOf(p) = "endStroke"
  BY SMT DEF ClassOf
<1>9. p > 33768 => ClassOf(p) = "overrun"
  BY SMT DEF ClassOf
<1> QED BY <1>1, <1>2, <1>3, <1>4, <1>5, <1>6, <1>7, <1>8, <1>9

\* Each getter of database.c, on a 16-bit position.
LEMMA GettersAgree == hookPosition \in Word16 => GettersSeeClasses
<1> SUFFICES ASSUME hookPosition \in Word16 PROVE GettersSeeClasses
  OBVIOUS
<1> DEFINE p == hookPosition
<1>1. p \in Int /\ p >= 0 /\ p <= 65535
  BY DEF Word16
<1>2. /\ ClassOf(p) = "home" <=> p <= 1
      /\ ClassOf(p) \in {"endStroke", "overrun"} <=> p >= 32768
      /\ ClassOf(p) = "overrun" <=> p > 33768
  <2> HIDE DEF p
  <2> QED BY <1>1, RangeOf
<1>3. EndSwitch <=> p >= 32768
  BY DEF EndSwitch
<1>4. p >= 32768 => encoderValue = p - 32768
  BY <1>1 DEF encoderValue
<1>5. IsAtEndStroke = Database!IsAtEndStroke
  BY <1>2, <1>3, SMT DEF IsAtEndStroke, Database!IsAtEndStroke
<1>6. IsPositionEncoderHome = Database!IsPositionEncoderHome
  BY <1>2, <1>5, SMT DEF IsPositionEncoderHome, Database!IsPositionEncoderHome, closedPosition
<1>7. IsProtectionTriggered = Database!IsProtectionTriggered
  <2>1. EndSwitch => (encoderValue > 1000 <=> ClassOf(p) = "overrun")
    BY <1>1, <1>2, <1>3, <1>4
  <2> QED BY <2>1, <1>5, Zenon DEF IsProtectionTriggered, Database!IsProtectionTriggered, IsAtEndStroke
<1>8. GetState = Database!GetState
  <2>1. CASE p <= 1 \/ p >= 32768
    <3>1. GetState = "CLOSED"
      BY <1>1, <2>1, SMT DEF GetState, EndSwitch, closedPosition, midPosition, openPosition, INT16_MAX
    <3>2. ClassOf(p) \in {"home", "endStroke", "overrun"}
      BY <1>1, <1>2, <2>1, RangeOf
    <3> QED BY <3>1, <3>2 DEF Database!GetState
  <2>2. CASE p > 1 /\ p < 13720
    <3>1. GetState = "PARTIALLY_CLOSED"
      BY <1>1, <2>2, SMT DEF GetState, EndSwitch, closedPosition, midPosition, openPosition, INT16_MAX
    <3>2. ClassOf(p) \in {"lower"}
      BY <1>1, <1>2, <2>2, RangeOf
    <3> QED BY <3>1, <3>2 DEF Database!GetState
  <2>3. CASE p = 13720
    <3>1. GetState = "MID"
      BY <1>1, <2>3, SMT DEF GetState, EndSwitch, closedPosition, midPosition, openPosition, INT16_MAX
    <3>2. ClassOf(p) \in {"mid"}
      BY <1>1, <1>2, <2>3, RangeOf
    <3> QED BY <3>1, <3>2 DEF Database!GetState
  <2>4. CASE p > 13720 /\ p < 18293
    <3>1. GetState = "PARTIALLY_OPEN"
      BY <1>1, <2>4, SMT DEF GetState, EndSwitch, closedPosition, midPosition, openPosition, INT16_MAX
    <3>2. ClassOf(p) \in {"upper"}
      BY <1>1, <1>2, <2>4, RangeOf
    <3> QED BY <3>1, <3>2 DEF Database!GetState
  <2>5. CASE p = 18293
    <3>1. GetState = "OPEN"
      BY <1>1, <2>5, SMT DEF GetState, EndSwitch, closedPosition, midPosition, openPosition, INT16_MAX
    <3>2. ClassOf(p) \in {"open"}
      BY <1>1, <1>2, <2>5, RangeOf
    <3> QED BY <3>1, <3>2 DEF Database!GetState
  <2>6. CASE p > 18293 /\ p < 32767
    <3>1. GetState = "ERROR"
      BY <1>1, <2>6, SMT DEF GetState, EndSwitch, closedPosition, midPosition, openPosition, INT16_MAX
    <3>2. ClassOf(p) \in {"beyond"}
      BY <1>1, <1>2, <2>6, RangeOf
    <3> QED BY <3>1, <3>2 DEF Database!GetState
  <2>7. CASE p = 32767
    <3>1. GetState = "UNINITIALIZED"
      BY <1>1, <2>7, SMT DEF GetState, EndSwitch, closedPosition, midPosition, openPosition, INT16_MAX
    <3>2. ClassOf(p) \in {"unknown"}
      BY <1>1, <1>2, <2>7, RangeOf
    <3> QED BY <3>1, <3>2 DEF Database!GetState
  <2> QED BY <1>1, <2>1, <2>2, <2>3, <2>4, <2>5, <2>6, <2>7
<1> QED BY <1>5, <1>6, <1>7, <1>8 DEF GettersSeeClasses

\* What the remote does with a position depends on its range alone: for every 16-bit
\* value, not only those next to a limit.
THEOREM RangesAreEnough == MotionSpec => []GettersSeeClasses
BY MotionInvariant, GettersAgree, PTL DEF MotionInv, Numbers

\* database.c implements HookDatabase: every report, and every reset of a task, does to the
\* range of the position, to the standstill and to the error what HookDatabase says.
THEOREM MotionImplementsDatabase == MotionSpec => ReportsAreDatabaseRuns
<1>1. ClassOf(0) = "home" /\ ClassOf(INT16_MAX) = "unknown"
  BY RangeOf DEF INT16_MAX
<1>2. MotionInit => Database!DatabaseInit
  BY <1>1 DEF MotionInit, Database!DatabaseInit
<1>3. MotionInv /\ [MotionNext]_motionVars => [DatabaseSteps]_(Database!dbVars)
  <2> SUFFICES ASSUME MotionInv, [MotionNext]_motionVars
               PROVE  DatabaseSteps \/ UNCHANGED Database!dbVars
    OBVIOUS
  <2>1. ASSUME NEW position \in ReportedPositions, NEW error \in ReportedErrors,
               Report(position, error)
        PROVE  Database!DatabaseRun
    <3>1. ClassOf(hookPosition)' \in {ClassOf(p) : p \in ReportedPositions}
      BY <2>1, Zenon DEF Report
    <3>2. isVelocityZero' \in BOOLEAN
      BY <2>1, ReportKeeps, Zenon DEF MotionInv, Flags
    <3>3. errorNo' = Database!Latched(error) /\ reportedError' = error
      BY <2>1, Zenon DEF Report, SetError, Database!Latched
    <3> QED BY <3>1, <3>2, <3>3, Zenon DEF Database!DatabaseRun
  <2>2. CASE ResetPosition
    BY <1>1, <2>2, Zenon DEF ResetPosition, DatabaseSteps
  <2>3. CASE EackError
    <3>1. ClassOf(hookPosition)' = ClassOf(hookPosition)
      BY <2>3, Zenon DEF EackError
    <3> QED BY <2>3, <3>1, Zenon DEF EackError, DatabaseSteps
  <2>4. CASE Tick \/ UNCHANGED motionVars
    <3>1. UNCHANGED <<hookPosition, isVelocityZero, errorNo, reportedError>>
      BY <2>4, Zenon DEF Tick, motionVars
    <3>2. ClassOf(hookPosition)' = ClassOf(hookPosition)
      BY <3>1, Zenon
    <3> QED BY <3>1, <3>2, Zenon DEF Database!dbVars
  <2> QED BY <2>1, <2>2, <2>3, <2>4 DEF MotionNext, DatabaseSteps
<1> QED BY <1>2, <1>3, MotionInvariant, PTL DEF MotionSpec, ReportsAreDatabaseRuns
=============================================================================
