------------------------------ MODULE HookMotion ------------------------------
(***************************************************************************)
(* The numbers behind HookDatabase: what src/database.c makes of the       *)
(* 16-bit position of a report and of the difference to the one before.    *)
(***************************************************************************)
EXTENDS Integers

CONSTANTS
  ReportedPositions,   \* 16-bit values
  ReportedErrors,
  StandstillReports    \* 10 in the code

Word16 == 0 .. 65535
INT16_MAX == 32767

ASSUME MotionAssumption ==
  /\ ReportedPositions \subseteq Word16
  /\ StandstillReports \in Nat \ {0}

VARIABLES
  hookPosition, hookPreviousPosition, hookVelocityCounter, isVelocityZero, errorNo,
  reportedError,   \* history, as in HookDatabase
  elapsed,         \* 25 ms periods since the last fast report (history)
  reported,        \* a report has been taken in the present period (history)
  extra            \* reports since the last fast one that were not the first of
                   \* their period (history)

velocityVars == <<hookPreviousPosition, hookVelocityCounter>>
histories == <<elapsed, reported, extra>>
motionVars == <<hookPosition, velocityVars, isVelocityZero, errorNo, reportedError, histories>>

closedPosition == 1
midPosition == 13720
openPosition == 18293

\* hookPosition & 0x8000 and hookPosition & 0x7FFF
EndSwitch == hookPosition >= 32768
encoderValue == hookPosition % 32768

MotionInit ==
  /\ hookPosition = INT16_MAX
  /\ hookPreviousPosition = INT16_MAX
  /\ hookVelocityCounter = 0
  /\ isVelocityZero = FALSE
  /\ errorNo = "NONE"
  /\ reportedError = "NONE"
  /\ elapsed = 0
  /\ reported = FALSE
  /\ extra = 0

-----------------------------------------------------------------------------
\* Mutant: the position itself is left out of its range.
GetStateBelowMid ==
  CASE hookPosition < closedPosition \/ EndSwitch -> "CLOSED"
    [] hookPosition < midPosition -> "PARTIALLY_CLOSED"
    [] hookPosition = midPosition -> "MID"
    [] hookPosition > midPosition /\ hookPosition < openPosition -> "PARTIALLY_OPEN"
    [] hookPosition = openPosition -> "OPEN"
    [] hookPosition = INT16_MAX -> "UNINITIALIZED"
    [] OTHER -> "ERROR"

\* database_getState. The conditions of the code exclude each other.
GetState ==
  CASE hookPosition <= closedPosition \/ EndSwitch -> "CLOSED"
    [] hookPosition > closedPosition /\ hookPosition < midPosition -> "PARTIALLY_CLOSED"
    [] hookPosition = midPosition -> "MID"
    [] hookPosition > midPosition /\ hookPosition < openPosition -> "PARTIALLY_OPEN"
    [] hookPosition = openPosition -> "OPEN"
    [] hookPosition = INT16_MAX -> "UNINITIALIZED"
    [] OTHER -> "ERROR"

IsAtEndStroke == EndSwitch /\ isVelocityZero

IsPositionEncoderHome == hookPosition <= closedPosition \/ IsAtEndStroke

IsProtectionTriggered == IsAtEndStroke /\ encoderValue > 1000

\* calculateAbsVelocity, in 32 bits
AbsVelocity(position) ==
  LET velocity == hookPreviousPosition - position
  IN  IF velocity > 0 THEN velocity ELSE -velocity

\* Mutant: a fast report leaves the count as it is.
IsStoppedKept(velocity) ==
  LET count == IF velocity < 25 THEN hookVelocityCounter + 1 ELSE hookVelocityCounter
  IN  /\ hookVelocityCounter' = IF count > StandstillReports THEN StandstillReports ELSE count
      /\ isVelocityZero' = (count > StandstillReports)

\* isStopped
IsStopped(velocity) ==
  LET count == IF velocity < 25 THEN hookVelocityCounter + 1 ELSE 0
  IN  /\ hookVelocityCounter' = IF count > StandstillReports THEN StandstillReports ELSE count
      /\ isVelocityZero' = (count > StandstillReports)

\* database_setError
SetError(error) == errorNo' = IF errorNo = "NONE" THEN error ELSE errorNo

\* The histories of a report. They do not count beyond what StandstillLasts asks for.
CountedUp(count) == IF count < StandstillReports THEN count + 1 ELSE count

Recorded(velocity) ==
  /\ reported' = TRUE
  /\ elapsed' = IF velocity < 25 THEN elapsed ELSE 0
  /\ extra' = CASE velocity >= 25 -> 0
                [] velocity < 25 /\ reported -> CountedUp(extra)
                [] OTHER -> extra

\* Mutant: a report overwrites the error.
ReportLastError(position, error) ==
  /\ hookPosition' = position
  /\ hookPreviousPosition' = position
  /\ IsStopped(AbsVelocity(position))
  /\ errorNo' = error
  /\ reportedError' = error
  /\ Recorded(AbsVelocity(position))

\* database_run: a report with a valid checksum.
Report(position, error) ==
  /\ hookPosition' = position
  /\ hookPreviousPosition' = position
  /\ IsStopped(AbsVelocity(position))
  /\ SetError(error)
  /\ reportedError' = error
  /\ Recorded(AbsVelocity(position))

\* database_resetPosition; the previous position stays.
ResetPosition ==
  /\ hookPosition' = 0
  /\ UNCHANGED <<velocityVars, isVelocityZero, errorNo, reportedError, histories>>

\* database_eackError
EackError ==
  /\ errorNo' = "NONE"
  /\ UNCHANGED <<hookPosition, velocityVars, isVelocityZero, reportedError, histories>>

\* 25 ms pass: system_thread has run database_run once.
Tick ==
  /\ elapsed' = CountedUp(elapsed)
  /\ reported' = FALSE
  /\ UNCHANGED <<hookPosition, velocityVars, isVelocityZero, errorNo, reportedError, extra>>

MotionNext ==
  \/ \E position \in ReportedPositions, error \in ReportedErrors : Report(position, error)
  \/ ResetPosition
  \/ EackError
  \/ Tick

MotionSpec == MotionInit /\ [][MotionNext]_motionVars

-----------------------------------------------------------------------------
(* Properties *)

MotionTypeOK ==
  /\ hookPosition \in Word16 /\ hookPreviousPosition \in Word16
  /\ hookVelocityCounter \in 0 .. StandstillReports
  /\ isVelocityZero \in BOOLEAN
  /\ errorNo \in ReportedErrors \cup {"NONE"} /\ reportedError \in ReportedErrors \cup {"NONE"}
  /\ {elapsed, extra} \subseteq 0 .. StandstillReports
  /\ reported \in BOOLEAN

\* The ranges of HookDatabase.
ClassOf(position) ==
  CASE position <= 1                         -> "home"
    [] position > 1 /\ position < 13720      -> "lower"
    [] position = 13720                      -> "mid"
    [] position > 13720 /\ position < 18293  -> "upper"
    [] position = 18293                      -> "open"
    [] position > 18293 /\ position < 32767  -> "beyond"
    [] position = 32767                      -> "unknown"
    [] position > 32767 /\ position <= 33768 -> "endStroke"
    [] position > 33768                      -> "overrun"

Database == INSTANCE HookDatabase WITH
  hookPosition <- ClassOf(hookPosition),
  Positions <- {ClassOf(position) : position \in ReportedPositions}

\* The getters of database.c see no more of a position than its range: what they
\* return is what HookDatabase says of the range.
GettersSeeClasses ==
  /\ GetState = Database!GetState
  /\ IsAtEndStroke = Database!IsAtEndStroke
  /\ IsPositionEncoderHome = Database!IsPositionEncoderHome
  /\ IsProtectionTriggered = Database!IsProtectionTriggered

\* database_run and the two resets do to the ranges what HookDatabase and
\* HookCommands have them do.
DatabaseSteps ==
  \/ Database!DatabaseRun
  \/ /\ ClassOf(hookPosition)' = "home"
     /\ UNCHANGED <<isVelocityZero, errorNo, reportedError>>
  \/ /\ errorNo' = "NONE"
     /\ UNCHANGED <<ClassOf(hookPosition), isVelocityZero, reportedError>>

ReportsAreDatabaseRuns ==
  Database!DatabaseInit /\ [][DatabaseSteps]_(Database!dbVars)

\* isStopped counts reports: a standstill has lasted for at least as many periods as
\* there are reports to count, less one for each report that database_run has taken
\* in a period in which it had taken one already.
StandstillLasts == isVelocityZero => elapsed + extra >= StandstillReports
=============================================================================
