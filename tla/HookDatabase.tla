---------------------------- MODULE HookDatabase ----------------------------
(***************************************************************************)
(* What the remote knows of the hook (src/database.c): its last reported   *)
(* position, whether it stands still, and the latched error.               *)
(*                                                                         *)
(* The 16-bit position is abstracted to the ranges the code tells apart.   *)
(* Bit 15 is the end-of-stroke switch and the other bits are the encoder:  *)
(*   "unknown"    0x7FFF (INT16_MAX), nothing reported yet                 *)
(*   "home"       0 .. closedPosition                                      *)
(*   "endStroke"  bit 15 set, encoder at most 1000                         *)
(*   "overrun"    bit 15 set, encoder beyond 1000                          *)
(*   "lower"      between closedPosition and midPosition                   *)
(*   "mid"        midPosition                                              *)
(*   "upper"      between midPosition and openPosition                     *)
(*   "open"       openPosition                                             *)
(*   "beyond"     above openPosition                                       *)
(***************************************************************************)
EXTENDS Naturals, Sequences

AllPositions == {"unknown", "home", "endStroke", "overrun", "lower", "mid",
                 "upper", "open", "beyond"}

\* FAILED_TO_START_MOTOR stands for the codes that only the hook raises and
\* that the remote never tests for.
Errors == {"NONE", "FAILED_TO_START_MOTOR", "OVERLOAD", "COMMAND_TIMEOUT",
           "ESTOP", "PROTECTION_ACTIVATED", "MOTOR_JAMMED"}

HookStates == {"UNINITIALIZED", "CLOSED", "PARTIALLY_CLOSED", "MID",
               "PARTIALLY_OPEN", "OPEN", "ERROR"}

CONSTANTS
  Positions,      \* the positions the hook may report
  ReportedErrors  \* the error codes its reports may carry, NONE included

ASSUME ReportAssumption ==
  /\ Positions \subseteq AllPositions
  /\ ReportedErrors \subseteq Errors

VARIABLES
  hookPosition,
  isVelocityZero,
  errorNo,         \* first error since the last acknowledge
  reportedError    \* error byte of the newest report (history of the input)

dbVars == <<hookPosition, isVelocityZero, errorNo, reportedError>>

DatabaseTypeOK ==
  /\ hookPosition \in AllPositions
  /\ isVelocityZero \in BOOLEAN
  /\ errorNo \in Errors
  /\ reportedError \in Errors

DatabaseInit ==
  /\ hookPosition = "unknown"
  /\ isVelocityZero = FALSE
  /\ errorNo = "NONE"
  /\ reportedError = "NONE"

-----------------------------------------------------------------------------
\* database_getState
GetState ==
  CASE hookPosition \in {"home", "endStroke", "overrun"} -> "CLOSED"
    [] hookPosition = "lower"   -> "PARTIALLY_CLOSED"
    [] hookPosition = "mid"     -> "MID"
    [] hookPosition = "upper"   -> "PARTIALLY_OPEN"
    [] hookPosition = "open"    -> "OPEN"
    [] hookPosition = "unknown" -> "UNINITIALIZED"
    [] OTHER                    -> "ERROR"

IsAtEndStroke == hookPosition \in {"endStroke", "overrun"} /\ isVelocityZero

IsPositionEncoderHome == hookPosition = "home" \/ IsAtEndStroke

IsProtectionTriggered == IsAtEndStroke /\ hookPosition = "overrun"

\* database_setError: the value errorNo takes. The first error stays.
Latched(error) == IF errorNo = "NONE" THEN error ELSE errorNo

\* database_run: the frames with a valid checksum that a tick finds, if any. Of
\* several frames the first error stays, with the last one's position and speed.
DatabaseRun ==
  \/ UNCHANGED dbVars
  \/ \E first, last \in ReportedErrors :
       /\ last # "NONE" => first # "NONE"
       /\ hookPosition' \in Positions
       /\ isVelocityZero' \in BOOLEAN
       /\ errorNo' = Latched(first)
       /\ reportedError' = last
=============================================================================
