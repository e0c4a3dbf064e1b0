----------------------------- MODULE HookRemote -----------------------------
(***************************************************************************)
(* The remote's state machine and its buttons (src/remote.c).              *)
(*                                                                         *)
(* The buttons callback runs in the system work queue, which preempts the  *)
(* main thread at any instruction. buttonsExecute is the word they share:  *)
(* the callback sets bits in it, the state machine reads it and stores     *)
(* zero in it. RemoteRun ends at the read, ClearButtons is the store.      *)
(*                                                                         *)
(* How long a button was held (the counters of updateButtons) is left to   *)
(* the environment: a release either passes the filter or has no effect.   *)
(***************************************************************************)
EXTENDS HookCommands

AllButtons == {"ESTOP", "PARAMETER", "CLOSE", "MID", "OPEN"}

CONSTANT Buttons  \* the push buttons in use, besides the E-stop

ASSUME ButtonAssumption == Buttons \subseteq AllButtons \ {"ESTOP"}

\* The last line of the display: "?", ">Press any to reset", ">Seek end of
\* stroke", nothing, ">Press any to clear" and ">E-STOP Activated".
Messages == {"error", "home", "homeAction", "none", "eack", "estop"}

VARIABLES
  buttonsExecute,
  stateMessage

buttonVars == <<buttonsExecute, stateMessage>>

RemoteTypeOK ==
  /\ buttonsExecute \subseteq AllButtons
  /\ stateMessage \in Messages

RemoteInit ==
  /\ buttonsExecute = {}
  /\ stateMessage = "error"

-----------------------------------------------------------------------------
\* remote_updateButtons, on any change of the buttons: while the E-stop is
\* held it sets the E-stop bit and looks at no other button. Otherwise it
\* clears that bit and sets those of the buttons released after a long press.
UpdateButtons ==
  /\ \/ buttonsExecute' = buttonsExecute \union {"ESTOP"}
     \/ \E released \in SUBSET Buttons :
          buttonsExecute' = (buttonsExecute \ {"ESTOP"}) \union released
  /\ UNCHANGED stateMessage

-----------------------------------------------------------------------------
EstopLatched == "ESTOP" \in buttonsExecute

ProtectionSeen == hookState # "UNINITIALIZED" /\ IsProtectionTriggered

\* The state in which the machine's switch runs.
MachineState ==
  CASE EstopLatched \/ ProtectionSeen -> "ERROR"
    [] hookState = "UNINITIALIZED"    -> "UNINITIALIZED"
    [] errorNo # "NONE"               -> "ERROR"
    [] OTHER                          -> GetState

MachineError ==
  CASE ProtectionSeen -> Latched("PROTECTION_ACTIVATED")
    [] EstopLatched   -> Latched("ESTOP")
    [] OTHER          -> errorNo

\* The command that the pressed buttons ask for in that state, or "NONE".
Asked(button, operation) == IF button \in buttonsExecute THEN operation ELSE "NONE"

Either(first, second) == IF first # "NONE" THEN first ELSE second

CommandAsked ==
  CASE MachineState = "UNINITIALIZED" ->
         IF buttonsExecute \intersect {"CLOSE", "MID", "OPEN"} # {} THEN "HOMING" ELSE "NONE"
    [] MachineState = "CLOSED" -> Either(Asked("MID", "HOOK_MID_OPEN"), Asked("OPEN", "HOOK_OPEN"))
    [] MachineState = "MID"    -> Either(Asked("CLOSE", "HOOK_CLOSE"), Asked("OPEN", "HOOK_OPEN"))
    [] MachineState = "OPEN"   -> Either(Asked("MID", "HOOK_MID_CLOSE"), Asked("CLOSE", "HOOK_CLOSE"))
    [] MachineState = "ERROR"  -> IF ~EstopLatched /\ buttonsExecute # {} THEN "EACK" ELSE "NONE"
    [] OTHER -> "NONE"

\* What the display asks for. A partial position leaves the message alone.
MessageShown ==
  CASE MachineState = "UNINITIALIZED" -> IF IsInExecution THEN "homeAction" ELSE "home"
    [] MachineState \in {"CLOSED", "MID", "OPEN"} -> "none"
    [] MachineState = "ERROR" ->
         IF EstopLatched THEN "estop"
         ELSE IF IsInExecution THEN "none" ELSE "eack"
    [] OTHER -> stateMessage

\* Mutant: a button adds a command also while another one is in execution.
RemoteRunAlways ==
  /\ hookState' = MachineState
  /\ errorNo' = MachineError
  /\ queue' = IF CommandAsked # "NONE" THEN Buffered(CommandAsked) ELSE queue
  /\ stateMessage' = MessageShown
  /\ SendNothing
  /\ UNCHANGED <<hookPosition, isVelocityZero, reportedError, cmd, timeout>>
  /\ UNCHANGED buttonsExecute

\* stateMachine, up to its store in buttonsExecute.
RemoteRun ==
  /\ hookState' = MachineState
  /\ errorNo' = MachineError
  /\ queue' = IF CommandAsked # "NONE" /\ ~IsInExecution THEN Buffered(CommandAsked) ELSE queue
  /\ stateMessage' = MessageShown
  /\ SendNothing
  /\ UNCHANGED <<hookPosition, isVelocityZero, reportedError, cmd, timeout>>
  /\ UNCHANGED buttonsExecute

\* Whether this pass ends with the store: in a partial position it does not,
\* nor while the E-stop's bit is set.
ClearsButtons ==
  /\ MachineState \notin {"PARTIALLY_CLOSED", "PARTIALLY_OPEN"}
  /\ ~EstopLatched

ClearButtons ==
  /\ buttonsExecute' = {}
  /\ UNCHANGED stateMessage
=============================================================================
