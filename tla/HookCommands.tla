---------------------------- MODULE HookCommands ----------------------------
(***************************************************************************)
(* The command buffer, the command in execution and the task of each       *)
(* command (src/commands.c, src/commands_tasks.c). One pass of command_run *)
(* is three steps, StartCommand, RunTask and ProcessResult, taken in this  *)
(* order by the main thread; in between only callbacks run.                *)
(***************************************************************************)
EXTENDS HookDatabase

CONSTANTS
  MAX_NUMBER_OF_COMMANDS,  \* capacity of cmdBuffer, 8 in the code
  TIMEOUT_COMMAND,         \* ticks a command may take, 1000 in the code
  HomingRecovery,          \* ticks after an overload while homing, 20
  EackRemote, EackHook,    \* ticks before EACK looks at the error, 40 and 80
  StopRetry,               \* ticks before a stop request is repeated, 10
  MoveSetup,               \* ticks between the parameters and the move, 20
  CloseSettle,             \* ticks the hook must stay closed, 30
  JamCheck                 \* ticks between two looks for a jammed motor, 100

ASSUME CommandAssumption ==
  /\ MAX_NUMBER_OF_COMMANDS \in Nat \ {0}
  /\ TIMEOUT_COMMAND \in Nat
  /\ HomingRecovery \in Nat
  /\ EackRemote \in Nat
  /\ EackHook \in Nat
  /\ StopRetry \in Nat
  /\ MoveSetup \in Nat
  /\ CloseSettle \in Nat
  /\ JamCheck \in Nat

HookMoves == {"HOOK_CLOSE", "HOOK_MID_CLOSE", "HOOK_MID_OPEN", "HOOK_OPEN"}
Motions == HookMoves \union {"HOMING"}
Operations == Motions \union {"EACK", "STOP"}

TaskStates == {"START", "SETUP", "ACTION", "TEARDOWN", "END", "FINISH"}

\* The requests of src/spin3204_control.c that a task makes.
Requests == {"EACK", "STOP", "POSITION_HOME", "POSITION_UNINITIALIZED",
             "IGNORE_SENSOR_OFF", "CURRENT_LIMIT", "LIMITER_ON", "LIMITER_OFF",
             "MOVE_HOMING", "MOVE_CLOSED", "MOVE_MID", "MOVE_OPEN"}

VARIABLES
  queue,      \* cmdBuffer between cmdIdxUse and cmdIdxStore
  cmd,        \* what cmd points to, with its CommandObject_t
  timeout,    \* the file static of commands_tasks.c, shared by all tasks
  hookState,  \* remote.c's state, which requestStop and the tasks update
  sent,       \* the request this step handed to sendBLE, or "NOTHING"
  zeroed,     \* the encoder zero was set since it was last invalidated
  limiter     \* the current limiter that the requests so far selected

cmdVars == <<queue, cmd, timeout, hookState, sent, zeroed, limiter>>

\* cmd = NULL. The command object is reinitialised before it is read again.
NoCommand == [operation |-> "NONE", state |-> "FINISH", timer |-> 0]

CommandsTypeOK ==
  /\ queue \in Seq(Operations)
  /\ cmd \in [operation : Operations \union {"NONE"}, state : TaskStates, timer : Nat]
  /\ timeout \in Nat
  /\ hookState \in HookStates
  /\ sent \in Requests \union {"NOTHING"}
  /\ zeroed \in BOOLEAN
  /\ limiter \in {"UNSET", "HARDWARE", "SOFTWARE"}

CommandsInit ==
  /\ queue = <<>>
  /\ cmd = NoCommand
  /\ timeout = 0
  /\ hookState = "UNINITIALIZED"
  /\ sent = "NOTHING"
  /\ zeroed = FALSE
  /\ limiter = "UNSET"

-----------------------------------------------------------------------------
IsInExecution == cmd.operation # "NONE"

\* command_addToBuffer: a full buffer drops the command.
Buffered(operation) ==
  IF Len(queue) < MAX_NUMBER_OF_COMMANDS THEN Append(queue, operation) ELSE queue

\* command_flush lets go of the command first and of the buffer then.
FlushCommand == cmd' = NoCommand /\ UNCHANGED queue

\* Mutant: the count of the buffer is not reset.
FlushQueueForgotten == UNCHANGED <<queue, cmd>>

FlushQueue == queue' = <<>> /\ UNCHANGED cmd

\* command_run, first half: the next command, if none is in execution.
StartCommand ==
  IF IsInExecution \/ queue = <<>>
    THEN UNCHANGED <<cmd, queue>>
    ELSE /\ cmd' = [operation |-> Head(queue), state |-> "START", timer |-> 0]
         /\ queue' = Tail(queue)

-----------------------------------------------------------------------------
(* The tasks. process() has incremented the timer when it calls one.       *)

\* Mutant: process does not count.
nowStopped == cmd.timer

now == cmd.timer + 1

In(operations, state) == cmd.operation \in operations /\ cmd.state = state

Goto(state) == cmd' = [operation |-> cmd.operation, state |-> state, timer |-> now]

Stay == Goto(cmd.state)

\* Mutant: mc_setHardwareCurrentLimiter ignores its argument.
SendLimiterOn(request) ==
  /\ sent' = request
  /\ zeroed' = CASE request = "POSITION_HOME"          -> TRUE
                 [] request = "POSITION_UNINITIALIZED" -> FALSE
                 [] OTHER                              -> zeroed
  /\ limiter' = IF request \in {"LIMITER_ON", "LIMITER_OFF"} THEN "HARDWARE" ELSE limiter

\* One request to the hook, and what it changes there. spin3204_control.c
Send(request) ==
  /\ sent' = request
  /\ zeroed' = CASE request = "POSITION_HOME"          -> TRUE
                 [] request = "POSITION_UNINITIALIZED" -> FALSE
                 [] OTHER                              -> zeroed
  /\ limiter' = CASE request = "LIMITER_ON"  -> "HARDWARE"
                  [] request = "LIMITER_OFF" -> "SOFTWARE"
                  [] OTHER                   -> limiter

SendNothing == sent' = "NOTHING" /\ UNCHANGED <<zeroed, limiter>>

HomingTask ==
  \/ /\ In({"HOMING"}, "START")
     /\ IF IsAtEndStroke
          THEN Send("EACK") /\ Goto("TEARDOWN")
          ELSE Send("POSITION_UNINITIALIZED") /\ Goto("SETUP")
     /\ UNCHANGED <<hookPosition, errorNo, timeout, hookState>>
  \/ /\ In({"HOMING"}, "SETUP")
     /\ Send("MOVE_HOMING") /\ Goto("ACTION")
     /\ UNCHANGED <<hookPosition, errorNo, timeout, hookState>>
  \/ /\ In({"HOMING"}, "ACTION")
     /\ \/ /\ IsAtEndStroke /\ IsPositionEncoderHome
           /\ Send("POSITION_HOME") /\ Goto("END")
           /\ UNCHANGED <<errorNo, timeout>>
        \/ /\ ~(IsAtEndStroke /\ IsPositionEncoderHome)
           /\ errorNo = "OVERLOAD"
           /\ Send("EACK") /\ Goto("TEARDOWN")
           /\ errorNo' = "NONE"
           /\ timeout' = now + HomingRecovery
        \/ /\ ~(IsAtEndStroke /\ IsPositionEncoderHome)
           /\ errorNo # "OVERLOAD"
           /\ SendNothing /\ Stay
           /\ UNCHANGED <<errorNo, timeout>>
     /\ UNCHANGED <<hookPosition, hookState>>
  \/ /\ In({"HOMING"}, "TEARDOWN")
     /\ \/ timeout >= now /\ SendNothing /\ Stay
        \/ timeout < now /\ errorNo = "NONE" /\ Send("POSITION_HOME") /\ Goto("END")
        \/ timeout < now /\ errorNo # "NONE" /\ SendNothing /\ Goto("ACTION")
     /\ UNCHANGED <<hookPosition, errorNo, timeout, hookState>>
  \/ /\ In({"HOMING"}, "END")
     /\ hookState' = "CLOSED"
     /\ hookPosition' = "home"
     /\ Send("IGNORE_SENSOR_OFF") /\ Goto("FINISH")
     /\ UNCHANGED <<errorNo, timeout>>

EackTask ==
  \/ /\ In({"EACK"}, "START")
     /\ errorNo' = "NONE"
     /\ SendNothing /\ Goto("SETUP")
     /\ UNCHANGED hookState
  \/ /\ In({"EACK"}, "SETUP")
     /\ \/ now <= EackRemote /\ SendNothing /\ Stay /\ UNCHANGED errorNo
        \/ now > EackRemote /\ errorNo = "NONE" /\ SendNothing /\ Goto("END") /\ UNCHANGED errorNo
        \/ now > EackRemote /\ errorNo # "NONE" /\ Send("EACK") /\ Goto("ACTION") /\ errorNo' = "NONE"
     /\ UNCHANGED hookState
  \/ /\ In({"EACK"}, "ACTION")
     /\ SendNothing
     /\ \/ now <= EackHook /\ Stay /\ UNCHANGED errorNo
        \/ now > EackHook /\ errorNo = "NONE" /\ Goto("END") /\ UNCHANGED errorNo
        \/ now > EackHook /\ errorNo # "NONE" /\ Stay /\ errorNo' = "NONE"
     /\ UNCHANGED hookState
  \/ /\ In({"EACK"}, "END")
     /\ hookState' = "UNINITIALIZED"
     /\ SendNothing /\ Goto("FINISH")
     /\ UNCHANGED errorNo

\* Mutant: a stop looks first whether the hook stands already.
StopTaskLooksFirst ==
  \/ /\ In({"STOP"}, "START")
     /\ SendNothing /\ Goto("TEARDOWN") /\ UNCHANGED timeout
  \/ /\ In({"STOP"}, "ACTION")
     /\ Send("STOP") /\ Goto("TEARDOWN")
     /\ timeout' = now + StopRetry
  \/ /\ In({"STOP"}, "TEARDOWN")
     /\ SendNothing
     /\ Goto(IF isVelocityZero THEN "FINISH"
             ELSE IF timeout < now THEN "ACTION" ELSE "TEARDOWN")
     /\ UNCHANGED timeout

StopTask ==
  \/ /\ In({"STOP"}, "START")
     /\ SendNothing /\ Goto("ACTION") /\ UNCHANGED timeout
  \/ /\ In({"STOP"}, "ACTION")
     /\ Send("STOP") /\ Goto("TEARDOWN")
     /\ timeout' = now + StopRetry
  \/ /\ In({"STOP"}, "TEARDOWN")
     /\ SendNothing
     /\ Goto(IF isVelocityZero THEN "FINISH"
             ELSE IF timeout < now THEN "ACTION" ELSE "TEARDOWN")
     /\ UNCHANGED timeout

CloseTask ==
  \/ /\ In({"HOOK_CLOSE"}, "START")
     /\ Send("LIMITER_ON") /\ Goto("SETUP")
     /\ UNCHANGED <<hookPosition, timeout>>
  \/ /\ In({"HOOK_CLOSE"}, "SETUP")
     /\ SendNothing
     /\ Goto(IF now > MoveSetup THEN "ACTION" ELSE "SETUP")
     /\ UNCHANGED <<hookPosition, timeout>>
  \/ /\ In({"HOOK_CLOSE"}, "ACTION")
     /\ Send("MOVE_CLOSED") /\ Goto("TEARDOWN")
     /\ UNCHANGED <<hookPosition, timeout>>
  \/ /\ In({"HOOK_CLOSE"}, "TEARDOWN")
     /\ IF GetState = "CLOSED"
          THEN /\ Send("POSITION_HOME") /\ Goto("END")
               /\ hookPosition' = "home"
               /\ timeout' = now + CloseSettle
          ELSE SendNothing /\ Stay /\ UNCHANGED <<hookPosition, timeout>>
  \/ /\ In({"HOOK_CLOSE"}, "END")
     /\ SendNothing
     /\ Goto(IF GetState = "CLOSED" /\ timeout < now THEN "FINISH" ELSE "END")
     /\ UNCHANGED <<hookPosition, timeout>>

\* executeCmdMid and executeCmdOpen differ in their target and its speed.
OpenTask(operations, move, target) ==
  \/ /\ In(operations, "START")
     /\ Send("CURRENT_LIMIT") /\ Goto("SETUP")
     /\ UNCHANGED <<errorNo, timeout>>
  \/ /\ In(operations, "SETUP")
     /\ Send("LIMITER_OFF") /\ Goto("ACTION")
     /\ UNCHANGED <<errorNo, timeout>>
  \/ /\ In(operations, "ACTION")
     /\ IF now > MoveSetup
          THEN Send(move) /\ Goto("END") /\ timeout' = now + JamCheck
          ELSE SendNothing /\ Stay /\ UNCHANGED timeout
     /\ UNCHANGED errorNo
  \/ /\ In(operations, "END")
     /\ SendNothing
     /\ \/ GetState = target /\ Goto("FINISH") /\ UNCHANGED <<errorNo, timeout>>
        \/ /\ GetState # target /\ timeout >= now
           /\ Stay /\ UNCHANGED <<errorNo, timeout>>
        \/ /\ GetState # target /\ timeout < now
           /\ Stay
           /\ timeout' = now + JamCheck
           /\ errorNo' = IF isVelocityZero THEN Latched("MOTOR_JAMMED") ELSE errorNo

RunTask ==
  /\ \/ HomingTask
     \/ EackTask /\ UNCHANGED <<hookPosition, timeout>>
     \/ StopTask /\ UNCHANGED <<hookPosition, errorNo, hookState>>
     \/ CloseTask /\ UNCHANGED <<errorNo, hookState>>
     \/ /\ \/ OpenTask({"HOOK_MID_CLOSE", "HOOK_MID_OPEN"}, "MOVE_MID", "MID")
           \/ OpenTask({"HOOK_OPEN"}, "MOVE_OPEN", "OPEN")
        /\ UNCHANGED <<hookPosition, hookState>>
  /\ UNCHANGED <<isVelocityZero, reportedError, queue>>

-----------------------------------------------------------------------------
\* process, after the task: timeout, error and termination of the command.
TimedOut == cmd.timer > TIMEOUT_COMMAND

\* Mutants: an E-stop leaves a homing alone; a stop is ended by the error too.
StopRequestedButHoming ==
  \/ TimedOut
  \/ errorNo # "NONE" /\ cmd.operation \notin {"STOP", "EACK", "HOMING"}

StopRequestedAlways ==
  \/ TimedOut
  \/ errorNo = "ESTOP" /\ cmd.operation = "HOMING"
  \/ errorNo # "NONE" /\ cmd.operation \notin {"EACK", "HOMING"}

StopRequested ==
  \/ TimedOut
  \/ errorNo = "ESTOP" /\ cmd.operation = "HOMING"
  \/ errorNo # "NONE" /\ cmd.operation \notin {"STOP", "EACK", "HOMING"}

RequestStop ==
  /\ hookState' = "ERROR"
  /\ queue' = Buffered("STOP")

ProcessResult ==
  /\ errorNo' = IF TimedOut THEN Latched("COMMAND_TIMEOUT") ELSE errorNo
  /\ IF StopRequested THEN RequestStop ELSE UNCHANGED <<hookState, queue>>
  /\ cmd' = IF StopRequested \/ cmd.state = "FINISH" THEN NoCommand ELSE cmd
  /\ UNCHANGED <<hookPosition, isVelocityZero, reportedError, timeout>>
  /\ SendNothing
=============================================================================
