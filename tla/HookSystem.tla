----------------------------- MODULE HookSystem -----------------------------
(***************************************************************************)
(* The threads of the remote around its state machine and its commands     *)
(* (src/system.c, and the loops of main and update_user_interface in       *)
(* src/main.c).                                                            *)
(*                                                                         *)
(* The main thread has a higher priority than the UI thread and blocks     *)
(* only in its k_sleep, so the UI thread runs while the main thread sleeps *)
(* and may be preempted between any two of its statements. The buttons     *)
(* callback preempts both.                                                 *)
(***************************************************************************)
EXTENDS HookRemote

CONSTANT enableTimer  \* UI passes before the remote may act, 6 in the code

ASSUME EnableAssumption == enableTimer \in Nat \ {0}

VARIABLES
  connection,  \* UI passes that found the link up, saturated
  pc,          \* where the main thread is in system_thread
  uiPc         \* where the UI thread is in system_updateUi

systemVars == <<connection, pc, uiPc>>

vars == <<dbVars, cmdVars, buttonVars, systemVars>>

TypeOK ==
  /\ DatabaseTypeOK
  /\ CommandsTypeOK
  /\ RemoteTypeOK
  /\ connection \in 0 .. enableTimer + 1
  /\ pc \in {"sleep", "remote", "clear", "start", "task", "process"}
  /\ uiPc \in {"sleep", "connected", "disconnected", "uninitialize", "flush", "flushQueue"}

Init ==
  /\ DatabaseInit
  /\ CommandsInit
  /\ RemoteInit
  /\ connection = 0
  /\ pc = "sleep"
  /\ uiPc = "sleep"

-----------------------------------------------------------------------------
(* The main thread: one tick of system_thread.                             *)

Tick ==
  /\ pc = "sleep"
  /\ DatabaseRun
  /\ pc' = IF connection >= enableTimer THEN "remote" ELSE "sleep"
  /\ SendNothing
  /\ UNCHANGED <<queue, cmd, timeout, hookState, buttonVars, connection, uiPc>>

RunRemote ==
  /\ pc = "remote"
  /\ RemoteRun
  /\ pc' = IF ClearsButtons THEN "clear" ELSE "start"
  /\ UNCHANGED <<connection, uiPc>>

StoreButtons ==
  /\ pc = "clear"
  /\ ClearButtons
  /\ pc' = "start"
  /\ UNCHANGED <<dbVars, cmdVars, connection, uiPc>>

CommandStart ==
  /\ pc = "start"
  /\ StartCommand
  /\ pc' = IF cmd'.operation = "NONE" THEN "sleep" ELSE "task"
  /\ SendNothing
  /\ UNCHANGED <<dbVars, timeout, hookState, buttonVars, connection, uiPc>>

CommandTask ==
  /\ pc = "task"
  /\ RunTask
  /\ pc' = "process"
  /\ UNCHANGED <<buttonVars, connection, uiPc>>

CommandProcess ==
  /\ pc = "process"
  /\ ProcessResult
  /\ pc' = "sleep"
  /\ UNCHANGED <<buttonVars, connection, uiPc>>

Main == Tick \/ RunRemote \/ StoreButtons \/ CommandStart \/ CommandTask \/ CommandProcess

-----------------------------------------------------------------------------
(* The UI thread: one pass of update_user_interface. What it shows on the  *)
(* display is not part of this module.                                     *)

\* Whether there is a connection is read once, before the pass. The link
\* comes and goes by itself, so the read finds it up or down.
UiSample ==
  /\ uiPc = "sleep"
  /\ uiPc' \in {"connected", "disconnected"}
  /\ UNCHANGED <<connection, hookState, cmd, queue, zeroed>>

UiConnected ==
  /\ uiPc = "connected"
  /\ connection' = IF connection > enableTimer THEN connection ELSE connection + 1
  /\ uiPc' = "sleep"
  /\ UNCHANGED <<hookState, cmd, queue, zeroed>>

\* Mutant: the main thread keeps its permission during the cleanup.
UiDisconnectedEnabled ==
  /\ uiPc = "disconnected"
  /\ uiPc' = "uninitialize"
  /\ UNCHANGED <<connection, hookState, cmd, queue, zeroed>>

UiDisconnected ==
  /\ uiPc = "disconnected"
  /\ connection' = 0
  /\ uiPc' = "uninitialize"
  /\ UNCHANGED <<hookState, cmd, queue, zeroed>>

\* Mutant: the hook is still taken for homed.
UiUninitializeForgotten ==
  /\ uiPc = "uninitialize"
  /\ zeroed' = FALSE
  /\ uiPc' = "flush"
  /\ UNCHANGED <<connection, hookState, cmd, queue>>

\* A hook that was out of reach may have been restarted: its zero is void.
UiUninitialize ==
  /\ uiPc = "uninitialize"
  /\ hookState' = "UNINITIALIZED"
  /\ zeroed' = FALSE
  /\ uiPc' = "flush"
  /\ UNCHANGED <<connection, cmd, queue>>

\* command_flush, in its two steps.
UiFlush ==
  /\ uiPc = "flush"
  /\ FlushCommand
  /\ uiPc' = "flushQueue"
  /\ UNCHANGED <<connection, hookState, zeroed>>

UiFlushQueue ==
  /\ uiPc = "flushQueue"
  /\ FlushQueue
  /\ uiPc' = "sleep"
  /\ UNCHANGED <<connection, hookState, zeroed>>

Ui ==
  /\ pc = "sleep"
  /\ UiSample \/ UiConnected \/ UiDisconnected \/ UiUninitialize \/ UiFlush \/ UiFlushQueue
  /\ UNCHANGED <<dbVars, timeout, sent, limiter, buttonVars, pc>>

-----------------------------------------------------------------------------
ButtonsCallback ==
  /\ UpdateButtons
  /\ UNCHANGED <<dbVars, cmdVars, systemVars>>

Next == Main \/ Ui \/ ButtonsCallback

Spec == Init /\ [][Next]_vars

\* The scheduler: the main thread wakes up from every k_sleep and finishes its
\* tick, and the UI thread gets on, since the main thread sleeps again and
\* again. Nobody has to press a button.
FairSpec == Spec /\ WF_vars(Main) /\ SF_vars(Ui)

-----------------------------------------------------------------------------
(* Properties *)

MoveRequests == {"MOVE_CLOSED", "MOVE_MID", "MOVE_OPEN"}

Queued(operation) == \E i \in DOMAIN queue : queue[i] = operation

\* remote_disconnectedUi has been called and has not flushed the commands yet.
Flushing == uiPc \in {"uninitialize", "flush", "flushQueue"}

\* As long as the count of system_updateUi keeps the main thread out of
\* remote_run and command_run, nothing is left for them to resume: no command,
\* none in the buffer, and a hook that has to be homed again. Only the pass of
\* the UI thread that lost the connection may be cleaning up still.
DisabledMeansIdle ==
  connection < enableTimer /\ ~Flushing =>
    cmd = NoCommand /\ queue = <<>> /\ hookState = "UNINITIALIZED"

\* A move is put in the command buffer only while the zero of the encoder that
\* its target refers to stands: set by mc_setPositionHome and since then neither
\* invalidated for a homing nor lost with the connection. The remote decides by
\* hookState, which two threads and two tasks write.
MoveAskedHomed ==
  [][Len(queue') > Len(queue) /\ queue'[Len(queue')] \in HookMoves => zeroed]_vars

\* When a tick ends, process has ended what the latched error does not allow: a
\* move at any error, and the homing too at an E-stop. It stays so while the UI
\* thread runs, until the next tick.
ErrorStopsMotion ==
  pc = "sleep" /\ connection >= enableTimer =>
    /\ errorNo # "NONE" => cmd.operation \notin HookMoves
    /\ errorNo = "ESTOP" => cmd.operation \notin Motions

\* The hook closes on its hardware current limiter and opens without it: when
\* the move is requested, the setup that the task requested ticks earlier is the
\* last one made.
LimiterMatchesMove ==
  /\ sent = "MOVE_CLOSED" => limiter = "HARDWARE"
  /\ sent \in {"MOVE_MID", "MOVE_OPEN"} => limiter = "SOFTWARE"

\* command_addToBuffer drops what finds the buffer full (commands.c:35), but
\* never the stop of requestStop: a command in execution has left its place in
\* the buffer, and nothing is added while it is in execution.
StopNotDropped == [][CommandProcess /\ StopRequested => Queued("STOP")']_vars

\* A stop that waits in the buffer or has been started goes on waiting until it is
\* sent: no other command, no error, no timeout and no full buffer takes its place.
\* Only the pass of the UI thread that lost the connection flushes it.
StopWaits == Queued("STOP") \/ In({"STOP"}, "START") \/ In({"STOP"}, "ACTION")

StopIsKept == [][StopWaits => StopWaits' \/ sent' = "STOP" \/ Flushing]_vars

\* timeout is one variable for all tasks (commands_tasks.c:10), and a command may
\* find what another one has left in it. A task that waits for it to pass waits for
\* a time of its own. Not so a homing that has found the hook at its end of stroke.
WaitsAreOwn ==
  /\ In({"STOP"}, "TEARDOWN") => timeout <= cmd.timer + StopRetry
  /\ In({"HOOK_CLOSE"}, "END") => timeout <= cmd.timer + CloseSettle
  /\ In(HookMoves \ {"HOOK_CLOSE"}, "END") => timeout <= cmd.timer + JamCheck

\* The two threads use the command buffer as CommandQueue says: a command is taken
\* out once and in its turn, when no other is in execution, only a full buffer drops
\* one, and a flush takes the command in execution away with the others although it
\* is two statements.
Buffer == INSTANCE CommandQueue WITH
  Capacity <- MAX_NUMBER_OF_COMMANDS, Commands <- Operations,
  queue <- queue, taken <- cmd.operation

CommandsAreQueued == Buffer!Spec

\* What makes these properties inductive. The UI thread takes the permission
\* away before it cleans up, in this order, and nothing fills up what it emptied.
IdleInv ==
  /\ Flushing => connection = 0
  /\ pc # "sleep" => connection >= enableTimer
  /\ connection < enableTimer =>
       /\ uiPc # "uninitialize" => hookState = "UNINITIALIZED"
       /\ uiPc \notin {"uninitialize", "flush"} => cmd = NoCommand
       /\ ~Flushing => queue = <<>>

\* A command in execution has left room in the buffer. A command that has
\* finished is let go of in the same tick.
RoomInv ==
  /\ Len(queue) <= MAX_NUMBER_OF_COMMANDS
  /\ IsInExecution => Len(queue) < MAX_NUMBER_OF_COMMANDS
  /\ pc \in {"task", "process"} => IsInExecution
  /\ IsInExecution /\ cmd.state = "FINISH" => pc = "process"

\* The zero stands whenever the remote takes the hook for homed and sees no
\* error, but while a homing or an acknowledge is under way.
HomedInv ==
  /\ hookState # "UNINITIALIZED" /\ errorNo = "NONE" /\ cmd.operation \notin {"EACK", "HOMING"}
       => zeroed
  /\ cmd.operation = "HOMING" /\ cmd.state \in {"END", "FINISH"} /\ ~Flushing => zeroed
  /\ In({"EACK"}, "FINISH") => hookState = "UNINITIALIZED"

\* The limiter is set between the first step of a task and its move.
LimiterInv ==
  /\ cmd.operation = "HOOK_CLOSE" /\ cmd.state \in {"SETUP", "ACTION"} => limiter = "HARDWARE"
  /\ In(HookMoves \ {"HOOK_CLOSE"}, "ACTION") => limiter = "SOFTWARE"

SystemInv ==
  TypeOK /\ IdleInv /\ RoomInv /\ HomedInv /\ LimiterInv /\ ErrorStopsMotion /\ LimiterMatchesMove

\* Every command that is started ends, by itself, by its timeout or because the
\* connection is lost. A task that waits for the hook has no other way out.
CommandTerminates == IsInExecution ~> ~IsInExecution

\* A stop in the command buffer is sent to the hook, whatever stands before it
\* and whatever the user presses meanwhile, unless the connection is lost.
StopIsSent == Queued("STOP") ~> (sent = "STOP" \/ connection = 0)

\* While the display says that the E-stop is activated (remote.c:34, :391) no
\* command moves the hook, as process says for homing (commands.c:133).
EstopStopsHoming ==
  pc = "sleep" /\ connection >= enableTimer /\ stateMessage = "estop" =>
    cmd.operation \notin Motions

\* While the display says that the hook seeks its end of stroke (remote.c:32,
\* :310), no move to a position is requested.
SeekMeansNoMove == stateMessage = "homeAction" => sent \notin MoveRequests

\* When EACK finds the "error cleared in hook" (commands_tasks.c:123), the newest
\* report of the hook carries no error.
EackedMeansCleared ==
  [][In({"EACK"}, "ACTION") /\ cmd'.state = "END" => reportedError = "NONE"]_vars
=============================================================================
