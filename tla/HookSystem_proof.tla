-------------------------- MODULE HookSystem_proof --------------------------
(***************************************************************************)
(* Theorems about HookSystem, for every capacity of the command buffer,    *)
(* every delay, every set of reports and buttons.                          *)
(***************************************************************************)
EXTENDS HookSystem, TLAPS

-----------------------------------------------------------------------------
(* The operators keep to their types. *)

LEMMA EmptyIsSequence == ASSUME NEW S PROVE <<>> \in Seq(S)
OBVIOUS

LEMMA GetStateType == GetState \in HookStates
BY DEF GetState, HookStates

LEMMA LatchedType == ASSUME errorNo \in Errors, NEW error \in Errors
                     PROVE  Latched(error) \in Errors
BY DEF Latched

LEMMA BufferedType == ASSUME queue \in Seq(Operations), NEW operation \in Operations
                      PROVE  Buffered(operation) \in Seq(Operations)
BY DEF Buffered

LEMMA MachineType == ASSUME TypeOK
                     PROVE  /\ MachineState \in HookStates
                            /\ MachineError \in Errors
                            /\ MessageShown \in Messages
                            /\ CommandAsked \in Operations \union {"NONE"}
<1>1. MachineState \in HookStates
  BY GetStateType DEF MachineState, HookStates
<1>2. MachineError \in Errors
  BY LatchedType DEF MachineError, TypeOK, DatabaseTypeOK, Errors
<1>3. MessageShown \in Messages
  BY DEF MessageShown, Messages, TypeOK, RemoteTypeOK
<1>4. CommandAsked \in Operations \union {"NONE"}
  BY DEF CommandAsked, Asked, Either, Operations, Motions, HookMoves
<1> QED BY <1>1, <1>2, <1>3, <1>4

-----------------------------------------------------------------------------
(* Type correctness, one lemma per step of the main thread. *)

USE DEF TypeOK, DatabaseTypeOK, CommandsTypeOK, RemoteTypeOK

LEMMA SendType == ASSUME TypeOK, NEW request \in Requests, Send(request)
                  PROVE  /\ sent' \in Requests \union {"NOTHING"}
                         /\ zeroed' \in BOOLEAN
                         /\ limiter' \in {"UNSET", "HARDWARE", "SOFTWARE"}
BY DEF Send

LEMMA TickType == ASSUME TypeOK, Tick PROVE TypeOK'
<1>1. DatabaseTypeOK'
  BY ReportAssumption, LatchedType DEF Tick, DatabaseRun, dbVars
<1>2. CommandsTypeOK' /\ RemoteTypeOK'
  BY DEF Tick, SendNothing, buttonVars
<1> QED BY <1>1, <1>2 DEF Tick

LEMMA RunRemoteType == ASSUME TypeOK, RunRemote PROVE TypeOK'
<1>1. DatabaseTypeOK' /\ RemoteTypeOK'
  BY MachineType DEF RunRemote, RemoteRun
<1>2. queue' \in Seq(Operations)
  BY MachineType, BufferedType DEF RunRemote, RemoteRun
<1>3. CommandsTypeOK'
  BY <1>2, MachineType DEF RunRemote, RemoteRun, SendNothing
<1> QED BY <1>1, <1>3 DEF RunRemote

LEMMA StoreButtonsType == ASSUME TypeOK, StoreButtons PROVE TypeOK'
BY DEF StoreButtons, ClearButtons, dbVars, cmdVars

LEMMA CommandStartType == ASSUME TypeOK, CommandStart PROVE TypeOK'
<1>1. /\ queue' \in Seq(Operations)
      /\ cmd' \in [operation : Operations \union {"NONE"}, state : TaskStates, timer : Nat]
  BY DEF CommandStart, StartCommand, TaskStates
<1> QED BY <1>1 DEF CommandStart, SendNothing, dbVars, buttonVars

LEMMA GotoType ==
  ASSUME TypeOK, NEW state \in TaskStates, Goto(state)
  PROVE  cmd' \in [operation : Operations \union {"NONE"}, state : TaskStates, timer : Nat]
BY DEF Goto, now

LEMMA CommandTaskType == ASSUME TypeOK, CommandTask PROVE TypeOK'
<1>1. now \in Nat
  BY DEF now
<1>2. /\ cmd' \in [operation : Operations \union {"NONE"}, state : TaskStates, timer : Nat]
      /\ sent' \in Requests \union {"NOTHING"}
      /\ zeroed' \in BOOLEAN
      /\ limiter' \in {"UNSET", "HARDWARE", "SOFTWARE"}
  <2>1. CASE HomingTask
    BY <2>1, GotoType, SendType DEF HomingTask, TaskStates, Requests, Stay, SendNothing
  <2>2. CASE EackTask
    BY <2>2, GotoType, SendType DEF EackTask, TaskStates, Requests, Stay, SendNothing
  <2>3. CASE StopTask
    BY <2>3, GotoType, SendType DEF StopTask, TaskStates, Requests, SendNothing
  <2>4. CASE CloseTask
    BY <2>4, GotoType, SendType DEF CloseTask, TaskStates, Requests, Stay, SendNothing
  <2>5. CASE OpenTask({"HOOK_MID_CLOSE", "HOOK_MID_OPEN"}, "MOVE_MID", "MID")
    BY <2>5, GotoType, SendType DEF OpenTask, TaskStates, Requests, Stay, SendNothing
  <2>6. CASE OpenTask({"HOOK_OPEN"}, "MOVE_OPEN", "OPEN")
    BY <2>6, GotoType, SendType DEF OpenTask, TaskStates, Requests, Stay, SendNothing
  <2> QED BY <2>1, <2>2, <2>3, <2>4, <2>5, <2>6 DEF CommandTask, RunTask
<1>3. hookPosition' \in AllPositions /\ hookState' \in HookStates
  BY DEF CommandTask, RunTask, HomingTask, EackTask, StopTask, CloseTask,
         AllPositions, HookStates
<1>4. timeout' \in Nat
  BY <1>1, CommandAssumption
  DEF CommandTask, RunTask, HomingTask, StopTask, CloseTask, OpenTask
<1>5. errorNo' \in Errors
  BY LatchedType DEF CommandTask, RunTask, HomingTask, EackTask, OpenTask, Errors
<1> QED BY <1>2, <1>3, <1>4, <1>5 DEF CommandTask, RunTask, buttonVars

LEMMA CommandProcessType == ASSUME TypeOK, CommandProcess PROVE TypeOK'
<1>1. errorNo' \in Errors
  BY LatchedType DEF CommandProcess, ProcessResult, Errors
<1>2. queue' \in Seq(Operations) /\ hookState' \in HookStates
  BY BufferedType DEF CommandProcess, ProcessResult, RequestStop, Operations, HookStates
<1>3. cmd' \in [operation : Operations \union {"NONE"}, state : TaskStates, timer : Nat]
  BY DEF CommandProcess, ProcessResult, NoCommand, TaskStates
<1> QED BY <1>1, <1>2, <1>3 DEF CommandProcess, ProcessResult, SendNothing, buttonVars

LEMMA UiType == ASSUME TypeOK, Ui PROVE TypeOK'
<1>1. connection' \in 0 .. enableTimer + 1
  BY EnableAssumption DEF Ui, UiSample, UiConnected, UiDisconnected, UiUninitialize,
                          UiFlush, UiFlushQueue
<1>2. /\ uiPc' \in {"sleep", "connected", "disconnected", "uninitialize", "flush", "flushQueue"}
      /\ hookState' \in HookStates
      /\ zeroed' \in BOOLEAN
  BY DEF Ui, UiSample, UiConnected, UiDisconnected, UiUninitialize, UiFlush,
         UiFlushQueue, HookStates
<1>3. queue' \in Seq(Operations)
  <2>1. queue' = queue \/ queue' = <<>>
    BY DEF Ui, UiSample, UiConnected, UiDisconnected, UiUninitialize, UiFlush,
           UiFlushQueue, FlushCommand, FlushQueue
  <2> QED BY <2>1, EmptyIsSequence
<1>4. cmd' \in [operation : Operations \union {"NONE"}, state : TaskStates, timer : Nat]
  <2>1. NoCommand \in [operation : Operations \union {"NONE"}, state : TaskStates, timer : Nat]
    BY DEF NoCommand, TaskStates
  <2>2. cmd' = cmd \/ cmd' = NoCommand
    BY DEF Ui, UiSample, UiConnected, UiDisconnected, UiUninitialize, UiFlush,
           UiFlushQueue, FlushCommand, FlushQueue
  <2> QED BY <2>1, <2>2
<1> QED BY <1>1, <1>2, <1>3, <1>4 DEF Ui, dbVars, buttonVars

LEMMA ButtonsCallbackType == ASSUME TypeOK, ButtonsCallback PROVE TypeOK'
<1>1. buttonsExecute' \subseteq AllButtons
  <2>1. CASE buttonsExecute' = buttonsExecute \union {"ESTOP"}
    BY <2>1 DEF AllButtons
  <2>2. CASE \E released \in SUBSET Buttons :
               buttonsExecute' = (buttonsExecute \ {"ESTOP"}) \union released
    BY <2>2, ButtonAssumption
  <2> QED BY <2>1, <2>2 DEF ButtonsCallback, UpdateButtons
<1> QED BY <1>1 DEF ButtonsCallback, UpdateButtons, dbVars, cmdVars, systemVars

\* Type correctness of the whole remote.
THEOREM TypeCorrect == Spec => []TypeOK
<1>1. Init => TypeOK
  <2> SUFFICES ASSUME Init PROVE TypeOK
    OBVIOUS
  <2>1. DatabaseTypeOK /\ RemoteTypeOK
    BY DEF Init, DatabaseInit, RemoteInit, AllPositions, Errors, Messages
  <2>2. CommandsTypeOK
    BY EmptyIsSequence DEF Init, CommandsInit, NoCommand, TaskStates, HookStates
  <2> QED BY <2>1, <2>2, EnableAssumption DEF Init
<1>2. TypeOK /\ [Next]_vars => TypeOK'
  <2>1. CASE UNCHANGED vars
    BY <2>1 DEF vars, dbVars, cmdVars, buttonVars, systemVars
  <2> QED
    BY <2>1, TickType, RunRemoteType, StoreButtonsType, CommandStartType,
       CommandTaskType, CommandProcessType, UiType, ButtonsCallbackType
    DEF Next, Main
<1> QED BY <1>1, <1>2, PTL DEF Spec

-----------------------------------------------------------------------------
(* The main thread is kept out while nothing may be resumed. *)

LEMMA IdleInvInductive == Spec => []IdleInv
<1>1. Init => IdleInv
  BY EnableAssumption DEF Init, CommandsInit, NoCommand, IdleInv, Flushing
<1>2. TypeOK /\ IdleInv /\ [Next]_vars => IdleInv'
  <2> SUFFICES ASSUME TypeOK, IdleInv, [Next]_vars
               PROVE  IdleInv'
    OBVIOUS
  <2> USE EnableAssumption DEF IdleInv, Flushing
  <2>1. CASE Tick
    BY <2>1 DEF Tick
  <2>2. CASE RunRemote
    BY <2>2 DEF RunRemote, RemoteRun
  <2>3. CASE StoreButtons
    BY <2>3 DEF StoreButtons, cmdVars
  <2>4. CASE CommandStart
    BY <2>4 DEF CommandStart
  <2>5. CASE CommandTask
    BY <2>5 DEF CommandTask
  <2>6. CASE CommandProcess
    BY <2>6 DEF CommandProcess
  <2>7. CASE Ui
    BY <2>7 DEF Ui, UiSample, UiConnected, UiDisconnected, UiUninitialize, UiFlush,
                UiFlushQueue, FlushCommand, FlushQueue
  <2>8. CASE ButtonsCallback
    BY <2>8 DEF ButtonsCallback, cmdVars, systemVars
  <2>9. CASE UNCHANGED vars
    BY <2>9 DEF vars, cmdVars, systemVars
  <2> QED BY <2>1, <2>2, <2>3, <2>4, <2>5, <2>6, <2>7, <2>8, <2>9 DEF Next, Main
<1> QED BY <1>1, <1>2, TypeCorrect, PTL DEF Spec

\* While the remote may not act, there is nothing that it could resume.
THEOREM DisabledIsIdle == Spec => []DisabledMeansIdle
<1>1. IdleInv => DisabledMeansIdle
  BY DEF IdleInv, DisabledMeansIdle, Flushing
<1> QED BY <1>1, IdleInvInductive, PTL

-----------------------------------------------------------------------------
(* Errors end commands. *)

\* At the end of every tick an error has ended the move in execution, and an
\* E-stop the homing too, and none starts before the next tick.
THEOREM ErrorsStopMotion == Spec => []ErrorStopsMotion
<1>1. Init => ErrorStopsMotion
  BY DEF Init, DatabaseInit, ErrorStopsMotion
<1>2. TypeOK /\ IdleInv /\ ErrorStopsMotion /\ [Next]_vars => ErrorStopsMotion'
  <2> SUFFICES ASSUME TypeOK, IdleInv, ErrorStopsMotion, [Next]_vars
               PROVE  ErrorStopsMotion'
    OBVIOUS
  <2>1. CASE Tick
    BY <2>1 DEF Tick, ErrorStopsMotion
  <2>2. CASE RunRemote \/ StoreButtons \/ CommandTask
    BY <2>2 DEF RunRemote, StoreButtons, CommandTask, ErrorStopsMotion
  <2>3. CASE CommandStart
    BY <2>3 DEF CommandStart, ErrorStopsMotion, Motions, HookMoves
  <2>4. CASE CommandProcess
    <3>1. CASE StopRequested
      BY <2>4, <3>1 DEF CommandProcess, ProcessResult, NoCommand, ErrorStopsMotion,
                        Motions, HookMoves
    <3>2. CASE ~StopRequested
      <4>1. errorNo' = errorNo /\ (cmd' = cmd \/ cmd' = NoCommand)
        BY <2>4, <3>2 DEF CommandProcess, ProcessResult, StopRequested
      <4> QED BY <3>2, <4>1 DEF StopRequested, NoCommand, ErrorStopsMotion, Motions, HookMoves
    <3> QED BY <3>1, <3>2
  <2>5. CASE Ui
    <3>1. errorNo' = errorNo /\ pc' = pc
      BY <2>5 DEF Ui, dbVars
    <3>2. CASE uiPc = "connected" /\ connection < enableTimer
      <4>1. cmd' = NoCommand
        BY <2>5, <3>2 DEF Ui, UiSample, UiConnected, UiDisconnected, UiUninitialize, UiFlush,
                          UiFlushQueue, IdleInv
      <4> QED BY <4>1 DEF NoCommand, ErrorStopsMotion, Motions, HookMoves
    <3>3. CASE ~(uiPc = "connected" /\ connection < enableTimer)
      <4>1. connection' >= enableTimer => connection >= enableTimer
        BY <2>5, <3>3, EnableAssumption
        DEF Ui, UiSample, UiConnected, UiDisconnected, UiUninitialize, UiFlush, UiFlushQueue
      <4>2. cmd' = cmd \/ cmd' = NoCommand
        BY <2>5 DEF Ui, UiSample, UiConnected, UiDisconnected, UiUninitialize, UiFlush,
                    UiFlushQueue, FlushCommand, FlushQueue
      <4> QED BY <3>1, <4>1, <4>2 DEF NoCommand, ErrorStopsMotion, Motions, HookMoves
    <3> QED BY <3>2, <3>3
  <2>6. CASE ButtonsCallback \/ UNCHANGED vars
    BY <2>6 DEF ButtonsCallback, vars, dbVars, cmdVars, systemVars, ErrorStopsMotion
  <2> QED BY <2>1, <2>2, <2>3, <2>4, <2>5, <2>6 DEF Next, Main
<1> QED BY <1>1, <1>2, TypeCorrect, IdleInvInductive, PTL DEF Spec

-----------------------------------------------------------------------------
(* There is room for a stop. *)

LEMMA BufferedLength ==
  ASSUME TypeOK, Len(queue) <= MAX_NUMBER_OF_COMMANDS, NEW operation \in Operations
  PROVE  /\ Len(Buffered(operation)) \in {Len(queue), Len(queue) + 1}
         /\ Len(Buffered(operation)) <= MAX_NUMBER_OF_COMMANDS
         /\ Len(queue) < MAX_NUMBER_OF_COMMANDS =>
              Buffered(operation) = Append(queue, operation)
BY CommandAssumption DEF Buffered

LEMMA TaskKeepsOperation ==
  ASSUME TypeOK, CommandTask
  PROVE  cmd'.operation = cmd.operation /\ queue' = queue
<1>1. ASSUME NEW state, Goto(state) PROVE cmd'.operation = cmd.operation
  BY <1>1 DEF Goto
<1>2. cmd'.operation = cmd.operation
  BY <1>1 DEF CommandTask, RunTask, HomingTask, EackTask, StopTask, CloseTask, OpenTask, Stay
<1> QED BY <1>2 DEF CommandTask, RunTask

LEMMA RoomInvInductive == Spec => []RoomInv
<1>1. Init => RoomInv
  BY CommandAssumption DEF Init, CommandsInit, NoCommand, RoomInv, IsInExecution
<1>2. TypeOK /\ RoomInv /\ [Next]_vars => RoomInv'
  <2> SUFFICES ASSUME TypeOK, RoomInv, [Next]_vars
               PROVE  RoomInv'
    OBVIOUS
  <2> USE CommandAssumption DEF RoomInv, IsInExecution
  <2>1. CASE Tick
    BY <2>1 DEF Tick
  <2>2. CASE RunRemote
    <3>1. CASE CommandAsked # "NONE" /\ ~IsInExecution
      <4>1. CommandAsked \in Operations
        BY <3>1, MachineType
      <4>2. Len(queue') <= MAX_NUMBER_OF_COMMANDS
        BY <2>2, <3>1, <4>1, BufferedLength DEF RunRemote, RemoteRun
      <4> QED BY <2>2, <3>1, <4>2 DEF RunRemote, RemoteRun
    <3>2. CASE ~(CommandAsked # "NONE" /\ ~IsInExecution)
      BY <2>2, <3>2 DEF RunRemote, RemoteRun
    <3> QED BY <3>1, <3>2
  <2>3. CASE StoreButtons
    BY <2>3 DEF StoreButtons, cmdVars
  <2>4. CASE CommandStart
    <3>1. CASE IsInExecution \/ queue = <<>>
      BY <2>4, <3>1 DEF CommandStart, StartCommand
    <3>2. CASE ~(IsInExecution \/ queue = <<>>)
      <4>1. Len(queue') = Len(queue) - 1 /\ cmd'.state = "START"
        BY <2>4, <3>2 DEF CommandStart, StartCommand
      <4> QED BY <2>4, <4>1 DEF CommandStart
    <3> QED BY <3>1, <3>2
  <2>5. CASE CommandTask
    BY <2>5, TaskKeepsOperation DEF CommandTask
  <2>6. CASE CommandProcess
    <3>1. CASE StopRequested
      <4>1. Len(queue') <= MAX_NUMBER_OF_COMMANDS
        BY <2>6, <3>1, BufferedLength DEF CommandProcess, ProcessResult, RequestStop, Operations
      <4> QED BY <2>6, <3>1, <4>1 DEF CommandProcess, ProcessResult, NoCommand
    <3>2. CASE ~StopRequested
      BY <2>6, <3>2 DEF CommandProcess, ProcessResult, NoCommand
    <3> QED BY <3>1, <3>2
  <2>7. CASE Ui
    BY <2>7 DEF Ui, UiSample, UiConnected, UiDisconnected, UiUninitialize, UiFlush,
                UiFlushQueue, FlushCommand, FlushQueue, NoCommand
  <2>8. CASE ButtonsCallback \/ UNCHANGED vars
    BY <2>8 DEF ButtonsCallback, vars, cmdVars, systemVars
  <2> QED BY <2>1, <2>2, <2>3, <2>4, <2>5, <2>6, <2>7, <2>8 DEF Next, Main
<1> QED BY <1>1, <1>2, TypeCorrect, PTL DEF Spec

\* Whatever the capacity of the buffer, the stop of requestStop finds a place.
THEOREM StopsAreBuffered == Spec => StopNotDropped
<1>1. TypeOK /\ RoomInv /\ [Next]_vars =>
        [CommandProcess /\ StopRequested => Queued("STOP")']_vars
  <2> SUFFICES ASSUME TypeOK, RoomInv, CommandProcess, StopRequested
               PROVE  Queued("STOP")'
    OBVIOUS
  <2>1. Len(queue) < MAX_NUMBER_OF_COMMANDS
    BY DEF RoomInv, CommandProcess
  <2>2. queue' = Append(queue, "STOP")
    BY <2>1 DEF CommandProcess, ProcessResult, RequestStop, Buffered
  <2>3. Len(queue) + 1 \in DOMAIN queue' /\ queue'[Len(queue) + 1] = "STOP"
    BY <2>2 DEF Operations
  <2> QED BY <2>3 DEF Queued
<1> QED BY <1>1, TypeCorrect, RoomInvInductive, PTL DEF Spec, StopNotDropped

-----------------------------------------------------------------------------
(* The way of a stop and the waits of the tasks. *)

\* A stop that is put behind what waits, or not, leaves every stop in its place.
LEMMA StopsStayBuffered ==
  ASSUME TypeOK, NEW operation \in Operations, Queued("STOP"), queue' = Buffered(operation)
  PROVE  Queued("STOP")'
<1>1. PICK i \in DOMAIN queue : queue[i] = "STOP"
  BY DEF Queued
<1>2. i \in DOMAIN queue' /\ queue'[i] = queue[i]
  BY DEF Buffered
<1> QED BY <1>1, <1>2 DEF Queued

\* A stop is the next command, or it moves up.
LEMMA StopsMoveUp ==
  ASSUME TypeOK, Queued("STOP"), queue' = Tail(queue), Head(queue) # "STOP"
  PROVE  Queued("STOP")'
<1>1. PICK i \in DOMAIN queue : queue[i] = "STOP"
  BY DEF Queued
<1>2. i \in 2 .. Len(queue)
  BY <1>1
<1>3. i - 1 \in DOMAIN queue' /\ queue'[i - 1] = queue[i]
  BY <1>2
<1> QED BY <1>1, <1>3 DEF Queued

\* commands.c: whatever else is in the buffer, and whatever errors there are, a stop
\* waits until it is sent or the connection is lost.
THEOREM StopsAreKept == Spec => StopIsKept
<1>1. TypeOK /\ RoomInv /\ [Next]_vars => [StopWaits => StopWaits' \/ sent' = "STOP" \/ Flushing]_vars
  <2> SUFFICES ASSUME TypeOK, RoomInv, Next, StopWaits, ~Flushing
               PROVE  StopWaits' \/ sent' = "STOP"
    OBVIOUS
  <2>1. CASE RunRemote
    <3>1. queue' = queue \/ \E operation \in Operations : queue' = Buffered(operation)
      BY <2>1, MachineType DEF RunRemote, RemoteRun
    <3>2. Queued("STOP") => Queued("STOP")'
      BY <3>1, StopsStayBuffered DEF Queued
    <3>3. cmd' = cmd
      BY <2>1 DEF RunRemote, RemoteRun
    <3> QED BY <3>2, <3>3 DEF StopWaits, In
  <2>2. CASE CommandStart
    <3>1. CASE IsInExecution \/ queue = <<>>
      BY <2>2, <3>1 DEF CommandStart, StartCommand, StopWaits, In, Queued
    <3>2. CASE ~(IsInExecution \/ queue = <<>>)
      <4>1. Queued("STOP")
        BY <3>2 DEF StopWaits, IsInExecution, In
      <4>2. /\ queue' = Tail(queue)
            /\ cmd'.operation = Head(queue) /\ cmd'.state = "START"
        BY <2>2, <3>2 DEF CommandStart, StartCommand
      <4> QED BY <4>1, <4>2, StopsMoveUp DEF StopWaits, In
    <3> QED BY <3>1, <3>2
  <2>3. CASE CommandTask
    <3>1. queue' = queue
      BY <2>3, TaskKeepsOperation
    <3>2. CASE Queued("STOP")
      BY <3>1, <3>2 DEF StopWaits, Queued
    <3>3. CASE In({"STOP"}, "START") \/ In({"STOP"}, "ACTION")
      <4>1. StopTask
        BY <2>3, <3>3 DEF CommandTask, RunTask, HomingTask, EackTask, CloseTask, OpenTask, In
      <4> QED BY <3>3, <4>1 DEF StopTask, Send, Goto, StopWaits, In
    <3> QED BY <3>2, <3>3 DEF StopWaits
  <2>4. CASE CommandProcess
    <3>1. CASE StopRequested
      <4>1. queue' = Append(queue, "STOP")
        BY <2>4, <3>1 DEF CommandProcess, ProcessResult, RequestStop, Buffered, RoomInv
      <4>2. Len(queue) + 1 \in DOMAIN queue' /\ queue'[Len(queue) + 1] = "STOP"
        BY <4>1 DEF Operations
      <4> QED BY <4>2 DEF StopWaits, Queued
    <3>2. CASE ~StopRequested
      <4>1. queue' = queue /\ (cmd' = cmd \/ cmd.state = "FINISH")
        BY <2>4, <3>2 DEF CommandProcess, ProcessResult
      <4> QED BY <4>1 DEF StopWaits, Queued, In
    <3> QED BY <3>1, <3>2
  <2>5. CASE Ui
    <3>1. cmd' = cmd /\ queue' = queue
      BY <2>5 DEF Ui, UiSample, UiConnected, UiDisconnected, UiUninitialize, UiFlush,
                  UiFlushQueue, Flushing
    <3> QED BY <3>1 DEF StopWaits, Queued, In
  <2>6. CASE Tick \/ StoreButtons \/ ButtonsCallback
    <3>1. cmd' = cmd /\ queue' = queue
      BY <2>6 DEF Tick, StoreButtons, ButtonsCallback, cmdVars
    <3> QED BY <3>1 DEF StopWaits, Queued, In
  <2> QED BY <2>1, <2>2, <2>3, <2>4, <2>5, <2>6 DEF Next, Main
<1> QED BY <1>1, TypeCorrect, RoomInvInductive, PTL DEF Spec, StopIsKept

\* commands_tasks.c: the one variable for the timeouts of all tasks never makes a
\* task wait longer than for its own delay.
THEOREM TimeoutsAreOwn == Spec => []WaitsAreOwn
<1>1. Init => WaitsAreOwn
  BY DEF Init, CommandsInit, NoCommand, WaitsAreOwn, In, HookMoves
<1>2. TypeOK /\ WaitsAreOwn /\ [Next]_vars => WaitsAreOwn'
  <2> SUFFICES ASSUME TypeOK, WaitsAreOwn, [Next]_vars
               PROVE  WaitsAreOwn'
    OBVIOUS
  <2> USE CommandAssumption DEF WaitsAreOwn, In, HookMoves
  <2>1. CASE CommandStart
    BY <2>1 DEF CommandStart, StartCommand
  <2>2. CASE CommandTask
    <3> USE DEF Goto, Stay, now
    <3>1. CASE HomingTask
      BY <3>1 DEF HomingTask
    <3>2. CASE EackTask
      BY <3>2 DEF EackTask
    <3>3. CASE StopTask
      BY <3>3 DEF StopTask
    <3>4. CASE CloseTask
      BY <3>4 DEF CloseTask
    <3>5. CASE OpenTask({"HOOK_MID_CLOSE", "HOOK_MID_OPEN"}, "MOVE_MID", "MID")
      BY <3>5 DEF OpenTask
    <3>6. CASE OpenTask({"HOOK_OPEN"}, "MOVE_OPEN", "OPEN")
      BY <3>6 DEF OpenTask
    <3> QED BY <2>2, <3>1, <3>2, <3>3, <3>4, <3>5, <3>6 DEF CommandTask, RunTask
  <2>3. CASE CommandProcess
    BY <2>3 DEF CommandProcess, ProcessResult, NoCommand
  <2>4. CASE Ui
    BY <2>4 DEF Ui, UiSample, UiConnected, UiDisconnected, UiUninitialize, UiFlush,
                UiFlushQueue, FlushCommand, FlushQueue, NoCommand
  <2>5. CASE Tick \/ RunRemote \/ StoreButtons \/ ButtonsCallback \/ UNCHANGED vars
    BY <2>5 DEF Tick, RunRemote, RemoteRun, StoreButtons, ButtonsCallback, vars, cmdVars
  <2> QED BY <2>1, <2>2, <2>3, <2>4, <2>5 DEF Next, Main
<1> QED BY <1>1, <1>2, TypeCorrect, PTL DEF Spec

-----------------------------------------------------------------------------
(* The threads use the buffer as a queue. *)

\* Every step is one of the queue's: the remote adds, command_run takes, process ends
\* or adds a stop, and the flush of the UI thread is an end and a flush, since the
\* main thread starts nothing in between.
THEOREM SystemImplementsQueue == Spec => CommandsAreQueued
<1> USE DEF Buffer!Buffered, Buffer!Add, Buffer!Take, Buffer!End, Buffer!Flush, Buffer!Next
<1>1. Init => Buffer!Init
  BY DEF Init, CommandsInit, NoCommand, Buffer!Init
<1>2. TypeOK /\ IdleInv /\ RoomInv /\ [Next]_vars => [Buffer!Next]_<<queue, cmd.operation>>
  <2> SUFFICES ASSUME TypeOK, IdleInv, RoomInv, [Next]_vars
               PROVE  \/ Buffer!Next
                      \/ queue' = queue /\ cmd'.operation = cmd.operation
    BY DEF IdleInv
  <2>1. CASE RunRemote
    <3>1. cmd' = cmd
      BY <2>1 DEF RunRemote, RemoteRun
    <3>2. queue' = queue \/ \E operation \in Operations : queue' = Buffered(operation)
      BY <2>1, MachineType DEF RunRemote, RemoteRun
    <3>3. \A operation \in Operations :
            Buffered(operation) \in {Buffer!Buffered(command) : command \in Operations}
      BY DEF Buffered
    <3> QED BY <3>1, <3>2, <3>3
  <2>2. CASE CommandStart
    <3>1. CASE IsInExecution \/ queue = <<>>
      BY <2>2, <3>1 DEF CommandStart, StartCommand
    <3>2. CASE ~(IsInExecution \/ queue = <<>>)
      BY <2>2, <3>2 DEF CommandStart, StartCommand, IsInExecution
    <3> QED BY <3>1, <3>2
  <2>3. CASE CommandTask
    BY <2>3, TaskKeepsOperation
  <2>4. CASE CommandProcess
    <3>1. CASE StopRequested
      <4>1. cmd'.operation = "NONE" /\ queue' = Buffered("STOP")
        BY <2>4, <3>1 DEF CommandProcess, ProcessResult, RequestStop, NoCommand
      <4>2. Buffered("STOP") \in {Buffer!Buffered(command) : command \in Operations}
        BY DEF Buffered, Operations
      <4> QED BY <4>1, <4>2
    <3>2. CASE ~StopRequested
      BY <2>4, <3>2 DEF CommandProcess, ProcessResult, NoCommand
    <3> QED BY <3>1, <3>2
  <2>5. CASE Ui
    <3>1. CASE UiFlush
      BY <3>1 DEF UiFlush, FlushCommand, NoCommand
    <3>2. CASE UiFlushQueue
      <4>1. cmd = NoCommand
        BY <3>2, EnableAssumption DEF UiFlushQueue, IdleInv, Flushing
      <4> QED BY <3>2, <4>1 DEF UiFlushQueue, FlushQueue, NoCommand
    <3>3. CASE UiSample \/ UiConnected \/ UiDisconnected \/ UiUninitialize
      BY <3>3 DEF UiSample, UiConnected, UiDisconnected, UiUninitialize
    <3> QED BY <2>5, <3>1, <3>2, <3>3 DEF Ui
  <2>6. CASE Tick \/ StoreButtons \/ ButtonsCallback \/ UNCHANGED vars
    BY <2>6 DEF Tick, StoreButtons, ButtonsCallback, vars, cmdVars
  <2> QED BY <2>1, <2>2, <2>3, <2>4, <2>5, <2>6 DEF Next, Main
<1> QED BY <1>1, <1>2, TypeCorrect, IdleInvInductive, RoomInvInductive, PTL
    DEF Spec, CommandsAreQueued, Buffer!Spec

-----------------------------------------------------------------------------
(* The current limiter. *)

LEMMA LimiterInvInductive == Spec => [](LimiterInv /\ LimiterMatchesMove)
<1>1. Init => LimiterInv /\ LimiterMatchesMove
  BY DEF Init, CommandsInit, NoCommand, LimiterInv, LimiterMatchesMove, In, HookMoves
<1>2. TypeOK /\ LimiterInv /\ LimiterMatchesMove /\ [Next]_vars
        => LimiterInv' /\ LimiterMatchesMove'
  <2> SUFFICES ASSUME TypeOK, LimiterInv, LimiterMatchesMove, [Next]_vars
               PROVE  LimiterInv' /\ LimiterMatchesMove'
    OBVIOUS
  <2> USE DEF LimiterInv, LimiterMatchesMove, In, HookMoves
  <2>1. CASE Tick
    BY <2>1 DEF Tick, SendNothing
  <2>2. CASE RunRemote
    BY <2>2 DEF RunRemote, RemoteRun, SendNothing
  <2>3. CASE StoreButtons
    BY <2>3 DEF StoreButtons, cmdVars
  <2>4. CASE CommandStart
    BY <2>4 DEF CommandStart, StartCommand, SendNothing
  <2>5. CASE CommandTask
    <3> USE DEF SendNothing, Goto, Stay
    <3>1. CASE HomingTask
      <4>1. /\ cmd.operation = "HOMING" /\ cmd'.operation = "HOMING"
            /\ \/ SendNothing
               \/ \E request \in {"EACK", "POSITION_UNINITIALIZED", "MOVE_HOMING",
                                "POSITION_HOME", "IGNORE_SENSOR_OFF"} : Send(request)
        BY <2>5, <3>1 DEF HomingTask
      <4>2. sent' \notin MoveRequests
        BY <4>1 DEF Send, MoveRequests
      <4> QED BY <4>1, <4>2 DEF MoveRequests
    <3>2. CASE EackTask
      BY <2>5, <3>2 DEF EackTask, Send
    <3>3. CASE StopTask
      BY <2>5, <3>3 DEF StopTask, Send
    <3>4. CASE CloseTask
      <4>1. CASE cmd.state = "START"
        BY <2>5, <3>4, <4>1 DEF CloseTask, Send
      <4>2. CASE cmd.state = "SETUP"
        <5>1. sent' = "NOTHING" /\ limiter' = limiter
          BY <3>4, <4>2 DEF CloseTask
        <5>2. cmd.operation = "HOOK_CLOSE" /\ cmd'.operation = "HOOK_CLOSE"
          BY <3>4, <4>2 DEF CloseTask
        <5> QED BY <4>2, <5>1, <5>2
      <4>3. CASE cmd.state = "ACTION"
        BY <2>5, <3>4, <4>3 DEF CloseTask, Send
      <4>4. CASE cmd.state \in {"TEARDOWN", "END"}
        <5>1. sent' \in {"NOTHING", "POSITION_HOME"}
          BY <3>4, <4>4 DEF CloseTask, Send
        <5>2. cmd'.operation = "HOOK_CLOSE" /\ cmd'.state \in {"TEARDOWN", "END", "FINISH"}
          <6>1. CASE cmd.state = "TEARDOWN"
            BY <3>4, <6>1 DEF CloseTask
          <6>2. CASE cmd.state = "END"
            <7>1. \E state \in {"FINISH", "END"} : Goto(state)
              BY <3>4, <6>2 DEF CloseTask
            <7> QED BY <3>4, <6>2, <7>1 DEF CloseTask
          <6> QED BY <4>4, <6>1, <6>2
        <5> QED BY <5>1, <5>2
      <4> QED BY <3>4, <4>1, <4>2, <4>3, <4>4 DEF CloseTask
    <3>5. CASE OpenTask({"HOOK_MID_CLOSE", "HOOK_MID_OPEN"}, "MOVE_MID", "MID")
      BY <2>5, <3>5 DEF OpenTask, Send
    <3>6. CASE OpenTask({"HOOK_OPEN"}, "MOVE_OPEN", "OPEN")
      BY <2>5, <3>6 DEF OpenTask, Send
    <3> QED BY <2>5, <3>1, <3>2, <3>3, <3>4, <3>5, <3>6 DEF CommandTask, RunTask
  <2>6. CASE CommandProcess
    BY <2>6 DEF CommandProcess, ProcessResult, NoCommand, SendNothing
  <2>7. CASE Ui
    BY <2>7 DEF Ui, UiSample, UiConnected, UiDisconnected, UiUninitialize, UiFlush,
                UiFlushQueue, FlushCommand, FlushQueue, NoCommand
  <2>8. CASE ButtonsCallback \/ UNCHANGED vars
    BY <2>8 DEF ButtonsCallback, vars, cmdVars, systemVars
  <2> QED BY <2>1, <2>2, <2>3, <2>4, <2>5, <2>6, <2>7, <2>8 DEF Next, Main
<1> QED BY <1>1, <1>2, TypeCorrect, PTL DEF Spec

\* Every move to a position is requested with the limiter that it needs.
THEOREM LimiterMatches == Spec => []LimiterMatchesMove
BY LimiterInvInductive, PTL

-----------------------------------------------------------------------------
(* Moves are asked for only when the hook is homed. *)

LEMMA HomingTaskHomed ==
  ASSUME TypeOK, HomedInv, ~Flushing, HomingTask, cmd'.operation = cmd.operation
  PROVE  HomedInv'
<1>1. cmd'.operation = "HOMING"
  BY DEF HomingTask, In
<1>2. cmd'.state \in {"END", "FINISH"} => zeroed'
  <2>1. CASE cmd.state = "START"
    BY <2>1 DEF HomingTask, In, Goto
  <2>2. CASE cmd.state = "SETUP"
    BY <2>2 DEF HomingTask, In, Goto
  <2>3. CASE cmd.state = "ACTION"
    <3>1. Send("POSITION_HOME") \/ cmd'.state \in {"ACTION", "TEARDOWN"}
      BY <2>3 DEF HomingTask, In, Goto, Stay
    <3> QED BY <3>1 DEF Send
  <2>4. CASE cmd.state = "TEARDOWN"
    <3>1. Send("POSITION_HOME") \/ cmd'.state \in {"ACTION", "TEARDOWN"}
      BY <2>4 DEF HomingTask, In, Goto, Stay
    <3> QED BY <3>1 DEF Send
  <2>5. CASE cmd.state = "END"
    <3>1. zeroed
      BY <2>5 DEF HomedInv, HomingTask, In
    <3> QED BY <2>5, <3>1 DEF HomingTask, In, Send
  <2> QED BY <2>1, <2>2, <2>3, <2>4, <2>5 DEF HomingTask, In
<1> QED BY <1>1, <1>2 DEF HomedInv, In

LEMMA OtherTasksHomed ==
  ASSUME TypeOK, HomedInv, CommandTask, cmd.operation \notin {"HOMING", "EACK"}
  PROVE  HomedInv'
<1>1. cmd'.operation = cmd.operation
  BY TaskKeepsOperation
<1>2. hookState' = hookState
  BY DEF CommandTask, RunTask, HomingTask, EackTask, In
<1>3. errorNo' = "NONE" => errorNo = "NONE"
  BY DEF CommandTask, RunTask, HomingTask, EackTask, StopTask, CloseTask, OpenTask, In, Latched
<1>4. zeroed => zeroed'
  <2>1. SendNothing \/ \E request \in Requests \ {"POSITION_UNINITIALIZED"} : Send(request)
    BY DEF CommandTask, RunTask, HomingTask, EackTask, StopTask, CloseTask, OpenTask, In, Requests
  <2> QED BY <2>1 DEF SendNothing, Send
<1> QED BY <1>1, <1>2, <1>3, <1>4 DEF HomedInv, In

LEMMA HomedInvInductive == Spec => []HomedInv
<1>1. Init => HomedInv
  BY DEF Init, CommandsInit, NoCommand, HomedInv, In
<1>2. TypeOK /\ IdleInv /\ RoomInv /\ HomedInv /\ [Next]_vars => HomedInv'
  <2> SUFFICES ASSUME TypeOK, IdleInv, RoomInv, HomedInv, [Next]_vars
               PROVE  HomedInv'
    OBVIOUS
  <2>0. pc # "sleep" => ~Flushing
    BY EnableAssumption DEF IdleInv
  <2>1. CASE Tick
    <3>1. errorNo' = "NONE" => errorNo = "NONE"
      BY <2>1 DEF Tick, DatabaseRun, dbVars, Latched
    <3> QED BY <2>1, <3>1 DEF Tick, SendNothing, HomedInv, In, Flushing
  <2>2. CASE RunRemote
    <3>1. /\ cmd' = cmd /\ zeroed' = zeroed /\ uiPc' = uiPc
          /\ hookState' = MachineState /\ errorNo' = MachineError
      BY <2>2 DEF RunRemote, RemoteRun, SendNothing
    <3>2. errorNo' = "NONE" => errorNo = "NONE" /\ ~EstopLatched /\ ~ProtectionSeen
      BY <3>1 DEF MachineError, Latched
    <3>3. hookState' # "UNINITIALIZED" /\ errorNo' = "NONE" => hookState # "UNINITIALIZED"
      BY <3>1, <3>2 DEF MachineState
    <3>4. ~In({"EACK"}, "FINISH")
      BY <2>2 DEF RoomInv, RunRemote, IsInExecution, In
    <3> QED BY <3>1, <3>2, <3>3, <3>4 DEF HomedInv, In, Flushing
  <2>3. CASE StoreButtons
    BY <2>3 DEF StoreButtons, dbVars, cmdVars, HomedInv, In, Flushing
  <2>4. CASE CommandStart
    BY <2>4 DEF CommandStart, StartCommand, SendNothing, dbVars, IsInExecution, HomedInv, In, Flushing
  <2>5. CASE CommandTask
    <3>1. CASE cmd.operation = "HOMING"
      BY <2>0, <2>5, <3>1, HomingTaskHomed, TaskKeepsOperation
      DEF CommandTask, RunTask, EackTask, StopTask, CloseTask, OpenTask, In
    <3>2. CASE cmd.operation = "EACK"
      <4>1. cmd'.operation = "EACK"
        BY <2>5, <3>2, TaskKeepsOperation
      <4>2. cmd'.state = "FINISH" => hookState' = "UNINITIALIZED"
        BY <2>5, <3>2
        DEF CommandTask, RunTask, HomingTask, EackTask, StopTask, CloseTask, OpenTask, In, Goto, Stay
      <4> QED BY <4>1, <4>2 DEF HomedInv, In
    <3>3. CASE cmd.operation \notin {"HOMING", "EACK"}
      BY <2>5, <3>3, OtherTasksHomed
    <3> QED BY <3>1, <3>2, <3>3
  <2>6. CASE CommandProcess
    <3>1. zeroed' = zeroed /\ uiPc' = uiPc
      BY <2>6 DEF CommandProcess, ProcessResult, SendNothing
    <3>2. CASE StopRequested
      <4>1. errorNo' # "NONE" /\ cmd' = NoCommand
        BY <2>6, <3>2 DEF CommandProcess, ProcessResult, StopRequested, Latched
      <4> QED BY <4>1 DEF HomedInv, NoCommand, In
    <3>3. CASE ~StopRequested
      <4>1. errorNo' = errorNo /\ hookState' = hookState
        BY <2>6, <3>3 DEF CommandProcess, ProcessResult, StopRequested
      <4>2. CASE cmd.state = "FINISH"
        <5>1. cmd' = NoCommand
          BY <2>6, <4>2 DEF CommandProcess, ProcessResult
        <5>2. ~Flushing
          BY <2>0, <2>6 DEF CommandProcess
        <5> QED BY <3>1, <4>1, <4>2, <5>1, <5>2 DEF HomedInv, NoCommand, In
      <4>3. CASE cmd.state # "FINISH"
        <5>1. cmd' = cmd
          BY <2>6, <3>3, <4>3 DEF CommandProcess, ProcessResult
        <5> QED BY <3>1, <4>1, <5>1 DEF HomedInv, In, Flushing
      <4> QED BY <4>2, <4>3
    <3> QED BY <3>2, <3>3
  <2>7. CASE Ui
    <3>1. errorNo' = errorNo /\ pc = "sleep" /\ pc' = pc
      BY <2>7 DEF Ui, dbVars
    <3>2. ~In({"EACK"}, "FINISH")
      BY <3>1 DEF RoomInv, IsInExecution, In
    <3>3. CASE UiSample
      BY <3>1, <3>3 DEF UiSample, HomedInv, In, Flushing
    <3>4. CASE UiConnected \/ UiDisconnected
      BY <3>1, <3>4 DEF UiConnected, UiDisconnected, HomedInv, In, Flushing
    <3>5. CASE UiUninitialize
      BY <3>1, <3>5 DEF UiUninitialize, HomedInv, In, Flushing
    <3>6. CASE UiFlush
      <4>1. hookState = "UNINITIALIZED"
        BY <3>6, EnableAssumption DEF UiFlush, IdleInv, Flushing
      <4> QED BY <3>1, <3>6, <4>1 DEF UiFlush, FlushCommand, NoCommand, HomedInv, In
    <3>7. CASE UiFlushQueue
      <4>1. cmd = NoCommand /\ cmd' = cmd
        BY <3>7, EnableAssumption DEF UiFlushQueue, FlushQueue, IdleInv, Flushing
      <4> QED BY <3>1, <3>7, <4>1 DEF UiFlushQueue, NoCommand, HomedInv, In
    <3> QED BY <2>7, <3>3, <3>4, <3>5, <3>6, <3>7 DEF Ui
  <2>8. CASE ButtonsCallback \/ UNCHANGED vars
    BY <2>8 DEF ButtonsCallback, vars, dbVars, cmdVars, systemVars, HomedInv, In, Flushing
  <2> QED BY <2>1, <2>2, <2>3, <2>4, <2>5, <2>6, <2>7, <2>8 DEF Next, Main
<1> QED BY <1>1, <1>2, TypeCorrect, IdleInvInductive, RoomInvInductive, PTL DEF Spec

\* A move to a position is put in the buffer only while the encoder's zero stands.
THEOREM MovesAskedHomed == Spec => MoveAskedHomed
<1>1. TypeOK /\ HomedInv /\ [Next]_vars =>
        [Len(queue') > Len(queue) /\ queue'[Len(queue')] \in HookMoves => zeroed]_vars
  <2> SUFFICES ASSUME TypeOK, HomedInv, Next,
                      Len(queue') > Len(queue), queue'[Len(queue')] \in HookMoves
               PROVE  zeroed
    OBVIOUS
  <2>1. queue \in Seq(Operations) /\ Len(queue) \in Nat
    OBVIOUS
  <2>2. queue' # queue
    BY <2>1
  <2>3. CASE RunRemote
    <3>1. queue' = Buffered(CommandAsked) /\ ~IsInExecution
      BY <2>2, <2>3 DEF RunRemote, RemoteRun
    <3>2. queue' = Append(queue, CommandAsked)
      BY <2>2, <3>1 DEF Buffered
    <3>3. CommandAsked \in HookMoves
      <4>1. CommandAsked \in Operations \union {"NONE"}
        BY MachineType
      <4>2. queue \in Seq(Operations \union {"NONE"})
        BY <2>1
      <4> QED BY <3>2, <4>1, <4>2
    <3>4. MachineState \in {"CLOSED", "MID", "OPEN"}
      BY <3>3 DEF CommandAsked, Asked, Either, HookMoves
    <3>5. hookState # "UNINITIALIZED" /\ errorNo = "NONE"
      BY <3>4 DEF MachineState
    <3> QED BY <3>1, <3>5 DEF HomedInv, IsInExecution
  <2>4. CASE CommandProcess
    <3>1. queue' = Append(queue, "STOP")
      BY <2>2, <2>4 DEF CommandProcess, ProcessResult, RequestStop, Buffered
    <3>2. queue'[Len(queue')] = "STOP"
      BY <2>1, <3>1 DEF Operations
    <3> QED BY <3>2 DEF HookMoves
  <2>5. CASE CommandStart
    <3>1. queue # <<>> /\ queue' = Tail(queue)
      BY <2>2, <2>5 DEF CommandStart, StartCommand
    <3>2. Len(queue') = Len(queue) - 1
      BY <2>1, <3>1
    <3> QED BY <2>1, <3>2
  <2>6. CASE Ui
    <3>1. queue' = <<>>
      BY <2>2, <2>6 DEF Ui, UiSample, UiConnected, UiDisconnected, UiUninitialize, UiFlush,
                        UiFlushQueue, FlushCommand, FlushQueue
    <3> QED BY <2>1, <3>1
  <2>7. CASE Tick \/ StoreButtons \/ CommandTask \/ ButtonsCallback
    BY <2>2, <2>7, TaskKeepsOperation DEF Tick, StoreButtons, ButtonsCallback, cmdVars
  <2> QED BY <2>3, <2>4, <2>5, <2>6, <2>7 DEF Next, Main
<1> QED BY <1>1, TypeCorrect, HomedInvInductive, PTL DEF Spec, MoveAskedHomed

\* The conjunction that a run of the model checker checks too.
THEOREM SystemInvariant == Spec => []SystemInv
BY TypeCorrect, IdleInvInductive, RoomInvInductive, HomedInvInductive, LimiterInvInductive,
   ErrorsStopMotion, PTL DEF SystemInv
=============================================================================
