---------------------------- MODULE CommandBuffer ----------------------------
(***************************************************************************)
(* The ring behind the command queue of HookCommands (src/commands.c). A   *)
(* command in execution is a pointer into the ring, to a slot that counts  *)
(* as free.                                                                *)
(***************************************************************************)
EXTENDS Naturals, Sequences

CONSTANTS
  MAX_NUMBER_OF_COMMANDS,
  Commands   \* what the buttons ask for; "STOP" comes from requestStop

ASSUME RingAssumption ==
  /\ MAX_NUMBER_OF_COMMANDS \in Nat \ {0}
  /\ "NONE" \notin Commands

VARIABLES
  cmdBuffer, cmdIdxStore, cmdIdxUse, cmdCount,
  cmd,       \* the slot that it points to, or "NULL"
  started    \* the operation that command_run has selected the task for

ringVars == <<cmdBuffer, cmdIdxStore, cmdIdxUse, cmdCount, cmd, started>>

Slots == 0 .. MAX_NUMBER_OF_COMMANDS - 1
NullSlot == MAX_NUMBER_OF_COMMANDS
AllCommands == Commands \cup {"STOP"}

RingTypeOK ==
  /\ cmdBuffer \in [Slots -> AllCommands \cup {"NONE"}]
  /\ {cmdIdxStore, cmdIdxUse} \subseteq Slots
  /\ cmdCount \in 0 .. MAX_NUMBER_OF_COMMANDS
  /\ cmd \in Slots \cup {NullSlot}
  /\ started \in AllCommands \cup {"NONE"}

RingInit ==
  /\ cmdBuffer = [slot \in Slots |-> "NONE"]
  /\ cmdIdxStore = 0
  /\ cmdIdxUse = 0
  /\ cmdCount = 0
  /\ cmd = NullSlot
  /\ started = "NONE"

-----------------------------------------------------------------------------
Advanced(index) == (index + 1) % MAX_NUMBER_OF_COMMANDS

\* Mutant: a full buffer takes a command all the same.
AddToBufferFull(command) ==
  /\ cmdBuffer' = [cmdBuffer EXCEPT ![cmdIdxStore] = command]
  /\ cmdIdxStore' = Advanced(cmdIdxStore)
  /\ cmdCount' = IF cmdCount < MAX_NUMBER_OF_COMMANDS THEN cmdCount + 1 ELSE cmdCount

\* command_addToBuffer
AddToBuffer(command) ==
  IF cmdCount < MAX_NUMBER_OF_COMMANDS
    THEN /\ cmdBuffer' = [cmdBuffer EXCEPT ![cmdIdxStore] = command]
         /\ cmdIdxStore' = Advanced(cmdIdxStore)
         /\ cmdCount' = cmdCount + 1
    ELSE UNCHANGED <<cmdBuffer, cmdIdxStore, cmdCount>>

\* Mutant: a button adds a command whether or not one is in execution.
StateMachineAlways ==
  /\ \E command \in Commands : AddToBuffer(command)
  /\ UNCHANGED <<cmdIdxUse, cmd, started>>

\* stateMachine, once a tick: the buttons add a command when none is in execution.
StateMachine ==
  /\ cmd = NullSlot
  /\ \E command \in Commands : AddToBuffer(command)
  /\ UNCHANGED <<cmdIdxUse, cmd, started>>

\* command_run, its first half
CommandStart ==
  /\ cmdCount # 0
  /\ cmd = NullSlot
  /\ cmd' = cmdIdxUse
  /\ cmdIdxUse' = Advanced(cmdIdxUse)
  /\ cmdCount' = cmdCount - 1
  /\ started' = cmdBuffer[cmdIdxUse]
  /\ UNCHANGED <<cmdBuffer, cmdIdxStore>>

\* requestStop, from process
RequestStop ==
  /\ cmd # NullSlot
  /\ AddToBuffer("STOP")
  /\ cmd' = NullSlot
  /\ started' = "NONE"
  /\ UNCHANGED cmdIdxUse

\* process: the task has finished.
Finish ==
  /\ cmd # NullSlot
  /\ cmd' = NullSlot
  /\ started' = "NONE"
  /\ UNCHANGED <<cmdBuffer, cmdIdxStore, cmdIdxUse, cmdCount>>

\* command_flush. No tick looks at the buffer meanwhile: the remote is disabled.
RingFlush ==
  /\ cmd' = NullSlot
  /\ started' = "NONE"
  /\ cmdCount' = 0
  /\ cmdIdxUse' = 0
  /\ cmdIdxStore' = 0
  /\ UNCHANGED cmdBuffer

RingNext == StateMachine \/ CommandStart \/ RequestStop \/ Finish \/ RingFlush

RingSpec == RingInit /\ [][RingNext]_ringVars

-----------------------------------------------------------------------------
(* Properties *)

\* The commands from cmdIdxUse on are the queue, also across the end of the ring.
InRing ==
  [n \in 1 .. cmdCount |-> cmdBuffer[(cmdIdxUse + n - 1) % MAX_NUMBER_OF_COMMANDS]]

Commanded == INSTANCE CommandQueue WITH
  Capacity <- MAX_NUMBER_OF_COMMANDS, Commands <- AllCommands, queue <- InRing, taken <- started

\* commands.c is the queue that HookCommands works with: a command is taken out once, in
\* the order of the calls, and unchanged, and only a full buffer drops one.
RingIsQueue == Commanded!Spec

\* cmd still points to the command that is in execution, although command_run has
\* given its slot back and requestStop may fill it.
CommandIsKept == cmd # NullSlot => cmdBuffer[cmd] = started
=============================================================================
