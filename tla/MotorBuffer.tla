----------------------------- MODULE MotorBuffer -----------------------------
(***************************************************************************)
(* The bytes of the hook on their way to database_run: the circular buffer *)
(* of src/adt_cbuffer.c, as src/communications.c and the loop of           *)
(* database_run (src/database.c) use it.                                   *)
(*                                                                         *)
(* The Bluetooth receive thread pushes. It is cooperative, so that a push  *)
(* is one step. The main thread reads, and the receive thread gets in      *)
(* between any two accesses of a peek or a poll. The element size is 1,    *)
(* and the pointers are offsets in the buffer.                             *)
(***************************************************************************)
EXTENDS Integers, Sequences

CONSTANTS
  length,     \* bytes of the buffer, 1024 in the code
  FrameSize,  \* bytes of a report, 16 in the code
  Chunks,     \* what a notification may carry: sequences of bytes
  Backlog,    \* no notification comes when it would leave more bytes unread;
              \* beyond length there is no such limit, and pushes are refused
  Overlap     \* the same of a notification during a call of the main thread

\* 0xFE starts a report; the other bytes are all alike.
Bytes == {"FE", "00"}

ASSUME BufferAssumption ==
  /\ length \in Nat \ {0, 1}
  /\ FrameSize \in 1 .. length
  /\ \A chunk \in Chunks : chunk \in Seq(Bytes) /\ Len(chunk) \in 1 .. length
  /\ {Backlog, Overlap} \subseteq Nat

VARIABLES
  buffer, dataIn, dataOut, endOfBuffer,
  count,        \* database_run's: bytes it may still read
  motorPeek,    \* communications.c's: the byte seen by the latest peek
  pc,           \* where the main thread is
  full,         \* the flag as getLength has read it
  taking,       \* bytes asked for by the poll under way
  copy,         \* what that poll has copied
  taken,        \* what the latest successful poll returned (history)
  held          \* bytes pushed and not yet polled (history)

vars == <<buffer, dataIn, dataOut, endOfBuffer, count, motorPeek, pc, full,
          taking, copy, taken, held>>

bufferVars == <<buffer, dataIn, dataOut, endOfBuffer, held>>

TypeOK ==
  /\ buffer \in [0 .. length - 1 -> Bytes]
  /\ dataIn \in 0 .. length - 1
  /\ dataOut \in 0 .. length - 1 + FrameSize
  /\ endOfBuffer \in BOOLEAN
  /\ count \in 0 .. length
  /\ motorPeek \in Bytes
  /\ pc \in {"sleep", "count", "loop", "peek", "poll", "copy", "clear", "advance", "wrap"}
  /\ full \in BOOLEAN
  /\ taking \in {0, 1, FrameSize}
  /\ copy \in Seq(Bytes)
  /\ taken \in Seq(Bytes)
  /\ held \in 0 .. length

\* comm_init
Init ==
  /\ buffer = [i \in 0 .. length - 1 |-> "00"]
  /\ dataIn = 0
  /\ dataOut = 0
  /\ endOfBuffer = FALSE
  /\ count = 0
  /\ motorPeek = "00"
  /\ pc = "sleep"
  /\ full = FALSE
  /\ taking = 0
  /\ copy = <<>>
  /\ taken = <<>>
  /\ held = 0

-----------------------------------------------------------------------------
\* How far it is from one offset on to another, over the end of the buffer.
Distance(from, to) == IF to < from THEN length - (from - to) ELSE to - from

\* adt_cbuffer_getLength, given the flag.
GetLength(flag) == IF flag THEN length ELSE Distance(dataOut, dataIn)

Wrapped(offset) == IF offset >= length THEN offset - length ELSE offset

\* A number of bytes from dataOut on, over the end of the buffer and on at its
\* start, as the two calls of memcpy of read_cbuffer put them together.
FromDataOut(number) == [i \in 1 .. number |-> buffer[Wrapped(Wrapped(dataOut) + i - 1)]]

\* The check is unsigned: a negative sum is refused, too.
Fits(chunk) == GetLength(endOfBuffer) + Len(chunk) \in 0 .. length

\* Mutant: a push that fills the buffer does not raise the flag.
PushUnflagged(chunk) ==
  /\ Fits(chunk)
  /\ buffer' = [i \in 0 .. length - 1 |->
                  LET offset == Distance(dataIn, i)
                  IN  IF offset < Len(chunk) THEN chunk[offset + 1] ELSE buffer[i]]
  /\ dataIn' = Wrapped(dataIn + Len(chunk))
  /\ held' = held + Len(chunk)
  /\ UNCHANGED <<dataOut, endOfBuffer>>

\* adt_cbuffer_push: refused as a whole when it does not fit.
Push(chunk) ==
  /\ Fits(chunk)
  /\ endOfBuffer' = (endOfBuffer \/ GetLength(endOfBuffer) + Len(chunk) = length)
  /\ buffer' = [i \in 0 .. length - 1 |->
                  LET offset == Distance(dataIn, i)
                  IN  IF offset < Len(chunk) THEN chunk[offset + 1] ELSE buffer[i]]
  /\ dataIn' = Wrapped(dataIn + Len(chunk))
  /\ held' = held + Len(chunk)
  /\ UNCHANGED dataOut

\* comm_addToMotorBuffer, in the receive thread. What is refused is lost.
Receive ==
  /\ \E chunk \in Chunks :
       /\ held + Len(chunk) <= IF pc \in {"sleep", "loop"} THEN Backlog ELSE Overlap
       /\ Push(chunk)
  /\ UNCHANGED <<count, motorPeek, pc, full, taking, copy, taken>>

-----------------------------------------------------------------------------
(* The main thread in database_run *)

\* comm_getAvailableMotorDataLength: reads the flag, then the offsets.
RunStart ==
  /\ pc = "sleep"
  /\ full' = endOfBuffer
  /\ pc' = "count"
  /\ UNCHANGED <<bufferVars, count, motorPeek, taking, copy, taken>>

CountBytes ==
  /\ pc = "count"
  /\ count' = GetLength(full)
  /\ pc' = "loop"
  /\ UNCHANGED <<bufferVars, motorPeek, full, taking, copy, taken>>

RunEnd ==
  /\ pc = "loop"
  /\ count < FrameSize
  /\ pc' = "sleep"
  /\ UNCHANGED <<bufferVars, count, motorPeek, full, taking, copy, taken>>

\* comm_peekFromMotorBuffer
PeekStart ==
  /\ pc = "loop"
  /\ count >= FrameSize
  /\ full' = endOfBuffer
  /\ pc' = "peek"
  /\ UNCHANGED <<bufferVars, count, motorPeek, taking, copy, taken>>

\* An empty buffer leaves motorPeek as it was. The byte decides what to poll: a
\* report or one byte to discard.
Peek ==
  /\ pc = "peek"
  /\ motorPeek' = IF GetLength(full) >= 1 THEN buffer[dataOut] ELSE motorPeek
  /\ taking' = IF motorPeek' = "FE" THEN FrameSize ELSE 1
  /\ pc' = "poll"
  /\ UNCHANGED <<bufferVars, count, full, copy, taken>>

\* comm_removeFromMotorBuffer: adt_cbuffer_poll reads the flag ...
PollStart ==
  /\ pc = "poll"
  /\ full' = endOfBuffer
  /\ pc' = "copy"
  /\ UNCHANGED <<bufferVars, count, motorPeek, taking, copy, taken>>

\* ... and the offsets, and copies the bytes, or fails, which nobody looks at.
PollCopy ==
  /\ pc = "copy"
  /\ IF GetLength(full) >= taking
       THEN pc' = "clear" /\ copy' = FromDataOut(taking) /\ UNCHANGED <<count, taking>>
       ELSE pc' = "loop" /\ count' = count - taking /\ taking' = 0 /\ UNCHANGED copy
  /\ UNCHANGED <<bufferVars, motorPeek, full, taken>>

PollClear ==
  /\ pc = "clear"
  /\ endOfBuffer' = FALSE
  /\ pc' = "advance"
  /\ UNCHANGED <<buffer, dataIn, dataOut, count, motorPeek, full, taking, copy, taken, held>>

PollAdvance ==
  /\ pc = "advance"
  /\ dataOut' = dataOut + taking
  /\ taken' = copy
  /\ held' = held - taking
  /\ pc' = "wrap"
  /\ UNCHANGED <<buffer, dataIn, endOfBuffer, count, motorPeek, full, taking, copy>>

\* Mutant: the loop forgets to count a discarded byte.
PollWrapUncounted ==
  /\ pc = "wrap"
  /\ dataOut' = Wrapped(dataOut)
  /\ count' = IF taking = 1 THEN count ELSE count - taking
  /\ taking' = 0
  /\ copy' = <<>>
  /\ pc' = "loop"
  /\ UNCHANGED <<buffer, dataIn, endOfBuffer, motorPeek, full, taken, held>>

\* Mutant: a poll that goes over the end of the buffer goes on at its very start.
PollWrapToStart ==
  /\ pc = "wrap"
  /\ dataOut' = IF dataOut >= length THEN 0 ELSE dataOut
  /\ count' = count - taking
  /\ taking' = 0
  /\ copy' = <<>>
  /\ pc' = "loop"
  /\ UNCHANGED <<buffer, dataIn, endOfBuffer, motorPeek, full, taken, held>>

PollWrap ==
  /\ pc = "wrap"
  /\ dataOut' = Wrapped(dataOut)
  /\ count' = count - taking
  /\ taking' = 0
  /\ copy' = <<>>
  /\ pc' = "loop"
  /\ UNCHANGED <<buffer, dataIn, endOfBuffer, motorPeek, full, taken, held>>

DatabaseRun ==
  \/ RunStart \/ CountBytes \/ RunEnd
  \/ PeekStart \/ Peek
  \/ PollStart \/ PollCopy \/ PollClear \/ PollAdvance \/ PollWrap

Next == Receive \/ DatabaseRun

Spec == Init /\ [][Next]_vars

-----------------------------------------------------------------------------
(* Properties *)

\* The bytes in the buffer. A poll that has cleared the flag and not yet moved
\* dataOut has found at least a byte: equal offsets still mean a full buffer.
Stored ==
  FromDataOut(IF endOfBuffer \/ (pc = "advance" /\ dataIn = dataOut) THEN length
              ELSE Distance(Wrapped(dataOut), dataIn))

\* The circular buffer is the queue that its header file describes: nothing is
\* lost, doubled or reordered, although pushes come in the middle of a poll.
Queue == INSTANCE ByteQueue WITH queue <- Stored, Counts <- {1, FrameSize}

BufferIsQueue == Queue!Spec

\* database_run counts the bytes once and then ignores what its polls return
\* (communications.c:34): what it counted must still be there when it polls.
CountedIsThere == count <= Len(Stored) + (IF pc = "wrap" THEN taking ELSE 0)

\* adt_cbuffer_getLength is the number of stored items (adt_cbuffer.h:32), once
\* a poll is through.
LengthIsStored == pc \in {"sleep", "loop"} => GetLength(endOfBuffer) = held
=============================================================================
