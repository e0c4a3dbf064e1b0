---------------------------- MODULE Buffers_proof ----------------------------
(***************************************************************************)
(* Theorems about the two rings of the remote: MotorBuffer, for any length *)
(* of the buffer and of a report and whatever a notification may carry,    *)
(* and CommandBuffer, for any number of commands.                          *)
(***************************************************************************)
EXTENDS MotorBuffer, CommandBuffer, SequenceTheorems, TLAPS

-----------------------------------------------------------------------------
(* The bytes of the hook *)

\* The bytes between dataOut and dataIn, when the buffer is known not to be empty or not
\* to be full.
Between == Distance(Wrapped(dataOut), dataIn)
AtLeastOne == IF Between = 0 THEN length ELSE Between

\* Where the i-th of these bytes is.
Cell(i) == Wrapped(Wrapped(dataOut) + i - 1)

Polling == {"peek", "poll", "copy", "clear", "advance", "wrap"}

\* The flag and the offsets tell how many bytes are held. In the middle of a poll the flag
\* is down, and it is known where the poll is.
FlagAndOffsets ==
  /\ pc \notin {"advance", "wrap"} => held = IF endOfBuffer THEN length ELSE Between
  /\ pc \notin {"advance", "wrap"} => (endOfBuffer => dataIn = dataOut)
  /\ pc = "advance" => ~endOfBuffer /\ held = AtLeastOne
  /\ pc = "wrap" => ~endOfBuffer /\ held = Between
  /\ pc # "wrap" => dataOut < length

\* The flag as it was read is the flag: only polls clear it, and no push that comes in the
\* middle fills the buffer.
FlagRead == pc \in {"count", "peek", "copy"} => (full <=> endOfBuffer)

\* Where database_run is.
Running ==
  /\ pc \in {"poll", "copy", "clear", "advance", "wrap"} => taking \in {1, FrameSize}
  /\ pc \in Polling => count >= FrameSize
  /\ count <= held + (IF pc = "wrap" THEN taking ELSE 0)

BufferInv == TypeOK /\ FlagAndOffsets /\ FlagRead /\ Running

-----------------------------------------------------------------------------
LEMMA BufferInit == Init => BufferInv
<1> SUFFICES ASSUME Init PROVE BufferInv
  OBVIOUS
<1>1. <<>> \in Seq(Bytes)
  BY EmptySeq
<1>2. TypeOK
  BY <1>1, BufferAssumption DEF Init, TypeOK, Bytes
<1>3. FlagAndOffsets
  BY BufferAssumption DEF Init, FlagAndOffsets, Between, Distance, Wrapped
<1>4. FlagRead /\ Running
  BY DEF Init, FlagRead, Running, Polling
<1> QED BY <1>2, <1>3, <1>4 DEF BufferInv

LEMMA OffsetsFit ==
  ASSUME TypeOK
  PROVE  /\ length \in Nat /\ length > 1 /\ FrameSize \in Nat
         /\ FrameSize >= 1 /\ FrameSize <= length
         /\ dataIn \in Nat /\ dataIn < length
         /\ dataOut \in Nat /\ dataOut < length + FrameSize
         /\ Wrapped(dataOut) \in 0 .. length - 1
         /\ Between \in 0 .. length - 1
<1>1. /\ length \in Nat /\ length > 1 /\ FrameSize \in Nat
      /\ FrameSize >= 1 /\ FrameSize <= length
  BY BufferAssumption
<1>2. dataIn \in Nat /\ dataIn < length /\ dataOut \in Nat /\ dataOut < length + FrameSize
  BY <1>1 DEF TypeOK
<1>3. Wrapped(dataOut) \in 0 .. length - 1
  BY <1>1, <1>2 DEF Wrapped
<1>4. Between \in 0 .. length - 1
  BY <1>1, <1>2, <1>3 DEF Between, Distance
<1> QED BY <1>1, <1>2, <1>3, <1>4

\* Outside of the last steps of a poll, getLength is right.
LEMMA LengthIsHeld ==
  ASSUME BufferInv, pc \notin {"advance", "wrap"}
  PROVE  GetLength(endOfBuffer) = held
BY OffsetsFit DEF BufferInv, FlagAndOffsets, GetLength, Between, Wrapped

\* What a push does to flag, offsets and number of bytes, in numbers.
LEMMA PushMoves ==
  ASSUME BufferInv, NEW n \in 1 .. length, GetLength(endOfBuffer) + n \in 0 .. length,
         pc \notin {"sleep", "loop"} => held + n < length,
         dataIn' = Wrapped(dataIn + n), held' = held + n, dataOut' = dataOut,
         endOfBuffer' <=> (endOfBuffer \/ GetLength(endOfBuffer) + n = length),
         pc' = pc
  PROVE  /\ dataIn' \in 0 .. length - 1 /\ held' \in 0 .. length
         /\ FlagAndOffsets'
         /\ pc \notin {"sleep", "loop"} => (endOfBuffer' <=> endOfBuffer)
<1>1. held \in Nat /\ endOfBuffer \in BOOLEAN
  BY DEF BufferInv, TypeOK
<1>2. dataIn' \in 0 .. length - 1
  BY OffsetsFit DEF BufferInv, Wrapped
<1>3. CASE pc \notin {"advance", "wrap"}
  <2>1. ~endOfBuffer /\ held = Between /\ dataOut < length /\ held + n <= length
    BY <1>1, <1>3, LengthIsHeld, OffsetsFit DEF BufferInv, FlagAndOffsets
  <2>2. endOfBuffer' <=> held + n = length
    BY <1>3, <2>1, LengthIsHeld
  <2>3. held + n = length => dataIn' = dataOut
    BY <1>1, <2>1, OffsetsFit DEF BufferInv, Between, Distance, Wrapped
  <2>4. held + n < length => Distance(Wrapped(dataOut), dataIn') = held + n
    BY <1>1, <2>1, OffsetsFit DEF BufferInv, Between, Distance, Wrapped
  <2>6. held' \in 0 .. length
    BY <1>1, <2>1, OffsetsFit DEF BufferInv
  <2>7. FlagAndOffsets'
    BY <1>1, <1>3, <2>1, <2>2, <2>3, <2>4, OffsetsFit DEF BufferInv, FlagAndOffsets, Between
  <2>8. pc \notin {"sleep", "loop"} => (endOfBuffer' <=> endOfBuffer)
    BY <2>1, <2>2
  <2> QED BY <1>2, <2>6, <2>7, <2>8
<1>4. CASE pc = "advance"
  <2>1. ~endOfBuffer /\ held = Between /\ held >= 1 /\ dataOut < length /\ held + n < length
    BY <1>1, <1>4, OffsetsFit DEF BufferInv, FlagAndOffsets, AtLeastOne
  <2>2. Distance(dataOut, dataIn) \in Int /\ Distance(dataOut, dataIn) <= held
    BY <1>1, <2>1, OffsetsFit DEF BufferInv, Between, Wrapped, Distance
  <2>3. ~endOfBuffer'
    <3>1. Distance(dataOut, dataIn) + n # length
      BY <1>1, <2>1, <2>2, OffsetsFit DEF BufferInv
    <3> QED BY <2>1, <3>1 DEF GetLength
  <2>4. Distance(Wrapped(dataOut), dataIn') = held + n
    BY <1>1, <2>1, OffsetsFit DEF BufferInv, Between, Distance, Wrapped
  <2>5. held' \in 0 .. length
    BY <1>1, <2>1, OffsetsFit DEF BufferInv
  <2>6. FlagAndOffsets'
    BY <1>1, <1>4, <2>1, <2>3, <2>4, OffsetsFit DEF FlagAndOffsets, Between, AtLeastOne
  <2> QED BY <1>1, <1>2, <1>4, <2>1, <2>3, <2>5, <2>6
<1>5. CASE pc = "wrap"
  <2>1. ~endOfBuffer /\ held = Between /\ held + n < length
    BY <1>5 DEF BufferInv, FlagAndOffsets
  <2>2. Distance(dataOut, dataIn) \in Int /\ Distance(dataOut, dataIn) <= held
    BY <1>1, <2>1, OffsetsFit DEF BufferInv, Between, Wrapped, Distance
  <2>3. ~endOfBuffer'
    <3>1. Distance(dataOut, dataIn) + n # length
      BY <1>1, <2>1, <2>2, OffsetsFit DEF BufferInv
    <3> QED BY <2>1, <3>1 DEF GetLength
  <2>4. Distance(Wrapped(dataOut), dataIn') = held + n
    BY <1>1, <2>1, OffsetsFit DEF BufferInv, Between, Distance, Wrapped
  <2>5. held' \in 0 .. length
    BY <1>1, <2>1, OffsetsFit DEF BufferInv
  <2>6. FlagAndOffsets'
    BY <1>5, <2>1, <2>3, <2>4 DEF FlagAndOffsets, Between
  <2> QED BY <1>1, <1>2, <1>5, <2>1, <2>3, <2>5, <2>6
<1> QED BY <1>3, <1>4, <1>5

LEMMA ReceiveKeeps ==
  ASSUME Overlap < length, BufferInv, Receive
  PROVE  BufferInv'
<1>1. PICK chunk \in Chunks :
        /\ held + Len(chunk) <= IF pc \in {"sleep", "loop"} THEN Backlog ELSE Overlap
        /\ Push(chunk)
  BY DEF Receive
<1>2. UNCHANGED <<count, motorPeek, pc, full, taking, copy, taken>>
  BY DEF Receive
<1> DEFINE n == Len(chunk)
<1>3. chunk \in Seq(Bytes) /\ n \in 1 .. length
  BY BufferAssumption
<1>4. /\ GetLength(endOfBuffer) + n \in 0 .. length /\ dataIn' = Wrapped(dataIn + n)
      /\ held' = held + n /\ dataOut' = dataOut
      /\ endOfBuffer' <=> (endOfBuffer \/ GetLength(endOfBuffer) + n = length)
      /\ endOfBuffer' \in BOOLEAN
  BY <1>1 DEF Push, Fits
<1>5. pc \notin {"sleep", "loop"} => held + n < length
  BY <1>1, <1>3, BufferAssumption DEF BufferInv, TypeOK
<1>6. /\ dataIn' \in 0 .. length - 1 /\ held' \in 0 .. length
      /\ FlagAndOffsets'
      /\ pc \notin {"sleep", "loop"} => (endOfBuffer' <=> endOfBuffer)
  <2> HIDE DEF n
  <2> QED BY <1>2, <1>3, <1>4, <1>5, PushMoves
<1>7. buffer' \in [0 .. length - 1 -> Bytes]
  <2>1. ASSUME NEW i \in 0 .. length - 1
        PROVE  (IF Distance(dataIn, i) < n THEN chunk[Distance(dataIn, i) + 1] ELSE buffer[i])
                 \in Bytes
    <3>1. Distance(dataIn, i) \in Nat
      BY OffsetsFit DEF BufferInv, Distance
    <3>2. CASE Distance(dataIn, i) < n
      <4>1. Distance(dataIn, i) + 1 \in 1 .. Len(chunk)
        BY <1>3, <3>1, <3>2
      <4> QED BY <1>3, <3>2, <4>1, ElementOfSeq
    <3>3. CASE ~(Distance(dataIn, i) < n)
      BY <3>3 DEF BufferInv, TypeOK
    <3> QED BY <3>2, <3>3
  <2>2. buffer' = [i \in 0 .. length - 1 |->
                     IF Distance(dataIn, i) < n THEN chunk[Distance(dataIn, i) + 1] ELSE buffer[i]]
    BY <1>1 DEF Push
  <2> QED BY <2>1, <2>2
<1>8. TypeOK'
  <2> QED BY <1>2, <1>4, <1>6, <1>7 DEF BufferInv, TypeOK
<1>9. FlagRead'
  BY <1>2, <1>6 DEF BufferInv, FlagRead
<1>10. Running'
  <2>1. held \in Nat /\ count \in Nat /\ taking \in Nat
    BY OffsetsFit DEF BufferInv, TypeOK
  <2>2. held' = held + n /\ n \in Nat
    BY <1>3, <1>4
  <2>3. count' <= held' + (IF pc' = "wrap" THEN taking' ELSE 0)
    BY <1>2, <2>1, <2>2 DEF BufferInv, Running
  <2> QED BY <1>2, <2>3 DEF BufferInv, Running, Polling
<1> QED BY <1>6, <1>8, <1>9, <1>10 DEF BufferInv

\* What is not about pc stays true when nothing but pc and what a step has read changes.
LEMMA SameBuffer ==
  ASSUME BufferInv, UNCHANGED bufferVars
  PROVE  /\ Between' = Between /\ AtLeastOne' = AtLeastOne
         /\ UNCHANGED <<buffer, dataIn, dataOut, endOfBuffer, held>>
BY DEF bufferVars, Between, AtLeastOne, Distance, Wrapped

LEMMA RunStartKeeps == ASSUME BufferInv, RunStart PROVE BufferInv'
<1>1. UNCHANGED <<buffer, dataIn, dataOut, endOfBuffer, held>> /\ Between' = Between
  BY SameBuffer DEF RunStart
<1>2. /\ UNCHANGED <<count, motorPeek, taking, copy, taken>>
      /\ pc = "sleep" /\ pc' = "count" /\ full' = endOfBuffer
  BY DEF RunStart
<1>3. TypeOK'
  BY <1>1, <1>2 DEF BufferInv, TypeOK
<1>4. FlagAndOffsets' /\ FlagRead'
  BY <1>1, <1>2 DEF BufferInv, FlagAndOffsets, FlagRead
<1>5. Running'
  BY <1>1, <1>2 DEF BufferInv, Running, Polling
<1> QED BY <1>3, <1>4, <1>5 DEF BufferInv

LEMMA CountBytesKeeps == ASSUME BufferInv, CountBytes PROVE BufferInv'
<1>1. UNCHANGED <<buffer, dataIn, dataOut, endOfBuffer, held>> /\ Between' = Between
  BY SameBuffer DEF CountBytes
<1>2. /\ UNCHANGED <<motorPeek, full, taking, copy, taken>>
      /\ pc = "count" /\ pc' = "loop" /\ count' = GetLength(full)
  BY DEF CountBytes
<1>3. count' = held
  <2>1. full <=> endOfBuffer
    BY <1>2 DEF BufferInv, FlagRead
  <2>2. GetLength(full) = GetLength(endOfBuffer)
    BY <2>1 DEF GetLength
  <2> QED BY <1>2, <2>2, LengthIsHeld
<1>4. TypeOK'
  BY <1>1, <1>2, <1>3 DEF BufferInv, TypeOK
<1>5. FlagAndOffsets' /\ FlagRead'
  BY <1>1, <1>2 DEF BufferInv, FlagAndOffsets, FlagRead
<1>6. Running'
  <2>1. held \in Nat
    BY OffsetsFit DEF BufferInv, TypeOK
  <2> QED BY <1>1, <1>2, <1>3, <2>1 DEF Running, Polling
<1> QED BY <1>4, <1>5, <1>6 DEF BufferInv

LEMMA RunEndKeeps == ASSUME BufferInv, RunEnd PROVE BufferInv'
<1>1. UNCHANGED <<buffer, dataIn, dataOut, endOfBuffer, held>> /\ Between' = Between
  BY SameBuffer DEF RunEnd
<1>2. /\ UNCHANGED <<count, motorPeek, full, taking, copy, taken>>
      /\ pc = "loop" /\ pc' = "sleep"
  BY DEF RunEnd
<1>3. TypeOK'
  BY <1>1, <1>2 DEF BufferInv, TypeOK
<1>4. FlagAndOffsets' /\ FlagRead'
  BY <1>1, <1>2 DEF BufferInv, FlagAndOffsets, FlagRead
<1>5. Running'
  BY <1>1, <1>2 DEF BufferInv, Running, Polling
<1> QED BY <1>3, <1>4, <1>5 DEF BufferInv

LEMMA PeekStartKeeps == ASSUME BufferInv, PeekStart PROVE BufferInv'
<1>1. UNCHANGED <<buffer, dataIn, dataOut, endOfBuffer, held>> /\ Between' = Between
  BY SameBuffer DEF PeekStart
<1>2. /\ UNCHANGED <<count, motorPeek, taking, copy, taken>>
      /\ pc = "loop" /\ pc' = "peek" /\ full' = endOfBuffer /\ count >= FrameSize
  BY DEF PeekStart
<1>3. TypeOK'
  BY <1>1, <1>2 DEF BufferInv, TypeOK
<1>4. FlagAndOffsets' /\ FlagRead'
  BY <1>1, <1>2 DEF BufferInv, FlagAndOffsets, FlagRead
<1>5. Running'
  BY <1>1, <1>2 DEF BufferInv, Running, Polling
<1> QED BY <1>3, <1>4, <1>5 DEF BufferInv

LEMMA PeekKeeps == ASSUME BufferInv, Peek PROVE BufferInv'
<1>1. UNCHANGED <<buffer, dataIn, dataOut, endOfBuffer, held>> /\ Between' = Between
  BY SameBuffer DEF Peek
<1>2. /\ UNCHANGED <<count, full, copy, taken>> /\ pc = "peek" /\ pc' = "poll"
      /\ taking' \in {1, FrameSize} /\ motorPeek' \in {motorPeek, buffer[dataOut]}
  BY DEF Peek
<1>3. dataOut \in 0 .. length - 1
  BY <1>2, OffsetsFit DEF BufferInv, FlagAndOffsets
<1>4. TypeOK'
  BY <1>1, <1>2, <1>3 DEF BufferInv, TypeOK
<1>5. FlagAndOffsets' /\ FlagRead'
  BY <1>1, <1>2 DEF BufferInv, FlagAndOffsets, FlagRead
<1>6. Running'
  BY <1>1, <1>2 DEF BufferInv, Running, Polling
<1> QED BY <1>4, <1>5, <1>6 DEF BufferInv

LEMMA PollStartKeeps == ASSUME BufferInv, PollStart PROVE BufferInv'
<1>1. UNCHANGED <<buffer, dataIn, dataOut, endOfBuffer, held>> /\ Between' = Between
  BY SameBuffer DEF PollStart
<1>2. /\ UNCHANGED <<count, motorPeek, taking, copy, taken>>
      /\ pc = "poll" /\ pc' = "copy" /\ full' = endOfBuffer
  BY DEF PollStart
<1>3. TypeOK'
  BY <1>1, <1>2 DEF BufferInv, TypeOK
<1>4. FlagAndOffsets' /\ FlagRead'
  BY <1>1, <1>2 DEF BufferInv, FlagAndOffsets, FlagRead
<1>5. Running'
  BY <1>1, <1>2 DEF BufferInv, Running, Polling
<1> QED BY <1>3, <1>4, <1>5 DEF BufferInv

\* A poll never asks for more than there is.
LEMMA PollFinds ==
  ASSUME BufferInv, pc = "copy"
  PROVE  GetLength(full) = held /\ taking \in 1 .. FrameSize /\ taking <= held
<1>1. full <=> endOfBuffer
  BY DEF BufferInv, FlagRead
<1>2. GetLength(full) = GetLength(endOfBuffer)
  BY <1>1 DEF GetLength
<1>3. GetLength(full) = held
  BY <1>2, LengthIsHeld
<1>4. held \in Nat /\ count \in Nat
  BY OffsetsFit DEF BufferInv, TypeOK
<1> QED BY <1>3, <1>4, OffsetsFit DEF BufferInv, Running, Polling

LEMMA CopyHasLength ==
  ASSUME NEW number \in Nat
  PROVE  Len(FromDataOut(number)) = number /\ DOMAIN FromDataOut(number) = 1 .. number
<1> DEFINE values == {buffer[Cell(i)] : i \in 1 .. number}
<1>1. FromDataOut(number) \in [1 .. number -> values]
  BY DEF FromDataOut, Cell
<1>2. FromDataOut(number) \in UNION {[1 .. m -> values] : m \in Nat}
  BY <1>1, Zenon
<1>3. FromDataOut(number) \in Seq(values)
  BY <1>2, SeqDef
<1>4. DOMAIN FromDataOut(number) = 1 .. number
  BY <1>1
<1> QED BY <1>3, <1>4, LenProperties

LEMMA CopyHasType ==
  ASSUME TypeOK, NEW number \in 0 .. length
  PROVE  FromDataOut(number) \in Seq(Bytes)
<1>1. ASSUME NEW i \in 1 .. number PROVE buffer[Cell(i)] \in Bytes
  <2>1. Cell(i) \in 0 .. length - 1
    BY OffsetsFit DEF Cell, Wrapped
  <2> QED BY <2>1 DEF TypeOK
<1>2. FromDataOut(number) \in [1 .. number -> Bytes]
  BY <1>1 DEF FromDataOut, Cell
<1>3. number \in Nat
  BY OffsetsFit
<1>4. FromDataOut(number) \in UNION {[1 .. m -> Bytes] : m \in Nat}
  BY <1>2, <1>3, Zenon
<1> QED BY <1>4, SeqDef

LEMMA PollCopyKeeps == ASSUME BufferInv, PollCopy PROVE BufferInv'
<1>1. UNCHANGED <<buffer, dataIn, dataOut, endOfBuffer, held>> /\ Between' = Between
  BY SameBuffer DEF PollCopy
<1>2. /\ UNCHANGED <<motorPeek, full, taken, count, taking>>
      /\ pc = "copy" /\ pc' = "clear" /\ copy' = FromDataOut(taking)
  <2>1. pc = "copy"
    BY DEF PollCopy
  <2>2. GetLength(full) >= taking
    BY <2>1, PollFinds, OffsetsFit DEF BufferInv, TypeOK
  <2> QED BY <2>1, <2>2 DEF PollCopy
<1>3. copy' \in Seq(Bytes)
  <2>1. taking \in 0 .. length
    BY <1>2, PollFinds, OffsetsFit DEF BufferInv
  <2> QED BY <1>2, <2>1, CopyHasType DEF BufferInv
<1>4. TypeOK'
  BY <1>1, <1>2, <1>3 DEF BufferInv, TypeOK
<1>5. FlagAndOffsets' /\ FlagRead'
  BY <1>1, <1>2 DEF BufferInv, FlagAndOffsets, FlagRead
<1>6. Running'
  BY <1>1, <1>2 DEF BufferInv, Running, Polling
<1> QED BY <1>4, <1>5, <1>6 DEF BufferInv

LEMMA PollClearKeeps == ASSUME BufferInv, PollClear PROVE BufferInv'
<1>1. /\ UNCHANGED <<buffer, dataIn, dataOut, count, motorPeek, full, taking, copy, taken, held>>
      /\ pc = "clear" /\ pc' = "advance" /\ endOfBuffer' = FALSE
  BY DEF PollClear
<1>2. AtLeastOne' = AtLeastOne /\ dataOut < length
  BY <1>1 DEF BufferInv, FlagAndOffsets, AtLeastOne, Between, Distance, Wrapped
<1>3. held >= 1 /\ held = AtLeastOne
  <2>1. held \in Nat /\ count \in Nat /\ count <= held /\ count >= FrameSize
    BY <1>1, OffsetsFit DEF BufferInv, TypeOK, Running, Polling
  <2>2. held >= 1
    BY <2>1, OffsetsFit DEF BufferInv
  <2>3. CASE endOfBuffer
    <3>1. Between = 0 /\ held = length
      BY <1>1, <1>2, <2>3, OffsetsFit DEF BufferInv, FlagAndOffsets, Between, Distance, Wrapped
    <3> QED BY <2>2, <3>1 DEF AtLeastOne
  <2>4. CASE ~endOfBuffer
    BY <1>1, <2>2, <2>4 DEF BufferInv, FlagAndOffsets, AtLeastOne
  <2> QED BY <2>3, <2>4
<1>4. TypeOK'
  BY <1>1 DEF BufferInv, TypeOK
<1>5. FlagAndOffsets' /\ FlagRead'
  BY <1>1, <1>2, <1>3 DEF FlagAndOffsets, FlagRead
<1>6. Running'
  BY <1>1 DEF BufferInv, Running, Polling
<1> QED BY <1>4, <1>5, <1>6 DEF BufferInv

LEMMA PollAdvanceKeeps == ASSUME BufferInv, PollAdvance PROVE BufferInv'
<1>1. /\ UNCHANGED <<buffer, dataIn, endOfBuffer, count, motorPeek, full, taking, copy>>
      /\ pc = "advance" /\ pc' = "wrap" /\ dataOut' = dataOut + taking
      /\ taken' = copy /\ held' = held - taking
  BY DEF PollAdvance
<1>2. taking \in 1 .. FrameSize /\ count \in Nat /\ count >= taking /\ count <= held /\ held \in Nat
  BY <1>1, OffsetsFit DEF BufferInv, TypeOK, Running, Polling
<1>3. ~endOfBuffer /\ held = AtLeastOne /\ dataOut < length
  BY <1>1 DEF BufferInv, FlagAndOffsets
<1>4. Between' = held - taking
  BY <1>1, <1>2, <1>3, OffsetsFit DEF BufferInv, AtLeastOne, Between, Distance, Wrapped
<1>5. TypeOK'
  <2>1. held' \in 0 .. length /\ dataOut' \in 0 .. length - 1 + FrameSize
    BY <1>1, <1>2, <1>3, OffsetsFit DEF BufferInv, TypeOK
  <2> QED BY <1>1, <2>1 DEF BufferInv, TypeOK
<1>6. FlagAndOffsets' /\ FlagRead'
  BY <1>1, <1>3, <1>4 DEF FlagAndOffsets, FlagRead
<1>7. Running'
  <2>1. count' <= held' + taking'
    BY <1>1, <1>2
  <2> QED BY <1>1, <2>1 DEF BufferInv, Running, Polling
<1> QED BY <1>5, <1>6, <1>7 DEF BufferInv

LEMMA PollWrapKeeps == ASSUME BufferInv, PollWrap PROVE BufferInv'
<1>1. /\ UNCHANGED <<buffer, dataIn, endOfBuffer, motorPeek, full, taken, held>>
      /\ pc = "wrap" /\ pc' = "loop" /\ dataOut' = Wrapped(dataOut)
      /\ count' = count - taking /\ taking' = 0 /\ copy' = <<>>
  BY DEF PollWrap
<1>2. taking \in 1 .. FrameSize /\ count \in Nat /\ count >= taking /\ count <= length
      /\ count <= held + taking /\ held \in Nat
  BY <1>1, OffsetsFit DEF BufferInv, TypeOK, Running, Polling
<1>3. Between' = Between /\ dataOut' \in 0 .. length - 1 /\ dataOut' < length
  BY <1>1, OffsetsFit DEF BufferInv, Between, Wrapped
<1>4. TypeOK'
  <2>1. count' \in 0 .. length /\ dataOut' \in 0 .. length - 1 + FrameSize /\ copy' \in Seq(Bytes)
    BY <1>1, <1>2, <1>3, OffsetsFit, EmptySeq DEF BufferInv
  <2> QED BY <1>1, <2>1 DEF BufferInv, TypeOK
<1>5. FlagAndOffsets' /\ FlagRead'
  BY <1>1, <1>3 DEF BufferInv, FlagAndOffsets, FlagRead
<1>6. Running'
  <2>1. count' <= held' + 0
    BY <1>1, <1>2
  <2> QED BY <1>1, <2>1 DEF BufferInv, Running, Polling
<1> QED BY <1>4, <1>5, <1>6 DEF BufferInv

LEMMA BufferInvariance == ASSUME Overlap < length PROVE Spec => []BufferInv
<1>1. BufferInv /\ [Next]_vars => BufferInv'
  <2> SUFFICES ASSUME BufferInv, [Next]_vars PROVE BufferInv'
    OBVIOUS
  <2>1. CASE UNCHANGED vars
    BY <2>1 DEF vars, BufferInv, TypeOK, FlagAndOffsets, FlagRead, Running, Polling,
                Between, AtLeastOne, Distance, Wrapped
  <2>2. CASE Receive
    BY <2>2, ReceiveKeeps
  <2>3. CASE DatabaseRun
    BY <2>3, RunStartKeeps, CountBytesKeeps, RunEndKeeps, PeekStartKeeps, PeekKeeps, PollStartKeeps,
       PollCopyKeeps, PollClearKeeps, PollAdvanceKeeps, PollWrapKeeps DEF DatabaseRun
  <2> QED BY <2>1, <2>2, <2>3 DEF Next
<1> QED BY <1>1, BufferInit, PTL DEF Spec

\* The queue that the buffer stands for, in terms of what is held.
StoredShape ==
  /\ Stored = FromDataOut(held)
  /\ Len(Stored) = held
  /\ Stored \in Seq(Bytes)

LEMMA StoredIsHeld == ASSUME BufferInv PROVE StoredShape
<1>1. held \in Nat
  BY OffsetsFit DEF BufferInv, TypeOK
<1>2. held = IF endOfBuffer \/ (pc = "advance" /\ dataIn = dataOut) THEN length ELSE Between
  <2>1. CASE pc = "advance"
    BY <2>1, OffsetsFit DEF BufferInv, FlagAndOffsets, AtLeastOne, Between, Distance, Wrapped
  <2>2. CASE pc # "advance"
    BY <2>2 DEF BufferInv, FlagAndOffsets
  <2> QED BY <2>1, <2>2
<1>3. Stored = FromDataOut(held)
  BY <1>2 DEF Stored, Between
<1>4. FromDataOut(held) \in Seq(Bytes)
  BY CopyHasType DEF BufferInv, TypeOK
<1> QED BY <1>1, <1>3, <1>4, CopyHasLength DEF StoredShape

-----------------------------------------------------------------------------
\* The offsets and counts of the circular buffer and of the loop of database_run.
THEOREM BufferTypeCorrect == ASSUME Overlap < length PROVE Spec => []TypeOK
BY BufferInvariance, PTL DEF BufferInv

\* adt_cbuffer_getLength (adt_cbuffer.h:32) is the number of bytes pushed and not yet polled
\* whenever no poll is under way, if no notification fills the buffer in the middle of one.
THEOREM LengthIsRight == ASSUME Overlap < length PROVE Spec => []LengthIsStored
<1>1. BufferInv => LengthIsStored
  BY LengthIsHeld DEF LengthIsStored
<1> QED BY <1>1, BufferInvariance, PTL

\* communications.c:34: what database_run has counted is still in the buffer when it polls,
\* so that it may ignore what adt_cbuffer_poll returns.
THEOREM CountStaysThere == ASSUME Overlap < length PROVE Spec => []CountedIsThere
<1>1. BufferInv => CountedIsThere
  <2> SUFFICES ASSUME BufferInv PROVE CountedIsThere
    OBVIOUS
  <2> QED BY StoredIsHeld DEF StoredShape, BufferInv, Running, CountedIsThere
<1> QED BY <1>1, BufferInvariance, PTL

-----------------------------------------------------------------------------
(* The refinement: a push that is accepted is the queue's, a poll is the   *)
(* step that moves dataOut, and no other step changes the queue.           *)

\* How far the cells of the queue are from dataIn: those behind it come last.
LEMMA CellsAhead ==
  ASSUME TypeOK, held = Between, held < length, NEW i \in 1 .. length
  PROVE  Distance(dataIn, Cell(i)) = IF i <= held THEN length - held + i - 1 ELSE i - held - 1
<1> DEFINE start == Wrapped(dataOut)
<1>1. /\ start \in Nat /\ start < length /\ dataIn \in Nat /\ dataIn < length
      /\ length \in Nat /\ held \in Nat /\ held < length
  BY OffsetsFit
<1>2. held = IF dataIn < start THEN length - (start - dataIn) ELSE dataIn - start
  BY DEF Between, Distance
<1>3. Cell(i) = IF start + i - 1 >= length THEN start + i - 1 - length ELSE start + i - 1
  BY <1>1 DEF Cell, Wrapped
<1> HIDE DEF start
<1>4. dataIn = IF start + held >= length THEN start + held - length ELSE start + held
  BY <1>1, <1>2
<1>5. CASE i <= held
  BY <1>1, <1>3, <1>4, <1>5 DEF Distance
<1>6. CASE i > held
  BY <1>1, <1>3, <1>4, <1>6 DEF Distance
<1> QED BY <1>1, <1>5, <1>6

\* A push leaves the bytes that are held, and puts its own behind them.
LEMMA PushAppends ==
  ASSUME BufferInv, Overlap < length, NEW chunk \in Chunks, Push(chunk), UNCHANGED pc,
         held + Len(chunk) <= IF pc \in {"sleep", "loop"} THEN Backlog ELSE Overlap
  PROVE  /\ held + Len(chunk) <= length
         /\ \A i \in 1 .. held + Len(chunk) :
              buffer'[Cell(i)] = IF i <= held THEN buffer[Cell(i)] ELSE chunk[i - held]
<1> DEFINE n == Len(chunk)
<1>1. n \in 1 .. length /\ held \in Nat
  BY BufferAssumption DEF BufferInv, TypeOK
<1>2. GetLength(endOfBuffer) + n \in 0 .. length
  BY DEF Push, Fits
<1>3. pc \notin {"sleep", "loop"} => held + n < length
  BY <1>1, BufferAssumption
<1>4. held = Between /\ held + n <= length
  <2> HIDE DEF n
  <2>1. CASE pc \notin {"advance", "wrap"}
    BY <1>1, <1>2, <2>1, LengthIsHeld, OffsetsFit DEF BufferInv, FlagAndOffsets
  <2>2. CASE pc = "advance"
    BY <1>1, <1>3, <2>2, OffsetsFit DEF BufferInv, FlagAndOffsets, AtLeastOne
  <2>3. CASE pc = "wrap"
    BY <1>1, <1>3, <2>3, OffsetsFit DEF BufferInv, FlagAndOffsets
  <2> QED BY <2>1, <2>2, <2>3
<1>5. ASSUME NEW i \in 1 .. held + n
      PROVE  buffer'[Cell(i)] = IF i <= held THEN buffer[Cell(i)] ELSE chunk[i - held]
  <2>0. i \in 1 .. length /\ held < length
    <3> HIDE DEF n
    <3> QED BY <1>1, <1>4, OffsetsFit DEF BufferInv
  <2>1. Cell(i) \in 0 .. length - 1
    <3>1. Wrapped(dataOut) \in 0 .. length - 1 /\ length \in Nat
      BY OffsetsFit DEF BufferInv
    <3> QED BY <2>0, <3>1 DEF Cell, Wrapped
  <2>2. buffer'[Cell(i)] = IF Distance(dataIn, Cell(i)) < n THEN chunk[Distance(dataIn, Cell(i)) + 1]
                           ELSE buffer[Cell(i)]
    BY <2>1 DEF Push
  <2>3. CASE i <= held
    <3>1. ~(Distance(dataIn, Cell(i)) < n)
      <4> HIDE DEF n
      <4>1. length - held + i - 1 >= n
        BY <1>1, <1>4, <2>3, OffsetsFit DEF BufferInv
      <4>2. Distance(dataIn, Cell(i)) = length - held + i - 1
        BY <1>1, <1>4, <2>0, <2>3, CellsAhead, OffsetsFit DEF BufferInv
      <4> QED BY <4>1, <4>2, <1>1, OffsetsFit DEF BufferInv
    <3> QED BY <2>2, <2>3, <3>1
  <2>4. CASE ~(i <= held)
    <3>1. Distance(dataIn, Cell(i)) = i - held - 1
      <4> HIDE DEF n
      <4> QED BY <1>1, <1>4, <2>0, <2>4, CellsAhead, OffsetsFit DEF BufferInv
    <3>2. Distance(dataIn, Cell(i)) < n /\ Distance(dataIn, Cell(i)) + 1 = i - held
      BY <1>1, <2>4, <3>1
    <3> QED BY <2>2, <2>4, <3>2
  <2> QED BY <2>3, <2>4
<1> QED BY <1>4, <1>5

\* What a poll has copied stays the beginning of the queue until dataOut moves on.
Copied == pc \in {"clear", "advance"} => copy = FromDataOut(taking)

RefineInv == BufferInv /\ Copied /\ StoredShape

LEMMA ReceiveKeepsCopy == ASSUME RefineInv, Overlap < length, Receive PROVE Copied'
<1> SUFFICES ASSUME pc \in {"clear", "advance"} PROVE copy' = FromDataOut(taking)'
  BY DEF Receive, Copied
<1>1. PICK chunk \in Chunks :
        /\ held + Len(chunk) <= IF pc \in {"sleep", "loop"} THEN Backlog ELSE Overlap
        /\ Push(chunk)
  BY DEF Receive
<1>2. UNCHANGED <<pc, copy, taking, dataOut>> /\ copy = FromDataOut(taking)
  BY <1>1 DEF Receive, RefineInv, Copied, Push
<1>3. \A i \in 1 .. held + Len(chunk) :
        buffer'[Cell(i)] = IF i <= held THEN buffer[Cell(i)] ELSE chunk[i - held]
  BY <1>1, <1>2, PushAppends DEF RefineInv
<1>4. taking \in Nat /\ held \in Nat /\ count \in Nat /\ taking <= held /\ Len(chunk) \in Nat
  BY OffsetsFit, BufferAssumption DEF RefineInv, BufferInv, TypeOK, Running, Polling
<1>5. \A i \in 1 .. taking : buffer'[Cell(i)] = buffer[Cell(i)]
  BY <1>3, <1>4
<1>6. FromDataOut(taking)' = [i \in 1 .. taking |-> buffer'[Cell(i)]]
  BY <1>2 DEF FromDataOut, Cell, Wrapped
<1> QED BY <1>2, <1>5, <1>6 DEF FromDataOut, Cell

LEMMA RefineInvariance == ASSUME Overlap < length PROVE Spec => []RefineInv
<1>1. Init => Copied
  BY DEF Init, Copied
<1>2. RefineInv /\ [Next]_vars => Copied'
  <2> SUFFICES ASSUME RefineInv, [Next]_vars PROVE Copied'
    OBVIOUS
  <2>1. CASE Receive
    BY <2>1, ReceiveKeepsCopy
  <2>2. CASE PollCopy
    BY <2>2 DEF PollCopy, bufferVars, Copied, FromDataOut, Wrapped
  <2>3. CASE PollClear
    BY <2>3 DEF PollClear, RefineInv, Copied, FromDataOut, Wrapped
  <2>4. CASE UNCHANGED vars
    BY <2>4 DEF vars, RefineInv, Copied, FromDataOut, Wrapped
  <2>5. CASE RunStart \/ CountBytes \/ RunEnd \/ PeekStart \/ Peek \/ PollStart \/ PollAdvance \/ PollWrap
    BY <2>5 DEF RunStart, CountBytes, RunEnd, PeekStart, Peek, PollStart, PollAdvance, PollWrap, Copied
  <2> QED BY <2>1, <2>2, <2>3, <2>4, <2>5 DEF Next, DatabaseRun
<1>3. BufferInv => StoredShape
  BY StoredIsHeld
<1> QED BY <1>1, <1>2, <1>3, BufferInvariance, PTL DEF Spec, RefineInv

LEMMA ReceiveIsPush ==
  ASSUME RefineInv, RefineInv', Overlap < length, Receive
  PROVE  \E chunk \in Chunks : Queue!Push(chunk)
<1>1. PICK chunk \in Chunks :
        /\ held + Len(chunk) <= IF pc \in {"sleep", "loop"} THEN Backlog ELSE Overlap
        /\ Push(chunk)
  BY DEF Receive
<1>2. UNCHANGED <<pc, taken>> /\ held' = held + Len(chunk) /\ dataOut' = dataOut
  BY <1>1 DEF Receive, Push
<1>3. /\ held + Len(chunk) <= length
      /\ \A i \in 1 .. held + Len(chunk) :
           buffer'[Cell(i)] = IF i <= held THEN buffer[Cell(i)] ELSE chunk[i - held]
  BY <1>1, <1>2, PushAppends DEF RefineInv
<1>4. Stored = FromDataOut(held) /\ Len(Stored) = held /\ held \in Nat
  BY OffsetsFit DEF RefineInv, StoredShape, BufferInv, TypeOK
<1>5. Stored' = FromDataOut(held)' /\ Len(Stored') = held'
  BY DEF RefineInv, StoredShape
<1>6. chunk \in Seq(Bytes) /\ Len(chunk) \in Nat
  BY BufferAssumption, LenProperties
<1>7. Stored \in Seq(Bytes) /\ Stored' \in Seq(Bytes)
  BY DEF RefineInv, StoredShape
<1>8. Stored' = [i \in 1 .. held + Len(chunk) |-> buffer'[Cell(i)]]
  BY <1>2, <1>5 DEF FromDataOut, Cell, Wrapped
<1>9. Stored' = Stored \o chunk
  <2>1. /\ Stored \o chunk \in Seq(Bytes)
        /\ Len(Stored \o chunk) = held + Len(chunk)
        /\ \A i \in 1 .. held + Len(chunk) :
             (Stored \o chunk)[i] = IF i <= held THEN Stored[i] ELSE chunk[i - held]
    <3>1. /\ Stored \o chunk \in Seq(Bytes)
          /\ Len(Stored \o chunk) = Len(Stored) + Len(chunk)
          /\ \A i \in 1 .. Len(Stored) + Len(chunk) :
               (Stored \o chunk)[i] = IF i <= Len(Stored) THEN Stored[i] ELSE chunk[i - Len(Stored)]
      BY <1>6, <1>7, ConcatProperties
    <3>2. Len(Stored) = held
      BY <1>4
    <3> QED BY <3>1, <3>2
  <2>2. ASSUME NEW i \in 1 .. held + Len(chunk) PROVE Stored'[i] = (Stored \o chunk)[i]
    <3>1. Stored'[i] = IF i <= held THEN buffer[Cell(i)] ELSE chunk[i - held]
      BY <1>3, <1>8
    <3>2. i <= held => Stored[i] = buffer[Cell(i)]
      BY <1>4, <1>6 DEF FromDataOut, Cell
    <3> QED BY <2>1, <3>1, <3>2
  <2> QED BY <1>2, <1>5, <1>7, <2>1, <2>2, SeqEqual
<1>10. Len(Stored) + Len(chunk) <= length
  BY <1>3, <1>4
<1> QED BY <1>2, <1>9, <1>10 DEF Queue!Push

LEMMA AdvanceIsPoll ==
  ASSUME RefineInv, RefineInv', PollAdvance
  PROVE  \E number \in {1, FrameSize} : Queue!Poll(number)
<1>1. /\ UNCHANGED <<buffer, dataIn, endOfBuffer, count, motorPeek, full, taking, copy>>
      /\ pc = "advance" /\ pc' = "wrap" /\ dataOut' = dataOut + taking
      /\ taken' = copy /\ held' = held - taking
  BY DEF PollAdvance
<1>2. taking \in {1, FrameSize} /\ taking \in 1 .. FrameSize /\ taking <= held /\ held \in 0 .. length
      /\ dataOut < length
  BY <1>1, OffsetsFit DEF RefineInv, BufferInv, TypeOK, Running, Polling, FlagAndOffsets
<1>3. Stored = FromDataOut(held) /\ Len(Stored) = held /\ Stored \in Seq(Bytes)
  BY DEF RefineInv, StoredShape
<1>4. Stored' = FromDataOut(held)' /\ Len(Stored') = held - taking /\ Stored' \in Seq(Bytes)
  BY <1>1 DEF RefineInv, StoredShape
<1>5. \A i \in 1 .. held : Stored[i] = buffer[Cell(i)] /\ Stored[i] \in Bytes
  BY <1>3, ElementOfSeq DEF FromDataOut, Cell
<1>6. taken' = SubSeq(Stored, 1, taking)
  <2>1. copy = FromDataOut(taking) /\ copy \in Seq(Bytes) /\ Len(copy) = taking
    BY <1>1, <1>2, CopyHasLength, OffsetsFit DEF RefineInv, Copied, BufferInv, TypeOK
  <2>2. /\ SubSeq(Stored, 1, taking) \in Seq(Bytes)
        /\ Len(SubSeq(Stored, 1, taking)) = taking
        /\ \A i \in 1 .. taking : SubSeq(Stored, 1, taking)[i] = Stored[i]
    <3>1. \A i \in 1 .. taking : Stored[i] \in Bytes
      BY <1>2, <1>5
    <3>2. /\ SubSeq(Stored, 1, taking) \in Seq(Bytes)
          /\ Len(SubSeq(Stored, 1, taking)) = IF 1 <= taking THEN taking - 1 + 1 ELSE 0
          /\ \A i \in 1 .. taking - 1 + 1 : SubSeq(Stored, 1, taking)[i] = Stored[1 + i - 1]
      BY <1>2, <3>1, SubSeqProperties
    <3> QED BY <1>2, <3>2
  <2>3. \A i \in 1 .. taking : copy[i] = buffer[Cell(i)]
    BY <2>1 DEF FromDataOut, Cell
  <2>4. \A i \in 1 .. taking : copy[i] = SubSeq(Stored, 1, taking)[i]
    BY <1>2, <1>5, <2>2, <2>3
  <2> QED BY <1>1, <2>1, <2>2, <2>4, SeqEqual
<1>7. Stored' = SubSeq(Stored, taking + 1, Len(Stored))
  <2>1. /\ SubSeq(Stored, taking + 1, held) \in Seq(Bytes)
        /\ Len(SubSeq(Stored, taking + 1, held)) = held - taking
        /\ \A i \in 1 .. held - taking : SubSeq(Stored, taking + 1, held)[i] = Stored[taking + i]
    <3>1. \A i \in taking + 1 .. held : Stored[i] \in Bytes
      BY <1>2, <1>5
    <3>2. /\ SubSeq(Stored, taking + 1, held) \in Seq(Bytes)
          /\ Len(SubSeq(Stored, taking + 1, held))
               = IF taking + 1 <= held THEN held - (taking + 1) + 1 ELSE 0
          /\ \A i \in 1 .. held - (taking + 1) + 1 :
               SubSeq(Stored, taking + 1, held)[i] = Stored[taking + 1 + i - 1]
      BY <1>2, <3>1, SubSeqProperties
    <3> QED BY <1>2, <3>2
  <2>2. ASSUME NEW i \in 1 .. held - taking
        PROVE  Stored'[i] = SubSeq(Stored, taking + 1, held)[i]
    <3>1. Stored'[i] = buffer[Wrapped(Wrapped(dataOut + taking) + i - 1)]
      BY <1>1, <1>4 DEF FromDataOut, Wrapped
    <3>2. Wrapped(Wrapped(dataOut + taking) + i - 1) = Cell(taking + i)
      BY <1>2, OffsetsFit DEF RefineInv, BufferInv, Cell, Wrapped
    <3>3. taking + i \in 1 .. held
      BY <1>2
    <3> QED BY <1>5, <2>1, <3>1, <3>2, <3>3
  <2> QED BY <1>3, <1>4, <2>1, <2>2, SeqEqual
<1>8. taking <= Len(Stored)
  BY <1>2, <1>3
<1> QED BY <1>2, <1>6, <1>7, <1>8 DEF Queue!Poll

LEMMA OthersStutter ==
  ASSUME RefineInv, RefineInv', [Next]_vars, ~Receive, ~PollAdvance
  PROVE  UNCHANGED <<Stored, taken>>
<1>1. UNCHANGED <<buffer, held, taken>> /\ Wrapped(dataOut)' = Wrapped(dataOut)
  <2>1. CASE PollWrap
    <3>1. UNCHANGED <<buffer, held, taken>> /\ dataOut' = Wrapped(dataOut)
      BY <2>1 DEF PollWrap
    <3> QED BY <3>1, OffsetsFit DEF RefineInv, BufferInv, Wrapped
  <2>2. CASE ~PollWrap
    BY <2>2 DEF Next, DatabaseRun, RunStart, CountBytes, RunEnd, PeekStart, Peek, PollStart, PollCopy,
                PollClear, bufferVars, vars, Wrapped
  <2> QED BY <2>1, <2>2
<1>2. FromDataOut(held)' = FromDataOut(held)
  <2>1. FromDataOut(held)' = [i \in 1 .. held' |-> buffer'[Wrapped(Wrapped(dataOut)' + i - 1)]]
    BY DEF FromDataOut, Wrapped
  <2> QED BY <1>1, <2>1 DEF FromDataOut
<1> QED BY <1>1, <1>2 DEF RefineInv, StoredShape

\* The circular buffer of adt_cbuffer.c implements ByteQueue, the queue that adt_cbuffer.h
\* describes, for a writer that comes in between any two accesses of a poll.
THEOREM BufferImplementsQueue == ASSUME Overlap < length PROVE Spec => BufferIsQueue
<1>1. Init => Queue!Init
  <2> SUFFICES ASSUME Init PROVE Stored = <<>> /\ taken = <<>>
    BY DEF Queue!Init
  <2>1. Stored = FromDataOut(0) /\ Len(Stored) = 0
    BY BufferInit, StoredIsHeld DEF Init, StoredShape
  <2>2. Stored \in Seq(Bytes)
    BY <2>1, CopyHasType, BufferInit, OffsetsFit DEF BufferInv
  <2> QED BY <2>1, <2>2, EmptySeq DEF Init
<1>2. RefineInv /\ RefineInv' /\ [Next]_vars => [Queue!Next]_<<Stored, taken>>
  <2> SUFFICES ASSUME RefineInv, RefineInv', [Next]_vars PROVE [Queue!Next]_<<Stored, taken>>
    OBVIOUS
  <2>1. CASE Receive
    BY <2>1, ReceiveIsPush DEF Queue!Next
  <2>2. CASE PollAdvance
    BY <2>2, AdvanceIsPoll DEF Queue!Next
  <2>3. CASE ~Receive /\ ~PollAdvance
    BY <2>3, OthersStutter
  <2> QED BY <2>1, <2>2, <2>3
<1> QED BY <1>1, <1>2, RefineInvariance, PTL DEF Spec, BufferIsQueue, Queue!Spec

-----------------------------------------------------------------------------
(* The commands *)

Entries == AllCommands \cup {"NONE"}

\* An index into the ring, which never goes twice around it.
LEMMA ModOnce ==
  ASSUME NEW m \in Nat, m > 0, NEW x \in Nat, x < m + m
  PROVE  x % m = IF x < m THEN x ELSE x - m
<1>1. CASE x < m
  BY <1>1, SMT
<1>2. CASE ~(x < m)
  <2>1. x - m \in Nat /\ x - m < m
    BY <1>2
  <2>2. (x - m) % m = x - m
    BY <2>1, SMT
  <2>3. x % m = (x - m) % m
    BY <1>2, <2>1, SMT
  <2> QED BY <1>2, <2>2, <2>3
<1> QED BY <1>1, <1>2

LEMMA RingSize == MAX_NUMBER_OF_COMMANDS \in Nat /\ MAX_NUMBER_OF_COMMANDS > 0
BY RingAssumption

AroundRing(x) == x % MAX_NUMBER_OF_COMMANDS

LEMMA AroundOnce ==
  ASSUME NEW x \in Nat, x < MAX_NUMBER_OF_COMMANDS + MAX_NUMBER_OF_COMMANDS
  PROVE  AroundRing(x) = IF x < MAX_NUMBER_OF_COMMANDS THEN x ELSE x - MAX_NUMBER_OF_COMMANDS
BY RingSize, ModOnce DEF AroundRing

LEMMA AroundSum ==
  \A a, b \in Nat :
    a < MAX_NUMBER_OF_COMMANDS /\ b <= MAX_NUMBER_OF_COMMANDS =>
      AroundRing(a + b) = IF a + b < MAX_NUMBER_OF_COMMANDS
                            THEN a + b ELSE a + b - MAX_NUMBER_OF_COMMANDS
<1> SUFFICES ASSUME NEW a \in Nat, NEW b \in Nat,
                    a < MAX_NUMBER_OF_COMMANDS, b <= MAX_NUMBER_OF_COMMANDS
             PROVE  AroundRing(a + b) = IF a + b < MAX_NUMBER_OF_COMMANDS
                                          THEN a + b ELSE a + b - MAX_NUMBER_OF_COMMANDS
  OBVIOUS
<1>1. a + b \in Nat /\ a + b < MAX_NUMBER_OF_COMMANDS + MAX_NUMBER_OF_COMMANDS
  BY RingSize
<1> QED BY <1>1, RingSize, AroundOnce

-----------------------------------------------------------------------------
\* Where the n-th command of the queue is.
Place(n) == AroundRing(cmdIdxUse + n - 1)

\* A command is in execution exactly when cmd points to a slot; the slots between
\* cmdIdxUse and cmdIdxStore hold the commands that wait.
RingInv ==
  /\ RingTypeOK
  /\ CommandIsKept
  /\ cmd = NullSlot <=> started = "NONE"
  /\ cmdIdxStore = AroundRing(cmdIdxUse + cmdCount)
  /\ \A n \in 1 .. cmdCount : cmdBuffer[Place(n)] \in AllCommands

LEMMA RingNumbers ==
  ASSUME RingTypeOK
  PROVE  /\ cmdIdxStore \in Nat /\ cmdIdxStore < MAX_NUMBER_OF_COMMANDS
         /\ cmdIdxUse \in Nat /\ cmdIdxUse < MAX_NUMBER_OF_COMMANDS
         /\ cmdCount \in Nat /\ cmdCount <= MAX_NUMBER_OF_COMMANDS
         /\ cmdBuffer \in [Slots -> Entries]
BY RingSize DEF RingTypeOK, Slots, Entries

LEMMA PlaceIsSlot ==
  ASSUME RingTypeOK, NEW n \in 1 .. MAX_NUMBER_OF_COMMANDS
  PROVE  /\ Place(n) \in Slots
         /\ Place(n) = IF cmdIdxUse + n - 1 < MAX_NUMBER_OF_COMMANDS
                         THEN cmdIdxUse + n - 1 ELSE cmdIdxUse + n - 1 - MAX_NUMBER_OF_COMMANDS
<1>1. cmdIdxUse + n - 1 \in Nat /\ cmdIdxUse + n - 1 < MAX_NUMBER_OF_COMMANDS + MAX_NUMBER_OF_COMMANDS
  BY RingNumbers, RingSize
<1>2. Place(n) = IF cmdIdxUse + n - 1 < MAX_NUMBER_OF_COMMANDS
                   THEN cmdIdxUse + n - 1 ELSE cmdIdxUse + n - 1 - MAX_NUMBER_OF_COMMANDS
  BY <1>1, RingNumbers, RingSize, AroundOnce DEF Place
<1> QED BY <1>1, <1>2, RingNumbers, RingSize DEF Slots

LEMMA AdvancedIsNext ==
  ASSUME NEW index \in Slots
  PROVE  /\ Advanced(index) \in Slots
         /\ Advanced(index) = IF index + 1 = MAX_NUMBER_OF_COMMANDS THEN 0 ELSE index + 1
<1>1. index \in Nat /\ index < MAX_NUMBER_OF_COMMANDS
  BY RingSize DEF Slots
<1>2. Advanced(index) = IF index + 1 < MAX_NUMBER_OF_COMMANDS
                          THEN index + 1 ELSE index + 1 - MAX_NUMBER_OF_COMMANDS
  BY <1>1, RingSize, ModOnce DEF Advanced
<1> QED BY <1>1, <1>2, RingSize DEF Slots

\* The slot to store to, in numbers: it is the one behind the last command.
LEMMA StoreIsBehind ==
  ASSUME RingInv
  PROVE  cmdIdxStore = IF cmdIdxUse + cmdCount < MAX_NUMBER_OF_COMMANDS
                         THEN cmdIdxUse + cmdCount ELSE cmdIdxUse + cmdCount - MAX_NUMBER_OF_COMMANDS
<1>1. cmdIdxUse + cmdCount \in Nat
      /\ cmdIdxUse + cmdCount < MAX_NUMBER_OF_COMMANDS + MAX_NUMBER_OF_COMMANDS
  BY RingNumbers, RingSize DEF RingInv
<1> QED BY <1>1, RingNumbers, RingSize, AroundOnce DEF RingInv

-----------------------------------------------------------------------------
(* What command_addToBuffer and command_run do to the queue *)

InRingShape ==
  /\ InRing \in Seq(AllCommands)
  /\ Len(InRing) = cmdCount
  /\ \A n \in 1 .. cmdCount : InRing[n] = cmdBuffer[Place(n)]

LEMMA InRingIsSeq == ASSUME RingInv PROVE InRingShape
<1>1. InRing = [n \in 1 .. cmdCount |-> cmdBuffer[Place(n)]]
  BY DEF InRing, Place, AroundRing
<1>2. cmdCount \in Nat
  BY RingNumbers DEF RingInv
<1>3. InRing \in [1 .. cmdCount -> AllCommands]
  BY <1>1 DEF RingInv
<1>4. InRing \in Seq(AllCommands)
  BY <1>2, <1>3, SeqDef
<1> QED BY <1>1, <1>2, <1>3, <1>4, LenProperties DEF InRingShape

LEMMA AddKeepsRing ==
  ASSUME RingInv, NEW command \in AllCommands, AddToBuffer(command), cmdIdxUse' = cmdIdxUse
  PROVE  /\ cmdBuffer' \in [Slots -> Entries]
         /\ cmdIdxStore' \in Slots
         /\ cmdCount' \in 0 .. MAX_NUMBER_OF_COMMANDS
         /\ cmdIdxStore' = AroundRing(cmdIdxUse' + cmdCount')
         /\ \A n \in 1 .. cmdCount' :
              cmdBuffer'[Place(n)'] = IF n <= cmdCount THEN cmdBuffer[Place(n)] ELSE command
         /\ cmdCount' = IF cmdCount < MAX_NUMBER_OF_COMMANDS THEN cmdCount + 1 ELSE cmdCount
<1>1. CASE ~(cmdCount < MAX_NUMBER_OF_COMMANDS)
  <2>1. UNCHANGED <<cmdBuffer, cmdIdxStore, cmdCount>>
    BY <1>1 DEF AddToBuffer
  <2>2. \A n \in 1 .. cmdCount : n <= cmdCount
    BY RingNumbers DEF RingInv
  <2>3. cmdIdxStore \in Slots /\ cmdCount \in 0 .. MAX_NUMBER_OF_COMMANDS
    BY DEF RingInv, RingTypeOK
  <2> QED BY <1>1, <2>1, <2>2, <2>3, RingNumbers DEF RingInv, Place
<1>2. CASE cmdCount < MAX_NUMBER_OF_COMMANDS
  <2>1. /\ cmdBuffer' = [cmdBuffer EXCEPT ![cmdIdxStore] = command]
        /\ cmdIdxStore' = Advanced(cmdIdxStore)
        /\ cmdCount' = cmdCount + 1
    BY <1>2 DEF AddToBuffer
  <2>2. cmdBuffer' \in [Slots -> Entries]
    BY <2>1, RingNumbers DEF RingInv, Entries
  <2>3. cmdIdxStore \in Slots
    BY DEF RingInv, RingTypeOK
  <2>4. cmdIdxStore' \in Slots /\ cmdCount' \in 0 .. MAX_NUMBER_OF_COMMANDS
    BY <1>2, <2>1, <2>3, AdvancedIsNext, RingNumbers, RingSize DEF RingInv
  <2>5. cmdIdxStore' = AroundRing(cmdIdxUse' + cmdCount')
    <3>1. /\ cmdIdxUse + (cmdCount + 1) \in Nat
          /\ cmdIdxUse + (cmdCount + 1) < MAX_NUMBER_OF_COMMANDS + MAX_NUMBER_OF_COMMANDS
      BY <1>2, RingNumbers, RingSize DEF RingInv
    <3>2. AroundRing(cmdIdxUse + (cmdCount + 1))
            = IF cmdIdxUse + (cmdCount + 1) < MAX_NUMBER_OF_COMMANDS
                THEN cmdIdxUse + (cmdCount + 1)
                ELSE cmdIdxUse + (cmdCount + 1) - MAX_NUMBER_OF_COMMANDS
      BY <3>1, RingNumbers, RingSize, AroundOnce DEF RingInv
    <3>3. Advanced(cmdIdxStore)
            = IF cmdIdxStore + 1 = MAX_NUMBER_OF_COMMANDS THEN 0 ELSE cmdIdxStore + 1
      BY <2>3, AdvancedIsNext
    <3>4. Advanced(cmdIdxStore) = AroundRing(cmdIdxUse + (cmdCount + 1))
      BY <1>2, <2>3, <3>2, <3>3, StoreIsBehind, RingNumbers, RingSize DEF RingInv
    <3> QED BY <2>1, <3>4
  <2>6. ASSUME NEW n \in 1 .. cmdCount'
        PROVE  cmdBuffer'[Place(n)'] = IF n <= cmdCount THEN cmdBuffer[Place(n)] ELSE command
    <3>1. n \in 1 .. MAX_NUMBER_OF_COMMANDS
      BY <2>1, <1>2, RingNumbers, RingSize DEF RingInv
    <3>2. Place(n)' = Place(n) /\ Place(n) \in Slots
      BY <3>1, PlaceIsSlot DEF RingInv, Place
    <3>3. n <= cmdCount <=> Place(n) # cmdIdxStore
      BY <1>2, <2>1, <3>1, PlaceIsSlot, StoreIsBehind, RingNumbers, RingSize DEF RingInv
    <3> QED BY <2>1, <3>2, <3>3, RingNumbers DEF RingInv
  <2> QED BY <1>2, <2>1, <2>2, <2>4, <2>5, <2>6
<1> QED BY <1>1, <1>2

LEMMA AddIsBuffered ==
  ASSUME RingInv, InRingShape, InRingShape', NEW command \in AllCommands, AddToBuffer(command),
         cmdIdxUse' = cmdIdxUse
  PROVE  InRing' = Commanded!Buffered(command)
<1>1. /\ InRing \in Seq(AllCommands) /\ Len(InRing) = cmdCount
      /\ \A n \in 1 .. cmdCount : InRing[n] = cmdBuffer[Place(n)]
  BY DEF InRingShape
<1>2. /\ InRing' \in Seq(AllCommands) /\ Len(InRing') = cmdCount'
      /\ \A n \in 1 .. cmdCount' : InRing'[n] = cmdBuffer'[Place(n)']
  BY DEF InRingShape
<1>3. /\ \A n \in 1 .. cmdCount' :
           InRing'[n] = IF n <= cmdCount THEN cmdBuffer[Place(n)] ELSE command
      /\ cmdCount' = IF cmdCount < MAX_NUMBER_OF_COMMANDS THEN cmdCount + 1 ELSE cmdCount
  BY <1>2, AddKeepsRing
<1>4. cmdCount \in Nat
  BY RingNumbers DEF RingInv
<1>5. CASE cmdCount < MAX_NUMBER_OF_COMMANDS
  <2>1. /\ Append(InRing, command) \in Seq(AllCommands)
        /\ Len(Append(InRing, command)) = cmdCount + 1
        /\ \A n \in 1 .. cmdCount : Append(InRing, command)[n] = InRing[n]
        /\ Append(InRing, command)[cmdCount + 1] = command
    BY <1>1, AppendProperties
  <2>2. ASSUME NEW n \in 1 .. cmdCount + 1 PROVE InRing'[n] = Append(InRing, command)[n]
    <3>1. n \in 1 .. cmdCount \/ n = cmdCount + 1
      BY <1>4
    <3> QED BY <1>1, <1>3, <1>4, <1>5, <2>1, <3>1
  <2>3. InRing' = Append(InRing, command)
    BY <1>2, <1>3, <1>5, <2>1, <2>2, SeqEqual
  <2> QED BY <1>1, <1>5, <2>3 DEF Commanded!Buffered
<1>6. CASE ~(cmdCount < MAX_NUMBER_OF_COMMANDS)
  <2>1. \A n \in 1 .. cmdCount : InRing'[n] = InRing[n]
    BY <1>1, <1>3, <1>4, <1>6
  <2>2. InRing' = InRing
    BY <1>1, <1>2, <1>3, <1>6, <2>1, SeqEqual
  <2> QED BY <1>1, <1>6, <2>2 DEF Commanded!Buffered
<1> QED BY <1>5, <1>6

\* The places of the commands move up by one when the first one is taken.
LEMMA StartMovesPlaces ==
  ASSUME RingInv, CommandStart
  PROVE  /\ cmdIdxUse' \in Slots
         /\ cmdCount' = cmdCount - 1 /\ cmdCount' \in 0 .. MAX_NUMBER_OF_COMMANDS
         /\ cmdIdxStore = AroundRing(cmdIdxUse' + cmdCount')
         /\ \A n \in 1 .. cmdCount' : Place(n)' = Place(n + 1)
         /\ cmdIdxUse = Place(1)
<1>1. cmdIdxUse' = Advanced(cmdIdxUse) /\ cmdCount' = cmdCount - 1 /\ cmdCount # 0
  BY DEF CommandStart
<1>2. cmdIdxUse \in Slots
  BY DEF RingInv, RingTypeOK
<1>3. /\ cmdIdxUse' \in Slots
      /\ cmdIdxUse' = IF cmdIdxUse + 1 = MAX_NUMBER_OF_COMMANDS THEN 0 ELSE cmdIdxUse + 1
  BY <1>1, <1>2, AdvancedIsNext
<1>4. cmdCount' \in 0 .. MAX_NUMBER_OF_COMMANDS /\ cmdCount >= 1
  BY <1>1, RingNumbers, RingSize DEF RingInv
<1>5. cmdIdxStore = AroundRing(cmdIdxUse' + cmdCount')
  <2>0. /\ cmdIdxUse' \in Nat /\ cmdIdxUse' < MAX_NUMBER_OF_COMMANDS
        /\ cmdCount' \in Nat /\ cmdCount' <= MAX_NUMBER_OF_COMMANDS
    BY <1>3, <1>4, RingSize DEF Slots
  <2>2. AroundRing(cmdIdxUse' + cmdCount')
          = IF cmdIdxUse' + cmdCount' < MAX_NUMBER_OF_COMMANDS
              THEN cmdIdxUse' + cmdCount' ELSE cmdIdxUse' + cmdCount' - MAX_NUMBER_OF_COMMANDS
    BY <2>0, AroundSum, Zenon
  <2> QED BY <1>1, <1>3, <1>4, <2>2, StoreIsBehind, RingNumbers, RingSize DEF RingInv
<1>6. ASSUME NEW n \in 1 .. cmdCount' PROVE Place(n)' = Place(n + 1)
  <2>1. n \in Nat /\ n >= 1 /\ n + 1 \in 1 .. MAX_NUMBER_OF_COMMANDS
    BY <1>1, <1>4, RingNumbers, RingSize DEF RingInv
  <2>2. Place(n + 1) = IF cmdIdxUse + n < MAX_NUMBER_OF_COMMANDS
                         THEN cmdIdxUse + n ELSE cmdIdxUse + n - MAX_NUMBER_OF_COMMANDS
    BY <2>1, PlaceIsSlot, RingNumbers DEF RingInv
  <2>3. /\ cmdIdxUse' + n - 1 \in Nat
        /\ cmdIdxUse' + n - 1 < MAX_NUMBER_OF_COMMANDS + MAX_NUMBER_OF_COMMANDS
    BY <1>3, <2>1, RingSize DEF Slots
  <2>4. Place(n)' = IF cmdIdxUse' + n - 1 < MAX_NUMBER_OF_COMMANDS
                      THEN cmdIdxUse' + n - 1 ELSE cmdIdxUse' + n - 1 - MAX_NUMBER_OF_COMMANDS
    BY <1>3, <2>1, <2>3, RingSize, AroundOnce DEF Place, Slots
  <2> QED BY <1>3, <2>1, <2>2, <2>4, RingNumbers, RingSize DEF RingInv
<1>7. cmdIdxUse = Place(1)
  BY PlaceIsSlot, RingNumbers, RingSize DEF RingInv
<1> QED BY <1>1, <1>3, <1>4, <1>5, <1>6, <1>7

LEMMA StartIsTake ==
  ASSUME RingInv, InRingShape, InRingShape', CommandStart
  PROVE  Commanded!Take
<1>1. /\ InRing \in Seq(AllCommands) /\ Len(InRing) = cmdCount
      /\ \A n \in 1 .. cmdCount : InRing[n] = cmdBuffer[Place(n)]
  BY DEF InRingShape
<1>2. /\ InRing' \in Seq(AllCommands) /\ Len(InRing') = cmdCount'
      /\ \A n \in 1 .. cmdCount' : InRing'[n] = cmdBuffer'[Place(n)']
  BY DEF InRingShape
<1>3. /\ cmdCount \in Nat /\ cmdCount >= 1 /\ cmdCount' = cmdCount - 1
      /\ cmdBuffer' = cmdBuffer /\ started' = cmdBuffer[cmdIdxUse] /\ started = "NONE"
  BY RingNumbers DEF RingInv, CommandStart
<1>4. InRing # <<>>
  BY <1>1, <1>3, EmptySeq
<1>5. started' = Head(InRing)
  BY <1>1, <1>3, <1>4, StartMovesPlaces, HeadTailProperties
<1>6. InRing' = Tail(InRing)
  <2>1. /\ Tail(InRing) \in Seq(AllCommands) /\ Len(Tail(InRing)) = cmdCount - 1
        /\ \A n \in 1 .. cmdCount - 1 : Tail(InRing)[n] = InRing[n + 1]
    BY <1>1, <1>4, HeadTailProperties
  <2>2. ASSUME NEW n \in 1 .. cmdCount - 1 PROVE InRing'[n] = Tail(InRing)[n]
    <3>1. n + 1 \in 1 .. cmdCount
      BY <1>3
    <3> QED BY <1>1, <1>2, <1>3, <2>1, <3>1, StartMovesPlaces
  <2> QED BY <1>2, <1>3, <2>1, <2>2, SeqEqual
<1> QED BY <1>3, <1>4, <1>5, <1>6 DEF Commanded!Take

-----------------------------------------------------------------------------
LEMMA RingInitInv == RingInit => RingInv
<1> SUFFICES ASSUME RingInit PROVE RingInv
  OBVIOUS
<1>1. 0 \in Slots /\ NullSlot \notin Slots /\ 0 \in 0 .. MAX_NUMBER_OF_COMMANDS
  BY RingSize DEF Slots, NullSlot
<1>2. AroundRing(0 + 0) = 0
  BY RingSize, AroundOnce
<1>3. RingTypeOK
  BY <1>1 DEF RingInit, RingTypeOK
<1>4. 1 .. 0 = {}
  OBVIOUS
<1> QED BY <1>2, <1>3, <1>4 DEF RingInit, RingInv, CommandIsKept

LEMMA RingStep == RingInv /\ [RingNext]_ringVars => RingInv'
<1> SUFFICES ASSUME RingInv, [RingNext]_ringVars PROVE RingInv'
  OBVIOUS
<1>0. NullSlot \notin Slots
  BY RingSize DEF Slots, NullSlot
<1>1. CASE StateMachine
  <2>1. PICK command \in Commands : AddToBuffer(command)
    BY <1>1 DEF StateMachine
  <2>2. command \in AllCommands /\ UNCHANGED <<cmdIdxUse, cmd, started>> /\ cmd = NullSlot
    BY <1>1 DEF StateMachine, AllCommands
  <2>3. RingTypeOK'
    BY <2>1, <2>2, AddKeepsRing DEF RingInv, RingTypeOK, Entries
  <2>4. \A n \in 1 .. cmdCount' : cmdBuffer'[Place(n)'] \in AllCommands
    <3> SUFFICES ASSUME NEW n \in 1 .. cmdCount' PROVE cmdBuffer'[Place(n)'] \in AllCommands
      OBVIOUS
    <3>1. n <= cmdCount => n \in 1 .. cmdCount
      BY <2>3, RingNumbers DEF RingInv, RingTypeOK
    <3> QED BY <2>1, <2>2, <3>1, AddKeepsRing DEF RingInv
  <2> QED BY <2>1, <2>2, <2>3, <2>4, AddKeepsRing DEF RingInv, CommandIsKept, NullSlot
<1>2. CASE CommandStart
  <2>1. /\ UNCHANGED <<cmdBuffer, cmdIdxStore>> /\ cmd' = cmdIdxUse
        /\ started' = cmdBuffer[cmdIdxUse] /\ cmdCount # 0
    BY <1>2 DEF CommandStart
  <2>2. cmdBuffer[cmdIdxUse] \in AllCommands
    <3>1. 1 \in 1 .. cmdCount
      BY <2>1, RingNumbers DEF RingInv
    <3> QED BY <1>2, <3>1, StartMovesPlaces DEF RingInv
  <2>3. cmdIdxUse \in Slots
    BY DEF RingInv, RingTypeOK
  <2>4. RingTypeOK'
    BY <1>2, <2>1, <2>2, <2>3, StartMovesPlaces DEF RingInv, RingTypeOK, Slots, NullSlot
  <2>5. \A n \in 1 .. cmdCount' : cmdBuffer'[Place(n)'] \in AllCommands
    <3> SUFFICES ASSUME NEW n \in 1 .. cmdCount' PROVE cmdBuffer'[Place(n)'] \in AllCommands
      OBVIOUS
    <3>1. n + 1 \in 1 .. cmdCount
      BY <1>2, StartMovesPlaces, RingNumbers DEF RingInv
    <3> QED BY <1>2, <2>1, <3>1, StartMovesPlaces DEF RingInv
  <2>6. (cmd = NullSlot)' <=> (started = "NONE")'
    BY <1>0, <2>1, <2>2, <2>3, RingAssumption DEF AllCommands, NullSlot
  <2> QED BY <1>2, <2>1, <2>4, <2>5, <2>6, StartMovesPlaces DEF RingInv, CommandIsKept
<1>3. CASE RequestStop
  <2>1. AddToBuffer("STOP") /\ cmd' = NullSlot /\ started' = "NONE" /\ UNCHANGED cmdIdxUse
    BY <1>3 DEF RequestStop
  <2>2. "STOP" \in AllCommands
    BY DEF AllCommands
  <2>3. RingTypeOK'
    BY <2>1, <2>2, AddKeepsRing DEF RingInv, RingTypeOK, Entries, NullSlot
  <2>4. \A n \in 1 .. cmdCount' : cmdBuffer'[Place(n)'] \in AllCommands
    <3> SUFFICES ASSUME NEW n \in 1 .. cmdCount' PROVE cmdBuffer'[Place(n)'] \in AllCommands
      OBVIOUS
    <3>1. n <= cmdCount => n \in 1 .. cmdCount
      BY <2>3, RingNumbers DEF RingInv, RingTypeOK
    <3> QED BY <2>1, <2>2, <3>1, AddKeepsRing DEF RingInv
  <2> QED BY <2>1, <2>2, <2>3, <2>4, AddKeepsRing DEF RingInv, CommandIsKept, NullSlot
<1>4. CASE Finish
  BY <1>4 DEF Finish, RingInv, RingTypeOK, CommandIsKept, NullSlot, Place, Slots, AllCommands
<1>5. CASE RingFlush
  <2>1. /\ cmd' = NullSlot /\ started' = "NONE" /\ cmdCount' = 0 /\ cmdIdxUse' = 0
        /\ cmdIdxStore' = 0 /\ UNCHANGED cmdBuffer
    BY <1>5 DEF RingFlush
  <2>2. 0 \in Slots /\ 0 \in 0 .. MAX_NUMBER_OF_COMMANDS
    BY RingSize DEF Slots
  <2>3. RingTypeOK'
    BY <2>1, <2>2 DEF RingInv, RingTypeOK, NullSlot, Slots, AllCommands
  <2>4. AroundRing(0 + 0) = 0
    BY RingSize, AroundOnce
  <2>5. 1 .. 0 = {}
    OBVIOUS
  <2> QED BY <2>1, <2>3, <2>4, <2>5 DEF RingInv, CommandIsKept, NullSlot
<1>6. CASE UNCHANGED ringVars
  BY <1>6 DEF ringVars, RingInv, RingTypeOK, CommandIsKept, NullSlot, Place, Slots, AllCommands
<1> QED BY <1>1, <1>2, <1>3, <1>4, <1>5, <1>6 DEF RingNext

LEMMA RingInvariance == RingSpec => []RingInv
BY RingInitInv, RingStep, PTL DEF RingSpec

\* commands.c: indices and counter of the ring of commands, for every size of it.
THEOREM RingTypeCorrect == RingSpec => []RingTypeOK
<1>1. RingInv => RingTypeOK
  BY DEF RingInv
<1> QED BY <1>1, RingInvariance, PTL

\* command_run hands out a pointer to a slot that counts as free: nothing is stored in
\* the slot while the pointer is in use.
THEOREM ExecutedCommandIsKept == RingSpec => []CommandIsKept
<1>1. RingInv => CommandIsKept
  BY DEF RingInv
<1> QED BY <1>1, RingInvariance, PTL

\* commands.c implements the bounded queue that HookCommands takes it for, whatever the
\* size of the ring: first in, first out, each command once, and dropped only when full.
THEOREM RingImplementsQueue == RingSpec => RingIsQueue
<1>1. RingInit => Commanded!Init
  <2> SUFFICES ASSUME RingInit PROVE InRing = <<>> /\ started = "NONE"
    BY DEF Commanded!Init
  <2>1. InRing \in Seq(AllCommands) /\ Len(InRing) = 0
    BY RingInitInv, InRingIsSeq DEF RingInit, InRingShape
  <2> QED BY <2>1, EmptySeq DEF RingInit
<1>2. RingInv => InRingShape
  BY InRingIsSeq
<1>3. RingInv /\ InRingShape /\ InRingShape' /\ [RingNext]_ringVars => [Commanded!Next]_<<InRing, started>>
  <2> SUFFICES ASSUME RingInv, InRingShape, InRingShape', [RingNext]_ringVars
               PROVE  [Commanded!Next]_<<InRing, started>>
    OBVIOUS
  <2>1. CASE StateMachine
    <3>1. PICK command \in Commands : AddToBuffer(command)
      BY <2>1 DEF StateMachine
    <3>2. command \in AllCommands /\ UNCHANGED <<cmdIdxUse, started>>
      BY <2>1 DEF StateMachine, AllCommands
    <3>3. Commanded!Add
      BY <3>1, <3>2, AddIsBuffered DEF Commanded!Add
    <3> QED BY <3>3 DEF Commanded!Next
  <2>2. CASE CommandStart
    BY <2>2, StartIsTake DEF Commanded!Next
  <2>3. CASE RequestStop
    <3>1. AddToBuffer("STOP") /\ started' = "NONE" /\ UNCHANGED cmdIdxUse /\ "STOP" \in AllCommands
      BY <2>3 DEF RequestStop, AllCommands
    <3>2. Commanded!Add
      BY <3>1, AddIsBuffered DEF Commanded!Add
    <3> QED BY <3>2 DEF Commanded!Next
  <2>4. CASE Finish
    BY <2>4 DEF Finish, InRing, Commanded!Next, Commanded!End
  <2>5. CASE RingFlush
    <3>1. cmdCount' = 0 /\ started' = "NONE"
      BY <2>5 DEF RingFlush
    <3>2. InRing' \in Seq(AllCommands) /\ Len(InRing') = cmdCount'
      BY DEF InRingShape
    <3>3. InRing' = <<>>
      BY <3>1, <3>2, EmptySeq
    <3> QED BY <3>1, <3>3 DEF Commanded!Next, Commanded!Flush
  <2>6. CASE UNCHANGED ringVars
    BY <2>6 DEF ringVars, InRing
  <2> QED BY <2>1, <2>2, <2>3, <2>4, <2>5, <2>6 DEF RingNext
<1> QED BY <1>1, <1>2, <1>3, RingInvariance, PTL DEF RingSpec, RingIsQueue, Commanded!Spec
==============================================================================
