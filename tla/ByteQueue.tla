------------------------------ MODULE ByteQueue ------------------------------
(***************************************************************************)
(* What inc/adt_cbuffer.h promises to one writer and one reader: a queue   *)
(* of at most length bytes. A push that does not fit is refused as a       *)
(* whole, a poll takes the oldest bytes.                                   *)
(***************************************************************************)
EXTENDS Naturals, Sequences

CONSTANTS
  length,   \* capacity
  Chunks,   \* what the writer may push at once
  Counts    \* how many bytes the reader may poll at once

VARIABLES
  queue,
  taken     \* what the latest poll returned

Init == queue = <<>> /\ taken = <<>>

Push(chunk) ==
  /\ Len(queue) + Len(chunk) <= length
  /\ queue' = queue \o chunk
  /\ UNCHANGED taken

Poll(count) ==
  /\ count <= Len(queue)
  /\ taken' = SubSeq(queue, 1, count)
  /\ queue' = SubSeq(queue, count + 1, Len(queue))

Next == (\E chunk \in Chunks : Push(chunk)) \/ (\E count \in Counts : Poll(count))

Spec == Init /\ [][Next]_<<queue, taken>>
=============================================================================
