--------------------------- MODULE UartBridge_proof ---------------------------
(***************************************************************************)
(* Theorems about UartBridge and BleTx, for any heap and any requests.     *)
(***************************************************************************)
EXTENDS UartBridge, SequenceTheorems, TLAPS

\* TypeOK, with the Boolean variables apart from the others.
Flags == link \in BOOLEAN /\ disable_req \in BOOLEAN /\ work \in BOOLEAN

BlocksOK ==
  /\ free \subseteq Blocks
  /\ fifo \in Seq(Blocks)
  /\ tx \in Pointers /\ buf \in Pointers /\ flying \in Pointers
  /\ rxBuf \in Pointers /\ rxNext \in Pointers

ThreadsOK ==
  /\ pc \in {"get", "send", "wait"}
  /\ sem \in {0, 1}
  /\ rx \in {"on", "disabling", "off"}

DataOK ==
  /\ data \in [Blocks -> Contents]
  /\ latest \in Contents \cup {"none"}

\* A receiver that is off has no block.
OffHasNone == rx = "off" => rxBuf = NoBlock

\* OneOwner, with the sequence apart from the sets.
Distinct == \A i, j \in 1 .. Len(fifo) : fifo[i] = fifo[j] => i = j

Apart ==
  /\ Queued \cap (free \cup Receiving \cup Sending) = {}
  /\ Receiving \cap (free \cup Sending) = {}
  /\ free \cap Sending = {}
  /\ rxBuf = rxNext => rxBuf = NoBlock
  /\ WriterOwns => buf \notin {tx, NoBlock}

NoneLost == Blocks = free \cup Queued \cup Receiving \cup Sending

BridgeInv ==
  /\ Flags /\ BlocksOK /\ ThreadsOK /\ DataOK
  /\ OneInFlight /\ ReceiverComesBack /\ OffHasNone
  /\ Distinct /\ Apart /\ NoneLost

LEMMA InvParts ==
  BridgeInv <=> TypeOK /\ OneInFlight /\ ReceiverComesBack /\ OneOwner /\ OffHasNone
BY DEF BridgeInv, Flags, BlocksOK, ThreadsOK, DataOK, TypeOK, OneOwner, Distinct, Apart, NoneLost

-----------------------------------------------------------------------------
(* k_fifo_put and k_fifo_get, on the blocks in the fifo. *)

Members(s) == {s[i] : i \in 1 .. Len(s)}

Different(s) == \A i, j \in 1 .. Len(s) : s[i] = s[j] => i = j

LEMMA PutMembers ==
  ASSUME NEW s \in Seq(Blocks), NEW b \in Blocks
  PROVE  /\ Append(s, b) \in Seq(Blocks)
         /\ Members(Append(s, b)) = Members(s) \cup {b}
         /\ Different(s) /\ b \notin Members(s) => Different(Append(s, b))
<1>1. /\ Append(s, b) \in Seq(Blocks)
      /\ Len(s) \in Nat
      /\ Len(Append(s, b)) = Len(s) + 1
      /\ \A i \in 1 .. Len(s) + 1 : Append(s, b)[i] = IF i = Len(s) + 1 THEN b ELSE s[i]
  OBVIOUS
<1>2. Members(Append(s, b)) = Members(s) \cup {b}
  BY <1>1 DEF Members
<1>3. ASSUME Different(s), b \notin Members(s)
      PROVE  Different(Append(s, b))
  BY <1>1, <1>3 DEF Different, Members
<1> QED BY <1>1, <1>2, <1>3

LEMMA GetMembers ==
  ASSUME NEW s \in Seq(Blocks), s # <<>>
  PROVE  /\ Head(s) \in Members(s)
         /\ Head(s) \in Blocks
         /\ Tail(s) \in Seq(Blocks)
         /\ Different(s) => /\ Members(Tail(s)) = Members(s) \ {Head(s)}
                            /\ Different(Tail(s))
<1>1. /\ Tail(s) \in Seq(Blocks)
      /\ Len(s) \in Nat /\ Len(s) >= 1
      /\ Len(Tail(s)) = Len(s) - 1
      /\ \A i \in 1 .. Len(s) - 1 : Tail(s)[i] = s[i + 1]
      /\ Head(s) = s[1] /\ s[1] \in Blocks
  OBVIOUS
<1>2. Head(s) \in Members(s)
  BY <1>1 DEF Members
<1>3. ASSUME Different(s)
      PROVE  Members(Tail(s)) = Members(s) \ {Head(s)}
  <2>1. ASSUME NEW b \in Members(Tail(s)) PROVE b \in Members(s) \ {Head(s)}
    <3>1. PICK i \in 1 .. Len(s) - 1 : b = s[i + 1]
      BY <1>1, <2>1 DEF Members
    <3>2. i + 1 \in 1 .. Len(s) /\ i + 1 # 1 /\ 1 \in 1 .. Len(s)
      BY <1>1
    <3> QED BY <1>1, <1>3, <3>1, <3>2 DEF Members, Different
  <2>2. ASSUME NEW b \in Members(s), b # Head(s) PROVE b \in Members(Tail(s))
    <3>1. PICK i \in 1 .. Len(s) : b = s[i]
      BY <2>2 DEF Members
    <3>2. i - 1 \in 1 .. Len(s) - 1 /\ Tail(s)[i - 1] = s[i]
      BY <1>1, <2>2, <3>1
    <3> QED BY <1>1, <3>1, <3>2 DEF Members
  <2> QED BY <2>1, <2>2
<1>4. ASSUME Different(s)
      PROVE  Different(Tail(s))
  <2> SUFFICES ASSUME NEW i \in 1 .. Len(Tail(s)), NEW j \in 1 .. Len(Tail(s)),
                      Tail(s)[i] = Tail(s)[j]
               PROVE  i = j
    BY DEF Different
  <2>1. i + 1 \in 1 .. Len(s) /\ j + 1 \in 1 .. Len(s) /\ s[i + 1] = s[j + 1]
    BY <1>1
  <2> QED BY <1>4, <2>1 DEF Different
<1> QED BY <1>1, <1>2, <1>3, <1>4

LEMMA FifoParts == Queued = Members(fifo) /\ (Distinct <=> Different(fifo))
BY DEF Queued, Members, Distinct, Different

-----------------------------------------------------------------------------
(* The steps of sendBLE, of ble_write_thread and of ble_data_sent *)

LEMMA SendMallocKeeps ==
  ASSUME BridgeInv, NEW request \in Requests, SendMalloc(request), UNCHANGED uartVars
  PROVE  BridgeInv'
<1> USE DEF uartVars, writerVars
<1>1. Flags'
  BY Zenon DEF SendMalloc, BridgeInv, Flags
<1>2. BlocksOK'
  BY SMT DEF SendMalloc, BridgeInv, BlocksOK, ThreadsOK, OneInFlight, Pointers
<1>3. ThreadsOK'
  BY SMT DEF SendMalloc, BridgeInv, ThreadsOK
<1>4. DataOK'
  BY SMT DEF SendMalloc, BridgeInv, DataOK, BlocksOK, Pointers, Contents, Texts
<1>5. OneInFlight'
  BY SMT DEF SendMalloc, BridgeInv, OneInFlight, ThreadsOK
<1>6. ReceiverComesBack' /\ OffHasNone'
  BY Zenon DEF SendMalloc, BridgeInv, ReceiverComesBack, OffHasNone
<1>7. Distinct' /\ Queued' = Queued
  <2>1. UNCHANGED fifo
    BY DEF SendMalloc
  <2> QED BY <2>1, Zenon DEF BridgeInv, Distinct, Queued
<1>8. Apart' /\ NoneLost'
  BY <1>7, TxAssumption, SMT DEF SendMalloc, BridgeInv, Apart, NoneLost, Receiving, Sending, WriterOwns,
     OneInFlight, ThreadsOK, BlocksOK, Pointers, OffHasNone, ReceiverComesBack
<1> QED BY <1>1, <1>2, <1>3, <1>4, <1>5, <1>6, <1>7, <1>8 DEF BridgeInv

LEMMA SendPutKeeps ==
  ASSUME BridgeInv, SendPut, UNCHANGED uartVars
  PROVE  BridgeInv'
<1> USE DEF uartVars, writerVars
<1>1. Flags'
  BY Zenon DEF SendPut, BridgeInv, Flags
<1>2. BlocksOK'
  BY PutMembers, SMT DEF SendPut, BridgeInv, BlocksOK, ThreadsOK, OneInFlight, Pointers
<1>3. ThreadsOK'
  BY SMT DEF SendPut, BridgeInv, ThreadsOK
<1>4. DataOK'
  BY SMT DEF SendPut, BridgeInv, DataOK, BlocksOK, Pointers, Contents, Texts
<1>5. OneInFlight'
  BY SMT DEF SendPut, BridgeInv, OneInFlight, ThreadsOK
<1>6. ReceiverComesBack' /\ OffHasNone'
  BY Zenon DEF SendPut, BridgeInv, ReceiverComesBack, OffHasNone
<1>7. Distinct' /\ Queued' = Queued \cup {tx}
  <2>1. tx \in Blocks /\ tx \notin Queued
    BY TxAssumption DEF SendPut, BridgeInv, BlocksOK, Pointers, Apart, Sending
  <2>2. fifo' = Append(fifo, tx)
    BY DEF SendPut
  <2>3. Members(fifo') = Queued \cup {tx} /\ Different(fifo')
    BY <2>1, <2>2, FifoParts, PutMembers DEF BridgeInv, BlocksOK
  <2> QED BY <2>3, FifoParts DEF Queued, Members, Distinct, Different
<1>8. Apart' /\ NoneLost'
  <2>1. UNCHANGED <<free, rxBuf, rxNext, buf, Receiving>> /\ (WriterOwns' <=> WriterOwns)
    BY DEF SendPut, Receiving, WriterOwns
  <2>2. Sending = Sending' \cup {tx} /\ tx \notin Sending'
    BY <2>1 DEF SendPut, BridgeInv, Apart, Sending
  <2>3. /\ Queued' \cap (free \cup Receiving \cup Sending') = {}
        /\ Receiving \cap (free \cup Sending') = {}
        /\ free \cap Sending' = {}
        /\ Blocks = free \cup Queued' \cup Receiving \cup Sending'
    BY <1>7, <2>2, SMT DEF BridgeInv, Apart, NoneLost
  <2>4. (rxBuf = rxNext => rxBuf = NoBlock) /\ (WriterOwns => buf # NoBlock)
    BY DEF BridgeInv, Apart
  <2>5. WriterOwns => buf \notin {tx', NoBlock}
    BY <2>4 DEF SendPut
  <2> QED BY <2>1, <2>3, <2>4, <2>5, Zenon DEF Apart, NoneLost
<1> QED BY <1>1, <1>2, <1>3, <1>4, <1>5, <1>6, <1>7, <1>8 DEF BridgeInv

LEMMA WriterGetKeeps ==
  ASSUME BridgeInv, WriterGet, UNCHANGED uartVars
  PROVE  BridgeInv'
<1> USE DEF uartVars, writerVars
<1>1. Flags'
  BY Zenon DEF WriterGet, BridgeInv, Flags
<1>2. BlocksOK'
  BY GetMembers, SMT DEF WriterGet, BridgeInv, BlocksOK, ThreadsOK, OneInFlight, Pointers
<1>3. ThreadsOK'
  BY SMT DEF WriterGet, BridgeInv, ThreadsOK
<1>4. DataOK'
  BY SMT DEF WriterGet, BridgeInv, DataOK, BlocksOK, Pointers, Contents, Texts
<1>5. OneInFlight'
  BY SMT DEF WriterGet, BridgeInv, OneInFlight, ThreadsOK
<1>6. ReceiverComesBack' /\ OffHasNone'
  BY Zenon DEF WriterGet, BridgeInv, ReceiverComesBack, OffHasNone
<1>7. Distinct' /\ Queued' = Queued \ {Head(fifo)} /\ Head(fifo) \in Queued /\ Head(fifo) \in Blocks
  <2>1. fifo' = Tail(fifo) /\ fifo # <<>>
    BY DEF WriterGet
  <2>2. /\ Members(fifo') = Queued \ {Head(fifo)} /\ Different(fifo')
        /\ Head(fifo) \in Queued /\ Head(fifo) \in Blocks
    BY <2>1, FifoParts, GetMembers DEF BridgeInv, BlocksOK
  <2> QED BY <2>2, FifoParts DEF Queued, Members, Distinct, Different
<1>8. Apart' /\ NoneLost'
  BY <1>7, TxAssumption, SMT DEF WriterGet, BridgeInv, Apart, NoneLost, Receiving, Sending, WriterOwns,
     OneInFlight, ThreadsOK, BlocksOK, Pointers, OffHasNone, ReceiverComesBack
<1> QED BY <1>1, <1>2, <1>3, <1>4, <1>5, <1>6, <1>7, <1>8 DEF BridgeInv

LEMMA WriterSendKeeps ==
  ASSUME BridgeInv, WriterSend, UNCHANGED uartVars
  PROVE  BridgeInv'
<1> USE DEF uartVars, writerVars
<1>1. Flags'
  BY Zenon DEF WriterSend, BridgeInv, Flags
<1>2. BlocksOK'
  BY SMT DEF WriterSend, BridgeInv, BlocksOK, ThreadsOK, OneInFlight, Pointers
<1>3. ThreadsOK'
  BY SMT DEF WriterSend, BridgeInv, ThreadsOK
<1>4. DataOK'
  BY SMT DEF WriterSend, BridgeInv, DataOK, BlocksOK, Pointers, Contents, Texts
<1>5. OneInFlight'
  BY SMT DEF WriterSend, BridgeInv, OneInFlight, ThreadsOK
<1>6. ReceiverComesBack' /\ OffHasNone'
  BY Zenon DEF WriterSend, BridgeInv, ReceiverComesBack, OffHasNone
<1>7. Distinct' /\ Queued' = Queued
  <2>1. UNCHANGED fifo
    BY DEF WriterSend
  <2> QED BY <2>1, Zenon DEF BridgeInv, Distinct, Queued
<1>8. Apart' /\ NoneLost'
  BY <1>7, TxAssumption, SMT DEF WriterSend, BridgeInv, Apart, NoneLost, Receiving, Sending, WriterOwns,
     OneInFlight, ThreadsOK, BlocksOK, Pointers, OffHasNone, ReceiverComesBack
<1> QED BY <1>1, <1>2, <1>3, <1>4, <1>5, <1>6, <1>7, <1>8 DEF BridgeInv

LEMMA WriterWaitKeeps ==
  ASSUME BridgeInv, WriterWait, UNCHANGED uartVars
  PROVE  BridgeInv'
<1> USE DEF uartVars, writerVars
<1>1. Flags'
  BY Zenon DEF WriterWait, BridgeInv, Flags
<1>2. BlocksOK'
  BY SMT DEF WriterWait, BridgeInv, BlocksOK, ThreadsOK, OneInFlight, Pointers
<1>3. ThreadsOK'
  BY SMT DEF WriterWait, BridgeInv, ThreadsOK
<1>4. DataOK'
  BY SMT DEF WriterWait, BridgeInv, DataOK, BlocksOK, Pointers, Contents, Texts
<1>5. OneInFlight'
  BY SMT DEF WriterWait, BridgeInv, OneInFlight, ThreadsOK
<1>6. ReceiverComesBack' /\ OffHasNone'
  BY Zenon DEF WriterWait, BridgeInv, ReceiverComesBack, OffHasNone
<1>7. Distinct' /\ Queued' = Queued
  <2>1. UNCHANGED fifo
    BY DEF WriterWait
  <2> QED BY <2>1, Zenon DEF BridgeInv, Distinct, Queued
<1>8. Apart' /\ NoneLost'
  BY <1>7, TxAssumption, SMT DEF WriterWait, BridgeInv, Apart, NoneLost, Receiving, Sending, WriterOwns,
     OneInFlight, ThreadsOK, BlocksOK, Pointers, OffHasNone, ReceiverComesBack
<1> QED BY <1>1, <1>2, <1>3, <1>4, <1>5, <1>6, <1>7, <1>8 DEF BridgeInv

LEMMA DataSentKeeps ==
  ASSUME BridgeInv, DataSent, UNCHANGED uartVars
  PROVE  BridgeInv'
<1> USE DEF uartVars, writerVars
<1>1. Flags'
  BY Zenon DEF DataSent, BridgeInv, Flags
<1>2. BlocksOK'
  BY SMT DEF DataSent, BridgeInv, BlocksOK, ThreadsOK, OneInFlight, Pointers
<1>3. ThreadsOK'
  BY SMT DEF DataSent, BridgeInv, ThreadsOK
<1>4. DataOK'
  BY SMT DEF DataSent, BridgeInv, DataOK, BlocksOK, Pointers, Contents, Texts
<1>5. OneInFlight'
  BY SMT DEF DataSent, BridgeInv, OneInFlight, ThreadsOK
<1>6. ReceiverComesBack' /\ OffHasNone'
  BY Zenon DEF DataSent, BridgeInv, ReceiverComesBack, OffHasNone
<1>7. Distinct' /\ Queued' = Queued
  <2>1. UNCHANGED fifo
    BY DEF DataSent
  <2> QED BY <2>1, Zenon DEF BridgeInv, Distinct, Queued
<1>8. Apart' /\ NoneLost'
  BY <1>7, TxAssumption, SMT DEF DataSent, BridgeInv, Apart, NoneLost, Receiving, Sending, WriterOwns,
     OneInFlight, ThreadsOK, BlocksOK, Pointers, OffHasNone, ReceiverComesBack
<1> QED BY <1>1, <1>2, <1>3, <1>4, <1>5, <1>6, <1>7, <1>8 DEF BridgeInv

LEMMA LinkChangesKeeps ==
  ASSUME BridgeInv, LinkChanges, UNCHANGED uartVars
  PROVE  BridgeInv'
<1> USE DEF uartVars, writerVars
<1>1. Flags'
  BY Zenon DEF LinkChanges, BridgeInv, Flags
<1>2. BlocksOK'
  BY SMT DEF LinkChanges, BridgeInv, BlocksOK, ThreadsOK, OneInFlight, Pointers
<1>3. ThreadsOK'
  BY SMT DEF LinkChanges, BridgeInv, ThreadsOK
<1>4. DataOK'
  BY SMT DEF LinkChanges, BridgeInv, DataOK, BlocksOK, Pointers, Contents, Texts
<1>5. OneInFlight'
  BY SMT DEF LinkChanges, BridgeInv, OneInFlight, ThreadsOK
<1>6. ReceiverComesBack' /\ OffHasNone'
  BY Zenon DEF LinkChanges, BridgeInv, ReceiverComesBack, OffHasNone
<1>7. Distinct' /\ Queued' = Queued
  <2>1. UNCHANGED fifo
    BY DEF LinkChanges
  <2> QED BY <2>1, Zenon DEF BridgeInv, Distinct, Queued
<1>8. Apart' /\ NoneLost'
  BY <1>7, TxAssumption, SMT DEF LinkChanges, BridgeInv, Apart, NoneLost, Receiving, Sending, WriterOwns,
     OneInFlight, ThreadsOK, BlocksOK, Pointers, OffHasNone, ReceiverComesBack
<1> QED BY <1>1, <1>2, <1>3, <1>4, <1>5, <1>6, <1>7, <1>8 DEF BridgeInv

-----------------------------------------------------------------------------
(* The events of the UART driver and uart_work *)

LEMMA RxRdyKeeps ==
  ASSUME BridgeInv, RxRdy
  PROVE  BridgeInv'
<1> USE DEF writerVars
<1>1. Flags'
  BY Zenon DEF RxRdy, BridgeInv, Flags
<1>2. BlocksOK'
  BY SMT DEF RxRdy, BridgeInv, BlocksOK, ThreadsOK, OneInFlight, Pointers
<1>3. ThreadsOK'
  BY SMT DEF RxRdy, BridgeInv, ThreadsOK
<1>4. DataOK'
  BY SMT DEF RxRdy, BridgeInv, DataOK, BlocksOK, Pointers, Contents, Texts
<1>5. OneInFlight'
  BY SMT DEF RxRdy, BridgeInv, OneInFlight, ThreadsOK
<1>6. ReceiverComesBack' /\ OffHasNone'
  BY Zenon DEF RxRdy, BridgeInv, ReceiverComesBack, OffHasNone
<1>7. Distinct' /\ Queued' = Queued
  <2>1. UNCHANGED fifo
    BY DEF RxRdy
  <2> QED BY <2>1, Zenon DEF BridgeInv, Distinct, Queued
<1>8. Apart' /\ NoneLost'
  BY <1>7, TxAssumption, SMT DEF RxRdy, BridgeInv, Apart, NoneLost, Receiving, Sending, WriterOwns,
     OneInFlight, ThreadsOK, BlocksOK, Pointers, OffHasNone, ReceiverComesBack
<1> QED BY <1>1, <1>2, <1>3, <1>4, <1>5, <1>6, <1>7, <1>8 DEF BridgeInv

LEMMA RxBufRequestKeeps ==
  ASSUME BridgeInv, RxBufRequest
  PROVE  BridgeInv'
<1> USE DEF writerVars
<1>1. Flags'
  BY Zenon DEF RxBufRequest, BridgeInv, Flags
<1>2. BlocksOK'
  BY SMT DEF RxBufRequest, BridgeInv, BlocksOK, ThreadsOK, OneInFlight, Pointers
<1>3. ThreadsOK'
  BY SMT DEF RxBufRequest, BridgeInv, ThreadsOK
<1>4. DataOK'
  BY SMT DEF RxBufRequest, BridgeInv, DataOK, BlocksOK, Pointers, Contents, Texts
<1>5. OneInFlight'
  BY SMT DEF RxBufRequest, BridgeInv, OneInFlight, ThreadsOK
<1>6. ReceiverComesBack' /\ OffHasNone'
  BY Zenon DEF RxBufRequest, BridgeInv, ReceiverComesBack, OffHasNone
<1>7. Distinct' /\ Queued' = Queued
  <2>1. UNCHANGED fifo
    BY DEF RxBufRequest
  <2> QED BY <2>1, Zenon DEF BridgeInv, Distinct, Queued
<1>8. Apart' /\ NoneLost'
  BY <1>7, TxAssumption, SMT DEF RxBufRequest, BridgeInv, Apart, NoneLost, Receiving, Sending, WriterOwns,
     OneInFlight, ThreadsOK, BlocksOK, Pointers, OffHasNone, ReceiverComesBack
<1> QED BY <1>1, <1>2, <1>3, <1>4, <1>5, <1>6, <1>7, <1>8 DEF BridgeInv

LEMMA RxBufReleasedKeeps ==
  ASSUME BridgeInv, RxBufReleased
  PROVE  BridgeInv'
<1> USE DEF writerVars
<1>1. Flags'
  BY Zenon DEF RxBufReleased, Release, BridgeInv, Flags
<1>2. /\ rxBuf \in Blocks /\ rxBuf \notin Queued \cup free \cup Sending
      /\ rxNext # rxBuf /\ UNCHANGED <<tx, buf, pc, sem, flying>>
  BY TxAssumption DEF RxBufReleased, BridgeInv, BlocksOK, Pointers, Apart, Receiving
<1>3. /\ Members(fifo) = Queued /\ Different(fifo)
      /\ fifo \in Seq(Blocks)
  BY FifoParts DEF BridgeInv, BlocksOK
<1>4. \/ free' = free \cup {rxBuf} /\ fifo' = fifo
      \/ free' = free /\ fifo' = Append(fifo, rxBuf)
  BY DEF RxBufReleased, Release
<1>5. /\ fifo' \in Seq(Blocks) /\ Different(fifo')
      /\ \/ free' = free \cup {rxBuf} /\ Members(fifo') = Queued
         \/ free' = free /\ Members(fifo') = Queued \cup {rxBuf}
  BY <1>2, <1>3, <1>4, PutMembers
<1>6. BlocksOK'
  BY <1>2, <1>5, SMT DEF RxBufReleased, BridgeInv, BlocksOK, Pointers
<1>7. ThreadsOK' /\ OneInFlight'
  BY <1>2, SMT DEF RxBufReleased, BridgeInv, ThreadsOK, OneInFlight
<1>8. DataOK'
  BY SMT DEF RxBufReleased, BridgeInv, DataOK
<1>9. ReceiverComesBack' /\ OffHasNone'
  BY Zenon DEF RxBufReleased, BridgeInv, ReceiverComesBack, OffHasNone
<1>10. /\ Distinct'
       /\ \/ free' = free \cup {rxBuf} /\ Queued' = Queued
          \/ free' = free /\ Queued' = Queued \cup {rxBuf}
  BY <1>5 DEF Queued, Members, Distinct, Different
<1>11. /\ Sending' = Sending /\ (WriterOwns' <=> WriterOwns)
       /\ Receiving = Receiving' \cup {rxBuf} /\ rxBuf \notin Receiving'
       /\ rxNext' = NoBlock
  BY <1>2, TxAssumption DEF RxBufReleased, Sending, Receiving, WriterOwns
<1>12. Apart' /\ NoneLost'
  <2>1. (WriterOwns => buf \notin {tx, NoBlock}) /\ (rxBuf' = rxNext' => rxBuf' = NoBlock)
    BY <1>11 DEF BridgeInv, Apart
  <2>2. /\ Queued' \cap (free' \cup Receiving' \cup Sending) = {}
        /\ Receiving' \cap (free' \cup Sending) = {}
        /\ free' \cap Sending = {}
        /\ Blocks = free' \cup Queued' \cup Receiving' \cup Sending
    BY <1>2, <1>10, <1>11, SMT DEF BridgeInv, Apart, NoneLost
  <2> QED BY <1>2, <1>11, <2>1, <2>2, Zenon DEF Apart, NoneLost
<1> QED BY <1>1, <1>6, <1>7, <1>8, <1>9, <1>10, <1>12 DEF BridgeInv

\* k_malloc and uart_rx_enable, from the driver's event and from uart_work.
LEMMA EnableKeeps ==
  ASSUME BridgeInv, rxBuf = NoBlock, Enable,
         disable_req' = FALSE \/ (UNCHANGED disable_req /\ rx = "off"),
         UNCHANGED <<fifo, tx, writerVars, rxNext>>
  PROVE  BridgeInv'
<1> USE DEF writerVars
<1>1. \/ /\ rxBuf' \in free /\ free' = free \ {rxBuf'}
         /\ data' = [data EXCEPT ![rxBuf'] = "empty"]
         /\ rx' = "on" /\ work' = FALSE
      \/ UNCHANGED <<free, data, rxBuf>> /\ rx' = "off" /\ work' = TRUE
  BY Zenon DEF Enable
<1>2. Flags'
  BY <1>1, Zenon DEF BridgeInv, Flags
<1>3. ~disable_req'
  BY Zenon DEF BridgeInv, ReceiverComesBack
<1>4. BlocksOK'
  BY <1>1, SMT DEF BridgeInv, BlocksOK, Pointers
<1>5. ThreadsOK' /\ OneInFlight'
  BY <1>1, SMT DEF BridgeInv, ThreadsOK, OneInFlight
<1>6. DataOK'
  BY <1>1, SMT DEF BridgeInv, DataOK, BlocksOK, Contents, Texts
<1>7. rx' = "on" => rxBuf' # NoBlock
  BY <1>1, TxAssumption, SMT DEF BridgeInv, BlocksOK
<1>8. work' <=> rx' = "off"
  BY <1>1, Zenon
<1>9. ReceiverComesBack' /\ OffHasNone'
  BY <1>1, <1>3, <1>7, <1>8, Zenon DEF ReceiverComesBack, OffHasNone
<1>10. Distinct' /\ Queued' = Queued
  <2>1. UNCHANGED fifo
    OBVIOUS
  <2> QED BY <2>1, Zenon DEF BridgeInv, Distinct, Queued
<1>11. Apart' /\ NoneLost'
  BY <1>1, <1>10, TxAssumption, SMT DEF BridgeInv, Apart, NoneLost, Receiving, Sending, WriterOwns,
     BlocksOK, Pointers
<1> QED BY <1>2, <1>4, <1>5, <1>6, <1>9, <1>10, <1>11 DEF BridgeInv

LEMMA RxDisabledKeeps == BridgeInv /\ (RxDisabled \/ UartWork) => BridgeInv'
<1>1. ASSUME BridgeInv, RxDisabled PROVE BridgeInv'
  BY <1>1, EnableKeeps, Zenon DEF RxDisabled
<1>2. ASSUME BridgeInv, UartWork PROVE BridgeInv'
  <2>1. rx = "off" /\ rxBuf = NoBlock
    BY <1>2, Zenon DEF UartWork, BridgeInv, ReceiverComesBack, OffHasNone
  <2> QED BY <1>2, <2>1, EnableKeeps, Zenon DEF UartWork
<1> QED BY <1>1, <1>2

-----------------------------------------------------------------------------
LEMMA InitInv == Init => BridgeInv
<1> SUFFICES ASSUME Init PROVE BridgeInv
  OBVIOUS
<1>1. Flags
  BY Zenon DEF Init, TxInit, Flags
<1>2. BlocksOK
  BY SMT DEF Init, TxInit, BlocksOK, Pointers
<1>3. ThreadsOK /\ OneInFlight
  BY SMT DEF Init, TxInit, ThreadsOK, OneInFlight
<1>4. DataOK
  BY SMT DEF Init, TxInit, DataOK, Contents, Texts
<1>5. ReceiverComesBack /\ OffHasNone
  <2>1. rxBuf # NoBlock
    BY TxAssumption DEF Init
  <2> QED BY <2>1, Zenon DEF Init, ReceiverComesBack, OffHasNone
<1>6. Distinct /\ Queued = {}
  BY SMT DEF Init, TxInit, Distinct, Queued
<1>7. Apart /\ NoneLost
  BY <1>6, TxAssumption, SMT DEF Init, TxInit, Apart, NoneLost, Receiving, Sending, WriterOwns
<1> QED BY <1>1, <1>2, <1>3, <1>4, <1>5, <1>6, <1>7 DEF BridgeInv

LEMMA BridgeInvariant == Spec => []BridgeInv
<1>1. BridgeInv /\ [Next]_vars => BridgeInv'
  <2> SUFFICES ASSUME BridgeInv, [Next]_vars PROVE BridgeInv'
    OBVIOUS
  <2>1. CASE TxNext /\ UNCHANGED uartVars
    BY <2>1, SendMallocKeeps, SendPutKeeps, WriterGetKeeps, WriterSendKeeps, WriterWaitKeeps,
       DataSentKeeps, LinkChangesKeeps, Zenon DEF TxNext, Writer
  <2>2. CASE Uart
    BY <2>2, RxRdyKeeps, RxBufRequestKeeps, RxBufReleasedKeeps, RxDisabledKeeps, Zenon DEF Uart
  <2>3. CASE UNCHANGED vars
    <3> USE <2>3 DEF vars, writerVars, uartVars, BridgeInv
    <3>1. Flags' /\ ReceiverComesBack' /\ OffHasNone'
      BY Zenon DEF Flags, ReceiverComesBack, OffHasNone
    <3>2. BlocksOK' /\ ThreadsOK' /\ DataOK' /\ OneInFlight'
      BY SMT DEF BlocksOK, ThreadsOK, DataOK, OneInFlight
    <3>3. Queued' = Queued /\ Receiving' = Receiving /\ Sending' = Sending /\ (WriterOwns' <=> WriterOwns)
      BY Zenon DEF Queued, Receiving, Sending, WriterOwns
    <3>4. Distinct'
      BY Zenon DEF Distinct
    <3>5. Apart' /\ NoneLost'
      BY <3>3, Zenon DEF Apart, NoneLost
    <3> QED BY <3>1, <3>2, <3>4, <3>5
  <2> QED BY <2>1, <2>2, <2>3 DEF Next
<1> QED BY <1>1, InitInv, PTL DEF Spec

\* The variables of main.c's UART and of its writer thread keep to their values.
THEOREM BridgeTypeCorrect == Spec => []TypeOK
BY BridgeInvariant, InvParts, PTL

\* Every block of the heap has one owner, whatever sendBLE, the writer thread, the UART's
\* interrupts and the stack do in whatever order: none is freed twice, used after it is freed,
\* or lost.
THEOREM BlocksHaveOneOwner == Spec => []OneOwner
BY BridgeInvariant, InvParts, PTL

\* ble_write_thread never sends before the last request is answered, and never takes an
\* answer for that of another request.
THEOREM AnswersMatch == Spec => []OneInFlight
BY BridgeInvariant, InvParts, PTL

\* uart_cb: no order of the driver's events leaves the receiver off for good.
THEOREM ReceiverGoesOn == Spec => []ReceiverComesBack
BY BridgeInvariant, InvParts, PTL

-----------------------------------------------------------------------------
(* The refinement of RequestChannel *)

\* What the blocks of a sequence hold.
Loads(d, s) == [i \in 1 .. Len(s) |-> d[s[i]]]

LEMMA LoadsAreSeq ==
  ASSUME NEW d \in [Blocks -> Contents], NEW s \in Seq(Blocks)
  PROVE  /\ Loads(d, s) \in Seq(Contents)
         /\ Len(Loads(d, s)) = Len(s)
         /\ \A i \in 1 .. Len(s) : Loads(d, s)[i] = d[s[i]]
<1>1. Len(s) \in Nat /\ \A i \in 1 .. Len(s) : s[i] \in Blocks /\ d[s[i]] \in Contents
  OBVIOUS
<1>2. Loads(d, s) \in [1 .. Len(s) -> Contents]
  BY <1>1 DEF Loads
<1>3. Loads(d, s) \in Seq(Contents)
  <2>1. Loads(d, s) \in UNION {[1 .. n -> Contents] : n \in Nat}
    BY <1>1, <1>2, Zenon
  <2> QED BY <2>1, SeqDef
<1>4. Len(Loads(d, s)) = Len(s)
  BY <1>1, <1>2, <1>3
<1> QED BY <1>3, <1>4 DEF Loads

LEMMA LoadsAppend ==
  ASSUME NEW d \in [Blocks -> Contents], NEW s \in Seq(Blocks), NEW b \in Blocks
  PROVE  Loads(d, Append(s, b)) = Append(Loads(d, s), d[b])
<1> DEFINE t == Append(s, b)
           u == Append(Loads(d, s), d[b])
<1>1. /\ t \in Seq(Blocks) /\ Len(t) = Len(s) + 1 /\ Len(s) \in Nat
      /\ \A i \in 1 .. Len(s) + 1 : t[i] = IF i = Len(s) + 1 THEN b ELSE s[i]
  OBVIOUS
<1>2. /\ Loads(d, s) \in Seq(Contents) /\ Len(Loads(d, s)) = Len(s)
      /\ \A i \in 1 .. Len(s) : Loads(d, s)[i] = d[s[i]]
  BY LoadsAreSeq
<1>3. d[b] \in Contents
  OBVIOUS
<1>4. /\ u \in Seq(Contents) /\ Len(u) = Len(s) + 1
      /\ \A i \in 1 .. Len(s) + 1 : u[i] = IF i = Len(s) + 1 THEN d[b] ELSE d[s[i]]
  BY <1>1, <1>2, <1>3
<1>5. /\ Loads(d, t) \in Seq(Contents) /\ Len(Loads(d, t)) = Len(t)
      /\ \A i \in 1 .. Len(t) : Loads(d, t)[i] = d[t[i]]
  BY <1>1, LoadsAreSeq
<1> HIDE DEF t, u
<1>6. \A i \in 1 .. Len(Loads(d, t)) : Loads(d, t)[i] = u[i]
  BY <1>1, <1>4, <1>5
<1>7. Loads(d, t) = u
  BY <1>1, <1>4, <1>5, <1>6, SeqEqual
<1> QED BY <1>7 DEF t, u

LEMMA LoadsFirst ==
  ASSUME NEW d \in [Blocks -> Contents], NEW s \in Seq(Blocks), s # <<>>
  PROVE  Loads(d, s) = <<d[Head(s)]>> \o Loads(d, Tail(s))
<1> DEFINE m == <<d[Head(s)]>>
           u == m \o Loads(d, Tail(s))
<1>1. /\ Tail(s) \in Seq(Blocks) /\ Len(s) \in Nat /\ Len(s) >= 1 /\ Len(Tail(s)) = Len(s) - 1
      /\ \A i \in 1 .. Len(s) - 1 : Tail(s)[i] = s[i + 1]
      /\ Head(s) = s[1] /\ s[1] \in Blocks
  OBVIOUS
<1>2. /\ Loads(d, Tail(s)) \in Seq(Contents) /\ Len(Loads(d, Tail(s))) = Len(s) - 1
      /\ \A i \in 1 .. Len(s) - 1 : Loads(d, Tail(s))[i] = d[Tail(s)[i]]
  BY <1>1, LoadsAreSeq
<1>3. m \in Seq(Contents) /\ Len(m) = 1 /\ m[1] = d[s[1]]
  BY <1>1
<1>4. /\ u \in Seq(Contents) /\ Len(u) = Len(s)
      /\ \A i \in 1 .. Len(s) : u[i] = IF i <= 1 THEN m[i] ELSE Loads(d, Tail(s))[i - 1]
  <2> DEFINE v == Loads(d, Tail(s))
  <2>1. v \in Seq(Contents) /\ Len(v) = Len(s) - 1 /\ Len(s) \in Nat
    BY <1>1, <1>2
  <2> HIDE DEF m, v
  <2>2. /\ m \o v \in Seq(Contents)
        /\ Len(m \o v) = Len(m) + Len(v)
        /\ \A i \in 1 .. Len(m) + Len(v) : (m \o v)[i] = IF i <= Len(m) THEN m[i] ELSE v[i - Len(m)]
    BY <1>3, <2>1, ConcatProperties
  <2>3. /\ m \o v \in Seq(Contents) /\ Len(m \o v) = Len(s)
        /\ \A i \in 1 .. Len(s) : (m \o v)[i] = IF i <= 1 THEN m[i] ELSE v[i - 1]
    BY <1>3, <2>1, <2>2
  <2> QED BY <2>3 DEF v
<1> HIDE DEF m
<1>5. /\ Loads(d, s) \in Seq(Contents) /\ Len(Loads(d, s)) = Len(s)
      /\ \A i \in 1 .. Len(s) : Loads(d, s)[i] = d[s[i]]
  BY LoadsAreSeq
<1> HIDE DEF u
<1>6. ASSUME NEW i \in 1 .. Len(s) PROVE u[i] = d[s[i]]
  <2>1. CASE i = 1
    BY <1>1, <1>3, <1>4, <2>1
  <2>2. CASE i # 1
    <3>1. i - 1 \in 1 .. Len(s) - 1 /\ ~(i <= 1)
      BY <1>1, <2>2
    <3>2. Loads(d, Tail(s))[i - 1] = d[Tail(s)[i - 1]] /\ Tail(s)[i - 1] = s[(i - 1) + 1]
      BY <1>1, <1>2, <3>1
    <3> QED BY <1>4, <3>1, <3>2
  <2> QED BY <2>1, <2>2
<1>7. Loads(d, s) = u
  BY <1>4, <1>5, <1>6, SeqEqual
<1> QED BY <1>7 DEF m, u

LEMMA LoadsSame ==
  ASSUME NEW d, NEW e, NEW s \in Seq(Blocks), \A b \in Members(s) : d[b] = e[b]
  PROVE  Loads(d, s) = Loads(e, s)
BY DEF Loads, Members

\* Putting and answering, on a sequence of messages.
LEMMA PutLast ==
  ASSUME NEW p \in Seq(Contents), NEW q \in Seq(Contents), NEW m \in Contents
  PROVE  p \o Append(q, m) = Append(p \o q, m)
<1>1. <<m>> \in Seq(Contents) /\ Append(q, m) = q \o <<m>>
  BY AppendIsConcat
<1>2. p \o q \in Seq(Contents)
  BY ConcatProperties
<1>3. Append(p \o q, m) = (p \o q) \o <<m>>
  BY <1>2, AppendIsConcat
<1>4. (p \o q) \o <<m>> = p \o (q \o <<m>>)
  BY <1>1, ConcatAssociative
<1> QED BY <1>1, <1>3, <1>4

LEMMA AnswerFirst ==
  ASSUME NEW m \in Contents, NEW q \in Seq(Contents)
  PROVE  <<m>> \o q # <<>> /\ Head(<<m>> \o q) = m /\ Tail(<<m>> \o q) = q
<1> DEFINE u == <<m>> \o q
<1>1. <<m>> \in Seq(Contents) /\ Len(<<m>>) = 1 /\ <<m>>[1] = m
  OBVIOUS
<1>2. /\ u \in Seq(Contents) /\ Len(u) = 1 + Len(q) /\ Len(q) \in Nat
      /\ \A i \in 1 .. 1 + Len(q) : u[i] = IF i <= 1 THEN <<m>>[i] ELSE q[i - 1]
  BY <1>1, ConcatProperties
<1> HIDE DEF u
<1>3. u # <<>> /\ Head(u) = m
  BY <1>1, <1>2
<1>4. /\ Tail(u) \in Seq(Contents) /\ Len(Tail(u)) = Len(q)
      /\ \A i \in 1 .. Len(q) : Tail(u)[i] = u[i + 1]
  BY <1>2, <1>3
<1>5. \A i \in 1 .. Len(q) : Tail(u)[i] = q[i]
  BY <1>2, <1>4
<1>6. Tail(u) = q
  BY <1>4, <1>5, SeqEqual
<1> QED BY <1>3, <1>6 DEF u

\* What the blocks of sendBLE and of the receiver hold.
Written ==
  /\ tx # NoBlock => data[tx] \in Requests
  /\ rxBuf # NoBlock => data[rxBuf] \in Texts \cup {"empty"}
  /\ rxNext # NoBlock => data[rxNext] \in Texts \cup {"empty"}

Own == IF WriterOwns THEN <<data[buf]>> ELSE <<>>

LEMMA FifoBlocks == BridgeInv => Queued \subseteq Blocks
BY DEF BridgeInv, BlocksOK, Queued

LEMMA WaitingIs == Waiting = Own \o Loads(data, fifo)
BY DEF Waiting, Own, Loads

LEMMA WrittenInvariant == Spec => []Written
<1>1. Init => Written
  BY SMT DEF Init, TxInit, Written
<1>2. BridgeInv /\ Written /\ [Next]_vars => Written'
  <2> SUFFICES ASSUME BridgeInv, Written, [Next]_vars PROVE Written'
    OBVIOUS
  <2> USE TxAssumption DEF Written, BridgeInv, BlocksOK, DataOK, Pointers, Contents, writerVars, uartVars
  <2>1. CASE TxNext /\ UNCHANGED uartVars
    <3>1. ASSUME NEW request \in Requests, SendMalloc(request), UNCHANGED uartVars PROVE Written'
      BY <3>1 DEF SendMalloc, Apart, Receiving
    <3>2. CASE SendPut \/ Writer \/ DataSent \/ LinkChanges
      BY <2>1, <3>2 DEF SendPut, Writer, WriterGet, WriterSend, WriterWait, DataSent, LinkChanges
    <3> QED BY <2>1, <3>1, <3>2 DEF TxNext
  <2>2. CASE RxRdy
    BY <2>2 DEF RxRdy, Apart, Receiving, Sending
  <2>3. CASE RxBufRequest
    BY <2>3 DEF RxBufRequest, Apart, Receiving, Sending
  <2>4. CASE RxBufReleased
    BY <2>4 DEF RxBufReleased
  <2>5. CASE RxDisabled \/ UartWork
    BY <2>5 DEF RxDisabled, UartWork, Enable, Apart, Receiving, Sending
  <2>6. CASE UNCHANGED vars
    BY <2>6 DEF vars
  <2> QED BY <2>1, <2>2, <2>3, <2>4, <2>5, <2>6 DEF Next, Uart
<1> QED BY <1>1, <1>2, BridgeInvariant, PTL DEF Spec

\* A step that leaves the blocks of the fifo and of the writer as they are changes nothing.
LEMMA WaitingSame ==
  ASSUME BridgeInv, UNCHANGED <<fifo, buf>>, WriterOwns' <=> WriterOwns,
         \A b \in Queued : data'[b] = data[b], WriterOwns => data'[buf] = data[buf]
  PROVE  Waiting' = Waiting
<1>1. Own' = Own
  BY DEF Own
<1>2. Loads(data', fifo) = Loads(data, fifo)
  BY FifoParts, LoadsSame DEF BridgeInv, BlocksOK
<1>3. Waiting' = Own' \o Loads(data', fifo')
  BY DEF Waiting, Own, Loads
<1> QED BY <1>1, <1>2, <1>3, WaitingIs

\* A block is put in the fifo.
LEMMA WaitingPut ==
  ASSUME BridgeInv, NEW b \in Blocks, fifo' = Append(fifo, b), UNCHANGED <<data, buf>>,
         WriterOwns' <=> WriterOwns
  PROVE  Waiting' = Append(Waiting, data[b])
<1>1. Own' = Own
  BY DEF Own
<1>2. data \in [Blocks -> Contents] /\ fifo \in Seq(Blocks) /\ data[b] \in Contents
  BY DEF BridgeInv, BlocksOK, DataOK
<1>3. Own \in Seq(Contents)
  <2>1. WriterOwns => buf \in Blocks
    BY DEF BridgeInv, BlocksOK, Apart, Pointers
  <2> QED BY <1>2, <2>1 DEF Own
<1>4. Loads(data, fifo) \in Seq(Contents) /\ Loads(data, fifo') = Append(Loads(data, fifo), data[b])
  BY <1>2, LoadsAreSeq, LoadsAppend
<1>5. Waiting' = Own' \o Loads(data', fifo')
  BY DEF Waiting, Own, Loads
<1> QED BY <1>1, <1>2, <1>3, <1>4, <1>5, PutLast, WaitingIs

\* ble_write_thread takes the first block: it waits as before.
LEMMA WaitingGet ==
  ASSUME BridgeInv, WriterGet
  PROVE  Waiting' = Waiting
<1>1. /\ ~WriterOwns /\ WriterOwns' /\ buf' = Head(fifo) /\ fifo' = Tail(fifo)
      /\ data' = data /\ fifo # <<>>
  BY DEF WriterGet, WriterOwns
<1>2. data \in [Blocks -> Contents] /\ fifo \in Seq(Blocks)
  BY DEF BridgeInv, BlocksOK, DataOK
<1>3. Loads(data, fifo) = <<data[Head(fifo)]>> \o Loads(data, Tail(fifo))
  BY <1>1, <1>2, LoadsFirst
<1>4. Waiting' = <<data[Head(fifo)]>> \o Loads(data, Tail(fifo))
  BY <1>1 DEF Waiting, Loads
<1>5. Waiting = Loads(data, fifo)
  BY <1>1, <1>2, WaitingIs, LoadsAreSeq, ConcatEmptySeq DEF Own
<1> QED BY <1>3, <1>4, <1>5

\* ble_data_sent answers the first message.
LEMMA WaitingAnswer ==
  ASSUME BridgeInv, DataSent
  PROVE  Channel!Answer
<1>1. /\ flying = buf /\ WriterOwns /\ ~WriterOwns' /\ buf \in Blocks
      /\ UNCHANGED <<data, fifo>> /\ latest' \in {data[buf], latest}
  BY TxAssumption DEF DataSent, BridgeInv, OneInFlight, WriterOwns, ThreadsOK, BlocksOK, Pointers
<1>2. data \in [Blocks -> Contents] /\ fifo \in Seq(Blocks) /\ data[buf] \in Contents
  BY <1>1 DEF BridgeInv, BlocksOK, DataOK
<1>3. Loads(data, fifo) \in Seq(Contents)
  BY <1>2, LoadsAreSeq
<1>4. Waiting = <<data[buf]>> \o Loads(data, fifo)
  BY <1>1, WaitingIs DEF Own
<1>5. Waiting' = Loads(data, fifo)
  <2>1. Waiting' = <<>> \o Loads(data, fifo)
    BY <1>1 DEF Waiting, Loads
  <2> QED BY <2>1, <1>3, ConcatEmptySeq
<1>6. Waiting # <<>> /\ Head(Waiting) = data[buf] /\ Tail(Waiting) = Loads(data, fifo)
  BY <1>2, <1>3, <1>4, AnswerFirst
<1> QED BY <1>1, <1>5, <1>6 DEF Channel!Answer

\* From sendBLE and the UART to the hook, the remote implements a fifo of messages: nothing is
\* sent twice, changed or overtaken, for any heap and any order of the threads and interrupts.
THEOREM BridgeImplementsChannel == Spec => RequestsInOrder
<1>1. Init => Channel!Init
  <2> SUFFICES ASSUME Init PROVE Channel!Init
    OBVIOUS
  <2>1. ~WriterOwns /\ fifo = <<>> /\ latest = "none"
    BY DEF Init, TxInit, WriterOwns
  <2>2. Waiting = <<>>
    <3>1. Loads(data, <<>>) = <<>>
      BY DEF Loads
    <3> QED BY <2>1, <3>1, WaitingIs, EmptySeq, ConcatEmptySeq DEF Own
  <2> QED BY <2>1, <2>2 DEF Channel!Init
<1>2. BridgeInv /\ Written /\ [Next]_vars => [Channel!Next]_<<Waiting, latest>>
  <2> SUFFICES ASSUME BridgeInv, Written, [Next]_vars
               PROVE  Channel!Next \/ UNCHANGED <<Waiting, latest>>
    OBVIOUS
  <2> USE DEF writerVars, uartVars
  <2>1. ASSUME NEW request \in Requests, SendMalloc(request) PROVE UNCHANGED <<Waiting, latest>>
    <3>1. \A b \in Queued : data'[b] = data[b]
      BY <2>1 DEF SendMalloc, BridgeInv, DataOK, BlocksOK, Apart
    <3>2. WriterOwns => data'[buf] = data[buf]
      BY <2>1, TxAssumption DEF SendMalloc, BridgeInv, DataOK, BlocksOK, Apart, Sending
    <3> QED BY <2>1, <3>1, <3>2, WaitingSame DEF SendMalloc, WriterOwns
  <2>2. CASE SendPut
    <3>1. tx \in Blocks /\ data[tx] \in Requests
      BY <2>2 DEF SendPut, BridgeInv, BlocksOK, Pointers, Written
    <3>2. Waiting' = Append(Waiting, data[tx]) /\ latest' = latest
      BY <2>2, <3>1, WaitingPut DEF SendPut, WriterOwns
    <3> QED BY <3>1, <3>2 DEF Channel!Next, Channel!Submit
  <2>3. CASE WriterGet
    BY <2>3, WaitingGet DEF WriterGet
  <2>4. CASE WriterSend \/ LinkChanges
    BY <2>4, WaitingSame DEF WriterSend, LinkChanges, WriterOwns, BridgeInv, OneInFlight
  <2>5. CASE WriterWait
    <3>1. ~WriterOwns /\ ~WriterOwns' /\ UNCHANGED <<data, fifo, latest>>
      BY <2>5 DEF WriterWait, WriterOwns
    <3>2. Own' = Own /\ Waiting' = Own' \o Loads(data', fifo')
      BY <3>1 DEF Own, Waiting, Loads
    <3> QED BY <3>1, <3>2, WaitingIs
  <2>6. CASE DataSent
    BY <2>6, WaitingAnswer DEF Channel!Next
  <2>7. CASE RxRdy \/ RxBufRequest \/ RxDisabled \/ UartWork
    <3>1. /\ UNCHANGED <<fifo, writerVars>>
          /\ \A b \in Blocks : data'[b] = data[b] \/ b = rxBuf \/ b \in free
      BY <2>7, SMT DEF RxRdy, RxBufRequest, RxDisabled, UartWork, Enable, BridgeInv, DataOK, BlocksOK
    <3>2. \A b \in Queued : data'[b] = data[b]
      BY <3>1, TxAssumption, FifoBlocks DEF BridgeInv, Apart, Receiving
    <3>3. WriterOwns => data'[buf] = data[buf]
      BY <3>1, TxAssumption DEF BridgeInv, Apart, Receiving, Sending, BlocksOK, Pointers
    <3> QED BY <3>1, <3>2, <3>3, WaitingSame DEF WriterOwns
  <2>8. CASE RxBufReleased
    <3>1. rxBuf \in Blocks /\ UNCHANGED <<data, writerVars>>
      BY <2>8 DEF RxBufReleased, BridgeInv, BlocksOK, Pointers
    <3>2. CASE data[rxBuf] = "empty"
      <4>1. UNCHANGED fifo
        BY <2>8, <3>2 DEF RxBufReleased, Release
      <4> QED BY <3>1, <4>1, WaitingSame DEF WriterOwns
    <3>3. CASE data[rxBuf] # "empty"
      <4>1. data[rxBuf] \in Texts /\ fifo' = Append(fifo, rxBuf)
        BY <2>8, <3>3 DEF RxBufReleased, Release, Written
      <4>2. Waiting' = Append(Waiting, data[rxBuf])
        BY <3>1, <4>1, WaitingPut DEF WriterOwns
      <4> QED BY <3>1, <4>1, <4>2 DEF Channel!Next, Channel!Submit
    <3> QED BY <3>2, <3>3
  <2>9. CASE UNCHANGED vars
    BY <2>9, WaitingSame DEF vars, WriterOwns
  <2> QED BY <2>1, <2>2, <2>3, <2>4, <2>5, <2>6, <2>7, <2>8, <2>9 DEF Next, TxNext, Writer, Uart
<1> QED BY <1>1, <1>2, BridgeInvariant, WrittenInvariant, PTL DEF Spec, RequestsInOrder, Channel!Spec
=============================================================================
