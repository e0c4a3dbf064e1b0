------------------------------ MODULE UartBridge ------------------------------
(***************************************************************************)
(* uart_cb and uart_work of src/main.c, which forward text from the UART   *)
(* through the fifo and the heap that BleTx describes, composed with it.   *)
(* Each event of the UART driver is an interrupt, hence one step. The      *)
(* transmit events are left out: nothing fills fifo_uart_tx_data.          *)
(***************************************************************************)
EXTENDS BleTx

VARIABLES
  rx,           \* the driver's receiver: "on", "disabling" or "off"
  rxBuf,        \* the block that it fills
  rxNext,       \* the block that it goes on with
  disable_req,
  work          \* uart_work is scheduled

uartVars == <<rx, rxBuf, rxNext, disable_req, work>>
vars == <<free, data, fifo, tx, writerVars, uartVars>>

Pointers == Blocks \cup {NoBlock}

TypeOK ==
  /\ free \subseteq Blocks
  /\ data \in [Blocks -> Contents]
  /\ fifo \in Seq(Blocks)
  /\ tx \in Pointers /\ buf \in Pointers /\ flying \in Pointers
  /\ rxBuf \in Pointers /\ rxNext \in Pointers
  /\ pc \in {"get", "send", "wait"}
  /\ sem \in {0, 1}
  /\ link \in BOOLEAN
  /\ latest \in Contents \cup {"none"}
  /\ rx \in {"on", "disabling", "off"}
  /\ disable_req \in BOOLEAN
  /\ work \in BOOLEAN

\* uart_init
Init ==
  /\ TxInit
  /\ \E b \in Blocks : rxBuf = b /\ free = Blocks \ {b}
  /\ rxNext = NoBlock
  /\ rx = "on"
  /\ disable_req = FALSE
  /\ work = FALSE

-----------------------------------------------------------------------------
\* UART_RX_RDY: a line is sent at once, by disabling the receiver.
RxRdy ==
  /\ rxBuf # NoBlock
  /\ \E text \in Texts :
       /\ data' = [data EXCEPT ![rxBuf] = text]
       /\ IF text = "line" /\ ~disable_req
            THEN disable_req' = TRUE /\ rx' = "disabling"
            ELSE UNCHANGED <<disable_req, rx>>
  /\ UNCHANGED <<free, fifo, tx, writerVars, rxBuf, rxNext, work>>

\* UART_RX_BUF_REQUEST: without a block the driver gets no answer.
RxBufRequest ==
  /\ rx = "on"
  /\ rxNext = NoBlock
  /\ \E b \in free :
       /\ free' = free \ {b}
       /\ data' = [data EXCEPT ![b] = "empty"]
       /\ rxNext' = b
  /\ UNCHANGED <<fifo, tx, writerVars, rx, rxBuf, disable_req, work>>

\* Mutant: a block is freed and put in the fifo.
ReleaseBoth(b) ==
  /\ free' = free \cup {b}
  /\ fifo' = IF data[b] = "empty" THEN fifo ELSE Append(fifo, b)

Release(b) ==
  IF data[b] = "empty"
    THEN free' = free \cup {b} /\ UNCHANGED fifo
    ELSE fifo' = Append(fifo, b) /\ UNCHANGED free

\* UART_RX_BUF_RELEASED: the block is full, or the receiver is being disabled.
\* A receiver without a next block disables itself.
RxBufReleased ==
  /\ rxBuf # NoBlock
  /\ rx = "disabling" \/ data[rxBuf] # "empty"
  /\ Release(rxBuf)
  /\ rxBuf' = rxNext
  /\ rxNext' = NoBlock
  /\ rx' = IF rxNext = NoBlock THEN "disabling" ELSE rx
  /\ UNCHANGED <<data, tx, writerVars, disable_req, work>>

\* k_malloc and uart_rx_enable, or uart_work again.
Enable ==
  \/ /\ \E b \in free :
          /\ free' = free \ {b}
          /\ data' = [data EXCEPT ![b] = "empty"]
          /\ rxBuf' = b
     /\ rx' = "on"
     /\ work' = FALSE
  \/ /\ free = {}
     /\ work' = TRUE
     /\ rx' = "off"
     /\ UNCHANGED <<free, data, rxBuf>>

\* Mutant: the request to disable is reset only when the receiver goes on.
RxDisabledKept ==
  /\ rx = "disabling"
  /\ rxBuf = NoBlock
  /\ disable_req' = (disable_req /\ free = {})
  /\ Enable
  /\ UNCHANGED <<fifo, tx, writerVars, rxNext>>

\* UART_RX_DISABLED
RxDisabled ==
  /\ rx = "disabling"
  /\ rxBuf = NoBlock
  /\ disable_req' = FALSE
  /\ Enable
  /\ UNCHANGED <<fifo, tx, writerVars, rxNext>>

\* uart_work_handler
UartWork ==
  /\ work
  /\ Enable
  /\ UNCHANGED <<fifo, tx, writerVars, rxNext, disable_req>>

Uart == RxRdy \/ RxBufRequest \/ RxBufReleased \/ RxDisabled \/ UartWork

Next == (TxNext /\ UNCHANGED uartVars) \/ Uart

Spec == Init /\ [][Next]_vars

\* The writer thread runs, and the stack answers each accepted request, with an
\* error after the timeout of the protocol.
Fair ==
  /\ WF_vars(Writer /\ UNCHANGED uartVars)
  /\ WF_vars(DataSent /\ UNCHANGED uartVars)
  /\ WF_vars(SendPut /\ UNCHANGED uartVars)

FairSpec == Spec /\ Fair

-----------------------------------------------------------------------------
(* Properties *)

\* The writer's block is its own until ble_data_sent has freed it.
WriterOwns == pc = "send" \/ (pc = "wait" /\ sem = 0)

Queued == {fifo[i] : i \in 1 .. Len(fifo)}
Receiving == {rxBuf, rxNext} \ {NoBlock}
Sending == ({tx} \cup (IF WriterOwns THEN {buf} ELSE {})) \ {NoBlock}

\* k_malloc and k_free of main.c: every block is in one place. None is freed
\* or queued twice, none that is queued or being written is handed out again,
\* and none is lost.
OneOwner ==
  /\ \A i, j \in 1 .. Len(fifo) : fifo[i] = fifo[j] => i = j
  /\ Queued \cap (free \cup Receiving \cup Sending) = {}
  /\ Receiving \cap (free \cup Sending) = {}
  /\ free \cap Sending = {}
  /\ rxBuf = rxNext => rxBuf = NoBlock
  /\ WriterOwns => buf \notin {tx, NoBlock}
  /\ Blocks = free \cup Queued \cup Receiving \cup Sending

\* nus_write_sem stands for the answer to the one request under way: nothing is
\* in flight and no answer is left over when the writer sends the next one.
OneInFlight ==
  /\ pc # "wait" => sem = 0 /\ flying = NoBlock
  /\ sem = 1 => flying = NoBlock
  /\ flying # NoBlock => flying = buf

\* uart_cb: a receiver that is on sends the next line at once, and one that is
\* off is going to be turned on by uart_work.
ReceiverComesBack ==
  /\ disable_req => rx = "disabling"
  /\ work <=> rx = "off"
  /\ rx = "on" => rxBuf # NoBlock

\* From the call of k_fifo_put to the answer, the requests are a fifo whose
\* messages nobody changes.
Waiting ==
  (IF WriterOwns THEN <<data[buf]>> ELSE <<>>)
  \o [i \in 1 .. Len(fifo) |-> data[fifo[i]]]

Channel == INSTANCE RequestChannel WITH Messages <- Requests \cup Texts, queue <- Waiting

RequestsInOrder == Channel!Spec

\* ble_write_thread: whatever is in the fifo is handed to the NUS client, if the link
\* has been there from the start and stays.
RequestSent == []link => \A b \in Blocks : b \in Queued ~> flying = b

\* README.rst:77 of a lost and restored link: "the kits automatically reconnect
\* and [...] it is again possible to send data between the two kits".
ReconnectedSends == <>[]link => (fifo # <<>> ~> flying # NoBlock)
=============================================================================
