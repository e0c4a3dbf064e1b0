-------------------------------- MODULE BleTx --------------------------------
(***************************************************************************)
(* The way of a request to the hook (src/main.c): sendBLE puts it in a     *)
(* block of the heap and in the fifo, ble_write_thread hands it to the NUS *)
(* client and waits for nus_write_sem, ble_data_sent frees it and gives    *)
(* the semaphore.                                                          *)
(*                                                                         *)
(* A request (spin3204_control.c:140) is shorter than a block, so that the *)
(* loop of sendBLE runs once. The main thread is preempted by the UART's   *)
(* interrupt and by the Bluetooth thread, in which ble_data_sent runs.     *)
(***************************************************************************)
EXTENDS Naturals, Sequences

CONSTANTS
  Blocks,     \* what the heap has room for
  NoBlock,    \* the null pointer
  Requests    \* what sendBLE may be asked to send

ASSUME TxAssumption == NoBlock \notin Blocks

VARIABLES
  free,     \* blocks of the heap that are not allocated
  data,     \* what each block holds
  fifo,     \* fifo_uart_rx_data
  tx,       \* sendBLE's block
  pc,       \* where ble_write_thread is
  buf,      \* ble_write_thread's block
  flying,   \* the block that the NUS client is writing
  sem,      \* nus_write_sem
  link,     \* external: connected, and the NUS service found
  latest    \* external: what the hook has received last

writerVars == <<pc, buf, flying, sem, link, latest>>

\* What uart_cb puts in a block: nothing yet, or text, which may end a line.
Texts == {"text", "line"}
Contents == Requests \cup Texts \cup {"empty"}

TxInit ==
  /\ data = [b \in Blocks |-> "empty"]
  /\ fifo = <<>>
  /\ tx = NoBlock
  /\ pc = "get"
  /\ buf = NoBlock
  /\ flying = NoBlock
  /\ sem = 0
  /\ link \in BOOLEAN
  /\ latest = "none"

-----------------------------------------------------------------------------
\* sendBLE. With an exhausted heap the request is dropped.
SendMalloc(request) ==
  /\ tx = NoBlock
  /\ \E b \in free :
       /\ free' = free \ {b}
       /\ tx' = b
       /\ data' = [data EXCEPT ![b] = request]
  /\ UNCHANGED <<fifo, writerVars>>

\* Mutant: the newest request goes first.
SendPutFirst ==
  /\ tx # NoBlock
  /\ fifo' = <<tx>> \o fifo
  /\ tx' = NoBlock
  /\ UNCHANGED <<free, data, writerVars>>

SendPut ==
  /\ tx # NoBlock
  /\ fifo' = Append(fifo, tx)
  /\ tx' = NoBlock
  /\ UNCHANGED <<free, data, writerVars>>

-----------------------------------------------------------------------------
(* ble_write_thread *)

WriterGet ==
  /\ pc = "get"
  /\ fifo # <<>>
  /\ buf' = Head(fifo)
  /\ fifo' = Tail(fifo)
  /\ pc' = "send"
  /\ UNCHANGED <<free, data, tx, flying, sem, link, latest>>

\* bt_nus_client_send refuses without a link, and while it is writing. The
\* thread logs that and waits all the same.
WriterSend ==
  /\ pc = "send"
  /\ flying' = IF link /\ flying = NoBlock THEN buf ELSE flying
  /\ pc' = "wait"
  /\ UNCHANGED <<free, data, fifo, tx, buf, sem, link, latest>>

\* Mutant: the thread gives up waiting at the first timeout.
WriterWaitOnce ==
  /\ pc = "wait"
  /\ sem' = 0
  /\ buf' = NoBlock
  /\ pc' = "get"
  /\ UNCHANGED <<free, data, fifo, tx, flying, link, latest>>

\* The loop over the timeouts ends with the semaphore only.
WriterWait ==
  /\ pc = "wait"
  /\ sem = 1
  /\ sem' = 0
  /\ buf' = NoBlock
  /\ pc' = "get"
  /\ UNCHANGED <<free, data, fifo, tx, flying, link, latest>>

Writer == WriterGet \/ WriterSend \/ WriterWait

\* Mutant: a request that failed is not signalled.
DataSentOk ==
  /\ flying # NoBlock
  /\ free' = free \cup {flying}
  /\ \E err \in BOOLEAN :
       /\ sem' = IF err THEN sem ELSE 1
       /\ latest' = IF err THEN latest ELSE data[flying]
  /\ flying' = NoBlock
  /\ UNCHANGED <<data, fifo, tx, pc, buf, link>>

\* ble_data_sent, once for each accepted request: with an error when the hook
\* refuses it or the link is lost.
DataSent ==
  /\ flying # NoBlock
  /\ free' = free \cup {flying}
  /\ sem' = 1
  /\ latest' \in {data[flying], latest}
  /\ flying' = NoBlock
  /\ UNCHANGED <<data, fifo, tx, pc, buf, link>>

\* External: the link comes and goes.
LinkChanges ==
  /\ link' = ~link
  /\ UNCHANGED <<free, data, fifo, tx, pc, buf, flying, sem, latest>>

TxNext ==
  \/ \E request \in Requests : SendMalloc(request)
  \/ SendPut
  \/ Writer
  \/ DataSent
  \/ LinkChanges
=============================================================================
