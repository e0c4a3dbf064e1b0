# A verification of the hook remote control

The program is the firmware of a hand-held remote (nRF52840, Zephyr) that homes, opens and
closes a motor-driven hook over Bluetooth LE. It reads push buttons and an E-stop, shows
messages on an LCD, sends requests to the hook's motor controller and receives reports of
sixteen bytes from it, which the code expects every 25 ms. There are no tests in the repository,
and its README describes the Nordic sample it grew out of: the code is the only statement of
what the remote does.

This directory holds TLA+ modules of the remote, TLC configurations, and modules of TLAPS
proofs. `PROJECT.json` lists every component, run, mutant, hazard, finding and theorem, and the
source lines of each definition. A definition called "Mutant" in a comment is a plausible
mistake in the code beside it: with it, the property that `PROJECT.json` names with it fails in
the run that checks it.

## The system

| part | state | operations | interacts with |
|---|---|---|---|
| command executor, `commands.c` | ring of 8 commands, `cmd`, `cmdObject` | add, flush, run, process, requestStop | called by the main thread, flushed by the UI thread |
| command tasks, `commands_tasks.c` | `timeout`, shared by all tasks | one step per tick of homing, EACK, stop, close, mid, open | database, requests, remote |
| hook database, `database.c` | position, standstill, latched error, timer | run, setError, eackError, resetPosition, getters | reads the byte buffer; read by everyone |
| remote, `remote.c` | `hookState`, `buttonsExecute`, counters, message | state machine, button update, UI | button callback, main thread, UI thread |
| scheduling, `system.c` and the loops of `main.c` | `connection` | tick, UI pass | all of the above |
| byte buffer, `adt_cbuffer.c`, `communications.c` | ring of 1024 bytes, full flag | push, poll, peek, length | receive thread pushes, main thread polls |
| requests, `spin3204_control.c` | none | one function per request | called by the tasks, calls `sendBLE` |
| BLE transmit, `main.c` | fifo, heap, `nus_write_sem` | `sendBLE`, writer thread, sent callback | main thread, Bluetooth thread |
| BLE connection and RSSI, `main.c` | `default_conn`, `rssi_sem` | scan and connection callbacks, RSSI thread | UI thread |
| UART bridge, `main.c` | receive buffers | `uart_cb`, work item | writer thread's fifo |
| checksum, `encoding_checksum.cpp` | none | Fletcher-16 | database |
| display, `remote_updateUi`, `lcd_spiModule.c` | strings, LEDs | output | UI thread |

Who runs when decides what can go wrong. The main thread (priority 0) runs `system_thread` and
sleeps for 25 ms; it does not block during a tick. The UI thread (7), the BLE writer (5) and the
RSSI thread (13) run only while it sleeps, and it preempts them between any two statements. Two
parties preempt the main thread: the Bluetooth receive thread, which is cooperative and pushes
bytes, and the system work queue, in which the button callback sets bits in `buttonsExecute`.

What is hard here, and what makes each part correct:

* The UI thread notices a lost connection and uninitialises the remote and flushes the commands
  while the main thread may preempt it. Nothing may be left to resume.
* `hookState` decides whether a move may be asked for, and two threads and two tasks write it.
  No move without a valid encoder zero.
* Errors come from the hook, from timeouts, from a jam, the protection and the E-stop, in any
  order; only the first is kept. Each must end the command that it forbids, and the stop that
  follows must find room in the buffer and be sent.
* A task is a sequence of steps many ticks apart that relies on its earlier requests and ends by
  reports that may never come. Every command must end.
* Bytes are pushed in the middle of a poll. The ring must be a queue all the same, and the
  reports in it must be found again after a link was lost within one.
* Blocks of a heap of limited size wander between the UART's interrupt, the main thread, the
  writer thread and a Bluetooth callback. None may be freed twice, used after it is free, or
  lost.
* The link goes up and down, and every step of setting it up may fail. References must balance,
  and four parties must learn of it.
* Buttons are counted by one thread and released in another. A press that is long enough must
  count, and a short one must not.
* The display is written a character at a time, with a sleep after each, while what it shows
  changes.

## Modules

| module | models | notes |
|---|---|---|
| `HookDatabase` | `database.c` | position as nine ranges of the 16-bit value |
| `HookCommands` | `commands.c`, `commands_tasks.c`, requests of `spin3204_control.c` | extends `HookDatabase` |
| `HookRemote` | `remote.c`: state machine and button callback | extends `HookCommands` |
| `HookSystem` | `system.c`, loops of `main.c` and of the UI thread, `remote_disconnectedUi` | composes the three; its properties and inductive invariant |
| `CommandBuffer` | the ring of `commands.c`: indices, count, the pointer `cmd` into it | implements `CommandQueue` |
| `CommandQueue` | | abstract: the command buffer between the ring, which implements it, and the threads of `HookSystem`, which use it so |
| `Buttons` | `remote.c`: `updateButtons` against `remote_updateButtons`, access by access | the press filter that `HookRemote` leaves open |
| `HookMotion` | `database.c`: 16-bit positions, velocity, standstill counter, getters | implements `HookDatabase` |
| `Framing` | `database.c`: the loop of `database_run` over the bytes | with links lost within a report |
| `Fletcher` | `encoding_checksum.cpp` | a step per turn of its loops, in words that wrap |
| `MotorBuffer` | `adt_cbuffer.c`, `communications.c`, read loop of `database_run` | every access of a poll is a step; implements `ByteQueue` |
| `ByteQueue` | the promise of `adt_cbuffer.h` | abstract: a bounded queue |
| `BleTx` | `main.c`: `sendBLE`, `ble_write_thread`, `ble_data_sent` | fifo, heap, semaphore |
| `UartBridge` | `main.c`: `uart_cb`, its work item | extends `BleTx`, with which it shares fifo and heap; implements `RequestChannel` |
| `RequestChannel` | | abstract: a fifo that may drop a message |
| `Connection` | `main.c`: scan, connection and discovery callbacks, RSSI thread, UI thread's test of the link | with a failure of each step |
| `Display` | `remote.c`: `remote_updateUi`, `remote_disconnectedUi`; the lifting timer of `database.c` | a step per line, LED or string; losing the link is one |
| `Lcd` | `lcd_spiModule.c` | a step per character, with the controller's cells and address |
| `*_proof` | | theorems: `HookSystem_proof`, `Buffers_proof` (both rings), `Frames_proof` (`Framing`, `Fletcher`), `Screen_proof` (`Display`, `Lcd`), `Buttons_proof`, `HookMotion_proof`, `UartBridge_proof`, `Connection_proof` |
| `MC*` | | instances for TLC |

An instance may hold modules that share nothing (`MCBuffers`, `MCBluetooth`, `MCReports`,
`MCScreen`): the variable `moving` says which of them moves in a behaviour, the others rest in
an initial state. What is checked of one of them is what would be checked of it alone.

### HookSystem and the modules it extends

A tick of the main thread is `Tick` (`database_run` and the test of `connection`), `RunRemote`,
`StoreButtons`, `CommandStart`, `CommandTask`, `CommandProcess`, in this order; `pc` says which
is next. A tick without permission ends after `Tick`, and one without a command after
`CommandStart`. The buttons callback may run between any two of them. A pass of the UI thread is
`UiSample` (it reads once whether the link is up) and then `UiConnected`, or `UiDisconnected`,
`UiUninitialize`, `UiFlush`, `UiFlushQueue`; these need `pc = "sleep"`, and whole ticks may come
between them. A link that goes up and down by itself is the choice in `UiSample`.

| variable | in the code |
|---|---|
| `hookPosition`, `isVelocityZero`, `errorNo` | the statics of `database.c` |
| `queue` | `cmdBuffer` from `cmdIdxUse` on, `cmdCount` long (`CommandBuffer` has the ring) |
| `cmd` | `cmd` and `cmdObject`; operation `"NONE"` for a null pointer |
| `timeout` | the static of `commands_tasks.c` |
| `hookState`, `buttonsExecute`, `stateMessage` | the statics of `remote.c` |
| `connection` | the static of `system.c` |
| `reportedError`, `sent`, `zeroed`, `limiter` | history: the newest report's error, the request of this step, whether the encoder zero set last still stands, the limiter selected last |

`zeroed` and `limiter` stand for what the requests so far have done to the hook. `zeroed`
becomes false with the connection, because a hook that was out of reach may have been restarted.

What is abstracted: positions are the ranges the code tells apart (`HookMotion` shows that the
getters see no more); one `DatabaseRun` covers all reports of a tick (the first error stays, with
the last position and speed); a button release either passes the press filter or does nothing, for
any number of buttons at once, so every press pattern is allowed; the reads of `buttonsExecute`
within one run of the state machine are one read, up to its store of zero, which is a step of its
own.

### Buttons

`CountTest`, `CountLoad` and `CountStore` are the accesses of one turn of `updateButtons`, the test
of `buttonsPressed` and the two halves of the increment, between any of which the callback may
come. `held` counts the ticks of a press independently of the counters. `stale` names the
buttons whose next press inherits a count. There are three ways to get there, all open in the
code: a release while the E-stop is held leaves the counter (`remote.c:59`); a release between
the test of the button and the load of its counter resets the counter before it is incremented,
which leaves 1 (`remote.c:252`, `remote.c:254`); and a release between the load and the store
resets a counter that is then written again (`remote.c:254`). `FilteredPress` says that there is
no other.

### HookMotion, Framing, Fletcher

`HookMotion` keeps the numbers of `database.c` and shows that `HookDatabase` is what becomes of
them: `ClassOf` maps a position to its range, and `ReportsAreDatabaseRuns` is the refinement.
`elapsed` counts periods of 25 ms since the hook last moved and `extra` the reports since then
that were not the first of their period. `StandstillLasts` is what the code's count of reports
says about time: ten periods, less one for each such report. It is not always 250 ms, as the
comment at `database.c:207` has it: eleven reports taken in one period make a standstill.

`Framing` names a byte by its place in its report, so that a header that is none is
recognisable. `Headers` are the places whose byte is 0xFE. `OneLostPerCut` and `FramesGoOn` are
promises for `Headers` = {1}, no other byte being 0xFE; with a header more, as in {1, 3}, TLC
finds `FramesGoOn` without its condition violated. The checksum is taken to refuse what
is not one whole report. `Fletcher` has the loop with its blocks; `Word` is the width of
`uint32_t`, and `FletcherAssumption` relates it to `max_blocklen`. `Checksum` is the definition
that it is compared with, byte by byte, without blocks, widths or a case for the empty message.
The code returns zero for that one whatever the seed, so that `ResultIsChecksum` is about
messages that are not empty.

### MotorBuffer

The main thread's accesses are split where the receive thread may get in: reading the full flag,
reading the offsets, copying, clearing the flag, moving `dataOut`, wrapping it. A push is one
step, because the receive thread is cooperative. Whether the compiler keeps `dataOut` in memory
between the last two is its choice; the model has the store. `getLength` is taken to load
`dataIn` once for its test and its difference, although C allows a second load. The unsigned
comparison of a push refuses a negative sum, and so does `Fits`. `held` counts bytes pushed and
not polled, independently of the ring. The refinement maps the ring to the abstract queue by
`Stored`.

### BleTx and UartBridge

A block is free, in the fifo, with the driver (`rxBuf`, `rxNext`), with `sendBLE` (`tx`) or with
the writer (`buf`). `flying` is the block that the NUS client has accepted and not answered.
`link` is external and changes at any time; a send is refused when there is none. A request of
seven bytes is shorter than a block, hence `sendBLE` needs one. Each UART event is one
interrupt. `Waiting` maps blocks to the abstract fifo: the writer's block, until it is answered,
and then the fifo.

### Connection

One connection object, whose state the stack keeps (`conn`), and the references to it (`refs`)
that `main.c` has to balance. Each callback is a step, since callbacks do not preempt each
other. The UI thread reads `default_conn` and asks for its state in two steps. `failed` records
that a connection could not be created or a discovery failed. `Reconnects` (in the run
`LinkComesBack`) is about behaviours without such a failure, `ReconnectsAlways` about all.

### Display and Lcd

`Display` has what `remote_updateUi` reads, in its order, against a main thread that may change it
before every line and every LED: the states of `States` one after the other as the state machine
allows, a latched error being the state ERROR of a remote that is initialised, and errors that
come and go by reports, tasks and EACKs also between two runs of it. A line is the texts sent to
it. The three LEDs are switched one by one, in the order of the code, CLOSED, OPEN, MID, and the
string of the position is set after them: only the UI thread has it, so that in the case ERROR,
where the code sets it first, nobody can tell. Since CLOSED comes first, and OPEN before MID, a
new LED may be lit while the old one still is. `remote_disconnectedUi` is one step, as nothing
that it shows depends on what the main thread does meanwhile. `Lcd` shows that the texts of a line
are what the cells hold: the driver counts columns in `xpos`, the controller has an address of its
own, and no one compares the two.

## Runs

| run | checks | shows |
|---|---|---|
| `moves` | `DisabledMeansIdle`, `LimiterMatchesMove`, `StopNotDropped`, `MoveAskedHomed`, `CommandsAreQueued` | opening and closing with homings and EACKs, cut short at any tick by timeouts, jams, the E-stop and a lost link, two places in the buffer, which the threads use as one queue |
| `errors` | `ErrorStopsMotion`, `WaitsAreOwn`, `SystemInv`, `StopIsKept` | overload, protection, jam, E-stop and timeout in any order, during moves to mid, homings and EACKs; the inductive invariant; the way of a stop from the buffer to the hook |
| `progress` | `CommandTerminates`, `StopIsSent` | liveness under `FairSpec` |
| `queues` | `LengthIsStored`, `CountedIsThere`, `CommandIsKept`, `BufferIsQueue`, `RingIsQueue` | both rings, several times around; pushes at any point of a poll |
| `bluetooth` | `OneOwner`, `OneInFlight`, `ReceiverComesBack`, `OneReference`, `RequestsInOrder`, `RequestSent`, `LinkComesBack`, `RssiResumes`, `LinkIsNoticed` | three blocks between UART, `sendBLE`, writer and stack; a link that comes and goes |
| `reports` | `GettersSeeClasses`, `StandstillLasts`, `OneLostPerCut`, `ResultIsChecksum`, `NoOverflow`, `ReportsAreDatabaseRuns`, `FramesGoOn` | reports found, summed up and kept |
| `panel` | `EstopReleased`, `FilteredPress`, `LongPressExecutes`, `OneLed`, `LineAgreesWithLed`, `LinesShown`, `PositionIsShown`, `ReadyEnds` | what the operator presses and sees: two buttons and the E-stop, pressed and released at any point of a tick; the passes of the UI thread; the driver of the display |

Five more runs end in a counterexample; each is a place where the code differs from what it, or
the repository's README, says.

| run | property | what happens |
|---|---|---|
| `estop_during_homing` | `EstopStopsHoming` | Another error is latched. The E-stop is pressed, the display says so, `process` sees the older error and lets the homing go on (`commands.c:130`, `database.c:356`). |
| `eack_without_report` | `EackedMeansCleared` | The hook has reported an error. EACK clears its own copy in `SETUP` (`commands_tasks.c:110`), no report comes for the wait of 40 ticks, and `ACTION` takes that for "Error cleared in hook" (`commands_tasks.c:118-123`). After a report that renews the error `ACTION` clears it again (line 127) and looks in the next tick already, which is shorter, but not the shortest trace. |
| `stale_move` | `SeekMeansNoMove` | A move stands in the buffer behind an EACK. The EACK uninitialises the remote, then the move is executed while the display says ">Seek end of stroke". |
| `write_after_reconnect` | `ReconnectedSends` | A send without a link is refused and only logged; the writer waits for an answer that never comes (`main.c:776-781`), and nothing is sent over the next link, although "it is again possible to send data" (`README.rst:77`). |
| `no_second_try` | `ReconnectsAlways` | The link is lost, the hook is found, which ends the scan, and the connection fails to be created. `scan_connecting_error` only logs it (`main.c:503`), and nobody scans again, although "the kits automatically reconnect" (`README.rst:77`). |

### Bounds, and why they are enough

**The interlock.** Delays of 10 to 1000 ticks become 0 to 6. What matters is their order: each
task can end before its timeout and can run into it, a retry and a jam check can happen more than
once, and `timeout` may be behind or ahead of a new command's timer. One button besides the
E-stop, or two where two kinds of command have to meet, gives every sequence of commands the
question needs. `enableTimer` is 1 for 6: the count then has the values below, at and above it.
The buffer of commands has 1, 2 or 3 places; `StopNotDropped` and the other invariants are proved
for any capacity. `progress` has two places, so that a stop may stand behind an EACK or a move, or
be followed by one. `cmd.timer` and `timeout` need no bound in the guards, as the timeout of a
command bounds them. `moves` has a hook at its end of stroke or open, which is enough for either
move to be asked for and to end; `errors` adds the overrun, a partial position and mid. A position
above `openPosition` behaves as an error state and is covered by the proofs only.
`eack_without_report` has three ticks between the two looks at the error, `EackRemote` 1 and
`EackHook` 4, in the place of forty. `stale_move` needs three places, an EACK, a stop and a move;
it looks only at behaviours that never find the link down (`StaysConnected`), which shortens the
search and removes behaviours, so that a counterexample remains one.

**The rings.** The byte ring has five bytes for 1024 and reports of two bytes for sixteen: a
report may lie across the end, end at it, or leave one byte over. Notifications carry one to
three bytes, with reports, parts of reports and garbage. `Backlog` is 8: between the polls the
ring fills and refuses pushes. `Overlap` is 4: a push in the middle of a poll leaves one byte
free. 1024 bytes are some sixty reports, so that a ring that is drained every 25 ms stays short
of full unless the main thread is held up. When it does not, the flag that a push sets in the
middle of a poll is cleared by that poll (`adt_cbuffer.c:248-249`), and the ring is no queue any
longer: with `Overlap` at 5 TLC finds `BufferIsQueue` violated. The command ring has four slots
and goes around several times.

**Bluetooth.** Three blocks: the driver holds two, and one is left for the requests, so that the
heap is exhausted by any of the three parties. There is one connection object, as the remote
connects to one hook. `enableTimer` is 3, so that a bounce of the link may come at each count.

**Buttons.** Two filtered buttons, since they only interact by the order in which they are
counted, and a threshold of 2. Counts above the threshold are one value.

**Reports.** Positions lie on both sides of each limit of `database.c` and 24 or 25 apart, the
limit of its velocity; ten reports make a standstill, as in the code. Reports of four bytes, a
buffer of nine and three losses of the link let a loss hit a report at every place, also one
that is being found again. `Fletcher` has messages of up to five bytes with blocks of two, so
that a block is full, partly full or the last one, and `Word` is the smallest that the
assumption allows: one less and a sum wraps.

**Screen.** Five of the seven hook states: MID is shown as OPEN and CLOSED are, and a partial
state stands for both. The theorems have all seven. The timer is set to zero, to the least value
that runs down (500; a higher one becomes 500 first) or to one that never does (499). The driver
has the four lines and twenty columns of the device.

### Fairness

* `FairSpec` of `HookSystem` adds weak fairness of `Main` (every `k_sleep` ends, and a tick,
  which never blocks, is completed) and strong fairness of `Ui` (the UI thread's sleep ends,
  too, and it runs while the main thread sleeps, which is infinitely often but not
  continuously). Nobody has to press a button, the hook has to report nothing, and the link may
  stay down.
* `Fair` of `UartBridge`: the writer thread runs, `sendBLE` finishes, and the stack answers a
  request that it has accepted. `RequestSent` also assumes a link from the start, and
  `write_after_reconnect` shows why.
* `LinkFair`, in the module itself `ConnectionFairSpec`: the RSSI and UI threads run; a step
  towards a usable link that is possible again and again succeeds at last (the hook is in reach
  again and again). Losses of the link need not end.
* `FramesFair`: the hook goes on sending, and the main thread runs. A link may be lost `MaxCuts`
  times.
* `ScreenSpec`: the UI thread finishes its passes.

## Proofs

Each theorem holds for all values of the constants that the named assumptions of its module
allow. Every invariant, action property and refinement that a passing run checks is a theorem.
The type invariant of each module with a proof is a theorem, too, which is why only that of
`HookSystem` is checked (in `SystemInv`); so is `CursorInSync`, which `LinesShown` needs.
What stays with TLC is liveness, since the prover has no rules for fairness and ENABLED:
`CommandTerminates`, `StopIsSent`, `RequestSent`, `LinkComesBack`, `RssiResumes`, `LinkIsNoticed`,
`FramesGoOn`, `PositionIsShown` and `ReadyEnds`. `StopsAreKept` is the safety half of
`StopIsSent`: a stop never gets lost on its way, while that it gets on at all is checked only.

| module | theorems | inductive invariant, and why it is needed |
|---|---|---|
| `HookSystem_proof` | `TypeCorrect`, `DisabledIsIdle`, `ErrorsStopMotion`, `StopsAreBuffered`, `LimiterMatches`, `MovesAskedHomed`, `SystemInvariant`, `StopsAreKept`, `TimeoutsAreOwn`, `SystemImplementsQueue` | `SystemInv`, see below; the `errors` run checks it. The last three need its types, `RoomInv` (a stop that is asked for is added, so that it may take over from the one that has timed out) and `IdleInv` (between the two statements of a flush no command starts, so that the flush is one of the queue). |
| `Buffers_proof`, the bytes | `BufferTypeCorrect`, `LengthIsRight`, `CountStaysThere`, `BufferImplementsQueue` | `BufferInv`: at each access of a poll the flag and the offsets tell how many bytes are held, in the middle of it with the flag down; the flag that was read is still right. `RefineInv` adds that what a poll has copied stays the head of the queue. They assume `Overlap < length`: no notification fills the ring in the middle of a poll. |
| `Buffers_proof`, the commands | `RingTypeCorrect`, `ExecutedCommandIsKept`, `RingImplementsQueue` | `RingInv`: `cmdIdxStore` is `cmdCount` slots after `cmdIdxUse`, around the end; the slots between them hold commands; `cmd` points to a slot exactly when a command is in execution, and the slot holds it, since buttons add only when there is none and a stop is added in the step that lets go of it |
| `HookMotion_proof` | `MotionTypeCorrect`, `StandstillHasLasted`, `RangesAreEnough`, `MotionImplementsDatabase` | `MotionInv`: each report of the counter is the first of a period that has passed, one of `extra`, or the first of the present period |
| `Frames_proof`, the reports | `FramingTypeCorrect`, `CutsLoseOneReport` | `FramingInv`: `ReportsStand`, the bytes of a report that was received from its start stand behind each other; `CutsPay`, each loss of the link is still to be seen as a break between two bytes that wait, or has beheaded one report, or has been paid for in `lost`. `lost <= cuts` alone is not inductive, as it does not know of the losses that the loop has yet to meet. |
| `Frames_proof`, the checksum | `FletcherTypeCorrect`, `SumsDoNotWrap`, `ChecksumIsRight` | `FletcherInv`: a block begins with sums of one byte, and each byte raises the bounds of `NoOverflow` by as much as it may raise the sums. `CodeConstantsFit`: 5802 bytes in 32 bits meet the assumption. `Summing`: the sums are those of the definition up to multiples of 255. What the recursive function `Checksum` is in is found by `SetInduction`, the induction over numbers stated for a set of them. |
| `Buttons_proof` | `ButtonsTypeCorrect`, `EstopBitGoes`, `PressesAreFiltered`, `LongPressesExecute` | `Inv`: a counter, and a value that was loaded from it, is what the press has been held for, unless the button is in `stale`; the button between its test and its store is pressed or in `stale` |
| `UartBridge_proof` | `BridgeTypeCorrect`, `BlocksHaveOneOwner`, `AnswersMatch`, `ReceiverGoesOn`, `BridgeImplementsChannel` | `BridgeInv`: ownership of the blocks, the semaphore and the receiver together. A block is freed once because one request is in flight, and the receiver returns what it had because it is off without a block. |
| `Connection_proof` | `ConnectionTypeCorrect`, `ReferencesBalance` | `ConnectionInv`: `OneReference` and the types |
| `Screen_proof`, what is shown | `DisplayTypeCorrect`, `OneLedIsOn`, `LedAndLineAgree` | `DisplayInv`: `LedsAreSwitched`, how far the switch has come with the LEDs of the state it has read, so that it ends with one or none; outside the switch the string that is kept never contradicts the LED that is on, although a partial state leaves LEDs alone and may change the string. `LineIsCurrent`: from the end of line 3 to the next string the position there is the string that is kept |
| `Screen_proof`, the driver | `LcdTypeCorrect`, `CursorStaysInSync`, `LinesAreShown` | `LcdInv`: the characters sent tell `xpos`, the cells before it show the texts, and no other line is touched because lines are 32 addresses apart |

`SystemInv` is the conjunction of:

* `IdleInv`: the order of the UI thread's cleanup. While it cleans up the count is zero, a tick
  under way has its permission, and what each step empties stays empty.
* `RoomInv`: a command in execution has left a place in the buffer, since nothing is added while
  one is in execution. Hence the stop always fits.
* `HomedInv`: the zero stands whenever the remote takes the hook for homed and sees no error,
  except during a homing or an EACK. EACK clears the error, so it must end by uninitialising; a
  homing reaches `END` only by setting the zero.
* `LimiterInv`: the limiter is right from the first step of a task to its move.
* `ErrorStopsMotion`: needed by `HomedInv`, since a move does not survive the tick in which an
  error is latched.

Each proof has one step per action. Five refinements are stated, and all are proved and checked:
of `ByteQueue` by `MotorBuffer`, `HookDatabase` by `HookMotion`, `RequestChannel` by
`UartBridge`, and `CommandQueue` twice, by the ring of `CommandBuffer` and by the threads of
`HookSystem`. The last two meet in one specification: the ring offers what the threads use.
(`CommandBuffer` has the flush as one step; `DisabledIsIdle` and `SystemImplementsQueue` say why
it may.)

## Where the code may disappoint, and no run says so

These came up while modelling. The first three are at odds with a line of the repository, each in
a case that a property excepts by a condition of its own:

* A payload byte that is 0xFE in every report may keep `database_run` from finding a report again
  after a loss of the link, although "it is again possible to send data" (`README.rst:77`): what
  starts there is refused and dropped whole, up to the same byte of the next report
  (`database.c:134`). `FramesGoOn` is conditional on `Headers`.
* A standstill takes less than "10 x 25ms = 250ms" (`database.c:207`) when several reports are
  taken in one tick. `StandstillLasts` counts them in `extra`.
* The checksum of an empty message is zero and not its seed (`encoding_checksum.cpp:14`), so that
  a message may not be split behind its last byte, although "an array can be split"
  (`encoding_checksum.h:19`). `ResultIsChecksum` is about other messages; nobody splits one.

About the others the repository says nothing that a run could contradict, so that they are
hazards and not findings:

* The state machine's store of zero wipes out an E-stop bit that the callback sets after the
  test and before the store (`remote.c:404-407`). The bit stays lost until the next callback
  that finds the E-stop pressed.
* A press may be counted from what an earlier one has left (see `Buttons`).
* A link that is lost and comes back between two passes of the UI thread, 500 ms apart, is not
  noticed (`system.c:21`): the remote takes the hook for homed still.
* A position string may be NULL when `hookState` leaves UNINITIALIZED within a pass
  (`remote.c:229`).
* A lifting timer that a report sets to 1 to 499 is neither counted down nor cleared
  (`database.c:384-391`): the message ">READY FOR LOADING" stays, which `ReadyEnds` excepts.
* Two position LEDs are on for a moment when the hook comes from MID or OPEN to CLOSED, or from
  MID to OPEN (`remote.c:165-167`, `remote.c:201-203`): `OneLed` says when.
* A push that fills the ring in the middle of a poll (`adt_cbuffer.c:248`), see the bounds.
* A request is dropped, or cut, when the heap is exhausted (`main.c:720`), and no task repeats
  a move; `RequestChannel` may drop one, too.
* The hook is in a partial position when it stands a count off mid or open (`database.c:161`), and
  no button does anything.
* `timeout` is one variable for all tasks. A homing that finds the hook at its end of stroke
  waits for what an earlier command has left in it (`commands_tasks.c:54`); `WaitsAreOwn` says
  that nobody else does.

The hazards in `PROJECT.json` without a property are among these, the lost E-stop bit, the missing
string, the full ring, the dropped request and the count off, and two more about which the
repository says nothing to check: a standstill or a position that is taken from before a reset or
a pause in the reports (`database.c:219`, `database.c:248`), which would need a model of the hook
itself.

## Not modelled

* The SPI framing of a byte (`lcd_spiModule.c`, two nibbles of a word) and GPIO output, which
  feed back into nothing; `lcd_clear`, which is never called.
* The encoding of a request's seven bytes in `spin3204_control.c`; `mc_reboot` and
  `mc_readParameter`, never called.
* The transmit events of `uart_cb`: nothing fills `fifo_uart_tx_data`. The reboot task: no
  command is ever `COMMAND_SYSTEM_RESET`. `adt_cbuffer_reset`: never called.
* Voltage, current, speeds and limits of a report, which are passed through, and RSSI values.
* Pairing and authentication callbacks, which only log; registration of callbacks, pin
  configuration, Kconfig and device tree, which run straight through before the threads start.
* `HookSystem` takes the link as a choice of each UI pass instead of composing `Connection`:
  `Connection` allows a pass to find the link up or down in any order, as that choice does.
