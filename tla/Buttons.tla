------------------------------- MODULE Buttons -------------------------------
(***************************************************************************)
(* The press filter of src/remote.c. updateButtons counts, tick by tick in *)
(* the main thread, how long each button is held. remote_updateButtons, a  *)
(* callback in the system work queue that preempts the main thread, looks  *)
(* at the count when the button is released and sets its bit in            *)
(* buttonsExecute, which the state machine reads and clears. HookRemote    *)
(* has the outcome only: a release sets the bit or not.                    *)
(***************************************************************************)
EXTENDS Naturals

CONSTANTS
  Filtered,   \* CLOSE, MID, OPEN and PARAMETER, or some of them
  Threshold   \* BUTTON_EXECUTE_THRESHOLD, 10 in the code

ASSUME ButtonsAssumption ==
  /\ Filtered \cap {"ESTOP", "none"} = {}
  /\ Threshold \in Nat \ {0}

VARIABLES
  buttonsPressed, buttonsExecute,
  counter,    \* closeButton, midButton, openButton, parameterButton
  mainPc,     \* where the main thread is
  todo,       \* the buttons that updateButtons has not looked at
  current,    \* the one that it has found pressed and whose counter it increments
  loaded,     \* the value it has read
  held,       \* ticks counted in the present press (history)
  stale       \* buttons whose counter an earlier press has left behind (history)

histories == <<held, stale>>
buttonsVars == <<buttonsPressed, buttonsExecute, counter, mainPc, todo, current, loaded, histories>>

Buttons == Filtered \cup {"ESTOP"}

\* Above the threshold all counts are alike.
Counts == 0 .. Threshold + 1

\* updateButtons' increment, as far as the threshold tells counts apart.
Incremented(count) == IF count > Threshold THEN count ELSE count + 1

ButtonsTypeOK ==
  /\ buttonsPressed \subseteq Buttons
  /\ buttonsExecute \subseteq Buttons
  /\ counter \in [Filtered -> Counts]
  /\ mainPc \in {"sleep", "count", "load", "store", "machine", "clear"}
  /\ todo \subseteq Filtered
  /\ current \in Filtered \cup {"none"}
  /\ loaded \in Counts
  /\ held \in [Filtered -> Counts]
  /\ stale \subseteq Filtered

ButtonsInit ==
  /\ buttonsPressed = {}
  /\ buttonsExecute = {}
  /\ counter = [b \in Filtered |-> 0]
  /\ mainPc = "sleep"
  /\ todo = {}
  /\ current = "none"
  /\ loaded = 0
  /\ held = [b \in Filtered |-> 0]
  /\ stale = {}

-----------------------------------------------------------------------------
\* Mutant: a press must be longer still.
PassesLater(b) == counter[b] > Threshold + 1

\* Mutant: a press that just reaches the threshold passes.
PassesEarly(b) == counter[b] >= Threshold

Passes(b) == counter[b] > Threshold

\* Mutant: the E-stop's bit stays until the state machine clears it.
UpdateButtonsKept(pressed, released) ==
  IF "ESTOP" \in pressed
    THEN /\ buttonsExecute' = buttonsExecute \cup {"ESTOP"}
         /\ UNCHANGED counter
    ELSE /\ buttonsExecute' = buttonsExecute \cup {b \in released : Passes(b)}
         /\ counter' = [b \in Filtered |-> IF b \in released THEN 0 ELSE counter[b]]

\* remote_updateButtons; under the E-stop, releases are not looked at.
UpdateButtons(pressed, released) ==
  IF "ESTOP" \in pressed
    THEN /\ buttonsExecute' = buttonsExecute \cup {"ESTOP"}
         /\ UNCHANGED counter
    ELSE /\ buttonsExecute' = (buttonsExecute \ {"ESTOP"}) \cup {b \in released : Passes(b)}
         /\ counter' = [b \in Filtered |-> IF b \in released THEN 0 ELSE counter[b]]

\* A release leaves a count behind if it is not looked at, or if updateButtons is on its
\* way from the test of the button to the store of its counter.
LeavesCount(b, pressed) == "ESTOP" \in pressed \/ b = current

Callback ==
  /\ \E pressed \in SUBSET Buttons \ {buttonsPressed} :
       LET released == Filtered \cap (buttonsPressed \ pressed)
       IN  /\ buttonsPressed' = pressed
           /\ UpdateButtons(pressed, released)
           /\ held' = [b \in Filtered |-> IF b \in pressed \ buttonsPressed THEN 0 ELSE held[b]]
           /\ stale' = (stale \ released) \cup {b \in released : LeavesCount(b, pressed)}
  /\ UNCHANGED <<mainPc, todo, current, loaded>>

-----------------------------------------------------------------------------
(* The main thread in remote_run *)

Tick ==
  /\ mainPc = "sleep"
  /\ mainPc' = "count"
  /\ todo' = Filtered
  /\ UNCHANGED <<buttonsPressed, buttonsExecute, counter, current, loaded, histories>>

\* updateButtons, a button at a time: the test, ...
CountTest ==
  /\ mainPc = "count"
  /\ \E b \in todo :
       /\ todo' = todo \ {b}
       /\ IF b \in buttonsPressed THEN mainPc' = "load" /\ current' = b ELSE UNCHANGED <<mainPc, current>>
  /\ UNCHANGED <<buttonsPressed, buttonsExecute, counter, loaded, histories>>

\* ... the load of its counter ...
CountLoad ==
  /\ mainPc = "load"
  /\ mainPc' = "store"
  /\ loaded' = counter[current]
  /\ UNCHANGED <<buttonsPressed, buttonsExecute, counter, todo, current, histories>>

\* ... and the store.
CountStore ==
  /\ mainPc = "store"
  /\ counter' = [counter EXCEPT ![current] = Incremented(loaded)]
  /\ held' = IF current \in buttonsPressed
               THEN [held EXCEPT ![current] = Incremented(@)] ELSE held
  /\ mainPc' = "count"
  /\ current' = "none"
  /\ loaded' = 0
  /\ UNCHANGED <<buttonsPressed, buttonsExecute, todo, stale>>

CountEnd ==
  /\ mainPc = "count"
  /\ todo = {}
  /\ mainPc' = "machine"
  /\ UNCHANGED <<buttonsPressed, buttonsExecute, counter, todo, current, loaded, histories>>

\* stateMachine reads the bits. In a partial position, and under the E-stop, it
\* leaves them alone, otherwise it stores zero.
Machine ==
  /\ mainPc = "machine"
  /\ \/ mainPc' = "sleep"
     \/ "ESTOP" \notin buttonsExecute /\ mainPc' = "clear"
  /\ UNCHANGED <<buttonsPressed, buttonsExecute, counter, todo, current, loaded, histories>>

Clear ==
  /\ mainPc = "clear"
  /\ buttonsExecute' = {}
  /\ mainPc' = "sleep"
  /\ UNCHANGED <<buttonsPressed, counter, todo, current, loaded, histories>>

RemoteRun == Tick \/ CountTest \/ CountLoad \/ CountStore \/ CountEnd \/ Machine \/ Clear

ButtonsNext == Callback \/ RemoteRun

ButtonsSpec == ButtonsInit /\ [][ButtonsNext]_buttonsVars

-----------------------------------------------------------------------------
(* Properties *)

\* remote.c:70: a button is executed "If filter is big enough", that is, if
\* updateButtons has counted more than the threshold in the press that ends. Only
\* after a release under the E-stop, or one that comes between updateButtons' test of
\* the button and the load of its counter, or between the load and the store, does
\* the next press inherit a count.
FilteredPress ==
  [][\A b \in Filtered :
       b \in buttonsExecute' \ buttonsExecute => held[b] > Threshold \/ b \in stale]_buttonsVars

\* remote_updateButtons against updateButtons: no count is lost, whenever the callback
\* comes; the end of a press that was long enough is executed, except under the E-stop.
LongPressExecutes ==
  [][\A b \in Filtered :
       /\ b \in buttonsPressed \ buttonsPressed'
       /\ held[b] > Threshold
       /\ "ESTOP" \notin buttonsPressed'
       => b \in buttonsExecute']_buttonsVars

\* remote.c:66: once the E-stop is released, its bit is gone, whatever the state
\* machine has read or stored meanwhile.
EstopReleased == "ESTOP" \in buttonsExecute => "ESTOP" \in buttonsPressed
=============================================================================
