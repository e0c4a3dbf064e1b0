------------------------------- MODULE Display -------------------------------
(***************************************************************************)
(* What the operator sees: remote_updateUi and remote_disconnectedUi of    *)
(* src/remote.c, on the UI thread. The thread sleeps a millisecond after   *)
(* every character, and the main thread, which sets what it shows, runs    *)
(* whole ticks in between.                                                 *)
(*                                                                         *)
(* A line of the display is the sequence of texts sent since the cursor    *)
(* was set: lcd_clear_eol blanks the rest, and no text is longer than a    *)
(* line. The main thread is HookRemote's state machine with any report and *)
(* any command, reduced to what the display shows of it.                   *)
(***************************************************************************)
EXTENDS Naturals, Sequences

CONSTANTS
  States,       \* the hook states the main thread enters
  TimerValues   \* what a report may set the lifting timer to

HookStates == {"UNINITIALIZED", "CLOSED", "PARTIALLY_CLOSED", "MID",
               "PARTIALLY_OPEN", "OPEN", "ERROR"}

ASSUME DisplayAssumption ==
  /\ States \subseteq HookStates
  /\ TimerValues \subseteq Nat

PositionStrings == {"NULL", "?", "OPEN", "MID", "CLOSED", "Opening...", "Closing..."}
StateMessages == {"NULL", "text"}
Leds == {"OPEN", "MID", "CLOSED"}

VARIABLES
  hookState, hookStatePrevious, stateMessage, faultLed,
  error,                 \* database_getError() is not zero
  readyForLiftingTimer,
  positionString,
  uiPc,                    \* where the UI thread is
  seen,                  \* hookState, as the switch has read it, until it is used
  timer,                 \* readyForLiftingTimer, as isReadyForLifting has read it
  leds, faultLit,        \* LEDs that are on
  panel                  \* the lines of the display

mainVars == <<hookState, hookStatePrevious, stateMessage, faultLed, error>>
uiVars == <<positionString, uiPc, seen, timer, leds, faultLit, panel>>
displayVars == <<mainVars, readyForLiftingTimer, uiVars>>

DisplayTypeOK ==
  /\ {hookState, hookStatePrevious, seen} \subseteq HookStates
  /\ stateMessage \in StateMessages
  /\ {faultLed, faultLit, error} \subseteq BOOLEAN
  /\ {readyForLiftingTimer, timer} \subseteq TimerValues \cup {0, 500}
  /\ positionString \in PositionStrings
  /\ uiPc \in {"sleep", "switch", "CLOSED", "OPEN", "MID", "string", "error", "timer",
             "ready", "state", "position", "message"}
  /\ leds \subseteq Leds
  /\ DOMAIN panel = 1 .. 4

DisplayInit ==
  /\ hookState = "UNINITIALIZED"
  /\ hookStatePrevious = "UNINITIALIZED"
  /\ stateMessage = "text"
  /\ faultLed = FALSE
  /\ error = FALSE
  /\ readyForLiftingTimer = 0
  /\ positionString = "NULL"
  /\ uiPc = "sleep"
  /\ seen = "UNINITIALIZED"
  /\ timer = 0
  /\ leds = {}
  /\ faultLit = FALSE
  /\ panel = [line \in 1 .. 4 |-> <<>>]

-----------------------------------------------------------------------------
(* The main thread *)

\* Whether the state machine shows a message in a state; its wording is left out.
MessagesIn(state) ==
  CASE state = "UNINITIALIZED" -> {"text"}
    [] state \in {"CLOSED", "MID", "OPEN"} -> {"NULL"}
    [] state = "ERROR" -> {"text", "NULL"}
    [] OTHER -> {stateMessage}

\* stateMachine: an uninitialised remote stays so, but for the E-stop; a latched error
\* is the state of any other. The E-stop and the protection latch one.
StateMachine ==
  \E state \in States, latched \in BOOLEAN :
    /\ IF hookState = "UNINITIALIZED"
         THEN state = IF latched THEN "ERROR" ELSE "UNINITIALIZED"
         ELSE error \/ latched => state = "ERROR"
    /\ hookState' = state
    /\ hookStatePrevious' = IF state \in {"PARTIALLY_CLOSED", "PARTIALLY_OPEN"}
                              THEN hookStatePrevious ELSE state
    /\ stateMessage' \in MessagesIn(state)
    /\ faultLed' = CASE state = "UNINITIALIZED" -> FALSE
                     [] state = "ERROR" -> TRUE
                     [] OTHER -> faultLed
    /\ error' = (error \/ latched)
    /\ UNCHANGED <<readyForLiftingTimer, uiVars>>

\* remote_updateHookState: the ends of the homing and of the EACK, and an error in
\* a command. The tasks run before the error is looked at, so in any hookState.
HomingEnd ==
  /\ hookState' = "CLOSED"
  /\ UNCHANGED <<hookStatePrevious, stateMessage, faultLed, error, readyForLiftingTimer, uiVars>>

EackEnd ==
  /\ hookState' = "UNINITIALIZED"
  /\ UNCHANGED <<hookStatePrevious, stateMessage, faultLed, error, readyForLiftingTimer, uiVars>>

\* The stop that process requests: the error is latched, by a timeout in that tick.
CommandError ==
  /\ hookState' = "ERROR"
  /\ error' = TRUE
  /\ UNCHANGED <<hookStatePrevious, stateMessage, faultLed, readyForLiftingTimer, uiVars>>

\* database_setError by a report, also when the state machine does not run yet, or by
\* a move that finds the motor jammed.
ErrorSet ==
  /\ error' = TRUE
  /\ UNCHANGED <<hookState, hookStatePrevious, stateMessage, faultLed, readyForLiftingTimer, uiVars>>

\* database_eackError, in the EACK and in the homing.
EackError ==
  /\ error' = FALSE
  /\ UNCHANGED <<hookState, hookStatePrevious, stateMessage, faultLed, readyForLiftingTimer, uiVars>>

\* database_run: a report of the load master.
TimerReport ==
  /\ readyForLiftingTimer' \in TimerValues
  /\ UNCHANGED <<mainVars, uiVars>>

Main ==
  \/ StateMachine \/ HomingEnd \/ EackEnd \/ CommandError \/ ErrorSet \/ EackError
  \/ TimerReport

-----------------------------------------------------------------------------
(* The UI thread *)

Goto(from, to) == uiPc = from /\ uiPc' = to

\* A line, from lcd_set_cursor to lcd_clear_eol.
Shown(line, texts) == panel' = [panel EXCEPT ![line] = texts]

UiStart ==
  /\ Goto("sleep", "switch")
  /\ panel' = [panel EXCEPT ![1] = <<">RSSI(dBm):">>, ![2] = <<">Batt(V):">>]
  /\ UNCHANGED <<mainVars, readyForLiftingTimer, positionString, seen, timer, leds, faultLit>>

\* A state without an LED of its own leaves all of them alone, but for ERROR.
UiSwitch ==
  /\ Goto("switch", IF hookState \in Leds \cup {"ERROR"} THEN "CLOSED" ELSE "string")
  /\ seen' = hookState
  /\ UNCHANGED <<mainVars, readyForLiftingTimer, positionString, timer, leds, faultLit, panel>>

\* Mutant: only an error switches an LED off.
SwitchedOffByError(led) ==
  IF led = seen THEN leds \cup {led} ELSE IF seen = "ERROR" THEN leds \ {led} ELSE leds

\* dk_set_led_on for the LED of the state, dk_set_led_off for the two others.
Switched(led) == IF led = seen THEN leds \cup {led} ELSE leds \ {led}

\* The LEDs, one after the other; in each case of the switch in this order.
UiLed(led, next) ==
  /\ Goto(led, next)
  /\ leds' = Switched(led)
  /\ UNCHANGED <<mainVars, readyForLiftingTimer, positionString, seen, timer, faultLit, panel>>

UiLeds == UiLed("CLOSED", "OPEN") \/ UiLed("OPEN", "MID") \/ UiLed("MID", "string")

\* Mutant: the string of the open position is not set.
PositionForKept(state) ==
  CASE state \in {"CLOSED", "MID"} -> state
    [] state = "ERROR" -> "?"
    [] OTHER -> positionString

\* A partial position keeps the string, unless the one before tells the direction.
PositionFor(state) ==
  CASE state \in {"CLOSED", "MID", "OPEN"} -> state
    [] state = "PARTIALLY_CLOSED" /\ hookStatePrevious = "CLOSED" -> "Opening..."
    [] state = "PARTIALLY_CLOSED" /\ hookStatePrevious = "MID" -> "Closing..."
    [] state = "PARTIALLY_OPEN" /\ hookStatePrevious = "MID" -> "Opening..."
    [] state = "PARTIALLY_OPEN" /\ hookStatePrevious = "OPEN" -> "Closing..."
    [] state = "ERROR" -> "?"
    [] OTHER -> positionString

\* Only this thread has the string, so that it may be set after the LEDs in any case.
UiString ==
  /\ Goto("string", "error")
  /\ positionString' = PositionFor(seen)
  /\ seen' = "UNINITIALIZED"
  /\ UNCHANGED <<mainVars, readyForLiftingTimer, timer, leds, faultLit, panel>>

UiError ==
  /\ IF error
       THEN Goto("error", "message") /\ Shown(3, <<">Error Number:">>)
       ELSE Goto("error", "timer") /\ UNCHANGED panel
  /\ UNCHANGED <<mainVars, readyForLiftingTimer, positionString, seen, timer, leds, faultLit>>

\* database_isReadyForLifting reads the timer ...
UiTimer ==
  /\ Goto("timer", "ready")
  /\ timer' = readyForLiftingTimer
  /\ UNCHANGED <<mainVars, readyForLiftingTimer, positionString, seen, leds, faultLit, panel>>

\* Mutant: a timer that has run once runs for ever.
ExpiredNever(value) == IF value >= 500 THEN 500 ELSE value

Expired(value) ==
  CASE value >= 1000 -> 500
    [] value < 500 -> value
    [] OTHER -> 0

\* ... and stores what is left of it.
UiReady ==
  /\ IF timer = 0
       THEN Goto("ready", "state") /\ UNCHANGED <<readyForLiftingTimer, panel>>
       ELSE /\ Goto("ready", "message")
            /\ readyForLiftingTimer' = IF timer >= 500 THEN Expired(timer) ELSE readyForLiftingTimer
            /\ Shown(3, <<">READY FOR LOADING">>)
  /\ timer' = 0
  /\ UNCHANGED <<mainVars, positionString, seen, leds, faultLit>>

UiState ==
  /\ IF hookState # "UNINITIALIZED"
       THEN Goto("state", "position") /\ UNCHANGED panel
       ELSE Goto("state", "message") /\ Shown(3, <<>>)
  /\ UNCHANGED <<mainVars, readyForLiftingTimer, positionString, seen, timer, leds, faultLit>>

\* Mutant: the line tells the state at this moment.
UiPositionOfNow ==
  /\ Goto("position", "message")
  /\ Shown(3, <<">Hook:", hookState>>)
  /\ UNCHANGED <<mainVars, readyForLiftingTimer, positionString, seen, timer, leds, faultLit>>

UiPosition ==
  /\ Goto("position", "message")
  /\ Shown(3, <<">Hook:", positionString>>)
  /\ UNCHANGED <<mainVars, readyForLiftingTimer, positionString, seen, timer, leds, faultLit>>

UiMessage ==
  /\ Goto("message", "sleep")
  /\ Shown(4, IF stateMessage = "NULL" THEN <<>> ELSE <<stateMessage>>)
  /\ faultLit' = faultLed
  /\ UNCHANGED <<mainVars, readyForLiftingTimer, positionString, seen, timer, leds>>

\* remote_disconnectedUi. The main thread does not run the state machine now.
UiDisconnected ==
  /\ uiPc = "sleep"
  /\ hookState' = "UNINITIALIZED"
  /\ panel' = <<<<">Disconnected!">>, <<">Searching for hook">>, <<>>, <<>>>>
  /\ leds' = {}
  /\ UNCHANGED <<hookStatePrevious, stateMessage, faultLed, error, readyForLiftingTimer,
                 positionString, uiPc, seen, timer, faultLit>>

UpdateUi ==
  \/ UiStart \/ UiSwitch \/ UiLeds \/ UiString \/ UiError \/ UiTimer \/ UiReady \/ UiState
  \/ UiPosition \/ UiMessage

DisplayNext == Main \/ UpdateUi \/ UiDisconnected

DisplaySpec == DisplayInit /\ [][DisplayNext]_displayVars

-----------------------------------------------------------------------------
(* Properties *)

\* The LEDs of remote_updateUi: two are on only while the switch is at work, which may
\* light the new one before the old one goes off (remote.c:165-167, :201-203), and then
\* one of them is that of the state it has read. Never three, and never two between
\* the passes, although each LED is switched by itself, the main thread may come in
\* between, and a partial position leaves all of them alone.
OneLed ==
  \A one, other \in leds :
    one # other => uiPc \in {"OPEN", "MID"} /\ seen \in {one, other}

\* remote_updateUi: after a pass, a position on line 3 is one that the LED which is on
\* does not contradict, although the line is sent long after the switch has set both
\* and the main thread has gone on: both are of the state that the switch has read.
LineAgreesWithLed ==
  uiPc = "sleep" =>
    \A led \in leds, string \in PositionStrings :
      panel[3] = <<">Hook:", string>> => string \in {led, "Opening...", "Closing..."}

\* remote_updateUi: when the hook stays in a position, and nothing else is to be
\* shown, line 3 and the LEDs come to tell that position, wherever the thread was
\* when the hook got there.
PositionIsShown ==
  \A state \in {"CLOSED", "MID", "OPEN"} :
    <>[](hookState = state /\ ~error /\ readyForLiftingTimer = 0 /\ panel[1] = <<">RSSI(dBm):">>)
      => <>[](leds = {state} /\ panel[3] = <<">Hook:", state>>)

\* database_isReadyForLifting: once no report sets the timer any more, the lines stop
\* saying that the hook is ready for loading, unless the timer is left below 500: such
\* a value is neither counted down nor cleared, and the line stays for ever.
ReadyEnds ==
  <>[][~TimerReport]_displayVars =>
    \/ <>[](panel[3] # <<">READY FOR LOADING">>)
    \/ <>[](readyForLiftingTimer \in 1 .. 499)
=============================================================================
