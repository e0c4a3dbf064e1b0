----------------------------- MODULE Screen_proof -----------------------------
(***************************************************************************)
(* Theorems about what the operator sees: Display, whatever states and     *)
(* reports there are, and Lcd, for displays of any size and any texts that *)
(* fit.                                                                    *)
(***************************************************************************)
EXTENDS Display, Lcd, TLAPS

-----------------------------------------------------------------------------
(* Display: the inductive invariant *)

\* What the switch has done so far to the LEDs, when the state has one of its own or is
\* ERROR.
LedsAreSwitched ==
  /\ uiPc \in {"CLOSED", "OPEN", "MID"} => seen \in Leds \cup {"ERROR"}
  /\ uiPc \in {"OPEN", "MID"} => ("CLOSED" \in leds <=> seen = "CLOSED")
  /\ uiPc = "MID" => ("OPEN" \in leds <=> seen = "OPEN")
  /\ uiPc = "string" /\ seen \in Leds => leds = {seen}
  /\ uiPc = "string" /\ seen = "ERROR" => leds = {}

\* The LED that is on and the string that is kept never contradict each other, but while
\* the switch is at work on them.
LedTellsPosition ==
  \/ uiPc \in {"OPEN", "MID"}
  \/ uiPc = "string" /\ seen \in Leds \cup {"ERROR"}
  \/ \A led \in leds : positionString \in {led, "Opening...", "Closing..."}

\* From the end of line 3 to the next string, a position on that line is the one kept.
LineIsCurrent ==
  uiPc \in {"sleep", "switch", "CLOSED", "OPEN", "MID", "string", "message"} =>
    \A string \in PositionStrings : panel[3] = <<">Hook:", string>> => string = positionString

DisplayInv == DisplayTypeOK /\ OneLed /\ LedsAreSwitched /\ LedTellsPosition

-----------------------------------------------------------------------------
(* Display: the steps and the theorems *)

\* The three LEDs, one after the other.
LEMMA LedStep ==
  ASSUME DisplayInv, UiLeds
  PROVE  DisplayInv'
<1>1. /\ UNCHANGED <<mainVars, readyForLiftingTimer, positionString, seen, timer, faultLit, panel>>
      /\ seen \in HookStates /\ leds \subseteq Leds
  BY DEF DisplayInv, DisplayTypeOK, UiLeds, UiLed
<1>2. CASE UiLed("CLOSED", "OPEN")
  <2>1. uiPc = "CLOSED" /\ uiPc' = "OPEN" /\ leds' = Switched("CLOSED")
    BY <1>2 DEF UiLed, Goto
  <2>2. seen \in Leds \cup {"ERROR"} /\ \A one, other \in leds : one = other
    BY <2>1 DEF DisplayInv, LedsAreSwitched, OneLed
  <2>3. leds' \subseteq Leds
    BY <1>1, <2>1 DEF Switched, Leds
  <2>4. OneLed' /\ LedsAreSwitched' /\ LedTellsPosition'
    BY <1>1, <2>1, <2>2 DEF Switched, OneLed, LedsAreSwitched, LedTellsPosition
  <2> QED BY <1>1, <2>1, <2>3, <2>4 DEF DisplayInv, DisplayTypeOK, mainVars
<1>3. CASE UiLed("OPEN", "MID")
  <2>1. uiPc = "OPEN" /\ uiPc' = "MID" /\ leds' = Switched("OPEN")
    BY <1>3 DEF UiLed, Goto
  <2>2. /\ seen \in Leds \cup {"ERROR"} /\ ("CLOSED" \in leds <=> seen = "CLOSED")
        /\ \A one, other \in leds : one # other => seen \in {one, other}
    BY <2>1 DEF DisplayInv, LedsAreSwitched, OneLed
  <2>3. leds' \subseteq Leds
    BY <1>1, <2>1 DEF Switched, Leds
  <2>4. OneLed' /\ LedsAreSwitched' /\ LedTellsPosition'
    BY <1>1, <2>1, <2>2 DEF Switched, OneLed, LedsAreSwitched, LedTellsPosition
  <2> QED BY <1>1, <2>1, <2>3, <2>4 DEF DisplayInv, DisplayTypeOK, mainVars
<1>4. CASE UiLed("MID", "string")
  <2>1. uiPc = "MID" /\ uiPc' = "string" /\ leds' = Switched("MID")
    BY <1>4 DEF UiLed, Goto
  <2>2. /\ seen \in Leds \cup {"ERROR"} /\ ("CLOSED" \in leds <=> seen = "CLOSED")
        /\ "OPEN" \in leds <=> seen = "OPEN"
    BY <2>1 DEF DisplayInv, LedsAreSwitched
  <2>3. leds' = IF seen \in Leds THEN {seen} ELSE {}
    BY <1>1, <2>1, <2>2 DEF Switched, Leds
  <2>4. leds' \subseteq Leds
    BY <2>3
  <2>5. "ERROR" \notin Leds
    BY DEF Leds
  <2>6. OneLed' /\ LedsAreSwitched' /\ LedTellsPosition'
    BY <1>1, <2>1, <2>2, <2>3, <2>5 DEF OneLed, LedsAreSwitched, LedTellsPosition
  <2> QED BY <1>1, <2>1, <2>4, <2>6 DEF DisplayInv, DisplayTypeOK, mainVars
<1> QED BY <1>2, <1>3, <1>4 DEF UiLeds

\* The end of the switch: the string of the state that it has read goes with the LEDs.
LEMMA StringStep ==
  ASSUME DisplayInv, UiString
  PROVE  DisplayInv'
<1>1. /\ UNCHANGED <<mainVars, readyForLiftingTimer, timer, leds, faultLit, panel>>
      /\ uiPc = "string" /\ uiPc' = "error" /\ seen' = "UNINITIALIZED"
      /\ positionString' = PositionFor(seen)
      /\ seen \in HookStates /\ positionString \in PositionStrings
  BY DEF DisplayInv, DisplayTypeOK, UiString, Goto
<1>2. /\ PositionFor(seen) \in PositionStrings
      /\ \A led \in leds : PositionFor(seen) \in {led, "Opening...", "Closing..."}
  <2>1. CASE seen \in {"CLOSED", "MID", "OPEN"}
    <3>1. leds = {seen} /\ PositionFor(seen) = seen
      BY <1>1, <2>1 DEF DisplayInv, LedsAreSwitched, Leds, PositionFor
    <3> QED BY <2>1, <3>1 DEF PositionStrings
  <2>2. CASE seen = "ERROR"
    <3>1. leds = {} /\ PositionFor(seen) = "?"
      BY <1>1, <2>2 DEF DisplayInv, LedsAreSwitched, PositionFor
    <3> QED BY <3>1 DEF PositionStrings
  <2>3. CASE seen \in {"UNINITIALIZED", "PARTIALLY_CLOSED", "PARTIALLY_OPEN"}
    <3>1. PositionFor(seen) \in {positionString, "Opening...", "Closing..."}
      BY <2>3 DEF PositionFor
    <3>2. \A led \in leds : positionString \in {led, "Opening...", "Closing..."}
      BY <1>1, <2>3 DEF DisplayInv, LedTellsPosition, Leds
    <3> QED BY <1>1, <3>1, <3>2 DEF PositionStrings
  <2> QED BY <1>1, <2>1, <2>2, <2>3 DEF HookStates
<1>3. OneLed' /\ LedsAreSwitched' /\ LedTellsPosition'
  BY <1>1, <1>2 DEF DisplayInv, OneLed, LedsAreSwitched, LedTellsPosition
<1> QED BY <1>1, <1>2, <1>3 DEF DisplayInv, DisplayTypeOK, mainVars, HookStates

\* No step of either thread breaks the invariant.
LEMMA DisplayStep ==
  ASSUME DisplayInv, [DisplayNext]_displayVars
  PROVE  DisplayInv'
<1> USE DEF DisplayInv
<1>1. CASE Main
  <2>1. UNCHANGED <<uiPc, seen, leds, positionString>>
    BY <1>1 DEF Main, StateMachine, HomingEnd, EackEnd, CommandError, ErrorSet, EackError, TimerReport, uiVars
  <2>2. DisplayTypeOK'
    <3>1. CASE StateMachine
      <4>1. PICK state \in States :
              /\ hookState' = state
              /\ hookStatePrevious' = IF state \in {"PARTIALLY_CLOSED", "PARTIALLY_OPEN"}
                                        THEN hookStatePrevious ELSE state
              /\ stateMessage' \in MessagesIn(state)
              /\ faultLed' = CASE state = "UNINITIALIZED" -> FALSE
                               [] state = "ERROR" -> TRUE
                               [] OTHER -> faultLed
        BY <3>1 DEF StateMachine
      <4>2. state \in HookStates
        BY DisplayAssumption
      <4>3. stateMessage' \in StateMessages
        <5>1. MessagesIn(state) \subseteq StateMessages
          BY DEF DisplayTypeOK, MessagesIn, StateMessages
        <5> QED BY <4>1, <5>1
      <4>4. faultLed' \in BOOLEAN
        BY <4>1 DEF DisplayTypeOK
      <4>5. error' \in BOOLEAN
        <5>1. \E latched \in BOOLEAN : error' = (error \/ latched)
          <6> HIDE DEF DisplayInv
          <6> QED BY <3>1, Zenon DEF StateMachine
        <5> HIDE DEF DisplayInv
        <5> QED BY <5>1, Zenon
      <4>6. {hookState', hookStatePrevious', seen'} \subseteq HookStates
        BY <3>1, <4>1, <4>2 DEF DisplayTypeOK, StateMachine, uiVars
      <4>7. {faultLed', faultLit', error'} \subseteq BOOLEAN
        <5>1. faultLit' = faultLit /\ faultLit \in BOOLEAN
          BY <3>1 DEF DisplayTypeOK, StateMachine, uiVars
        <5> HIDE DEF DisplayInv
        <5> QED BY <4>4, <4>5, <5>1, Zenon
      <4>8. UNCHANGED <<readyForLiftingTimer, uiVars>>
        <5> HIDE DEF DisplayInv
        <5> QED BY <3>1, Zenon DEF StateMachine
      <4> QED BY <4>3, <4>6, <4>7, <4>8 DEF DisplayTypeOK, uiVars
    <3>2. CASE HomingEnd
      BY <3>2 DEF DisplayTypeOK, HomingEnd, uiVars, HookStates
    <3>3. CASE EackError
      BY <3>3 DEF DisplayTypeOK, EackError, uiVars
    <3>4. CASE EackEnd
      BY <3>4 DEF DisplayTypeOK, EackEnd, uiVars, HookStates
    <3>5. CASE CommandError
      BY <3>5 DEF DisplayTypeOK, CommandError, uiVars, HookStates
    <3>6. CASE ErrorSet
      BY <3>6 DEF DisplayTypeOK, ErrorSet, uiVars
    <3>7. CASE TimerReport
      BY <3>7 DEF DisplayTypeOK, TimerReport, mainVars, uiVars
    <3> QED BY <1>1, <3>1, <3>2, <3>3, <3>4, <3>5, <3>6, <3>7 DEF Main
  <2> QED BY <2>1, <2>2 DEF OneLed, LedsAreSwitched, LedTellsPosition
<1>2. CASE UiLeds \/ UiString
  BY <1>2, LedStep, StringStep
<1>3. CASE UiDisconnected
  <2>1. leds' = {}
    BY <1>3 DEF UiDisconnected
  <2>2. DOMAIN panel' = 1 .. 4
    <3>1. panel' = <<<<">Disconnected!">>, <<">Searching for hook">>, <<>>, <<>>>>
      BY <1>3 DEF UiDisconnected
    <3>2. \A a, b, c, d : DOMAIN <<a, b, c, d>> = 1 .. 4
      OBVIOUS
    <3> HIDE DEF DisplayInv
    <3> QED BY <3>1, <3>2, Zenon
  <2>3. {hookState', hookStatePrevious', seen'} \subseteq HookStates
    BY <1>3 DEF DisplayTypeOK, UiDisconnected, HookStates
  <2>4. DisplayTypeOK'
    BY <1>3, <2>1, <2>2, <2>3 DEF DisplayTypeOK, UiDisconnected
  <2>5. uiPc' = "sleep"
    BY <1>3 DEF UiDisconnected
  <2> QED BY <2>1, <2>4, <2>5 DEF OneLed, LedsAreSwitched, LedTellsPosition
<1>4. CASE UpdateUi /\ ~(UiLeds \/ UiString)
  <2>1. leds' = leds /\ positionString' = positionString
    BY <1>4 DEF UpdateUi, UiStart, UiSwitch, UiError, UiTimer, UiReady, UiState, UiPosition, UiMessage
  <2>3. /\ uiPc \notin {"CLOSED", "OPEN", "MID", "string"}
        /\ \/ uiPc' \notin {"CLOSED", "OPEN", "MID", "string"}
           \/ uiPc' = "CLOSED" /\ seen' \in Leds \cup {"ERROR"}
           \/ uiPc' = "string" /\ seen' \notin Leds \cup {"ERROR"}
    <3> HIDE DEF DisplayInv
    <3>1. CASE UiSwitch
      BY <3>1 DEF UiSwitch, Goto
    <3>2. CASE ~UiSwitch
      BY <1>4, <3>2 DEF UpdateUi, UiStart, UiError, UiTimer, UiReady, UiState, UiPosition, UiMessage, Goto
    <3> QED BY <3>1, <3>2
  <2>2. DisplayTypeOK'
    <3> USE DEF DisplayTypeOK, mainVars, Goto, Shown
    <3>1. CASE UiStart
      BY <3>1 DEF UiStart
    <3>2. CASE UiSwitch
      BY <3>2 DEF UiSwitch
    <3>3. CASE UiError
      <4>1. UNCHANGED <<mainVars, readyForLiftingTimer, positionString, seen, timer, leds, faultLit>>
        BY <3>3 DEF UiError
      <4>2. CASE error
        <5>1. uiPc' = "message"
          <6> HIDE DEF DisplayInv, DisplayTypeOK
          <6> QED BY <3>3, <4>2 DEF UiError
        <5>2. \E shown : panel' = [panel EXCEPT ![3] = shown]
          <6> HIDE DEF DisplayInv, DisplayTypeOK
          <6> QED BY <3>3, <4>2 DEF UiError
        <5>3. DOMAIN panel' = 1 .. 4
          BY <5>2
        <5> QED BY <4>1, <5>1, <5>3
      <4>3. CASE ~error
        <5>1. uiPc' = "timer" /\ panel' = panel
          BY <3>3, <4>3 DEF UiError
        <5> QED BY <4>1, <5>1
      <4> QED BY <4>2, <4>3
    <3>4. CASE UiTimer
      BY <3>4 DEF UiTimer
    <3>5. CASE UiReady
      <4>1. timer \in Nat /\ readyForLiftingTimer \in TimerValues \cup {0, 500}
        <5>1. timer \in TimerValues \cup {0, 500} /\ readyForLiftingTimer \in TimerValues \cup {0, 500}
          OBVIOUS
        <5> QED BY <5>1, DisplayAssumption
      <4>2. timer' = 0 /\ UNCHANGED <<mainVars, positionString, seen, leds, faultLit>>
        BY <3>5 DEF UiReady
      <4>3. CASE timer = 0
        BY <3>5, <4>2, <4>3 DEF UiReady
      <4>4. CASE timer # 0
        <5>1. /\ uiPc' = "message"
              /\ readyForLiftingTimer' = IF timer >= 500 THEN Expired(timer) ELSE readyForLiftingTimer
          <6> HIDE DEF DisplayInv, DisplayTypeOK
          <6> QED BY <3>5, <4>4 DEF UiReady
        <5>6. \E shown : panel' = [panel EXCEPT ![3] = shown]
          <6> HIDE DEF DisplayInv, DisplayTypeOK
          <6> QED BY <3>5, <4>4 DEF UiReady
        <5>2. timer >= 500 => Expired(timer) \in {0, 500}
          BY <4>1 DEF Expired
        <5>3. readyForLiftingTimer' \in TimerValues \cup {0, 500}
          BY <4>1, <5>1, <5>2
        <5>4. {readyForLiftingTimer', timer'} \subseteq TimerValues \cup {0, 500}
          BY <4>2, <5>3
        <5>5. DOMAIN panel' = 1 .. 4
          BY <5>6
        <5> QED BY <4>2, <5>1, <5>4, <5>5
      <4> QED BY <4>3, <4>4
    <3>6. CASE UiState
      BY <3>6 DEF UiState
    <3>7. CASE UiPosition
      BY <3>7 DEF UiPosition
    <3>8. CASE UiMessage
      BY <3>8 DEF UiMessage
    <3> QED BY <1>4, <3>1, <3>2, <3>3, <3>4, <3>5, <3>6, <3>7, <3>8 DEF UpdateUi
  <2>4. OneLed' /\ LedsAreSwitched' /\ LedTellsPosition'
    <3>1. (\A one, other \in leds : one = other) /\
          \A led \in leds : positionString \in {led, "Opening...", "Closing..."}
      BY <2>3 DEF OneLed, LedTellsPosition
    <3> HIDE DEF DisplayInv
    <3> QED BY <2>1, <2>3, <3>1 DEF OneLed, LedsAreSwitched, LedTellsPosition
  <2> QED BY <2>2, <2>4
<1>5. CASE UNCHANGED displayVars
  BY <1>5 DEF displayVars, mainVars, uiVars, DisplayTypeOK, OneLed, LedsAreSwitched, LedTellsPosition
<1> QED BY <1>1, <1>2, <1>3, <1>4, <1>5 DEF DisplayNext

\* A line with another text is not one with a position.
LEMMA OtherLines ==
  ASSUME NEW string
  PROVE  /\ \A text : <<text>> # <<">Hook:", string>>
         /\ <<>> # <<">Hook:", string>>
<1>1. Len(<<">Hook:", string>>) = 2 /\ Len(<<>>) = 0 /\ \A text : Len(<<text>>) = 1
  OBVIOUS
<1> QED BY <1>1

\* Only UiPosition writes a position, and only UiString changes the one kept; between
\* the two lie all the statements of a pass.
LEMMA LineStep ==
  ASSUME DisplayTypeOK, LineIsCurrent, [DisplayNext]_displayVars
  PROVE  LineIsCurrent'
<1>0. DOMAIN panel = 1 .. 4 /\ 3 \in 1 .. 4
  BY DEF DisplayTypeOK
<1>1. CASE Main
  BY <1>1 DEF LineIsCurrent, Main, StateMachine, HomingEnd, EackEnd, CommandError, ErrorSet, EackError, TimerReport, uiVars
<1>2. CASE UiStart
  <2>1. panel'[3] = panel[3]
    BY <1>0, <1>2 DEF UiStart
  <2> QED BY <1>2, <2>1 DEF LineIsCurrent, UiStart, Goto
<1>3. CASE UiSwitch
  BY <1>3 DEF LineIsCurrent, UiSwitch, Goto
<1>4. CASE UiLeds
  BY <1>4 DEF LineIsCurrent, UiLeds, UiLed, Goto
<1>5. CASE UiError
  <2>1. CASE error
    <3>1. panel'[3] = <<">Error Number:">>
      BY <1>0, <1>5, <2>1 DEF UiError, Shown
    <3> QED BY <3>1, OtherLines DEF LineIsCurrent
  <2>2. CASE ~error
    BY <1>5, <2>2 DEF LineIsCurrent, UiError, Goto
  <2> QED BY <2>1, <2>2
<1>6. CASE UiTimer
  BY <1>6 DEF LineIsCurrent, UiTimer, Goto
<1>7. CASE UiReady
  <2>1. CASE timer = 0
    BY <1>7, <2>1 DEF LineIsCurrent, UiReady, Goto
  <2>2. CASE timer # 0
    <3>1. panel'[3] = <<">READY FOR LOADING">>
      BY <1>0, <1>7, <2>2 DEF UiReady, Shown
    <3> QED BY <3>1, OtherLines DEF LineIsCurrent
  <2> QED BY <2>1, <2>2
<1>8. CASE UiState
  <2>1. CASE hookState # "UNINITIALIZED"
    BY <1>8, <2>1 DEF LineIsCurrent, UiState, Goto
  <2>2. CASE hookState = "UNINITIALIZED"
    <3>1. panel'[3] = <<>>
      BY <1>0, <1>8, <2>2 DEF UiState, Shown
    <3> QED BY <3>1, OtherLines DEF LineIsCurrent
  <2> QED BY <2>1, <2>2
<1>9. CASE UiPosition
  <2>1. panel'[3] = <<">Hook:", positionString>> /\ positionString' = positionString
    BY <1>0, <1>9 DEF UiPosition, Shown
  <2>2. \A string : <<">Hook:", string>> = <<">Hook:", positionString>> => string = positionString
    OBVIOUS
  <2> QED BY <2>1, <2>2 DEF LineIsCurrent
<1>10. CASE UiMessage
  <2>1. panel'[3] = panel[3]
    BY <1>0, <1>10 DEF UiMessage, Shown
  <2> QED BY <1>10, <2>1 DEF LineIsCurrent, UiMessage, Goto
<1>11. CASE UiDisconnected
  <2>1. panel'[3] = <<>>
    <3>1. panel' = <<<<">Disconnected!">>, <<">Searching for hook">>, <<>>, <<>>>>
      BY <1>11 DEF UiDisconnected
    <3>2. \A a, b, c, d : <<a, b, c, d>>[3] = c
      OBVIOUS
    <3> QED BY <3>1, <3>2, Zenon
  <2> QED BY <2>1, OtherLines DEF LineIsCurrent
<1>12. CASE UNCHANGED displayVars
  BY <1>12 DEF displayVars, uiVars, LineIsCurrent
<1>13. CASE UiString
  BY <1>13 DEF LineIsCurrent, UiString, Goto
<1> QED BY <1>1, <1>2, <1>3, <1>4, <1>5, <1>6, <1>7, <1>8, <1>9, <1>10, <1>11, <1>12, <1>13
    DEF DisplayNext, UpdateUi

\* At first line 3 is empty.
LEMMA LineInitially == DisplayInit => LineIsCurrent
<1> SUFFICES ASSUME DisplayInit PROVE LineIsCurrent
  OBVIOUS
<1>1. panel[3] = <<>>
  BY DEF DisplayInit
<1> QED BY <1>1, OtherLines DEF LineIsCurrent

\* The inductive invariant holds.
LEMMA DisplayInvariance == DisplaySpec => []DisplayInv
<1>1. DisplayInit => DisplayInv
  BY DEF DisplayInit, DisplayInv, DisplayTypeOK, HookStates, StateMessages, PositionStrings, Leds,
         OneLed, LedsAreSwitched, LedTellsPosition
<1>2. DisplayInv /\ [DisplayNext]_displayVars => DisplayInv'
  BY DisplayStep
<1> QED BY <1>1, <1>2, PTL DEF DisplaySpec

\* remote_updateUi and the main thread: the state of the display keeps its type.
THEOREM DisplayTypeCorrect == DisplaySpec => []DisplayTypeOK
<1>1. DisplayInv => DisplayTypeOK
  BY DEF DisplayInv
<1> QED BY <1>1, DisplayInvariance, PTL

\* remote_updateUi: however the main thread moves on between the statements of the UI
\* thread, at most one LED of the position is on, but for a new one that the switch has
\* lit before it comes to the old one.
THEOREM OneLedIsOn == DisplaySpec => []OneLed
<1>1. DisplayInv => OneLed
  BY DEF DisplayInv
<1> QED BY <1>1, DisplayInvariance, PTL

\* remote_updateUi: whatever the main thread does between the statements of a pass, a
\* pass ends with a position on line 3 that the lit LED does not contradict.
THEOREM LedAndLineAgree == DisplaySpec => []LineAgreesWithLed
<1>1. DisplayInv /\ LineIsCurrent => LineAgreesWithLed
  BY DEF DisplayInv, LedTellsPosition, LineIsCurrent, LineAgreesWithLed
<1>2. DisplaySpec => []LineIsCurrent
  <2>1. DisplayInv => DisplayTypeOK
    BY DEF DisplayInv
  <2> QED BY <2>1, DisplayInvariance, LineInitially, LineStep, PTL DEF DisplaySpec
<1> QED BY <1>1, <1>2, DisplayInvariance, PTL

-----------------------------------------------------------------------------
(* Lcd: the inductive invariant *)

Writing == pc \in {"first", "second", "clear"}

\* Characters of both texts that have been sent, of the present line.
ColumnIsReached ==
  /\ pc \in {"init", "idle"} => i = 0
  /\ pc = "init" => content = [l \in Rows |-> Blank]
  /\ pc = "first" => i <= Width[texts[1]] /\ xpos = i + 1
  /\ pc = "second" => i <= Width[texts[2]] /\ xpos = Width[texts[1]] + i + 1
  /\ pc = "clear" => i = 0 /\ Width[texts[1]] + Width[texts[2]] < xpos

\* The part of the present line that is written shows its texts.
LineSoFar ==
  Writing => \A column \in Columns : column < xpos =>
    cells[cursor_data(line, column)] = SymbolAt(texts, column)

LcdInv == TypeOK /\ CursorInSync /\ ColumnIsReached /\ LineSoFar /\ LinesShown

-----------------------------------------------------------------------------
(* Lines and addresses *)

LEMMA LineFits ==
  ASSUME NEW pair \in Lines
  PROVE  /\ pair[1] \in Texts
         /\ pair[2] \in Texts
         /\ Width[pair[1]] \in Nat
         /\ Width[pair[2]] \in Nat
         /\ Width[pair[1]] + Width[pair[2]] <= chr_MAX
         /\ pair # Blank
BY LcdAssumption DEF Blank

\* Every cell has an address of its own.
LEMMA OneAddress ==
  ASSUME NEW l \in Rows, NEW m \in Rows, NEW c \in Columns, NEW d \in Columns
  PROVE  /\ cursor_data(l, c) \in Addresses
         /\ cursor_data(l, c) + 1 = cursor_data(l, c + 1)
         /\ cursor_data(l, c) + 1 \in Addresses
         /\ cursor_data(l, c) = cursor_data(m, d) => l = m /\ c = d
BY LcdAssumption DEF Rows, Columns, Addresses, cursor_data

\* A character written within a line goes to the present cell and to no other.
LEMMA WriteKeeps ==
  ASSUME LcdInv, Writing, xpos <= chr_MAX, NEW symbol \in Symbols, WriteData(symbol),
         xpos' = xpos + 1, line' = line
  PROVE  /\ cells' \in [Addresses -> Symbols]
         /\ address' \in Addresses
         /\ xpos' \in 0 .. chr_MAX + 1
         /\ xpos \in Columns
         /\ address' = cursor_data(line, xpos')
         /\ cells'[cursor_data(line, xpos)] = symbol
         /\ \A l \in Rows, c \in Columns :
              ~(l = line /\ c = xpos) => cells'[cursor_data(l, c)] = cells[cursor_data(l, c)]
<1>1. xpos \in Columns
  <2>1. xpos >= 1
    BY LineFits DEF LcdInv, TypeOK, ColumnIsReached, Writing
  <2> QED BY <2>1, LcdAssumption DEF LcdInv, TypeOK, Columns
<1>2. line \in Rows /\ address = cursor_data(line, xpos)
  BY DEF LcdInv, TypeOK, CursorInSync, Writing
<1>3. cells' = [cells EXCEPT ![address] = symbol] /\ address' = address + 1
  BY DEF WriteData
<1>4. address \in Addresses /\ address' \in Addresses /\ address' = cursor_data(line, xpos')
  BY <1>1, <1>2, <1>3, OneAddress
<1>5. cells \in [Addresses -> Symbols]
  BY DEF LcdInv, TypeOK
<1>6. ASSUME NEW l \in Rows, NEW c \in Columns, ~(l = line /\ c = xpos)
      PROVE  cells'[cursor_data(l, c)] = cells[cursor_data(l, c)]
  <2>1. cursor_data(l, c) \in Addresses /\ cursor_data(l, c) # address
    BY <1>1, <1>2, <1>6, OneAddress
  <2> QED BY <2>1, <1>3, <1>5
<1>7. cells'[cursor_data(line, xpos)] = symbol
  BY <1>2, <1>3, <1>4, <1>5
<1>8. cells' \in [Addresses -> Symbols]
  BY <1>3, <1>5
<1>9. xpos' \in 0 .. chr_MAX + 1
  BY <1>1, LcdAssumption DEF Columns
<1> QED BY <1>1, <1>4, <1>6, <1>7, <1>8, <1>9

-----------------------------------------------------------------------------
LEMMA InitInv == Init => LcdInv
<1> SUFFICES ASSUME Init PROVE LcdInv
  OBVIOUS
<1>1. TypeOK
  <2>1. cells \in [Addresses -> Symbols]
    BY DEF Init, Symbols
  <2>2. address \in Addresses /\ line \in Rows
    BY LcdAssumption DEF Init, Addresses, Rows
  <2>3. xpos \in 0 .. chr_MAX + 1
    BY LcdAssumption DEF Init
  <2> QED BY <2>1, <2>2, <2>3 DEF Init, TypeOK
<1> QED BY <1>1 DEF Init, LcdInv, CursorInSync, ColumnIsReached, LineSoFar, LinesShown, Writing

LEMMA LcdInitKeeps == LcdInv /\ LcdInit => LcdInv'
<1> SUFFICES ASSUME LcdInv, LcdInit PROVE LcdInv'
  OBVIOUS
<1>1. TypeOK'
  BY LcdAssumption DEF LcdInv, LcdInit, TypeOK, Addresses, Symbols
<1>2. LinesShown'
  <2> SUFFICES ASSUME NEW l \in Rows, NEW column \in Columns
               PROVE  cells'[cursor_data(l, column)] = SymbolAt(content'[l], column)
    BY DEF LinesShown
  <2>1. cells'[cursor_data(l, column)] = Space
    BY OneAddress DEF LcdInit
  <2>2. content'[l] = Blank
    BY DEF LcdInit, LcdInv, ColumnIsReached
  <2> QED BY <2>1, <2>2 DEF SymbolAt
<1> QED BY <1>1, <1>2 DEF LcdInv, LcdInit, CursorInSync, ColumnIsReached, LineSoFar, Writing

LEMMA StartLineKeeps == LcdInv /\ StartLine => LcdInv'
<1> SUFFICES ASSUME LcdInv, StartLine PROVE LcdInv'
  OBVIOUS
<1>1. address' = cursor_data(line', 1) /\ xpos' = 1 /\ 1 \in Columns
  BY LcdAssumption DEF StartLine, SetCursor, Columns
<1>2. line' \in Rows /\ texts' \in Lines /\ pc' = "first" /\ i' = i /\ i = 0 /\ pc = "idle"
  BY DEF StartLine, LcdInv, ColumnIsReached
<1>3. UNCHANGED <<cells, content>>
  BY DEF StartLine
<1>4. TypeOK'
  <2>1. address' \in Addresses
    BY <1>1, <1>2, OneAddress
  <2>2. xpos' \in 0 .. chr_MAX + 1
    BY <1>1, LcdAssumption
  <2> QED BY <1>2, <1>3, <2>1, <2>2 DEF LcdInv, TypeOK
<1>5. CursorInSync' /\ ColumnIsReached'
  BY <1>1, <1>2, LineFits DEF CursorInSync, ColumnIsReached
<1>6. LineSoFar'
  BY <1>1, <1>2 DEF LineSoFar, Columns
<1>7. LinesShown'
  BY <1>2, <1>3 DEF LcdInv, LinesShown
<1> QED BY <1>4, <1>5, <1>6, <1>7 DEF LcdInv

\* What the two actions that write a character have in common.
LEMMA WrittenInv ==
  ASSUME LcdInv, Writing, Writing', xpos <= chr_MAX, NEW symbol \in Symbols, WriteData(symbol),
         xpos' = xpos + 1, UNCHANGED <<line, texts, content>>, symbol = SymbolAt(texts, xpos)
  PROVE  CursorInSync' /\ LineSoFar' /\ LinesShown'
<1> USE WriteKeeps
<1>1. CursorInSync'
  BY DEF CursorInSync
<1>2. LineSoFar'
  <2> SUFFICES ASSUME NEW column \in Columns, column < xpos'
               PROVE  cells'[cursor_data(line, column)] = SymbolAt(texts, column)
    BY DEF LineSoFar
  <2>0. line \in Rows /\ xpos \in Nat
    BY LcdAssumption DEF LcdInv, TypeOK
  <2>1. CASE column = xpos
    BY <2>1
  <2>2. CASE column # xpos
    <3>1. column < xpos
      BY <2>0, <2>2 DEF Columns
    <3>2. cells'[cursor_data(line, column)] = cells[cursor_data(line, column)]
      BY <2>0, <2>2
    <3> QED BY <3>1, <3>2 DEF LcdInv, LineSoFar
  <2> QED BY <2>1, <2>2
<1>3. LinesShown'
  <2> SUFFICES ASSUME NEW l \in Rows, l # line, NEW column \in Columns
               PROVE  cells'[cursor_data(l, column)] = SymbolAt(content[l], column)
    BY DEF LinesShown, Writing
  <2>1. cells'[cursor_data(l, column)] = cells[cursor_data(l, column)]
    OBVIOUS
  <2> QED BY <2>1 DEF LcdInv, LinesShown, Writing
<1> QED BY <1>1, <1>2, <1>3

LEMMA SendCharKeeps == LcdInv /\ SendChar => LcdInv'
<1> SUFFICES ASSUME LcdInv, SendChar PROVE LcdInv'
  OBVIOUS
<1> DEFINE symbol == <<Text, i + 1>>
<1>1. texts \in Lines /\ i \in Nat /\ xpos \in Nat
  BY LcdAssumption DEF LcdInv, TypeOK
<1>2. /\ pc \in {"first", "second"} /\ pc' = pc /\ WriteData(symbol)
      /\ xpos' = xpos + 1 /\ i' = i + 1 /\ i < Width[Text]
      /\ UNCHANGED <<line, texts, content>>
  BY DEF SendChar
<1>3. xpos <= chr_MAX /\ symbol = SymbolAt(texts, xpos)
  <2> DEFINE first == Width[texts[1]]
             second == Width[texts[2]]
  <2>1. first \in Nat /\ second \in Nat /\ first + second <= chr_MAX /\ texts # Blank /\ chr_MAX \in Nat
    BY <1>1, LineFits, LcdAssumption
  <2>2. CASE pc = "first"
    <3>1. xpos = i + 1 /\ i < first /\ Text = texts[1]
      BY <1>2, <2>2 DEF LcdInv, ColumnIsReached, Text
    <3> HIDE DEF first, second
    <3>2. xpos <= first /\ xpos <= chr_MAX
      BY <3>1, <1>1, <2>1
    <3> QED BY <3>1, <3>2, <2>1 DEF SymbolAt, first
  <2>3. CASE pc = "second"
    <3>1. xpos = first + i + 1 /\ i < second /\ Text = texts[2]
      BY <1>2, <2>3 DEF LcdInv, ColumnIsReached, Text
    <3> HIDE DEF first, second
    <3>2. ~(xpos <= first) /\ xpos <= first + second /\ xpos - first = i + 1 /\ xpos <= chr_MAX
      BY <3>1, <1>1, <2>1
    <3> QED BY <3>1, <3>2, <2>1 DEF SymbolAt, first, second
  <2> QED BY <2>2, <2>3, <1>2
<1>4. symbol \in Symbols /\ Writing /\ Writing'
  BY <1>1, <1>2, LineFits DEF Symbols, Text, Writing
<1>5. CursorInSync' /\ LineSoFar' /\ LinesShown'
  BY <1>2, <1>3, <1>4, WrittenInv
<1>6. TypeOK'
  <2>1. cells' \in [Addresses -> Symbols] /\ address' \in Addresses /\ xpos' \in 0 .. chr_MAX + 1
    BY <1>2, <1>3, <1>4, WriteKeeps
  <2> QED BY <1>1, <1>2, <2>1 DEF LcdInv, TypeOK
<1>7. ColumnIsReached'
  BY <1>1, <1>2, LineFits DEF LcdInv, ColumnIsReached, Text
<1> QED BY <1>5, <1>6, <1>7 DEF LcdInv

LEMMA SendEndKeeps == LcdInv /\ SendEnd => LcdInv'
<1> SUFFICES ASSUME LcdInv, SendEnd PROVE LcdInv'
  OBVIOUS
<1>1. texts \in Lines /\ i \in Nat /\ xpos \in Nat
  BY LcdAssumption DEF LcdInv, TypeOK
<1>2. /\ pc \in {"first", "second"} /\ i = Width[Text] /\ i' = 0
      /\ pc' = IF pc = "first" THEN "second" ELSE "clear"
      /\ UNCHANGED <<cells, address, xpos, line, texts, content>>
  BY DEF SendEnd
<1>3. ColumnIsReached'
  BY <1>1, <1>2, LineFits DEF LcdInv, ColumnIsReached, Text
<1>4. TypeOK' /\ CursorInSync' /\ LineSoFar' /\ LinesShown'
  BY <1>2 DEF LcdInv, TypeOK, CursorInSync, LineSoFar, LinesShown, Writing
<1> QED BY <1>3, <1>4 DEF LcdInv

LEMMA ClearCharKeeps == LcdInv /\ ClearChar => LcdInv'
<1> SUFFICES ASSUME LcdInv, ClearChar PROVE LcdInv'
  OBVIOUS
<1>1. texts \in Lines /\ xpos \in Nat
  BY LcdAssumption DEF LcdInv, TypeOK
<1>2. /\ pc = "clear" /\ pc' = pc /\ xpos <= chr_MAX /\ WriteData(Space)
      /\ xpos' = xpos + 1 /\ UNCHANGED <<line, texts, i, content>>
  BY DEF ClearChar, WithinLine
<1>3. Space = SymbolAt(texts, xpos)
  BY <1>1, <1>2, LineFits DEF LcdInv, ColumnIsReached, SymbolAt
<1>4. Space \in Symbols /\ Writing /\ Writing'
  BY <1>2 DEF Symbols, Writing
<1>5. CursorInSync' /\ LineSoFar' /\ LinesShown'
  BY <1>2, <1>3, <1>4, WrittenInv
<1>6. TypeOK'
  <2>1. cells' \in [Addresses -> Symbols] /\ address' \in Addresses /\ xpos' \in 0 .. chr_MAX + 1
    BY <1>2, <1>4, WriteKeeps
  <2> QED BY <1>2, <2>1 DEF LcdInv, TypeOK
<1>7. ColumnIsReached'
  BY <1>1, <1>2, LineFits DEF LcdInv, ColumnIsReached
<1> QED BY <1>5, <1>6, <1>7 DEF LcdInv

LEMMA ClearEndKeeps == LcdInv /\ ClearEnd => LcdInv'
<1> SUFFICES ASSUME LcdInv, ClearEnd PROVE LcdInv'
  OBVIOUS
<1>1. texts \in Lines /\ xpos \in Nat /\ line \in Rows
  BY LcdAssumption DEF LcdInv, TypeOK
<1>2. /\ pc = "clear" /\ pc' = "idle" /\ ~(xpos <= chr_MAX)
      /\ content' = [content EXCEPT ![line] = texts]
      /\ UNCHANGED <<cells, address, xpos, line, texts, i>>
  BY DEF ClearEnd, WithinLine
<1>3. TypeOK'
  BY <1>2 DEF LcdInv, TypeOK
<1>4. LinesShown'
  <2> SUFFICES ASSUME NEW l \in Rows, NEW column \in Columns
               PROVE  cells[cursor_data(l, column)] = SymbolAt(content'[l], column)
    BY <1>2 DEF LinesShown
  <2>1. CASE l = line
    <3>1. column < xpos
      BY <1>1, <1>2, LcdAssumption DEF Columns
    <3>2. content'[l] = texts
      BY <1>2, <2>1 DEF LcdInv, TypeOK
    <3> QED BY <1>2, <2>1, <3>1, <3>2 DEF LcdInv, LineSoFar, Writing
  <2>2. CASE l # line
    BY <1>2, <2>2 DEF LcdInv, TypeOK, LinesShown
  <2> QED BY <2>1, <2>2
<1>5. CursorInSync' /\ ColumnIsReached' /\ LineSoFar'
  BY <1>2 DEF LcdInv, CursorInSync, ColumnIsReached, LineSoFar, Writing
<1> QED BY <1>3, <1>4, <1>5 DEF LcdInv

\* lcd_spiModule.c keeps to all of it, whatever it is asked to show.
THEOREM LcdInvariant == Spec => []LcdInv
<1>1. LcdInv /\ [Next]_vars => LcdInv'
  <2> SUFFICES ASSUME LcdInv, [Next]_vars PROVE LcdInv'
    OBVIOUS
  <2>1. CASE UNCHANGED vars
    BY <2>1 DEF vars, LcdInv, TypeOK, CursorInSync, ColumnIsReached, LineSoFar, LinesShown, Writing
  <2> QED BY <2>1, LcdInitKeeps, StartLineKeeps, SendCharKeeps, SendEndKeeps, ClearCharKeeps,
             ClearEndKeeps DEF Next
<1> QED BY <1>1, InitInv, PTL DEF Spec

\* Addresses stay on the display's controller and columns within a line and one.
THEOREM LcdTypeCorrect == Spec => []TypeOK
BY LcdInvariant, PTL DEF LcdInv

\* The driver's column and the controller's address never come apart.
THEOREM CursorStaysInSync == Spec => []CursorInSync
BY LcdInvariant, PTL DEF LcdInv

\* A line that is not being written shows exactly the texts that it got last.
THEOREM LinesAreShown == Spec => []LinesShown
BY LcdInvariant, PTL DEF LcdInv
===============================================================================
