---------------------------- MODULE Buttons_proof ----------------------------
(***************************************************************************)
(* Theorems about Buttons, for any set of filtered buttons and any         *)
(* threshold.                                                              *)
(***************************************************************************)
EXTENDS Buttons, TLAPS

\* A count is what the present press has been held for. It may be more only if
\* something was left behind; the same goes for a count that updateButtons has read.
\* Until then a release of the button that it has tested leaves something behind.
CountsMatch ==
  \A b \in Filtered :
    /\ b \in buttonsPressed => held[b] <= counter[b]
    /\ b \in buttonsPressed /\ b \notin stale => counter[b] <= held[b]
    /\ b \notin buttonsPressed /\ b \notin stale => counter[b] = 0

LoadedMatches ==
  /\ mainPc \in {"load", "store"} =>
       /\ current \in Filtered
       /\ current \notin buttonsPressed => current \in stale
  /\ mainPc = "store" =>
       /\ current \in buttonsPressed => held[current] <= loaded
       /\ current \notin stale => loaded <= held[current]

Inv == ButtonsTypeOK /\ EstopReleased /\ CountsMatch /\ LoadedMatches

\* updateButtons' increment keeps to the range and to the order of the counts.
LEMMA IncrementedKeepsOrder ==
  ASSUME NEW m \in Counts, NEW n \in Counts, m <= n
  PROVE  /\ Incremented(m) \in Counts
         /\ Incremented(n) \in Counts
         /\ Incremented(m) <= Incremented(n)
BY ButtonsAssumption DEF Incremented, Counts

LEMMA InitInv == ButtonsInit => Inv
BY ButtonsAssumption DEF ButtonsInit, Inv, ButtonsTypeOK, EstopReleased, CountsMatch, LoadedMatches, Counts, Buttons

-----------------------------------------------------------------------------
\* remote_updateButtons, at any moment of the main thread.
LEMMA CallbackKeeps == Inv /\ Callback => Inv'
<1> SUFFICES ASSUME Inv, Callback PROVE Inv'
  OBVIOUS
<1>1. PICK pressed \in SUBSET Buttons \ {buttonsPressed} :
        LET released == Filtered \cap (buttonsPressed \ pressed)
        IN  /\ buttonsPressed' = pressed
            /\ UpdateButtons(pressed, released)
            /\ held' = [b \in Filtered |-> IF b \in pressed \ buttonsPressed THEN 0 ELSE held[b]]
            /\ stale' = (stale \ released) \cup {b \in released : LeavesCount(b, pressed)}
  BY DEF Callback
<1> DEFINE released == Filtered \cap (buttonsPressed \ pressed)
<1>2. /\ buttonsPressed' = pressed
      /\ UpdateButtons(pressed, released)
      /\ held' = [b \in Filtered |-> IF b \in pressed \ buttonsPressed THEN 0 ELSE held[b]]
      /\ stale' = (stale \ released) \cup {b \in released : LeavesCount(b, pressed)}
      /\ UNCHANGED <<mainPc, todo, current, loaded>>
  BY <1>1 DEF Callback
<1>3. /\ counter' \in [Filtered -> Counts]
      /\ \A b \in Filtered :
           counter'[b] = IF b \in released /\ "ESTOP" \notin pressed THEN 0 ELSE counter[b]
  BY <1>2, ButtonsAssumption DEF UpdateButtons, Inv, ButtonsTypeOK, Counts
<1>4. ButtonsTypeOK'
  <2>1. buttonsPressed' \subseteq Buttons /\ buttonsExecute' \subseteq Buttons
    BY <1>1, <1>2 DEF UpdateButtons, Inv, ButtonsTypeOK, Buttons
  <2>2. held' \in [Filtered -> Counts] /\ stale' \subseteq Filtered
    BY <1>2, ButtonsAssumption DEF Inv, ButtonsTypeOK, Counts
  <2> QED BY <2>1, <2>2, <1>2, <1>3 DEF Inv, ButtonsTypeOK
<1>5. EstopReleased'
  BY <1>2, ButtonsAssumption DEF UpdateButtons, EstopReleased
<1>6. CountsMatch'
  <2> SUFFICES ASSUME NEW b \in Filtered
               PROVE  /\ b \in pressed => held'[b] <= counter'[b]
                      /\ b \in pressed /\ b \notin stale' => counter'[b] <= held'[b]
                      /\ b \notin pressed /\ b \notin stale' => counter'[b] = 0
    BY <1>2 DEF CountsMatch
  <2>1. held'[b] = IF b \in pressed /\ b \notin buttonsPressed THEN 0 ELSE held[b]
    BY <1>2
  <2>2. b \notin stale' => b \notin stale \/ b \in released
    BY <1>2
  <2>3. b \in released /\ b \notin stale' => "ESTOP" \notin pressed
    BY <1>2 DEF LeavesCount
  <2>4. held[b] \in Nat /\ counter[b] \in Nat
    BY DEF Inv, ButtonsTypeOK, Counts
  <2> QED BY <1>3, <2>1, <2>2, <2>3, <2>4 DEF Inv, CountsMatch
<1>7. LoadedMatches'
  <2> SUFFICES ASSUME mainPc \in {"load", "store"}
               PROVE  /\ current \in Filtered
                      /\ current \notin pressed => current \in stale'
                      /\ mainPc = "store" =>
                           /\ current \in pressed => held'[current] <= loaded
                           /\ current \notin stale' => loaded <= held'[current]
    BY <1>2 DEF LoadedMatches
  <2>1. /\ current \in Filtered
        /\ current \notin buttonsPressed => current \in stale
        /\ mainPc = "store" =>
             /\ current \in buttonsPressed => held[current] <= loaded
             /\ current \notin stale => loaded <= held[current]
        /\ held[current] \in Nat /\ loaded \in Nat
    BY DEF Inv, LoadedMatches, ButtonsTypeOK, Counts
  <2>2. held'[current] = IF current \in pressed /\ current \notin buttonsPressed THEN 0 ELSE held[current]
    BY <1>2, <2>1
  <2>3. current \notin stale' => current \notin stale /\ current \notin released
    BY <1>2 DEF LeavesCount
  <2>4. current \notin pressed => current \in stale'
    BY <1>2, <2>1 DEF LeavesCount
  <2> QED BY <2>1, <2>2, <2>3, <2>4
<1> QED BY <1>4, <1>5, <1>6, <1>7 DEF Inv

-----------------------------------------------------------------------------
\* updateButtons and the state machine, a step of remote_run at a time.
LEMMA CountTestKeeps == Inv /\ CountTest => Inv'
<1> SUFFICES ASSUME Inv, CountTest PROVE Inv'
  OBVIOUS
<1>1. PICK b \in todo :
        /\ todo' = todo \ {b}
        /\ IF b \in buttonsPressed THEN mainPc' = "load" /\ current' = b ELSE UNCHANGED <<mainPc, current>>
  BY DEF CountTest
<1>2. /\ UNCHANGED <<buttonsPressed, buttonsExecute, counter, loaded, histories>>
      /\ mainPc = "count" /\ b \in Filtered
  BY DEF CountTest, Inv, ButtonsTypeOK
<1>3. ButtonsTypeOK'
  BY <1>1, <1>2 DEF Inv, ButtonsTypeOK, histories
<1>4. EstopReleased' /\ CountsMatch'
  BY <1>2 DEF Inv, EstopReleased, CountsMatch, histories
<1>5. LoadedMatches'
  BY <1>1, <1>2 DEF LoadedMatches
<1> QED BY <1>3, <1>4, <1>5 DEF Inv

LEMMA CountLoadKeeps == Inv /\ CountLoad => Inv'
<1> SUFFICES ASSUME Inv, CountLoad PROVE Inv'
  OBVIOUS
<1>1. /\ mainPc = "load" /\ mainPc' = "store"
      /\ loaded' = counter[current]
      /\ UNCHANGED <<buttonsPressed, buttonsExecute, counter, todo, current, histories>>
  BY DEF CountLoad
<1>2. current \in Filtered /\ (current \notin buttonsPressed => current \in stale)
  BY <1>1 DEF Inv, LoadedMatches
<1>3. ButtonsTypeOK'
  BY <1>1, <1>2 DEF Inv, ButtonsTypeOK, histories
<1>4. EstopReleased' /\ CountsMatch'
  BY <1>1 DEF Inv, EstopReleased, CountsMatch, histories
<1>5. LoadedMatches'
  BY <1>1, <1>2 DEF Inv, LoadedMatches, CountsMatch, histories
<1> QED BY <1>3, <1>4, <1>5 DEF Inv

LEMMA CountStoreKeeps == Inv /\ CountStore => Inv'
<1> SUFFICES ASSUME Inv, CountStore PROVE Inv'
  OBVIOUS
<1>1. /\ counter' = [counter EXCEPT ![current] = Incremented(loaded)]
      /\ held' = IF current \in buttonsPressed
                   THEN [held EXCEPT ![current] = Incremented(@)] ELSE held
      /\ mainPc' = "count" /\ current' = "none" /\ loaded' = 0
      /\ UNCHANGED <<buttonsPressed, buttonsExecute, todo, stale>>
  BY DEF CountStore
<1>2. /\ current \in Filtered
      /\ current \in buttonsPressed => held[current] <= loaded
      /\ current \notin stale => current \in buttonsPressed /\ loaded <= held[current]
      /\ held[current] \in Counts /\ loaded \in Counts
  BY DEF CountStore, Inv, LoadedMatches, ButtonsTypeOK
<1>3. /\ Incremented(loaded) \in Counts
      /\ Incremented(held[current]) \in Counts
      /\ current \in buttonsPressed => Incremented(held[current]) <= Incremented(loaded)
      /\ current \notin stale => Incremented(loaded) <= Incremented(held[current])
  BY <1>2, IncrementedKeepsOrder, ButtonsAssumption DEF Counts
<1>4. ButtonsTypeOK'
  BY <1>1, <1>2, <1>3, ButtonsAssumption DEF Inv, ButtonsTypeOK, Counts
<1>5. EstopReleased' /\ LoadedMatches'
  BY <1>1 DEF Inv, EstopReleased, LoadedMatches
<1>6. CountsMatch'
  <2> SUFFICES ASSUME NEW b \in Filtered
               PROVE  /\ b \in buttonsPressed => held'[b] <= counter'[b]
                      /\ b \in buttonsPressed /\ b \notin stale => counter'[b] <= held'[b]
                      /\ b \notin buttonsPressed /\ b \notin stale => counter'[b] = 0
    BY <1>1 DEF CountsMatch
  <2>1. CASE b = current
    BY <2>1, <1>1, <1>2, <1>3 DEF Inv, ButtonsTypeOK
  <2>2. CASE b # current
    BY <2>2, <1>1 DEF Inv, ButtonsTypeOK, CountsMatch
  <2> QED BY <2>1, <2>2
<1> QED BY <1>4, <1>5, <1>6 DEF Inv

LEMMA OthersKeep == Inv /\ (Tick \/ CountEnd \/ Machine \/ Clear) => Inv'
<1> SUFFICES ASSUME Inv, Tick \/ CountEnd \/ Machine \/ Clear PROVE Inv'
  OBVIOUS
<1>1. /\ UNCHANGED <<buttonsPressed, counter, current, loaded, histories>>
      /\ todo' \subseteq Filtered
      /\ mainPc' \in {"sleep", "count", "machine", "clear"}
      /\ buttonsExecute' \in {buttonsExecute, {}}
  BY DEF Tick, CountEnd, Machine, Clear, Inv, ButtonsTypeOK
<1>2. ButtonsTypeOK'
  BY <1>1 DEF Inv, ButtonsTypeOK, histories
<1>3. EstopReleased'
  BY <1>1 DEF Inv, EstopReleased
<1>4. CountsMatch' /\ LoadedMatches'
  BY <1>1 DEF Inv, CountsMatch, LoadedMatches, histories
<1> QED BY <1>2, <1>3, <1>4 DEF Inv

LEMMA Invariance == ButtonsSpec => []Inv
<1>1. Inv /\ [ButtonsNext]_buttonsVars => Inv'
  <2> SUFFICES ASSUME Inv, [ButtonsNext]_buttonsVars PROVE Inv'
    OBVIOUS
  <2>1. CASE UNCHANGED buttonsVars
    BY <2>1 DEF buttonsVars, histories, Inv, ButtonsTypeOK, EstopReleased, CountsMatch, LoadedMatches
  <2> QED BY <2>1, CallbackKeeps, CountTestKeeps, CountLoadKeeps, CountStoreKeeps, OthersKeep DEF ButtonsNext, RemoteRun
<1> QED BY <1>1, InitInv, PTL DEF ButtonsSpec

-----------------------------------------------------------------------------
\* Only remote_updateButtons sets a bit of buttonsExecute or changes buttonsPressed.
LEMMA OnlyCallback ==
  Inv /\ [ButtonsNext]_buttonsVars /\ ~Callback =>
    buttonsPressed' = buttonsPressed /\ buttonsExecute' \subseteq buttonsExecute
BY DEF ButtonsNext, RemoteRun, Tick, CountTest, CountLoad, CountStore, CountEnd, Machine, Clear, buttonsVars, histories

\* The bits and counters of remote.c stay within their words.
THEOREM ButtonsTypeCorrect == ButtonsSpec => []ButtonsTypeOK
BY Invariance, PTL DEF Inv

\* The E-stop's bit in buttonsExecute is gone when the E-stop is released, for any number of
\* other buttons and any threshold.
THEOREM EstopBitGoes == ButtonsSpec => []EstopReleased
BY Invariance, PTL DEF Inv

\* remote.c:70: what is executed has been held for more than the threshold, or has inherited a
\* count in one of the three ways that remote.c leaves open: from a release under the E-stop,
\* between the test of the button and the load of its counter, or between load and store.
THEOREM PressesAreFiltered == ButtonsSpec => FilteredPress
<1>1. Inv /\ [ButtonsNext]_buttonsVars =>
        [\A b \in Filtered :
           b \in buttonsExecute' \ buttonsExecute => held[b] > Threshold \/ b \in stale]_buttonsVars
  <2> SUFFICES ASSUME Inv, [ButtonsNext]_buttonsVars, NEW b \in Filtered,
                      b \in buttonsExecute' \ buttonsExecute, b \notin stale
               PROVE  held[b] > Threshold
    OBVIOUS
  <2>1. Callback
    BY OnlyCallback
  <2>2. b \in buttonsPressed /\ counter[b] > Threshold
    BY <2>1, ButtonsAssumption DEF Callback, UpdateButtons, Passes
  <2> QED BY <2>2, ButtonsAssumption DEF Inv, CountsMatch, ButtonsTypeOK, Counts
<1> QED BY <1>1, Invariance, PTL DEF ButtonsSpec, FilteredPress

\* No count is lost between updateButtons and remote_updateButtons: a press that was long
\* enough is executed when it ends.
THEOREM LongPressesExecute == ButtonsSpec => LongPressExecutes
<1>1. Inv /\ [ButtonsNext]_buttonsVars =>
        [\A b \in Filtered :
           /\ b \in buttonsPressed \ buttonsPressed'
           /\ held[b] > Threshold
           /\ "ESTOP" \notin buttonsPressed'
           => b \in buttonsExecute']_buttonsVars
  <2> SUFFICES ASSUME Inv, [ButtonsNext]_buttonsVars, NEW b \in Filtered, b \in buttonsPressed \ buttonsPressed',
                      held[b] > Threshold, "ESTOP" \notin buttonsPressed'
               PROVE  b \in buttonsExecute'
    OBVIOUS
  <2>1. Callback
    BY OnlyCallback
  <2>2. counter[b] > Threshold
    BY ButtonsAssumption DEF Inv, CountsMatch, ButtonsTypeOK, Counts
  <2> QED BY <2>1, <2>2 DEF Callback, UpdateButtons, Passes
<1> QED BY <1>1, Invariance, PTL DEF ButtonsSpec, LongPressExecutes
=============================================================================
