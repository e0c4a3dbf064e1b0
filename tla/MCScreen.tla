------------------------------- MODULE MCScreen -------------------------------
(***************************************************************************)
(* Instances for TLC of the operator's panel: the buttons (Buttons), what  *)
(* the functions remote_updateUi and remote_disconnectedUi show (Display), *)
(* and how the driver brings a line to the controller (Lcd). Display takes *)
(* each line for one step, and no state is shared, so that one of the      *)
(* three moves and the others rest.                                        *)
(*                                                                         *)
(* The texts are none, those of a position, and one that lcd_print has cut *)
(* to a full line.                                                         *)
(***************************************************************************)
EXTENDS Buttons, Display, Lcd

VARIABLE moving

MCWidth == [none |-> 0, hook |-> 6, progress |-> 10, printed |-> 20]

MCLines == {<<"none", "none">>, <<"hook", "progress">>, <<"printed", "none">>}

ScreenInit ==
  /\ moving \in {"buttons", "display", "driver"}
  /\ ButtonsInit
  /\ DisplayInit
  /\ Init
  /\ moving # "driver" => texts = <<"none", "none">> /\ cells[0] = Space

ScreenNext ==
  /\ UNCHANGED moving
  /\ \/ moving = "buttons" /\ ButtonsNext /\ UNCHANGED <<displayVars, vars>>
     \/ moving = "display" /\ DisplayNext /\ UNCHANGED <<buttonsVars, vars>>
     \/ moving = "driver" /\ Next /\ UNCHANGED <<buttonsVars, displayVars>>

\* The UI thread finishes each pass and starts the next one.
ScreenSpec ==
  /\ ScreenInit
  /\ [][ScreenNext]_<<buttonsVars, displayVars, vars, moving>>
  /\ WF_displayVars(moving = "display" /\ UpdateUi)
=============================================================================
