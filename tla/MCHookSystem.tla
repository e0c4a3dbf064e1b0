---------------------------- MODULE MCHookSystem ----------------------------
(***************************************************************************)
(* Instances of HookSystem for TLC. Each .cfg takes the reports, the       *)
(* buttons and the delays that its question needs: the delays of the code, *)
(* 10 to 1000 ticks, become 0 to 5, in an order in which a command can     *)
(* still finish before its timeout and can also run into it.               *)
(***************************************************************************)
EXTENDS HookSystem

\* A hook that never leaves its end of stroke.
StrokeOnly == {"endStroke"}

\* A hook at its end of stroke or open.
StrokeOrOpen == {"endStroke", "open"}

\* A hook at its end of stroke, where its encoder may have run too far, and one that
\* may also be on its way to its mid position or there.
StrokeOrOverrun == {"endStroke", "overrun"}
StrokeToMid == StrokeOrOverrun \union {"lower", "mid"}

NoErrors == {"NONE"}
Overloads == {"NONE", "OVERLOAD"}

\* Only the behaviours in which the UI thread never finds the link down.
StaysConnected == uiPc # "disconnected"
=============================================================================
