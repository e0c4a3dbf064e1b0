----------------------------- MODULE CommandQueue -----------------------------
(***************************************************************************)
(* What HookCommands takes the command buffer for: a sequence of bounded   *)
(* length that drops what does not fit.                                    *)
(***************************************************************************)
EXTENDS Naturals, Sequences

CONSTANTS Capacity, Commands

VARIABLES queue, taken   \* taken: the command in execution, or "NONE"

Init == queue = <<>> /\ taken = "NONE"

Buffered(command) == IF Len(queue) < Capacity THEN Append(queue, command) ELSE queue

Add == queue' \in {Buffered(command) : command \in Commands} /\ taken' \in {taken, "NONE"}

Take ==
  /\ queue # <<>> /\ taken = "NONE"
  /\ taken' = Head(queue)
  /\ queue' = Tail(queue)

End == taken' = "NONE" /\ UNCHANGED queue

Flush == queue' = <<>> /\ taken' = "NONE"

Next == End \/ Flush \/ Take \/ Add

Spec == Init /\ [][Next]_<<queue, taken>>
=============================================================================
