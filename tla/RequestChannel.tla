---------------------------- MODULE RequestChannel ----------------------------
(***************************************************************************)
(* What the rest of the remote relies on when it calls sendBLE: a fifo of  *)
(* messages. One may be dropped on the way in or on the way out; nothing   *)
(* is sent twice, changed or overtaken.                                    *)
(***************************************************************************)
EXTENDS Sequences

CONSTANT Messages

VARIABLES
  queue,    \* accepted and not yet answered
  latest    \* what the hook has received last

Init == queue = <<>> /\ latest = "none"

Submit(message) ==
  /\ queue' = Append(queue, message)
  /\ UNCHANGED latest

Answer ==
  /\ queue # <<>>
  /\ queue' = Tail(queue)
  /\ latest' \in {Head(queue), latest}

Next == (\E message \in Messages : Submit(message)) \/ Answer

Spec == Init /\ [][Next]_<<queue, latest>>
=============================================================================
