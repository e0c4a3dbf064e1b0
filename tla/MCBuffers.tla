------------------------------- MODULE MCBuffers -------------------------------
(***************************************************************************)
(* Instances for TLC of the two rings of the remote: the bytes from the    *)
(* hook (MotorBuffer) and the commands (CommandBuffer). They share         *)
(* nothing, so that one of them moves and the other one rests.             *)
(*                                                                         *)
(* Reports are of two bytes in a buffer of five, so that a report may lie  *)
(* across the end of the buffer, and notifications of one to three bytes.  *)
(***************************************************************************)
EXTENDS MotorBuffer, CommandBuffer

VARIABLE moving

SmallChunks == {<<"FE">>, <<"00">>, <<"FE", "00">>, <<"FE", "FE">>, <<"00", "FE", "00">>}

BuffersInit == Init /\ RingInit /\ moving \in {"bytes", "commands"}

BuffersNext ==
  /\ UNCHANGED moving
  /\ \/ moving = "bytes" /\ Next /\ UNCHANGED ringVars
     \/ moving = "commands" /\ RingNext /\ UNCHANGED vars

BuffersSpec == BuffersInit /\ [][BuffersNext]_<<vars, ringVars, moving>>
=============================================================================
