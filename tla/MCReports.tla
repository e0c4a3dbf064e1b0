------------------------------- MODULE MCReports -------------------------------
(***************************************************************************)
(* Instances for TLC of what database_run does with the bytes of the hook: *)
(* finding the reports (Framing), summing them up (Fletcher), keeping      *)
(* their positions (HookMotion). The three share nothing, so that one of   *)
(* them moves and the others rest.                                         *)
(*                                                                         *)
(* The positions lie on both sides of every limit, and next to each other  *)
(* by 24 and by 25.                                                        *)
(***************************************************************************)
EXTENDS HookMotion, Framing, Fletcher

VARIABLE moving

Limits == {0, 1, 2, 13719, 13720, 13721, 13744, 13745, 18292, 18293, 18294,
           32766, 32767, 32768, 33768, 33769, 65535}

ReportsInit ==
  /\ moving \in {"frames", "sums", "motion"}
  /\ FramingInit
  /\ FletcherInit
  /\ moving # "sums" => data = <<>> /\ seed = Zero
  /\ MotionInit

FramesMove == moving = "frames" /\ FramingNext /\ UNCHANGED <<fletcherVars, motionVars>>
SumsMove == moving = "sums" /\ FletcherNext /\ UNCHANGED <<framingVars, motionVars>>
MotionMoves == moving = "motion" /\ MotionNext /\ UNCHANGED <<framingVars, fletcherVars>>

\* The function of Fletcher returns.
Summed == moving = "sums" /\ pc = "return" /\ UNCHANGED <<framingVars, fletcherVars, motionVars>>

ReportsNext == UNCHANGED moving /\ (FramesMove \/ SumsMove \/ MotionMoves \/ Summed)

\* The hook reports again and again, and every tick of the main thread runs
\* database_run.
FramesFair ==
  /\ WF_framingVars(moving = "frames" /\ Send)
  /\ WF_framingVars(moving = "frames" /\ DatabaseRun)

ReportsSpec ==
  /\ ReportsInit
  /\ [][ReportsNext]_<<framingVars, fletcherVars, motionVars, moving>>
  /\ FramesFair

\* database_run takes reports again after every loss of the link, provided that only
\* the first byte of a report is 0xFE.
FramesGoOn == moving = "frames" /\ Headers = {1} => ReportsGoOn
=============================================================================
