------------------------------- MODULE Framing -------------------------------
(***************************************************************************)
(* How database_run (src/database.c) finds the reports among the bytes of  *)
(* the hook when the link is lost within a report and comes back: nothing  *)
(* empties the buffer in between. A byte is named by its place in its      *)
(* report. The buffer is the queue of ByteQueue, and the checksum is taken *)
(* to refuse everything that is not one report.                            *)
(***************************************************************************)
EXTENDS Naturals, Sequences, FiniteSets

CONSTANTS
  FrameSize,   \* 16 in the code
  Headers,     \* the places whose byte is 0xFE: the first one, and any other that
               \* the values in the reports happen to make so
  MaxBuffer,   \* bytes that wait at most, and
  MaxCuts      \* losses of the link: both bound the model only

ASSUME FramingAssumption ==
  /\ FrameSize \in Nat \ {0, 1}
  /\ Headers \subseteq 1 .. FrameSize
  /\ 1 \in Headers
  /\ MaxBuffer \in Nat
  /\ MaxCuts \in Nat

VARIABLES
  buffer,     \* bytes received and not yet taken
  place,      \* external: of the hook's next byte
  begun,      \* external: the hook's report has been received from its start on
  lost,       \* whole reports that were received and not accepted (history)
  cuts        \* losses of the link (history)

framingVars == <<buffer, place, begun, lost, cuts>>

FramingInit ==
  /\ buffer = <<>>
  /\ place = 1
  /\ begun = TRUE
  /\ lost = 0
  /\ cuts = 0

-----------------------------------------------------------------------------
\* External: the hook sends its next byte, and the next report after the last.
Send ==
  /\ Len(buffer) < MaxBuffer
  /\ buffer' = Append(buffer, [place |-> place, begun |-> begun])
  /\ place' = (place % FrameSize) + 1
  /\ begun' = (begun \/ place = FrameSize)
  /\ UNCHANGED <<lost, cuts>>

\* External: the link is lost, and comes back in any place of a report.
Cut ==
  /\ cuts < MaxCuts
  /\ cuts' = cuts + 1
  /\ place' \in 1 .. FrameSize
  /\ begun' = (place' = 1)
  /\ UNCHANGED <<buffer, lost>>

-----------------------------------------------------------------------------
(* The loop of database_run *)

AtHeader == Len(buffer) >= FrameSize /\ Head(buffer).place \in Headers

Taken == SubSeq(buffer, 1, FrameSize)

Rest(count) == SubSeq(buffer, count + 1, Len(buffer))

IsReport == Taken = [i \in 1 .. FrameSize |-> [place |-> i, begun |-> TRUE]]

\* The ends of whole reports among the first bytes, which go with them. Above
\* MaxCuts, lost no longer counts.
Ends(count) == {i \in 1 .. count : buffer[i] = [place |-> FrameSize, begun |-> TRUE]}
Lose(count) == lost' = IF lost > MaxCuts THEN lost ELSE lost + Cardinality(Ends(count))

\* A report with the right checksum.
Accept ==
  /\ AtHeader
  /\ IsReport
  /\ buffer' = Rest(FrameSize)
  /\ UNCHANGED <<place, begun, lost, cuts>>

\* Mutant: a wrong checksum empties the buffer.
RefuseAll ==
  /\ AtHeader
  /\ ~IsReport
  /\ buffer' = <<>>
  /\ Lose(Len(buffer))
  /\ UNCHANGED <<place, begun, cuts>>

\* A wrong checksum: all the bytes of the supposed report are gone.
Refuse ==
  /\ AtHeader
  /\ ~IsReport
  /\ buffer' = Rest(FrameSize)
  /\ Lose(FrameSize)
  /\ UNCHANGED <<place, begun, cuts>>

\* Mutant: bytes are not discarded.
DiscardNone ==
  /\ Len(buffer) >= FrameSize
  /\ ~AtHeader
  /\ UNCHANGED framingVars

\* No header: one byte is discarded.
Discard ==
  /\ Len(buffer) >= FrameSize
  /\ ~AtHeader
  /\ buffer' = Rest(1)
  /\ Lose(1)
  /\ UNCHANGED <<place, begun, cuts>>

DatabaseRun == Accept \/ Refuse \/ Discard

FramingNext == Send \/ Cut \/ DatabaseRun

FramingSpec == FramingInit /\ [][FramingNext]_framingVars

-----------------------------------------------------------------------------
(* Properties *)

\* database_run: a loss of the link costs at most one of the reports that arrive
\* whole, provided that only their first byte is 0xFE.
OneLostPerCut == Headers = {1} => lost <= cuts

\* README.rst:77, after a reconnection: "it is again possible to send data between the
\* two kits". The remote goes on taking reports after the last loss of the link.
ReportsGoOn == []<><<Accept>>_framingVars
=============================================================================
