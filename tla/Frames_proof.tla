----------------------------- MODULE Frames_proof -----------------------------
(***************************************************************************)
(* Theorems about how the reports are found and summed up: Framing, for    *)
(* reports, buffers and losses of the link of any number, and Fletcher,    *)
(* for any length of a block and any width of a word that                  *)
(* FletcherAssumption relates; the numbers of the code are among them.     *)
(***************************************************************************)
EXTENDS Framing, Fletcher, SequenceTheorems, FiniteSetTheorems, WellFoundedInduction, TLAPS

\* Induction over the numbers, as a statement about sets.
LEMMA LeastNumber ==
  ASSUME NEW T \in SUBSET Nat, T # {}
  PROVE  \E n \in T : \A m \in T : ~(m < n)
<1> DEFINE R == OpToRel(<, Nat)
<1>1. IsWellFoundedOn(R, Nat)
  BY NatLessThanWellFounded
<1>2. \A m, n \in Nat : m < n => <<m, n>> \in R
  BY Zenon DEF OpToRel
<1>3. PICK n \in T : \A m \in T : ~(<<m, n>> \in R)
  <2> HIDE DEF R
  <2> QED BY <1>1, WFMin
<1> QED BY <1>2, <1>3

LEMMA SetInduction ==
  ASSUME NEW T \in SUBSET Nat, 0 \in T, \A n \in T : n + 1 \in T
  PROVE  T = Nat
<1> SUFFICES ASSUME Nat \ T # {} PROVE FALSE
  OBVIOUS
<1>1. PICK n \in Nat \ T : \A m \in Nat \ T : ~(m < n)
  BY LeastNumber
<1>2. n - 1 \in Nat /\ n - 1 \in T
  BY <1>1
<1> QED BY <1>1, <1>2

-----------------------------------------------------------------------------
(* Framing *)

ReportBytes == [place : 1 .. FrameSize, begun : BOOLEAN]

\* The bytes to come: those that wait, and the next one that the hook sends.
Upcoming(i) == IF i <= Len(buffer) THEN buffer[i] ELSE [place |-> place, begun |-> begun]

\* What an uninterrupted hook sends after a byte.
Following(byte) ==
  [place |-> (byte.place % FrameSize) + 1, begun |-> byte.begun \/ byte.place = FrameSize]

\* Where the link was lost, as far as the bytes tell.
Breaks == {i \in 1 .. Len(buffer) : Upcoming(i + 1) # Following(Upcoming(i))}

\* The start of a report that was received as a whole is gone, and its end is not: that
\* report is going to be lost, unless the link is.
Beheaded == IF Upcoming(1).begun /\ Upcoming(1).place # 1 THEN 1 ELSE 0

FramingTypeOK ==
  /\ buffer \in Seq(ReportBytes)
  /\ place \in 1 .. FrameSize
  /\ begun \in BOOLEAN
  /\ lost \in Nat
  /\ cuts \in 0 .. MaxCuts

\* The bytes of a report that was received from its start on stand behind each other, as
\* far as they are still there.
ReportsStand ==
  \A i \in 1 .. Len(buffer) + 1 :
    /\ Upcoming(i).place = 1 => Upcoming(i).begun
    /\ Upcoming(i).begun =>
         \A k \in 1 .. Upcoming(i).place - 1 :
           i - k >= 1 => Upcoming(i - k) = [place |-> Upcoming(i).place - k, begun |-> TRUE]

\* Every cut is still to be seen in the buffer, or has beheaded at most one report.
CutsPay == Headers = {1} => Cardinality(Breaks) + Beheaded + lost <= cuts

FramingInv == FramingTypeOK /\ ReportsStand /\ CutsPay

LEMMA FrameNumbers == FrameSize \in Nat /\ FrameSize >= 2
BY FramingAssumption

LEMMA UpcomingType ==
  ASSUME FramingTypeOK
  PROVE  /\ Len(buffer) \in Nat
         /\ \A i \in 1 .. Len(buffer) + 1 : Upcoming(i) \in ReportBytes
<1>1. Len(buffer) \in Nat
  BY LenProperties DEF FramingTypeOK
<1>2. ASSUME NEW i \in 1 .. Len(buffer) + 1 PROVE Upcoming(i) \in ReportBytes
  <2>1. CASE i <= Len(buffer)
    <3>1. i \in 1 .. Len(buffer)
      BY <1>1, <2>1
    <3> QED BY <2>1, <3>1, ElementOfSeq DEF FramingTypeOK, Upcoming
  <2>2. CASE ~(i <= Len(buffer))
    BY <2>2 DEF FramingTypeOK, Upcoming, ReportBytes
  <2> QED BY <2>1, <2>2
<1> QED BY <1>1, <1>2

LEMMA BreaksFinite ==
  ASSUME FramingTypeOK
  PROVE  IsFiniteSet(Breaks) /\ Cardinality(Breaks) \in Nat
<1>1. IsFiniteSet(1 .. Len(buffer))
  BY UpcomingType, FS_Interval
<1>2. Breaks \in SUBSET (1 .. Len(buffer))
  BY DEF Breaks
<1>3. IsFiniteSet(Breaks)
  BY <1>1, <1>2, FS_Subset
<1> QED BY <1>3, FS_CardinalityType

-----------------------------------------------------------------------------
(* When the first bytes are taken *)

LEMMA RestShifts ==
  ASSUME FramingTypeOK, NEW c \in 1 .. Len(buffer), buffer' = Rest(c), UNCHANGED <<place, begun>>
  PROVE  /\ buffer' \in Seq(ReportBytes)
         /\ Len(buffer') = Len(buffer) - c
         /\ \A i \in 1 .. Len(buffer') + 1 : Upcoming(i)' = Upcoming(i + c)
<1>1. Len(buffer) \in Nat /\ c \in Nat /\ c >= 1 /\ c <= Len(buffer)
  BY UpcomingType
<1>2. \A i \in c + 1 .. Len(buffer) : buffer[i] \in ReportBytes
  <2>1. \A i \in c + 1 .. Len(buffer) : i \in 1 .. Len(buffer)
    BY <1>1
  <2> QED BY <2>1, ElementOfSeq DEF FramingTypeOK
<1>3. /\ buffer' \in Seq(ReportBytes)
      /\ Len(buffer') = IF c + 1 <= Len(buffer) THEN Len(buffer) - (c + 1) + 1 ELSE 0
      /\ \A i \in 1 .. Len(buffer) - (c + 1) + 1 : buffer'[i] = buffer[c + 1 + i - 1]
  BY <1>1, <1>2, SubSeqProperties DEF Rest
<1>4. Len(buffer') = Len(buffer) - c /\ \A i \in 1 .. Len(buffer) - c : buffer'[i] = buffer[i + c]
  BY <1>1, <1>3
<1>5. ASSUME NEW i \in 1 .. Len(buffer') + 1 PROVE Upcoming(i)' = Upcoming(i + c)
  <2>1. CASE i <= Len(buffer')
    <3>1. i \in 1 .. Len(buffer) - c /\ i + c <= Len(buffer)
      BY <1>1, <1>4, <2>1
    <3> QED BY <1>4, <2>1, <3>1 DEF Upcoming
  <2>2. CASE ~(i <= Len(buffer'))
    <3>1. ~(i + c <= Len(buffer))
      BY <1>1, <1>4, <2>2
    <3> QED BY <2>2, <3>1 DEF Upcoming
  <2> QED BY <2>1, <2>2
<1> QED BY <1>3, <1>4, <1>5

LEMMA RestStands ==
  ASSUME FramingTypeOK, ReportsStand, NEW c \in 1 .. Len(buffer), buffer' = Rest(c),
         UNCHANGED <<place, begun>>
  PROVE  ReportsStand'
<1>1. Len(buffer) \in Nat /\ c \in Nat /\ c >= 1 /\ c <= Len(buffer) /\ Len(buffer') = Len(buffer) - c
  BY UpcomingType, RestShifts
<1> SUFFICES ASSUME NEW i \in 1 .. Len(buffer') + 1
             PROVE  /\ Upcoming(i)'.place = 1 => Upcoming(i)'.begun
                    /\ Upcoming(i)'.begun =>
                         \A k \in 1 .. Upcoming(i)'.place - 1 :
                           i - k >= 1 => Upcoming(i - k)' = [place |-> Upcoming(i)'.place - k, begun |-> TRUE]
  BY DEF ReportsStand
<1>2. i + c \in 1 .. Len(buffer) + 1 /\ Upcoming(i)' = Upcoming(i + c)
  BY <1>1, RestShifts
<1>3. ASSUME Upcoming(i + c).begun, NEW k \in 1 .. Upcoming(i + c).place - 1, i - k >= 1
      PROVE  Upcoming(i - k)' = [place |-> Upcoming(i + c).place - k, begun |-> TRUE]
  <2>1. Upcoming(i + c).place \in 1 .. FrameSize
    BY <1>2, UpcomingType DEF ReportBytes
  <2>2. k \in Nat /\ (i + c) - k >= 1 /\ i - k \in 1 .. Len(buffer') + 1 /\ (i - k) + c = (i + c) - k
    BY <1>1, <1>3, <2>1, FrameNumbers
  <2>3. Upcoming((i + c) - k) = [place |-> Upcoming(i + c).place - k, begun |-> TRUE]
    BY <1>2, <1>3, <2>2 DEF ReportsStand
  <2>4. Upcoming(i - k)' = Upcoming((i - k) + c)
    BY <2>2, RestShifts
  <2> QED BY <2>2, <2>3, <2>4
<1> QED BY <1>2, <1>3 DEF ReportsStand

LEMMA RestBreaks ==
  ASSUME FramingTypeOK, NEW c \in 1 .. Len(buffer), buffer' = Rest(c), UNCHANGED <<place, begun>>
  PROVE  /\ Cardinality(Breaks') \in Nat
         /\ Cardinality(Breaks') <= Cardinality(Breaks)
         /\ (\E k \in Breaks : k <= c) => Cardinality(Breaks') <= Cardinality(Breaks) - 1
<1>1. Len(buffer) \in Nat /\ c \in Nat /\ c >= 1 /\ c <= Len(buffer) /\ Len(buffer') = Len(buffer) - c
  BY UpcomingType, RestShifts
<1>2. Breaks' = {i \in 1 .. Len(buffer') : Upcoming(i + 1)' # Following(Upcoming(i)')}
  BY DEF Breaks, Following
<1>3. ASSUME NEW i \in Breaks' PROVE i \in Nat /\ i >= 1 /\ i + c \in Breaks
  <2>1. i \in 1 .. Len(buffer') /\ Upcoming(i + 1)' # Following(Upcoming(i)')
    BY <1>2
  <2>2. /\ i \in 1 .. Len(buffer') + 1 /\ i + 1 \in 1 .. Len(buffer') + 1
        /\ i + c \in 1 .. Len(buffer) /\ (i + 1) + c = (i + c) + 1
    BY <1>1, <2>1
  <2>3. Upcoming(i + 1)' = Upcoming((i + c) + 1) /\ Upcoming(i)' = Upcoming(i + c)
    BY <2>2, RestShifts
  <2> QED BY <2>1, <2>2, <2>3 DEF Breaks
<1> DEFINE Late == {i \in Breaks : i > c}
           f == [i \in Breaks' |-> i + c]
<1>4. f \in Injection(Breaks', Late)
  <2>1. \A i \in Breaks' : i + c \in Late
    BY <1>1, <1>3
  <2>2. \A i, j \in Breaks' : i + c = j + c => i = j
    BY <1>1, <1>3
  <2> QED BY <2>1, <2>2 DEF Injection, IsInjective
<1>5. IsFiniteSet(Breaks) /\ Cardinality(Breaks) \in Nat
  BY BreaksFinite
<1>6. IsFiniteSet(Late) /\ Cardinality(Late) <= Cardinality(Breaks)
  BY <1>5, FS_Subset
<1>7. Cardinality(Late) \in Nat
  BY <1>6, FS_CardinalityType
<1>8. IsFiniteSet(Breaks') /\ Cardinality(Breaks') <= Cardinality(Late)
  <2> HIDE DEF f, Late
  <2> QED BY <1>4, <1>6, FS_Injection
<1>9. Cardinality(Breaks') \in Nat
  BY <1>8, FS_CardinalityType
<1>10. ASSUME NEW k \in Breaks, k <= c PROVE Cardinality(Late) <= Cardinality(Breaks) - 1
  <2>1. IsFiniteSet(Breaks \ {k}) /\ Cardinality(Breaks \ {k}) = Cardinality(Breaks) - 1
    BY <1>5, FS_RemoveElement
  <2>2. Late \subseteq Breaks \ {k}
    BY <1>1, <1>10 DEF Breaks
  <2> QED BY <2>1, <2>2, FS_Subset
<1> HIDE DEF Late
<1> QED BY <1>5, <1>6, <1>7, <1>8, <1>9, <1>10
-----------------------------------------------------------------------------
(* What the loop takes *)

\* IsReport by the bytes.
LEMMA WholeReport ==
  ASSUME FramingTypeOK, Len(buffer) >= FrameSize,
         \A i \in 1 .. FrameSize : buffer[i] = [place |-> i, begun |-> TRUE]
  PROVE  IsReport
<1> DEFINE Whole == [i \in 1 .. FrameSize |-> [place |-> i, begun |-> TRUE]]
<1>1. Len(buffer) \in Nat /\ FrameSize \in Nat /\ FrameSize >= 2
  BY UpcomingType, FrameNumbers
<1>2. \A i \in 1 .. FrameSize : buffer[i] \in ReportBytes
  BY <1>1, ElementOfSeq DEF FramingTypeOK
<1>3. /\ Taken \in Seq(ReportBytes)
      /\ Len(Taken) = FrameSize
      /\ \A i \in 1 .. FrameSize : Taken[i] = buffer[i]
  BY <1>1, <1>2, SubSeqProperties DEF Taken
<1>4. Taken = [i \in 1 .. Len(Taken) |-> Taken[i]]
  BY <1>3
<1> QED BY <1>3, <1>4 DEF IsReport

\* A header that begins no report: the link was lost within the bytes that go with it.
LEMMA RefusedBreaks ==
  ASSUME FramingTypeOK, ReportsStand, Headers = {1}, AtHeader, ~IsReport
  PROVE  \E k \in Breaks : k <= FrameSize
<1>1. Len(buffer) \in Nat /\ FrameSize \in Nat /\ FrameSize >= 2 /\ Len(buffer) >= FrameSize
  BY UpcomingType, FrameNumbers DEF AtHeader
<1> DEFINE T == {i \in 1 .. FrameSize : buffer[i] # [place |-> i, begun |-> TRUE]}
<1>2. T \in SUBSET Nat /\ T # {}
  <2>1. T \in SUBSET Nat
    BY <1>1
  <2>2. ASSUME T = {} PROVE FALSE
    <3>1. \A i \in 1 .. FrameSize : buffer[i] = [place |-> i, begun |-> TRUE]
      BY <2>2
    <3> QED BY <1>1, <3>1, WholeReport
  <2> QED BY <2>1, <2>2
<1>3. PICK n \in T : \A m \in T : ~(m < n)
  <2> HIDE DEF T
  <2> QED BY <1>2, LeastNumber
<1>4. Upcoming(1) = buffer[1] /\ Upcoming(1) \in ReportBytes
  BY <1>1, UpcomingType DEF Upcoming
<1>5. buffer[1] = [place |-> 1, begun |-> TRUE]
  <2>1. Upcoming(1).place = 1
    BY <1>1, <1>4 DEF AtHeader
  <2>2. Upcoming(1).begun = TRUE
    BY <1>1, <1>4, <2>1 DEF ReportsStand, ReportBytes
  <2> QED BY <1>4, <2>1, <2>2 DEF ReportBytes
<1>6. n \in Nat /\ n > 1 /\ n <= FrameSize /\ n <= Len(buffer) /\ n - 1 \in 1 .. Len(buffer)
  <2>1. n \in 1 .. FrameSize /\ buffer[n] # [place |-> n, begun |-> TRUE]
    OBVIOUS
  <2>2. n # 1
    BY <1>5, <2>1
  <2> QED BY <1>1, <2>1, <2>2
<1>7. Upcoming(n - 1) = [place |-> n - 1, begun |-> TRUE]
  <2>1. n - 1 \in 1 .. FrameSize /\ n - 1 < n
    BY <1>1, <1>6
  <2>2. ~(n - 1 \in T)
    BY <1>3, <2>1
  <2> QED BY <1>6, <2>1, <2>2 DEF Upcoming
<1>8. Following(Upcoming(n - 1)) = [place |-> n, begun |-> TRUE]
  <2>1. (n - 1) % FrameSize = n - 1
    BY <1>1, <1>6
  <2>2. ((n - 1) % FrameSize) + 1 = n
    BY <1>6, <2>1
  <2>3. Upcoming(n - 1).place = n - 1 /\ Upcoming(n - 1).begun
    BY <1>7
  <2>4. (Upcoming(n - 1).begun \/ Upcoming(n - 1).place = FrameSize) = TRUE
    BY <2>3, Zenon
  <2> QED BY <2>2, <2>3, <2>4 DEF Following
<1>9. Upcoming((n - 1) + 1) # [place |-> n, begun |-> TRUE]
  BY <1>3, <1>6 DEF Upcoming
<1> QED BY <1>1, <1>6, <1>8, <1>9 DEF Breaks

\* Such a header takes no end of a whole report with it.
LEMMA RefusedEnds ==
  ASSUME FramingTypeOK, ReportsStand, Headers = {1}, AtHeader, ~IsReport
  PROVE  Ends(FrameSize) = {}
<1>1. Len(buffer) \in Nat /\ FrameSize \in Nat /\ FrameSize >= 2 /\ Len(buffer) >= FrameSize
  BY UpcomingType, FrameNumbers DEF AtHeader
<1> SUFFICES ASSUME NEW i \in 1 .. FrameSize, buffer[i] = [place |-> FrameSize, begun |-> TRUE]
             PROVE  FALSE
  BY DEF Ends
<1>2. \A j \in 1 .. FrameSize : Upcoming(j) = buffer[j]
  BY <1>1 DEF Upcoming
<1>3. ASSUME NEW k \in 1 .. FrameSize - 1, i - k >= 1
      PROVE  Upcoming(i - k) = [place |-> FrameSize - k, begun |-> TRUE]
  <2>1. i \in 1 .. Len(buffer) + 1
    BY <1>1
  <2>2. Upcoming(i).begun /\ Upcoming(i).place = FrameSize
    BY <1>2
  <2> QED BY <1>3, <2>1, <2>2 DEF ReportsStand
<1>4. buffer[1].place = 1
  BY <1>1 DEF AtHeader
<1>5. i = FrameSize
  <2>1. i # 1
    BY <1>1, <1>4
  <2>2. i - 1 \in 1 .. FrameSize - 1 /\ i - (i - 1) = 1 /\ i - (i - 1) >= 1
    BY <1>1, <2>1
  <2>3. Upcoming(i - (i - 1)) = [place |-> FrameSize - (i - 1), begun |-> TRUE]
    BY <1>3, <2>2
  <2>4. FrameSize - (i - 1) = 1
    BY <1>1, <1>2, <1>4, <2>2, <2>3
  <2> QED BY <1>1, <2>4
<1>6. ASSUME NEW j \in 1 .. FrameSize PROVE buffer[j] = [place |-> j, begun |-> TRUE]
  <2>1. CASE j = FrameSize
    BY <1>5, <2>1
  <2>2. CASE j # FrameSize
    <3>1. FrameSize - j \in 1 .. FrameSize - 1 /\ i - (FrameSize - j) = j /\ FrameSize - (FrameSize - j) = j
      BY <1>1, <1>5, <2>2
    <3>2. i - (FrameSize - j) >= 1
      BY <3>1
    <3>3. Upcoming(i - (FrameSize - j)) = [place |-> FrameSize - (FrameSize - j), begun |-> TRUE]
      BY <1>3, <3>1, <3>2
    <3> QED BY <1>2, <3>1, <3>3
  <2> QED BY <2>1, <2>2
<1> QED BY <1>1, <1>6, WholeReport

LEMMA EndsNumber ==
  ASSUME NEW c \in Nat
  PROVE  Cardinality(Ends(c)) \in Nat
<1>1. IsFiniteSet(1 .. c) /\ Ends(c) \in SUBSET (1 .. c)
  BY FS_Interval DEF Ends
<1> QED BY <1>1, FS_Subset, FS_CardinalityType

LEMMA LosesNumber ==
  ASSUME FramingTypeOK, NEW c \in Nat, Lose(c)
  PROVE  lost' \in Nat /\ lost' <= lost + Cardinality(Ends(c))
<1>1. Cardinality(Ends(c)) \in Nat /\ lost \in Nat /\ MaxCuts \in Nat
  BY EndsNumber, FramingAssumption DEF FramingTypeOK
<1>2. lost' = lost \/ lost' = lost + Cardinality(Ends(c))
  BY DEF Lose
<1> QED BY <1>1, <1>2

LEMMA LosesNothing ==
  ASSUME FramingTypeOK, NEW c \in Nat, Lose(c), Ends(c) = {}
  PROVE  lost' = lost
<1>1. Cardinality(Ends(c)) = 0
  BY FS_EmptySet
<1> QED BY <1>1 DEF FramingTypeOK, Lose

LEMMA BeheadedNumber == Beheaded \in {0, 1}
BY DEF Beheaded

\* A report that is beheaded when bytes are taken was begun by the last of them.
LEMMA RestBeheads ==
  ASSUME FramingTypeOK, ReportsStand, NEW c \in 1 .. Len(buffer), buffer' = Rest(c),
         UNCHANGED <<place, begun>>, Beheaded' # 0
  PROVE  \E p \in 2 .. FrameSize : buffer[c] = [place |-> p - 1, begun |-> TRUE]
<1>1. Len(buffer) \in Nat /\ c \in Nat /\ c >= 1 /\ c <= Len(buffer) /\ Len(buffer') = Len(buffer) - c
  BY UpcomingType, RestShifts
<1>2. 1 \in 1 .. Len(buffer') + 1 /\ 1 + c \in 1 .. Len(buffer) + 1 /\ (1 + c) - 1 = c
  BY <1>1
<1>3. Upcoming(1)' = Upcoming(1 + c) /\ Upcoming(1 + c) \in ReportBytes
  BY <1>2, RestShifts, UpcomingType
<1>4. Upcoming(1)'.begun /\ Upcoming(1)'.place # 1
  BY DEF Beheaded
<1> DEFINE p == Upcoming(1 + c).place
<1>5. p \in 2 .. FrameSize /\ 1 \in 1 .. p - 1
  <2>1. p \in 1 .. FrameSize /\ p # 1
    BY <1>3, <1>4 DEF ReportBytes
  <2> QED BY <2>1, FrameNumbers
<1>6. Upcoming((1 + c) - 1) = [place |-> p - 1, begun |-> TRUE]
  BY <1>1, <1>2, <1>3, <1>4, <1>5 DEF ReportsStand
<1> QED BY <1>1, <1>2, <1>5, <1>6 DEF Upcoming

-----------------------------------------------------------------------------
(* The steps *)

LEMMA AcceptKeeps ==
  ASSUME FramingInv, Accept
  PROVE  FramingInv'
<1>1. FrameSize \in 1 .. Len(buffer) /\ FrameSize >= 2
  BY UpcomingType, FrameNumbers DEF FramingInv, Accept, AtHeader
<1>2. FramingTypeOK'
  BY <1>1, RestShifts DEF FramingInv, FramingTypeOK, Accept
<1>3. ReportsStand'
  BY <1>1, RestStands DEF FramingInv, Accept
<1>4. buffer[FrameSize] = [place |-> FrameSize, begun |-> TRUE]
  <2>1. Len(buffer) \in Nat /\ FrameSize \in Nat /\ FrameSize <= Len(buffer)
    BY <1>1, UpcomingType, FrameNumbers DEF FramingInv
  <2>2. \A i \in 1 .. FrameSize : buffer[i] \in ReportBytes
    BY <2>1, ElementOfSeq DEF FramingInv, FramingTypeOK
  <2>3. Taken[FrameSize] = buffer[FrameSize]
    BY <1>1, <2>1, <2>2, SubSeqProperties DEF Taken
  <2> QED BY <1>1, <2>1, <2>3 DEF Accept, IsReport
<1>5. Beheaded' = 0
  <2>1. SUFFICES ASSUME Beheaded' # 0 PROVE FALSE
    OBVIOUS
  <2>2. PICK p \in 2 .. FrameSize : buffer[FrameSize] = [place |-> p - 1, begun |-> TRUE]
    BY <1>1, <2>1, RestBeheads DEF FramingInv, Accept
  <2> QED BY <1>4, <2>2, FrameNumbers
<1>6. Cardinality(Breaks') \in Nat /\ Cardinality(Breaks') <= Cardinality(Breaks)
  BY <1>1, RestBreaks DEF FramingInv, Accept
<1>7. Cardinality(Breaks) \in Nat /\ Beheaded \in {0, 1} /\ lost' = lost /\ cuts' = cuts
  BY BreaksFinite, BeheadedNumber DEF FramingInv, Accept
<1>8. CutsPay'
  <2>1. lost \in Nat /\ cuts \in Nat
    BY FramingAssumption DEF FramingInv, FramingTypeOK
  <2> QED BY <1>5, <1>6, <1>7, <2>1 DEF FramingInv, CutsPay
<1> QED BY <1>2, <1>3, <1>8 DEF FramingInv

LEMMA RefuseKeeps ==
  ASSUME FramingInv, Refuse
  PROVE  FramingInv'
<1>1. FrameSize \in 1 .. Len(buffer) /\ FrameSize \in Nat
  BY UpcomingType, FrameNumbers DEF FramingInv, Refuse, AtHeader
<1>2. FramingTypeOK'
  BY <1>1, RestShifts, LosesNumber DEF FramingInv, FramingTypeOK, Refuse
<1>3. ReportsStand'
  BY <1>1, RestStands DEF FramingInv, Refuse
<1>4. CutsPay'
  <2>1. SUFFICES ASSUME Headers = {1}
                 PROVE  Cardinality(Breaks') + Beheaded' + lost' <= cuts'
    BY DEF CutsPay
  <2>2. \E k \in Breaks : k <= FrameSize
    BY <2>1, RefusedBreaks DEF FramingInv, Refuse
  <2>3. Cardinality(Breaks') \in Nat /\ Cardinality(Breaks') <= Cardinality(Breaks) - 1
    BY <1>1, <2>2, RestBreaks DEF FramingInv, Refuse
  <2>4. lost' = lost
    BY <1>1, <2>1, RefusedEnds, LosesNothing DEF FramingInv, Refuse
  <2>5. Beheaded' \in {0, 1}
    BY DEF Beheaded
  <2>6. /\ Cardinality(Breaks) \in Nat /\ Beheaded \in {0, 1} /\ lost \in Nat /\ cuts \in Nat /\ cuts' = cuts
        /\ Cardinality(Breaks) + Beheaded + lost <= cuts
    BY <2>1, BreaksFinite, BeheadedNumber, FramingAssumption DEF FramingInv, FramingTypeOK, CutsPay, Refuse
  <2> QED BY <2>3, <2>4, <2>5, <2>6
<1> QED BY <1>2, <1>3, <1>4 DEF FramingInv

LEMMA DiscardKeeps ==
  ASSUME FramingInv, Discard
  PROVE  FramingInv'
<1>1. 1 \in 1 .. Len(buffer) /\ Len(buffer) \in Nat /\ Len(buffer) >= FrameSize
  BY UpcomingType, FrameNumbers DEF FramingInv, Discard
<1>2. FramingTypeOK'
  BY <1>1, RestShifts, LosesNumber DEF FramingInv, FramingTypeOK, Discard
<1>3. ReportsStand'
  BY <1>1, RestStands DEF FramingInv, Discard
<1>4. CutsPay'
  <2>1. SUFFICES ASSUME Headers = {1}
                 PROVE  Cardinality(Breaks') + Beheaded' + lost' <= cuts'
    BY DEF CutsPay
  <2>2. Cardinality(Breaks') \in Nat /\ Cardinality(Breaks') <= Cardinality(Breaks)
    BY <1>1, RestBreaks DEF FramingInv, Discard
  <2>3. /\ Cardinality(Breaks) \in Nat /\ lost \in Nat /\ cuts \in Nat /\ cuts' = cuts
        /\ Cardinality(Breaks) + Beheaded + lost <= cuts
    BY <2>1, BreaksFinite, FramingAssumption DEF FramingInv, FramingTypeOK, CutsPay, Discard
  <2>4. Upcoming(1) = buffer[1] /\ buffer[1].place # 1
    BY <1>1, <2>1 DEF Discard, AtHeader, Upcoming
  <2>5. Beheaded' \in {0, 1} /\ Beheaded \in {0, 1}
    BY DEF Beheaded
  <2>6. CASE buffer[1] = [place |-> FrameSize, begun |-> TRUE]
    <3>1. Beheaded = 1
      BY <2>4, <2>6 DEF Beheaded
    <3>2. Beheaded' = 0
      <4>1. SUFFICES ASSUME Beheaded' # 0 PROVE FALSE
        OBVIOUS
      <4>2. PICK p \in 2 .. FrameSize : buffer[1] = [place |-> p - 1, begun |-> TRUE]
        BY <1>1, <4>1, RestBeheads DEF FramingInv, Discard
      <4> QED BY <2>6, <4>2, FrameNumbers
    <3>3. Cardinality(Ends(1)) <= 1 /\ Cardinality(Ends(1)) \in Nat
      <4>1. Ends(1) \subseteq {1}
        BY DEF Ends
      <4>2. IsFiniteSet({1}) /\ Cardinality({1}) = 1
        BY FS_Singleton
      <4> QED BY <4>1, <4>2, FS_Subset, EndsNumber
    <3>4. lost' \in Nat /\ lost' <= lost + 1
      BY <2>3, <3>3, LosesNumber DEF FramingInv, Discard
    <3> QED BY <2>2, <2>3, <3>1, <3>2, <3>4
  <2>7. CASE buffer[1] # [place |-> FrameSize, begun |-> TRUE]
    <3>1. Ends(1) = {}
      BY <2>7 DEF Ends
    <3>2. lost' = lost
      BY <3>1, LosesNothing DEF FramingInv, Discard
    <3>3. ASSUME Beheaded' # 0 PROVE Beheaded = 1
      <4>1. PICK p \in 2 .. FrameSize : buffer[1] = [place |-> p - 1, begun |-> TRUE]
        BY <1>1, <3>3, RestBeheads DEF FramingInv, Discard
      <4> QED BY <2>4, <4>1 DEF Beheaded
    <3> QED BY <2>2, <2>3, <2>5, <3>2, <3>3
  <2> QED BY <2>6, <2>7
<1> QED BY <1>2, <1>3, <1>4 DEF FramingInv

LEMMA SendUpcoming ==
  ASSUME FramingTypeOK, Send
  PROVE  /\ Len(buffer') = Len(buffer) + 1
         /\ \A i \in 1 .. Len(buffer) + 1 : Upcoming(i)' = Upcoming(i)
         /\ \A i \in Nat : i = Len(buffer) + 2 => Upcoming(i)' = Following(Upcoming(Len(buffer) + 1))
<1>1. Len(buffer) \in Nat
  BY UpcomingType
<1>2. /\ Len(buffer') = Len(buffer) + 1
      /\ \A i \in 1 .. Len(buffer) : buffer'[i] = buffer[i]
      /\ buffer'[Len(buffer) + 1] = [place |-> place, begun |-> begun]
  BY AppendProperties DEF FramingTypeOK, Send, ReportBytes
<1>3. ASSUME NEW i \in 1 .. Len(buffer) + 1 PROVE Upcoming(i)' = Upcoming(i)
  <2>1. Upcoming(i)' = buffer'[i]
    BY <1>1, <1>2 DEF Upcoming
  <2>2. CASE i <= Len(buffer)
    <3>1. i \in 1 .. Len(buffer)
      BY <1>1, <2>2
    <3> QED BY <1>2, <2>1, <2>2, <3>1 DEF Upcoming
  <2>3. CASE ~(i <= Len(buffer))
    <3>1. i = Len(buffer) + 1
      BY <1>1, <2>3
    <3> QED BY <1>2, <2>1, <2>3, <3>1 DEF Upcoming
  <2> QED BY <2>2, <2>3
<1>4. ASSUME NEW i \in Nat, i = Len(buffer) + 2
      PROVE  Upcoming(i)' = [place |-> place', begun |-> begun']
  <2>1. ~(i <= Len(buffer'))
    BY <1>1, <1>2, <1>4
  <2> QED BY <2>1 DEF Upcoming
<1>5. Upcoming(Len(buffer) + 1) = [place |-> place, begun |-> begun]
  <2>1. ~(Len(buffer) + 1 <= Len(buffer))
    BY <1>1
  <2> QED BY <2>1 DEF Upcoming
<1> QED BY <1>2, <1>3, <1>4, <1>5 DEF Send, Following

LEMMA SendKeeps ==
  ASSUME FramingInv, Send
  PROVE  FramingInv'
<1> DEFINE last == Len(buffer) + 1
           v == Upcoming(last)
           w == Following(v)
<1>1. /\ Len(buffer) \in Nat /\ Len(buffer') = Len(buffer) + 1
      /\ \A i \in 1 .. last : Upcoming(i)' = Upcoming(i)
      /\ \A i \in Nat : i = last + 1 => Upcoming(i)' = w
      /\ FrameSize \in Nat /\ FrameSize >= 2
  <2>1. Len(buffer) \in Nat /\ FrameSize \in Nat /\ FrameSize >= 2
    BY UpcomingType, FrameNumbers DEF FramingInv
  <2>2. (Len(buffer) + 1) + 1 = Len(buffer) + 2
    BY <2>1
  <2> QED BY <2>1, <2>2, SendUpcoming DEF FramingInv
<1>2. v \in ReportBytes /\ v.place \in 1 .. FrameSize /\ v.begun \in BOOLEAN
  <2>1. last \in 1 .. Len(buffer) + 1
    BY <1>1
  <2> QED BY <2>1, UpcomingType DEF FramingInv, ReportBytes
<1>3. /\ v.place = FrameSize => w.place = 1 /\ w.begun
      /\ v.place # FrameSize => w.place = v.place + 1 /\ w.begun = v.begun
  <2>1. v.place = FrameSize => v.place % FrameSize = 0
    BY <1>1
  <2>2. v.place # FrameSize => v.place % FrameSize = v.place
    BY <1>1, <1>2
  <2>3. w.place = (v.place % FrameSize) + 1 /\ w.begun = (v.begun \/ v.place = FrameSize)
    BY DEF Following
  <2> HIDE DEF v, w
  <2>4. v.place = FrameSize => w.place = 1 /\ w.begun
    <3>1. v.place = FrameSize => w.place = 1
      BY <2>1, <2>3
    <3>2. v.place = FrameSize => w.begun
      BY <2>3, Zenon
    <3> QED BY <3>1, <3>2
  <2>5. v.place # FrameSize => w.place = v.place + 1
    BY <2>2, <2>3
  <2>6. v.place # FrameSize => w.begun = v.begun
    BY <1>2, <2>3, Zenon
  <2> QED BY <2>4, <2>5, <2>6
<1>4. FramingTypeOK'
  <2>1. buffer' \in Seq(ReportBytes)
    BY AppendProperties DEF FramingInv, FramingTypeOK, Send, ReportBytes
  <2>2. place' \in 1 .. FrameSize
    <3>1. place % FrameSize \in 0 .. FrameSize - 1
      BY <1>1 DEF FramingInv, FramingTypeOK
    <3> QED BY <1>1, <3>1 DEF Send
  <2> QED BY <2>1, <2>2 DEF FramingInv, FramingTypeOK, Send
<1>5. ReportsStand'
  <2> SUFFICES ASSUME NEW i \in 1 .. Len(buffer') + 1
               PROVE  /\ Upcoming(i)'.place = 1 => Upcoming(i)'.begun
                      /\ Upcoming(i)'.begun =>
                           \A k \in 1 .. Upcoming(i)'.place - 1 :
                             i - k >= 1 => Upcoming(i - k)' = [place |-> Upcoming(i)'.place - k, begun |-> TRUE]
    BY DEF ReportsStand
  <2>1. CASE i <= last
    <3>1. i \in 1 .. last /\ Upcoming(i)' = Upcoming(i)
      BY <1>1, <2>1
    <3>2. ASSUME NEW k \in 1 .. Upcoming(i).place - 1, i - k >= 1
          PROVE  Upcoming(i - k)' = Upcoming(i - k)
      <4>1. Upcoming(i).place \in 1 .. FrameSize
        BY <3>1, UpcomingType DEF FramingInv, ReportBytes
      <4>2. i - k \in 1 .. last
        BY <1>1, <3>1, <3>2, <4>1
      <4> QED BY <1>1, <4>2
    <3> QED BY <3>1, <3>2 DEF FramingInv, ReportsStand
  <2>2. CASE ~(i <= last)
    <3>1. i = last + 1 /\ Upcoming(i)' = w
      <4>1. i = last + 1
        BY <1>1, <2>2
      <4>2. i \in Nat
        BY <1>1, <4>1
      <4> QED BY <1>1, <4>1, <4>2
    <3>2. w.place = 1 => w.begun
      <4>1. v.place # FrameSize => w.place # 1
        <5> HIDE DEF v, w
        <5> QED BY <1>1, <1>2, <1>3
      <4> QED BY <1>3, <4>1
    <3>3. ASSUME w.begun, NEW k \in 1 .. w.place - 1, i - k >= 1
          PROVE  Upcoming(i - k)' = [place |-> w.place - k, begun |-> TRUE]
      <4>1. v.place # FrameSize
        <5>1. w.place # 1
          <6> HIDE DEF w
          <6> QED BY <3>3
        <5> QED BY <1>3, <5>1
      <4>2. w.place = v.place + 1 /\ v.begun = TRUE /\ v.place \in Nat
        BY <1>2, <1>3, <3>3, <4>1
      <4>3. k \in 1 .. v.place
        <5> HIDE DEF w, v
        <5> QED BY <3>3, <4>2
      <4>4. i - k \in 1 .. last
        <5> HIDE DEF w, v
        <5> QED BY <1>1, <3>1, <3>3, <4>2, <4>3
      <4>5. CASE k = 1
        <5>1. i - k = last /\ w.place - k = v.place
          <6> HIDE DEF w, v
          <6> QED BY <1>1, <3>1, <4>2, <4>5
        <5>2. v = [place |-> v.place, begun |-> TRUE]
          <6> HIDE DEF v
          <6> QED BY <1>2, <4>2 DEF ReportBytes
        <5> QED BY <1>1, <4>4, <5>1, <5>2
      <4>6. CASE k # 1
        <5>1. k - 1 \in 1 .. v.place - 1 /\ last - (k - 1) = i - k /\ v.place - (k - 1) = w.place - k
          <6> HIDE DEF w, v
          <6> QED BY <1>1, <3>1, <4>2, <4>3, <4>6
        <5>2. last \in 1 .. Len(buffer) + 1 /\ last - (k - 1) >= 1
          BY <1>1, <3>3, <5>1
        <5>3. Upcoming(last - (k - 1)) = [place |-> v.place - (k - 1), begun |-> TRUE]
          BY <4>2, <5>1, <5>2 DEF FramingInv, ReportsStand
        <5> QED BY <1>1, <4>4, <5>1, <5>3
      <4> QED BY <4>5, <4>6
    <3> QED BY <3>1, <3>2, <3>3
  <2> QED BY <2>1, <2>2
<1>6. Breaks' = Breaks
  <2>1. Breaks' = {i \in 1 .. Len(buffer') : Upcoming(i + 1)' # Following(Upcoming(i)')}
    BY DEF Breaks, Following
  <2>2. ASSUME NEW i \in 1 .. Len(buffer)
        PROVE  Upcoming(i)' = Upcoming(i) /\ Upcoming(i + 1)' = Upcoming(i + 1)
    <3>1. i \in 1 .. last /\ i + 1 \in 1 .. last
      BY <1>1
    <3> QED BY <1>1, <3>1
  <2>3. \A i \in Nat : i = last => Upcoming(i + 1)' = Following(Upcoming(i)')
    <3> TAKE i \in Nat
    <3> HAVE i = last
    <3>1. i \in 1 .. last /\ i + 1 \in Nat /\ i + 1 = last + 1
      BY <1>1
    <3>2. Upcoming(i)' = v
      BY <1>1, <3>1
    <3> QED BY <1>1, <3>1, <3>2
  <2>4. \A i \in 1 .. Len(buffer') : i \in 1 .. Len(buffer) \/ i = last
    BY <1>1
  <2>5. \A i \in 1 .. Len(buffer) : i \in 1 .. Len(buffer')
    BY <1>1
  <2>6. ASSUME NEW i \in Breaks' PROVE i \in Breaks
    <3>1. i \in 1 .. Len(buffer') /\ Upcoming(i + 1)' # Following(Upcoming(i)') /\ i \in Nat
      BY <2>1, <1>1
    <3>2. i # last
      BY <2>3, <3>1
    <3> QED BY <2>2, <2>4, <3>1, <3>2 DEF Breaks
  <2>7. ASSUME NEW i \in Breaks PROVE i \in Breaks'
    BY <2>1, <2>2, <2>5, <2>7 DEF Breaks
  <2> QED BY <2>6, <2>7
<1>7. Beheaded' = Beheaded
  BY <1>1 DEF Beheaded
<1>8. CutsPay'
  BY <1>6, <1>7 DEF FramingInv, CutsPay, Send
<1> QED BY <1>4, <1>5, <1>8 DEF FramingInv

LEMMA CutKeeps ==
  ASSUME FramingInv, Cut
  PROVE  FramingInv'
<1>1. Len(buffer) \in Nat /\ buffer' = buffer /\ lost' = lost /\ cuts' = cuts + 1
  BY UpcomingType DEF FramingInv, Cut
<1>2. \A i \in 1 .. Len(buffer) : Upcoming(i)' = Upcoming(i)
  BY <1>1 DEF Upcoming
<1>3. Upcoming(Len(buffer) + 1)' = [place |-> place', begun |-> place' = 1]
  <2>1. ~(Len(buffer) + 1 <= Len(buffer))
    BY <1>1
  <2> QED BY <1>1, <2>1 DEF Upcoming, Cut
<1>4. FramingTypeOK'
  BY FramingAssumption DEF FramingInv, FramingTypeOK, Cut
<1>5. ReportsStand'
  <2> SUFFICES ASSUME NEW i \in 1 .. Len(buffer') + 1
               PROVE  /\ Upcoming(i)'.place = 1 => Upcoming(i)'.begun
                      /\ Upcoming(i)'.begun =>
                           \A k \in 1 .. Upcoming(i)'.place - 1 :
                             i - k >= 1 => Upcoming(i - k)' = [place |-> Upcoming(i)'.place - k, begun |-> TRUE]
    BY DEF ReportsStand
  <2>1. CASE i <= Len(buffer)
    <3>1. i \in 1 .. Len(buffer) /\ i \in 1 .. Len(buffer) + 1 /\ Upcoming(i)' = Upcoming(i)
      BY <1>1, <1>2, <2>1
    <3>2. ASSUME NEW k \in 1 .. Upcoming(i).place - 1, i - k >= 1
          PROVE  Upcoming(i - k)' = Upcoming(i - k)
      <4>1. Upcoming(i).place \in 1 .. FrameSize
        BY <3>1, UpcomingType DEF FramingInv, ReportBytes
      <4>2. i - k \in 1 .. Len(buffer)
        BY <1>1, <3>1, <3>2, <4>1, FrameNumbers
      <4> QED BY <1>2, <4>2
    <3> QED BY <3>1, <3>2 DEF FramingInv, ReportsStand
  <2>2. CASE ~(i <= Len(buffer))
    <3>1. i = Len(buffer) + 1 /\ Upcoming(i)' = [place |-> place', begun |-> place' = 1]
      BY <1>1, <1>3, <2>2
    <3>2. CASE place' = 1
      <4>1. Upcoming(i)' = [place |-> 1, begun |-> TRUE]
        BY <3>1, <3>2
      <4>2. 1 .. 1 - 1 = {}
        OBVIOUS
      <4> QED BY <4>1, <4>2
    <3>3. CASE place' # 1
      <4>1. Upcoming(i)' = [place |-> place', begun |-> FALSE]
        BY <3>1, <3>3
      <4> QED BY <3>3, <4>1
    <3> QED BY <3>2, <3>3
  <2> QED BY <2>1, <2>2
<1>6. /\ Cardinality(Breaks) \in Nat /\ IsFiniteSet(Breaks) /\ Beheaded \in {0, 1}
      /\ lost \in Nat /\ cuts \in Nat
  BY BreaksFinite, BeheadedNumber, FramingAssumption DEF FramingInv, FramingTypeOK
<1>7. Breaks' = {i \in 1 .. Len(buffer) : Upcoming(i + 1)' # Following(Upcoming(i)')}
  BY <1>1 DEF Breaks, Following
<1>8. CASE Len(buffer) = 0
  <2>1. Breaks' = {}
    BY <1>7, <1>8
  <2>2. Beheaded' = 0
    <3>1. Upcoming(1)' = [place |-> place', begun |-> place' = 1]
      <4>1. ~(1 <= Len(buffer))
        BY <1>8
      <4> QED BY <1>1, <4>1 DEF Upcoming, Cut
    <3>2. CASE place' = 1
      BY <3>1, <3>2 DEF Beheaded
    <3>3. CASE place' # 1
      <4>1. Upcoming(1)' = [place |-> place', begun |-> FALSE]
        BY <3>1, <3>3
      <4> QED BY <4>1 DEF Beheaded
    <3> QED BY <3>2, <3>3
  <2>3. Cardinality(Breaks') = 0
    BY <2>1, FS_EmptySet
  <2>4. CutsPay'
    BY <1>1, <1>6, <2>2, <2>3 DEF FramingInv, CutsPay
  <2> QED BY <1>4, <1>5, <2>4 DEF FramingInv
<1>9. CASE Len(buffer) # 0
  <2>1. Beheaded' = Beheaded
    BY <1>1, <1>2, <1>9 DEF Beheaded
  <2>2. Breaks' \subseteq Breaks \cup {Len(buffer)}
    <3>1. ASSUME NEW i \in 1 .. Len(buffer), i # Len(buffer)
          PROVE  Upcoming(i)' = Upcoming(i) /\ Upcoming(i + 1)' = Upcoming(i + 1)
      <4>1. i + 1 \in 1 .. Len(buffer)
        BY <1>1, <3>1
      <4> QED BY <1>2, <4>1
    <3> QED BY <1>7, <3>1 DEF Breaks
  <2>3. /\ IsFiniteSet(Breaks \cup {Len(buffer)})
        /\ Cardinality(Breaks \cup {Len(buffer)}) <= Cardinality(Breaks) + 1
    <3>1. IsFiniteSet(Breaks \cup {Len(buffer)})
      BY <1>6, FS_AddElement
    <3>2. \/ Cardinality(Breaks \cup {Len(buffer)}) = Cardinality(Breaks)
          \/ Cardinality(Breaks \cup {Len(buffer)}) = Cardinality(Breaks) + 1
      BY <1>6, FS_AddElement
    <3> QED BY <1>6, <3>1, <3>2
  <2>4. Cardinality(Breaks') \in Nat /\ Cardinality(Breaks') <= Cardinality(Breaks) + 1
    <3>1. IsFiniteSet(Breaks') /\ Cardinality(Breaks') <= Cardinality(Breaks \cup {Len(buffer)})
      BY <2>2, <2>3, FS_Subset
    <3>2. Cardinality(Breaks') \in Nat /\ Cardinality(Breaks \cup {Len(buffer)}) \in Nat
      BY <2>3, <3>1, FS_CardinalityType
    <3> QED BY <1>6, <2>3, <3>1, <3>2
  <2>5. CutsPay'
    BY <1>1, <1>6, <2>1, <2>4 DEF FramingInv, CutsPay
  <2> QED BY <1>4, <1>5, <2>5 DEF FramingInv
<1> QED BY <1>8, <1>9

LEMMA FramingInitially ==
  ASSUME FramingInit
  PROVE  FramingInv
<1>1. Len(buffer) = 0 /\ buffer \in Seq(ReportBytes)
  BY EmptySeq DEF FramingInit
<1>2. Upcoming(1) = [place |-> 1, begun |-> TRUE]
  BY <1>1 DEF FramingInit, Upcoming
<1>3. FramingTypeOK
  BY <1>1, FramingAssumption DEF FramingInit, FramingTypeOK
<1>4. ReportsStand
  <2>1. \A i \in 1 .. Len(buffer) + 1 : i = 1
    BY <1>1
  <2>2. 1 .. 1 - 1 = {}
    OBVIOUS
  <2> QED BY <1>2, <2>1, <2>2 DEF ReportsStand
<1>5. CutsPay
  <2>1. Breaks = {}
    BY <1>1 DEF Breaks
  <2>2. Cardinality(Breaks) = 0
    BY <2>1, FS_EmptySet
  <2>3. Beheaded = 0
    BY <1>2 DEF Beheaded
  <2> QED BY <2>2, <2>3 DEF CutsPay, FramingInit
<1> QED BY <1>3, <1>4, <1>5 DEF FramingInv

LEMMA FramingInvariance == FramingSpec => []FramingInv
<1>1. FramingInit => FramingInv
  BY FramingInitially
<1>2. FramingInv /\ [FramingNext]_framingVars => FramingInv'
  <2> SUFFICES ASSUME FramingInv, [FramingNext]_framingVars PROVE FramingInv'
    OBVIOUS
  <2>1. CASE Send
    BY <2>1, SendKeeps
  <2>2. CASE Cut
    BY <2>2, CutKeeps
  <2>3. CASE Accept
    BY <2>3, AcceptKeeps
  <2>4. CASE Refuse
    BY <2>4, RefuseKeeps
  <2>5. CASE Discard
    BY <2>5, DiscardKeeps
  <2>6. CASE UNCHANGED framingVars
    BY <2>6 DEF framingVars, FramingInv, FramingTypeOK, ReportsStand, CutsPay, Breaks, Beheaded, Upcoming, Following
  <2> QED BY <2>1, <2>2, <2>3, <2>4, <2>5, <2>6 DEF FramingNext, DatabaseRun
<1> QED BY <1>1, <1>2, PTL DEF FramingSpec

\* database_run: the bytes in the buffer, their places and the counts keep their types.
THEOREM FramingTypeCorrect == FramingSpec => []FramingTypeOK
<1>1. FramingInv => FramingTypeOK
  BY DEF FramingInv
<1> QED BY <1>1, FramingInvariance, PTL

\* database_run: however long a report, however many bytes wait and however often the link
\* is lost, no loss costs more than one report that arrived whole, if only the first byte
\* of a report is 0xFE.
THEOREM CutsLoseOneReport == FramingSpec => []OneLostPerCut
<1>1. FramingInv => OneLostPerCut
  <2> SUFFICES ASSUME FramingInv, Headers = {1} PROVE lost <= cuts
    BY DEF OneLostPerCut
  <2>1. Cardinality(Breaks) + Beheaded + lost <= cuts
    BY DEF FramingInv, CutsPay
  <2>2. Cardinality(Breaks) \in Nat /\ Beheaded \in {0, 1} /\ lost \in Nat /\ cuts \in Nat
    BY BreaksFinite, BeheadedNumber, FramingAssumption DEF FramingInv, FramingTypeOK
  <2> QED BY <2>1, <2>2
<1> QED BY <1>1, FramingInvariance, PTL

-----------------------------------------------------------------------------
(* Fletcher: no sum wraps *)

\* 5802 bytes and 32 bits, as encoding_checksum.cpp:20 has them.
LEMMA CodeConstantsFit ==
  255 * (5802 * 5802 + 3 * 5802 + 2) < 2 * 4294967296
BY SMT

\* Twice what the upper sum may be after n bytes.
Bound(n) == 255 * (n * n + 3 * n + 2)

LEMMA SquaresGrow == ASSUME NEW m \in Nat, NEW n \in Nat, m <= n PROVE m * m <= n * n
<1>1. m * m <= m * n
  BY SMT
<1>2. m * n <= n * n
  BY SMT
<1> QED BY <1>1, <1>2, SMT

LEMMA BoundGrows ==
  ASSUME NEW m \in Nat, NEW n \in Nat, m <= n
  PROVE  Bound(m) \in Nat /\ Bound(n) \in Nat /\ Bound(m) <= Bound(n)
<1>1. m * m \in Nat /\ n * n \in Nat /\ m * m <= n * n
  BY SquaresGrow
<1> QED BY <1>1, SMT DEF Bound

LEMMA BoundStep ==
  ASSUME NEW m \in Nat
  PROVE  Bound(m) \in Nat /\ Bound(m + 1) = Bound(m) + 510 * (m + 2)
<1>1. m * m \in Nat
  BY SMT
<1>2. (m + 1) * (m + 1) = m * m + 2 * m + 1
  BY SMT
<1> QED BY <1>1, <1>2, SMT DEF Bound

\* What a byte adds to the upper sum, in numbers.
LEMMA UpperGrows ==
  ASSUME NEW n \in Nat, NEW low \in Nat, NEW high \in Nat, NEW b \in Nat,
         low <= 255 * (n + 2), 2 * high <= b
  PROVE  high + low \in Nat /\ 2 * (high + low) <= b + 510 * (n + 2)
BY SMT

\* A sum that stays below the width is not reduced by it.
LEMMA SmallMod == ASSUME NEW w \in Nat, NEW x \in Nat, x < w PROVE x % w = x
BY SMT

LEMMA WordIsWide == /\ Bound(max_blocklen) < 2 * Word
                    /\ 255 * (max_blocklen + 1) < Word
                    /\ 255 < Word
<1>1. max_blocklen * max_blocklen \in Nat /\ max_blocklen * max_blocklen >= max_blocklen
  BY FletcherAssumption, SquaresGrow, SMT
<1> QED BY <1>1, FletcherAssumption, SMT DEF Bound

-----------------------------------------------------------------------------
Numbers ==
  /\ bytes \in Nat /\ blocklen \in Nat /\ added \in Nat
  /\ c0 \in 0 .. Word - 1 /\ c1 \in 0 .. Word - 1
  /\ pc \in {"call", "block", "add", "modulo", "return"}

\* Where the function is in its data.
Reached ==
  /\ pc # "add" => blocklen = 0
  /\ pc = "block" => bytes > 0
  /\ pc = "add" => blocklen > 0
  /\ pc \in {"block", "add", "modulo"} => bytes + blocklen <= Len(data)

\* A block begins with sums of one byte.
Reduced == pc = "block" => c0 <= 255 /\ c1 <= 255

Arguments == data \in Seq(0 .. 255) /\ seed \in Pair

FletcherInv == Arguments /\ Numbers /\ Reached /\ Reduced /\ NoOverflow

LEMMA InitInv == FletcherInit => FletcherInv
<1> SUFFICES ASSUME FletcherInit PROVE FletcherInv
  OBVIOUS
<1>1. data \in Seq(0 .. 255)
  <2>1. PICK n \in 0 .. MaxBytes : data \in [1 .. n -> Byte]
    BY DEF FletcherInit, Messages
  <2>2. n \in Nat
    BY FletcherAssumption
  <2>4. Byte \subseteq 0 .. 255
    BY FletcherAssumption
  <2>5. data \in [1 .. n -> 0 .. 255]
    BY <2>1, <2>4, Zenon
  <2>3. data \in UNION {[1 .. m -> 0 .. 255] : m \in Nat}
    BY <2>2, <2>5, Zenon
  <2> QED BY <2>3, SeqDef
<1>2. seed \in Pair
  BY FletcherAssumption DEF FletcherInit, Pair
<1>3. Numbers
  BY WordIsWide, FletcherAssumption DEF FletcherInit, Numbers
<1>4. Reached /\ Reduced /\ NoOverflow
  BY DEF FletcherInit, Reached, Reduced, NoOverflow
<1> QED BY <1>1, <1>2, <1>3, <1>4 DEF FletcherInv, Arguments

LEMMA CallKeeps == FletcherInv /\ Call => FletcherInv'
<1> SUFFICES ASSUME FletcherInv, Call PROVE FletcherInv'
  OBVIOUS
<1>1. seed.c0 \in 0 .. 255 /\ seed.c1 \in 0 .. 255
  BY DEF FletcherInv, Arguments, Pair
<1>2. Len(data) \in Nat /\ (data # <<>> => Len(data) > 0)
  BY EmptySeq, LenProperties DEF FletcherInv, Arguments
<1>3. Arguments'
  BY DEF Call, args, FletcherInv, Arguments
<1>4. \/ pc' = "return" /\ UNCHANGED <<bytes, c0, c1, blocklen, added>>
      \/ /\ data # <<>> /\ pc' = "block" /\ bytes' = Len(data)
         /\ c0' = seed.c0 /\ c1' = seed.c1 /\ UNCHANGED <<blocklen, added>>
  BY DEF Call
<1>5. seed.c0 \in 0 .. Word - 1 /\ seed.c1 \in 0 .. Word - 1
  BY <1>1, WordIsWide, FletcherAssumption
<1>6. blocklen = 0 /\ Len(data') = Len(data)
  BY DEF Call, args, FletcherInv, Reached
<1>7. Numbers'
  BY <1>2, <1>4, <1>5 DEF FletcherInv, Numbers
<1>8. Reached'
  BY <1>2, <1>4, <1>6 DEF Reached
<1>9. Reduced'
  <2> SUFFICES ASSUME pc' = "block" PROVE c0' <= 255 /\ c1' <= 255
    BY DEF Reduced
  <2>1. c0' = seed.c0 /\ c1' = seed.c1
    BY <1>4
  <2> QED BY <1>1, <2>1
<1>10. NoOverflow'
  BY <1>4 DEF NoOverflow
<1> QED BY <1>3, <1>7, <1>8, <1>9, <1>10 DEF FletcherInv

LEMMA BlockKeeps == FletcherInv /\ Block => FletcherInv'
<1> SUFFICES ASSUME FletcherInv, Block PROVE FletcherInv'
  OBVIOUS
<1>1. /\ UNCHANGED <<data, seed, c0, c1>> /\ pc = "block" /\ pc' = "add" /\ added' = 0
      /\ blocklen' = IF bytes > max_blocklen THEN max_blocklen ELSE bytes
      /\ bytes' = bytes - blocklen'
  BY DEF Block, args
<1>2. /\ bytes \in Nat /\ bytes > 0 /\ bytes <= Len(data) /\ Len(data) \in Nat
      /\ c0 \in Nat /\ c1 \in Nat /\ c0 <= 255 /\ c1 <= 255
  BY <1>1, LenProperties DEF FletcherInv, Arguments, Numbers, Reached, Reduced
<1>3. /\ blocklen' \in Nat /\ blocklen' > 0 /\ blocklen' <= max_blocklen
      /\ bytes' \in Nat /\ bytes' + blocklen' = bytes
  BY <1>1, <1>2, FletcherAssumption
<1>4. Arguments' /\ Numbers'
  BY <1>1, <1>3 DEF FletcherInv, Arguments, Numbers
<1>5. Reached' /\ Reduced'
  BY <1>1, <1>2, <1>3 DEF Reached, Reduced
<1>6. NoOverflow'
  BY <1>1, <1>2, <1>3 DEF NoOverflow
<1> QED BY <1>4, <1>5, <1>6 DEF FletcherInv

LEMMA AddKeeps ==
  FletcherInv /\ Add => FletcherInv' /\ c0' = c0 + Current /\ c1' = c1 + c0' /\ Current \in 0 .. 255
<1> SUFFICES ASSUME FletcherInv, Add
             PROVE  FletcherInv' /\ c0' = c0 + Current /\ c1' = c1 + c0' /\ Current \in 0 .. 255
  OBVIOUS
<1>1. /\ UNCHANGED <<data, seed, bytes>> /\ pc = "add"
      /\ c0' = (c0 + Current) % Word /\ c1' = (c1 + c0') % Word
      /\ blocklen' = blocklen - 1 /\ added' = added + 1
      /\ pc' = IF blocklen' = 0 THEN "modulo" ELSE "add"
  BY DEF Add, args
<1>2. /\ bytes \in Nat /\ blocklen \in Nat /\ blocklen > 0 /\ added \in Nat
      /\ bytes + blocklen <= Len(data) /\ Len(data) \in Nat
      /\ c0 \in Nat /\ c1 \in Nat
  BY <1>1, LenProperties, FletcherAssumption DEF FletcherInv, Arguments, Numbers, Reached
<1>3. Current \in 0 .. 255
  <2>1. Len(data) - bytes - blocklen + 1 \in 1 .. Len(data)
    BY <1>2
  <2> QED BY <2>1, ElementOfSeq DEF Current, FletcherInv, Arguments
<1>4. /\ added + blocklen <= max_blocklen /\ c0 <= 255 * (added + 1) /\ 2 * c1 <= Bound(added)
      /\ max_blocklen \in Nat /\ Word \in Nat
  BY <1>1, FletcherAssumption DEF FletcherInv, NoOverflow, Bound
<1>5. added + 1 \in Nat /\ added + 1 <= max_blocklen
  BY <1>2, <1>4
<1>6. c0' = c0 + Current /\ c0' \in Nat /\ c0' <= 255 * (added + 2) /\ c0' < Word
  <2>1. c0 + Current \in Nat /\ c0 + Current <= 255 * (added + 2)
    BY <1>2, <1>3, <1>4
  <2>2. 255 * (added + 2) <= 255 * (max_blocklen + 1)
    BY <1>2, <1>4, <1>5
  <2>3. 255 * (max_blocklen + 1) < Word
    BY WordIsWide
  <2>4. c0 + Current < Word
    BY <2>1, <2>2, <2>3, <1>2, <1>4
  <2>5. (c0 + Current) % Word = c0 + Current
    BY <1>4, <2>1, <2>4, SmallMod
  <2> QED BY <1>1, <2>1, <2>4, <2>5
<1>7. /\ Bound(added + 1) = Bound(added) + 510 * (added + 2)
      /\ Bound(added + 1) <= Bound(max_blocklen)
      /\ Bound(added) \in Nat /\ Bound(added + 1) \in Nat /\ Bound(max_blocklen) \in Nat
  <2>1. Bound(added + 1) = Bound(added) + 510 * (added + 2) /\ Bound(added) \in Nat
    BY <1>2, BoundStep
  <2>2. Bound(added + 1) <= Bound(max_blocklen) /\ Bound(added + 1) \in Nat
    BY <1>4, <1>5, BoundGrows
  <2>3. Bound(max_blocklen) \in Nat
    BY <1>4, BoundGrows
  <2> QED BY <2>1, <2>2, <2>3
<1>8. c1' = c1 + c0' /\ c1' \in Nat /\ 2 * c1' <= Bound(added + 1) /\ c1' < Word
  <2>1. c1 + c0' \in Nat /\ 2 * (c1 + c0') <= Bound(added + 1)
    <3>1. c1 + c0' \in Nat /\ 2 * (c1 + c0') <= Bound(added) + 510 * (added + 2)
      <4>1. /\ added \in Nat /\ c0' \in Nat /\ c1 \in Nat /\ Bound(added) \in Nat
            /\ c0' <= 255 * (added + 2) /\ 2 * c1 <= Bound(added)
        BY <1>2, <1>4, <1>6, <1>7
      <4>2. \A n, low, high, b \in Nat :
              low <= 255 * (n + 2) /\ 2 * high <= b =>
                high + low \in Nat /\ 2 * (high + low) <= b + 510 * (n + 2)
        BY UpperGrows, Zenon
      <4> QED BY <4>1, <4>2, Zenon
    <3> QED BY <1>7, <3>1
  <2>2. Bound(max_blocklen) < 2 * Word
    BY WordIsWide
  <2>3. c1 + c0' < Word
    BY <2>1, <2>2, <1>4, <1>7
  <2>4. (c1 + c0') % Word = c1 + c0'
    BY <1>4, <2>1, <2>3, SmallMod
  <2> QED BY <1>1, <2>1, <2>3, <2>4
<1>9. Arguments'
  BY <1>1 DEF FletcherInv, Arguments
<1>10. blocklen' \in Nat /\ pc' \in {"modulo", "add"} /\ (pc' = "modulo" <=> blocklen' = 0)
  BY <1>1, <1>2
<1>12. Numbers'
  <2>1. c0' \in 0 .. Word - 1
    BY <1>4, <1>6
  <2>2. c1' \in 0 .. Word - 1
    BY <1>4, <1>8
  <2>3. bytes' \in Nat /\ added' \in Nat
    BY <1>1, <1>2
  <2> QED BY <1>10, <2>1, <2>2, <2>3 DEF Numbers
<1>13. Reached' /\ Reduced'
  BY <1>1, <1>2, <1>10 DEF Reached, Reduced
<1>11. NoOverflow'
  BY <1>1, <1>2, <1>4, <1>6, <1>8 DEF NoOverflow, Bound
<1> QED BY <1>3, <1>6, <1>8, <1>9, <1>11, <1>12, <1>13 DEF FletcherInv

LEMMA ModuloKeeps == FletcherInv /\ Modulo => FletcherInv'
<1> SUFFICES ASSUME FletcherInv, Modulo PROVE FletcherInv'
  OBVIOUS
<1>1. /\ UNCHANGED <<data, seed, bytes, blocklen, added>> /\ pc = "modulo"
      /\ c0' = c0 % 255 /\ c1' = c1 % 255
      /\ pc' = IF bytes > 0 THEN "block" ELSE "return"
  BY DEF Modulo, args
<1>2. c0' \in 0 .. 254 /\ c1' \in 0 .. 254
  BY <1>1, FletcherAssumption DEF FletcherInv, Numbers
<1>3. Arguments'
  BY <1>1 DEF FletcherInv, Arguments
<1>4. Numbers' /\ Reached' /\ Reduced' /\ NoOverflow'
  BY <1>1, <1>2, WordIsWide, FletcherAssumption DEF FletcherInv, Numbers, Reached, Reduced, NoOverflow
<1> QED BY <1>3, <1>4 DEF FletcherInv

LEMMA FletcherInvariant == FletcherSpec => []FletcherInv
<1>1. FletcherInv /\ [FletcherNext]_fletcherVars => FletcherInv'
  <2> SUFFICES ASSUME FletcherInv, [FletcherNext]_fletcherVars PROVE FletcherInv'
    OBVIOUS
  <2>1. CASE UNCHANGED fletcherVars
    BY <2>1 DEF fletcherVars, args, FletcherInv, Arguments, Numbers, Reached, Reduced, NoOverflow
  <2> QED BY <2>1, CallKeeps, BlockKeeps, AddKeeps, ModuloKeeps DEF FletcherNext
<1> QED BY <1>1, InitInv, PTL DEF FletcherSpec

\* The words and counts of encoding_calculateFletcher16ChecksumWithSeed.
THEOREM FletcherTypeCorrect == FletcherSpec => []FletcherTypeOK
<1>1. FletcherInv => FletcherTypeOK
  BY DEF FletcherInv, Arguments, Numbers, FletcherTypeOK
<1> QED BY <1>1, FletcherInvariant, PTL

\* encoding_checksum.cpp:20: no sum ever wraps, however long the data and whatever the seed,
\* although a block begins with the remainder of the last one.
THEOREM SumsDoNotWrap == FletcherSpec => []NoOverflow
BY FletcherInvariant, PTL DEF FletcherInv

-----------------------------------------------------------------------------
(* The value that is returned *)

\* A turn of the recursion of Sums.
Turn(sum, byte) ==
  LET low == (sum.c0 + byte) % 255
  IN  [c0 |-> low, c1 |-> (sum.c1 + low) % 255]

LEMMA RestIsByte == \A x, y \in 0 .. 255 : (x + y) % 255 \in 0 .. 254
BY SMT

LEMMA SameRest ==
  ASSUME NEW x \in Nat, NEW y \in Nat, NEW z \in Nat, x % 255 = y % 255
  PROVE  (x + z) % 255 = (y + z) % 255 /\ (z + x) % 255 = (z + y) % 255
BY SMT

LEMMA RestOfRest == \A x \in 0 .. 254 : x \in 0 .. 255 /\ x \in Nat /\ x % 255 = x
BY SMT

\* A turn stays within bytes, and does the same to sums that are not reduced.
LEMMA TurnIsReduced ==
  ASSUME NEW sum \in Pair, NEW byte \in 0 .. 255
  PROVE  /\ Turn(sum, byte) \in Pair
         /\ Turn(sum, byte).c0 \in 0 .. 254 /\ Turn(sum, byte).c1 \in 0 .. 254
         /\ \A x, y \in Nat :
              x % 255 = sum.c0 % 255 /\ y % 255 = sum.c1 % 255 =>
                /\ (x + byte) % 255 = Turn(sum, byte).c0 % 255
                /\ (y + (x + byte)) % 255 = Turn(sum, byte).c1 % 255
<1>1. PICK a \in 0 .. 255, b \in 0 .. 255 : sum.c0 = a /\ sum.c1 = b
  BY DEF Pair
<1>2. PICK low \in 0 .. 254 : low = (a + byte) % 255
  BY RestIsByte
<1>3. PICK high \in 0 .. 254 : high = (b + low) % 255
  <2>1. low \in 0 .. 255
    BY RestOfRest
  <2> QED BY <2>1, RestIsByte
<1>4. Turn(sum, byte) = [c0 |-> low, c1 |-> high]
  BY <1>1, <1>2, <1>3, Zenon DEF Turn
<1>5. Turn(sum, byte) \in Pair /\ Turn(sum, byte).c0 = low /\ Turn(sum, byte).c1 = high
  BY <1>4, RestOfRest DEF Pair
<1>6. ASSUME NEW x \in Nat, NEW y \in Nat, x % 255 = a % 255, y % 255 = b % 255
      PROVE  (x + byte) % 255 = low % 255 /\ (y + (x + byte)) % 255 = high % 255
  <2>1. a \in Nat /\ b \in Nat /\ low \in Nat /\ byte \in Nat /\ x + byte \in Nat
    OBVIOUS
  <2>2. (x + byte) % 255 = low % 255
    BY <1>2, <1>6, <2>1, SameRest, RestOfRest
  <2>3. (y + (x + byte)) % 255 = (b + (x + byte)) % 255
    BY <1>6, <2>1, SameRest
  <2>4. (b + (x + byte)) % 255 = (b + low) % 255
    BY <2>1, <2>2, SameRest
  <2> QED BY <1>3, <2>2, <2>3, <2>4, RestOfRest
<1> QED BY <1>1, <1>5, <1>6

\* The recursion has a solution, and Sums is one.
LEMMA SumsExist ==
  ASSUME NEW message \in Seq(0 .. 255), NEW start \in Pair
  PROVE  \E sum : sum = [n \in 0 .. Len(message) |->
                          IF n = 0 THEN start ELSE Turn(sum[n - 1], message[n])]
<1> DEFINE Solves(g, n) ==
      /\ g \in [0 .. n -> Pair]
      /\ g[0] = start
      /\ \A i \in 1 .. n : g[i] = Turn(g[i - 1], message[i])
<1> DEFINE T == {n \in Nat : n <= Len(message) => \E g \in [0 .. n -> Pair] : Solves(g, n)}
<1>0. Len(message) \in Nat
  BY LenProperties
<1>1. 0 \in T
  <2> DEFINE g == [i \in 0 .. 0 |-> start]
  <2>1. g \in [0 .. 0 -> Pair] /\ g[0] = start
    OBVIOUS
  <2>2. 1 .. 0 = {}
    OBVIOUS
  <2> QED BY <2>1, <2>2
<1>2. ASSUME NEW n \in T PROVE n + 1 \in T
  <2> SUFFICES ASSUME n + 1 <= Len(message)
               PROVE  \E g \in [0 .. n + 1 -> Pair] : Solves(g, n + 1)
    <3> HIDE DEF Solves
    <3> QED OBVIOUS
  <2>1. n \in Nat /\ n <= Len(message) /\ n + 1 \in 1 .. Len(message)
    BY <1>0
  <2>2. PICK g \in [0 .. n -> Pair] : Solves(g, n)
    BY <2>1
  <2>3. message[n + 1] \in 0 .. 255
    BY <2>1, ElementOfSeq
  <2>4. g[n] \in Pair
    BY <2>1, <2>2
  <2> DEFINE last == Turn(g[n], message[n + 1])
             h == [i \in 0 .. n + 1 |-> IF i = n + 1 THEN last ELSE g[i]]
  <2>5. last \in Pair
    BY <2>3, <2>4, TurnIsReduced
  <2> HIDE DEF last
  <2>6. h \in [0 .. n + 1 -> Pair]
    BY <2>1, <2>2, <2>5
  <2>7. h[0] = start
    BY <2>1, <2>2
  <2>8. ASSUME NEW i \in 1 .. n + 1 PROVE h[i] = Turn(h[i - 1], message[i])
    <3>1. CASE i = n + 1
      <4>1. h[i] = last /\ h[i - 1] = g[n]
        BY <2>1, <3>1
      <4> QED BY <3>1, <4>1 DEF last
    <3>2. CASE i # n + 1
      <4>1. i \in 1 .. n /\ h[i] = g[i] /\ h[i - 1] = g[i - 1]
        BY <2>1, <3>2
      <4> QED BY <2>2, <4>1
    <3> QED BY <3>1, <3>2
  <2> QED BY <2>6, <2>7, <2>8
<1>3. T = Nat
  <2> HIDE DEF T
  <2>1. T \in SUBSET Nat
    BY DEF T
  <2> QED BY <1>1, <1>2, <2>1, SetInduction
<1>4. PICK g \in [0 .. Len(message) -> Pair] : Solves(g, Len(message))
  BY <1>0, <1>3
<1>5. g = [n \in 0 .. Len(message) |-> IF n = 0 THEN start ELSE Turn(g[n - 1], message[n])]
  BY <1>0, <1>4
<1> QED BY <1>5

LEMMA SumsSolve ==
  ASSUME NEW message \in Seq(0 .. 255), NEW start \in Pair
  PROVE  /\ Sums(message, start)[0] = start
         /\ \A n \in 1 .. Len(message) :
              Sums(message, start)[n] = Turn(Sums(message, start)[n - 1], message[n])
<1> DEFINE sum == Sums(message, start)
<1>1. sum = CHOOSE f : f = [n \in 0 .. Len(message) |->
                             IF n = 0 THEN start ELSE Turn(f[n - 1], message[n])]
  BY DEF Sums, Turn
<1>2. sum = [n \in 0 .. Len(message) |-> IF n = 0 THEN start ELSE Turn(sum[n - 1], message[n])]
  <2> HIDE DEF sum
  <2> QED BY <1>1, SumsExist
<1>3. Len(message) \in Nat
  BY LenProperties
<1> HIDE DEF sum
<1>4. sum[0] = start /\ \A n \in 1 .. Len(message) : sum[n] = Turn(sum[n - 1], message[n])
  BY <1>2, <1>3
<1> QED BY <1>4 DEF sum

\* What is done of the data, and the sums of it.
Done == Len(data) - bytes - blocklen
Reference == Sums(data, seed)[Done]

\* The running sums are the reference's but for multiples of 255.
Summing ==
  /\ pc \in {"block", "add", "modulo"} =>
       /\ Done \in 0 .. Len(data)
       /\ Reference \in Pair
       /\ c0 % 255 = Reference.c0 % 255
       /\ c1 % 255 = Reference.c1 % 255
  /\ pc = "modulo" => Done > 0 /\ Reference.c0 < 255 /\ Reference.c1 < 255
  /\ ResultIsChecksum

ChecksumInv == FletcherInv /\ Summing

LEMMA CallSums == FletcherInv /\ Summing /\ Call => Summing'
<1> SUFFICES ASSUME FletcherInv, Summing, Call PROVE Summing'
  OBVIOUS
<1>1. data \in Seq(0 .. 255) /\ seed \in Pair /\ Len(data) \in Nat
  BY LenProperties DEF FletcherInv, Arguments
<1>2. UNCHANGED <<data, seed, blocklen>> /\ blocklen = 0 /\ pc = "call"
  BY DEF Call, args, FletcherInv, Reached
<1>3. CASE data = <<>>
  <2>1. pc' = "return"
    BY <1>3 DEF Call
  <2> QED BY <1>2, <1>3, <2>1 DEF Summing, ResultIsChecksum
<1>4. CASE data # <<>>
  <2>1. pc' = "block" /\ bytes' = Len(data) /\ c0' = seed.c0 /\ c1' = seed.c1
    BY <1>4 DEF Call
  <2>2. Done' = 0
    BY <1>1, <1>2, <2>1 DEF Done
  <2>3. Reference' = seed
    BY <1>1, <1>2, <2>2, SumsSolve DEF Reference
  <2> QED BY <1>1, <1>2, <2>1, <2>2, <2>3 DEF Summing, ResultIsChecksum
<1> QED BY <1>3, <1>4

LEMMA BlockSums == FletcherInv /\ Summing /\ Block => Summing'
<1> SUFFICES ASSUME FletcherInv, Summing, Block PROVE Summing'
  OBVIOUS
<1>1. /\ UNCHANGED <<data, seed, c0, c1>> /\ pc = "block" /\ pc' = "add"
      /\ bytes' = bytes - blocklen' /\ blocklen = 0
      /\ blocklen' = IF bytes > max_blocklen THEN max_blocklen ELSE bytes
  BY DEF Block, args, FletcherInv, Reached
<1>2. bytes \in Nat /\ blocklen' \in Nat /\ Len(data) \in Nat
  BY <1>1, FletcherAssumption, LenProperties DEF FletcherInv, Arguments, Numbers
<1>3. Done' = Done
  BY <1>1, <1>2 DEF Done
<1>4. Reference' = Reference
  BY <1>1, <1>3 DEF Reference
<1> QED BY <1>1, <1>3, <1>4 DEF Summing, ResultIsChecksum

LEMMA AddSums == FletcherInv /\ Summing /\ Add => Summing'
<1> SUFFICES ASSUME FletcherInv, Summing, Add PROVE Summing'
  OBVIOUS
<1>1. /\ UNCHANGED <<data, seed, bytes>> /\ pc = "add" /\ blocklen' = blocklen - 1
      /\ pc' \in {"add", "modulo"}
  BY DEF Add, args
<1>2. c0' = c0 + Current /\ c1' = c1 + c0' /\ Current \in 0 .. 255
  BY AddKeeps
<1>3. /\ bytes \in Nat /\ blocklen \in Nat /\ blocklen > 0 /\ c0 \in Nat /\ c1 \in Nat
      /\ Len(data) \in Nat /\ data \in Seq(0 .. 255) /\ seed \in Pair
      /\ bytes + blocklen <= Len(data)
  BY <1>1, FletcherAssumption, LenProperties DEF FletcherInv, Arguments, Numbers, Reached
<1>4. /\ Done' = Done + 1 /\ Done' \in 1 .. Len(data) /\ Current = data[Done']
      /\ Done' - 1 = Done
  BY <1>1, <1>3 DEF Done, Current
<1>5. Reference' = Turn(Reference, Current)
  <2>1. Sums(data, seed)[Done'] = Turn(Sums(data, seed)[Done' - 1], data[Done'])
    BY <1>3, <1>4, SumsSolve
  <2> QED BY <1>1, <1>4, <2>1 DEF Reference
<1>6. Reference \in Pair /\ c0 % 255 = Reference.c0 % 255 /\ c1 % 255 = Reference.c1 % 255
  BY <1>1 DEF Summing
<1>7. /\ Reference' \in Pair /\ Reference'.c0 \in 0 .. 254 /\ Reference'.c1 \in 0 .. 254
      /\ c0' % 255 = Reference'.c0 % 255 /\ c1' % 255 = Reference'.c1 % 255
  <2>1. /\ (c0 + Current) % 255 = Turn(Reference, Current).c0 % 255
        /\ (c1 + (c0 + Current)) % 255 = Turn(Reference, Current).c1 % 255
    <3>1. \A x, y \in Nat :
            x % 255 = Reference.c0 % 255 /\ y % 255 = Reference.c1 % 255 =>
              /\ (x + Current) % 255 = Turn(Reference, Current).c0 % 255
              /\ (y + (x + Current)) % 255 = Turn(Reference, Current).c1 % 255
      BY <1>2, <1>6, TurnIsReduced, Zenon
    <3>2. c0 \in Nat /\ c1 \in Nat
      BY <1>3
    <3> QED BY <1>6, <3>1, <3>2, Zenon
  <2> QED BY <1>2, <1>5, <1>6, <2>1, TurnIsReduced, Zenon
<1>8. Reference'.c0 < 255 /\ Reference'.c1 < 255
  BY <1>7
<1>9. Done' > 0 /\ Done' \in 0 .. Len(data') /\ pc' # "call" /\ pc' # "return"
  BY <1>1, <1>3, <1>4
<1> QED BY <1>7, <1>8, <1>9 DEF Summing, ResultIsChecksum

LEMMA ModuloSums == FletcherInv /\ Summing /\ Modulo => Summing'
<1> SUFFICES ASSUME FletcherInv, Summing, Modulo PROVE Summing'
  OBVIOUS
<1>1. /\ UNCHANGED <<data, seed, bytes, blocklen>> /\ pc = "modulo" /\ blocklen = 0
      /\ c0' = c0 % 255 /\ c1' = c1 % 255
      /\ pc' = IF bytes > 0 THEN "block" ELSE "return"
  BY DEF Modulo, args, FletcherInv, Reached
<1>2. /\ bytes \in Nat /\ c0 \in Nat /\ c1 \in Nat
      /\ Len(data) \in Nat /\ data \in Seq(0 .. 255)
  BY FletcherAssumption, LenProperties DEF FletcherInv, Arguments, Numbers
<1>3. Done' = Done /\ Reference' = Reference
  BY <1>1 DEF Done, Reference
<1>4. /\ Done \in 1 .. Len(data) /\ Reference \in Pair
      /\ c0 % 255 = Reference.c0 % 255 /\ c1 % 255 = Reference.c1 % 255
      /\ Reference.c0 \in 0 .. 254 /\ Reference.c1 \in 0 .. 254
  BY <1>1 DEF Summing, Pair
<1>5. c0' = Reference.c0 /\ c1' = Reference.c1
  <2>1. \A x \in 0 .. 254 : x % 255 = x
    BY SMT
  <2> QED BY <1>1, <1>4, <2>1, Zenon
<1>6. CASE bytes > 0
  BY <1>1, <1>3, <1>4, <1>5, <1>6 DEF Summing, ResultIsChecksum
<1>7. CASE ~(bytes > 0)
  <2>1. pc' = "return" /\ Done = Len(data)
    BY <1>1, <1>2, <1>7 DEF Done
  <2>2. Checksum(data, seed) = Reference
    BY <2>1 DEF Checksum, Reference
  <2>3. Reference = [c0 |-> Reference.c0, c1 |-> Reference.c1]
    BY <1>4 DEF Pair
  <2> QED BY <1>1, <1>5, <2>1, <2>2, <2>3 DEF Summing, ResultIsChecksum, Result
<1> QED BY <1>6, <1>7

LEMMA ChecksumInvariant == FletcherSpec => []ChecksumInv
<1>1. FletcherInit => Summing
  BY DEF FletcherInit, Summing, ResultIsChecksum
<1>2. FletcherInv /\ Summing /\ [FletcherNext]_fletcherVars => Summing'
  <2> SUFFICES ASSUME FletcherInv, Summing, [FletcherNext]_fletcherVars PROVE Summing'
    OBVIOUS
  <2>1. CASE UNCHANGED fletcherVars
    BY <2>1 DEF fletcherVars, args, Summing, ResultIsChecksum, Result, Done, Reference
  <2> QED BY <2>1, CallSums, BlockSums, AddSums, ModuloSums DEF FletcherNext
<1> QED BY <1>1, <1>2, FletcherInvariant, PTL DEF FletcherSpec, ChecksumInv

\* encoding_calculateFletcher16ChecksumWithSeed returns the Fletcher checksum of its
\* arguments, for all data but none and for every seed: to reduce the sums only between the
\* blocks changes nothing.
THEOREM ChecksumIsRight == FletcherSpec => []ResultIsChecksum
<1>1. ChecksumInv => ResultIsChecksum
  BY DEF ChecksumInv, Summing
<1> QED BY <1>1, ChecksumInvariant, PTL
===============================================================================
