------------------------------- MODULE Fletcher -------------------------------
(***************************************************************************)
(* The checksum of a report: encoding_calculateFletcher16ChecksumWithSeed  *)
(* of src/encoding_checksum.cpp, a step per turn of its loops, in words    *)
(* that wrap. A checksum and a seed are pairs of bytes, c1 above c0.       *)
(***************************************************************************)
EXTENDS Integers, Sequences

CONSTANTS
  Byte,           \* values of a byte
  MaxBytes,       \* bytes of the longest message that is tried
  max_blocklen,   \* bytes that are added up between two modulos, 5802 in the code
  Word            \* 2^32 in the code

\* What the code's comment asks of max_blocklen, and a little more: a block does not
\* begin with zero, but with what is left of the last one or with the seed.
ASSUME FletcherAssumption ==
  /\ Byte \subseteq 0 .. 255
  /\ MaxBytes \in Nat
  /\ max_blocklen \in Nat \ {0}
  /\ Word \in Nat
  /\ 255 * (max_blocklen * max_blocklen + 3 * max_blocklen + 2) < 2 * Word

VARIABLES
  data, seed,   \* the arguments
  pc,           \* "call", "block", "add", "modulo" or "return"
  bytes,        \* left after the present block
  blocklen,     \* left in the present block
  c0, c1,
  added         \* bytes added in the present block (history)

args == <<data, seed>>
fletcherVars == <<args, pc, bytes, blocklen, c0, c1, added>>

Pair == [c0 : 0 .. 255, c1 : 0 .. 255]
Zero == [c0 |-> 0, c1 |-> 0]

FletcherTypeOK ==
  /\ data \in Seq(0 .. 255)
  /\ seed \in Pair
  /\ pc \in {"call", "block", "add", "modulo", "return"}
  /\ bytes \in Nat
  /\ blocklen \in Nat
  /\ c0 \in 0 .. Word - 1
  /\ c1 \in 0 .. Word - 1
  /\ added \in Nat

Messages == UNION {[1 .. n -> Byte] : n \in 0 .. MaxBytes}

FletcherInit ==
  /\ data \in Messages
  /\ seed \in [c0 : Byte, c1 : Byte]
  /\ pc = "call"
  /\ bytes = 0
  /\ blocklen = 0
  /\ c0 = 0
  /\ c1 = 0
  /\ added = 0

-----------------------------------------------------------------------------
\* Without data the result is zero, whatever the seed.
Call ==
  /\ pc = "call"
  /\ IF data = <<>>
       THEN pc' = "return" /\ UNCHANGED <<bytes, c0, c1>>
       ELSE pc' = "block" /\ bytes' = Len(data) /\ c0' = seed.c0 /\ c1' = seed.c1
  /\ UNCHANGED <<args, blocklen, added>>

\* Mutant: a block may be one byte longer.
BlockLonger ==
  /\ pc = "block"
  /\ blocklen' = IF bytes > max_blocklen THEN max_blocklen + 1 ELSE bytes
  /\ bytes' = bytes - blocklen'
  /\ added' = 0
  /\ pc' = "add"
  /\ UNCHANGED <<args, c0, c1>>

Block ==
  /\ pc = "block"
  /\ blocklen' = IF bytes > max_blocklen THEN max_blocklen ELSE bytes
  /\ bytes' = bytes - blocklen'
  /\ added' = 0
  /\ pc' = "add"
  /\ UNCHANGED <<args, c0, c1>>

\* The byte to add: data has moved on by what is done.
Current == data[Len(data) - bytes - blocklen + 1]

Add ==
  /\ pc = "add"
  /\ c0' = (c0 + Current) % Word
  /\ c1' = (c1 + c0') % Word
  /\ blocklen' = blocklen - 1
  /\ added' = added + 1
  /\ pc' = IF blocklen' = 0 THEN "modulo" ELSE "add"
  /\ UNCHANGED <<args, bytes>>

\* Mutant: the upper sum is reduced once, at the end.
ModuloLate ==
  /\ pc = "modulo"
  /\ c0' = c0 % 255
  /\ c1' = IF bytes > 0 THEN c1 ELSE c1 % 255
  /\ pc' = IF bytes > 0 THEN "block" ELSE "return"
  /\ UNCHANGED <<args, bytes, blocklen, added>>

Modulo ==
  /\ pc = "modulo"
  /\ c0' = c0 % 255
  /\ c1' = c1 % 255
  /\ pc' = IF bytes > 0 THEN "block" ELSE "return"
  /\ UNCHANGED <<args, bytes, blocklen, added>>

FletcherNext == Call \/ Block \/ Add \/ Modulo

FletcherSpec == FletcherInit /\ [][FletcherNext]_fletcherVars

-----------------------------------------------------------------------------
(* Properties *)

\* The Fletcher sums of the first n bytes of a message, without blocks and widths.
Sums(message, start) ==
  LET sum[n \in 0 .. Len(message)] ==
        IF n = 0 THEN start
        ELSE LET low == (sum[n - 1].c0 + message[n]) % 255
             IN  [c0 |-> low, c1 |-> (sum[n - 1].c1 + low) % 255]
  IN  sum

Checksum(message, start) == Sums(message, start)[Len(message)]

Result == [c0 |-> c0, c1 |-> c1]

\* encoding_calculateFletcher16ChecksumWithSeed is the Fletcher checksum of its
\* arguments, when there are any data: leaving out the modulo within a block changes
\* nothing.
ResultIsChecksum == pc = "return" /\ data # <<>> => Result = Checksum(data, seed)

\* encoding_checksum.cpp:20: "Maximum number of uint8s that can be processed in
\* one go without modulo": no sum ever wraps. After n bytes, c0 is at most
\* 255 + 255 n, and c1 the sum of what c0 has been, from 255 on.
NoOverflow ==
  pc \in {"add", "modulo"} =>
    /\ added + blocklen <= max_blocklen
    /\ c0 <= 255 * (added + 1)
    /\ 2 * c1 <= 255 * (added * added + 3 * added + 2)
=============================================================================
