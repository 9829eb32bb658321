---------------------------- MODULE AsyncTx ----------------------------
(***************************************************************************)
(* spandsp's V.14 test bit source (tests/async_tests.c): the test's        *)
(* v14_test_async_tx_get_bit, which sends the characters of               *)
(* test_get_async_byte as asynchronous frames (a start bit, the data bits *)
(* least significant first, an optional parity bit, stop bits) and drops  *)
(* a stop bit now and then to exercise V.14 rate adaption.                 *)
(*                                                                         *)
(* The async_tx_state_t fields it uses are set by async_tx_init, which is  *)
(* not in this repository: the model takes spandsp's total_bits =         *)
(* data_bits + stop_bits, plus one with parity.  parity8 (also spandsp,   *)
(* not here) is 1 when its byte has an odd number of ones.                 *)
(***************************************************************************)
EXTENDS Integers, Sequences, FiniteSets

CONSTANTS
    DataBits,   \* data_bits values async_tx_init may be given
    Parities,   \* "none", "even", "odd" (ASYNC_PARITY_*)
    StopBits,   \* stop_bits values
    MaxChars    \* characters sent before the test's loop stops

VARIABLES
    dataBits, parity, totalBits,  \* the async_tx_state_t configuration
    bitpos,          \* s->bitpos
    byteInProgress,  \* s->byte_in_progress
    destuff,         \* the function's static destuff counter
    txChars,         \* tx_async_chars
    cur,             \* the bits sent so far for the current character
    last,            \* the bits of the last complete character
    done             \* characters whose last bit has been sent

vars == <<dataBits, parity, totalBits, bitpos, byteInProgress, destuff,
          txChars, cur, last, done>>

Bit == {0, 1}

TypeOK ==
    /\ dataBits \in DataBits /\ parity \in Parities
    /\ bitpos \in 0..totalBits
    /\ byteInProgress \in Nat
    /\ destuff \in Nat /\ txChars \in Nat /\ done \in 0..MaxChars
    /\ cur \in Seq(Bit) /\ last \in Seq(Bit)

(* The test calls async_tx_init, then sets tx_async_chars = 0; destuff is  *)
(* a static int, 0 at the first call.                                     *)
Init ==
    /\ dataBits \in DataBits
    /\ parity \in Parities
    /\ \E stop \in StopBits :
          totalBits = dataBits + stop + (IF parity = "none" THEN 0 ELSE 1)
    /\ bitpos = 0
    /\ byteInProgress = 0
    /\ destuff = 0
    /\ txChars = 0
    /\ cur = <<>> /\ last = <<>>
    /\ done = 0

(* test_get_async_byte: tx_async_chars & 0xFF, then tx_async_chars++.      *)
GetByte == txChars % 256

(* parity8: 1 when the byte has an odd number of ones.                     *)
RECURSIVE Parity8(_)
Parity8(b) == IF b = 0 THEN 0 ELSE ((b % 2) + Parity8(b \div 2)) % 2

(* A new character: mask to data_bits, then with parity OR in the parity   *)
(* bit (inverted for odd parity) above the data and 0xFFFF above that,     *)
(* else 0xFFFF above the data.  The ORs touch disjoint bits, so they are  *)
(* sums here.                                                              *)
LoadedNoOddInvert(c) ==
    LET d == c % 2^dataBits
    IN IF parity # "none"
         THEN d + Parity8(d) * 2^dataBits + 65535 * 2^(dataBits + 1)
         ELSE d + 65535 * 2^dataBits

Loaded(c) ==
    LET d == c % 2^dataBits
        p == IF parity = "odd" THEN 1 - Parity8(d) ELSE Parity8(d)
    IN IF parity # "none"
         THEN d + p * 2^dataBits + 65535 * 2^(dataBits + 1)
         ELSE d + 65535 * 2^dataBits

(* The last position of this character: one short (the stop bit dropped)  *)
(* when ++destuff is a multiple of 4.                                      *)
LimitOffByOne(n) == IF n % 4 = 0 THEN totalBits - 1 ELSE totalBits + 1

Limit(n) == IF n % 4 = 0 THEN totalBits - 1 ELSE totalBits

(* v14_test_async_tx_get_bit.  At bitpos 0 it loads a character and sends  *)
(* the start bit; otherwise it sends the low bit, shifts, counts destuff   *)
(* and wraps bitpos to 0 after the character's last position.              *)
StartBit ==
    /\ bitpos = 0 /\ done < MaxChars
    /\ byteInProgress' = Loaded(GetByte)
    /\ txChars' = txChars + 1
    /\ bitpos' = 1
    /\ cur' = <<0>>
    /\ UNCHANGED <<destuff, last, done>>

NextBit ==
    /\ bitpos > 0
    /\ LET bit == byteInProgress % 2
           n   == destuff + 1
           pos == IF bitpos + 1 > Limit(n) THEN 0 ELSE bitpos + 1
       IN /\ byteInProgress' = byteInProgress \div 2
          /\ destuff' = n
          /\ bitpos' = pos
          /\ cur' = Append(cur, bit)
          /\ IF pos = 0 THEN last' = Append(cur, bit) /\ done' = done + 1
                        ELSE UNCHANGED <<last, done>>
    /\ UNCHANGED txChars

GetBit ==
    /\ StartBit \/ NextBit
    /\ UNCHANGED <<dataBits, parity, totalBits>>

(* The test's loop stops after MaxChars characters.                        *)
Stopped == bitpos = 0 /\ done = MaxChars /\ UNCHANGED vars

Next == GetBit \/ Stopped

Spec == Init /\ [][Next]_vars

-----------------------------------------------------------------------------
(* Properties                                                              *)

(* An asynchronous character frame, stated by its fields rather than by    *)
(* the shifts that build it: a 0 start bit, then the data bits of c least *)
(* significant first, then a parity bit making the number of ones in data *)
(* and parity even (even parity) or odd (odd parity), then 1s.             *)
DataOf(c) == [i \in 1..dataBits |-> (c \div 2^(i - 1)) % 2]
Ones(s) == Cardinality({i \in DOMAIN s : s[i] = 1})
ParityLen == IF parity = "none" THEN 0 ELSE 1

IsFrameOf(f, c) ==
    /\ Len(f) >= 1 + dataBits + ParityLen
    /\ f[1] = 0
    /\ SubSeq(f, 2, 1 + dataBits) = DataOf(c)
    /\ parity # "none" =>
          Ones(SubSeq(f, 2, 2 + dataBits)) % 2 = IF parity = "even" THEN 0 ELSE 1
    /\ \A i \in (2 + dataBits + ParityLen)..Len(f) : f[i] = 1

(* Every character v14_test_async_tx_get_bit completes is a well-formed   *)
(* frame of the byte test_get_async_byte gave it (character k has byte    *)
(* (k - 1) & 0xFF): the mask, the parity, the stop-bit fill of 0xFFFF and *)
(* the LSB-first shifting agree with the framing, and at most the last    *)
(* stop bit is missing.                                                    *)
FramesWellFormed ==
    done > 0 =>
        /\ Len(last) \in {totalBits, totalBits + 1}
        /\ IsFrameOf(last, (done - 1) % 256)

(* The comment at the drop: "Drop the stop bit on every fourth character   *)
(* for V.14 simulation": exactly the 4th, 8th, ... characters are one bit  *)
(* short.                                                                  *)
EveryFourthDropped ==
    done > 0 => (Len(last) = totalBits <=> done % 4 = 0)

=============================================================================
