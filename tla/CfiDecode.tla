------------------------------ MODULE CfiDecode ------------------------------
(***************************************************************************)
(* Operands of CFI instructions (src/gu_cfi_helper.c): numbers in LEB128,  *)
(* decoded as decode_read_checked() does, at the widths of the C types.    *)
(*                                                                         *)
(* An operand is its bytes; a byte of at least Flag has another after it.  *)
(***************************************************************************)
EXTENDS Integers, Sequences, SequencesExt, Bitwise

CONSTANTS
  GroupBits,   \* payload of a byte, 7
  IntBits,     \* width of an int, 32
  WordBits,    \* width of a uint64_t, 64
  MaxUleb,     \* bytes that may be read of an unsigned number, 8
  MaxSleb      \* and of a signed one, 10

ASSUME DecodeConstants ==
  /\ {GroupBits, IntBits, WordBits, MaxUleb, MaxSleb} \subseteq Nat \ {0}
  /\ GroupBits < IntBits /\ IntBits < WordBits

Flag == 2^GroupBits
Word == 2^WordBits

(* decode_read_fits(): a last byte comes in time.                           *)
decode_read_fits(buf, max) == \E i \in 1 .. max : i <= Len(buf) /\ buf[i] < Flag

(* The payloads of a number, up to its last byte.                           *)
Groups(buf) ==
  LET n == CHOOSE n \in DOMAIN buf : buf[n] < Flag /\ \A i \in 1 .. n - 1 : buf[i] >= Flag
  IN [i \in 1 .. n |-> buf[i] % Flag]

OredTogether(words) == FoldLeft(LAMBDA x, y : x | y, 0, words)

(* A payload is shifted as an int and then widened with its sign.  A shift  *)
(* by the width or more, which C leaves undefined, takes the rest by the    *)
(* width on the processors supported.                                       *)
decode_uleb128(buf) ==
  LET groups == Groups(buf)
      Shifted(i) == (groups[i] * 2^((GroupBits * (i - 1)) % IntBits)) % 2^IntBits
      Widened(v) == IF v < 2^(IntBits - 1) THEN v ELSE v + (Word - 2^IntBits)
  IN OredTogether([i \in DOMAIN groups |-> Widened(Shifted(i))])

(* A payload is shifted as a word; a negative number is filled with ones    *)
(* above its last group (by the rest again, if there is nothing above).     *)
decode_sleb128(buf) ==
  LET groups == Groups(buf)
      n == Len(groups)
      Shifted(i) == (groups[i] * 2^(GroupBits * (i - 1))) % Word
      value == OredTogether([i \in DOMAIN groups |-> Shifted(i)])
  IN IF groups[n] < Flag \div 2 THEN value
     ELSE value | (Word - 2^((GroupBits * n) % WordBits))

-----------------------------------------------------------------------------
(* What the bytes mean.                                                     *)
Unsigned(buf) ==
  LET groups == Groups(buf)
  IN FoldLeft(LAMBDA sum, i : sum + groups[i] * Flag^(i - 1), 0, [i \in DOMAIN groups |-> i])

Signed(buf) ==
  LET n == Len(Groups(buf))
  IN IF Groups(buf)[n] < Flag \div 2 THEN Unsigned(buf) ELSE Unsigned(buf) - Flag^n
=============================================================================
