------------------------------ MODULE MipsWord ------------------------------
(***************************************************************************)
(* The fields of a 32-bit MIPS instruction word that src/src/novl-reloc.c  *)
(* reads and writes, with the field widths as parameters.  The program's   *)
(* values are Half = 2^16, RegCount = 2^5 and Kseg0 = 2^31; every shift    *)
(* and mask of the source is then a quotient or a remainder by a product   *)
(* of them.  A model keeps the proportions: a word is two halves, the low  *)
(* half is the immediate, above it lie two register fields, and the jump   *)
(* target is everything below the opcode.                                  *)
(***************************************************************************)
EXTENDS Integers

CONSTANTS
    Half,       \* number of values of a 16-bit immediate
    RegCount,   \* number of registers
    Kseg0       \* 0x80000000, the segment every jump target lies in

Word      == Half * Half
Words     == 0 .. (Word - 1)
Registers == 0 .. (RegCount - 1)
JumpSpan  == Half * RegCount * RegCount

ASSUME WordLayout ==
    /\ Half \in Nat \ {0}
    /\ Half % 2 = 0
    /\ RegCount \in Nat \ {0}
    /\ Half % (RegCount * RegCount) = 0   \* the opcode fills the rest of the high half
    /\ Kseg0 \in Nat
    /\ Kseg0 % (4 * JumpSpan) = 0      \* the segment bit lies above the target
    /\ Kseg0 + 4 * JumpSpan <= Word   \* ... and inside the word

(***************************************************************************)
(* The immediate: w & 0xFFFF, and the same read through an int16_t.        *)
(***************************************************************************)
Imm(w)       == w % Half
SignedImm(w) == IF Imm(w) >= Half \div 2 THEN Imm(w) - Half ELSE Imm(w)

(* The register a LUI sets, and the base register of a load, store or ADDIU. *)
HiReg(w) == (w \div Half) % RegCount
LoReg(w) == (w \div (Half * RegCount)) % RegCount

(***************************************************************************)
(* (w & 0xFFFF0000) | v.  The source computes v = (addr >> 16) + 1 without *)
(* masking it, so v may be Half itself: the OR then sets the lowest bit    *)
(* above the immediate, which is a bit of the register field.              *)
(***************************************************************************)
WithImm(w, v) ==
    LET upper == w - Imm(w)
    IN  IF v = Half /\ (w \div Half) % 2 = 1 THEN upper ELSE upper + v

(* The target of a J or JAL, and the same instruction with another target. *)
JumpTarget(w)       == Kseg0 + 4 * (w % JumpSpan)
WithTarget(w, addr) == (w - (w % JumpSpan)) + ((addr \div 4) % JumpSpan)

(***************************************************************************)
(* An address cut into halves such that the sign-extended low half added   *)
(* to the high half gives it back: the high half carries when the low half *)
(* will be read as negative.                                               *)
(***************************************************************************)
HiPart_no_carry(addr) == addr \div Half    \* a slip: the carry is forgotten
HiPart(addr) == addr \div Half + (IF addr % Half >= Half \div 2 THEN 1 ELSE 0)
LoPart(addr) == addr % Half

=============================================================================
