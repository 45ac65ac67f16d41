----------------------------- MODULE RelocEngine -----------------------------
(***************************************************************************)
(* src/src/novl-reloc.c: the relocation handlers, over the image of the    *)
(* ELF file in memory.  The converter (NovlConv) calls RelocDo once per    *)
(* relocation entry in each of its two passes; what a call returns, writes *)
(* to memory and leaves in the HI16/LO16 tables is its Outcome.            *)
(*                                                                         *)
(* An instruction is named by its byte offset in memory[], where the code  *)
(* passes a pointer &memory[off].                                          *)
(***************************************************************************)
EXTENDS OverlayFormat, Sequences

CONSTANT MemSize    \* sizeof(memory), a multiple of 4

ASSUME EngineSizes == MemSize \in Nat

VARIABLES
    elf_starts,   \* [SectionIds -> address of the section in the ELF file]
    ovl_starts,   \* [SectionIds -> address of the section in the overlay]
    sizes,        \* [SectionIds -> size, rounded up to 8]
    memory,       \* [Offsets -> word of the image]
    hilopair      \* [Registers -> the HI16 seen last for the register]

engineVars == <<elf_starts, ovl_starts, sizes, memory, hilopair>>

Offsets == {o \in 0 .. (MemSize - 1) : o % 4 = 0}
NULL    == -1

(* The ELF relocation types with a handler (elf.h numbers them). *)
R_MIPS_32   == 2
R_MIPS_26   == 4
R_MIPS_HI16 == 5
R_MIPS_LO16 == 6

(* What a handler returns: FALSE, NOVL_RELOC_FAIL, _SUCCESS, _FAIL_DONTDELETEHI *)
Returns == {"error", "fail", "success", "fail_keep_hi"}

HiLoPairs == [Registers ->
                [status : {"invalid", "valid", "used"},
                 value  : Words,
                 ptr    : Offsets \cup {NULL}]]

NoHiLoPairs ==
    [r \in Registers |-> [status |-> "invalid", value |-> 0, ptr |-> NULL]]

Outcome(ret, mem, pairs) == [ret |-> ret, memory |-> mem, hilopair |-> pairs]

(* The registers with a HI16 that no LO16 has used yet. *)
ValidRegs(pairs) == {r \in Registers : pairs[r].status = "valid"}

(* The types; a pair that has been opened has an instruction to go back to. *)
EngineTypeOK ==
    /\ elf_starts \in [SectionIds -> Words]
    /\ ovl_starts \in [SectionIds -> Words]
    /\ sizes \in [SectionIds -> Words]
    /\ memory \in [Offsets -> Words]
    /\ hilopair \in HiLoPairs
    /\ \A r \in Registers : hilopair[r].status # "invalid" => hilopair[r].ptr # NULL

-----------------------------------------------------------------------------
(* The sections an address lies in; the code takes the first of them. *)
Holds_inclusive(i, address) ==    \* a slip: <= for < at the end of the section
    /\ elf_starts[i] <= address
    /\ address <= (elf_starts[i] + sizes[i]) % Word

Holds(i, address) ==
    /\ elf_starts[i] <= address
    /\ address < (elf_starts[i] + sizes[i]) % Word

get_target_section(address) ==
    IF \E i \in SectionIds : Holds(i, address)
    THEN CHOOSE i \in SectionIds :
            Holds(i, address) /\ \A j \in SectionIds : Holds(j, address) => i <= j
    ELSE NoSection

Moved(addr, s) == (addr + ovl_starts[s] - elf_starts[s]) % Word

(* A dry run of the first pass leaves the address alone: there is no layout yet. *)
adjust_address(addr, type, dryrun) ==
    LET s == get_target_section(addr)
    IN  IF s = NoSection THEN [ret |-> "fail", addr |-> addr]
        ELSE IF type = R_MIPS_26 /\ s # TEXT THEN [ret |-> "error", addr |-> addr]
        ELSE [ret |-> "success", addr |-> IF dryrun THEN addr ELSE Moved(addr, s)]

-----------------------------------------------------------------------------
(* The word at offset o becomes w, unless the call is a dry run. *)
Rewrite(o, w, dryrun) ==
    IF dryrun THEN memory ELSE [memory EXCEPT ![o] = w]

novl_reloc_mips_32(o, dryrun) ==
    LET adjusted == adjust_address(memory[o], R_MIPS_32, dryrun)
    IN  Outcome(adjusted.ret,
                IF adjusted.ret = "success"
                THEN Rewrite(o, adjusted.addr, dryrun) ELSE memory,
                hilopair)

novl_reloc_mips_26(o, dryrun) ==
    LET adjusted == adjust_address(JumpTarget(memory[o]), R_MIPS_26, dryrun)
    IN  Outcome(adjusted.ret,
                IF adjusted.ret = "success"
                THEN Rewrite(o, WithTarget(memory[o], adjusted.addr), dryrun)
                ELSE memory,
                hilopair)

(* A HI16 only opens a pair: nothing is written until its LO16 comes. *)
novl_reloc_mips_hi16(o, dryrun) ==
    Outcome("success", memory,
            [hilopair EXCEPT ![HiReg(memory[o])] =
                [status |-> "valid",
                 value  |-> Imm(memory[o]) * Half,
                 ptr    |-> o]])

(* Both words of a pair, the low one first: when o = ptr the second write
   starts from the word read before the first. *)
WritePair(o, ptr, addr) ==
    [memory EXCEPT ![o]   = WithImm(memory[o], LoPart(addr)),
                   ![ptr] = WithImm(memory[ptr], HiPart(addr))]

(***************************************************************************)
(* A LO16 closes the pair of its base register.  The pair stays usable     *)
(* ("used") for further LO16s, whatever the outcome; a LO16 out of bounds  *)
(* takes the HI16 with it only when it is the first to use it.             *)
(***************************************************************************)
novl_reloc_mips_lo16(o, dryrun) ==
    LET reg      == LoReg(memory[o])
        pair     == hilopair[reg]
        adjusted == adjust_address((pair.value + SignedImm(memory[o])) % Word,
                                   R_MIPS_LO16, dryrun)
    IN  IF pair.status = "invalid"
        THEN Outcome("error", memory, hilopair)
        ELSE Outcome(
               IF adjusted.ret = "fail" /\ pair.status = "used"
               THEN "fail_keep_hi" ELSE adjusted.ret,
               IF adjusted.ret = "success" /\ ~dryrun
               THEN WritePair(o, pair.ptr, adjusted.addr) ELSE memory,
               [hilopair EXCEPT ![reg].status = "used"])

novl_reloc_do(o, type, dryrun) ==
    LET handler == type % 128
    IN  CASE handler = R_MIPS_32   -> novl_reloc_mips_32(o, dryrun)
          [] handler = R_MIPS_26   -> novl_reloc_mips_26(o, dryrun)
          [] handler = R_MIPS_HI16 -> novl_reloc_mips_hi16(o, dryrun)
          [] handler = R_MIPS_LO16 -> novl_reloc_mips_lo16(o, dryrun)
          [] OTHER                 -> Outcome("error", memory, hilopair)

=============================================================================
