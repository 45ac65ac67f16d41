------------------------------ MODULE Decoder ------------------------------
(***************************************************************************)
(* decoder.c and opprintf.c: how -d and -D put an instruction into text,   *)
(* and the configuration word that says in which style.                    *)
(*                                                                         *)
(* A word is the record of its six fields, from the top: op, rs, rt, rd,   *)
(* sa, func.  An address is a region, its top four bits, and an offset.    *)
(* A line is a name, the column its operands start in, and the operands;   *)
(* what separates the operands is left out.                                *)
(***************************************************************************)
EXTENDS Integers, Sequences, TLC

CONSTANT Scripts    \* sequences of calls of the functions below

ASSUME ScriptsAssumption == \A s \in Scripts : Len(s) \in Nat

VARIABLES
    script,         \* the calls of this run, in order
    called,         \* how many of them have returned
    mr4kd_conf,     \* the configuration word, as the set of its bits
    mot, pc,        \* the word in hand and its address
    op,             \* the line written for it
    arguments       \* what r4300_decode_op() takes for the operands

vars == <<script, called, mr4kd_conf, mot, pc, op, arguments>>

-----------------------------------------------------------------------------
(***************************************************************************)
(* The flags of opprintf.h, by bit, and the spacing above them.            *)
(***************************************************************************)
MR4KD_RPREFIX == 2
MR4KD_RLOWER  == 3
MR4KD_OLOWER  == 4
MR4KD_HLOWER  == 5
MR4KD_COLOR   == 6
Flags         == 0 .. 6
SpaceBits     == 24 .. 30

MR4KD_SPACING(x) == {b \in SpaceBits : (x \div 2^(b - 24)) % 2 = 1}

(* mr4kd_conf >> 24 *)
Spacing(conf) == CHOOSE x \in 0 .. 127 : MR4KD_SPACING(x) = conf \cap SpaceBits

InitialConf ==
    MR4KD_SPACING(16) \cup {MR4KD_RLOWER, MR4KD_OLOWER, MR4KD_HLOWER}

-----------------------------------------------------------------------------
(***************************************************************************)
(* The switches: tables from the value of a field to the handler, with     *)
(* RESERV for every value that has no case.                                *)
(***************************************************************************)
RESERV == "INVLD"

Cases(first, handlers) ==
    [code \in first .. first + Len(handlers) - 1 |-> handlers[code - first + 1]]

Case(table, code) == IF code \in DOMAIN table THEN table[code] ELSE RESERV

special ==
    Cases(0, <<
    "SLL",    RESERV,   "SRL",    "SRA",    "SLLV",   RESERV,   "SRLV",   "SRAV",
    "JR",     "JALR",   RESERV,   RESERV,   "SYSCALL","BREAK",  RESERV,   "SYNC",
    "MFHI",   "MTHI",   "MFLO",   "MTLO",   "DSLLV",  RESERV,   "DSRLV",  "DSRAV",
    "MULT",   "MULTU",  "DIV",    "DIVU",   "DMULT",  "DMULTU", "DDIV",   "DDIVU",
    "ADD",    "ADDU",   "SUB",    "SUBU",   "AND",    "OR",     "XOR",    "NOR",
    RESERV,   RESERV,   "SLT",    "SLTU",   "DADD",   "DADDU",  "DSUB",   "DSUBU",
    "TGE",    "TGEU",   "TLT",    "TLTU",   "TEQ",    RESERV,   "TNE",    RESERV,
    "DSLL",   RESERV,   "DSRL",   "DSRA",   "DSLL32", RESERV,   "DSRL32", "DSRA32">>)

regimm ==
    Cases(0,  <<"BLTZ", "BGEZ", "BLTZL", "BGEZL">>) @@
    Cases(8,  <<"TGEI", "TGEIU", "TLTI", "TLTIU", "TEQI", RESERV, "TNEI">>) @@
    Cases(16, <<"BLTZAL", "BGEZAL", "BLTZALL", "BGEZALL">>)

tlb ==
    1 :> "TLBR" @@ 2 :> "TLBWI" @@ 6 :> "TLBWR" @@ 8 :> "TLBP" @@ 24 :> "ERET"

cop0 == 0 :> "MFC0" @@ 4 :> "MTC0"

BC == Cases(0, <<"BC1F", "BC1T", "BC1FL", "BC1TL">>)

(* What S() and D() have in common, before the suffix. *)
Arithmetic  == <<"ADD", "SUB", "MUL", "DIV">>
Unary       == <<"SQRT", "ABS", "MOV", "NEG",
                 "ROUND.L", "TRUNC.L", "CEIL.L", "FLOOR.L",
                 "ROUND.W", "TRUNC.W", "CEIL.W", "FLOOR.W">>
Comparisons == <<"C.F", "C.UN", "C.EQ", "C.UEQ", "C.OLT", "C.ULT", "C.OLE", "C.ULE",
                 "C.SF", "C.NGLE", "C.SEQ", "C.NGL", "C.LT", "C.NGE", "C.LE", "C.NGT">>
FloatCases  == Cases(0, Arithmetic \o Unary) @@ Cases(48, Comparisons)

Suffixed(table, fmt) == [code \in DOMAIN table |-> table[code] \o fmt]

S == Suffixed(FloatCases @@ 33 :> "CVT.D" @@ 36 :> "CVT.W" @@ 37 :> "CVT.L", ".S")
D == Suffixed(FloatCases @@ 32 :> "CVT.S" @@ 36 :> "CVT.W" @@ 37 :> "CVT.L", ".D")
W == 32 :> "CVT.S.W" @@ 33 :> "CVT.D.W"
L == 32 :> "CVT.S.L" @@ 33 :> "CVT.D.L"

cop1 == Cases(0, <<"MFC1", "DMFC1", "CFC1", RESERV, "MTC1", "DMTC1", "CTC1">>)

main ==
    Cases(2,  <<"J", "JAL", "BEQ", "BNE", "BLEZ", "BGTZ",
                "ADDI", "ADDIU", "SLTI", "SLTIU", "ANDI", "ORI", "XORI", "LUI">>) @@
    Cases(20, <<"BEQL", "BNEL", "BLEZL", "BGTZL", "DADDI", "DADDIU", "LDL", "LDR">>) @@
    Cases(32, <<"LB", "LH", "LWL", "LW", "LBU", "LHU", "LWR", "LWU",
                "SB", "SH", "SWL", "SW", "SDL", "SDR", "SWR", "CACHE",
                "LL", "LWC1", RESERV, RESERV, "LLD", "LDC1", RESERV, "LD",
                "SC", "SWC1", RESERV, RESERV, "SCD", "SDC1", RESERV, "SD">>)

BC_unmasked(w) == Case(BC, w.rt)                  \* a slip: the condition code stays in

(* bits 16 and 17 only, so that there is no default *)
Branch(w) == BC[w.rt % 4]

Coprocessor0(w) == IF w.rs = 16 THEN Case(tlb, w.func) ELSE Case(cop0, w.rs)

Coprocessor1(w) ==
    CASE w.rs = 8  -> Branch(w)
      [] w.rs = 16 -> Case(S, w.func)
      [] w.rs = 17 -> Case(D, w.func)
      [] w.rs = 20 -> Case(W, w.func)
      [] w.rs = 21 -> Case(L, w.func)
      [] OTHER     -> Case(cop1, w.rs)

Zero == [op |-> 0, rs |-> 0, rt |-> 0, rd |-> 0, sa |-> 0, func |-> 0]

(* The name of the handler that mr4kd_disassemble() comes to. *)
Handler(w) ==
    CASE w = Zero  -> "NOP"
      [] w.op = 0 /\ w # Zero -> Case(special, w.func)
      [] w.op = 1  -> Case(regimm, w.rt)
      [] w.op = 16 -> Coprocessor0(w)
      [] w.op = 17 -> Coprocessor1(w)
      [] OTHER     -> Case(main, w.op)

-----------------------------------------------------------------------------
(***************************************************************************)
(* The operands each handler asks for, in the order of its format string.  *)
(***************************************************************************)
Form(names, format) == [name \in names |-> format]
With(names, fmt)    == {names[i] \o fmt : i \in DOMAIN names}

SpecialForms ==
    Form({"NOP", "SYSCALL", "BREAK", "SYNC"}, <<>>) @@
    Form({"SLL", "SRL", "SRA"}, <<"rd", "rt", "sa">>) @@
    Form({"SLLV", "SRLV", "SRAV", "DSLLV", "DSRLV", "DSRAV"}, <<"rd", "rt", "rs">>) @@
    Form({"JR", "MTHI", "MTLO"}, <<"rs">>) @@
    Form({"JALR"}, <<"rd", "rs">>) @@
    Form({"MFHI", "MFLO"}, <<"rd">>)

ArithmeticForms ==
    Form({"MULT", "MULTU", "DIV", "DIVU", "DMULT", "DMULTU", "DDIV", "DDIVU",
          "TGE", "TGEU", "TLT", "TLTU", "TEQ", "TNE"}, <<"rs", "rt">>) @@
    Form({"ADD", "ADDU", "SUB", "SUBU", "AND", "OR", "XOR", "NOR", "SLT", "SLTU",
          "DADD", "DADDU", "DSUB", "DSUBU"}, <<"rd", "rs", "rt">>) @@
    Form({"DSLL", "DSRL", "DSRA", "DSLL32", "DSRL32", "DSRA32"}, <<"rd", "rt", "sa">>)

RegimmForms ==
    Form({"BLTZ", "BGEZ", "BLTZL", "BGEZL", "BLTZAL", "BGEZAL", "BLTZALL", "BGEZALL"},
         <<"rs", "br">>) @@
    Form({"TGEI", "TGEIU", "TLTI", "TLTIU", "TEQI", "TNEI"}, <<"rs", "ih">>)

ImmediateForms ==
    Form({"J", "JAL"}, <<"jm">>) @@
    Form({"BEQ", "BNE"}, <<"rs", "rt", "br">>) @@
    Form({"BLEZ", "BGTZ"}, <<"rs", "br">>) @@
    Form({"ADDI", "ADDIU", "SLTI", "SLTIU", "ANDI", "ORI", "XORI"}, <<"rt", "rs", "ih">>) @@
    Form({"LUI"}, <<"rt", "ih">>)

Coprocessor0Forms ==
    Form({"MFC0", "MTC0"}, <<"rt", "cp">>) @@
    Form({"TLBR", "TLBWI", "TLBWR", "TLBP", "ERET"}, <<>>)

MoveForms ==
    Form({"MFC1", "DMFC1", "CFC1", "MTC1", "DMTC1", "CTC1"}, <<"rt", "fs">>) @@
    Form({"BC1F", "BC1T", "BC1FL", "BC1TL"}, <<"br">>)

FloatForms(fmt) ==
    Form(With(Arithmetic, fmt), <<"fd", "fs", "ft">>) @@
    Form(With(Unary, fmt), <<"fd", "fs">>) @@
    Form(With(Comparisons, fmt), <<"fs", "ft">>)

SForms   == FloatForms(".S") @@ Form({"CVT.D.S", "CVT.W.S", "CVT.L.S"}, <<"fd", "fs">>)
DForms   == FloatForms(".D") @@ Form({"CVT.S.D", "CVT.W.D", "CVT.L.D"}, <<"fd", "fs">>)
CvtForms == Form({"CVT.S.W", "CVT.D.W", "CVT.S.L", "CVT.D.L"}, <<"fd", "fs">>)

FloatTransfers == {"LWC1", "LDC1", "SWC1"}

MemoryForms ==
    Form({"BEQL", "BNEL"}, <<"rs", "rt", "br">>) @@
    Form({"BLEZL", "BGTZL"}, <<"rs", "br">>) @@
    Form({"DADDI", "DADDIU"}, <<"rt", "rs", "ih">>) @@
    Form({"LDL", "LDR", "LB", "LH", "LWL", "LW", "LBU", "LHU", "LWR", "LWU",
          "SB", "SH", "SWL", "SW", "SDL", "SDR", "SWR", "CACHE",
          "LL", "LWC1", "LLD", "LDC1", "LD", "SC", "SWC1", "SCD", "SDC1", "SD"}
         \ FloatTransfers, <<"rt", "ih", "rs">>) @@
    Form(FloatTransfers, <<"ft", "ih", "rs">>)

Forms ==
    SpecialForms @@ ArithmeticForms @@ RegimmForms @@ ImmediateForms @@
    Coprocessor0Forms @@ MoveForms @@ SForms @@ DForms @@ CvtForms @@ MemoryForms

-----------------------------------------------------------------------------
(***************************************************************************)
(* opprintf.c: the fields, the names of registers, and what each format    *)
(* specifier puts into the line.                                           *)
(***************************************************************************)
registers_a_gpr == <<
    "R0", "AT", "V0", "V1", "A0", "A1", "A2", "A3", "T0", "T1", "T2", "T3",
    "T4", "T5", "T6", "T7", "S0", "S1", "S2", "S3", "S4", "S5", "S6", "S7",
    "T8", "T9", "K0", "K1", "GP", "SP", "S8", "RA">>

registers_a_fpr == <<
    "F0", "F1", "F2", "F3", "F4", "F5", "F6", "F7", "F8", "F9", "F10", "F11",
    "F12", "F13", "F14", "F15", "F16", "F17", "F18", "F19", "F20", "F21", "F22",
    "F23", "F24", "F25", "F26", "F27", "F28", "F29", "F30", "F31">>

registers_a_cop == <<
    "Index", "Random", "EntryLo0", "EntryLo1", "Context", "PageMask", "Wired",
    "Resrvd07", "BadVAddr", "Count", "EntryHi", "Compare", "Status", "Cause", "EPC",
    "PRevID", "Config", "LLAddr", "WatchLo", "WatchHi", "XContext", "Resrvd21",
    "Resrvd22", "Resrvd23", "Resrvd24", "Resrvd25", "PErr", "CacheErr", "TagLo",
    "TagHi", "ErrorEPC", "Resrvd31">>

fp_compare_types == <<
    "F", "UN", "EQ", "UEQ", "OLT", "ULT", "OLE", "ULE",
    "SF", "NGLE", "SEQ", "NGL", "LT", "NGE", "LE", "NGT">>

fpu_fmt_names == <<"S", "D", "?", "?", "W", "L">>

_IMMEDIATE(w) == 2^11 * w.rd + 2^6 * w.sa + w.func
SImmediate(w) == IF _IMMEDIATE(w) >= 2^15 THEN _IMMEDIATE(w) - 2^16 ELSE _IMMEDIATE(w)
_TARGET(w)    == 4 * (2^21 * w.rs + 2^16 * w.rt + _IMMEDIATE(w))

RegionSize == 2^28

(* An operand: the word or the kind of number shown, its two parts, its style. *)
Shown(what, high, low, style) ==
    [what |-> what, high |-> high, low |-> low, style |-> mr4kd_conf \cap style]

mr4kd_rcpy_gpr(reg) ==
    Shown(registers_a_gpr[reg + 1], 0, 0, {MR4KD_RPREFIX, MR4KD_RLOWER, MR4KD_COLOR})

mr4kd_rcpy_fpr(reg) ==
    Shown(registers_a_fpr[reg + 1], 0, 0, {MR4KD_RPREFIX, MR4KD_RLOWER})

Hex(high, low) == Shown("hex", high, low, {MR4KD_HLOWER})

BranchAddress_own(w, at) == at.offset + 4 * SImmediate(w)   \* a slip: from the branch itself
BranchAddress(w, at)     == at.offset + 4 + 4 * SImmediate(w)

(* An address in the region, or in the one it runs over into. *)
Carried_not(region, offset) == Hex(region, offset)    \* a slip: stays in the region
Carried(region, offset) ==
    Hex((region + offset \div RegionSize) % 16, offset % RegionSize)

Operand(token, w, at) ==
    CASE token = "rs" -> mr4kd_rcpy_gpr(w.rs)
      [] token = "rt" -> mr4kd_rcpy_gpr(w.rt)
      [] token = "rd" -> mr4kd_rcpy_gpr(w.rd)
      [] token = "fs" -> mr4kd_rcpy_fpr(w.rd)
      [] token = "ft" -> mr4kd_rcpy_fpr(w.rt)
      [] token = "fd" -> mr4kd_rcpy_fpr(w.sa)
      [] token = "cp" -> Shown(registers_a_cop[w.rd + 1], 0, 0, {})
      [] token = "ih" -> Hex(0, _IMMEDIATE(w))
      [] token = "id" -> Shown("dec", 0, SImmediate(w), {})
      [] token = "br" -> Carried(at.region, BranchAddress(w, at))
      [] token = "jm" -> Hex(at.region, _TARGET(w))
      [] token = "co" -> Shown("dec", 0, w.op % 4, {})
      [] token = "sa" -> Shown("dec", 0, w.sa, {})
      [] token = "fc" -> Shown(fp_compare_types[(w.func % 16) + 1], 0, 0, {})
      [] token = "ff" -> Shown(fpu_fmt_names[w.rs - 15], 0, 0, {})
      [] OTHER        -> Shown("none", 0, 0, {})

-----------------------------------------------------------------------------
(***************************************************************************)
(* The calls.                                                              *)
(***************************************************************************)
NoLine == [name |-> "", lower |-> FALSE, column |-> 0, operands |-> <<>>]
NoArguments == [blanks |-> 0, cut |-> 0, operands |-> <<>>]

Longest(a, b) == IF a > b THEN a ELSE b

(* %n0 alone when there are no operands, else %ns padded to the spacing. *)
mr4kd_sprintf(name, w, at) ==
    [name     |-> name,
     lower    |-> MR4KD_OLOWER \in mr4kd_conf,
     column   |-> IF Forms[name] = <<>> THEN Len(name)
                  ELSE Longest(Len(name), Spacing(mr4kd_conf)),
     operands |-> [i \in DOMAIN Forms[name] |-> Operand(Forms[name][i], w, at)]]

(* The opcode and the word in full, always in upper case and at column 16. *)
Reserved(w) ==
    [name |-> RESERV, lower |-> FALSE, column |-> 16,
     operands |-> <<[what |-> "hex", high |-> w.op,
                     low |-> 2^21 * w.rs + 2^16 * w.rt + _IMMEDIATE(w), style |-> {}]>>]

Line(w, at) ==
    IF Handler(w) = RESERV THEN Reserved(w) ELSE mr4kd_sprintf(Handler(w), w, at)

(* What sscanf("%s %s") finds in a line. *)
WordsOf(line) ==
    IF line.operands = <<>> \/ (line.column = Len(line.name) /\ Len(line.operands) = 1)
    THEN 1 ELSE 2

(* buffer + 16, unless there is but one word. *)
Split(line) ==
    IF WordsOf(line) = 1 THEN NoArguments
    ELSE [blanks   |-> Longest(line.column - 16, 0),
          cut      |-> Longest(16 - line.column, 0),
          operands |-> line.operands]

Call    == script[called + 1]
Calls(f) == called < Len(script) /\ Call.call = f
Return  == called' = called + 1 /\ UNCHANGED script
NoText  == UNCHANGED <<mot, pc, op, arguments>>

Init ==
    /\ script \in Scripts /\ called = 0
    /\ mr4kd_conf = InitialConf
    /\ mot = Zero /\ pc = [region |-> 0, offset |-> 0]
    /\ op = NoLine /\ arguments = NoArguments

mr4kd_flag_set ==
    /\ Calls("mr4kd_flag_set")
    /\ mr4kd_conf' = mr4kd_conf \cup {Call.flag}
    /\ Return /\ NoText

Cleared_toggled(flag) ==        \* a slip: ^= for &= ~
    IF flag \in mr4kd_conf THEN mr4kd_conf \ {flag} ELSE mr4kd_conf \cup {flag}
Cleared(flag) == mr4kd_conf \ {flag}

mr4kd_flag_clear ==
    /\ Calls("mr4kd_flag_clear")
    /\ mr4kd_conf' = Cleared(Call.flag)
    /\ Return /\ NoText

SetSpace_replaced(x) == (mr4kd_conf \ SpaceBits) \cup MR4KD_SPACING(x)  \* a slip: for a fixed 16
SetSpace(x) == mr4kd_conf \cup MR4KD_SPACING(x)

mr4kd_spacing ==
    /\ Calls("mr4kd_spacing")
    /\ mr4kd_conf' = SetSpace(Call.space)
    /\ Return /\ NoText

mr4kd_disassemble ==
    /\ Calls("mr4kd_disassemble")
    /\ mot' = Call.word /\ pc' = Call.at
    /\ op' = Line(Call.word, Call.at)
    /\ Return /\ UNCHANGED <<mr4kd_conf, arguments>>

r4300_decode_op ==
    /\ Calls("r4300_decode_op")
    /\ mot' = Call.word /\ pc' = Call.at
    /\ op' = Line(Call.word, Call.at)
    /\ arguments' = Split(op')
    /\ Return /\ UNCHANGED mr4kd_conf

Ended == called = Len(script) /\ UNCHANGED vars

Next ==
    \/ mr4kd_flag_set \/ mr4kd_flag_clear \/ mr4kd_spacing
    \/ mr4kd_disassemble \/ r4300_decode_op \/ Ended

Spec == Init /\ [][Next]_vars

=============================================================================
