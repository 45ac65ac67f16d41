------------------------- MODULE DecoderProperties -------------------------
(***************************************************************************)
(* What the lines of a disassembly are for: telling which instruction a    *)
(* word is, with which operands, in the style that was asked for.          *)
(***************************************************************************)
EXTENDS Decoder, FiniteSets

Field == 0 .. 31
Word  == [op : 0 .. 63, rs : Field, rt : Field, rd : Field, sa : Field, func : 0 .. 63]

(* Type correctness: among others, addresses shown are addresses. *)
DecoderTypeOK ==
    /\ called \in 0 .. Len(script)
    /\ mr4kd_conf \subseteq Flags \cup SpaceBits
    /\ mot \in Word
    /\ pc.region \in 0 .. 15 /\ pc.offset \in 0 .. RegionSize - 1
    /\ op.name \in DOMAIN Forms \cup {"", RESERV}
    /\ \A i \in DOMAIN op.operands :
          op.operands[i].high \in 0 .. 63 /\ op.operands[i].low < RegionSize

Decoded == op # NoLine /\ op.name # RESERV

-----------------------------------------------------------------------------
(***************************************************************************)
(* An assembler for the lines.                                             *)
(***************************************************************************)

(* The fields in which the processor's manual puts the operation. *)
Selector(w) ==
    CASE w.op = 0               -> <<0, w.func>>
      [] w.op = 1               -> <<1, w.rt>>
      [] w.op = 16 /\ w.rs = 16 -> <<16, 16, w.func>>
      [] w.op = 17 /\ w.rs = 8  -> <<17, 8, w.rt % 4>>
      [] w.op = 17 /\ w.rs > 15 -> <<17, w.rs, w.func>>
      [] w.op \in {16, 17}      -> <<w.op, w.rs>>
      [] OTHER                  -> <<w.op>>

(* A word for each operation, without operands. *)
Bare(o, s, t, f) == [Zero EXCEPT !.op = o, !.rs = s, !.rt = t, !.func = f]
Skeletons ==
    {Bare(o, 0, 0, 0) : o \in 1 .. 63} \cup {Bare(0, 0, 0, f) : f \in 0 .. 63}
    \cup {Bare(1, 0, t, 0) : t \in Field} \cup {Bare(16, 16, 0, f) : f \in 0 .. 63}
    \cup {Bare(o, s, 0, f) : o \in {16, 17}, s \in Field, f \in {0}}
    \cup {Bare(17, 8, t, 0) : t \in 0 .. 3}
    \cup {Bare(17, s, 0, f) : s \in 16 .. 31, f \in 0 .. 63}

(* An operation is looked up by its name; SLL without operands is NOP. *)
SkeletonOf ==
    [name \in DOMAIN Forms \ {"SLL"} |-> CHOOSE w \in Skeletons : Handler(w) = name]
    @@ "SLL" :> Zero

Index(table, name) == (CHOOSE i \in DOMAIN table : table[i] = name) - 1

WithImmediate(w, i) ==
    [w EXCEPT !.rd = i \div 2^11, !.sa = (i \div 2^6) % 32, !.func = i % 64]

(* Distance, in words, from the delay slot at address a to address b, which
   may have gone round the end of the address space. *)
Distance(a, high, low) ==
    LET regions == ((high - a.region + 8) % 16) - 8
    IN  (regions * RegionSize + (low - a.offset) - 4) \div 4

(* The word w with one more operand filled in. *)
Filled(w, token, shown, at) ==
    CASE token = "rs" -> [w EXCEPT !.rs = Index(registers_a_gpr, shown.what)]
      [] token = "rt" -> [w EXCEPT !.rt = Index(registers_a_gpr, shown.what)]
      [] token = "rd" -> [w EXCEPT !.rd = Index(registers_a_gpr, shown.what)]
      [] token = "fs" -> [w EXCEPT !.rd = Index(registers_a_fpr, shown.what)]
      [] token = "ft" -> [w EXCEPT !.rt = Index(registers_a_fpr, shown.what)]
      [] token = "fd" -> [w EXCEPT !.sa = Index(registers_a_fpr, shown.what)]
      [] token = "cp" -> [w EXCEPT !.rd = Index(registers_a_cop, shown.what)]
      [] token = "sa" -> [w EXCEPT !.sa = shown.low]
      [] token = "ih" -> WithImmediate(w, shown.low)
      [] token = "br" -> WithImmediate(w, Distance(at, shown.high, shown.low) % 2^16)
      [] token = "jm" -> WithImmediate([w EXCEPT !.rs = shown.low \div 2^23,
                                                 !.rt = (shown.low \div 2^18) % 32],
                                       (shown.low \div 4) % 2^16)

Reassembled(line, at) ==
    LET form == Forms[line.name]
        Upto[i \in 0 .. Len(form)] ==
            IF i = 0 THEN SkeletonOf[line.name]
            ELSE Filled(Upto[i - 1], form[i], line.operands[i], at)
    IN  Upto[Len(form)]

ComesBack(again) ==
    /\ Selector(again) = Selector(mot)
    /\ again = Zero \/ Line(again, pc).operands = Line(mot, pc).operands
    /\ \A i \in DOMAIN op.operands :
          Forms[op.name][i] \in {"ih", "br", "jm"} => _IMMEDIATE(again) = _IMMEDIATE(mot)

(* Whether the tables leave out the operation of a word, whatever its operands. *)
LeftOut(word) == \A w \in Skeletons : Selector(w) = Selector(word) => Handler(w) = RESERV

(* r4300_decode_op() takes the operands from a fixed column of a line, 16, though
   the spacing of lines can be changed. *)
SplitKeepsOperands ==
    (called > 0 /\ script[called].call = "r4300_decode_op") =>
        arguments.cut = 0 /\ arguments.operands = op.operands

(* A line says all there is to say: assembled again it is the same operation,
   and the same line; no two operations share a name, no operand loses a bit,
   makes a word invalid or is cut off, and a branch finds its way back over the
   end of the address space (decoder.c:749-1146, opprintf.c).  (The one line that
   does not come back is "SLL R0, R0, 0" for a word whose rs is not 0: assembled
   it is the NOP that it is.) *)
Reassembles ==
    /\ op # NoLine => (op.name = RESERV <=> LeftOut(mot))
    /\ Decoded => ComesBack(Reassembled(op, pc))
    /\ SplitKeepsOperands

-----------------------------------------------------------------------------
(***************************************************************************)
(* The configuration word.                                                 *)
(***************************************************************************)
Before(call) == {i \in 1 .. called : script[i].call = call}

(* The last line is the call before the one that comes next. *)
JustWritten ==
    called > 0 /\ script[called].call \in {"mr4kd_disassemble", "r4300_decode_op"}

(* Whether a flag is on after these calls: what the last call about it asked. *)
Asked(flag) ==
    LET on    == {i \in Before("mr4kd_flag_set") : script[i].flag = flag}
        off   == {i \in Before("mr4kd_flag_clear") : script[i].flag = flag}
    IN  \/ \E i \in on : \A j \in off : j < i
        \/ off = {} /\ flag \in InitialConf

(* A line has the style last asked for, whatever was set, set twice or cleared
   twice before: flags and spacing share a word and do not disturb each other. *)
StyleAsAsked ==
    (JustWritten /\ Decoded) =>
        /\ op.lower <=> Asked(MR4KD_OLOWER)
        /\ \A i \in DOMAIN op.operands : \A flag \in op.operands[i].style : Asked(flag)
        /\ \A i \in DOMAIN op.operands :
              Forms[op.name][i] \in {"rs", "rt", "rd"} =>
                  \A flag \in {MR4KD_RPREFIX, MR4KD_RLOWER, MR4KD_COLOR} :
                      Asked(flag) => flag \in op.operands[i].style

=============================================================================
