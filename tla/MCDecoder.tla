----------------------------- MODULE MCDecoder -----------------------------
(***************************************************************************)
(* Every operation with operands at the ends of their ranges, and every    *)
(* short sequence of calls that change the style.                          *)
(***************************************************************************)
EXTENDS DecoderProperties

Places == {[region |-> 8, offset |-> 4096],
           [region |-> 15, offset |-> RegionSize - 4],
           [region |-> 0, offset |-> 0]}
Here   == [region |-> 8, offset |-> 4096]

Fields(o, s, t, d, a, f) == [op |-> o, rs |-> s, rt |-> t, rd |-> d, sa |-> a, func |-> f]

(* Those that depend on their address, and those that do not. *)
Branches ==
    {Fields(o, s, t, d, 0, f) : o \in 2 .. 7 \cup 20 .. 23, s \in {0, 29}, t \in {0, 5},
                                d \in {0, 15, 16, 31}, f \in {0, 63}}
    \cup {Fields(1, 31, t, d, 31, 63) : t \in Field, d \in {0, 31}}
    \cup {Fields(17, 8, t, d, 0, 1) : t \in Field, d \in {0, 15, 31}}
Others ==
    {Fields(o, s, t, d, 0, f) : o \in 8 .. 15 \cup 18 .. 19 \cup 24 .. 63, s \in {0, 29},
                                t \in {0, 5}, d \in {0, 31}, f \in {0, 63}}
    \cup {Fields(0, s, t, d, a, f) : s \in {0, 3}, t \in {0, 4}, d \in {0, 5}, a \in {0, 6},
                                     f \in 0 .. 63}
    \cup {Fields(16, s, 2, d, 0, 0) : s \in Field, d \in Field}
    \cup {Fields(16, 16, 0, 0, 0, f) : f \in 0 .. 63}
    \cup {Fields(17, s, t, 7, 30, f) : s \in Field, t \in {0, 5}, f \in 0 .. 63}

Disassemble(w, a) == [call |-> "mr4kd_disassemble", word |-> w, at |-> a]
Decode(w, a)      == [call |-> "r4300_decode_op", word |-> w, at |-> a]

Styling ==
    {[call |-> f, flag |-> b] : f \in {"mr4kd_flag_set", "mr4kd_flag_clear"},
                                b \in {MR4KD_RPREFIX, MR4KD_RLOWER, MR4KD_OLOWER,
                                       MR4KD_HLOWER, MR4KD_COLOR}}
    \cup {[call |-> "mr4kd_spacing", space |-> x] : x \in {8, 24}}

(* ADDU, SW, JR, SYSCALL, J, ADD.S and a word that is not one. *)
Samples ==
    {Fields(0, 4, 5, 2, 0, 33), Fields(43, 29, 31, 0, 0, 20), Fields(0, 31, 0, 0, 0, 8),
     Fields(0, 0, 0, 0, 0, 12), Fields(2, 1, 2, 3, 4, 5), Fields(17, 16, 1, 2, 3, 0),
     Fields(63, 31, 1, 2, 3, 4), Fields(62, 1, 2, 3, 4, 5)}

MCScripts ==
    {<<Disassemble(w, a)>> : w \in Branches, a \in Places}
    \cup {<<Disassemble(w, Here)>> : w \in Others}
    \cup {<<s, Decode(w, Here)>> : s \in Styling, w \in Samples}
    \cup {<<s, t, Decode(w, Here)>> : s \in Styling, t \in Styling, w \in Samples}
    \cup {<<s, Disassemble(v, Here), t, Disassemble(w, Here)>> :
              s \in Styling, t \in Styling, v \in {Fields(0, 4, 5, 2, 0, 33)}, w \in Samples}
    \cup {<<s, t, u, Decode(Fields(43, 29, 31, 0, 0, 20), Here)>> :
              s \in Styling, t \in Styling, u \in Styling}
=============================================================================
