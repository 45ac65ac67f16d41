---------------------------- MODULE DecoderProofs ----------------------------
(***************************************************************************)
(* Flags and lines: whatever sequence of calls, of any length and on any   *)
(* words, a line has the style that was last asked for.                    *)
(***************************************************************************)
EXTENDS DecoderProperties, TLAPS

Counted == script \in Scripts /\ called \in 0 .. Len(script)

(* A flag of the configuration word is what the calls so far have asked. *)
FlagsAsAsked == \A flag \in Flags : flag \in mr4kd_conf <=> Asked(flag)

Named == {MR4KD_RPREFIX, MR4KD_RLOWER, MR4KD_COLOR}

(* The style of an operand, given the flags that are on. *)
InStyle(token, style) ==
    /\ style \subseteq mr4kd_conf \cap Flags
    /\ token \in {"rs", "rt", "rd"} => mr4kd_conf \cap Named \subseteq style

Styled(line) ==
    /\ line.lower <=> MR4KD_OLOWER \in mr4kd_conf
    /\ \A i \in DOMAIN line.operands : InStyle(Forms[line.name][i], line.operands[i].style)

LastLineStyled == JustWritten /\ Decoded => Styled(op)

StyleInvariant == Counted /\ FlagsAsAsked /\ LastLineStyled

-----------------------------------------------------------------------------
(* An operand takes of the flags that are on those that apply to it. *)
LEMMA OperandStyled ==
    ASSUME NEW token, NEW w, NEW at
    PROVE  InStyle(token, Operand(token, w, at).style)
<1> DEFINE flags == {MR4KD_RPREFIX, MR4KD_RLOWER, MR4KD_HLOWER, MR4KD_COLOR}
<1>1. ASSUME NEW what, NEW high, NEW low, NEW style \in SUBSET flags
      PROVE  /\ Shown(what, high, low, style).style \subseteq mr4kd_conf \cap Flags
             /\ Named \subseteq style =>
                    mr4kd_conf \cap Named \subseteq Shown(what, high, low, style).style
    <2>1. style \subseteq flags
        BY <1>1
    <2>2. flags \subseteq Flags
        BY DEF flags, Flags, MR4KD_RPREFIX, MR4KD_RLOWER, MR4KD_HLOWER, MR4KD_COLOR
    <2>3. Shown(what, high, low, style).style = mr4kd_conf \cap style
        BY DEF Shown
    <2> QED BY <2>1, <2>2, <2>3
<1>2. ASSUME NEW reg PROVE InStyle(token, mr4kd_rcpy_gpr(reg).style)
    BY <1>1 DEF flags, mr4kd_rcpy_gpr, InStyle, Named
<1>3. ASSUME NEW reg, token \notin {"rs", "rt", "rd"}
      PROVE  InStyle(token, mr4kd_rcpy_fpr(reg).style)
    BY <1>1, <1>3 DEF flags, mr4kd_rcpy_fpr, InStyle
<1>4. ASSUME NEW high, NEW low, token \notin {"rs", "rt", "rd"}
      PROVE  InStyle(token, Hex(high, low).style)
    BY <1>1, <1>4 DEF flags, Hex, InStyle
<1>5. ASSUME NEW what, NEW low, token \notin {"rs", "rt", "rd"}
      PROVE  InStyle(token, Shown(what, 0, low, {}).style)
    BY <1>1, <1>5 DEF InStyle
<1>6. CASE token \in {"rs", "rt", "rd"}
    BY <1>2, <1>6 DEF Operand
<1>7. CASE token \in {"fs", "ft", "fd"}
    BY <1>3, <1>7 DEF Operand
<1>8. CASE token \in {"ih", "br", "jm"}
    BY <1>4, <1>8 DEF Operand, Carried
<1>9. CASE token \notin {"rs", "rt", "rd", "fs", "ft", "fd", "ih", "br", "jm"}
    BY <1>5, <1>9 DEF Operand
<1> QED BY <1>6, <1>7, <1>8, <1>9

(* And so does a line. *)
LEMMA LineStyled ==
    ASSUME NEW w, NEW at, Line(w, at).name # RESERV
    PROVE  Styled(Line(w, at))
<1>1. CASE Handler(w) = RESERV
    BY <1>1 DEF Line, Reserved
<1>2. CASE Handler(w) # RESERV
    <2> DEFINE line == mr4kd_sprintf(Handler(w), w, at)
    <2>1. Line(w, at) = line
        BY <1>2 DEF Line
    <2>2. line.name = Handler(w) /\ (line.lower <=> MR4KD_OLOWER \in mr4kd_conf)
        BY DEF mr4kd_sprintf
    <2>3. \A i \in DOMAIN line.operands :
              line.operands[i] = Operand(Forms[Handler(w)][i], w, at)
        BY DEF mr4kd_sprintf
    <2> QED BY <2>1, <2>2, <2>3, OperandStyled DEF Styled
<1> QED BY <1>1, <1>2

-----------------------------------------------------------------------------
(* What has been asked after one call more. *)
LEMMA AskedNext ==
    ASSUME Counted, called < Len(script), Return, NEW flag
    PROVE  Asked(flag)' <=>
               \/ Call.call = "mr4kd_flag_set" /\ Call.flag = flag
               \/ Asked(flag) /\ ~(Call.call = "mr4kd_flag_clear" /\ Call.flag = flag)
<1> DEFINE on  == {i \in Before("mr4kd_flag_set") : script[i].flag = flag}
           off == {i \in Before("mr4kd_flag_clear") : script[i].flag = flag}
           next == called + 1
<1>1. called \in Nat /\ called' = next /\ script' = script /\ 1 .. next = (1 .. called) \cup {next}
      /\ on \subseteq 1 .. called /\ off \subseteq 1 .. called
    BY ScriptsAssumption DEF Counted, Return, Before
<1>2. on' = on \cup IF Call.call = "mr4kd_flag_set" /\ Call.flag = flag THEN {next} ELSE {}
    BY <1>1 DEF Before, Call
<1>3. off' = off \cup IF Call.call = "mr4kd_flag_clear" /\ Call.flag = flag THEN {next} ELSE {}
    BY <1>1 DEF Before, Call
<1>4. Asked(flag) <=> (\E i \in on : \A j \in off : j < i) \/ (off = {} /\ flag \in InitialConf)
    BY DEF Asked
<1>5. Asked(flag)' <=> (\E i \in on' : \A j \in off' : j < i) \/ (off' = {} /\ flag \in InitialConf)
    BY DEF Asked
<1>6. CASE Call.call = "mr4kd_flag_set" /\ Call.flag = flag
    <2>1. on' = on \cup {next} /\ off' = off
        BY <1>2, <1>3, <1>6
    <2>2. \A j \in off' : j < next
        BY <1>1, <2>1
    <2> QED BY <1>5, <1>6, <2>1, <2>2
<1>7. CASE Call.call = "mr4kd_flag_clear" /\ Call.flag = flag
    <2>1. on' = on /\ off' = off \cup {next}
        BY <1>2, <1>3, <1>7
    <2>2. \A i \in on' : ~(next < i)
        BY <1>1, <2>1
    <2> QED BY <1>5, <1>7, <2>1, <2>2
<1>8. CASE /\ ~(Call.call = "mr4kd_flag_set" /\ Call.flag = flag)
           /\ ~(Call.call = "mr4kd_flag_clear" /\ Call.flag = flag)
    <2>1. on' = on /\ off' = off
        BY <1>2, <1>3, <1>8
    <2> QED BY <1>4, <1>5, <1>8, <2>1
<1> QED BY <1>6, <1>7, <1>8

(* At first nothing has been asked, and there is no line. *)
LEMMA StyleInit == Init => StyleInvariant
<1> SUFFICES ASSUME Init PROVE StyleInvariant
    OBVIOUS
<1>1. Counted
    BY ScriptsAssumption DEF Init, Counted
<1>2. 1 .. called = {}
    BY DEF Init
<1>3. FlagsAsAsked
    BY <1>2 DEF Init, FlagsAsAsked, Asked, Before
<1>4. ~JustWritten
    BY DEF Init, JustWritten
<1> QED BY <1>1, <1>3, <1>4 DEF StyleInvariant, LastLineStyled

(* A call that changes the configuration word writes no line. *)
LEMMA FlagCalls ==
    ASSUME StyleInvariant, mr4kd_flag_set \/ mr4kd_flag_clear \/ mr4kd_spacing
    PROVE  StyleInvariant'
<1>1. called < Len(script) /\ Return /\ called \in Nat /\ Len(script) \in Nat
    BY ScriptsAssumption
    DEF StyleInvariant, Counted, mr4kd_flag_set, mr4kd_flag_clear, mr4kd_spacing, Calls
<1>2. Counted'
    BY <1>1 DEF StyleInvariant, Counted, Return
<1>3. FlagsAsAsked'
    <2> SUFFICES ASSUME NEW flag \in Flags PROVE flag \in mr4kd_conf' <=> Asked(flag)'
        BY DEF FlagsAsAsked
    <2>1. flag \in mr4kd_conf <=> Asked(flag)
        BY DEF StyleInvariant, FlagsAsAsked
    <2>2. Asked(flag)' <=>
              \/ Call.call = "mr4kd_flag_set" /\ Call.flag = flag
              \/ Asked(flag) /\ ~(Call.call = "mr4kd_flag_clear" /\ Call.flag = flag)
        BY <1>1, AskedNext DEF StyleInvariant
    <2>3. CASE mr4kd_flag_set
        BY <2>1, <2>2, <2>3 DEF mr4kd_flag_set, Calls
    <2>4. CASE mr4kd_flag_clear
        BY <2>1, <2>2, <2>4 DEF mr4kd_flag_clear, Calls, Cleared
    <2>5. CASE mr4kd_spacing
        <3>1. flag \notin SpaceBits
            BY DEF Flags, SpaceBits
        <3>2. flag \in mr4kd_conf' <=> flag \in mr4kd_conf
            BY <2>5, <3>1 DEF mr4kd_spacing, SetSpace, MR4KD_SPACING
        <3> QED BY <2>1, <2>2, <2>5, <3>2 DEF mr4kd_spacing, Calls
    <2> QED BY <2>3, <2>4, <2>5
<1>4. ~JustWritten'
    BY <1>1
    DEF JustWritten, Return, Call, Calls, mr4kd_flag_set, mr4kd_flag_clear, mr4kd_spacing
<1> QED BY <1>2, <1>3, <1>4 DEF StyleInvariant, LastLineStyled

(* A line is written in the style of the moment, and changes no flag. *)
LEMMA LineCalls ==
    ASSUME StyleInvariant, mr4kd_disassemble \/ r4300_decode_op
    PROVE  StyleInvariant'
<1>1. called < Len(script) /\ Return /\ called \in Nat /\ Len(script) \in Nat
    BY ScriptsAssumption DEF StyleInvariant, Counted, mr4kd_disassemble, r4300_decode_op, Calls
<1>2. Call.call \in {"mr4kd_disassemble", "r4300_decode_op"} /\ mr4kd_conf' = mr4kd_conf
      /\ op' = Line(Call.word, Call.at)
    BY DEF mr4kd_disassemble, r4300_decode_op, Calls
<1>3. Counted'
    BY <1>1 DEF StyleInvariant, Counted, Return
<1>4. FlagsAsAsked'
    <2> SUFFICES ASSUME NEW flag \in Flags PROVE flag \in mr4kd_conf' <=> Asked(flag)'
        BY DEF FlagsAsAsked
    <2>1. Asked(flag)' <=> Asked(flag)
        BY <1>1, <1>2, AskedNext DEF StyleInvariant
    <2> QED BY <1>2, <2>1 DEF StyleInvariant, FlagsAsAsked
<1>5. LastLineStyled'
    <2> SUFFICES ASSUME op'.name # RESERV PROVE Styled(op)'
        BY DEF LastLineStyled, Decoded
    <2>1. Styled(Line(Call.word, Call.at))
        BY <1>2, LineStyled
    <2> QED BY <1>2, <2>1 DEF Styled, InStyle
<1> QED BY <1>3, <1>4, <1>5 DEF StyleInvariant

LEMMA StyleNext == StyleInvariant /\ [Next]_vars => StyleInvariant'
<1> SUFFICES ASSUME StyleInvariant, [Next]_vars PROVE StyleInvariant'
    OBVIOUS
<1>1. CASE mr4kd_flag_set \/ mr4kd_flag_clear \/ mr4kd_spacing
    BY <1>1, FlagCalls
<1>2. CASE mr4kd_disassemble \/ r4300_decode_op
    BY <1>2, LineCalls
<1>3. CASE UNCHANGED vars
    BY <1>3 DEF vars, StyleInvariant, Counted, FlagsAsAsked, LastLineStyled, Asked, Before,
                JustWritten, Decoded, Styled, InStyle
<1> QED BY <1>1, <1>2, <1>3 DEF Next, Ended

(* Flags are what was asked of them, and the line is in their style. *)
LEMMA StyleFollows == StyleInvariant => StyleAsAsked
<1> SUFFICES ASSUME StyleInvariant, JustWritten, Decoded PROVE StyleAsAsked
    BY DEF StyleAsAsked
<1>1. Styled(op) /\ FlagsAsAsked
    BY DEF StyleInvariant, LastLineStyled
<1>2. Named \subseteq Flags /\ MR4KD_OLOWER \in Flags
    BY DEF Named, Flags, MR4KD_RPREFIX, MR4KD_RLOWER, MR4KD_COLOR, MR4KD_OLOWER
<1>3. op.lower <=> Asked(MR4KD_OLOWER)
    BY <1>1, <1>2 DEF Styled, FlagsAsAsked
<1>4. ASSUME NEW i \in DOMAIN op.operands, NEW flag \in op.operands[i].style PROVE Asked(flag)
    BY <1>1 DEF Styled, InStyle, FlagsAsAsked
<1>5. ASSUME NEW i \in DOMAIN op.operands, Forms[op.name][i] \in {"rs", "rt", "rd"},
             NEW flag \in Named, Asked(flag)
      PROVE  flag \in op.operands[i].style
    BY <1>1, <1>2, <1>5 DEF Styled, InStyle, FlagsAsAsked
<1> QED BY <1>3, <1>4, <1>5 DEF StyleAsAsked, Named

(***************************************************************************)
(* A line is in the style that the calls before it have asked for last,    *)
(* flag by flag: whatever was set, set twice, cleared before it was set or *)
(* spaced out in between (opprintf.h:28-33, opprintf.c:345-367), for every *)
(* sequence of calls and every word.                                       *)
(***************************************************************************)
THEOREM LinesInStyle == Spec => []StyleAsAsked
<1>1. Init => StyleInvariant
    BY StyleInit
<1>2. StyleInvariant /\ [Next]_vars => StyleInvariant'
    BY StyleNext
<1>3. StyleInvariant => StyleAsAsked
    BY StyleFollows
<1> QED BY <1>1, <1>2, <1>3, PTL DEF Spec
=============================================================================
