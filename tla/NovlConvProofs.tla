----------------------------- MODULE NovlConvProofs -----------------------------
(***************************************************************************)
(* What is proved of a conversion for every input file, base address, word *)
(* size and image size.  First its inductive invariant: the variables keep *)
(* their types, no null pointer is followed in the second pass, the table  *)
(* has no zero word, and only the image is written to the overlay.  Then   *)
(* the overlay file: a conversion that fails leaves no piece of it behind, *)
(* and one that succeeds has laid its sections out one after the other and *)
(* written a file that reads back.  None of these needs an assumption on   *)
(* the base address or the sizes: where the 32-bit arithmetic of the       *)
(* layout wraps, the checks against ftell() stop the conversion; where it  *)
(* does not, they never fail.  Last the two passes: they agree on every    *)
(* entry, and the second builds the table that the ELF file calls for.     *)
(***************************************************************************)
EXTENDS NovlConvProperties, FiniteSetTheorems, WellFoundedInduction, TLAPS

(***************************************************************************)
(* What the fields of a word are, for every width: each stays in its       *)
(* range, replacing one gives a word again, and the two halves an address  *)
(* is cut into give the address back.                                      *)
(***************************************************************************)

(* Quotient and remainder, as everything below uses them. *)
LEMMA DivMod ==
    ASSUME NEW a \in Nat, NEW d \in Nat \ {0}
    PROVE  /\ a \div d \in Nat
           /\ a % d \in 0 .. (d - 1)
           /\ a = d * (a \div d) + (a % d)
  OBVIOUS

LEMMA MulMono ==
    ASSUME NEW a \in Nat, NEW b \in Nat, NEW d \in Nat, a <= b
    PROVE  d * a <= d * b
  OBVIOUS

(* A sum that does not reach the modulus has not wrapped. *)
LEMMA SmallMod ==
    ASSUME NEW a \in Nat, NEW d \in Nat \ {0}, a < d
    PROVE  a % d = a
<1> DEFINE q == a \div d
<1>1. q \in Nat /\ a % d \in 0 .. (d - 1) /\ a = d * q + (a % d)
  BY DivMod
<1> HIDE DEF q
<1>2. CASE q = 0
  BY <1>1, <1>2
<1>3. CASE q >= 1
  <2>1. d * 1 <= d * q
    BY <1>1, <1>3, MulMono
  <2> QED BY <1>1, <2>1
<1> QED BY <1>1, <1>2, <1>3

(* A number below d * n has a quotient below n: there is room for a whole
   divisor above d * (a \div d). *)
LEMMA QuotientBound ==
    ASSUME NEW n \in Nat, NEW d \in Nat \ {0}, NEW a \in 0 .. (d * n - 1)
    PROVE  /\ a \div d \in 0 .. (n - 1)
           /\ d * (a \div d) + d <= d * n
<1>1. d * n \in Nat /\ a \in Nat
  OBVIOUS
<1> DEFINE q == a \div d
<1>2. q \in Nat /\ a = d * q + (a % d) /\ a % d \in 0 .. (d - 1)
  BY <1>1, DivMod
<1> HIDE DEF q
<1>3. ~ (n <= q)
  <2> SUFFICES ASSUME n <= q PROVE FALSE
    OBVIOUS
  <2>1. d * n <= d * q
    BY <1>2, MulMono
  <2> QED BY <2>1, <1>2, <1>1
<1>4. q + 1 <= n
  BY <1>2, <1>3
<1>5. d * (q + 1) <= d * n
  BY <1>2, <1>4, MulMono
<1>6. d * (q + 1) = d * q + d
  BY <1>2
<1> QED BY <1>2, <1>4, <1>5, <1>6 DEF q

-----------------------------------------------------------------------------
LEMMA Spans ==
    /\ Word \in Nat \ {0}
    /\ JumpSpan \in Nat \ {0}
    /\ Half * RegCount \in Nat \ {0}
    /\ Half <= Word
    /\ 0 \in Words
<1>1. Half \in Nat \ {0} /\ RegCount \in Nat \ {0}
  BY WordLayout
<1>2. Half * Half \in Nat \ {0} /\ Half <= Half * Half
  BY <1>1
<1>3. Half * RegCount \in Nat \ {0}
  BY <1>1
<1>4. Half * RegCount * RegCount \in Nat \ {0}
  BY <1>1, <1>3
<1> QED BY <1>2, <1>3, <1>4 DEF Word, JumpSpan, Words

(* The fields of a word are registers and immediates. *)
LEMMA FieldTypes ==
    ASSUME NEW w \in Words
    PROVE  /\ Imm(w) \in 0 .. (Half - 1)
           /\ SignedImm(w) \in Int
           /\ HiReg(w) \in Registers
           /\ LoReg(w) \in Registers
           /\ w \div Half \in 0 .. (Half - 1)
           /\ w = Half * (w \div Half) + Imm(w)
<1>1. w \in Nat /\ Half \in Nat \ {0} /\ RegCount \in Nat \ {0}
  BY WordLayout, Spans DEF Words
<1>2. Half * RegCount \in Nat \ {0}
  BY Spans
<1>3. Imm(w) \in 0 .. (Half - 1) /\ w \div Half \in Nat
      /\ w = Half * (w \div Half) + Imm(w)
  BY <1>1, DivMod DEF Imm
<1>4. HiReg(w) \in Registers
  BY <1>1, <1>3, DivMod DEF HiReg, Registers
<1>5. LoReg(w) \in Registers
  BY <1>1, <1>2, DivMod DEF LoReg, Registers
<1>6. SignedImm(w) \in Int
  BY <1>1, <1>3 DEF SignedImm
<1>7. w \div Half \in 0 .. (Half - 1)
  BY <1>1, QuotientBound DEF Words, Word
<1> QED BY <1>3, <1>4, <1>5, <1>6, <1>7

(* Replacing the immediate of a word, even by the carry that does not fit,
   gives a word. *)
LEMMA WithImmType ==
    ASSUME NEW w \in Words, NEW v \in 0 .. Half
    PROVE  WithImm(w, v) \in Words
<1> DEFINE q == w \div Half
<1>1. Half \in Nat \ {0} /\ Half % 2 = 0 /\ Word = Half * Half
  BY WordLayout DEF Word
<1>2. q \in 0 .. (Half - 1) /\ w - Imm(w) = Half * q
  BY FieldTypes, <1>1
<1>3. Half * q + Half <= Half * Half
  BY <1>1, QuotientBound DEF Words, Word
<1>4. Half * q \in Nat /\ Half * Half \in Nat
  BY <1>1, <1>2
<1> HIDE DEF q
<1>5. CASE v # Half
  BY <1>1, <1>2, <1>3, <1>4, <1>5 DEF WithImm, Words
<1>6. CASE v = Half /\ q % 2 = 1
  BY <1>1, <1>2, <1>3, <1>4, <1>6 DEF WithImm, Words, q
<1>7. CASE v = Half /\ q % 2 # 1
  <2>1. q + 1 \in 0 .. (Half - 1)
    BY <1>1, <1>2, <1>7
  <2>2. Half * (q + 1) + Half <= Half * Half
    <3>1. Half * ((q + 1) + 1) <= Half * Half
      BY <1>1, <2>1, MulMono
    <3> QED BY <1>1, <1>2, <2>1, <3>1
  <2>3. Half * (q + 1) = Half * q + Half
    BY <1>1, <1>2
  <2> QED BY <1>1, <1>2, <1>4, <1>7, <2>2, <2>3 DEF WithImm, Words, q
<1> QED BY <1>5, <1>6, <1>7

(* Replacing the target of a jump gives a word. *)
LEMMA WithTargetType ==
    ASSUME NEW w \in Words, NEW addr \in Nat
    PROVE  WithTarget(w, addr) \in Words
<1>1. Half \in Nat \ {0} /\ RegCount \in Nat \ {0} /\ JumpSpan \in Nat \ {0}
  BY WordLayout, Spans
<1> DEFINE r == RegCount * RegCount
           n == Half \div r
<1>2. r \in Nat \ {0}
  BY <1>1
<1>3. Half % r = 0
  BY WordLayout
<1> HIDE DEF r
<1>4. n \in Nat /\ Half = r * n
  BY <1>1, <1>2, <1>3, DivMod
<1> HIDE DEF n
<1>5. JumpSpan = Half * r
  BY <1>1 DEF JumpSpan, r
<1>6. Word = JumpSpan * n
  BY <1>1, <1>2, <1>4, <1>5 DEF Word
<1>7. JumpSpan * (w \div JumpSpan) + JumpSpan <= Word
  BY <1>1, <1>4, <1>6, QuotientBound DEF Words
<1>8. w \div JumpSpan \in Nat /\ w - (w % JumpSpan) = JumpSpan * (w \div JumpSpan)
  <2>1. w \in Nat
    BY Spans DEF Words
  <2>2. w \div JumpSpan \in Nat /\ w % JumpSpan \in 0 .. (JumpSpan - 1)
        /\ w = JumpSpan * (w \div JumpSpan) + (w % JumpSpan)
    BY <1>1, <2>1, DivMod
  <2>3. JumpSpan * (w \div JumpSpan) \in Nat
    BY <1>1, <2>2
  <2> QED BY <2>1, <2>2, <2>3
<1>9. (addr \div 4) % JumpSpan \in 0 .. (JumpSpan - 1)
  BY <1>1, DivMod
<1>10. JumpSpan * (w \div JumpSpan) \in Nat
  BY <1>1, <1>8
<1> QED BY <1>1, <1>7, <1>8, <1>9, <1>10, Spans DEF WithTarget, Words

(* The halves an address is cut into. *)
LEMMA HalfTypes ==
    ASSUME NEW addr \in Words
    PROVE  HiPart(addr) \in 0 .. Half /\ LoPart(addr) \in 0 .. (Half - 1)
<1>1. addr \div Half \in 0 .. (Half - 1) /\ addr % Half \in 0 .. (Half - 1)
  BY FieldTypes DEF Imm
<1>2. Half \in Nat
  BY WordLayout
<1> QED BY <1>1, <1>2 DEF HiPart, LoPart

(***************************************************************************)
(* Cutting an address into halves loses nothing: the processor, adding the *)
(* sign-extended low half of the LO16 instruction to the high half its     *)
(* HI16 instruction has loaded, gets the address back, for every address   *)
(* and whatever else the two instructions contain (novl-reloc.c:213-222,   *)
(* and :154, :195 which put them together again).  The high half must fit: *)
(* it does not for the last Half \div 2 addresses.                         *)
(***************************************************************************)
THEOREM HalvesRejoin ==
    ASSUME NEW addr \in Words, NEW h \in Words, NEW l \in Words,
           HiPart(addr) # Half
    PROVE  (Imm(WithImm(h, HiPart(addr))) * Half
              + SignedImm(WithImm(l, LoPart(addr)))) = addr
<1>1. Half \in Nat \ {0}
  BY WordLayout
<1>2. HiPart(addr) \in 0 .. (Half - 1) /\ LoPart(addr) \in 0 .. (Half - 1)
  BY <1>1, HalfTypes
<1>3. ASSUME NEW w \in Words, NEW v \in 0 .. (Half - 1)
      PROVE  Imm(WithImm(w, v)) = v
  <2> DEFINE q == w \div Half
  <2>1. q \in Nat /\ w - Imm(w) = Half * q /\ v # Half
    BY <1>1, FieldTypes
  <2> HIDE DEF q
  <2>2. WithImm(w, v) = Half * q + v
    BY <1>1, <2>1 DEF WithImm
  <2>3. (Half * q + v) % Half = v
    BY <1>1, <2>1
  <2> QED BY <2>2, <2>3 DEF Imm
<1>4. Imm(WithImm(h, HiPart(addr))) = HiPart(addr)
  BY <1>2, <1>3
<1>5. Imm(WithImm(l, LoPart(addr))) = LoPart(addr)
  BY <1>2, <1>3
<1> DEFINE q == addr \div Half
           r == addr % Half
<1>6. q \in Nat /\ r \in 0 .. (Half - 1) /\ addr = Half * q + r
  <2>1. addr \in Nat
    BY Spans DEF Words
  <2> QED BY <1>1, <2>1, DivMod
<1>7. HiPart(addr) = q + (IF r >= Half \div 2 THEN 1 ELSE 0) /\ LoPart(addr) = r
  BY DEF HiPart, LoPart
<1>8. SignedImm(WithImm(l, LoPart(addr)))
        = IF r >= Half \div 2 THEN r - Half ELSE r
  BY <1>5, <1>7 DEF SignedImm
<1> HIDE DEF q, r
<1>9. (q + 1) * Half = Half * q + Half /\ q * Half = Half * q
  BY <1>1, <1>6
<1> QED BY <1>1, <1>4, <1>6, <1>7, <1>8, <1>9

-----------------------------------------------------------------------------

(***************************************************************************)
(* What one call of novl_reloc_do returns and leaves behind, for every     *)
(* image and every state of the HI16/LO16 tables.                          *)
(***************************************************************************)
(* The section found is the first one that holds the address. *)
LEMMA TargetSection ==
    ASSUME NEW a
    PROVE  LET s == get_target_section(a)
           IN  \/ s = NoSection /\ \A j \in SectionIds : ~Holds(j, a)
               \/ /\ s \in SectionIds /\ Holds(s, a)
                  /\ \A j \in SectionIds : Holds(j, a) => s <= j
<1>1. CASE \E k \in SectionIds : Holds(k, a)
  <2> DEFINE H(k) == Holds(k, a)
  <2>1. \E k \in SectionIds : H(k)
    BY <1>1
  <2> HIDE DEF H
  <2>2. \E k \in SectionIds : H(k) /\ \A j \in SectionIds : H(j) => k <= j
    <3>1. CASE H(0)
      BY <3>1 DEF SectionIds
    <3>2. CASE ~H(0) /\ H(1)
      BY <3>2 DEF SectionIds
    <3>3. CASE ~H(0) /\ ~H(1) /\ H(2)
      BY <3>3 DEF SectionIds
    <3>4. CASE ~H(0) /\ ~H(1) /\ ~H(2)
      BY <2>1, <3>4 DEF SectionIds
    <3> QED BY <3>1, <3>2, <3>3, <3>4
  <2> QED BY <1>1, <2>2 DEF get_target_section, H
<1>2. CASE ~ \E k \in SectionIds : Holds(k, a)
  BY <1>2 DEF get_target_section
<1> QED BY <1>1, <1>2

(* An adjusted address is an address, and whether one can be adjusted does not
   depend on whether this is a dry run. *)
LEMMA AdjustAddress ==
    ASSUME EngineTypeOK, NEW a \in Nat, NEW type, NEW dryrun \in BOOLEAN
    PROVE  LET v == adjust_address(a, type, dryrun)
           IN  /\ v.ret \in {"error", "fail", "success"}
               /\ v.ret = adjust_address(a, type, ~dryrun).ret
               /\ v.ret = "error" => type = R_MIPS_26
               /\ v.ret = "success" /\ ~dryrun => v.addr \in Words
<1> DEFINE s == get_target_section(a)
<1>1. s = NoSection \/ s \in SectionIds
  BY TargetSection
<1> HIDE DEF s
<1>2. s \in SectionIds => Moved(a, s) \in Words
  <2> SUFFICES ASSUME s \in SectionIds PROVE Moved(a, s) \in Words
    OBVIOUS
  <2>1. ovl_starts[s] \in Words /\ elf_starts[s] \in Words
    BY DEF EngineTypeOK
  <2>2. a + ovl_starts[s] - elf_starts[s] \in Int
    BY <2>1, Spans DEF Words
  <2> QED BY <2>2, Spans DEF Moved, Words
<1> QED BY <1>1, <1>2 DEF adjust_address, s

(***************************************************************************)
(* The types of an outcome.                                                *)
(***************************************************************************)
OutcomeOK(v) ==
    /\ v.ret \in Returns
    /\ v.memory \in [Offsets -> Words]
    /\ v.hilopair \in HiLoPairs
    /\ \A r \in Registers : v.hilopair[r].status # "invalid" => v.hilopair[r].ptr # NULL

LEMMA UnchangedOutcome ==
    ASSUME EngineTypeOK, NEW ret \in Returns, NEW m \in [Offsets -> Words]
    PROVE  OutcomeOK(Outcome(ret, m, hilopair))
  BY DEF OutcomeOK, Outcome, EngineTypeOK

LEMMA Mips32Type ==
    ASSUME EngineTypeOK, NEW o \in Offsets, NEW dryrun \in BOOLEAN
    PROVE  OutcomeOK(novl_reloc_mips_32(o, dryrun))
<1> DEFINE v == adjust_address(memory[o], R_MIPS_32, dryrun)
<1>1. memory[o] \in Nat
  BY Spans DEF EngineTypeOK, Words
<1>2. v.ret \in Returns /\ (v.ret = "success" /\ ~dryrun => v.addr \in Words)
  BY <1>1, AdjustAddress DEF Returns
<1> HIDE DEF v
<1> DEFINE m == IF v.ret = "success" THEN Rewrite(o, v.addr, dryrun) ELSE memory
<1>3. m \in [Offsets -> Words]
  BY <1>2 DEF Rewrite, EngineTypeOK
<1>4. novl_reloc_mips_32(o, dryrun) = Outcome(v.ret, m, hilopair)
  BY DEF novl_reloc_mips_32, v
<1> HIDE DEF m
<1> QED BY <1>2, <1>3, <1>4, UnchangedOutcome

LEMMA Mips26Type ==
    ASSUME EngineTypeOK, NEW o \in Offsets, NEW dryrun \in BOOLEAN
    PROVE  OutcomeOK(novl_reloc_mips_26(o, dryrun))
<1> DEFINE v == adjust_address(JumpTarget(memory[o]), R_MIPS_26, dryrun)
<1>1. memory[o] \in Words /\ memory[o] \in Nat
  BY Spans DEF EngineTypeOK, Words
<1>2. JumpTarget(memory[o]) \in Nat
  <2>1. memory[o] % JumpSpan \in 0 .. (JumpSpan - 1)
    BY <1>1, Spans, DivMod
  <2> QED BY <2>1, Spans, WordLayout DEF JumpTarget
<1>3. v.ret \in Returns /\ (v.ret = "success" /\ ~dryrun => v.addr \in Words)
  BY <1>2, AdjustAddress DEF Returns
<1> HIDE DEF v
<1>4. v.ret = "success" /\ ~dryrun => WithTarget(memory[o], v.addr) \in Words
  <2>1. v.ret = "success" /\ ~dryrun => v.addr \in Nat
    BY <1>3, Spans DEF Words
  <2> QED BY <1>1, <2>1, WithTargetType
<1> DEFINE m == IF v.ret = "success"
                THEN Rewrite(o, WithTarget(memory[o], v.addr), dryrun) ELSE memory
<1>5. m \in [Offsets -> Words]
  BY <1>4 DEF Rewrite, EngineTypeOK
<1>6. novl_reloc_mips_26(o, dryrun) = Outcome(v.ret, m, hilopair)
  BY DEF novl_reloc_mips_26, v
<1> HIDE DEF m
<1> QED BY <1>3, <1>5, <1>6, UnchangedOutcome

LEMMA Hi16Type ==
    ASSUME EngineTypeOK, NEW o \in Offsets, NEW dryrun \in BOOLEAN
    PROVE  OutcomeOK(novl_reloc_mips_hi16(o, dryrun))
<1> DEFINE w == memory[o]
           entry == [status |-> "valid", value |-> Imm(w) * Half, ptr |-> o]
           pairs == [hilopair EXCEPT ![HiReg(w)] = entry]
<1>1. w \in Words
  BY DEF EngineTypeOK
<1>2. HiReg(w) \in Registers /\ Imm(w) \in 0 .. (Half - 1)
  BY <1>1, FieldTypes
<1>3. Imm(w) * Half \in Words
  <2> DEFINE k == Imm(w)
  <2>1. Half \in Nat \ {0} /\ k \in 0 .. (Half - 1)
    BY <1>2, WordLayout
  <2> HIDE DEF k
  <2>2. Half * (k + 1) <= Half * Half
    BY <2>1, MulMono
  <2>3. k * Half \in Nat /\ Half * (k + 1) = k * Half + Half
    BY <2>1
  <2>4. k * Half \in Words
    BY <2>1, <2>2, <2>3, Spans DEF Words, Word
  <2> QED BY <2>4 DEF k
<1>4. o \in Int /\ o # NULL
  BY EngineSizes DEF Offsets, NULL
<1> HIDE DEF w
<1>5. entry \in [status : {"invalid", "valid", "used"}, value : Words,
                 ptr : Offsets \cup {NULL}]
  BY <1>3
<1> HIDE DEF entry
<1>6. pairs \in HiLoPairs
  BY <1>2, <1>5 DEF HiLoPairs, EngineTypeOK
<1>7. \A r \in Registers : pairs[r].status # "invalid" => pairs[r].ptr # NULL
  BY <1>2, <1>4 DEF HiLoPairs, EngineTypeOK, entry
<1>8. novl_reloc_mips_hi16(o, dryrun) = Outcome("success", memory, pairs)
  BY DEF novl_reloc_mips_hi16, pairs, entry, w
<1> HIDE DEF pairs
<1> QED BY <1>6, <1>7, <1>8 DEF OutcomeOK, Outcome, Returns, EngineTypeOK

LEMMA Lo16Type ==
    ASSUME EngineTypeOK, NEW o \in Offsets, NEW dryrun \in BOOLEAN
    PROVE  OutcomeOK(novl_reloc_mips_lo16(o, dryrun))
<1> DEFINE w    == memory[o]
           reg  == LoReg(w)
           pair == hilopair[reg]
           a    == (pair.value + SignedImm(w)) % Word
           v    == adjust_address(a, R_MIPS_LO16, dryrun)
           used == [hilopair EXCEPT ![reg].status = "used"]
           ret  == IF v.ret = "fail" /\ pair.status = "used"
                   THEN "fail_keep_hi" ELSE v.ret
           m    == IF v.ret = "success" /\ ~dryrun
                   THEN WritePair(o, pair.ptr, v.addr) ELSE memory
<1>1. w \in Words
  BY DEF EngineTypeOK
<1>2. reg \in Registers /\ SignedImm(w) \in Int
  BY <1>1, FieldTypes
<1>3. /\ pair.value \in Words /\ pair.ptr \in Offsets \cup {NULL}
      /\ pair.status \in {"invalid", "valid", "used"}
      /\ pair.status # "invalid" => pair.ptr # NULL
  BY <1>2 DEF EngineTypeOK, HiLoPairs
<1>4. a \in Nat
  <2>1. pair.value + SignedImm(w) \in Int
    BY <1>2, <1>3, Spans DEF Words
  <2> QED BY <2>1, Spans
<1>5. v.ret \in {"error", "fail", "success"}
      /\ (v.ret = "success" /\ ~dryrun => v.addr \in Words)
  BY <1>4, AdjustAddress
<1>6. novl_reloc_mips_lo16(o, dryrun)
        = IF pair.status = "invalid" THEN Outcome("error", memory, hilopair)
          ELSE Outcome(ret, m, used)
  BY DEF novl_reloc_mips_lo16
<1> HIDE DEF v, a
<1>7. ret \in Returns
  BY <1>5 DEF Returns
<1>8. pair.status # "invalid" => m \in [Offsets -> Words]
  <2> SUFFICES ASSUME pair.status # "invalid", v.ret = "success", ~dryrun
               PROVE  WritePair(o, pair.ptr, v.addr) \in [Offsets -> Words]
    BY DEF EngineTypeOK
  <2>1. pair.ptr \in Offsets /\ v.addr \in Words
    BY <1>3, <1>5
  <2>2. HiPart(v.addr) \in 0 .. Half /\ LoPart(v.addr) \in 0 .. Half
    BY <2>1, HalfTypes, WordLayout
  <2> DEFINE lo == WithImm(memory[o], LoPart(v.addr))
             hi == WithImm(memory[pair.ptr], HiPart(v.addr))
  <2>3. lo \in Words /\ hi \in Words
    BY <2>1, <2>2, WithImmType DEF EngineTypeOK
  <2>4. WritePair(o, pair.ptr, v.addr) = [memory EXCEPT ![o] = lo, ![pair.ptr] = hi]
    BY DEF WritePair
  <2> HIDE DEF lo, hi
  <2> QED BY <2>1, <2>3, <2>4 DEF EngineTypeOK
<1>9. /\ used \in HiLoPairs
      /\ pair.status # "invalid" =>
            \A r \in Registers : used[r].status # "invalid" => used[r].ptr # NULL
  <2>1. used = [hilopair EXCEPT ![reg] = [pair EXCEPT !.status = "used"]]
    BY <1>2 DEF EngineTypeOK, HiLoPairs
  <2>2. /\ [pair EXCEPT !.status = "used"] \in
              [status : {"invalid", "valid", "used"}, value : Words,
               ptr : Offsets \cup {NULL}]
        /\ [pair EXCEPT !.status = "used"].ptr = pair.ptr
    BY <1>2 DEF EngineTypeOK, HiLoPairs
  <2> DEFINE new == [pair EXCEPT !.status = "used"]
  <2> HIDE DEF new
  <2>3. \A r \in Registers : used[r] = IF r = reg THEN new ELSE hilopair[r]
    BY <1>2, <2>1 DEF EngineTypeOK, HiLoPairs, new
  <2>4. used \in HiLoPairs
    BY <2>1, <2>2 DEF EngineTypeOK, HiLoPairs, new
  <2>5. pair.status # "invalid" =>
            \A r \in Registers : used[r].status # "invalid" => used[r].ptr # NULL
    BY <1>3, <2>2, <2>3 DEF EngineTypeOK, new
  <2> QED BY <2>4, <2>5
<1> HIDE DEF ret, m, used, pair
<1> QED BY <1>6, <1>7, <1>8, <1>9 DEF OutcomeOK, Outcome, Returns, EngineTypeOK

(* Every call: a value the caller knows, an image of words, sound tables. *)
THEOREM RelocDoType ==
    ASSUME EngineTypeOK, NEW o \in Offsets, NEW type \in Nat, NEW dryrun \in BOOLEAN
    PROVE  OutcomeOK(novl_reloc_do(o, type, dryrun))
<1> DEFINE h == type % 128
<1>1. OutcomeOK(Outcome("error", memory, hilopair))
  BY UnchangedOutcome DEF Returns, EngineTypeOK
<1> HIDE DEF h
<1>2. novl_reloc_do(o, type, dryrun) =
        CASE h = R_MIPS_32   -> novl_reloc_mips_32(o, dryrun)
          [] h = R_MIPS_26   -> novl_reloc_mips_26(o, dryrun)
          [] h = R_MIPS_HI16 -> novl_reloc_mips_hi16(o, dryrun)
          [] h = R_MIPS_LO16 -> novl_reloc_mips_lo16(o, dryrun)
          [] OTHER           -> Outcome("error", memory, hilopair)
  BY DEF novl_reloc_do, h
<1>3. CASE h = R_MIPS_32
  BY <1>2, <1>3, Mips32Type DEF R_MIPS_32, R_MIPS_26, R_MIPS_HI16, R_MIPS_LO16
<1>4. CASE h = R_MIPS_26
  BY <1>2, <1>4, Mips26Type DEF R_MIPS_32, R_MIPS_26, R_MIPS_HI16, R_MIPS_LO16
<1>5. CASE h = R_MIPS_HI16
  BY <1>2, <1>5, Hi16Type DEF R_MIPS_32, R_MIPS_26, R_MIPS_HI16, R_MIPS_LO16
<1>6. CASE h = R_MIPS_LO16
  BY <1>2, <1>6, Lo16Type DEF R_MIPS_32, R_MIPS_26, R_MIPS_HI16, R_MIPS_LO16
<1>7. CASE h \notin {R_MIPS_32, R_MIPS_26, R_MIPS_HI16, R_MIPS_LO16}
  BY <1>1, <1>2, <1>7
<1> QED BY <1>3, <1>4, <1>5, <1>6, <1>7

(***************************************************************************)
(* What a call does to the HI16s still open: a success opens at most one,  *)
(* a failure none, and a LO16 that fails without keeping its HI16 closes   *)
(* exactly one that was open.                                              *)
(***************************************************************************)
OpensAtMostOne(v) ==
    \E r \in Registers : ValidRegs(v.hilopair) \subseteq ValidRegs(hilopair) \cup {r}

ClosesOne(v) ==
    \E r \in ValidRegs(hilopair) :
        ValidRegs(v.hilopair) = ValidRegs(hilopair) \ {r}

LEMMA Lo16Closes ==
    ASSUME EngineTypeOK, NEW o \in Offsets, NEW dryrun \in BOOLEAN
    PROVE  LET v == novl_reloc_mips_lo16(o, dryrun)
           IN  /\ ValidRegs(v.hilopair) \subseteq ValidRegs(hilopair)
               /\ v.ret = "fail" => ClosesOne(v)
<1> DEFINE reg == LoReg(memory[o])
           pair == hilopair[reg]
           used == [hilopair EXCEPT ![reg].status = "used"]
           v == novl_reloc_mips_lo16(o, dryrun)
           a == (pair.value + SignedImm(memory[o])) % Word
           adj == adjust_address(a, R_MIPS_LO16, dryrun).ret
           ret == IF adj = "fail" /\ pair.status = "used" THEN "fail_keep_hi" ELSE adj
<1>1. reg \in Registers
  BY FieldTypes DEF EngineTypeOK
<1>2. pair.status \in {"invalid", "valid", "used"}
  BY <1>1 DEF EngineTypeOK, HiLoPairs
<1>3. ValidRegs(used) = ValidRegs(hilopair) \ {reg}
  <2>1. \A r \in Registers : used[r].status = IF r = reg THEN "used" ELSE hilopair[r].status
    BY <1>1 DEF EngineTypeOK, HiLoPairs
  <2> HIDE DEF used, reg
  <2> QED BY <2>1 DEF ValidRegs
<1>4. \/ v.ret = "error" /\ v.hilopair = hilopair
      \/ pair.status # "invalid" /\ v.ret = ret /\ v.hilopair = used
  BY DEF novl_reloc_mips_lo16, Outcome
<1> HIDE DEF v, used, adj
<1>5. v.ret = "fail" => pair.status = "valid" /\ v.hilopair = used
  BY <1>2, <1>4
<1>6. pair.status = "valid" => reg \in ValidRegs(hilopair)
  BY <1>1 DEF ValidRegs
<1> QED BY <1>3, <1>4, <1>5, <1>6 DEF ClosesOne, v

LEMMA Hi16Opens ==
    ASSUME EngineTypeOK, NEW o \in Offsets, NEW dryrun \in BOOLEAN
    PROVE  LET v == novl_reloc_mips_hi16(o, dryrun)
           IN  v.ret = "success" /\ OpensAtMostOne(v)
<1> DEFINE reg == HiReg(memory[o])
           entry == [status |-> "valid", value |-> Imm(memory[o]) * Half, ptr |-> o]
           pairs == [hilopair EXCEPT ![reg] = entry]
<1>1. reg \in Registers
  BY FieldTypes DEF EngineTypeOK
<1>2. novl_reloc_mips_hi16(o, dryrun) = Outcome("success", memory, pairs)
  BY DEF novl_reloc_mips_hi16
<1> HIDE DEF entry, reg
<1>3. \A r \in Registers : r # reg => pairs[r] = hilopair[r]
  BY <1>1 DEF EngineTypeOK, HiLoPairs
<1> HIDE DEF pairs
<1>4. ValidRegs(pairs) \subseteq ValidRegs(hilopair) \cup {reg}
  BY <1>3 DEF ValidRegs
<1> QED BY <1>1, <1>2, <1>4 DEF OpensAtMostOne, Outcome

THEOREM RelocDoPairs ==
    ASSUME EngineTypeOK, NEW o \in Offsets, NEW type \in Nat, NEW dryrun \in BOOLEAN
    PROVE  LET v == novl_reloc_do(o, type, dryrun)
           IN  /\ OpensAtMostOne(v)
               /\ v.ret # "success" => ValidRegs(v.hilopair) \subseteq ValidRegs(hilopair)
               /\ type = R_MIPS_LO16 /\ v.ret = "fail" => ClosesOne(v)
<1> DEFINE h == type % 128
           v == novl_reloc_do(o, type, dryrun)
<1>1. \E r : r \in Registers
  BY WordLayout DEF Registers
<1>2. type = R_MIPS_LO16 => h = R_MIPS_LO16
  BY DEF R_MIPS_LO16
<1> HIDE DEF h
<1>3. v = CASE h = R_MIPS_32   -> novl_reloc_mips_32(o, dryrun)
            [] h = R_MIPS_26   -> novl_reloc_mips_26(o, dryrun)
            [] h = R_MIPS_HI16 -> novl_reloc_mips_hi16(o, dryrun)
            [] h = R_MIPS_LO16 -> novl_reloc_mips_lo16(o, dryrun)
            [] OTHER           -> Outcome("error", memory, hilopair)
  BY DEF novl_reloc_do, h
<1> HIDE DEF v
<1>4. CASE h = R_MIPS_HI16
  <2>1. v = novl_reloc_mips_hi16(o, dryrun)
    BY <1>3, <1>4 DEF R_MIPS_32, R_MIPS_26, R_MIPS_HI16, R_MIPS_LO16
  <2>2. h # R_MIPS_LO16
    BY <1>4 DEF R_MIPS_HI16, R_MIPS_LO16
  <2> QED BY <1>2, <2>1, <2>2, Hi16Opens DEF v
<1>5. CASE h = R_MIPS_LO16
  <2>1. v = novl_reloc_mips_lo16(o, dryrun)
    BY <1>3, <1>5 DEF R_MIPS_32, R_MIPS_26, R_MIPS_HI16, R_MIPS_LO16
  <2>2. /\ ValidRegs(v.hilopair) \subseteq ValidRegs(hilopair)
        /\ v.ret = "fail" => ClosesOne(v)
    BY <2>1, Lo16Closes
  <2> QED BY <1>1, <2>2 DEF OpensAtMostOne, v
<1>6. CASE h \notin {R_MIPS_HI16, R_MIPS_LO16}
  <2>1. v.hilopair = hilopair
    BY <1>3, <1>6 DEF novl_reloc_mips_32, novl_reloc_mips_26, Outcome
  <2> QED BY <1>1, <1>2, <1>6, <2>1 DEF OpensAtMostOne, v
<1> QED BY <1>4, <1>5, <1>6

(***************************************************************************)
(* The invariant, one lemma for each action of the conversion.             *)
(***************************************************************************)

(* A variable group left alone keeps its part of the invariant. *)
LEMMA EngineFrame ==
    ASSUME EngineTypeOK, UNCHANGED engineVars
    PROVE  EngineTypeOK'
  BY DEF EngineTypeOK, engineVars

LEMMA InputFrame ==
    ASSUME WellFormed(elf), base_addr \in Words, UNCHANGED inputVars
    PROVE  WellFormed(elf)' /\ (base_addr \in Words)'
  BY DEF inputVars, WellFormed, WellFormedSection

LEMMA PassFrame ==
    ASSUME PassTypeOK, UNCHANGED <<loopVars, countVars, tableVars>>, elf' = elf
    PROVE  PassTypeOK'
  BY DEF PassTypeOK, loopVars, countVars, tableVars

LEMMA OutputFrame ==
    ASSUME OutputTypeOK, UNCHANGED <<outVars, ovl_file_header_addr>>
    PROVE  OutputTypeOK'
  BY DEF OutputTypeOK, outVars

LEMMA ImageFrame ==
    ASSUME SectionsInImage, pc # "exit", UNCHANGED <<elf, elf_starts, sizes>>
    PROVE  SectionsInImage'
<1>1. LoadedSections' = LoadedSections /\ \A s : Unchecked(s)' = Unchecked(s)
  BY DEF LoadedSections, SectionIndex, Unchecked
<1>2. \A s : LiesInMemory(s)' = LiesInMemory(s)
  BY DEF LiesInMemory, PlaceOf
<1> QED BY <1>1, <1>2 DEF SectionsInImage

LEMMA Exits ==
    ASSUME NEW why \in Statuses, Exit(why)
    PROVE  /\ pc' = "exit" /\ pc' \in PCs /\ status' \in Statuses
           /\ Control' /\ OpenPairsInTable' /\ SectionsInImage' /\ NoNullDereference'
  BY DEF Exit, PCs, Control, BeforeTable, InList, OpenPairsInTable, SectionsInImage,
         NoNullDereference

-----------------------------------------------------------------------------
LEMMA InitInv == Init => IInv
<1> SUFFICES ASSUME Init PROVE IInv
  OBVIOUS
<1>1. WellFormed(elf) /\ base_addr \in Words
  BY Inputs DEF Init
<1>2. EngineTypeOK
  BY Spans DEF Init, EngineTypeOK, HiLoPairs, NoHiLoPairs
<1>3. PassTypeOK
  <2>1. elf.sections \in Seq(Sections)
    BY <1>1 DEF WellFormed
  <2>2. 0 \in 0 .. Len(elf.sections)
    BY <2>1
  <2>3. <<>> \in Seq(Entries) /\ <<>> \in Seq(Nat \ {0}) /\ Len(<<>>) = 0
    OBVIOUS
  <2>4. /\ scn \in 0 .. Len(elf.sections) /\ i \in Nat /\ last \in Nat
        /\ ninty_count_pred \in Int
    BY <2>2 DEF Init
  <2>5. rel_list \in Seq(Entries) /\ nreloc = Len(rel_list)
    BY <2>3 DEF Init
  <2>6. ninty_relocs \in Seq(Nat \ {0}) /\ ninty_count_real = Len(ninty_relocs)
    BY <2>3 DEF Init
  <2>7. error \in BOOLEAN
    BY Zenon DEF Init
  <2> QED BY <2>4, <2>5, <2>6, <2>7 DEF PassTypeOK
<1>4. OutputTypeOK
  BY Spans DEF Init, OutputTypeOK, EmptyFile
<1>5. Control /\ NoNullDereference /\ OpenPairsInTable
  BY DEF Init, Control, NoNullDereference, OpenPairsInTable, BeforeTable, InList
<1>6. SectionsInImage
  BY DEF Init, SectionsInImage, LiesInMemory, SectionIds, TEXT, DATA, RODATA
<1>7. pc \in PCs /\ status \in Statuses
  BY DEF Init, PCs, Statuses
<1> QED BY <1>1, <1>2, <1>3, <1>4, <1>5, <1>6, <1>7 DEF IInv, TypeOK

-----------------------------------------------------------------------------
(* Opening, creating, loading. *)
LEMMA OpenInv == ASSUME IInv, Open PROVE IInv'
<1> USE DEF IInv, TypeOK
<1>1. /\ EngineTypeOK' /\ PassTypeOK' /\ OutputTypeOK'
      /\ WellFormed(elf)' /\ (base_addr \in Words)'
  BY EngineFrame, PassFrame, OutputFrame, InputFrame DEF Open, inputVars
<1>2. CASE elf.kind = "mips"
  <2>1. pc = "open" /\ pc' = "create" /\ status' = status
    BY <1>2 DEF Open, Goto
  <2>2. SectionsInImage'
    BY <2>1, ImageFrame DEF Open, engineVars, inputVars
  <2>3. Control' /\ OpenPairsInTable' /\ NoNullDereference'
    BY <2>1 DEF Open, Control, OpenPairsInTable, NoNullDereference, BeforeTable,
                InList, tableVars
  <2>4. pc' \in PCs /\ status' \in Statuses
    BY <2>1 DEF PCs
  <2> QED BY <1>1, <2>2, <2>3, <2>4
<1>3. CASE elf.kind # "mips"
  <2>1. Exit("err_input") /\ "err_input" \in Statuses
    BY <1>3 DEF Open, Statuses
  <2> QED BY <1>1, <2>1, Exits
<1> QED BY <1>2, <1>3

LEMMA CreateFailsInv == ASSUME IInv, CreateFails PROVE IInv'
<1> USE DEF IInv, TypeOK
<1>1. /\ EngineTypeOK' /\ PassTypeOK' /\ OutputTypeOK'
      /\ WellFormed(elf)' /\ (base_addr \in Words)'
  BY EngineFrame, PassFrame, OutputFrame, InputFrame DEF CreateFails, inputVars
<1>2. Exit("err_output") /\ "err_output" \in Statuses
  BY DEF CreateFails, Statuses
<1> QED BY <1>1, <1>2, Exits

LEMMA CreateInv == ASSUME IInv, Create PROVE IInv'
<1> USE DEF IInv, TypeOK
<1>1. WellFormed(elf)' /\ (base_addr \in Words)'
  BY InputFrame DEF Create
<1>2. EngineTypeOK'
  BY Spans DEF Create, EngineTypeOK
<1>3. PassTypeOK'
  BY DEF Create, PassTypeOK, inputVars, countVars, tableVars, WellFormed
<1>4. OutputTypeOK'
  BY DEF Create, OutputTypeOK, EmptyFile
<1>5. pc = "create" /\ pc' = "load" /\ status' = status
  BY DEF Create, Goto
<1>6. Control' /\ OpenPairsInTable' /\ NoNullDereference'
  BY <1>5 DEF Create, Control, OpenPairsInTable, NoNullDereference, BeforeTable,
              InList, tableVars
<1>7. SectionsInImage'
  <2>1. sizes' = [s \in SectionIds |-> 0]
    BY DEF Create
  <2> QED BY <2>1 DEF SectionsInImage, LiesInMemory, SectionIds, TEXT, DATA, RODATA
<1> QED BY <1>1, <1>2, <1>3, <1>4, <1>5, <1>6, <1>7 DEF PCs

LEMMA LoadSkipInv == ASSUME IInv, LoadSkip PROVE IInv'
<1> USE DEF IInv, TypeOK
<1>1. WellFormed(elf)' /\ (base_addr \in Words)' /\ elf' = elf
  BY InputFrame DEF LoadSkip, LoadFrame, inputVars
<1>2. EngineTypeOK' /\ OutputTypeOK'
  BY EngineFrame, OutputFrame DEF LoadSkip, LoadFrame, engineVars
<1>3. PassTypeOK'
  BY <1>1 DEF LoadSkip, LoadFrame, PassTypeOK, countVars, tableVars, WellFormed
<1>4. Control' /\ OpenPairsInTable' /\ NoNullDereference'
  BY DEF LoadSkip, LoadFrame, Control, OpenPairsInTable, NoNullDereference,
         BeforeTable, InList, tableVars
<1>5. SectionsInImage'
  BY <1>1, ImageFrame DEF LoadSkip
<1> QED BY <1>1, <1>2, <1>3, <1>4, <1>5 DEF LoadSkip

LEMMA LoadDuplicateInv == ASSUME IInv, LoadDuplicate PROVE IInv'
<1> USE DEF IInv, TypeOK
<1>1. WellFormed(elf)' /\ (base_addr \in Words)'
  BY InputFrame DEF LoadDuplicate, LoadFrame
<1>2. EngineTypeOK' /\ OutputTypeOK' /\ PassTypeOK'
  BY EngineFrame, OutputFrame, PassFrame
     DEF LoadDuplicate, LoadFrame, engineVars, loopVars, inputVars
<1>3. Exit("err_multiple") /\ "err_multiple" \in Statuses
  BY DEF LoadDuplicate, Statuses
<1> QED BY <1>1, <1>2, <1>3, Exits

LEMMA LoadEndInv == ASSUME IInv, LoadEnd PROVE IInv'
<1> USE DEF IInv, TypeOK
<1>1. WellFormed(elf)' /\ (base_addr \in Words)' /\ elf' = elf
  BY InputFrame DEF LoadEnd, LoadFrame, inputVars
<1>2. EngineTypeOK' /\ OutputTypeOK'
  BY EngineFrame, OutputFrame DEF LoadEnd, LoadFrame, engineVars
<1>3. PassTypeOK'
  BY <1>1 DEF LoadEnd, LoadFrame, PassTypeOK, countVars, tableVars, WellFormed
<1>4. pc = "load" /\ pc' = "count_scan" /\ status' = status
  BY DEF LoadEnd, Goto
<1>5. Control' /\ OpenPairsInTable' /\ NoNullDereference'
  BY <1>4 DEF LoadEnd, LoadFrame, Control, OpenPairsInTable, NoNullDereference,
         BeforeTable, InList, tableVars
<1>6. SectionsInImage'
  BY <1>1, <1>4, ImageFrame DEF LoadEnd
<1> QED BY <1>1, <1>2, <1>3, <1>4, <1>5, <1>6 DEF PCs

(* Loading a section: its contents fit in the image, as do its words when its
   size has been rounded up. *)
LEMMA SectionType ==
    ASSUME WellFormed(elf), PassTypeOK, scn < Len(elf.sections)
    PROVE  /\ Section \in Sections /\ WellFormedSection(Section, elf.ep)
           /\ scn + 1 \in 0 .. Len(elf.sections)
           /\ valid_sec(Section.name) \in SectionIds \cup {NoSection}
<1>1. elf.sections \in Seq(Sections) /\ scn \in 0 .. Len(elf.sections)
  BY DEF WellFormed, PassTypeOK
<1>2. scn + 1 \in 1 .. Len(elf.sections)
  BY <1>1
<1>3. Section \in Sections /\ WellFormedSection(Section, elf.ep)
  BY <1>1, <1>2 DEF Section, WellFormed
<1>4. Section.name \in SectionNames
  BY <1>3 DEF Sections
<1> QED BY <1>2, <1>3, <1>4 DEF valid_sec, SectionNames

LEMMA RoundUp8Bounds ==
    ASSUME NEW n \in Nat
    PROVE  RoundUp8(n) \in Nat /\ RoundUp8(n) % Word \in Words
             /\ RoundUp8(n) % Word <= RoundUp8(n)
<1>1. RoundUp8(n) \in Nat
  BY DEF RoundUp8
<1>2. Word \in Nat \ {0}
  BY Spans
<1> DEFINE r == RoundUp8(n)
<1>3. /\ r \div Word \in Nat /\ r % Word \in 0 .. (Word - 1)
      /\ r = Word * (r \div Word) + (r % Word)
  BY <1>1, <1>2, DivMod
<1>4. Word * (r \div Word) \in Nat
  BY <1>2, <1>3
<1> QED BY <1>1, <1>2, <1>3, <1>4 DEF Words

LEMMA LoadedType ==
    ASSUME NEW s \in Sections, WellFormedSection(s, elf.ep), elf.ep \in Words,
           EngineTypeOK, s.type = "PROGBITS", ~OutOfBounds(s, elf.ep)
    PROVE  Loaded(s) \in [Offsets -> Words]
<1> DEFINE first == s.addr - elf.ep
<1>1. first \in Nat /\ s.size = 4 * Len(s.data) /\ s.data \in Seq(Words)
  <2>1. s.addr \in Nat /\ elf.ep \in Nat /\ s.size \in Nat /\ s.data \in Seq(Words)
    BY Spans DEF Sections, Words
  <2>2. elf.ep <= s.addr
    BY <2>1 DEF OutOfBounds
  <2>3. s.size = 4 * Len(s.data)
    BY DEF WellFormedSection
  <2> QED BY <2>1, <2>2, <2>3
<1>2. Len(s.data) \in Nat /\ \A k \in 1 .. Len(s.data) : s.data[k] \in Words
  BY <1>1
<1>3. memory \in [Offsets -> Words]
  BY DEF EngineTypeOK
<1> HIDE DEF first
<1>4. ASSUME NEW o \in Offsets, o \in first .. (first + s.size - 1)
      PROVE  s.data[(o - first) \div 4 + 1] \in Words
  <2>1. o - first \in 0 .. (4 * Len(s.data) - 1)
    BY <1>1, <1>2, <1>4
  <2>2. (o - first) \div 4 + 1 \in 1 .. Len(s.data)
    BY <1>2, <2>1
  <2> QED BY <1>2, <2>2
<1> QED BY <1>3, <1>4 DEF Loaded, first

LEMMA LoadedInImage ==
    ASSUME NEW s \in Sections, WellFormedSection(s, elf.ep), elf.ep \in Words,
           elf.ep <= s.addr, s.addr + RoundUp8(s.size) - elf.ep <= MemSize,
           s.type = "PROGBITS",
           NEW k \in 1 .. ((RoundUp8(s.size) % Word) \div 4)
    PROVE  s.addr - elf.ep + 4 * (k - 1) \in Offsets
<1> DEFINE r == RoundUp8(s.size)
           z == r % Word
<1>1. s.addr \in Nat /\ elf.ep \in Nat /\ s.size \in Nat
  BY Spans DEF Sections, Words
<1>2. elf.ep <= s.addr /\ s.addr + r - elf.ep <= MemSize /\ (s.addr - elf.ep) % 4 = 0
  BY DEF WellFormedSection
<1>3. r \in Nat /\ z \in Nat /\ z <= r
  BY <1>1, RoundUp8Bounds, Spans DEF Words
<1>4. MemSize \in Nat
  BY EngineSizes
<1> HIDE DEF r, z
<1>5. k \in Nat /\ 1 <= k /\ k <= z \div 4
  BY <1>3 DEF z, r
<1>6. 4 * k <= z
  BY <1>3, <1>5
<1> DEFINE first == s.addr - elf.ep
<1>7. first \in Nat /\ first % 4 = 0 /\ first + r <= MemSize
  BY <1>1, <1>2, <1>3
<1> HIDE DEF first
<1>8. first + 4 * (k - 1) \in 0 .. (MemSize - 1) /\ (first + 4 * (k - 1)) % 4 = 0
  BY <1>3, <1>4, <1>5, <1>6, <1>7
<1> QED BY <1>8 DEF Offsets, first

(* A section with contents that the bounds check does not leave out lies in the
   image, rounding included, once it has passed the check. *)
LEMMA LoadedChecked ==
    ASSUME WellFormed(elf), PassTypeOK, scn < Len(elf.sections),
           valid_sec(Section.name) \in SectionIds, Section \in Sections,
           Section.type = "PROGBITS" => ~OutOfBounds(Section, elf.ep),
           ~Unchecked(valid_sec(Section.name))
    PROVE  /\ Section.type = "PROGBITS" /\ ~OutOfBounds(Section, elf.ep)
           /\ elf.ep <= Section.addr
           /\ Section.addr + RoundUp8(Section.size) - elf.ep <= MemSize
<1>1. elf.sections \in Seq(Sections) /\ scn \in 0 .. Len(elf.sections)
  BY DEF WellFormed, PassTypeOK
<1>2. scn + 1 \in LoadedSections
  <2>1. scn + 1 \in SectionIndex
    BY <1>1 DEF SectionIndex
  <2>2. valid_sec(Section.name) # NoSection
    BY DEF SectionIds, NoSection
  <2> QED BY <2>1, <2>2 DEF LoadedSections, Section
<1>3. /\ Section.type = "PROGBITS"
      /\ ~ (/\ Section.addr + Section.size - elf.ep <= MemSize
            /\ Section.addr + RoundUp8(Section.size) - elf.ep > MemSize)
  BY <1>2 DEF Unchecked, Section
<1>4. /\ Section.addr \in Nat /\ Section.size \in Nat /\ elf.ep \in Nat
      /\ RoundUp8(Section.size) \in Nat /\ MemSize \in Nat
  <2>1. Section.addr \in Nat /\ Section.size \in Nat
    BY Spans DEF Sections, Words
  <2>2. elf.ep \in Nat
    BY Spans DEF WellFormed, Words
  <2>3. RoundUp8(Section.size) \in Nat
    BY <2>1, RoundUp8Bounds
  <2> QED BY <2>1, <2>2, <2>3, EngineSizes
<1>5. ~OutOfBounds(Section, elf.ep)
  BY <1>3
<1> QED BY <1>3, <1>4, <1>5 DEF OutOfBounds

LEMMA LoadSectionInv == ASSUME IInv, LoadSection PROVE IInv'
<1> USE DEF IInv, TypeOK
<1> DEFINE id == valid_sec(Section.name)
<1>1. pc = "load" /\ scn < Len(elf.sections) /\ id # NoSection
  BY DEF LoadSection
<1>2. /\ Section \in Sections /\ WellFormedSection(Section, elf.ep)
      /\ scn + 1 \in 0 .. Len(elf.sections) /\ id \in SectionIds
  BY <1>1, SectionType
<1>3. Section.addr \in Words /\ Section.size \in Nat /\ elf.ep \in Words
  BY <1>2 DEF Sections, WellFormed
<1>4. /\ elf_starts' = [elf_starts EXCEPT ![id] = Section.addr]
      /\ sizes' = [sizes EXCEPT ![id] = RoundUp8(Section.size) % Word]
      /\ LoadFrame
  BY DEF LoadSection
<1>5. \/ /\ Section.type # "PROGBITS" /\ memory' = memory
         /\ scn' = scn + 1 /\ Goto("load")
      \/ /\ Section.type = "PROGBITS" /\ memory' = memory
         /\ scn' = scn /\ Exit("err_bounds")
      \/ /\ Section.type = "PROGBITS" /\ ~OutOfBounds(Section, elf.ep)
         /\ memory' = Loaded(Section) /\ scn' = scn + 1 /\ Goto("load")
  BY DEF LoadSection
<1>6. memory' \in [Offsets -> Words]
  BY <1>2, <1>3, <1>5, LoadedType DEF EngineTypeOK
<1>7. RoundUp8(Section.size) % Word \in Words
  BY <1>3, RoundUp8Bounds
<1> HIDE DEF id
<1>8. WellFormed(elf)' /\ (base_addr \in Words)' /\ elf' = elf
  BY <1>4, InputFrame DEF LoadFrame, inputVars
<1>9. EngineTypeOK'
  BY <1>2, <1>3, <1>4, <1>6, <1>7 DEF EngineTypeOK, LoadFrame
<1>10. OutputTypeOK'
  BY <1>4, OutputFrame DEF LoadFrame
<1>11. PassTypeOK'
  BY <1>2, <1>4, <1>5, <1>8 DEF LoadFrame, PassTypeOK, countVars, tableVars
<1>12. CASE Exit("err_bounds")
  <2>1. "err_bounds" \in Statuses
    BY DEF Statuses
  <2> QED BY <1>8, <1>9, <1>10, <1>11, <1>12, <2>1, Exits
<1>13. CASE pc' = "load" /\ status' = status
  <2>1. Control' /\ OpenPairsInTable' /\ NoNullDereference'
    BY <1>1, <1>4, <1>13 DEF LoadFrame, Control, OpenPairsInTable, NoNullDereference,
       BeforeTable, InList, tableVars
  <2>2. SectionsInImage'
    <3>0. \A s : Unchecked(s)' = Unchecked(s)
      BY <1>8 DEF LoadedSections, SectionIndex, Unchecked
    <3> SUFFICES ASSUME NEW s \in {TEXT, DATA, RODATA}, ~Unchecked(s)
                 PROVE  LiesInMemory(s)'
      BY <3>0 DEF SectionsInImage
    <3>1. s \in SectionIds
      BY DEF SectionIds, TEXT, DATA, RODATA
    <3>2. CASE s = id
      <4>1. /\ Section.type = "PROGBITS" /\ ~OutOfBounds(Section, elf.ep)
            /\ elf.ep <= Section.addr
            /\ Section.addr + RoundUp8(Section.size) - elf.ep <= MemSize
        BY <1>1, <1>2, <1>3, <1>5, <1>13, <3>1, <3>2, LoadedChecked DEF id, Exit
      <4>2. sizes'[s] = RoundUp8(Section.size) % Word /\ elf_starts'[s] = Section.addr
        BY <1>4, <3>1, <3>2 DEF EngineTypeOK
      <4>3. \A k \in 1 .. ((RoundUp8(Section.size) % Word) \div 4) :
               Section.addr - elf.ep + 4 * (k - 1) \in Offsets
        BY <1>2, <1>3, <4>1, LoadedInImage
      <4> QED BY <1>8, <4>2, <4>3 DEF LiesInMemory, PlaceOf
    <3>3. CASE s # id
      <4>1. sizes'[s] = sizes[s] /\ elf_starts'[s] = elf_starts[s]
        BY <1>4, <3>1, <3>3 DEF EngineTypeOK
      <4> QED BY <1>1, <1>8, <4>1 DEF SectionsInImage, LiesInMemory, PlaceOf
    <3> QED BY <3>2, <3>3
  <2> QED BY <1>8, <1>9, <1>10, <1>11, <1>13, <2>1, <2>2 DEF PCs
<1> QED BY <1>5, <1>12, <1>13 DEF Goto

-----------------------------------------------------------------------------
(* The insertion sort. *)
Lt == {p \in Nat \X Nat : p[1] < p[2]}

LEMMA LtWF == IsWellFoundedOn(Lt, Nat)
<1>1. OpToRel(<, Nat) = Lt
  BY DEF OpToRel, Lt
<1> QED BY <1>1, NatLessThanWellFounded

LEMMA MinExists ==
    ASSUME NEW T \in SUBSET Nat, T # {}
    PROVE  \E m \in T : \A k \in T : m <= k
<1>1. PICK m \in T : \A k \in T : ~(<<k, m>> \in Lt)
  BY LtWF, WFMin
<1>2. ASSUME NEW k \in T PROVE m <= k
  <2>1. k \in Nat /\ m \in Nat
    OBVIOUS
  <2>2. <<k, m>> \in Nat \X Nat /\ <<k, m>>[1] = k /\ <<k, m>>[2] = m
    BY <2>1
  <2>3. ~(k < m)
    BY <1>1, <2>2 DEF Lt
  <2> QED BY <2>1, <2>3
<1> QED BY <1>2

LEMMA PositionType ==
    ASSUME NEW list \in Seq(Entries), NEW rel \in Entries
    PROVE  Position(list, rel) \in 1 .. (Len(list) + 1)
<1> DEFINE Above == {p \in 1 .. (Len(list) + 1) :
                       \A q \in p .. Len(list) : rel.offset <= list[q].offset}
<1>1. Len(list) \in Nat
  OBVIOUS
<1>2. Len(list) + 1 \in Above
  BY <1>1
<1>3. Above \in SUBSET Nat /\ Above \subseteq 1 .. (Len(list) + 1)
  BY <1>1
<1>4. Position(list, rel) = CHOOSE p \in Above : \A q \in Above : p <= q
  BY DEF Position
<1> HIDE DEF Above
<1>5. PICK p \in Above : \A q \in Above : p <= q
  BY <1>2, <1>3, MinExists
<1>6. Position(list, rel) \in Above
  BY <1>4, <1>5
<1> QED BY <1>3, <1>6

(* Whatever the list and the entry have in common, the new list has too. *)
LEMMA InsertedType ==
    ASSUME NEW list \in Seq(Entries), NEW rel \in Entries
    PROVE  LET l == Inserted(list, rel)
           IN  /\ l \in Seq(Entries) /\ Len(l) = Len(list) + 1
               /\ \A k \in 1 .. Len(l) :
                     l[k] = rel \/ \E q \in 1 .. Len(list) : l[k] = list[q]
<1> DEFINE p == Position(list, rel)
           n == Len(list)
           l == Inserted(list, rel)
<1>1. p \in 1 .. (n + 1) /\ n \in Nat
  BY PositionType
<1>2. l = [q \in 1 .. (n + 1) |->
             IF q < p THEN list[q] ELSE IF q = p THEN rel ELSE list[q - 1]]
  BY DEF Inserted
<1>3. \A q \in 1 .. n : list[q] \in Entries
  OBVIOUS
<1> HIDE DEF p, n, l
<1>4. ASSUME NEW q \in 1 .. (n + 1)
      PROVE  l[q] \in Entries /\ (l[q] = rel \/ \E r \in 1 .. n : l[q] = list[r])
  <2>1. CASE q < p
    BY <1>1, <1>2, <1>3, <2>1
  <2>2. CASE q = p
    BY <1>1, <1>2, <2>2
  <2>3. CASE q > p
    <3>1. q - 1 \in 1 .. n /\ l[q] = list[q - 1]
      BY <1>1, <1>2, <2>3
    <3> QED BY <1>3, <3>1
  <2> QED BY <1>1, <2>1, <2>2, <2>3
<1>5. l \in [1 .. (n + 1) -> Entries]
  BY <1>2, <1>4
<1>6. n + 1 \in Nat
  BY <1>1
<1>7. l \in Seq(Entries) /\ Len(l) = n + 1
  BY <1>5, <1>6
<1> QED BY <1>4, <1>7 DEF l, n

-----------------------------------------------------------------------------
(* The steps the two passes share. *)
LoopTypeOK ==
    /\ scn \in 0 .. Len(elf.sections)
    /\ rel_list \in Seq(Entries)
    /\ nreloc = Len(rel_list)
    /\ i \in Nat

HiLoOK ==
    /\ hilopair \in HiLoPairs
    /\ \A r \in Registers : hilopair[r].status # "invalid" => hilopair[r].ptr # NULL

ListInImage ==
    scn >= 1 /\ Wanted(Current) /\ \A k \in 1 .. Len(rel_list) : InImage(rel_list[k])

LEMMA SkipTypes ==
    ASSUME WellFormed(elf), PassTypeOK, EngineTypeOK, UNCHANGED elf,
           NEW scanning, ScanSkips(scanning)
    PROVE  LoopTypeOK' /\ HiLoOK'
<1>1. scn + 1 \in 0 .. Len(elf.sections)
  BY SectionType DEF ScanSkips
<1>2. LoopTypeOK'
  BY <1>1 DEF ScanSkips, LoopTypeOK, PassTypeOK
<1>3. HiLoOK'
  BY DEF ScanSkips, HiLoOK, EngineTypeOK
<1> QED BY <1>2, <1>3

LEMMA NoPairsType ==
    ASSUME hilopair' = NoHiLoPairs
    PROVE  HiLoOK' /\ ValidRegs(hilopair') = {}
  BY Spans DEF HiLoOK, NoHiLoPairs, HiLoPairs, ValidRegs

LEMMA FindTypes ==
    ASSUME WellFormed(elf), PassTypeOK, EngineTypeOK, UNCHANGED elf,
           NEW scanning, NEW sorting, ScanFinds(scanning, sorting)
    PROVE  /\ LoopTypeOK' /\ HiLoOK' /\ ValidRegs(hilopair') = {}
           /\ ListInImage'
<1>1. scn + 1 \in 0 .. Len(elf.sections) /\ scn \in Nat
  BY SectionType DEF ScanFinds, PassTypeOK
<1>2. /\ scn' = scn + 1 /\ rel_list' = <<>> /\ nreloc' = 0 /\ i' = i
      /\ hilopair' = NoHiLoPairs /\ Wanted(Section)
  BY DEF ScanFinds
<1>3. <<>> \in Seq(Entries) /\ Len(<<>>) = 0
  OBVIOUS
<1>4. LoopTypeOK'
  BY <1>1, <1>2, <1>3 DEF LoopTypeOK, PassTypeOK
<1>5. ListInImage'
  BY <1>1, <1>2, <1>3 DEF ListInImage, Current, Section
<1> QED BY <1>2, <1>4, <1>5, NoPairsType

LEMMA InsertTypes ==
    ASSUME WellFormed(elf), PassTypeOK, EngineTypeOK, UNCHANGED elf, ListInImage,
           NEW sorting, SortInserts(sorting)
    PROVE  LoopTypeOK' /\ HiLoOK' /\ hilopair' = hilopair /\ ListInImage'
<1>1. elf.sections \in Seq(Sections) /\ scn \in 1 .. Len(elf.sections)
  BY DEF WellFormed, PassTypeOK, ListInImage
<1>2. Current \in Sections /\ WellFormedSection(Current, elf.ep)
  BY <1>1 DEF WellFormed, Current
<1> DEFINE rels == Current.rels
           rel  == rels[nreloc + 1]
<1>3. rels \in Seq(Entries)
  BY <1>2 DEF Sections
<1>4. rel_list \in Seq(Entries) /\ nreloc = Len(rel_list) /\ nreloc < Len(rels)
  BY DEF PassTypeOK, SortInserts
<1>5. nreloc + 1 \in 1 .. Len(rels)
  BY <1>3, <1>4
<1>6. rel \in Entries
  BY <1>3, <1>5
<1>7. InImage(rel)
  BY <1>2, <1>5 DEF WellFormedSection, InImage
<1>8. /\ rel_list' = Inserted(rel_list, rel) /\ nreloc' = nreloc + 1
      /\ UNCHANGED <<hilopair, scn, i>>
  BY DEF SortInserts
<1> HIDE DEF rel, rels
<1>9. /\ rel_list' \in Seq(Entries) /\ Len(rel_list') = Len(rel_list) + 1
      /\ \A k \in 1 .. Len(rel_list') :
            rel_list'[k] = rel \/ \E q \in 1 .. Len(rel_list) : rel_list'[k] = rel_list[q]
  BY <1>4, <1>6, <1>8, InsertedType
<1>10. ListInImage'
  <2>1. \A q \in 1 .. Len(rel_list) : rel_list[q].offset - elf.ep \in Offsets
    BY DEF ListInImage, InImage
  <2>2. rel.offset - elf.ep \in Offsets
    BY <1>7 DEF InImage
  <2>3. \A k \in 1 .. Len(rel_list') : rel_list'[k].offset - elf.ep \in Offsets
    BY <1>9, <2>1, <2>2
  <2>4. scn >= 1 /\ Wanted(Current)
    BY DEF ListInImage
  <2>5. (scn >= 1 /\ Wanted(Current))'
    BY <1>8, <2>4 DEF Current
  <2>6. (\A k \in 1 .. Len(rel_list) : InImage(rel_list[k]))'
    BY <2>3 DEF InImage
  <2> QED BY <2>5, <2>6 DEF ListInImage
<1>11. LoopTypeOK'
  BY <1>4, <1>8, <1>9 DEF LoopTypeOK, PassTypeOK
<1> QED BY <1>8, <1>10, <1>11 DEF HiLoOK, EngineTypeOK

LEMMA SortEndTypes ==
    ASSUME PassTypeOK, EngineTypeOK, UNCHANGED elf, ListInImage,
           NEW sorting, NEW processing, SortEnds(sorting, processing)
    PROVE  /\ LoopTypeOK' /\ HiLoOK' /\ hilopair' = hilopair
           /\ ListInImage' /\ i' >= 1
<1>1. i' = 1 /\ UNCHANGED <<hilopair, scn, rel_list, nreloc>>
  BY DEF SortEnds
<1>2. LoopTypeOK' /\ HiLoOK'
  BY <1>1 DEF LoopTypeOK, PassTypeOK, HiLoOK, EngineTypeOK
<1>3. ListInImage'
  BY <1>1 DEF ListInImage, Current, InImage
<1> QED BY <1>1, <1>2, <1>3

LEMMA ListEndTypes ==
    ASSUME PassTypeOK, EngineTypeOK, UNCHANGED elf,
           NEW processing, NEW scanning, ListEnds(processing, scanning)
    PROVE  LoopTypeOK' /\ HiLoOK'
  BY DEF ListEnds, loopVars, LoopTypeOK, PassTypeOK, HiLoOK, EngineTypeOK

(* The entry about to be processed, and what becomes of it. *)
LEMMA EntryCall ==
    ASSUME WellFormed(elf), PassTypeOK, EngineTypeOK, ListInImage, i >= 1, i <= nreloc,
           NEW dryrun \in BOOLEAN
    PROVE  LET rel == rel_list[i]
               o   == rel.offset - elf.ep
           IN  /\ rel \in Entries /\ rel.type \in Nat /\ o \in Offsets
               /\ OutcomeOK(novl_reloc_do(o, rel.type, dryrun))
<1>1. rel_list \in Seq(Entries) /\ i \in 1 .. Len(rel_list)
  BY DEF PassTypeOK
<1>2. rel_list[i] \in Entries /\ rel_list[i].type \in Nat
  <2>1. rel_list[i] \in Entries
    BY <1>1
  <2>2. rel_list[i].type \in 0 .. 255
    BY <2>1 DEF Entries
  <2> QED BY <2>1, <2>2
<1>3. rel_list[i].offset - elf.ep \in Offsets
  BY <1>1 DEF ListInImage, InImage
<1> QED BY <1>2, <1>3, RelocDoType

CountersOK ==
    error \in BOOLEAN /\ ninty_count_pred \in Int

TableOK ==
    ninty_relocs \in Seq(Nat \ {0}) /\ ninty_count_real = Len(ninty_relocs) /\ last \in Nat

(* What is left to show for a step of a pass that goes on. *)
LEMMA PassStep ==
    ASSUME IInv, pc # "exit", pc' \in PCs, status' = status,
           UNCHANGED <<elf_starts, ovl_starts, sizes, inputVars, outVars,
                       ovl_file_header_addr>>,
           LoopTypeOK', HiLoOK', memory' \in [Offsets -> Words],
           CountersOK', TableOK'
    PROVE  TypeOK' /\ SectionsInImage'
<1>1. elf' = elf
  BY DEF inputVars
<1>2. SectionsInImage'
  BY <1>1, ImageFrame DEF IInv
<1>3. WellFormed(elf)' /\ (base_addr \in Words)'
  BY InputFrame DEF IInv, TypeOK
<1>4. EngineTypeOK'
  BY DEF EngineTypeOK, HiLoOK, IInv, TypeOK
<1>5. PassTypeOK'
  BY DEF LoopTypeOK, CountersOK, TableOK, PassTypeOK
<1>6. OutputTypeOK'
  BY OutputFrame DEF IInv, TypeOK
<1> QED BY <1>2, <1>3, <1>4, <1>5, <1>6 DEF TypeOK, IInv

(* The same for a step that leaves the counters and the table alone. *)
LEMMA IdleStep ==
    ASSUME IInv, pc # "exit", pc' \in PCs, status' = status,
           UNCHANGED <<elf_starts, ovl_starts, sizes, memory, inputVars, outVars,
                       ovl_file_header_addr, countVars, ninty_count_real,
                       ninty_relocs>>,
           LoopTypeOK', HiLoOK', last' \in Nat
    PROVE  TypeOK' /\ SectionsInImage'
<1>1. CountersOK' /\ TableOK' /\ memory' \in [Offsets -> Words]
  BY DEF CountersOK, TableOK, countVars, IInv, TypeOK, PassTypeOK, EngineTypeOK
<1> QED BY <1>1, PassStep

(* The first pass keeps the table empty and has no null pointer to follow. *)
LEMMA CountStep ==
    ASSUME IInv, pc \in BeforeTable, UNCHANGED tableVars,
           pc' \in {"count_scan", "count_sort", "count_do", "layout"},
           pc' \in InList => ListInImage',
           pc' = "count_do" => i' >= 1
    PROVE  Control' /\ OpenPairsInTable' /\ NoNullDereference'
<1>1. ninty_relocs' = <<>>
  BY DEF IInv, Control, tableVars
<1> QED BY <1>1 DEF Control, OpenPairsInTable, NoNullDereference, BeforeTable, InList,
                    ListInImage

LEMMA CountScanInv == ASSUME IInv, CountScan PROVE IInv'
<1> USE DEF IInv, TypeOK
<1>1. /\ elf' = elf /\ UNCHANGED tableVars /\ last' \in Nat
      /\ UNCHANGED <<elf_starts, ovl_starts, sizes, memory, inputVars, outVars,
                     ovl_file_header_addr, countVars, ninty_count_real,
                     ninty_relocs>>
  BY DEF CountScan, CountFrame, inputVars, tableVars, PassTypeOK
<1>2. CASE ScanSkips("count_scan")
  <2>1. pc = "count_scan" /\ pc' = pc /\ status' = status
    BY <1>2 DEF ScanSkips
  <2>2. LoopTypeOK' /\ HiLoOK'
    BY <1>1, <1>2, SkipTypes
  <2>3. TypeOK' /\ SectionsInImage'
    BY <1>1, <2>1, <2>2, IdleStep
  <2>4. Control' /\ OpenPairsInTable' /\ NoNullDereference'
    BY <1>1, <2>1, CountStep DEF BeforeTable, InList
  <2> QED BY <2>3, <2>4
<1>3. CASE ScanFinds("count_scan", "count_sort")
  <2>1. pc = "count_scan" /\ pc' = "count_sort" /\ status' = status
    BY <1>3 DEF ScanFinds, Goto
  <2>2. LoopTypeOK' /\ HiLoOK' /\ ListInImage'
    BY <1>1, <1>3, FindTypes
  <2>3. TypeOK' /\ SectionsInImage'
    BY <1>1, <2>1, <2>2, IdleStep DEF PCs
  <2>4. Control' /\ OpenPairsInTable' /\ NoNullDereference'
    BY <1>1, <2>1, <2>2, CountStep DEF BeforeTable
  <2> QED BY <2>3, <2>4
<1> QED BY <1>2, <1>3 DEF CountScan

LEMMA CountSortInv == ASSUME IInv, CountSort PROVE IInv'
<1> USE DEF IInv, TypeOK
<1>1. /\ elf' = elf /\ UNCHANGED tableVars /\ last' \in Nat
      /\ UNCHANGED <<elf_starts, ovl_starts, sizes, memory, inputVars, outVars,
                     ovl_file_header_addr, countVars, ninty_count_real,
                     ninty_relocs>>
  BY DEF CountSort, CountFrame, inputVars, tableVars, PassTypeOK
<1>2. pc = "count_sort" => ListInImage
  BY DEF Control, InList, ListInImage
<1>3. CASE SortInserts("count_sort")
  <2>1. pc = "count_sort" /\ pc' = pc /\ status' = status
    BY <1>3 DEF SortInserts
  <2>2. LoopTypeOK' /\ HiLoOK' /\ ListInImage'
    BY <1>1, <1>2, <1>3, <2>1, InsertTypes
  <2>3. TypeOK' /\ SectionsInImage'
    BY <1>1, <2>1, <2>2, IdleStep
  <2>4. Control' /\ OpenPairsInTable' /\ NoNullDereference'
    BY <1>1, <2>1, <2>2, CountStep DEF BeforeTable
  <2> QED BY <2>3, <2>4
<1>4. CASE SortEnds("count_sort", "count_do")
  <2>1. pc = "count_sort" /\ pc' = "count_do" /\ status' = status
    BY <1>4 DEF SortEnds, Goto
  <2>2. LoopTypeOK' /\ HiLoOK' /\ ListInImage' /\ i' >= 1
    BY <1>1, <1>2, <1>4, <2>1, SortEndTypes
  <2>3. TypeOK' /\ SectionsInImage'
    BY <1>1, <2>1, <2>2, IdleStep DEF PCs
  <2>4. Control' /\ OpenPairsInTable' /\ NoNullDereference'
    BY <1>1, <2>1, <2>2, CountStep DEF BeforeTable
  <2> QED BY <2>3, <2>4
<1> QED BY <1>3, <1>4 DEF CountSort

LEMMA CountEntryInv == ASSUME IInv, CountEntry PROVE IInv'
<1> USE DEF IInv, TypeOK
<1> DEFINE rel == rel_list[i]
           v   == novl_reloc_do(rel.offset - elf.ep, rel.type, TRUE)
<1>1. pc = "count_do" /\ pc' = pc /\ status' = status /\ i <= nreloc /\ i >= 1
  BY DEF CountEntry, Control
<1>2. ListInImage
  BY <1>1 DEF Control, InList, ListInImage
<1>3. OutcomeOK(v)
  BY <1>1, <1>2, EntryCall
<1>4. /\ hilopair' = v.hilopair /\ memory' = v.memory
      /\ error' = (error \/ v.ret = "error")
      /\ ninty_count_pred' = ninty_count_pred + Predicted(rel, v.ret)
      /\ i' = i + 1
      /\ UNCHANGED <<elf_starts, ovl_starts, sizes, inputVars, scn, rel_list, nreloc,
                     tableVars, outVars, ovl_file_header_addr>>
  BY DEF CountEntry
<1> HIDE DEF rel, v
<1>5. Predicted(rel, v.ret) \in Int
  BY DEF Predicted
<1>6. error' \in BOOLEAN
  BY <1>4, Zenon
<1>7. CountersOK'
  BY <1>4, <1>5, <1>6 DEF CountersOK, PassTypeOK
<1>8. TableOK' /\ elf' = elf
  BY <1>4 DEF TableOK, tableVars, PassTypeOK, inputVars
<1>9. LoopTypeOK' /\ i' >= 1
  BY <1>1, <1>4, <1>8 DEF LoopTypeOK, PassTypeOK
<1>10. HiLoOK' /\ memory' \in [Offsets -> Words]
  BY <1>3, <1>4 DEF HiLoOK, OutcomeOK
<1>11. ListInImage'
  BY <1>2, <1>4, <1>8 DEF ListInImage, Current, InImage
<1>12. TypeOK' /\ SectionsInImage'
  BY <1>1, <1>4, <1>7, <1>8, <1>9, <1>10, PassStep
<1>13. Control' /\ OpenPairsInTable' /\ NoNullDereference'
  BY <1>1, <1>4, <1>9, <1>11, CountStep DEF BeforeTable
<1> QED BY <1>12, <1>13

LEMMA CountNextInv == ASSUME IInv, CountNext PROVE IInv'
<1> USE DEF IInv, TypeOK
<1>1. /\ elf' = elf /\ UNCHANGED tableVars /\ last' \in Nat
      /\ UNCHANGED <<elf_starts, ovl_starts, sizes, memory, inputVars, outVars,
                     ovl_file_header_addr, countVars, ninty_count_real,
                     ninty_relocs>>
  BY DEF CountNext, CountFrame, inputVars, tableVars, PassTypeOK
<1>2. pc = "count_do" /\ pc' = "count_scan" /\ status' = status
  BY DEF CountNext, ListEnds, Goto
<1>3. LoopTypeOK' /\ HiLoOK'
  BY <1>1, ListEndTypes DEF CountNext
<1>4. TypeOK' /\ SectionsInImage'
  BY <1>1, <1>2, <1>3, IdleStep DEF PCs
<1>5. Control' /\ OpenPairsInTable' /\ NoNullDereference'
  BY <1>1, <1>2, CountStep DEF BeforeTable, InList
<1> QED BY <1>4, <1>5

LEMMA CountEndInv == ASSUME IInv, CountEnd PROVE IInv'
<1> USE DEF IInv, TypeOK
<1>1. /\ UNCHANGED <<engineVars, inputVars, loopVars, countVars, tableVars, outVars,
                     ovl_file_header_addr>>
      /\ pc = "count_scan" /\ elf' = elf
  BY DEF CountEnd, CountFrame, engineVars, inputVars
<1>2. /\ EngineTypeOK' /\ PassTypeOK' /\ OutputTypeOK'
      /\ WellFormed(elf)' /\ (base_addr \in Words)'
  BY <1>1, EngineFrame, PassFrame, OutputFrame, InputFrame
<1>3. CASE Exit("err_reloc")
  <2>1. "err_reloc" \in Statuses
    BY DEF Statuses
  <2> QED BY <1>2, <1>3, <2>1, Exits
<1>4. CASE pc' = "layout" /\ status' = status
  <2>1. Control' /\ OpenPairsInTable' /\ NoNullDereference'
    BY <1>1, <1>4, CountStep DEF BeforeTable, InList
  <2>2. SectionsInImage'
    BY <1>1, ImageFrame DEF engineVars
  <2> QED BY <1>2, <1>4, <2>1, <2>2 DEF PCs
<1> QED BY <1>3, <1>4 DEF CountEnd, Goto

-----------------------------------------------------------------------------
(* Laying the overlay out. *)
LEMMA IntMod ==
    ASSUME NEW a \in Int
    PROVE  a % Word \in Words
<1>1. Word \in Nat \ {0}
  BY Spans
<1> QED BY <1>1 DEF Words

LEMMA LayoutInv == ASSUME IInv, Layout PROVE IInv'
<1> USE DEF IInv, TypeOK
<1>1. pc = "layout" /\ pc' = "reloc_scan" /\ status' = status
  BY DEF Layout, Goto
<1>2. /\ UNCHANGED <<elf_starts, sizes, memory, hilopair, inputVars, rel_list,
                     nreloc, i, countVars, ninty_relocs, last, outVars>>
      /\ elf' = elf /\ scn' = 0 /\ ninty_count_real' = 0
  BY DEF Layout, inputVars
<1>3. base_addr \in Words /\ base_addr \in Int /\ \A s \in SectionIds : sizes[s] \in Int
  BY Spans DEF EngineTypeOK, Words
<1>4. DataStart \in Words
  BY <1>3, IntMod DEF DataStart, SectionIds, TEXT
<1>5. RodataStart \in Words
  BY <1>3, <1>4, IntMod, Spans DEF RodataStart, SectionIds, DATA, Words
<1>6. HeaderStart \in Words
  BY <1>3, <1>5, IntMod, Spans DEF HeaderStart, SectionIds, RODATA, Words
<1>7. BssStart \in Words
  <2> DEFINE a == HeaderStart + HeaderSize + 4 * ninty_count_pred + FooterSize
  <2>1. a \in Int
    BY <1>6, Spans DEF Words, HeaderSize, FooterSize, PassTypeOK
  <2>2. a % Word \in Int
    BY <2>1, IntMod, Spans DEF Words
  <2> HIDE DEF a
  <2>3. RoundUp16(a % Word) \in Int
    BY <2>2 DEF RoundUp16
  <2> QED BY <2>3, IntMod DEF BssStart, a
<1>8. ovl_starts' \in [SectionIds -> Words]
  <2>1. ovl_starts' = [s \in SectionIds |->
                         CASE s = TEXT   -> base_addr
                           [] s = DATA   -> DataStart
                           [] s = RODATA -> RodataStart
                           [] s = BSS    -> BssStart]
    BY DEF Layout
  <2> QED BY <1>3, <1>4, <1>5, <1>6, <1>7, <2>1
          DEF SectionIds, TEXT, DATA, RODATA, BSS
<1>9. EngineTypeOK'
  BY <1>2, <1>8 DEF EngineTypeOK
<1>10. ovl_file_header_addr' \in Words
  BY <1>3, <1>6, IntMod, Spans DEF Layout, Words
<1>11. OutputTypeOK'
  BY <1>2, <1>10 DEF OutputTypeOK, outVars
<1>12. ninty_relocs = <<>>
  BY <1>1 DEF Control, BeforeTable
<1>13. 0 \in 0 .. Len(elf.sections) /\ Len(<<>>) = 0
  BY DEF WellFormed
<1>14. PassTypeOK'
  BY <1>2, <1>12, <1>13 DEF PassTypeOK, countVars
<1>15. Control' /\ OpenPairsInTable' /\ NoNullDereference'
  BY <1>1 DEF Control, OpenPairsInTable, NoNullDereference, BeforeTable, InList
<1>16. SectionsInImage'
  BY <1>1, <1>2, ImageFrame
<1>17. WellFormed(elf)' /\ (base_addr \in Words)'
  BY <1>2, InputFrame
<1> QED BY <1>1, <1>9, <1>11, <1>14, <1>15, <1>16, <1>17 DEF PCs

-----------------------------------------------------------------------------
(* The second pass. *)
LEMMA FiniteRegs ==
    ASSUME NEW R \in SUBSET Registers
    PROVE  IsFiniteSet(R) /\ Cardinality(R) \in Nat
<1>1. RegCount - 1 \in Int
  BY WordLayout
<1>2. IsFiniteSet(Registers)
  BY <1>1, FS_Interval DEF Registers
<1> QED BY <1>2, FS_Subset, FS_CardinalityType

LEMMA RelocStep ==
    ASSUME pc' \in {"reloc_scan", "reloc_sort", "reloc_do", "check_count"},
           pc' \in InList => ListInImage',
           pc' = "reloc_do" => i' >= 1,
           pc' \in InList => Cardinality(ValidRegs(hilopair')) <= last'
                               /\ (last' # 0 => last' = Len(ninty_relocs'))
    PROVE  Control' /\ OpenPairsInTable' /\ NoNullDereference'
  BY DEF Control, OpenPairsInTable, NoNullDereference, BeforeTable, InList, ListInImage

LEMMA RelocScanInv == ASSUME IInv, RelocScan PROVE IInv'
<1> USE DEF IInv, TypeOK
<1>1. /\ elf' = elf
      /\ UNCHANGED <<elf_starts, ovl_starts, sizes, memory, inputVars, outVars,
                     ovl_file_header_addr, countVars, ninty_count_real,
                     ninty_relocs>>
  BY DEF RelocScan, RelocFrame, inputVars
<1>2. CASE ScanSkips("reloc_scan") /\ UNCHANGED last
  <2>1. pc = "reloc_scan" /\ pc' = pc /\ status' = status /\ last' \in Nat
    BY <1>2 DEF ScanSkips, PassTypeOK
  <2>2. LoopTypeOK' /\ HiLoOK'
    BY <1>1, <1>2, SkipTypes
  <2>3. TypeOK' /\ SectionsInImage'
    BY <1>1, <2>1, <2>2, IdleStep
  <2>4. Control' /\ OpenPairsInTable' /\ NoNullDereference'
    BY <2>1, RelocStep DEF InList
  <2> QED BY <2>3, <2>4
<1>3. CASE ScanFinds("reloc_scan", "reloc_sort") /\ last' = 0
  <2>1. pc = "reloc_scan" /\ pc' = "reloc_sort" /\ status' = status
    BY <1>3 DEF ScanFinds, Goto
  <2>2. LoopTypeOK' /\ HiLoOK' /\ ListInImage' /\ ValidRegs(hilopair') = {}
    BY <1>1, <1>3, FindTypes
  <2>3. TypeOK' /\ SectionsInImage'
    BY <1>1, <1>3, <2>1, <2>2, IdleStep DEF PCs
  <2>4. Cardinality(ValidRegs(hilopair')) = 0
    BY <2>2, FS_EmptySet
  <2>5. Control' /\ OpenPairsInTable' /\ NoNullDereference'
    BY <1>3, <2>1, <2>2, <2>4, RelocStep
  <2> QED BY <2>3, <2>5
<1> QED BY <1>2, <1>3 DEF RelocScan

LEMMA RelocSortInv == ASSUME IInv, RelocSort PROVE IInv'
<1> USE DEF IInv, TypeOK
<1>1. /\ elf' = elf /\ last' = last /\ last' \in Nat /\ ninty_relocs' = ninty_relocs
      /\ UNCHANGED <<elf_starts, ovl_starts, sizes, memory, inputVars, outVars,
                     ovl_file_header_addr, countVars, ninty_count_real,
                     ninty_relocs>>
  BY DEF RelocSort, RelocFrame, inputVars, tableVars, PassTypeOK
<1>2. pc = "reloc_sort" => /\ ListInImage
                           /\ Cardinality(ValidRegs(hilopair)) <= last
                           /\ last # 0 => last = Len(ninty_relocs)
  BY DEF Control, InList, ListInImage, OpenPairsInTable
<1>3. CASE SortInserts("reloc_sort")
  <2>1. pc = "reloc_sort" /\ pc' = pc /\ status' = status
    BY <1>3 DEF SortInserts
  <2>2. LoopTypeOK' /\ HiLoOK' /\ ListInImage' /\ hilopair' = hilopair
    BY <1>1, <1>2, <1>3, <2>1, InsertTypes
  <2>3. TypeOK' /\ SectionsInImage'
    BY <1>1, <2>1, <2>2, IdleStep
  <2>4. Control' /\ OpenPairsInTable' /\ NoNullDereference'
    BY <1>1, <1>2, <2>1, <2>2, RelocStep
  <2> QED BY <2>3, <2>4
<1>4. CASE SortEnds("reloc_sort", "reloc_do")
  <2>1. pc = "reloc_sort" /\ pc' = "reloc_do" /\ status' = status
    BY <1>4 DEF SortEnds, Goto
  <2>2. LoopTypeOK' /\ HiLoOK' /\ ListInImage' /\ hilopair' = hilopair /\ i' >= 1
    BY <1>1, <1>2, <1>4, <2>1, SortEndTypes
  <2>3. TypeOK' /\ SectionsInImage'
    BY <1>1, <2>1, <2>2, IdleStep DEF PCs
  <2>4. Control' /\ OpenPairsInTable' /\ NoNullDereference'
    BY <1>1, <1>2, <2>1, <2>2, RelocStep
  <2> QED BY <2>3, <2>4
<1> QED BY <1>3, <1>4 DEF RelocSort

LEMMA RelocNextInv == ASSUME IInv, RelocNext PROVE IInv'
<1> USE DEF IInv, TypeOK
<1>1. /\ elf' = elf /\ last' \in Nat
      /\ UNCHANGED <<elf_starts, ovl_starts, sizes, memory, inputVars, outVars,
                     ovl_file_header_addr, countVars, ninty_count_real,
                     ninty_relocs>>
  BY DEF RelocNext, RelocFrame, inputVars, tableVars, PassTypeOK
<1>2. pc = "reloc_do" /\ pc' = "reloc_scan" /\ status' = status
  BY DEF RelocNext, ListEnds, Goto
<1>3. LoopTypeOK' /\ HiLoOK'
  BY <1>1, ListEndTypes DEF RelocNext
<1>4. TypeOK' /\ SectionsInImage'
  BY <1>1, <1>2, <1>3, IdleStep DEF PCs
<1>5. Control' /\ OpenPairsInTable' /\ NoNullDereference'
  BY <1>2, RelocStep DEF InList
<1> QED BY <1>4, <1>5

LEMMA RelocEndInv == ASSUME IInv, RelocEnd PROVE IInv'
<1> USE DEF IInv, TypeOK
<1>1. /\ UNCHANGED <<engineVars, inputVars, loopVars, countVars, tableVars, outVars,
                     ovl_file_header_addr>>
      /\ pc = "reloc_scan" /\ pc' = "check_count" /\ status' = status /\ elf' = elf
  BY DEF RelocEnd, RelocFrame, engineVars, inputVars, Goto
<1>2. /\ EngineTypeOK' /\ PassTypeOK' /\ OutputTypeOK'
      /\ WellFormed(elf)' /\ (base_addr \in Words)'
  BY <1>1, EngineFrame, PassFrame, OutputFrame, InputFrame
<1>3. Control' /\ OpenPairsInTable' /\ NoNullDereference'
  BY <1>1, RelocStep DEF InList
<1>4. SectionsInImage'
  BY <1>1, ImageFrame DEF engineVars
<1> QED BY <1>1, <1>2, <1>3, <1>4 DEF PCs

(* A type with a handler is not a multiple of 64, so its table word is not 0. *)
LEMMA HandledType ==
    ASSUME NEW o, NEW type \in Nat, NEW dryrun,
           novl_reloc_do(o, type, dryrun).ret # "error"
    PROVE  type % 64 # 0
<1> DEFINE h == type % 128
<1>1. h \in {R_MIPS_32, R_MIPS_26, R_MIPS_HI16, R_MIPS_LO16}
  <2> SUFFICES ASSUME h \notin {R_MIPS_32, R_MIPS_26, R_MIPS_HI16, R_MIPS_LO16}
               PROVE  FALSE
    OBVIOUS
  <2>1. novl_reloc_do(o, type, dryrun) = Outcome("error", memory, hilopair)
    BY DEF novl_reloc_do
  <2> QED BY <2>1 DEF Outcome
<1> QED BY <1>1 DEF R_MIPS_32, R_MIPS_26, R_MIPS_HI16, R_MIPS_LO16

LEMMA MkNonzero ==
    ASSUME NEW sec \in Nat, NEW offset \in Int, NEW type \in Nat, type % 64 # 0
    PROVE  novl_reloc_mk(sec, offset, type) \in Nat \ {0}
<1> DEFINE a == (sec % 4) * TypeSpan + (type % TypeSpan)
           b == offset % OffsetSpan
<1>1. a \in Nat /\ a >= 1
  BY DEF TypeSpan
<1>2. OffsetSpan \in Nat \ {0}
  BY FormatSizes
<1>3. b \in Nat
  BY <1>2
<1> HIDE DEF a, b
<1>4. a * OffsetSpan \in Nat
  BY <1>1, <1>2
<1>5. a * OffsetSpan # 0
  BY <1>1, <1>2
<1>6. a * OffsetSpan + b \in Nat \ {0}
  BY <1>3, <1>4, <1>5
<1> QED BY <1>6 DEF novl_reloc_mk, a, b

LEMMA TableWordType ==
    ASSUME WellFormed(elf), PassTypeOK, EngineTypeOK, ListInImage,
           NEW rel \in Entries, rel.type % 64 # 0
    PROVE  TableWord(rel) \in Nat \ {0}
<1>1. elf.sections \in Seq(Sections) /\ scn \in 1 .. Len(elf.sections)
  BY DEF WellFormed, PassTypeOK, ListInImage
<1>2. Current.name \in SectionNames
  <2>1. Current \in Sections
    BY <1>1 DEF Current
  <2> QED BY <2>1 DEF Sections
<1> DEFINE id == RelTarget(Current.name)
<1>3. id \in SectionIds
  BY <1>2 DEF ListInImage, Wanted, RelTarget, SectionNames
<1>4. rel.offset \in Int /\ rel.type \in Nat
  BY Spans DEF Entries, Words
<1>5. elf_starts[id] \in Int
  BY <1>3, Spans DEF EngineTypeOK, Words
<1>6. TableWord(rel) = novl_reloc_mk(id + 1, rel.offset - elf_starts[id], rel.type)
  BY DEF TableWord
<1> HIDE DEF id
<1>7. id + 1 \in Nat /\ rel.offset - elf_starts[id] \in Int
  BY <1>3, <1>4, <1>5 DEF SectionIds
<1> QED BY <1>4, <1>6, <1>7, MkNonzero

LEMMA AppendedTable ==
    ASSUME TableOK, NEW w \in Nat \ {0}, last # 0 => last = Len(ninty_relocs)
    PROVE  LET t == Append(ninty_relocs, w)
               l == IF last = 0 THEN Len(ninty_relocs) + 1 ELSE last + 1
           IN  /\ t \in Seq(Nat \ {0}) /\ Len(t) = Len(ninty_relocs) + 1
               /\ l = Len(t) /\ l \in Nat /\ last + 1 <= l
  BY DEF TableOK

LEMMA DeletedTable ==
    ASSUME TableOK, last # 0, last = Len(ninty_relocs)
    PROVE  LET t == Deleted(ninty_relocs, last)
           IN  /\ t \in Seq(Nat \ {0}) /\ Len(t) = Len(ninty_relocs) - 1
               /\ last - 1 = Len(t) /\ last - 1 \in Nat
<1> DEFINE n == Len(ninty_relocs) - 1
           t == Deleted(ninty_relocs, last)
<1>1. n \in Nat /\ last = n + 1 /\ ninty_relocs \in Seq(Nat \ {0})
  BY DEF TableOK
<1>2. t = [q \in 1 .. n |-> IF q < last THEN ninty_relocs[q] ELSE ninty_relocs[q + 1]]
  BY DEF Deleted
<1>3. \A q \in 1 .. n : ninty_relocs[q] \in Nat \ {0} /\ q < last
  BY <1>1
<1> HIDE DEF n, t
<1>4. t \in [1 .. n -> Nat \ {0}]
  BY <1>2, <1>3
<1>5. t \in Seq(Nat \ {0}) /\ Len(t) = n
  BY <1>1, <1>4
<1> QED BY <1>1, <1>5 DEF n, t

LEMMA RelocEntryInv == ASSUME IInv, RelocEntry PROVE IInv'
<1> USE DEF IInv, TypeOK
<1> DEFINE rel == rel_list[i]
           o   == rel.offset - elf.ep
           v   == novl_reloc_do(o, rel.type, FALSE)
<1>1. pc = "reloc_do" /\ i <= nreloc /\ i >= 1
  BY DEF RelocEntry, Control
<1>2. ListInImage
  BY <1>1 DEF Control, InList, ListInImage
<1>3. rel \in Entries /\ rel.type \in Nat /\ o \in Offsets /\ OutcomeOK(v)
  BY <1>1, <1>2, EntryCall
<1>4. /\ OpensAtMostOne(v)
      /\ v.ret # "success" => ValidRegs(v.hilopair) \subseteq ValidRegs(hilopair)
      /\ rel.type = R_MIPS_LO16 /\ v.ret = "fail" => ClosesOne(v)
  BY <1>3, RelocDoPairs
<1>5. /\ hilopair' = v.hilopair /\ memory' = v.memory
      /\ UNCHANGED <<scn, rel_list, nreloc>> /\ RelocFrame
  BY DEF RelocEntry
<1>6. \/ v.ret = "error" /\ Exit("err_reloc") /\ UNCHANGED <<i, tableVars>>
      \/ v.ret = "success" /\ AppendWord(rel) /\ i' = i + 1 /\ UNCHANGED <<pc, status>>
      \/ /\ v.ret \in {"fail", "fail_keep_hi"}
         /\ i' = i + 1 /\ UNCHANGED <<tableVars, pc, status>>
      \/ /\ DropsHi(rel, v.ret) /\ last # 0
         /\ DeleteLast /\ i' = i + 1 /\ UNCHANGED <<pc, status>>
      \/ DropsHi(rel, v.ret) /\ last = 0 /\ Goto("crashed")
  BY DEF RelocEntry
<1>7. v.ret # "error" => rel.type % 64 # 0
  BY <1>3, HandledType
<1> HIDE DEF rel, o, v
<1>8. DropsHi(rel, v.ret) => ClosesOne(v)
  BY <1>4 DEF DropsHi
<1>9. /\ elf' = elf /\ CountersOK' /\ HiLoOK' /\ memory' \in [Offsets -> Words]
      /\ UNCHANGED <<elf_starts, ovl_starts, sizes, inputVars, outVars,
                     ovl_file_header_addr>>
  BY <1>3, <1>5 DEF RelocFrame, inputVars, countVars, CountersOK, PassTypeOK, HiLoOK,
                    OutcomeOK
<1>10. ListInImage'
  BY <1>2, <1>5, <1>9 DEF ListInImage, Current, InImage
<1>11. i' \in Nat => LoopTypeOK'
  BY <1>5, <1>9 DEF LoopTypeOK, PassTypeOK
<1>12. TableOK /\ i \in Nat
  BY DEF TableOK, PassTypeOK
<1> DEFINE open == ValidRegs(hilopair)
<1>13. /\ Cardinality(open) <= last
       /\ last # 0 => last = Len(ninty_relocs)
  BY <1>1 DEF OpenPairsInTable
<1>14. IsFiniteSet(open) /\ Cardinality(open) \in Nat /\ last \in Nat
  BY <1>12, FiniteRegs DEF ValidRegs, TableOK
<1>15. IsFiniteSet(ValidRegs(hilopair')) /\ Cardinality(ValidRegs(hilopair')) \in Nat
  BY FiniteRegs DEF ValidRegs
<1>16. CASE v.ret = "error" /\ Exit("err_reloc") /\ UNCHANGED <<i, tableVars>>
  <2>1. "err_reloc" \in Statuses
    BY DEF Statuses
  <2>2. EngineTypeOK'
    BY <1>9 DEF EngineTypeOK, HiLoOK
  <2>3. PassTypeOK'
    BY <1>5, <1>9, <1>11, <1>12, <1>16 DEF PassTypeOK, LoopTypeOK, CountersOK, tableVars
  <2>4. OutputTypeOK' /\ WellFormed(elf)' /\ (base_addr \in Words)'
    BY <1>9, OutputFrame, InputFrame
  <2> QED BY <1>16, <2>1, <2>2, <2>3, <2>4, Exits
<1>17. CASE v.ret = "success" /\ AppendWord(rel) /\ i' = i + 1 /\ UNCHANGED <<pc, status>>
  <2> DEFINE w == TableWord(rel)
  <2>1. w \in Nat \ {0}
    BY <1>2, <1>3, <1>7, <1>17, TableWordType
  <2>2. /\ ninty_relocs' = Append(ninty_relocs, w)
        /\ ninty_count_real' = ninty_count_real + 1
        /\ last' = IF last = 0 THEN Len(ninty_relocs) + 1 ELSE last + 1
    BY <1>17 DEF AppendWord
  <2> HIDE DEF w
  <2>3. /\ ninty_relocs' \in Seq(Nat \ {0})
        /\ Len(ninty_relocs') = Len(ninty_relocs) + 1
        /\ last' = Len(ninty_relocs') /\ last' \in Nat /\ last + 1 <= last'
    BY <1>12, <1>13, <2>1, <2>2, AppendedTable
  <2>4. TableOK'
    BY <1>12, <2>2, <2>3 DEF TableOK
  <2>5. LoopTypeOK' /\ i' >= 1
    BY <1>1, <1>11, <1>12, <1>17
  <2>6. TypeOK' /\ SectionsInImage'
    BY <1>1, <1>9, <1>17, <2>4, <2>5, PassStep DEF PCs
  <2>7. PICK r \in Registers : ValidRegs(hilopair') \subseteq open \cup {r}
    BY <1>4, <1>5 DEF OpensAtMostOne
  <2>8. IsFiniteSet(open \cup {r}) /\ Cardinality(open \cup {r}) <= Cardinality(open) + 1
    <3> HIDE DEF open
    <3>1. /\ IsFiniteSet(open \cup {r})
          /\ Cardinality(open \cup {r}) =
                IF r \in open THEN Cardinality(open) ELSE Cardinality(open) + 1
      BY <1>14, FS_AddElement
    <3> QED BY <1>14, <3>1
  <2>9. Cardinality(open \cup {r}) \in Nat
    BY <2>8, FS_CardinalityType
  <2>10. Cardinality(ValidRegs(hilopair')) <= Cardinality(open \cup {r})
    BY <2>7, <2>8, FS_Subset
  <2>11. Cardinality(ValidRegs(hilopair')) <= last'
    BY <1>13, <1>14, <1>15, <2>3, <2>8, <2>9, <2>10
  <2>12. Control' /\ OpenPairsInTable' /\ NoNullDereference'
    BY <1>1, <1>10, <1>17, <2>3, <2>5, <2>11, RelocStep
  <2> QED BY <2>6, <2>12
<1>18. CASE /\ v.ret \in {"fail", "fail_keep_hi"}
            /\ i' = i + 1 /\ UNCHANGED <<tableVars, pc, status>>
  <2>1. TableOK' /\ ninty_relocs' = ninty_relocs /\ last' = last
    BY <1>12, <1>18 DEF TableOK, tableVars
  <2>2. LoopTypeOK' /\ i' >= 1
    BY <1>1, <1>11, <1>12, <1>18
  <2>3. TypeOK' /\ SectionsInImage'
    BY <1>1, <1>9, <1>18, <2>1, <2>2, PassStep DEF PCs
  <2>4. ValidRegs(hilopair') \subseteq open
    BY <1>4, <1>5, <1>18
  <2>5. Cardinality(ValidRegs(hilopair')) <= Cardinality(open)
    BY <1>14, <2>4, FS_Subset
  <2>6. Cardinality(ValidRegs(hilopair')) <= last'
    BY <1>13, <1>14, <1>15, <2>1, <2>5
  <2>7. Control' /\ OpenPairsInTable' /\ NoNullDereference'
    BY <1>1, <1>10, <1>13, <1>18, <2>1, <2>2, <2>6, RelocStep
  <2> QED BY <2>3, <2>7
<1>19. CASE /\ DropsHi(rel, v.ret) /\ last # 0
            /\ DeleteLast /\ i' = i + 1 /\ UNCHANGED <<pc, status>>
  <2>1. /\ ninty_relocs' = Deleted(ninty_relocs, last)
        /\ ninty_count_real' = ninty_count_real - 1 /\ last' = last - 1
    BY <1>19 DEF DeleteLast
  <2>2. /\ ninty_relocs' \in Seq(Nat \ {0})
        /\ Len(ninty_relocs') = Len(ninty_relocs) - 1
        /\ last' = Len(ninty_relocs') /\ last' \in Nat
    BY <1>12, <1>13, <1>19, <2>1, DeletedTable
  <2>3. TableOK'
    BY <1>12, <2>1, <2>2 DEF TableOK
  <2>4. LoopTypeOK' /\ i' >= 1
    BY <1>1, <1>11, <1>12, <1>19
  <2>5. TypeOK' /\ SectionsInImage'
    BY <1>1, <1>9, <1>19, <2>3, <2>4, PassStep DEF PCs
  <2>6. PICK r \in open : ValidRegs(hilopair') = open \ {r}
    BY <1>5, <1>8, <1>19 DEF ClosesOne
  <2>7. Cardinality(ValidRegs(hilopair')) = Cardinality(open) - 1
    BY <1>14, <2>6, FS_RemoveElement
  <2>8. Cardinality(ValidRegs(hilopair')) <= last'
    BY <1>13, <1>14, <2>1, <2>7
  <2>9. Control' /\ OpenPairsInTable' /\ NoNullDereference'
    BY <1>1, <1>10, <1>19, <2>2, <2>4, <2>8, RelocStep
  <2> QED BY <2>5, <2>9
<1>20. CASE DropsHi(rel, v.ret) /\ last = 0 /\ Goto("crashed")
  <2>1. open # {}
    BY <1>8, <1>20 DEF ClosesOne
  <2>2. Cardinality(open) # 0
    BY <1>14, <2>1, FS_EmptySet
  <2> QED BY <1>13, <1>14, <1>20, <2>2
<1> QED BY <1>6, <1>16, <1>17, <1>18, <1>19, <1>20

-----------------------------------------------------------------------------
(* Writing the overlay. *)
FileOK == DOMAIN file \subseteq Nat /\ \A o \in DOMAIN file : file[o] \in Nat

LEMMA WriteAtType ==
    ASSUME FileOK, NEW where \in Nat, NEW words \in Seq(Nat),
           file' = WriteAt(where, words)
    PROVE  FileOK'
<1> DEFINE written == {where + 4 * (k - 1) : k \in 1 .. Len(words)}
<1>1. Len(words) \in Nat /\ \A k \in 1 .. Len(words) : words[k] \in Nat
  OBVIOUS
<1>2. ASSUME NEW o \in written
      PROVE  o \in Nat /\ words[(o - where) \div 4 + 1] \in Nat
  <2>1. PICK k \in 1 .. Len(words) : o = where + 4 * (k - 1)
    OBVIOUS
  <2>2. k \in Nat /\ 1 <= k
    BY <1>1
  <2>3. o \in Nat /\ (o - where) \div 4 + 1 = k
    BY <2>1, <2>2
  <2> QED BY <1>1, <2>3
<1> HIDE DEF written
<1>3. file' = [o \in DOMAIN file \cup written |->
                 IF o \in written THEN words[(o - where) \div 4 + 1] ELSE file[o]]
  BY DEF WriteAt, written
<1>4. DOMAIN file' = DOMAIN file \cup written
  BY <1>3
<1>5. ASSUME NEW o \in DOMAIN file'
      PROVE  o \in Nat /\ file'[o] \in Nat
  <2>1. CASE o \in written
    BY <1>2, <1>3, <2>1
  <2>2. CASE o \notin written
    <3>1. o \in DOMAIN file /\ file'[o] = file[o]
      BY <1>3, <1>4, <2>2
    <3> QED BY <3>1 DEF FileOK
  <2> QED BY <2>1, <2>2
<1> QED BY <1>5 DEF FileOK

LEMMA EmptyFileOK ==
    ASSUME file' = EmptyFile
    PROVE  FileOK'
  BY DEF FileOK, EmptyFile

WritePlaces == {"check_count", "write_header", "write_relocs", "write_footer",
                "check_bss", "write_section", "close"}

(* What is left to show for a step of the writing half. *)
LEMMA WriteStep ==
    ASSUME IInv, WriteFrame, pc \in WritePlaces, i' \in Nat, FileOK', pos' \in Nat,
           out' \in {"untouched", "created", "removed", "written", "cut"}
    PROVE  /\ EngineTypeOK' /\ PassTypeOK' /\ OutputTypeOK'
           /\ WellFormed(elf)' /\ (base_addr \in Words)'
           /\ SectionsInImage'
<1> USE DEF IInv, TypeOK
<1>1. EngineTypeOK' /\ WellFormed(elf)' /\ (base_addr \in Words)'
  BY EngineFrame, InputFrame DEF WriteFrame
<1>2. elf' = elf
  BY DEF WriteFrame, inputVars
<1>3. PassTypeOK'
  BY <1>2 DEF WriteFrame, PassTypeOK, countVars, tableVars
<1>4. OutputTypeOK'
  BY DEF WriteFrame, OutputTypeOK, FileOK
<1>5. SectionsInImage'
  BY <1>2, ImageFrame DEF WriteFrame, engineVars, WritePlaces
<1> QED BY <1>1, <1>3, <1>4, <1>5

LEMMA WriteGoesOn ==
    ASSUME IInv, WriteFrame, pc \in WritePlaces, i' \in Nat, FileOK', pos' \in Nat,
           out' = out, pc' \in WritePlaces \cup {"outside"}, status' = status,
           pc' \in {"write_relocs", "write_footer"} => ovl_file_header_addr <= pos'
    PROVE  IInv'
<1>1. out' \in {"untouched", "created", "removed", "written", "cut"}
  BY DEF IInv, TypeOK, OutputTypeOK
<1>2. /\ EngineTypeOK' /\ PassTypeOK' /\ OutputTypeOK'
      /\ WellFormed(elf)' /\ (base_addr \in Words)'
      /\ SectionsInImage'
  BY <1>1, WriteStep
<1>3. Control' /\ OpenPairsInTable' /\ NoNullDereference'
  BY DEF Control, OpenPairsInTable, NoNullDereference, BeforeTable, InList, WritePlaces,
         WriteFrame
<1>4. pc' \in PCs /\ status' \in Statuses
  BY DEF PCs, WritePlaces, IInv, TypeOK
<1> QED BY <1>2, <1>3, <1>4 DEF IInv, TypeOK

LEMMA WriteGivesUp ==
    ASSUME IInv, WriteFrame, pc \in WritePlaces, i' = i,
           NEW why \in Statuses, RemoveAndExit(why)
    PROVE  IInv'
<1>1. /\ FileOK' /\ pos' \in Nat /\ i' \in Nat /\ Exit(why)
      /\ out' \in {"untouched", "created", "removed", "written", "cut"}
  BY EmptyFileOK DEF RemoveAndExit, IInv, TypeOK, OutputTypeOK, PassTypeOK
<1>2. /\ EngineTypeOK' /\ PassTypeOK' /\ OutputTypeOK'
      /\ WellFormed(elf)' /\ (base_addr \in Words)'
  BY <1>1, WriteStep
<1> QED BY <1>1, <1>2, Exits DEF IInv, TypeOK

(* What the state offers to a step of the writing half. *)
LEMMA OutputFacts ==
    ASSUME IInv
    PROVE  /\ FileOK /\ pos \in Nat /\ i \in Nat /\ ovl_file_header_addr \in Nat
           /\ \A s \in SectionIds : sizes[s] \in Nat
           /\ ninty_count_real \in Nat
<1>1. FileOK /\ pos \in Nat /\ ovl_file_header_addr \in Nat
  BY Spans DEF IInv, TypeOK, OutputTypeOK, FileOK, Words
<1>2. i \in Nat /\ ninty_count_real \in Nat
  BY DEF IInv, TypeOK, PassTypeOK
<1>3. \A s \in SectionIds : sizes[s] \in Nat
  BY Spans DEF IInv, TypeOK, EngineTypeOK, Words
<1> QED BY <1>1, <1>2, <1>3

LEMMA CheckCountInv == ASSUME IInv, CheckCount PROVE IInv'
<1>1. pc \in WritePlaces /\ WriteFrame /\ i' = i /\ "err_count" \in Statuses
  BY DEF CheckCount, WritePlaces, Statuses
<1>2. CASE Goto("write_header") /\ UNCHANGED outVars
  <2>1. /\ pc' = "write_header" /\ status' = status /\ out' = out /\ pos' = pos
        /\ FileOK'
    BY <1>2, OutputFacts DEF Goto, outVars, FileOK
  <2> QED BY <1>1, <2>1, OutputFacts, WriteGoesOn DEF WritePlaces
<1>3. CASE RemoveAndExit("err_count")
  BY <1>1, <1>3, WriteGivesUp
<1> QED BY <1>2, <1>3 DEF CheckCount

LEMMA WriteHeaderInv == ASSUME IInv, WriteHeader PROVE IInv'
<1> DEFINE header == <<sizes[TEXT], sizes[DATA], sizes[RODATA], sizes[BSS],
                       ninty_count_real>>
<1>1. /\ pc \in WritePlaces /\ WriteFrame /\ i' = i /\ out' = out
      /\ pc' = "write_relocs" /\ status' = status
      /\ pos' = ovl_file_header_addr + HeaderSize
      /\ file' = WriteAt(ovl_file_header_addr, header)
  BY DEF WriteHeader, WritePlaces, Goto
<1>2. header \in Seq(Nat)
  BY OutputFacts DEF SectionIds, TEXT, DATA, RODATA, BSS
<1> HIDE DEF header
<1>3. FileOK'
  BY <1>1, <1>2, OutputFacts, WriteAtType
<1>4. pos' \in Nat /\ ovl_file_header_addr <= pos'
  BY <1>1, OutputFacts DEF HeaderSize
<1> QED BY <1>1, <1>3, <1>4, OutputFacts, WriteGoesOn DEF WritePlaces

(* No word of the table ends the writing of it early. *)
LEMMA WrittenTable ==
    ASSUME IInv
    PROVE  /\ WrittenRelocs = ninty_relocs
           /\ WrittenRelocs \in Seq(Nat) /\ Len(WrittenRelocs) \in Nat
<1>1. ninty_relocs \in Seq(Nat \ {0})
  BY DEF IInv, TypeOK, PassTypeOK
<1>2. \A q \in 1 .. Len(ninty_relocs) : ninty_relocs[q] # 0
  BY <1>1
<1>3. WrittenRelocs = ninty_relocs
  BY <1>2 DEF WrittenRelocs
<1> QED BY <1>1, <1>3

LEMMA WriteRelocsInv == ASSUME IInv, WriteRelocs PROVE IInv'
<1>1. /\ pc = "write_relocs" /\ WriteFrame /\ i' = i /\ out' = out
      /\ pc' = "write_footer" /\ status' = status
      /\ pos' = pos + 4 * Len(WrittenRelocs)
      /\ file' = WriteAt(pos, WrittenRelocs)
  BY DEF WriteRelocs, Goto
<1>2. FileOK'
  BY <1>1, WrittenTable, OutputFacts, WriteAtType
<1>3. ovl_file_header_addr <= pos
  BY <1>1 DEF IInv, Control
<1>4. pos' \in Nat /\ ovl_file_header_addr <= pos'
  BY <1>1, <1>3, WrittenTable, OutputFacts
<1> QED BY <1>1, <1>2, <1>4, OutputFacts, WriteGoesOn DEF WritePlaces

LEMMA WriteFooterInv == ASSUME IInv, WriteFooter PROVE IInv'
<1>1. /\ pc = "write_footer" /\ WriteFrame /\ i' = FooterPos /\ out' = out
      /\ pc' = "check_bss" /\ status' = status
      /\ pos' = FooterPos + FooterSize
      /\ file' = WriteAt(FooterPos, <<Backwards>>)
  BY DEF WriteFooter, Goto
<1>2. pos \in Nat /\ ovl_file_header_addr \in Nat /\ ovl_file_header_addr <= pos
  BY <1>1, OutputFacts DEF IInv, Control
<1>3. FooterPos \in Nat /\ pos <= FooterPos
  BY <1>2 DEF FooterPos
<1>4. Backwards \in Nat
  BY <1>2, <1>3 DEF Backwards
<1>5. FileOK'
  <2>1. <<Backwards>> \in Seq(Nat)
    BY <1>4
  <2> QED BY <1>1, <1>3, <2>1, OutputFacts, WriteAtType
<1>6. pos' \in Nat
  BY <1>1, <1>3 DEF FooterSize
<1> QED BY <1>1, <1>3, <1>5, <1>6, WriteGoesOn DEF WritePlaces

LEMMA CheckBssInv == ASSUME IInv, CheckBss PROVE IInv'
<1>1. pc \in WritePlaces /\ WriteFrame /\ "err_bss" \in Statuses
  BY DEF CheckBss, WritePlaces, Statuses
<1>2. CASE pos' = 0 /\ i' = 0 /\ Goto("write_section") /\ UNCHANGED <<out, file>>
  <2>1. /\ pc' = "write_section" /\ status' = status /\ out' = out /\ FileOK'
        /\ pos' \in Nat /\ i' \in Nat
    BY <1>2, OutputFacts DEF Goto, FileOK
  <2> QED BY <1>1, <2>1, WriteGoesOn DEF WritePlaces
<1>3. CASE RemoveAndExit("err_bss") /\ UNCHANGED i
  BY <1>1, <1>3, WriteGivesUp
<1> QED BY <1>2, <1>3 DEF CheckBss

LEMMA WriteSectionInv == ASSUME IInv, WriteSection PROVE IInv'
<1>1. /\ pc = "write_section" /\ pc \in WritePlaces /\ WriteFrame /\ i < BSS
      /\ "err_arrange" \in Statuses
  BY DEF WriteSection, WritePlaces, Statuses
<1>2. i \in {TEXT, DATA, RODATA} /\ i \in SectionIds
  BY <1>1, OutputFacts DEF BSS, TEXT, DATA, RODATA, SectionIds
<1>3. CASE /\ file' = WriteAt(pos, SectionImage(i))
           /\ pos' = pos + sizes[i]
           /\ i' = i + 1 /\ LiesInMemory(i)
           /\ UNCHANGED <<out, pc, status>>
  <2>1. \A k \in 1 .. (sizes[i] \div 4) : memory[PlaceOf(i, k)] \in Nat
    BY <1>3, Spans DEF IInv, TypeOK, LiesInMemory, EngineTypeOK, Words
  <2>2. sizes[i] \div 4 \in Nat
    BY <1>2, OutputFacts
  <2>3. SectionImage(i) \in [1 .. (sizes[i] \div 4) -> Nat]
    BY <2>1 DEF SectionImage
  <2>4. SectionImage(i) \in Seq(Nat)
    BY <2>2, <2>3
  <2>5. FileOK'
    BY <1>3, <2>4, OutputFacts, WriteAtType
  <2>6. pos' \in Nat /\ i' \in Nat
    BY <1>2, <1>3, OutputFacts
  <2> QED BY <1>1, <1>3, <2>5, <2>6, WriteGoesOn
<1>4. CASE RemoveAndExit("err_arrange") /\ UNCHANGED i
  BY <1>1, <1>4, WriteGivesUp
<1>5. CASE Goto("outside") /\ UNCHANGED <<outVars, i>>
  <2>1. /\ pc' = "outside" /\ status' = status /\ out' = out /\ pos' = pos /\ i' = i
        /\ FileOK'
    BY <1>5, OutputFacts DEF Goto, outVars, FileOK
  <2>2. i' \in Nat /\ pos' \in Nat
    BY <2>1, OutputFacts
  <2> QED BY <1>1, <2>1, <2>2, WriteGoesOn
<1> QED BY <1>3, <1>4, <1>5 DEF WriteSection

LEMMA CheckHeaderInv == ASSUME IInv, CheckHeader PROVE IInv'
<1>1. pc \in WritePlaces /\ WriteFrame /\ i' = i /\ "err_arrange" \in Statuses
  BY DEF CheckHeader, WritePlaces, Statuses
<1>2. CASE Goto("close") /\ UNCHANGED outVars
  <2>1. /\ pc' = "close" /\ status' = status /\ out' = out /\ pos' = pos
        /\ FileOK'
    BY <1>2, OutputFacts DEF Goto, outVars, FileOK
  <2> QED BY <1>1, <2>1, OutputFacts, WriteGoesOn DEF WritePlaces
<1>3. CASE RemoveAndExit("err_arrange")
  BY <1>1, <1>3, WriteGivesUp
<1> QED BY <1>2, <1>3 DEF CheckHeader

LEMMA CloseInv == ASSUME IInv, Close PROVE IInv'
<1>1. /\ pc \in WritePlaces /\ WriteFrame /\ i' = i /\ pos' = pos
      /\ out' \in {"untouched", "created", "removed", "written", "cut"}
      /\ Exit("ok") /\ "ok" \in Statuses
  BY DEF Close, WritePlaces, Statuses
<1>2. FileOK'
  <2>1. CASE file' = file
    BY <2>1, OutputFacts DEF FileOK
  <2>2. ASSUME NEW cut \in Kept,
               file' = [o \in {p \in DOMAIN file : p < cut} |-> file[o]]
        PROVE  FileOK'
    BY <2>2, OutputFacts DEF FileOK
  <2> QED BY <2>1, <2>2 DEF Close
<1>3. /\ EngineTypeOK' /\ PassTypeOK' /\ OutputTypeOK'
      /\ WellFormed(elf)' /\ (base_addr \in Words)'
  BY <1>1, <1>2, OutputFacts, WriteStep
<1> QED BY <1>1, <1>3, Exits DEF IInv, TypeOK

LEMMA StutterInv == ASSUME IInv, UNCHANGED vars PROVE IInv'
<1> USE DEF IInv, TypeOK, vars
<1>1. /\ EngineTypeOK' /\ PassTypeOK' /\ OutputTypeOK'
      /\ WellFormed(elf)' /\ (base_addr \in Words)'
  BY EngineFrame, PassFrame, OutputFrame, InputFrame DEF inputVars
<1>2. pc' = pc /\ status' = status /\ elf' = elf
  BY DEF inputVars
<1>3. OpenPairsInTable' /\ NoNullDereference' /\ SectionsInImage'
  <2>1. SectionsInImage'
    BY <1>2, ImageFrame DEF SectionsInImage, engineVars
  <2> QED BY <1>2, <2>1 DEF OpenPairsInTable, NoNullDereference, engineVars, tableVars
<1>4. Control'
  BY <1>2 DEF Control, Current, InImage, loopVars, tableVars, outVars
<1> QED BY <1>1, <1>2, <1>3, <1>4

-----------------------------------------------------------------------------
(***************************************************************************)
(* The invariant holds from the opening of the input to the exit.          *)
(***************************************************************************)
THEOREM Invariant == Spec => []IInv
<1>1. Init => IInv
  BY InitInv
<1>2. IInv /\ [Next]_vars => IInv'
  <2> SUFFICES ASSUME IInv, [Next]_vars
               PROVE  IInv'
    OBVIOUS
  <2>1. CASE Open \/ CreateFails \/ Create
    BY <2>1, OpenInv, CreateFailsInv, CreateInv
  <2>2. CASE LoadSkip \/ LoadDuplicate \/ LoadSection \/ LoadEnd
    BY <2>2, LoadSkipInv, LoadDuplicateInv, LoadSectionInv, LoadEndInv
  <2>3. CASE CountScan \/ CountSort \/ CountEntry \/ CountNext \/ CountEnd
    BY <2>3, CountScanInv, CountSortInv, CountEntryInv, CountNextInv, CountEndInv
  <2>4. CASE Layout
    BY <2>4, LayoutInv
  <2>5. CASE RelocScan \/ RelocSort \/ RelocEntry \/ RelocNext \/ RelocEnd
    BY <2>5, RelocScanInv, RelocSortInv, RelocEntryInv, RelocNextInv, RelocEndInv
  <2>6. CASE CheckCount \/ WriteHeader \/ WriteRelocs \/ WriteFooter \/ CheckBss
    BY <2>6, CheckCountInv, WriteHeaderInv, WriteRelocsInv, WriteFooterInv, CheckBssInv
  <2>7. CASE WriteSection \/ CheckHeader \/ Close
    BY <2>7, WriteSectionInv, CheckHeaderInv, CloseInv
  <2>8. CASE Exited \/ UNCHANGED vars
    BY <2>8, StutterInv DEF Exited
  <2> QED BY <2>1, <2>2, <2>3, <2>4, <2>5, <2>6, <2>7, <2>8 DEF Next
<1> QED BY <1>1, <1>2, PTL DEF Spec

(***************************************************************************)
(* The variables keep their types; in particular the table always has the  *)
(* number of words that has been counted, and none of them is zero, so     *)
(* that the loop that writes it (novl-conv.c:541) reaches its end.         *)
(***************************************************************************)
THEOREM TypeCorrect == Spec => []TypeOK
<1>1. IInv => TypeOK
  BY DEF IInv
<1> QED BY <1>1, Invariant, PTL

(***************************************************************************)
(* The second pass never goes back from a null pointer (novl-conv.c:479),  *)
(* whatever the relocations, their order and their registers: the table of *)
(* a section has a word for every HI16 that may still be dropped.          *)
(***************************************************************************)
THEOREM NoNull == Spec => [](NoNullDereference /\ OpenPairsInTable)
<1>1. IInv => NoNullDereference /\ OpenPairsInTable
  BY DEF IInv
<1> QED BY <1>1, Invariant, PTL

(***************************************************************************)
(* The overlay is filled from the image alone, for all ELF files: fwrite   *)
(* (novl-conv.c:600) leaves memory[] for no section but one that the check *)
(* of the bounds (novl-conv.c:216-232) does not look at or does not see    *)
(* the rounded end of.                                                     *)
(***************************************************************************)
LEMMA OnlyWritingLeaves ==
    ASSUME IInv, [Next]_vars, pc' = "outside"
    PROVE  UNCHANGED <<elf, i>> /\ (pc = "outside" \/ (WriteSection /\ ~LiesInMemory(i)))
<1>1. ASSUME \/ Open \/ CreateFails \/ Create
             \/ LoadSkip \/ LoadDuplicate \/ LoadSection \/ LoadEnd PROVE FALSE
  BY <1>1 DEF Open, CreateFails, Create, LoadSkip, LoadDuplicate, LoadSection, LoadEnd,
              Goto, Exit
<1>2. ASSUME CountScan \/ CountSort \/ CountEntry \/ CountNext \/ CountEnd PROVE FALSE
  BY <1>2 DEF CountScan, CountSort, CountEntry, CountNext, CountEnd, ScanSkips, ScanFinds,
              SortInserts, SortEnds, ListEnds, Goto, Exit
<1>3. ASSUME Layout \/ RelocScan \/ RelocSort \/ RelocNext \/ RelocEnd PROVE FALSE
  BY <1>3 DEF Layout, RelocScan, RelocSort, RelocNext, RelocEnd, ScanSkips, ScanFinds,
              SortInserts, SortEnds, ListEnds, Goto, Exit
<1>4. ASSUME RelocEntry PROVE FALSE
  BY <1>4 DEF RelocEntry, Goto, Exit
<1>5. ASSUME CheckCount \/ WriteHeader \/ WriteRelocs \/ WriteFooter \/ CheckBss
             \/ CheckHeader \/ Close PROVE FALSE
  BY <1>5 DEF CheckCount, WriteHeader, WriteRelocs, WriteFooter, CheckBss, CheckHeader, Close,
              RemoveAndExit, Goto, Exit
<1>6. CASE WriteSection
  BY <1>6 DEF WriteSection, WriteFrame, inputVars, RemoveAndExit, Exit
<1>7. CASE Exited \/ UNCHANGED vars
  BY <1>7 DEF Exited, vars, inputVars, loopVars
<1> QED BY <1>1, <1>2, <1>3, <1>4, <1>5, <1>6, <1>7 DEF Next

THEOREM WritesImage == Spec => []ReadsInImage
<1>1. Init => ReadsInImage
  BY DEF Init, ReadsInImage
<1>2. IInv /\ ReadsInImage /\ [Next]_vars => ReadsInImage'
  <2> SUFFICES ASSUME IInv, ReadsInImage, [Next]_vars, pc' = "outside"
               PROVE  Unchecked(i)'
    BY DEF ReadsInImage
  <2>1. UNCHANGED <<elf, i>> /\ (pc = "outside" \/ (WriteSection /\ ~LiesInMemory(i)))
    BY OnlyWritingLeaves
  <2>2. Unchecked(i)' = Unchecked(i)
    BY <2>1 DEF LoadedSections, SectionIndex, Unchecked
  <2>3. CASE pc = "outside"
    BY <2>2, <2>3 DEF ReadsInImage
  <2>4. CASE WriteSection /\ ~LiesInMemory(i)
    <3>1. pc # "exit" /\ i \in {TEXT, DATA, RODATA}
      BY <2>4, OutputFacts DEF WriteSection, BSS, TEXT, DATA, RODATA, SectionIds
    <3> QED BY <2>2, <2>4, <3>1 DEF IInv, SectionsInImage
  <2> QED BY <2>1, <2>3, <2>4
<1> QED BY <1>1, <1>2, Invariant, PTL DEF Spec

-----------------------------------------------------------------------------
(***************************************************************************)
(* The overlay file.                                                       *)
(***************************************************************************)
Loading   == {"open", "create", "load"}
Counting  == {"count_scan", "count_sort", "count_do"}
Relocating == {"reloc_scan", "reloc_sort", "reloc_do"}

(* The places before the first byte is written. *)
Early == Loading \cup Counting \cup Relocating \cup {"layout", "check_count", "write_header"}

NothingWritten ==
    /\ pc \in Early => file = EmptyFile
    /\ pc = "exit" /\ status # "ok" => file = EmptyFile
    /\ pc # "exit" => status # "ok"

(* File offset of section s, and whether the sections below n are there. *)
OffsetOf(s) ==
    CASE s = TEXT   -> 0
      [] s = DATA   -> sizes[TEXT]
      [] s = RODATA -> sizes[TEXT] + sizes[DATA]
      [] s = BSS    -> sizes[TEXT] + sizes[DATA] + sizes[RODATA]

ArrangedUpTo(n) == \A s \in 0 .. (n - 1) : ovl_starts[s] = base_addr + OffsetOf(s)

SectionsPlaced == i <= BSS /\ pos = OffsetOf(i) /\ ArrangedUpTo(i)
HeaderPlaced   == ovl_file_header_addr = OffsetOf(BSS) /\ ArrangedUpTo(BSS)

OneByOne ==
    /\ ovl_starts[TEXT] = base_addr
    /\ \A s \in {TEXT, DATA, RODATA} : ovl_starts[s] + sizes[s] <= ovl_starts[s + 1]

(* What the writing half has established at each place: the table and footer
   are behind the header, .bss is behind them, and the sections written so far
   are where the layout has put them. *)
Arranged ==
    /\ pc \in Relocating \cup WritePlaces => ovl_starts[TEXT] = base_addr
    /\ pc \in {"write_relocs", "write_footer", "check_bss"} =>
          ovl_file_header_addr + HeaderSize <= pos
    /\ pc \in {"write_section", "close"} =>
          base_addr + ovl_file_header_addr + HeaderSize <= ovl_starts[BSS]
    /\ pc = "write_section" => SectionsPlaced
    /\ pc = "close" => HeaderPlaced
    /\ status = "ok" => OneByOne

FileInv == NothingWritten /\ Arranged

-----------------------------------------------------------------------------
LEMMA InitFileInv == Init => FileInv
  BY DEF Init, FileInv, NothingWritten, Arranged, Relocating, WritePlaces

(* Any failure, with the file removed or never begun. *)
LEMMA FailFileInv ==
    ASSUME NEW why \in Statuses, why # "ok", Exit(why), file' = EmptyFile
    PROVE  FileInv'
  BY DEF Exit, FileInv, NothingWritten, Arranged, Early, Loading, Counting, Relocating,
         WritePlaces

(* The steps before the layout touch the file only to create it. *)
LEMMA EarlyFileInv ==
    ASSUME FileInv, pc \in Loading \cup Counting, status' = status,
           pc' \in Loading \cup Counting \cup {"layout"},
           file' = file \/ file' = EmptyFile
    PROVE  FileInv'
  BY DEF FileInv, NothingWritten, Arranged, Early, Loading, Counting, Relocating,
         WritePlaces

LEMMA LoadFileInv ==
    ASSUME FileInv,
           Open \/ CreateFails \/ Create \/ LoadSkip \/ LoadDuplicate \/ LoadSection
             \/ LoadEnd
    PROVE  FileInv'
<1>1. CASE /\ pc \in Loading /\ status' = status /\ pc' \in Loading \cup Counting
           /\ file' = file \/ file' = EmptyFile
  BY <1>1, EarlyFileInv
<1>2. CASE \E why \in Statuses : why # "ok" /\ Exit(why) /\ pc \in Loading /\ file' = file
  BY <1>2, FailFileInv DEF FileInv, NothingWritten, Early
<1>3. CASE Open
  BY <1>1, <1>2, <1>3 DEF Open, Goto, Loading, Statuses, outVars
<1>4. CASE CreateFails
  BY <1>2, <1>4 DEF CreateFails, Loading, Statuses, outVars
<1>5. CASE Create
  BY <1>1, <1>5 DEF Create, Goto, Loading
<1>6. CASE LoadSkip
  BY <1>1, <1>6 DEF LoadSkip, LoadFrame, Loading, outVars
<1>7. CASE LoadDuplicate
  BY <1>2, <1>7 DEF LoadDuplicate, LoadFrame, Loading, Statuses, outVars
<1>8. CASE LoadSection
  <2>1. pc = "load" /\ file' = file /\ (Goto("load") \/ Exit("err_bounds"))
    BY <1>8 DEF LoadSection, LoadFrame, outVars
  <2> QED BY <1>1, <1>2, <2>1 DEF Goto, Loading, Statuses
<1>9. CASE LoadEnd
  BY <1>1, <1>9 DEF LoadEnd, LoadFrame, Goto, Loading, Counting, outVars
<1> QED BY <1>3, <1>4, <1>5, <1>6, <1>7, <1>8, <1>9

LEMMA CountFileInv ==
    ASSUME FileInv, CountScan \/ CountSort \/ CountEntry \/ CountNext \/ CountEnd
    PROVE  FileInv'
<1>1. CASE /\ pc \in Counting /\ status' = status
           /\ pc' \in Counting \cup {"layout"} /\ file' = file
  BY <1>1, EarlyFileInv
<1>2. CASE Exit("err_reloc") /\ pc \in Counting /\ file' = file
  <2>1. "err_reloc" \in Statuses /\ file' = EmptyFile
    BY <1>2 DEF Statuses, FileInv, NothingWritten, Early
  <2> QED BY <1>2, <2>1, FailFileInv
<1>3. CASE CountScan
  BY <1>1, <1>3 DEF CountScan, ScanSkips, ScanFinds, Goto, CountFrame, Counting, outVars
<1>4. CASE CountSort
  BY <1>1, <1>4 DEF CountSort, SortInserts, SortEnds, Goto, CountFrame, Counting, outVars
<1>5. CASE CountEntry
  BY <1>1, <1>5 DEF CountEntry, Counting, outVars
<1>6. CASE CountNext
  BY <1>1, <1>6 DEF CountNext, ListEnds, Goto, CountFrame, Counting, outVars
<1>7. CASE CountEnd
  BY <1>1, <1>2, <1>7 DEF CountEnd, Goto, CountFrame, Counting, outVars
<1> QED BY <1>3, <1>4, <1>5, <1>6, <1>7

LEMMA LayoutFileInv == ASSUME FileInv, Layout PROVE FileInv'
<1>1. /\ pc = "layout" /\ pc' = "reloc_scan" /\ status' = status
      /\ file' = file /\ base_addr' = base_addr
      /\ ovl_starts' = [s \in SectionIds |->
                           CASE s = TEXT   -> base_addr
                             [] s = DATA   -> DataStart
                             [] s = RODATA -> RodataStart
                             [] s = BSS    -> BssStart]
  BY DEF Layout, Goto, outVars, inputVars
<1>2. ovl_starts'[TEXT] = base_addr
  BY <1>1 DEF SectionIds, TEXT, DATA, RODATA, BSS
<1> QED BY <1>1, <1>2 DEF FileInv, NothingWritten, Arranged, Early, Relocating,
                          WritePlaces

(* The second pass leaves the layout and the file alone. *)
LEMMA RelocFileInv ==
    ASSUME IInv', FileInv, RelocScan \/ RelocSort \/ RelocEntry \/ RelocNext \/ RelocEnd
    PROVE  FileInv'
<1>1. UNCHANGED <<file, ovl_starts, base_addr>>
  BY DEF RelocScan, RelocSort, RelocEntry, RelocNext, RelocEnd, RelocFrame, outVars,
         inputVars
<1>2. CASE /\ pc \in Relocating /\ status' = status
           /\ pc' \in Relocating \cup {"check_count"}
  BY <1>1, <1>2 DEF FileInv, NothingWritten, Arranged, Early, Relocating, WritePlaces
<1>3. CASE Exit("err_reloc") /\ pc \in Relocating
  <2>1. "err_reloc" \in Statuses /\ file' = EmptyFile
    BY <1>1, <1>3 DEF Statuses, FileInv, NothingWritten, Early
  <2> QED BY <1>3, <2>1, FailFileInv
<1>4. CASE RelocScan
  BY <1>2, <1>4 DEF RelocScan, ScanSkips, ScanFinds, Goto, Relocating
<1>5. CASE RelocSort
  BY <1>2, <1>5 DEF RelocSort, SortInserts, SortEnds, Goto, Relocating
<1>6. CASE RelocEntry
  <2>1. /\ pc = "reloc_do"
        /\ \/ Exit("err_reloc") \/ Goto("crashed")
           \/ pc' = pc /\ status' = status
    BY <1>6 DEF RelocEntry
  <2>2. pc' # "crashed"
    BY DEF IInv, NoNullDereference
  <2> QED BY <1>2, <1>3, <2>1, <2>2 DEF Goto, Relocating
<1>7. CASE RelocNext
  BY <1>2, <1>7 DEF RelocNext, ListEnds, Goto, Relocating
<1>8. CASE RelocEnd
  BY <1>2, <1>8 DEF RelocEnd, Goto, Relocating
<1> QED BY <1>4, <1>5, <1>6, <1>7, <1>8

-----------------------------------------------------------------------------
(* The writing half: sizes, layout and base address no longer change. *)
LEMMA GiveUpFileInv ==
    ASSUME NEW why \in Statuses, why # "ok", RemoveAndExit(why)
    PROVE  FileInv'
  BY FailFileInv DEF RemoveAndExit

LEMMA SameLayout ==
    ASSUME WriteFrame
    PROVE  /\ UNCHANGED <<sizes, ovl_starts, base_addr, ovl_file_header_addr>>
           /\ \A s : OffsetOf(s)' = OffsetOf(s)
           /\ \A n : ArrangedUpTo(n)' = ArrangedUpTo(n)
<1>1. UNCHANGED <<sizes, ovl_starts, base_addr, ovl_file_header_addr>>
  BY DEF WriteFrame, engineVars, inputVars
<1> QED BY <1>1 DEF OffsetOf, ArrangedUpTo

LEMMA HeaderFileInv ==
    ASSUME IInv, FileInv, CheckCount \/ WriteHeader \/ WriteRelocs \/ WriteFooter
    PROVE  FileInv'
<1>1. WriteFrame
  BY DEF CheckCount, WriteHeader, WriteRelocs, WriteFooter
<1>2. UNCHANGED <<sizes, ovl_starts, base_addr, ovl_file_header_addr>>
  BY <1>1, SameLayout
<1>3. pos \in Nat /\ ovl_file_header_addr \in Nat
  BY OutputFacts
<1>4. CASE CheckCount
  <2>1. CASE Goto("write_header") /\ UNCHANGED outVars
    BY <1>2, <1>4, <2>1 DEF CheckCount, Goto, outVars, FileInv, NothingWritten, Arranged,
       Early, Relocating, WritePlaces
  <2>2. CASE RemoveAndExit("err_count")
    BY <2>2, GiveUpFileInv DEF Statuses
  <2> QED BY <1>4, <2>1, <2>2 DEF CheckCount
<1>5. ASSUME pc \in WritePlaces, status' = status,
             pc' \in {"write_relocs", "write_footer", "check_bss"},
             ovl_file_header_addr + HeaderSize <= pos'
      PROVE  FileInv'
  BY <1>2, <1>5 DEF FileInv, NothingWritten, Arranged, Early, Loading, Counting,
     Relocating, WritePlaces
<1>6. CASE WriteHeader
  <2>1. pc = "write_header" /\ pc' = "write_relocs" /\ status' = status
        /\ pos' = ovl_file_header_addr + HeaderSize
    BY <1>6 DEF WriteHeader, Goto
  <2>2. ovl_file_header_addr + HeaderSize <= pos'
    BY <1>3, <2>1 DEF HeaderSize
  <2> QED BY <1>5, <2>1, <2>2 DEF WritePlaces
<1>7. CASE WriteRelocs
  <2>1. /\ pc = "write_relocs" /\ pc' = "write_footer" /\ status' = status
        /\ pos' = pos + 4 * Len(WrittenRelocs)
    BY <1>7 DEF WriteRelocs, Goto
  <2>2. Len(WrittenRelocs) \in Nat
    BY WrittenTable
  <2>3. ovl_file_header_addr + HeaderSize <= pos
    BY <2>1 DEF FileInv, Arranged
  <2>4. ovl_file_header_addr + HeaderSize <= pos'
    BY <1>3, <2>1, <2>2, <2>3 DEF HeaderSize
  <2> QED BY <1>5, <2>1, <2>4 DEF WritePlaces
<1>8. CASE WriteFooter
  <2>1. /\ pc = "write_footer" /\ pc' = "check_bss" /\ status' = status
        /\ pos' = FooterPos + FooterSize
    BY <1>8 DEF WriteFooter, Goto
  <2>2. pos <= FooterPos /\ FooterPos \in Nat
    BY <1>3 DEF FooterPos
  <2>3. ovl_file_header_addr + HeaderSize <= pos
    BY <2>1 DEF FileInv, Arranged
  <2>4. ovl_file_header_addr + HeaderSize <= pos'
    BY <1>3, <2>1, <2>2, <2>3 DEF HeaderSize, FooterSize
  <2> QED BY <1>5, <2>1, <2>4 DEF WritePlaces
<1> QED BY <1>4, <1>6, <1>7, <1>8

LEMMA CheckBssFileInv == ASSUME IInv, FileInv, CheckBss PROVE FileInv'
<1>1. WriteFrame /\ pc = "check_bss"
  BY DEF CheckBss
<1>2. UNCHANGED <<sizes, ovl_starts, base_addr, ovl_file_header_addr>>
  BY <1>1, SameLayout
<1>3. pos \in Nat /\ ovl_file_header_addr \in Nat /\ base_addr \in Nat
  BY OutputFacts, Spans DEF IInv, TypeOK, Words
<1>4. CASE InPlace(BSS) /\ pos' = 0 /\ i' = 0 /\ Goto("write_section")
  <2>1. pc' = "write_section" /\ status' = status /\ status # "ok"
    BY <1>1, <1>4 DEF Goto, FileInv, NothingWritten
  <2>2. base_addr + ovl_file_header_addr + HeaderSize <= ovl_starts[BSS]
    BY <1>1, <1>3, <1>4 DEF InPlace, FileInv, Arranged, HeaderSize
  <2>3. ovl_starts[TEXT] = base_addr
    BY <1>1 DEF FileInv, Arranged, WritePlaces
  <2>4. NothingWritten'
    BY <2>1 DEF NothingWritten, Early, Loading, Counting, Relocating
  <2>5. SectionsPlaced'
    BY <1>4 DEF SectionsPlaced, OffsetOf, ArrangedUpTo, TEXT, DATA, RODATA, BSS
  <2>6. Arranged'
    BY <1>2, <2>1, <2>2, <2>3, <2>5 DEF Arranged
  <2> QED BY <2>4, <2>6 DEF FileInv
<1>5. CASE RemoveAndExit("err_bss")
  BY <1>5, GiveUpFileInv DEF Statuses
<1> QED BY <1>4, <1>5 DEF CheckBss

LEMMA WriteSectionFileInv == ASSUME IInv, FileInv, WriteSection PROVE FileInv'
<1>1. WriteFrame /\ pc = "write_section" /\ i < BSS
  BY DEF WriteSection
<1>2. /\ UNCHANGED <<sizes, ovl_starts, base_addr, ovl_file_header_addr>>
      /\ \A s : OffsetOf(s)' = OffsetOf(s)
      /\ \A n : ArrangedUpTo(n)' = ArrangedUpTo(n)
  BY <1>1, SameLayout
<1>3. pos \in Nat /\ i \in Nat /\ base_addr \in Nat /\ \A s \in SectionIds : sizes[s] \in Nat
  BY OutputFacts, Spans DEF IInv, TypeOK, Words
<1>4. pos = OffsetOf(i) /\ ArrangedUpTo(i)
      /\ base_addr + ovl_file_header_addr + HeaderSize <= ovl_starts[BSS]
      /\ ovl_starts[TEXT] = base_addr /\ status # "ok"
  BY <1>1 DEF FileInv, Arranged, NothingWritten, WritePlaces, SectionsPlaced
<1>5. CASE /\ InPlace(i) /\ pos' = pos + sizes[i] /\ i' = i + 1
           /\ UNCHANGED <<pc, status>>
  <2>1. i \in {TEXT, DATA, RODATA}
    BY <1>1, <1>3 DEF BSS, TEXT, DATA, RODATA
  <2>2. i + 1 <= BSS /\ pos' = OffsetOf(i + 1)
    BY <1>3, <1>4, <1>5, <2>1 DEF OffsetOf, SectionIds, BSS, TEXT, DATA, RODATA
  <2>3. ovl_starts[i] = base_addr + OffsetOf(i)
    BY <1>3, <1>4, <1>5 DEF InPlace
  <2>4. ArrangedUpTo(i + 1)
    <3> SUFFICES ASSUME NEW s \in 0 .. i
                 PROVE  ovl_starts[s] = base_addr + OffsetOf(s)
      BY <1>3 DEF ArrangedUpTo
    <3>1. CASE s = i
      BY <2>3, <3>1
    <3>2. CASE s # i
      <4>1. s \in 0 .. (i - 1)
        BY <1>3, <3>2
      <4> QED BY <1>4, <4>1 DEF ArrangedUpTo
    <3> QED BY <3>1, <3>2
  <2>5. NothingWritten'
    BY <1>1, <1>4, <1>5 DEF NothingWritten, Early, Loading, Counting, Relocating
  <2>6. SectionsPlaced'
    BY <1>2, <1>5, <2>2, <2>4 DEF SectionsPlaced, OffsetOf, ArrangedUpTo
  <2>7. Arranged'
    BY <1>1, <1>2, <1>4, <1>5, <2>6 DEF Arranged
  <2> QED BY <2>5, <2>7 DEF FileInv
<1>6. CASE RemoveAndExit("err_arrange")
  BY <1>6, GiveUpFileInv DEF Statuses
<1>7. CASE Goto("outside")
  <2>1. pc' = "outside" /\ status' # "ok"
    BY <1>4, <1>7 DEF Goto
  <2> QED BY <2>1 DEF FileInv, NothingWritten, Arranged, Early, Loading, Counting, Relocating,
                      WritePlaces
<1> QED BY <1>5, <1>6, <1>7 DEF WriteSection

LEMMA CloseFileInv ==
    ASSUME IInv, FileInv, CheckHeader \/ Close
    PROVE  FileInv'
<1>1. WriteFrame /\ i' = i
  BY DEF CheckHeader, Close
<1>2. UNCHANGED <<sizes, ovl_starts, base_addr, ovl_file_header_addr>>
  BY <1>1, SameLayout
<1>3. pos \in Nat /\ i \in Nat /\ base_addr \in Nat /\ \A s \in SectionIds : sizes[s] \in Nat
  BY OutputFacts, Spans DEF IInv, TypeOK, Words
<1>4. CASE CheckHeader
  <2>1. CASE ovl_file_header_addr = pos /\ Goto("close")
    <3>1. pc = "write_section" /\ i = BSS /\ pc' = "close" /\ status' = status
      BY <1>4, <2>1 DEF CheckHeader, Goto
    <3>2. /\ HeaderPlaced /\ ovl_starts[TEXT] = base_addr
          /\ base_addr + ovl_file_header_addr + HeaderSize <= ovl_starts[BSS]
          /\ status # "ok"
      BY <2>1, <3>1 DEF FileInv, Arranged, NothingWritten, SectionsPlaced, HeaderPlaced,
                        WritePlaces
    <3>3. HeaderPlaced'
      BY <1>2, <3>2 DEF HeaderPlaced, OffsetOf, ArrangedUpTo
    <3>4. Arranged'
      BY <1>2, <3>1, <3>2, <3>3 DEF Arranged
    <3>5. NothingWritten'
      BY <3>1, <3>2 DEF NothingWritten, Early, Loading, Counting, Relocating
    <3> QED BY <3>4, <3>5 DEF FileInv
  <2>2. CASE RemoveAndExit("err_arrange")
    BY <2>2, GiveUpFileInv DEF Statuses
  <2> QED BY <1>4, <2>1, <2>2 DEF CheckHeader
<1>5. CASE Close
  <2>1. pc = "close" /\ pc' = "exit" /\ status' = "ok"
    BY <1>5 DEF Close, Exit
  <2>2. /\ HeaderPlaced /\ ovl_starts[TEXT] = base_addr
        /\ base_addr + ovl_file_header_addr + HeaderSize <= ovl_starts[BSS]
    BY <2>1 DEF FileInv, Arranged, WritePlaces
  <2>3. /\ sizes[TEXT] \in Nat /\ sizes[DATA] \in Nat /\ sizes[RODATA] \in Nat
        /\ ovl_file_header_addr = sizes[TEXT] + sizes[DATA] + sizes[RODATA]
    BY <1>3, <2>2 DEF HeaderPlaced, OffsetOf, SectionIds, TEXT, DATA, RODATA, BSS
  <2>4. /\ ovl_starts[DATA] = base_addr + sizes[TEXT]
        /\ ovl_starts[RODATA] = base_addr + (sizes[TEXT] + sizes[DATA])
    BY <2>2 DEF HeaderPlaced, ArrangedUpTo, OffsetOf, TEXT, DATA, RODATA, BSS
  <2>5. ovl_starts[BSS] \in Nat
    BY Spans DEF IInv, TypeOK, EngineTypeOK, Words, SectionIds, BSS
  <2>6. \A s \in {TEXT, DATA, RODATA} : ovl_starts[s] + sizes[s] <= ovl_starts[s + 1]
    BY <1>3, <2>2, <2>3, <2>4, <2>5 DEF TEXT, DATA, RODATA, BSS, HeaderSize
  <2>7. OneByOne'
    BY <1>2, <2>2, <2>6 DEF OneByOne
  <2>8. Arranged' /\ NothingWritten'
    BY <2>1, <2>7 DEF Arranged, NothingWritten, Early, Loading, Counting, Relocating,
                      WritePlaces
  <2> QED BY <2>8 DEF FileInv
<1> QED BY <1>4, <1>5

LEMMA StutterFileInv == ASSUME FileInv, UNCHANGED vars PROVE FileInv'
<1>1. UNCHANGED <<pc, status, file, pos, i, sizes, ovl_starts, base_addr,
                  ovl_file_header_addr>>
  BY DEF vars, engineVars, inputVars, loopVars, outVars
<1>2. SectionsPlaced' = SectionsPlaced /\ HeaderPlaced' = HeaderPlaced
  BY <1>1 DEF SectionsPlaced, HeaderPlaced, OffsetOf, ArrangedUpTo
<1>3. OneByOne' = OneByOne
  BY <1>1 DEF OneByOne
<1> QED BY <1>1, <1>2, <1>3 DEF FileInv, NothingWritten, Arranged

-----------------------------------------------------------------------------
(***************************************************************************)
(* Together with the invariant of NovlConvProofs, FileInv is inductive.    *)
(***************************************************************************)
THEOREM FileInvariant == Spec => []FileInv
<1>1. Init => FileInv
  BY InitFileInv
<1>2. IInv /\ IInv' /\ FileInv /\ [Next]_vars => FileInv'
  <2> SUFFICES ASSUME IInv, IInv', FileInv, [Next]_vars
               PROVE  FileInv'
    OBVIOUS
  <2>1. CASE \/ Open \/ CreateFails \/ Create \/ LoadSkip \/ LoadDuplicate
             \/ LoadSection \/ LoadEnd
    BY <2>1, LoadFileInv
  <2>2. CASE CountScan \/ CountSort \/ CountEntry \/ CountNext \/ CountEnd
    BY <2>2, CountFileInv
  <2>3. CASE Layout
    BY <2>3, LayoutFileInv
  <2>4. CASE RelocScan \/ RelocSort \/ RelocEntry \/ RelocNext \/ RelocEnd
    BY <2>4, RelocFileInv
  <2>5. CASE CheckCount \/ WriteHeader \/ WriteRelocs \/ WriteFooter
    BY <2>5, HeaderFileInv
  <2>6. CASE CheckBss \/ WriteSection
    BY <2>6, CheckBssFileInv, WriteSectionFileInv
  <2>7. CASE CheckHeader \/ Close
    BY <2>7, CloseFileInv
  <2>8. CASE Exited \/ UNCHANGED vars
    BY <2>8, StutterFileInv DEF Exited
  <2> QED BY <2>1, <2>2, <2>3, <2>4, <2>5, <2>6, <2>7, <2>8 DEF Next
<1> QED BY <1>1, <1>2, Invariant, PTL DEF Spec

(***************************************************************************)
(* A conversion that fails leaves no piece of an overlay behind: every     *)
(* failure comes before the first byte or removes the file                 *)
(* (novl-conv.c:511-610).                                                  *)
(***************************************************************************)
THEOREM NoPieceLeft == Spec => []FailureLeavesNoPiece
<1>1. FileInv => FailureLeavesNoPiece
  BY DEF FileInv, NothingWritten, FailureLeavesNoPiece
<1> QED BY <1>1, FileInvariant, PTL

-----------------------------------------------------------------------------
(***************************************************************************)
(* The layout made from the prediction is the layout of the file: with a   *)
(* base address that is a multiple of 16 and room in the address space,    *)
(* .bss starts exactly where the written file ends, whatever the sizes and *)
(* the number of relocations.                                              *)
(***************************************************************************)
Fits == base_addr % 16 = 0 /\ RoomInAddressSpace /\ ninty_count_pred >= 0

TableEnd == OffsetOf(BSS) + HeaderSize + 4 * ninty_count_pred

(* The layout without the wrapping of 32-bit arithmetic. *)
Unwrapped ==
    /\ ovl_file_header_addr = OffsetOf(BSS)
    /\ ArrangedUpTo(BSS)
    /\ ovl_starts[BSS] = RoundUp16(base_addr + TableEnd + FooterSize)

TablePlaces == {"write_header", "write_relocs", "write_footer", "check_bss",
                "write_section", "close"}

(* Where the writing is, and that no check against it can fail. *)
LayoutInvariant ==
    /\ pc \in Relocating \cup WritePlaces /\ Fits => Unwrapped
    /\ pc \in TablePlaces => ninty_count_pred >= 0
    /\ pc \in TablePlaces => ninty_count_pred = ninty_count_real
    /\ pc = "write_relocs" => pos = ovl_file_header_addr + HeaderSize
    /\ pc = "write_footer" =>
          pos = ovl_file_header_addr + HeaderSize + 4 * ninty_count_pred
    /\ pc = "check_bss" /\ Fits => base_addr + pos = ovl_starts[BSS]
    /\ pc # "exit" => status \notin {"err_bss", "err_arrange"}
    /\ PlacesPredicted

-----------------------------------------------------------------------------
LEMMA SizeFacts ==
    ASSUME IInv
    PROVE  /\ base_addr \in Nat
           /\ sizes[TEXT] \in Nat /\ sizes[DATA] \in Nat
           /\ sizes[RODATA] \in Nat /\ sizes[BSS] \in Nat
           /\ ninty_count_pred \in Int
  BY OutputFacts, Spans
     DEF IInv, TypeOK, PassTypeOK, Words, SectionIds, TEXT, DATA, RODATA, BSS

LEMMA OffsetFacts ==
    /\ OffsetOf(TEXT) = 0 /\ OffsetOf(DATA) = sizes[TEXT]
    /\ OffsetOf(RODATA) = sizes[TEXT] + sizes[DATA]
    /\ OffsetOf(BSS) = sizes[TEXT] + sizes[DATA] + sizes[RODATA]
  BY DEF OffsetOf, TEXT, DATA, RODATA, BSS

(* The sums of the layout, none of which wraps. *)
LEMMA NothingWraps ==
    ASSUME IInv, Fits
    PROVE  /\ DataStart = base_addr + OffsetOf(DATA)
           /\ RodataStart = base_addr + OffsetOf(RODATA)
           /\ HeaderStart = base_addr + OffsetOf(BSS)
           /\ (HeaderStart - base_addr) % Word = OffsetOf(BSS)
           /\ BssStart = RoundUp16(base_addr + TableEnd + FooterSize)
<1> DEFINE t == sizes[TEXT]
           d == sizes[DATA]
           r == sizes[RODATA]
           b == sizes[BSS]
           n == ninty_count_pred
<1>1. base_addr \in Nat /\ t \in Nat /\ d \in Nat /\ r \in Nat /\ b \in Nat /\ n \in Nat
  BY SizeFacts DEF Fits
<1>2. base_addr + t + d + r + 20 + 4 * n + 4 + 15 + b < Word
  BY DEF Fits, RoomInAddressSpace, HeaderSize, FooterSize
<1>3. Word \in Nat \ {0}
  BY Spans
<1> HIDE DEF t, d, r, b, n
<1>4. DataStart = base_addr + t
  BY <1>1, <1>2, <1>3, SmallMod DEF DataStart, t
<1>5. RodataStart = base_addr + t + d
  BY <1>1, <1>2, <1>3, <1>4, SmallMod DEF RodataStart, d
<1>6. HeaderStart = base_addr + t + d + r
  <2>1. base_addr + t + d + r \in Nat /\ base_addr + t + d + r < Word
    BY <1>1, <1>2, <1>3
  <2>2. HeaderStart = (base_addr + t + d + r) % Word
    BY <1>5 DEF HeaderStart, r
  <2> QED BY <1>3, <2>1, <2>2, SmallMod
<1>7. (HeaderStart - base_addr) % Word = t + d + r
  <2>1. HeaderStart - base_addr = t + d + r
    BY <1>1, <1>6
  <2>2. t + d + r \in Nat /\ t + d + r < Word
    BY <1>1, <1>2, <1>3
  <2> QED BY <1>3, <2>1, <2>2, SmallMod
<1> DEFINE e == base_addr + t + d + r + 20 + 4 * n + 4
<1>8. e \in Nat /\ e < Word /\ e % Word = e
  <2>1. e \in Nat /\ e < Word
    BY <1>1, <1>2, <1>3
  <2> QED BY <1>3, <2>1, SmallMod
<1>9. RoundUp16(e) \in Nat /\ RoundUp16(e) < Word
  BY <1>1, <1>2, <1>3 DEF RoundUp16
<1>10. HeaderStart + HeaderSize + 4 * n + FooterSize = e
  BY <1>1, <1>6 DEF HeaderSize, FooterSize
<1>11. BssStart = RoundUp16(e) % Word
  BY <1>8, <1>10 DEF BssStart, n
<1>12. RoundUp16(e) % Word = RoundUp16(e)
  BY <1>3, <1>9, SmallMod
<1>13. base_addr + TableEnd + FooterSize = e
  BY <1>1, OffsetFacts DEF TableEnd, HeaderSize, FooterSize, t, d, r, n
<1>14. /\ OffsetOf(DATA) = t /\ OffsetOf(RODATA) = t + d
       /\ OffsetOf(BSS) = t + d + r
  BY OffsetFacts DEF t, d, r
<1> HIDE DEF e
<1>15. base_addr + t + d = base_addr + (t + d)
       /\ base_addr + t + d + r = base_addr + (t + d + r)
  BY <1>1
<1> QED BY <1>4, <1>5, <1>6, <1>7, <1>11, <1>12, <1>13, <1>14, <1>15

(* The footer closes the line of 16 bytes the rounding of the layout ends. *)
LEMMA FooterRounds ==
    ASSUME NEW base \in Nat, base % 16 = 0, NEW p \in Nat
    PROVE  base + (IF (p + 4) % 16 = 0 THEN p ELSE p - ((p + 4) % 16) + 16) + 4
             = RoundUp16(base + p + 4)
<1> DEFINE q == base \div 16
           m == (p + 4) % 16
           k == (p + 4) \div 16
<1>1. q \in Nat /\ base = 16 * q
  OBVIOUS
<1>2. m \in 0 .. 15 /\ k \in Nat /\ p + 4 = 16 * k + m
  OBVIOUS
<1> HIDE DEF q, k
<1>3. CASE m = 0
  BY <1>1, <1>2, <1>3 DEF RoundUp16
<1>4. CASE m # 0
  <2>1. RoundUp16(base + p + 4) = 16 * (q + k + 1)
    BY <1>1, <1>2, <1>4 DEF RoundUp16
  <2> QED BY <1>1, <1>2, <1>4, <2>1
<1> QED BY <1>3, <1>4

-----------------------------------------------------------------------------
LEMMA InitLayout == Init => LayoutInvariant
  BY DEF Init, LayoutInvariant, Relocating, WritePlaces, TablePlaces, PlacesPredicted

(* Before the layout there is nothing to show, nor after a failure that is no
   failure of the layout. *)
LEMMA NoLayoutYet ==
    ASSUME LayoutInvariant, pc # "exit", status' = status \/ status' \notin {"err_bss", "err_arrange"},
           pc' \in Loading \cup Counting \cup {"layout", "exit"}
    PROVE  LayoutInvariant'
  BY DEF LayoutInvariant, Loading, Counting, Relocating, WritePlaces, TablePlaces,
         PlacesPredicted

LEMMA LoadLayout ==
    ASSUME LayoutInvariant,
           Open \/ CreateFails \/ Create \/ LoadSkip \/ LoadDuplicate \/ LoadSection
             \/ LoadEnd
    PROVE  LayoutInvariant'
<1>1. /\ pc # "exit" /\ pc' \in Loading \cup Counting \cup {"layout", "exit"}
      /\ status' = status \/ status' \notin {"err_bss", "err_arrange"}
  BY DEF Open, CreateFails, Create, LoadSkip, LoadDuplicate, LoadSection, LoadEnd,
         Goto, Exit, Loading, Counting
<1> QED BY <1>1, NoLayoutYet

LEMMA CountLayout ==
    ASSUME LayoutInvariant, CountScan \/ CountSort \/ CountEntry \/ CountNext \/ CountEnd
    PROVE  LayoutInvariant'
<1>1. /\ pc # "exit" /\ pc' \in Loading \cup Counting \cup {"layout", "exit"}
      /\ status' = status \/ status' \notin {"err_bss", "err_arrange"}
  BY DEF CountScan, CountSort, CountEntry, CountNext, CountEnd, ScanSkips, ScanFinds,
         SortInserts, SortEnds, ListEnds, Goto, Exit, Counting
<1> QED BY <1>1, NoLayoutYet

(* A step that leaves alone what the layout depends on. *)
Steady == UNCHANGED <<sizes, ovl_starts, base_addr, ovl_file_header_addr,
                      ninty_count_pred>>

LEMMA SteadyLayout ==
    ASSUME Steady
    PROVE  Fits' = Fits /\ Unwrapped' = Unwrapped /\ (RoomInAddressSpace' = RoomInAddressSpace)
<1>1. RoomInAddressSpace' = RoomInAddressSpace
  BY DEF Steady, RoomInAddressSpace
<1>2. Fits' = Fits
  BY <1>1 DEF Fits, Steady
<1>3. Unwrapped' = Unwrapped
  BY DEF Steady, Unwrapped, TableEnd, OffsetOf, ArrangedUpTo
<1> QED BY <1>1, <1>2, <1>3

LEMMA LayoutLayout == ASSUME IInv, LayoutInvariant, Layout PROVE LayoutInvariant'
<1>1. /\ pc = "layout" /\ pc' = "reloc_scan" /\ status' = status
      /\ UNCHANGED <<sizes, base_addr, ninty_count_pred>>
      /\ ovl_file_header_addr' = (HeaderStart - base_addr) % Word
      /\ ovl_starts' = [s \in SectionIds |->
                           CASE s = TEXT   -> base_addr
                             [] s = DATA   -> DataStart
                             [] s = RODATA -> RodataStart
                             [] s = BSS    -> BssStart]
  BY DEF Layout, Goto, inputVars, countVars
<1>2. /\ ovl_starts'[TEXT] = base_addr /\ ovl_starts'[DATA] = DataStart
      /\ ovl_starts'[RODATA] = RodataStart /\ ovl_starts'[BSS] = BssStart
  BY <1>1 DEF SectionIds, TEXT, DATA, RODATA, BSS
<1>3. Fits' = Fits
  BY <1>1 DEF Fits, RoomInAddressSpace
<1>4. ASSUME Fits PROVE Unwrapped'
  <2>1. ovl_file_header_addr' = OffsetOf(BSS)'
    BY <1>1, <1>4, NothingWraps DEF OffsetOf
  <2>2. ArrangedUpTo(BSS)'
    <3>1. ovl_starts'[TEXT] = base_addr + 0
      BY <1>2, SizeFacts
    <3>2. /\ ovl_starts'[DATA] = base_addr + sizes[TEXT]
          /\ ovl_starts'[RODATA] = base_addr + (sizes[TEXT] + sizes[DATA])
      BY <1>2, <1>4, NothingWraps, OffsetFacts
    <3>3. base_addr' = base_addr /\ sizes' = sizes
      BY <1>1
    <3> SUFFICES ASSUME NEW s \in 0 .. (BSS - 1)
                 PROVE  ovl_starts'[s] = base_addr' + OffsetOf(s)'
      BY DEF ArrangedUpTo
    <3>4. CASE s = TEXT
      BY <3>1, <3>3, <3>4 DEF OffsetOf, TEXT, DATA, RODATA, BSS
    <3>5. CASE s = DATA
      BY <3>2, <3>3, <3>5 DEF OffsetOf, TEXT, DATA, RODATA, BSS
    <3>6. CASE s = RODATA
      BY <3>2, <3>3, <3>6 DEF OffsetOf, TEXT, DATA, RODATA, BSS
    <3> QED BY <3>4, <3>5, <3>6 DEF TEXT, DATA, RODATA, BSS
  <2>3. ovl_starts'[BSS] = RoundUp16(base_addr + TableEnd + FooterSize)
    BY <1>2, <1>4, NothingWraps
  <2>4. TableEnd' = TableEnd
    BY <1>1 DEF TableEnd, OffsetOf
  <2> QED BY <1>1, <2>1, <2>2, <2>3, <2>4 DEF Unwrapped
<1> QED BY <1>1, <1>3, <1>4 DEF LayoutInvariant, TablePlaces, PlacesPredicted

LEMMA RelocLayout ==
    ASSUME IInv', LayoutInvariant,
           RelocScan \/ RelocSort \/ RelocEntry \/ RelocNext \/ RelocEnd
    PROVE  LayoutInvariant'
<1>1. Steady
  BY DEF RelocScan, RelocSort, RelocEntry, RelocNext, RelocEnd, RelocFrame, inputVars,
         countVars, Steady
<1>2. pc' # "crashed"
  BY DEF IInv, NoNullDereference
<1>3. /\ pc \in Relocating /\ pc' \in Relocating \cup {"check_count", "exit"}
      /\ status' = status \/ status' \notin {"err_bss", "err_arrange"}
  BY <1>2 DEF RelocScan, RelocSort, RelocEntry, RelocNext, RelocEnd, ScanSkips, ScanFinds,
              SortInserts, SortEnds, ListEnds, Goto, Exit, Relocating
<1> QED BY <1>1, <1>3, SteadyLayout
        DEF LayoutInvariant, Relocating, WritePlaces, TablePlaces, PlacesPredicted

(* The writing half: a step that goes on, and one that gives up. *)
LEMMA WriteSteady ==
    ASSUME WriteFrame
    PROVE  Steady /\ ninty_count_real' = ninty_count_real
  BY DEF WriteFrame, Steady, engineVars, inputVars, countVars, tableVars

LEMMA GoesOnLayout ==
    ASSUME LayoutInvariant, WriteFrame, pc \in WritePlaces, pc' \in TablePlaces,
           status' = status, ninty_count_pred >= 0, ninty_count_pred = ninty_count_real,
           pc' = "write_relocs" => pos' = ovl_file_header_addr + HeaderSize,
           pc' = "write_footer" =>
              pos' = ovl_file_header_addr + HeaderSize + 4 * ninty_count_pred,
           pc' = "check_bss" /\ Fits => base_addr + pos' = ovl_starts[BSS]
    PROVE  LayoutInvariant'
<1>1. Steady /\ ninty_count_real' = ninty_count_real
  BY WriteSteady
<1>2. Fits' = Fits /\ Unwrapped' = Unwrapped
  BY <1>1, SteadyLayout
<1>3. pc # "exit" /\ pc' # "exit"
  BY DEF WritePlaces, TablePlaces
<1> QED BY <1>1, <1>2, <1>3 DEF LayoutInvariant, WritePlaces, PlacesPredicted, Steady

LEMMA GivesUpLayout ==
    ASSUME LayoutInvariant, NEW why \in Statuses, Exit(why),
           why \notin {"err_bss", "err_arrange"}
    PROVE  LayoutInvariant'
  BY DEF LayoutInvariant, Exit, Relocating, WritePlaces, TablePlaces, PlacesPredicted

LEMMA TableLayout ==
    ASSUME IInv, LayoutInvariant, CheckCount \/ WriteHeader \/ WriteRelocs \/ WriteFooter
    PROVE  LayoutInvariant'
<1>1. WriteFrame /\ pos \in Nat /\ ovl_file_header_addr \in Nat
  BY OutputFacts DEF CheckCount, WriteHeader, WriteRelocs, WriteFooter
<1>2. CASE CheckCount
  <2>1. CASE ninty_count_pred = ninty_count_real /\ Goto("write_header")
    <3>1. ninty_count_pred >= 0
      BY <2>1, OutputFacts
    <3> QED BY <1>1, <1>2, <2>1, <3>1, GoesOnLayout
            DEF CheckCount, Goto, WritePlaces, TablePlaces
  <2>2. CASE RemoveAndExit("err_count")
    BY <2>2, GivesUpLayout DEF RemoveAndExit, Statuses
  <2> QED BY <1>2, <2>1, <2>2 DEF CheckCount
<1>3. pc \in TablePlaces => ninty_count_pred >= 0 /\ ninty_count_pred = ninty_count_real
  BY DEF LayoutInvariant
<1>4. CASE WriteHeader
  <2>1. /\ pc = "write_header" /\ pc' = "write_relocs" /\ status' = status
        /\ pos' = ovl_file_header_addr + HeaderSize
    BY <1>4 DEF WriteHeader, Goto
  <2> QED BY <1>1, <1>3, <2>1, GoesOnLayout DEF WritePlaces, TablePlaces
<1>5. CASE WriteRelocs
  <2>1. /\ pc = "write_relocs" /\ pc' = "write_footer" /\ status' = status
        /\ pos' = pos + 4 * Len(WrittenRelocs)
    BY <1>5 DEF WriteRelocs, Goto
  <2>2. Len(WrittenRelocs) = ninty_count_pred
    BY <1>3, <2>1, WrittenTable DEF TablePlaces, IInv, TypeOK, PassTypeOK
  <2>3. pos = ovl_file_header_addr + HeaderSize
    BY <2>1 DEF LayoutInvariant
  <2> QED BY <1>1, <1>3, <2>1, <2>2, <2>3, GoesOnLayout DEF WritePlaces, TablePlaces
<1>6. CASE WriteFooter
  <2>1. /\ pc = "write_footer" /\ pc' = "check_bss" /\ status' = status
        /\ pos' = FooterPos + FooterSize
    BY <1>6 DEF WriteFooter, Goto
  <2>2. pos = ovl_file_header_addr + HeaderSize + 4 * ninty_count_pred
    BY <2>1 DEF LayoutInvariant
  <2>3. ASSUME Fits PROVE base_addr + pos' = ovl_starts[BSS]
    <3>1. Unwrapped
      BY <2>1, <2>3 DEF LayoutInvariant, WritePlaces
    <3>2. pos = TableEnd /\ ovl_starts[BSS] = RoundUp16(base_addr + TableEnd + FooterSize)
      BY <2>2, <3>1 DEF Unwrapped, TableEnd
    <3>3. base_addr \in Nat /\ base_addr % 16 = 0
      BY <2>3, SizeFacts DEF Fits
    <3>4. base_addr + FooterPos + 4 = RoundUp16(base_addr + pos + 4)
      BY <1>1, <3>3, FooterRounds DEF FooterPos
    <3>5. FooterPos \in Nat
      BY <1>1 DEF FooterPos
    <3> QED BY <2>1, <3>2, <3>3, <3>4, <3>5 DEF FooterSize
  <2> QED BY <1>1, <1>3, <2>1, <2>3, GoesOnLayout DEF WritePlaces, TablePlaces
<1> QED BY <1>2, <1>4, <1>5, <1>6

LEMMA SectionsLayout ==
    ASSUME IInv, FileInv, LayoutInvariant, CheckBss \/ WriteSection \/ CheckHeader
    PROVE  LayoutInvariant'
<1>1. /\ WriteFrame /\ pos \in Nat /\ i \in Nat /\ pc \in WritePlaces
      /\ pc \in {"check_bss", "write_section"}
  BY OutputFacts DEF CheckBss, WriteSection, CheckHeader, WritePlaces
<1>2. ninty_count_pred >= 0 /\ ninty_count_pred = ninty_count_real
  BY <1>1 DEF LayoutInvariant, TablePlaces
<1>3. Fits' = Fits /\ (RoomInAddressSpace' = RoomInAddressSpace) /\ base_addr' = base_addr
  BY <1>1, WriteSteady, SteadyLayout DEF Steady
<1>4. base_addr % 16 = 0 /\ RoomInAddressSpace => Fits
  BY <1>2 DEF Fits
<1>5. CASE pc' = "write_section" \/ pc' = "close"
  <2>1. status' = status
    BY <1>1, <1>5 DEF CheckBss, WriteSection, CheckHeader, Goto, RemoveAndExit, Exit
  <2> QED BY <1>1, <1>2, <1>5, <2>1, GoesOnLayout DEF TablePlaces
<1>6. CASE ~Fits /\ \E why : Exit(why)
  <2>1. PlacesPredicted'
    BY <1>3, <1>4, <1>6 DEF PlacesPredicted
  <2> QED BY <1>6, <2>1
          DEF LayoutInvariant, Exit, Relocating, WritePlaces, TablePlaces
<1>7. CASE CheckBss /\ ~InPlace(BSS)
  <2>1. pc = "check_bss" /\ Exit("err_bss")
    BY <1>7 DEF CheckBss, RemoveAndExit
  <2>2. ~Fits
    BY <1>1, <1>7, <2>1, SizeFacts DEF LayoutInvariant, InPlace
  <2> QED BY <1>6, <2>1, <2>2
<1>8. CASE WriteSection /\ ~InPlace(i)
  <2>1. pc = "write_section" /\ i < BSS /\ Exit("err_arrange")
    BY <1>8 DEF WriteSection, RemoveAndExit
  <2>2. pos = OffsetOf(i) /\ ovl_starts[i] # pos + base_addr
    BY <1>8, <2>1 DEF FileInv, Arranged, SectionsPlaced, InPlace
  <2>3. i \in 0 .. (BSS - 1)
    BY <1>1, <2>1 DEF BSS
  <2>4. ~ArrangedUpTo(BSS)
    BY <1>1, <2>2, <2>3, SizeFacts DEF ArrangedUpTo
  <2>5. ~Fits
    BY <2>1, <2>4 DEF LayoutInvariant, Unwrapped, WritePlaces
  <2> QED BY <1>6, <2>1, <2>5
<1>9. CASE CheckHeader /\ ovl_file_header_addr # pos
  <2>1. pc = "write_section" /\ i = BSS /\ Exit("err_arrange")
    BY <1>9 DEF CheckHeader, RemoveAndExit
  <2>2. ovl_file_header_addr # OffsetOf(BSS)
    BY <1>9, <2>1 DEF FileInv, Arranged, SectionsPlaced
  <2>3. ~Fits
    BY <2>1, <2>2 DEF LayoutInvariant, Unwrapped, WritePlaces
  <2> QED BY <1>6, <2>1, <2>3
<1>10. CASE CheckBss /\ InPlace(BSS)
  BY <1>5, <1>10 DEF CheckBss, Goto
<1>11. CASE WriteSection /\ InPlace(i)
  <2>1. CASE pc' = pc /\ pc = "write_section"
    BY <1>5, <2>1
  <2>2. CASE Goto("outside")
    <3>1. pc # "exit" /\ status \notin {"err_bss", "err_arrange"}
      BY <1>1 DEF LayoutInvariant, WritePlaces
    <3>2. pc' = "outside" /\ status' \notin {"err_bss", "err_arrange"}
      BY <2>2, <3>1 DEF Goto
    <3> QED BY <3>2 DEF LayoutInvariant, Relocating, WritePlaces, TablePlaces, PlacesPredicted
  <2> QED BY <1>11, <2>1, <2>2 DEF WriteSection
<1>12. CASE CheckHeader /\ ovl_file_header_addr = pos
  BY <1>5, <1>12 DEF CheckHeader, Goto
<1> QED BY <1>7, <1>8, <1>9, <1>10, <1>11, <1>12

LEMMA CloseLayout == ASSUME LayoutInvariant, Close PROVE LayoutInvariant'
<1>1. Exit("ok")
  BY DEF Close
<1> QED BY <1>1, GivesUpLayout DEF Statuses

LEMMA StutterLayout == ASSUME LayoutInvariant, UNCHANGED vars PROVE LayoutInvariant'
<1>1. UNCHANGED <<pc, status, pos, base_addr, ninty_count_pred, ninty_count_real,
                  ovl_file_header_addr>> /\ Steady
  BY DEF vars, engineVars, inputVars, countVars, tableVars, outVars, Steady
<1> QED BY <1>1, SteadyLayout DEF LayoutInvariant, PlacesPredicted, Steady

-----------------------------------------------------------------------------
(* With the two invariants before it, LayoutInvariant is inductive. *)
THEOREM LayoutInvariance == Spec => []LayoutInvariant
<1>1. Init => LayoutInvariant
  BY InitLayout
<1>2. IInv /\ IInv' /\ FileInv /\ LayoutInvariant /\ [Next]_vars => LayoutInvariant'
  <2> SUFFICES ASSUME IInv, IInv', FileInv, LayoutInvariant, [Next]_vars
               PROVE  LayoutInvariant'
    OBVIOUS
  <2>1. CASE \/ Open \/ CreateFails \/ Create \/ LoadSkip \/ LoadDuplicate
             \/ LoadSection \/ LoadEnd
    BY <2>1, LoadLayout
  <2>2. CASE CountScan \/ CountSort \/ CountEntry \/ CountNext \/ CountEnd
    BY <2>2, CountLayout
  <2>3. CASE Layout
    BY <2>3, LayoutLayout
  <2>4. CASE RelocScan \/ RelocSort \/ RelocEntry \/ RelocNext \/ RelocEnd
    BY <2>4, RelocLayout
  <2>5. CASE CheckCount \/ WriteHeader \/ WriteRelocs \/ WriteFooter
    BY <2>5, TableLayout
  <2>6. CASE CheckBss \/ WriteSection \/ CheckHeader
    BY <2>6, SectionsLayout
  <2>7. CASE Close
    BY <2>7, CloseLayout
  <2>8. CASE Exited \/ UNCHANGED vars
    BY <2>8, StutterLayout DEF Exited
  <2> QED BY <2>1, <2>2, <2>3, <2>4, <2>5, <2>6, <2>7, <2>8 DEF Next
<1> QED BY <1>1, <1>2, Invariant, FileInvariant, PTL DEF Spec

(***************************************************************************)
(* The checks against ftell() never fail for a base address that is a      *)
(* multiple of 16 with room behind it: what novl-conv.c:361-374 predicts   *)
(* is where lines 520-610 write, for every number of relocations.          *)
(***************************************************************************)
THEOREM LayoutPredicted == Spec => []PlacesPredicted
<1>1. LayoutInvariant => PlacesPredicted
  BY DEF LayoutInvariant
<1> QED BY <1>1, LayoutInvariance, PTL

-----------------------------------------------------------------------------
(***************************************************************************)
(* What the file contains once it is written, told from the header's place *)
(* and the table: Padded is where the footer goes behind a table that ends *)
(* at p.                                                                   *)
(***************************************************************************)
Padded(p) == IF (p + 4) % 16 = 0 THEN p ELSE p - ((p + 4) % 16) + 16

TableStart  == ovl_file_header_addr + HeaderSize
FooterPlace == Padded(TableStart + 4 * ninty_count_real)

Holding(o, word) == o \in DOMAIN file /\ file[o] = word

HeaderThere ==
    /\ \A s \in SectionIds : Holding(ovl_file_header_addr + 4 * s, sizes[s])
    /\ Holding(ovl_file_header_addr + 16, ninty_count_real)

TableThere ==
    \A q \in 1 .. ninty_count_real :
        Holding(TableStart + 4 * (q - 1), ninty_relocs[q])

FooterThere == Holding(FooterPlace, FooterPlace + 4 - ovl_file_header_addr)

EndsBefore(end) == \A o \in DOMAIN file : o < end

Whole ==
    /\ HeaderThere /\ TableThere /\ FooterThere
    /\ EndsBefore(FooterPlace + 1)

BssBehind == ovl_starts[BSS] = base_addr + FooterPlace + 4

(* The sections are written last and lie before the header when it is where
   they end; where it is not, the conversion is given up. *)
Contents ==
    /\ pc = "write_relocs" => HeaderThere /\ EndsBefore(TableStart)
    /\ pc = "write_footer" =>
          HeaderThere /\ TableThere /\ EndsBefore(TableStart + 4 * ninty_count_real)
    /\ pc = "check_bss" => Whole /\ pos = FooterPlace + 4
    /\ pc = "write_section" => BssBehind
    /\ pc = "write_section" /\ ovl_file_header_addr = OffsetOf(BSS) => Whole
    /\ pc = "close" => Whole /\ BssBehind
    /\ status = "ok" /\ out = "written" =>
          Whole /\ BssBehind /\ ovl_file_header_addr = OffsetOf(BSS)

-----------------------------------------------------------------------------
(* What a write leaves in the file. *)
LEMMA Written ==
    ASSUME FileOK, NEW where \in Nat, NEW words \in Seq(Nat),
           file' = WriteAt(where, words)
    PROVE  /\ \A o \in DOMAIN file' :
                 o \in DOMAIN file \/ \E k \in 1 .. Len(words) : o = where + 4 * (k - 1)
           /\ \A o \in DOMAIN file : o < where \/ where + 4 * Len(words) <= o =>
                 o \in DOMAIN file' /\ file'[o] = file[o]
           /\ \A k \in 1 .. Len(words) :
                 where + 4 * (k - 1) \in DOMAIN file' /\ file'[where + 4 * (k - 1)] = words[k]
<1> DEFINE written == {where + 4 * (k - 1) : k \in 1 .. Len(words)}
<1>1. Len(words) \in Nat
  OBVIOUS
<1>2. \A o \in written : where <= o /\ o < where + 4 * Len(words)
  <2> SUFFICES ASSUME NEW k \in 1 .. Len(words)
               PROVE  where <= where + 4 * (k - 1) /\ where + 4 * (k - 1) < where + 4 * Len(words)
    OBVIOUS
  <2> QED BY <1>1
<1>3. \A k \in 1 .. Len(words) : where + 4 * (k - 1) \in written
  OBVIOUS
<1> HIDE DEF written
<1>4. file' = [o \in DOMAIN file \cup written |->
                 IF o \in written THEN words[(o - where) \div 4 + 1] ELSE file[o]]
  BY DEF WriteAt, written
<1>5. \A o \in DOMAIN file : o < where \/ where + 4 * Len(words) <= o =>
                 o \in DOMAIN file' /\ file'[o] = file[o]
  <2> SUFFICES ASSUME NEW o \in DOMAIN file, o < where \/ where + 4 * Len(words) <= o
               PROVE  o \in DOMAIN file' /\ file'[o] = file[o]
    OBVIOUS
  <2>1. o \in Nat
    BY DEF FileOK
  <2>2. o \notin written
    BY <1>1, <1>2, <2>1
  <2> QED BY <1>4, <2>2
<1>6. ASSUME NEW k \in 1 .. Len(words)
      PROVE  where + 4 * (k - 1) \in DOMAIN file' /\ file'[where + 4 * (k - 1)] = words[k]
  <2>1. where + 4 * (k - 1) \in written
    BY <1>3
  <2>2. ((where + 4 * (k - 1)) - where) \div 4 + 1 = k
    BY <1>1
  <2> QED BY <1>4, <2>1, <2>2
<1>7. \A o \in DOMAIN file' : o \in DOMAIN file \/ \E k \in 1 .. Len(words) : o = where + 4 * (k - 1)
  BY <1>4 DEF written
<1> QED BY <1>5, <1>6, <1>7

(* A word that has been written stays when the file grows behind or before it. *)
LEMMA HoldingStays ==
    ASSUME FileOK, NEW where \in Nat, NEW words \in Seq(Nat),
           file' = WriteAt(where, words),
           NEW o, NEW word, Holding(o, word), o < where \/ where + 4 * Len(words) <= o
    PROVE  o \in DOMAIN file' /\ file'[o] = word
  BY Written DEF Holding

LEMMA Ending ==
    ASSUME FileOK, NEW where \in Nat, NEW words \in Seq(Nat),
           file' = WriteAt(where, words), NEW end \in Nat, EndsBefore(end), end <= where
    PROVE  \A o \in DOMAIN file' : o < where + 4 * Len(words)
<1> SUFFICES ASSUME NEW o \in DOMAIN file'
             PROVE  o < where + 4 * Len(words)
  OBVIOUS
<1>1. Len(words) \in Nat
  OBVIOUS
<1>2. CASE o \in DOMAIN file
  <2>1. o \in Nat /\ o < end
    BY <1>2 DEF EndsBefore, FileOK
  <2> QED BY <1>1, <2>1
<1>3. CASE o \notin DOMAIN file
  <2>1. PICK k \in 1 .. Len(words) : o = where + 4 * (k - 1)
    BY <1>3, Written
  <2> QED BY <1>1, <2>1
<1> QED BY <1>2, <1>3

(* The footer ends a line of 16 bytes behind the table. *)
LEMMA PaddedPlace ==
    ASSUME NEW p \in Nat
    PROVE  Padded(p) \in Nat /\ p <= Padded(p) /\ (Padded(p) + 4) % 16 = 0
<1> DEFINE m == (p + 4) % 16
           k == (p + 4) \div 16
<1>1. m \in 0 .. 15 /\ k \in Nat /\ p + 4 = 16 * k + m
  OBVIOUS
<1>2. Padded(p) = IF m = 0 THEN p ELSE p - m + 16
  BY DEF Padded
<1> HIDE DEF m, k
<1>3. CASE m = 0
  BY <1>1, <1>2, <1>3
<1>4. CASE m # 0
  <2>1. Padded(p) + 4 = 16 * (k + 1)
    BY <1>1, <1>2, <1>4
  <2> QED BY <1>1, <1>2, <1>4, <2>1
<1> QED BY <1>3, <1>4

LEMMA PlaceFacts ==
    ASSUME IInv
    PROVE  /\ TableStart \in Nat /\ TableStart = ovl_file_header_addr + 20
           /\ FooterPlace \in Nat /\ TableStart + 4 * ninty_count_real <= FooterPlace
           /\ (FooterPlace + 4) % 16 = 0
<1>1. ovl_file_header_addr \in Nat /\ ninty_count_real \in Nat
  BY OutputFacts
<1> QED BY <1>1, PaddedPlace DEF TableStart, HeaderSize, FooterPlace

-----------------------------------------------------------------------------
LEMMA InitContents == Init => Contents
  BY DEF Init, Contents

ContentPlaces == {"write_relocs", "write_footer", "check_bss", "write_section", "close"}

(* A step to any other place, other than a finished conversion. *)
LEMMA NoContents ==
    ASSUME pc' \notin ContentPlaces, status' # "ok"
    PROVE  Contents'
  BY DEF Contents, ContentPlaces

(* Every step before the header is written is such a step. *)
LEMMA EarlyContents ==
    ASSUME FileInv, IInv',
           \/ Open \/ CreateFails \/ Create \/ LoadSkip \/ LoadDuplicate
           \/ LoadSection \/ LoadEnd
           \/ CountScan \/ CountSort \/ CountEntry \/ CountNext \/ CountEnd
           \/ Layout \/ RelocScan \/ RelocSort \/ RelocEntry \/ RelocNext \/ RelocEnd
           \/ CheckCount
    PROVE  Contents'
<1>1. pc # "exit" => status # "ok"
  BY DEF FileInv, NothingWritten
<1>2. CASE Open \/ CreateFails \/ Create \/ LoadSkip \/ LoadDuplicate \/ LoadSection
             \/ LoadEnd
  BY <1>1, <1>2, NoContents
     DEF Open, CreateFails, Create, LoadSkip, LoadDuplicate, LoadSection, LoadEnd,
         Goto, Exit, ContentPlaces
<1>3. CASE CountScan \/ CountSort \/ CountEntry \/ CountNext \/ CountEnd \/ Layout
  BY <1>1, <1>3, NoContents
     DEF CountScan, CountSort, CountEntry, CountNext, CountEnd, Layout, ScanSkips,
         ScanFinds, SortInserts, SortEnds, ListEnds, Goto, Exit, ContentPlaces
<1>4. CASE RelocScan \/ RelocSort \/ RelocEntry \/ RelocNext \/ RelocEnd \/ CheckCount
  BY <1>1, <1>4, NoContents
     DEF RelocScan, RelocSort, RelocEntry, RelocNext, RelocEnd, CheckCount, ScanSkips,
         ScanFinds, SortInserts, SortEnds, ListEnds, Goto, Exit, RemoveAndExit,
         ContentPlaces
<1> QED BY <1>2, <1>3, <1>4

LEMMA GiveUpContents ==
    ASSUME NEW why, why # "ok", RemoveAndExit(why)
    PROVE  Contents'
  BY NoContents DEF RemoveAndExit, Exit, ContentPlaces

LEMMA SamePlaces ==
    ASSUME WriteFrame
    PROVE  /\ UNCHANGED <<sizes, ovl_starts, base_addr, ovl_file_header_addr,
                          ninty_relocs, ninty_count_real>>
           /\ TableStart' = TableStart /\ FooterPlace' = FooterPlace
           /\ OffsetOf(BSS)' = OffsetOf(BSS) /\ (BssBehind' = BssBehind)
<1>1. UNCHANGED <<sizes, ovl_starts, base_addr, ovl_file_header_addr,
                  ninty_relocs, ninty_count_real>>
  BY DEF WriteFrame, engineVars, inputVars, tableVars
<1> QED BY <1>1 DEF TableStart, FooterPlace, OffsetOf, BssBehind, Padded

LEMMA HeaderContents ==
    ASSUME IInv, FileInv, WriteHeader
    PROVE  Contents'
<1> DEFINE header == <<sizes[TEXT], sizes[DATA], sizes[RODATA], sizes[BSS],
                       ninty_count_real>>
<1>1. /\ pc = "write_header" /\ pc' = "write_relocs" /\ status' = status /\ WriteFrame
      /\ file' = WriteAt(ovl_file_header_addr, header)
  BY DEF WriteHeader, Goto
<1>2. file = EmptyFile /\ status # "ok"
  BY <1>1 DEF FileInv, NothingWritten, Early
<1>3. header \in Seq(Nat) /\ Len(header) = 5
  BY OutputFacts DEF SectionIds, TEXT, DATA, RODATA, BSS
<1>4. /\ header[1] = sizes[0] /\ header[2] = sizes[1] /\ header[3] = sizes[2]
      /\ header[4] = sizes[3] /\ header[5] = ninty_count_real
  BY DEF TEXT, DATA, RODATA, BSS
<1> HIDE DEF header
<1>5. FileOK /\ ovl_file_header_addr \in Nat
  BY OutputFacts
<1> DEFINE h == ovl_file_header_addr
<1>6. /\ \A o \in DOMAIN file' :
            o \in DOMAIN file \/ \E k \in 1 .. Len(header) : o = h + 4 * (k - 1)
      /\ \A k \in 1 .. Len(header) :
            h + 4 * (k - 1) \in DOMAIN file' /\ file'[h + 4 * (k - 1)] = header[k]
  BY <1>1, <1>3, <1>5, Written
<1>7. HeaderThere'
  <2>1. /\ h + 0 \in DOMAIN file' /\ file'[h + 0] = sizes[0]
        /\ h + 4 \in DOMAIN file' /\ file'[h + 4] = sizes[1]
        /\ h + 8 \in DOMAIN file' /\ file'[h + 8] = sizes[2]
        /\ h + 12 \in DOMAIN file' /\ file'[h + 12] = sizes[3]
        /\ h + 16 \in DOMAIN file' /\ file'[h + 16] = ninty_count_real
    <3>1. 4 * (1 - 1) = 0 /\ 4 * (2 - 1) = 4 /\ 4 * (3 - 1) = 8 /\ 4 * (4 - 1) = 12
          /\ 4 * (5 - 1) = 16
      OBVIOUS
    <3>2. 1 \in 1 .. 5 /\ 2 \in 1 .. 5 /\ 3 \in 1 .. 5 /\ 4 \in 1 .. 5 /\ 5 \in 1 .. 5
      OBVIOUS
    <3> HIDE DEF h
    <3> QED BY <1>3, <1>4, <1>6, <3>1, <3>2
  <2>2. UNCHANGED <<sizes, h, ninty_count_real>>
    BY <1>1, SamePlaces
  <2>3. \A s \in SectionIds : h + 4 * s \in DOMAIN file' /\ file'[h + 4 * s] = sizes[s]
    <3> SUFFICES ASSUME NEW s \in SectionIds
                 PROVE  h + 4 * s \in DOMAIN file' /\ file'[h + 4 * s] = sizes[s]
      OBVIOUS
    <3>1. s \in {0, 1, 2, 3}
      BY DEF SectionIds
    <3>2. 4 * 0 = 0 /\ 4 * 1 = 4 /\ 4 * 2 = 8 /\ 4 * 3 = 12
      OBVIOUS
    <3> HIDE DEF h
    <3> QED BY <2>1, <3>1, <3>2
  <2> QED BY <2>1, <2>2, <2>3 DEF HeaderThere, Holding
<1>8. EndsBefore(TableStart)'
  <2>1. DOMAIN file = {}
    BY <1>2 DEF EmptyFile
  <2>2. \A o \in DOMAIN file' : o < h + 4 * 5
    <3> SUFFICES ASSUME NEW o \in DOMAIN file'
                 PROVE  o < h + 4 * 5
      OBVIOUS
    <3>1. PICK k \in 1 .. 5 : o = h + 4 * (k - 1)
      BY <1>3, <1>6, <2>1
    <3> QED BY <1>5, <3>1
  <2>3. TableStart' = TableStart /\ TableStart = h + 20
    BY <1>1, SamePlaces, PlaceFacts
  <2> QED BY <2>2, <2>3 DEF EndsBefore
<1> QED BY <1>1, <1>2, <1>7, <1>8 DEF Contents

(* The header stays when something is written behind or before it, and so does
   the table. *)
LEMMA HeaderStays ==
    ASSUME IInv, WriteFrame, HeaderThere, NEW where \in Nat, NEW words \in Seq(Nat),
           file' = WriteAt(where, words),
           \/ TableStart <= where
           \/ where + 4 * Len(words) <= ovl_file_header_addr
    PROVE  HeaderThere'
<1>1. /\ FileOK /\ ovl_file_header_addr \in Nat /\ Len(words) \in Nat
      /\ TableStart = ovl_file_header_addr + 20
  BY OutputFacts, PlaceFacts
<1>2. UNCHANGED <<sizes, ovl_file_header_addr, ninty_count_real>>
  BY SamePlaces
<1>3. ASSUME NEW n \in {0, 4, 8, 12, 16}, NEW word, Holding(ovl_file_header_addr + n, word)
      PROVE  /\ ovl_file_header_addr + n \in DOMAIN file'
             /\ file'[ovl_file_header_addr + n] = word
  <2>1. \/ ovl_file_header_addr + n < where
        \/ where + 4 * Len(words) <= ovl_file_header_addr + n
    BY <1>1
  <2> QED BY <1>1, <1>3, <2>1, HoldingStays
<1>4. \A s \in SectionIds : 4 * s \in {0, 4, 8, 12, 16}
  BY DEF SectionIds
<1> QED BY <1>2, <1>3, <1>4 DEF HeaderThere, Holding

LEMMA TableStays ==
    ASSUME IInv, WriteFrame, TableThere, NEW where \in Nat, NEW words \in Seq(Nat),
           file' = WriteAt(where, words),
           \/ TableStart + 4 * ninty_count_real <= where
           \/ where + 4 * Len(words) <= ovl_file_header_addr
    PROVE  TableThere'
<1>1. /\ FileOK /\ ovl_file_header_addr \in Nat /\ Len(words) \in Nat
      /\ TableStart = ovl_file_header_addr + 20 /\ ninty_count_real \in Nat
  BY OutputFacts, PlaceFacts
<1>2. UNCHANGED <<ninty_relocs, TableStart, ninty_count_real>>
  BY SamePlaces
<1> SUFFICES ASSUME NEW q \in 1 .. ninty_count_real
             PROVE  /\ TableStart + 4 * (q - 1) \in DOMAIN file'
                    /\ file'[TableStart + 4 * (q - 1)] = ninty_relocs[q]
  BY <1>2 DEF TableThere, Holding
<1>3. Holding(TableStart + 4 * (q - 1), ninty_relocs[q])
  BY DEF TableThere
<1>4. \/ TableStart + 4 * (q - 1) < where
      \/ where + 4 * Len(words) <= TableStart + 4 * (q - 1)
  BY <1>1
<1> QED BY <1>1, <1>3, <1>4, HoldingStays

LEMMA TableContents ==
    ASSUME IInv, FileInv, LayoutInvariant, Contents, WriteRelocs
    PROVE  Contents'
<1>1. /\ pc = "write_relocs" /\ pc' = "write_footer" /\ status' = status /\ WriteFrame
      /\ file' = WriteAt(pos, WrittenRelocs)
  BY DEF WriteRelocs, Goto
<1>2. status # "ok"
  BY <1>1 DEF FileInv, NothingWritten
<1>3. pos = TableStart /\ HeaderThere /\ EndsBefore(TableStart)
  BY <1>1 DEF LayoutInvariant, TableStart, Contents
<1>4. /\ WrittenRelocs = ninty_relocs /\ WrittenRelocs \in Seq(Nat)
      /\ Len(WrittenRelocs) = ninty_count_real
  BY WrittenTable DEF IInv, TypeOK, PassTypeOK
<1>5. FileOK /\ TableStart \in Nat
  BY OutputFacts, PlaceFacts
<1>6. HeaderThere'
  BY <1>1, <1>3, <1>4, <1>5, HeaderStays
<1>7. TableThere'
  <2>1. UNCHANGED <<ninty_relocs, TableStart, ninty_count_real>>
    BY <1>1, SamePlaces
  <2>2. \A q \in 1 .. ninty_count_real :
            /\ TableStart + 4 * (q - 1) \in DOMAIN file'
            /\ file'[TableStart + 4 * (q - 1)] = ninty_relocs[q]
    BY <1>1, <1>3, <1>4, <1>5, Written
  <2> QED BY <2>1, <2>2 DEF TableThere, Holding
<1>8. EndsBefore(TableStart + 4 * ninty_count_real)'
  <2>1. \A o \in DOMAIN file' : o < TableStart + 4 * ninty_count_real
    BY <1>1, <1>3, <1>4, <1>5, Ending
  <2>2. UNCHANGED <<TableStart, ninty_count_real>>
    BY <1>1, SamePlaces
  <2> QED BY <2>1, <2>2 DEF EndsBefore
<1> QED BY <1>1, <1>2, <1>6, <1>7, <1>8 DEF Contents

LEMMA FooterContents ==
    ASSUME IInv, FileInv, LayoutInvariant, Contents, WriteFooter
    PROVE  Contents'
<1>1. /\ pc = "write_footer" /\ pc' = "check_bss" /\ status' = status /\ WriteFrame
      /\ file' = WriteAt(FooterPos, <<Backwards>>) /\ pos' = FooterPos + FooterSize
  BY DEF WriteFooter, Goto
<1>2. status # "ok"
  BY <1>1 DEF FileInv, NothingWritten
<1> DEFINE end == TableStart + 4 * ninty_count_real
<1>3. pos = end /\ HeaderThere /\ TableThere /\ EndsBefore(end)
  BY <1>1 DEF LayoutInvariant, TablePlaces, TableStart, Contents
<1>4. FooterPos = FooterPlace
  BY <1>3 DEF FooterPos, FooterPlace, Padded
<1>5. /\ FileOK /\ FooterPlace \in Nat /\ end <= FooterPlace /\ end \in Nat
      /\ ovl_file_header_addr \in Nat /\ TableStart = ovl_file_header_addr + 20
      /\ ninty_count_real \in Nat
  BY OutputFacts, PlaceFacts
<1>6. Backwards = FooterPlace + 4 - ovl_file_header_addr
  BY <1>3, <1>4, <1>5 DEF Backwards
<1>7. <<Backwards>> \in Seq(Nat) /\ Len(<<Backwards>>) = 1
  <2>1. Backwards \in Nat
    BY <1>5, <1>6
  <2> QED BY <2>1
<1>8. HeaderThere' /\ TableThere'
  <2>1. file' = WriteAt(FooterPlace, <<Backwards>>) /\ TableStart <= FooterPlace
    BY <1>1, <1>4, <1>5
  <2>2. HeaderThere'
    BY <1>1, <1>3, <1>5, <1>7, <2>1, HeaderStays
  <2>3. TableThere'
    BY <1>1, <1>3, <1>5, <1>7, <2>1, TableStays
  <2> QED BY <2>2, <2>3
<1>9. UNCHANGED <<FooterPlace, ovl_file_header_addr>>
  BY <1>1, SamePlaces
<1>10. FooterThere'
  <2>1. FooterPlace + 4 * (1 - 1) \in DOMAIN file' /\ file'[FooterPlace + 4 * (1 - 1)] = Backwards
    <3> DEFINE words == <<Backwards>>
    <3>1. words[1] = Backwards /\ 1 \in 1 .. Len(words)
      BY <1>7
    <3> HIDE DEF words
    <3> QED BY <1>1, <1>4, <1>5, <1>7, <3>1, Written DEF words
  <2>2. FooterPlace + 4 * (1 - 1) = FooterPlace
    BY <1>5
  <2> QED BY <1>6, <1>9, <2>1, <2>2 DEF FooterThere, Holding
<1>11. EndsBefore(FooterPlace + 1)'
  <2> SUFFICES ASSUME NEW o \in DOMAIN file'
               PROVE  o < FooterPlace + 1
    BY <1>9 DEF EndsBefore
  <2>1. CASE o \in DOMAIN file
    <3>1. o < end /\ o \in Nat
      BY <1>3, <1>5, <2>1 DEF EndsBefore, FileOK
    <3> HIDE DEF end
    <3> QED BY <1>5, <3>1
  <2>2. CASE o \notin DOMAIN file
    <3>1. PICK k \in 1 .. 1 : o = FooterPlace + 4 * (k - 1)
      BY <1>1, <1>4, <1>5, <1>7, <2>2, Written
    <3> QED BY <1>5, <3>1
  <2> QED BY <2>1, <2>2
<1>12. pos' = FooterPlace' + 4
  BY <1>1, <1>4, <1>9 DEF FooterSize
<1> QED BY <1>1, <1>2, <1>8, <1>10, <1>11, <1>12 DEF Contents, Whole

LEMMA BssContents ==
    ASSUME IInv, FileInv, Contents, CheckBss
    PROVE  Contents'
<1>1. pc = "check_bss" /\ WriteFrame
  BY DEF CheckBss
<1>2. CASE RemoveAndExit("err_bss")
  BY <1>2, GiveUpContents
<1>3. CASE InPlace(BSS) /\ Goto("write_section") /\ UNCHANGED <<out, file>>
  <2>1. pc' = "write_section" /\ status' # "ok"
    BY <1>1, <1>3 DEF Goto, FileInv, NothingWritten
  <2>2. Whole /\ pos = FooterPlace + 4
    BY <1>1 DEF Contents
  <2>3. BssBehind'
    <3>1. ovl_starts[BSS] = pos + base_addr
      BY <1>3 DEF InPlace
    <3>2. base_addr \in Nat /\ FooterPlace \in Nat
      BY SizeFacts, PlaceFacts
    <3> QED BY <1>1, <2>2, <3>1, <3>2, SamePlaces DEF BssBehind
  <2>4. Whole'
    BY <1>1, <1>3, <2>2, SamePlaces
       DEF Whole, HeaderThere, TableThere, FooterThere, EndsBefore, Holding
  <2> QED BY <2>1, <2>3, <2>4 DEF Contents
<1> QED BY <1>2, <1>3 DEF CheckBss

(* The words of a section lie before the header. *)
LEMMA SectionContents ==
    ASSUME IInv, FileInv, Contents, WriteSection
    PROVE  Contents'
<1>1. pc = "write_section" /\ WriteFrame /\ i < BSS /\ i \in {TEXT, DATA, RODATA}
      /\ i \in SectionIds
  BY OutputFacts DEF WriteSection, BSS, TEXT, DATA, RODATA, SectionIds
<1>2. CASE RemoveAndExit("err_arrange")
  BY <1>2, GiveUpContents
<1>3. CASE /\ file' = WriteAt(pos, SectionImage(i)) /\ LiesInMemory(i)
           /\ UNCHANGED <<out, pc, status>>
  <2>1. pc' = "write_section" /\ status' # "ok"
    BY <1>1, <1>3 DEF FileInv, NothingWritten
  <2>2. BssBehind'
    BY <1>1, SamePlaces DEF Contents
  <2>3. ASSUME ovl_file_header_addr = OffsetOf(BSS)
        PROVE  Whole'
    <3>1. Whole
      BY <1>1, <2>3 DEF Contents
    <3>2. pos = OffsetOf(i) /\ pos \in Nat
      BY <1>1, OutputFacts DEF FileInv, Arranged, SectionsPlaced
    <3> DEFINE words == SectionImage(i)
    <3>3. words \in Seq(Nat) /\ Len(words) = sizes[i] \div 4 /\ sizes[i] \in Nat
      <4>1. \A k \in 1 .. (sizes[i] \div 4) : memory[PlaceOf(i, k)] \in Nat
        BY <1>3, Spans DEF IInv, TypeOK, LiesInMemory, EngineTypeOK, Words
      <4>2. sizes[i] \in Nat /\ sizes[i] \div 4 \in Nat
        BY <1>1, OutputFacts
      <4>3. words \in [1 .. (sizes[i] \div 4) -> Nat]
        BY <4>1 DEF SectionImage
      <4> QED BY <4>2, <4>3
    <3>4. pos + 4 * Len(words) <= ovl_file_header_addr
      <4>1. OffsetOf(i) + sizes[i] <= OffsetOf(BSS)
        BY <1>1, SizeFacts, OffsetFacts DEF TEXT, DATA, RODATA
      <4>2. 4 * (sizes[i] \div 4) <= sizes[i] /\ sizes[i] \div 4 \in Nat
        BY <3>3
      <4>3. OffsetOf(i) \in Nat /\ OffsetOf(BSS) \in Nat
        BY <2>3, <3>2, OutputFacts
      <4> HIDE DEF words
      <4> QED BY <2>3, <3>2, <3>3, <4>1, <4>2, <4>3
    <3> HIDE DEF words
    <3>5. file' = WriteAt(pos, words)
      BY <1>3 DEF words
    <3>6. HeaderThere' /\ TableThere'
      BY <1>1, <3>1, <3>2, <3>3, <3>4, <3>5, HeaderStays, TableStays DEF Whole
    <3>7. /\ FileOK /\ ovl_file_header_addr \in Nat /\ FooterPlace \in Nat
          /\ ovl_file_header_addr <= FooterPlace /\ Len(words) \in Nat
      BY SMTT(30), <3>3, OutputFacts, PlaceFacts
    <3>8. UNCHANGED <<FooterPlace, ovl_file_header_addr>>
      BY <1>1, SamePlaces
    <3>9. FooterThere'
      <4>1. Holding(FooterPlace, FooterPlace + 4 - ovl_file_header_addr)
        BY <3>1 DEF Whole, FooterThere
      <4>2. pos + 4 * Len(words) <= FooterPlace
        BY <3>2, <3>4, <3>7
      <4> QED BY <3>2, <3>3, <3>5, <3>7, <3>8, <4>1, <4>2, HoldingStays
              DEF FooterThere, Holding
    <3>10. EndsBefore(FooterPlace + 1)'
      <4> SUFFICES ASSUME NEW o \in DOMAIN file'
                   PROVE  o < FooterPlace + 1
        BY <3>8 DEF EndsBefore
      <4>1. CASE o \in DOMAIN file
        BY <3>1, <4>1 DEF Whole, EndsBefore
      <4>2. CASE o \notin DOMAIN file
        <5>1. PICK k \in 1 .. Len(words) : o = pos + 4 * (k - 1)
          BY <3>2, <3>3, <3>5, <3>7, <4>2, Written
        <5> QED BY <3>2, <3>4, <3>7, <5>1
      <4> QED BY <4>1, <4>2
    <3> QED BY <3>6, <3>9, <3>10 DEF Whole
  <2>4. OffsetOf(BSS)' = OffsetOf(BSS) /\ ovl_file_header_addr' = ovl_file_header_addr
    BY <1>1, SamePlaces
  <2> QED BY <2>1, <2>2, <2>3, <2>4 DEF Contents
<1>4. CASE Goto("outside")
  <2>1. pc' = "outside" /\ status' # "ok"
    BY <1>1, <1>4 DEF Goto, FileInv, NothingWritten
  <2> QED BY <2>1 DEF Contents
<1> QED BY <1>2, <1>3, <1>4 DEF WriteSection

LEMMA CheckHeaderContents ==
    ASSUME IInv, FileInv, Contents, CheckHeader
    PROVE  Contents'
<1>1. pc = "write_section" /\ WriteFrame /\ i = BSS
  BY DEF CheckHeader
<1>2. CASE RemoveAndExit("err_arrange")
  BY <1>2, GiveUpContents
<1>3. CASE ovl_file_header_addr = pos /\ Goto("close") /\ UNCHANGED outVars
  <2>1. pc' = "close" /\ status' # "ok" /\ file' = file
    BY <1>1, <1>3 DEF Goto, FileInv, NothingWritten, outVars
  <2>2. ovl_file_header_addr = OffsetOf(BSS)
    BY <1>1, <1>3 DEF FileInv, Arranged, SectionsPlaced
  <2>3. Whole /\ BssBehind
    BY <1>1, <2>2 DEF Contents
  <2>4. Whole' /\ BssBehind'
    BY <1>1, <2>1, <2>3, SamePlaces
       DEF Whole, HeaderThere, TableThere, FooterThere, EndsBefore, Holding
  <2> QED BY <2>1, <2>4 DEF Contents
<1> QED BY <1>2, <1>3 DEF CheckHeader

LEMMA CloseContents ==
    ASSUME FileInv, Contents, Close
    PROVE  Contents'
<1>1. pc = "close" /\ WriteFrame /\ pc' = "exit"
  BY DEF Close, Exit
<1>2. Whole /\ BssBehind /\ ovl_file_header_addr = OffsetOf(BSS)
  BY <1>1 DEF Contents, FileInv, Arranged, HeaderPlaced
<1>3. CASE file' = file
  <2>1. Whole' /\ BssBehind' /\ ovl_file_header_addr' = OffsetOf(BSS)'
    BY <1>1, <1>2, <1>3, SamePlaces
       DEF Whole, HeaderThere, TableThere, FooterThere, EndsBefore, Holding
  <2> QED BY <1>1, <2>1 DEF Contents
<1>4. CASE out' = "cut"
  BY <1>1, <1>4 DEF Contents
<1> QED BY <1>3, <1>4 DEF Close

LEMMA StutterContents == ASSUME Contents, UNCHANGED vars PROVE Contents'
<1>1. UNCHANGED <<pc, status, out, file, pos, sizes, ovl_starts, base_addr,
                  ovl_file_header_addr, ninty_relocs, ninty_count_real>>
  BY DEF vars, engineVars, inputVars, tableVars, outVars
<1>2. UNCHANGED <<TableStart, FooterPlace>> /\ OffsetOf(BSS)' = OffsetOf(BSS)
  BY <1>1 DEF TableStart, FooterPlace, OffsetOf, Padded
<1>3. (HeaderThere' = HeaderThere) /\ (TableThere' = TableThere)
      /\ (FooterThere' = FooterThere) /\ \A n : EndsBefore(n)' = EndsBefore(n)
  BY <1>1, <1>2 DEF HeaderThere, TableThere, FooterThere, EndsBefore, Holding
<1>4. (Whole' = Whole) /\ (BssBehind' = BssBehind)
  BY <1>1, <1>2, <1>3 DEF Whole, BssBehind
<1> QED BY <1>1, <1>2, <1>3, <1>4 DEF Contents

(* A whole file is as long as its footer says; what its words are. *)
LEMMA WholeParts ==
    ASSUME IInv, Whole
    PROVE  LET h == ovl_file_header_addr
           IN  /\ FileSize = FooterPlace + 4 /\ FileSize \in Nat /\ FileSize % 16 = 0
               /\ WordAt(FileSize - 4) = FileSize - h
               /\ \A s \in SectionIds : WordAt(h + 4 * s) = sizes[s]
               /\ WordAt(h + 16) = ninty_count_real
               /\ \A q \in 1 .. ninty_count_real :
                     WordAt(h + HeaderSize + 4 * (q - 1)) = ninty_relocs[q]
               /\ h + HeaderSize + 4 * ninty_count_real + FooterSize <= FileSize
<1> DEFINE h == ovl_file_header_addr
<1>1. /\ FileOK /\ h \in Nat /\ TableStart = h + 20 /\ ninty_count_real \in Nat
      /\ FooterPlace \in Nat /\ TableStart + 4 * ninty_count_real <= FooterPlace
      /\ (FooterPlace + 4) % 16 = 0
  BY OutputFacts, PlaceFacts
<1>2. FileSize = FooterPlace + 4
  <2>1. FooterPlace \in DOMAIN file
    BY DEF Whole, FooterThere, Holding
  <2>2. \A o \in DOMAIN file : o <= FooterPlace /\ o \in Int
    <3>1. \A o \in DOMAIN file : o \in Nat /\ o < FooterPlace + 1
      BY <1>1 DEF Whole, EndsBefore, FileOK
    <3> QED BY <1>1, <3>1
  <2>3. Max(DOMAIN file) = FooterPlace
    <3>1. \E x \in DOMAIN file : \A y \in DOMAIN file : x >= y
      BY <1>1, <2>1, <2>2
    <3>2. Max(DOMAIN file) \in DOMAIN file
          /\ \A y \in DOMAIN file : Max(DOMAIN file) >= y
      BY <3>1 DEF Max
    <3> QED BY <1>1, <2>1, <2>2, <3>2
  <2> QED BY <2>1, <2>3 DEF FileSize
<1>3. WordAt(FileSize - 4) = FileSize - h
  <2>1. FileSize - 4 = FooterPlace
    BY <1>1, <1>2
  <2>2. WordAt(FooterPlace) = FooterPlace + 4 - h
    BY DEF WordAt, Whole, FooterThere, Holding
  <2>3. WordAt(FileSize - 4) = WordAt(FooterPlace)
    BY <2>1
  <2>4. FileSize - h = FooterPlace + 4 - h
    <3>1. FooterPlace \in Nat /\ h \in Nat
      BY <1>1
    <3> QED BY <1>2, <3>1
  <2> QED BY <2>2, <2>3, <2>4
<1>4. /\ \A s \in SectionIds : WordAt(h + 4 * s) = sizes[s]
      /\ WordAt(h + 16) = ninty_count_real
  BY DEF Whole, HeaderThere, Holding, WordAt
<1>5. \A q \in 1 .. ninty_count_real : WordAt(h + HeaderSize + 4 * (q - 1)) = ninty_relocs[q]
  BY DEF Whole, TableThere, Holding, WordAt, TableStart
<1>6. h + HeaderSize + 4 * ninty_count_real + FooterSize <= FileSize
  BY <1>1, <1>2 DEF HeaderSize, FooterSize
<1> HIDE DEF h
<1> QED BY <1>1, <1>2, <1>3, <1>4, <1>5, <1>6 DEF h

LEMMA WholeReadsBack ==
    ASSUME IInv, Whole, ovl_file_header_addr = OffsetOf(BSS)
    PROVE  ReadsBack
<1> DEFINE h == ovl_file_header_addr
<1>1. h \in Nat /\ ninty_count_real \in Nat /\ FooterPlace \in Nat
  BY OutputFacts, PlaceFacts
<1>2. /\ FileSize = FooterPlace + 4 /\ FileSize % 16 = 0
      /\ WordAt(FileSize - 4) = FileSize - h
      /\ \A s \in SectionIds : WordAt(h + 4 * s) = sizes[s]
      /\ WordAt(h + 16) = ninty_count_real
      /\ \A q \in 1 .. ninty_count_real : WordAt(h + HeaderSize + 4 * (q - 1)) = ninty_relocs[q]
      /\ h + HeaderSize + 4 * ninty_count_real + FooterSize <= FileSize
  BY WholeParts
<1>3. FileSize - WordAt(FileSize - 4) = h
  BY <1>1, <1>2
<1>4. h = sizes[TEXT] + sizes[DATA] + sizes[RODATA]
  BY OffsetFacts
<1>5. [q \in 1 .. ninty_count_real |-> WordAt(h + HeaderSize + 4 * (q - 1))] = ninty_relocs
  <2>1. ninty_relocs \in Seq(Nat \ {0}) /\ Len(ninty_relocs) = ninty_count_real
    BY DEF IInv, TypeOK, PassTypeOK
  <2> HIDE DEF h
  <2> QED BY <1>2, <2>1
<1>6. h + HeaderSize + 4 * ninty_count_real <= FileSize - 4
  BY <1>1, <1>2 DEF HeaderSize, FooterSize
<1> HIDE DEF h
<1> QED BY <1>2, <1>3, <1>4, <1>5, <1>6 DEF ReadsBack

(* The file, loaded at the base address, ends where .bss starts or before. *)
LEMMA WholeBeforeBss ==
    ASSUME IInv, Whole, BssBehind
    PROVE  base_addr + FileSize <= ovl_starts[BSS]
<1>1. base_addr \in Nat /\ FooterPlace \in Nat
  BY SizeFacts, PlaceFacts
<1>2. FileSize = FooterPlace + 4
  BY WholeParts
<1> QED BY <1>1, <1>2 DEF BssBehind

-----------------------------------------------------------------------------
(* What the file holds at each place of the writing (novl-conv.c:515-610). *)
THEOREM ContentsInvariant == Spec => []Contents
<1>1. Init => Contents
  BY InitContents
<1>2. IInv /\ IInv' /\ FileInv /\ LayoutInvariant /\ Contents /\ [Next]_vars => Contents'
  <2> SUFFICES ASSUME IInv, IInv', FileInv, LayoutInvariant, Contents, [Next]_vars
               PROVE  Contents'
    OBVIOUS
  <2>1. CASE \/ Open \/ CreateFails \/ Create \/ LoadSkip \/ LoadDuplicate
             \/ LoadSection \/ LoadEnd
             \/ CountScan \/ CountSort \/ CountEntry \/ CountNext \/ CountEnd
             \/ Layout \/ RelocScan \/ RelocSort \/ RelocEntry \/ RelocNext \/ RelocEnd
             \/ CheckCount
    BY <2>1, EarlyContents
  <2>2. CASE WriteHeader \/ WriteRelocs \/ WriteFooter
    BY <2>2, HeaderContents, TableContents, FooterContents
  <2>3. CASE CheckBss \/ WriteSection \/ CheckHeader \/ Close
    BY <2>3, BssContents, SectionContents, CheckHeaderContents, CloseContents
  <2>4. CASE Exited \/ UNCHANGED vars
    BY <2>4, StutterContents DEF Exited
  <2> QED BY <2>1, <2>2, <2>3, <2>4 DEF Next
<1> QED BY <1>1, <1>2, Invariant, FileInvariant, LayoutInvariance, PTL DEF Spec

(***************************************************************************)
(* A conversion that succeeds, on a disk that takes what is written, has   *)
(* written a file that reads back: from its last word to the header, from  *)
(* the header to the sizes and the number of relocations, and behind it    *)
(* every word of the table (novl-conv.c:515-610, read by overlay.c:219).   *)
(* It holds for every base address and all sizes.                          *)
(***************************************************************************)
THEOREM FileReadsBack == Spec => []ReadsBack
<1>1. IInv /\ Contents => ReadsBack
  BY WholeReadsBack DEF Contents, ReadsBack
<1> QED BY <1>1, Invariant, ContentsInvariant, PTL

(***************************************************************************)
(* The sections of a finished overlay lie one after the other from the     *)
(* base address, and .bss behind everything that is in the file, for every *)
(* base address and all sizes: the checks against ftell() (novl-conv.c:576,*)
(* 593, 603) catch every layout in which a 32-bit sum has wrapped.         *)
(***************************************************************************)
THEOREM SectionsInOrder == Spec => []InOrder
<1>1. FileInv /\ IInv /\ Contents => InOrder
  <2> SUFFICES ASSUME FileInv, IInv, Contents, status = "ok"
               PROVE  InOrder
    BY DEF InOrder
  <2>1. OneByOne
    BY DEF FileInv, Arranged
  <2>2. out = "written" => base_addr + FileSize <= ovl_starts[BSS]
    BY WholeBeforeBss DEF Contents
  <2> QED BY <2>1, <2>2 DEF OneByOne, InOrder
<1> QED BY <1>1, FileInvariant, ContentsInvariant, Invariant, PTL

-----------------------------------------------------------------------------
(***************************************************************************)
(* The two passes agree, for every ELF file in which no word is relocated  *)
(* twice: the second pass takes the steps of the first again, one by one,  *)
(* although it rewrites words that it reads.                               *)
(***************************************************************************)

(***************************************************************************)
(* What a handler returns, from the word at its offset and the pairs: the  *)
(* rest of the image plays no part, and neither does the new layout.       *)
(***************************************************************************)

(* What both passes see alike: the ELF file, its sections, and the image before
   anything is relocated. *)
World == [elf |-> elf, starts |-> elf_starts, sizes |-> sizes, memory |-> memory]

HoldsIn(W, s, a) == W.starts[s] <= a /\ a < (W.starts[s] + W.sizes[s]) % Word

SectionIn(W, a) ==
    IF \E s \in SectionIds : HoldsIn(W, s, a)
    THEN CHOOSE s \in SectionIds :
            HoldsIn(W, s, a) /\ \A j \in SectionIds : HoldsIn(W, j, a) => s <= j
    ELSE NoSection

Verdict(W, a, type) ==
    LET s == SectionIn(W, a)
    IN  IF s = NoSection THEN "fail"
        ELSE IF type = R_MIPS_26 /\ s # TEXT THEN "error" ELSE "success"

LowTarget(w, pair) == (pair.value + SignedImm(w)) % Word

(* For the word w at some offset o, an entry of the type given. *)
Ret(W, w, pairs, type) ==
    LET handler == type % 128
        pair    == pairs[LoReg(w)]
        low     == Verdict(W, LowTarget(w, pair), R_MIPS_LO16)
    IN  CASE handler = R_MIPS_32   -> Verdict(W, w, R_MIPS_32)
          [] handler = R_MIPS_26   -> Verdict(W, JumpTarget(w), R_MIPS_26)
          [] handler = R_MIPS_HI16 -> "success"
          [] handler = R_MIPS_LO16 ->
               IF pair.status = "invalid" THEN "error"
               ELSE IF low = "fail" /\ pair.status = "used" THEN "fail_keep_hi" ELSE low
          [] OTHER                 -> "error"

PairsAfter(o, w, pairs, type) ==
    LET handler == type % 128
    IN  CASE handler = R_MIPS_HI16 ->
               [pairs EXCEPT ![HiReg(w)] =
                   [status |-> "valid", value |-> Imm(w) * Half, ptr |-> o]]
          [] handler = R_MIPS_LO16 ->
               IF pairs[LoReg(w)].status = "invalid" THEN pairs
               ELSE [pairs EXCEPT ![LoReg(w)].status = "used"]
          [] OTHER -> pairs

(* The offsets that a call may write: its own, and that of the HI16 of a pair. *)
Writes(o, w, pairs) ==
    {o} \cup {p \in Offsets : pairs[LoReg(w)].status # "invalid" /\ p = pairs[LoReg(w)].ptr}

LEMMA FirstSection ==
    ASSUME NEW W, NEW a
    PROVE  LET s == SectionIn(W, a)
           IN  \/ s = NoSection /\ \A j \in SectionIds : ~HoldsIn(W, j, a)
               \/ /\ s \in SectionIds /\ HoldsIn(W, s, a)
                  /\ \A j \in SectionIds : HoldsIn(W, j, a) => s <= j
<1> DEFINE H(s) == HoldsIn(W, s, a)
<1>1. CASE \E s \in SectionIds : H(s)
  <2>1. \E s \in SectionIds : H(s)
    BY <1>1
  <2> HIDE DEF H
  <2>2. \E s \in SectionIds : H(s) /\ \A j \in SectionIds : H(j) => s <= j
    <3>1. CASE H(0)
      BY <3>1 DEF SectionIds
    <3>2. CASE ~H(0) /\ H(1)
      BY <3>2 DEF SectionIds
    <3>3. CASE ~H(0) /\ ~H(1) /\ H(2)
      BY <3>3 DEF SectionIds
    <3>4. CASE ~H(0) /\ ~H(1) /\ ~H(2)
      BY <2>1, <3>4 DEF SectionIds
    <3> QED BY <3>1, <3>2, <3>3, <3>4
  <2> QED BY <1>1, <2>2 DEF SectionIn, H
<1>2. CASE ~ \E s \in SectionIds : H(s)
  BY <1>2 DEF SectionIn
<1> QED BY <1>1, <1>2

LEMMA Verdicts ==
    ASSUME NEW W, W.starts = elf_starts, W.sizes = sizes,
           NEW a, NEW type, NEW dryrun
    PROVE  adjust_address(a, type, dryrun).ret = Verdict(W, a, type)
<1>1. \A s : Holds(s, a) <=> HoldsIn(W, s, a)
  BY DEF Holds, HoldsIn
<1>2. get_target_section(a) = SectionIn(W, a)
  <2> DEFINE s == get_target_section(a)
             t == SectionIn(W, a)
  <2>1. \/ s = NoSection /\ \A j \in SectionIds : ~Holds(j, a)
        \/ s \in SectionIds /\ Holds(s, a) /\ \A j \in SectionIds : Holds(j, a) => s <= j
    BY TargetSection
  <2>2. \/ t = NoSection /\ \A j \in SectionIds : ~HoldsIn(W, j, a)
        \/ t \in SectionIds /\ HoldsIn(W, t, a)
           /\ \A j \in SectionIds : HoldsIn(W, j, a) => t <= j
    BY FirstSection
  <2> HIDE DEF s, t
  <2>3. s \in SectionIds /\ t \in SectionIds /\ s <= t /\ t <= s => s = t
    BY DEF SectionIds
  <2>4. s = t
    BY <1>1, <2>1, <2>2, <2>3
  <2> QED BY <2>4 DEF s, t
<1> QED BY <1>2 DEF adjust_address, Verdict

LEMMA CallReturns ==
    ASSUME NEW W, W.starts = elf_starts, W.sizes = sizes,
           NEW o, NEW type, NEW dryrun
    PROVE  LET v == novl_reloc_do(o, type, dryrun)
           IN  /\ v.ret = Ret(W, memory[o], hilopair, type)
               /\ v.hilopair = PairsAfter(o, memory[o], hilopair, type)
<1> DEFINE h == type % 128
           v == novl_reloc_do(o, type, dryrun)
           w == memory[o]
           pair == hilopair[LoReg(w)]
<1> HIDE DEF h
<1>0. v = CASE h = R_MIPS_32   -> novl_reloc_mips_32(o, dryrun)
            [] h = R_MIPS_26   -> novl_reloc_mips_26(o, dryrun)
            [] h = R_MIPS_HI16 -> novl_reloc_mips_hi16(o, dryrun)
            [] h = R_MIPS_LO16 -> novl_reloc_mips_lo16(o, dryrun)
            [] OTHER           -> Outcome("error", memory, hilopair)
  BY DEF novl_reloc_do, h
<1> HIDE DEF v
<1>1. CASE h = R_MIPS_32
  <2>1. v = novl_reloc_mips_32(o, dryrun)
    BY <1>0, <1>1 DEF R_MIPS_32, R_MIPS_26, R_MIPS_HI16, R_MIPS_LO16
  <2>2. v.ret = Verdict(W, w, R_MIPS_32) /\ v.hilopair = hilopair
    BY <2>1, Verdicts DEF novl_reloc_mips_32, Outcome
  <2> QED BY <1>1, <2>2
          DEF Ret, PairsAfter, v, h, R_MIPS_32, R_MIPS_26, R_MIPS_HI16, R_MIPS_LO16
<1>2. CASE h = R_MIPS_26
  <2>1. v = novl_reloc_mips_26(o, dryrun)
    BY <1>0, <1>2 DEF R_MIPS_32, R_MIPS_26, R_MIPS_HI16, R_MIPS_LO16
  <2>2. v.ret = Verdict(W, JumpTarget(w), R_MIPS_26) /\ v.hilopair = hilopair
    BY <2>1, Verdicts DEF novl_reloc_mips_26, Outcome
  <2> QED BY <1>2, <2>2
          DEF Ret, PairsAfter, v, h, R_MIPS_32, R_MIPS_26, R_MIPS_HI16, R_MIPS_LO16
<1>3. CASE h = R_MIPS_HI16
  <2>1. v = novl_reloc_mips_hi16(o, dryrun)
    BY <1>0, <1>3 DEF R_MIPS_32, R_MIPS_26, R_MIPS_HI16, R_MIPS_LO16
  <2>2. /\ v.ret = "success"
        /\ v.hilopair = [hilopair EXCEPT ![HiReg(w)] =
                           [status |-> "valid", value |-> Imm(w) * Half, ptr |-> o]]
    BY <2>1 DEF novl_reloc_mips_hi16, Outcome
  <2> QED BY <1>3, <2>2
          DEF Ret, PairsAfter, v, h, R_MIPS_32, R_MIPS_26, R_MIPS_HI16, R_MIPS_LO16
<1>4. CASE h = R_MIPS_LO16
  <2>1. v = novl_reloc_mips_lo16(o, dryrun)
    BY <1>0, <1>4 DEF R_MIPS_32, R_MIPS_26, R_MIPS_HI16, R_MIPS_LO16
  <2>2. adjust_address(LowTarget(w, pair), R_MIPS_LO16, dryrun).ret
          = Verdict(W, LowTarget(w, pair), R_MIPS_LO16)
    BY Verdicts
  <2>3. CASE pair.status = "invalid"
    <3>1. v.ret = "error" /\ v.hilopair = hilopair
      BY <2>1, <2>3 DEF novl_reloc_mips_lo16, Outcome
    <3> QED BY <1>4, <2>3, <3>1
            DEF Ret, PairsAfter, v, h, R_MIPS_32, R_MIPS_26, R_MIPS_HI16, R_MIPS_LO16
  <2>4. CASE pair.status # "invalid"
    <3> DEFINE low == Verdict(W, LowTarget(w, pair), R_MIPS_LO16)
    <3>1. /\ v.ret = IF low = "fail" /\ pair.status = "used" THEN "fail_keep_hi" ELSE low
          /\ v.hilopair = [hilopair EXCEPT ![LoReg(w)].status = "used"]
      BY <2>1, <2>2, <2>4 DEF novl_reloc_mips_lo16, Outcome, LowTarget
    <3> QED BY <1>4, <2>4, <3>1
            DEF Ret, PairsAfter, v, h, R_MIPS_32, R_MIPS_26, R_MIPS_HI16, R_MIPS_LO16
  <2> QED BY <2>3, <2>4
<1>5. CASE h \notin {R_MIPS_32, R_MIPS_26, R_MIPS_HI16, R_MIPS_LO16}
  <2>1. v.ret = "error" /\ v.hilopair = hilopair
    BY <1>0, <1>5 DEF Outcome
  <2> QED BY <1>5, <2>1 DEF Ret, PairsAfter, v, h
<1> QED BY <1>1, <1>2, <1>3, <1>4, <1>5

(* A dry run writes nothing. *)
LEMMA DryRunWritesNothing ==
    ASSUME NEW o, NEW type
    PROVE  novl_reloc_do(o, type, TRUE).memory = memory
<1> DEFINE h == type % 128
           v == novl_reloc_do(o, type, TRUE)
<1> HIDE DEF h
<1>0. v = CASE h = R_MIPS_32   -> novl_reloc_mips_32(o, TRUE)
            [] h = R_MIPS_26   -> novl_reloc_mips_26(o, TRUE)
            [] h = R_MIPS_HI16 -> novl_reloc_mips_hi16(o, TRUE)
            [] h = R_MIPS_LO16 -> novl_reloc_mips_lo16(o, TRUE)
            [] OTHER           -> Outcome("error", memory, hilopair)
  BY DEF novl_reloc_do, h
<1>1. novl_reloc_mips_32(o, TRUE).memory = memory
  BY DEF novl_reloc_mips_32, Outcome, Rewrite
<1>2. novl_reloc_mips_26(o, TRUE).memory = memory
  BY DEF novl_reloc_mips_26, Outcome, Rewrite
<1>3. novl_reloc_mips_hi16(o, TRUE).memory = memory
  BY DEF novl_reloc_mips_hi16, Outcome
<1>4. novl_reloc_mips_lo16(o, TRUE).memory = memory
  BY DEF novl_reloc_mips_lo16, Outcome
<1>5. Outcome("error", memory, hilopair).memory = memory
  BY DEF Outcome
<1> HIDE DEF v
<1> QED BY <1>0, <1>1, <1>2, <1>3, <1>4, <1>5 DEF v

LEMMA CallWrites ==
    ASSUME EngineTypeOK, NEW o \in Offsets, NEW type, NEW dryrun,
           NEW q \in Offsets, q \notin Writes(o, memory[o], hilopair)
    PROVE  novl_reloc_do(o, type, dryrun).memory[q] = memory[q]
<1> DEFINE h == type % 128
           v == novl_reloc_do(o, type, dryrun)
           pair == hilopair[LoReg(memory[o])]
<1> HIDE DEF h
<1>0. v = CASE h = R_MIPS_32   -> novl_reloc_mips_32(o, dryrun)
            [] h = R_MIPS_26   -> novl_reloc_mips_26(o, dryrun)
            [] h = R_MIPS_HI16 -> novl_reloc_mips_hi16(o, dryrun)
            [] h = R_MIPS_LO16 -> novl_reloc_mips_lo16(o, dryrun)
            [] OTHER           -> Outcome("error", memory, hilopair)
  BY DEF novl_reloc_do, h
<1>1. q # o /\ (pair.status # "invalid" => q # pair.ptr)
  BY DEF Writes
<1>2. \A w : Rewrite(o, w, dryrun)[q] = memory[q]
  BY <1>1 DEF Rewrite, EngineTypeOK
<1>3. pair.status # "invalid" => \A a : WritePair(o, pair.ptr, a)[q] = memory[q]
  BY <1>1 DEF WritePair, EngineTypeOK
<1> HIDE DEF pair
<1>4. novl_reloc_mips_32(o, dryrun).memory[q] = memory[q]
  BY <1>2 DEF novl_reloc_mips_32, Outcome
<1>5. novl_reloc_mips_26(o, dryrun).memory[q] = memory[q]
  BY <1>2 DEF novl_reloc_mips_26, Outcome
<1>6. novl_reloc_mips_hi16(o, dryrun).memory[q] = memory[q]
  BY DEF novl_reloc_mips_hi16, Outcome
<1>7. novl_reloc_mips_lo16(o, dryrun).memory[q] = memory[q]
  <2>1. CASE pair.status = "invalid"
    BY <2>1 DEF novl_reloc_mips_lo16, Outcome, pair
  <2>2. CASE pair.status # "invalid"
    BY <1>3, <2>2 DEF novl_reloc_mips_lo16, Outcome, pair
  <2> QED BY <2>1, <2>2
<1>8. Outcome("error", memory, hilopair).memory[q] = memory[q]
  BY DEF Outcome
<1> HIDE DEF v
<1> QED BY <1>0, <1>4, <1>5, <1>6, <1>7, <1>8 DEF v

-----------------------------------------------------------------------------
(***************************************************************************)
(* A pass as a sequence of configurations, one for each action.  What is   *)
(* left in the list and the pairs while the scan is going on, and in i     *)
(* before the list is complete, does not matter.                           *)
(***************************************************************************)
Skips(W, c, d) ==
    /\ c.at = "scan" /\ c.scn < Len(W.elf.sections)
    /\ ~Wanted(W.elf.sections[c.scn + 1])
    /\ d.at = "scan" /\ d.scn = c.scn + 1 /\ d.count = c.count

Finds(W, c, d) ==
    /\ c.at = "scan" /\ c.scn < Len(W.elf.sections)
    /\ Wanted(W.elf.sections[c.scn + 1])
    /\ d.at = "sort" /\ d.scn = c.scn + 1 /\ d.count = c.count
    /\ d.pairs = NoHiLoPairs /\ d.list = <<>> /\ d.n = 0

RelsOf(W, c) == W.elf.sections[c.scn].rels

Inserts(W, c, d) ==
    /\ c.at = "sort" /\ c.n < Len(RelsOf(W, c))
    /\ d.at = "sort" /\ d.scn = c.scn /\ d.count = c.count /\ d.pairs = c.pairs
    /\ d.list = Inserted(c.list, RelsOf(W, c)[c.n + 1]) /\ d.n = c.n + 1

Sorted(W, c, d) ==
    /\ c.at = "sort" /\ c.n = Len(RelsOf(W, c))
    /\ d.at = "do" /\ d.scn = c.scn /\ d.count = c.count /\ d.pairs = c.pairs
    /\ d.list = c.list /\ d.n = c.n /\ d.i = 1

Treats(W, c, d) ==
    LET rel == c.list[c.i]
        o   == rel.offset - W.elf.ep
        ret == Ret(W, W.memory[o], c.pairs, rel.type)
    IN  /\ c.at = "do" /\ c.i <= c.n
        /\ ret # "error"
        /\ d.at = "do" /\ d.scn = c.scn /\ d.list = c.list /\ d.n = c.n
        /\ d.i = c.i + 1
        /\ d.pairs = PairsAfter(o, W.memory[o], c.pairs, rel.type)
        /\ d.count = c.count + Predicted(rel, ret)

Leaves(W, c, d) ==
    /\ c.at = "do" /\ c.i > c.n
    /\ d.at = "scan" /\ d.scn = c.scn /\ d.count = c.count

Step(W, c, d) ==
    Skips(W, c, d) \/ Finds(W, c, d) \/ Inserts(W, c, d) \/ Sorted(W, c, d)
        \/ Treats(W, c, d) \/ Leaves(W, c, d)

(* T steps from the start of a pass. *)
Trace(W, h, T) ==
    /\ T \in Nat
    /\ h[0].at = "scan" /\ h[0].scn = 0 /\ h[0].count = 0
    /\ \A t \in 0 .. (T - 1) : Step(W, h[t], h[t + 1])

AtEnd(W, c) == c.at = "scan" /\ c.scn = Len(W.elf.sections)

Phase ==
    CASE pc \in {"count_scan", "layout", "reloc_scan"} -> "scan"
      [] pc \in {"count_sort", "reloc_sort"}           -> "sort"
      [] pc \in {"count_do", "reloc_do"}               -> "do"
      [] OTHER                                          -> "none"

Configuration(count) ==
    [at |-> Phase, scn |-> scn, list |-> rel_list, n |-> nreloc, i |-> i,
     pairs |-> hilopair, count |-> count]

FirstPass == {"count_scan", "count_sort", "count_do", "layout"}
SecondPass == {"reloc_scan", "reloc_sort", "reloc_do"}

(* The first pass has taken the steps that led it where it is. *)
Led == \E W, h, T : /\ W = World /\ Trace(W, h, T)
                    /\ h[T] = Configuration(ninty_count_pred)

Recorded ==
    /\ pc \in {"open", "create", "load"} => ninty_count_pred = 0 /\ ~error
    /\ pc \in FirstPass /\ ~error => Led
    /\ pc = "layout" => ~error /\ scn = Len(elf.sections)

(* A configuration of the first pass at the place that the second has reached. *)
Alike(c) ==
    /\ c.at = Phase /\ c.scn = scn /\ c.count = ninty_count_real
    /\ c.at # "scan" => c.list = rel_list /\ c.n = nreloc /\ c.pairs = hilopair
    /\ c.at = "do" => c.i = i

(* The addresses that the second pass may have rewritten. *)
NamedIn(j, a) ==
    j \in RelocSections /\ \E p \in DOMAIN elf.sections[j].rels : elf.sections[j].rels[p].offset = a

Done(a) == \E q \in 1 .. (i - 1) : rel_list[q].offset = a

Touched(a) ==
    \/ \E j \in SectionIndex : (j < scn \/ (j = scn /\ pc = "reloc_scan")) /\ NamedIn(j, a)
    \/ pc = "reloc_do" /\ Done(a)

OnlyTouched(W) ==
    \A o \in Offsets : memory[o] # W.memory[o] => Touched(o + elf.ep)

SameWorld(W) == W.elf = elf /\ W.starts = elf_starts /\ W.sizes = sizes

(* The entries in the list are those of the section, each once; a pair goes back
   to an entry that has been treated. *)
ListKnown ==
    /\ pc \in {"reloc_sort", "reloc_do"} =>
          /\ \A q \in 1 .. Len(rel_list) :
                \E p \in DOMAIN Current.rels : p <= nreloc /\ rel_list[q] = Current.rels[p]
          /\ \A q, r \in 1 .. Len(rel_list) :
                q # r => rel_list[q].offset # rel_list[r].offset
    /\ pc = "reloc_sort" => hilopair = NoHiLoPairs
    /\ pc = "reloc_do" =>
          /\ i <= nreloc + 1
          /\ \A r \in Registers :
                hilopair[r].status # "invalid" => Done(hilopair[r].ptr + elf.ep)

(* The second pass is where the first pass was once, and will be where it ended. *)
Repeated ==
    pc \in SecondPass =>
        \E W, h, T, t :
            /\ SameWorld(W) /\ Trace(W, h, T)
            /\ AtEnd(W, h[T]) /\ h[T].count = ninty_count_pred
            /\ t \in 0 .. T /\ Alike(h[t])
            /\ OnlyTouched(W)

Agreed ==
    /\ pc = "check_count" => ninty_count_pred = ninty_count_real
    /\ ~PassesDisagree

PassInv == Recorded /\ (DistinctOffsets => Repeated /\ ListKnown /\ Agreed)

-----------------------------------------------------------------------------
(* One step more. *)
LEMMA TraceGrows ==
    ASSUME NEW W, NEW h, NEW T, NEW d, Trace(W, h, T), Step(W, h[T], d)
    PROVE  \E g, U : Trace(W, g, U) /\ g[U] = d
<1> DEFINE g == [t \in 0 .. (T + 1) |-> IF t <= T THEN h[t] ELSE d]
<1>1. T \in Nat /\ T + 1 \in Nat
  BY DEF Trace
<1>2. g[T + 1] = d /\ \A t \in 0 .. T : g[t] = h[t]
  BY <1>1
<1> HIDE DEF g
<1>3. \A t \in 0 .. T : Step(W, g[t], g[t + 1])
  <2> SUFFICES ASSUME NEW t \in 0 .. T PROVE Step(W, g[t], g[t + 1])
    OBVIOUS
  <2>1. CASE t = T
    BY <1>1, <1>2, <2>1
  <2>2. CASE t # T
    <3>1. t \in 0 .. (T - 1) /\ t + 1 \in 0 .. T
      BY <1>1, <2>2
    <3> QED BY <1>2, <3>1 DEF Trace
  <2> QED BY <2>1, <2>2
<1>4. g[0] = h[0]
  BY <1>1, <1>2
<1>5. Trace(W, g, T + 1)
  BY <1>1, <1>3, <1>4 DEF Trace
<1> QED BY <1>2, <1>5

LEMMA TraceStarts ==
    ASSUME NEW W, NEW c, c.at = "scan", c.scn = 0, c.count = 0
    PROVE  \E h, T : Trace(W, h, T) /\ h[T] = c
<1> DEFINE h == [t \in {0} |-> c]
<1>1. h[0] = c
  OBVIOUS
<1> HIDE DEF h
<1>2. Trace(W, h, 0)
  BY <1>1 DEF Trace
<1> QED BY <1>1, <1>2

(* Where the first pass has not ended it has gone on; where it has, it has not. *)
LEMMA TraceGoesOn ==
    ASSUME NEW W, NEW h, NEW T, NEW t \in 0 .. T, Trace(W, h, T), AtEnd(W, h[T])
    PROVE  /\ ~AtEnd(W, h[t]) => t + 1 \in 0 .. T /\ Step(W, h[t], h[t + 1])
           /\ AtEnd(W, h[t]) => t = T
<1>1. T \in Nat
  BY DEF Trace
<1>2. t # T => t \in 0 .. (T - 1) /\ t + 1 \in 0 .. T
  BY <1>1
<1>3. t # T => Step(W, h[t], h[t + 1])
  BY <1>2 DEF Trace
<1>4. AtEnd(W, h[t]) => ~Step(W, h[t], h[t + 1])
  BY DEF AtEnd, Step, Skips, Finds, Inserts, Sorted, Treats, Leaves
<1> QED BY <1>2, <1>3, <1>4

-----------------------------------------------------------------------------
(* The first pass. *)
LEMMA LedFurther ==
    ASSUME Led, World' = World,
           Step(World, Configuration(ninty_count_pred), Configuration(ninty_count_pred)')
    PROVE  Led'
<1>1. PICK W, h, T : /\ W = World /\ Trace(W, h, T)
                     /\ h[T] = Configuration(ninty_count_pred)
  BY DEF Led
<1>2. PICK d : d = Configuration(ninty_count_pred)'
  OBVIOUS
<1>3. Step(W, h[T], d)
  BY <1>1, <1>2
<1>4. PICK g, U : Trace(W, g, U) /\ g[U] = d
  BY <1>1, <1>3, TraceGrows
<1>5. W = World'
  BY <1>1
<1> QED BY <1>2, <1>4, <1>5 DEF Led

LEMMA LoadEndPass == ASSUME PassInv, LoadEnd PROVE Recorded'
<1>1. /\ pc = "load" /\ pc' = "count_scan" /\ scn' = 0
      /\ ninty_count_pred' = ninty_count_pred
  BY DEF LoadEnd, Goto, LoadFrame, countVars
<1>2. ninty_count_pred = 0
  BY <1>1 DEF PassInv, Recorded
<1>3. PICK c : c = Configuration(ninty_count_pred)'
  OBVIOUS
<1>4. c.at = "scan" /\ c.scn = 0 /\ c.count = 0
  BY <1>1, <1>2, <1>3 DEF Configuration, Phase
<1>5. PICK W : W = World'
  OBVIOUS
<1>6. PICK h, T : Trace(W, h, T) /\ h[T] = c
  BY <1>4, TraceStarts
<1>7. Led'
  BY <1>3, <1>5, <1>6 DEF Led
<1> QED BY <1>1, <1>7 DEF Recorded

LEMMA CountScanPass == ASSUME PassInv, CountScan PROVE Recorded'
<1>1. /\ pc = "count_scan" /\ scn < Len(elf.sections)
      /\ World' = World /\ ninty_count_pred' = ninty_count_pred /\ error' = error
  BY DEF CountScan, CountFrame, ScanSkips, ScanFinds, World, countVars, inputVars
<1> DEFINE c == Configuration(ninty_count_pred)
           d == Configuration(ninty_count_pred)'
<1>2. c.at = "scan" /\ c.scn = scn /\ c.count = ninty_count_pred /\ World.elf = elf
  BY <1>1 DEF Configuration, Phase, World
<1>3. CASE ScanSkips("count_scan")
  <2>1. pc' = "count_scan" /\ scn' = scn + 1 /\ ~Wanted(elf.sections[scn + 1])
    BY <1>1, <1>3 DEF ScanSkips, Section
  <2>2. d.at = "scan" /\ d.scn = scn + 1 /\ d.count = ninty_count_pred
    BY <1>1, <2>1 DEF Configuration, Phase
  <2>3. Step(World, c, d)
    BY <1>1, <1>2, <2>1, <2>2 DEF Step, Skips
  <2>4. ~error' => Led'
    BY <1>1, <2>3, LedFurther DEF PassInv, Recorded, FirstPass
  <2> QED BY <2>1, <2>4 DEF Recorded
<1>4. CASE ScanFinds("count_scan", "count_sort")
  <2>1. /\ pc' = "count_sort" /\ scn' = scn + 1 /\ Wanted(elf.sections[scn + 1])
        /\ hilopair' = NoHiLoPairs /\ rel_list' = <<>> /\ nreloc' = 0
    BY <1>1, <1>4 DEF ScanFinds, Section, Goto
  <2>2. /\ d.at = "sort" /\ d.scn = scn + 1 /\ d.count = ninty_count_pred
        /\ d.pairs = NoHiLoPairs /\ d.list = <<>> /\ d.n = 0
    BY <1>1, <2>1 DEF Configuration, Phase
  <2>3. Step(World, c, d)
    BY <1>1, <1>2, <2>1, <2>2 DEF Step, Finds
  <2>4. ~error' => Led'
    BY <1>1, <2>3, LedFurther DEF PassInv, Recorded, FirstPass
  <2> QED BY <2>1, <2>4 DEF Recorded
<1> QED BY <1>3, <1>4 DEF CountScan

LEMMA CountSortPass == ASSUME PassInv, CountSort PROVE Recorded'
<1>1. /\ pc = "count_sort"
      /\ World' = World /\ ninty_count_pred' = ninty_count_pred /\ error' = error
  BY DEF CountSort, CountFrame, SortInserts, SortEnds, World, countVars, inputVars
<1> DEFINE c == Configuration(ninty_count_pred)
           d == Configuration(ninty_count_pred)'
<1>2. /\ c.at = "sort" /\ c.scn = scn /\ c.count = ninty_count_pred
      /\ c.list = rel_list /\ c.n = nreloc /\ c.pairs = hilopair
      /\ RelsOf(World, c) = Current.rels
  BY <1>1 DEF Configuration, Phase, World, RelsOf, Current
<1>3. CASE SortInserts("count_sort")
  <2>1. /\ pc' = "count_sort" /\ nreloc < Len(Current.rels)
        /\ rel_list' = Inserted(rel_list, Current.rels[nreloc + 1])
        /\ nreloc' = nreloc + 1 /\ UNCHANGED <<hilopair, scn>>
    BY <1>1, <1>3 DEF SortInserts
  <2>2. /\ d.at = "sort" /\ d.scn = scn /\ d.count = ninty_count_pred
        /\ d.pairs = hilopair /\ d.n = nreloc + 1
        /\ d.list = Inserted(rel_list, Current.rels[nreloc + 1])
    BY <1>1, <2>1 DEF Configuration, Phase
  <2> HIDE DEF c, d
  <2>3. Step(World, c, d)
    BY <1>2, <2>1, <2>2 DEF Step, Inserts
  <2>4. ~error' => Led'
    BY <1>1, <2>3, LedFurther DEF PassInv, Recorded, FirstPass, c, d
  <2> QED BY <2>1, <2>4 DEF Recorded
<1>4. CASE SortEnds("count_sort", "count_do")
  <2>1. /\ pc' = "count_do" /\ nreloc = Len(Current.rels)
        /\ i' = 1 /\ UNCHANGED <<hilopair, scn, rel_list, nreloc>>
    BY <1>1, <1>4 DEF SortEnds, Goto
  <2>2. /\ d.at = "do" /\ d.scn = scn /\ d.count = ninty_count_pred
        /\ d.pairs = hilopair /\ d.n = nreloc /\ d.list = rel_list /\ d.i = 1
    BY <1>1, <2>1 DEF Configuration, Phase
  <2> HIDE DEF c, d
  <2>3. Step(World, c, d)
    BY <1>2, <2>1, <2>2 DEF Step, Sorted
  <2>4. ~error' => Led'
    BY <1>1, <2>3, LedFurther DEF PassInv, Recorded, FirstPass, c, d
  <2> QED BY <2>1, <2>4 DEF Recorded
<1> QED BY <1>3, <1>4 DEF CountSort

LEMMA CountEntryPass == ASSUME PassInv, CountEntry PROVE Recorded'
<1> DEFINE rel == rel_list[i]
           o   == rel.offset - elf.ep
           v   == novl_reloc_do(o, rel.type, TRUE)
<1>1. /\ pc = "count_do" /\ pc' = "count_do" /\ i <= nreloc /\ i' = i + 1
      /\ error' = (error \/ v.ret = "error")
      /\ hilopair' = v.hilopair /\ memory' = v.memory
      /\ ninty_count_pred' = ninty_count_pred + Predicted(rel, v.ret)
      /\ UNCHANGED <<elf, elf_starts, sizes, scn, rel_list, nreloc>>
  BY DEF CountEntry, inputVars
<1>2. memory' = memory
  BY <1>1, DryRunWritesNothing
<1>3. World' = World
  BY <1>1, <1>2 DEF World
<1>4. World.elf = elf /\ World.starts = elf_starts /\ World.sizes = sizes /\ World.memory = memory
  BY DEF World
<1>5. /\ v.ret = Ret(World, memory[o], hilopair, rel.type)
      /\ v.hilopair = PairsAfter(o, memory[o], hilopair, rel.type)
  <2>1. PICK W : W = World
    OBVIOUS
  <2>2. W.starts = elf_starts /\ W.sizes = sizes
    BY <1>4, <2>1
  <2> HIDE DEF o, v
  <2>3. /\ novl_reloc_do(o, rel.type, TRUE).ret = Ret(W, memory[o], hilopair, rel.type)
        /\ novl_reloc_do(o, rel.type, TRUE).hilopair
              = PairsAfter(o, memory[o], hilopair, rel.type)
    BY <2>2, CallReturns
  <2> QED BY <2>1, <2>3 DEF v
<1> HIDE DEF v
<1>6. ASSUME ~error' PROVE Led'
  <2>1. ~error /\ v.ret # "error"
    BY <1>1, <1>6
  <2> DEFINE c == Configuration(ninty_count_pred)
             d == Configuration(ninty_count_pred)'
  <2>2. /\ c.at = "do" /\ c.scn = scn /\ c.count = ninty_count_pred /\ c.i = i
        /\ c.list = rel_list /\ c.n = nreloc /\ c.pairs = hilopair
    BY <1>1 DEF Configuration, Phase
  <2>3. /\ d.at = "do" /\ d.scn = scn /\ d.list = rel_list /\ d.n = nreloc
        /\ d.i = i + 1 /\ d.pairs = v.hilopair
        /\ d.count = ninty_count_pred + Predicted(rel, v.ret)
    BY <1>1 DEF Configuration, Phase
  <2> HIDE DEF c, d
  <2>4. Step(World, c, d)
    BY <1>1, <1>4, <1>5, <2>1, <2>2, <2>3 DEF Step, Treats
  <2> QED BY <1>1, <1>3, <2>1, <2>4, LedFurther DEF PassInv, Recorded, FirstPass, c, d
<1> QED BY <1>1, <1>6 DEF Recorded

LEMMA CountNextPass == ASSUME PassInv, CountNext PROVE Recorded'
<1>1. /\ pc = "count_do" /\ pc' = "count_scan" /\ i > nreloc /\ scn' = scn
      /\ World' = World /\ ninty_count_pred' = ninty_count_pred /\ error' = error
  BY DEF CountNext, CountFrame, ListEnds, Goto, World, countVars, inputVars, loopVars
<1> DEFINE c == Configuration(ninty_count_pred)
           d == Configuration(ninty_count_pred)'
<1>2. /\ c.at = "do" /\ c.scn = scn /\ c.count = ninty_count_pred
      /\ c.i = i /\ c.n = nreloc
  BY <1>1 DEF Configuration, Phase
<1>3. d.at = "scan" /\ d.scn = scn /\ d.count = ninty_count_pred
  BY <1>1 DEF Configuration, Phase
<1> HIDE DEF c, d
<1>4. Step(World, c, d)
  BY <1>1, <1>2, <1>3 DEF Step, Leaves
<1>5. ~error' => Led'
  BY <1>1, <1>4, LedFurther DEF PassInv, Recorded, FirstPass, c, d
<1> QED BY <1>1, <1>5 DEF Recorded

LEMMA CountEndPass == ASSUME PassInv, CountEnd PROVE Recorded'
<1>1. /\ pc = "count_scan" /\ scn = Len(elf.sections)
      /\ UNCHANGED <<scn, rel_list, nreloc, i, hilopair, ninty_count_pred, elf, error>>
      /\ World' = World
  BY DEF CountEnd, CountFrame, World, countVars, inputVars, loopVars
<1>2. CASE error
  <2>1. pc' = "exit"
    BY <1>2 DEF CountEnd, Exit
  <2> QED BY <2>1 DEF Recorded, FirstPass
<1>3. CASE ~error
  <2>1. pc' = "layout"
    BY <1>3 DEF CountEnd, Goto
  <2>2. Configuration(ninty_count_pred)' = Configuration(ninty_count_pred)
    BY <1>1, <2>1 DEF Configuration, Phase
  <2>3. Led
    BY <1>1, <1>3 DEF PassInv, Recorded, FirstPass
  <2>4. PICK W, h, T : /\ W = World /\ Trace(W, h, T)
                       /\ h[T] = Configuration(ninty_count_pred)
    BY <2>3 DEF Led
  <2>5. W = World' /\ h[T] = Configuration(ninty_count_pred)'
    BY <1>1, <2>2, <2>4
  <2>6. Led'
    BY <2>4, <2>5 DEF Led
  <2> QED BY <1>1, <1>3, <2>1, <2>6 DEF Recorded
<1> QED BY <1>2, <1>3

-----------------------------------------------------------------------------
(* The second pass. *)
LEMMA LayoutPass == ASSUME PassInv, Layout PROVE Repeated'
<1>1. /\ pc = "layout" /\ pc' = "reloc_scan" /\ scn' = 0 /\ ninty_count_real' = 0
      /\ UNCHANGED <<elf, elf_starts, sizes, memory, ninty_count_pred>>
  BY DEF Layout, Goto, inputVars, countVars
<1>2. ~error /\ scn = Len(elf.sections) /\ Led
  BY <1>1 DEF PassInv, Recorded, FirstPass
<1>3. PICK W, h, T : /\ W = World /\ Trace(W, h, T)
                     /\ h[T] = Configuration(ninty_count_pred)
  BY <1>2 DEF Led
<1>4. W.elf = elf /\ W.starts = elf_starts /\ W.sizes = sizes /\ W.memory = memory
  BY <1>3 DEF World
<1>5. h[T].at = "scan" /\ h[T].scn = scn /\ h[T].count = ninty_count_pred
  BY <1>1, <1>3 DEF Configuration, Phase
<1>6. SameWorld(W)'
  BY <1>1, <1>4 DEF SameWorld
<1>7. AtEnd(W, h[T]) /\ h[T].count = ninty_count_pred'
  BY <1>1, <1>2, <1>4, <1>5 DEF AtEnd
<1>8. h[0].at = "scan" /\ h[0].scn = 0 /\ h[0].count = 0 /\ 0 \in 0 .. T
  BY <1>3 DEF Trace
<1>9. Alike(h[0])'
  BY <1>1, <1>8 DEF Alike, Phase
<1>10. OnlyTouched(W)'
  BY <1>1, <1>4 DEF OnlyTouched
<1> QED BY <1>3, <1>6, <1>7, <1>8, <1>9, <1>10 DEF Repeated

(* Where the second pass is, and the step that the first took from there. *)
LEMMA NextInTrace ==
    ASSUME Repeated, pc \in SecondPass,
           ~(pc = "reloc_scan" /\ scn = Len(elf.sections))
    PROVE  \E W, h, T, t :
              /\ SameWorld(W) /\ Trace(W, h, T)
              /\ AtEnd(W, h[T]) /\ h[T].count = ninty_count_pred
              /\ t + 1 \in 0 .. T /\ Alike(h[t])
              /\ Step(W, h[t], h[t + 1])
              /\ OnlyTouched(W)
<1>1. PICK W, h, T, t :
          /\ SameWorld(W) /\ Trace(W, h, T)
          /\ AtEnd(W, h[T]) /\ h[T].count = ninty_count_pred
          /\ t \in 0 .. T /\ Alike(h[t])
          /\ OnlyTouched(W)
  BY DEF Repeated
<1>2. ~AtEnd(W, h[t])
  BY <1>1 DEF AtEnd, Alike, SameWorld, Phase, SecondPass
<1>3. t + 1 \in 0 .. T /\ Step(W, h[t], h[t + 1])
  BY <1>1, <1>2, TraceGoesOn
<1> QED BY <1>1, <1>3

(* It takes the same step. *)
LEMMA GoesAlong ==
    ASSUME UNCHANGED <<elf, elf_starts, sizes, ninty_count_pred>>,
           NEW W, NEW h, NEW T, NEW t,
           SameWorld(W), Trace(W, h, T),
           AtEnd(W, h[T]), h[T].count = ninty_count_pred,
           t + 1 \in 0 .. T, Alike(h[t + 1])', OnlyTouched(W)'
    PROVE  Repeated'
<1>1. SameWorld(W)' /\ h[T].count = ninty_count_pred'
  BY DEF SameWorld
<1>2. PICK u : u = t + 1
  OBVIOUS
<1>3. u \in 0 .. T /\ Alike(h[u])'
  BY <1>2
<1> QED BY <1>1, <1>3 DEF Repeated

(* A step that writes nothing, and forgets nothing that was touched. *)
LEMMA StillTouched ==
    ASSUME NEW W, OnlyTouched(W), UNCHANGED <<elf, memory>>,
           \A a : Touched(a) => Touched(a)'
    PROVE  OnlyTouched(W)'
  BY DEF OnlyTouched

(* The section whose entries are in the list. *)
LEMMA ListFacts ==
    ASSUME IInv, pc \in {"reloc_sort", "reloc_do"}
    PROVE  /\ scn \in RelocSections /\ scn \in Nat
           /\ Current.rels \in Seq(Entries) /\ DOMAIN Current.rels = 1 .. Len(Current.rels)
           /\ rel_list \in Seq(Entries) /\ nreloc = Len(rel_list) /\ nreloc \in Nat
           /\ i \in Nat
<1>1. /\ scn \in 0 .. Len(elf.sections) /\ elf.sections \in Seq(Sections)
      /\ scn >= 1 /\ Wanted(Current)
      /\ rel_list \in Seq(Entries) /\ nreloc = Len(rel_list) /\ i \in Nat
  BY DEF IInv, TypeOK, PassTypeOK, WellFormed, Control, InList
<1>2. scn \in 1 .. Len(elf.sections)
  BY <1>1
<1>3. Current.rels \in Seq(Entries)
  <2>1. Current \in Sections
    BY <1>1, <1>2 DEF Current
  <2> QED BY <2>1 DEF Sections
<1>4. DOMAIN Current.rels = 1 .. Len(Current.rels)
  BY <1>3
<1>5. nreloc \in Nat /\ scn \in Nat
  BY <1>1
<1> QED BY <1>1, <1>2, <1>3, <1>4, <1>5 DEF RelocSections, SectionIndex, Current

(* What was touched stays so while the list is filled, and when it is left. *)
LEMMA TouchedStays ==
    ASSUME IInv, ListKnown, RelocScan \/ RelocSort \/ RelocNext, NEW a, Touched(a)
    PROVE  Touched(a)'
<1>1. elf' = elf /\ scn \in Nat /\ \A j \in SectionIndex : j \in Nat
  BY DEF RelocScan, RelocSort, RelocNext, RelocFrame, inputVars, IInv, TypeOK, PassTypeOK,
         SectionIndex
<1>2. SectionIndex' = SectionIndex /\ \A j : NamedIn(j, a)' <=> NamedIn(j, a)
  BY <1>1 DEF SectionIndex, NamedIn, RelocSections
<1>3. CASE RelocScan
  <2>1. pc = "reloc_scan" /\ scn' = scn + 1
    BY <1>3 DEF RelocScan, ScanSkips, ScanFinds
  <2>2. PICK j \in SectionIndex : (j < scn \/ j = scn) /\ NamedIn(j, a)
    BY <2>1 DEF Touched
  <2>3. j < scn'
    BY <1>1, <2>1, <2>2
  <2> QED BY <1>2, <2>2, <2>3 DEF Touched
<1>4. CASE RelocSort
  <2>1. pc = "reloc_sort" /\ scn' = scn
    BY <1>4 DEF RelocSort, SortInserts, SortEnds
  <2>2. PICK j \in SectionIndex : j < scn /\ NamedIn(j, a)
    BY <2>1 DEF Touched
  <2> QED BY <1>2, <2>1, <2>2 DEF Touched
<1>5. CASE RelocNext
  <2>1. pc = "reloc_do" /\ pc' = "reloc_scan" /\ scn' = scn
    BY <1>5 DEF RelocNext, ListEnds, Goto, loopVars
  <2>2. CASE \E j \in SectionIndex : j < scn /\ NamedIn(j, a)
    BY <1>2, <2>1, <2>2 DEF Touched
  <2>3. CASE Done(a)
    <3>1. PICK q \in 1 .. (i - 1) : rel_list[q].offset = a
      BY <2>3 DEF Done
    <3>2. scn \in RelocSections /\ nreloc = Len(rel_list) /\ nreloc \in Nat /\ i \in Nat
      BY <2>1, ListFacts
    <3>3. q \in 1 .. Len(rel_list)
      BY <2>1, <3>2 DEF ListKnown
    <3>4. PICK p \in DOMAIN Current.rels : rel_list[q] = Current.rels[p]
      BY <2>1, <3>3 DEF ListKnown
    <3>5. NamedIn(scn, a) /\ scn \in SectionIndex
      BY <3>1, <3>2, <3>4 DEF NamedIn, Current, RelocSections
    <3> QED BY <1>2, <2>1, <3>5 DEF Touched
  <2> QED BY <2>1, <2>2, <2>3 DEF Touched
<1> QED BY <1>3, <1>4, <1>5

LEMMA RelocScanPass ==
    ASSUME IInv, Repeated, ListKnown, RelocScan
    PROVE  Repeated' /\ ListKnown'
<1>1. /\ pc = "reloc_scan" /\ scn < Len(elf.sections) /\ scn \in Nat
      /\ UNCHANGED <<elf, elf_starts, sizes, memory, ninty_count_pred, ninty_count_real>>
  BY DEF RelocScan, RelocFrame, ScanSkips, ScanFinds, countVars, inputVars,
         IInv, TypeOK, PassTypeOK
<1>2. PICK W, h, T, t :
          /\ SameWorld(W) /\ Trace(W, h, T)
          /\ AtEnd(W, h[T]) /\ h[T].count = ninty_count_pred
          /\ t + 1 \in 0 .. T /\ Alike(h[t])
          /\ Step(W, h[t], h[t + 1])
          /\ OnlyTouched(W)
  BY <1>1, NextInTrace DEF SecondPass
<1> DEFINE c == h[t]
           d == h[t + 1]
<1>3. /\ c.at = "scan" /\ c.scn = scn /\ c.count = ninty_count_real
      /\ W.elf = elf
  BY <1>1, <1>2 DEF Alike, Phase, SameWorld
<1> HIDE DEF c, d
<1>4. Skips(W, c, d) \/ Finds(W, c, d)
  BY <1>2, <1>3 DEF c, d, Step, Inserts, Sorted, Treats, Leaves
<1>5. scn' = scn + 1 /\ pc' \in {"reloc_scan", "reloc_sort"}
  BY <1>1 DEF RelocScan, ScanSkips, ScanFinds, Goto
<1>6. \A a : Touched(a) => Touched(a)'
  BY TouchedStays
<1>7. OnlyTouched(W)'
  BY <1>1, <1>2, <1>6, StillTouched
<1>8. CASE ScanSkips("reloc_scan")
  <2>1. pc' = "reloc_scan" /\ ~Wanted(elf.sections[scn + 1])
    BY <1>1, <1>8 DEF ScanSkips, Section
  <2>2. d.at = "scan" /\ d.scn = scn + 1 /\ d.count = ninty_count_real
    BY <1>3, <1>4, <2>1 DEF Skips, Finds
  <2>3. Alike(d)'
    BY <1>1, <1>5, <2>1, <2>2 DEF Alike, Phase
  <2>4. Repeated'
    BY <1>1, <1>2, <1>7, <2>3, GoesAlong DEF d
  <2> QED BY <2>1, <2>4 DEF ListKnown
<1>9. CASE ScanFinds("reloc_scan", "reloc_sort")
  <2>1. /\ pc' = "reloc_sort" /\ Wanted(elf.sections[scn + 1])
        /\ hilopair' = NoHiLoPairs /\ rel_list' = <<>> /\ nreloc' = 0
    BY <1>9 DEF ScanFinds, Section, Goto
  <2>2. /\ d.at = "sort" /\ d.scn = scn + 1 /\ d.count = ninty_count_real
        /\ d.pairs = NoHiLoPairs /\ d.list = <<>> /\ d.n = 0
    BY <1>3, <1>4, <2>1 DEF Skips, Finds
  <2>3. Alike(d)'
    BY <1>1, <1>5, <2>1, <2>2 DEF Alike, Phase
  <2>4. Repeated'
    BY <1>1, <1>2, <1>7, <2>3, GoesAlong DEF d
  <2>5. 1 .. Len(rel_list') = {}
    BY <2>1
  <2>6. ListKnown'
    BY <2>1, <2>5 DEF ListKnown
  <2> QED BY <2>4, <2>6
<1> QED BY <1>8, <1>9 DEF RelocScan

(* Where an entry goes, the others keep their order. *)
LEMMA InsertedPlaces ==
    ASSUME NEW list \in Seq(Entries), NEW rel \in Entries
    PROVE  \E P \in 1 .. (Len(list) + 1) :
              LET l == Inserted(list, rel)
              IN  \A q \in 1 .. (Len(list) + 1) :
                    /\ q < P => q \in 1 .. Len(list) /\ l[q] = list[q]
                    /\ q = P => l[q] = rel
                    /\ q > P => q - 1 \in 1 .. Len(list) /\ l[q] = list[q - 1]
<1> DEFINE P == Position(list, rel)
           n == Len(list)
<1>1. P \in 1 .. (n + 1) /\ n \in Nat
  BY PositionType
<1>2. Inserted(list, rel) =
          [q \in 1 .. (n + 1) |->
             IF q < P THEN list[q] ELSE IF q = P THEN rel ELSE list[q - 1]]
  BY DEF Inserted
<1> HIDE DEF P, n
<1>3. \A q \in 1 .. (n + 1) :
         /\ q < P => q \in 1 .. n /\ Inserted(list, rel)[q] = list[q]
         /\ q = P => Inserted(list, rel)[q] = rel
         /\ q > P => q - 1 \in 1 .. n /\ Inserted(list, rel)[q] = list[q - 1]
  BY <1>1, <1>2
<1> QED BY <1>1, <1>3 DEF n

LEMMA InsertedKnown ==
    ASSUME IInv, DistinctOffsets, ListKnown, pc = "reloc_sort",
           nreloc < Len(Current.rels)
    PROVE  LET l == Inserted(rel_list, Current.rels[nreloc + 1])
           IN  /\ Len(l) = nreloc + 1
               /\ \A q \in 1 .. Len(l) :
                     \E p \in DOMAIN Current.rels :
                        p <= nreloc + 1 /\ l[q] = Current.rels[p]
               /\ \A q, r \in 1 .. Len(l) : q # r => l[q].offset # l[r].offset
<1> DEFINE rels == Current.rels
           n    == nreloc
           rel  == rels[n + 1]
           l    == Inserted(rel_list, rel)
<1>1. /\ scn \in RelocSections /\ rels \in Seq(Entries) /\ DOMAIN rels = 1 .. Len(rels)
      /\ rel_list \in Seq(Entries) /\ n = Len(rel_list) /\ n \in Nat
  BY ListFacts
<1>2. n + 1 \in 1 .. Len(rels)
  BY <1>1
<1>3. rel \in Entries /\ n + 1 \in DOMAIN rels
  BY <1>1, <1>2
<1>4. /\ \A q \in 1 .. n : \E p \in DOMAIN rels : p <= n /\ rel_list[q] = rels[p]
      /\ \A q, r \in 1 .. n : q # r => rel_list[q].offset # rel_list[r].offset
  BY <1>1 DEF ListKnown
<1>5. \A p \in DOMAIN rels : p <= n => rels[p].offset # rel.offset
  <2> SUFFICES ASSUME NEW p \in DOMAIN rels, p <= n PROVE rels[p].offset # rel.offset
    OBVIOUS
  <2>1. <<scn, p>> # <<scn, n + 1>>
    BY <1>1
  <2>2. rels = elf.sections[scn].rels
    BY DEF Current
  <2> QED BY <1>1, <1>3, <2>1, <2>2 DEF DistinctOffsets
<1>6. \A q \in 1 .. n : rel_list[q].offset # rel.offset
  BY <1>4, <1>5
<1>7. Len(l) = n + 1
  BY <1>1, <1>3, InsertedType
<1>8. PICK P \in 1 .. (n + 1) :
         \A q \in 1 .. (n + 1) :
            /\ q < P => q \in 1 .. n /\ l[q] = rel_list[q]
            /\ q = P => l[q] = rel
            /\ q > P => q - 1 \in 1 .. n /\ l[q] = rel_list[q - 1]
  <2> HIDE DEF rel, n, rels
  <2>1. \E P \in 1 .. (Len(rel_list) + 1) :
            \A q \in 1 .. (Len(rel_list) + 1) :
               /\ q < P => q \in 1 .. Len(rel_list) /\ l[q] = rel_list[q]
               /\ q = P => l[q] = rel
               /\ q > P => q - 1 \in 1 .. Len(rel_list) /\ l[q] = rel_list[q - 1]
    BY <1>1, <1>3, InsertedPlaces
  <2> QED BY <1>1, <2>1
<1> HIDE DEF l, rel, n, rels
<1>9. ASSUME NEW q \in 1 .. (n + 1)
      PROVE  \E p \in DOMAIN rels : p <= n + 1 /\ l[q] = rels[p]
  <2>1. CASE q = P
    BY <1>1, <1>3, <1>8, <2>1 DEF rel
  <2>2. CASE q # P
    <3>1. PICK r \in 1 .. n : l[q] = rel_list[r]
      BY <1>1, <1>8, <2>2
    <3>2. PICK p \in DOMAIN rels : p <= n /\ rel_list[r] = rels[p]
      BY <1>4
    <3> QED BY <1>1, <3>1, <3>2
  <2> QED BY <2>1, <2>2
<1>10. ASSUME NEW q \in 1 .. (n + 1), NEW r \in 1 .. (n + 1), q < r
       PROVE  l[q].offset # l[r].offset
  <2>1. CASE q < P /\ r < P
    BY <1>1, <1>4, <1>8, <1>10, <2>1
  <2>2. CASE q < P /\ r = P
    BY <1>1, <1>6, <1>8, <1>10, <2>2
  <2>3. CASE q < P /\ r > P
    <3>1. q \in 1 .. n /\ l[q] = rel_list[q] /\ r - 1 \in 1 .. n /\ l[r] = rel_list[r - 1]
      BY <1>8, <2>3
    <3>2. q # r - 1
      BY <1>1, <1>10, <2>3
    <3> QED BY <1>4, <3>1, <3>2
  <2>4. CASE q = P /\ r > P
    BY <1>1, <1>6, <1>8, <1>10, <2>4
  <2>5. CASE q > P /\ r > P
    <3>1. /\ q - 1 \in 1 .. n /\ l[q] = rel_list[q - 1]
          /\ r - 1 \in 1 .. n /\ l[r] = rel_list[r - 1]
      BY <1>8, <2>5
    <3>2. q - 1 # r - 1
      BY <1>1, <1>10
    <3> QED BY <1>4, <3>1, <3>2
  <2> QED BY <1>1, <1>10, <2>1, <2>2, <2>3, <2>4, <2>5
<1>11. ASSUME NEW q \in 1 .. (n + 1), NEW r \in 1 .. (n + 1), q # r
       PROVE  l[q].offset # l[r].offset
  <2>1. q < r \/ r < q
    BY <1>1, <1>11
  <2> QED BY <1>10, <2>1
<1> QED BY <1>7, <1>9, <1>11 DEF l, rel, n, rels

LEMMA RelocSortPass ==
    ASSUME IInv, DistinctOffsets, Repeated, ListKnown, RelocSort
    PROVE  Repeated' /\ ListKnown'
<1>1. /\ pc = "reloc_sort" /\ scn' = scn /\ hilopair' = hilopair
      /\ UNCHANGED <<elf, elf_starts, sizes, memory, ninty_count_pred, ninty_count_real>>
  BY DEF RelocSort, RelocFrame, SortInserts, SortEnds, countVars, inputVars, tableVars
<1>2. PICK W, h, T, t :
          /\ SameWorld(W) /\ Trace(W, h, T)
          /\ AtEnd(W, h[T]) /\ h[T].count = ninty_count_pred
          /\ t + 1 \in 0 .. T /\ Alike(h[t])
          /\ Step(W, h[t], h[t + 1])
          /\ OnlyTouched(W)
  BY <1>1, NextInTrace DEF SecondPass
<1> DEFINE c == h[t]
           d == h[t + 1]
<1>3. /\ c.at = "sort" /\ c.scn = scn /\ c.count = ninty_count_real
      /\ c.list = rel_list /\ c.n = nreloc /\ c.pairs = hilopair
      /\ RelsOf(W, c) = Current.rels
  BY <1>1, <1>2 DEF Alike, Phase, SameWorld, RelsOf, Current
<1> HIDE DEF c, d
<1>4. Inserts(W, c, d) \/ Sorted(W, c, d)
  BY <1>2, <1>3 DEF c, d, Step, Skips, Finds, Treats, Leaves
<1>5. pc' \in {"reloc_sort", "reloc_do"}
  BY <1>1 DEF RelocSort, SortInserts, SortEnds, Goto
<1>6. \A a : Touched(a) => Touched(a)'
  BY TouchedStays
<1>7. OnlyTouched(W)'
  BY <1>1, <1>2, <1>6, StillTouched
<1>8. /\ nreloc = Len(rel_list) /\ nreloc \in Nat /\ Current' = Current
  BY <1>1, ListFacts DEF Current
<1>9. CASE SortInserts("reloc_sort")
  <2> DEFINE l == Inserted(rel_list, Current.rels[nreloc + 1])
  <2>1. /\ pc' = "reloc_sort" /\ nreloc < Len(Current.rels)
        /\ rel_list' = l /\ nreloc' = nreloc + 1
    BY <1>9, <1>1 DEF SortInserts
  <2>2. /\ d.at = "sort" /\ d.scn = scn /\ d.count = ninty_count_real
        /\ d.list = l /\ d.n = nreloc + 1 /\ d.pairs = hilopair
    BY <1>3, <1>4, <1>8, <2>1 DEF Inserts, Sorted
  <2>3. /\ Len(l) = nreloc + 1
        /\ \A q \in 1 .. Len(l) :
              \E p \in DOMAIN Current.rels : p <= nreloc + 1 /\ l[q] = Current.rels[p]
        /\ \A q, r \in 1 .. Len(l) : q # r => l[q].offset # l[r].offset
    BY <1>1, <2>1, InsertedKnown
  <2> HIDE DEF l
  <2>4. Alike(d)'
    BY <1>1, <2>1, <2>2 DEF Alike, Phase
  <2>5. Repeated'
    BY <1>1, <1>2, <1>7, <2>4, GoesAlong DEF d
  <2>6. ListKnown'
    BY <1>1, <1>8, <2>1, <2>3 DEF ListKnown
  <2> QED BY <2>5, <2>6
<1>10. CASE SortEnds("reloc_sort", "reloc_do")
  <2>1. /\ pc' = "reloc_do" /\ nreloc = Len(Current.rels) /\ i' = 1
        /\ UNCHANGED <<rel_list, nreloc>>
    BY <1>10 DEF SortEnds, Goto
  <2>2. /\ d.at = "do" /\ d.scn = scn /\ d.count = ninty_count_real /\ d.i = 1
        /\ d.list = rel_list /\ d.n = nreloc /\ d.pairs = hilopair
    BY <1>3, <1>4, <1>8, <2>1 DEF Inserts, Sorted
  <2>3. Alike(d)'
    BY <1>1, <2>1, <2>2 DEF Alike, Phase
  <2>4. Repeated'
    BY <1>1, <1>2, <1>7, <2>3, GoesAlong DEF d
  <2>5. hilopair' = NoHiLoPairs
    BY <1>1 DEF ListKnown
  <2>6. \A r \in Registers : hilopair'[r].status = "invalid"
    BY <2>5 DEF NoHiLoPairs
  <2>7. /\ \A q \in 1 .. Len(rel_list') :
              \E p \in DOMAIN Current'.rels : p <= nreloc' /\ rel_list'[q] = Current'.rels[p]
        /\ \A q, r \in 1 .. Len(rel_list') :
              q # r => rel_list'[q].offset # rel_list'[r].offset
    BY <1>1, <1>8, <2>1 DEF ListKnown
  <2>8. i' <= nreloc' + 1
    BY <1>8, <2>1
  <2>9. ListKnown'
    BY <2>1, <2>6, <2>7, <2>8 DEF ListKnown
  <2> QED BY <2>4, <2>9
<1> QED BY <1>9, <1>10 DEF RelocSort

LEMMA RelocNextPass ==
    ASSUME IInv, Repeated, ListKnown, RelocNext
    PROVE  Repeated' /\ ListKnown'
<1>1. /\ pc = "reloc_do" /\ pc' = "reloc_scan" /\ scn' = scn /\ i > nreloc
      /\ UNCHANGED <<elf, elf_starts, sizes, memory, ninty_count_pred, ninty_count_real>>
  BY DEF RelocNext, RelocFrame, ListEnds, Goto, loopVars, countVars, inputVars, tableVars
<1>2. PICK W, h, T, t :
          /\ SameWorld(W) /\ Trace(W, h, T)
          /\ AtEnd(W, h[T]) /\ h[T].count = ninty_count_pred
          /\ t + 1 \in 0 .. T /\ Alike(h[t])
          /\ Step(W, h[t], h[t + 1])
          /\ OnlyTouched(W)
  BY <1>1, NextInTrace DEF SecondPass
<1> DEFINE c == h[t]
           d == h[t + 1]
<1>3. /\ c.at = "do" /\ c.scn = scn /\ c.count = ninty_count_real
      /\ c.n = nreloc /\ c.i = i
  BY <1>1, <1>2 DEF Alike, Phase
<1>4. /\ scn \in RelocSections /\ nreloc = Len(rel_list) /\ nreloc \in Nat /\ i \in Nat
  BY <1>1, ListFacts
<1> HIDE DEF c, d
<1>5. Leaves(W, c, d)
  BY <1>1, <1>2, <1>3, <1>4 DEF c, d, Step, Skips, Finds, Inserts, Sorted, Treats
<1>6. \A a : Touched(a) => Touched(a)'
  BY TouchedStays
<1>7. OnlyTouched(W)'
  BY <1>1, <1>2, <1>6, StillTouched
<1>8. Alike(d)'
  BY <1>1, <1>3, <1>5 DEF Alike, Phase, Leaves
<1>9. Repeated'
  BY <1>1, <1>2, <1>7, <1>8, GoesAlong DEF d
<1> QED BY <1>1, <1>9 DEF ListKnown

LEMMA RelocEndPass ==
    ASSUME Repeated, RelocEnd
    PROVE  ninty_count_pred' = ninty_count_real'
<1>1. /\ pc = "reloc_scan" /\ scn = Len(elf.sections)
      /\ UNCHANGED <<ninty_count_pred, ninty_count_real>>
  BY DEF RelocEnd, RelocFrame, countVars, tableVars
<1>2. PICK W, h, T, t :
          /\ SameWorld(W) /\ Trace(W, h, T)
          /\ AtEnd(W, h[T]) /\ h[T].count = ninty_count_pred
          /\ t \in 0 .. T /\ Alike(h[t])
  BY <1>1 DEF Repeated, SecondPass
<1>3. AtEnd(W, h[t]) /\ h[t].count = ninty_count_real
  BY <1>1, <1>2 DEF Alike, AtEnd, SameWorld, Phase
<1>4. t = T
  BY <1>2, <1>3, TraceGoesOn
<1> QED BY <1>1, <1>2, <1>3, <1>4

(* The word of an entry is as it was before the second pass when it is the
   entry's turn: nothing that was rewritten before lies there. *)
LEMMA WordUntouched ==
    ASSUME IInv, DistinctOffsets, ListKnown, pc = "reloc_do", i <= nreloc,
           NEW W, OnlyTouched(W)
    PROVE  LET o == rel_list[i].offset - elf.ep
           IN  /\ o \in Offsets /\ o + elf.ep = rel_list[i].offset
               /\ memory[o] = W.memory[o]
<1> DEFINE a == rel_list[i].offset
           o == a - elf.ep
<1>1. /\ scn \in RelocSections /\ scn \in Nat /\ nreloc = Len(rel_list) /\ i \in Nat
      /\ nreloc \in Nat
  BY ListFacts
<1>2. i >= 1 /\ ListInImage
  BY DEF IInv, Control, InList, ListInImage
<1>3. i \in 1 .. Len(rel_list)
  BY <1>1, <1>2
<1>4. o \in Offsets
  BY <1>2, <1>3 DEF ListInImage, InImage
<1>5. rel_list[i] \in Entries /\ elf.ep \in Words
  BY <1>3 DEF IInv, TypeOK, PassTypeOK, WellFormed
<1>6. o + elf.ep = a
  BY <1>5, Spans DEF Entries, Words
<1>7. PICK p \in DOMAIN Current.rels : rel_list[i] = Current.rels[p]
  BY <1>3 DEF ListKnown
<1>8. ASSUME Touched(a) PROVE FALSE
  <2>1. CASE \E j \in SectionIndex : j < scn /\ NamedIn(j, a)
    <3>1. PICK j \in RelocSections : j < scn /\ NamedIn(j, a)
      BY <2>1 DEF NamedIn
    <3>2. PICK q \in DOMAIN elf.sections[j].rels : elf.sections[j].rels[q].offset = a
      BY <3>1 DEF NamedIn
    <3>3. <<j, q>> # <<scn, p>>
      BY <1>1, <3>1 DEF RelocSections, SectionIndex
    <3>4. elf.sections[j].rels[q].offset # elf.sections[scn].rels[p].offset
      BY <1>1, <1>7, <3>1, <3>2, <3>3 DEF DistinctOffsets, Current
    <3> QED BY <1>7, <3>2, <3>4 DEF Current
  <2>2. CASE Done(a)
    <3>1. PICK q \in 1 .. (i - 1) : rel_list[q].offset = a
      BY <2>2 DEF Done
    <3>2. q \in 1 .. Len(rel_list) /\ q # i
      BY <1>3
    <3> QED BY <1>3, <3>1, <3>2 DEF ListKnown
  <2> QED BY <1>8, <2>1, <2>2 DEF Touched
<1> HIDE DEF o, a
<1>9. memory[o] = W.memory[o]
  BY <1>4, <1>6, <1>8 DEF OnlyTouched
<1> QED BY <1>4, <1>6, <1>9 DEF o, a

(* What an entry rewrites is its own word, or that of a HI16 before it. *)
LEMMA EntryTouches ==
    ASSUME IInv, DistinctOffsets, ListKnown, RelocEntry, pc' = "reloc_do",
           NEW W, OnlyTouched(W)
    PROVE  OnlyTouched(W)'
<1> DEFINE rel == rel_list[i]
           o   == rel.offset - elf.ep
           v   == novl_reloc_do(o, rel.type, FALSE)
<1>1. /\ pc = "reloc_do" /\ i <= nreloc /\ i' = i + 1 /\ memory' = v.memory
      /\ UNCHANGED <<elf, scn, rel_list, nreloc>>
  BY DEF RelocEntry, RelocFrame, inputVars, Exit, Goto
<1>2. /\ nreloc = Len(rel_list) /\ i \in Nat /\ nreloc \in Nat /\ i >= 1
  BY <1>1, ListFacts DEF IInv, Control
<1>3. o \in Offsets /\ o + elf.ep = rel.offset
  BY <1>1, WordUntouched
<1>4. EngineTypeOK
  BY DEF IInv, TypeOK
<1> HIDE DEF o
<1>5. \A q \in Offsets : v.memory[q] # memory[q] => q \in Writes(o, memory[o], hilopair)
  BY ZenonT(30), <1>3, <1>4, CallWrites
<1> HIDE DEF v
<1>6. \A a : Done(a) \/ a = rel.offset => Done(a)'
  <2>1. \A a : Done(a) => Done(a)'
    BY <1>1, <1>2 DEF Done
  <2>2. i \in 1 .. (i' - 1) /\ rel_list'[i] = rel
    BY <1>1, <1>2
  <2> QED BY <2>1, <2>2 DEF Done
<1>7. \A a : Touched(a) => Touched(a)'
  BY <1>1, <1>6 DEF Touched, SectionIndex, NamedIn, RelocSections
<1>8. \A r \in Registers : \A a :
          hilopair[r].status # "invalid" /\ a = hilopair[r].ptr + elf.ep => Done(a)
  BY <1>1 DEF ListKnown
<1>9. LoReg(memory[o]) \in Registers
  BY <1>3, <1>4, FieldTypes DEF EngineTypeOK
<1>10. ASSUME NEW q \in Offsets, memory'[q] # W.memory[q], NEW a, a = q + elf.ep
       PROVE  Touched(a)'
  <2>1. CASE memory[q] # W.memory[q]
    <3>1. Touched(a)
      BY <1>10, <2>1 DEF OnlyTouched
    <3> QED BY <1>7, <3>1
  <2>2. CASE memory'[q] # memory[q]
    <3>1. q \in Writes(o, memory[o], hilopair)
      BY <1>1, <1>5, <2>2
    <3>2. a = rel.offset \/ Done(a)
      BY <1>3, <1>8, <1>9, <1>10, <3>1 DEF Writes
    <3> QED BY <1>6, <3>2 DEF Touched
  <2> QED BY <1>10, <2>1, <2>2
<1> QED BY <1>1, <1>10 DEF OnlyTouched

LEMMA RelocEntryPass ==
    ASSUME IInv, NoNullDereference', DistinctOffsets, Repeated, ListKnown, RelocEntry
    PROVE  pc' = "reloc_do" /\ status' = status /\ Repeated' /\ ListKnown'
<1> DEFINE rel == rel_list[i]
           o   == rel.offset - elf.ep
           v   == novl_reloc_do(o, rel.type, FALSE)
<1>1. /\ pc = "reloc_do" /\ i <= nreloc
      /\ hilopair' = v.hilopair /\ memory' = v.memory
      /\ UNCHANGED <<elf, elf_starts, sizes, ninty_count_pred, scn, rel_list, nreloc>>
  BY DEF RelocEntry, RelocFrame, inputVars, countVars
<1>2. PICK W, h, T, t :
          /\ SameWorld(W) /\ Trace(W, h, T)
          /\ AtEnd(W, h[T]) /\ h[T].count = ninty_count_pred
          /\ t + 1 \in 0 .. T /\ Alike(h[t])
          /\ Step(W, h[t], h[t + 1])
          /\ OnlyTouched(W)
  BY <1>1, NextInTrace DEF SecondPass
<1>3. /\ scn \in RelocSections /\ nreloc = Len(rel_list) /\ i \in Nat /\ nreloc \in Nat
  BY <1>1, ListFacts
<1>4. o \in Offsets /\ o + elf.ep = rel.offset /\ memory[o] = W.memory[o]
  BY <1>1, <1>2, WordUntouched
<1>5. EngineTypeOK
  BY DEF IInv, TypeOK
<1> HIDE DEF o
<1>6. /\ v.ret = Ret(W, memory[o], hilopair, rel.type)
      /\ v.hilopair = PairsAfter(o, memory[o], hilopair, rel.type)
  BY <1>2, CallReturns DEF SameWorld
<1> HIDE DEF v
<1> DEFINE c == h[t]
           d == h[t + 1]
<1>8. /\ c.at = "do" /\ c.scn = scn /\ c.count = ninty_count_real
      /\ c.n = nreloc /\ c.i = i /\ c.list = rel_list /\ c.pairs = hilopair
      /\ W.elf = elf
  BY <1>1, <1>2 DEF Alike, Phase, SameWorld
<1> HIDE DEF c, d
<1>9. Treats(W, c, d)
  <2>1. ~(c.i > c.n)
    BY <1>1, <1>3, <1>8
  <2> QED BY <1>2, <1>8, <2>1 DEF c, d, Step, Skips, Finds, Inserts, Sorted, Leaves
<1>10. /\ v.ret # "error"
       /\ d.at = "do" /\ d.scn = scn /\ d.list = rel_list /\ d.n = nreloc
       /\ d.i = i + 1 /\ d.pairs = v.hilopair
       /\ d.count = ninty_count_real + Predicted(rel, v.ret)
  BY <1>4, <1>6, <1>8, <1>9 DEF Treats, o
<1>11. /\ i' = i + 1 /\ pc' = "reloc_do" /\ status' = status
       /\ ninty_count_real' = ninty_count_real + Predicted(rel, v.ret)
  <2>1. ninty_count_real \in Int
    BY DEF IInv, TypeOK, PassTypeOK
  <2>2. \/ v.ret = "error"
        \/ v.ret = "success" /\ AppendWord(rel) /\ i' = i + 1 /\ UNCHANGED <<pc, status>>
        \/ /\ v.ret \in {"fail", "fail_keep_hi"} /\ ~DropsHi(rel, v.ret)
           /\ i' = i + 1 /\ UNCHANGED <<tableVars, pc, status>>
        \/ /\ v.ret \in {"fail", "fail_keep_hi"} /\ DropsHi(rel, v.ret)
           /\ DeleteLast /\ i' = i + 1 /\ UNCHANGED <<pc, status>>
        \/ Goto("crashed")
    BY DEF RelocEntry, v, o
  <2>3. ~Goto("crashed")
    BY DEF NoNullDereference, Goto
  <2> HIDE DEF rel
  <2>4. CASE v.ret = "success" /\ AppendWord(rel) /\ i' = i + 1 /\ UNCHANGED <<pc, status>>
    BY <1>1, <2>4 DEF AppendWord, Predicted
  <2>5. CASE /\ v.ret \in {"fail", "fail_keep_hi"} /\ ~DropsHi(rel, v.ret)
             /\ i' = i + 1 /\ UNCHANGED <<tableVars, pc, status>>
    BY <1>1, <2>1, <2>5 DEF DropsHi, Predicted, tableVars
  <2>6. CASE /\ v.ret \in {"fail", "fail_keep_hi"} /\ DropsHi(rel, v.ret)
             /\ DeleteLast /\ i' = i + 1 /\ UNCHANGED <<pc, status>>
    BY <1>1, <2>1, <2>6 DEF DropsHi, Predicted, DeleteLast
  <2> QED BY <1>10, <2>2, <2>3, <2>4, <2>5, <2>6
<1>12. Alike(d)'
  BY <1>1, <1>10, <1>11 DEF Alike, Phase
<1>13. \A a : Done(a) => Done(a)'
  BY <1>1, <1>3, <1>11 DEF Done
<1>14. \A a : a = rel.offset => Done(a)'
  <2>1. i \in 1 .. (i' - 1) /\ rel_list'[i] = rel
    BY <1>1, <1>3, <1>11 DEF IInv, Control
  <2> QED BY <2>1 DEF Done
<1>15. \A r \in Registers : \A a :
          hilopair[r].status # "invalid" /\ a = hilopair[r].ptr + elf.ep => Done(a)
  BY <1>1 DEF ListKnown
<1>17. LoReg(memory[o]) \in Registers /\ HiReg(memory[o]) \in Registers
  BY <1>4, <1>5, FieldTypes DEF EngineTypeOK
<1>18. OnlyTouched(W)'
  BY <1>2, <1>11, EntryTouches
<1>19. Repeated'
  BY <1>1, <1>2, <1>12, <1>18, GoesAlong DEF d
<1>20. ASSUME NEW r \in Registers, hilopair'[r].status # "invalid",
              NEW a, a = hilopair'[r].ptr + elf.ep
       PROVE  Done(a)'
  <2>1. hilopair' = PairsAfter(o, memory[o], hilopair, rel.type)
    BY <1>1, <1>6
  <2>2. hilopair \in HiLoPairs
    BY <1>5 DEF EngineTypeOK
  <2>3. \/ hilopair'[r].ptr = o
        \/ hilopair'[r].ptr = hilopair[r].ptr /\ hilopair[r].status # "invalid"
    BY <1>17, <1>20, <2>1, <2>2 DEF PairsAfter, HiLoPairs
  <2>4. a = rel.offset \/ Done(a)
    BY <1>4, <1>15, <1>20, <2>3
  <2> QED BY <1>13, <1>14, <2>4
<1>21. i' <= nreloc' + 1
  BY <1>1, <1>3, <1>11
<1>22. /\ \A q \in 1 .. Len(rel_list') :
             \E p \in DOMAIN Current'.rels : p <= nreloc' /\ rel_list'[q] = Current'.rels[p]
       /\ \A q, r \in 1 .. Len(rel_list') :
             q # r => rel_list'[q].offset # rel_list'[r].offset
  BY <1>1 DEF ListKnown, Current
<1>23. (\A r \in Registers :
          hilopair[r].status # "invalid" => Done(hilopair[r].ptr + elf.ep))'
  BY <1>1, <1>20
<1>24. ListKnown'
  BY <1>11, <1>21, <1>22, <1>23 DEF ListKnown
<1> QED BY <1>11, <1>19, <1>24

-----------------------------------------------------------------------------
LEMMA InitPass == Init => PassInv
<1> SUFFICES ASSUME Init PROVE PassInv
  OBVIOUS
<1>1. pc = "open" /\ status = "running" /\ ninty_count_pred = 0 /\ ~error
  BY DEF Init
<1>2. Recorded
  BY <1>1 DEF Recorded, FirstPass
<1>3. Repeated /\ ListKnown
  BY <1>1 DEF Repeated, ListKnown, SecondPass
<1>4. Agreed
  BY <1>1 DEF Agreed, PassesDisagree
<1> QED BY <1>2, <1>3, <1>4 DEF PassInv

LEMMA EarlyPass ==
    ASSUME PassInv, Open \/ CreateFails \/ Create \/ LoadSkip \/ LoadDuplicate \/ LoadSection
    PROVE  PassInv'
<1>1. /\ pc \in {"open", "create", "load"} /\ pc' \in {"open", "create", "load", "exit"}
      /\ UNCHANGED <<elf, error, ninty_count_pred>>
      /\ status' \in {status, "err_input", "err_output", "err_multiple", "err_bounds"}
  BY DEF Open, CreateFails, Create, LoadSkip, LoadDuplicate, LoadSection, LoadFrame,
         Exit, Goto, countVars, inputVars
<1>2. Recorded'
  BY <1>1 DEF PassInv, Recorded, FirstPass
<1>3. Repeated' /\ ListKnown'
  BY <1>1 DEF Repeated, ListKnown, SecondPass
<1>4. DistinctOffsets' => Agreed'
  BY <1>1 DEF PassInv, Agreed, PassesDisagree, DistinctOffsets, RelocSections, SectionIndex
<1> QED BY <1>2, <1>3, <1>4 DEF PassInv

LEMMA FirstPassInv ==
    ASSUME PassInv,
           LoadEnd \/ CountScan \/ CountSort \/ CountEntry \/ CountNext \/ CountEnd
    PROVE  PassInv'
<1>1. Recorded'
  BY LoadEndPass, CountScanPass, CountSortPass, CountEntryPass, CountNextPass, CountEndPass
<1>2. /\ pc \in {"load", "count_scan", "count_sort", "count_do"}
      /\ pc' \in {"count_scan", "count_sort", "count_do", "layout", "exit"}
      /\ elf' = elf /\ (error => error')
      /\ status' = status \/ (status' = "err_reloc" /\ error')
  <2>1. CASE LoadEnd
    BY <2>1 DEF LoadEnd, LoadFrame, Goto, countVars, inputVars
  <2>2. CASE CountScan
    BY <2>2 DEF CountScan, CountFrame, ScanSkips, ScanFinds, Goto, countVars, inputVars
  <2>3. CASE CountSort
    BY <2>3 DEF CountSort, CountFrame, SortInserts, SortEnds, Goto, countVars, inputVars
  <2>4. CASE CountEntry
    BY <2>4 DEF CountEntry, inputVars
  <2>5. CASE CountNext
    BY <2>5 DEF CountNext, CountFrame, ListEnds, Goto, countVars, inputVars
  <2>6. CASE CountEnd
    BY <2>6 DEF CountEnd, CountFrame, Goto, Exit, countVars, inputVars
  <2> QED BY <2>1, <2>2, <2>3, <2>4, <2>5, <2>6
<1>3. Repeated' /\ ListKnown'
  BY <1>2 DEF Repeated, ListKnown, SecondPass
<1>4. DistinctOffsets' => Agreed'
  BY <1>2 DEF PassInv, Agreed, PassesDisagree, DistinctOffsets, RelocSections, SectionIndex
<1> QED BY <1>1, <1>3, <1>4 DEF PassInv

LEMMA SecondPassInv ==
    ASSUME IInv, IInv', PassInv,
           Layout \/ RelocScan \/ RelocSort \/ RelocEntry \/ RelocNext \/ RelocEnd
    PROVE  PassInv'
<1>1. pc \in SecondPass \cup {"layout"} /\ elf' = elf /\ UNCHANGED countVars
  BY DEF Layout, RelocScan, RelocSort, RelocEntry, RelocNext, RelocEnd, RelocFrame,
         ScanSkips, ScanFinds, SortInserts, SortEnds, ListEnds, SecondPass, inputVars
<1>2. pc' \in SecondPass \cup {"check_count", "exit", "crashed"}
  BY DEF Layout, RelocScan, RelocSort, RelocEntry, RelocNext, RelocEnd, Goto, Exit,
         ScanSkips, ScanFinds, SortInserts, SortEnds, ListEnds, SecondPass
<1>3. Recorded'
  BY <1>2 DEF Recorded, FirstPass, SecondPass
<1>4. ASSUME DistinctOffsets' PROVE Repeated' /\ ListKnown' /\ Agreed'
  <2>1. DistinctOffsets
    BY <1>1, <1>4 DEF DistinctOffsets, RelocSections, SectionIndex
  <2>2. Repeated /\ ListKnown /\ ~PassesDisagree
    BY <2>1 DEF PassInv, Agreed
  <2>3. UNCHANGED <<status, error>> => ~PassesDisagree'
    BY <2>2 DEF PassesDisagree
  <2>4. error' = error
    BY <1>1 DEF countVars
  <2>5. CASE Layout
    <3>1. pc' = "reloc_scan" /\ status' = status
      BY <2>5 DEF Layout, Goto
    <3>2. Repeated' /\ ListKnown'
      BY <2>5, <3>1, LayoutPass DEF ListKnown
    <3> QED BY <2>3, <2>4, <3>1, <3>2 DEF Agreed
  <2>6. CASE RelocScan
    <3>1. pc' # "check_count" /\ status' = status
      BY <2>6 DEF RelocScan, ScanSkips, ScanFinds, Goto
    <3>2. Repeated' /\ ListKnown'
      BY <2>2, <2>6, RelocScanPass
    <3> QED BY <2>3, <2>4, <3>1, <3>2 DEF Agreed
  <2>7. CASE RelocSort
    <3>1. pc' # "check_count" /\ status' = status
      BY <2>7 DEF RelocSort, SortInserts, SortEnds, Goto
    <3>2. Repeated' /\ ListKnown'
      BY <2>1, <2>2, <2>7, RelocSortPass
    <3> QED BY <2>3, <2>4, <3>1, <3>2 DEF Agreed
  <2>8. CASE RelocEntry
    <3>1. NoNullDereference'
      BY DEF IInv
    <3>2. pc' = "reloc_do" /\ status' = status /\ Repeated' /\ ListKnown'
      BY <2>1, <2>2, <2>8, <3>1, RelocEntryPass
    <3> QED BY <2>3, <2>4, <3>2 DEF Agreed
  <2>9. CASE RelocNext
    <3>1. pc' # "check_count" /\ status' = status
      BY <2>9 DEF RelocNext, ListEnds, Goto
    <3>2. Repeated' /\ ListKnown'
      BY <2>2, <2>9, RelocNextPass
    <3> QED BY <2>3, <2>4, <3>1, <3>2 DEF Agreed
  <2>10. CASE RelocEnd
    <3>1. pc' = "check_count" /\ status' = status
      BY <2>10 DEF RelocEnd, Goto
    <3>2. ninty_count_pred' = ninty_count_real'
      BY <2>2, <2>10, RelocEndPass
    <3>3. Repeated' /\ ListKnown'
      BY <3>1 DEF Repeated, ListKnown, SecondPass
    <3> QED BY <2>3, <2>4, <3>1, <3>2, <3>3 DEF Agreed
  <2> QED BY <2>5, <2>6, <2>7, <2>8, <2>9, <2>10
<1> QED BY <1>3, <1>4 DEF PassInv

LEMMA WritingPass ==
    ASSUME PassInv,
           \/ CheckCount \/ WriteHeader \/ WriteRelocs \/ WriteFooter \/ CheckBss
           \/ WriteSection \/ CheckHeader \/ Close
    PROVE  PassInv'
<1>1. /\ pc \in WritePlaces /\ pc' \in (WritePlaces \ {"check_count"}) \cup {"exit", "outside"}
      /\ UNCHANGED <<elf, error>>
      /\ \/ status' \in {status, "err_bss", "err_arrange", "ok"}
         \/ status' = "err_count" /\ pc = "check_count"
            /\ ninty_count_pred # ninty_count_real
  BY DEF CheckCount, WriteHeader, WriteRelocs, WriteFooter, CheckBss, WriteSection,
         CheckHeader, Close, WriteFrame, RemoveAndExit, Exit, Goto, WritePlaces,
         inputVars, countVars
<1>2. Recorded' /\ Repeated' /\ ListKnown'
  BY <1>1 DEF Recorded, Repeated, ListKnown, FirstPass, SecondPass, WritePlaces
<1>3. DistinctOffsets' => Agreed'
  BY <1>1 DEF PassInv, Agreed, PassesDisagree, DistinctOffsets, RelocSections,
              SectionIndex, WritePlaces
<1> QED BY <1>2, <1>3 DEF PassInv

LEMMA StutterPass == ASSUME PassInv, UNCHANGED vars PROVE PassInv'
<1>1. UNCHANGED <<elf, elf_starts, sizes, memory, hilopair, scn, rel_list, nreloc, i,
                  error, ninty_count_pred, ninty_count_real, pc, status>>
  BY DEF vars, engineVars, inputVars, loopVars, countVars, tableVars
<1>2. Recorded'
  <2>1. Led => Led'
    BY <1>1 DEF Led, World, Configuration, Phase
  <2> QED BY <1>1, <2>1 DEF PassInv, Recorded
<1>3. DistinctOffsets' => DistinctOffsets
  BY <1>1 DEF DistinctOffsets, RelocSections, SectionIndex
<1>4. Agreed => Agreed'
  BY <1>1 DEF Agreed, PassesDisagree
<1>5. Repeated => Repeated'
  <2>1. \A W : SameWorld(W) => SameWorld(W)'
    BY <1>1 DEF SameWorld
  <2>2. \A c : Alike(c) => Alike(c)'
    BY <1>1 DEF Alike, Phase
  <2>3. \A a : Touched(a) => Touched(a)'
    BY <1>1 DEF Touched, Done, NamedIn, RelocSections, SectionIndex
  <2>4. \A W : OnlyTouched(W) => OnlyTouched(W)'
    BY <1>1, <2>3, StillTouched
  <2> QED BY <1>1, <2>1, <2>2, <2>4 DEF Repeated
<1>6. ListKnown => ListKnown'
  BY <1>1 DEF ListKnown, Current, Done
<1> QED BY <1>2, <1>3, <1>4, <1>5, <1>6 DEF PassInv

(***************************************************************************)
(* Both passes take the same steps for the same entries, the second in the *)
(* order the first did (novl-conv.c:243-388, 390-527), when no word is     *)
(* relocated twice.                                                        *)
(***************************************************************************)
THEOREM PassInvariant == Spec => []PassInv
<1>1. Init => PassInv
  BY InitPass
<1>2. IInv /\ IInv' /\ PassInv /\ [Next]_vars => PassInv'
  <2> SUFFICES ASSUME IInv, IInv', PassInv, [Next]_vars
               PROVE  PassInv'
    OBVIOUS
  <2>1. CASE Open \/ CreateFails \/ Create \/ LoadSkip \/ LoadDuplicate \/ LoadSection
    BY <2>1, EarlyPass
  <2>2. CASE LoadEnd \/ CountScan \/ CountSort \/ CountEntry \/ CountNext \/ CountEnd
    BY <2>2, FirstPassInv
  <2>3. CASE Layout \/ RelocScan \/ RelocSort \/ RelocEntry \/ RelocNext \/ RelocEnd
    BY <2>3, SecondPassInv
  <2>4. CASE \/ CheckCount \/ WriteHeader \/ WriteRelocs \/ WriteFooter \/ CheckBss
             \/ WriteSection \/ CheckHeader \/ Close
    BY <2>4, WritingPass
  <2>5. CASE Exited \/ UNCHANGED vars
    BY <2>5, StutterPass DEF Exited
  <2> QED BY <2>1, <2>2, <2>3, <2>4, <2>5 DEF Next
<1> QED BY <1>1, <1>2, Invariant, PTL DEF Spec

(***************************************************************************)
(* The second pass comes to the count that the first has predicted, and    *)
(* fails for no entry that the first has accepted (novl-conv.c:390-527),   *)
(* for every ELF file in which no word is relocated twice: the checks      *)
(* behind the second pass are then never what ends a conversion.           *)
(***************************************************************************)
THEOREM PassesAgreeAlways == Spec => []PassesAgree
<1>1. PassInv => PassesAgree
  BY DEF PassInv, Agreed, PassesAgree
<1> QED BY <1>1, PassInvariant, PTL

-----------------------------------------------------------------------------
(***************************************************************************)
(* What the second pass builds, step by step, from the ELF file alone: the *)
(* image before anything is relocated, the order of the list, the pairs,   *)
(* and the entries in the table.                                           *)
(***************************************************************************)

(* The sections met so far are in the tables of sections, each under its own name. *)
Met(n) == {k \in LoadedSections : k <= n}

IdOf(k) == valid_sec(elf.sections[k].name)

SectionsMet(n) ==
    /\ \A j, k \in Met(n) : IdOf(j) = IdOf(k) => j = k
    /\ \A k \in Met(n) :
          LET s == elf.sections[k]
          IN  /\ elf_starts[IdOf(k)] = s.addr /\ sizes[IdOf(k)] = RoundUp8(s.size)
              /\ s.type = "PROGBITS" => ~OutOfBounds(s, elf.ep)
    /\ \A id \in SectionIds :
          (\A k \in Met(n) : IdOf(k) # id) => elf_starts[id] = 0 /\ sizes[id] = 0

Covers(s, a) == s.type = "PROGBITS" /\ s.addr <= a /\ a < s.addr + s.size

WordIn(s, a) == s.data[(a - s.addr) \div 4 + 1]

ImageMet(n) ==
    \A o \in Offsets :
        LET a == o + elf.ep
        IN  /\ \A k \in Met(n) : Covers(elf.sections[k], a) => memory[o] = WordIn(elf.sections[k], a)
            /\ (\A k \in Met(n) : ~Covers(elf.sections[k], a)) => memory[o] = 0

SectionsKnown ==
    /\ pc \in {"open", "create"} => memory = [o \in Offsets |-> 0]
    /\ pc = "load" => SectionsMet(scn) /\ ImageMet(scn)
    /\ pc \in {"count_scan", "count_sort", "count_do", "layout"} =>
          SectionsMet(Len(elf.sections)) /\ ImageMet(Len(elf.sections))
    /\ pc \in SecondPass => SectionsMet(Len(elf.sections))


LEMMA SectionFacts ==
    ASSUME WellFormed(elf), NEW k \in LoadedSections
    PROVE  /\ k \in 1 .. Len(elf.sections) /\ k \in Nat
           /\ elf.sections[k] \in Sections /\ WellFormedSection(elf.sections[k], elf.ep)
           /\ IdOf(k) \in SectionIds
           /\ elf.sections[k].addr \in Words /\ elf.sections[k].addr \in Nat
           /\ elf.sections[k].size \in Nat /\ elf.ep \in Nat
           /\ RoundUp8(elf.sections[k].size) \in Nat
           /\ RoundUp8(elf.sections[k].size) >= elf.sections[k].size
<1>1. k \in 1 .. Len(elf.sections) /\ elf.sections \in Seq(Sections)
  BY DEF LoadedSections, SectionIndex, WellFormed
<1>2. elf.sections[k] \in Sections /\ WellFormedSection(elf.sections[k], elf.ep)
  BY <1>1 DEF WellFormed
<1>3. IdOf(k) \in SectionIds
  BY <1>2 DEF IdOf, LoadedSections, valid_sec, Sections, SectionNames
<1>4. elf.sections[k].addr \in Words /\ elf.sections[k].size \in Nat /\ elf.ep \in Words
  BY <1>2 DEF Sections, WellFormed
<1>5. elf.sections[k].addr \in Nat /\ elf.ep \in Nat
  BY <1>4, Spans DEF Words
<1> DEFINE n == elf.sections[k].size
<1>6. RoundUp8(n) \in Nat /\ RoundUp8(n) >= n
  <2>1. n \in Nat
    BY <1>4
  <2> HIDE DEF n
  <2> QED BY <2>1 DEF RoundUp8
<1> QED BY <1>1, <1>2, <1>3, <1>4, <1>5, <1>6

LEMMA SameSections ==
    ASSUME UNCHANGED <<elf, elf_starts, sizes>>, NEW n, SectionsMet(n)
    PROVE  SectionsMet(n)'
<1>1. Met(n)' = Met(n) /\ \A k : IdOf(k)' = IdOf(k)
  BY DEF Met, LoadedSections, SectionIndex, IdOf
<1> QED BY <1>1 DEF SectionsMet

LEMMA SameImage ==
    ASSUME UNCHANGED <<elf, memory>>, NEW n, ImageMet(n)
    PROVE  ImageMet(n)'
<1>1. Met(n)' = Met(n)
  BY DEF Met, LoadedSections, SectionIndex
<1> QED BY <1>1 DEF ImageMet

LEMMA InitLoading == Init => SectionsKnown
  BY DEF Init, SectionsKnown, SecondPass

LEMMA EarlyLoading ==
    ASSUME IInv, SectionsKnown, Open \/ CreateFails \/ Create \/ LoadDuplicate
    PROVE  SectionsKnown'
<1>1. CASE Open \/ CreateFails
  BY <1>1 DEF SectionsKnown, Open, CreateFails, Goto, Exit, engineVars, SecondPass
<1>2. CASE Create
  <2>1. /\ pc = "create" /\ pc' = "load" /\ scn' = 0 /\ elf' = elf /\ memory' = memory
        /\ elf_starts' = [s \in SectionIds |-> 0] /\ sizes' = [s \in SectionIds |-> 0]
    BY <1>2 DEF Create, Goto, inputVars
  <2>2. memory' = [o \in Offsets |-> 0] /\ WellFormed(elf')
    BY <2>1 DEF SectionsKnown, IInv, TypeOK
  <2>3. (SectionsMet(0) /\ ImageMet(0))'
    <3>1. Met(0)' = {}
      <4>1. Met(0) = {}
        BY SectionFacts DEF Met, IInv, TypeOK
      <4> QED BY <2>1, <4>1 DEF Met, LoadedSections, SectionIndex
    <3> QED BY <2>1, <2>2, <3>1 DEF SectionsMet, ImageMet
  <2>4. (SectionsMet(scn) /\ ImageMet(scn))'
    BY <2>1, <2>3
  <2> QED BY <2>1, <2>4 DEF SectionsKnown, SecondPass
<1>3. CASE LoadDuplicate
  BY <1>3 DEF LoadDuplicate, Exit, SectionsKnown, SecondPass
<1> QED BY <1>1, <1>2, <1>3

(* Whether k is loaded next: it is met, and known by its name. *)
LEMMA MetNext ==
    ASSUME WellFormed(elf), NEW m \in Nat, m < Len(elf.sections)
    PROVE  /\ m + 1 \in LoadedSections => Met(m + 1) = Met(m) \cup {m + 1}
           /\ m + 1 \notin LoadedSections => Met(m + 1) = Met(m)
<1>1. \A k \in LoadedSections : k \in Nat
  BY SectionFacts
<1> QED BY <1>1 DEF Met

LEMMA LoadSkipLoading ==
    ASSUME IInv, SectionsKnown, LoadSkip
    PROVE  SectionsKnown'
<1>1. /\ pc = "load" /\ pc' = "load" /\ scn < Len(elf.sections) /\ scn' = scn + 1
      /\ UNCHANGED <<elf, elf_starts, sizes, memory>>
      /\ valid_sec(elf.sections[scn + 1].name) = NoSection
  BY DEF LoadSkip, LoadFrame, inputVars, Section
<1>2. PICK m : m = scn
  OBVIOUS
<1>3. m \in Nat /\ m < Len(elf.sections) /\ WellFormed(elf)
  BY <1>1, <1>2 DEF IInv, TypeOK, PassTypeOK
<1>4. m + 1 \notin LoadedSections
  BY <1>1, <1>2 DEF LoadedSections
<1>5. Met(m + 1) = Met(m)
  BY <1>3, <1>4, MetNext
<1>6. SectionsMet(m + 1) /\ ImageMet(m + 1)
  BY <1>1, <1>2, <1>5 DEF SectionsKnown, SectionsMet, ImageMet
<1>7. (SectionsMet(m + 1) /\ ImageMet(m + 1))'
  BY <1>1, <1>6, SameSections, SameImage
<1>8. (SectionsMet(scn) /\ ImageMet(scn))'
  BY <1>1, <1>2, <1>7
<1> QED BY <1>1, <1>8 DEF SectionsKnown, SecondPass

LEMMA LoadSectionMet ==
    ASSUME IInv, Placed, LoadSection, NEW m, m = scn, SectionsMet(m),
           Section.type = "PROGBITS" => ~OutOfBounds(Section, elf.ep)
    PROVE  SectionsMet(m + 1)'
<1> DEFINE s  == elf.sections[scn + 1]
           id == IdOf(scn + 1)
<1>1. /\ pc = "load" /\ scn < Len(elf.sections) /\ elf' = elf
      /\ id # NoSection /\ elf_starts[id] = 0
      /\ elf_starts' = [elf_starts EXCEPT ![id] = s.addr]
      /\ sizes' = [sizes EXCEPT ![id] = RoundUp8(s.size) % Word]
      /\ s.type = "PROGBITS" => ~OutOfBounds(s, elf.ep)
  BY DEF LoadSection, LoadFrame, inputVars, Section, IdOf
<1>2. m = scn
  OBVIOUS
<1>3. m \in Nat /\ m < Len(elf.sections) /\ WellFormed(elf)
  BY <1>1, <1>2 DEF IInv, TypeOK, PassTypeOK
<1>4. m + 1 \in LoadedSections
  BY <1>1, <1>2, <1>3 DEF LoadedSections, SectionIndex, IdOf
<1>5. Met(m + 1) = Met(m) \cup {m + 1}
  BY <1>3, <1>4, MetNext
<1>6. /\ id \in SectionIds /\ s.addr \in Nat /\ s.size \in Nat /\ elf.ep \in Nat
      /\ RoundUp8(s.size) \in Nat /\ RoundUp8(s.size) >= s.size
      /\ WellFormedSection(s, elf.ep)
  BY <1>2, <1>3, <1>4, SectionFacts
<1>7. s.addr # 0 /\ s.addr + RoundUp8(s.size) < Word
  BY <1>2, <1>4 DEF Placed
<1>8. RoundUp8(s.size) % Word = RoundUp8(s.size)
  BY <1>6, <1>7, SmallMod, Spans
<1>9. elf_starts \in [SectionIds -> Words] /\ sizes \in [SectionIds -> Words]
  BY DEF IInv, TypeOK, EngineTypeOK
<1>10. \A x \in SectionIds :
          /\ x = id => elf_starts'[x] = s.addr /\ sizes'[x] = RoundUp8(s.size)
          /\ x # id => elf_starts'[x] = elf_starts[x] /\ sizes'[x] = sizes[x]
  BY <1>1, <1>6, <1>8, <1>9
<1>11. SectionsMet(m)
  OBVIOUS
<1>12. \A k \in Met(m) : k # m + 1 /\ IdOf(k) # id /\ IdOf(k) \in SectionIds
  <2> SUFFICES ASSUME NEW k \in Met(m) PROVE k # m + 1 /\ IdOf(k) # id /\ IdOf(k) \in SectionIds
    OBVIOUS
  <2>1. k \in LoadedSections /\ k <= m
    BY DEF Met
  <2>2. k \in Nat /\ IdOf(k) \in SectionIds
    BY <1>3, <2>1, SectionFacts
  <2>3. elf_starts[IdOf(k)] # 0
    BY <1>11, <2>1 DEF Placed, SectionsMet
  <2> QED BY <1>1, <1>3, <2>1, <2>2, <2>3
<1>13. Met(m + 1)' = Met(m) \cup {m + 1} /\ \A k : IdOf(k)' = IdOf(k)
  BY <1>1, <1>5 DEF Met, LoadedSections, SectionIndex, IdOf
<1>14. IdOf(m + 1) = id
  BY <1>2
<1>15. \A j, k \in Met(m + 1)' : IdOf(j)' = IdOf(k)' => j = k
  BY <1>11, <1>12, <1>13, <1>14 DEF SectionsMet
<1>16. \A k \in Met(m + 1)' : LET t == elf'.sections[k]
         IN  /\ elf_starts'[IdOf(k)'] = t.addr /\ sizes'[IdOf(k)'] = RoundUp8(t.size)
             /\ t.type = "PROGBITS" => ~OutOfBounds(t, elf'.ep)
  <2> SUFFICES ASSUME NEW k \in Met(m) \cup {m + 1}
               PROVE LET t == elf.sections[k]
                     IN  /\ elf_starts'[IdOf(k)] = t.addr /\ sizes'[IdOf(k)] = RoundUp8(t.size)
                         /\ t.type = "PROGBITS" => ~OutOfBounds(t, elf.ep)
    BY <1>1, <1>13
  <2>1. CASE k = m + 1
    <3>1. elf.sections[k] = s /\ IdOf(k) = id
      BY <1>2, <2>1
    <3>2. s.type = "PROGBITS" => ~OutOfBounds(s, elf.ep)
      BY <1>1
    <3> HIDE DEF s, id
    <3>3. elf_starts'[id] = s.addr /\ sizes'[id] = RoundUp8(s.size)
      BY <1>6, <1>10
    <3> QED BY <3>1, <3>2, <3>3
  <2>2. CASE k \in Met(m)
    BY <1>10, <1>11, <1>12, <2>2 DEF SectionsMet
  <2> QED BY <2>1, <2>2
<1>17. \A x \in SectionIds :
         (\A k \in Met(m + 1)' : IdOf(k)' # x) => elf_starts'[x] = 0 /\ sizes'[x] = 0
  <2> SUFFICES ASSUME NEW x \in SectionIds, \A k \in Met(m) \cup {m + 1} : IdOf(k) # x
               PROVE elf_starts'[x] = 0 /\ sizes'[x] = 0
    BY <1>13
  <2>1. x # id
    BY <1>2
  <2> QED BY <1>10, <1>11, <2>1 DEF SectionsMet
<1> HIDE DEF s, id
<1> QED BY <1>15, <1>16, <1>17 DEF SectionsMet

LEMMA LoadSectionLoading ==
    ASSUME IInv, Linked, SectionsKnown, LoadSection
    PROVE  SectionsKnown'
<1> DEFINE s  == elf.sections[scn + 1]
           id == IdOf(scn + 1)
<1>1. /\ pc = "load" /\ scn < Len(elf.sections) /\ elf' = elf
      /\ id # NoSection
      /\ \/ /\ s.type # "PROGBITS" /\ memory' = memory
            /\ scn' = scn + 1 /\ Goto("load")
         \/ Exit("err_bounds")
         \/ /\ s.type = "PROGBITS" /\ ~OutOfBounds(s, elf.ep)
            /\ memory' = Loaded(s) /\ scn' = scn + 1 /\ Goto("load")
  BY DEF LoadSection, LoadFrame, inputVars, Section, IdOf
<1>2. PICK m : m = scn
  OBVIOUS
<1>3. m \in Nat /\ m < Len(elf.sections) /\ WellFormed(elf)
  BY <1>1, <1>2 DEF IInv, TypeOK, PassTypeOK
<1>4. m + 1 \in LoadedSections
  BY <1>1, <1>2, <1>3 DEF LoadedSections, SectionIndex, IdOf
<1>5. Met(m + 1) = Met(m) \cup {m + 1}
  BY <1>3, <1>4, MetNext
<1>6. /\ id \in SectionIds /\ s.addr \in Nat /\ s.size \in Nat /\ elf.ep \in Nat
      /\ RoundUp8(s.size) \in Nat /\ RoundUp8(s.size) >= s.size
      /\ WellFormedSection(s, elf.ep)
  BY <1>2, <1>3, <1>4, SectionFacts
<1>7. s.readable /\ s.addr # 0 /\ s.addr + RoundUp8(s.size) < Word
  BY <1>2, <1>4 DEF Linked, Placed
<1>8. SectionsMet(m) /\ ImageMet(m)
  BY <1>1, <1>2 DEF SectionsKnown
<1>9. \A k \in Met(m) : k # m + 1
  <2>1. \A k \in Met(m) : k \in Nat /\ k <= m
    BY <1>3, SectionFacts DEF Met
  <2> QED BY <1>3, <2>1
<1>10. CASE Exit("err_bounds")
  BY <1>1, <1>10 DEF Exit, SectionsKnown, SecondPass
<1>11. CASE \/ s.type # "PROGBITS" /\ memory' = memory
            \/ s.type = "PROGBITS" /\ ~OutOfBounds(s, elf.ep) /\ memory' = Loaded(s)
  <2>1. SectionsMet(m + 1)'
    BY <1>2, <1>8, <1>11, LoadSectionMet DEF Linked, Section
  <2>2. ImageMet(m + 1)'
    <3>1. Met(m + 1)' = Met(m) \cup {m + 1}
      BY <1>1, <1>5 DEF Met, LoadedSections, SectionIndex
    <3> SUFFICES ASSUME NEW o \in Offsets, NEW a, a = o + elf.ep
                 PROVE  /\ \A k \in Met(m) \cup {m + 1} :
                              Covers(elf.sections[k], a) => memory'[o] = WordIn(elf.sections[k], a)
                        /\ (\A k \in Met(m) \cup {m + 1} : ~Covers(elf.sections[k], a)) => memory'[o] = 0
      BY <1>1, <3>1 DEF ImageMet
    <3>2. elf.sections[m + 1] = s
      BY <1>2
    <3>3. /\ Covers(s, a) => memory'[o] = WordIn(s, a)
          /\ ~Covers(s, a) => memory'[o] = memory[o]
      <4>1. CASE s.type # "PROGBITS"
        BY <1>11, <4>1 DEF Covers
      <4>2. CASE s.type = "PROGBITS"
        <5> DEFINE first == s.addr - elf.ep
        <5>1. memory'[o] = IF o \in first .. (first + s.size - 1)
                           THEN s.data[(o - first) \div 4 + 1] ELSE memory[o]
          BY <1>7, <1>11, <4>2 DEF Loaded
        <5>2. o \in Int
          BY DEF Offsets
        <5>3. o \in first .. (first + s.size - 1) <=> s.addr <= a /\ a < s.addr + s.size
          BY <1>6, <5>2
        <5>4. o - first = a - s.addr
          BY <1>6, <5>2
        <5> HIDE DEF first
        <5> QED BY <4>2, <5>1, <5>3, <5>4 DEF Covers, WordIn
      <4> QED BY <4>1, <4>2
    <3>4. \A k \in Met(m) : ~(Covers(s, a) /\ Covers(elf.sections[k], a))
      <4> SUFFICES ASSUME NEW k \in Met(m), Covers(s, a), Covers(elf.sections[k], a) PROVE FALSE
        OBVIOUS
      <4> DEFINE t == elf.sections[k]
      <4>1. k \in LoadedSections /\ k # m + 1
        BY <1>9 DEF Met
      <4>2. /\ t.addr \in Nat /\ t.size \in Nat /\ RoundUp8(t.size) \in Nat /\ RoundUp8(t.size) >= t.size
        BY <1>3, <4>1, SectionFacts
      <4>3. s.addr + RoundUp8(s.size) <= t.addr \/ t.addr + RoundUp8(t.size) <= s.addr
        BY <1>4, <3>2, <4>1 DEF Linked, Placed, SectionsApart
      <4>4. a \in Int
        BY <1>6 DEF Offsets
      <4>5. s.addr <= a /\ a < s.addr + s.size /\ t.addr <= a /\ a < t.addr + t.size
        BY DEF Covers
      <4> HIDE DEF t, s
      <4> QED BY <1>6, <4>2, <4>3, <4>4, <4>5
    <3>5. /\ \A k \in Met(m) : Covers(elf.sections[k], a) => memory[o] = WordIn(elf.sections[k], a)
          /\ (\A k \in Met(m) : ~Covers(elf.sections[k], a)) => memory[o] = 0
      BY <1>8 DEF ImageMet
    <3> HIDE DEF s
    <3> QED BY <3>2, <3>3, <3>4, <3>5
  <2>3. CASE scn' = scn + 1 /\ pc' = "load"
    <3>1. (SectionsMet(scn) /\ ImageMet(scn))'
      BY <1>2, <2>1, <2>2, <2>3
    <3> QED BY <2>3, <3>1 DEF SectionsKnown, SecondPass
  <2> QED BY <1>1, <1>10, <2>3 DEF Goto
<1> HIDE DEF s, id
<1> QED BY <1>1, <1>10, <1>11

LEMMA LoadEndLoading ==
    ASSUME SectionsKnown, LoadEnd
    PROVE  SectionsKnown'
<1>1. /\ pc = "load" /\ pc' = "count_scan" /\ scn = Len(elf.sections)
      /\ UNCHANGED <<elf, elf_starts, sizes, memory>>
  BY DEF LoadEnd, LoadFrame, inputVars, Goto
<1>2. PICK m : m = scn
  OBVIOUS
<1>3. (SectionsMet(m) /\ ImageMet(m))'
  BY <1>1, <1>2, SameSections, SameImage DEF SectionsKnown
<1>4. (SectionsMet(Len(elf.sections)) /\ ImageMet(Len(elf.sections)))'
  BY <1>1, <1>2, <1>3
<1> QED BY <1>1, <1>4 DEF SectionsKnown, SecondPass

(* Neither pass changes what is known of the sections, and the first none of the
   image. *)
LEMMA PassLoading ==
    ASSUME SectionsKnown,
           \/ CountScan \/ CountSort \/ CountEntry \/ CountNext \/ CountEnd \/ Layout
           \/ RelocScan \/ RelocSort \/ RelocEntry \/ RelocNext \/ RelocEnd
    PROVE  SectionsKnown'
<1>1. /\ pc \in {"count_scan", "count_sort", "count_do", "layout"} \cup SecondPass
      /\ pc' \in {"count_scan", "count_sort", "count_do", "layout"} \cup SecondPass \cup
                 {"check_count", "crashed", "exit"}
      /\ pc' \in {"count_scan", "count_sort", "count_do", "layout"} => pc \notin SecondPass
      /\ UNCHANGED <<elf, elf_starts, sizes>>
      /\ pc \notin SecondPass => memory' = memory
  <2>1. CASE CountScan \/ CountSort \/ CountNext \/ CountEnd
    BY <2>1 DEF CountScan, CountSort, CountNext, CountEnd, CountFrame, ScanSkips, ScanFinds,
       SortInserts, SortEnds, ListEnds, Goto, Exit, inputVars, SecondPass
  <2>2. CASE CountEntry
    <3>1. novl_reloc_do(rel_list[i].offset - elf.ep, rel_list[i].type, TRUE).memory = memory
      BY DryRunWritesNothing
    <3> QED BY <2>2, <3>1 DEF CountEntry, inputVars, SecondPass
  <2>3. CASE Layout
    BY <2>3 DEF Layout, Goto, inputVars, SecondPass
  <2>4. CASE RelocScan \/ RelocSort \/ RelocNext \/ RelocEnd
    BY <2>4 DEF RelocScan, RelocSort, RelocNext, RelocEnd, RelocFrame, ScanSkips, ScanFinds,
       SortInserts, SortEnds, ListEnds, Goto, Exit, inputVars, SecondPass
  <2>5. CASE RelocEntry
    BY <2>5 DEF RelocEntry, RelocFrame, Goto, Exit, inputVars, SecondPass
  <2> QED BY <2>1, <2>2, <2>3, <2>4, <2>5
<1>2. PICK m : m = Len(elf.sections)
  OBVIOUS
<1>3. SectionsMet(m)'
  BY <1>1, <1>2, SameSections DEF SectionsKnown
<1>4. pc \notin SecondPass => ImageMet(m)'
  BY <1>1, <1>2, SameImage DEF SectionsKnown
<1>5. SectionsMet(Len(elf.sections))' /\ (pc \notin SecondPass => ImageMet(Len(elf.sections))')
  BY <1>1, <1>2, <1>3, <1>4
<1> QED BY <1>1, <1>5 DEF SectionsKnown, SecondPass

LEMMA WriteLoading ==
    ASSUME SectionsKnown,
           \/ CheckCount \/ WriteHeader \/ WriteRelocs \/ WriteFooter \/ CheckBss
           \/ WriteSection \/ CheckHeader \/ Close
    PROVE  SectionsKnown'
<1>1. pc' \in WritePlaces \cup {"exit", "outside"}
  BY DEF CheckCount, WriteHeader, WriteRelocs, WriteFooter, CheckBss, WriteSection,
         CheckHeader, Close, RemoveAndExit, Exit, Goto, WritePlaces
<1> QED BY <1>1 DEF SectionsKnown, SecondPass, WritePlaces

LEMMA StutterLoading == ASSUME SectionsKnown, UNCHANGED vars PROVE SectionsKnown'
<1>1. UNCHANGED <<elf, elf_starts, sizes, memory, scn, pc>>
  BY DEF vars, engineVars, inputVars, loopVars
<1>2. PICK m : m = scn
  OBVIOUS
<1>3. PICK z : z = Len(elf.sections)
  OBVIOUS
<1>4. /\ (SectionsMet(m) => SectionsMet(m)') /\ (ImageMet(m) => ImageMet(m)')
      /\ (SectionsMet(z) => SectionsMet(z)') /\ (ImageMet(z) => ImageMet(z)')
  BY <1>1, SameSections, SameImage
<1>5. /\ (SectionsMet(scn) => SectionsMet(scn)') /\ (ImageMet(scn) => ImageMet(scn)')
      /\ (SectionsMet(Len(elf.sections)) => SectionsMet(Len(elf.sections))')
      /\ (ImageMet(Len(elf.sections)) => ImageMet(Len(elf.sections))')
  BY <1>1, <1>2, <1>3, <1>4
<1> QED BY <1>1, <1>5 DEF SectionsKnown

-----------------------------------------------------------------------------
(* When all sections are loaded: the section the code finds for an address is
   its owner, and the image is what the ELF file says. *)
LEMMA OwnerFound ==
    ASSUME WellFormed(elf), Linked, SectionsMet(Len(elf.sections)), NEW a \in Nat
    PROVE  get_target_section(a) = OwnerOf(a)
<1> DEFINE at == {k \in LoadedSections :
                    /\ elf.sections[k].addr <= a
                    /\ a < elf.sections[k].addr + RoundUp8(elf.sections[k].size)}
<1>1. \A k \in LoadedSections :
         /\ k \in Met(Len(elf.sections)) /\ IdOf(k) \in SectionIds
         /\ elf.sections[k].addr \in Nat /\ RoundUp8(elf.sections[k].size) \in Nat
  BY SectionFacts DEF Met
<1>2. \A k \in LoadedSections : Holds(IdOf(k), a) <=> k \in at
  <2> SUFFICES ASSUME NEW k \in LoadedSections
               PROVE  Holds(IdOf(k), a) <=>
                        /\ elf.sections[k].addr <= a
                        /\ a < elf.sections[k].addr + RoundUp8(elf.sections[k].size)
    OBVIOUS
  <2> DEFINE s == elf.sections[k]
  <2>1. elf_starts[IdOf(k)] = s.addr /\ sizes[IdOf(k)] = RoundUp8(s.size)
    BY <1>1 DEF SectionsMet
  <2>2. s.addr \in Nat /\ RoundUp8(s.size) \in Nat /\ s.addr + RoundUp8(s.size) < Word
    BY <1>1 DEF Linked, Placed
  <2>3. (s.addr + RoundUp8(s.size)) % Word = s.addr + RoundUp8(s.size)
    <3>1. s.addr + RoundUp8(s.size) \in Nat
      BY <2>2
    <3> QED BY <2>2, <3>1, SmallMod, Spans
  <2> HIDE DEF s
  <2>4. Holds(IdOf(k), a) <=> s.addr <= a /\ a < s.addr + RoundUp8(s.size)
    BY <2>1, <2>3 DEF Holds
  <2> QED BY <2>4 DEF s
<1>3. \A j, k \in at : j = k
  <2> SUFFICES ASSUME NEW j \in at, NEW k \in at, j # k PROVE FALSE
    OBVIOUS
  <2> DEFINE s == elf.sections[j]
             t == elf.sections[k]
  <2>1. s.addr + RoundUp8(s.size) <= t.addr \/ t.addr + RoundUp8(t.size) <= s.addr
    BY DEF Linked, Placed, SectionsApart
  <2>2. /\ s.addr <= a /\ a < s.addr + RoundUp8(s.size) /\ s.addr \in Nat
        /\ t.addr <= a /\ a < t.addr + RoundUp8(t.size) /\ t.addr \in Nat
        /\ RoundUp8(s.size) \in Nat /\ RoundUp8(t.size) \in Nat
    BY <1>1
  <2> HIDE DEF s, t
  <2> QED BY <2>1, <2>2
<1>4. \A id \in SectionIds : Holds(id, a) => \E k \in LoadedSections : IdOf(k) = id
  <2> SUFFICES ASSUME NEW id \in SectionIds, Holds(id, a),
                      \A k \in LoadedSections : IdOf(k) # id
               PROVE  FALSE
    OBVIOUS
  <2>1. elf_starts[id] = 0 /\ sizes[id] = 0
    BY DEF SectionsMet, Met
  <2>2. (0 + 0) % Word = 0
    BY SmallMod, Spans
  <2> QED BY <2>1, <2>2 DEF Holds
<1>5. OwnerOf(a) = IF at = {} THEN NoSection ELSE IdOf(CHOOSE k \in at : TRUE)
  BY DEF OwnerOf, IdOf
<1>6. \/ get_target_section(a) = NoSection /\ \A s \in SectionIds : ~Holds(s, a)
      \/ get_target_section(a) \in SectionIds /\ Holds(get_target_section(a), a)
  BY TargetSection
<1> HIDE DEF at
<1>7. at \subseteq LoadedSections
  BY DEF at
<1>8. CASE at = {}
  BY <1>2, <1>4, <1>5, <1>6, <1>8
<1>9. CASE at # {}
  <2>1. PICK k \in at : TRUE
    BY <1>9
  <2>2. OwnerOf(a) = IdOf(k)
    BY <1>3, <1>5, <2>1
  <2>3. Holds(IdOf(k), a) /\ IdOf(k) \in SectionIds
    BY <1>1, <1>2, <1>7
  <2>4. PICK j \in LoadedSections : IdOf(j) = get_target_section(a)
    BY <1>4, <1>6, <2>3
  <2>5. j \in at
    BY <1>2, <1>6, <2>3, <2>4
  <2> QED BY <1>3, <2>2, <2>4, <2>5
<1> QED BY <1>8, <1>9

LEMMA OriginalFound ==
    ASSUME WellFormed(elf), Linked, ImageMet(Len(elf.sections)), NEW o \in Offsets
    PROVE  memory[o] = OriginalWord(o + elf.ep)
<1> DEFINE a  == o + elf.ep
           at == {k \in LoadedSections : Covers(elf.sections[k], a)}
<1>1. \A k \in LoadedSections :
         /\ k \in Met(Len(elf.sections))
         /\ elf.sections[k].addr \in Nat /\ elf.sections[k].size \in Nat /\ elf.ep \in Nat
         /\ RoundUp8(elf.sections[k].size) \in Nat
         /\ RoundUp8(elf.sections[k].size) >= elf.sections[k].size
  BY SectionFacts DEF Met
<1>2. OriginalWord(a) = IF at = {} THEN 0 ELSE WordIn(elf.sections[CHOOSE k \in at : TRUE], a)
  <2>1. at = {k \in LoadedSections :
                  /\ elf.sections[k].type = "PROGBITS"
                  /\ elf.sections[k].addr <= a
                  /\ a < elf.sections[k].addr + elf.sections[k].size}
    BY DEF Covers
  <2> HIDE DEF at, a
  <2> QED BY <2>1 DEF OriginalWord, WordIn
<1>3. /\ \A k \in at : memory[o] = WordIn(elf.sections[k], a)
      /\ at = {} => memory[o] = 0
  BY <1>1 DEF ImageMet, Met
<1> HIDE DEF at
<1> QED BY <1>2, <1>3 DEF a

-----------------------------------------------------------------------------
(* What is said of the ELF file alone is true for good. *)
Handled == {R_MIPS_32, R_MIPS_26, R_MIPS_HI16, R_MIPS_LO16}

AllEntries == UNION {{k} \X EntriesOf(k) : k \in RelocSections}

MadeWord(x) ==
    LET id == RelTarget(elf.sections[x[1]].name)
    IN  novl_reloc_mk(id + 1, x[2].offset - AddrOf(id), x[2].type)

RowOf(r) == <<OVL_RELOC_GET_SEC(r), OVL_RELOC_GET_TYPE(r), OVL_RELOC_GET_ADDR(r)>>

LEMMA SameSets ==
    ASSUME elf' = elf
    PROVE  /\ SectionIndex' = SectionIndex /\ LoadedSections' = LoadedSections
           /\ RelocSections' = RelocSections
           /\ \A k : EntriesOf(k)' = EntriesOf(k) /\ His(k)' = His(k) /\ Los(k)' = Los(k)
           /\ AllEntries' = AllEntries
           /\ \A s : Unchecked(s)' = Unchecked(s)
<1>1. SectionIndex' = SectionIndex /\ \A k : EntriesOf(k)' = EntriesOf(k)
  BY DEF SectionIndex, EntriesOf
<1>2. LoadedSections' = LoadedSections /\ RelocSections' = RelocSections
  BY <1>1 DEF LoadedSections, RelocSections
<1>3. \A k : His(k)' = His(k) /\ Los(k)' = Los(k)
  BY <1>1 DEF His, Los
<1>4. AllEntries' = AllEntries
  BY <1>1, <1>2 DEF AllEntries
<1>5. \A s : Unchecked(s)' = Unchecked(s)
  BY <1>2 DEF Unchecked
<1> QED BY <1>1, <1>2, <1>3, <1>4, <1>5

LEMMA SamePlacesInFile ==
    ASSUME elf' = elf
    PROVE  /\ \A a : OriginalWord(a)' = OriginalWord(a) /\ OwnerOf(a)' = OwnerOf(a)
           /\ \A id : AddrOf(id)' = AddrOf(id)
           /\ \A x : MadeWord(x)' = MadeWord(x) /\ Row(x)' = Row(x)
<1>1. LoadedSections' = LoadedSections
  BY SameSets
<1>2. \A a : OriginalWord(a)' = OriginalWord(a)
  BY <1>1 DEF OriginalWord
<1>3. \A a : OwnerOf(a)' = OwnerOf(a)
  BY <1>1 DEF OwnerOf
<1>4. \A id : AddrOf(id)' = AddrOf(id)
  BY <1>1 DEF AddrOf
<1>5. \A x : MadeWord(x)' = MadeWord(x) /\ Row(x)' = Row(x)
  BY <1>4 DEF MadeWord, Row
<1> QED BY <1>2, <1>3, <1>4, <1>5

LEMMA SamePairs ==
    ASSUME elf' = elf
    PROVE  /\ \A h, l : Opens(h, l)' <=> Opens(h, l)
           /\ \A k, h, l : IsHiOf(k, h, l)' <=> IsHiOf(k, h, l)
           /\ \A k, l : HiOf(k, l)' = HiOf(k, l)
           /\ \A k, h : LosOf(k, h)' = LosOf(k, h)
           /\ AllPaired' <=> AllPaired
           /\ PairsAdjacent' <=> PairsAdjacent
<1>1. \A h, l : Opens(h, l)' <=> Opens(h, l)
  BY SamePlacesInFile DEF Opens
<1>2. /\ RelocSections' = RelocSections
      /\ \A k : EntriesOf(k)' = EntriesOf(k) /\ His(k)' = His(k) /\ Los(k)' = Los(k)
  BY SameSets
<1>3. \A k, h, l : IsHiOf(k, h, l)' <=> IsHiOf(k, h, l)
  BY <1>1, <1>2 DEF IsHiOf
<1>4. \A k, l : HiOf(k, l)' = HiOf(k, l)
  BY <1>2, <1>3 DEF HiOf
<1>5. \A k, h : LosOf(k, h)' = LosOf(k, h)
  BY <1>2, <1>3 DEF LosOf
<1>6. AllPaired' <=> AllPaired
  BY <1>1, <1>2 DEF AllPaired
<1>7. PairsAdjacent' <=> PairsAdjacent
  BY <1>2, <1>3 DEF PairsAdjacent
<1> QED BY <1>1, <1>3, <1>4, <1>5, <1>6, <1>7

LEMMA SameKept ==
    ASSUME elf' = elf
    PROVE  /\ \A k, e : Moves(k, e)' <=> Moves(k, e)
           /\ \A k : KeptEntries(k)' = KeptEntries(k)
           /\ AllKept' = AllKept
<1>1. \A k, e : TargetOf(k, e)' = TargetOf(k, e)
  <2> SUFFICES ASSUME NEW k, NEW e PROVE TargetOf(k, e)' = TargetOf(k, e)
    OBVIOUS
  <2>1. OriginalWord(e.offset)' = OriginalWord(e.offset)
    BY SamePlacesInFile
  <2>2. \A h : OriginalWord(h.offset)' = OriginalWord(h.offset)
    BY SamePlacesInFile
  <2>3. HiOf(k, e)' = HiOf(k, e)
    BY SamePairs
  <2> QED BY <2>1, <2>2, <2>3 DEF TargetOf
<1>2. \A k, e : Moves(k, e)' <=> Moves(k, e)
  BY <1>1, SamePlacesInFile DEF Moves
<1>3. \A k : KeptEntries(k)' = KeptEntries(k)
  BY <1>2, SameSets, SamePairs DEF KeptEntries
<1>4. AllKept' = AllKept
  BY <1>3, SameSets DEF AllKept
<1> QED BY <1>2, <1>3, <1>4

LEMMA SameLinked == ASSUME elf' = elf PROVE Linked' <=> Linked
<1>1. DistinctOffsets' <=> DistinctOffsets
  BY SameSets DEF DistinctOffsets
<1>2. KnownTypes' <=> KnownTypes
  BY SameSets DEF KnownTypes
<1>3. SectionsApart' <=> SectionsApart
  BY SameSets DEF SectionsApart
<1>4. OwnRelocations' <=> OwnRelocations
  BY SameSets, SamePlacesInFile DEF OwnRelocations
<1> QED BY <1>1, <1>2, <1>3, <1>4, SameSets DEF Linked, Placed

-----------------------------------------------------------------------------
(* The second pass: what it has not rewritten is as in the ELF file. *)
Original == [memory |-> [o \in Offsets |-> OriginalWord(o + elf.ep)]]

AsInFile == pc \in SecondPass => OnlyTouched(Original)

(* The list is in the order of the addresses, and has every entry taken so far. *)
Ascending(list) ==
    \A q, r \in 1 .. Len(list) : q < r => list[q].offset < list[r].offset

Ordered ==
    /\ pc \in {"reloc_sort", "reloc_do"} =>
          /\ Ascending(rel_list)
          /\ \A p \in 1 .. nreloc : \E q \in 1 .. Len(rel_list) : rel_list[q] = Current.rels[p]
    /\ pc = "reloc_do" => nreloc = Len(Current.rels)

(* What has been treated has a handler, and a LO16 a HI16; a pair was opened by
   a HI16 before, and that of the HI16 just treated is as it left it. *)
Paired(k, l) == \E h \in His(k) : Opens(h, l)

Fine(k, e) == e.type \in Handled /\ (e.type = R_MIPS_LO16 => Paired(k, e))

PairKnown(h) ==
    LET w == OriginalWord(h.offset)
    IN  hilopair[HiReg(w)] =
            [status |-> "valid", value |-> Imm(w) * Half, ptr |-> h.offset - elf.ep]

Behind(k) == k < scn \/ (k = scn /\ pc = "reloc_scan")

Pairing ==
    /\ pc = "reloc_do" =>
          /\ \A r \in Registers : hilopair[r].status # "invalid" =>
                \E q \in 1 .. (i - 1) : /\ rel_list[q].type = R_MIPS_HI16
                                       /\ HiReg(OriginalWord(rel_list[q].offset)) = r
          /\ i > 1 /\ rel_list[i - 1].type = R_MIPS_HI16 => PairKnown(rel_list[i - 1])
          /\ \A q \in 1 .. (i - 1) : Fine(scn, rel_list[q])
    /\ pc \in SecondPass =>
          \A k \in RelocSections : Behind(k) => \A e \in EntriesOf(k) : Fine(k, e)

(* The entries that the table holds: those kept, and a HI16 that comes last. *)
Standing(q) ==
    rel_list[q] \in KeptEntries(scn) \/ (q = i - 1 /\ rel_list[q].type = R_MIPS_HI16)

HeldHere ==
    IF pc = "reloc_do" THEN {<<scn, rel_list[q]>> : q \in {p \in 1 .. (i - 1) : Standing(p)}}
    ELSE {}

Held == {x \in AllKept : Behind(x[1])} \cup HeldHere

(* L names the entries of the table, one by one. *)
Names(L, S) ==
    /\ L \in [1 .. Len(ninty_relocs) -> S]
    /\ \A q, r \in 1 .. Len(ninty_relocs) : q < r => Precedes(L[q], L[r])
    /\ \A x \in S : \E q \in 1 .. Len(ninty_relocs) : L[q] = x
    /\ \A q \in 1 .. Len(ninty_relocs) :
          ninty_relocs[q] = MadeWord(L[q]) /\ RowOf(ninty_relocs[q]) = Row(L[q])

TableHolds(S) == \E L : Names(L, S)

Tabled ==
    /\ pc \in SecondPass => TableHolds(Held)
    /\ pc \in WritePlaces \/ status = "ok" => TableHolds(AllKept) /\ AllPaired

TableInv ==
    Linked /\ PairsAdjacent => SectionsKnown /\ AsInFile /\ Ordered /\ Pairing /\ Tabled

-----------------------------------------------------------------------------
LEMMA SameOriginal == ASSUME elf' = elf PROVE Original' = Original
<1>1. \A a : OriginalWord(a)' = OriginalWord(a)
  BY SamePlacesInFile
<1> QED BY <1>1 DEF Original

LEMMA LayoutAsInFile ==
    ASSUME IInv, Linked, SectionsKnown, Layout
    PROVE  AsInFile'
<1>1. pc = "layout" /\ UNCHANGED <<elf, memory>>
  BY DEF Layout, inputVars
<1>2. \A o \in Offsets : memory[o] = OriginalWord(o + elf.ep)
  BY <1>1, OriginalFound DEF SectionsKnown, IInv, TypeOK
<1>3. \A o \in Offsets : memory'[o] = Original.memory[o]
  BY <1>1, <1>2 DEF Original
<1>4. PICK W : W = Original
  OBVIOUS
<1>5. OnlyTouched(W)'
  BY <1>3, <1>4 DEF OnlyTouched
<1>6. Original' = W
  BY <1>1, <1>4, SameOriginal
<1> QED BY <1>5, <1>6 DEF AsInFile

LEMMA PassAsInFile ==
    ASSUME IInv, DistinctOffsets, ListKnown, AsInFile,
           RelocScan \/ RelocSort \/ RelocNext \/ RelocEntry
    PROVE  AsInFile'
<1>1. pc \in SecondPass /\ elf' = elf
  BY DEF RelocScan, RelocSort, RelocNext, RelocEntry, RelocFrame, inputVars, ScanSkips,
         ScanFinds, SortInserts, SortEnds, ListEnds, SecondPass
<1>2. PICK W : W = Original
  OBVIOUS
<1>3. OnlyTouched(W) /\ Original' = W
  BY <1>1, <1>2, SameOriginal DEF AsInFile
<1>4. CASE RelocScan \/ RelocSort \/ RelocNext
  <2>1. memory' = memory
    BY <1>4 DEF RelocScan, RelocSort, RelocNext
  <2>2. \A a : Touched(a) => Touched(a)'
    BY <1>4, TouchedStays
  <2>3. OnlyTouched(W)'
    BY <1>1, <1>3, <2>1, <2>2, StillTouched
  <2> QED BY <1>3, <2>3 DEF AsInFile
<1>5. CASE RelocEntry
  <2>1. CASE pc' = "reloc_do"
    <3>1. OnlyTouched(W)'
      BY <1>3, <1>5, <2>1, EntryTouches
    <3> QED BY <1>3, <3>1 DEF AsInFile
  <2>2. CASE pc' # "reloc_do"
    BY <1>5, <2>2 DEF AsInFile, RelocEntry, Exit, Goto, SecondPass
  <2> QED BY <2>1, <2>2
<1> QED BY <1>4, <1>5

-----------------------------------------------------------------------------
(* The insertion sort sorts: what is before the place found is below the new
   entry, what is behind it is not. *)
LEMMA OffsetTypes ==
    ASSUME NEW list \in Seq(Entries)
    PROVE  /\ Len(list) \in Nat
           /\ \A q \in 1 .. Len(list) : list[q] \in Entries /\ list[q].offset \in Nat
           /\ \A e \in Entries : e.offset \in Nat /\ e.type \in Nat
<1>1. ASSUME NEW e \in Entries PROVE e.offset \in Nat /\ e.type \in Nat
  <2>1. e.offset \in Words /\ e.type \in 0 .. 255
    BY DEF Entries
  <2>2. \A w \in Words : w \in Nat
    BY Spans DEF Words
  <2>3. \A t \in 0 .. 255 : t \in Nat
    OBVIOUS
  <2> QED BY <2>1, <2>2, <2>3
<1>2. \A q \in 1 .. Len(list) : list[q] \in Entries
  OBVIOUS
<1> QED BY <1>1, <1>2

LEMMA PositionSplits ==
    ASSUME NEW list \in Seq(Entries), NEW rel \in Entries, Ascending(list)
    PROVE  LET P == Position(list, rel)
           IN  \A q \in 1 .. Len(list) :
                  /\ q < P => list[q].offset < rel.offset
                  /\ q >= P => rel.offset <= list[q].offset
<1> DEFINE n == Len(list)
           Above == {p \in 1 .. (n + 1) : \A q \in p .. n : rel.offset <= list[q].offset}
           P == Position(list, rel)
<1>1. n \in Nat /\ rel.offset \in Nat /\ \A q \in 1 .. n : list[q].offset \in Nat
  BY OffsetTypes
<1>2. n + 1 \in Above /\ Above \subseteq 1 .. (n + 1) /\ Above \in SUBSET Nat
  BY <1>1
<1>3. P = CHOOSE p \in Above : \A q \in Above : p <= q
  BY DEF Position
<1> HIDE DEF P
<1>4. P \in Above /\ \A q \in Above : P <= q
  <2> HIDE DEF Above
  <2>1. \E m \in Above : \A k \in Above : m <= k
    BY <1>2, MinExists
  <2> QED BY <1>3, <2>1
<1>5. ASSUME NEW q \in 1 .. n, q < P PROVE list[q].offset < rel.offset
  <2>1. P - 1 \in 1 .. n /\ P - 1 \notin Above /\ P \in 1 .. (n + 1)
    <3>1. P \in 1 .. (n + 1) /\ ~(P <= P - 1) /\ P - 1 \in 1 .. n
      BY <1>1, <1>2, <1>4, <1>5
    <3> HIDE DEF Above
    <3> QED BY <1>4, <3>1
  <2>2. PICK r \in (P - 1) .. n : ~(rel.offset <= list[r].offset)
    BY <1>1, <2>1
  <2>3. r = P - 1
    BY <1>1, <1>4, <2>1, <2>2
  <2>4. list[P - 1].offset < rel.offset
    BY <1>1, <2>1, <2>2, <2>3
  <2>5. CASE q = P - 1
    BY <2>4, <2>5
  <2>6. CASE q < P - 1
    <3>1. list[q].offset < list[P - 1].offset
      BY <2>1, <2>6 DEF Ascending
    <3>2. list[q].offset \in Nat /\ list[P - 1].offset \in Nat
      BY <1>1, <2>1
    <3> HIDE DEF n
    <3> QED BY <1>1, <2>4, <3>1, <3>2
  <2> QED BY <1>1, <1>5, <2>1, <2>5, <2>6
<1>6. ASSUME NEW q \in 1 .. n, q >= P PROVE rel.offset <= list[q].offset
  BY <1>1, <1>2, <1>4, <1>6
<1> QED BY <1>5, <1>6 DEF P

LEMMA InsertedOrder ==
    ASSUME NEW list \in Seq(Entries), NEW rel \in Entries, Ascending(list),
           \A q \in 1 .. Len(list) : list[q].offset # rel.offset
    PROVE  LET l == Inserted(list, rel)
           IN  /\ Ascending(l)
               /\ \E q \in 1 .. Len(l) : l[q] = rel
               /\ \A p \in 1 .. Len(list) : \E q \in 1 .. Len(l) : l[q] = list[p]
<1> DEFINE n == Len(list)
           P == Position(list, rel)
           l == Inserted(list, rel)
<1>1. /\ n \in Nat /\ P \in 1 .. (n + 1) /\ Len(l) = n + 1
      /\ rel.offset \in Nat /\ \A q \in 1 .. n : list[q].offset \in Nat
  BY PositionType, InsertedType, OffsetTypes
<1>2. /\ \A q \in 1 .. n : q < P => list[q].offset < rel.offset
      /\ \A q \in 1 .. n : q >= P => rel.offset < list[q].offset
  <2>1. \A q \in 1 .. n : /\ q < P => list[q].offset < rel.offset
                          /\ q >= P => rel.offset <= list[q].offset
    BY PositionSplits
  <2> HIDE DEF P, n
  <2> QED BY <1>1, <2>1 DEF n
<1>3. l = [q \in 1 .. (n + 1) |->
             IF q < P THEN list[q] ELSE IF q = P THEN rel ELSE list[q - 1]]
  BY DEF Inserted
<1> HIDE DEF P, l
<1>4. \A q, r \in 1 .. n : q < r => list[q].offset < list[r].offset
  BY DEF Ascending
<1> HIDE DEF n
<1>5. ASSUME NEW q \in 1 .. (n + 1), NEW r \in 1 .. (n + 1), q < r
      PROVE  l[q].offset < l[r].offset
  <2>1. CASE r < P
    <3>1. l[q] = list[q] /\ l[r] = list[r] /\ q \in 1 .. n /\ r \in 1 .. n
      BY <1>1, <1>3, <1>5, <2>1
    <3> QED BY <1>4, <1>5, <3>1
  <2>2. CASE r = P
    <3>1. l[q] = list[q] /\ l[r] = rel /\ q \in 1 .. n /\ q < P
      BY <1>1, <1>3, <1>5, <2>2
    <3> QED BY <1>2, <3>1
  <2>3. CASE r > P
    <3>1. l[r] = list[r - 1] /\ r - 1 \in 1 .. n /\ r - 1 >= P
      BY <1>1, <1>3, <2>3
    <3>2. CASE q < P
      <4>1. l[q] = list[q] /\ q \in 1 .. n /\ q < r - 1
        BY <1>1, <1>3, <2>3, <3>2
      <4> QED BY <1>4, <3>1, <4>1
    <3>3. CASE q = P
      <4>1. l[q] = rel
        BY <1>1, <1>3, <3>3
      <4> QED BY <1>2, <3>1, <4>1
    <3>4. CASE q > P
      <4>1. l[q] = list[q - 1] /\ q - 1 \in 1 .. n /\ q - 1 < r - 1
        BY <1>1, <1>3, <1>5, <3>4
      <4> QED BY <1>4, <3>1, <4>1
    <3> QED BY <1>1, <3>2, <3>3, <3>4
  <2> QED BY <1>1, <2>1, <2>2, <2>3
<1>6. l[P] = rel /\ P \in 1 .. (n + 1)
  BY <1>1, <1>3
<1>7. ASSUME NEW p \in 1 .. n PROVE \E q \in 1 .. (n + 1) : l[q] = list[p]
  <2>1. CASE p < P
    <3>1. p \in 1 .. (n + 1) /\ l[p] = list[p]
      BY <1>1, <1>3, <2>1
    <3> QED BY <3>1
  <2>2. CASE p >= P
    <3>1. p + 1 \in 1 .. (n + 1) /\ ~(p + 1 < P) /\ p + 1 # P /\ p + 1 - 1 = p
      BY <1>1, <2>2
    <3>2. l[p + 1] = list[p]
      BY <1>3, <3>1
    <3> QED BY <3>1, <3>2
  <2> QED BY <1>1, <2>1, <2>2
<1>8. Ascending(l)
  BY <1>1, <1>5 DEF Ascending
<1> QED BY <1>1, <1>6, <1>7, <1>8 DEF n, l

(* No entry of the section that is still to be taken is where one in the list is. *)
LEMMA NextIsNew ==
    ASSUME IInv, DistinctOffsets, ListKnown, pc = "reloc_sort", nreloc < Len(Current.rels)
    PROVE  LET rel == Current.rels[nreloc + 1]
           IN  /\ rel \in Entries
               /\ \A q \in 1 .. Len(rel_list) : rel_list[q].offset # rel.offset
<1> DEFINE rels == Current.rels
           n    == nreloc
<1>1. /\ scn \in RelocSections /\ rels \in Seq(Entries) /\ DOMAIN rels = 1 .. Len(rels)
      /\ rel_list \in Seq(Entries) /\ n = Len(rel_list) /\ n \in Nat
  BY ListFacts
<1>2. n + 1 \in 1 .. Len(rels)
  BY <1>1
<1>3. rels[n + 1] \in Entries /\ n + 1 \in DOMAIN rels
  BY <1>1, <1>2
<1>4. ASSUME NEW q \in 1 .. Len(rel_list) PROVE rel_list[q].offset # rels[n + 1].offset
  <2>1. PICK p \in DOMAIN rels : p <= n /\ rel_list[q] = rels[p]
    BY DEF ListKnown
  <2>2. <<scn, p>> # <<scn, n + 1>>
    BY <1>1, <2>1
  <2> QED BY <1>1, <1>3, <2>1, <2>2 DEF DistinctOffsets, Current
<1> QED BY <1>3, <1>4

LEMMA ScanOrdered ==
    ASSUME IInv, RelocScan \/ RelocNext \/ RelocEnd \/ Layout
    PROVE  Ordered'
<1>1. pc' \in {"reloc_scan", "check_count"} \/ (pc' = "reloc_sort" /\ rel_list' = <<>> /\ nreloc' = 0)
  BY DEF RelocScan, RelocNext, RelocEnd, Layout, ScanSkips, ScanFinds, ListEnds, Goto
<1> QED BY <1>1 DEF Ordered, Ascending

LEMMA SortOrdered ==
    ASSUME IInv, DistinctOffsets, ListKnown, Ordered, RelocSort
    PROVE  Ordered'
<1>1. pc = "reloc_sort" /\ UNCHANGED <<elf, scn>> /\ Current' = Current
  BY DEF RelocSort, RelocFrame, inputVars, SortInserts, SortEnds, Current
<1>2. /\ rel_list \in Seq(Entries) /\ nreloc = Len(rel_list) /\ nreloc \in Nat
      /\ Current.rels \in Seq(Entries)
  BY <1>1, ListFacts
<1>3. Ascending(rel_list) /\ \A p \in 1 .. nreloc : \E q \in 1 .. Len(rel_list) : rel_list[q] = Current.rels[p]
  BY <1>1 DEF Ordered
<1>4. CASE SortInserts("reloc_sort")
  <2> DEFINE rel == Current.rels[nreloc + 1]
             l   == Inserted(rel_list, rel)
  <2>1. pc' = "reloc_sort" /\ nreloc < Len(Current.rels) /\ rel_list' = l /\ nreloc' = nreloc + 1
    BY <1>1, <1>4 DEF SortInserts
  <2>2. rel \in Entries /\ \A q \in 1 .. Len(rel_list) : rel_list[q].offset # rel.offset
    BY <1>1, <2>1, NextIsNew
  <2> HIDE DEF rel
  <2>3. /\ Ascending(l) /\ \E q \in 1 .. Len(l) : l[q] = rel
        /\ \A p \in 1 .. Len(rel_list) : \E q \in 1 .. Len(l) : l[q] = rel_list[p]
    BY <1>2, <1>3, <2>2, InsertedOrder
  <2> HIDE DEF l
  <2>4. ASSUME NEW p \in 1 .. (nreloc + 1)
        PROVE  \E q \in 1 .. Len(l) : l[q] = Current.rels[p]
    <3>1. CASE p = nreloc + 1
      BY <2>3, <3>1 DEF rel
    <3>2. CASE p # nreloc + 1
      <4>1. p \in 1 .. nreloc
        BY <1>2, <3>2
      <4>2. PICK r \in 1 .. Len(rel_list) : rel_list[r] = Current.rels[p]
        BY <1>3, <4>1
      <4> QED BY <2>3, <4>2
    <3> QED BY <3>1, <3>2
  <2> QED BY <1>1, <2>1, <2>3, <2>4 DEF Ordered
<1>5. CASE SortEnds("reloc_sort", "reloc_do")
  BY <1>1, <1>3, <1>5 DEF SortEnds, Ordered
<1> QED BY <1>4, <1>5 DEF RelocSort

LEMMA EntryOrdered == ASSUME Ordered, RelocEntry PROVE Ordered'
<1>1. pc = "reloc_do" /\ pc' # "reloc_sort" /\ UNCHANGED <<elf, scn, rel_list, nreloc>>
  BY DEF RelocEntry, RelocFrame, inputVars, Exit, Goto
<1> QED BY <1>1 DEF Ordered, Current

-----------------------------------------------------------------------------
(* The list is the section, in the order of the addresses. *)
LEMMA Listed ==
    ASSUME IInv, ListKnown, Ordered, pc = "reloc_do"
    PROVE  /\ scn \in RelocSections /\ scn \in Nat
           /\ i \in Nat /\ i >= 1 /\ i <= nreloc + 1 /\ nreloc = Len(rel_list) /\ nreloc \in Nat
           /\ \A q \in 1 .. nreloc : /\ rel_list[q] \in EntriesOf(scn) /\ rel_list[q] \in Entries
                                     /\ rel_list[q].offset \in Nat
           /\ \A q, r \in 1 .. nreloc : q < r => rel_list[q].offset < rel_list[r].offset
           /\ \A q, r \in 1 .. nreloc : rel_list[q] = rel_list[r] => q = r
           /\ \A e \in EntriesOf(scn) : \E q \in 1 .. nreloc : rel_list[q] = e
<1>1. /\ scn \in RelocSections /\ scn \in Nat
      /\ Current.rels \in Seq(Entries) /\ DOMAIN Current.rels = 1 .. Len(Current.rels)
      /\ rel_list \in Seq(Entries) /\ nreloc = Len(rel_list) /\ nreloc \in Nat
      /\ i \in Nat
  BY ListFacts
<1>2. i >= 1 /\ i <= nreloc + 1
  BY DEF IInv, Control, ListKnown
<1>3. EntriesOf(scn) = {Current.rels[p] : p \in DOMAIN Current.rels}
  BY DEF EntriesOf, ToSet, Current
<1>4. ASSUME NEW q \in 1 .. nreloc
      PROVE  rel_list[q] \in EntriesOf(scn) /\ rel_list[q] \in Entries /\ rel_list[q].offset \in Nat
  <2>1. rel_list[q] \in Entries /\ rel_list[q].offset \in Nat
    BY <1>1, OffsetTypes
  <2>2. \E p \in DOMAIN Current.rels : rel_list[q] = Current.rels[p]
    BY <1>1 DEF ListKnown
  <2> QED BY <1>3, <2>1, <2>2
<1>5. \A q, r \in 1 .. nreloc : q < r => rel_list[q].offset < rel_list[r].offset
  BY <1>1 DEF Ordered, Ascending
<1>6. ASSUME NEW q \in 1 .. nreloc, NEW r \in 1 .. nreloc, rel_list[q] = rel_list[r]
      PROVE  q = r
  <2>1. rel_list[q].offset = rel_list[r].offset /\ rel_list[q].offset \in Nat
    BY <1>4, <1>6
  <2>2. ~(q < r) /\ ~(r < q)
    BY <1>5, <2>1
  <2> QED BY <1>1, <2>2
<1>7. ASSUME NEW e \in EntriesOf(scn) PROVE \E q \in 1 .. nreloc : rel_list[q] = e
  <2>1. PICK p \in DOMAIN Current.rels : e = Current.rels[p]
    BY <1>3
  <2>2. p \in 1 .. nreloc
    BY <1>1, <2>1 DEF Ordered
  <2> QED BY <1>1, <2>1, <2>2 DEF Ordered
<1> QED BY <1>1, <1>2, <1>4, <1>5, <1>6, <1>7

(* Of the HI16s that open a pair for l, one comes last. *)
LEMMA LastOpener ==
    ASSUME WellFormed(elf), NEW k \in RelocSections, NEW l \in EntriesOf(k), Paired(k, l)
    PROVE  \E h \in His(k) : IsHiOf(k, h, l)
<1>1. \A e \in EntriesOf(k) : e.offset \in Nat
  <2>1. elf.sections[k] \in Sections
    BY DEF WellFormed, RelocSections, SectionIndex
  <2>2. elf.sections[k].rels \in Seq(Entries)
    BY <2>1 DEF Sections
  <2>3. \A q \in 1 .. Len(elf.sections[k].rels) : elf.sections[k].rels[q].offset \in Nat
    BY <2>2, OffsetTypes
  <2>4. DOMAIN elf.sections[k].rels = 1 .. Len(elf.sections[k].rels)
    BY <2>2
  <2> QED BY <2>3, <2>4 DEF EntriesOf, ToSet
<1> DEFINE T == {l.offset - g.offset : g \in {f \in His(k) : Opens(f, l)}}
<1>2. \A g \in His(k) : Opens(g, l) => g.offset \in Nat /\ g.offset < l.offset
  BY <1>1 DEF His, Opens
<1>3. T \in SUBSET Nat /\ T # {}
  <2>1. l.offset \in Nat
    BY <1>1
  <2>2. T \in SUBSET Nat
    BY <1>2, <2>1
  <2>3. T # {}
    BY DEF Paired
  <2> QED BY <2>2, <2>3
<1>4. PICK m \in T : \A n \in T : m <= n
  <2> HIDE DEF T
  <2> QED BY <1>3, MinExists
<1>5. PICK h \in His(k) : Opens(h, l) /\ m = l.offset - h.offset
  BY <1>4
<1>6. ASSUME NEW g \in His(k), Opens(g, l) PROVE g.offset <= h.offset
  <2>1. m <= l.offset - g.offset
    BY <1>4, <1>6
  <2>2. l.offset \in Nat /\ g.offset \in Nat /\ h.offset \in Nat
    BY <1>1, <1>2, <1>5, <1>6
  <2> QED BY <1>5, <2>1, <2>2
<1> QED BY <1>5, <1>6 DEF IsHiOf

(* Then the two halves of a pair follow each other in the list. *)
LEMMA AdjacentHalf ==
    ASSUME IInv, ListKnown, Ordered, PairsAdjacent, pc = "reloc_do",
           NEW q \in 1 .. nreloc, rel_list[q].type = R_MIPS_LO16,
           NEW h \in His(scn), IsHiOf(scn, h, rel_list[q])
    PROVE  q > 1 /\ rel_list[q - 1] = h
<1>1. /\ scn \in RelocSections /\ nreloc \in Nat
      /\ \A p \in 1 .. nreloc : rel_list[p] \in EntriesOf(scn) /\ rel_list[p].offset \in Nat
      /\ \A p, r \in 1 .. nreloc : p < r => rel_list[p].offset < rel_list[r].offset
  BY Listed
<1>2. PICK p \in 1 .. nreloc : rel_list[p] = h
  BY Listed DEF His
<1>3. h.offset < rel_list[q].offset
  BY DEF IsHiOf, Opens
<1>4. p < q
  <2>1. ~(q < p) /\ q # p
    BY <1>1, <1>2, <1>3
  <2> QED BY <2>1
<1>5. ~(p < q - 1)
  <2> SUFFICES ASSUME p < q - 1 PROVE FALSE
    OBVIOUS
  <2>1. p + 1 \in 1 .. nreloc /\ p < p + 1 /\ p + 1 < q
    BY <1>1
  <2>2. h.offset < rel_list[p + 1].offset /\ rel_list[p + 1].offset < rel_list[q].offset
    BY <1>1, <1>2, <2>1
  <2>3. rel_list[q] \in Los(scn)
    BY <1>1 DEF Los
  <2> QED BY <1>1, <2>1, <2>2, <2>3 DEF PairsAdjacent
<1>6. p = q - 1
  BY <1>4, <1>5
<1> QED BY <1>2, <1>6

(* A HI16 serves no other LO16 than the next entry. *)
LEMMA NextHalf ==
    ASSUME IInv, ListKnown, Ordered, PairsAdjacent, pc = "reloc_do",
           NEW q \in 1 .. nreloc, rel_list[q].type = R_MIPS_HI16,
           NEW l \in LosOf(scn, rel_list[q])
    PROVE  q + 1 \in 1 .. nreloc /\ l = rel_list[q + 1]
<1>1. nreloc \in Nat /\ rel_list[q] \in His(scn)
  BY Listed DEF His
<1>2. PICK r \in 1 .. nreloc : rel_list[r] = l
  BY Listed DEF LosOf, Los
<1>3. rel_list[r].type = R_MIPS_LO16 /\ IsHiOf(scn, rel_list[q], rel_list[r])
  BY <1>2 DEF LosOf, Los
<1>4. r > 1 /\ rel_list[r - 1] = rel_list[q]
  BY <1>1, <1>3, AdjacentHalf
<1>5. r - 1 = q
  BY <1>1, <1>4, Listed
<1>6. r = q + 1
  BY <1>1, <1>5
<1> QED BY <1>2, <1>6

-----------------------------------------------------------------------------
(* The entry whose turn it is: its word is as in the ELF file. *)
LEMMA Turn ==
    ASSUME IInv, DistinctOffsets, ListKnown, Ordered, AsInFile, pc = "reloc_do", i <= nreloc
    PROVE  LET rel == rel_list[i]
               o   == rel.offset - elf.ep
           IN  /\ i \in 1 .. nreloc /\ rel \in EntriesOf(scn) /\ rel \in Entries
               /\ o \in Offsets /\ o + elf.ep = rel.offset
               /\ memory[o] = OriginalWord(rel.offset) /\ memory[o] \in Words
<1> DEFINE rel == rel_list[i]
           o   == rel.offset - elf.ep
<1>1. i \in 1 .. nreloc
  BY Listed
<1>2. rel \in EntriesOf(scn) /\ rel \in Entries
  BY <1>1, Listed
<1>3. PICK W : W = Original
  OBVIOUS
<1>4. OnlyTouched(W)
  BY <1>3 DEF AsInFile, SecondPass
<1>5. o \in Offsets /\ o + elf.ep = rel.offset /\ memory[o] = W.memory[o]
  BY <1>4, WordUntouched
<1> HIDE DEF o, rel
<1>6. W.memory[o] = OriginalWord(o + elf.ep)
  BY <1>3, <1>5 DEF Original
<1>7. memory[o] \in Words
  BY <1>5 DEF IInv, TypeOK, EngineTypeOK
<1> QED BY <1>1, <1>2, <1>5, <1>6, <1>7 DEF o, rel

(* The fate of an address, by the ELF file. *)
LEMMA VerdictKnown ==
    ASSUME WellFormed(elf), Linked, SectionsMet(Len(elf.sections)),
           NEW W, W.starts = elf_starts, W.sizes = sizes, NEW a \in Nat, NEW type
    PROVE  Verdict(W, a, type) =
              IF OwnerOf(a) = NoSection THEN "fail"
              ELSE IF type = R_MIPS_26 /\ OwnerOf(a) # TEXT THEN "error" ELSE "success"
<1>1. adjust_address(a, type, TRUE).ret = Verdict(W, a, type)
  BY Verdicts
<1>2. get_target_section(a) = OwnerOf(a)
  BY OwnerFound
<1> QED BY <1>1, <1>2 DEF adjust_address

(* The HI16 that the pairs have for a LO16 is the entry before it. *)
LEMMA PairBefore ==
    ASSUME IInv, DistinctOffsets, ListKnown, Ordered, AsInFile, Pairing, PairsAdjacent,
           pc = "reloc_do", i <= nreloc, rel_list[i].type = R_MIPS_LO16,
           hilopair[LoReg(OriginalWord(rel_list[i].offset))].status # "invalid"
    PROVE  LET h == rel_list[i - 1]
           IN  /\ i > 1 /\ h \in His(scn) /\ PairKnown(h)
               /\ Opens(h, rel_list[i]) /\ IsHiOf(scn, h, rel_list[i])
               /\ HiOf(scn, rel_list[i]) = h
<1> DEFINE l == rel_list[i]
           w == OriginalWord(l.offset)
<1>1. i \in 1 .. nreloc /\ l \in EntriesOf(scn) /\ w \in Words
  BY Turn
<1>2. LoReg(w) \in Registers
  BY <1>1, FieldTypes
<1>3. PICK q \in 1 .. (i - 1) : /\ rel_list[q].type = R_MIPS_HI16
                                /\ HiReg(OriginalWord(rel_list[q].offset)) = LoReg(w)
  BY <1>2 DEF Pairing
<1>4. q \in 1 .. nreloc /\ q < i /\ nreloc \in Nat
  BY <1>1, Listed
<1>5. rel_list[q] \in His(scn) /\ rel_list[q].offset < l.offset
  BY <1>1, <1>3, <1>4, Listed DEF His
<1>6. Paired(scn, l)
  BY <1>3, <1>5 DEF Paired, Opens
<1>7. scn \in RelocSections /\ WellFormed(elf)
  BY Listed DEF IInv, TypeOK
<1>8. \E h \in His(scn) : IsHiOf(scn, h, l)
  BY <1>1, <1>6, <1>7, LastOpener
<1>9. HiOf(scn, l) \in His(scn) /\ IsHiOf(scn, HiOf(scn, l), l)
  BY <1>8 DEF HiOf
<1>10. i > 1 /\ rel_list[i - 1] = HiOf(scn, l)
  BY <1>1, <1>9, AdjacentHalf
<1>11. rel_list[i - 1].type = R_MIPS_HI16
  BY <1>9, <1>10 DEF His
<1>12. PairKnown(rel_list[i - 1])
  BY <1>10, <1>11 DEF Pairing
<1> QED BY <1>9, <1>10, <1>12 DEF IsHiOf

(* What a call returns, by the ELF file: it succeeds for a HI16, and for what
   moves. *)
LEMMA CallKnown ==
    ASSUME IInv, Linked, SectionsMet(Len(elf.sections)), ListKnown, Ordered, AsInFile,
           Pairing, PairsAdjacent, pc = "reloc_do", i <= nreloc,
           NEW v, v = novl_reloc_do(rel_list[i].offset - elf.ep, rel_list[i].type, FALSE),
           v.ret # "error"
    PROVE  LET rel == rel_list[i]
           IN  /\ Fine(scn, rel)
               /\ v.ret = IF rel.type = R_MIPS_HI16 \/ Moves(scn, rel) THEN "success" ELSE "fail"
               /\ v.hilopair = PairsAfter(rel.offset - elf.ep, OriginalWord(rel.offset),
                                          hilopair, rel.type)
               /\ rel.type = R_MIPS_LO16 =>
                     hilopair[LoReg(OriginalWord(rel.offset))].status # "invalid"
<1> DEFINE rel == rel_list[i]
           t   == rel.type
           o   == rel.offset - elf.ep
           w   == OriginalWord(rel.offset)
           pair == hilopair[LoReg(w)]
<1>1. /\ i \in 1 .. nreloc /\ rel \in EntriesOf(scn) /\ rel \in Entries
      /\ memory[o] = w /\ w \in Words
  BY Turn DEF Linked, Placed
<1>2. scn \in RelocSections /\ WellFormed(elf)
  BY Listed DEF IInv, TypeOK
<1>3. t \in Nat /\ t < 128 /\ t % 128 = t
  <2>1. t \in Nat
    BY <1>1, ListFacts, OffsetTypes
  <2>2. t < 128
    BY <1>1, <1>2 DEF Linked, Placed, KnownTypes
  <2> HIDE DEF t
  <2> QED BY <2>1, <2>2
<1>0. /\ v = novl_reloc_do(o, t, FALSE) /\ rel.type = t
      /\ o = rel.offset - elf.ep /\ w = OriginalWord(rel.offset)
  OBVIOUS
<1> DEFINE W == [starts |-> elf_starts, sizes |-> sizes]
<1>4. W.starts = elf_starts /\ W.sizes = sizes
  OBVIOUS
<1> HIDE DEF W, o, w, t
<1>5. v.ret = Ret(W, w, hilopair, t) /\ v.hilopair = PairsAfter(o, w, hilopair, t)
  <2>1. /\ novl_reloc_do(o, t, FALSE).ret = Ret(W, memory[o], hilopair, t)
        /\ novl_reloc_do(o, t, FALSE).hilopair = PairsAfter(o, memory[o], hilopair, t)
    BY <1>4, CallReturns
  <2> QED BY <1>0, <1>1, <2>1
<1> DEFINE word == Verdict(W, w, R_MIPS_32)
           jump == Verdict(W, JumpTarget(w), R_MIPS_26)
           low  == Verdict(W, LowTarget(w, pair), R_MIPS_LO16)
           both == IF pair.status = "invalid" THEN "error"
                   ELSE IF low = "fail" /\ pair.status = "used" THEN "fail_keep_hi" ELSE low
<1>7. v.ret = CASE t = R_MIPS_32 -> word [] t = R_MIPS_26 -> jump
                [] t = R_MIPS_HI16 -> "success" [] t = R_MIPS_LO16 -> both [] OTHER -> "error"
  BY <1>3, <1>5 DEF Ret
<1> HIDE DEF pair, word, jump, low, both
<1>17. /\ R_MIPS_32 # R_MIPS_26 /\ R_MIPS_32 # R_MIPS_HI16 /\ R_MIPS_32 # R_MIPS_LO16
       /\ R_MIPS_26 # R_MIPS_HI16 /\ R_MIPS_26 # R_MIPS_LO16 /\ R_MIPS_HI16 # R_MIPS_LO16
  BY DEF R_MIPS_32, R_MIPS_26, R_MIPS_HI16, R_MIPS_LO16
<1>14. /\ t = R_MIPS_32 => v.ret = word
       /\ t = R_MIPS_26 => v.ret = jump
       /\ t = R_MIPS_HI16 => v.ret = "success"
       /\ t = R_MIPS_LO16 => v.ret = both
       /\ t \in Handled
  BY <1>7, <1>17, Zenon DEF Handled
<1> DEFINE Known == /\ v.ret = IF t = R_MIPS_HI16 \/ Moves(scn, rel) THEN "success" ELSE "fail"
                    /\ t = R_MIPS_LO16 => Paired(scn, rel) /\ pair.status # "invalid"
<1>6. \A a \in Nat : \A type : Verdict(W, a, type) =
              IF OwnerOf(a) = NoSection THEN "fail"
              ELSE IF type = R_MIPS_26 /\ OwnerOf(a) # TEXT THEN "error" ELSE "success"
  BY <1>2, <1>4, VerdictKnown
<1>8. w \in Nat /\ JumpTarget(w) \in Nat
  <2>1. w \in Nat /\ JumpSpan \in Nat \ {0} /\ Kseg0 \in Nat
    BY <1>1, Spans, WordLayout DEF Words
  <2>2. w % JumpSpan \in Nat
    BY <2>1
  <2> QED BY <2>1, <2>2 DEF JumpTarget
<1>9. ASSUME t = R_MIPS_32 PROVE Known
  <2>1. TargetOf(scn, rel) = w
    BY <1>0, <1>9 DEF TargetOf, R_MIPS_32, R_MIPS_26, R_MIPS_LO16
  <2>2. word = IF Moves(scn, rel) THEN "success" ELSE "fail"
    BY <1>6, <1>8, <2>1 DEF word, Moves, R_MIPS_32, R_MIPS_26
  <2> QED BY <1>9, <1>14, <2>2, <1>17, Zenon
<1>10. ASSUME t = R_MIPS_26 PROVE Known
  <2>1. TargetOf(scn, rel) = JumpTarget(w)
    BY <1>0, <1>10 DEF TargetOf, R_MIPS_26, R_MIPS_LO16
  <2>2. jump = (IF Moves(scn, rel) THEN "success" ELSE "fail") \/ jump = "error"
    BY <1>6, <1>8, <2>1 DEF jump, Moves
  <2> QED BY <1>10, <1>14, <2>2, <1>17, Zenon
<1>11. ASSUME t = R_MIPS_HI16 PROVE Known
  BY <1>11, <1>14, <1>17, Zenon
<1>12. ASSUME t = R_MIPS_LO16 PROVE Known
  <2> DEFINE h == rel_list[i - 1]
  <2>1. v.ret = both /\ pair.status # "invalid"
    BY <1>12, <1>14 DEF both
  <2>2. /\ h \in His(scn) /\ PairKnown(h) /\ Opens(h, rel) /\ HiOf(scn, rel) = h
    BY <1>12, <2>1, PairBefore DEF Linked, Placed, w, t, pair
  <2>3. pair = [status |-> "valid", value |-> Imm(OriginalWord(h.offset)) * Half,
                ptr |-> h.offset - elf.ep]
    BY <1>0, <2>2 DEF PairKnown, Opens, pair
  <2>4. TargetOf(scn, rel) = LowTarget(w, pair)
    <3>1. TargetOf(scn, rel) =
            (Imm(OriginalWord(HiOf(scn, rel).offset)) * Half + SignedImm(w)) % Word
      BY <1>0, <1>12 DEF TargetOf, R_MIPS_26, R_MIPS_LO16
    <3> HIDE DEF h
    <3> QED BY <2>2, <2>3, <3>1 DEF LowTarget
  <2>5. LowTarget(w, pair) \in Nat
    <3>1. pair.value \in Words
      BY <1>1, FieldTypes DEF IInv, TypeOK, EngineTypeOK, HiLoPairs, pair
    <3>2. SignedImm(w) \in Int
      BY <1>1, FieldTypes
    <3>3. pair.value \in Int /\ Word \in Nat \ {0}
      BY <3>1, Spans DEF Words
    <3> QED BY <3>2, <3>3 DEF LowTarget
  <2>6. low = IF Moves(scn, rel) THEN "success" ELSE "fail"
    BY <1>6, <2>4, <2>5 DEF low, Moves, R_MIPS_26, R_MIPS_LO16
  <2>7. v.ret = IF Moves(scn, rel) THEN "success" ELSE "fail"
    <3>1. pair.status = "valid"
      BY <2>3
    <3> QED BY <2>1, <2>6, <3>1 DEF both
  <2>8. Paired(scn, rel)
    BY <2>2 DEF Paired
  <2> QED BY <1>12, <2>1, <2>7, <2>8, <1>17, Zenon
<1>15. Known
  BY <1>9, <1>10, <1>11, <1>12, <1>14 DEF Handled
<1> HIDE DEF rel
<1>16. Fine(scn, rel)
  BY <1>0, <1>14, <1>15 DEF Fine
<1> QED BY <1>0, <1>5, <1>14, <1>15, <1>16 DEF pair, rel

-----------------------------------------------------------------------------
LEMMA SameFine == ASSUME elf' = elf PROVE \A k, e : Fine(k, e)' <=> Fine(k, e)
<1>1. \A k, l : Paired(k, l)' <=> Paired(k, l)
  BY SameSets, SamePairs DEF Paired
<1> QED BY <1>1 DEF Fine

(* The sections left behind are the same while a list is filled or treated, and
   when a section is skipped that has no entries of interest. *)
LEMMA SameFront ==
    ASSUME IInv, RelocScan \/ RelocSort \/ (RelocEntry /\ pc' = "reloc_do"),
           NEW k \in RelocSections
    PROVE  Behind(k)' <=> Behind(k)
<1>1. scn \in Nat /\ k \in Nat
  BY DEF IInv, TypeOK, PassTypeOK, RelocSections, SectionIndex
<1>2. CASE RelocSort \/ (RelocEntry /\ pc' = "reloc_do")
  <2>1. scn' = scn /\ pc # "reloc_scan" /\ pc' # "reloc_scan"
    BY <1>2 DEF RelocSort, RelocEntry, SortInserts, SortEnds, Goto
  <2> QED BY <2>1 DEF Behind
<1>3. CASE RelocScan
  <2>1. /\ pc = "reloc_scan" /\ scn' = scn + 1
        /\ \/ pc' = "reloc_scan" /\ ~Wanted(elf.sections[scn + 1])
           \/ pc' = "reloc_sort"
    BY <1>3 DEF RelocScan, ScanSkips, ScanFinds, Goto, Section
  <2>2. CASE pc' = "reloc_scan"
    <3>1. k # scn + 1
      BY <2>1, <2>2 DEF RelocSections
    <3> QED BY <1>1, <2>1, <2>2, <3>1 DEF Behind
  <2>3. CASE pc' = "reloc_sort"
    BY <1>1, <2>1, <2>3 DEF Behind
  <2> QED BY <2>1, <2>2, <2>3
<1> QED BY <1>2, <1>3

LEMMA StartPairing == ASSUME IInv, Layout PROVE Pairing'
<1>1. pc' = "reloc_scan" /\ scn' = 0 /\ elf' = elf
  BY DEF Layout, Goto, inputVars
<1>2. \A k \in RelocSections' : ~Behind(k)'
  <2>1. \A k \in RelocSections : k \in Nat /\ k >= 1
    BY DEF IInv, TypeOK, RelocSections, SectionIndex
  <2>2. RelocSections' = RelocSections
    BY <1>1, SameSets
  <2> QED BY <1>1, <2>1, <2>2 DEF Behind
<1> QED BY <1>1, <1>2 DEF Pairing

LEMMA FillPairing ==
    ASSUME IInv, ListKnown, Pairing, RelocScan \/ RelocSort
    PROVE  Pairing'
<1>1. pc \in SecondPass /\ elf' = elf
  BY DEF RelocScan, RelocSort, RelocFrame, inputVars, ScanSkips, ScanFinds, SortInserts,
         SortEnds, SecondPass
<1>2. \A k \in RelocSections : Behind(k)' => \A e \in EntriesOf(k) : Fine(k, e)
  BY <1>1, SameFront DEF Pairing
<1>3. (\A k \in RelocSections : Behind(k) => \A e \in EntriesOf(k) : Fine(k, e))'
  BY <1>1, <1>2, SameSets, SameFine
<1>4. CASE pc' # "reloc_do"
  BY <1>3, <1>4 DEF Pairing
<1>5. CASE pc' = "reloc_do"
  <2>1. i' = 1 /\ hilopair' = NoHiLoPairs
    BY <1>5 DEF RelocScan, RelocSort, ScanSkips, ScanFinds, SortInserts, SortEnds, Goto, ListKnown
  <2>2. \A r \in Registers : hilopair'[r].status = "invalid"
    BY <2>1 DEF NoHiLoPairs
  <2> QED BY <1>3, <2>1, <2>2 DEF Pairing
<1> QED BY <1>4, <1>5

LEMMA NextPairing ==
    ASSUME IInv, ListKnown, Ordered, Pairing, RelocNext
    PROVE  Pairing'
<1>1. /\ pc = "reloc_do" /\ pc' = "reloc_scan" /\ i > nreloc
      /\ UNCHANGED <<elf, scn>>
  BY DEF RelocNext, RelocFrame, inputVars, loopVars, ListEnds, Goto
<1>2. ASSUME NEW k \in RelocSections, Behind(k)', NEW e \in EntriesOf(k)
      PROVE  Fine(k, e)
  <2>1. k < scn \/ k = scn
    BY <1>1, <1>2 DEF Behind
  <2>2. CASE k < scn
    BY <1>1, <2>2 DEF Pairing, Behind, SecondPass
  <2>3. CASE k = scn
    <3>1. PICK q \in 1 .. nreloc : rel_list[q] = e
      BY <1>1, <2>3, Listed
    <3>2. q \in 1 .. (i - 1)
      BY <1>1, Listed
    <3> QED BY <1>1, <2>3, <3>1, <3>2 DEF Pairing
  <2> QED BY <2>1, <2>2, <2>3
<1>3. (\A k \in RelocSections : Behind(k) => \A e \in EntriesOf(k) : Fine(k, e))'
  BY <1>1, <1>2, SameSets, SameFine
<1> QED BY <1>1, <1>3 DEF Pairing

LEMMA EntryPairing ==
    ASSUME IInv, Linked, SectionsMet(Len(elf.sections)), ListKnown, Ordered, AsInFile,
           Pairing, PairsAdjacent, RelocEntry, pc' = "reloc_do"
    PROVE  Pairing'
<1> DEFINE rel == rel_list[i]
           o   == rel.offset - elf.ep
           w   == OriginalWord(rel.offset)
           v   == novl_reloc_do(o, rel.type, FALSE)
           F(r, n) == \E q \in 1 .. n : /\ rel_list[q].type = R_MIPS_HI16
                                        /\ HiReg(OriginalWord(rel_list[q].offset)) = r
<1>1. /\ pc = "reloc_do" /\ i <= nreloc /\ i' = i + 1 /\ hilopair' = v.hilopair
      /\ v.ret # "error" /\ UNCHANGED <<elf, scn, rel_list>>
  BY DEF RelocEntry, RelocFrame, inputVars, Exit, Goto
<1>2. PICK u : u = v
  OBVIOUS
<1>3. /\ Fine(scn, rel) /\ u.hilopair = PairsAfter(o, w, hilopair, rel.type)
      /\ rel.type = R_MIPS_LO16 => hilopair[LoReg(w)].status # "invalid"
  BY <1>1, <1>2, CallKnown
<1>4. hilopair' = PairsAfter(o, w, hilopair, rel.type)
  BY <1>1, <1>2, <1>3
<1>5. /\ i \in 1 .. nreloc /\ w \in Words /\ rel.type \in Nat
      /\ rel \in EntriesOf(scn) /\ scn \in RelocSections /\ i \in Nat
  <2>1. i \in 1 .. nreloc /\ w \in Words /\ rel \in EntriesOf(scn) /\ rel \in Entries
    BY <1>1, Turn DEF Linked, Placed
  <2> QED BY <1>1, <2>1, Listed, ListFacts, OffsetTypes
<1>6. rel.type < 128 /\ rel.type % 128 = rel.type
  BY <1>5 DEF Linked, Placed, KnownTypes
<1>7. HiReg(w) \in Registers /\ LoReg(w) \in Registers
  BY <1>5, FieldTypes
<1>8. \A r \in Registers : hilopair[r].status # "invalid" => F(r, i - 1)
  BY <1>1 DEF Pairing
<1>9. hilopair \in HiLoPairs
  BY DEF IInv, TypeOK, EngineTypeOK
<1>10. \A r : F(r, i - 1) => F(r, i)
  BY <1>5
<1>11. rel.type = R_MIPS_HI16 => F(HiReg(w), i)
  BY <1>5
<1>12. /\ rel.type = R_MIPS_HI16 =>
             hilopair' = [hilopair EXCEPT ![HiReg(w)] =
                             [status |-> "valid", value |-> Imm(w) * Half, ptr |-> o]]
       /\ rel.type = R_MIPS_LO16 => hilopair' = [hilopair EXCEPT ![LoReg(w)].status = "used"]
       /\ rel.type \notin {R_MIPS_HI16, R_MIPS_LO16} => hilopair' = hilopair
  <2> HIDE DEF rel, o, w
  <2> QED BY <1>3, <1>4, <1>6 DEF PairsAfter, R_MIPS_HI16, R_MIPS_LO16
<1>13. \A a : OriginalWord(a)' = OriginalWord(a)
  BY <1>1, SamePlacesInFile
<1>14. PICK h : h = rel
  OBVIOUS
<1>15. h.type = R_MIPS_HI16 => PairKnown(h)'
  <2>1. h.type = R_MIPS_HI16 =>
           hilopair'[HiReg(w)] = [status |-> "valid", value |-> Imm(w) * Half, ptr |-> o]
    BY <1>7, <1>9, <1>12, <1>14 DEF HiLoPairs
  <2> QED BY <1>1, <1>13, <1>14, <2>1 DEF PairKnown
<1>16. ASSUME NEW r \in Registers, hilopair'[r].status # "invalid"
       PROVE  F(r, i)
  <2> HIDE DEF F
  <2>1. CASE rel.type = R_MIPS_HI16 /\ r = HiReg(w)
    BY <1>11, <2>1
  <2>2. CASE ~(rel.type = R_MIPS_HI16 /\ r = HiReg(w))
    <3>1. hilopair[r].status # "invalid"
      <4> HIDE DEF w, o
      <4>1. CASE rel.type = R_MIPS_LO16
        BY <1>3, <1>7, <1>9, <1>12, <1>16, <4>1 DEF HiLoPairs, R_MIPS_HI16, R_MIPS_LO16
      <4>2. CASE rel.type # R_MIPS_LO16
        BY <1>7, <1>9, <1>12, <1>16, <2>2, <4>2 DEF HiLoPairs
      <4> QED BY <4>1, <4>2
    <3> QED BY <1>8, <1>10, <3>1
  <2> QED BY <2>1, <2>2
<1>17. \A q \in 1 .. i : Fine(scn, rel_list[q])
  <2>1. \A q \in 1 .. (i - 1) : Fine(scn, rel_list[q])
    BY <1>1 DEF Pairing
  <2> QED BY <1>3, <1>5, <2>1
<1>18. i' - 1 = i
  BY <1>1, <1>5
<1>19. \A k, e : Fine(k, e)' <=> Fine(k, e)
  BY <1>1, SameFine
<1>20. (\A k \in RelocSections : Behind(k) => \A e \in EntriesOf(k) : Fine(k, e))'
  <2>1. \A k \in RelocSections : Behind(k)' => \A e \in EntriesOf(k) : Fine(k, e)
    BY <1>1, SameFront DEF Pairing, SecondPass
  <2> QED BY <1>1, <1>19, <2>1, SameSets
<1>21. (\A r \in Registers : hilopair[r].status # "invalid" =>
           \E q \in 1 .. (i - 1) : /\ rel_list[q].type = R_MIPS_HI16
                                  /\ HiReg(OriginalWord(rel_list[q].offset)) = r)'
  BY <1>1, <1>13, <1>16, <1>18
<1>22. (\A q \in 1 .. (i - 1) : Fine(scn, rel_list[q]))'
  BY <1>1, <1>17, <1>18, <1>19
<1>23. (i > 1 /\ rel_list[i - 1].type = R_MIPS_HI16 => PairKnown(rel_list[i - 1]))'
  BY <1>1, <1>14, <1>15, <1>18
<1> QED BY <1>20, <1>21, <1>22, <1>23 DEF Pairing

-----------------------------------------------------------------------------
(* The fields of a table word are read as they were put together. *)
LEMMA Divided ==
    ASSUME NEW d \in Nat \ {0}, NEW q \in Nat, NEW r \in 0 .. (d - 1)
    PROVE  (d * q + r) \div d = q /\ (d * q + r) % d = r
<1> DEFINE a == d * q + r
           n == a \div d
           m == a % d
<1>1. a \in Nat
  OBVIOUS
<1>2. n \in Nat /\ m \in 0 .. (d - 1) /\ a = d * n + m
  BY <1>1, DivMod
<1>3. a = d * q + r
  OBVIOUS
<1> HIDE DEF a, n, m
<1>4. ~(n < q)
  <2> SUFFICES ASSUME n < q PROVE FALSE
    OBVIOUS
  <2>1. d * (n + 1) <= d * q
    BY <1>2, MulMono
  <2>2. d * (n + 1) = d * n + d
    BY <1>2
  <2> QED BY <1>2, <1>3, <2>1, <2>2
<1>5. ~(q < n)
  <2> SUFFICES ASSUME q < n PROVE FALSE
    OBVIOUS
  <2>1. d * (q + 1) <= d * n
    BY <1>2, MulMono
  <2>2. d * (q + 1) = d * q + d
    OBVIOUS
  <2> QED BY <1>2, <1>3, <2>1, <2>2
<1>6. n = q
  BY <1>2, <1>4, <1>5
<1>7. m = r
  BY <1>2, <1>3, <1>6
<1> QED BY <1>6, <1>7 DEF n, m, a

LEMMA ReadAsMade ==
    ASSUME NEW id \in 0 .. 2, NEW t \in Handled, NEW d \in 0 .. (OffsetSpan - 1)
    PROVE  RowOf(novl_reloc_mk(id + 1, d, t)) = <<id, t, d>>
<1> DEFINE w == novl_reloc_mk(id + 1, d, t)
           n == 64 * (id + 1) + t
<1>1. OffsetSpan \in Nat \ {0} /\ t \in 0 .. 63 /\ id \in Nat /\ n \in Nat /\ d \in Nat
  BY FormatSizes DEF Handled, R_MIPS_32, R_MIPS_26, R_MIPS_HI16, R_MIPS_LO16
<1>2. d % OffsetSpan = d
  BY <1>1, SmallMod
<1>3. (id + 1) % 4 = id + 1 /\ t % 64 = t
  BY <1>1
<1>4. w = OffsetSpan * n + d
  <2>1. w = ((id + 1) * 64 + t) * OffsetSpan + d
    BY <1>2, <1>3 DEF novl_reloc_mk, TypeSpan
  <2>2. (id + 1) * 64 + t = n
    BY <1>1
  <2> HIDE DEF w, n
  <2> QED BY <1>1, <2>1, <2>2
<1>5. n \div 64 = id + 1 /\ n % 64 = t
  BY <1>1
<1> HIDE DEF w, n
<1>6. w \div OffsetSpan = n /\ w % OffsetSpan = d
  BY <1>1, <1>4, Divided
<1>7. w \div (64 * OffsetSpan) = id + 1
  <2> DEFINE s == 64 * OffsetSpan
             r == OffsetSpan * t + d
  <2>1. s \in Nat \ {0} /\ r \in 0 .. (s - 1)
    <3>1. OffsetSpan * (t + 1) <= OffsetSpan * 64
      BY <1>1, MulMono
    <3>2. OffsetSpan * (t + 1) = OffsetSpan * t + OffsetSpan /\ OffsetSpan * t \in Nat
      BY <1>1
    <3>3. OffsetSpan * 64 = 64 * OffsetSpan
      BY <1>1
    <3> QED BY <1>1, <3>1, <3>2, <3>3
  <2>2. w = s * (id + 1) + r
    <3>1. OffsetSpan * (64 * (id + 1) + t) = OffsetSpan * (64 * (id + 1)) + OffsetSpan * t
      BY <1>1
    <3>2. OffsetSpan * (64 * (id + 1)) = (64 * OffsetSpan) * (id + 1)
      BY <1>1
    <3> QED BY <1>1, <1>4, <3>1, <3>2 DEF n
  <2> HIDE DEF s, r
  <2>3. id + 1 \in Nat
    BY <1>1
  <2>4. (s * (id + 1) + r) \div s = id + 1
    BY ONLY <2>1, <2>3, Divided
  <2>5. w \div s = id + 1
    BY <2>2, <2>4
  <2> QED BY <2>5 DEF s
<1>8. /\ OVL_RELOC_GET_SEC(w) = id /\ OVL_RELOC_GET_TYPE(w) = t /\ OVL_RELOC_GET_ADDR(w) = d
  BY <1>1, <1>5, <1>6, <1>7 DEF OVL_RELOC_GET_SEC, OVL_RELOC_GET_TYPE, OVL_RELOC_GET_ADDR, TypeSpan
<1> QED BY <1>8 DEF RowOf, w

LEMMA EntryTypes ==
    ASSUME WellFormed(elf), NEW k \in RelocSections, NEW e \in EntriesOf(k)
    PROVE  /\ e \in Entries /\ e.offset \in Nat /\ e.type \in Nat
           /\ e.offset - elf.ep \in Offsets /\ (e.offset - elf.ep) + elf.ep = e.offset
<1>1. k \in 1 .. Len(elf.sections) /\ elf.sections[k] \in Sections
  BY DEF WellFormed, RelocSections, SectionIndex
<1>2. elf.sections[k].rels \in Seq(Entries)
  BY <1>1 DEF Sections
<1>3. PICK p \in DOMAIN elf.sections[k].rels : elf.sections[k].rels[p] = e
  BY DEF EntriesOf, ToSet
<1>4. p \in 1 .. Len(elf.sections[k].rels)
  BY <1>2, <1>3
<1>5. e \in Entries /\ e.offset \in Nat /\ e.type \in Nat
  BY <1>2, <1>3, <1>4, OffsetTypes
<1>6. e.offset - elf.ep \in Offsets
  BY <1>1, <1>3, <1>4 DEF WellFormed, WellFormedSection
<1>7. elf.ep \in Words
  BY DEF WellFormed
<1>8. elf.ep \in Nat
  BY <1>7, Spans DEF Words
<1> QED BY <1>5, <1>6, <1>8

LEMMA RoundedToWords == ASSUME NEW n \in Nat PROVE RoundUp8(n) % 4 = 0
<1>1. PICK q \in Nat : q = (n + 7) \div 8
  OBVIOUS
<1>2. RoundUp8(n) = q * 8
  BY <1>1 DEF RoundUp8
<1>3. (q * 8) % 4 = 0
  OBVIOUS
<1> QED BY <1>2, <1>3

(* An entry has its place in the section it is for: the section is loaded where
   the entry was linked to be. *)
LEMMA EntryPlaced ==
    ASSUME WellFormed(elf), Placed, SectionsMet(Len(elf.sections)),
           NEW k \in RelocSections, NEW e \in EntriesOf(k)
    PROVE  LET id == RelTarget(elf.sections[k].name)
               d  == e.offset - AddrOf(id)
           IN  /\ id \in 0 .. 2 /\ elf_starts[id] = AddrOf(id)
               /\ d \in 0 .. (OffsetSpan - 1) /\ d + 4 <= sizes[id] /\ d % 4 = 0
<1> DEFINE id == RelTarget(elf.sections[k].name)
           at == {j \in LoadedSections :
                    /\ elf.sections[j].addr <= e.offset
                    /\ e.offset < elf.sections[j].addr + RoundUp8(elf.sections[j].size)}
<1>1. /\ elf.sections[k] \in Sections /\ Wanted(elf.sections[k])
      /\ elf.sections[k].rels \in Seq(Entries)
  <2>1. elf.sections[k] \in Sections
    BY DEF WellFormed, RelocSections, SectionIndex
  <2> QED BY <2>1 DEF Sections, RelocSections
<1>2. e.offset \in Nat
  <2>1. PICK p \in DOMAIN elf.sections[k].rels : e = elf.sections[k].rels[p]
    BY DEF EntriesOf, ToSet
  <2>2. p \in 1 .. Len(elf.sections[k].rels)
    BY <1>1, <2>1
  <2> QED BY <1>1, <2>1, <2>2, OffsetTypes
<1>3. id \in 0 .. 2 /\ OwnerOf(e.offset) = id
  <2>1. OwnerOf(e.offset) = id /\ id # BSS
    BY DEF Placed, OwnRelocations
  <2>2. elf.sections[k].name \in SectionNames
    BY <1>1 DEF Sections
  <2>3. id \in SectionIds
    BY <1>1, <2>2 DEF Wanted, RelTarget, SectionNames
  <2> HIDE DEF id
  <2> QED BY <2>1, <2>3 DEF SectionIds, BSS
<1>4. OwnerOf(e.offset) = IF at = {} THEN NoSection ELSE IdOf(CHOOSE j \in at : TRUE)
  BY DEF OwnerOf, IdOf
<1> HIDE DEF id
<1>5. PICK j \in at : IdOf(j) = id
  <2> HIDE DEF at
  <2> DEFINE c == CHOOSE j \in at : TRUE
  <2>1. OwnerOf(e.offset) = IF at = {} THEN NoSection ELSE IdOf(c)
    BY <1>4
  <2>2. at # {} => c \in at
    OBVIOUS
  <2> HIDE DEF c
  <2>3. at # {} /\ IdOf(c) = id
    BY <1>3, <2>1 DEF NoSection
  <2> QED BY <2>2, <2>3
<1> DEFINE s == elf.sections[j]
<1>6. /\ j \in LoadedSections /\ j \in Met(Len(elf.sections))
      /\ s.addr \in Nat /\ s.size \in Nat /\ elf.ep \in Nat /\ RoundUp8(s.size) \in Nat
      /\ WellFormedSection(s, elf.ep)
  BY SectionFacts DEF Met
<1>7. elf_starts[id] = s.addr /\ (s.type = "PROGBITS" => ~OutOfBounds(s, elf.ep))
  BY <1>5, <1>6 DEF SectionsMet
<1>8. AddrOf(id) = s.addr
  <2> DEFINE J == {m \in LoadedSections : valid_sec(elf.sections[m].name) = id}
  <2>1. j \in J
    BY <1>5, <1>6 DEF IdOf
  <2>2. \A m \in J : m = j
    <3> SUFFICES ASSUME NEW m \in J PROVE m = j
      OBVIOUS
    <3>1. m \in Met(Len(elf.sections)) /\ IdOf(m) = id
      BY SectionFacts DEF Met, IdOf
    <3> QED BY <1>5, <1>6, <3>1 DEF SectionsMet
  <2>3. (CHOOSE m \in J : TRUE) = j
    <3> HIDE DEF J
    <3> QED BY <2>1, <2>2
  <2> QED BY <2>3 DEF AddrOf
<1>9. s.addr + RoundUp8(s.size) - elf.ep <= MemSize /\ elf.ep <= s.addr
  <2>1. valid_sec(s.name) \in {TEXT, DATA, RODATA}
    BY <1>3, <1>5 DEF IdOf, TEXT, DATA, RODATA
  <2>2. /\ s.type = "PROGBITS"
        /\ s.addr + s.size - elf.ep <= MemSize => s.addr + RoundUp8(s.size) - elf.ep <= MemSize
    <3>1. ~Unchecked(valid_sec(s.name))
      BY <2>1 DEF Placed
    <3>2. /\ s.type = "PROGBITS"
          /\ ~(/\ s.addr + s.size - elf.ep <= MemSize
               /\ s.addr + RoundUp8(s.size) - elf.ep > MemSize)
      BY <1>6, <3>1 DEF Unchecked
    <3> HIDE DEF s
    <3> QED BY <1>6, <3>2, EngineSizes
  <2> HIDE DEF s
  <2> QED BY <1>6, <1>7, <2>2, EngineSizes DEF OutOfBounds
<1>10. e.offset - s.addr \in 0 .. (OffsetSpan - 1)
  <2>1. s.addr <= e.offset /\ e.offset < s.addr + RoundUp8(s.size)
    OBVIOUS
  <2>2. PICK b \in Nat, r \in Nat, ep \in Nat, o \in Nat :
          b = s.addr /\ r = RoundUp8(s.size) /\ ep = elf.ep /\ o = e.offset
    BY <1>2, <1>6
  <2> HIDE DEF s
  <2>3. b + r - ep <= MemSize /\ ep <= b /\ b <= o /\ o < b + r
    BY <1>9, <2>1, <2>2
  <2>4. MemSize \in Nat /\ OffsetSpan \in Nat /\ MemSize <= OffsetSpan
    BY ImageFits, EngineSizes, FormatSizes
  <2>5. o - b \in 0 .. (OffsetSpan - 1)
    BY ONLY <2>3, <2>4
  <2> QED BY <2>2, <2>5
<1>11. e.offset - s.addr + 4 <= RoundUp8(s.size) /\ (e.offset - s.addr) % 4 = 0
  <2>1. s.addr <= e.offset /\ e.offset < s.addr + RoundUp8(s.size)
    OBVIOUS
  <2>2. (s.addr - elf.ep) % 4 = 0
    <3>1. valid_sec(s.name) \in {TEXT, DATA, RODATA}
      BY <1>3, <1>5 DEF IdOf, TEXT, DATA, RODATA
    <3> QED BY <1>6, <3>1 DEF WellFormedSection
  <2>3. e.offset - elf.ep \in Nat /\ (e.offset - elf.ep) % 4 = 0
    BY EntryTypes DEF Offsets
  <2>4. RoundUp8(s.size) % 4 = 0
    BY <1>6, RoundedToWords
  <2>5. PICK b \in Nat, r \in Nat, ep \in Nat, o \in Nat :
          b = s.addr /\ r = RoundUp8(s.size) /\ ep = elf.ep /\ o = e.offset
    BY <1>2, <1>6
  <2> HIDE DEF s
  <2>6. /\ b <= o /\ o < b + r /\ (b - ep) % 4 = 0 /\ (o - ep) % 4 = 0 /\ r % 4 = 0
        /\ ep <= b
    BY <1>9, <2>1, <2>2, <2>3, <2>4, <2>5
  <2>7. o - b + 4 <= r
    BY ONLY <2>6
  <2>8. (o - b) % 4 = 0
    <3>1. PICK x \in Nat, y \in Nat : x = o - ep /\ y = b - ep
      BY <2>6
    <3>2. x % 4 = 0 /\ y % 4 = 0 /\ o - b = x - y
      BY <2>6, <3>1
    <3>3. (x - y) % 4 = 0
      BY ONLY <3>2
    <3> QED BY <3>2, <3>3
  <2> QED BY <2>5, <2>7, <2>8
<1>12. sizes[id] = RoundUp8(s.size)
  BY <1>5, <1>6 DEF SectionsMet
<1> HIDE DEF s
<1> QED BY <1>3, <1>7, <1>8, <1>10, <1>11, <1>12 DEF id

(* The word made for an entry says where it is. *)
LEMMA WordFits ==
    ASSUME WellFormed(elf), Placed, SectionsMet(Len(elf.sections)),
           NEW k \in RelocSections, NEW e \in EntriesOf(k), e.type \in Handled
    PROVE  LET id == RelTarget(elf.sections[k].name)
           IN  elf_starts[id] = AddrOf(id) /\ RowOf(MadeWord(<<k, e>>)) = Row(<<k, e>>)
<1> DEFINE id == RelTarget(elf.sections[k].name)
<1>1. /\ id \in 0 .. 2 /\ elf_starts[id] = AddrOf(id)
      /\ e.offset - AddrOf(id) \in 0 .. (OffsetSpan - 1)
  BY EntryPlaced
<1>2. RowOf(novl_reloc_mk(id + 1, e.offset - AddrOf(id), e.type))
        = <<id, e.type, e.offset - AddrOf(id)>>
  BY <1>1, ReadAsMade
<1> QED BY <1>1, <1>2 DEF MadeWord, Row


-----------------------------------------------------------------------------
(* The table and the entries it holds, as one grows and shrinks. *)
LEMMA EntryNats ==
    ASSUME WellFormed(elf), NEW x \in AllEntries
    PROVE  /\ x[1] \in RelocSections /\ x[1] \in Nat /\ x[2] \in EntriesOf(x[1])
           /\ x[2].offset \in Nat /\ x = <<x[1], x[2]>>
<1>1. PICK k \in RelocSections : x \in {k} \X EntriesOf(k)
  BY DEF AllEntries
<1>2. x[1] = k /\ x[2] \in EntriesOf(k) /\ x = <<x[1], x[2]>>
  BY <1>1
<1>3. k \in Nat /\ elf.sections[k] \in Sections
  BY DEF WellFormed, RelocSections, SectionIndex
<1>4. elf.sections[k].rels \in Seq(Entries)
  BY <1>3 DEF Sections
<1>5. PICK p \in DOMAIN elf.sections[k].rels : x[2] = elf.sections[k].rels[p]
  BY <1>2 DEF EntriesOf, ToSet
<1>6. p \in 1 .. Len(elf.sections[k].rels)
  BY <1>4, <1>5
<1>7. x[2].offset \in Nat
  BY <1>4, <1>5, <1>6, OffsetTypes
<1> QED BY <1>2, <1>3, <1>7

LEMMA PrecedesOrder ==
    ASSUME WellFormed(elf), NEW x \in AllEntries, NEW y \in AllEntries
    PROVE  ~(Precedes(x, y) /\ Precedes(y, x)) /\ ~Precedes(x, x)
<1>1. /\ x[1] \in Nat /\ x[2].offset \in Nat
      /\ y[1] \in Nat /\ y[2].offset \in Nat
  BY EntryNats
<1> QED BY <1>1 DEF Precedes

LEMMA TableSame ==
    ASSUME UNCHANGED <<elf, ninty_relocs>>, NEW S, TableHolds(S)
    PROVE  TableHolds(S)'
<1>1. \A x : MadeWord(x)' = MadeWord(x) /\ Row(x)' = Row(x)
  BY SamePlacesInFile
<1>2. PICK L : Names(L, S)
  BY DEF TableHolds
<1>3. Names(L, S)'
  BY <1>1, <1>2 DEF Names
<1> QED BY <1>3 DEF TableHolds

LEMMA TableEmpty == ASSUME ninty_relocs = <<>> PROVE TableHolds({})
<1>1. Len(ninty_relocs) = 0
  OBVIOUS
<1> DEFINE L == [q \in {} |-> 0]
<1>2. Names(L, {})
  BY <1>1 DEF Names
<1> QED BY <1>2 DEF TableHolds

LEMMA NamesNext ==
    ASSUME elf' = elf, NEW t, ninty_relocs' = t, NEW S, NEW L, L \in [1 .. Len(t) -> S],
           \A q, r \in 1 .. Len(t) : q < r => Precedes(L[q], L[r]),
           \A y \in S : \E q \in 1 .. Len(t) : L[q] = y,
           \A q \in 1 .. Len(t) : t[q] = MadeWord(L[q]) /\ RowOf(t[q]) = Row(L[q])
    PROVE  TableHolds(S)'
<1>1. \A y : MadeWord(y)' = MadeWord(y) /\ Row(y)' = Row(y)
  BY SamePlacesInFile
<1>2. Names(L, S)'
  BY <1>1 DEF Names
<1> QED BY <1>2 DEF TableHolds

LEMMA TableGrows ==
    ASSUME elf' = elf, ninty_relocs \in Seq(Nat \ {0}), NEW S, TableHolds(S),
           NEW x, \A y \in S : Precedes(y, x),
           NEW w, ninty_relocs' = Append(ninty_relocs, w), w = MadeWord(x), RowOf(w) = Row(x)
    PROVE  TableHolds(S \cup {x})'
<1> DEFINE n == Len(ninty_relocs)
<1>1. PICK L : Names(L, S)
  BY DEF TableHolds
<1>2. PICK K : K = [q \in 1 .. (n + 1) |-> IF q = n + 1 THEN x ELSE L[q]]
  OBVIOUS
<1>3. PICK t : t = ninty_relocs'
  OBVIOUS
<1>4. /\ n \in Nat /\ Len(t) = n + 1 /\ t[n + 1] = w
      /\ \A q \in 1 .. n : t[q] = ninty_relocs[q]
  BY <1>3
<1>5. /\ L \in [1 .. n -> S]
      /\ \A q, r \in 1 .. n : q < r => Precedes(L[q], L[r])
      /\ \A y \in S : \E q \in 1 .. n : L[q] = y
      /\ \A q \in 1 .. n : ninty_relocs[q] = MadeWord(L[q]) /\ RowOf(ninty_relocs[q]) = Row(L[q])
  BY <1>1 DEF Names
<1> HIDE DEF n
<1>6. K[n + 1] = x /\ \A q \in 1 .. n : K[q] = L[q]
  BY <1>2, <1>4
<1>7. \A q \in 1 .. (n + 1) : q \in 1 .. n \/ q = n + 1
  BY <1>4
<1>8. K \in [1 .. (n + 1) -> S \cup {x}]
  BY <1>2, <1>5, <1>7
<1>9. \A y \in S \cup {x} : \E q \in 1 .. (n + 1) : K[q] = y
  <2>1. n + 1 \in 1 .. (n + 1) /\ \A q \in 1 .. n : q \in 1 .. (n + 1)
    BY <1>4
  <2> QED BY <1>5, <1>6, <2>1
<1>10. ASSUME NEW q \in 1 .. (n + 1), NEW r \in 1 .. (n + 1), q < r
       PROVE  Precedes(K[q], K[r])
  <2>1. q \in 1 .. n
    BY <1>4, <1>10
  <2>2. CASE r = n + 1
    BY <1>5, <1>6, <2>1, <2>2
  <2>3. CASE r \in 1 .. n
    BY <1>5, <1>6, <1>10, <2>1, <2>3
  <2> QED BY <1>7, <2>2, <2>3
<1>11. ASSUME NEW q \in 1 .. (n + 1)
       PROVE  t[q] = MadeWord(K[q]) /\ RowOf(t[q]) = Row(K[q])
  <2>1. CASE q = n + 1
    BY <1>4, <1>6, <2>1
  <2>2. CASE q \in 1 .. n
    BY <1>4, <1>5, <1>6, <2>2
  <2> QED BY <1>7, <2>1, <2>2
<1>12. PICK T : T = S \cup {x}
  OBVIOUS
<1>13. /\ K \in [1 .. Len(t) -> T]
       /\ \A y \in T : \E q \in 1 .. Len(t) : K[q] = y
  BY <1>4, <1>8, <1>9, <1>12
<1>14. /\ \A q, r \in 1 .. Len(t) : q < r => Precedes(K[q], K[r])
       /\ \A q \in 1 .. Len(t) : t[q] = MadeWord(K[q]) /\ RowOf(t[q]) = Row(K[q])
  BY <1>4, <1>10, <1>11
<1>15. elf' = elf /\ ninty_relocs' = t
  BY <1>3
<1>16. TableHolds(T)'
  BY ONLY <1>13, <1>14, <1>15, NamesNext
<1> QED BY <1>12, <1>16

(* The last entry is that at the end of the table. *)
LEMMA LastNamed ==
    ASSUME WellFormed(elf), ninty_relocs \in Seq(Nat \ {0}), NEW S, S \subseteq AllEntries,
           NEW L, Names(L, S), NEW x \in S, \A y \in S : y = x \/ Precedes(y, x)
    PROVE  Len(ninty_relocs) \in 1 .. Len(ninty_relocs) /\ L[Len(ninty_relocs)] = x
<1> DEFINE n == Len(ninty_relocs)
<1>1. n \in Nat
  OBVIOUS
<1>2. PICK q \in 1 .. n : L[q] = x
  BY DEF Names
<1>3. n \in 1 .. n
  BY <1>1, <1>2
<1>4. CASE q = n
  BY <1>2, <1>3, <1>4
<1>5. CASE q < n
  <2>1. Precedes(x, L[n]) /\ L[n] \in S
    BY <1>2, <1>3, <1>5 DEF Names
  <2>2. L[n] = x \/ Precedes(L[n], x)
    BY <2>1
  <2> HIDE DEF n
  <2>3. L[n] \in AllEntries /\ x \in AllEntries
    BY <2>1
  <2> QED BY <2>1, <2>2, <2>3, PrecedesOrder
<1> QED BY <1>1, <1>4, <1>5

LEMMA TableShrinks ==
    ASSUME elf' = elf, WellFormed(elf), ninty_relocs \in Seq(Nat \ {0}),
           NEW S, S \subseteq AllEntries, TableHolds(S),
           NEW x \in S, \A y \in S : y = x \/ Precedes(y, x),
           ninty_relocs' = Deleted(ninty_relocs, Len(ninty_relocs))
    PROVE  TableHolds(S \ {x})'
<1> DEFINE n == Len(ninty_relocs)
<1>1. PICK L : Names(L, S)
  BY DEF TableHolds
<1>2. n \in 1 .. n /\ L[n] = x
  BY <1>1, LastNamed
<1>3. PICK K : K = [q \in 1 .. (n - 1) |-> L[q]]
  OBVIOUS
<1>4. PICK t : t = ninty_relocs'
  OBVIOUS
<1>5. /\ L \in [1 .. n -> S]
      /\ \A q, r \in 1 .. n : q < r => Precedes(L[q], L[r])
      /\ \A y \in S : \E q \in 1 .. n : L[q] = y
      /\ \A q \in 1 .. n : ninty_relocs[q] = MadeWord(L[q]) /\ RowOf(ninty_relocs[q]) = Row(L[q])
  BY <1>1 DEF Names
<1>6. n \in Nat /\ n - 1 \in Nat
  BY <1>2
<1>7. t = [q \in 1 .. (n - 1) |-> IF q < n THEN ninty_relocs[q] ELSE ninty_relocs[q + 1]]
  BY <1>4 DEF Deleted
<1> HIDE DEF n
<1>8. Len(t) = n - 1
  BY <1>6, <1>7
<1>9. \A q \in 1 .. (n - 1) : q \in 1 .. n /\ q < n /\ t[q] = ninty_relocs[q] /\ K[q] = L[q]
  BY <1>3, <1>6, <1>7
<1>10. \A q \in 1 .. n : q \in 1 .. (n - 1) \/ q = n
  BY <1>6
<1>11. \A q \in 1 .. (n - 1) : L[q] \in S /\ L[q] # x
  <2> SUFFICES ASSUME NEW q \in 1 .. (n - 1) PROVE L[q] \in S /\ L[q] # x
    OBVIOUS
  <2>1. L[q] \in S /\ Precedes(L[q], x)
    BY <1>2, <1>5, <1>9
  <2> QED BY <2>1, PrecedesOrder
<1>12. K \in [1 .. (n - 1) -> S \ {x}]
  BY <1>3, <1>11
<1>13. \A y \in S \ {x} : \E q \in 1 .. (n - 1) : K[q] = y
  BY <1>2, <1>5, <1>9, <1>10
<1>14. \A q, r \in 1 .. (n - 1) : q < r => Precedes(K[q], K[r])
  BY <1>5, <1>9
<1>15. \A q \in 1 .. (n - 1) : t[q] = MadeWord(K[q]) /\ RowOf(t[q]) = Row(K[q])
  BY <1>5, <1>9
<1> QED BY <1>4, <1>8, <1>12, <1>13, <1>14, <1>15, NamesNext

-----------------------------------------------------------------------------
(* What the table holds, step by step. *)
LEMMA KeptKnown == AllKept \subseteq AllEntries
  BY DEF AllKept, AllEntries, KeptEntries

LEMMA HeldEntries ==
    ASSUME IInv, ListKnown, Ordered
    PROVE  Held \subseteq AllEntries
<1>1. ASSUME NEW x \in HeldHere PROVE x \in AllEntries
  <2>1. pc = "reloc_do"
    BY <1>1 DEF HeldHere
  <2>2. PICK q \in 1 .. (i - 1) : x = <<scn, rel_list[q]>>
    BY <1>1, <2>1 DEF HeldHere
  <2>3. q \in 1 .. nreloc /\ scn \in RelocSections
    BY <2>1, Listed
  <2>4. rel_list[q] \in EntriesOf(scn)
    BY <2>1, <2>3, Listed
  <2> QED BY <2>2, <2>3, <2>4 DEF AllEntries
<1> QED BY <1>1, KeptKnown DEF Held

LEMMA StartHeld == ASSUME IInv, Layout PROVE Held' = {} /\ TableHolds({})'
<1>1. /\ pc = "layout" /\ pc' = "reloc_scan" /\ scn' = 0 /\ elf' = elf
      /\ ninty_relocs' = ninty_relocs
  BY DEF Layout, Goto, inputVars
<1>2. \A x \in AllKept : x[1] \in Nat /\ x[1] >= 1
  BY KeptKnown, EntryNats DEF IInv, TypeOK, RelocSections, SectionIndex
<1>3. AllKept' = AllKept
  BY <1>1, SameKept
<1>4. \A x \in AllKept : ~Behind(x[1])'
  BY <1>1, <1>2 DEF Behind
<1>5. Held' = {}
  BY <1>1, <1>3, <1>4 DEF Held, HeldHere
<1>6. ninty_relocs = <<>>
  BY <1>1 DEF IInv, Control, BeforeTable
<1>7. TableHolds({})
  BY <1>6, TableEmpty
<1> QED BY <1>1, <1>5, <1>7, TableSame

LEMMA FillHeld ==
    ASSUME IInv, ListKnown, RelocScan \/ RelocSort
    PROVE  Held' = Held
<1>1. pc \in {"reloc_scan", "reloc_sort"} /\ elf' = elf
  BY DEF RelocScan, RelocSort, RelocFrame, inputVars, ScanSkips, ScanFinds, SortInserts, SortEnds
<1>2. pc' = "reloc_do" => i' = 1
  BY DEF RelocScan, RelocSort, ScanSkips, ScanFinds, SortInserts, SortEnds, Goto
<1>3. HeldHere = {} /\ HeldHere' = {}
  BY <1>1, <1>2 DEF HeldHere
<1>4. AllKept' = AllKept
  BY <1>1, SameKept
<1>5. \A x \in AllKept : x[1] \in RelocSections
  BY KeptKnown, EntryNats DEF IInv, TypeOK
<1>6. \A x \in AllKept : Behind(x[1])' <=> Behind(x[1])
  <2> SUFFICES ASSUME NEW x \in AllKept PROVE Behind(x[1])' <=> Behind(x[1])
    OBVIOUS
  <2>1. \A k \in RelocSections : Behind(k)' <=> Behind(k)
    BY SameFront
  <2> QED BY <1>5, <2>1
<1> QED BY <1>3, <1>4, <1>6 DEF Held

(* Whether a HI16 of the list is kept, by the entry after it. *)
LEMMA HiKept ==
    ASSUME IInv, ListKnown, Ordered, PairsAdjacent, pc = "reloc_do",
           NEW q \in 1 .. nreloc, rel_list[q].type = R_MIPS_HI16
    PROVE  rel_list[q] \in KeptEntries(scn) <=>
             ~ (/\ q + 1 \in 1 .. nreloc
                /\ rel_list[q + 1] \in LosOf(scn, rel_list[q])
                /\ ~Moves(scn, rel_list[q + 1]))
<1> DEFINE h == rel_list[q]
           g == rel_list[q + 1]
<1>1. h \in EntriesOf(scn)
  BY Listed
<1>2. \A l \in LosOf(scn, h) : q + 1 \in 1 .. nreloc /\ l = g
  BY NextHalf
<1>3. h \in KeptEntries(scn) <=> LosOf(scn, h) = {} \/ \E l \in LosOf(scn, h) : Moves(scn, l)
  BY <1>1 DEF KeptEntries
<1> HIDE DEF h, g
<1>4. CASE LosOf(scn, h) = {}
  BY <1>3, <1>4 DEF h, g
<1>5. CASE LosOf(scn, h) # {}
  <2>1. q + 1 \in 1 .. nreloc /\ g \in LosOf(scn, h)
    BY <1>2, <1>5
  <2>2. (\E l \in LosOf(scn, h) : Moves(scn, l)) <=> Moves(scn, g)
    BY <1>2, <2>1
  <2> QED BY <1>3, <1>5, <2>1, <2>2 DEF h, g
<1> QED BY <1>4, <1>5

LEMMA NextHeld ==
    ASSUME IInv, ListKnown, Ordered, PairsAdjacent, RelocNext
    PROVE  Held' = Held
<1>1. pc = "reloc_do" /\ pc' = "reloc_scan" /\ i > nreloc /\ UNCHANGED <<elf, scn>>
  BY DEF RelocNext, RelocFrame, inputVars, loopVars, ListEnds, Goto
<1>2. scn \in RelocSections /\ i \in Nat /\ nreloc \in Nat /\ i = nreloc + 1 /\ scn \in Nat
  BY <1>1, Listed
<1>3. \A q \in 1 .. nreloc : Standing(q) <=> rel_list[q] \in KeptEntries(scn)
  <2> SUFFICES ASSUME NEW q \in 1 .. nreloc, q = i - 1, rel_list[q].type = R_MIPS_HI16
               PROVE  rel_list[q] \in KeptEntries(scn)
    BY DEF Standing
  <2>1. ~(q + 1 \in 1 .. nreloc)
    BY <1>2
  <2> QED BY <1>1, <2>1, HiKept
<1>4. \A e \in KeptEntries(scn) : \E q \in 1 .. nreloc : rel_list[q] = e
  BY <1>1, Listed DEF KeptEntries
<1>5. HeldHere = {<<scn, e>> : e \in KeptEntries(scn)}
  BY <1>1, <1>2, <1>3, <1>4 DEF HeldHere
<1>6. HeldHere' = {} /\ AllKept' = AllKept
  BY <1>1, SameKept DEF HeldHere
<1>7. \A x \in AllKept : x[1] \in Nat /\ (Behind(x[1]) <=> x[1] < scn)
                         /\ (Behind(x[1])' <=> x[1] < scn \/ x[1] = scn)
  BY <1>1, KeptKnown, EntryNats DEF IInv, TypeOK, Behind
<1>8. {x \in AllKept : x[1] = scn} = {<<scn, e>> : e \in KeptEntries(scn)}
  BY <1>2 DEF AllKept
<1> QED BY <1>5, <1>6, <1>7, <1>8 DEF Held

(* What the entry treated does to the entries held: it joins them, leaves them,
   or takes the HI16 before it away. *)
LEMMA EntryHeld ==
    ASSUME IInv, Linked, SectionsMet(Len(elf.sections)), ListKnown, Ordered, AsInFile,
           Pairing, PairsAdjacent, RelocEntry, pc' = "reloc_do",
           NEW v, v = novl_reloc_do(rel_list[i].offset - elf.ep, rel_list[i].type, FALSE)
    PROVE  LET x == <<scn, rel_list[i]>>
               y == <<scn, rel_list[i - 1]>>
           IN  /\ v.ret = "success" => Held' = Held \cup {x}
               /\ v.ret # "success" /\ rel_list[i].type # R_MIPS_LO16 => Held' = Held
               /\ v.ret # "success" /\ rel_list[i].type = R_MIPS_LO16 =>
                     Held' = Held \ {y} /\ y \in Held
<1> DEFINE rel  == rel_list[i]
           prev == rel_list[i - 1]
           x    == <<scn, rel>>
           y    == <<scn, prev>>
           IsKept(q)  == rel_list[q] \in KeptEntries(scn)
           Stays(q) == IsKept(q) \/ (q = i /\ rel_list[q].type = R_MIPS_HI16)
           Before == {z \in AllKept : Behind(z[1])}
           Row1(q)  == <<scn, rel_list[q]>>
<1>1. /\ pc = "reloc_do" /\ i <= nreloc /\ i' = i + 1 /\ v.ret # "error"
      /\ UNCHANGED <<elf, scn, rel_list>>
  BY DEF RelocEntry, RelocFrame, inputVars, Exit, Goto
<1>2. /\ Fine(scn, rel)
      /\ v.ret = IF rel.type = R_MIPS_HI16 \/ Moves(scn, rel) THEN "success" ELSE "fail"
      /\ rel.type = R_MIPS_LO16 => hilopair[LoReg(OriginalWord(rel.offset))].status # "invalid"
  BY <1>1, CallKnown
<1>3. /\ i \in 1 .. nreloc /\ i \in Nat /\ nreloc \in Nat /\ rel \in EntriesOf(scn)
      /\ scn \in RelocSections /\ i' - 1 = i
  BY <1>1, Listed
<1>4. /\ \A q \in 1 .. (i - 1) : q \in 1 .. nreloc /\ q \in 1 .. i /\ q # i
      /\ \A q \in 1 .. i : q \in 1 .. (i - 1) \/ q = i
      /\ i > 1 => i - 1 \in 1 .. (i - 1) /\ i - 1 \in 1 .. nreloc /\ (i - 1) + 1 = i
      /\ \A q \in 1 .. (i - 1) : q = i - 1 => i > 1
  BY <1>3
<1>5. AllKept' = AllKept /\ KeptEntries(scn)' = KeptEntries(scn)
  <2>1. \A k : KeptEntries(k)' = KeptEntries(k)
    BY <1>1, SameKept
  <2>2. PICK k : k = scn
    OBVIOUS
  <2>3. KeptEntries(k)' = KeptEntries(k)
    BY <2>1
  <2> QED BY <1>1, <2>2, <2>3, SameKept
<1>6. Before' = Before
  <2>1. \A z \in AllKept : z[1] \in RelocSections
    BY KeptKnown, EntryNats DEF IInv, TypeOK
  <2>2. \A k \in RelocSections : Behind(k)' <=> Behind(k)
    BY <1>1, SameFront
  <2> QED BY <1>5, <2>1, <2>2
<1>7. HeldHere = {Row1(q) : q \in {p \in 1 .. (i - 1) : Standing(p)}}
  BY <1>1 DEF HeldHere
<1>8. HeldHere' = {Row1(q) : q \in {p \in 1 .. i : Stays(p)}}
  <2>1. \A q : Standing(q)' <=> Stays(q)
    BY <1>1, <1>3, <1>5 DEF Standing
  <2> QED BY <1>1, <1>3, <2>1 DEF HeldHere
<1>9. Held = Before \cup HeldHere /\ Held' = Before \cup HeldHere'
  BY <1>6 DEF Held
<1>10. rel.type # R_MIPS_HI16 => (Stays(i) <=> Moves(scn, rel))
  BY <1>3 DEF KeptEntries
<1>11. rel.type = R_MIPS_HI16 => Stays(i)
  OBVIOUS
<1>12. \A q \in 1 .. (i - 1) : (Stays(q) <=> IsKept(q)) /\ (Standing(q) <=>
                                  IsKept(q) \/ (q = i - 1 /\ prev.type = R_MIPS_HI16))
  BY <1>4 DEF Standing
<1>13. i > 1 /\ prev.type = R_MIPS_HI16 =>
          (IsKept(i - 1) <=> ~(rel \in LosOf(scn, prev) /\ ~Moves(scn, rel)))
  <2> SUFFICES ASSUME i > 1, prev.type = R_MIPS_HI16
               PROVE  IsKept(i - 1) <=> ~(rel \in LosOf(scn, prev) /\ ~Moves(scn, rel))
    OBVIOUS
  <2>1. PICK m : m = i - 1
    OBVIOUS
  <2>2. m \in 1 .. nreloc /\ m + 1 = i
    BY <1>4, <2>1
  <2>3. rel_list[m] \in KeptEntries(scn) <=>
             ~ (/\ m + 1 \in 1 .. nreloc
                /\ rel_list[m + 1] \in LosOf(scn, rel_list[m])
                /\ ~Moves(scn, rel_list[m + 1]))
    BY <1>1, <2>1, <2>2, HiKept
  <2> QED BY <1>3, <2>1, <2>2, <2>3
<1>14. ASSUME v.ret = "success" \/ rel.type # R_MIPS_LO16
       PROVE  \A q \in 1 .. (i - 1) : Standing(q) <=> Stays(q)
  <2>1. ~(rel \in LosOf(scn, prev) /\ ~Moves(scn, rel))
    <3>1. rel \in LosOf(scn, prev) => rel.type = R_MIPS_LO16
      BY DEF LosOf, Los
    <3>2. rel.type = R_MIPS_LO16 => rel.type # R_MIPS_HI16
      BY DEF R_MIPS_LO16, R_MIPS_HI16
    <3> HIDE DEF rel
    <3> QED BY <1>2, <1>14, <3>1, <3>2
  <2>2. i > 1 /\ prev.type = R_MIPS_HI16 => IsKept(i - 1)
    BY <1>13, <2>1
  <2> HIDE DEF Kept, Stays
  <2> QED BY <1>4, <1>12, <2>2
<1> HIDE DEF Before
<1>15. ASSUME v.ret = "success" PROVE Held' = Held \cup {x}
  <2>1. Stays(i)
    BY <1>2, <1>10, <1>11, <1>15
  <2>2. \A q \in 1 .. (i - 1) : Standing(q) <=> Stays(q)
    BY <1>14, <1>15
  <2>3. i \in 1 .. i
    BY <1>3
  <2> HIDE DEF Stays
  <2>4. HeldHere' = HeldHere \cup {x}
    BY <1>4, <1>7, <1>8, <2>1, <2>2, <2>3
  <2> QED BY <1>9, <2>4
<1>16. ASSUME v.ret # "success", rel.type # R_MIPS_LO16 PROVE Held' = Held
  <2>1. ~Stays(i)
    BY <1>2, <1>10, <1>16
  <2>2. \A q \in 1 .. (i - 1) : Standing(q) <=> Stays(q)
    BY <1>14, <1>16
  <2> HIDE DEF Stays
  <2>3. HeldHere' = HeldHere
    BY <1>4, <1>7, <1>8, <2>1, <2>2
  <2> QED BY <1>9, <2>3
<1>17. ASSUME v.ret # "success", rel.type = R_MIPS_LO16 PROVE Held' = Held \ {y} /\ y \in Held
  <2>1. ~Stays(i)
    BY <1>2, <1>10, <1>17 DEF R_MIPS_HI16, R_MIPS_LO16
  <2>2. i > 1 /\ prev \in His(scn) /\ IsHiOf(scn, prev, rel)
    BY <1>1, <1>2, <1>17, PairBefore DEF Linked, Placed
  <2>3. prev.type = R_MIPS_HI16 /\ rel \in LosOf(scn, prev)
    BY <1>3, <1>17, <2>2 DEF His, LosOf, Los
  <2>4. ~Moves(scn, rel)
    BY <1>2, <1>17
  <2>5. ~IsKept(i - 1)
    BY <1>13, <2>2, <2>3, <2>4
  <2>6. \A q, r \in 1 .. nreloc : rel_list[q] = rel_list[r] => q = r
    BY <1>1, Listed
  <2>7. \A q \in 1 .. (i - 1) : Stays(q) <=> Standing(q) /\ q # i - 1
    <3> HIDE DEF Kept, Stays
    <3> QED BY <1>12, <2>5
  <2>8. i - 1 \in 1 .. (i - 1) /\ Standing(i - 1)
    BY <1>4, <2>2, <2>3 DEF Standing
  <2>9. y \in HeldHere
    BY <1>7, <2>8
  <2>10. \A z \in Before : z # y
    <3>1. \A z \in Before : z[1] # scn
      <4>1. \A z \in AllKept : z[1] \in Nat
        BY KeptKnown, EntryNats DEF IInv, TypeOK
      <4>2. scn \in Nat
        BY <1>1, Listed
      <4> QED BY <1>1, <4>1, <4>2 DEF Before, Behind
    <3> QED BY <3>1
  <2> HIDE DEF Stays
  <2>11. HeldHere' = HeldHere \ {y}
    <3>1. \A q \in 1 .. (i - 1) : Row1(q) = y => q = i - 1
      BY <1>4, <2>2, <2>6
    <3>2. \A q \in {p \in 1 .. i : Stays(p)} : q \in 1 .. (i - 1) /\ Standing(q) /\ q # i - 1
      BY <1>4, <2>1, <2>7
    <3>3. \A q \in {p \in 1 .. (i - 1) : Standing(p)} : q # i - 1 => q \in 1 .. i /\ Stays(q)
      BY <1>4, <2>7
    <3> HIDE DEF y, Row1
    <3>4. Row1(i - 1) = y
      BY DEF Row1, y
    <3> QED BY <1>7, <1>8, <3>1, <3>2, <3>3, <3>4
  <2> HIDE DEF y
  <2> QED BY <1>9, <2>9, <2>10, <2>11
<1> QED BY <1>15, <1>16, <1>17

(* What is held comes before the entry whose turn it is; of it, the entry
   treated last comes last. *)
LEMMA HeldBefore ==
    ASSUME IInv, ListKnown, Ordered, pc = "reloc_do", NEW q \in 1 .. nreloc, q >= i - 1
    PROVE  \A z \in Held : z = <<scn, rel_list[q]>> \/ Precedes(z, <<scn, rel_list[q]>>)
<1> DEFINE x == <<scn, rel_list[q]>>
<1>1. /\ scn \in Nat /\ i \in Nat /\ nreloc \in Nat /\ i <= nreloc + 1
      /\ \A p \in 1 .. nreloc : p < q => rel_list[p].offset < rel_list[q].offset
  BY Listed
<1>2. ASSUME NEW z \in AllKept, Behind(z[1]) PROVE Precedes(z, x)
  BY <1>2 DEF Behind, Precedes
<1>3. ASSUME NEW z \in HeldHere PROVE z = x \/ Precedes(z, x)
  <2>1. PICK p \in 1 .. (i - 1) : z = <<scn, rel_list[p]>>
    BY <1>3 DEF HeldHere
  <2>2. p \in 1 .. nreloc /\ (p = q \/ p < q)
    BY <1>1
  <2>3. CASE p = q
    BY <2>1, <2>3
  <2>4. CASE p < q
    BY <1>1, <2>1, <2>2, <2>4 DEF Precedes
  <2> QED BY <2>2, <2>3, <2>4
<1> QED BY <1>2, <1>3 DEF Held

LEMMA EntryTable ==
    ASSUME IInv, Linked, SectionsMet(Len(elf.sections)), ListKnown, Ordered, AsInFile,
           Pairing, PairsAdjacent, TableHolds(Held), RelocEntry, pc' = "reloc_do"
    PROVE  TableHolds(Held)'
<1> DEFINE rel == rel_list[i]
<1>1. /\ pc = "reloc_do" /\ i <= nreloc /\ elf' = elf
      /\ novl_reloc_do(rel.offset - elf.ep, rel.type, FALSE).ret # "error"
  BY DEF RelocEntry, RelocFrame, inputVars, Exit
<1>2. PICK v : v = novl_reloc_do(rel.offset - elf.ep, rel.type, FALSE)
  OBVIOUS
<1>3. PICK S : S = Held
  OBVIOUS
<1>4. PICK x : x = <<scn, rel>>
  OBVIOUS
<1>5. PICK y : y = <<scn, rel_list[i - 1]>>
  OBVIOUS
<1>6. PICK T : T = Held'
  OBVIOUS
<1>7. /\ v.ret = "success" => T = S \cup {x}
      /\ v.ret # "success" /\ rel.type # R_MIPS_LO16 => T = S
      /\ v.ret # "success" /\ rel.type = R_MIPS_LO16 => T = S \ {y} /\ y \in S
  BY <1>2, <1>3, <1>4, <1>5, <1>6, EntryHeld
<1>8. /\ v.ret # "error" /\ Fine(scn, rel)
      /\ v.ret = IF rel.type = R_MIPS_HI16 \/ Moves(scn, rel) THEN "success" ELSE "fail"
  BY <1>1, <1>2, CallKnown
<1>9. /\ i \in 1 .. nreloc /\ i \in Nat /\ nreloc \in Nat /\ scn \in RelocSections
      /\ scn \in Nat /\ rel \in EntriesOf(scn) /\ rel.offset \in Nat
      /\ \A p, r \in 1 .. nreloc : p < r => rel_list[p].offset < rel_list[r].offset
  BY <1>1, Listed
<1>10. /\ WellFormed(elf) /\ ninty_relocs \in Seq(Nat \ {0})
       /\ last # 0 => last = Len(ninty_relocs)
  BY <1>1 DEF IInv, TypeOK, PassTypeOK, OpenPairsInTable
<1>11. S \subseteq AllEntries /\ TableHolds(S)
  BY <1>3, HeldEntries
<1>12. PICK w : w = TableWord(rel)
  OBVIOUS
<1>13. w = MadeWord(x) /\ RowOf(w) = Row(x)
  <2>1. PICK k : k = scn
    OBVIOUS
  <2>2. PICK e : e = rel
    OBVIOUS
  <2>3. /\ elf_starts[RelTarget(elf.sections[k].name)] = AddrOf(RelTarget(elf.sections[k].name))
        /\ RowOf(MadeWord(<<k, e>>)) = Row(<<k, e>>)
    BY <1>8, <1>9, <1>10, <2>1, <2>2, WordFits DEF Fine, Linked
  <2>4. w = MadeWord(<<k, e>>)
    BY <1>12, <2>1, <2>2, <2>3 DEF TableWord, MadeWord, Current
  <2> QED BY <1>4, <2>1, <2>2, <2>3, <2>4
<1>14. CASE v.ret = "success"
  <2>1. ninty_relocs' = Append(ninty_relocs, w)
    BY <1>2, <1>12, <1>14 DEF RelocEntry, AppendWord
  <2>2. \A z \in S : Precedes(z, x)
    <3>1. \A z \in S : z = x \/ Precedes(z, x)
      BY <1>1, <1>3, <1>4, <1>9, HeldBefore
    <3>2. x \notin S
      <4>1. x \notin HeldHere
        <5> SUFFICES ASSUME NEW p \in 1 .. (i - 1), x = <<scn, rel_list[p]>> PROVE FALSE
          BY <1>1 DEF HeldHere
        <5>1. p \in 1 .. nreloc /\ p < i /\ rel_list[p] = rel
          BY <1>4, <1>9
        <5>2. rel_list[p].offset < rel.offset
          BY <1>9, <5>1
        <5> QED BY <1>9, <5>1, <5>2
      <4>2. ~Behind(x[1])
        BY <1>1, <1>4, <1>9 DEF Behind
      <4> QED BY <1>3, <4>1, <4>2 DEF Held
    <3> QED BY <3>1, <3>2
  <2>3. TableHolds(S \cup {x})'
    BY <1>1, <1>10, <1>11, <1>13, <2>1, <2>2, TableGrows
  <2>4. TableHolds(T)'
    BY <1>7, <1>14, <2>3
  <2> QED BY <1>6, <2>4 DEF TableHolds, Names
<1>15. CASE v.ret # "success" /\ rel.type # R_MIPS_LO16
  <2>1. ninty_relocs' = ninty_relocs
    BY <1>2, <1>8, <1>15 DEF RelocEntry, DropsHi, tableVars
  <2>2. TableHolds(S)'
    BY <1>1, <1>11, <2>1, TableSame
  <2>3. TableHolds(T)'
    BY <1>7, <1>15, <2>2
  <2> QED BY <1>6, <2>3 DEF TableHolds, Names
<1>16. CASE v.ret # "success" /\ rel.type = R_MIPS_LO16
  <2>1. last # 0 /\ ninty_relocs' = Deleted(ninty_relocs, last)
    BY <1>1, <1>2, <1>8, <1>16 DEF RelocEntry, DropsHi, DeleteLast, Goto
  <2>2. i > 1
    <3>1. i = 1 => HeldHere = {}
      BY <1>1 DEF HeldHere
    <3>2. y \in S /\ y[1] = scn
      BY <1>5, <1>7, <1>16
    <3>3. ~Behind(scn)
      BY <1>1, <1>9 DEF Behind
    <3> QED BY <1>3, <1>9, <3>1, <3>2, <3>3 DEF Held
  <2>3. \A z \in S : z = y \/ Precedes(z, y)
    <3>1. PICK q : q = i - 1
      OBVIOUS
    <3>2. q \in 1 .. nreloc /\ q >= i - 1
      BY <1>9, <2>2, <3>1
    <3> QED BY <1>1, <1>3, <1>5, <3>1, <3>2, HeldBefore
  <2>4. TableHolds(S \ {y})'
    BY <1>1, <1>7, <1>10, <1>11, <1>16, <2>1, <2>3, TableShrinks
  <2>5. TableHolds(T)'
    BY <1>7, <1>16, <2>4
  <2> QED BY <1>6, <2>5 DEF TableHolds, Names
<1> QED BY <1>14, <1>15, <1>16

(* At the end of the second pass the table holds what is kept, and every LO16
   has had its HI16. *)
LEMMA EndTable ==
    ASSUME IInv, Pairing, TableHolds(Held), RelocEnd
    PROVE  TableHolds(AllKept)' /\ AllPaired'
<1>1. pc = "reloc_scan" /\ scn = Len(elf.sections) /\ UNCHANGED <<elf, ninty_relocs>>
  BY DEF RelocEnd, RelocFrame, tableVars, inputVars
<1>2. \A k \in RelocSections : Behind(k)
  BY <1>1 DEF IInv, TypeOK, PassTypeOK, RelocSections, SectionIndex, Behind
<1>3. \A x \in AllKept : x[1] \in RelocSections
  BY KeptKnown, EntryNats DEF IInv, TypeOK
<1>4. HeldHere = {}
  BY <1>1 DEF HeldHere
<1>5. Held = AllKept
  BY <1>2, <1>3, <1>4 DEF Held
<1>6. AllPaired
  BY <1>1, <1>2 DEF Pairing, SecondPass, AllPaired, Fine, Paired, Los
<1>7. AllPaired'
  BY <1>1, <1>6, SamePairs
<1>8. PICK S : S = AllKept
  OBVIOUS
<1>9. TableHolds(S)'
  BY <1>1, <1>5, <1>8, TableSame
<1>10. AllKept' = S
  BY <1>1, <1>8, SameKept
<1> QED BY <1>7, <1>9, <1>10 DEF TableHolds, Names

LEMMA PassTabled ==
    ASSUME IInv, IInv', FileInv', Linked, SectionsMet(Len(elf.sections)), ListKnown, Ordered,
           AsInFile, Pairing, PairsAdjacent, Tabled,
           RelocScan \/ RelocSort \/ RelocEntry \/ RelocNext \/ RelocEnd
    PROVE  Tabled'
<1>1. pc \in SecondPass /\ elf' = elf
  BY DEF RelocScan, RelocSort, RelocEntry, RelocNext, RelocEnd, RelocFrame,
         ScanSkips, ScanFinds, SortInserts, SortEnds, ListEnds, SecondPass, inputVars
<1>2. TableHolds(Held)
  BY <1>1 DEF Tabled
<1>3. pc' # "exit" => status' # "ok"
  BY DEF FileInv, NothingWritten
<1>4. CASE RelocScan \/ RelocSort \/ RelocNext
  <2>1. pc' \in SecondPass /\ ninty_relocs' = ninty_relocs
    BY <1>4 DEF RelocScan, RelocSort, RelocNext, ScanSkips, ScanFinds, SortInserts, SortEnds,
       ListEnds, Goto, SecondPass, tableVars
  <2>2. PICK S : S = Held
    OBVIOUS
  <2>3. Held' = S
    BY <1>4, <2>2, FillHeld, NextHeld
  <2>4. TableHolds(S)'
    BY <1>1, <1>2, <2>1, <2>2, TableSame
  <2>5. TableHolds(Held)'
    BY <2>3, <2>4 DEF TableHolds, Names
  <2> QED BY <1>3, <2>1, <2>5 DEF Tabled, SecondPass, WritePlaces
<1>5. CASE RelocEntry
  <2>1. pc' # "crashed" /\ pc = "reloc_do" /\ pc' \in {"reloc_do", "exit", "crashed"}
        /\ (pc' = "exit" => status' = "err_reloc")
    BY <1>5 DEF RelocEntry, IInv, NoNullDereference, Exit, Goto
  <2>2. CASE pc' = "reloc_do"
    <3>1. TableHolds(Held)'
      BY <1>2, <1>5, <2>2, EntryTable
    <3> QED BY <1>3, <2>2, <3>1 DEF Tabled, WritePlaces
  <2>3. CASE pc' = "exit"
    BY <2>1, <2>3 DEF Tabled, SecondPass, WritePlaces
  <2> QED BY <2>1, <2>2, <2>3
<1>6. CASE RelocEnd
  <2>1. pc' = "check_count"
    BY <1>6 DEF RelocEnd, Goto
  <2> QED BY <1>2, <1>6, <2>1, EndTable DEF Tabled, SecondPass
<1> QED BY <1>4, <1>5, <1>6

LEMMA WriteTabled ==
    ASSUME FileInv', Tabled,
           \/ CheckCount \/ WriteHeader \/ WriteRelocs \/ WriteFooter \/ CheckBss
           \/ WriteSection \/ CheckHeader \/ Close
    PROVE  Tabled'
<1>1. /\ pc \in WritePlaces /\ pc' \in WritePlaces \cup {"exit", "outside"}
      /\ UNCHANGED <<elf, ninty_relocs>>
  BY DEF CheckCount, WriteHeader, WriteRelocs, WriteFooter, CheckBss, WriteSection,
         CheckHeader, Close, WriteFrame, RemoveAndExit, Exit, Goto, WritePlaces,
         inputVars, tableVars
<1>2. TableHolds(AllKept) /\ AllPaired
  BY <1>1 DEF Tabled
<1>3. PICK S : S = AllKept
  OBVIOUS
<1>4. AllKept' = S /\ AllPaired'
  BY <1>1, <1>2, <1>3, SameKept, SamePairs
<1>5. TableHolds(S)'
  BY <1>1, <1>2, <1>3, TableSame
<1>6. TableHolds(AllKept)'
  BY <1>4, <1>5 DEF TableHolds, Names
<1> QED BY <1>1, <1>4, <1>6 DEF Tabled, SecondPass, WritePlaces

LEMMA StutterTabled == ASSUME Tabled, UNCHANGED vars PROVE Tabled'
<1>1. UNCHANGED <<elf, ninty_relocs, pc, status, scn, i, rel_list>>
  BY DEF vars, inputVars, tableVars, loopVars
<1>2. AllKept' = AllKept /\ (AllPaired' <=> AllPaired) /\ KeptEntries(scn)' = KeptEntries(scn)
  <2>1. PICK k : k = scn
    OBVIOUS
  <2>2. KeptEntries(k)' = KeptEntries(k)
    BY <1>1, SameKept
  <2> QED BY <1>1, <2>1, <2>2, SameKept, SamePairs
<1>3. Held' = Held
  <2>1. \A q : Standing(q)' <=> Standing(q)
    BY <1>1, <1>2 DEF Standing
  <2>2. HeldHere' = HeldHere
    BY <1>1, <2>1 DEF HeldHere
  <2>3. \A k : Behind(k)' <=> Behind(k)
    BY <1>1 DEF Behind
  <2> QED BY <1>2, <2>2, <2>3 DEF Held
<1>4. PICK S : S = AllKept
  OBVIOUS
<1>5. PICK T : T = Held
  OBVIOUS
<1>6. (TableHolds(S) => TableHolds(S)') /\ (TableHolds(T) => TableHolds(T)')
  BY <1>1, TableSame
<1>7. (TableHolds(AllKept) => TableHolds(AllKept)') /\ (TableHolds(Held) => TableHolds(Held)')
  BY <1>2, <1>3, <1>4, <1>5, <1>6 DEF TableHolds, Names
<1> QED BY <1>1, <1>2, <1>7 DEF Tabled

-----------------------------------------------------------------------------
(* A set whose elements are numbered from 1 to n has n elements. *)
LEMMA Counted ==
    ASSUME NEW n \in Nat, NEW S, NEW f \in [1 .. n -> S],
           \A q, r \in 1 .. n : q < r => f[q] # f[r],
           \A y \in S : \E q \in 1 .. n : f[q] = y
    PROVE  Cardinality(S) = n
<1>1. \A q, r \in 1 .. n : f[q] = f[r] => q = r
  <2> SUFFICES ASSUME NEW q \in 1 .. n, NEW r \in 1 .. n, f[q] = f[r] PROVE q = r
    OBVIOUS
  <2>1. ~(q < r) /\ ~(r < q)
    OBVIOUS
  <2> QED BY <2>1
<1>2. f \in Injection(1 .. n, S)
  BY <1>1 DEF Injection, IsInjective
<1>3. f \in Surjection(1 .. n, S)
  BY DEF Surjection
<1> QED BY <1>2, <1>3, FS_CountingElements DEF ExistsBijection, Bijection

(* The place of an entry in the table is its rank among those kept. *)
LEMMA TableListed ==
    ASSUME WellFormed(elf), ninty_relocs \in Seq(Nat \ {0}), TableHolds(AllKept)
    PROVE  ListsKept(Decoded(ninty_relocs))
<1> DEFINE n == Len(ninty_relocs)
<1>1. PICK L : Names(L, AllKept)
  BY DEF TableHolds
<1>2. /\ n \in Nat /\ L \in [1 .. n -> AllKept]
      /\ \A q, r \in 1 .. n : q < r => Precedes(L[q], L[r])
      /\ \A x \in AllKept : \E q \in 1 .. n : L[q] = x
      /\ \A q \in 1 .. n : RowOf(ninty_relocs[q]) = Row(L[q])
  BY <1>1 DEF Names
<1>3. Decoded(ninty_relocs) = [q \in 1 .. n |-> RowOf(ninty_relocs[q])]
  BY DEF Decoded, RowOf
<1> HIDE DEF n
<1>4. \A q \in 1 .. n : L[q] \in AllEntries
  BY <1>2, KeptKnown
<1>5. \A q, r \in 1 .. n : Precedes(L[q], L[r]) <=> q < r
  <2> SUFFICES ASSUME NEW q \in 1 .. n, NEW r \in 1 .. n, Precedes(L[q], L[r]), ~(q < r)
               PROVE FALSE
    BY <1>2
  <2>1. q = r \/ r < q
    BY <1>2
  <2>2. ~Precedes(L[r], L[q])
    BY <1>4, PrecedesOrder
  <2> QED BY <1>2, <2>1, <2>2
<1>6. \A q, r \in 1 .. n : q < r => L[q] # L[r]
  <2> SUFFICES ASSUME NEW q \in 1 .. n, NEW r \in 1 .. n, q < r, L[q] = L[r] PROVE FALSE
    OBVIOUS
  <2>1. Precedes(L[q], L[q])
    BY <1>2
  <2> QED BY <1>4, <2>1, PrecedesOrder
<1>7. PICK S : S = AllKept
  OBVIOUS
<1>8. PICK m : m = n
  OBVIOUS
<1>9. Cardinality(S) = m
  BY <1>2, <1>6, <1>7, <1>8, Counted
<1>10. ASSUME NEW q \in 1 .. n PROVE Place(L[q]) = q
  <2>1. PICK U : U = {y \in AllKept : Precedes(y, L[q])}
    OBVIOUS
  <2>2. PICK f : f = [r \in 1 .. (q - 1) |-> L[r]]
    OBVIOUS
  <2>3. q - 1 \in Nat /\ \A r \in 1 .. (q - 1) : r \in 1 .. n /\ r < q /\ f[r] = L[r]
    BY <1>2, <2>2
  <2>4. \A r \in 1 .. (q - 1) : f[r] \in U
    BY <1>2, <2>1, <2>3
  <2>5. f \in [1 .. (q - 1) -> U]
    BY <2>2, <2>4
  <2>6. \A y \in U : \E r \in 1 .. (q - 1) : f[r] = y
    <3> SUFFICES ASSUME NEW y \in U PROVE \E r \in 1 .. (q - 1) : f[r] = y
      OBVIOUS
    <3>1. PICK r \in 1 .. n : L[r] = y
      BY <1>2, <2>1
    <3>2. r < q
      BY <1>5, <2>1, <3>1
    <3>3. r \in 1 .. (q - 1)
      BY <3>2
    <3> QED BY <2>3, <3>1, <3>3
  <2>7. \A p, r \in 1 .. (q - 1) : p < r => f[p] # f[r]
    BY <1>6, <2>3
  <2>8. Cardinality(U) = q - 1
    BY <2>3, <2>5, <2>6, <2>7, Counted
  <2> QED BY <2>1, <2>8 DEF Place
<1>11. \A x \in AllKept : Decoded(ninty_relocs)[Place(x)] = Row(x)
  <2> SUFFICES ASSUME NEW x \in AllKept PROVE Decoded(ninty_relocs)[Place(x)] = Row(x)
    OBVIOUS
  <2>1. PICK q \in 1 .. n : L[q] = x
    BY <1>2
  <2>2. Place(x) = q
    BY <1>10, <2>1
  <2> QED BY <1>2, <1>3, <2>1, <2>2
<1>12. Len(Decoded(ninty_relocs)) = n
  BY <1>2, <1>3
<1> QED BY <1>7, <1>8, <1>9, <1>11, <1>12 DEF ListsKept

-----------------------------------------------------------------------------
LEMMA InitTable == Init => TableInv
<1> SUFFICES ASSUME Init PROVE TableInv
  OBVIOUS
<1>1. pc = "open" /\ status = "running"
  BY DEF Init
<1>2. SectionsKnown
  BY InitLoading
<1> QED BY <1>1, <1>2 DEF TableInv, AsInFile, Ordered, Pairing, Tabled, SecondPass, WritePlaces

LEMMA EarlyTable ==
    ASSUME IInv, FileInv', TableInv,
           \/ Open \/ CreateFails \/ Create \/ LoadSkip \/ LoadDuplicate \/ LoadSection
           \/ LoadEnd \/ CountScan \/ CountSort \/ CountEntry \/ CountNext \/ CountEnd
    PROVE  TableInv'
<1>1. /\ pc' \in {"create", "load", "count_scan", "count_sort", "count_do", "layout", "exit"}
      /\ elf' = elf
      /\ pc' = "exit" => status' \in {"err_input", "err_output", "err_multiple", "err_bounds", "err_reloc"}
  <2>1. CASE Open \/ CreateFails \/ Create
    BY <2>1 DEF Open, CreateFails, Create, Exit, Goto, inputVars
  <2>2. CASE LoadSkip \/ LoadDuplicate \/ LoadSection \/ LoadEnd
    BY <2>2 DEF LoadSkip, LoadDuplicate, LoadSection, LoadEnd, LoadFrame, Exit, Goto, inputVars
  <2>3. CASE CountScan \/ CountSort \/ CountNext \/ CountEnd
    BY <2>3 DEF CountScan, CountSort, CountNext, CountEnd, CountFrame, ScanSkips, ScanFinds,
       SortInserts, SortEnds, ListEnds, Exit, Goto, inputVars
  <2>4. CASE CountEntry
    BY <2>4 DEF CountEntry, inputVars
  <2> QED BY <2>1, <2>2, <2>3, <2>4
<1>2. SUFFICES ASSUME Linked', PairsAdjacent'
               PROVE  SectionsKnown' /\ AsInFile' /\ Ordered' /\ Pairing' /\ Tabled'
  BY DEF TableInv
<1>3. Linked /\ SectionsKnown
  BY <1>1, <1>2, SameLinked, SamePairs DEF TableInv
<1>4. SectionsKnown'
  BY <1>3, EarlyLoading, LoadSkipLoading, LoadSectionLoading, LoadEndLoading, PassLoading
<1>5. AsInFile' /\ Ordered' /\ Pairing'
  BY <1>1 DEF AsInFile, Ordered, Pairing, SecondPass
<1>6. Tabled'
  BY <1>1 DEF Tabled, SecondPass, WritePlaces, FileInv, NothingWritten
<1> QED BY <1>4, <1>5, <1>6

LEMMA PassTable ==
    ASSUME IInv, IInv', FileInv', PassInv, TableInv,
           Layout \/ RelocScan \/ RelocSort \/ RelocEntry \/ RelocNext \/ RelocEnd
    PROVE  TableInv'
<1>1. elf' = elf
  BY DEF Layout, RelocScan, RelocSort, RelocEntry, RelocNext, RelocEnd, RelocFrame, inputVars
<1>2. SUFFICES ASSUME Linked', PairsAdjacent'
               PROVE  SectionsKnown' /\ AsInFile' /\ Ordered' /\ Pairing' /\ Tabled'
  BY DEF TableInv
<1>3. /\ Linked /\ PairsAdjacent /\ SectionsKnown /\ AsInFile /\ Ordered /\ Pairing /\ Tabled
      /\ DistinctOffsets
  BY <1>1, <1>2, SameLinked, SamePairs DEF TableInv, Linked, Placed
<1>4. ListKnown
  BY <1>3 DEF PassInv
<1>5. SectionsKnown'
  BY <1>3, PassLoading
<1>6. CASE Layout
  <2>1. pc = "layout" /\ pc' = "reloc_scan"
    BY <1>6 DEF Layout, Goto
  <2>2. AsInFile' /\ Ordered' /\ Pairing'
    BY <1>3, <1>6, LayoutAsInFile, ScanOrdered, StartPairing
  <2>3. TableHolds(Held)'
    BY <1>6, StartHeld DEF TableHolds, Names
  <2>4. Tabled'
    BY <2>1, <2>3 DEF Tabled, WritePlaces, FileInv, NothingWritten
  <2> QED BY <1>5, <2>2, <2>4
<1>7. CASE RelocScan \/ RelocSort \/ RelocEntry \/ RelocNext \/ RelocEnd
  <2>1. SectionsMet(Len(elf.sections))
    <3>1. pc \in SecondPass
      BY <1>7 DEF RelocScan, RelocSort, RelocEntry, RelocNext, RelocEnd,
         ScanSkips, ScanFinds, SortInserts, SortEnds, ListEnds, SecondPass
    <3> QED BY <1>3, <3>1 DEF SectionsKnown
  <2>2. Tabled'
    BY <1>3, <1>4, <1>7, <2>1, PassTabled
  <2>3. CASE RelocScan \/ RelocSort \/ RelocNext
    BY <1>3, <1>4, <1>5, <2>2, <2>3, PassAsInFile, ScanOrdered, SortOrdered, FillPairing, NextPairing
  <2>4. CASE RelocEntry
    <3>1. AsInFile' /\ Ordered'
      BY <1>3, <1>4, <2>4, PassAsInFile, EntryOrdered
    <3>2. CASE pc' = "reloc_do"
      BY <1>3, <1>4, <1>5, <2>1, <2>2, <2>4, <3>1, <3>2, EntryPairing
    <3>3. CASE pc' # "reloc_do"
      BY <1>5, <2>2, <2>4, <3>1, <3>3 DEF RelocEntry, Exit, Goto, Pairing, SecondPass
    <3> QED BY <3>2, <3>3
  <2>5. CASE RelocEnd
    <3>1. pc' = "check_count"
      BY <2>5 DEF RelocEnd, Goto
    <3> QED BY <1>5, <2>2, <3>1 DEF AsInFile, Ordered, Pairing, SecondPass
  <2> QED BY <1>7, <2>3, <2>4, <2>5
<1> QED BY <1>6, <1>7

LEMMA WriteTable ==
    ASSUME FileInv', TableInv,
           \/ CheckCount \/ WriteHeader \/ WriteRelocs \/ WriteFooter \/ CheckBss
           \/ WriteSection \/ CheckHeader \/ Close
    PROVE  TableInv'
<1>1. pc' \in WritePlaces \cup {"exit", "outside"} /\ elf' = elf
  BY DEF CheckCount, WriteHeader, WriteRelocs, WriteFooter, CheckBss, WriteSection,
         CheckHeader, Close, WriteFrame, RemoveAndExit, Exit, Goto, WritePlaces, inputVars
<1>2. SUFFICES ASSUME Linked', PairsAdjacent'
               PROVE  SectionsKnown' /\ AsInFile' /\ Ordered' /\ Pairing' /\ Tabled'
  BY DEF TableInv
<1>3. SectionsKnown /\ Tabled
  BY <1>1, <1>2, SameLinked, SamePairs DEF TableInv
<1>4. AsInFile' /\ Ordered' /\ Pairing'
  BY <1>1 DEF AsInFile, Ordered, Pairing, SecondPass, WritePlaces
<1> QED BY <1>3, <1>4, WriteLoading, WriteTabled

LEMMA StutterTable == ASSUME TableInv, UNCHANGED vars PROVE TableInv'
<1>1. UNCHANGED <<elf, memory, hilopair, pc, scn, rel_list, nreloc, i>>
  BY DEF vars, engineVars, inputVars, loopVars
<1>2. SUFFICES ASSUME Linked', PairsAdjacent'
               PROVE  SectionsKnown' /\ AsInFile' /\ Ordered' /\ Pairing' /\ Tabled'
  BY DEF TableInv
<1>3. SectionsKnown /\ AsInFile /\ Ordered /\ Pairing /\ Tabled
  BY <1>1, <1>2, SameLinked, SamePairs DEF TableInv
<1>4. AsInFile'
  <2>1. PICK W : W = Original
    OBVIOUS
  <2>2. Original' = W
    BY <1>1, <2>1, SameOriginal
  <2>3. \A a : Touched(a) => Touched(a)'
    BY <1>1 DEF Touched, Done, NamedIn, RelocSections, SectionIndex
  <2>4. OnlyTouched(W) => OnlyTouched(W)'
    BY <1>1, <2>3, StillTouched
  <2> QED BY <1>1, <1>3, <2>1, <2>2, <2>4 DEF AsInFile
<1>5. Ordered'
  BY <1>1, <1>3 DEF Ordered, Current
<1>6. Pairing'
  <2>1. \A k : Behind(k)' <=> Behind(k)
    BY <1>1 DEF Behind
  <2>2. \A k, e : Fine(k, e)' <=> Fine(k, e)
    BY <1>1, SameFine
  <2>4. \A a : OriginalWord(a)' = OriginalWord(a)
    BY <1>1, SamePlacesInFile
  <2>7. PairKnown(rel_list[i - 1]) => PairKnown(rel_list[i - 1])'
    BY <1>1, <2>4 DEF PairKnown
  <2>8. (\A k \in RelocSections : Behind(k) => \A e \in EntriesOf(k) : Fine(k, e)) =>
        (\A k \in RelocSections : Behind(k) => \A e \in EntriesOf(k) : Fine(k, e))'
    BY <1>1, <2>1, <2>2, SameSets
  <2> QED BY <1>1, <1>3, <2>2, <2>4, <2>7, <2>8 DEF Pairing
<1> QED BY <1>3, <1>4, <1>5, <1>6, StutterLoading, StutterTabled

(* The word dropped is that of the HI16 whose pair has failed. *)
LEMMA DropKnown == ASSUME IInv, PassInv, TableInv PROVE DropsFirstHalfOfAdjacentPair
<1> SUFFICES ASSUME AboutToDrop, Linked, PairsAdjacent, last # 0
             PROVE  LET o  == rel_list[i].offset - elf.ep
                        hi == hilopair[LoReg(memory[o])].ptr + elf.ep
                    IN  ninty_relocs[last] = TableWord([offset |-> hi, type |-> R_MIPS_HI16])
  BY DEF DropsFirstHalfOfAdjacentPair, DropsFirstHalf
<1> DEFINE rel == rel_list[i]
           h   == rel_list[i - 1]
           id  == RelTarget(elf.sections[scn].name)
<1>1. PICK v : v = novl_reloc_do(rel.offset - elf.ep, rel.type, FALSE)
  OBVIOUS
<1>2. pc = "reloc_do" /\ i <= nreloc /\ rel.type = R_MIPS_LO16 /\ v.ret = "fail"
  BY <1>1 DEF AboutToDrop, DropsHi
<1>3. /\ SectionsMet(Len(elf.sections)) /\ AsInFile /\ Ordered /\ Pairing /\ TableHolds(Held)
      /\ DistinctOffsets
  BY <1>2 DEF TableInv, SectionsKnown, Tabled, SecondPass, Linked, Placed
<1>4. ListKnown
  BY <1>3 DEF PassInv
<1>5. hilopair[LoReg(OriginalWord(rel.offset))].status # "invalid"
  BY <1>1, <1>2, <1>3, <1>4, CallKnown
<1>6. i > 1 /\ h \in His(scn) /\ PairKnown(h) /\ Opens(h, rel)
  BY <1>2, <1>3, <1>4, <1>5, PairBefore
<1>7. /\ i \in 1 .. nreloc /\ i \in Nat /\ scn \in RelocSections /\ i - 1 \in 1 .. nreloc
      /\ i - 1 \in 1 .. (i - 1) /\ h \in EntriesOf(scn) /\ h.offset \in Nat
  BY <1>2, <1>3, <1>4, <1>6, Listed
<1>8. h.type = R_MIPS_HI16 /\ h.type \in Handled
  BY <1>6 DEF His, Handled
<1>9. memory[rel.offset - elf.ep] = OriginalWord(rel.offset)
  BY <1>2, <1>3, <1>4, Turn
<1>10. hilopair[LoReg(memory[rel.offset - elf.ep])].ptr = h.offset - elf.ep
  BY <1>6, <1>9 DEF PairKnown, Opens
<1>11. elf.ep \in Nat /\ WellFormed(elf)
  BY Spans DEF IInv, TypeOK, WellFormed, Words
<1>12. (h.offset - elf.ep) + elf.ep = h.offset
  BY <1>7, <1>11
<1>13. PICK y : y = <<scn, h>>
  OBVIOUS
<1>14. y \in Held
  BY <1>2, <1>7, <1>8, <1>13 DEF Held, HeldHere, Standing
<1>15. PICK S : S = Held
  OBVIOUS
<1>16. \A z \in S : z = y \/ Precedes(z, y)
  <2>1. PICK q : q = i - 1
    OBVIOUS
  <2>2. q \in 1 .. nreloc /\ q >= i - 1 /\ rel_list[q] = h
    BY <1>7, <2>1
  <2>3. \A z \in Held : z = <<scn, rel_list[q]>> \/ Precedes(z, <<scn, rel_list[q]>>)
    <3>1. IInv /\ ListKnown /\ Ordered /\ pc = "reloc_do"
      BY <1>2, <1>3, <1>4
    <3> QED BY <2>2, <3>1, HeldBefore
  <2> QED BY <1>13, <1>15, <2>2, <2>3
<1>17. PICK L : Names(L, S)
  BY <1>3, <1>15 DEF TableHolds
<1>18. ninty_relocs \in Seq(Nat \ {0}) /\ last = Len(ninty_relocs)
  BY <1>2 DEF IInv, TypeOK, PassTypeOK, OpenPairsInTable
<1>19. S \subseteq AllEntries
  BY <1>3, <1>4, <1>15, HeldEntries
<1>20. last \in 1 .. Len(ninty_relocs) /\ L[last] = y
  BY <1>11, <1>14, <1>15, <1>16, <1>17, <1>18, <1>19, LastNamed
<1>21. ninty_relocs[last] = MadeWord(y)
  BY <1>17, <1>20 DEF Names
<1>22. elf_starts[id] = AddrOf(id)
  <2>1. PICK k : k = scn
    OBVIOUS
  <2>2. PICK e : e = h
    OBVIOUS
  <2> QED BY <1>3, <1>7, <1>8, <1>11, <2>1, <2>2, WordFits DEF Linked
<1>23. MadeWord(y) = TableWord([offset |-> h.offset, type |-> R_MIPS_HI16])
  BY <1>8, <1>13, <1>22 DEF MadeWord, TableWord, Current
<1> QED BY <1>10, <1>12, <1>21, <1>23

(***************************************************************************)
(* What the second pass builds (novl-conv.c:390-527) is known from the ELF *)
(* file alone, for every linked file in which the halves of a pair follow  *)
(* each other: at each step, the words not yet rewritten, the pairs open,  *)
(* and the entries that the table holds.                                   *)
(***************************************************************************)
THEOREM TableInvariant == Spec => []TableInv
<1>1. Init => TableInv
  BY InitTable
<1>2. IInv /\ IInv' /\ FileInv' /\ PassInv /\ TableInv /\ [Next]_vars => TableInv'
  <2> SUFFICES ASSUME IInv, IInv', FileInv', PassInv, TableInv, [Next]_vars
               PROVE  TableInv'
    OBVIOUS
  <2>1. CASE \/ Open \/ CreateFails \/ Create \/ LoadSkip \/ LoadDuplicate \/ LoadSection
             \/ LoadEnd \/ CountScan \/ CountSort \/ CountEntry \/ CountNext \/ CountEnd
    BY <2>1, EarlyTable
  <2>2. CASE Layout \/ RelocScan \/ RelocSort \/ RelocEntry \/ RelocNext \/ RelocEnd
    BY <2>2, PassTable
  <2>3. CASE \/ CheckCount \/ WriteHeader \/ WriteRelocs \/ WriteFooter \/ CheckBss
             \/ WriteSection \/ CheckHeader \/ Close
    BY <2>3, WriteTable
  <2>4. CASE Exited \/ UNCHANGED vars
    BY <2>4, StutterTable DEF Exited
  <2> QED BY <2>1, <2>2, <2>3, <2>4 DEF Next
<1> QED BY <1>1, <1>2, Invariant, FileInvariant, PassInvariant, PTL DEF Spec

(***************************************************************************)
(* The table of a finished conversion lists exactly the entries that have  *)
(* to be applied when the overlay is moved, in the order of their          *)
(* addresses: the HI16s that no LO16 has kept are gone (novl-conv.c:472),  *)
(* whatever the order in the ELF file; and no LO16 was without a HI16.     *)
(***************************************************************************)
THEOREM TableIsExact == Spec => []TableExact
<1>1. IInv /\ TableInv => TableExact
  <2> SUFFICES ASSUME IInv, TableInv, status = "ok", Linked, PairsAdjacent
               PROVE  AllPaired /\ ListsKept(Decoded(ninty_relocs))
    BY DEF TableExact
  <2>1. TableHolds(AllKept) /\ AllPaired
    BY DEF TableInv, Tabled
  <2>2. WellFormed(elf) /\ ninty_relocs \in Seq(Nat \ {0})
    BY DEF IInv, TypeOK, PassTypeOK
  <2> QED BY <2>1, <2>2, TableListed
<1> QED BY <1>1, Invariant, TableInvariant, PTL

(***************************************************************************)
(* The word taken out of the table for a LO16 that does not move is that   *)
(* of its own HI16 (novl-conv.c:479-485), when nothing is relocated        *)
(* between the two.                                                        *)
(***************************************************************************)
THEOREM DropsItsHi16 == Spec => []DropsFirstHalfOfAdjacentPair
<1>1. IInv /\ PassInv /\ TableInv => DropsFirstHalfOfAdjacentPair
  BY DropKnown
<1> QED BY <1>1, Invariant, PassInvariant, TableInvariant, PTL

=============================================================================
