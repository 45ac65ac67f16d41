-------------------------- MODULE NovlConvOverlayProofs --------------------------
(***************************************************************************)
(* What is proved of the overlay that a conversion writes: every reference *)
(* in its image follows the target to where the overlay will be, it is an  *)
(* overlay as the loader and the listings take it to be, and the second of *)
(* two runs lists what the first has converted.                            *)
(***************************************************************************)
EXTENDS NovlConvProofs, ConvertThenList, SequenceTheorems

(***************************************************************************)
(* The image.  What has been rewritten so far, in whatever order the       *)
(* halves of pairs come; MovedTo is where the layout has put an address.   *)
(***************************************************************************)
NoneHigh == \A s \in SectionIds : ovl_starts[s] + sizes[s] <= Word - Half \div 2

Over == pc \in WritePlaces \/ status = "ok"

(* The entries of a relocation section that the second pass has treated. *)
Passed(k) ==
    IF Over \/ Behind(k) THEN EntriesOf(k)
    ELSE IF pc = "reloc_do" /\ k = scn THEN {rel_list[q] : q \in 1 .. (i - 1)} ELSE {}

(* What is kept of a register is the last HI16 that has set it. *)
SetsLast(q, r) ==
    LET h == rel_list[q]
        w == OriginalWord(h.offset)
    IN  /\ h.type = R_MIPS_HI16 /\ HiReg(w) = r
        /\ hilopair[r].value = Imm(w) * Half
        /\ hilopair[r].ptr = h.offset - elf.ep
        /\ \A p \in (q + 1) .. (i - 1) :
              rel_list[p].type = R_MIPS_HI16 => HiReg(OriginalWord(rel_list[p].offset)) # r

OpenPairs ==
    pc = "reloc_do" =>
        \A r \in Registers : hilopair[r].status # "invalid" =>
            \E q \in 1 .. (i - 1) : SetsLast(q, r)

Sound(k, e) ==
    /\ Fine(k, e)
    /\ e.type = R_MIPS_26 /\ Moves(k, e) => OwnerOf(TargetOf(k, e)) = TEXT

LastMoved(k, l) ==
    \A m \in LosOf(k, HiOf(k, l)) : m \in Passed(k) /\ Moves(k, m) => m.offset <= l.offset

InMemory(e) == memory[e.offset - elf.ep]

Rewritten(k, e) ==
    LET w == OriginalWord(e.offset)
        a == MovedTo(TargetOf(k, e))
    IN  /\ e.type = R_MIPS_HI16 => InMemory(e) \div Half = w \div Half
        /\ Moves(k, e) =>
              /\ e.type = R_MIPS_32 => InMemory(e) = a
              /\ e.type = R_MIPS_26 => InMemory(e) = WithTarget(w, a)
              /\ e.type = R_MIPS_LO16 =>
                    /\ InMemory(e) = WithImm(w, LoPart(a))
                    /\ LastMoved(k, e) => Imm(InMemory(HiOf(k, e))) = HiPart(a)

Rewriting ==
    pc \in SecondPass \/ Over =>
        \A k \in RelocSections : \A e \in Passed(k) :
            Sound(k, e) /\ (NoneHigh => Rewritten(k, e))

OthersKept ==
    Over => \A o \in Offsets : memory[o] # OriginalWord(o + elf.ep) =>
              \E k \in RelocSections : \E e \in EntriesOf(k) : e.offset = o + elf.ep

StillMet == Over => SectionsMet(Len(elf.sections))

ImageInv ==
    Linked => /\ SectionsKnown /\ AsInFile /\ Ordered
              /\ OpenPairs /\ Rewriting /\ OthersKept /\ StillMet

-----------------------------------------------------------------------------
(* The sections of the overlay that an address belongs to and is moved with. *)
LEMMA AddrFound ==
    ASSUME WellFormed(elf), SectionsMet(Len(elf.sections)), NEW k \in LoadedSections
    PROVE  /\ AddrOf(IdOf(k)) = elf.sections[k].addr
           /\ elf_starts[IdOf(k)] = elf.sections[k].addr
           /\ sizes[IdOf(k)] = RoundUp8(elf.sections[k].size)
<1> DEFINE at == {j \in LoadedSections : valid_sec(elf.sections[j].name) = IdOf(k)}
<1>1. \A j \in LoadedSections : j \in Met(Len(elf.sections))
  BY SectionFacts DEF Met
<1>2. \A j \in at : j = k
  BY <1>1 DEF SectionsMet, IdOf
<1>3. k \in at
  BY DEF IdOf
<1>4. AddrOf(IdOf(k)) = elf.sections[CHOOSE j \in at : TRUE].addr
  BY DEF AddrOf
<1> HIDE DEF at
<1>5. AddrOf(IdOf(k)) = elf.sections[k].addr
  BY <1>2, <1>3, <1>4
<1> QED BY <1>1, <1>5 DEF SectionsMet

LEMMA OwnerFacts ==
    ASSUME EngineTypeOK, WellFormed(elf), Linked, SectionsMet(Len(elf.sections)),
           NEW a \in Nat, OwnerOf(a) # NoSection,
           NEW s, s = OwnerOf(a)
    PROVE  /\ s \in SectionIds /\ AddrOf(s) = elf_starts[s]
           /\ elf_starts[s] \in Nat /\ sizes[s] \in Nat
           /\ elf_starts[s] <= a /\ a < elf_starts[s] + sizes[s]
           /\ elf_starts[s] + sizes[s] < Word
           /\ \E k \in LoadedSections : IdOf(k) = s
<1> DEFINE at == {k \in LoadedSections :
                    /\ elf.sections[k].addr <= a
                    /\ a < elf.sections[k].addr + RoundUp8(elf.sections[k].size)}
<1>1. OwnerOf(a) = IF at = {} THEN NoSection ELSE IdOf(CHOOSE k \in at : TRUE)
  BY DEF OwnerOf, IdOf
<1>2. PICK k \in at : s = IdOf(k)
  <2> HIDE DEF at
  <2> QED BY <1>1
<1>3. /\ AddrOf(s) = elf.sections[k].addr /\ elf_starts[s] = elf.sections[k].addr
      /\ sizes[s] = RoundUp8(elf.sections[k].size)
  BY <1>2, AddrFound
<1>4. s \in SectionIds /\ elf.sections[k].addr \in Nat /\ RoundUp8(elf.sections[k].size) \in Nat
  BY <1>2, SectionFacts
<1>5. elf.sections[k].addr + RoundUp8(elf.sections[k].size) < Word
  BY DEF Linked, Placed
<1> QED BY <1>2, <1>3, <1>4, <1>5

LEMMA MovedFound ==
    ASSUME EngineTypeOK, WellFormed(elf), Linked, SectionsMet(Len(elf.sections)), NoneHigh,
           NEW a \in Nat, OwnerOf(a) # NoSection
    PROVE  /\ Moved(a, OwnerOf(a)) = MovedTo(a)
           /\ MovedTo(a) \in Nat /\ MovedTo(a) < Word - Half \div 2
<1> DEFINE s == OwnerOf(a)
<1>1. PICK z : z = s
  OBVIOUS
<1>2. /\ z \in SectionIds /\ AddrOf(z) = elf_starts[z]
      /\ elf_starts[z] \in Nat /\ sizes[z] \in Nat
      /\ elf_starts[z] <= a /\ a < elf_starts[z] + sizes[z]
  BY <1>1, OwnerFacts
<1>3. ovl_starts[z] \in Nat /\ ovl_starts[z] + sizes[z] <= Word - Half \div 2
  BY <1>2, Spans DEF NoneHigh, EngineTypeOK, Words
<1>4. MovedTo(a) = a - elf_starts[z] + ovl_starts[z]
  BY <1>1, <1>2 DEF MovedTo
<1>5. Word \in Nat /\ Half \div 2 \in Nat
  BY Spans, WordLayout
<1> DEFINE e == elf_starts[z]
           o == ovl_starts[z]
           h == Half \div 2
<1>10. /\ e \in Nat /\ e <= a /\ a < e + sizes[z] /\ sizes[z] \in Nat /\ h \in Nat /\ Word \in Nat
       /\ o \in Nat /\ o + sizes[z] <= Word - h /\ MovedTo(a) = a - e + o
  BY <1>2, <1>3, <1>4, <1>5
<1> HIDE DEF e, o, h
<1>6. MovedTo(a) \in Nat /\ MovedTo(a) < Word - h /\ MovedTo(a) < Word
  BY <1>10
<1>7. Moved(a, z) = (a + ovl_starts[z] - elf_starts[z]) % Word
  BY DEF Moved
<1>8. a + ovl_starts[z] - elf_starts[z] = MovedTo(a)
  BY <1>10 DEF e, o
<1>9. Moved(a, z) = MovedTo(a)
  BY <1>6, <1>7, <1>8, SmallMod, Spans
<1> QED BY <1>1, <1>6, <1>9 DEF h

-----------------------------------------------------------------------------
(* Entries are known by their offsets, so a LO16 has one HI16 only. *)
LEMMA EntriesDistinct ==
    ASSUME DistinctOffsets, NEW j \in RelocSections, NEW k \in RelocSections,
           NEW e \in EntriesOf(j), NEW f \in EntriesOf(k), e.offset = f.offset
    PROVE  j = k /\ e = f
<1>1. PICK p \in DOMAIN elf.sections[j].rels : elf.sections[j].rels[p] = e
  BY DEF EntriesOf, ToSet
<1>2. PICK q \in DOMAIN elf.sections[k].rels : elf.sections[k].rels[q] = f
  BY DEF EntriesOf, ToSet
<1>3. <<j, p>> = <<k, q>>
  BY <1>1, <1>2 DEF DistinctOffsets
<1> QED BY <1>1, <1>2, <1>3

LEMMA HiFound ==
    ASSUME WellFormed(elf), DistinctOffsets, NEW k \in RelocSections,
           NEW l, NEW h \in His(k), IsHiOf(k, h, l)
    PROVE  HiOf(k, l) = h
<1>1. PICK g : g = HiOf(k, l)
  OBVIOUS
<1>2. g \in His(k) /\ IsHiOf(k, g, l)
  BY <1>1 DEF HiOf
<1>3. g.offset <= h.offset /\ h.offset <= g.offset
  BY <1>2 DEF IsHiOf
<1>4. g \in EntriesOf(k) /\ h \in EntriesOf(k) /\ g.offset \in Nat /\ h.offset \in Nat
  BY <1>2, EntryTypes DEF His
<1>5. g.offset = h.offset
  BY <1>3, <1>4
<1> QED BY <1>1, <1>4, <1>5, EntriesDistinct

(* The pair that a LO16 meets is the one its HI16 has opened. *)
LEMMA PairFound ==
    ASSUME IInv, DistinctOffsets, ListKnown, Ordered, AsInFile, OpenPairs,
           pc = "reloc_do", i <= nreloc, rel_list[i].type = R_MIPS_LO16,
           NEW pair, pair = hilopair[LoReg(OriginalWord(rel_list[i].offset))],
           pair.status # "invalid"
    PROVE  LET l == rel_list[i]
               h == HiOf(scn, l)
           IN  /\ h \in His(scn) /\ IsHiOf(scn, h, l)
               /\ \E q \in 1 .. (i - 1) : rel_list[q] = h
               /\ pair.value = Imm(OriginalWord(h.offset)) * Half
               /\ pair.ptr = h.offset - elf.ep
<1> DEFINE l == rel_list[i]
           w == OriginalWord(l.offset)
<1>1. i \in 1 .. nreloc /\ l \in EntriesOf(scn) /\ w \in Words
  BY Turn
<1>2. LoReg(w) \in Registers
  BY <1>1, FieldTypes
<1>3. PICK q \in 1 .. (i - 1) : SetsLast(q, LoReg(w))
  BY <1>2 DEF OpenPairs
<1>4. /\ scn \in RelocSections /\ nreloc \in Nat /\ nreloc = Len(rel_list)
      /\ \A p \in 1 .. nreloc : rel_list[p] \in EntriesOf(scn) /\ rel_list[p].offset \in Nat
      /\ \A p, r \in 1 .. nreloc : p < r => rel_list[p].offset < rel_list[r].offset
      /\ \A e \in EntriesOf(scn) : \E p \in 1 .. nreloc : rel_list[p] = e
  BY Listed
<1>5. q \in 1 .. nreloc /\ q < i /\ q \in Nat /\ i \in Nat
  BY <1>1, <1>4
<1> DEFINE h == rel_list[q]
<1>6. h \in His(scn) /\ Opens(h, l)
  BY <1>1, <1>3, <1>4, <1>5 DEF His, Opens, SetsLast
<1>7. ASSUME NEW g \in His(scn), Opens(g, l) PROVE g.offset <= h.offset
  <2>1. PICK p \in 1 .. nreloc : rel_list[p] = g
    BY <1>4 DEF His
  <2>2. g.type = R_MIPS_HI16 /\ HiReg(OriginalWord(g.offset)) = LoReg(w) /\ g.offset < l.offset
    BY <1>7 DEF His, Opens
  <2>3. p < i
    <3>1. ~(i < p) /\ p # i
      BY <1>1, <1>4, <2>1, <2>2
    <3> QED BY <1>1, <3>1
  <2>4. p \notin (q + 1) .. (i - 1)
    BY <1>3, <2>1, <2>2 DEF SetsLast
  <2>5. p <= q
    BY <1>5, <2>3, <2>4
  <2>6. CASE p = q
    BY <1>4, <1>5, <2>1, <2>6
  <2>7. CASE p < q
    BY <1>4, <1>5, <2>1, <2>7
  <2> QED BY <2>5, <2>6, <2>7
<1>8. IsHiOf(scn, h, l)
  BY <1>6, <1>7 DEF IsHiOf
<1>9. HiOf(scn, l) = h
  BY <1>4, <1>6, <1>8, HiFound DEF IInv, TypeOK
<1> QED BY <1>3, <1>5, <1>6, <1>8, <1>9 DEF SetsLast

-----------------------------------------------------------------------------
(* What the second pass does with an entry, by the ELF file. *)
LEMMA Adjusted ==
    ASSUME WellFormed(elf), Linked, SectionsMet(Len(elf.sections)), NEW a \in Nat, NEW type
    PROVE  adjust_address(a, type, FALSE) =
             IF OwnerOf(a) = NoSection THEN [ret |-> "fail", addr |-> a]
             ELSE IF type = R_MIPS_26 /\ OwnerOf(a) # TEXT THEN [ret |-> "error", addr |-> a]
             ELSE [ret |-> "success", addr |-> Moved(a, OwnerOf(a))]
<1>1. get_target_section(a) = OwnerOf(a)
  BY OwnerFound
<1> QED BY <1>1 DEF adjust_address

LEMMA OutcomeFields ==
    ASSUME NEW ret, NEW mem, NEW pairs, NEW v, v = Outcome(ret, mem, pairs)
    PROVE  v.ret = ret /\ v.memory = mem /\ v.hilopair = pairs
BY DEF Outcome

LEMMA HandlerOf ==
    ASSUME IInv, Linked, ListKnown, Ordered, AsInFile, pc = "reloc_do", i <= nreloc,
           NEW v, v = novl_reloc_do(rel_list[i].offset - elf.ep, rel_list[i].type, FALSE),
           v.ret # "error",
           NEW o, o = rel_list[i].offset - elf.ep,
           NEW t, t = rel_list[i].type
    PROVE  /\ t \in Handled
           /\ t = R_MIPS_32 => v = novl_reloc_mips_32(o, FALSE)
           /\ t = R_MIPS_26 => v = novl_reloc_mips_26(o, FALSE)
           /\ t = R_MIPS_HI16 => v = novl_reloc_mips_hi16(o, FALSE)
           /\ t = R_MIPS_LO16 => v = novl_reloc_mips_lo16(o, FALSE)
<1>1. rel_list[i] \in EntriesOf(scn) /\ scn \in RelocSections
  BY Turn, Listed DEF Linked, Placed
<1>2. t \in Nat /\ t < 128
  BY <1>1, EntryTypes DEF Linked, Placed, KnownTypes, IInv, TypeOK
<1>3. t % 128 = t
  BY <1>2
<1>4. v = CASE t = R_MIPS_32   -> novl_reloc_mips_32(o, FALSE)
            [] t = R_MIPS_26   -> novl_reloc_mips_26(o, FALSE)
            [] t = R_MIPS_HI16 -> novl_reloc_mips_hi16(o, FALSE)
            [] t = R_MIPS_LO16 -> novl_reloc_mips_lo16(o, FALSE)
            [] OTHER           -> Outcome("error", memory, hilopair)
  BY <1>3 DEF novl_reloc_do
<1>5. Outcome("error", memory, hilopair).ret = "error"
  BY DEF Outcome
<1>6. /\ R_MIPS_32 # R_MIPS_26 /\ R_MIPS_32 # R_MIPS_HI16 /\ R_MIPS_32 # R_MIPS_LO16
      /\ R_MIPS_26 # R_MIPS_HI16 /\ R_MIPS_26 # R_MIPS_LO16 /\ R_MIPS_HI16 # R_MIPS_LO16
  BY DEF R_MIPS_32, R_MIPS_26, R_MIPS_HI16, R_MIPS_LO16
<1> QED BY <1>4, <1>5, <1>6, Zenon DEF Handled

PlainEffect(v, rel, o, w, a) ==
    /\ a \in Nat /\ v.hilopair = hilopair
    /\ ~Moves(scn, rel) => v.memory = memory
    /\ Moves(scn, rel) /\ rel.type = R_MIPS_32 =>
         v.memory = [memory EXCEPT ![o] = Moved(a, OwnerOf(a))]
    /\ Moves(scn, rel) /\ rel.type = R_MIPS_26 =>
         /\ OwnerOf(a) = TEXT
         /\ v.memory = [memory EXCEPT ![o] = WithTarget(w, Moved(a, OwnerOf(a)))]

HighEffect(v, o, w) ==
    /\ v.memory = memory
    /\ v.hilopair = [hilopair EXCEPT ![HiReg(w)] =
                       [status |-> "valid", value |-> Imm(w) * Half, ptr |-> o]]

LowEffect(v, rel, o, w, a, h) ==
    /\ a \in Nat
    /\ h \in His(scn) /\ IsHiOf(scn, h, rel) /\ \E q \in 1 .. (i - 1) : rel_list[q] = h
    /\ v.hilopair = [hilopair EXCEPT ![LoReg(w)].status = "used"]
    /\ hilopair[LoReg(w)].status # "invalid"
    /\ ~Moves(scn, rel) => v.memory = memory
    /\ Moves(scn, rel) =>
         v.memory = WritePair(o, h.offset - elf.ep, Moved(a, OwnerOf(a)))

LEMMA PlainCall ==
    ASSUME IInv, Linked, SectionsMet(Len(elf.sections)), ListKnown, Ordered, AsInFile,
           pc = "reloc_do", i <= nreloc,
           NEW v, v = novl_reloc_do(rel_list[i].offset - elf.ep, rel_list[i].type, FALSE),
           v.ret # "error",
           NEW rel, rel = rel_list[i], NEW o, o = rel.offset - elf.ep,
           NEW w, w = OriginalWord(rel.offset),
           NEW a, a = TargetOf(scn, rel),
           rel.type \in {R_MIPS_32, R_MIPS_26}
    PROVE  PlainEffect(v, rel, o, w, a)
<1>1. memory[o] = w /\ w \in Words /\ WellFormed(elf)
  BY Turn DEF Linked, Placed, IInv, TypeOK
<1>2. w \in Nat /\ JumpTarget(w) \in Nat
  <2>1. w \in Nat /\ JumpSpan \in Nat \ {0} /\ Kseg0 \in Nat
    BY <1>1, Spans, WordLayout DEF Words
  <2>2. w % JumpSpan \in Nat
    BY <2>1
  <2> QED BY <2>1, <2>2 DEF JumpTarget
<1>3. Moves(scn, rel) <=> OwnerOf(a) # NoSection
  BY DEF Moves
<1>4. CASE rel.type = R_MIPS_32
  <2>1. a = w /\ rel.type # R_MIPS_26
    BY <1>4 DEF TargetOf, R_MIPS_32, R_MIPS_26, R_MIPS_LO16
  <2>2. PICK adj : adj = adjust_address(a, R_MIPS_32, FALSE)
    OBVIOUS
  <2>3. PICK M : M = Rewrite(o, adj.addr, FALSE)
    OBVIOUS
  <2>3a. PICK N : N = IF adj.ret = "success" THEN M ELSE memory
    OBVIOUS
  <2>3b. PICK r : r = adj.ret
    OBVIOUS
  <2>4. v = Outcome(r, N, hilopair)
    <3>1. v = novl_reloc_mips_32(o, FALSE)
      BY <1>4, HandlerOf
    <3> QED BY <1>1, <2>1, <2>2, <2>3, <2>3a, <2>3b, <3>1, Zenon DEF novl_reloc_mips_32
  <2>4a. v.ret = r /\ v.memory = N /\ v.hilopair = hilopair
    BY ONLY <2>4, OutcomeFields
  <2>5. adj = IF OwnerOf(a) = NoSection THEN [ret |-> "fail", addr |-> a]
              ELSE [ret |-> "success", addr |-> Moved(a, OwnerOf(a))]
    <3>1. R_MIPS_32 # R_MIPS_26
      BY DEF R_MIPS_32, R_MIPS_26
    <3> QED BY <1>1, <1>2, <2>1, <2>2, <3>1, Adjusted
  <2>6. v.memory = IF OwnerOf(a) = NoSection THEN memory ELSE M
    BY <2>3a, <2>4a, <2>5
  <2>7. v.hilopair = hilopair
    BY <2>4a
  <2>8. OwnerOf(a) # NoSection => M = [memory EXCEPT ![o] = Moved(a, OwnerOf(a))]
    BY <2>3, <2>5 DEF Rewrite
  <2> QED BY <1>2, <1>3, <1>4, <2>1, <2>6, <2>7, <2>8 DEF PlainEffect
<1>5. CASE rel.type = R_MIPS_26
  <2>1. a = JumpTarget(w) /\ rel.type # R_MIPS_32
    BY <1>5 DEF TargetOf, R_MIPS_26, R_MIPS_LO16, R_MIPS_32
  <2>2. PICK adj : adj = adjust_address(a, R_MIPS_26, FALSE)
    OBVIOUS
  <2>3. PICK M : M = Rewrite(o, WithTarget(w, adj.addr), FALSE)
    OBVIOUS
  <2>3a. PICK N : N = IF adj.ret = "success" THEN M ELSE memory
    OBVIOUS
  <2>3b. PICK r : r = adj.ret
    OBVIOUS
  <2>4. v = Outcome(r, N, hilopair)
    <3>1. v = novl_reloc_mips_26(o, FALSE)
      BY <1>5, HandlerOf
    <3> QED BY <1>1, <2>1, <2>2, <2>3, <2>3a, <2>3b, <3>1, Zenon DEF novl_reloc_mips_26
  <2>4a. v.ret = r /\ v.memory = N /\ v.hilopair = hilopair
    BY ONLY <2>4, OutcomeFields
  <2>5. adj = IF OwnerOf(a) = NoSection THEN [ret |-> "fail", addr |-> a]
              ELSE IF OwnerOf(a) # TEXT THEN [ret |-> "error", addr |-> a]
              ELSE [ret |-> "success", addr |-> Moved(a, OwnerOf(a))]
    BY <1>1, <1>2, <2>1, <2>2, Adjusted
  <2>6. OwnerOf(a) # NoSection => OwnerOf(a) = TEXT
    BY <2>3b, <2>4a, <2>5
  <2>7. v.memory = IF OwnerOf(a) = NoSection THEN memory ELSE M
    BY <2>3a, <2>4a, <2>5, <2>6
  <2>8. v.hilopair = hilopair
    BY <2>4a
  <2>9. OwnerOf(a) # NoSection => M = [memory EXCEPT ![o] = WithTarget(w, Moved(a, OwnerOf(a)))]
    BY <2>3, <2>5, <2>6 DEF Rewrite
  <2> QED BY <1>2, <1>3, <1>5, <2>1, <2>6, <2>7, <2>8, <2>9 DEF PlainEffect
<1> QED BY <1>4, <1>5

LEMMA HighCall ==
    ASSUME IInv, Linked, ListKnown, Ordered, AsInFile, pc = "reloc_do", i <= nreloc,
           NEW v, v = novl_reloc_do(rel_list[i].offset - elf.ep, rel_list[i].type, FALSE),
           v.ret # "error",
           NEW rel, rel = rel_list[i], NEW o, o = rel.offset - elf.ep,
           NEW w, w = OriginalWord(rel.offset),
           rel.type = R_MIPS_HI16
    PROVE  HighEffect(v, o, w)
<1>1. memory[o] = w
  BY Turn DEF Linked, Placed
<1>2. PICK P : P = [hilopair EXCEPT ![HiReg(w)] =
                      [status |-> "valid", value |-> Imm(w) * Half, ptr |-> o]]
  OBVIOUS
<1>3. v = novl_reloc_mips_hi16(o, FALSE)
  BY HandlerOf
<1>4. v = Outcome("success", memory, P)
  BY <1>1, <1>2, <1>3, Zenon DEF novl_reloc_mips_hi16
<1>5. v.memory = memory /\ v.hilopair = P
  <2>1. PICK m : m = memory
    OBVIOUS
  <2>2. PICK r : r = "success"
    OBVIOUS
  <2>3. v = Outcome(r, m, P)
    BY ONLY <1>4, <2>1, <2>2
  <2>4. v.memory = m /\ v.hilopair = P
    BY ONLY <2>3, OutcomeFields
  <2> QED BY <2>1, <2>4
<1> QED BY <1>2, <1>5 DEF HighEffect

LEMMA LowCall ==
    ASSUME IInv, Linked, SectionsMet(Len(elf.sections)), ListKnown, Ordered, AsInFile,
           OpenPairs, pc = "reloc_do", i <= nreloc,
           NEW v, v = novl_reloc_do(rel_list[i].offset - elf.ep, rel_list[i].type, FALSE),
           v.ret # "error",
           NEW rel, rel = rel_list[i], NEW o, o = rel.offset - elf.ep,
           NEW w, w = OriginalWord(rel.offset),
           NEW a, a = TargetOf(scn, rel), NEW h, h = HiOf(scn, rel),
           rel.type = R_MIPS_LO16
    PROVE  LowEffect(v, rel, o, w, a, h)
<1>1. memory[o] = w /\ w \in Words /\ WellFormed(elf)
  BY Turn DEF Linked, Placed, IInv, TypeOK
<1>2. v = novl_reloc_mips_lo16(o, FALSE)
  BY HandlerOf
<1>3. PICK p : p = hilopair[LoReg(w)]
  OBVIOUS
<1>4. PICK P : P = [hilopair EXCEPT ![LoReg(w)].status = "used"]
  OBVIOUS
<1>5. PICK adj : adj = adjust_address((p.value + SignedImm(w)) % Word, R_MIPS_LO16, FALSE)
  OBVIOUS
<1>6. PICK M : M = WritePair(o, p.ptr, adj.addr)
  OBVIOUS
<1>6a. PICK r : r = IF adj.ret = "fail" /\ p.status = "used" THEN "fail_keep_hi" ELSE adj.ret
  OBVIOUS
<1>6b. PICK N : N = IF adj.ret = "success" /\ ~FALSE THEN M ELSE memory
  OBVIOUS
<1>6c. PICK error_ : error_ = "error"
  OBVIOUS
<1>7. v = IF p.status = "invalid" THEN Outcome(error_, memory, hilopair) ELSE Outcome(r, N, P)
  BY <1>1, <1>2, <1>3, <1>4, <1>5, <1>6, <1>6a, <1>6b, <1>6c, Zenon DEF novl_reloc_mips_lo16
<1>8. p.status # "invalid"
  <2>1. v = Outcome(error_, memory, hilopair) => v.ret = error_
    BY ONLY OutcomeFields
  <2> QED BY <1>6c, <1>7, <2>1
<1>8a. v.memory = N /\ v.hilopair = P
  <2>1. v = Outcome(r, N, P)
    BY <1>7, <1>8
  <2> QED BY ONLY <2>1, OutcomeFields
<1>9. /\ h \in His(scn) /\ IsHiOf(scn, h, rel) /\ \E q \in 1 .. (i - 1) : rel_list[q] = h
      /\ p.value = Imm(OriginalWord(h.offset)) * Half
      /\ p.ptr = h.offset - elf.ep
  BY <1>3, <1>8, PairFound DEF Linked, Placed
<1>10. a = (p.value + SignedImm(w)) % Word
  BY <1>9 DEF TargetOf, R_MIPS_LO16, R_MIPS_26
<1>11. a \in Nat
  <2>1. LoReg(w) \in Registers /\ SignedImm(w) \in Int
    BY <1>1, FieldTypes
  <2>2. p.value \in Words
    BY <1>3, <2>1 DEF IInv, TypeOK, EngineTypeOK, HiLoPairs
  <2>3. p.value \in Int /\ Word \in Nat \ {0}
    BY <2>2, Spans DEF Words
  <2> QED BY <1>10, <2>1, <2>3
<1>12. Moves(scn, rel) <=> OwnerOf(a) # NoSection
  BY DEF Moves
<1>13. adj = IF OwnerOf(a) = NoSection THEN [ret |-> "fail", addr |-> a]
             ELSE [ret |-> "success", addr |-> Moved(a, OwnerOf(a))]
  <2>1. R_MIPS_LO16 # R_MIPS_26
    BY DEF R_MIPS_LO16, R_MIPS_26
  <2> QED BY <1>1, <1>5, <1>10, <1>11, <2>1, Adjusted
<1>14. v.hilopair = P
  BY <1>8a
<1>15. v.memory = IF OwnerOf(a) = NoSection THEN memory ELSE M
  BY <1>6b, <1>8a, <1>13
<1>16. OwnerOf(a) # NoSection => M = WritePair(o, h.offset - elf.ep, Moved(a, OwnerOf(a)))
  BY <1>6, <1>9, <1>13
<1> QED BY <1>3, <1>4, <1>8, <1>9, <1>11, <1>12, <1>14, <1>15, <1>16 DEF LowEffect

-----------------------------------------------------------------------------
LEMMA SameTargets ==
    ASSUME elf' = elf
    PROVE  /\ \A k, e : TargetOf(k, e)' = TargetOf(k, e)
           /\ \A k, e : Sound(k, e)' <=> Sound(k, e)
<1>1. \A k, e : TargetOf(k, e)' = TargetOf(k, e)
  <2> SUFFICES ASSUME NEW k, NEW e PROVE TargetOf(k, e)' = TargetOf(k, e)
    OBVIOUS
  <2>1. OriginalWord(e.offset)' = OriginalWord(e.offset)
    BY SamePlacesInFile
  <2>2. \A h : OriginalWord(h.offset)' = OriginalWord(h.offset)
    BY SamePlacesInFile
  <2>3. HiOf(k, e)' = HiOf(k, e)
    BY SamePairs
  <2> QED BY <2>1, <2>2, <2>3 DEF TargetOf
<1>2. \A k, e : Sound(k, e)' <=> Sound(k, e)
  <2> SUFFICES ASSUME NEW k, NEW e PROVE Sound(k, e)' <=> Sound(k, e)
    OBVIOUS
  <2>1. (Fine(k, e)' <=> Fine(k, e)) /\ (Moves(k, e)' <=> Moves(k, e))
    BY SameFine, SameKept
  <2>2. OwnerOf(TargetOf(k, e))' = OwnerOf(TargetOf(k, e))
    BY <1>1, SamePlacesInFile
  <2> QED BY <2>1, <2>2 DEF Sound
<1> QED BY <1>1, <1>2

(* What one turn of the second pass changes. *)
LEMMA EntryEffect ==
    ASSUME IInv, Linked, SectionsMet(Len(elf.sections)), ListKnown, Ordered, AsInFile,
           OpenPairs, RelocEntry, pc' = "reloc_do",
           NEW rel, rel = rel_list[i], NEW o, o = rel.offset - elf.ep,
           NEW w, w = OriginalWord(rel.offset),
           NEW a, a = TargetOf(scn, rel), NEW h, h = HiOf(scn, rel)
    PROVE  /\ Sound(scn, rel)
           /\ rel.type # R_MIPS_HI16 => a \in Nat
           /\ rel.type = R_MIPS_LO16 =>
                /\ h \in His(scn) /\ IsHiOf(scn, h, rel)
                /\ \E q \in 1 .. (i - 1) : rel_list[q] = h
           /\ rel.type = R_MIPS_HI16 \/ ~Moves(scn, rel) => memory' = memory
           /\ rel.type = R_MIPS_32 /\ Moves(scn, rel) =>
                memory' = [memory EXCEPT ![o] = Moved(a, OwnerOf(a))]
           /\ rel.type = R_MIPS_26 /\ Moves(scn, rel) =>
                memory' = [memory EXCEPT ![o] = WithTarget(w, Moved(a, OwnerOf(a)))]
           /\ rel.type = R_MIPS_LO16 /\ Moves(scn, rel) =>
                memory' = WritePair(o, h.offset - elf.ep, Moved(a, OwnerOf(a)))
           /\ rel.type = R_MIPS_HI16 =>
                hilopair' = [hilopair EXCEPT ![HiReg(w)] =
                               [status |-> "valid", value |-> Imm(w) * Half, ptr |-> o]]
           /\ rel.type = R_MIPS_LO16 =>
                /\ hilopair[LoReg(w)].status # "invalid"
                /\ hilopair' = [hilopair EXCEPT ![LoReg(w)].status = "used"]
           /\ rel.type \notin {R_MIPS_HI16, R_MIPS_LO16} => hilopair' = hilopair
<1>1. PICK v : v = novl_reloc_do(rel_list[i].offset - elf.ep, rel_list[i].type, FALSE)
  OBVIOUS
<1>2. pc = "reloc_do" /\ i <= nreloc /\ v.ret # "error" /\ hilopair' = v.hilopair /\ memory' = v.memory
  BY <1>1 DEF RelocEntry, Exit, Goto
<1>3. /\ R_MIPS_32 # R_MIPS_26 /\ R_MIPS_32 # R_MIPS_HI16 /\ R_MIPS_32 # R_MIPS_LO16
      /\ R_MIPS_26 # R_MIPS_HI16 /\ R_MIPS_26 # R_MIPS_LO16 /\ R_MIPS_HI16 # R_MIPS_LO16
  BY DEF R_MIPS_32, R_MIPS_26, R_MIPS_HI16, R_MIPS_LO16
<1>4. rel.type \in Handled
  BY <1>1, <1>2, HandlerOf
<1>5. CASE rel.type \in {R_MIPS_32, R_MIPS_26}
  <2>1. /\ a \in Nat /\ v.hilopair = hilopair
        /\ ~Moves(scn, rel) => v.memory = memory
        /\ Moves(scn, rel) /\ rel.type = R_MIPS_32 =>
             v.memory = [memory EXCEPT ![o] = Moved(a, OwnerOf(a))]
        /\ Moves(scn, rel) /\ rel.type = R_MIPS_26 =>
             /\ OwnerOf(a) = TEXT
             /\ v.memory = [memory EXCEPT ![o] = WithTarget(w, Moved(a, OwnerOf(a)))]
    <3>1. PlainEffect(v, rel, o, w, a)
      BY <1>1, <1>2, <1>5, PlainCall
    <3> QED BY ONLY <3>1 DEF PlainEffect
  <2>2. Sound(scn, rel)
    BY <1>3, <1>4, <1>5, <2>1 DEF Sound, Fine
  <2>3. /\ ~Moves(scn, rel) => memory' = memory
        /\ Moves(scn, rel) /\ rel.type = R_MIPS_32 =>
             memory' = [memory EXCEPT ![o] = Moved(a, OwnerOf(a))]
        /\ Moves(scn, rel) /\ rel.type = R_MIPS_26 =>
             memory' = [memory EXCEPT ![o] = WithTarget(w, Moved(a, OwnerOf(a)))]
    BY ONLY <1>2, <2>1
  <2> QED BY ONLY <1>2, <1>3, <1>5, <2>1, <2>2, <2>3
<1>6. CASE rel.type = R_MIPS_HI16
  <2>1. /\ v.memory = memory
        /\ v.hilopair = [hilopair EXCEPT ![HiReg(w)] =
                           [status |-> "valid", value |-> Imm(w) * Half, ptr |-> o]]
    <3>1. HighEffect(v, o, w)
      BY <1>1, <1>2, <1>6, HighCall
    <3> QED BY ONLY <3>1 DEF HighEffect
  <2>2. Sound(scn, rel)
    BY <1>3, <1>4, <1>6 DEF Sound, Fine
  <2> QED BY ONLY <1>2, <1>3, <1>6, <2>1, <2>2
<1>7. CASE rel.type = R_MIPS_LO16
  <2>1. /\ a \in Nat
        /\ h \in His(scn) /\ IsHiOf(scn, h, rel) /\ \E q \in 1 .. (i - 1) : rel_list[q] = h
        /\ v.hilopair = [hilopair EXCEPT ![LoReg(w)].status = "used"]
        /\ hilopair[LoReg(w)].status # "invalid"
        /\ ~Moves(scn, rel) => v.memory = memory
        /\ Moves(scn, rel) =>
             v.memory = WritePair(o, h.offset - elf.ep, Moved(a, OwnerOf(a)))
    <3>1. LowEffect(v, rel, o, w, a, h)
      BY <1>1, <1>2, <1>7, LowCall
    <3> QED BY ONLY <3>1 DEF LowEffect
  <2>2. Sound(scn, rel)
    BY <1>3, <1>4, <1>7, <2>1 DEF Sound, Fine, Paired, IsHiOf
  <2> QED BY ONLY <1>2, <1>3, <1>7, <2>1, <2>2
<1> QED BY <1>4, <1>5, <1>6, <1>7 DEF Handled

LEMMA EntryOpenPairs ==
    ASSUME IInv, Linked, SectionsMet(Len(elf.sections)), ListKnown, Ordered, AsInFile,
           OpenPairs, RelocEntry, pc' = "reloc_do"
    PROVE  OpenPairs'
<1>1. PICK rel : rel = rel_list[i]
  OBVIOUS
<1>2. PICK o : o = rel.offset - elf.ep
  OBVIOUS
<1>3. PICK w : w = OriginalWord(rel.offset)
  OBVIOUS
<1>4. /\ rel.type = R_MIPS_HI16 =>
             hilopair' = [hilopair EXCEPT ![HiReg(w)] =
                            [status |-> "valid", value |-> Imm(w) * Half, ptr |-> o]]
      /\ rel.type = R_MIPS_LO16 =>
             /\ hilopair[LoReg(w)].status # "invalid"
             /\ hilopair' = [hilopair EXCEPT ![LoReg(w)].status = "used"]
      /\ rel.type \notin {R_MIPS_HI16, R_MIPS_LO16} => hilopair' = hilopair
  BY <1>1, <1>2, <1>3, EntryEffect
<1>5. /\ pc = "reloc_do" /\ i <= nreloc /\ i' = i + 1 /\ UNCHANGED <<elf, rel_list>>
  BY DEF RelocEntry, RelocFrame, inputVars, Exit, Goto
<1>6. i \in 1 .. nreloc /\ i \in Nat /\ w \in Words
  BY <1>1, <1>3, <1>5, Turn, Listed DEF Linked, Placed
<1>7. HiReg(w) \in Registers /\ LoReg(w) \in Registers /\ hilopair \in HiLoPairs
  BY <1>6, FieldTypes DEF IInv, TypeOK, EngineTypeOK
<1>8. R_MIPS_HI16 # R_MIPS_LO16
  BY DEF R_MIPS_HI16, R_MIPS_LO16
<1>9. \A b : OriginalWord(b)' = OriginalWord(b)
  BY <1>5, SamePlacesInFile
<1>10. ASSUME NEW r \in Registers, hilopair'[r].status # "invalid"
       PROVE  \E q \in 1 .. i : SetsLast(q, r)'
  <2>1. CASE rel.type = R_MIPS_HI16 /\ r = HiReg(w)
    <3>1. hilopair'[r] = [status |-> "valid", value |-> Imm(w) * Half, ptr |-> o]
      BY <1>4, <1>7, <2>1 DEF HiLoPairs
    <3>2. \A p \in (i + 1) .. (i' - 1) : FALSE
      BY <1>5, <1>6
    <3>3. rel_list'[i] = rel /\ elf' = elf /\ OriginalWord(rel.offset)' = w
      BY <1>1, <1>3, <1>5, <1>9
    <3>4. /\ hilopair'[r].value = Imm(w) * Half /\ hilopair'[r].ptr = rel.offset - elf.ep
          /\ rel_list'[i] = rel /\ elf' = elf /\ OriginalWord(rel.offset)' = w
      BY <1>2, <3>1, <3>3
    <3>5. PICK q : q = i
      OBVIOUS
    <3>6. \A p \in (q + 1) .. (i' - 1) : FALSE
      BY <3>2, <3>5
    <3>7. rel_list'[q] = rel
      BY <3>4, <3>5
    <3>8. SetsLast(q, r)'
      BY <2>1, <3>4, <3>6, <3>7 DEF SetsLast
    <3>9. q \in 1 .. i
      BY <1>6, <3>5
    <3> QED BY <3>8, <3>9
  <2>2. CASE ~(rel.type = R_MIPS_HI16 /\ r = HiReg(w))
    <3>1. /\ hilopair[r].status # "invalid" /\ hilopair'[r].value = hilopair[r].value
          /\ hilopair'[r].ptr = hilopair[r].ptr
      <4>1. CASE rel.type = R_MIPS_LO16
        BY <1>4, <1>7, <1>8, <1>10, <4>1 DEF HiLoPairs
      <4>2. CASE rel.type # R_MIPS_LO16
        BY <1>4, <1>7, <1>10, <2>2, <4>2 DEF HiLoPairs
      <4> QED BY <4>1, <4>2
    <3>2. PICK q \in 1 .. (i - 1) : SetsLast(q, r)
      BY <1>5, <3>1 DEF OpenPairs
    <3>3. \A p \in (q + 1) .. (i' - 1) : p \in (q + 1) .. (i - 1) \/ p = i
      BY <1>5, <1>6
    <3>4. \A p \in (q + 1) .. (i' - 1) :
             rel_list'[p].type = R_MIPS_HI16 => HiReg(OriginalWord(rel_list[p].offset)) # r
      BY <1>1, <1>3, <1>5, <2>2, <3>2, <3>3 DEF SetsLast
    <3>5. SetsLast(q, r)'
      BY <1>5, <1>9, <3>1, <3>2, <3>4 DEF SetsLast
    <3>6. q \in 1 .. i
      BY <1>6
    <3> QED BY <3>5, <3>6
  <2> QED BY <2>1, <2>2
<1>11. i' - 1 = i
  BY <1>5, <1>6
<1> QED BY <1>10, <1>11 DEF OpenPairs

-----------------------------------------------------------------------------
(* A field is written without touching what is above it. *)
LEMMA FieldWritten ==
    ASSUME NEW w \in Words, NEW v \in 0 .. (Half - 1)
    PROVE  Imm(WithImm(w, v)) = v /\ WithImm(w, v) \div Half = w \div Half
<1> DEFINE q == w \div Half
<1>1. Half \in Nat \ {0}
  BY WordLayout
<1>2. q \in Nat /\ Imm(w) \in Nat /\ w = Half * q + Imm(w)
  BY <1>1, FieldTypes
<1>3. v # Half /\ v \in Nat
  BY <1>1
<1> HIDE DEF q
<1>4. WithImm(w, v) = (w - Imm(w)) + v
  BY <1>3 DEF WithImm
<1>5. Half * q \in Nat
  BY <1>1, <1>2
<1>6. PICK b : b = Half * q
  OBVIOUS
<1>7. WithImm(w, v) = b + v
  BY <1>2, <1>3, <1>4, <1>5, <1>6
<1>8. WithImm(w, v) = Half * q + v
  BY <1>6, <1>7
<1>9. (Half * q + v) \div Half = q /\ (Half * q + v) % Half = v
  BY <1>1, <1>2, Divided
<1> QED BY <1>8, <1>9 DEF Imm, q

(* Off the last half-segment of the address space a high half fits its field. *)
LEMMA HiFits ==
    ASSUME NEW a \in Nat, a < Word - Half \div 2
    PROVE  a \in Words /\ HiPart(a) \in 0 .. (Half - 1) /\ LoPart(a) \in 0 .. (Half - 1)
<1> DEFINE q == a \div Half
           r == a % Half
           c == Half \div 2
<1>1. Half \in Nat \ {0} /\ c \in Nat /\ Half = 2 * c
  BY WordLayout
<1>2. Word \in Nat /\ Word = Half * Half
  BY Spans DEF Word
<1>3. q \in Nat /\ r \in 0 .. (Half - 1) /\ a = Half * q + r
  BY <1>1, DivMod
<1>4. a < Word /\ a \in Words
  BY <1>1, <1>2 DEF Words
<1>5. q < Half
  <2> SUFFICES ASSUME Half <= q PROVE FALSE
    BY <1>1, <1>3
  <2>1. Half * Half <= Half * q
    BY <1>1, <1>3, MulMono
  <2> QED BY <1>1, <1>2, <1>3, <1>4, <2>1
<1>6. q = Half - 1 => r < c
  <2> SUFFICES ASSUME q = Half - 1 PROVE r < c
    OBVIOUS
  <2>1. Half * q = Half * Half - Half
    BY <1>1
  <2>2. PICK b : b = Half * q
    OBVIOUS
  <2>3. a = b + r /\ b = Word - Half
    BY <1>2, <1>3, <2>1, <2>2
  <2>4. a < Word - c
    OBVIOUS
  <2> HIDE DEF q, r, c
  <2> QED BY <1>1, <1>2, <1>3, <2>3, <2>4
<1>7. HiPart(a) = q + (IF r >= c THEN 1 ELSE 0)
  BY DEF HiPart
<1>8. HiPart(a) \in 0 .. (Half - 1)
  <2> HIDE DEF q, r, c
  <2> QED BY <1>1, <1>3, <1>5, <1>6, <1>7
<1> QED BY <1>3, <1>4, <1>8 DEF LoPart

(* The words one turn changes, where no high half overflows. *)
EntryWords(rel, o, w, a, hp) ==
    /\ rel.type = R_MIPS_HI16 \/ ~Moves(scn, rel) => memory' = memory
    /\ \A x \in Offsets :
          x # o /\ (rel.type = R_MIPS_LO16 => x # hp) => memory'[x] = memory[x]
    /\ Moves(scn, rel) =>
          /\ rel.type = R_MIPS_32 => memory'[o] = MovedTo(a)
          /\ rel.type = R_MIPS_26 => memory'[o] = WithTarget(w, MovedTo(a))
          /\ rel.type = R_MIPS_LO16 =>
                /\ hp # o
                /\ memory'[o] = WithImm(w, LoPart(MovedTo(a)))
                /\ Imm(memory'[hp]) = HiPart(MovedTo(a))
                /\ memory'[hp] \div Half = memory[hp] \div Half

LEMMA EntryWrites ==
    ASSUME IInv, Linked, SectionsMet(Len(elf.sections)), ListKnown, Ordered, AsInFile,
           OpenPairs, NoneHigh, RelocEntry, pc' = "reloc_do",
           NEW rel, rel = rel_list[i], NEW o, o = rel.offset - elf.ep,
           NEW w, w = OriginalWord(rel.offset),
           NEW a, a = TargetOf(scn, rel), NEW h, h = HiOf(scn, rel),
           NEW hp, hp = h.offset - elf.ep
    PROVE  EntryWords(rel, o, w, a, hp)
<1>1. PICK m : m = Moved(a, OwnerOf(a))
  OBVIOUS
<1>2. /\ Sound(scn, rel)
      /\ rel.type # R_MIPS_HI16 => a \in Nat
      /\ rel.type = R_MIPS_LO16 => h \in His(scn) /\ IsHiOf(scn, h, rel)
      /\ rel.type = R_MIPS_HI16 \/ ~Moves(scn, rel) => memory' = memory
      /\ rel.type = R_MIPS_32 /\ Moves(scn, rel) => memory' = [memory EXCEPT ![o] = m]
      /\ rel.type = R_MIPS_26 /\ Moves(scn, rel) =>
           memory' = [memory EXCEPT ![o] = WithTarget(w, m)]
      /\ rel.type = R_MIPS_LO16 /\ Moves(scn, rel) => memory' = WritePair(o, hp, m)
  BY <1>1, EntryEffect
<1>3. rel.type # R_MIPS_HI16 /\ Moves(scn, rel) =>
         m = MovedTo(a) /\ m \in Nat /\ m < Word - Half \div 2
  BY <1>1, <1>2, MovedFound DEF Moves, IInv, TypeOK
<1>4. /\ R_MIPS_32 # R_MIPS_26 /\ R_MIPS_32 # R_MIPS_HI16 /\ R_MIPS_32 # R_MIPS_LO16
      /\ R_MIPS_26 # R_MIPS_HI16 /\ R_MIPS_26 # R_MIPS_LO16 /\ R_MIPS_HI16 # R_MIPS_LO16
  BY DEF R_MIPS_32, R_MIPS_26, R_MIPS_HI16, R_MIPS_LO16
<1>5. pc = "reloc_do" /\ i <= nreloc
  BY DEF RelocEntry
<1>6. o \in Offsets /\ memory[o] = w /\ w \in Words /\ memory \in [Offsets -> Words]
      /\ scn \in RelocSections /\ WellFormed(elf) /\ rel.offset \in Nat
  BY <1>5, Turn, Listed DEF Linked, Placed, IInv, TypeOK, EngineTypeOK
<1>7. rel.type \in Handled
  BY <1>2 DEF Sound, Fine
<1>8. CASE rel.type = R_MIPS_HI16 \/ ~Moves(scn, rel)
  BY <1>2, <1>4, <1>8 DEF EntryWords
<1>9. CASE rel.type = R_MIPS_32 /\ Moves(scn, rel)
  BY <1>2, <1>3, <1>4, <1>6, <1>9 DEF EntryWords
<1>10. CASE rel.type = R_MIPS_26 /\ Moves(scn, rel)
  BY <1>2, <1>3, <1>4, <1>6, <1>10 DEF EntryWords
<1>11. CASE rel.type = R_MIPS_LO16 /\ Moves(scn, rel)
  <2>1. h \in EntriesOf(scn) /\ h.offset < rel.offset
    BY <1>2, <1>11 DEF His, IsHiOf, Opens
  <2>2. hp \in Offsets /\ h.offset \in Nat
    BY <1>6, <2>1, EntryTypes
  <2>3. hp # o
    <3>1. elf.ep \in Nat
      BY Spans DEF IInv, TypeOK, WellFormed, Words
    <3> QED BY <1>6, <2>1, <2>2, <3>1
  <2>4. HiPart(m) \in 0 .. (Half - 1)
    BY <1>3, <1>4, <1>11, HiFits
  <2>5. memory[hp] \in Words
    BY <1>6, <2>2
  <2>6. PICK x : x = WithImm(w, LoPart(m))
    OBVIOUS
  <2>7. PICK y : y = WithImm(memory[hp], HiPart(m))
    OBVIOUS
  <2>8. memory' = [memory EXCEPT ![o] = x, ![hp] = y]
    BY <1>2, <1>6, <1>11, <2>6, <2>7 DEF WritePair
  <2>9. memory'[o] = x /\ memory'[hp] = y
    BY <1>6, <2>2, <2>3, <2>8
  <2>10. \A z \in Offsets : z # o /\ z # hp => memory'[z] = memory[z]
    BY <1>6, <2>8
  <2>11. Imm(y) = HiPart(m) /\ y \div Half = memory[hp] \div Half
    BY <2>4, <2>5, <2>7, FieldWritten
  <2> QED BY <1>3, <1>4, <1>11, <2>3, <2>6, <2>9, <2>10, <2>11 DEF EntryWords
<1> QED BY <1>7, <1>8, <1>9, <1>10, <1>11 DEF Handled

(* The entry at hand has not been treated before. *)
LEMMA TurnIsNew ==
    ASSUME IInv, DistinctOffsets, ListKnown, Ordered, pc = "reloc_do", status # "ok",
           i <= nreloc, NEW k \in RelocSections, NEW e \in Passed(k)
    PROVE  /\ e \in EntriesOf(k) /\ e.offset # rel_list[i].offset
           /\ k = scn => e.offset < rel_list[i].offset
<1>1. ~Over
  BY DEF Over, WritePlaces
<1>2. /\ scn \in RelocSections /\ i \in 1 .. nreloc
      /\ \A q \in 1 .. nreloc : rel_list[q] \in EntriesOf(scn)
      /\ \A q, r \in 1 .. nreloc : q < r => rel_list[q].offset < rel_list[r].offset
      /\ \A q \in 1 .. nreloc : rel_list[q].offset \in Nat
      /\ scn \in Nat /\ i \in Nat /\ nreloc \in Nat
  BY Listed
<1>3. CASE Behind(k)
  <2>1. e \in EntriesOf(k) /\ k < scn
    BY <1>3 DEF Passed, Behind
  <2>2. k # scn
    BY <1>2, <2>1
  <2>3. e.offset # rel_list[i].offset
    BY <1>2, <2>1, <2>2, EntriesDistinct
  <2> QED BY <2>1, <2>2, <2>3
<1>4. CASE ~Behind(k)
  <2>1. k = scn /\ e \in {rel_list[q] : q \in 1 .. (i - 1)}
    BY <1>1, <1>4 DEF Passed
  <2>2. PICK q \in 1 .. (i - 1) : e = rel_list[q]
    BY <2>1
  <2>3. q \in 1 .. nreloc /\ q < i
    BY <1>2
  <2>4. rel_list[q].offset < rel_list[i].offset /\ rel_list[q] \in EntriesOf(scn)
    BY <1>2, <2>3
  <2> QED BY <1>2, <2>1, <2>2, <2>3, <2>4
<1> QED BY <1>3, <1>4

LEMMA NextPassed ==
    ASSUME IInv, DistinctOffsets, ListKnown, Ordered, RelocEntry, pc' = "reloc_do",
           status # "ok", NEW k \in RelocSections
    PROVE  /\ Passed(k) \subseteq Passed(k)'
           /\ \A e \in Passed(k)' : e \in Passed(k) \/ (k = scn /\ e = rel_list[i])
           /\ k = scn => rel_list[i] \in Passed(k)'
<1>1. /\ pc = "reloc_do" /\ i <= nreloc /\ i' = i + 1 /\ status' = status
      /\ UNCHANGED <<elf, rel_list, scn>>
  BY DEF RelocEntry, RelocFrame, inputVars, Exit, Goto
<1>2. ~Over /\ ~Over'
  BY <1>1 DEF Over, WritePlaces
<1>3. i \in Nat /\ i >= 1 /\ k \in Nat /\ scn \in Nat
  BY <1>1, Listed DEF RelocSections, SectionIndex, IInv, TypeOK
<1>4. EntriesOf(k)' = EntriesOf(k) /\ (Behind(k)' <=> Behind(k))
  BY <1>1, SameSets DEF Behind
<1>5. ~Behind(scn)
  BY <1>1, <1>3 DEF Behind
<1>6. i' - 1 = i /\ 1 .. i = (1 .. (i - 1)) \cup {i}
  BY <1>1, <1>3
<1>8. Passed(k)' = IF Behind(k) THEN EntriesOf(k)
                   ELSE IF k = scn THEN {rel_list[q] : q \in 1 .. i} ELSE {}
  BY <1>1, <1>2, <1>4, <1>6 DEF Passed
<1>9. Passed(k) = IF Behind(k) THEN EntriesOf(k)
                  ELSE IF k = scn THEN {rel_list[q] : q \in 1 .. (i - 1)} ELSE {}
  BY <1>1, <1>2 DEF Passed
<1> QED BY <1>5, <1>6, <1>8, <1>9

LEMMA EntryRewriting ==
    ASSUME IInv, Linked, SectionsMet(Len(elf.sections)), ListKnown, Ordered, AsInFile,
           OpenPairs, Rewriting, RelocEntry, pc' = "reloc_do", status # "ok"
    PROVE  Rewriting'
<1>1. PICK rel : rel = rel_list[i]
  OBVIOUS
<1>2. PICK o : o = rel.offset - elf.ep
  OBVIOUS
<1>3. PICK w : w = OriginalWord(rel.offset)
  OBVIOUS
<1>4. PICK a : a = TargetOf(scn, rel)
  OBVIOUS
<1>5. PICK h : h = HiOf(scn, rel)
  OBVIOUS
<1>6. PICK hp : hp = h.offset - elf.ep
  OBVIOUS
<1>7. /\ Sound(scn, rel)
      /\ rel.type = R_MIPS_LO16 =>
           /\ h \in His(scn) /\ IsHiOf(scn, h, rel)
           /\ \E q \in 1 .. (i - 1) : rel_list[q] = h
  BY <1>1, <1>2, <1>3, <1>4, <1>5, EntryEffect
<1>8. /\ pc = "reloc_do" /\ i <= nreloc /\ i' = i + 1 /\ status' = status
      /\ UNCHANGED <<elf, rel_list, scn, elf_starts, ovl_starts, sizes>>
  BY DEF RelocEntry, RelocFrame, inputVars, Exit, Goto
<1>9. /\ DistinctOffsets /\ WellFormed(elf) /\ pc \in SecondPass /\ ~Over
      /\ scn \in RelocSections /\ rel \in EntriesOf(scn) /\ o \in Offsets /\ memory[o] = w
  BY <1>1, <1>2, <1>3, <1>8, Turn, Listed DEF Linked, Placed, IInv, TypeOK, SecondPass, Over, WritePlaces
<1>10. ASSUME NEW k \in RelocSections, NEW e \in Passed(k)
       PROVE  e \in EntriesOf(k) /\ e.offset # rel.offset /\ (k = scn => e.offset < rel.offset)
  BY <1>1, <1>8, <1>9, <1>10, TurnIsNew
<1>11. ASSUME NEW k \in RelocSections
       PROVE  /\ Passed(k) \subseteq Passed(k)'
              /\ \A e \in Passed(k)' : e \in Passed(k) \/ (k = scn /\ e = rel)
              /\ k = scn => rel \in Passed(k)'
  BY <1>1, <1>9, NextPassed
<1>12. \A k \in RelocSections : \A e \in Passed(k)' : Sound(k, e)
  BY <1>7, <1>8, <1>9, <1>11 DEF Rewriting
<1>13. ASSUME NoneHigh, NEW k \in RelocSections, NEW e \in Passed(k)'
       PROVE  Rewritten(k, e)'
  <2> DEFINE in(f)  == memory[f.offset - elf.ep]
             now(f) == memory'[f.offset - elf.ep]
             t      == MovedTo(TargetOf(k, e))
             we     == OriginalWord(e.offset)
  <2>1. EntryWords(rel, o, w, a, hp)
    BY <1>1, <1>2, <1>3, <1>4, <1>5, <1>6, <1>13, EntryWrites
  <2>2. \A b : MovedTo(b)' = MovedTo(b)
    BY <1>8, SamePlacesInFile DEF MovedTo
  <2>3. /\ MovedTo(TargetOf(k, e))' = t /\ OriginalWord(e.offset)' = we
        /\ HiOf(k, e)' = HiOf(k, e) /\ LosOf(k, HiOf(k, e))' = LosOf(k, HiOf(k, e))
        /\ \A m : Moves(k, m)' <=> Moves(k, m)
    BY <1>8, <2>2, SameTargets, SamePairs, SamePlacesInFile, SameKept
  <2>4. e \in EntriesOf(k)
    BY <1>9, <1>10, <1>11, <1>13
  <2>5. SUFFICES
          /\ e.type = R_MIPS_HI16 => now(e) \div Half = we \div Half
          /\ Moves(k, e) =>
              /\ e.type = R_MIPS_32 => now(e) = t
              /\ e.type = R_MIPS_26 => now(e) = WithTarget(we, t)
              /\ e.type = R_MIPS_LO16 =>
                    /\ now(e) = WithImm(we, LoPart(t))
                    /\ LastMoved(k, e)' => Imm(now(HiOf(k, e))) = HiPart(t)
    BY <1>8, <2>3 DEF Rewritten, InMemory
  <2>6. /\ R_MIPS_32 # R_MIPS_26 /\ R_MIPS_32 # R_MIPS_HI16 /\ R_MIPS_32 # R_MIPS_LO16
        /\ R_MIPS_26 # R_MIPS_HI16 /\ R_MIPS_26 # R_MIPS_LO16 /\ R_MIPS_HI16 # R_MIPS_LO16
    BY DEF R_MIPS_32, R_MIPS_26, R_MIPS_HI16, R_MIPS_LO16
  <2>7. CASE k = scn /\ e = rel
    <3>1. now(e) = memory'[o] /\ we = w /\ t = MovedTo(a) /\ HiOf(k, e) = h /\ now(h) = memory'[hp]
      BY <1>2, <1>3, <1>4, <1>5, <1>6, <2>7
    <3> HIDE DEF now, we, t
    <3> QED BY <1>9, <2>1, <2>6, <2>7, <3>1 DEF EntryWords
  <2>8. CASE e \in Passed(k)
    <3>1. Rewritten(k, e)
      BY <1>9, <1>13, <2>8 DEF Rewriting
    <3>2. /\ e.type = R_MIPS_HI16 => in(e) \div Half = we \div Half
          /\ Moves(k, e) =>
              /\ e.type = R_MIPS_32 => in(e) = t
              /\ e.type = R_MIPS_26 => in(e) = WithTarget(we, t)
              /\ e.type = R_MIPS_LO16 =>
                    /\ in(e) = WithImm(we, LoPart(t))
                    /\ LastMoved(k, e) => Imm(in(HiOf(k, e))) = HiPart(t)
      BY <3>1 DEF Rewritten, InMemory
    <3>3. ASSUME NEW f \in EntriesOf(k), f.offset # rel.offset,
                 rel.type = R_MIPS_LO16 => f.offset # h.offset
          PROVE  now(f) = in(f)
      <4>1. f.offset \in Nat /\ f.offset - elf.ep \in Offsets /\ elf.ep \in Nat
        BY <1>9, <3>3, EntryTypes, Spans DEF WellFormed, Words
      <4>2. rel.offset \in Nat /\ f.offset - elf.ep # o
        BY <1>2, <1>9, <3>3, <4>1, EntryTypes
      <4>3. rel.type = R_MIPS_LO16 => f.offset - elf.ep # hp
        <5>1. rel.type = R_MIPS_LO16 => h.offset \in Nat
          BY <1>7, <1>9, EntryTypes DEF His
        <5> QED BY <1>6, <3>3, <4>1, <5>1
      <4> QED BY <2>1, <4>1, <4>2, <4>3 DEF EntryWords
    <3>4. ASSUME NEW f \in EntriesOf(k), rel.type = R_MIPS_LO16, f.offset = h.offset
          PROVE  f = h /\ k = scn
      BY <1>7, <1>9, <3>4, EntriesDistinct DEF His
    <3>5. rel.type = R_MIPS_LO16 => h.type = R_MIPS_HI16
      BY <1>7 DEF His
    <3>6. e.offset # rel.offset
      BY <1>10, <2>8
    <3>7. e.type # R_MIPS_HI16 => now(e) = in(e)
      BY <2>4, <3>3, <3>4, <3>5, <3>6
    <3>8. now(e) \div Half = in(e) \div Half
      <4>1. CASE rel.type = R_MIPS_LO16 /\ e.offset = h.offset
        <5>1. now(e) = memory'[hp] /\ in(e) = memory[hp]
          BY <1>6, <4>1
        <5> QED BY <2>1, <2>6, <4>1, <5>1 DEF EntryWords
      <4>2. CASE ~(rel.type = R_MIPS_LO16 /\ e.offset = h.offset)
        BY <2>4, <3>3, <3>6, <4>2
      <4> QED BY <4>1, <4>2
    <3>9. ASSUME e.type = R_MIPS_LO16, Moves(k, e), LastMoved(k, e)'
          PROVE  LastMoved(k, e) /\ now(HiOf(k, e)) = in(HiOf(k, e))
      <4> DEFINE g == HiOf(k, e)
      <4>1. \A m \in LosOf(k, g) : m \in Passed(k)' /\ Moves(k, m) => m.offset <= e.offset
        BY <2>3, <3>9 DEF LastMoved
      <4>2. LastMoved(k, e)
        BY <1>11, <4>1 DEF LastMoved
      <4>3. Sound(k, e)
        BY <1>12
      <4>4. g \in His(k) /\ IsHiOf(k, g, e)
        <5>1. Paired(k, e)
          BY <3>9, <4>3 DEF Sound, Fine
        <5>2. PICK f \in His(k) : IsHiOf(k, f, e)
          BY <1>9, <2>4, <5>1, LastOpener
        <5> QED BY <1>9, <5>2, HiFound
      <4>5. g \in EntriesOf(k) /\ g.type = R_MIPS_HI16
        BY <4>4 DEF His
      <4>6. CASE rel.type = R_MIPS_HI16 \/ ~Moves(scn, rel)
        BY <2>1, <4>2, <4>6 DEF EntryWords
      <4>7. CASE rel.type # R_MIPS_HI16 /\ Moves(scn, rel)
        <5>1. g.offset # rel.offset
          BY <1>9, <4>5, <4>7, EntriesDistinct
        <5>2. ASSUME rel.type = R_MIPS_LO16, g.offset = h.offset PROVE FALSE
          <6>1. g = h /\ k = scn
            BY <3>4, <4>5, <5>2
          <6>2. rel \in LosOf(k, g)
            BY <1>7, <1>9, <5>2, <6>1 DEF LosOf, Los
          <6>3. rel.offset <= e.offset
            BY <1>9, <1>11, <4>1, <4>7, <6>1, <6>2
          <6>4. e.offset < rel.offset /\ e.offset \in Nat /\ rel.offset \in Nat
            BY <1>9, <1>10, <2>4, <2>8, <6>1, EntryTypes
          <6> QED BY <6>3, <6>4
        <5>3. now(g) = in(g)
          BY <3>3, <4>5, <5>1, <5>2
        <5> QED BY <4>2, <5>3
      <4> QED BY <4>6, <4>7
    <3> HIDE DEF now, in, we, t
    <3> QED BY <2>6, <3>2, <3>7, <3>8, <3>9
  <2> QED BY <1>11, <1>13, <2>7, <2>8
<1>14. (NoneHigh' <=> NoneHigh) /\ RelocSections' = RelocSections
  BY <1>8, SameSets DEF NoneHigh
<1>15. \A k \in RelocSections : \A e \in Passed(k)' :
          Sound(k, e)' /\ (NoneHigh => Rewritten(k, e)')
  BY <1>8, <1>12, <1>13, SameTargets
<1> QED BY <1>14, <1>15 DEF Rewriting

-----------------------------------------------------------------------------
(* Where nothing is rewritten and nothing is passed, all stays as it is. *)
LEMMA KeptRewriting ==
    ASSUME Rewriting, pc \in SecondPass \/ Over, UNCHANGED <<elf, memory, ovl_starts, sizes>>,
           \A k \in RelocSections : Passed(k)' = Passed(k)
    PROVE  Rewriting'
<1>1. /\ RelocSections' = RelocSections /\ (NoneHigh' <=> NoneHigh)
      /\ \A k, e : Sound(k, e)' <=> Sound(k, e)
  BY SameSets, SameTargets DEF NoneHigh
<1>2. ASSUME NEW k \in RelocSections, NEW e, Rewritten(k, e)
      PROVE  Rewritten(k, e)'
  <2>1. \A b : MovedTo(b)' = MovedTo(b)
    BY SamePlacesInFile DEF MovedTo
  <2>2. /\ MovedTo(TargetOf(k, e))' = MovedTo(TargetOf(k, e))
        /\ OriginalWord(e.offset)' = OriginalWord(e.offset)
        /\ HiOf(k, e)' = HiOf(k, e) /\ LosOf(k, HiOf(k, e))' = LosOf(k, HiOf(k, e))
        /\ \A m : Moves(k, m)' <=> Moves(k, m)
    BY <2>1, SameTargets, SamePairs, SamePlacesInFile, SameKept
  <2>3. LastMoved(k, e)' <=> LastMoved(k, e)
    BY <2>2 DEF LastMoved
  <2>4. \A f : InMemory(f)' = InMemory(f)
    BY DEF InMemory
  <2>5. InMemory(HiOf(k, e))' = InMemory(HiOf(k, e)) /\ InMemory(e)' = InMemory(e)
    BY <2>2, <2>4 DEF InMemory
  <2> QED BY <1>2, <2>2, <2>3, <2>5 DEF Rewritten
<1>3. \A k \in RelocSections : \A e \in Passed(k) :
         Sound(k, e) /\ (NoneHigh => Rewritten(k, e))
  BY DEF Rewriting
<1>4. \A k \in RelocSections : \A e \in Passed(k)' :
         Sound(k, e)' /\ (NoneHigh' => Rewritten(k, e)')
  BY <1>1, <1>2, <1>3
<1> QED BY <1>1, <1>4 DEF Rewriting

LEMMA StartImage == ASSUME IInv, FileInv', Layout PROVE OpenPairs' /\ Rewriting' /\ ~Over'
<1>1. pc' = "reloc_scan" /\ scn' = 0 /\ elf' = elf
  BY DEF Layout, Goto, inputVars
<1>2. ~Over'
  BY <1>1 DEF Over, WritePlaces, FileInv, NothingWritten
<1>3. \A k \in RelocSections' : ~Behind(k)'
  <2>1. \A k \in RelocSections : k \in Nat /\ k >= 1
    BY DEF IInv, TypeOK, RelocSections, SectionIndex
  <2>2. RelocSections' = RelocSections
    BY <1>1, SameSets
  <2> QED BY <1>1, <2>1, <2>2 DEF Behind
<1>4. \A k \in RelocSections' : Passed(k)' = {}
  BY <1>1, <1>2, <1>3 DEF Passed
<1> QED BY <1>1, <1>2, <1>4 DEF OpenPairs, Rewriting

LEMMA FillImage ==
    ASSUME IInv, FileInv, FileInv', ListKnown, Rewriting, RelocScan \/ RelocSort
    PROVE  OpenPairs' /\ Rewriting' /\ ~Over'
<1>1. /\ pc \in {"reloc_scan", "reloc_sort"} /\ pc' \in SecondPass
      /\ UNCHANGED <<elf, memory, ovl_starts, sizes>>
  BY DEF RelocScan, RelocSort, RelocFrame, inputVars, ScanSkips, ScanFinds, SortInserts,
         SortEnds, SecondPass, Goto
<1>2. ~Over /\ ~Over'
  BY <1>1 DEF Over, WritePlaces, FileInv, NothingWritten, SecondPass
<1>3. pc' = "reloc_do" => i' = 1 /\ hilopair' = NoHiLoPairs
  BY DEF RelocScan, RelocSort, ScanSkips, ScanFinds, SortInserts, SortEnds, Goto, ListKnown
<1>4. OpenPairs'
  <2>1. ASSUME pc' = "reloc_do" PROVE \A r \in Registers : hilopair'[r].status = "invalid"
    BY <1>3, <2>1 DEF NoHiLoPairs
  <2> QED BY <2>1 DEF OpenPairs
<1>5. ASSUME NEW k \in RelocSections PROVE Passed(k)' = Passed(k)
  <2>1. Behind(k)' <=> Behind(k)
    BY SameFront
  <2>2. Passed(k) = IF Behind(k) THEN EntriesOf(k) ELSE {}
    BY <1>1, <1>2 DEF Passed
  <2>3. EntriesOf(k)' = EntriesOf(k)
    BY <1>1, SameSets
  <2>4. CASE pc' # "reloc_do"
    BY <1>2, <2>1, <2>2, <2>3, <2>4 DEF Passed
  <2>5. CASE pc' = "reloc_do"
    <3>1. 1 .. (i' - 1) = {}
      BY <1>3, <2>5
    <3>2. {rel_list'[q] : q \in 1 .. (i' - 1)} = {}
      BY <3>1
    <3> QED BY <1>2, <2>1, <2>2, <2>3, <2>5, <3>2 DEF Passed
  <2> QED BY <2>4, <2>5
<1> QED BY <1>1, <1>2, <1>4, <1>5, KeptRewriting DEF SecondPass

LEMMA NextImage ==
    ASSUME IInv, FileInv, FileInv', ListKnown, Ordered, Rewriting, RelocNext
    PROVE  OpenPairs' /\ Rewriting' /\ ~Over'
<1>1. /\ pc = "reloc_do" /\ pc' = "reloc_scan" /\ i > nreloc
      /\ UNCHANGED <<elf, scn, memory, ovl_starts, sizes>>
  BY DEF RelocNext, RelocFrame, inputVars, loopVars, ListEnds, Goto
<1>2. ~Over /\ ~Over'
  BY <1>1 DEF Over, WritePlaces, FileInv, NothingWritten, SecondPass
<1>3. ASSUME NEW k \in RelocSections PROVE Passed(k)' = Passed(k)
  <2>1. EntriesOf(k)' = EntriesOf(k) /\ k \in Nat /\ scn \in Nat
    BY <1>1, SameSets DEF RelocSections, SectionIndex, IInv, TypeOK, PassTypeOK
  <2>2. Behind(k)' <=> (Behind(k) \/ k = scn)
    BY <1>1 DEF Behind
  <2>3. Passed(k)' = IF Behind(k) \/ k = scn THEN EntriesOf(k) ELSE {}
    BY <1>1, <1>2, <2>1, <2>2 DEF Passed
  <2>4. CASE k = scn
    <3>1. /\ i - 1 = nreloc /\ \A q \in 1 .. nreloc : rel_list[q] \in EntriesOf(scn)
          /\ \A e \in EntriesOf(scn) : \E q \in 1 .. nreloc : rel_list[q] = e
      BY <1>1, Listed
    <3>2. {rel_list[q] : q \in 1 .. (i - 1)} = EntriesOf(k)
      BY <2>4, <3>1
    <3>3. Passed(k) = EntriesOf(k)
      BY <1>1, <1>2, <2>4, <3>2 DEF Passed
    <3> QED BY <2>3, <2>4, <3>3
  <2>5. CASE k # scn
    BY <1>1, <1>2, <2>3, <2>5 DEF Passed
  <2> QED BY <2>4, <2>5
<1> QED BY <1>1, <1>2, <1>3, KeptRewriting DEF OpenPairs, SecondPass

LEMMA EndImage ==
    ASSUME IInv, FileInv, Linked, SectionsKnown, AsInFile, Rewriting, RelocEnd
    PROVE  OpenPairs' /\ Rewriting' /\ OthersKept' /\ StillMet'
<1>1. /\ pc = "reloc_scan" /\ pc' = "check_count" /\ scn = Len(elf.sections)
      /\ UNCHANGED <<elf, scn, memory, elf_starts, ovl_starts, sizes>>
  BY DEF RelocEnd, RelocFrame, inputVars, loopVars, Goto
<1>2. ~Over /\ Over'
  BY <1>1 DEF Over, WritePlaces, FileInv, NothingWritten
<1>3. ASSUME NEW k \in RelocSections PROVE Passed(k)' = Passed(k)
  <2>1. EntriesOf(k)' = EntriesOf(k) /\ k \in 1 .. scn /\ scn \in Nat
    BY <1>1, SameSets DEF RelocSections, SectionIndex, IInv, TypeOK, PassTypeOK
  <2>2. Behind(k)
    BY <1>1, <2>1 DEF Behind
  <2> QED BY <1>2, <2>1, <2>2 DEF Passed
<1>4. Rewriting'
  BY <1>1, <1>3, KeptRewriting DEF SecondPass
<1>5. SectionsMet(Len(elf.sections))'
  <2>1. SectionsMet(Len(elf.sections))
    BY <1>1 DEF SectionsKnown, SecondPass
  <2>2. PICK n : n = Len(elf.sections)
    OBVIOUS
  <2>3. SectionsMet(n)'
    BY <1>1, <2>1, <2>2, SameSections
  <2> QED BY <1>1, <2>2, <2>3 DEF SectionsMet
<1>6. ASSUME NEW x \in Offsets, memory[x] # OriginalWord(x + elf.ep)
      PROVE  \E k \in RelocSections : \E e \in EntriesOf(k) : e.offset = x + elf.ep
  <2>1. Touched(x + elf.ep)
    BY <1>1, <1>6 DEF AsInFile, OnlyTouched, Original, SecondPass
  <2>2. PICK k \in SectionIndex : NamedIn(k, x + elf.ep)
    BY <1>1, <2>1 DEF Touched
  <2>3. PICK p \in DOMAIN elf.sections[k].rels : elf.sections[k].rels[p].offset = x + elf.ep
    BY <2>2 DEF NamedIn
  <2>4. k \in RelocSections /\ elf.sections[k].rels[p] \in EntriesOf(k)
    BY <2>2 DEF NamedIn, EntriesOf, ToSet
  <2> QED BY <2>3, <2>4
<1>7. OthersKept'
  <2>1. \A b : OriginalWord(b)' = OriginalWord(b)
    BY <1>1, SamePlacesInFile
  <2> QED BY <1>1, <1>6, <2>1, SameSets DEF OthersKept
<1> QED BY <1>1, <1>4, <1>5, <1>7 DEF OpenPairs, StillMet

LEMMA StayImage ==
    ASSUME Over, Rewriting, OthersKept, StillMet,
           UNCHANGED <<elf, scn, memory, elf_starts, ovl_starts, sizes>>,
           pc' \notin SecondPass
    PROVE  OpenPairs' /\ Rewriting' /\ OthersKept' /\ StillMet'
<1>1. OpenPairs'
  BY DEF OpenPairs, SecondPass
<1>2. Rewriting'
  <2>1. CASE ~Over'
    BY <2>1 DEF Rewriting
  <2>2. CASE Over'
    <3>1. \A k \in RelocSections : Passed(k)' = Passed(k)
      BY <2>2, SameSets DEF Passed
    <3> QED BY <3>1, KeptRewriting
  <2> QED BY <2>1, <2>2
<1>3. StillMet'
  <2>1. PICK n : n = Len(elf.sections)
    OBVIOUS
  <2>2. SectionsMet(n)'
    BY <2>1, SameSections DEF StillMet
  <2> QED BY <2>1, <2>2 DEF SectionsMet, StillMet
<1>4. OthersKept'
  <2>1. \A b : OriginalWord(b)' = OriginalWord(b)
    BY SamePlacesInFile
  <2> QED BY <2>1, SameSets DEF OthersKept
<1> QED BY <1>1, <1>2, <1>3, <1>4

-----------------------------------------------------------------------------
LEMMA InitImage == Init => ImageInv
<1> SUFFICES ASSUME Init PROVE ImageInv
  OBVIOUS
<1>1. pc = "open" /\ status = "running"
  BY DEF Init
<1>2. SectionsKnown
  BY InitLoading
<1> QED BY <1>1, <1>2 DEF ImageInv, AsInFile, Ordered, OpenPairs, Rewriting, OthersKept, StillMet,
        Over, SecondPass, WritePlaces

LEMMA EarlyImage ==
    ASSUME IInv, FileInv', ImageInv,
           \/ Open \/ CreateFails \/ Create \/ LoadSkip \/ LoadDuplicate \/ LoadSection
           \/ LoadEnd \/ CountScan \/ CountSort \/ CountEntry \/ CountNext \/ CountEnd
    PROVE  ImageInv'
<1>1. /\ pc' \in {"create", "load", "count_scan", "count_sort", "count_do", "layout", "exit"}
      /\ elf' = elf
      /\ pc' = "exit" => status' \in {"err_input", "err_output", "err_multiple", "err_bounds", "err_reloc"}
  <2>1. CASE Open \/ CreateFails \/ Create
    BY <2>1 DEF Open, CreateFails, Create, Exit, Goto, inputVars
  <2>2. CASE LoadSkip \/ LoadDuplicate \/ LoadSection \/ LoadEnd
    BY <2>2 DEF LoadSkip, LoadDuplicate, LoadSection, LoadEnd, LoadFrame, Exit, Goto, inputVars
  <2>3. CASE CountScan \/ CountSort \/ CountNext \/ CountEnd
    BY <2>3 DEF CountScan, CountSort, CountNext, CountEnd, CountFrame, ScanSkips, ScanFinds,
       SortInserts, SortEnds, ListEnds, Exit, Goto, inputVars
  <2>4. CASE CountEntry
    BY <2>4 DEF CountEntry, inputVars
  <2> QED BY <2>1, <2>2, <2>3, <2>4
<1>2. SUFFICES ASSUME Linked'
               PROVE  /\ SectionsKnown' /\ AsInFile' /\ Ordered'
                      /\ OpenPairs' /\ Rewriting' /\ OthersKept' /\ StillMet'
  BY DEF ImageInv
<1>3. Linked /\ SectionsKnown
  BY <1>1, <1>2, SameLinked DEF ImageInv
<1>4. SectionsKnown'
  BY <1>3, EarlyLoading, LoadSkipLoading, LoadSectionLoading, LoadEndLoading, PassLoading
<1>5. ~Over'
  BY <1>1 DEF Over, WritePlaces, FileInv, NothingWritten
<1>6. pc' \notin SecondPass
  BY <1>1 DEF SecondPass
<1> QED BY <1>4, <1>5, <1>6 DEF AsInFile, Ordered, OpenPairs, Rewriting, OthersKept, StillMet, SecondPass

LEMMA PassImage ==
    ASSUME IInv, FileInv, FileInv', PassInv, ImageInv,
           Layout \/ RelocScan \/ RelocSort \/ RelocEntry \/ RelocNext \/ RelocEnd
    PROVE  ImageInv'
<1>1. elf' = elf
  BY DEF Layout, RelocScan, RelocSort, RelocEntry, RelocNext, RelocEnd, RelocFrame, inputVars
<1>2. SUFFICES ASSUME Linked'
               PROVE  /\ SectionsKnown' /\ AsInFile' /\ Ordered'
                      /\ OpenPairs' /\ Rewriting' /\ OthersKept' /\ StillMet'
  BY DEF ImageInv
<1>3. /\ Linked /\ SectionsKnown /\ AsInFile /\ Ordered /\ OpenPairs /\ Rewriting
      /\ OthersKept /\ StillMet /\ DistinctOffsets
  BY <1>1, <1>2, SameLinked DEF ImageInv, Linked, Placed
<1>4. ListKnown
  BY <1>3 DEF PassInv
<1>5. SectionsKnown'
  BY <1>3, PassLoading
<1>6. CASE Layout
  <2>1. AsInFile' /\ Ordered'
    BY <1>3, <1>6, LayoutAsInFile, ScanOrdered
  <2> QED BY <1>5, <1>6, <2>1, StartImage DEF OthersKept, StillMet
<1>7. CASE RelocScan \/ RelocSort
  <2>1. AsInFile' /\ Ordered'
    BY <1>3, <1>4, <1>7, PassAsInFile, ScanOrdered, SortOrdered
  <2> QED BY <1>3, <1>4, <1>5, <1>7, <2>1, FillImage DEF OthersKept, StillMet
<1>8. CASE RelocNext
  <2>1. AsInFile' /\ Ordered'
    BY <1>3, <1>4, <1>8, PassAsInFile, ScanOrdered
  <2> QED BY <1>3, <1>4, <1>5, <1>8, <2>1, NextImage DEF OthersKept, StillMet
<1>9. CASE RelocEnd
  <2>1. pc' = "check_count"
    BY <1>9 DEF RelocEnd, Goto
  <2>2. AsInFile' /\ Ordered'
    BY <2>1 DEF AsInFile, Ordered, SecondPass
  <2> QED BY <1>3, <1>5, <1>9, <2>2, EndImage
<1>10. CASE RelocEntry
  <2>1. pc = "reloc_do" /\ status # "ok" /\ SectionsMet(Len(elf.sections))
    BY <1>3, <1>10 DEF RelocEntry, FileInv, NothingWritten, SectionsKnown, SecondPass
  <2>2. AsInFile' /\ Ordered'
    BY <1>3, <1>4, <1>10, PassAsInFile, EntryOrdered
  <2>3. ~Over'
    BY <1>10, <2>1 DEF RelocEntry, Exit, Goto, Over, WritePlaces
  <2>4. CASE pc' = "reloc_do"
    <3>1. OpenPairs' /\ Rewriting'
      BY <1>3, <1>4, <1>10, <2>1, <2>4, EntryOpenPairs, EntryRewriting
    <3> QED BY <1>5, <2>2, <2>3, <3>1 DEF OthersKept, StillMet
  <2>5. CASE pc' # "reloc_do"
    <3>1. pc' \notin SecondPass
      BY <1>10, <2>5, <2>1 DEF RelocEntry, Exit, Goto, SecondPass
    <3> QED BY <1>5, <2>2, <2>3, <2>5, <3>1 DEF OpenPairs, Rewriting, OthersKept, StillMet
  <2> QED BY <2>4, <2>5
<1> QED BY <1>6, <1>7, <1>8, <1>9, <1>10

LEMMA WriteImage ==
    ASSUME FileInv', ImageInv,
           \/ CheckCount \/ WriteHeader \/ WriteRelocs \/ WriteFooter \/ CheckBss
           \/ WriteSection \/ CheckHeader \/ Close
    PROVE  ImageInv'
<1>1. /\ pc' \in WritePlaces \cup {"exit", "outside"} /\ pc \in WritePlaces
      /\ UNCHANGED <<elf, scn, memory, elf_starts, ovl_starts, sizes>>
  BY DEF CheckCount, WriteHeader, WriteRelocs, WriteFooter, CheckBss, WriteSection,
         CheckHeader, Close, WriteFrame, RemoveAndExit, Exit, Goto, WritePlaces, inputVars, engineVars
<1>2. SUFFICES ASSUME Linked'
               PROVE  /\ SectionsKnown' /\ AsInFile' /\ Ordered'
                      /\ OpenPairs' /\ Rewriting' /\ OthersKept' /\ StillMet'
  BY DEF ImageInv
<1>3. SectionsKnown /\ Rewriting /\ OthersKept /\ StillMet
  BY <1>1, <1>2, SameLinked DEF ImageInv
<1>4. pc' \notin SecondPass
  BY <1>1 DEF WritePlaces, SecondPass
<1>5. AsInFile' /\ Ordered'
  BY <1>4 DEF AsInFile, Ordered, SecondPass
<1>6. SectionsKnown'
  BY <1>3, WriteLoading
<1>7. Over
  BY <1>1 DEF Over
<1> QED BY <1>1, <1>3, <1>4, <1>5, <1>6, <1>7, StayImage

LEMMA StutterImage == ASSUME FileInv, ImageInv, UNCHANGED vars PROVE ImageInv'
<1>1. /\ UNCHANGED <<elf, memory, hilopair, pc, scn, rel_list, nreloc, i>>
      /\ UNCHANGED <<status, elf_starts, ovl_starts, sizes>>
  BY DEF vars, engineVars, inputVars, loopVars
<1>2. SUFFICES ASSUME Linked'
               PROVE  /\ SectionsKnown' /\ AsInFile' /\ Ordered'
                      /\ OpenPairs' /\ Rewriting' /\ OthersKept' /\ StillMet'
  BY DEF ImageInv
<1>3. /\ SectionsKnown /\ AsInFile /\ Ordered /\ OpenPairs /\ Rewriting
      /\ OthersKept /\ StillMet
  BY <1>1, <1>2, SameLinked DEF ImageInv
<1>4. AsInFile'
  <2>1. PICK W : W = Original
    OBVIOUS
  <2>2. Original' = W
    BY <1>1, <2>1, SameOriginal
  <2>3. \A a : Touched(a) => Touched(a)'
    BY <1>1 DEF Touched, Done, NamedIn, RelocSections, SectionIndex
  <2>4. OnlyTouched(W) => OnlyTouched(W)'
    BY <1>1, <2>3, StillTouched
  <2> QED BY <1>1, <1>3, <2>1, <2>2, <2>4 DEF AsInFile
<1>5. Ordered'
  BY <1>1, <1>3 DEF Ordered, Current
<1>6. OpenPairs'
  <2>1. \A b : OriginalWord(b)' = OriginalWord(b)
    BY <1>1, SamePlacesInFile
  <2>2. \A q, r : SetsLast(q, r)' <=> SetsLast(q, r)
    BY <1>1, <2>1 DEF SetsLast
  <2> QED BY <1>1, <1>3, <2>2 DEF OpenPairs
<1>7. Over' <=> Over
  BY <1>1 DEF Over
<1>8. \A k : Passed(k)' = Passed(k)
  <2> SUFFICES ASSUME NEW k PROVE Passed(k)' = Passed(k)
    OBVIOUS
  <2>1. EntriesOf(k)' = EntriesOf(k) /\ (Behind(k)' <=> Behind(k))
    BY <1>1, SameSets DEF Behind
  <2> QED BY <1>1, <1>7, <2>1 DEF Passed
<1>9. Rewriting'
  <2>1. CASE pc \in SecondPass \/ Over
    BY <1>1, <1>3, <1>8, <2>1, KeptRewriting
  <2>2. CASE ~(pc \in SecondPass \/ Over)
    BY <1>1, <1>7, <2>2 DEF Rewriting, SecondPass
  <2> QED BY <2>1, <2>2
<1>10. StillMet'
  <2>1. PICK n : n = Len(elf.sections)
    OBVIOUS
  <2>2. Over => SectionsMet(n)'
    BY <1>1, <1>3, <2>1, SameSections DEF StillMet
  <2> QED BY <1>1, <1>7, <2>1, <2>2 DEF SectionsMet, StillMet
<1>11. OthersKept'
  <2>1. \A b : OriginalWord(b)' = OriginalWord(b)
    BY <1>1, SamePlacesInFile
  <2> QED BY <1>1, <1>3, <1>7, <2>1, SameSets DEF OthersKept
<1> QED BY <1>3, <1>4, <1>5, <1>6, <1>9, <1>10, <1>11, StutterLoading

(***************************************************************************)
(* The image while it is relocated (novl-conv.c:390-527), for every linked *)
(* file: what has been rewritten so far is as the layout asks for, whether *)
(* or not the halves of pairs follow each other and however many LO16s     *)
(* share a HI16; what no entry names is as in the ELF file.                *)
(***************************************************************************)
THEOREM ImageInvariant == Spec => []ImageInv
<1>1. Init => ImageInv
  BY InitImage
<1>2. IInv /\ FileInv /\ FileInv' /\ PassInv /\ ImageInv /\ [Next]_vars => ImageInv'
  <2> SUFFICES ASSUME IInv, FileInv, FileInv', PassInv, ImageInv, [Next]_vars
               PROVE  ImageInv'
    OBVIOUS
  <2>1. CASE \/ Open \/ CreateFails \/ Create \/ LoadSkip \/ LoadDuplicate \/ LoadSection
             \/ LoadEnd \/ CountScan \/ CountSort \/ CountEntry \/ CountNext \/ CountEnd
    BY <2>1, EarlyImage
  <2>2. CASE Layout \/ RelocScan \/ RelocSort \/ RelocEntry \/ RelocNext \/ RelocEnd
    BY <2>2, PassImage
  <2>3. CASE \/ CheckCount \/ WriteHeader \/ WriteRelocs \/ WriteFooter \/ CheckBss
             \/ WriteSection \/ CheckHeader \/ Close
    BY <2>3, WriteImage
  <2>4. CASE Exited \/ UNCHANGED vars
    BY <2>4, StutterImage DEF Exited
  <2> QED BY <2>1, <2>2, <2>3, <2>4 DEF Next
<1> QED BY <1>1, <1>2, Invariant, FileInvariant, PassInvariant, PTL DEF Spec

-----------------------------------------------------------------------------
(* The sections in the file are those of the image, where the layout has put them. *)
SectionThere(s) ==
    \A k \in 1 .. (sizes[s] \div 4) :
        Holding(OffsetOf(s) + 4 * (k - 1), memory[elf_starts[s] - elf.ep + 4 * (k - 1)])

AllThere == (\A s \in {TEXT, DATA, RODATA} : SectionThere(s)) /\ ArrangedUpTo(BSS)

SectionsThere ==
    /\ pc = "write_section" => \A s \in 0 .. (i - 1) : SectionThere(s)
    /\ pc = "close" \/ (status = "ok" /\ out = "written") => AllThere

LEMMA SameThere ==
    ASSUME UNCHANGED <<elf, memory, elf_starts, ovl_starts, sizes, base_addr, file>>
    PROVE  (\A s : SectionThere(s)' <=> SectionThere(s)) /\ (AllThere' <=> AllThere)
<1>1. \A s : OffsetOf(s)' = OffsetOf(s)
  BY DEF OffsetOf
<1>2. \A o, w : Holding(o, w)' <=> Holding(o, w)
  BY DEF Holding
<1>3. ASSUME NEW s PROVE SectionThere(s)' <=> SectionThere(s)
  BY <1>1 DEF SectionThere, Holding
<1>4. ArrangedUpTo(BSS)' <=> ArrangedUpTo(BSS)
  BY <1>1 DEF ArrangedUpTo
<1> QED BY <1>3, <1>4 DEF AllThere

LEMMA SectionWritten ==
    ASSUME IInv, FileInv, SectionsThere, WriteSection
    PROVE  SectionsThere'
<1>1. /\ pc = "write_section" /\ WriteFrame /\ i < BSS /\ i \in {TEXT, DATA, RODATA}
      /\ i \in SectionIds /\ i \in Nat /\ status # "ok"
  BY OutputFacts DEF WriteSection, BSS, TEXT, DATA, RODATA, SectionIds, FileInv, NothingWritten
<1>2. UNCHANGED <<elf, memory, elf_starts, ovl_starts, sizes, base_addr>>
  BY <1>1 DEF WriteFrame, engineVars, inputVars
<1>3. CASE RemoveAndExit("err_arrange")
  BY <1>3 DEF RemoveAndExit, Exit, SectionsThere
<1>4. CASE /\ LiesInMemory(i) /\ file' = WriteAt(pos, SectionImage(i)) /\ i' = i + 1
           /\ UNCHANGED <<out, pc, status>>
  <2>1. PICK n : n = i
    OBVIOUS
  <2>2. pos = OffsetOf(n) /\ pos \in Nat /\ FileOK /\ n \in {TEXT, DATA, RODATA} /\ n \in Nat
    BY <1>1, <2>1, OutputFacts DEF FileInv, Arranged, SectionsPlaced
  <2>3. PICK words : words = SectionImage(n)
    OBVIOUS
  <2>4. \A k \in 1 .. (sizes[n] \div 4) : words[k] = memory[elf_starts[n] - elf.ep + 4 * (k - 1)]
    BY <2>3 DEF SectionImage, PlaceOf
  <2>5. words \in Seq(Nat) /\ Len(words) = sizes[n] \div 4 /\ sizes[n] \in Nat
    <3>1. \A k \in 1 .. (sizes[n] \div 4) :
              memory[elf_starts[n] - elf.ep + 4 * (k - 1)] \in Nat
      <4>1. memory \in [Offsets -> Words] /\ \A w \in Words : w \in Nat
        BY Spans DEF IInv, TypeOK, EngineTypeOK, Words
      <4>2. \A k \in 1 .. (sizes[n] \div 4) : elf_starts[n] - elf.ep + 4 * (k - 1) \in Offsets
        BY <1>4, <2>1 DEF LiesInMemory, PlaceOf
      <4> QED BY <4>1, <4>2
    <3>2. sizes[n] \in Nat /\ sizes[n] \div 4 \in Nat
      BY <1>1, <2>1, OutputFacts
    <3>3. words \in [1 .. (sizes[n] \div 4) -> Nat]
      BY <2>3, <3>1 DEF SectionImage, PlaceOf
    <3> QED BY <3>2, <3>3
  <2>6. /\ \A o \in DOMAIN file : o < pos => o \in DOMAIN file' /\ file'[o] = file[o]
        /\ \A k \in 1 .. Len(words) :
              pos + 4 * (k - 1) \in DOMAIN file' /\ file'[pos + 4 * (k - 1)] = words[k]
    BY <1>4, <2>1, <2>2, <2>3, <2>5, Written
  <2>7. \A s : OffsetOf(s)' = OffsetOf(s)
    BY <1>2 DEF OffsetOf
  <2>8. SectionThere(n)'
    <3>1. \A k \in 1 .. (sizes[n] \div 4) :
            /\ OffsetOf(n) + 4 * (k - 1) \in DOMAIN file'
            /\ file'[OffsetOf(n) + 4 * (k - 1)] = memory[elf_starts[n] - elf.ep + 4 * (k - 1)]
      BY <2>2, <2>4, <2>5, <2>6
    <3> QED BY <1>2, <2>7, <3>1 DEF SectionThere, Holding
  <2>9. ASSUME NEW s \in 0 .. (n - 1) PROVE SectionThere(s)'
    <3>1. SectionThere(s)
      BY <1>1, <2>1 DEF SectionsThere
    <3>2. s \in {TEXT, DATA, RODATA} /\ OffsetOf(s) + sizes[s] <= OffsetOf(n)
          /\ OffsetOf(s) \in Nat /\ sizes[s] \in Nat
      <4>1. (s = TEXT /\ n = DATA) \/ (s = TEXT /\ n = RODATA) \/ (s = DATA /\ n = RODATA)
        BY <2>2 DEF TEXT, DATA, RODATA
      <4>2. /\ sizes[TEXT] \in Nat /\ sizes[DATA] \in Nat
            /\ OffsetOf(TEXT) = 0 /\ OffsetOf(DATA) = sizes[TEXT]
            /\ OffsetOf(RODATA) = sizes[TEXT] + sizes[DATA]
        BY SizeFacts, OffsetFacts
      <4>3. CASE s = TEXT /\ n = DATA
        BY ONLY <4>2, <4>3
      <4>4. CASE s = TEXT /\ n = RODATA
        BY ONLY <4>2, <4>4
      <4>5. CASE s = DATA /\ n = RODATA
        BY ONLY <4>2, <4>5
      <4> QED BY <4>1, <4>3, <4>4, <4>5
    <3>3. ASSUME NEW k \in 1 .. (sizes[s] \div 4)
          PROVE  OffsetOf(s) + 4 * (k - 1) < pos
      BY <2>2, <3>2
    <3>4. \A k \in 1 .. (sizes[s] \div 4) :
            /\ OffsetOf(s) + 4 * (k - 1) \in DOMAIN file'
            /\ file'[OffsetOf(s) + 4 * (k - 1)] = memory[elf_starts[s] - elf.ep + 4 * (k - 1)]
      BY <2>6, <3>1, <3>3 DEF SectionThere, Holding
    <3> QED BY <1>2, <2>7, <3>4 DEF SectionThere, Holding
  <2>10. \A s \in 0 .. (i' - 1) : s \in 0 .. (n - 1) \/ s = n
    BY <1>4, <2>1, <2>2
  <2>11. \A s \in 0 .. (i' - 1) : SectionThere(s)'
    BY <2>8, <2>9, <2>10
  <2> QED BY <1>1, <1>4, <2>11 DEF SectionsThere
<1>5. CASE Goto("outside")
  BY <1>1, <1>5 DEF Goto, SectionsThere
<1> QED BY <1>1, <1>3, <1>4, <1>5 DEF WriteSection

(* The sections of an overlay that is written are in the file where the layout has
   put them, word for word as the second pass has left them in memory, and none of
   them is written over another (novl-conv.c:589-610). *)
THEOREM SectionsWritten == Spec => []SectionsThere
<1>1. Init => SectionsThere
  BY DEF Init, SectionsThere
<1>2. IInv /\ FileInv /\ FileInv' /\ SectionsThere /\ [Next]_vars => SectionsThere'
  <2> SUFFICES ASSUME IInv, FileInv, FileInv', SectionsThere, [Next]_vars
               PROVE  SectionsThere'
    OBVIOUS
  <2>1. CASE \/ Open \/ CreateFails \/ Create \/ LoadSkip \/ LoadDuplicate \/ LoadSection \/ LoadEnd
    BY <2>1 DEF Open, CreateFails, Create, LoadSkip, LoadDuplicate, LoadSection, LoadEnd, LoadFrame,
       Exit, Goto, SectionsThere, FileInv, NothingWritten
  <2>2. CASE CountScan \/ CountSort \/ CountEntry \/ CountNext \/ CountEnd \/ Layout
    BY <2>2 DEF CountScan, CountSort, CountEntry, CountNext, CountEnd, Layout, CountFrame, ScanSkips,
       ScanFinds, SortInserts, SortEnds, ListEnds, Exit, Goto, SectionsThere, FileInv, NothingWritten
  <2>3. CASE RelocScan \/ RelocSort \/ RelocEntry \/ RelocNext \/ RelocEnd
    BY <2>3 DEF RelocScan, RelocSort, RelocEntry, RelocNext, RelocEnd, ScanSkips,
       ScanFinds, SortInserts, SortEnds, ListEnds, Exit, Goto, SectionsThere, FileInv, NothingWritten
  <2>4. CASE CheckCount \/ WriteHeader \/ WriteRelocs \/ WriteFooter
    BY <2>4 DEF CheckCount, WriteHeader, WriteRelocs, WriteFooter, RemoveAndExit, Exit, Goto,
       SectionsThere, FileInv, NothingWritten
  <2>5. CASE CheckBss
    <3>1. CASE RemoveAndExit("err_bss")
      BY <3>1 DEF RemoveAndExit, Exit, SectionsThere
    <3>2. CASE i' = 0 /\ Goto("write_section")
      <4>1. pc' = "write_section" /\ status' # "ok" /\ 0 .. (i' - 1) = {}
        BY <2>5, <3>2 DEF CheckBss, Goto, FileInv, NothingWritten
      <4> QED BY <4>1 DEF SectionsThere
    <3> QED BY <2>5, <3>1, <3>2 DEF CheckBss
  <2>6. CASE WriteSection
    BY <2>6, SectionWritten
  <2>7. CASE CheckHeader
    <3>1. CASE RemoveAndExit("err_arrange")
      BY <3>1 DEF RemoveAndExit, Exit, SectionsThere
    <3>2. CASE Goto("close") /\ UNCHANGED outVars
      <4>1. pc = "write_section" /\ i = BSS /\ ArrangedUpTo(BSS)
        BY <2>7 DEF CheckHeader, FileInv, Arranged, SectionsPlaced
      <4>2. AllThere
        BY <4>1 DEF SectionsThere, AllThere, TEXT, DATA, RODATA, BSS
      <4>3. UNCHANGED <<elf, memory, elf_starts, ovl_starts, sizes, base_addr, file>>
        BY <2>7, <3>2 DEF CheckHeader, WriteFrame, engineVars, inputVars, outVars
      <4>4. AllThere'
        BY <4>2, <4>3, SameThere
      <4> QED BY <3>2, <4>4 DEF Goto, SectionsThere
    <3> QED BY <2>7, <3>1, <3>2 DEF CheckHeader
  <2>8. CASE Close
    <3>1. pc' = "exit" /\ AllThere
      BY <2>8 DEF Close, Exit, SectionsThere
    <3>2. out' = "written" => UNCHANGED <<elf, memory, elf_starts, ovl_starts, sizes, base_addr, file>>
      BY <2>8 DEF Close, WriteFrame, engineVars, inputVars
    <3>3. out' = "written" => AllThere'
      BY <3>1, <3>2, SameThere
    <3> QED BY <3>1, <3>3 DEF SectionsThere
  <2>9. CASE Exited \/ UNCHANGED vars
    <3>1. /\ UNCHANGED <<elf, memory, elf_starts, ovl_starts, sizes, base_addr, file>>
          /\ UNCHANGED <<pc, status, out, i>>
      BY <2>9 DEF Exited, vars, engineVars, inputVars, outVars, loopVars
    <3>2. (AllThere' <=> AllThere) /\ \A s : SectionThere(s)' <=> SectionThere(s)
      BY <3>1, SameThere
    <3> QED BY <3>1, <3>2 DEF SectionsThere
  <2> QED BY <2>1, <2>2, <2>3, <2>4, <2>5, <2>6, <2>7, <2>8, <2>9 DEF Next
<1> QED BY <1>1, <1>2, Invariant, FileInvariant, PTL DEF Spec

-----------------------------------------------------------------------------
(* The words of the file, by their addresses in the ELF file. *)
LEMMA FileWord ==
    ASSUME IInv, Linked, SectionsMet(Len(elf.sections)), AllThere,
           NEW a \in Nat, NEW s \in {TEXT, DATA, RODATA}, OwnerOf(a) = s, a - elf.ep \in Offsets
    PROVE  WordAt(FileOffset(a)) = memory[a - elf.ep]
<1>1. WellFormed(elf) /\ EngineTypeOK /\ elf.ep \in Nat /\ base_addr \in Nat
  BY Spans DEF IInv, TypeOK, WellFormed, Words
<1>2. s # NoSection /\ s \in SectionIds /\ s \in 0 .. (BSS - 1)
  BY DEF TEXT, DATA, RODATA, BSS, NoSection, SectionIds
<1>3. /\ AddrOf(s) = elf_starts[s] /\ elf_starts[s] \in Nat /\ sizes[s] \in Nat
      /\ elf_starts[s] <= a /\ a < elf_starts[s] + sizes[s]
      /\ \E k \in LoadedSections : IdOf(k) = s
  BY <1>1, <1>2, OwnerFacts
<1>4. PICK k \in LoadedSections : IdOf(k) = s
  BY <1>3
<1>5. /\ elf_starts[s] = elf.sections[k].addr /\ sizes[s] = RoundUp8(elf.sections[k].size)
      /\ elf.sections[k].size \in Nat
      /\ WellFormedSection(elf.sections[k], elf.ep)
  BY <1>1, <1>4, AddrFound, SectionFacts
<1>6. (elf_starts[s] - elf.ep) % 4 = 0
  BY <1>4, <1>5 DEF WellFormedSection, IdOf
<1>7. PICK z \in Nat : sizes[s] = z * 8
  <2> DEFINE z == (elf.sections[k].size + 7) \div 8
  <2>1. PICK y \in Nat : y = elf.sections[k].size
    BY <1>5
  <2>2. (y + 7) \div 8 \in Nat
    <3>1. y + 7 \in Nat /\ 8 \in Nat \ {0}
      OBVIOUS
    <3> QED BY <3>1, DivMod
  <2>3. z \in Nat
    BY <2>1, <2>2
  <2>4. sizes[s] = z * 8
    BY <1>5 DEF RoundUp8
  <2> QED BY <2>3, <2>4
<1>8. (a - elf.ep) % 4 = 0
  BY DEF Offsets
<1> DEFINE b == elf_starts[s]
           d == a - b
           n == d \div 4 + 1
<1>9. b \in Nat /\ d \in Nat /\ d % 4 = 0 /\ d < sizes[s] /\ a - elf.ep = (b - elf.ep) + d
  <2>1. b \in Nat /\ b <= a /\ a < b + sizes[s] /\ (b - elf.ep) % 4 = 0
    BY <1>3, <1>6
  <2>2. PICK ep \in Nat : ep = elf.ep
    BY <1>1
  <2>3. PICK z2 \in Nat : z2 = sizes[s]
    BY <1>3
  <2> HIDE DEF b
  <2>4. (a - ep) % 4 = 0 /\ (b - ep) % 4 = 0
    BY <1>8, <2>1, <2>2
  <2>5. d \in Nat /\ d < z2 /\ a - ep = (b - ep) + d
    BY <2>1, <2>3
  <2>6. d % 4 = 0
    BY ONLY <2>1, <2>2, <2>4, <2>5, a \in Nat
  <2> QED BY <2>1, <2>2, <2>3, <2>5, <2>6
<1>10. n \in 1 .. (sizes[s] \div 4) /\ 4 * (n - 1) = d
  <2> HIDE DEF d
  <2> QED BY <1>3, <1>7, <1>9
<1>11. Holding(OffsetOf(s) + 4 * (n - 1), memory[b - elf.ep + 4 * (n - 1)])
  BY <1>10 DEF AllThere, SectionThere
<1>12. Holding(OffsetOf(s) + d, memory[a - elf.ep])
  <2> HIDE DEF n, d, b
  <2> QED BY <1>9, <1>10, <1>11
<1>13. FileOffset(a) = OffsetOf(s) + d
  <2>1. ovl_starts[s] = base_addr + OffsetOf(s)
    BY <1>2 DEF AllThere, ArrangedUpTo
  <2>2. OffsetOf(s) \in Nat
    BY OffsetFacts, SizeFacts
  <2>3. FileOffset(a) = ovl_starts[s] - base_addr + d
    BY <1>3 DEF FileOffset
  <2> HIDE DEF d
  <2> QED BY <1>1, <1>9, <2>1, <2>2, <2>3
<1> QED BY <1>12, <1>13 DEF Holding, WordAt

(* The instruction or pointer of an entry is in the file. *)
LEMMA EntryInFile ==
    ASSUME IInv, Linked, SectionsMet(Len(elf.sections)), AllThere,
           NEW k \in RelocSections, NEW e \in EntriesOf(k)
    PROVE  NewWord(e) = InMemory(e)
<1>1. WellFormed(elf)
  BY DEF IInv, TypeOK
<1>2. e.offset \in Nat /\ e.offset - elf.ep \in Offsets
  BY <1>1, EntryTypes
<1>3. PICK s : s = RelTarget(elf.sections[k].name)
  OBVIOUS
<1>4. OwnerOf(e.offset) = s /\ s # BSS
  BY <1>3 DEF Linked, Placed, OwnRelocations
<1>5. k \in SectionIndex /\ Wanted(elf.sections[k])
  BY DEF RelocSections
<1>6. elf.sections[k] \in Sections
  BY <1>1, <1>5 DEF WellFormed, SectionIndex
<1>7. s # NoSection
  BY <1>3, <1>5 DEF Wanted
<1>8. s \in {TEXT, DATA, RODATA}
  BY <1>3, <1>4, <1>6, <1>7 DEF RelTarget, Sections, SectionNames, SectionIds, TEXT, DATA, RODATA, BSS
<1> QED BY <1>2, <1>4, <1>8, FileWord DEF NewWord, InMemory

LEMMA OriginalType ==
    ASSUME WellFormed(elf), NEW a \in Nat
    PROVE  OriginalWord(a) \in Words
<1> DEFINE at == {k \in LoadedSections :
                    /\ elf.sections[k].type = "PROGBITS"
                    /\ elf.sections[k].addr <= a
                    /\ a < elf.sections[k].addr + elf.sections[k].size}
<1>1. CASE at = {}
  BY <1>1, Spans DEF OriginalWord
<1>2. CASE at # {}
  <2>1. PICK k : k = CHOOSE j \in at : TRUE
    OBVIOUS
  <2>2. k \in at
    BY <1>2, <2>1
  <2> DEFINE s == elf.sections[k]
  <2>3. OriginalWord(a) = s.data[(a - s.addr) \div 4 + 1]
    BY <1>2, <2>1 DEF OriginalWord
  <2>4. /\ s.type = "PROGBITS" /\ s.addr <= a /\ a < s.addr + s.size /\ s.addr \in Nat
        /\ s \in Sections /\ WellFormedSection(s, elf.ep)
    BY <2>2, SectionFacts
  <2>5. s.size = 4 * Len(s.data) /\ s.data \in Seq(Words) /\ Len(s.data) \in Nat
    BY <2>4 DEF WellFormedSection, Sections
  <2>6. PICK d : d = a - s.addr
    OBVIOUS
  <2>7. PICK n : n = Len(s.data)
    OBVIOUS
  <2>8. n \in Nat /\ d \in Nat /\ d < 4 * n
    <3> HIDE DEF s
    <3>1. n \in Nat /\ s.size = 4 * n
      BY <2>5, <2>7
    <3>2. PICK ad \in Nat : ad = s.addr
      BY <2>4
    <3> QED BY <2>4, <2>6, <3>1, <3>2
  <2>9. d \div 4 + 1 \in 1 .. n
    BY ONLY <2>8
  <2> HIDE DEF s
  <2> QED BY <2>3, <2>5, <2>6, <2>7, <2>9
<1> QED BY <1>1, <1>2

(* A word of a section that is written: its own, and nobody else's. *)
LEMMA OwnWord ==
    ASSUME WellFormed(elf), Linked, NEW k \in LoadedSections, IdOf(k) \in {TEXT, DATA, RODATA},
           NEW q \in 1 .. Len(elf.sections[k].data),
           NEW a, a = elf.sections[k].addr + 4 * (q - 1)
    PROVE  a \in Nat /\ OriginalWord(a) = elf.sections[k].data[q] /\ OwnerOf(a) = IdOf(k)
<1>1. \A j \in LoadedSections :
         /\ elf.sections[j].addr \in Nat /\ elf.sections[j].size \in Nat
         /\ RoundUp8(elf.sections[j].size) \in Nat
         /\ RoundUp8(elf.sections[j].size) >= elf.sections[j].size
  BY SectionFacts
<1> DEFINE s == elf.sections[k]
<1>2. s \in Sections /\ WellFormedSection(s, elf.ep)
  BY SectionFacts
<1>3. s.type = "PROGBITS" /\ s.size = 4 * Len(s.data) /\ Len(s.data) \in Nat
  <2>1. ~Unchecked(IdOf(k))
    BY DEF Linked, Placed
  <2>2. s.type = "PROGBITS"
    BY <2>1 DEF Unchecked, IdOf
  <2> QED BY <1>2, <2>2 DEF WellFormedSection, Sections
<1>4. q \in Nat /\ 1 <= q /\ q <= Len(s.data) /\ s.addr \in Nat
  BY <1>1, <1>3
<1>5. a \in Nat /\ s.addr <= a /\ a < s.addr + s.size /\ a < s.addr + RoundUp8(s.size)
  <2>1. PICK n \in Nat : n = Len(s.data) /\ q <= n /\ s.size = 4 * n
    BY <1>3, <1>4
  <2>2. PICK r \in Nat : r = RoundUp8(s.size) /\ r >= s.size
    BY <1>1
  <2>3. a = s.addr + 4 * (q - 1)
    OBVIOUS
  <2> HIDE DEF s
  <2> QED BY <1>4, <2>1, <2>2, <2>3
<1>6. ASSUME NEW j \in LoadedSections, elf.sections[j].addr <= a,
             a < elf.sections[j].addr + RoundUp8(elf.sections[j].size)
      PROVE  j = k
  <2> SUFFICES ASSUME j # k PROVE FALSE
    OBVIOUS
  <2> DEFINE t == elf.sections[j]
  <2>1. s.addr + RoundUp8(s.size) <= t.addr \/ t.addr + RoundUp8(t.size) <= s.addr
    BY DEF Linked, Placed, SectionsApart
  <2>2. /\ t.addr <= a /\ a < t.addr + RoundUp8(t.size) /\ t.addr \in Nat
        /\ RoundUp8(s.size) \in Nat /\ RoundUp8(t.size) \in Nat
    BY <1>1, <1>6
  <2> HIDE DEF s, t
  <2> QED BY <1>4, <1>5, <2>1, <2>2
<1> DEFINE at == {j \in LoadedSections :
                    /\ elf.sections[j].addr <= a
                    /\ a < elf.sections[j].addr + RoundUp8(elf.sections[j].size)}
<1>7. at = {k}
  BY <1>5, <1>6
<1>8. OwnerOf(a) = IdOf(k)
  BY <1>7 DEF OwnerOf, IdOf
<1> DEFINE on == {j \in LoadedSections :
                    /\ elf.sections[j].type = "PROGBITS"
                    /\ elf.sections[j].addr <= a
                    /\ a < elf.sections[j].addr + elf.sections[j].size}
<1>9. on = {k}
  <2>1. ASSUME NEW j \in on PROVE j = k
    <3>1. j \in LoadedSections /\ elf.sections[j].addr <= a
          /\ a < elf.sections[j].addr + elf.sections[j].size
      OBVIOUS
    <3>2. PICK z \in Nat, r \in Nat, b \in Nat :
             /\ z = elf.sections[j].size /\ r = RoundUp8(elf.sections[j].size) /\ z <= r
             /\ b = elf.sections[j].addr
      BY <1>1, <3>1
    <3>3. a < b + r
      BY ONLY <1>5, <3>1, <3>2
    <3> QED BY <1>6, <3>1, <3>2, <3>3
  <2>2. k \in on
    BY <1>3, <1>5
  <2> HIDE DEF on
  <2> QED BY <2>1, <2>2
<1>10. OriginalWord(a) = s.data[(a - s.addr) \div 4 + 1]
  <2>1. on # {} /\ (CHOOSE j \in on : TRUE) = k
    BY <1>9
  <2> QED BY <2>1 DEF OriginalWord
<1>11. (a - s.addr) \div 4 + 1 = q
  BY <1>4
<1> QED BY <1>5, <1>8, <1>10, <1>11

LEMMA OthersCopied ==
    ASSUME IInv, Linked, SectionsMet(Len(elf.sections)), AllThere, OthersKept, Over,
           NEW k \in LoadedSections
    PROVE  OtherWordsCopied(elf.sections[k])
<1> DEFINE s == elf.sections[k]
<1> SUFFICES ASSUME valid_sec(s.name) \in {TEXT, DATA, RODATA}, NEW q \in 1 .. Len(s.data),
                    \A j \in RelocSections : \A e \in EntriesOf(j) : e.offset # s.addr + 4 * (q - 1)
             PROVE  WordAt(FileOffset(s.addr + 4 * (q - 1))) = s.data[q]
  BY DEF OtherWordsCopied
<1>1. WellFormed(elf) /\ EngineTypeOK /\ IdOf(k) \in {TEXT, DATA, RODATA}
  BY DEF IInv, TypeOK, IdOf
<1>2. PICK a : a = s.addr + 4 * (q - 1)
  OBVIOUS
<1>3. a \in Nat /\ OriginalWord(a) = s.data[q] /\ OwnerOf(a) = IdOf(k)
  BY <1>1, <1>2, OwnWord
<1>4. /\ s \in Sections /\ WellFormedSection(s, elf.ep) /\ s.addr \in Nat /\ elf.ep \in Nat
      /\ k \in Met(Len(elf.sections))
  BY <1>1, SectionFacts DEF Met
<1>5. /\ s.type = "PROGBITS" /\ s.size = 4 * Len(s.data) /\ Len(s.data) \in Nat
      /\ (s.addr - elf.ep) % 4 = 0
  <2>1. ~Unchecked(IdOf(k))
    BY <1>1 DEF Linked, Placed
  <2>2. s.type = "PROGBITS"
    BY <2>1 DEF Unchecked, IdOf
  <2> QED BY <1>4, <2>2 DEF WellFormedSection, Sections
<1>6. elf.ep <= s.addr /\ s.addr + s.size - elf.ep <= MemSize /\ MemSize \in Nat
  <2>1. ~OutOfBounds(s, elf.ep)
    BY <1>4, <1>5 DEF SectionsMet
  <2>2. MemSize \in Nat
    BY EngineSizes
  <2>3. ~(elf.ep > s.addr) /\ ~(s.addr + s.size - elf.ep > MemSize)
    BY <2>1 DEF OutOfBounds
  <2>4. s.size \in Nat
    BY <1>5
  <2> HIDE DEF s
  <2> QED BY <1>4, <2>2, <2>3, <2>4
<1>7. a - elf.ep \in Offsets /\ (a - elf.ep) + elf.ep = a
  <2>1. PICK ad \in Nat : ad = s.addr
    BY <1>4
  <2>2. PICK ep \in Nat : ep = elf.ep
    BY <1>4
  <2>3. PICK n \in Nat : n = Len(s.data) /\ s.size = 4 * n
    BY <1>5
  <2>4. q \in Nat /\ 1 <= q /\ q <= n /\ a = ad + 4 * (q - 1)
    BY <1>2, <2>1, <2>3
  <2>5. ep <= ad /\ ad + 4 * n - ep <= MemSize /\ MemSize \in Nat /\ (ad - ep) % 4 = 0
    BY <1>5, <1>6, <2>1, <2>2, <2>3
  <2>6. a - ep \in 0 .. (MemSize - 1) /\ (a - ep) % 4 = 0 /\ (a - ep) + ep = a
    BY ONLY <2>4, <2>5, ad \in Nat, ep \in Nat, n \in Nat
  <2> QED BY <2>2, <2>6 DEF Offsets
<1>8. memory[a - elf.ep] = OriginalWord(a)
  BY <1>2, <1>7 DEF OthersKept
<1>9. WordAt(FileOffset(a)) = memory[a - elf.ep]
  BY <1>1, <1>3, <1>7, FileWord
<1> QED BY <1>2, <1>3, <1>8, <1>9

(* A jump is told where to go without touching what it does. *)
LEMMA JumpWritten ==
    ASSUME NEW w \in Words, NEW m \in Nat,
           Kseg0 <= m, m < Kseg0 + 4 * JumpSpan, m % 4 = 0
    PROVE  JumpTarget(WithTarget(w, m)) = m /\ WithTarget(w, m) \div JumpSpan = w \div JumpSpan
<1>1. PICK J : J = JumpSpan
  OBVIOUS
<1>2. J \in Nat \ {0} /\ w \in Nat /\ Kseg0 \in Nat /\ Kseg0 % (4 * J) = 0
  BY <1>1, Spans, WordLayout DEF Words
<1>3. PICK c \in Nat : Kseg0 = (4 * J) * c
  <2> DEFINE c == Kseg0 \div (4 * J)
  <2>1. 4 * J \in Nat \ {0}
    BY <1>2
  <2>2. c \in Nat /\ Kseg0 = (4 * J) * c + (Kseg0 % (4 * J))
    BY <1>2, <2>1, DivMod
  <2>3. PICK v \in Nat : v = (4 * J) * c
    BY <2>1, <2>2
  <2> HIDE DEF c
  <2>4. Kseg0 = v
    BY <1>2, <2>2, <2>3
  <2> QED BY <2>2, <2>3, <2>4
<1>4. PICK b \in Nat : b = J * c
  BY <1>2, <1>3
<1>5. Kseg0 = 4 * b
  BY <1>2, <1>3, <1>4
<1>6. PICK n \in Nat : n = m \div 4 /\ m = 4 * n
  <2> DEFINE n == m \div 4
  <2>1. n \in Nat /\ m = 4 * n
    OBVIOUS
  <2> QED BY <2>1
<1>7. PICK r \in 0 .. (J - 1) : n = b + r
  <2>1. b <= n /\ n < b + J
    BY <1>1, <1>2, <1>4, <1>5, <1>6
  <2>2. n - b \in 0 .. (J - 1) /\ n = b + (n - b)
    BY <1>2, <1>4, <1>6, <2>1
  <2> QED BY <2>2
<1>8. (m \div 4) % J = r
  <2>1. (J * c + r) % J = r
    BY <1>2, <1>3, <1>7, Divided
  <2> QED BY <1>4, <1>6, <1>7, <2>1
<1>9. PICK q \in Nat, y \in 0 .. (J - 1) : q = w \div J /\ y = w % J /\ w = J * q + y
  <2>1. w \div J \in Nat /\ w % J \in 0 .. (J - 1) /\ w = J * (w \div J) + (w % J)
    BY <1>2, DivMod
  <2> QED BY ONLY <2>1
<1>10. PICK p \in Nat : p = J * q
  BY <1>2, <1>9
<1>11. WithTarget(w, m) = J * q + r
  <2>1. WithTarget(w, m) = (w - y) + r
    BY <1>1, <1>8, <1>9 DEF WithTarget
  <2> QED BY <1>2, <1>7, <1>9, <1>10, <2>1
<1>12. WithTarget(w, m) \div J = q /\ WithTarget(w, m) % J = r
  <2>1. (J * q + r) \div J = q /\ (J * q + r) % J = r
    BY <1>2, <1>7, <1>9, Divided
  <2> QED BY ONLY <1>11, <2>1
<1>13. JumpTarget(WithTarget(w, m)) = 4 * b + 4 * r
  BY <1>1, <1>5, <1>12 DEF JumpTarget
<1>14. 4 * b + 4 * r = m
  BY <1>2, <1>4, <1>6, <1>7
<1> QED BY <1>1, <1>9, <1>12, <1>13, <1>14

-----------------------------------------------------------------------------
(* A pair is told its address in both halves. *)
LEMMA PairWritten ==
    ASSUME NEW m \in Nat, m < Word - Half \div 2,
           NEW x, Imm(x) = HiPart(m), NEW l \in Words, NEW y, y = WithImm(l, LoPart(m))
    PROVE  (Imm(x) * Half + SignedImm(y)) % Word = m /\ y \div Half = l \div Half
<1>1. m \in Words /\ HiPart(m) \in 0 .. (Half - 1) /\ LoPart(m) \in 0 .. (Half - 1)
  BY HiFits
<1>2. Half \in Nat
  BY WordLayout
<1>3. HiPart(m) # Half
  BY <1>1, <1>2
<1>4. Imm(WithImm(l, HiPart(m))) = HiPart(m)
  BY <1>1, FieldWritten
<1>5. Imm(WithImm(l, HiPart(m))) * Half + SignedImm(WithImm(l, LoPart(m))) = m
  BY <1>1, <1>3, HalvesRejoin
<1>6. Imm(x) * Half + SignedImm(y) = m
  BY <1>4, <1>5
<1>7. m < Word
  BY <1>1, Spans DEF Words
<1>8. m % Word = m
  BY <1>7, SmallMod, Spans
<1>9. y \div Half = l \div Half
  BY <1>1, FieldWritten
<1> QED BY <1>6, <1>8, <1>9

LEMMA NoneIsHigh ==
    ASSUME IInv, InOrder, status = "ok", InReach
    PROVE  NoneHigh
<1>1. /\ sizes[TEXT] \in Nat /\ sizes[DATA] \in Nat
      /\ sizes[RODATA] \in Nat /\ sizes[BSS] \in Nat
  BY SizeFacts
<1>2. ovl_starts[TEXT] \in Nat /\ ovl_starts[DATA] \in Nat
      /\ ovl_starts[RODATA] \in Nat /\ ovl_starts[BSS] \in Nat
  BY Spans DEF IInv, TypeOK, EngineTypeOK, Words, SectionIds, TEXT, DATA, RODATA, BSS
<1>3. /\ ovl_starts[TEXT] + sizes[TEXT] <= ovl_starts[DATA]
      /\ ovl_starts[DATA] + sizes[DATA] <= ovl_starts[RODATA]
      /\ ovl_starts[RODATA] + sizes[RODATA] <= ovl_starts[BSS]
  BY DEF InOrder, TEXT, DATA, RODATA, BSS
<1>4. ovl_starts[BSS] + sizes[BSS] <= Word - Half \div 2
  BY DEF InReach
<1>5. Word - Half \div 2 \in Int
  <2>1. Word \in Nat /\ Half \in Nat
    BY Spans, WordLayout
  <2> QED BY <2>1
<1>6. PICK top \in Int : top = Word - Half \div 2
  BY <1>5
<1>7. \A s \in {TEXT, DATA, RODATA, BSS} : ovl_starts[s] + sizes[s] <= top
  BY <1>1, <1>2, <1>3, <1>4, <1>6
<1>8. SectionIds = {TEXT, DATA, RODATA, BSS}
  BY DEF SectionIds, TEXT, DATA, RODATA, BSS
<1> QED BY <1>6, <1>7, <1>8 DEF NoneHigh

-----------------------------------------------------------------------------
(* What ReferencesMoved says of an entry, of each kind. *)
LEMMA JumpFollows ==
    ASSUME IInv, Linked, SectionsMet(Len(elf.sections)), NoneHigh, InReach, InOrder, status = "ok",
           NEW k \in RelocSections, NEW e \in EntriesOf(k), Moves(k, e), e.type = R_MIPS_26,
           OwnerOf(TargetOf(k, e)) = TEXT,
           NewWord(e) = WithTarget(OriginalWord(e.offset), MovedTo(TargetOf(k, e)))
    PROVE  JumpMoved(k, e)
<1>1. WellFormed(elf) /\ EngineTypeOK
  BY DEF IInv, TypeOK
<1>2. e.offset \in Nat
  BY <1>1, EntryTypes
<1>3. PICK w : w = OriginalWord(e.offset)
  OBVIOUS
<1>4. w \in Words
  BY <1>1, <1>2, <1>3, OriginalType
<1>5. PICK a : a = TargetOf(k, e)
  OBVIOUS
<1>6. a = JumpTarget(w)
  BY <1>3, <1>5 DEF TargetOf, R_MIPS_26, R_MIPS_LO16, R_MIPS_32
<1>7. a \in Nat /\ a % 4 = 0
  <2>1. PICK J \in Nat \ {0} : J = JumpSpan
    BY Spans
  <2>2. w \in Nat /\ Kseg0 \in Nat /\ Kseg0 % (4 * J) = 0
    BY <1>4, <2>1, Spans, WordLayout DEF Words
  <2>3. PICK n \in Nat : n = w % J
    BY <2>1, <2>2
  <2>4. PICK c \in Nat : Kseg0 = 4 * c
    <3> DEFINE c == Kseg0 \div (4 * J)
    <3>1. 4 * J \in Nat \ {0}
      BY <2>1
    <3>2. c \in Nat /\ Kseg0 = (4 * J) * c + (Kseg0 % (4 * J))
      BY <2>2, <3>1, DivMod
    <3> HIDE DEF c
    <3>3. J * c \in Nat
      BY <2>1, <3>2
    <3>4. (4 * J) * c = 4 * (J * c)
      BY <2>1, <3>2
    <3>5. Kseg0 = 4 * (J * c)
      BY <2>2, <3>2, <3>3, <3>4
    <3> QED BY <3>3, <3>5
  <2>5. a = 4 * c + 4 * n
    BY <1>6, <2>1, <2>3, <2>4 DEF JumpTarget
  <2> QED BY <2>5
<1>8. /\ AddrOf(TEXT) = elf_starts[TEXT] /\ elf_starts[TEXT] \in Nat /\ sizes[TEXT] \in Nat
      /\ elf_starts[TEXT] <= a /\ a < elf_starts[TEXT] + sizes[TEXT]
      /\ \E j \in LoadedSections : IdOf(j) = TEXT
  BY <1>1, <1>5, <1>7, OwnerFacts DEF TEXT, NoSection
<1>9. (elf_starts[TEXT] - elf.ep) % 4 = 0 /\ elf.ep \in Nat
  <2>1. PICK j \in LoadedSections : IdOf(j) = TEXT
    BY <1>8
  <2>2. /\ elf_starts[TEXT] = elf.sections[j].addr /\ elf.ep \in Nat
        /\ WellFormedSection(elf.sections[j], elf.ep)
    BY <1>1, <2>1, AddrFound, SectionFacts
  <2> QED BY <2>1, <2>2 DEF WellFormedSection, IdOf
<1>10. base_addr \in Nat /\ ovl_starts[TEXT] = base_addr
  BY SizeFacts DEF InOrder
<1>11. PICK m : m = MovedTo(a)
  OBVIOUS
<1>12. m = a - elf_starts[TEXT] + base_addr
  BY <1>5, <1>8, <1>10, <1>11 DEF MovedTo
<1>13. /\ elf.ep % 4 = 0 /\ base_addr % 4 = 0
       /\ Kseg0 <= base_addr /\ base_addr + sizes[TEXT] <= Kseg0 + 4 * JumpSpan
  BY DEF InReach
<1>14. m \in Nat /\ Kseg0 <= m /\ m < Kseg0 + 4 * JumpSpan /\ m % 4 = 0
  <2>1. PICK t \in Nat : t = elf_starts[TEXT]
    BY <1>8
  <2>2. PICK z \in Nat : z = sizes[TEXT]
    BY <1>8
  <2>3. PICK ep \in Nat : ep = elf.ep
    BY <1>9
  <2>4. PICK top \in Nat : top = Kseg0 + 4 * JumpSpan
    BY Spans, WordLayout
  <2>5. PICK b \in Nat : b = base_addr
    BY <1>10
  <2>6. Kseg0 \in Nat
    BY WordLayout
  <2>7. /\ m = a - t + b /\ t <= a /\ a < t + z /\ (t - ep) % 4 = 0 /\ ep % 4 = 0 /\ b % 4 = 0
        /\ Kseg0 <= b /\ b + z <= top
    BY <1>8, <1>9, <1>12, <1>13, <2>1, <2>2, <2>3, <2>4, <2>5
  <2>8. m \in Nat /\ Kseg0 <= m /\ m < top
    BY ONLY <1>7, <2>6, <2>7, t \in Nat, z \in Nat, b \in Nat, top \in Nat
  <2>9. m % 4 = 0
    BY ONLY <1>7, <2>7, t \in Nat, ep \in Nat, b \in Nat
  <2> QED BY <2>4, <2>8, <2>9
<1>15. JumpTarget(WithTarget(w, m)) = m /\ WithTarget(w, m) \div JumpSpan = w \div JumpSpan
  BY <1>4, <1>14, JumpWritten
<1> QED BY <1>3, <1>5, <1>11, <1>15 DEF JumpMoved

(* The address a LO16 refers to, and the HI16 it goes with. *)
LEMMA PairKinds ==
    ASSUME WellFormed(elf), NEW k \in RelocSections, NEW l \in EntriesOf(k),
           l.type = R_MIPS_LO16, Paired(k, l)
    PROVE  /\ HiOf(k, l) \in His(k) /\ HiOf(k, l) \in EntriesOf(k)
           /\ HiOf(k, l).type = R_MIPS_HI16
           /\ TargetOf(k, l) \in Nat
<1>1. \E h \in His(k) : IsHiOf(k, h, l)
  BY LastOpener
<1>2. PICK h : h = HiOf(k, l)
  OBVIOUS
<1>3. h \in His(k)
  BY <1>1, <1>2 DEF HiOf
<1>4. h \in EntriesOf(k) /\ h.type = R_MIPS_HI16 /\ h.offset \in Nat /\ l.offset \in Nat
  BY <1>3, EntryTypes DEF His
<1>5. PICK u \in Words : u = OriginalWord(h.offset)
  BY <1>4, OriginalType
<1>6. PICK v \in Words : v = OriginalWord(l.offset)
  BY <1>4, OriginalType
<1>7. TargetOf(k, l) = (Imm(u) * Half + SignedImm(v)) % Word
  BY <1>2, <1>5, <1>6 DEF TargetOf, R_MIPS_26, R_MIPS_LO16
<1>8. Imm(u) * Half + SignedImm(v) \in Int
  <2>1. Imm(u) \in Nat /\ SignedImm(v) \in Int /\ Half \in Nat
    BY FieldTypes, WordLayout
  <2>2. Imm(u) * Half \in Nat
    BY <2>1
  <2> QED BY <2>1, <2>2
<1>9. TargetOf(k, l) \in Nat
  <2>1. PICK x \in Int : x = Imm(u) * Half + SignedImm(v)
    BY <1>8
  <2>2. x % Word \in 0 .. (Word - 1)
    BY Spans, IntMod
  <2> QED BY <1>7, <2>1, <2>2
<1> QED BY <1>2, <1>3, <1>4, <1>9

LEMMA PairFollows ==
    ASSUME IInv, Linked, SectionsMet(Len(elf.sections)), NoneHigh, AllThere,
           NEW k \in RelocSections, NEW l \in EntriesOf(k), l.type = R_MIPS_LO16,
           Moves(k, l), Paired(k, l), Rewritten(k, l), Rewritten(k, HiOf(k, l)),
           LastMoved(k, l)
    PROVE  PairMoved(k, l)
<1>1. WellFormed(elf) /\ EngineTypeOK
  BY DEF IInv, TypeOK
<1>2. PICK h : h = HiOf(k, l)
  OBVIOUS
<1>3. PICK a : a = TargetOf(k, l)
  OBVIOUS
<1>4. h \in EntriesOf(k) /\ h.type = R_MIPS_HI16 /\ a \in Nat
  BY <1>1, <1>2, <1>3, PairKinds
<1>5. NewWord(h) = InMemory(h) /\ NewWord(l) = InMemory(l)
  BY <1>4, EntryInFile
<1>6. OwnerOf(a) # NoSection
  BY <1>3 DEF Moves
<1>7. PICK m : m = MovedTo(a)
  OBVIOUS
<1>8. m \in Nat /\ m < Word - Half \div 2
  BY <1>1, <1>4, <1>6, <1>7, MovedFound
<1>9. l.offset \in Nat
  BY <1>1, EntryTypes
<1>10. PICK w \in Words : w = OriginalWord(l.offset)
  BY <1>1, <1>9, OriginalType
<1>11. InMemory(l) = WithImm(w, LoPart(m)) /\ Imm(InMemory(h)) = HiPart(m)
  BY <1>2, <1>3, <1>7, <1>10 DEF Rewritten
<1>12. InMemory(h) \div Half = OriginalWord(h.offset) \div Half
  BY <1>2, <1>4 DEF Rewritten
<1>13. PICK x : x = NewWord(h)
  OBVIOUS
<1>14. PICK y : y = NewWord(l)
  OBVIOUS
<1>15. Imm(x) = HiPart(m) /\ y = WithImm(w, LoPart(m))
  BY <1>5, <1>11, <1>13, <1>14
<1>16. (Imm(x) * Half + SignedImm(y)) % Word = m /\ y \div Half = w \div Half
  BY <1>8, <1>15, PairWritten
<1> QED BY <1>2, <1>3, <1>5, <1>7, <1>10, <1>12, <1>13, <1>14, <1>16 DEF PairMoved

LEMMA EntriesFollow ==
    ASSUME IInv, InOrder, ImageInv, AllThere, Linked, InReach, status = "ok",
           NEW k \in RelocSections
    PROVE  EntriesMoved(k)
<1>1. Over /\ NoneHigh
  BY NoneIsHigh DEF Over
<1>2. /\ SectionsMet(Len(elf.sections)) /\ Passed(k) = EntriesOf(k)
      /\ \A e \in EntriesOf(k) : Sound(k, e) /\ Rewritten(k, e)
  BY <1>1 DEF ImageInv, StillMet, Passed, Rewriting
<1>3. SUFFICES ASSUME NEW e \in EntriesOf(k), Moves(k, e)
               PROVE  /\ e.type = R_MIPS_32 => PointerMoved(k, e)
                      /\ e.type = R_MIPS_26 => JumpMoved(k, e)
                      /\ e.type = R_MIPS_LO16 /\ LastOfHi(k, e) => PairMoved(k, e)
  BY Zenon DEF EntriesMoved
<1>4. NewWord(e) = InMemory(e) /\ Sound(k, e) /\ Rewritten(k, e)
  BY <1>2, <1>3, EntryInFile
<1>5. CASE e.type = R_MIPS_32
  <2>1. e.type # R_MIPS_26 /\ e.type # R_MIPS_LO16
    BY <1>5 DEF R_MIPS_32, R_MIPS_26, R_MIPS_LO16
  <2>2. PointerMoved(k, e)
    BY <1>3, <1>4, <1>5 DEF Rewritten, PointerMoved
  <2> QED BY <2>1, <2>2
<1>6. CASE e.type = R_MIPS_26
  <2>1. e.type # R_MIPS_32 /\ e.type # R_MIPS_LO16
    BY <1>6 DEF R_MIPS_32, R_MIPS_26, R_MIPS_LO16
  <2>2. OwnerOf(TargetOf(k, e)) = TEXT
    BY <1>3, <1>4, <1>6 DEF Sound
  <2>3. NewWord(e) = WithTarget(OriginalWord(e.offset), MovedTo(TargetOf(k, e)))
    BY <1>3, <1>4, <1>6 DEF Rewritten
  <2>4. JumpMoved(k, e)
    BY <1>1, <1>2, <1>3, <1>6, <2>2, <2>3, JumpFollows
  <2> QED BY <2>1, <2>4
<1>7. CASE e.type = R_MIPS_LO16
  <2>1. e.type # R_MIPS_32 /\ e.type # R_MIPS_26
    BY <1>7 DEF R_MIPS_32, R_MIPS_26, R_MIPS_LO16
  <2>2. ASSUME LastOfHi(k, e) PROVE PairMoved(k, e)
    <3>1. Paired(k, e)
      BY <1>4, <1>7 DEF Sound, Fine
    <3>2. HiOf(k, e) \in EntriesOf(k)
      BY <1>7, <3>1, PairKinds DEF IInv, TypeOK
    <3>3. Rewritten(k, HiOf(k, e))
      BY <1>2, <3>2
    <3>4. LastMoved(k, e)
      BY <2>2 DEF LastOfHi, LastMoved
    <3> QED BY <1>1, <1>2, <1>3, <1>4, <1>7, <3>1, <3>3, <3>4, PairFollows
  <2> QED BY <2>1, <2>2
<1> QED BY <1>5, <1>6, <1>7

LEMMA Follow ==
    ASSUME IInv, InOrder, ImageInv, SectionsThere
    PROVE  ReferencesMoved
<1> SUFFICES ASSUME status = "ok", out = "written", Linked, InReach
             PROVE  /\ AllPaired /\ \A k \in RelocSections : EntriesMoved(k)
                    /\ \A k \in LoadedSections : OtherWordsCopied(elf.sections[k])
  BY DEF ReferencesMoved
<1>1. AllThere /\ Over
  BY DEF SectionsThere, Over
<1>2. \A k \in RelocSections : \A e \in EntriesOf(k) : Sound(k, e)
  BY <1>1 DEF ImageInv, Rewriting, Passed
<1>3. AllPaired
  BY <1>2 DEF AllPaired, Sound, Fine, Paired, Los
<1>4. \A k \in RelocSections : EntriesMoved(k)
  BY <1>1, EntriesFollow
<1>5. \A k \in LoadedSections : OtherWordsCopied(elf.sections[k])
  BY <1>1, OthersCopied DEF ImageInv, StillMet
<1> QED BY <1>3, <1>4, <1>5

(* Every pointer, jump and HI16/LO16 pair of an overlay that is in reach of its
   own instructions points at the place its target has moved to, in whatever
   order the entries come, and a word no entry names is copied as it is
   (novl-reloc.c:99-225, novl-conv.c:441-506 and 589-610). *)
THEOREM ReferencesFollow == Spec => []ReferencesMoved
<1>1. IInv /\ InOrder /\ ImageInv /\ SectionsThere => ReferencesMoved
  <2> SUFFICES ASSUME IInv, InOrder, ImageInv, SectionsThere PROVE ReferencesMoved
    OBVIOUS
  <2>1. CASE status = "ok"
    BY <2>1, Follow
  <2>2. CASE status # "ok"
    BY <2>2 DEF ReferencesMoved
  <2> QED BY <2>1, <2>2
<1> QED BY <1>1, Invariant, SectionsInOrder, ImageInvariant, SectionsWritten, PTL

-----------------------------------------------------------------------------
(***************************************************************************)
(* The overlay as the loader takes it.  What was said of sections in their *)
(* places holds also where not every word can be read or is relocated      *)
(* once; so does it of the words of the table, each of which lies in its   *)
(* section.                                                                *)
(***************************************************************************)
AllLoaded ==
    \/ pc \in {"count_scan", "count_sort", "count_do", "layout"} \cup SecondPass \cup WritePlaces
    \/ status = "ok"

HeadersKnown ==
    /\ pc = "load" => SectionsMet(scn)
    /\ AllLoaded => SectionsMet(Len(elf.sections))

InOverlay(w) ==
    /\ OVL_RELOC_GET_SEC(w) \in {TEXT, DATA, RODATA}
    /\ OVL_RELOC_GET_TYPE(w) < TypeNames
    /\ OVL_RELOC_GET_ADDR(w) + 4 <= sizes[OVL_RELOC_GET_SEC(w)]
    /\ OVL_RELOC_GET_ADDR(w) \in Nat /\ OVL_RELOC_GET_ADDR(w) % 4 = 0

TableInOverlay ==
    pc \notin {"exit", "crashed"} \/ status = "ok" =>
        \A q \in 1 .. Len(ninty_relocs) : InOverlay(ninty_relocs[q])

FromSection ==
    pc \in {"reloc_sort", "reloc_do"} =>
        \A q \in 1 .. Len(rel_list) : rel_list[q] \in EntriesOf(scn)

OverlayInv == FromSection /\ (Placed => HeadersKnown /\ TableInOverlay)

-----------------------------------------------------------------------------
(* The list holds entries of the section it is made from. *)
LEMMA InsertedFrom ==
    ASSUME IInv, FromSection, SortInserts("reloc_sort"), elf' = elf
    PROVE  \A q \in 1 .. Len(rel_list') : rel_list'[q] \in EntriesOf(scn)
<1> DEFINE rel == Current.rels[nreloc + 1]
<1>1. /\ pc = "reloc_sort" /\ nreloc < Len(Current.rels) /\ rel_list' = Inserted(rel_list, rel)
  BY DEF SortInserts
<1>2. /\ Current.rels \in Seq(Entries) /\ DOMAIN Current.rels = 1 .. Len(Current.rels)
      /\ rel_list \in Seq(Entries) /\ nreloc \in Nat
  BY <1>1, ListFacts
<1>3. nreloc + 1 \in 1 .. Len(Current.rels)
  BY <1>1, <1>2
<1>4. rel \in Entries /\ rel \in EntriesOf(scn)
  BY <1>2, <1>3 DEF EntriesOf, ToSet, Current
<1>5. \A q \in 1 .. Len(rel_list) : rel_list[q] \in EntriesOf(scn)
  BY <1>1 DEF FromSection
<1> HIDE DEF rel
<1> QED BY <1>1, <1>2, <1>4, <1>5, InsertedType

LEMMA PassFrom ==
    ASSUME IInv, FromSection, RelocScan \/ RelocSort \/ RelocEntry \/ RelocNext \/ RelocEnd
    PROVE  FromSection'
<1>1. elf' = elf /\ \A k : EntriesOf(k)' = EntriesOf(k)
  <2>1. elf' = elf
    BY DEF RelocScan, RelocSort, RelocEntry, RelocNext, RelocEnd, RelocFrame, inputVars
  <2> QED BY <2>1, SameSets
<1>2. CASE RelocScan
  BY <1>2 DEF RelocScan, ScanSkips, ScanFinds, Goto, FromSection
<1>3. CASE RelocSort
  <2>1. PICK k : k = scn
    OBVIOUS
  <2>2. pc = "reloc_sort" /\ scn' = k
    BY <1>3, <2>1 DEF RelocSort, SortInserts, SortEnds
  <2>3. \A q \in 1 .. Len(rel_list') : rel_list'[q] \in EntriesOf(k)
    <3>1. CASE SortInserts("reloc_sort")
      BY <1>1, <2>1, <3>1, InsertedFrom
    <3>2. CASE SortEnds("reloc_sort", "reloc_do")
      BY <2>1, <2>2, <3>2 DEF SortEnds, FromSection
    <3> QED BY <1>3, <3>1, <3>2 DEF RelocSort
  <2> QED BY <1>1, <2>2, <2>3 DEF FromSection
<1>4. CASE RelocEntry
  <2>1. PICK k : k = scn
    OBVIOUS
  <2>2. pc = "reloc_do" /\ scn' = k /\ rel_list' = rel_list
    BY <1>4, <2>1 DEF RelocEntry
  <2>3. \A q \in 1 .. Len(rel_list) : rel_list[q] \in EntriesOf(k)
    BY <2>1, <2>2 DEF FromSection
  <2> QED BY <1>1, <2>2, <2>3 DEF FromSection
<1>5. CASE RelocNext \/ RelocEnd
  BY <1>5 DEF RelocNext, RelocEnd, ListEnds, Goto, FromSection
<1> QED BY <1>2, <1>3, <1>4, <1>5

-----------------------------------------------------------------------------
(* The headers of the sections, as they are met. *)
LEMMA NoneMet ==
    ASSUME IInv, FileInv', Create
    PROVE  HeadersKnown'
<1>1. /\ pc' = "load" /\ scn' = 0 /\ elf' = elf /\ status' = status /\ pc = "create"
      /\ elf_starts' = [s \in SectionIds |-> 0] /\ sizes' = [s \in SectionIds |-> 0]
  BY DEF Create, Goto, inputVars
<1>2. Met(0)' = {}
  <2>1. Met(0) = {}
    BY SectionFacts DEF Met, IInv, TypeOK
  <2> QED BY <1>1, <2>1 DEF Met, LoadedSections, SectionIndex
<1>3. SectionsMet(0)'
  BY <1>1, <1>2 DEF SectionsMet
<1>4. SectionsMet(scn)'
  BY <1>1, <1>3
<1>5. ~AllLoaded'
  <2>1. status' # "ok"
    BY <1>1 DEF FileInv, NothingWritten
  <2> QED BY <1>1, <2>1 DEF AllLoaded, SecondPass, WritePlaces
<1> QED BY <1>1, <1>4, <1>5 DEF HeadersKnown

LEMMA OneMet ==
    ASSUME IInv, FileInv', Placed, HeadersKnown, LoadSkip \/ LoadSection, pc' = "load"
    PROVE  HeadersKnown'
<1>1. /\ pc = "load" /\ scn < Len(elf.sections) /\ scn' = scn + 1 /\ elf' = elf
  BY DEF LoadSkip, LoadSection, LoadFrame, inputVars, Exit
<1>2. PICK m : m = scn
  OBVIOUS
<1>3. m \in Nat /\ WellFormed(elf) /\ SectionsMet(m)
  BY <1>1, <1>2 DEF IInv, TypeOK, PassTypeOK, HeadersKnown
<1>4. SectionsMet(m + 1)'
  <2>1. CASE LoadSkip
    <3>1. /\ UNCHANGED <<elf, elf_starts, sizes>>
          /\ m + 1 \notin LoadedSections
      BY <1>2, <2>1 DEF LoadSkip, LoadFrame, inputVars, Section, LoadedSections
    <3>2. Met(m + 1) = Met(m)
      BY <1>1, <1>2, <1>3, <3>1, MetNext
    <3>3. SectionsMet(m + 1)
      BY <1>3, <3>2 DEF SectionsMet
    <3> QED BY <3>1, <3>3, SameSections
  <2>2. CASE LoadSection
    <3>1. Section.type = "PROGBITS" => ~OutOfBounds(Section, elf.ep)
      BY <2>2 DEF LoadSection, Exit
    <3> QED BY <1>2, <1>3, <2>2, <3>1, LoadSectionMet
  <2> QED BY <2>1, <2>2
<1>5. SectionsMet(scn)'
  BY <1>1, <1>2, <1>4
<1>6. ~AllLoaded'
  <2>1. status' # "ok"
    BY DEF FileInv, NothingWritten
  <2> QED BY <2>1 DEF AllLoaded, SecondPass, WritePlaces
<1> QED BY <1>5, <1>6 DEF HeadersKnown

LEMMA AllMet ==
    ASSUME HeadersKnown, LoadEnd
    PROVE  HeadersKnown'
<1>1. /\ pc = "load" /\ pc' = "count_scan" /\ scn = Len(elf.sections)
      /\ UNCHANGED <<elf, elf_starts, sizes>>
  BY DEF LoadEnd, LoadFrame, inputVars, Goto
<1>2. PICK m : m = scn
  OBVIOUS
<1>3. SectionsMet(m)'
  BY <1>1, <1>2, SameSections DEF HeadersKnown
<1>4. SectionsMet(Len(elf.sections))'
  BY <1>1, <1>2, <1>3
<1> QED BY <1>1, <1>4 DEF HeadersKnown

(* Behind the loading, headers stay what they are. *)
LEMMA HeadersStay ==
    ASSUME HeadersKnown, AllLoaded, pc' # "load", UNCHANGED <<elf, elf_starts, sizes>>
    PROVE  HeadersKnown'
<1>1. PICK m : m = Len(elf.sections)
  OBVIOUS
<1>2. SectionsMet(m)'
  BY <1>1, SameSections DEF HeadersKnown
<1>3. SectionsMet(Len(elf.sections))'
  BY <1>1, <1>2
<1> QED BY <1>3 DEF HeadersKnown

LEMMA LaterPlaces ==
    ASSUME \/ CountScan \/ CountSort \/ CountEntry \/ CountNext \/ CountEnd \/ Layout
           \/ RelocScan \/ RelocSort \/ RelocEntry \/ RelocNext \/ RelocEnd
           \/ CheckCount \/ WriteHeader \/ WriteRelocs \/ WriteFooter \/ CheckBss
           \/ WriteSection \/ CheckHeader \/ Close
    PROVE  AllLoaded /\ pc' # "load" /\ UNCHANGED <<elf, elf_starts, sizes>>
<1>1. CASE CountScan \/ CountSort \/ CountEntry \/ CountNext \/ CountEnd \/ Layout
  BY <1>1 DEF CountScan, CountSort, CountEntry, CountNext, CountEnd, Layout, CountFrame, ScanSkips,
     ScanFinds, SortInserts, SortEnds, ListEnds, Goto, Exit, inputVars, AllLoaded
<1>2. CASE RelocScan \/ RelocSort \/ RelocEntry \/ RelocNext \/ RelocEnd
  BY <1>2 DEF RelocScan, RelocSort, RelocEntry, RelocNext, RelocEnd, RelocFrame, ScanSkips,
     ScanFinds, SortInserts, SortEnds, ListEnds, Goto, Exit, inputVars, AllLoaded, SecondPass
<1>3. CASE \/ CheckCount \/ WriteHeader \/ WriteRelocs \/ WriteFooter \/ CheckBss
           \/ WriteSection \/ CheckHeader \/ Close
  BY <1>3 DEF CheckCount, WriteHeader, WriteRelocs, WriteFooter, CheckBss, WriteSection,
     CheckHeader, Close, RemoveAndExit, Exit, Goto, WriteFrame, engineVars, inputVars,
     AllLoaded, WritePlaces
<1> QED BY <1>1, <1>2, <1>3

LEMMA HeadersStep ==
    ASSUME IInv, FileInv', Placed, HeadersKnown, [Next]_vars
    PROVE  HeadersKnown'
<1>1. CASE Open \/ CreateFails
  BY <1>1 DEF Open, CreateFails, Goto, Exit, HeadersKnown, AllLoaded, SecondPass, WritePlaces,
     FileInv, NothingWritten
<1>2. CASE Create
  BY <1>2, NoneMet
<1>3. CASE LoadSkip \/ LoadSection
  <2>1. pc' = "load" \/ (pc' = "exit" /\ status' = "err_bounds")
    <3>1. CASE LoadSkip
      BY <3>1 DEF LoadSkip
    <3>2. CASE LoadSection
      <4>1. Goto("load") \/ Exit("err_bounds")
        BY <3>2 DEF LoadSection
      <4> QED BY <4>1 DEF Goto, Exit
    <3> QED BY <1>3, <3>1, <3>2
  <2>2. CASE pc' = "load"
    BY <1>3, <2>2, OneMet
  <2>3. CASE pc' = "exit" /\ status' = "err_bounds"
    BY <2>3 DEF HeadersKnown, AllLoaded, SecondPass, WritePlaces
  <2> QED BY <2>1, <2>2, <2>3
<1>4. CASE LoadDuplicate
  BY <1>4 DEF LoadDuplicate, Exit, HeadersKnown, AllLoaded, SecondPass, WritePlaces
<1>5. CASE LoadEnd
  BY <1>5, AllMet
<1>6. CASE \/ CountScan \/ CountSort \/ CountEntry \/ CountNext \/ CountEnd \/ Layout
           \/ RelocScan \/ RelocSort \/ RelocEntry \/ RelocNext \/ RelocEnd
           \/ CheckCount \/ WriteHeader \/ WriteRelocs \/ WriteFooter \/ CheckBss
           \/ WriteSection \/ CheckHeader \/ Close
  BY <1>6, LaterPlaces, HeadersStay
<1>7. CASE Exited \/ UNCHANGED vars
  <2>1. UNCHANGED <<elf, elf_starts, sizes, scn, pc, status>>
    BY <1>7 DEF Exited, vars, engineVars, inputVars, loopVars
  <2>2. PICK m, z : m = scn /\ z = Len(elf.sections)
    OBVIOUS
  <2>3. (SectionsMet(m) => SectionsMet(m)') /\ (SectionsMet(z) => SectionsMet(z)')
    BY <2>1, SameSections
  <2>4. /\ SectionsMet(scn) => SectionsMet(scn)'
        /\ SectionsMet(Len(elf.sections)) => SectionsMet(Len(elf.sections))'
    BY <2>1, <2>2, <2>3
  <2> QED BY <2>1, <2>4 DEF HeadersKnown, AllLoaded
<1> QED BY <1>1, <1>2, <1>3, <1>4, <1>5, <1>6, <1>7 DEF Next

-----------------------------------------------------------------------------
(* The words of the table. *)
LEMMA TypeRead ==
    ASSUME NEW id \in 0 .. 2, NEW t \in Nat, t % 128 \in Handled, NEW d \in 0 .. (OffsetSpan - 1)
    PROVE  LET w == novl_reloc_mk(id + 1, d, t)
           IN  /\ OVL_RELOC_GET_SEC(w) = id /\ OVL_RELOC_GET_TYPE(w) \in Handled
               /\ OVL_RELOC_GET_ADDR(w) = d
<1>1. PICK u : u = t % 64
  OBVIOUS
<1>2. u = t % 128 /\ u \in Handled /\ u % 64 = u
  <2>1. t % 128 \in {2, 4, 5, 6}
    BY DEF Handled, R_MIPS_32, R_MIPS_26, R_MIPS_HI16, R_MIPS_LO16
  <2>2. t % 64 = t % 128
    BY <2>1
  <2>3. u \in {2, 4, 5, 6}
    BY <1>1, <2>1, <2>2
  <2>4. u % 64 = u
    BY <2>3
  <2> QED BY <1>1, <2>2, <2>4
<1>3. novl_reloc_mk(id + 1, d, t) = novl_reloc_mk(id + 1, d, u)
  BY <1>1, <1>2 DEF novl_reloc_mk, TypeSpan
<1>4. RowOf(novl_reloc_mk(id + 1, d, u)) = <<id, u, d>>
  BY <1>2, ReadAsMade
<1> QED BY <1>2, <1>3, <1>4 DEF RowOf

LEMMA HandledCall ==
    ASSUME NEW o, NEW type \in Nat, NEW dryrun,
           novl_reloc_do(o, type, dryrun).ret # "error"
    PROVE  type % 128 \in Handled
<1> SUFFICES ASSUME type % 128 \notin Handled PROVE FALSE
  OBVIOUS
<1>1. novl_reloc_do(o, type, dryrun) = Outcome("error", memory, hilopair)
  BY DEF novl_reloc_do, Handled
<1> QED BY <1>1 DEF Outcome

LEMMA MadeInOverlay ==
    ASSUME IInv, FromSection, Placed, HeadersKnown, pc = "reloc_do", i <= nreloc,
           novl_reloc_do(rel_list[i].offset - elf.ep, rel_list[i].type, FALSE).ret # "error"
    PROVE  InOverlay(TableWord(rel_list[i]))
<1>1. PICK k, e : k = scn /\ e = rel_list[i]
  OBVIOUS
<1>2. k \in RelocSections /\ WellFormed(elf) /\ SectionsMet(Len(elf.sections))
  BY <1>1, ListFacts DEF IInv, TypeOK, HeadersKnown, AllLoaded, SecondPass
<1>3. e \in EntriesOf(k)
  <2>1. i \in 1 .. Len(rel_list)
    BY ListFacts DEF IInv, Control
  <2> QED BY <1>1, <2>1 DEF FromSection
<1>4. e.type \in Nat /\ e.type % 128 \in Handled
  BY <1>1, <1>2, <1>3, EntryTypes, HandledCall
<1> DEFINE id == RelTarget(elf.sections[k].name)
           d  == e.offset - AddrOf(id)
<1>5. /\ id \in 0 .. 2 /\ elf_starts[id] = AddrOf(id)
      /\ d \in 0 .. (OffsetSpan - 1) /\ d + 4 <= sizes[id] /\ d % 4 = 0
  BY <1>2, <1>3, EntryPlaced
<1>6. TableWord(e) = novl_reloc_mk(id + 1, d, e.type)
  BY <1>1, <1>5 DEF TableWord, Current
<1> HIDE DEF id, d
<1>7. /\ OVL_RELOC_GET_SEC(TableWord(e)) = id /\ OVL_RELOC_GET_TYPE(TableWord(e)) \in Handled
      /\ OVL_RELOC_GET_ADDR(TableWord(e)) = d
  BY <1>4, <1>5, <1>6, TypeRead
<1>8. OVL_RELOC_GET_TYPE(TableWord(e)) < TypeNames
  BY <1>7 DEF Handled, R_MIPS_32, R_MIPS_26, R_MIPS_HI16, R_MIPS_LO16, TypeNames
<1>9. id \in {TEXT, DATA, RODATA}
  BY <1>5 DEF TEXT, DATA, RODATA
<1> QED BY <1>1, <1>5, <1>7, <1>8, <1>9 DEF InOverlay

LEMMA EntryInOverlay ==
    ASSUME IInv, FromSection, Placed, HeadersKnown, TableInOverlay, RelocEntry
    PROVE  TableInOverlay'
<1> DEFINE rel == rel_list[i]
           ret == novl_reloc_do(rel.offset - elf.ep, rel.type, FALSE).ret
           t   == ninty_relocs
<1>1. /\ pc = "reloc_do" /\ i <= nreloc /\ sizes' = sizes
      /\ \/ ret = "error" /\ pc' = "exit" /\ status' = "err_reloc"
         \/ ret = "success" /\ t' = Append(t, TableWord(rel))
         \/ t' = t
         \/ last # 0 /\ t' = Deleted(t, last)
  <2>1. PICK v : v = novl_reloc_do(rel.offset - elf.ep, rel.type, FALSE)
    OBVIOUS
  <2>2. /\ pc = "reloc_do" /\ i <= nreloc /\ RelocFrame
        /\ \/ v.ret = "error" /\ Exit("err_reloc")
           \/ v.ret = "success" /\ AppendWord(rel)
           \/ UNCHANGED tableVars
           \/ last # 0 /\ DeleteLast
    BY <2>1 DEF RelocEntry
  <2>3. ret = v.ret
    BY <2>1
  <2> HIDE DEF ret, rel
  <2> QED BY <2>2, <2>3 DEF RelocFrame, AppendWord, DeleteLast, Exit, tableVars
<1>2. /\ t \in Seq(Nat \ {0}) /\ Len(t) \in Nat
      /\ \A q \in 1 .. Len(t) : InOverlay(t[q])
  BY <1>1 DEF IInv, TypeOK, PassTypeOK, TableInOverlay
<1>3. \A w : InOverlay(w)' <=> InOverlay(w)
  BY <1>1 DEF InOverlay
<1>4. CASE ret = "error" /\ pc' = "exit" /\ status' = "err_reloc"
  BY <1>4 DEF TableInOverlay
<1>5. CASE ret = "success" /\ t' = Append(t, TableWord(rel))
  <2>1. PICK w : w = TableWord(rel)
    OBVIOUS
  <2>2. InOverlay(w)
    BY <1>1, <1>5, <2>1, MadeInOverlay
  <2>3. \A q \in 1 .. Len(Append(t, w)) :
           (q \in 1 .. Len(t) /\ Append(t, w)[q] = t[q]) \/ Append(t, w)[q] = w
    BY <1>2
  <2>4. \A q \in 1 .. Len(t') : InOverlay(t'[q])
    BY <1>2, <1>5, <2>1, <2>2, <2>3
  <2> QED BY <1>3, <2>4 DEF TableInOverlay
<1>6. CASE t' = t
  <2>1. \A q \in 1 .. Len(t') : InOverlay(t'[q])
    BY <1>2, <1>6
  <2> QED BY <1>3, <2>1 DEF TableInOverlay
<1>7. CASE last # 0 /\ t' = Deleted(t, last)
  <2>1. \A q \in 1 .. Len(Deleted(t, last)) :
           \E p \in 1 .. Len(t) : Deleted(t, last)[q] = t[p]
    <3>1. CASE Len(t) = 0
      BY <3>1 DEF Deleted
    <3>2. CASE Len(t) # 0
      <4>1. Len(t) - 1 \in Nat /\ Len(Deleted(t, last)) = Len(t) - 1
        BY <1>2, <3>2 DEF Deleted
      <4>2. \A q \in 1 .. (Len(t) - 1) :
               Deleted(t, last)[q] = IF q < last THEN t[q] ELSE t[q + 1]
        BY DEF Deleted
      <4>3. \A q \in 1 .. (Len(t) - 1) : q \in 1 .. Len(t) /\ q + 1 \in 1 .. Len(t)
        BY <1>2
      <4> QED BY <4>1, <4>2, <4>3
    <3> QED BY <3>1, <3>2
  <2>2. \A q \in 1 .. Len(t') : InOverlay(t'[q])
    BY <1>2, <1>7, <2>1
  <2> QED BY <1>3, <2>2 DEF TableInOverlay
<1> QED BY <1>1, <1>4, <1>5, <1>6, <1>7

LEMMA TableStep ==
    ASSUME IInv, IInv', FromSection, Placed, HeadersKnown, TableInOverlay, [Next]_vars
    PROVE  TableInOverlay'
<1>1. \A w : UNCHANGED sizes => (InOverlay(w)' <=> InOverlay(w))
  BY DEF InOverlay
<1>2. CASE pc \in BeforeTable /\ ninty_relocs' = ninty_relocs
  <2>1. ninty_relocs' = <<>>
    BY <1>2 DEF IInv, Control
  <2> QED BY <2>1 DEF TableInOverlay
<1>3. CASE \/ Open \/ CreateFails \/ Create \/ LoadSkip \/ LoadDuplicate \/ LoadSection \/ LoadEnd
  <2>1. pc \in BeforeTable /\ ninty_relocs' = ninty_relocs
    BY <1>3 DEF Open, CreateFails, Create, LoadSkip, LoadDuplicate, LoadSection, LoadEnd,
       LoadFrame, tableVars, BeforeTable
  <2> QED BY <1>2, <2>1
<1>4. CASE CountScan \/ CountSort \/ CountEntry \/ CountNext \/ CountEnd \/ Layout
  <2>1. pc \in BeforeTable /\ ninty_relocs' = ninty_relocs
    BY <1>4 DEF CountScan, CountSort, CountEntry, CountNext, CountEnd, Layout, CountFrame,
       ScanSkips, ScanFinds, SortInserts, SortEnds, ListEnds, tableVars, BeforeTable
  <2> QED BY <1>2, <2>1
<1>5. CASE RelocScan \/ RelocSort \/ RelocNext \/ RelocEnd
  <2>1. pc \notin {"exit", "crashed"} /\ UNCHANGED <<sizes, ninty_relocs>>
    BY <1>5 DEF RelocScan, RelocSort, RelocNext, RelocEnd, RelocFrame, tableVars, ScanSkips,
       ScanFinds, SortInserts, SortEnds, ListEnds
  <2> QED BY <1>1, <2>1 DEF TableInOverlay
<1>6. CASE RelocEntry
  BY <1>6, EntryInOverlay
<1>7. CASE \/ CheckCount \/ WriteHeader \/ WriteRelocs \/ WriteFooter \/ CheckBss
           \/ WriteSection \/ CheckHeader \/ Close
  <2>1. pc \notin {"exit", "crashed"} /\ UNCHANGED <<sizes, ninty_relocs>>
    BY <1>7 DEF CheckCount, WriteHeader, WriteRelocs, WriteFooter, CheckBss, WriteSection,
       CheckHeader, Close, WriteFrame, engineVars, tableVars
  <2> QED BY <1>1, <2>1 DEF TableInOverlay
<1>8. CASE Exited \/ UNCHANGED vars
  <2>1. UNCHANGED <<sizes, ninty_relocs, pc, status>>
    BY <1>8 DEF Exited, vars, engineVars, tableVars
  <2> QED BY <1>1, <2>1 DEF TableInOverlay
<1> QED BY <1>3, <1>4, <1>5, <1>6, <1>7, <1>8 DEF Next

LEMMA FromStep ==
    ASSUME IInv, FromSection, [Next]_vars
    PROVE  FromSection'
<1>1. CASE RelocScan \/ RelocSort \/ RelocEntry \/ RelocNext \/ RelocEnd
  BY <1>1, PassFrom
<1>2. CASE \/ Open \/ CreateFails \/ Create \/ LoadSkip \/ LoadDuplicate \/ LoadSection \/ LoadEnd
  BY <1>2 DEF Open, CreateFails, Create, LoadSkip, LoadDuplicate, LoadSection, LoadEnd,
     Goto, Exit, FromSection
<1>3. CASE CountScan \/ CountSort \/ CountEntry \/ CountNext \/ CountEnd \/ Layout
  BY <1>3 DEF CountScan, CountSort, CountEntry, CountNext, CountEnd, Layout,
     ScanSkips, ScanFinds, SortInserts, SortEnds, ListEnds, Goto, Exit, FromSection
<1>4. CASE \/ CheckCount \/ WriteHeader \/ WriteRelocs \/ WriteFooter \/ CheckBss
           \/ WriteSection \/ CheckHeader \/ Close
  BY <1>4 DEF CheckCount, WriteHeader, WriteRelocs, WriteFooter, CheckBss, WriteSection,
     CheckHeader, Close, RemoveAndExit, Exit, Goto, FromSection
<1>5. CASE Exited \/ UNCHANGED vars
  <2>1. UNCHANGED <<elf, scn, rel_list, pc>>
    BY <1>5 DEF Exited, vars, inputVars, loopVars
  <2> QED BY <2>1 DEF FromSection, EntriesOf
<1> QED BY <1>1, <1>2, <1>3, <1>4, <1>5 DEF Next

LEMMA SamePlaced == ASSUME elf' = elf PROVE Placed' <=> Placed
<1>1. SectionsApart' <=> SectionsApart
  BY SameSets DEF SectionsApart
<1>2. OwnRelocations' <=> OwnRelocations
  BY SameSets, SamePlacesInFile DEF OwnRelocations
<1> QED BY <1>1, <1>2, SameSets DEF Placed

(* The ELF file is only read. *)
LEMMA SameElf == ASSUME [Next]_vars PROVE elf' = elf
<1>1. CASE \/ Open \/ CreateFails \/ Create \/ LoadSkip \/ LoadDuplicate \/ LoadSection \/ LoadEnd
  BY <1>1 DEF Open, CreateFails, Create, LoadSkip, LoadDuplicate, LoadSection, LoadEnd,
     LoadFrame, inputVars
<1>2. CASE \/ CountScan \/ CountSort \/ CountEntry \/ CountNext \/ CountEnd \/ Layout
           \/ RelocScan \/ RelocSort \/ RelocEntry \/ RelocNext \/ RelocEnd
           \/ CheckCount \/ WriteHeader \/ WriteRelocs \/ WriteFooter \/ CheckBss
           \/ WriteSection \/ CheckHeader \/ Close
  BY <1>2, LaterPlaces
<1>3. CASE Exited \/ UNCHANGED vars
  BY <1>3 DEF Exited, vars, inputVars
<1> QED BY <1>1, <1>2, <1>3 DEF Next

(* For every ELF file whose sections and relocations are in their places, each word
   the table ever has lies in its section, and in a section with contents
   (novl-conv.c:441-489). *)
THEOREM OverlayInvariant == Spec => []OverlayInv
<1>1. Init => OverlayInv
  <2>1. Init => pc = "open" /\ status = "running" /\ ninty_relocs = <<>>
    BY DEF Init
  <2> QED BY <2>1 DEF OverlayInv, FromSection, HeadersKnown, AllLoaded, SecondPass, WritePlaces,
                      TableInOverlay
<1>2. IInv /\ IInv' /\ FileInv' /\ OverlayInv /\ [Next]_vars => OverlayInv'
  BY HeadersStep, TableStep, FromStep, SamePlaced, SameElf DEF OverlayInv
<1> QED BY <1>1, <1>2, Invariant, FileInvariant, PTL DEF Spec

-----------------------------------------------------------------------------
(* The file as words. *)
LEMMA SizesInWords ==
    ASSUME WellFormed(elf), SectionsMet(Len(elf.sections)), NEW s \in SectionIds
    PROVE  sizes[s] % 4 = 0
<1>1. CASE \E k \in LoadedSections : IdOf(k) = s
  <2>1. PICK k \in LoadedSections : IdOf(k) = s
    BY <1>1
  <2>2. k \in Met(Len(elf.sections)) /\ elf.sections[k].size \in Nat
    BY SectionFacts DEF Met
  <2>3. sizes[s] = RoundUp8(elf.sections[k].size)
    BY <2>1, <2>2 DEF SectionsMet
  <2> QED BY <2>2, <2>3, RoundedToWords
<1>2. CASE ~ \E k \in LoadedSections : IdOf(k) = s
  <2>1. sizes[s] = 0
    BY <1>2 DEF SectionsMet, Met
  <2> QED BY <2>1
<1> QED BY <1>1, <1>2

LEMMA WordsOfFile ==
    ASSUME FileSize \in Nat, FileSize % 4 = 0
    PROVE  /\ Len(FileWords) \in Nat /\ 4 * Len(FileWords) = FileSize
           /\ \A o \in Nat : o % 4 = 0 /\ o < FileSize => WordOf(FileWords, o) = WordAt(o)
<1>1. PICK n \in Nat : n = FileSize \div 4 /\ FileSize = 4 * n
  OBVIOUS
<1>2. FileWords = [q \in 1 .. n |-> WordAt(4 * (q - 1))]
  BY <1>1 DEF FileWords
<1>3. Len(FileWords) = n
  BY <1>2
<1>4. ASSUME NEW o \in Nat, o % 4 = 0, o < FileSize
      PROVE  WordOf(FileWords, o) = WordAt(o)
  <2>1. PICK p \in Nat : o = 4 * p /\ o \div 4 = p
    BY <1>4
  <2>2. p + 1 \in 1 .. n
    BY <1>1, <1>4, <2>1
  <2>3. FileWords[p + 1] = WordAt(4 * ((p + 1) - 1))
    BY <1>2, <2>2
  <2>4. 4 * ((p + 1) - 1) = o
    BY <2>1
  <2> QED BY <2>1, <2>3, <2>4 DEF WordOf
<1> QED BY <1>1, <1>3, <1>4

(* Places in the file that are multiples of four, in numbers. *)
LEMMA SumOfWords ==
    ASSUME NEW t \in Nat, NEW d \in Nat, NEW r \in Nat, t % 4 = 0, d % 4 = 0, r % 4 = 0
    PROVE  (t + d + r) % 4 = 0
OBVIOUS

LEMMA PlacesInWords ==
    ASSUME NEW h \in Nat, NEW f \in Nat, NEW c \in Nat, h % 4 = 0, f % 4 = 0, h + 24 + 4 * c <= f
    PROVE  /\ \A s \in 0 .. 3 : h + 4 * s \in Nat /\ (h + 4 * s) % 4 = 0 /\ h + 4 * s < f
           /\ h + 16 \in Nat /\ (h + 16) % 4 = 0 /\ h + 16 < f
           /\ \A q \in 1 .. c : /\ h + 16 + 4 * q \in Nat /\ (h + 16 + 4 * q) % 4 = 0
                               /\ h + 16 + 4 * q < f /\ h + 20 + 4 * (q - 1) = h + 16 + 4 * q
           /\ f - h \in 24 .. f /\ (f - h) % 4 = 0 /\ f - (f - h) = h
           /\ f - 4 \in Nat /\ (f - 4) % 4 = 0 /\ f - 4 < f
<1>1. PICK k \in Nat : h = 4 * k
  OBVIOUS
<1>2. PICK j \in Nat : f = 4 * j
  OBVIOUS
<1>3. \A s \in 0 .. 3 : h + 4 * s \in Nat /\ (h + 4 * s) % 4 = 0 /\ h + 4 * s < f
  <2> SUFFICES ASSUME NEW s \in 0 .. 3
               PROVE  h + 4 * s \in Nat /\ (h + 4 * s) % 4 = 0 /\ h + 4 * s < f
    OBVIOUS
  <2>1. h + 4 * s = 4 * (k + s) /\ k + s \in Nat
    BY <1>1
  <2> QED BY <2>1
<1>4. h + 16 \in Nat /\ (h + 16) % 4 = 0 /\ h + 16 < f
  BY <1>1
<1>5. ASSUME NEW q \in 1 .. c
      PROVE  /\ h + 16 + 4 * q \in Nat /\ (h + 16 + 4 * q) % 4 = 0
             /\ h + 16 + 4 * q < f /\ h + 20 + 4 * (q - 1) = h + 16 + 4 * q
  <2>1. h + 16 + 4 * q = 4 * (k + 4 + q) /\ k + 4 + q \in Nat /\ q <= c
    BY <1>1
  <2> QED BY <2>1
<1>6. f - h \in 24 .. f /\ (f - h) % 4 = 0 /\ f - (f - h) = h
  <2>1. f - h = 4 * (j - k) /\ j - k \in Nat
    BY <1>1, <1>2
  <2> QED BY <2>1
<1>7. f - 4 \in Nat /\ (f - 4) % 4 = 0 /\ f - 4 < f
  BY <1>2
<1> QED BY <1>3, <1>4, <1>5, <1>6, <1>7

(* What a whole file reads back as. *)
LEMMA WholeReads ==
    ASSUME IInv, Whole, ovl_file_header_addr = OffsetOf(BSS), SectionsMet(Len(elf.sections))
    PROVE  LET ws == FileWords
               h  == OffsetOf(BSS)
               c  == Len(ninty_relocs)
               f  == FileSize
           IN  /\ f \in Nat /\ h \in Nat /\ h % 4 = 0 /\ c \in Nat /\ h + 24 + 4 * c <= f
               /\ Len(ws) \in Nat /\ 4 * Len(ws) = f /\ Back(ws) = f - h
               /\ \A o \in Nat : o % 4 = 0 /\ o < f => WordOf(ws, o) = WordAt(o)
               /\ HeaderOf(ws) = h /\ CountOf(ws) = c
               /\ \A s \in SectionIds : SizeOf(ws, s) = sizes[s] /\ sizes[s] % 4 = 0
               /\ \A q \in 1 .. c : TableOf(ws)[q] = ninty_relocs[q]
               /\ f - h \in 24 .. f /\ (f - h) % 4 = 0
<1>1. PICK ws, h, c, f : /\ ws = FileWords /\ h = ovl_file_header_addr
                         /\ c = ninty_count_real /\ f = FileSize
  OBVIOUS
<1>2. /\ f \in Nat /\ f % 16 = 0 /\ WordAt(f - 4) = f - h
      /\ \A s \in SectionIds : WordAt(h + 4 * s) = sizes[s]
      /\ WordAt(h + 16) = c
      /\ \A q \in 1 .. c : WordAt(h + HeaderSize + 4 * (q - 1)) = ninty_relocs[q]
      /\ h + HeaderSize + 4 * c + FooterSize <= f
  BY <1>1, WholeParts
<1>3. h \in Nat /\ c \in Nat /\ c = Len(ninty_relocs)
  BY <1>1, OutputFacts DEF IInv, TypeOK, PassTypeOK
<1>4. /\ h = sizes[TEXT] + sizes[DATA] + sizes[RODATA]
      /\ sizes[TEXT] \in Nat /\ sizes[DATA] \in Nat /\ sizes[RODATA] \in Nat /\ sizes[BSS] \in Nat
  BY <1>1, OffsetFacts, SizeFacts
<1>5. \A s \in SectionIds : sizes[s] % 4 = 0
  BY SizesInWords DEF IInv, TypeOK
<1>6. h % 4 = 0
  <2>1. sizes[TEXT] % 4 = 0 /\ sizes[DATA] % 4 = 0 /\ sizes[RODATA] % 4 = 0
    BY <1>5 DEF SectionIds, TEXT, DATA, RODATA
  <2> QED BY <1>4, <2>1, SumOfWords
<1>7. f % 4 = 0 /\ h + 24 + 4 * c <= f
  <2>1. f \in Nat /\ f % 16 = 0 /\ h + HeaderSize + 4 * c + FooterSize <= f
    BY <1>2
  <2>2. f % 4 = 0
    BY <2>1
  <2>3. h + 24 + 4 * c <= f
    BY <1>3, <2>1 DEF HeaderSize, FooterSize
  <2> QED BY <2>2, <2>3
<1>7a. f \in Nat /\ h \in Nat /\ c \in Nat
  BY <1>2, <1>3
<1>7b. /\ \A s \in 0 .. 3 : h + 4 * s \in Nat /\ (h + 4 * s) % 4 = 0 /\ h + 4 * s < f
      /\ h + 16 \in Nat /\ (h + 16) % 4 = 0 /\ h + 16 < f
      /\ \A q \in 1 .. c : /\ h + 16 + 4 * q \in Nat /\ (h + 16 + 4 * q) % 4 = 0
                          /\ h + 16 + 4 * q < f /\ h + 20 + 4 * (q - 1) = h + 16 + 4 * q
      /\ f - h \in 24 .. f /\ (f - h) % 4 = 0 /\ f - (f - h) = h
      /\ f - 4 \in Nat /\ (f - 4) % 4 = 0 /\ f - 4 < f
  BY <1>7a, <1>6, <1>7, PlacesInWords
<1>8. /\ Len(ws) \in Nat /\ 4 * Len(ws) = f
      /\ \A o \in Nat : o % 4 = 0 /\ o < f => WordOf(ws, o) = WordAt(o)
  BY <1>1, <1>2, <1>7, WordsOfFile
<1>9. Back(ws) = f - h
  <2>1. f - 4 \in Nat /\ (f - 4) % 4 = 0 /\ (f - 4) \div 4 + 1 = Len(ws)
    BY <1>2, <1>3, <1>7, <1>8
  <2>2. WordOf(ws, f - 4) = f - h
    BY <1>2, <1>8, <2>1
  <2> QED BY <2>1, <2>2 DEF WordOf, Back
<1>10. HeaderOf(ws) = h
  <2>1. f - (f - h) = h
    BY <1>7a
  <2>2. 4 * Len(ws) = f
    BY <1>8
  <2>3. HeaderOf(ws) = f - (f - h)
    BY <1>9, <2>2 DEF HeaderOf
  <2> QED BY <2>1, <2>3
<1>11. \A s \in SectionIds : SizeOf(ws, s) = sizes[s]
  <2> SUFFICES ASSUME NEW s \in SectionIds PROVE SizeOf(ws, s) = sizes[s]
    OBVIOUS
  <2>1. s \in 0 .. 3
    BY DEF SectionIds
  <2>2. h + 4 * s \in Nat /\ (h + 4 * s) % 4 = 0 /\ h + 4 * s < f
    BY <1>7b, <2>1
  <2> QED BY <1>2, <1>8, <1>10, <2>2 DEF SizeOf
<1>12. CountOf(ws) = c
  <2>1. h + 16 \in Nat /\ (h + 16) % 4 = 0 /\ h + 16 < f
    BY <1>7b
  <2> QED BY <1>2, <1>8, <1>10, <2>1 DEF CountOf
<1>13. \A q \in 1 .. c : TableOf(ws)[q] = ninty_relocs[q]
  <2> SUFFICES ASSUME NEW q \in 1 .. c PROVE TableOf(ws)[q] = ninty_relocs[q]
    OBVIOUS
  <2>2. PICK o : o = h + 16 + 4 * q
    OBVIOUS
  <2>3. o \in Nat /\ o % 4 = 0 /\ o < f
    BY <1>7b, <2>2
  <2>4. TableOf(ws)[q] = WordOf(ws, o)
    BY <1>10, <1>12, <2>2 DEF TableOf
  <2>5. h + HeaderSize + 4 * (q - 1) = o
    BY <1>7b, <2>2 DEF HeaderSize
  <2> QED BY <1>2, <1>8, <2>3, <2>4, <2>5
<1>14. ws = FileWords /\ h = OffsetOf(BSS) /\ c = Len(ninty_relocs) /\ f = FileSize
  BY <1>1, <1>3
<1>15. /\ f \in Nat /\ h \in Nat /\ h % 4 = 0 /\ c \in Nat /\ h + 24 + 4 * c <= f
       /\ Len(ws) \in Nat /\ 4 * Len(ws) = f /\ Back(ws) = f - h
       /\ HeaderOf(ws) = h /\ CountOf(ws) = c
       /\ f - h \in 24 .. f /\ (f - h) % 4 = 0
  BY <1>6, <1>7, <1>8, <1>9, <1>10, <1>12, <1>7a, <1>7b
<1>16. /\ \A o \in Nat : o % 4 = 0 /\ o < f => WordOf(ws, o) = WordAt(o)
       /\ \A s \in SectionIds : SizeOf(ws, s) = sizes[s] /\ sizes[s] % 4 = 0
       /\ \A q \in 1 .. c : TableOf(ws)[q] = ninty_relocs[q]
  BY <1>5, <1>8, <1>11, <1>13
<1> QED BY <1>14, <1>15, <1>16

LEMMA WholeIsOverlay ==
    ASSUME IInv, Whole, ovl_file_header_addr = OffsetOf(BSS), FitsInts,
           SectionsMet(Len(elf.sections)),
           \A q \in 1 .. Len(ninty_relocs) : InOverlay(ninty_relocs[q])
    PROVE  IsOverlay(FileWords)
<1>1. PICK ws, h, c, f : /\ ws = FileWords /\ h = OffsetOf(BSS)
                         /\ c = Len(ninty_relocs) /\ f = FileSize
  OBVIOUS
<1>2. /\ f \in Nat /\ h \in Nat /\ h % 4 = 0 /\ c \in Nat /\ h + 24 + 4 * c <= f
      /\ Len(ws) \in Nat /\ 4 * Len(ws) = f /\ Back(ws) = f - h
      /\ HeaderOf(ws) = h /\ CountOf(ws) = c
      /\ \A s \in SectionIds : SizeOf(ws, s) = sizes[s] /\ sizes[s] % 4 = 0
      /\ \A q \in 1 .. c : TableOf(ws)[q] = ninty_relocs[q]
      /\ f - h \in 24 .. f /\ (f - h) % 4 = 0
  BY <1>1, WholeReads
<1>4. /\ h = sizes[TEXT] + sizes[DATA] + sizes[RODATA]
      /\ sizes[TEXT] \in Nat /\ sizes[DATA] \in Nat /\ sizes[RODATA] \in Nat /\ sizes[BSS] \in Nat
  BY <1>1, OffsetFacts, SizeFacts
<1>14. f < Word \div 2 /\ sizes[BSS] < Word \div 2 /\ Word \div 2 \in Nat
  <2>1. Word \in Nat
    BY Spans
  <2> QED BY <1>1, <2>1 DEF FitsInts
<1>15. HasHeader(ws)
  <2>1. ws # <<>>
    BY <1>2
  <2> QED BY <1>2, <1>14, <2>1 DEF HasHeader, HeaderSize, FooterSize
<1>16. HasTable(ws)
  BY <1>2 DEF HasTable, HeaderSize, FooterSize
<1>17. HasSections(ws)
  <2>1. \A s \in SectionIds : sizes[s] \in 0 .. (Word \div 2 - 1)
    <3>1. h < f
      BY <1>2
    <3>2. sizes[TEXT] <= h /\ sizes[DATA] <= h /\ sizes[RODATA] <= h
      BY <1>4
    <3>3. \A n \in Nat : n <= h => n < Word \div 2
      BY <1>2, <1>14, <3>1
    <3>4. \A s \in {TEXT, DATA, RODATA, BSS} : sizes[s] \in Nat /\ sizes[s] < Word \div 2
      BY <1>4, <1>14, <3>2, <3>3
    <3> QED BY <1>14, <3>4 DEF SectionIds, TEXT, DATA, RODATA, BSS
  <2>2. TEXT \in SectionIds /\ DATA \in SectionIds /\ RODATA \in SectionIds
    BY DEF SectionIds, TEXT, DATA, RODATA
  <2> QED BY <1>2, <1>4, <2>1, <2>2 DEF HasSections
<1>18. \A q \in 1 .. c : InSection(ws, ninty_relocs[q])
  <2> SUFFICES ASSUME NEW q \in 1 .. c PROVE InSection(ws, ninty_relocs[q])
    OBVIOUS
  <2>1. PICK w : w = ninty_relocs[q]
    OBVIOUS
  <2>2. InOverlay(w)
    BY <1>1, <2>1
  <2>3. OVL_RELOC_GET_SEC(w) \in SectionIds
    BY <2>2 DEF InOverlay, SectionIds, TEXT, DATA, RODATA
  <2> QED BY <1>2, <2>1, <2>2, <2>3 DEF InOverlay, InSection
<1> QED BY <1>1, <1>2, <1>15, <1>16, <1>17, <1>18 DEF IsOverlay

(* A conversion that succeeds writes an overlay in every respect the loader and the
   listings rely on without checking it, for all files, addresses and sizes
   (overlay.c:103-208, main.c:111-168). *)
THEOREM OverlayWritten == Spec => []WritesOverlay
<1>1. IInv /\ Contents /\ OverlayInv => WritesOverlay
  <2> SUFFICES ASSUME IInv, Contents, OverlayInv,
                      status = "ok", out = "written", Placed, FitsInts
               PROVE  IsOverlay(FileWords)
    BY DEF WritesOverlay
  <2>1. Whole /\ ovl_file_header_addr = OffsetOf(BSS)
    BY DEF Contents
  <2>2. /\ SectionsMet(Len(elf.sections))
        /\ \A q \in 1 .. Len(ninty_relocs) : InOverlay(ninty_relocs[q])
    BY DEF OverlayInv, HeadersKnown, AllLoaded, TableInOverlay
  <2> QED BY <2>1, <2>2, WholeIsOverlay
<1> QED BY <1>1, Invariant, ContentsInvariant, OverlayInvariant, PTL

-----------------------------------------------------------------------------
(***************************************************************************)
(* What is converted is listed right.  What is proved of the loader and    *)
(* the listings, for any files, holds of the one file written.             *)
(***************************************************************************)
Outputs == {<<f>> : f \in [exists : BOOLEAN, words : Seq(Nat)]}

Listing == INSTANCE OvlLoadProofs
           WITH disk <- <<Output>>, Disks <- Outputs, BaseAddrs <- Words,
                at <- reached, sec <- part, n <- index

(* The listing has done nothing yet. *)
Waiting ==
    /\ outcome = "running" /\ which = 1 /\ heap = {} /\ ovl = Lister!NoOvl
    /\ part = 0 /\ index = 0 /\ address = 0 /\ printed = <<>>

ListInv ==
    /\ reached = "waiting" => Waiting
    /\ reached # "waiting" => pc = "exit" /\ status = "ok"
    /\ reached # "waiting" /\ out = "written" =>
          /\ Listing!LoadInvariant /\ Listing!RowsInvariant
          /\ reached # "exit" => which = 1

-----------------------------------------------------------------------------
(* Both programs are built for the same machine. *)
LEMMA SameSpans ==
    /\ Listing!Word = Word /\ Listing!Words = Words /\ Listing!JumpSpan = JumpSpan
  BY DEF Listing!Words, Listing!Word, Listing!JumpSpan, Words, Word, JumpSpan

LEMMA LoaderAssumes == Listing!WordLayout /\ Listing!FormatSizes /\ Listing!Named
<1>1. Listing!WordLayout
  BY WordLayout, SameSpans DEF Listing!WordLayout
<1>2. Listing!FormatSizes
  BY FormatSizes DEF Listing!FormatSizes
<1>3. Listing!Named
  <2>1. ASSUME NEW d \in Outputs PROVE d \in Seq(Listing!Files) /\ d # <<>>
    <3>1. PICK f \in [exists : BOOLEAN, words : Seq(Nat)] : d = <<f>>
      BY DEF Outputs
    <3>2. f \in Listing!Files
      BY <3>1 DEF Listing!Files
    <3>3. <<f>> \in Seq(Listing!Files) /\ <<f>> # <<>>
      BY <3>2
    <3> QED BY <3>1, <3>3
  <2>2. Words \subseteq Listing!Words
    BY SameSpans
  <2> QED BY <2>1, <2>2 DEF Listing!Named
<1> QED BY <1>1, <1>2, <1>3

LEMMA ListStarts == Listing!Init => Listing!LoadInvariant /\ Listing!RowsInvariant
  BY LoaderAssumes, Listing!LoadStarts, Listing!RowsStart
     DEF Listing!WordLayout, Listing!FormatSizes, Listing!Named

LEMMA ListKept ==
    ASSUME Listing!LoadInvariant, Listing!RowsInvariant, [Listing!Next]_(Listing!vars)
    PROVE  Listing!LoadInvariant' /\ Listing!RowsInvariant'
<1>1. Listing!LoadInvariant'
  BY LoaderAssumes, Listing!LoadKept DEF Listing!WordLayout, Listing!FormatSizes, Listing!Named
<1>2. Listing!RowsInvariant'
  BY LoaderAssumes, Listing!RowsKept DEF Listing!WordLayout, Listing!FormatSizes, Listing!Named
<1> QED BY <1>1, <1>2

(* An overlay is the same for both. *)
LEMMA SameFormat ==
    /\ \A ws : Listing!Back(ws) = Back(ws) /\ Listing!HeaderOf(ws) = HeaderOf(ws)
    /\ \A ws, o : Listing!WordOf(ws, o) = WordOf(ws, o)
    /\ \A ws, s : Listing!SizeOf(ws, s) = SizeOf(ws, s)
    /\ \A ws, s : Listing!StartOf(ws, s) = StartOf(ws, s)
    /\ \A ws : Listing!CountOf(ws) = CountOf(ws) /\ Listing!TableOf(ws) = TableOf(ws)
    /\ \A r : /\ Listing!OVL_RELOC_GET_SEC(r) = OVL_RELOC_GET_SEC(r)
              /\ Listing!OVL_RELOC_GET_TYPE(r) = OVL_RELOC_GET_TYPE(r)
              /\ Listing!OVL_RELOC_GET_ADDR(r) = OVL_RELOC_GET_ADDR(r)
<1>1. \A ws : Listing!Back(ws) = Back(ws) /\ Listing!HeaderOf(ws) = HeaderOf(ws)
  BY DEF Listing!Back, Back, Listing!HeaderOf, HeaderOf
<1>2. \A ws, o : Listing!WordOf(ws, o) = WordOf(ws, o)
  BY DEF Listing!WordOf, WordOf
<1>3. \A ws, s : Listing!SizeOf(ws, s) = SizeOf(ws, s)
  BY <1>1, <1>2 DEF Listing!SizeOf, SizeOf
<1>4. \A ws : Listing!CountOf(ws) = CountOf(ws)
  BY <1>1, <1>2 DEF Listing!CountOf, CountOf
<1>5. \A ws : Listing!TableOf(ws) = TableOf(ws)
  BY <1>1, <1>2, <1>4 DEF Listing!TableOf, TableOf
<1>6. \A ws, s : Listing!StartOf(ws, s) = StartOf(ws, s)
  BY <1>3 DEF Listing!StartOf, StartOf, Listing!TEXT, Listing!DATA, Listing!RODATA,
     TEXT, DATA, RODATA
<1>7. \A r : /\ Listing!OVL_RELOC_GET_SEC(r) = OVL_RELOC_GET_SEC(r)
             /\ Listing!OVL_RELOC_GET_TYPE(r) = OVL_RELOC_GET_TYPE(r)
             /\ Listing!OVL_RELOC_GET_ADDR(r) = OVL_RELOC_GET_ADDR(r)
  BY DEF Listing!OVL_RELOC_GET_SEC, Listing!OVL_RELOC_GET_TYPE, Listing!OVL_RELOC_GET_ADDR,
     OVL_RELOC_GET_SEC, OVL_RELOC_GET_TYPE, OVL_RELOC_GET_ADDR, Listing!TypeSpan, TypeSpan
<1> QED BY <1>1, <1>2, <1>3, <1>4, <1>5, <1>6, <1>7

LEMMA SameOverlay == \A ws : IsOverlay(ws) => Listing!IsOverlay(ws)
<1> SUFFICES ASSUME NEW ws, IsOverlay(ws) PROVE Listing!IsOverlay(ws)
  OBVIOUS
<1>1. Listing!HasHeader(ws)
  BY SameSpans, SameFormat DEF IsOverlay, HasHeader, Listing!HasHeader, HeaderSize, FooterSize,
     Listing!HeaderSize, Listing!FooterSize
<1>2. Listing!HasTable(ws)
  BY SameFormat DEF IsOverlay, HasTable, Listing!HasTable, HeaderSize, FooterSize,
     Listing!HeaderSize, Listing!FooterSize
<1>3. Listing!HasSections(ws)
  BY SameSpans, SameFormat DEF IsOverlay, HasSections, Listing!HasSections, SectionIds,
     Listing!SectionIds, TEXT, DATA, RODATA, Listing!TEXT, Listing!DATA, Listing!RODATA
<1>4. ASSUME NEW r, InSection(ws, r) PROVE Listing!InSection(ws, r)
  BY <1>4, SameFormat DEF InSection, Listing!InSection, TypeNames, Listing!TypeNames,
     TEXT, DATA, RODATA, Listing!TEXT, Listing!DATA, Listing!RODATA
<1>5. \A q \in 1 .. Listing!CountOf(ws) : Listing!InSection(ws, Listing!TableOf(ws)[q])
  BY <1>4, SameFormat DEF IsOverlay
<1> QED BY <1>1, <1>2, <1>3, <1>5 DEF Listing!IsOverlay

(* A step of the listing is one of the program proved about. *)
LEMMA SameStep == Lister!Next => Listing!Next
<1>1. Lister!CannotRead \/ Lister!Read \/ Lister!Refuse => Listing!Next
  BY DEF Listing!Next,
     Listing!CannotRead, Listing!Read, Listing!Refuse, Listing!Inputs, Listing!Exit, Listing!Undefined, Listing!NotAnOverlay, Listing!Offset, Listing!filesize, Listing!words, Listing!Signed, Listing!Word,
     Lister!CannotRead, Lister!Read, Lister!Refuse, Lister!Inputs, Lister!Exit, Lister!Undefined, Lister!NotAnOverlay, Lister!Offset, Lister!filesize, Lister!words, Lister!Signed, Lister!Word
<1>2. Lister!GetHeader => Listing!Next
  BY DEF Listing!Next,
     Listing!GetHeader, Listing!NotAnOverlay, Listing!Inside, Listing!HeaderAt, Listing!Offset, Listing!filesize, Listing!words, Listing!Signed, Listing!Word, Listing!HeaderSize, Listing!NoOvl, Listing!SectionIds, Listing!Data, Listing!Mix, Listing!Undefined, Listing!Inputs,
     Lister!GetHeader, Lister!NotAnOverlay, Lister!Inside, Lister!HeaderAt, Lister!Offset, Lister!filesize, Lister!words, Lister!Signed, Lister!Word, Lister!HeaderSize, Lister!NoOvl, Lister!SectionIds, Lister!Data, Lister!Mix, Lister!Undefined, Lister!Inputs
<1>3. Lister!CopyRelocation \/ Lister!CopyEnds => Listing!Next
  BY DEF Listing!Next,
     Listing!CopyRelocation, Listing!CopyEnds, Listing!TableAt, Listing!HeaderSize, Listing!Inside, Listing!filesize, Listing!words, Listing!Data, Listing!Mix, Listing!Undefined, Listing!Inputs,
     Lister!CopyRelocation, Lister!CopyEnds, Lister!TableAt, Lister!HeaderSize, Lister!Inside, Lister!filesize, Lister!words, Lister!Data, Lister!Mix, Lister!Undefined, Lister!Inputs
<1>4. Lister!MakeSection \/ Lister!Loaded => Listing!Next
  BY DEF Listing!Next,
     Listing!MakeSection, Listing!Loaded, Listing!SectionIds, Listing!NextTotal, Listing!Word, Listing!Inputs,
     Lister!MakeSection, Lister!Loaded, Lister!SectionIds, Lister!NextTotal, Lister!Word, Lister!Inputs
<1>5. Lister!ListSection \/ Lister!PrintEnds => Listing!Next
  BY DEF Listing!Next,
     Listing!ListSection, Listing!PrintEnds, Listing!SectionIds, Listing!Word, Listing!Signed, Listing!PrintFrame, Listing!Inputs, Listing!Shown, Listing!TEXT, Listing!DATA, Listing!RODATA,
     Lister!ListSection, Lister!PrintEnds, Lister!SectionIds, Lister!Word, Lister!Signed, Lister!PrintFrame, Lister!Inputs, Lister!Shown, Lister!TEXT, Lister!DATA, Lister!RODATA
<1>6. Lister!ListRelocation => Listing!Next
  BY DEF Listing!Next,
     Listing!ListRelocation, Listing!OVL_RELOC_GET_SEC, Listing!OVL_RELOC_GET_TYPE, Listing!OVL_RELOC_GET_ADDR, Listing!TypeSpan, Listing!TypeNames, Listing!SectionIds, Listing!AbsAddr, Listing!Inside, Listing!filesize, Listing!words, Listing!Data, Listing!Mix, Listing!Signed, Listing!Word, Listing!Undefined, Listing!PrintFrame, Listing!Inputs,
     Lister!ListRelocation, Lister!OVL_RELOC_GET_SEC, Lister!OVL_RELOC_GET_TYPE, Lister!OVL_RELOC_GET_ADDR, Lister!TypeSpan, Lister!TypeNames, Lister!SectionIds, Lister!AbsAddr, Lister!Inside, Lister!filesize, Lister!words, Lister!Data, Lister!Mix, Lister!Signed, Lister!Word, Lister!Undefined, Lister!PrintFrame, Lister!Inputs
<1>7. Lister!DisassembleWord \/ Lister!DisassembleNext => Listing!Next
  BY DEF Listing!Next,
     Listing!DisassembleWord, Listing!DisassembleNext, Listing!Shown, Listing!TEXT, Listing!DATA, Listing!RODATA, Listing!Inside, Listing!filesize, Listing!words, Listing!Data, Listing!Mix, Listing!Signed, Listing!Word, Listing!Undefined, Listing!PrintFrame, Listing!Inputs,
     Lister!DisassembleWord, Lister!DisassembleNext, Lister!Shown, Lister!TEXT, Lister!DATA, Lister!RODATA, Lister!Inside, Lister!filesize, Lister!words, Lister!Data, Lister!Mix, Lister!Signed, Lister!Word, Lister!Undefined, Lister!PrintFrame, Lister!Inputs
<1>8. Lister!Free \/ Lister!Ended => Listing!Next
  BY DEF Listing!Next,
     Listing!Free, Listing!Freed, Listing!Ended, Listing!vars, Listing!Exit, Listing!Inputs,
     Lister!Free, Lister!Freed, Lister!Ended, Lister!vars, Lister!Exit, Lister!Inputs
<1> QED BY <1>1, <1>2, <1>3, <1>4, <1>5, <1>6, <1>7, <1>8 DEF Lister!Next

-----------------------------------------------------------------------------
(* The file handed over. *)
LEMMA OutputThere ==
    ASSUME IInv, Whole, ovl_file_header_addr = OffsetOf(BSS), out = "written"
    PROVE  <<Output>> \in Outputs
<1>1. /\ FileSize \in Nat /\ FileSize % 16 = 0
      /\ \A o : WordAt(o) \in Nat
  BY WholeParts, OutputFacts DEF WordAt, FileOK
<1>2. FileSize \div 4 \in Nat
  BY <1>1
<1>3. FileWords \in Seq(Nat)
  BY <1>1, <1>2 DEF FileWords
<1>4. Output \in [exists : BOOLEAN, words : Seq(Nat)]
  BY <1>3 DEF Output
<1> QED BY <1>4 DEF Outputs

LEMMA ListInvStarts == TwoRunsInit => ListInv
  BY DEF TwoRunsInit, ListInv, Waiting

LEMMA ConvertKeeps ==
    ASSUME ListInv, Convert \/ UNCHANGED <<vars, listVars>>
    PROVE  ListInv'
<1>1. UNCHANGED <<mode, which, reached, outcome, heap, ovl, part, index, address, printed>>
  BY DEF Convert, listVars
<1>2. CASE reached = "waiting"
  BY <1>1, <1>2 DEF ListInv, Waiting, Lister!NoOvl, Lister!SectionIds
<1>3. CASE reached # "waiting"
  <2>1. pc = "exit"
    BY <1>3 DEF ListInv
  <2>2. UNCHANGED vars
    BY <2>1 DEF Convert, Next, Exited, Open, CreateFails, Create, LoadSkip, LoadDuplicate, LoadSection,
       LoadEnd, CountScan, CountSort, CountEntry, CountNext, CountEnd, Layout, RelocScan, RelocSort,
       RelocEntry, RelocNext, RelocEnd, CheckCount, WriteHeader, WriteRelocs, WriteFooter, CheckBss,
       WriteSection, CheckHeader, Close, ScanSkips, ScanFinds, SortInserts, SortEnds, ListEnds
  <2>3. UNCHANGED <<pc, status, out, file, base_addr>>
    BY <2>2 DEF vars, inputVars, outVars
  <2>4. Output' = Output
    BY <2>3 DEF Output, FileWords, FileSize, WordAt
  <2>5. UNCHANGED Listing!vars
    BY <1>1, <2>3, <2>4 DEF Listing!vars
  <2>6. out = "written" => Listing!LoadInvariant' /\ Listing!RowsInvariant'
    BY <1>3, <2>5, ListKept DEF ListInv
  <2> QED BY <1>1, <1>3, <2>3, <2>6 DEF ListInv
<1> QED BY <1>2, <1>3

LEMMA StartKeeps ==
    ASSUME IInv, Contents, ListInv, StartListing
    PROVE  ListInv'
<1>1. /\ pc = "exit" /\ status = "ok" /\ reached = "waiting" /\ Waiting
      /\ mode' \in Lister!Modes /\ reached' = "open"
      /\ UNCHANGED <<which, outcome, heap, ovl, part, index, address, printed>>
      /\ UNCHANGED <<pc, status, out, file, base_addr>>
  BY DEF StartListing, ListInv, vars, inputVars, outVars
<1>2. CASE out = "written"
  <2>1. Output' = Output
    BY <1>1 DEF Output, FileWords, FileSize, WordAt
  <2>2. <<Output'>> \in Outputs
    BY <1>1, <1>2, <2>1, OutputThere DEF Contents
  <2>3. Listing!Start'
    BY <1>1 DEF Listing!Start, Waiting, Listing!NoOvl, Lister!NoOvl, Listing!SectionIds,
       Lister!SectionIds
  <2>4. base_addr' \in Words
    BY <1>1 DEF IInv, TypeOK
  <2>5. mode' \in Listing!Modes
    BY <1>1 DEF Listing!Modes, Lister!Modes
  <2>6. Listing!Init'
    BY <2>2, <2>3, <2>4, <2>5 DEF Listing!Init
  <2>7. Listing!Init' => Listing!LoadInvariant' /\ Listing!RowsInvariant'
    BY ListStarts, PTL
  <2> QED BY <1>1, <2>6, <2>7 DEF ListInv, Waiting
<1>3. CASE out # "written"
  BY <1>1, <1>3 DEF ListInv
<1> QED BY <1>2, <1>3

(* A listing once started has no way back, and one file to go through. *)
LEMMA ListingGoes ==
    ASSUME reached # "waiting", Lister!Next
    PROVE  reached' # "waiting" /\ (reached' # "exit" /\ which = 1 => which' = 1)
<1>1. CASE Lister!CannotRead \/ Lister!Read \/ Lister!Refuse \/ Lister!GetHeader
  BY <1>1 DEF Lister!CannotRead, Lister!Read, Lister!Refuse, Lister!GetHeader, Lister!Exit,
     Lister!Undefined
<1>2. CASE Lister!CopyRelocation \/ Lister!CopyEnds \/ Lister!MakeSection \/ Lister!Loaded
  BY <1>2 DEF Lister!CopyRelocation, Lister!CopyEnds, Lister!MakeSection, Lister!Loaded,
     Lister!Undefined
<1>3. CASE \/ Lister!ListSection \/ Lister!ListRelocation \/ Lister!DisassembleWord
           \/ Lister!DisassembleNext \/ Lister!PrintEnds
  BY <1>3 DEF Lister!ListSection, Lister!ListRelocation, Lister!DisassembleWord,
     Lister!DisassembleNext, Lister!PrintEnds, Lister!PrintFrame, Lister!Undefined
<1>4. CASE Lister!Free
  <2>1. /\ which' = which + 1
        /\ IF which < Len(<<Output>>) THEN reached' = "open" ELSE reached' = "exit"
    BY <1>4 DEF Lister!Free, Lister!Exit
  <2>2. which = 1 => ~(which < Len(<<Output>>))
    OBVIOUS
  <2> QED BY <2>1, <2>2
<1>5. CASE Lister!Ended
  BY <1>5 DEF Lister!Ended, Lister!vars
<1> QED BY <1>1, <1>2, <1>3, <1>4, <1>5 DEF Lister!Next

LEMMA ListKeeps == ASSUME ListInv, List PROVE ListInv'
<1>1. reached # "waiting" /\ Lister!Next /\ Listing!Next /\ UNCHANGED <<pc, status, out>>
  BY SameStep DEF List, vars, outVars
<1>2. reached' # "waiting" /\ (reached' # "exit" /\ which = 1 => which' = 1)
  BY <1>1, ListingGoes
<1>3. reached' # "exit" => reached # "exit"
  BY <1>1 DEF Lister!Next, Lister!Ended, Lister!vars, Lister!CannotRead, Lister!Read, Lister!Refuse,
     Lister!GetHeader, Lister!CopyRelocation, Lister!CopyEnds, Lister!MakeSection, Lister!Loaded,
     Lister!ListSection, Lister!ListRelocation, Lister!DisassembleWord, Lister!DisassembleNext,
     Lister!PrintEnds, Lister!Free
<1>4. out = "written" => Listing!LoadInvariant' /\ Listing!RowsInvariant'
  BY <1>1, ListKept DEF ListInv
<1> QED BY <1>1, <1>2, <1>3, <1>4 DEF ListInv

(* Of the two runs, the conversion is one as it is alone. *)
LEMMA ConvertsAlone == TwoRuns => Spec
<1>1. TwoRunsInit => Init
  BY DEF TwoRunsInit
<1>2. [Convert \/ StartListing \/ List]_<<vars, listVars>> => [Next]_vars
  BY DEF Convert, StartListing, List
<1> QED BY <1>1, <1>2, PTL DEF TwoRuns, Spec

(* The second run is of the loader proved about, on the file of the first. *)
THEOREM ListingInvariant == TwoRuns => []ListInv
<1>1. TwoRunsInit => ListInv
  BY ListInvStarts
<1>2. IInv /\ Contents /\ ListInv /\ [Convert \/ StartListing \/ List]_<<vars, listVars>>
         => ListInv'
  BY ConvertKeeps, StartKeeps, ListKeeps
<1> QED BY <1>1, <1>2, ConvertsAlone, Invariant, ContentsInvariant, PTL DEF TwoRuns

-----------------------------------------------------------------------------
(***************************************************************************)
(* What is printed, in terms of the conversion.                            *)
(***************************************************************************)
Handed ==
    /\ IInv /\ InOrder /\ AllThere /\ Whole /\ ovl_file_header_addr = OffsetOf(BSS)
    /\ SectionsMet(Len(elf.sections)) /\ IsOverlay(FileWords) /\ FileWords \in Seq(Nat)
    /\ status = "ok"
    /\ \A q \in 1 .. Len(ninty_relocs) : InOverlay(ninty_relocs[q])

Converted == status = "ok" /\ out = "written" /\ Placed /\ FitsInts

LEMMA HandedOver ==
    ASSUME IInv, Contents, OverlayInv, InOrder, SectionsThere, Converted
    PROVE  Handed
<1>1. Whole /\ ovl_file_header_addr = OffsetOf(BSS) /\ AllThere
  BY DEF Contents, SectionsThere, Converted
<1>2. /\ SectionsMet(Len(elf.sections))
      /\ \A q \in 1 .. Len(ninty_relocs) : InOverlay(ninty_relocs[q])
  BY DEF OverlayInv, HeadersKnown, AllLoaded, TableInOverlay, Converted
<1>3. IsOverlay(FileWords)
  BY <1>1, <1>2, WholeIsOverlay DEF Converted
<1>4. FileWords \in Seq(Nat)
  <2>1. <<Output>> \in Outputs
    BY <1>1, OutputThere DEF Converted
  <2>2. PICK f \in [exists : BOOLEAN, words : Seq(Nat)] : <<Output>> = <<f>>
    BY <2>1 DEF Outputs
  <2>3. Output \in [exists : BOOLEAN, words : Seq(Nat)]
    BY <2>2
  <2> QED BY <2>3 DEF Output
<1> QED BY <1>1, <1>2, <1>3, <1>4 DEF Handed, Converted

(* Where sections are: as the header of the file adds them up, at the base address. *)
LEMMA SectionsAt ==
    ASSUME Handed, NEW s \in {TEXT, DATA, RODATA}
    PROVE  LET h == OffsetOf(BSS)
               o == OffsetOf(s)
           IN  /\ h \in Nat /\ o \in Nat /\ o % 4 = 0 /\ o + sizes[s] <= h
               /\ sizes[s] \in Nat /\ sizes[s] % 4 = 0 /\ s \in SectionIds
               /\ base_addr \in Nat /\ base_addr + h < Word /\ Word \in Nat \ {0}
               /\ ovl_starts[s] = base_addr + o
               /\ StartOf(FileWords, s) = o /\ SizeOf(FileWords, s) = sizes[s]
<1>1. PICK t, d, r : t = sizes[TEXT] /\ d = sizes[DATA] /\ r = sizes[RODATA]
  OBVIOUS
<1>2. /\ t \in Nat /\ d \in Nat /\ r \in Nat /\ base_addr \in Nat
      /\ OffsetOf(TEXT) = 0 /\ OffsetOf(DATA) = t /\ OffsetOf(RODATA) = t + d
      /\ OffsetOf(BSS) = t + d + r
  BY <1>1, SizeFacts, OffsetFacts DEF Handed
<1>3. /\ \A z \in SectionIds : SizeOf(FileWords, z) = sizes[z] /\ sizes[z] % 4 = 0
      /\ TEXT \in SectionIds /\ DATA \in SectionIds /\ RODATA \in SectionIds /\ BSS \in SectionIds
  BY WholeReads DEF Handed, SectionIds, TEXT, DATA, RODATA, BSS
<1>4. t % 4 = 0 /\ d % 4 = 0 /\ r % 4 = 0
  BY <1>1, <1>3
<1>5. (t + d) % 4 = 0
  BY <1>2, <1>4
<1>6. /\ ovl_starts[TEXT] = base_addr /\ ovl_starts[DATA] = base_addr + t
      /\ ovl_starts[RODATA] = base_addr + (t + d)
  BY <1>2 DEF Handed, AllThere, ArrangedUpTo, TEXT, DATA, RODATA, BSS
<1>7. base_addr + (t + d + r) < Word /\ Word \in Nat \ {0}
  <2>1. ovl_starts[BSS] \in Nat /\ ovl_starts[BSS] < Word /\ Word \in Nat \ {0}
    <3>1. ovl_starts[BSS] \in Words
      BY DEF Handed, IInv, TypeOK, EngineTypeOK, SectionIds, BSS
    <3> QED BY <3>1, Spans DEF Words
  <2>2. ovl_starts[RODATA] + r <= ovl_starts[BSS]
    BY <1>1 DEF Handed, InOrder, RODATA, BSS
  <2> QED BY <1>2, <1>6, <2>1, <2>2
<1>8. /\ StartOf(FileWords, TEXT) = 0 /\ StartOf(FileWords, DATA) = t
      /\ StartOf(FileWords, RODATA) = t + d
  BY <1>1, <1>2, <1>3 DEF StartOf, TEXT, DATA, RODATA
<1>9. CASE s = TEXT
  <2>1. 0 % 4 = 0 /\ 0 + t <= t + d + r /\ base_addr + 0 = base_addr
    BY <1>2
  <2>2. base_addr + (t + d + r) < Word /\ Word \in Nat \ {0} /\ t + d + r \in Nat
    BY <1>2, <1>7
  <2> QED BY <1>1, <1>2, <1>3, <1>6, <1>8, <1>9, <2>1, <2>2
<1>10. CASE s = DATA
  BY <1>1, <1>2, <1>3, <1>4, <1>6, <1>7, <1>8, <1>10
<1>11. CASE s = RODATA
  BY <1>1, <1>2, <1>3, <1>4, <1>5, <1>6, <1>7, <1>8, <1>11
<1> QED BY <1>9, <1>10, <1>11

(* Which words are in the file at a place inside of the sections. *)
LEMMA WordThere ==
    ASSUME Handed, NEW o \in Nat, o % 4 = 0, o < OffsetOf(BSS)
    PROVE  /\ WordOf(FileWords, o) = WordAt(o)
           /\ (base_addr + o) % Word = base_addr + o
<1>1. PICK h, f : h = OffsetOf(BSS) /\ f = FileSize
  OBVIOUS
<1>2. /\ h \in Nat /\ f \in Nat /\ h <= f
      /\ \A p \in Nat : p % 4 = 0 /\ p < f => WordOf(FileWords, p) = WordAt(p)
  <2>1. PICK c \in Nat : c = Len(ninty_relocs)
    BY WholeReads DEF Handed
  <2>2. f \in Nat /\ h \in Nat /\ h + 24 + 4 * c <= f
    BY <1>1, <2>1, WholeReads DEF Handed
  <2>3. h <= f
    BY <2>1, <2>2
  <2> QED BY <1>1, <2>2, <2>3, WholeReads DEF Handed
<1>3. o < f
  BY <1>1, <1>2
<1>4. base_addr \in Nat /\ base_addr + h < Word /\ Word \in Nat \ {0}
  BY <1>1, SectionsAt
<1>5. base_addr + o \in Nat /\ base_addr + o < Word
  BY <1>1, <1>2, <1>4
<1>6. (base_addr + o) % Word = base_addr + o
  BY <1>4, <1>5, SmallMod
<1> QED BY <1>2, <1>3, <1>6

(* A relocation is shown with the address and the word the converter has given it. *)
LEMMA RelocationShown ==
    ASSUME Handed, NEW q \in 1 .. Len(ninty_relocs)
    PROVE  Listing!RelocationRow(FileWords, base_addr, ninty_relocs[q])
               = RelocationRow(ninty_relocs[q])
<1>1. PICK r, s, d : /\ r = ninty_relocs[q] /\ s = OVL_RELOC_GET_SEC(r)
                     /\ d = OVL_RELOC_GET_ADDR(r)
  OBVIOUS
<1>2. /\ s \in {TEXT, DATA, RODATA} /\ d \in Nat /\ d % 4 = 0 /\ d + 4 <= sizes[s]
  BY <1>1 DEF Handed, InOverlay
<1>3. PICK h, p, z, b : h = OffsetOf(BSS) /\ p = OffsetOf(s) /\ z = sizes[s] /\ b = base_addr
  OBVIOUS
<1>4. /\ h \in Nat /\ p \in Nat /\ p % 4 = 0 /\ p + z <= h /\ z \in Nat /\ b \in Nat
      /\ ovl_starts[s] = b + p /\ StartOf(FileWords, s) = p
  BY <1>2, <1>3, SectionsAt
<1>5. PICK o : o = p + d
  OBVIOUS
<1>6. o \in Nat /\ o % 4 = 0 /\ o < h
  <2>1. d + 4 <= z
    BY <1>2, <1>3
  <2>2. o \in Nat /\ o < h
    BY <1>2, <1>4, <1>5, <2>1
  <2>3. (p + d) % 4 = 0
    BY <1>2, <1>4
  <2> QED BY <1>5, <2>2, <2>3
<1>7. WordOf(FileWords, o) = WordAt(o) /\ (b + o) % Word = b + o
  BY <1>3, <1>6, WordThere
<1>8. (b + p) + d = b + o /\ (b + o) - b = o
  BY <1>2, <1>4, <1>5
<1>9. RelocationRow(r) = <<b + o, s, OVL_RELOC_GET_TYPE(r), WordAt(o)>>
  <2>1. ovl_starts[s] + d = b + o
    BY <1>4, <1>8
  <2> QED BY <1>1, <1>3, <1>8, <2>1 DEF RelocationRow
<1>10. Listing!RelocationRow(FileWords, base_addr, r)
          = <<(b + o) % Word, s, OVL_RELOC_GET_TYPE(r), WordOf(FileWords, o)>>
  <2>1. Listing!StartOf(FileWords, s) + Listing!OVL_RELOC_GET_ADDR(r) = o
    BY <1>1, <1>4, <1>5, SameFormat
  <2> QED BY <1>1, <1>3, <1>6, <2>1, SameFormat, SameSpans DEF Listing!RelocationRow
<1> QED BY <1>1, <1>7, <1>9, <1>10

(* The k-th word of a section is disassembled at the address the layout has given it,
   and is the one in the image. *)
LEMMA CodeShown ==
    ASSUME Handed, NEW s \in {TEXT, DATA, RODATA}, NEW k \in Nat, k < sizes[s] \div 4,
           NEW g, g = OffsetOf(s) \div 4 + k
    PROVE  /\ g \in Nat /\ g < OffsetOf(BSS) \div 4
           /\ <<(base_addr + 4 * g) % Word, FileWords[g + 1]>> = CodeRows(s)[k + 1]
<1>1. PICK h, p, z, b : h = OffsetOf(BSS) /\ p = OffsetOf(s) /\ z = sizes[s] /\ b = base_addr
  OBVIOUS
<1>2. /\ h \in Nat /\ p \in Nat /\ p % 4 = 0 /\ p + z <= h /\ z \in Nat /\ z % 4 = 0 /\ b \in Nat
      /\ ovl_starts[s] = b + p
  BY <1>1, SectionsAt
<1>3. PICK m \in Nat, n \in Nat : p = 4 * m /\ z = 4 * n /\ p \div 4 = m /\ z \div 4 = n
  BY <1>2
<1>4. g = m + k /\ k < n /\ g \in Nat
  BY <1>1, <1>3
<1>5. PICK o : o = 4 * g
  OBVIOUS
<1>6. /\ o \in Nat /\ o % 4 = 0 /\ o \div 4 = g /\ o < h /\ o = p + 4 * k
      /\ g < h \div 4
  <2>1. o \in Nat /\ o % 4 = 0 /\ o \div 4 = g
    BY <1>4, <1>5
  <2>2. o = p + 4 * k /\ 4 * (m + n) <= h /\ o < 4 * (m + n)
    BY <1>2, <1>3, <1>4, <1>5
  <2>3. m + n <= h \div 4
    BY <1>2, <2>2
  <2> QED BY <1>2, <1>3, <1>4, <2>1, <2>2, <2>3
<1>7. WordOf(FileWords, o) = WordAt(o) /\ (b + o) % Word = b + o
  BY <1>1, <1>6, WordThere
<1>8. FileWords[g + 1] = WordAt(o)
  BY <1>6, <1>7 DEF WordOf
<1>9. PICK j : j = k + 1
  OBVIOUS
<1>10. j \in 1 .. (z \div 4) /\ j - 1 = k
  BY <1>3, <1>4, <1>9
<1>11. SectionImage(s)[j] = memory[elf_starts[s] - elf.ep + 4 * k]
  BY <1>1, <1>10 DEF SectionImage, PlaceOf
<1>12. WordAt(o) = memory[elf_starts[s] - elf.ep + 4 * k]
  <2>1. SectionThere(s)
    BY DEF Handed, AllThere
  <2>2. Holding(p + 4 * k, memory[elf_starts[s] - elf.ep + 4 * k])
    BY <1>1, <1>10, <2>1 DEF SectionThere
  <2> QED BY <1>6, <2>2 DEF Holding, WordAt
<1>13. ovl_starts[s] + 4 * k = b + o
  BY <1>2, <1>6
<1>14. CodeRows(s)[j] = <<b + o, WordAt(o)>>
  BY <1>1, <1>10, <1>11, <1>12, <1>13 DEF CodeRows
<1> QED BY <1>1, <1>4, <1>5, <1>6, <1>7, <1>8, <1>9, <1>14

LEMMA OneOverlay ==
    ASSUME Handed, out = "written"
    PROVE  /\ Len(<<Output>>) = 1 /\ <<Output>>[1] = Output /\ Listing!Overlay(Output)
           /\ Output.words = FileWords /\ Listing!IsOverlay(FileWords)
           /\ <<Output>> \in Seq(Listing!Files)
<1>1. Output.exists /\ Output.words = FileWords
  BY DEF Output
<1>2. Listing!IsOverlay(FileWords)
  BY SameOverlay DEF Handed
<1>3. Output \in Listing!Files
  BY DEF Output, Handed, Listing!Files
<1> QED BY <1>1, <1>2, <1>3 DEF Listing!Overlay

(* All that is printed is the rows of the file. *)
LEMMA RowsPrinted ==
    ASSUME ListInv, Handed, out = "written", outcome = "ok"
    PROVE  mode \in Listing!Modes /\ printed = Listing!LoaderRows(FileWords, mode, base_addr)
<1>1. Listing!RowsInvariant
  BY DEF ListInv, Waiting
<1>2. Listing!AllOverlays
  BY OneOverlay DEF Listing!AllOverlays
<1>3. mode \in Listing!Modes /\ printed = Listing!Done(<<Output>>, mode, base_addr, Len(<<Output>>))
  BY <1>1, <1>2 DEF Listing!RowsInvariant
<1>4. PICK files \in Seq(Listing!Files) : files = <<Output>>
  BY OneOverlay
<1>5. Len(files) = 1 /\ files[1].words = FileWords
  BY <1>4, OneOverlay
<1>6. Listing!Done(files, mode, base_addr, 0 + 1) = Listing!LoaderRows(files[0 + 1].words, mode, base_addr)
  <2>1. 0 \in Nat /\ 0 < Len(files)
    BY <1>5
  <2> QED BY <2>1, LoaderAssumes, Listing!DoneMore
          DEF Listing!WordLayout, Listing!FormatSizes, Listing!Named
<1> QED BY <1>3, <1>4, <1>5, <1>6

LEMMA SectionsListed ==
    ASSUME Handed, NEW s \in {TEXT, DATA, RODATA}
    PROVE  Listing!LoaderRows(FileWords, "sections", base_addr)[s + 1] = SectionRow(s)
<1>1. /\ SizeOf(FileWords, s) = sizes[s] /\ base_addr \in Nat /\ Word \in Nat \ {0}
      /\ s \in SectionIds
  BY SectionsAt
<1>2. PICK h, o \in Nat : /\ h = OffsetOf(BSS) /\ o = OffsetOf(s) /\ StartOf(FileWords, s) = o
                         /\ ovl_starts[s] = base_addr + o /\ h \in Nat /\ o <= h
                         /\ base_addr + h < Word
  BY SectionsAt
<1>3. base_addr + o \in Nat /\ base_addr + o < Word
  BY <1>1, <1>2
<1>4. (base_addr + o) % Word = base_addr + o
  BY <1>1, <1>3, SmallMod
<1>5. PICK q \in 1 .. 4 : q = s + 1 /\ q - 1 = s
  BY <1>1 DEF SectionIds
<1>6. Listing!LoaderRows(FileWords, "sections", base_addr)[q]
         = <<(base_addr + Listing!StartOf(FileWords, q - 1)) % Listing!Word,
             Listing!SizeOf(FileWords, q - 1)>>
  BY DEF Listing!LoaderRows, Listing!LoaderSectionRows
<1>7. Listing!LoaderRows(FileWords, "sections", base_addr)[q] = <<base_addr + o, sizes[s]>>
  BY <1>1, <1>2, <1>4, <1>5, <1>6, SameFormat, SameSpans
<1> QED BY <1>2, <1>5, <1>7 DEF SectionRow

LEMMA RelocationsListed ==
    ASSUME Handed
    PROVE  Listing!LoaderRows(FileWords, "relocations", base_addr)
              = [q \in 1 .. Len(ninty_relocs) |-> RelocationRow(ninty_relocs[q])]
<1>1. PICK c, t : c = Len(ninty_relocs) /\ t = TableOf(FileWords)
  OBVIOUS
<1>2. CountOf(FileWords) = c /\ \A q \in 1 .. c : t[q] = ninty_relocs[q]
  BY <1>1, WholeReads DEF Handed
<1>3. Listing!LoaderRows(FileWords, "relocations", base_addr)
         = [q \in 1 .. c |-> Listing!RelocationRow(FileWords, base_addr, t[q])]
  BY <1>1, <1>2, SameFormat DEF Listing!LoaderRows
<1>4. \A q \in 1 .. c : Listing!RelocationRow(FileWords, base_addr, t[q]) = RelocationRow(ninty_relocs[q])
  BY <1>1, <1>2, RelocationShown
<1> QED BY <1>1, <1>3, <1>4

(* The rows of -d and -D as a sequence. *)
CodeRow(q) == <<(base_addr + 4 * (q - 1)) % Word, FileWords[q]>>

LEMMA TextListed ==
    ASSUME Handed
    PROVE  Listing!LoaderRows(FileWords, "text", base_addr) = CodeRows(TEXT)
<1>1. PICK n : n = sizes[TEXT] \div 4
  OBVIOUS
<1>2. SizeOf(FileWords, TEXT) = sizes[TEXT] /\ n \in Nat /\ OffsetOf(TEXT) \div 4 = 0
  <2>1. SizeOf(FileWords, TEXT) = sizes[TEXT] /\ sizes[TEXT] \in Nat /\ OffsetOf(TEXT) = 0
    BY SectionsAt, OffsetFacts
  <2> QED BY <1>1, <2>1
<1>3. Listing!LoaderRows(FileWords, "text", base_addr) = [q \in 1 .. n |-> CodeRow(q)]
  <2>1. Listing!LoaderRows(FileWords, "text", base_addr)
           = Listing!WordRows(FileWords, base_addr, Listing!SizeOf(FileWords, Listing!TEXT))
    BY DEF Listing!LoaderRows
  <2>2. Listing!SizeOf(FileWords, Listing!TEXT) = sizes[TEXT]
    BY <1>2, SameFormat DEF TEXT, Listing!TEXT
  <2>3. Listing!WordRows(FileWords, base_addr, sizes[TEXT]) = [q \in 1 .. n |-> CodeRow(q)]
    BY <1>1, SameSpans DEF Listing!WordRows, CodeRow
  <2> QED BY <2>1, <2>2, <2>3
<1>4. ASSUME NEW q \in 1 .. n PROVE CodeRow(q) = CodeRows(TEXT)[q]
  <2>1. PICK k \in Nat : q = k + 1 /\ k = q - 1 /\ k < n /\ k = 0 + k
    BY <1>2
  <2>2. <<(base_addr + 4 * k) % Word, FileWords[k + 1]>> = CodeRows(TEXT)[k + 1]
    BY <1>1, <1>2, <2>1, CodeShown
  <2> QED BY <2>1, <2>2 DEF CodeRow
<1>5. CodeRows(TEXT) = [q \in 1 .. n |-> CodeRows(TEXT)[q]]
  BY <1>1 DEF CodeRows
<1> QED BY <1>3, <1>4, <1>5

(* The sections with contents, one behind the other. *)
LEMMA AllListed ==
    ASSUME Handed
    PROVE  Listing!LoaderRows(FileWords, "all", base_addr)
              = CodeRows(TEXT) \o CodeRows(DATA) \o CodeRows(RODATA)
<1>1. PICK l, m, n, h : /\ l = sizes[TEXT] \div 4 /\ m = sizes[DATA] \div 4
                        /\ n = sizes[RODATA] \div 4 /\ h = OffsetOf(BSS)
  OBVIOUS
<1>2. /\ l \in Nat /\ m \in Nat /\ n \in Nat /\ h \div 4 = l + m + n
      /\ OffsetOf(TEXT) \div 4 = 0 /\ OffsetOf(DATA) \div 4 = l /\ OffsetOf(RODATA) \div 4 = l + m
  <2>1. PICK t \in Nat, d \in Nat, r \in Nat :
           t = sizes[TEXT] /\ d = sizes[DATA] /\ r = sizes[RODATA]
    BY SizeFacts DEF Handed
  <2>2. t % 4 = 0 /\ d % 4 = 0 /\ r % 4 = 0
    BY <2>1, SectionsAt
  <2>3. /\ OffsetOf(TEXT) = 0 /\ OffsetOf(DATA) = t /\ OffsetOf(RODATA) = t + d
        /\ h = t + d + r
    BY <1>1, <2>1, OffsetFacts
  <2>4. PICK x \in Nat, y \in Nat, z \in Nat : /\ t = 4 * x /\ t \div 4 = x
                                           /\ d = 4 * y /\ d \div 4 = y
                                           /\ r = 4 * z /\ r \div 4 = z
    BY <2>2
  <2>5. /\ (t + d) \div 4 = x + y /\ (t + d + r) \div 4 = x + y + z /\ 0 \div 4 = 0
    BY <2>4
  <2> QED BY <1>1, <2>1, <2>3, <2>4, <2>5
<1>3. PICK a, b, c : a = CodeRows(TEXT) /\ b = CodeRows(DATA) /\ c = CodeRows(RODATA)
  OBVIOUS
<1>4. PICK S : S = {a[k] : k \in 1 .. l} \cup {b[k] : k \in 1 .. m} \cup {c[k] : k \in 1 .. n}
  OBVIOUS
<1>5. a \in [1 .. l -> S] /\ b \in [1 .. m -> S] /\ c \in [1 .. n -> S]
  <2>1. /\ a = [k \in 1 .. l |-> a[k]] /\ b = [k \in 1 .. m |-> b[k]]
        /\ c = [k \in 1 .. n |-> c[k]]
    BY <1>1, <1>3 DEF CodeRows
  <2> QED BY <1>4, <2>1
<1>6. /\ a \in Seq(S) /\ b \in Seq(S) /\ c \in Seq(S)
      /\ Len(a) = l /\ Len(b) = m /\ Len(c) = n
  BY <1>2, <1>5
<1>7. PICK g : g = (a \o b) \o c
  OBVIOUS
<1>8. /\ g \in Seq(S) /\ Len(g) = l + m + n
      /\ \A k \in Nat : k < l => g[k + 1] = a[k + 1]
      /\ \A k \in Nat : k < m => g[l + k + 1] = b[k + 1]
      /\ \A k \in Nat : k < n => g[l + m + k + 1] = c[k + 1]
  <2>1. PICK e : e = a \o b /\ g = e \o c
    BY <1>7
  <2>2. /\ e \in Seq(S) /\ Len(e) = l + m
        /\ \A x \in 1 .. (l + m) : e[x] = IF x <= l THEN a[x] ELSE b[x - l]
    BY <1>6, <2>1, ConcatProperties
  <2>3. /\ g \in Seq(S) /\ Len(g) = l + m + n
        /\ \A x \in 1 .. (l + m + n) : g[x] = IF x <= l + m THEN e[x] ELSE c[x - (l + m)]
    <3>1. PICK t : t = l + m
      OBVIOUS
    <3>2. e \in Seq(S) /\ c \in Seq(S) /\ Len(e) = t /\ Len(c) = n
      BY <1>6, <2>2, <3>1
    <3>3. g = e \o c
      BY <2>1
    <3>4. /\ g \in Seq(S) /\ Len(g) = t + n
          /\ \A x \in 1 .. (t + n) : g[x] = IF x <= t THEN e[x] ELSE c[x - t]
      BY <3>2, <3>3, ConcatProperties
    <3> QED BY <3>1, <3>4
  <2>4. ASSUME NEW k \in Nat, k < l PROVE g[k + 1] = a[k + 1]
    <3>1. PICK x : x = k + 1
      OBVIOUS
    <3>2. x \in 1 .. (l + m + n) /\ x \in 1 .. (l + m) /\ x <= l + m /\ x <= l
      BY <1>2, <2>4, <3>1
    <3> QED BY <2>2, <2>3, <3>1, <3>2
  <2>5. ASSUME NEW k \in Nat, k < m PROVE g[l + k + 1] = b[k + 1]
    <3>1. PICK x : x = l + k + 1
      OBVIOUS
    <3>2. x \in 1 .. (l + m + n) /\ x \in 1 .. (l + m) /\ x <= l + m /\ ~(x <= l) /\ x - l = k + 1
      BY <1>2, <2>5, <3>1
    <3> QED BY <2>2, <2>3, <3>1, <3>2
  <2>6. ASSUME NEW k \in Nat, k < n PROVE g[l + m + k + 1] = c[k + 1]
    <3>1. PICK x : x = l + m + k + 1
      OBVIOUS
    <3>2. x \in 1 .. (l + m + n) /\ ~(x <= l + m) /\ x - (l + m) = k + 1
      BY <1>2, <2>6, <3>1
    <3> QED BY <2>3, <3>1, <3>2
  <2> QED BY <2>1, <2>3, <2>4, <2>5, <2>6
<1>9. Listing!LoaderRows(FileWords, "all", base_addr) = [q \in 1 .. (l + m + n) |-> CodeRow(q)]
  <2>1. Listing!LoaderRows(FileWords, "all", base_addr)
           = Listing!WordRows(FileWords, base_addr, Listing!HeaderOf(FileWords))
    BY DEF Listing!LoaderRows
  <2>2. Listing!HeaderOf(FileWords) = h
    BY <1>1, SameFormat, WholeReads DEF Handed
  <2>3. Listing!WordRows(FileWords, base_addr, h) = [q \in 1 .. (l + m + n) |-> CodeRow(q)]
    BY <1>2, SameSpans DEF Listing!WordRows, CodeRow
  <2> QED BY <2>1, <2>2, <2>3
<1>10. ASSUME NEW q \in 1 .. (l + m + n) PROVE CodeRow(q) = g[q]
  <2>1. CASE q <= l
    <3>1. PICK k \in Nat : k < l /\ q = k + 1 /\ q - 1 = k /\ k = 0 + k
      BY <1>2, <2>1
    <3>2. <<(base_addr + 4 * k) % Word, FileWords[k + 1]>> = a[k + 1]
      BY <1>1, <1>2, <1>3, <3>1, CodeShown
    <3> QED BY <1>8, <3>1, <3>2 DEF CodeRow
  <2>2. CASE q > l /\ q <= l + m
    <3>1. PICK k \in Nat, e \in Nat : k < m /\ e = l + k /\ q = e + 1 /\ q - 1 = e /\ q = l + k + 1
      BY <1>2, <2>2
    <3>2. <<(base_addr + 4 * e) % Word, FileWords[e + 1]>> = b[k + 1]
      BY <1>1, <1>2, <1>3, <3>1, CodeShown
    <3> QED BY <1>8, <3>1, <3>2 DEF CodeRow
  <2>3. CASE q > l + m
    <3>1. PICK k \in Nat, e \in Nat : /\ k < n /\ e = (l + m) + k /\ q = e + 1 /\ q - 1 = e
                                    /\ q = l + m + k + 1
      BY <1>2, <2>3
    <3>2. <<(base_addr + 4 * e) % Word, FileWords[e + 1]>> = c[k + 1]
      BY <1>1, <1>2, <1>3, <3>1, CodeShown
    <3> QED BY <1>8, <3>1, <3>2 DEF CodeRow
  <2> QED BY <1>2, <2>1, <2>2, <2>3
<1>11. g = [q \in 1 .. (l + m + n) |-> g[q]]
  BY <1>8
<1> QED BY <1>3, <1>7, <1>9, <1>10, <1>11

-----------------------------------------------------------------------------
(* What a conversion has written is never refused and listed as it was converted: the
   sections, relocations and words where the layout has put them, in each mode, for all
   ELF files with sections and relocations in their places, all base addresses, and
   although the loader finds where a section is in a way of its own
   (novl-conv.c:377-399, overlay.c:114-208, main.c:100-210). *)
THEOREM ListedAsConverted == TwoRuns => []ListsWhatWasConverted
<1>1. IInv /\ Contents /\ OverlayInv /\ InOrder /\ SectionsThere /\ ListInv
         => ListsWhatWasConverted
  <2> SUFFICES ASSUME IInv, Contents, OverlayInv, InOrder, SectionsThere, ListInv,
                      out = "written", Placed, FitsInts
               PROVE  /\ reached # "undefined" /\ (reached = "header" => ~Lister!NotAnOverlay)
                      /\ Finished("sections") =>
                            \A s \in {TEXT, DATA, RODATA} : printed[s + 1] = SectionRow(s)
                      /\ Finished("relocations") =>
                            printed = [q \in 1 .. Len(ninty_relocs) |-> RelocationRow(ninty_relocs[q])]
                      /\ Finished("text") => printed = CodeRows(TEXT)
                      /\ Finished("all") =>
                            printed = CodeRows(TEXT) \o CodeRows(DATA) \o CodeRows(RODATA)
    BY DEF ListsWhatWasConverted
  <2>1. CASE reached = "waiting"
    BY <2>1 DEF ListInv, Waiting, Finished
  <2>2. CASE reached # "waiting"
    <3>1. Handed
      BY <2>2, HandedOver DEF ListInv, Converted
    <3>2. reached # "undefined" /\ (reached = "header" => ~Lister!NotAnOverlay)
      <4>1. Listing!LoadInvariant /\ (reached # "exit" => which = 1)
        BY <2>2 DEF ListInv
      <4>2. Listing!OverlaysLoad
        BY <4>1, LoaderAssumes, Listing!LoadsRight
           DEF Listing!WordLayout, Listing!FormatSizes, Listing!Named
      <4>3. which = 1 => which <= Len(<<Output>>) /\ Listing!Overlay(<<Output>>[which])
        BY <3>1, OneOverlay
      <4>4. which = 1 => reached # "undefined" /\ (reached = "header" => ~Listing!NotAnOverlay)
        BY <4>2, <4>3 DEF Listing!OverlaysLoad
      <4>5. Listing!NotAnOverlay <=> Lister!NotAnOverlay
        BY DEF Listing!NotAnOverlay, Listing!Offset, Listing!filesize, Listing!words,
           Listing!Signed, Listing!Word, Lister!NotAnOverlay, Lister!Offset, Lister!filesize,
           Lister!words, Lister!Signed, Lister!Word
      <4> QED BY <4>1, <4>4, <4>5
    <3>3. outcome = "ok" => printed = Listing!LoaderRows(FileWords, mode, base_addr)
      BY <3>1, RowsPrinted
    <3> QED BY <3>1, <3>2, <3>3, SectionsListed, RelocationsListed, TextListed, AllListed
            DEF Finished
  <2> QED BY <2>1, <2>2
<1> QED BY <1>1, ConvertsAlone, ListingInvariant, Invariant, ContentsInvariant, OverlayInvariant,
           SectionsInOrder, SectionsWritten, PTL

=============================================================================
