------------------------- MODULE NovlConvProperties -------------------------
(***************************************************************************)
(* What a conversion promises.  The reference definitions look at the ELF  *)
(* file alone, never at the state of the two passes.                       *)
(***************************************************************************)
EXTENDS NovlConv, Overlays, FiniteSets, SequencesExt

(* The types of the variables; the counts are those of the lists, and no word
   of the table is zero, which would end the writing of it (novl-conv.c:541). *)
PassTypeOK ==
    /\ scn \in 0 .. Len(elf.sections)
    /\ rel_list \in Seq(Entries)
    /\ nreloc = Len(rel_list)
    /\ i \in Nat
    /\ error \in BOOLEAN
    /\ ninty_count_pred \in Int
    /\ ninty_relocs \in Seq(Nat \ {0})
    /\ ninty_count_real = Len(ninty_relocs)
    /\ last \in Nat

OutputTypeOK ==
    /\ ovl_file_header_addr \in Words
    /\ out \in {"untouched", "created", "removed", "written", "cut"}
    /\ DOMAIN file \subseteq Nat /\ \A o \in DOMAIN file : file[o] \in Nat
    /\ pos \in Nat

TypeOK ==
    /\ WellFormed(elf) /\ base_addr \in Words
    /\ pc \in PCs /\ status \in Statuses
    /\ EngineTypeOK /\ PassTypeOK /\ OutputTypeOK

-----------------------------------------------------------------------------
(***************************************************************************)
(* The ELF file.                                                           *)
(***************************************************************************)
SectionIndex   == 1 .. Len(elf.sections)
LoadedSections == {k \in SectionIndex : valid_sec(elf.sections[k].name) # NoSection}
RelocSections  == {k \in SectionIndex : Wanted(elf.sections[k])}
EntriesOf(k)   == ToSet(elf.sections[k].rels)

(* No word is relocated twice. *)
DistinctOffsets ==
    \A j, k \in RelocSections :
        \A p \in DOMAIN elf.sections[j].rels, q \in DOMAIN elf.sections[k].rels :
            <<j, p>> # <<k, q>> =>
                elf.sections[j].rels[p].offset # elf.sections[k].rels[q].offset

(* The relocation types of elf.h: R_MIPS_NUM is 128.  The jump table is indexed
   with type & 0x7F, so a larger type is taken for another one. *)
KnownTypes == \A k \in RelocSections : \A e \in EntriesOf(k) : e.type < 128

(* As a linker lays sections out: apart even when rounded up to 8. *)
SectionsApart ==
    \A j, k \in LoadedSections :
        j # k => LET s == elf.sections[j]
                     t == elf.sections[k]
                 IN  s.addr + RoundUp8(s.size) <= t.addr
                     \/ t.addr + RoundUp8(t.size) <= s.addr

OriginalWord(a) ==
    LET at == {k \in LoadedSections :
                  /\ elf.sections[k].type = "PROGBITS"
                  /\ elf.sections[k].addr <= a
                  /\ a < elf.sections[k].addr + elf.sections[k].size}
    IN  IF at = {} THEN 0
        ELSE LET s == elf.sections[CHOOSE k \in at : TRUE]
             IN  s.data[(a - s.addr) \div 4 + 1]

(* The section an address of the ELF file belongs to. *)
OwnerOf(a) ==
    LET at == {k \in LoadedSections :
                  /\ elf.sections[k].addr <= a
                  /\ a < elf.sections[k].addr + RoundUp8(elf.sections[k].size)}
    IN  IF at = {} THEN NoSection
        ELSE valid_sec(elf.sections[CHOOSE k \in at : TRUE].name)

(* The relocations of a section lie in it, and .bss has none. *)
OwnRelocations ==
    \A k \in RelocSections :
        /\ RelTarget(elf.sections[k].name) # BSS
        /\ \A e \in EntriesOf(k) : OwnerOf(e.offset) = RelTarget(elf.sections[k].name)

(* The bounds are checked for sections of type PROGBITS only and before the size is
   rounded to 8 (novl-conv.c:216-232): a section with contents that the check does
   not see or not see the end of. *)
Unchecked(s) ==
    \E k \in LoadedSections :
        LET t == elf.sections[k]
        IN  /\ valid_sec(t.name) = s
            /\ \/ t.type # "PROGBITS"
               \/ /\ t.addr + t.size - elf.ep <= MemSize
                  /\ t.addr + RoundUp8(t.size) - elf.ep > MemSize

(* No section is at address 0: the code would take it for one it has not met yet
   (novl-conv.c:210); and the bounds check covers those with contents. *)
Placed ==
    /\ SectionsApart /\ OwnRelocations
    /\ \A s \in {TEXT, DATA, RODATA} : ~Unchecked(s)
    /\ \A k \in LoadedSections :
        /\ elf.sections[k].addr # 0
        /\ elf.sections[k].addr + RoundUp8(elf.sections[k].size) < Word

Linked ==
    /\ DistinctOffsets /\ KnownTypes /\ Placed
    /\ \A k \in LoadedSections : elf.sections[k].readable

-----------------------------------------------------------------------------
(***************************************************************************)
(* Pairs: a LO16 belongs to the nearest HI16 before it that sets its base  *)
(* register, in the same relocation section.                               *)
(***************************************************************************)
His(k) == {e \in EntriesOf(k) : e.type = R_MIPS_HI16}
Los(k) == {e \in EntriesOf(k) : e.type = R_MIPS_LO16}

Opens(h, l) ==
    /\ h.offset < l.offset
    /\ HiReg(OriginalWord(h.offset)) = LoReg(OriginalWord(l.offset))

IsHiOf(k, h, l) ==
    Opens(h, l) /\ \A g \in His(k) : Opens(g, l) => g.offset <= h.offset

HiOf(k, l) == CHOOSE h \in His(k) : IsHiOf(k, h, l)

(* Every LO16 has a HI16 to belong to. *)
AllPaired ==
    \A k \in RelocSections : \A l \in Los(k) : \E h \in His(k) : Opens(h, l)

LosOf(k, h) == {l \in Los(k) : IsHiOf(k, h, l)}

(* The address an entry of section k refers to. *)
TargetOf(k, e) ==
    LET w == OriginalWord(e.offset)
    IN  CASE e.type = R_MIPS_26 -> JumpTarget(w)
          [] e.type = R_MIPS_LO16 ->
               (Imm(OriginalWord(HiOf(k, e).offset)) * Half + SignedImm(w)) % Word
          [] OTHER -> w

(* An entry is kept when its target moves with a section of the overlay, a
   HI16 when it serves no LO16 or one that is kept. *)
Moves(k, e) == OwnerOf(TargetOf(k, e)) # NoSection

KeptEntries(k) ==
    {e \in EntriesOf(k) :
        IF e.type = R_MIPS_HI16
        THEN LosOf(k, e) = {} \/ \E l \in LosOf(k, e) : Moves(k, l)
        ELSE Moves(k, e)}

(* Nothing is relocated between the two halves of a pair. *)
PairsAdjacent ==
    \A k \in RelocSections : \A h \in His(k), l \in Los(k) :
        IsHiOf(k, h, l) =>
            ~ \E e \in EntriesOf(k) : h.offset < e.offset /\ e.offset < l.offset

AddrOf(id) ==
    LET at == {k \in LoadedSections : valid_sec(elf.sections[k].name) = id}
    IN  elf.sections[CHOOSE k \in at : TRUE].addr

(* The entries kept, by relocation section and then by address, and the place of
   one of them among all. *)
AllKept == UNION {{k} \X KeptEntries(k) : k \in RelocSections}

Precedes(x, y) == x[1] < y[1] \/ (x[1] = y[1] /\ x[2].offset < y[2].offset)

Place(x) == Cardinality({y \in AllKept : Precedes(y, x)}) + 1

(* An entry as the table has it: section, type and offset in the section. *)
Row(x) ==
    LET id == RelTarget(elf.sections[x[1]].name)
    IN  <<id, x[2].type, x[2].offset - AddrOf(id)>>

ListsKept(rows) ==
    /\ Len(rows) = Cardinality(AllKept)
    /\ \A x \in AllKept : rows[Place(x)] = Row(x)

Decoded(table) ==
    [q \in 1 .. Len(table) |->
        <<OVL_RELOC_GET_SEC(table[q]), OVL_RELOC_GET_TYPE(table[q]),
          OVL_RELOC_GET_ADDR(table[q])>>]

-----------------------------------------------------------------------------
(***************************************************************************)
(* The two passes.                                                         *)
(***************************************************************************)

(* `last->prev' in the second pass never goes through a null pointer, whatever
   the file: a HI16 that can still be dropped has put its word in the table of
   its section, and no word is dropped twice (novl-conv.c:479-486). *)
NoNullDereference == pc # "crashed"

(* Why: in the second pass, the table up to `last' has a word for every HI16 that
   no LO16 has used yet, and `last' is the end of the table or null. *)
OpenPairsInTable ==
    pc \in {"reloc_sort", "reloc_do"} =>
        /\ Cardinality(ValidRegs(hilopair)) <= last
        /\ last # 0 => last = Len(ninty_relocs)

(* The only sections fwrite can take from before or behind memory[] are those that the
   bounds check leaves out (novl-conv.c:232, 600): every other one that is written
   lies in it from the first word to the last, rounding included. *)
ReadsInImage == pc = "outside" => Unchecked(i)

(* Why: it does so from the moment it is loaded. *)
SectionsInImage ==
    pc # "exit" => \A s \in {TEXT, DATA, RODATA} : LiesInMemory(s) \/ Unchecked(s)

(* The inductive invariant: the above, and what is known at each place. *)
BeforeTable == {"open", "create", "load", "count_scan", "count_sort", "count_do",
                "layout"}
InList == {"count_sort", "count_do", "reloc_sort", "reloc_do"}

InImage(e) == e.offset - elf.ep \in Offsets

Control ==
    /\ pc \in BeforeTable => ninty_relocs = <<>>
    /\ pc \in InList => /\ scn >= 1 /\ Wanted(Current)
                       /\ \A k \in 1 .. Len(rel_list) : InImage(rel_list[k])
    /\ pc \in {"count_do", "reloc_do"} => i >= 1
    /\ pc \in {"write_relocs", "write_footer"} => ovl_file_header_addr <= pos

IInv ==
    /\ TypeOK
    /\ Control
    /\ NoNullDereference
    /\ OpenPairsInTable
    /\ SectionsInImage

(* The dry run predicts exactly what the second pass does, although the second
   pass rewrites words it reads: unless some word is relocated twice, the counts
   agree, and an entry that fails has failed in the dry run already. *)
PassesDisagree ==
    status = "err_count" \/ (status = "err_reloc" /\ ~error)

PassesAgree == PassesDisagree => ~DistinctOffsets

(* The overlay is as long as predicted and .bss starts where it ends, for every
   base address that is a multiple of 16 and leaves room in the address space
   (novl-conv.c:573-609). *)
RoomInAddressSpace ==
    base_addr + sizes[TEXT] + sizes[DATA] + sizes[RODATA] + HeaderSize
        + 4 * ninty_count_pred + FooterSize + 15 + sizes[BSS] < Word

PlacesPredicted ==
    base_addr % 16 = 0 /\ RoomInAddressSpace =>
        status \notin {"err_bss", "err_arrange"}

(* Dropping "the first half of a HI16/LO16 reloc" (novl-conv.c:472) removes the
   word of that very HI16 from the table: the word `last' points at when a LO16
   is dropped is the one made for the instruction its pair started with. *)
AboutToDrop ==
    /\ pc = "reloc_do" /\ i <= nreloc
    /\ DropsHi(rel_list[i],
               novl_reloc_do(rel_list[i].offset - elf.ep, rel_list[i].type, FALSE).ret)

DropsFirstHalf ==
    AboutToDrop =>
        LET hi == hilopair[LoReg(memory[rel_list[i].offset - elf.ep])].ptr + elf.ep
        IN  last # 0 => ninty_relocs[last]
                = TableWord([offset |-> hi, type |-> R_MIPS_HI16])

(* It is that word when nothing is relocated between the halves of a pair
   (novl-conv.c:479-485). *)
DropsFirstHalfOfAdjacentPair ==
    AboutToDrop /\ Linked /\ PairsAdjacent => DropsFirstHalf

(* The table holds exactly the entries whose target moves with the overlay, in
   the order of their addresses, whatever the order in the ELF file; a file with
   a LO16 that has no HI16 is refused. *)
TableExact ==
    status = "ok" /\ Linked /\ PairsAdjacent =>
        AllPaired /\ ListsKept(Decoded(ninty_relocs))

-----------------------------------------------------------------------------
(***************************************************************************)
(* The overlay file.                                                       *)
(***************************************************************************)
WordAt(o) == IF o \in DOMAIN file THEN file[o] ELSE 0
FileSize  == IF DOMAIN file = {} THEN 0 ELSE Max(DOMAIN file) + 4

(* Where the word at ELF address a is in the file. *)
FileOffset(a) ==
    LET s == OwnerOf(a) IN  ovl_starts[s] - base_addr + (a - AddrOf(s))

MovedTo(a) == LET s == OwnerOf(a) IN  a - AddrOf(s) + ovl_starts[s]

(* Unless the disk has failed, the file can be read back from its end, as
   overlay.c does: the last word leads to the header, the header has the sizes
   and the count, as many table words as it says follow, and the file ends on a
   16-byte boundary. *)
ReadsBack ==
    status = "ok" /\ out = "written" =>
        LET header == FileSize - WordAt(FileSize - 4)
            count  == WordAt(header + 16)
        IN  /\ FileSize % 16 = 0
            /\ \A s \in SectionIds : WordAt(header + 4 * s) = sizes[s]
            /\ header = sizes[TEXT] + sizes[DATA] + sizes[RODATA]
            /\ [q \in 1 .. count |-> WordAt(header + HeaderSize + 4 * (q - 1))]
                 = ninty_relocs
            /\ header + HeaderSize + 4 * count <= FileSize - 4

(* The words of the file, as a program that reads it has them. *)
FileWords == [q \in 1 .. (FileSize \div 4) |-> WordAt(4 * (q - 1))]

(* overlay.c counts bytes in ints. *)
FitsInts == FileSize < Word \div 2 /\ sizes[BSS] < Word \div 2

(* What a conversion writes is an overlay in every respect the loader and the
   listings rely on without checking it, whatever the ELF file has beside
   sections and relocations in their places (overlay.c:103-208, main.c:111-168). *)
WritesOverlay ==
    status = "ok" /\ out = "written" /\ Placed /\ FitsInts => IsOverlay(FileWords)

(* What is in memory at run time does not overlap: each section lies behind the one
   before it, from the base address on, and .bss lies behind all of the file that is
   loaded there, the header, the table and the footer included, whatever base address
   was asked for and wherever 32-bit sums wrap (novl-conv.c:573-610). *)
InOrder ==
    status = "ok" =>
        /\ ovl_starts[TEXT] = base_addr
        /\ \A s \in {TEXT, DATA, RODATA} :
              ovl_starts[s] + sizes[s] <= ovl_starts[s + 1]
        /\ out = "written" => base_addr + FileSize <= ovl_starts[BSS]

(* A conversion that fails leaves no piece of an overlay behind: the output is
   as it was, empty, or removed. *)
FailureLeavesNoPiece ==
    pc = "exit" /\ status # "ok" => file = EmptyFile

-----------------------------------------------------------------------------
(***************************************************************************)
(* The relocated image.                                                    *)
(***************************************************************************)
NewWord(e) == WordAt(FileOffset(e.offset))

PointerMoved(k, e) == NewWord(e) = MovedTo(TargetOf(k, e))

JumpMoved(k, e) ==
    /\ JumpTarget(NewWord(e)) = MovedTo(TargetOf(k, e))
    /\ NewWord(e) \div JumpSpan = OriginalWord(e.offset) \div JumpSpan

(* The two halves, put together as the processor does, give the new address,
   and nothing but the immediates has changed. *)
PairMoved(k, l) ==
    LET h == HiOf(k, l)
    IN  /\ (Imm(NewWord(h)) * Half + SignedImm(NewWord(l))) % Word
               = MovedTo(TargetOf(k, l))
        /\ NewWord(h) \div Half = OriginalWord(h.offset) \div Half
        /\ NewWord(l) \div Half = OriginalWord(l.offset) \div Half

(* The last of the LO16s of a HI16 whose targets move: each rewrites the HI16. *)
LastOfHi(k, l) ==
    \A other \in LosOf(k, HiOf(k, l)) : Moves(k, other) => other.offset <= l.offset

EntriesMoved(k) ==
    \A e \in EntriesOf(k) :
        Moves(k, e) =>
            CASE e.type = R_MIPS_32   -> PointerMoved(k, e)
              [] e.type = R_MIPS_26   -> JumpMoved(k, e)
              [] e.type = R_MIPS_LO16 -> LastOfHi(k, e) => PairMoved(k, e)
              [] OTHER                -> TRUE

(* The words that no entry names of a section that is written. *)
OtherWordsCopied(s) ==
    valid_sec(s.name) \in {TEXT, DATA, RODATA} =>
        \A q \in 1 .. Len(s.data) :
            LET a == s.addr + 4 * (q - 1)
            IN  (\A j \in RelocSections : \A e \in EntriesOf(j) : e.offset # a)
                    => WordAt(FileOffset(a)) = s.data[q]

(* Where instructions can reach the overlay: it is word aligned in both files, its
   code lies where the field of a jump leads (novl-reloc.c:131), and no part of
   it is in the last half of a segment of the address space, where the high half
   of an address does not fit its field any more (novl-reloc.c:215). *)
InReach ==
    /\ elf.ep % 4 = 0 /\ base_addr % 4 = 0
    /\ Kseg0 <= base_addr /\ base_addr + sizes[TEXT] <= Kseg0 + 4 * JumpSpan
    /\ ovl_starts[BSS] + sizes[BSS] <= Word - Half \div 2

(* Every pointer, jump and HI16/LO16 pair points at the place its target has
   moved to, also where several LO16s share a HI16 and where some of them do not
   move: then the HI16 serves the last that does (novl-reloc.c:215-222).  A word
   no entry names is copied as it is. *)
ReferencesMoved ==
    status = "ok" /\ out = "written" /\ Linked /\ InReach =>
        /\ AllPaired /\ \A k \in RelocSections : EntriesMoved(k)
        /\ \A k \in LoadedSections : OtherWordsCopied(elf.sections[k])

-----------------------------------------------------------------------------
(* Every conversion comes to an end: no entry is looked at for ever. *)
Termination == <>(pc \in {"exit", "outside"})

=============================================================================
