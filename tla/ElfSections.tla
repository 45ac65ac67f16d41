----------------------------- MODULE ElfSections -----------------------------
(***************************************************************************)
(* src/libelf: one descriptor of an ELF file, its list of sections and the *)
(* buffers in them.  Reading a file into a descriptor (cook.c, getdata.c), *)
(* making, deleting and moving sections (newscn.c, opt.delscn.c,           *)
(* x.remscn.c, x.movscn.c), the program header table, and giving back what *)
(* was allocated (end.c).                                                  *)
(*                                                                         *)
(* The sections of a file that was read share one allocation, which is     *)
(* section 0's; every section made later has one of its own.  Contents are *)
(* sets of pieces, [at, size, what], with at counted from where the        *)
(* contents begin.  Names of sections (sh_name, the string table), sh_addr *)
(* and sh_flags are left out, and so is conversion between byte orders:    *)
(* all buffers are ELF_T_BYTE, of the one version there is.                *)
(***************************************************************************)
EXTENDS Integers, FiniteSets, SequencesExt

CONSTANTS
    SHN_LORESERVE,   \* the least number that does not fit e_shnum (0xff00)
    PN_XNUM,         \* the least number that does not fit e_phnum (0xffff)
    SHN_XINDEX,      \* e_shstrndx when the index does not fit (0xffff)
    HighWord,        \* 2^32: the weight of the upper half of a 64-bit word
    Alignments       \* what sh_addralign and d_align may be

ASSUME Numbers ==
    /\ SHN_LORESERVE \in Nat \ {0} /\ PN_XNUM \in Nat \ {0} /\ SHN_XINDEX \in Nat
    /\ HighWord \in Nat \ {0}
    /\ Alignments \subseteq Nat /\ {0, 1} \subseteq Alignments

Null == -1           \* no section

SHT_NULL == "null"
SHT_NOBITS == "nobits"
SHT_PROGBITS == "progbits"
SHT_REL == "rel"
SHT_SYMTAB == "symtab"

(* The types that differ for the library; all others are as SHT_PROGBITS. *)
SectionTypes == {SHT_NULL, SHT_NOBITS, SHT_PROGBITS, SHT_REL, SHT_SYMTAB}

(* Sizes in a file: _fsize(). *)
FileSize(class, item) ==
    LET Sizes32 == [ehdr |-> 52, phdr |-> 32, shdr |-> 40, addr |-> 4]
        Sizes64 == [ehdr |-> 64, phdr |-> 56, shdr |-> 64, addr |-> 8]
    IN  IF class = 32 THEN Sizes32[item] ELSE Sizes64[item]

Higher(a, b) == IF a > b THEN a ELSE b

Align(n, a) == IF a > 1 THEN n + (a - 1) - ((n + (a - 1)) % a) ELSE n

Shifted(pieces, by) == {[p EXCEPT !.at = @ + by] : p \in pieces}

(* What some bytes of a file or a buffer hold. *)
Pieces == [at : Int, size : Nat, what : STRING]

(* The bytes from off to off + size of an image. *)
Part(image, off, size) ==
    Shifted({p \in image : p.at >= off /\ p.at + p.size <= off + size}, -off)

-----------------------------------------------------------------------------
(***************************************************************************)
(* INIT_SCN and INIT_DATA.  new: this one was malloc'ed by itself          *)
(* (s_freeme, sd_freeme).  type to addralign are the section header,       *)
(* s_type to s_size what getdata.c goes by.                                *)
(***************************************************************************)
InitScn == [index |-> 0, dirty |-> FALSE, new |-> FALSE, data |-> <<>>,
            type |-> SHT_NULL, link |-> 0, info |-> 0, offset |-> 0, size |-> 0,
            addralign |-> 0, s_type |-> SHT_NULL, s_offset |-> 0, s_size |-> 0]

InitData == [size |-> 0, align |-> 0, off |-> 0, buf |-> {}, null |-> TRUE,
             new |-> FALSE, loaded |-> FALSE, dirty |-> FALSE]

(* Scn_Data with its Elf_Data, and Elf_Scn with its section header. *)
Datas == [size : Nat, align : Alignments, off : Nat, buf : SUBSET Pieces, null : BOOLEAN,
          new : BOOLEAN, loaded : BOOLEAN, dirty : BOOLEAN]

SectionRecords ==
    [index : Nat, dirty : BOOLEAN, new : BOOLEAN, data : Seq(Datas),
     type : SectionTypes, link : Nat, info : Nat, offset : Nat, size : Nat,
     addralign : Alignments, s_type : SectionTypes, s_offset : Nat, s_size : Nat]

(* A file: its header, its section headers, and what else it holds. *)
FileRecords ==
    [len : Nat, class : {32, 64}, torn : BOOLEAN, data : SUBSET Pieces,
     ehdr : [phoff : Nat, phnum : Nat, shoff : Nat, shnum : Nat, shstrndx : Nat],
     shdrs : Seq([type : SectionTypes, link : Nat, info : Nat, offset : Nat, size : Nat,
                  addralign : Alignments])]

(* INIT_ELF.  scns: the sections from e_scn_1 along s_link; last: e_scn_n; scn: the
   sections ever made, by the order of their making; ehdr: e_ehdr is there.  flags is
   e_elf_flags; dirty the ELF_F_DIRTY of e_ehdr_flags or e_phdr_flags. *)
InitElf(class) ==
    [class |-> class, readable |-> FALSE, ehdr |-> FALSE, size |-> 0, image |-> {},
     phnum |-> 0, e_phnum |-> 0, e_shnum |-> 0, e_shstrndx |-> 0, e_phoff |-> 0,
     e_shoff |-> 0, scns |-> <<>>, last |-> Null, scn |-> [id \in {} |-> InitScn],
     flags |-> {}, dirty |-> FALSE]

Keeps(e) == "layout" \in e.flags        \* ELF_F_LAYOUT: the program lays out the file

Fresh(e) == Cardinality(DOMAIN e.scn)   \* a section not made yet

-----------------------------------------------------------------------------
(* What a section header reads as where none was written: zeros. *)
NoHeader == [type |-> SHT_NULL, link |-> 0, info |-> 0, offset |-> 0, size |-> 0,
             addralign |-> 0]

HeaderAt(f, i) == IF i < Len(f.shdrs) THEN f.shdrs[i + 1] ELSE NoHeader

(* The number of sections: e_shnum, or sh_size of section 0 when that is 0. *)
Shnum(f) == IF f.ehdr.shnum = 0 THEN HeaderAt(f, 0).size ELSE f.ehdr.shnum

(* The range that holds the section headers fits the file. *)
TableFits(f) ==
    LET entsz == FileSize(f.class, "shdr")
    IN  /\ f.ehdr.shoff + entsz <= f.len
        /\ (f.len - f.ehdr.shoff) \div entsz >= Shnum(f)

(* One section of the block, with its buffer, not read yet. *)
CookedScn(f, i) ==
    LET shdr == HeaderAt(f, i)
    IN  [InitScn EXCEPT !.index = i, !.new = (i = 0),
            !.type = shdr.type, !.link = shdr.link, !.info = shdr.info,
            !.offset = shdr.offset, !.size = shdr.size, !.addralign = shdr.addralign,
            !.s_type = shdr.type, !.s_offset = shdr.offset, !.s_size = shdr.size,
            !.data = <<[InitData EXCEPT !.align = shdr.addralign, !.size = shdr.size]>>]

(* _elf_cook_shdr(): [e, ok].  A table of no sections ends the program, by the assertion
   behind the loop; here the call fails. *)
CookShdr(e, f) ==
    LET num == Shnum(f)
    IN  IF f.ehdr.shoff = 0 THEN [e |-> e, ok |-> TRUE]
        ELSE IF ~TableFits(f) \/ num = 0 THEN [e |-> e, ok |-> FALSE]
        ELSE [e |-> [e EXCEPT !.scn = [i \in 0 .. num - 1 |-> CookedScn(f, i)],
                              !.scns = [p \in 1 .. num |-> p - 1], !.last = num - 1],
              ok |-> TRUE]

(* _elf_cook_phdr() *)
CookPhdr(e, f) ==
    LET num == IF f.ehdr.phnum = PN_XNUM THEN e.scn[0].info ELSE f.ehdr.phnum
    IN  IF f.ehdr.phoff = 0 THEN [e |-> e, ok |-> TRUE]
        ELSE IF f.ehdr.phnum = PN_XNUM /\ e.scns = <<>> THEN [e |-> e, ok |-> FALSE]
        ELSE IF f.ehdr.phoff + num * FileSize(f.class, "phdr") > f.len
        THEN [e |-> e, ok |-> FALSE]
        ELSE [e |-> [e EXCEPT !.phnum = num], ok |-> TRUE]

(***************************************************************************)
(* _elf_cook_file().  The header is kept when a table after it cannot be   *)
(* read, and a descriptor with a header is not cooked again.               *)
(***************************************************************************)
Cook(f) ==
    LET e == [InitElf(f.class) EXCEPT !.readable = TRUE, !.size = f.len, !.image = f.data]
        h == [e EXCEPT !.ehdr = TRUE, !.e_phnum = f.ehdr.phnum, !.e_shnum = f.ehdr.shnum,
                       !.e_shstrndx = f.ehdr.shstrndx, !.e_phoff = f.ehdr.phoff,
                       !.e_shoff = f.ehdr.shoff]
        s == CookShdr(h, f)
    IN  IF f.len < FileSize(f.class, "ehdr") THEN [e |-> e, ok |-> FALSE]
        ELSE IF s.ok THEN CookPhdr(s.e, f) ELSE s

(***************************************************************************)
(* elf_getdata(scn, NULL): the section's first buffer, read from the image *)
(* when it is asked for the first time.                                    *)
(***************************************************************************)
GetData(e, s) ==
    LET d    == s.data[1]
        Is(x) == [ok |-> TRUE, data |-> [s.data EXCEPT ![1] = x]]
        Fails == [ok |-> FALSE, data |-> s.data]
    IN  IF d.new THEN Is(d)
        ELSE IF s.s_type = SHT_NULL THEN Fails
        ELSE IF d.loaded THEN Is(d)
        ELSE IF s.s_offset > e.size THEN Fails
        ELSE IF s.s_type = SHT_NOBITS \/ s.s_size = 0 THEN Is(d)
        ELSE IF s.s_offset + s.s_size > e.size THEN Fails
        ELSE Is([d EXCEPT !.loaded = TRUE, !.null = FALSE,
                          !.buf = Part(e.image, s.s_offset, d.size)])

-----------------------------------------------------------------------------
(* Mutant: the new number is not marked. *)
UpdateShnum_unmarked(e, shnum) ==
    LET ext == shnum >= SHN_LORESERVE
    IN  [e EXCEPT !.e_shnum = IF ext THEN 0 ELSE shnum,
                  !.scn[Head(e.scns)].size = IF ext THEN shnum ELSE 0]

(* _elf_update_shnum() *)
UpdateShnum(e, shnum) ==
    LET ext == shnum >= SHN_LORESERVE
    IN  [e EXCEPT !.e_shnum = IF ext THEN 0 ELSE shnum,
                  !.scn[Head(e.scns)].size = IF ext THEN shnum ELSE 0,
                  !.scn[Head(e.scns)].dirty = TRUE, !.dirty = TRUE]

(* _makescn(): a section of its own, not in the list yet. *)
Make(e, index) ==
    [e EXCEPT !.scn = [id \in DOMAIN @ \cup {Fresh(e)} |->
        IF id = Fresh(e) THEN [InitScn EXCEPT !.index = index, !.dirty = TRUE, !.new = TRUE]
        ELSE e.scn[id]]]

(* _elf_first_scn(): section 0, made when there is none. *)
FirstScn(e) ==
    IF e.scns # <<>> THEN e
    ELSE UpdateShnum([Make(e, 0) EXCEPT !.scns = <<Fresh(e)>>, !.last = Fresh(e)], 1)

Place(e, id) == CHOOSE p \in 1 .. Len(e.scns) : e.scns[p] = id

(* _buildscn(): after e_scn_n, whose s_link is overwritten. *)
BuildScn(e0) ==
    LET e     == FirstScn(e0)
        index == e.scn[e.last].index + 1
        made  == UpdateShnum(Make(e, index), index + 1)
    IN  [made EXCEPT !.scns = Append(SubSeq(@, 1, Place(e, e.last)), Fresh(e)),
                     !.last = Fresh(e)]

(* elf_newdata(), and what the program puts into the Elf_Data it returns. *)
NewData(e, id, d) ==
    [e EXCEPT !.scn[id].data = Append(@, [InitData EXCEPT
        !.new = TRUE, !.dirty = TRUE, !.size = d.size, !.align = d.align, !.off = d.off,
        !.buf = d.buf, !.null = d.null])]

(* Mutant: every other section is renumbered, not those behind alone. *)
Unlink_all(e, id) ==
    [e EXCEPT !.scns = RemoveAt(@, Place(e, id)),
              !.last = IF @ = id THEN e.scns[Place(e, id) - 1] ELSE @,
              !.scn = [s \in DOMAIN e.scn |-> [e.scn[s] EXCEPT !.index = @ - 1]]]

(* Unlinked, and the sections behind it renumbered. *)
Unlink(e, id) ==
    LET p == Place(e, id)
        rest == {e.scns[q] : q \in p + 1 .. Len(e.scns)}
    IN  [e EXCEPT !.scns = RemoveAt(@, p),
                  !.last = IF @ = id THEN e.scns[p - 1] ELSE @,
                  !.scn = [s \in DOMAIN e.scn |->
                      IF s \in rest THEN [e.scn[s] EXCEPT !.index = @ - 1] ELSE e.scn[s]]]

(* Mutant: a link to the section deleted is left as it is. *)
NewIndex_kept(old, index) == IF old > index THEN old - 1 ELSE old

NewIndex(old, index) == IF old = index THEN 0 ELSE IF old > index THEN old - 1 ELSE old

(* _elf32_update_shdr(), and _elf64_update_shdr() *)
UpdateShdrs(e, index) ==
    LET Linked(s) == IF s.type \in {SHT_REL, SHT_SYMTAB}
                     THEN [s EXCEPT !.link = NewIndex(@, index)] ELSE s
        Applied(s) == IF s.type = SHT_REL THEN [s EXCEPT !.info = NewIndex(@, index)] ELSE s
    IN  [e EXCEPT !.e_shnum = e.scn[e.last].index + 1,
                  !.scn = [id \in DOMAIN e.scn |->
                      IF id \in Range(e.scns) THEN Applied(Linked(e.scn[id])) ELSE e.scn[id]]]

Delscn(e, id) == UpdateShdrs(Unlink(e, id), e.scn[id].index)

Remscn(e, id) ==
    LET u == Unlink(e, id) IN UpdateShnum(u, u.scn[u.last].index + 1)

(* Mutant: e_scn_n is looked after when the last section is moved only. *)
Movscn_last(e, id, after) ==
    LET without == RemoveAt(e.scns, Place(e, id))
        behind  == CHOOSE p \in 1 .. Len(without) : without[p] = after
        order   == InsertAt(without, behind + 1, id)
    IN  IF id = after \/ Place(e, id) = Place(e, after) + 1 THEN e
        ELSE [e EXCEPT !.scns = order, !.last = IF @ = id THEN Last(without) ELSE @,
                       !.scn = [s \in DOMAIN @ |->
                           IF s \in Range(order)
                           THEN [@[s] EXCEPT !.index = Place([e EXCEPT !.scns = order], s) - 1]
                           ELSE @[s]]]

(***************************************************************************)
(* elfx_movscn().  off counts up behind after and down behind scn, and is  *)
(* added to the index of every section between the two.                    *)
(***************************************************************************)
Movscn(e, id, after) ==
    LET from == Place(e, id)
        to   == Place(e, after)
        Off(p) == (IF to < p THEN 1 ELSE 0) - (IF from < p THEN 1 ELSE 0)
        moved == [s \in DOMAIN e.scn |->
                    IF s \in Range(e.scns) THEN [e.scn[s] EXCEPT !.index = @ + Off(Place(e, s))]
                    ELSE e.scn[s]]
        without == RemoveAt(e.scns, from)
        behind  == CHOOSE p \in 1 .. Len(without) : without[p] = after
    IN  IF id = after \/ from = to + 1 THEN e
        ELSE [e EXCEPT !.scns = InsertAt(without, behind + 1, id),
                       !.scn = [moved EXCEPT ![id].index = moved[after].index + 1],
                       !.last = IF @ = id THEN e.scns[from - 1]
                                ELSE IF @ = after THEN id ELSE @]

(* _elf_newphdr() *)
NewPhdr(e0, count) ==
    LET e == FirstScn(e0)
        ext == count >= PN_XNUM
    IN  [e EXCEPT !.phnum = count, !.e_phnum = IF ext THEN PN_XNUM ELSE count,
                  !.scn[Head(e.scns)].info = IF ext THEN count ELSE 0,
                  !.scn[Head(e.scns)].dirty = TRUE, !.dirty = TRUE]

(* elfx_update_shstrndx() *)
UpdateShstrndx(e0, value) ==
    LET e == FirstScn(e0)
        ext == value >= SHN_LORESERVE
    IN  [e EXCEPT !.e_shstrndx = IF ext THEN SHN_XINDEX ELSE value,
                  !.scn[Head(e.scns)].link = IF ext THEN value ELSE 0,
                  !.scn[Head(e.scns)].dirty = TRUE, !.dirty = TRUE]

(* elf_getshdrstrndx() *)
Shstrndx(e) == IF e.e_shstrndx # SHN_XINDEX THEN e.e_shstrndx ELSE e.scn[Head(e.scns)].link

-----------------------------------------------------------------------------
(***************************************************************************)
(* The allocations a descriptor holds: <<id, 0>> for a section that was    *)
(* malloc'ed, <<id, n>> for its n-th buffer when elf_newdata() made it.    *)
(***************************************************************************)
OfScn(e, id) ==
    {<<id, 0>> : x \in {y \in {1} : e.scn[id].new}}
    \cup {<<id, n>> : n \in {m \in 1 .. Len(e.scn[id].data) : e.scn[id].data[m].new}}

(* Where the section itself is stored: alone, or in section 0's block. *)
StoredIn(e, id) == IF e.scn[id].new THEN <<id, 0>> ELSE <<0, 0>>

(* Mutant: a section is freed as soon as it was looked at. *)
FreeScns_now(e, heap) ==
    FoldLeft(LAMBDA acc, id : [heap |-> acc.heap \ OfScn(e, id),
                               faults |-> acc.faults \/ StoredIn(e, id) \notin acc.heap],
             [heap |-> heap, faults |-> FALSE], e.scns)

(* One section of that list; acc is [heap, freescn, faults]. *)
FreeScn(e, acc, id) ==
    LET own == {a \in OfScn(e, id) : a[2] > 0}
        due == IF e.scn[id].new THEN acc.freescn ELSE {}
    IN  [heap |-> acc.heap \ (own \cup due),
         freescn |-> IF e.scn[id].new THEN {<<id, 0>>} ELSE acc.freescn,
         faults |-> acc.faults \/ StoredIn(e, id) \notin acc.heap
                    \/ ~(own \cup due \subseteq acc.heap)]

(***************************************************************************)
(* _elf_free_scns(): every section along the list, its buffers at once,    *)
(* the section itself when the next malloc'ed one is reached.              *)
(* faults: a section was looked at after its storage had been freed, or    *)
(* something was freed twice.                                              *)
(***************************************************************************)
FreeScns(e, heap) ==
    LET all == FoldLeft(LAMBDA acc, id : FreeScn(e, acc, id),
                        [heap |-> heap, freescn |-> {}, faults |-> FALSE], e.scns)
    IN  [heap |-> all.heap \ all.freescn,
         faults |-> all.faults \/ ~(all.freescn \subseteq all.heap)]
=============================================================================
