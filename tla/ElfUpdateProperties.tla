------------------------- MODULE ElfUpdateProperties -------------------------
(***************************************************************************)
(* What holds of a descriptor after any sequence of calls, and of the file *)
(* elf_update() writes from it.  The layout is asked of every state, as if *)
(* elf_update() were the next call.                                        *)
(***************************************************************************)
EXTENDS ElfUpdate

(* The descriptor, the file and the allocations are of the shapes libelf keeps. *)
ElfTypeOK ==
    /\ state \in {"none", "open", "undefined"}
    /\ elf.class \in {32, 64} /\ elf.flags \subseteq {"layout", "overlap", "dirty"}
    /\ DOMAIN elf.scn = 0 .. Fresh(elf) - 1
    /\ Range(elf.scns) \subseteq DOMAIN elf.scn
    /\ elf.last \in {Null} \cup DOMAIN elf.scn
    /\ \A id \in DOMAIN elf.scn : elf.scn[id] \in SectionRecords
    /\ heap \subseteq (DOMAIN elf.scn) \X Nat
    /\ file \in FileRecords
    /\ owed \in BOOLEAN /\ plan \in Seq(SUBSET Calls)

-----------------------------------------------------------------------------
(***************************************************************************)
(* newscn.c, opt.delscn.c, x.remscn.c and x.movscn.c each renumber the     *)
(* sections in their own way.  After any sequence of them the numbers are  *)
(* the places in the list, e_scn_n is the end of the list (elf_newscn()    *)
(* would cut off what is behind it), and every section of the list is      *)
(* still allocated: what update.c:197 and x.movscn.c:103-108 assert.       *)
(***************************************************************************)
ListSound ==
    Open => /\ IsInjective(elf.scns)
            /\ \A p \in 1 .. Len(elf.scns) :
                   /\ elf.scn[elf.scns[p]].index = p - 1
                   /\ OfScn(elf, elf.scns[p]) \cup {StoredIn(elf, elf.scns[p])} \subseteq heap
            /\ elf.last = IF elf.scns = <<>> THEN Null ELSE Last(elf.scns)

(***************************************************************************)
(* opt.delscn.c:185 "Adjust ELF header and well-known section headers":    *)
(* when a section is deleted, the links of those that stay still lead to   *)
(* the section they led to, or to section 0 when that one is gone.         *)
(***************************************************************************)
Led(e, index) == IF index < Len(e.scns) THEN e.scns[index + 1] ELSE Null

LinksFollow ==
    [][last'.op = "delscn" /\ last'.ok =>
        \A id \in Range(elf'.scns) :
            LET Follows(before, after) ==
                    Led(elf', after) = IF Led(elf, before) \in Range(elf'.scns) \cup {Null}
                                       THEN Led(elf, before) ELSE elf.scns[1]
                s == elf.scn[id] t == elf'.scn[id]
            IN  /\ s.type \in {SHT_REL, SHT_SYMTAB} => Follows(s.link, t.link)
                /\ s.type = SHT_REL => Follows(s.info, t.info)]_vars

-----------------------------------------------------------------------------
Region(at, size) == [from |-> at, to |-> at + size]

(* What _elf32_write() stores into the output, of a descriptor laid out. *)
HeaderRegions(e) ==
    {Region(0, FileSize(e.class, "ehdr")),
     Region(e.e_phoff, e.phnum * FileSize(e.class, "phdr")),
     Region(e.e_shoff, Len(e.scns) * FileSize(e.class, "shdr"))}

BufferRegions(e) ==
    UNION {{Region(e.scn[id].offset + e.scn[id].data[k].off, e.scn[id].data[k].size) :
                k \in Filled(e.scn[id])} : id \in Written(e)}

Inside(r, len) == r.from = r.to \/ r.to <= len

Disjoint(regions) ==
    \A r, t \in regions : r = t \/ r.from = r.to \/ t.from = t.to \/ r.to <= t.from \/ t.to <= r.from

(* Sections apart from one another, which two of the same extent are not. *)
SectionsDisjoint(e, extents) ==
    \A id, other \in Written(e) :
        id # other => Disjoint({extents[id], extents[other]}) /\
                      (extents[id] # extents[other] \/ e.scn[id].size = 0)

(* The buffers of a section, in order and at places their d_align allows. *)
BuffersInside(s) ==
    \A k \in Filled(s) :
        LET d == s.data[k]
        IN  /\ (s.offset + d.off) % Higher(1, d.align) = 0
            /\ k > 1 => s.data[k - 1].off + s.data[k - 1].size <= d.off
            /\ d.off + d.size <= s.size

(* The format has powers of two, and 0 for 1: of two alignments the larger is a multiple
   of the smaller, so that the largest will do for all buffers (update.c:94). *)
ASSUME AlignmentsDivide == \A a, b \in Alignments : a <= b => b % Higher(1, a) = 0

(***************************************************************************)
(* The buffer of _elf_output() has as many bytes as the layout returned:   *)
(* all that is written to it is inside, also with ELF_F_LAYOUT, when the   *)
(* program has chosen the places (update.c:99, 170, 272, 288).  No byte of *)
(* the file is used twice: headers, tables and buffers when the library    *)
(* lays the file out, and each buffer at a place its d_align allows; the   *)
(* extents of the sections when the program does, without                  *)
(* ELF_F_LAYOUT_OVERLAP.                                                   *)
(***************************************************************************)
RegionsApart ==
    Open /\ elf.ehdr =>
        LET l == Layout(elf)
            e == l.elf
            extents == [id \in Written(e) |-> Region(e.scn[id].offset, e.scn[id].size)]
        IN  l.ok =>
              /\ \A r \in HeaderRegions(e) \cup BufferRegions(e) : Inside(r, l.len)
              /\ "overlap" \notin e.flags => SectionsDisjoint(e, extents)
              /\ ~Keeps(e) =>
                    /\ Disjoint(HeaderRegions(e) \cup {extents[id] : id \in Written(e)})
                    /\ \A id \in Written(e) : BuffersInside(e.scn[id])

(***************************************************************************)
(* elf_update(ELF_C_NULL) says what the next elf_update() will do: laying  *)
(* out again changes no place and returns the same size (update.c:35-36,   *)
(* only what changes is marked).                                           *)
(***************************************************************************)
LayoutSettles ==
    Open /\ elf.ehdr =>
        LET l == Layout(elf)
            again == Layout(l.elf)
        IN  l.ok => /\ again.ok /\ again.len = l.len
                    /\ Image(again.elf, l.len) = Image(l.elf, l.len)
                    /\ Len(elf.scns) < SHN_LORESERVE /\ elf.phnum < PN_XNUM => again.elf = l.elf

-----------------------------------------------------------------------------
(* What a program sees of a descriptor: the sections with their contents. *)
View(e) ==
    [phnum |-> e.phnum, shstrndx |-> IF e.scns = <<>> THEN 0 ELSE Shstrndx(e),
     sections |-> [p \in 1 .. Len(e.scns) |->
        LET s == e.scn[e.scns[p]]
            d == IF p > 1 THEN LoadData(e, s).data ELSE <<>>
        IN  [type |-> s.type, link |-> s.link, info |-> s.info, offset |-> s.offset,
             size |-> s.size,
             contents |-> IF e.scns[p] \in Written(e) THEN Contents([s EXCEPT !.data = d])
                          ELSE {}]]]

(* What the program has to see to when it lays the file out: elf_update() does not
   compare the header and the tables with anything. *)
WellPlaced(e) ==
    /\ e.phnum > 0 => e.e_phoff # 0
    /\ e.scns # <<>> => e.e_shoff # 0
    /\ Disjoint(HeaderRegions(e) \cup BufferRegions(e))

(***************************************************************************)
(* After elf_update(ELF_C_WRITE) has succeeded, a program that opens the   *)
(* file sees what the descriptor has: the numbers of sections, of program  *)
(* headers and of the string table, that move to section 0 when they do    *)
(* not fit the header, and all contents.  Calls that mark nothing are left *)
(* out (owed), and so is what a failed write has lost: libelf forgets what *)
(* is dirty before it writes (update.c:738-746, 953-959).                  *)
(***************************************************************************)
FileHolds ==
    last.op = "update_write" /\ last.ok /\ ~owed /\ ~file.torn
        /\ (Keeps(elf) => WellPlaced(elf)) =>
        /\ Cook(file).ok
        /\ View(Cook(file).e) = View(elf)

-----------------------------------------------------------------------------
(* Sections that were made are behind those that were read, except section 0. *)
MadeLast ==
    \A p \in 2 .. Len(elf.scns) :
        elf.scn[elf.scns[p]].new =>
            \A q \in p + 1 .. Len(elf.scns) : elf.scn[elf.scns[q]].new

(***************************************************************************)
(* elf_end() gives back everything once and looks at nothing it has given  *)
(* back (end.c:37-72), whatever was made, deleted and moved: as long as no *)
(* section that was made stands before one that was read.                  *)
(***************************************************************************)
EndsClean == Open /\ MadeLast => FreeScns(elf, heap) = [heap |-> {}, faults |-> FALSE]

(***************************************************************************)
(* end.c:43 elf_assert(scn->s_magic == SCN_MAGIC): the sections elf_end()  *)
(* walks over are there.  Violated: a new section that was moved before    *)
(* one from the file makes it free the block of those from the file, which *)
(* is section 0's, and then go on with the next of them.                   *)
(***************************************************************************)
SectionsStillThere == state # "undefined"
=============================================================================
