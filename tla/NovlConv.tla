------------------------------ MODULE NovlConv ------------------------------
(***************************************************************************)
(* src/src/novl-conv.c: novl_conv(), the conversion of one MIPS ELF file   *)
(* to one overlay file, from the opening of the input to the exit of the   *)
(* process (main.c runs it on exactly one file).                           *)
(*                                                                         *)
(* The function is one long sequence: load the sections, run every         *)
(* relocation dry to predict how many the overlay will have, lay the       *)
(* overlay out with that prediction, run every relocation again for real,  *)
(* and write the file.  pc names the place reached, an iteration of a loop *)
(* is one action, and every return and exit of the function is one too.    *)
(*                                                                         *)
(* Data is kept in words at byte offsets that are multiples of 4: section  *)
(* contents, addresses and relocation offsets are word aligned, as the     *)
(* MIPS ABI has them.  htonl/ntohl cancel out and are left out.            *)
(***************************************************************************)
EXTENDS RelocEngine

CONSTANTS
    ElfFiles,     \* the input files, see WellFormed
    BaseAddrs,    \* the values of -A
    DiskMayFail   \* whether the buffered output may fail to reach the disk

VARIABLES
    elf,                   \* the ELF file, as libelf presents it
    base_addr,             \* settings.base_addr
    pc,                    \* the place reached in novl_conv
    status,                \* how the process ended
    scn,                   \* number of ELF sections visited by the current loop
    rel_list,              \* the entries of a section, sorted by address
    nreloc,                \* number of entries inserted into rel_list
    i,                     \* the loop variable of the same name
    error,                 \* a dry run has failed
    ninty_count_pred,      \* predicted number of table entries
    ninty_count_real,      \* number of table entries
    ninty_relocs,          \* the table of relocation words
    last,                  \* index of the list node `last' points to; 0 is NULL
    ovl_file_header_addr,  \* file offset of the overlay header
    out,                   \* what became of the output file
    file,                  \* its contents: [offset -> word]
    pos                    \* ftell(ovl_out)

inputVars == <<elf, base_addr>>
loopVars  == <<scn, rel_list, nreloc, i>>
countVars == <<error, ninty_count_pred>>
tableVars == <<ninty_count_real, ninty_relocs, last>>
outVars   == <<out, file, pos>>
vars == <<engineVars, inputVars, loopVars, countVars, tableVars, outVars,
          ovl_file_header_addr, pc, status>>

-----------------------------------------------------------------------------
(***************************************************************************)
(* The input.  A section name is [rel, id]: whether it starts with ".rel"  *)
(* and which of the four names of section_names (the rest of) it starts    *)
(* with; ".text.hot" and ".text" are both id 0, ".rel.data" is rel and 1,  *)
(* ".comment" is NoSection.  readable is whether libelf can get at the     *)
(* contents: it cannot when they extend beyond the end of the file.        *)
(***************************************************************************)
Kinds == {"unreadable", "not_elf", "other_machine", "mips"}

SectionTypes == {"PROGBITS", "NOBITS", "REL"}

SectionNames == [rel : BOOLEAN, id : SectionIds \cup {NoSection}]

Entries == [offset : Words, type : 0 .. 255]

Sections == [name : SectionNames, type : SectionTypes, addr : Words, size : Nat,
             readable : BOOLEAN, data : Seq(Words), rels : Seq(Entries)]

valid_sec(name) == IF name.rel THEN NoSection ELSE name.id
RelTarget(name) == IF name.rel THEN name.id ELSE NoSection

(* The rounding of sh_size to 8, and of the predicted end to 16. *)
RoundUp8(n)  == ((n + 7) \div 8) * 8
RoundUp16(n) == ((n + 15) \div 16) * 16

OutOfBounds_start_only(s, ep) ==    \* a slip: the size is not counted
    ep > s.addr \/ s.addr - ep > MemSize

OutOfBounds(s, ep) == ep > s.addr \/ s.addr + s.size - ep > MemSize

(***************************************************************************)
(* The contents are word aligned and relocated words lie in the image.     *)
(***************************************************************************)
WellFormedSection(s, ep) ==
    /\ s.type = "PROGBITS" => s.size = 4 * Len(s.data)
    /\ s.type = "PROGBITS" \/ valid_sec(s.name) \in {TEXT, DATA, RODATA} =>
          (s.addr - ep) % 4 = 0
    /\ \A k \in 1 .. Len(s.rels) : s.rels[k].offset - ep \in Offsets

WellFormed(e) ==
    /\ e \in [kind : Kinds, ep : Words, sections : Seq(Sections)]
    /\ \A k \in 1 .. Len(e.sections) : WellFormedSection(e.sections[k], e.ep)

(* memory[] is 4 MiB (novl-conv.c:49): every offset in it fits a table word. *)
ASSUME ImageFits == MemSize <= OffsetSpan

ASSUME Inputs ==
    /\ \A e \in ElfFiles : WellFormed(e)
    /\ BaseAddrs \subseteq Words
    /\ DiskMayFail \in BOOLEAN

Statuses == {"running", "ok", "err_input", "err_output", "err_multiple",
             "err_bounds", "err_reloc", "err_count", "err_bss", "err_arrange"}

PCs == {"open", "create", "load",
        "count_scan", "count_sort", "count_do", "layout",
        "reloc_scan", "reloc_sort", "reloc_do", "check_count",
        "write_header", "write_relocs", "write_footer", "check_bss",
        "write_section", "close", "exit", "crashed", "outside"}

EmptyFile == [o \in {} |-> 0]

Init ==
    /\ elf \in ElfFiles
    /\ base_addr \in BaseAddrs
    /\ pc = "open" /\ status = "running"
    /\ elf_starts = [s \in SectionIds |-> 0]
    /\ ovl_starts = [s \in SectionIds |-> 0]
    /\ sizes = [s \in SectionIds |-> 0]
    /\ memory = [o \in Offsets |-> 0]
    /\ hilopair = NoHiLoPairs
    /\ scn = 0 /\ rel_list = <<>> /\ nreloc = 0 /\ i = 0
    /\ error = FALSE /\ ninty_count_pred = 0
    /\ ninty_count_real = 0 /\ ninty_relocs = <<>> /\ last = 0
    /\ ovl_file_header_addr = 0
    /\ out = "untouched" /\ file = EmptyFile /\ pos = 0

(* exit(EXIT_FAILURE), with the output file as it is. *)
Exit(why) == pc' = "exit" /\ status' = why

KeepAndExit(why) ==    \* a slip: remove() is missing
    /\ out' = "written" /\ file' = file /\ pos' = pos
    /\ Exit(why)

(* fclose(ovl_out); remove(out); exit(EXIT_FAILURE) *)
RemoveAndExit(why) ==
    /\ out' = "removed" /\ file' = EmptyFile /\ pos' = pos
    /\ Exit(why)

Goto(where) == pc' = where /\ status' = status

-----------------------------------------------------------------------------
(***************************************************************************)
(* Opening the input and creating the output.                              *)
(***************************************************************************)
Open ==
    /\ pc = "open"
    /\ IF elf.kind = "mips" THEN Goto("create") ELSE Exit("err_input")
    /\ UNCHANGED <<engineVars, inputVars, loopVars, countVars, tableVars,
                   outVars, ovl_file_header_addr>>

CreateFails ==
    /\ pc = "create"
    /\ Exit("err_output")
    /\ UNCHANGED <<engineVars, inputVars, loopVars, countVars, tableVars,
                   outVars, ovl_file_header_addr>>

Create ==
    /\ pc = "create"
    /\ out' = "created" /\ file' = EmptyFile /\ pos' = 0
    /\ elf_starts' = [s \in SectionIds |-> 0]
    /\ sizes' = [s \in SectionIds |-> 0]
    /\ scn' = 0
    /\ Goto("load")
    /\ UNCHANGED <<ovl_starts, memory, hilopair, inputVars, rel_list, nreloc, i,
                   countVars, tableVars, ovl_file_header_addr>>

-----------------------------------------------------------------------------
(***************************************************************************)
(* Loading: one iteration of the loop over the ELF sections.               *)
(***************************************************************************)
Section == elf.sections[scn + 1]

Loaded_short(s) ==    \* a slip: the last word is not copied
    LET first == s.addr - elf.ep
    IN  IF s.readable
        THEN [o \in Offsets |->
                 IF o \in first .. (first + s.size - 5)
                 THEN s.data[(o - first) \div 4 + 1] ELSE memory[o]]
        ELSE memory

(* The image of the section in memory[], if its contents can be read; the
   code does not notice when they cannot. *)
Loaded(s) ==
    LET first == s.addr - elf.ep
    IN  IF s.readable
        THEN [o \in Offsets |->
                 IF o \in first .. (first + s.size - 1)
                 THEN s.data[(o - first) \div 4 + 1] ELSE memory[o]]
        ELSE memory

LoadFrame == UNCHANGED <<ovl_starts, hilopair, inputVars, rel_list, nreloc, i,
                         countVars, tableVars, outVars, ovl_file_header_addr>>

LoadSkip ==
    /\ pc = "load" /\ scn < Len(elf.sections)
    /\ valid_sec(Section.name) = NoSection
    /\ scn' = scn + 1
    /\ UNCHANGED <<elf_starts, sizes, memory, pc, status>>
    /\ LoadFrame

LoadDuplicate ==
    /\ pc = "load" /\ scn < Len(elf.sections)
    /\ valid_sec(Section.name) # NoSection
    /\ elf_starts[valid_sec(Section.name)] # 0
    /\ Exit("err_multiple")
    /\ UNCHANGED <<elf_starts, sizes, memory, scn>>
    /\ LoadFrame

LoadSection ==
    /\ pc = "load" /\ scn < Len(elf.sections)
    /\ LET id == valid_sec(Section.name)
       IN  /\ id # NoSection
           /\ elf_starts[id] = 0
           /\ elf_starts' = [elf_starts EXCEPT ![id] = Section.addr]
           /\ sizes' = [sizes EXCEPT ![id] = RoundUp8(Section.size) % Word]
           /\ IF Section.type # "PROGBITS"
              THEN memory' = memory /\ scn' = scn + 1 /\ Goto("load")
              ELSE IF OutOfBounds(Section, elf.ep)
              THEN memory' = memory /\ scn' = scn /\ Exit("err_bounds")
              ELSE memory' = Loaded(Section) /\ scn' = scn + 1 /\ Goto("load")
    /\ LoadFrame

LoadEnd ==
    /\ pc = "load" /\ scn = Len(elf.sections)
    /\ scn' = 0
    /\ Goto("count_scan")
    /\ UNCHANGED <<elf_starts, sizes, memory>>
    /\ LoadFrame

-----------------------------------------------------------------------------
(***************************************************************************)
(* Both passes visit the relocation sections alike: a section that is      *)
(* wanted has its entries sorted into rel_list, one insertion at a time,   *)
(* and then processed one by one.                                          *)
(***************************************************************************)
Wanted(s) == RelTarget(s.name) # NoSection /\ s.size > 0 /\ s.readable

(* Where the insertion sort puts rel: it moves up, from the end of the list,
   every entry whose address is not below that of rel. *)
Position(list, rel) ==
    LET Above == {p \in 1 .. (Len(list) + 1) :
                    \A q \in p .. Len(list) : rel.offset <= list[q].offset}
    IN  CHOOSE p \in Above : \A q \in Above : p <= q

Inserted_unsorted(list, rel) == Append(list, rel)    \* a slip: no sorting

Inserted(list, rel) ==
    LET p == Position(list, rel)
    IN  [q \in 1 .. (Len(list) + 1) |->
           IF q < p THEN list[q] ELSE IF q = p THEN rel ELSE list[q - 1]]

(* The section the entries in rel_list come from: the scan has passed it. *)
Current == elf.sections[scn]

ScanSkips_in_place(scanning) ==    \* a slip: the scan does not advance
    /\ pc = scanning /\ scn < Len(elf.sections)
    /\ ~Wanted(Section)
    /\ UNCHANGED <<hilopair, loopVars, pc, status>>

(* elf_nextscn and the tests on the name; n < sh_size && elf_getdata. *)
ScanSkips(scanning) ==
    /\ pc = scanning /\ scn < Len(elf.sections)
    /\ ~Wanted(Section)
    /\ scn' = scn + 1
    /\ UNCHANGED <<hilopair, rel_list, nreloc, i, pc, status>>

ScanFinds(scanning, sorting) ==
    /\ pc = scanning /\ scn < Len(elf.sections)
    /\ Wanted(Section)
    /\ scn' = scn + 1
    /\ hilopair' = NoHiLoPairs
    /\ rel_list' = <<>> /\ nreloc' = 0
    /\ Goto(sorting)
    /\ UNCHANGED i

SortInserts(sorting) ==
    /\ pc = sorting /\ nreloc < Len(Current.rels)
    /\ rel_list' = Inserted(rel_list, Current.rels[nreloc + 1])
    /\ nreloc' = nreloc + 1
    /\ UNCHANGED <<hilopair, scn, i, pc, status>>

SortEnds(sorting, processing) ==
    /\ pc = sorting /\ nreloc = Len(Current.rels)
    /\ i' = 1
    /\ Goto(processing)
    /\ UNCHANGED <<hilopair, scn, rel_list, nreloc>>

ListEnds(processing, scanning) ==
    /\ pc = processing /\ i > nreloc
    /\ Goto(scanning)
    /\ UNCHANGED <<hilopair, loopVars>>

-----------------------------------------------------------------------------
(***************************************************************************)
(* First pass: how many table entries will there be?                       *)
(***************************************************************************)
CountFrame == UNCHANGED <<elf_starts, ovl_starts, sizes, memory, inputVars,
                          tableVars, outVars, ovl_file_header_addr>>

CountScan ==
    /\ ScanSkips("count_scan") \/ ScanFinds("count_scan", "count_sort")
    /\ UNCHANGED countVars
    /\ CountFrame

CountSort ==
    /\ SortInserts("count_sort") \/ SortEnds("count_sort", "count_do")
    /\ UNCHANGED countVars
    /\ CountFrame

Predicted_always_drops(rel, ret) ==    \* a slip: both failures treated alike
    IF ret \in {"success", "error"} THEN 1
    ELSE IF rel.type = R_MIPS_LO16 THEN -1 ELSE 0

Predicted_never_drops(rel, ret) ==    \* a slip: HI16s are never taken back
    IF ret \in {"success", "error"} THEN 1 ELSE 0

(* The change one dry run makes to the prediction.  An error counts too: the
   process will exit, but only once every entry has been looked at. *)
Predicted(rel, ret) ==
    IF ret \in {"success", "error"} THEN 1
    ELSE IF rel.type = R_MIPS_LO16 /\ ret # "fail_keep_hi" THEN -1
    ELSE 0

CountEntry ==
    /\ pc = "count_do" /\ i <= nreloc
    /\ LET rel == rel_list[i]
           v   == novl_reloc_do(rel.offset - elf.ep, rel.type, TRUE)
       IN  /\ hilopair' = v.hilopair
           /\ memory' = v.memory
           /\ error' = (error \/ v.ret = "error")
           /\ ninty_count_pred' = ninty_count_pred + Predicted(rel, v.ret)
    /\ i' = i + 1
    /\ UNCHANGED <<elf_starts, ovl_starts, sizes, inputVars, scn, rel_list,
                   nreloc, tableVars, outVars, ovl_file_header_addr, pc, status>>

CountNext ==
    /\ ListEnds("count_do", "count_scan")
    /\ UNCHANGED countVars
    /\ CountFrame

CountEnd ==
    /\ pc = "count_scan" /\ scn = Len(elf.sections)
    /\ IF error THEN Exit("err_reloc") ELSE Goto("layout")
    /\ UNCHANGED <<hilopair, loopVars, countVars>>
    /\ CountFrame

-----------------------------------------------------------------------------
(***************************************************************************)
(* Laying out the overlay, in 32-bit arithmetic: the three sections with   *)
(* contents, the header (5 words), the table, a footer word, and .bss at   *)
(* the next multiple of 16 after all that.                                 *)
(***************************************************************************)
DataStart   == (base_addr + sizes[TEXT]) % Word
RodataStart == (DataStart + sizes[DATA]) % Word
HeaderStart == (RodataStart + sizes[RODATA]) % Word

BssStart_no_footer ==    \* a slip: no room for the footer word
    RoundUp16((HeaderStart + HeaderSize + 4 * ninty_count_pred) % Word) % Word

BssStart ==
    RoundUp16((HeaderStart + HeaderSize + 4 * ninty_count_pred + FooterSize) % Word)
        % Word

Layout ==
    /\ pc = "layout"
    /\ ovl_starts' = [s \in SectionIds |->
                         CASE s = TEXT   -> base_addr
                           [] s = DATA   -> DataStart
                           [] s = RODATA -> RodataStart
                           [] s = BSS    -> BssStart]
    /\ ovl_file_header_addr' = (HeaderStart - base_addr) % Word
    /\ scn' = 0
    /\ ninty_count_real' = 0
    /\ Goto("reloc_scan")
    /\ UNCHANGED <<elf_starts, sizes, memory, hilopair, inputVars, rel_list,
                   nreloc, i, countVars, ninty_relocs, last, outVars>>

-----------------------------------------------------------------------------
(***************************************************************************)
(* Second pass: relocate the image and build the table.                    *)
(***************************************************************************)
RelocFrame == UNCHANGED <<elf_starts, ovl_starts, sizes, inputVars, countVars,
                          outVars, ovl_file_header_addr>>

RelocScan ==
    /\ \/ ScanSkips("reloc_scan") /\ UNCHANGED last
       \/ ScanFinds("reloc_scan", "reloc_sort") /\ last' = 0
    /\ UNCHANGED <<memory, ninty_count_real, ninty_relocs>>
    /\ RelocFrame

RelocSort ==
    /\ SortInserts("reloc_sort") \/ SortEnds("reloc_sort", "reloc_do")
    /\ UNCHANGED <<memory, tableVars>>
    /\ RelocFrame

(* g_list_delete_link(ninty_relocs, n) *)
Deleted(list, n) ==
    [q \in 1 .. (Len(list) - 1) |-> IF q < n THEN list[q] ELSE list[q + 1]]

TableWord_from_zero(rel) ==    \* a slip: sections numbered from 0
    LET id == RelTarget(Current.name)
    IN  novl_reloc_mk(id, rel.offset - elf_starts[id], rel.type)

(* The word for rel, an entry of the current section. *)
TableWord(rel) ==
    LET id == RelTarget(Current.name)
    IN  novl_reloc_mk(id + 1, rel.offset - elf_starts[id], rel.type)

AppendWord_last_stays(rel) ==    \* a slip: last does not move on
    /\ ninty_relocs' = Append(ninty_relocs, TableWord(rel))
    /\ ninty_count_real' = ninty_count_real + 1
    /\ last' = IF last = 0 THEN Len(ninty_relocs) + 1 ELSE last

(* The entry goes to the end of the table, and last follows it. *)
AppendWord(rel) ==
    /\ ninty_relocs' = Append(ninty_relocs, TableWord(rel))
    /\ ninty_count_real' = ninty_count_real + 1
    /\ last' = IF last = 0 THEN Len(ninty_relocs) + 1 ELSE last + 1

DeleteLast_uncounted ==    \* a slip: the count is not corrected
    /\ ninty_relocs' = Deleted(ninty_relocs, last)
    /\ ninty_count_real' = ninty_count_real
    /\ last' = last - 1

(* The word last added is taken out again; it is assumed to be the HI16. *)
DeleteLast ==
    /\ ninty_relocs' = Deleted(ninty_relocs, last)
    /\ ninty_count_real' = ninty_count_real - 1
    /\ last' = last - 1

(* A skipped LO16 that is the first to use its HI16 takes it along. *)
DropsHi_always(rel, ret) ==    \* a slip: both failures treated alike
    rel.type = R_MIPS_LO16 /\ ret # "success"

DropsHi(rel, ret) == rel.type = R_MIPS_LO16 /\ ret = "fail"

RelocEntry ==
    /\ pc = "reloc_do" /\ i <= nreloc
    /\ LET rel == rel_list[i]
           v   == novl_reloc_do(rel.offset - elf.ep, rel.type, FALSE)
       IN  /\ hilopair' = v.hilopair
           /\ memory' = v.memory
           /\ \/ /\ v.ret = "error"
                 /\ Exit("err_reloc")
                 /\ UNCHANGED <<i, tableVars>>
              \/ /\ v.ret = "success"
                 /\ AppendWord(rel)
                 /\ i' = i + 1 /\ UNCHANGED <<pc, status>>
              \/ /\ v.ret \in {"fail", "fail_keep_hi"}
                 /\ ~DropsHi(rel, v.ret)
                 /\ i' = i + 1 /\ UNCHANGED <<tableVars, pc, status>>
              \/ /\ v.ret \in {"fail", "fail_keep_hi"}
                 /\ DropsHi(rel, v.ret)
                 /\ last # 0
                 /\ DeleteLast
                 /\ i' = i + 1 /\ UNCHANGED <<pc, status>>
              \/ /\ v.ret \in {"fail", "fail_keep_hi"}
                 /\ DropsHi(rel, v.ret)
                 /\ last = 0                 \* last->prev of a null pointer
                 /\ Goto("crashed")
                 /\ UNCHANGED <<i, tableVars>>
    /\ UNCHANGED <<scn, rel_list, nreloc>>
    /\ RelocFrame

RelocNext ==
    /\ ListEnds("reloc_do", "reloc_scan")
    /\ UNCHANGED <<memory, tableVars>>
    /\ RelocFrame

RelocEnd ==
    /\ pc = "reloc_scan" /\ scn = Len(elf.sections)
    /\ Goto("check_count")
    /\ UNCHANGED <<hilopair, loopVars, memory, tableVars>>
    /\ RelocFrame

-----------------------------------------------------------------------------
(***************************************************************************)
(* Writing the overlay: the header at its place behind the sections, the   *)
(* table and the footer, then back to the start for the sections.          *)
(***************************************************************************)
WriteAt(where, words) ==
    LET written == {where + 4 * (k - 1) : k \in 1 .. Len(words)}
    IN  [o \in DOMAIN file \cup written |->
           IF o \in written THEN words[(o - where) \div 4 + 1] ELSE file[o]]

WriteFrame == UNCHANGED <<engineVars, inputVars, scn, rel_list, nreloc,
                          countVars, tableVars, ovl_file_header_addr>>

CheckCount ==
    /\ pc = "check_count"
    /\ IF ninty_count_pred = ninty_count_real
       THEN Goto("write_header") /\ UNCHANGED outVars
       ELSE RemoveAndExit("err_count")
    /\ UNCHANGED i
    /\ WriteFrame

WriteHeader ==
    /\ pc = "write_header"
    /\ file' = WriteAt(ovl_file_header_addr,
                       <<sizes[TEXT], sizes[DATA], sizes[RODATA], sizes[BSS],
                         ninty_count_real>>)
    /\ pos' = ovl_file_header_addr + HeaderSize
    /\ Goto("write_relocs")
    /\ UNCHANGED <<out, i>>
    /\ WriteFrame

(* The loop over the list stops at its end or at a word that is zero. *)
IsFirstZero(q) ==
    ninty_relocs[q] = 0 /\ \A p \in 1 .. (q - 1) : ninty_relocs[p] # 0

WrittenRelocs ==
    IF \E q \in 1 .. Len(ninty_relocs) : ninty_relocs[q] = 0
    THEN SubSeq(ninty_relocs, 1,
                (CHOOSE q \in 1 .. Len(ninty_relocs) : IsFirstZero(q)) - 1)
    ELSE ninty_relocs

WriteRelocs ==
    /\ pc = "write_relocs"
    /\ file' = WriteAt(pos, WrittenRelocs)
    /\ pos' = pos + 4 * Len(WrittenRelocs)
    /\ Goto("write_footer")
    /\ UNCHANGED <<out, i>>
    /\ WriteFrame

(* Where the footer goes: the last word of a 16-byte line. *)
FooterPos == IF (pos + 4) % 16 = 0 THEN pos ELSE pos - ((pos + 4) % 16) + 16

Backwards_unpadded == pos - ovl_file_header_addr + 4    \* a slip: no padding

(* Distance from the end of the file back to the header. *)
Backwards == (pos - ovl_file_header_addr + 4) + (FooterPos - pos)

WriteFooter ==
    /\ pc = "write_footer"
    /\ file' = WriteAt(FooterPos, <<Backwards>>)
    /\ pos' = FooterPos + FooterSize
    /\ i' = FooterPos                \* i is reused for the file position
    /\ Goto("check_bss")
    /\ UNCHANGED out
    /\ WriteFrame

InPlace_unchecked(s) == TRUE    \* a slip: the check is missing

InPlace_sections_only(s) ==    \* a slip: where .bss lies is not checked
    s = BSS \/ ovl_starts[s] = pos + base_addr

(* ftell() is a long, so the comparison does not wrap with the addresses. *)
InPlace(s) == ovl_starts[s] = pos + base_addr

CheckBss ==
    /\ pc = "check_bss"
    /\ IF InPlace(BSS)
       THEN pos' = 0 /\ i' = 0 /\ Goto("write_section") /\ UNCHANGED <<out, file>>
       ELSE RemoveAndExit("err_bss") /\ UNCHANGED i
    /\ WriteFrame

(* Where the words of section s are in memory[]; whether they are in it. *)
PlaceOf(s, k) == elf_starts[s] - elf.ep + 4 * (k - 1)

LiesInMemory(s) == \A k \in 1 .. (sizes[s] \div 4) : PlaceOf(s, k) \in Offsets

SectionImage(s) == [k \in 1 .. (sizes[s] \div 4) |-> memory[PlaceOf(s, k)]]

WriteSection ==
    /\ pc = "write_section" /\ i < BSS
    /\ IF ~InPlace(i)
       THEN RemoveAndExit("err_arrange") /\ UNCHANGED i
       ELSE IF LiesInMemory(i)
       THEN /\ file' = WriteAt(pos, SectionImage(i))
            /\ pos' = pos + sizes[i]
            /\ i' = i + 1
            /\ UNCHANGED <<out, pc, status>>
       ELSE Goto("outside") /\ UNCHANGED <<outVars, i>>    \* fwrite leaves memory[]
    /\ WriteFrame

CheckHeader ==
    /\ pc = "write_section" /\ i = BSS
    /\ IF ovl_file_header_addr = pos
       THEN Goto("close") /\ UNCHANGED outVars
       ELSE RemoveAndExit("err_arrange")
    /\ UNCHANGED i
    /\ WriteFrame

(* fclose() and the return to main(), whose exit status is 0.  Nobody looks
   at the result of fclose: with a full disk what stdio still held is lost,
   here everything after some offset. *)
Kept == IF DiskMayFail THEN {0} \cup DOMAIN file ELSE {}

Close ==
    /\ pc = "close"
    /\ \/ file' = file /\ out' = "written"
       \/ \E cut \in Kept :
            /\ file' = [o \in {p \in DOMAIN file : p < cut} |-> file[o]]
            /\ out' = "cut"
    /\ pos' = pos
    /\ Exit("ok")
    /\ UNCHANGED i
    /\ WriteFrame

(* The process is gone, or nothing can be said of it any more. *)
Exited == pc \in {"exit", "outside"} /\ UNCHANGED vars

Next ==
    \/ Open \/ CreateFails \/ Create
    \/ LoadSkip \/ LoadDuplicate \/ LoadSection \/ LoadEnd
    \/ CountScan \/ CountSort \/ CountEntry \/ CountNext \/ CountEnd
    \/ Layout
    \/ RelocScan \/ RelocSort \/ RelocEntry \/ RelocNext \/ RelocEnd
    \/ CheckCount \/ WriteHeader \/ WriteRelocs \/ WriteFooter \/ CheckBss
    \/ WriteSection \/ CheckHeader \/ Close
    \/ Exited

Spec == Init /\ [][Next]_vars

=============================================================================
