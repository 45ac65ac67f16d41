------------------------------ MODULE ElfUpdate ------------------------------
(***************************************************************************)
(* src/libelf/update.c, and a program that uses a descriptor: it opens a   *)
(* file to read and write, or to write only, changes its sections, has     *)
(* elf_update() lay the file out (ELF_C_NULL) or write it (ELF_C_WRITE),   *)
(* and ends the descriptor; then it may open the file again.               *)
(*                                                                         *)
(* The build is the one config.h.w32 configures, the only configuration in *)
(* the repository: no mmap() and no ftruncate(), assertions on.  The       *)
(* output is put together in a buffer and written over what the file had.  *)
(***************************************************************************)
EXTENDS ElfSections

CONSTANTS
    Files,        \* the files there may be at first
    Headers,      \* [type, link, info, offset, size]: what a program may put in a header
    Buffers,      \* [size, align, off, buf, null]: ... and in a buffer
    PhdrCounts,   \* the numbers of program headers it may ask for
    FlagOps,      \* <<command, flag>> for elf_flagelf()
    Plans,        \* bound: which calls a program may make first, second and so on
    MaxScns       \* bound: sections of a descriptor

Calls == {"begin", "getscn", "newehdr", "newphdr", "update_shstrndx", "newscn", "newdata", "update_shdr",
          "flagelf", "delscn", "remscn", "movscn", "update_null", "update_write", "end"}

ASSUME BoundsAssumption == Plans \subseteq Seq(SUBSET Calls) /\ MaxScns \in Nat

(* What C types let a program hand over. *)
ASSUME InputsAssumption ==
    /\ Files \subseteq FileRecords
    /\ Headers \subseteq [type : SectionTypes, link : Nat, info : Nat, offset : Nat, size : Nat]
    /\ Buffers \subseteq
           [size : Nat, align : Alignments, off : Nat, buf : SUBSET Pieces, null : BOOLEAN]
    /\ PhdrCounts \subseteq Nat
    /\ FlagOps \subseteq {"set", "clr"} \X {"layout", "overlap", "dirty"}

VARIABLES
    elf,          \* the descriptor
    state,        \* "none", "open" or "undefined": freed memory was looked at
    heap,         \* its live allocations, see OfScn
    file,         \* the contents of the file
    last,         \* the last call, and whether it succeeded
    owed,         \* the descriptor has changes no flag stands for, or a write was lost
    plan          \* what the program may call from now on

vars == <<elf, state, heap, file, last, owed, plan>>

-----------------------------------------------------------------------------
(* elf_getdata(), for a section that has buffers. *)
LoadData(e, s) == IF s.data = <<>> THEN [ok |-> TRUE, data |-> <<>>] ELSE GetData(e, s)

(* Mutant: with ELF_F_LAYOUT the last buffer tells how long the contents are. *)
DataLayout_last(e, s) ==
    LET Put(acc, d) ==
            LET at == IF Keeps(e) THEN d.off ELSE Align(acc.len, d.align)
            IN  [len   |-> at + d.size, align |-> Higher(acc.align, d.align),
                 data  |-> Append(acc.data, [d EXCEPT !.off = at, !.dirty = @ \/ at # d.off])]
    IN  FoldLeft(Put, [len |-> 0, align |-> 1, data |-> <<>>], LoadData(e, s).data)

(* One buffer of a section behind those before it; acc is [len, align, data]. *)
PutData(e, acc, d) ==
    LET at == IF Keeps(e) THEN d.off ELSE Align(acc.len, d.align)
    IN  [len   |-> IF Keeps(e) THEN Higher(acc.len, at + d.size) ELSE at + d.size,
         align |-> IF Keeps(e) THEN acc.align ELSE Higher(acc.align, d.align),
         data  |-> Append(acc.data, [d EXCEPT !.off = at, !.dirty = @ \/ at # d.off])]

(***************************************************************************)
(* scn_data_layout(): where the buffers go in their section.               *)
(***************************************************************************)
DataLayout(e, s) ==
    FoldLeft(LAMBDA acc, d : PutData(e, acc, d), [len |-> 0, align |-> 1, data |-> <<>>],
             LoadData(e, s).data)

(* What section s takes of the file, as the check for overlaps counts. *)
End(s) == s.offset + IF s.type = SHT_NOBITS THEN 0 ELSE s.size

(* Mutant: a section that begins inside another is found, one around another is not. *)
Overlaps_begin(e, scn, p, off) ==
    LET s == scn[e.scns[p]]
    IN  /\ "overlap" \notin e.flags
        /\ s.offset < off
        /\ \E q \in 1 .. p - 1 :
               LET t == scn[e.scns[q]] IN s.offset > t.offset /\ End(t) > s.offset

(* The check for overlapping sections, made for sections that begin before off. *)
Overlaps(e, scn, p, off) ==
    LET s == scn[e.scns[p]]
    IN  /\ "overlap" \notin e.flags
        /\ s.offset < off
        /\ \E q \in 1 .. p - 1 :
               LET t == scn[e.scns[q]] IN End(s) > t.offset /\ End(t) > s.offset

(* Section 0: it has the number of program headers when the header cannot hold it. *)
LayoutFirst(e, s0) ==
    LET ext == e.phnum >= PN_XNUM
        \* the 64-bit code stores through Elf32_Shdr: sh_info is there the upper half
        \* of sh_offset
        s1 == IF ~ext THEN s0
              ELSE IF e.class = 32 THEN [s0 EXCEPT !.info = e.phnum]
              ELSE [s0 EXCEPT !.offset = e.phnum * HighWord + (@ % HighWord)]
        s2 == IF Keeps(e) THEN s1
              ELSE [s1 EXCEPT !.offset = 0, !.size = 0, !.addralign = 0]
    IN  [s2 EXCEPT !.dirty = @ \/ s1 # s0 \/ s2 # s1]

(* A section at a place of its own, with the buffers d; what changes is marked. *)
Placed(s, at, d) ==
    [s EXCEPT !.data = d.data, !.offset = at, !.size = d.len, !.addralign = d.align,
              !.dirty = @ \/ <<at, d.len, d.align>> # <<s.offset, s.size, s.addralign>>]

(* Section id, with buffers d, at the next place; acc is [ok, off, scn]. *)
PlaceNext(acc, id, at, d) ==
    [ok |-> TRUE, scn |-> [acc.scn EXCEPT ![id] = Placed(@, at, d)],
     off |-> IF acc.scn[id].type = SHT_NOBITS THEN at ELSE at + d.len]

(* The p-th section where the program has put it, if it fits there. *)
CheckKept(e, acc, p, d) ==
    LET s  == acc.scn[e.scns[p]]
        ok == d.len <= s.size /\ ~Overlaps(e, acc.scn, p, acc.off)
    IN  [ok |-> ok, scn |-> [acc.scn EXCEPT ![e.scns[p]].data = d.data],
         off |-> IF ok THEN Higher(acc.off, End(s)) ELSE acc.off]

(* One section.  Section 0 has been laid out before. *)
LayoutScn(e, acc, p) ==
    LET s == acc.scn[e.scns[p]]
        With(d) == IF Keeps(e) THEN CheckKept(e, acc, p, d)
                   ELSE PlaceNext(acc, e.scns[p], Align(acc.off, d.align), d)
    IN  IF ~acc.ok \/ p = 1 \/ s.type = SHT_NULL THEN acc
        ELSE IF ~LoadData(e, s).ok THEN [acc EXCEPT !.ok = FALSE]
        ELSE With(DataLayout(e, s))

(* Mutant: counted from where the table was before. *)
TableEnd_old(e, shoff) ==
    IF e.scns = <<>> THEN 0 ELSE e.e_shoff + Len(e.scns) * FileSize(e.class, "shdr")

(* Where the section headers end. *)
TableEnd(e, shoff) ==
    IF e.scns = <<>> THEN 0 ELSE shoff + Len(e.scns) * FileSize(e.class, "shdr")

(* Where the tables begin: behind the header, behind the sections. *)
Phoff(e) ==
    IF Keeps(e) THEN e.e_phoff
    ELSE IF e.phnum = 0 THEN 0 ELSE Align(FileSize(e.class, "ehdr"), FileSize(e.class, "addr"))

Shoff(e, off) ==
    IF Keeps(e) THEN e.e_shoff
    ELSE IF e.scns = <<>> THEN 0 ELSE Align(off, FileSize(e.class, "addr"))

(* All sections, from the end of the program headers. *)
LayoutScns(e) ==
    FoldLeft(LAMBDA acc, p : LayoutScn(e, acc, p),
             [ok  |-> TRUE,
              off |-> Higher(FileSize(e.class, "ehdr"),
                             IF e.phnum = 0 THEN 0
                             ELSE Phoff(e) + e.phnum * FileSize(e.class, "phdr")),
              scn |-> IF e.scns = <<>> THEN e.scn
                      ELSE [e.scn EXCEPT ![e.scns[1]] = LayoutFirst(e, @)]],
             [p \in 1 .. Len(e.scns) |-> p])

(* Mutant: the number of sections is in the header or nowhere. *)
Numbered_not(e, all) == all.scn

(* At the end, section 0 gets the number of sections when the header cannot hold it. *)
Numbered(e, all) ==
    LET num == Len(e.scns)
    IN  IF ~all.ok \/ num < SHN_LORESERVE THEN all.scn
        ELSE [all.scn EXCEPT ![e.scns[1]].size = num,
                             ![e.scns[1]].dirty = @ \/ all.scn[e.scns[1]].size # num]

(* The header, as far as the layout came; what changes in it is marked. *)
LayoutHeader(e, all) ==
    LET Noted(l) == [l EXCEPT !.dirty = @ \/ l # [e EXCEPT !.scn = l.scn]]
        num == Len(e.scns)
    IN  Noted([e EXCEPT
            !.scn = Numbered(e, all), !.e_phoff = Phoff(e),
            !.e_phnum = IF e.phnum >= PN_XNUM THEN PN_XNUM ELSE e.phnum,
            !.e_shoff = IF all.ok THEN Shoff(e, all.off) ELSE @,
            !.e_shnum = IF ~all.ok THEN @ ELSE IF num >= SHN_LORESERVE THEN 0 ELSE num])

(***************************************************************************)
(* _elf32_layout(), and _elf64_layout(): [ok, len, elf].  The descriptor   *)
(* keeps what was laid out when the layout fails half way.                 *)
(***************************************************************************)
Layout(e) ==
    LET Done(all) == [ok  |-> all.ok,
                      len |-> Higher(all.off, TableEnd(e, Shoff(e, all.off))),
                      elf |-> LayoutHeader(e, all)]
    IN  Done(LayoutScns(e))

(* What flag has in the end: the file has to be written. *)
Dirty(e) ==
    \/ e.dirty \/ "dirty" \in e.flags
    \/ \E p \in 1 .. Len(e.scns) :
           LET s == e.scn[e.scns[p]]
           IN  \/ s.dirty
               \/ p > 1 /\ s.type # SHT_NULL /\ \E k \in 1 .. Len(s.data) : s.data[k].dirty

-----------------------------------------------------------------------------
(* The sections whose buffers are written, and the buffers. *)
Written(e) ==
    {id \in Range(e.scns) : e.scn[id].index # 0 /\ e.scn[id].type \notin {SHT_NULL, SHT_NOBITS}}

Filled(s) == {k \in 1 .. Len(s.data) : s.data[k].size > 0}

Contents(s) == UNION {Shifted(s.data[k].buf, s.data[k].off) : k \in Filled(s)}

(* d_buf is NULL in some buffer: ERROR_NULLBUF. *)
NullBuf(e) == \E id \in Written(e) : \E k \in Filled(e.scn[id]) : e.scn[id].data[k].null

(* The output of _elf32_write() and _elf64_write(), len bytes of it. *)
Image(e, len) ==
    [len |-> len, class |-> e.class, torn |-> FALSE,
     ehdr |-> [phoff |-> e.e_phoff, phnum |-> e.e_phnum, shoff |-> e.e_shoff,
               shnum |-> e.e_shnum, shstrndx |-> e.e_shstrndx],
     shdrs |-> [p \in 1 .. Len(e.scns) |->
        LET s == e.scn[e.scns[p]]
        IN  [type |-> s.type, link |-> s.link, info |-> s.info, offset |-> s.offset,
             size |-> s.size, addralign |-> s.addralign]],
     data |-> UNION {Shifted(Contents(e.scn[id]), e.scn[id].offset) : id \in Written(e)}]

(* A section that was written: its buffers are clean, and it is as if read. *)
Cleaned(e, s) ==
    LET t == IF e.readable
             THEN [s EXCEPT !.s_type = s.type, !.s_size = s.size, !.s_offset = s.offset]
             ELSE s
    IN  [t EXCEPT !.dirty = FALSE,
                  !.data = [k \in DOMAIN s.data |-> [s.data[k] EXCEPT !.dirty = FALSE]]]

(* The end of _elf32_write(): the descriptor is clean, and as if it had been read
   from the file it will be in.  This comes before the output is written. *)
Clean(e, len) ==
    [e EXCEPT !.size = len, !.dirty = FALSE, !.flags = @ \ {"dirty"},
              !.scn = [id \in DOMAIN e.scn |->
                  IF id \in Range(e.scns) THEN Cleaned(e, e.scn[id]) ELSE e.scn[id]]]

(* _elf_output(): nothing is cut off, what was behind the output stays.  torn: what a
   reader finds is not known, as after a write that failed; here, because the header
   points to a table of no sections, and what is there is read as section 0. *)
Output(image) ==
    [image EXCEPT !.torn = (image.shdrs = <<>> /\ image.ehdr.shoff # 0), !.len = Higher(@, file.len),
                  !.data = @ \cup {p \in file.data : p.at >= image.len}]

-----------------------------------------------------------------------------
NoFile == [len |-> 0, class |-> 32, ehdr |-> [phoff |-> 0, phnum |-> 0, shoff |-> 0,
           shnum |-> 0, shstrndx |-> 0], shdrs |-> <<>>, data |-> {}, torn |-> FALSE]

Call(op, ok) ==
    /\ plan # <<>> /\ op \in Head(plan) /\ plan' = Tail(plan)
    /\ last' = [op |-> op, ok |-> ok]

Open == state = "open"

Scns == Range(elf.scns)

Init ==
    /\ file \in Files
    /\ elf = InitElf(32) /\ state = "none" /\ heap = {}
    /\ last = [op |-> "none", ok |-> TRUE] /\ owed = FALSE /\ plan \in Plans

(* elf_begin(fd, ELF_C_RDWR, NULL): the image is read, nothing in it is looked at. *)
BeginRdwr ==
    /\ state = "none" /\ file.len > 0 /\ ~file.torn   \* bound: no torn file is read again
    /\ elf' = [InitElf(file.class) EXCEPT !.readable = TRUE, !.size = file.len,
                                          !.image = file.data]
    /\ state' = "open" /\ heap' = {}
    /\ Call("begin", TRUE)
    /\ owed' = FALSE /\ UNCHANGED file

(* _elf_cook(), in the first call that needs the header: elf_getscn(), elf_newscn(),
   elf32_newphdr() and all others but elf_flagelf(), elf_update() and elf_end(). *)
ElfCook ==
    /\ Open /\ elf.readable /\ ~elf.ehdr
    /\ elf' = [Cook(file).e EXCEPT !.flags = elf.flags]
    /\ heap' = IF elf'.scns = <<>> THEN {} ELSE {<<0, 0>>}
    /\ Call("getscn", Cook(file).ok)
    /\ UNCHANGED <<state, file, owed>>

(* elf_begin(fd, ELF_C_WRITE, NULL) *)
BeginWrite(class) ==
    /\ state = "none"
    /\ elf' = InitElf(class) /\ state' = "open" /\ heap' = {}
    /\ Call("begin", TRUE)
    /\ owed' = FALSE /\ UNCHANGED file

(* elf32_newehdr(), elf64_newehdr() of a descriptor that was not read. *)
Newehdr ==
    /\ Open /\ ~elf.readable /\ ~elf.ehdr
    /\ elf' = [elf EXCEPT !.ehdr = TRUE, !.dirty = TRUE]
    /\ Call("newehdr", TRUE)
    /\ UNCHANGED <<state, heap, file, owed>>

(* The allocations of the sections and buffers made by a call. *)
Grows(e) == heap' = heap \cup UNION {OfScn(e, id) : id \in DOMAIN e.scn \ DOMAIN elf.scn}

Newphdr(count) ==
    /\ Open /\ elf.ehdr
    /\ elf' = NewPhdr(elf, count) /\ Grows(elf')
    /\ Call("newphdr", TRUE)
    /\ UNCHANGED <<state, file, owed>>

ShstrndxTo(id) ==
    /\ Open /\ elf.ehdr /\ id \in Scns
    /\ elf' = UpdateShstrndx(elf, elf.scn[id].index)
    /\ Call("update_shstrndx", TRUE)
    /\ UNCHANGED <<state, heap, file, owed>>

Newscn ==
    /\ Open /\ Len(elf.scns) < MaxScns
    /\ elf.readable => elf.ehdr          \* ElfCook has come first
    /\ elf' = IF elf.ehdr THEN BuildScn(elf) ELSE elf
    /\ Grows(elf') /\ Call("newscn", elf.ehdr)
    /\ UNCHANGED <<state, file, owed>>

Newdata(id, d) ==
    LET ok == elf.scn[id].index # 0
    IN  /\ Open /\ id \in Scns /\ Len(elf.scn[id].data) < 2
        /\ elf' = IF ok THEN NewData(elf, id, d) ELSE elf
        /\ heap' = heap \cup (IF ok THEN {<<id, Len(elf.scn[id].data) + 1>>} ELSE {})
        /\ Call("newdata", ok)
        /\ UNCHANGED <<state, file, owed>>

(* gelf_update_shdr() does not mark the header, elf_flagshdr() does. *)
UpdateShdr(id, h) ==
    /\ Open /\ id \in Scns /\ elf.scn[id].index # 0
    /\ elf' = [elf EXCEPT !.scn[id].type = h.type, !.scn[id].link = h.link,
                          !.scn[id].info = h.info, !.scn[id].offset = h.offset,
                          !.scn[id].size = h.size]
    /\ owed' = TRUE
    /\ Call("update_shdr", TRUE)
    /\ UNCHANGED <<state, heap, file>>

Flagelf(cmd, flag) ==
    /\ Open
    /\ elf' = [elf EXCEPT !.flags = IF cmd = "set" THEN @ \cup {flag} ELSE @ \ {flag}]
    /\ owed' = (owed \/ (cmd = "clr" /\ "dirty" \in elf.flags))
    /\ Call("flagelf", TRUE)
    /\ UNCHANGED <<state, heap, file>>

(* elf_delscn() and elfx_movscn() mark nothing. *)
ElfDelscn(id) ==
    LET ok == id # elf.scns[1]
    IN  /\ Open /\ id \in Scns
        /\ elf' = IF ok THEN Delscn(elf, id) ELSE elf
        /\ heap' = IF ok THEN heap \ OfScn(elf, id) ELSE heap
        /\ owed' = (owed \/ ok)
        /\ Call("delscn", ok)
        /\ UNCHANGED <<state, file>>

ElfxRemscn(id) ==
    LET ok == id # elf.scns[1]
    IN  /\ Open /\ id \in Scns
        /\ elf' = IF ok THEN Remscn(elf, id) ELSE elf
        /\ heap' = IF ok THEN heap \ OfScn(elf, id) ELSE heap
        /\ Call("remscn", ok)
        /\ UNCHANGED <<state, file, owed>>

ElfxMovscn(id, after) ==
    LET ok == id # elf.scns[1]
    IN  /\ Open /\ id \in Scns /\ after \in Scns
        /\ elf' = IF ok THEN Movscn(elf, id, after) ELSE elf
        /\ owed' = (owed \/ elf' # elf)
        /\ Call("movscn", ok)
        /\ UNCHANGED <<state, heap, file>>

(* elf_update(elf, ELF_C_NULL) *)
UpdateNull ==
    /\ Open
    /\ elf' = IF elf.ehdr THEN Layout(elf).elf ELSE elf
    /\ Call("update_null", elf.ehdr /\ Layout(elf).ok)
    /\ UNCHANGED <<state, heap, file, owed>>

(* Mutant: what is dirty is forgotten before a buffer is found to be NULL. *)
UpdateWrite_forgets ==
    LET laid  == Layout(elf)
        ok    == elf.ehdr /\ laid.ok
        dirty == ok /\ Dirty(laid.elf)
        done  == dirty /\ ~NullBuf(laid.elf)
    IN  /\ Open
        /\ elf' = IF dirty THEN Clean(laid.elf, laid.len) ELSE IF elf.ehdr THEN laid.elf ELSE elf
        /\ file' = IF done THEN Output(Image(laid.elf, laid.len)) ELSE file
        /\ owed' = (owed /\ ~done)
        /\ Call("update_write", done \/ (ok /\ ~dirty))
        /\ UNCHANGED <<state, heap>>

(***************************************************************************)
(* elf_update(elf, ELF_C_WRITE).  No header, a layout that fails, a buffer *)
(* that is NULL: nothing is written.  Nothing is written either, and that  *)
(* is a success, when nothing is dirty.                                    *)
(***************************************************************************)
UpdateWrite ==
    LET laid == Layout(elf)
        ok   == elf.ehdr /\ laid.ok
    IN  /\ Open
        /\ IF ok /\ Dirty(laid.elf) /\ ~NullBuf(laid.elf)
           THEN /\ elf' = Clean(laid.elf, laid.len)
                /\ \/ /\ file' = Output(Image(laid.elf, laid.len))
                      /\ owed' = FALSE /\ Call("update_write", TRUE)
                   \/ /\ file' = [file EXCEPT !.torn = TRUE]           \* xwrite() fails
                      /\ owed' = TRUE /\ Call("update_write", FALSE)
           ELSE /\ elf' = IF elf.ehdr THEN laid.elf ELSE elf
                /\ Call("update_write", ok /\ ~Dirty(laid.elf))
                /\ UNCHANGED <<file, owed>>
        /\ UNCHANGED <<state, heap>>

(* elf_end() of the last reference. *)
ElfEnd ==
    LET f == FreeScns(elf, heap)
    IN  /\ Open
        /\ elf' = InitElf(32) /\ heap' = f.heap
        /\ state' = IF f.faults THEN "undefined" ELSE "none"
        /\ owed' = FALSE
        /\ Call("end", TRUE)
        /\ UNCHANGED file

Next ==
    \/ BeginRdwr \/ ElfCook \/ Newehdr \/ Newscn \/ UpdateNull \/ UpdateWrite \/ ElfEnd
    \/ \E class \in {32, 64} : BeginWrite(class)
    \/ \E count \in PhdrCounts : Newphdr(count)
    \/ \E op \in FlagOps : Flagelf(op[1], op[2])
    \/ \E id \in Scns :
           \/ ElfDelscn(id) \/ ElfxRemscn(id) \/ ShstrndxTo(id)
           \/ \E d \in Buffers : Newdata(id, d)
           \/ \E h \in Headers : UpdateShdr(id, h)
           \/ \E after \in Scns : ElfxMovscn(id, after)

(* The program may stop at any time, and does so when its plan is done. *)
Spec == Init /\ [][Next]_vars
=============================================================================
