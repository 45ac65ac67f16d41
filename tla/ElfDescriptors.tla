---------------------------- MODULE ElfDescriptors ----------------------------
(***************************************************************************)
(* src/libelf: descriptors of files and of the members of archives, from   *)
(* elf_begin() and elf_memory() to elf_end(), and what they share.  An     *)
(* archive's members are descriptors that count as references to it and    *)
(* use its image; elf_begin() on an archive opens the member at e_off,     *)
(* which elf_begin(), elf_next() and elf_rand() move.                      *)
(*                                                                         *)
(* There is one file.  Of an ELF file only what can go wrong is kept: its  *)
(* header and tables can be read or not (_elf_cook()), and so can the data *)
(* of its one section.  elf_version() has been called.                     *)
(***************************************************************************)
EXTENDS Integers, FiniteSets, SequencesExt

CONSTANTS
    Files,        \* the files there may be, see Archive below
    Offsets,      \* what a program may give to elf_rand()
    Fds,          \* file descriptors; the file is opened with the least one
    MaxElfs,      \* bound: descriptors at a time
    MaxRefs       \* bound: references at a time

Null == 0
Ids == 1 .. MaxElfs

ASSUME BoundsAssumption ==
    MaxElfs \in Nat /\ MaxRefs \in Nat /\ Fds \subseteq Nat /\ Fds # {} /\ Offsets \subseteq Nat

(***************************************************************************)
(* A file is [size, hdrs, at].  hdrs: the archive headers in it, by their  *)
(* place: name is "plain", "symbols" ("/ "), "strings" ("//"), "long"      *)
(* (found in the string table), "lost" (not found there) or "odd"; num     *)
(* says that its numbers are well-formed.  at: what begins at a place, its *)
(* kind; of an ELF file, cooks: how far it can be read ("nothing",         *)
(* "header", "sections" too, or "all"), and loads: so can its data; of an  *)
(* archive, syms: the offsets in its symbol table, <<>> when that is not   *)
(* valid.                                                                  *)
(***************************************************************************)
ASSUME FilesAssumption ==
    \A f \in Files :
        /\ f.size \in Nat
        /\ \A off \in DOMAIN f.hdrs : f.hdrs[off].size \in Nat
        /\ \A off \in DOMAIN f.at : f.at[off].kind \in {"elf", "ar"}

VARIABLES
    file,
    elf,          \* the descriptors, by where they are stored
    heap,         \* live allocations, <<id, what>>; a member header nobody has: id Null
    refs,         \* how many references the program holds
    faults        \* something was freed that was not allocated

vars == <<file, elf, heap, refs, faults>>

SARMAG == 8
EI_NIDENT == 16
ArHdr == 60            \* sizeof(struct ar_hdr)

(* INIT_ELF.  raw: e_rawdata is NULL, e_data or a copy of its own ("none", "data",
   "own"); cooked: e_data was modified; syms: e_symtab has been translated
   (e_free_syms); tables: the section headers were read; loaded: so was the
   data of the section. *)
InitElf == [fd |-> Null, kind |-> "none", size |-> 0, base |-> 0, count |-> 1, parent |-> Null,
            next |-> 0, off |-> 0, members |-> <<>>, syms |-> FALSE, readable |-> FALSE,
            writable |-> FALSE, disabled |-> FALSE, memory |-> FALSE, raw |-> "none",
            cooked |-> FALSE, ehdr |-> FALSE, tables |-> FALSE, loaded |-> FALSE]

Live == DOMAIN elf

(* malloc(): an address may be used again as soon as it is free. *)
Room == Ids \ Live # {}
Fresh == CHOOSE id \in Ids \ Live : TRUE

With(id, d) == [i \in Live \cup {id} |-> IF i = id THEN d ELSE elf[i]]

-----------------------------------------------------------------------------
(* The header at off of the archive d, and whether all of it is there. *)
HdrAt(d, off) == file.hdrs[d.base + off]
HasHdr(d, off) == off + ArHdr <= d.size /\ d.base + off \in DOMAIN file.hdrs

(* The first member that _elf_init_ar() goes past to find the string table at off or
   behind: it ends at the first that is not special. *)
Stops(d, off) ==
    \/ ~HasHdr(d, off)
    \/ HdrAt(d, off).name \notin {"symbols", "strings"}
    \/ ~HdrAt(d, off).num \/ HdrAt(d, off).size = 0
    \/ off + ArHdr + HdrAt(d, off).size > d.size

Behind(off, size) == off + ArHdr + size + (size % 2)

(* _elf_init_ar(): is there a string table (e_strtab), and a symbol table (e_symtab)? *)
Special(d) ==
    LET find[off \in Nat] ==
            IF Stops(d, off) THEN [strtab |-> FALSE, symtab |-> FALSE]
            ELSE IF HdrAt(d, off).name = "strings" THEN [strtab |-> TRUE, symtab |-> FALSE]
            ELSE [find[Behind(off, HdrAt(d, off).size)] EXCEPT !.symtab = TRUE]
    IN  find[SARMAG]

(* Mutant: the data may end anywhere, when the header is inside. *)
Arhdr_unchecked(d) ==
    IF d.off = d.size THEN "end"
    ELSE IF d.off > d.size THEN "OUTSIDE"
    ELSE IF d.off + ArHdr > d.size THEN "TRUNC_ARHDR"
    ELSE IF ~HasHdr(d, d.off) THEN "ARFMAG"
    ELSE "none"

(* _elf_arhdr(): "none" when the member at e_off may be opened, or why not. *)
Arhdr(d) ==
    IF d.off = d.size THEN "end"                      \* no error
    ELSE IF d.off > d.size THEN "OUTSIDE"
    ELSE IF d.off + ArHdr > d.size THEN "TRUNC_ARHDR"
    ELSE IF ~HasHdr(d, d.off) THEN "ARFMAG"
    ELSE LET hdr == HdrAt(d, d.off)
         IN  IF hdr.name = "odd" THEN "ARSPECIAL"
             ELSE IF hdr.name = "lost" \/ (hdr.name = "long" /\ ~Special(d).strtab)
             THEN "ARSTRTAB"
             ELSE IF ~hdr.num THEN "ARHDR"
             ELSE IF d.off + ArHdr + hdr.size > d.size THEN "TRUNC_MEMBER"
             ELSE "none"

(* _elf_check_type(): what does not fit in begins there for nobody. *)
CheckType(d) ==
    LET Begins(kind, least) ==
            d.size >= least /\ d.base \in DOMAIN file.at /\ file.at[d.base].kind = kind
        kind == IF Begins("elf", EI_NIDENT) THEN "elf"
                ELSE IF Begins("ar", SARMAG) THEN "ar" ELSE "none"
    IN  [d EXCEPT !.kind = kind, !.off = IF kind = "ar" THEN SARMAG ELSE 0]

-----------------------------------------------------------------------------
Same == UNCHANGED vars

(* A call on a descriptor the program holds. *)
Held(id) == id \in Live /\ refs[id] > 0

Total == FoldFunction(LAMBDA a, b : a + b, 0, refs)
Spare == Total < MaxRefs

Init ==
    /\ file \in Files
    /\ elf = [id \in {} |-> InitElf] /\ heap = {} /\ refs = [id \in Ids |-> 0]
    /\ faults = FALSE

(* Bound: the program opens the file itself once at a time.  Two descriptors of a file
   share nothing. *)
Closed == Live = {}

(* A descriptor the program gets for the first time. *)
Begun(d, pieces) ==
    /\ Room
    /\ elf' = With(Fresh, CheckType(d))
    /\ heap' = heap \cup ({Fresh} \X pieces)
    /\ refs' = [refs EXCEPT ![Fresh] = 1]
    /\ UNCHANGED <<file, faults>>

(* elf_begin() without a descriptor to refer to: the file is read. *)
BeginFile(fd, cmd) ==
    LET d == [InitElf EXCEPT !.fd = fd, !.size = file.size, !.readable = TRUE,
                             !.writable = (cmd = "RDWR")]
    IN  /\ Closed /\ Spare
        /\ Begun(d, {"elf"} \cup IF file.size > 0 THEN {"data"} ELSE {})

(* elf_begin(fd, ELF_C_WRITE, ref): ref does not matter, nor what the file has. *)
BeginNew(fd) ==
    /\ Closed /\ Spare /\ Room
    /\ elf' = With(Fresh, [InitElf EXCEPT !.fd = fd, !.writable = TRUE])
    /\ heap' = heap \cup {<<Fresh, "elf">>}
    /\ refs' = [refs EXCEPT ![Fresh] = 1]
    /\ UNCHANGED <<file, faults>>

(* elf_memory(): the image is the program's own. *)
ElfMemory ==
    LET d == [InitElf EXCEPT !.size = file.size, !.readable = TRUE, !.disabled = TRUE,
                             !.memory = TRUE, !.raw = "data"]
    IN  /\ Closed /\ Spare /\ file.size > 0
        /\ Begun(d, {"elf"})

(* Why elf_begin(fd, cmd, ref) fails, "none" when it does not. *)
Refusal(fd, cmd, r) ==
    IF ~r.readable \/ (cmd = "RDWR" /\ ~r.writable) THEN "CMDMISMATCH"
    ELSE IF r.kind # "ar" THEN "none"
    ELSE IF cmd = "RDWR" THEN "MEMBERWRITE"
    ELSE IF ~r.memory /\ fd # r.fd THEN "FDMISMATCH"
    ELSE Arhdr(r)

(* Another reference to the same descriptor, when that is not an archive. *)
BeginSame(fd, cmd, ref) ==
    /\ Held(ref) /\ Spare /\ elf[ref].kind # "ar" /\ Refusal(fd, cmd, elf[ref]) = "none"
    /\ elf' = [elf EXCEPT ![ref].count = @ + 1]
    /\ refs' = [refs EXCEPT ![ref] = @ + 1]
    /\ UNCHANGED <<file, heap, faults>>

BeginRefused(fd, cmd, ref) ==
    /\ Held(ref) /\ Refusal(fd, cmd, elf[ref]) # "none"
    /\ Same

(* Mutant: the list of open members is not looked at. *)
Opened_none(ref, base) == Null

(* The descriptor the member at base has already. *)
Opened(ref, base) ==
    LET same == {m \in Range(elf[ref].members) : elf[m].base = base}
    IN  IF same = {} THEN Null ELSE CHOOSE m \in same : TRUE

(* Mutant: the new reference is not counted. *)
BeginAgain_uncounted(fd, ref) ==
    LET r  == elf[ref]
        id == Opened(ref, r.base + r.off + ArHdr)
    IN  /\ Held(ref) /\ Spare /\ r.kind = "ar" /\ Refusal(fd, "READ", r) = "none" /\ id # Null
        /\ refs' = [refs EXCEPT ![id] = @ + 1]
        /\ UNCHANGED <<file, elf, heap, faults>>

(* The member that is open already: e_off stays where it is. *)
BeginAgain(fd, ref) ==
    LET r  == elf[ref]
        id == Opened(ref, r.base + r.off + ArHdr)
    IN  /\ Held(ref) /\ Spare /\ r.kind = "ar" /\ Refusal(fd, "READ", r) = "none" /\ id # Null
        /\ elf' = [elf EXCEPT ![id].count = @ + 1]
        /\ refs' = [refs EXCEPT ![id] = @ + 1]
        /\ UNCHANGED <<file, heap, faults>>

(* Mutant: the member's data may be translated in place. *)
Frozen_not(d) == d

(* Members may be misaligned: they are frozen, and get buffers of their own. *)
Frozen(d) == IF d.size = 0 THEN d ELSE [d EXCEPT !.raw = "data"]

(* The descriptor of the member at e_off of the archive r. *)
MemberOf(ref, fd) ==
    LET r    == elf[ref]
        size == HdrAt(r, r.off).size
        d    == [InitElf EXCEPT
                    !.fd = IF r.memory THEN r.fd ELSE fd, !.parent = ref, !.size = size,
                    !.base = r.base + r.off + ArHdr, !.readable = TRUE,
                    !.next = Behind(r.off, size), !.disabled = r.disabled,
                    !.memory = r.memory]
    IN  CheckType(Frozen(d))

(* A member opened: its archive counts it, and goes on to the next. *)
BeginMember(fd, ref) ==
    LET r == elf[ref]
        d == MemberOf(ref, fd)
    IN  /\ Held(ref) /\ Spare /\ Room /\ r.kind = "ar" /\ Refusal(fd, "READ", r) = "none"
        /\ Opened(ref, d.base) = Null
        /\ elf' = [With(Fresh, d) EXCEPT ![ref].members = <<Fresh>> \o @, ![ref].count = @ + 1,
                                         ![ref].off = d.next]
        /\ heap' = heap \cup {<<Fresh, "elf">>, <<Fresh, "arhdr">>}
        /\ refs' = [refs EXCEPT ![Fresh] = 1]
        /\ UNCHANGED <<file, faults>>

(* No memory for a descriptor: the header of the member it was for is lost. *)
BeginNoMemory(fd, ref) ==
    /\ Held(ref) /\ elf[ref].kind = "ar" /\ Refusal(fd, "READ", elf[ref]) = "none"
    /\ heap' = heap \cup {<<Null, "arhdr">>}
    /\ UNCHANGED <<file, elf, refs, faults>>

ElfBegin(fd, cmd, ref) ==
    \/ BeginSame(fd, cmd, ref) \/ BeginRefused(fd, cmd, ref)
    \/ cmd = "READ" /\ (BeginAgain(fd, ref) \/ BeginMember(fd, ref) \/ BeginNoMemory(fd, ref))

-----------------------------------------------------------------------------
(* Mutant: the image given to elf_memory() is freed. *)
FreedOf_image(id) ==
    LET d == elf[id]
        When(cond, what) == IF cond THEN {<<id, what>>} ELSE {}
    IN  {<<id, "elf">>}
        \cup When(d.parent # Null, "arhdr")
        \cup When(d.parent = Null /\ d.readable /\ d.size > 0, "data")
        \cup When(d.ehdr, "ehdr") \cup When(d.tables, "scns")
        \cup When(d.loaded /\ ~d.cooked, "buffer")
        \cup When(d.raw = "own", "raw") \cup When(d.syms, "syms")

(* What elf_end() frees of a descriptor. *)
FreedOf(id) ==
    LET d == elf[id]
        When(cond, what) == IF cond THEN {<<id, what>>} ELSE {}
    IN  {<<id, "elf">>}
        \cup When(d.parent # Null, "arhdr")
        \cup When(d.parent = Null /\ ~d.memory /\ d.readable /\ d.size > 0, "data")
        \cup When(d.ehdr, "ehdr") \cup When(d.tables, "scns")
        \cup When(d.loaded /\ ~d.cooked, "buffer")
        \cup When(d.raw = "own", "raw") \cup When(d.syms, "syms")

(* Mutant: a member does not give its reference to the archive back. *)
Ending_alone(id) == {id}

(* The descriptors whose count goes down: a member that ends takes one off its
   archive, which may end in turn.  It is the least set that has id and, with one
   that ends, its archive. *)
Ending(id) ==
    LET Carries(S) == \A i \in S : elf[i].count = 1 /\ elf[i].parent # Null
                                      => elf[i].parent \in S
    IN  {i \in Live : \A S \in SUBSET Live : id \in S /\ Carries(S) => i \in S}

(* The list of open members without the one that is gone: there is one at most. *)
Unlinked(members, gone) ==
    IF Range(members) \cap gone = {} THEN members
    ELSE RemoveAt(members, CHOOSE k \in DOMAIN members : members[k] \in gone)

(* elf_end() *)
ElfEnd(id) ==
    LET ending == Ending(id)
        gone   == {i \in ending : elf[i].count = 1}
        freed  == UNION {FreedOf(i) : i \in gone}
    IN  /\ Held(id)
        /\ elf' = [i \in Live \ gone |->
               IF i \in ending
               THEN [elf[i] EXCEPT !.count = @ - 1, !.members = Unlinked(@, gone)]
               ELSE elf[i]]
        /\ heap' = heap \ freed
        /\ refs' = [refs EXCEPT ![id] = @ - 1]
        /\ faults' = (faults \/ ~(freed \subseteq heap))
        /\ UNCHANGED file

(* What elf_next() returns: ELF_C_NULL ends a loop over the members. *)
NextCmd(d) ==
    IF d.parent = Null \/ d.next = elf[d.parent].size THEN "NULL" ELSE "READ"

(* Mutant: the archive is left where elf_begin() put it. *)
ElfNext_stays(id) == Held(id) /\ Same

(* elf_next() *)
ElfNext(id) ==
    /\ Held(id)
    /\ elf' = IF elf[id].parent = Null THEN elf
              ELSE [elf EXCEPT ![elf[id].parent].off = elf[id].next]
    /\ UNCHANGED <<file, heap, refs, faults>>

(* elf_rand() *)
ElfRand(id, offset) ==
    LET ok == elf[id].kind = "ar" /\ offset # 0 /\ offset <= elf[id].size
    IN  /\ Held(id)
        /\ elf' = IF ok THEN [elf EXCEPT ![id].off = offset] ELSE elf
        /\ UNCHANGED <<file, heap, refs, faults>>

(* elf_getaroff() *)
Aroff(d) == d.base - elf[d.parent].base - ArHdr

-----------------------------------------------------------------------------
(* Mutant: the tables are looked for before the header. *)
Cooked_tables(d) ==
    LET cooks == file.at[d.base].cooks
    IN  IF d.ehdr THEN [d |-> d, ok |-> TRUE]
        ELSE [d |-> [d EXCEPT !.tables = (cooks # "nothing"), !.ehdr = (cooks = "all")],
              ok |-> cooks = "all"]

(* _elf_cook(): what was read is kept when the rest, the section headers or the program
   headers after them, cannot be read. *)
Cooked(d) ==
    LET cooks == file.at[d.base].cooks
    IN  IF d.ehdr THEN [d |-> d, ok |-> TRUE]
        ELSE [d |-> [d EXCEPT !.ehdr = (cooks # "nothing"),
                              !.tables = (cooks \in {"all", "sections"})],
              ok |-> cooks = "all"]

(* elf_getdata() of the section, which is translated where it is unless the image has
   to be kept as it is. *)
DataRead(d) ==
    IF ~d.tables \/ d.loaded THEN [d |-> d, ok |-> TRUE]
    ELSE [d |-> IF file.at[d.base].loads
                THEN [d EXCEPT !.loaded = TRUE, !.cooked = (@ \/ d.raw # "data")] ELSE d,
          ok |-> file.at[d.base].loads]

AllRead(d) == LET c == Cooked(d) IN IF c.ok THEN DataRead(c.d) ELSE c

(* What cooking and reading allocate. *)
Pieces(id, d) ==
    LET When(cond, what) == IF cond THEN {<<id, what>>} ELSE {}
    IN  When(d.ehdr, "ehdr") \cup When(d.tables, "scns")
        \cup When(d.loaded /\ ~d.cooked, "buffer")

(* Mutant: the open members of an archive are forgotten. *)
Disabling_alone(id, cmd) == [reached |-> {id}, disabled |-> {id}, ok |-> TRUE]

(* The descriptors elf_cntl() comes to, those it disables, and whether it succeeds:
   the members of an archive first, up to one that fails. *)
Disabling(id, cmd) ==
    LET none == [reached |-> {}, disabled |-> {}, ok |-> TRUE]
        visit[i \in Live] ==
            LET d == elf[i]
                member(acc, m) ==
                    IF ~acc.ok THEN acc
                    ELSE [reached  |-> acc.reached \cup visit[m].reached,
                          disabled |-> acc.disabled \cup visit[m].disabled,
                          ok       |-> visit[m].ok]
                below == FoldLeft(member, none, d.members)
                ok == IF d.kind = "elf" /\ cmd = "FDREAD" THEN AllRead(d).ok ELSE below.ok
            IN  IF d.disabled THEN none
                ELSE [reached  |-> below.reached \cup {i},
                      disabled |-> below.disabled \cup (IF ok THEN {i} ELSE {}),
                      ok       |-> ok]
    IN  visit[id]

(* elf_cntl() *)
ElfCntl(id, cmd) ==
    LET result  == Disabling(id, cmd)
        Read(d) == IF d.kind = "elf" /\ cmd = "FDREAD" THEN AllRead(d).d ELSE d
    IN  /\ Held(id) /\ (cmd = "FDREAD" => elf[id].readable)
        /\ elf' = [i \in Live |->
               IF i \in result.reached
               THEN [Read(elf[i]) EXCEPT !.disabled = @ \/ i \in result.disabled]
               ELSE elf[i]]
        /\ heap' = heap \cup UNION {Pieces(i, elf'[i]) : i \in Live \cap result.reached}
        /\ UNCHANGED <<file, refs, faults>>

(* elf_getident() of an ELF file *)
ElfGetident(id) ==
    LET d == Cooked(elf[id]).d
    IN  /\ Held(id) /\ elf[id].kind = "elf"
        /\ elf' = [elf EXCEPT ![id] = d] /\ heap' = heap \cup Pieces(id, d)
        /\ UNCHANGED <<file, refs, faults>>

(* The program reads the sections of an ELF file. *)
ElfGetdata(id) ==
    LET d == AllRead(elf[id]).d
    IN  /\ Held(id) /\ elf[id].kind = "elf"
        /\ elf' = [elf EXCEPT ![id] = d] /\ heap' = heap \cup Pieces(id, d)
        /\ UNCHANGED <<file, refs, faults>>

(* _elf_read(), which needs the file descriptor; I/O itself does not fail. *)
CanRead(d) == ~d.disabled

(* Where elf_rawfile() takes the file's bytes from. *)
RawFrom(d) ==
    IF d.raw # "none" THEN d.raw
    ELSE IF ~d.cooked THEN "data"
    ELSE IF CanRead(d) THEN "own" ELSE "none"

(* elf_rawfile(): the file is read again when the image was modified. *)
ElfRawfile(id) ==
    LET d == elf[id]
    IN  /\ Held(id) /\ d.readable /\ d.size > 0
        /\ elf' = [elf EXCEPT ![id].raw = RawFrom(d)]
        /\ heap' = heap \cup IF RawFrom(d) = "own" THEN {<<id, "raw">>} ELSE {}
        /\ UNCHANGED <<file, refs, faults>>

(* elf_getarsym(): the table is translated once. *)
ElfGetarsym(id) ==
    /\ Held(id) /\ elf[id].kind = "ar" /\ Special(elf[id]).symtab
    /\ file.at[elf[id].base].syms # <<>>
    /\ elf' = [elf EXCEPT ![id].syms = TRUE] /\ heap' = heap \cup {<<id, "syms">>}
    /\ UNCHANGED <<file, refs, faults>>

Commands == {"READ", "RDWR"}

FirstFd == CHOOSE fd \in Fds : TRUE

Next ==
    \/ ElfMemory \/ BeginNew(FirstFd)
    \/ \E cmd \in Commands : BeginFile(FirstFd, cmd)
    \/ \E id \in Live :
           \/ \E fd \in Fds, cmd \in Commands : ElfBegin(fd, cmd, id)
           \/ \E offset \in Offsets : ElfRand(id, offset)
           \/ \E cmd \in {"FDREAD", "FDDONE"} : ElfCntl(id, cmd)
           \/ ElfEnd(id) \/ ElfNext(id) \/ ElfGetident(id) \/ ElfGetdata(id)
           \/ ElfRawfile(id) \/ ElfGetarsym(id)

Spec == Init /\ [][Next]_vars
=============================================================================
