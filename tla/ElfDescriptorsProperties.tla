----------------------- MODULE ElfDescriptorsProperties -----------------------
(* What descriptors of src/libelf that share an archive keep to, whatever the program
   calls, in whatever order. *)
EXTENDS ElfDescriptors

(* struct Elf, with what INIT_ELF leaves open. *)
Descriptor ==
    [fd : Nat, kind : {"none", "elf", "ar"}, size : Nat, base : Nat, count : Nat \ {0},
     parent : {Null} \cup Ids, next : Nat, off : Nat, members : Seq(Ids), syms : BOOLEAN,
     readable : BOOLEAN, writable : BOOLEAN, disabled : BOOLEAN, memory : BOOLEAN,
     raw : {"none", "data", "own"}, cooked : BOOLEAN, ehdr : BOOLEAN, tables : BOOLEAN,
     loaded : BOOLEAN]

(* Every descriptor is a struct Elf, its archive is live, and data is there with the
   tables that lead to it only; the program holds references to live descriptors
   (begin.c, end.c, cook.c:462-478). *)
DescriptorsTypeOK ==
    /\ file \in Files /\ Live \subseteq Ids
    /\ elf \in [Live -> Descriptor]
    /\ refs \in [Ids -> Nat] /\ \A id \in Ids : refs[id] > 0 => id \in Live
    /\ \A id \in Live :
           /\ elf[id].parent \in {Null} \cup Live
           /\ (elf[id].loaded => elf[id].tables) /\ (elf[id].tables => elf[id].ehdr)

(***************************************************************************)
(* e_count is the references there are: the program's and, for an archive, *)
(* one from each open member (begin.c:361-364, end.c:84-98).  So no member *)
(* outlives its archive, whichever of the two the program ends first, and  *)
(* a descriptor is there as long as somebody uses it.                      *)
(***************************************************************************)
CountsReferences ==
    \A id \in Live :
        /\ elf[id].count = refs[id] + Len(elf[id].members)
        /\ Range(elf[id].members) = {m \in Live : elf[m].parent = id}
        /\ IsInjective(elf[id].members)

(* A member that is asked for twice is one descriptor (begin.c:299-313): what one part of
   the program reads of it or does to it, the other sees. *)
OneDescriptorPerMember ==
    \A a, b \in Live :
        elf[a].parent # Null /\ elf[a].parent = elf[b].parent /\ elf[a].base = elf[b].base
            => a = b

(***************************************************************************)
(* elf_end() frees what the calls on a descriptor allocated, each piece    *)
(* once, and nothing that another descriptor uses (end.c:101-117): all     *)
(* that is left belongs to a live descriptor, which has it.  The exception *)
(* is the member header that elf_begin() loses when it cannot allocate the *)
(* descriptor (begin.c:277-280).                                           *)
(***************************************************************************)
NothingLeaks ==
    /\ heap \ {<<Null, "arhdr">>} = UNION {FreedOf(id) : id \in Live}
    /\ ~faults

(* After elf_cntl() has disabled an archive, none of its members, those opened later
   included, uses the file descriptor (cntl.c:48-69, begin.c:358, input.c:62): the
   program may close it. *)
DisabledTogether ==
    \A id \in Live :
        elf[id].parent # Null /\ elf[elf[id].parent].disabled => elf[id].disabled

(* The descriptor whose image a descriptor uses. *)
Root[id \in Live] == IF elf[id].parent = Null THEN id ELSE Root[elf[id].parent]

(***************************************************************************)
(* What elf_rawfile() returned holds the bytes of the file for good        *)
(* (rawfile.c:42-52): as long as a descriptor's raw data is an image, no   *)
(* call translates anything in that image, be it the descriptor's own or   *)
(* the one that the members of an archive share (getdata.c:68-87).         *)
(***************************************************************************)
RawIsRaw ==
    \A a, b \in Live : elf[a].raw = "data" /\ Root[a] = Root[b] => ~elf[b].cooked

(***************************************************************************)
(* An open member lies inside its archive, and elf_getaroff() of it is the *)
(* place that elf_rand() takes for elf_begin() to open it again, the same  *)
(* descriptor (getaroff.c:38-39, rand.c:35-40): whatever was called since. *)
(***************************************************************************)
AroffLeadsBack ==
    \A id \in Live : elf[id].parent # Null =>
        LET m == elf[id]
            r == [elf[m.parent] EXCEPT !.off = Aroff(m)]
        IN  /\ m.base + m.size <= r.base + r.size
            /\ Arhdr(r) = "none"
            /\ Opened(m.parent, r.base + r.off + ArHdr) = id
=============================================================================
