------------------------------- MODULE OvlLoad -------------------------------
(***************************************************************************)
(* src/src/overlay.c, and the modes of main.c that look at overlays: -l    *)
(* and -r list sections and relocations, -d and -D disassemble .text or    *)
(* the three sections with contents.  The files named on the command line  *)
(* are loaded with ovl_load(), printed, and freed with ovl_free(), one     *)
(* after the other; the first that cannot be loaded ends the process.      *)
(*                                                                         *)
(* A file is a sequence of words.  The heap is the set of allocations that *)
(* are live, each named by the number of its file and what it is for.      *)
(***************************************************************************)
EXTENDS OverlayFormat, Sequences

CONSTANTS
    Disks,        \* the files named, in order
    BaseAddrs     \* the values of -A

Modes == {"sections", "relocations", "text", "all"}

Files == [exists : BOOLEAN, words : Seq(Nat)]

ASSUME Named ==
    /\ \A d \in Disks : d \in Seq(Files) /\ d # <<>>
    /\ BaseAddrs \subseteq Words

VARIABLES
    disk,         \* the files
    mode,         \* settings.opmode
    base_addr,    \* settings.base_addr
    which,        \* number of the file in turn
    at,           \* the place reached
    outcome,      \* the exit status
    heap,         \* the live allocations
    ovl,          \* the struct ovl_t of the file in turn
    sec,          \* the loop over sections
    n,            \* the other loops
    address,      \* the address of the next word disassembled
    printed       \* the rows written to stdout

vars == <<disk, mode, base_addr, which, at, outcome, heap, ovl, sec, n, address, printed>>

Places == {"open", "header", "relocs", "sections", "print", "free", "exit", "undefined"}

(* What each allocation is for: the object, the contents of the file, the array
   of section pointers, the sections they point to, and the relocation words. *)
Uses == {"ovl", "data", "sections", "section", "relocations"}

NoOvl == [start |-> 0, sizes |-> [s \in SectionIds |-> 0], relocation_count |-> 0,
          relocations |-> <<>>, addr |-> [s \in SectionIds |-> 0], total |-> 0]

-----------------------------------------------------------------------------
words    == disk[which].words
filesize == 4 * Len(words)

(* A word read as an int. *)
Signed(w) == IF w >= Word \div 2 THEN w - Word ELSE w

(***************************************************************************)
(* ovl->data + o.  Reading outside of the contents is undefined: the       *)
(* process faults or goes on with whatever word it finds, and nothing more *)
(* is said of it.  A word read at an odd offset is a mix of two.           *)
(***************************************************************************)
Inside(o) == o >= 0 /\ o + 4 <= filesize
Mix       == -1
Data(o)   == IF o % 4 = 0 THEN words[o \div 4 + 1] ELSE Mix

Start ==
    /\ which = 1 /\ at = "open" /\ outcome = "running"
    /\ heap = {} /\ ovl = NoOvl /\ sec = 0 /\ n = 0 /\ address = 0
    /\ printed = <<>>

Init ==
    /\ disk \in Disks /\ mode \in Modes /\ base_addr \in BaseAddrs
    /\ Start

Inputs == UNCHANGED <<disk, mode, base_addr>>

Exit(how) == at' = "exit" /\ outcome' = how

Undefined == at' = "undefined" /\ outcome' = outcome

-----------------------------------------------------------------------------
(***************************************************************************)
(* ovl_load().                                                             *)
(***************************************************************************)

(* fopen() fails, or one of the first calloc() and malloc(): nothing is left
   allocated.  The later calloc()s are unchecked and taken to succeed. *)
CannotRead ==
    /\ at = "open"
    /\ Exit("failure")
    /\ Inputs /\ UNCHANGED <<which, heap, ovl, sec, n, address, printed>>

Read ==
    /\ at = "open" /\ disk[which].exists
    /\ heap' = heap \cup {<<which, "ovl">>, <<which, "data">>}
    /\ at' = "header"
    /\ Inputs /\ UNCHANGED <<which, outcome, ovl, sec, n, address, printed>>

(* How far back from the end the header is said to be. *)
Offset   == Signed(words[Len(words)])
HeaderAt == filesize - Offset

(* The only check there is. *)
NotAnOverlay_from_start == Offset >= filesize \/ Offset % 4 # 0    \* a slip: >= for >
NotAnOverlay == Offset > filesize \/ Offset % 4 # 0

(***************************************************************************)
(* The object is freed before its data: free(ovl); free(ovl->data).  What  *)
(* is read from the freed object may still be there or not.                *)
(***************************************************************************)
Refuse ==
    /\ at = "header" /\ words # <<>> /\ NotAnOverlay
    /\ \/ /\ heap' = heap \ {<<which, "ovl">>, <<which, "data">>}
          /\ Exit("failure")
       \/ /\ heap' = heap \ {<<which, "ovl">>}
          /\ Undefined
    /\ Inputs /\ UNCHANGED <<which, ovl, sec, n, address, printed>>

(* ovl_get_header() for a file that passes, and the two arrays. *)
GetHeader ==
    /\ at = "header"
    /\ words # <<>> => ~NotAnOverlay
    /\ IF words # <<>> /\ Inside(HeaderAt) /\ Inside(HeaderAt + HeaderSize - 4)
       THEN /\ ovl' = [NoOvl EXCEPT
                          !.start = HeaderAt,
                          !.sizes = [s \in SectionIds |-> Data(HeaderAt + 4 * s)],
                          !.relocation_count = Signed(Data(HeaderAt + 16))]
            /\ heap' = heap \cup {<<which, "sections">>, <<which, "relocations">>}
            /\ at' = "relocs" /\ outcome' = outcome
       ELSE Undefined /\ UNCHANGED <<ovl, heap>>
    /\ n' = 0
    /\ Inputs /\ UNCHANGED <<which, sec, address, printed>>

(* Where the n-th word of the table is, counting from 0. *)
TableAt(k) == ovl.start + HeaderSize + 4 * k

CopyRelocation ==
    /\ at = "relocs" /\ n < ovl.relocation_count
    /\ IF Inside(TableAt(n))
       THEN /\ ovl' = [ovl EXCEPT !.relocations = Append(@, Data(TableAt(n)))]
            /\ n' = n + 1
            /\ UNCHANGED <<at, outcome>>
       ELSE Undefined /\ UNCHANGED <<ovl, n>>
    /\ Inputs /\ UNCHANGED <<which, heap, sec, address, printed>>

CopyEnds ==
    /\ at = "relocs" /\ n >= ovl.relocation_count
    /\ at' = "sections" /\ sec' = 0
    /\ Inputs /\ UNCHANGED <<which, outcome, heap, ovl, n, address, printed>>

NextTotal_size_only(s) == ovl.sizes[s]    \* a slip: = for +=
NextTotal(s) == (ovl.total + ovl.sizes[s]) % Word

(* One section after the other from 0, .bss too. *)
MakeSection ==
    /\ at = "sections" /\ sec \in SectionIds
    /\ ovl' = [ovl EXCEPT !.addr[sec] = ovl.total, !.total = NextTotal(sec)]
    /\ heap' = heap \cup {<<which, "section">>}
    /\ sec' = sec + 1
    /\ Inputs /\ UNCHANGED <<which, at, outcome, n, address, printed>>

Loaded ==
    /\ at = "sections" /\ sec \notin SectionIds
    /\ at' = "print" /\ sec' = 0 /\ n' = 0 /\ address' = base_addr
    /\ Inputs /\ UNCHANGED <<which, outcome, heap, ovl, printed>>

-----------------------------------------------------------------------------
(***************************************************************************)
(* What main.c prints.                                                     *)
(***************************************************************************)
PrintFrame == Inputs /\ UNCHANGED <<which, heap, ovl>>

ListSection ==
    /\ at = "print" /\ mode = "sections" /\ sec \in SectionIds
    /\ printed' = Append(printed, <<(base_addr + ovl.addr[sec]) % Word,
                                    Signed(ovl.sizes[sec])>>)
    /\ sec' = sec + 1
    /\ UNCHANGED <<at, outcome, n, address>>
    /\ PrintFrame

(* OVL_RELOC_GET_ABS_ADDR; it is kept in an int. *)
AbsAddr(r) == Signed((ovl.addr[OVL_RELOC_GET_SEC(r)] + OVL_RELOC_GET_ADDR(r)) % Word)

ListRelocation ==
    /\ at = "print" /\ mode = "relocations" /\ n < Len(ovl.relocations)
    /\ LET r == ovl.relocations[n + 1]
       IN  IF /\ OVL_RELOC_GET_SEC(r) \in SectionIds
              /\ OVL_RELOC_GET_TYPE(r) < TypeNames
              /\ Inside(AbsAddr(r))
           THEN /\ printed' = Append(printed,
                        <<(AbsAddr(r) + base_addr) % Word, OVL_RELOC_GET_SEC(r),
                          OVL_RELOC_GET_TYPE(r), Data(AbsAddr(r))>>)
                /\ n' = n + 1
                /\ UNCHANGED <<at, outcome>>
           ELSE Undefined /\ UNCHANGED <<printed, n>>
    /\ UNCHANGED <<sec, address>>
    /\ PrintFrame

(* The sections disassembled: one, or all that have contents. *)
Shown == {s \in {TEXT, DATA, RODATA} : mode = "all" \/ (mode = "text" /\ s = TEXT)}

DisassembleWord ==
    /\ at = "print" /\ sec \in Shown /\ n < Signed(ovl.sizes[sec])
    /\ IF Inside(ovl.addr[sec] + n)
       THEN /\ printed' = Append(printed, <<address, Data(ovl.addr[sec] + n)>>)
            /\ n' = n + 4
            /\ address' = (address + 4) % Word
            /\ UNCHANGED <<at, outcome>>
       ELSE Undefined /\ UNCHANGED <<printed, n, address>>
    /\ UNCHANGED sec
    /\ PrintFrame

DisassembleNext ==
    /\ at = "print" /\ sec \in Shown /\ n >= Signed(ovl.sizes[sec])
    /\ sec' = sec + 1 /\ n' = 0
    /\ UNCHANGED <<at, outcome, address, printed>>
    /\ PrintFrame

PrintEnds ==
    /\ at = "print"
    /\ \/ mode = "sections" /\ sec \notin SectionIds
       \/ mode = "relocations" /\ n >= Len(ovl.relocations)
       \/ mode \in {"text", "all"} /\ sec \notin Shown
    /\ at' = "free"
    /\ UNCHANGED <<outcome, sec, n, address, printed>>
    /\ PrintFrame

(* ovl_free(): all but the array of section pointers. *)
Freed_object_only == {"ovl"}    \* a slip: only the object itself
Freed == {"section", "relocations", "data", "ovl"}

Free ==
    /\ at = "free"
    /\ heap' = heap \ ({which} \X Freed)
    /\ which' = which + 1
    /\ IF which < Len(disk) THEN at' = "open" /\ outcome' = outcome ELSE Exit("ok")
    /\ Inputs /\ UNCHANGED <<ovl, sec, n, address, printed>>

Ended == at \in {"exit", "undefined"} /\ UNCHANGED vars

Next ==
    \/ CannotRead \/ Read \/ Refuse \/ GetHeader
    \/ CopyRelocation \/ CopyEnds \/ MakeSection \/ Loaded
    \/ ListSection \/ ListRelocation \/ DisassembleWord \/ DisassembleNext \/ PrintEnds
    \/ Free \/ Ended

Spec == Init /\ [][Next]_vars

=============================================================================
