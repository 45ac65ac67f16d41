------------------------- MODULE ArchiveLoopProperties -------------------------
(* What the loop over an archive promises. *)
EXTENDS ArchiveLoop

(* The places of the members of the file, one behind the other. *)
Members ==
    LET from[off \in Nat] == IF off + ArHdr > file.size THEN <<>>
                             ELSE <<off>> \o from[Behind(off, file.hdrs[off].size)]
    IN  from[SARMAG]

(***************************************************************************)
(* The loop implements ArchiveWalk: every member once, in the archive's    *)
(* order, and an end (begin.c:97-206, next.c:37-41), though the body moves *)
(* e_off and opens and ends the same members.  It does so because          *)
(* elf_next() puts e_off behind the member it is given, and does not trust *)
(* where elf_begin() left it.                                              *)
(***************************************************************************)
Walk == INSTANCE ArchiveWalk WITH
            members <- Members, done <- (pc = "done")

WalksArchive == Walk!Spec
===============================================================================
