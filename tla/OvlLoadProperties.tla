-------------------------- MODULE OvlLoadProperties --------------------------
(***************************************************************************)
(* What the listing modes promise.  What an overlay is, is taken from the  *)
(* layout of the file alone, and what has to be printed from its words.    *)
(***************************************************************************)
EXTENDS OvlLoad, Overlays, FiniteSets, SequencesExt

(* A file named to the loader that is one. *)
Overlay(f) == f.exists /\ IsOverlay(f.words)

-----------------------------------------------------------------------------
(* What to print for the words of an overlay at a base address.  .bss has no place
   in the file: where it is listed is left to BssBehindOverlay. *)
Anywhere == -1

SectionRows(ws, base) ==
    [q \in 1 .. 4 |-> <<IF q - 1 = BSS THEN Anywhere ELSE (base + StartOf(ws, q - 1)) % Word,
                        SizeOf(ws, q - 1)>>]

RelocationRow(ws, base, r) ==
    LET o == StartOf(ws, OVL_RELOC_GET_SEC(r)) + OVL_RELOC_GET_ADDR(r)
    IN  <<(base + o) % Word, OVL_RELOC_GET_SEC(r), OVL_RELOC_GET_TYPE(r),
          IF o % 4 = 0 THEN WordOf(ws, o) ELSE Mix>>

WordRows(ws, base, bytes) ==
    [q \in 1 .. (bytes \div 4) |-> <<(base + 4 * (q - 1)) % Word, ws[q]>>]

Rows(ws, m, base) ==
    CASE m = "sections"    -> SectionRows(ws, base)
      [] m = "relocations" -> [q \in 1 .. CountOf(ws) |-> RelocationRow(ws, base, TableOf(ws)[q])]
      [] m = "text"        -> WordRows(ws, base, SizeOf(ws, TEXT))
      [] m = "all"         -> WordRows(ws, base, HeaderOf(ws))

-----------------------------------------------------------------------------
(* The rows of a listing of sections without the address in every fourth. *)
BssAnywhere(m, rows) ==
    [k \in 1 .. Len(rows) |->
        IF m = "sections" /\ k % 4 = 0 THEN <<Anywhere, rows[k][2]>> ELSE rows[k]]

(* Whatever the other files named with it are, an overlay is neither refused
   nor does reading it go outside of the file (overlay.c:106, 114-208). *)
OverlaysLoad ==
    which <= Len(disk) /\ Overlay(disk[which]) =>
        at # "undefined" /\ (at = "header" => ~NotAnOverlay)

(* A process that ends well has printed every file named, in order and in full:
   each section with its size and, but for .bss, its address, each relocation with
   its address and value, and in -d and -D every word with the address it has when
   loaded (main.c:100-129, 155-168, 197-210). *)
PrintsEverything ==
    outcome = "ok" /\ (\A k \in 1 .. Len(disk) : Overlay(disk[k])) =>
        BssAnywhere(mode, printed) =
            FlattenSeq([k \in 1 .. Len(disk) |-> Rows(disk[k].words, mode, base_addr)])

(* ".bss starts after overlay in vram" (novl-conv.c:260), which the listing
   violates: it adds up the sizes of the other three sections, as if header and
   table were not in between (overlay.c:195-208). *)
BssBehindOverlay ==
    outcome = "ok" /\ mode = "sections" /\ (\A k \in 1 .. Len(disk) : Overlay(disk[k])) =>
        \A k \in 1 .. Len(disk) :
            printed[4 * k][1] = (base_addr + 4 * Len(disk[k].words)) % Word

(* Of the files before the next one opened nothing is left on the heap but the
   array of section pointers, which ovl_free forgets (overlay.c:182, 214-228). *)
FreedInTurn ==
    at \in {"open", "exit"} /\ outcome # "failure" =>
        heap \subseteq (1 .. (which - 1)) \X {"sections"}

(* "You can use it with a simple operation mode to verify that an overlay file is
   valid" (doc/nOVL.1, RETURN VALUE): success is for overlays only. *)
AcceptsOnlyOverlays ==
    outcome = "ok" => \A k \in 1 .. Len(disk) : Overlay(disk[k])

=============================================================================
