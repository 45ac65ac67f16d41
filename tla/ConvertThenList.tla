--------------------------- MODULE ConvertThenList ---------------------------
(***************************************************************************)
(* Two runs of the program: one converts an ELF file with -c, the next     *)
(* lists or disassembles the overlay written, with the same -A.  All that  *)
(* they share is the file.                                                 *)
(***************************************************************************)
EXTENDS NovlConvProperties

VARIABLES mode, which, reached, outcome, heap, ovl, part, index, address, printed

(* The file the conversion has left, as the loader sees it. *)
Output == [exists |-> out \in {"written", "cut"}, words |-> FileWords]

Lister == INSTANCE OvlLoadProperties
          WITH disk <- <<Output>>, Disks <- {}, at <- reached, sec <- part, n <- index

listVars == <<mode, which, reached, outcome, heap, ovl, part, index, address, printed>>

TwoRunsInit ==
    /\ Init
    /\ mode = "none" /\ which = 1 /\ reached = "waiting" /\ outcome = "running"
    /\ heap = {} /\ ovl = Lister!NoOvl /\ part = 0 /\ index = 0 /\ address = 0
    /\ printed = <<>>

Convert == Next /\ UNCHANGED listVars

StartListing ==
    /\ pc = "exit" /\ status = "ok" /\ reached = "waiting"
    /\ mode' \in Lister!Modes
    /\ reached' = "open"
    /\ UNCHANGED <<which, outcome, heap, ovl, part, index, address, printed>>
    /\ UNCHANGED vars

List == reached # "waiting" /\ UNCHANGED vars /\ Lister!Next

TwoRuns == TwoRunsInit /\ [][Convert \/ StartListing \/ List]_<<vars, listVars>>

(* A conversion keeps running while it has something left to do. *)
FairTwoRuns == TwoRuns /\ WF_<<vars, listVars>>(Convert)

-----------------------------------------------------------------------------
Finished(m) == outcome = "ok" /\ mode = m

(* The rows expected, from the state of the conversion. *)
SectionRow(s) == <<ovl_starts[s], sizes[s]>>

RelocationRow(r) ==
    LET s == OVL_RELOC_GET_SEC(r)
        a == ovl_starts[s] + OVL_RELOC_GET_ADDR(r)
    IN  <<a, s, OVL_RELOC_GET_TYPE(r), WordAt(a - base_addr)>>

CodeRows(s) ==
    [q \in 1 .. (sizes[s] \div 4) |->
        <<ovl_starts[s] + 4 * (q - 1), SectionImage(s)[q]>>]

(* What has been converted can be loaded: the second run ends badly only when the
   file cannot be read.  Listings show the sections where the converter has put
   them, the entries of the table it has made with the relocated words, and every
   word of the image at the address it will have: both programs' ideas of an
   address agree (novl-conv.c:377-399, overlay.c:114-208). *)
ListsWhatWasConverted ==
    out = "written" /\ Placed /\ FitsInts =>
        /\ reached # "undefined" /\ (reached = "header" => ~Lister!NotAnOverlay)
        /\ Finished("sections") =>
              \A s \in {TEXT, DATA, RODATA} : printed[s + 1] = SectionRow(s)
        /\ Finished("relocations") =>
              printed = [q \in 1 .. Len(ninty_relocs) |-> RelocationRow(ninty_relocs[q])]
        /\ Finished("text") => printed = CodeRows(TEXT)
        /\ Finished("all")  => printed = CodeRows(TEXT) \o CodeRows(DATA) \o CodeRows(RODATA)

=============================================================================
