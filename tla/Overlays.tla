------------------------------- MODULE Overlays -------------------------------
(***************************************************************************)
(* What an overlay is, of the words of a file: the sections, the header    *)
(* their sizes add up to, a table of relocations within them, and the      *)
(* distance back to the header as the last word (doc/nOVL.1, OVERLAY       *)
(* FILES).  The converter has to write one; the loader counts in ints and  *)
(* relies on it.                                                           *)
(***************************************************************************)
EXTENDS OverlayFormat, Sequences

Back(ws)        == ws[Len(ws)]
HeaderOf(ws)    == 4 * Len(ws) - Back(ws)
WordOf(ws, o)   == ws[o \div 4 + 1]
SizeOf(ws, s)   == WordOf(ws, HeaderOf(ws) + 4 * s)
CountOf(ws)     == WordOf(ws, HeaderOf(ws) + 16)
TableOf(ws)     == [q \in 1 .. CountOf(ws) |-> WordOf(ws, HeaderOf(ws) + 16 + 4 * q)]

(* A section with contents starts where the ones before it end. *)
StartOf(ws, s) ==
    LET before(q) == IF q < s THEN SizeOf(ws, q) ELSE 0
    IN  before(TEXT) + before(DATA) + before(RODATA)

HasHeader(ws) ==
    /\ ws # <<>> /\ 4 * Len(ws) < Word \div 2
    /\ Back(ws) \in (HeaderSize + FooterSize) .. (4 * Len(ws))
    /\ Back(ws) % 4 = 0

(* Behind the header, before the last word. *)
HasTable(ws) ==
    HeaderOf(ws) + HeaderSize + 4 * CountOf(ws) + FooterSize <= 4 * Len(ws)

HasSections(ws) ==
    /\ \A s \in SectionIds : SizeOf(ws, s) \in 0 .. (Word \div 2 - 1) /\ SizeOf(ws, s) % 4 = 0
    /\ SizeOf(ws, TEXT) + SizeOf(ws, DATA) + SizeOf(ws, RODATA) = HeaderOf(ws)

InSection(ws, r) ==
    /\ OVL_RELOC_GET_SEC(r) \in {TEXT, DATA, RODATA}
    /\ OVL_RELOC_GET_TYPE(r) < TypeNames
    /\ OVL_RELOC_GET_ADDR(r) + 4 <= SizeOf(ws, OVL_RELOC_GET_SEC(r))

IsOverlay(ws) ==
    /\ HasHeader(ws) /\ HasTable(ws) /\ HasSections(ws)
    /\ \A q \in 1 .. CountOf(ws) : InSection(ws, TableOf(ws)[q])

=============================================================================
