---------------------------- MODULE OverlayFormat ----------------------------
(***************************************************************************)
(* src/src/overlay.h: what the converter and the loader know of an overlay *)
(* in common: its four sections, the header and footer behind them, and    *)
(* the relocation words of its table.                                      *)
(***************************************************************************)
EXTENDS MipsWord

CONSTANT OffsetSpan    \* number of section offsets a table word can hold (2^24)

ASSUME FormatSizes == OffsetSpan \in Nat \ {0}

TEXT   == 0
DATA   == 1
RODATA == 2
BSS    == 3
SectionIds == 0 .. 3
NoSection  == -1

(* In bytes: four sizes and a count; the distance back to them. *)
HeaderSize == 20
FooterSize == 4

(***************************************************************************)
(* A relocation word: section (1 = .text), type and offset, packed in that *)
(* order from the top bit down by novl-reloc.c, and the fields of it again *)
(* as the macros of overlay.h read them.                                   *)
(***************************************************************************)
TypeSpan == 64

novl_reloc_mk(sec, offset, type) ==
    ((sec % 4) * TypeSpan + (type % TypeSpan)) * OffsetSpan + (offset % OffsetSpan)

OVL_RELOC_GET_ADDR(r) == r % OffsetSpan
OVL_RELOC_GET_SEC(r)  == r \div (TypeSpan * OffsetSpan) - 1
OVL_RELOC_GET_TYPE(r) == (r \div OffsetSpan) % TypeSpan

(* novl_str_reloc_types[] has so many names; a NULL closes it. *)
TypeNames == 51

=============================================================================
