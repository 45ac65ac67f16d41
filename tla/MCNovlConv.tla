----------------------------- MODULE MCNovlConv -----------------------------
(***************************************************************************)
(* Small ELF files for TLC.  Halves are 5 bits wide, so a word has 10 bits *)
(* and an address is below 1024; there are 2 registers.  The image begins  *)
(* at 528, the usual overlay at 768.  Every family below is a set of ELF   *)
(* files around one question.                                              *)
(***************************************************************************)
EXTENDS NovlConvProperties

EntryPoint == 528

(* Instructions.  An address is 18 * 32 - 16 <= a < 18 * 32 + 16 = 592 when it
   is written as a pair with high half 18. *)
Hi(reg, high) == [type |-> R_MIPS_HI16, word |-> reg * Half + high]
Lo(reg, low)  == [type |-> R_MIPS_LO16, word |-> reg * Half * RegCount + (low % Half)]
Ptr(addr)     == [type |-> R_MIPS_32,   word |-> addr]
Jump(addr)    == [type |-> R_MIPS_26,   word |-> JumpSpan + (addr - Kseg0) \div 4]
As(ins, type) == [ins EXCEPT !.type = type]

Plain(name, addr, size, words) ==
    [name |-> name, type |-> "PROGBITS", addr |-> addr, size |-> size,
     readable |-> TRUE, data |-> words, rels |-> <<>>]

Name(id) == [rel |-> FALSE, id |-> id]
RelName(id) == [rel |-> TRUE, id |-> id]

RelocsFor(id, addr, code, order) ==
    LET n == Len(code)
    IN  [name |-> RelName(id), type |-> "REL", addr |-> 0, size |-> 8 * n,
         readable |-> TRUE, data |-> <<>>,
         rels |-> [q \in 1 .. n |->
                     LET p == IF order = "ascending" THEN q ELSE n + 1 - q
                     IN  [offset |-> addr + 4 * (p - 1), type |-> code[p].type]]]

Zeroes(n) == [q \in 1 .. n |-> 0]
WordsOf(code) == [q \in 1 .. Len(code) |-> code[q].word]
Fill(words, n) == words \o Zeroes(n - Len(words))

Bss(addr, size) ==
    [name |-> Name(BSS), type |-> "NOBITS", addr |-> addr, size |-> size,
     readable |-> TRUE, data |-> <<>>, rels |-> <<>>]

Elf(sections) == [kind |-> "mips", ep |-> EntryPoint, sections |-> sections]

(* .text at 528, .data at 552, .rodata at 568 and .bss at 576, with relocations
   in .text and a pointer table in .data. *)
Program(code, table, order) ==
    Elf(<<Plain(Name(TEXT), 528, 24, Fill(WordsOf(code), 6)),
          RelocsFor(TEXT, 528, code, order),
          Plain(Name(DATA), 552, 16, Fill(WordsOf(table), 4)),
          RelocsFor(DATA, 552, table, order),
          Plain(Name(RODATA), 568, 8, <<7, 9>>),
          Bss(576, 8),
          Plain([rel |-> FALSE, id |-> NoSection], 0, 4, <<3>>)>>)

UpTo(Menu, n) == UNION {[1 .. m -> Menu] : m \in 0 .. n}

-----------------------------------------------------------------------------
(* Every sequence of up to 4 halves of two registers: a LO16 of -4 is an
   address of .rodata, one of 12 lies behind everything. *)
Halves == {Hi(0, 18), Hi(1, 18), Lo(0, -4), Lo(0, 12), Lo(1, -4), Lo(1, 12)}

PairFiles == {Program(code, <<>>, "ascending") : code \in UpTo(Halves, 4)}

(* All kinds of entries, also those that fail or have no handler, in ascending
   and descending order, with a pointer from .data to .text. *)
AllKinds == {Hi(0, 18), Lo(0, -4), Lo(0, 12), Ptr(556), Ptr(100), Ptr(576),
           Jump(536), Jump(552), Jump(900), As(Ptr(556), 1), As(Ptr(556), 130),
           As(Lo(0, 12), 134)}

KindFiles ==
    {Program(code, table, order) :
        code \in UpTo(AllKinds, 3), table \in {<<>>, <<Ptr(532), Ptr(570)>>},
        order \in {"ascending", "descending"}}

(* The same word relocated twice, and then perhaps a LO16: what the second
   relocation sees is not what it saw in the dry run. *)
TwiceFiles ==
    LET Entry(n, t) == [offset |-> 528 + 4 * n, type |-> t]
        RelocatedTwice(code, t, u) ==
            [Program(code, <<>>, "ascending") EXCEPT !.sections[2].rels =
                <<Entry(0, t), Entry(0, u)>> \o Tail(@)]
    IN  {RelocatedTwice(<<first>> \o rest, t, u) :
            first \in {Hi(0, 18), Ptr(556), Jump(536)},
            rest \in UpTo({Lo(0, -4), Lo(1, -4)}, 1),
            t, u \in {R_MIPS_32, R_MIPS_26, R_MIPS_HI16, R_MIPS_LO16}}

(* One HI16 and the LO16s that share it: 540, 544 and 556 have the same high
   half, but not after every move. *)
SharedFiles ==
    {Program(<<Hi(0, 17)>> \o code, <<>>, "ascending") :
        code \in UpTo({Lo(0, -4), Lo(0, 0), Lo(0, 12)}, 3)}

ProgramFiles == PairFiles \cup KindFiles \cup TwiceFiles \cup SharedFiles

-----------------------------------------------------------------------------
(* Files of every shape: sizes that need rounding, sections that are missing,
   doubled, unreadable, too far away or before the entry point. *)
SizedFiles ==
    {Elf(<<Plain(Name(TEXT), 528, 4 * t, [q \in 1 .. t |-> 100 + q]),
           RelocsFor(TEXT, 528, [q \in 1 .. n |-> Ptr(532)], "ascending"),
           Plain(Name(DATA), 552, 4 * d, [q \in 1 .. d |-> 200 + q]),
           Plain(Name(RODATA), 568, 4 * r, [q \in 1 .. r |-> 300 + q]),
           Bss(584, 8 * b)>>) :
        t \in {2, 3, 6}, n \in 0 .. 2, d \in {0, 1, 4}, r \in {0, 3}, b \in {0, 3}}

Base == Program(<<Ptr(532), Jump(536)>>, <<Ptr(556)>>, "ascending")

OddFiles ==
    {[Base EXCEPT !.kind = k] : k \in Kinds}
    \cup {[Base EXCEPT !.sections[k].readable = FALSE] : k \in 1 .. 5}
    \cup {[Base EXCEPT !.sections[3].name = Name(TEXT)],     \* two .text sections
          [Base EXCEPT !.sections[3].addr = 1000],           \* too far away
          [Base EXCEPT !.sections[3].addr = 616],            \* a little too far
          [Base EXCEPT !.sections[3].addr = 520],            \* before the entry point
          [Base EXCEPT !.sections = SubSeq(@, 1, 2)],        \* .text only
          [Base EXCEPT !.sections = SubSeq(@, 3, 7)],        \* no .text
          [Base EXCEPT !.sections = <<>>],
          [Base EXCEPT !.sections = Reverse(@)]}

(* Sections with contents and .bss where the bounds check does not look: .data without
   contents in the file, inside the image, behind and before it; .rodata whose last
   word, but not its rounded size, fits; .bss far away. *)
UncheckedFiles ==
    {[Base EXCEPT !.sections[3] = [@ EXCEPT !.type = "NOBITS", !.data = <<>>, !.addr = a],
                  !.sections[4].rels = <<>>] : a \in {552, 616, 1000, 520}}
    \cup {[Base EXCEPT !.sections[5] = Plain(Name(RODATA), 620, 4, <<7>>)],
          [Base EXCEPT !.sections[6].addr = 1000]}

ShapeFiles == SizedFiles \cup OddFiles \cup UncheckedFiles

(* Programs, and what the passes meet when a file is not what they expect. *)
RelocatedFiles == ProgramFiles \cup OddFiles

=============================================================================
