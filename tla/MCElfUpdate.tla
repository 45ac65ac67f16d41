----------------------------- MODULE MCElfUpdate -----------------------------
(* Instances of ElfUpdate: small files, few calls, and numbers that outgrow the
   header when there are three sections or two program headers. *)
EXTENDS ElfUpdateProperties

Piece(what, size) == {[at |-> 0, size |-> size, what |-> what]}

Buffer(size, align, off, what) ==
    [size |-> size, align |-> align, off |-> off, null |-> FALSE, buf |-> Piece(what, size)]

(* Files as the library writes them, so that the places in them are its own. *)
Section(index, type, link, info, what, size) ==
    [InitScn EXCEPT !.index = index, !.type = type, !.link = link, !.info = info,
        !.data = IF index = 0 THEN <<>>
                 ELSE <<[InitData EXCEPT !.new = TRUE, !.size = size, !.align = 4,
                                         !.buf = Piece(what, size), !.null = FALSE]>>]

FileOf(class, phnum, sections) ==
    LET e == [InitElf(class) EXCEPT !.ehdr = TRUE, !.phnum = phnum,
                 !.scns = [p \in DOMAIN sections |-> p - 1],
                 !.scn = [id \in 0 .. Len(sections) - 1 |-> sections[id + 1]],
                 !.last = Len(sections) - 1]
        l == Layout(e)
    IN  Image(l.elf, l.len)

First == Section(0, SHT_NULL, 0, 0, "", 0)

Linked32 == FileOf(32, 1, <<First, Section(1, SHT_PROGBITS, 0, 0, "code", 8),
                            Section(2, SHT_SYMTAB, 1, 0, "symbols", 6),
                            Section(3, SHT_REL, 2, 1, "relocations", 8)>>)
Small64  == FileOf(64, 0, <<First, Section(1, SHT_PROGBITS, 0, 0, "code", 0)>>)
Broken32 == [Linked32 EXCEPT !.len = @ - 1]

MCFiles == {NoFile, Linked32, Small64, Broken32}

MCHeaders ==
    {[type |-> SHT_PROGBITS, link |-> 0, info |-> 0, offset |-> 84, size |-> 8],
     [type |-> SHT_REL, link |-> 1, info |-> 2, offset |-> 300, size |-> 4],
     [type |-> SHT_NOBITS, link |-> 0, info |-> 0, offset |-> 0, size |-> 4]}

MCBuffers == {Buffer(3, 1, 8, "new"), Buffer(8, 8, 0, "aligned"),
              [Buffer(4, 4, 0, "none") EXCEPT !.null = TRUE, !.buf = {}]}

MCFlagOps == {<<"set", "layout">>, <<"set", "dirty">>, <<"clr", "layout">>}
(* Any three calls on a file that was opened; programs that make a file, that add to
   one, write it twice, lay it out themselves; and what moves and goes away before the
   descriptor ends and the file is opened again. *)
Edits == {"newscn", "newdata", "update_shdr", "delscn", "remscn", "movscn"}
Moves == {"newscn", "delscn", "remscn", "movscn"}

MCPlans ==
    {<<{"begin"}, Calls, Calls, Calls>>,
     <<{"begin"}, {"getscn"}, Calls, Calls, Calls>>,
     <<{"begin"}, {"newehdr"}, {"newphdr", "newscn"}, {"newscn"}, {"newdata"}, {"update_shdr"},
       {"update_write"}, {"end", "newscn"}>>,
     <<{"begin"}, {"getscn"}, {"newscn", "newphdr"}, {"newdata"}, {"update_shdr"},
       {"update_null", "newdata"}, {"update_write"}, {"end", "update_write"}, {"begin"}>>,
     <<{"begin"}, {"getscn"}, {"newdata", "delscn"}, {"update_write"}, {"delscn", "newscn"},
       {"update_write"}>>,
     <<{"begin"}, {"flagelf"}, {"getscn"}, {"newdata"}, {"newdata", "update_shdr"},
       {"update_write"}>>,
     <<{"begin"}, {"getscn"}, Moves, Moves, Moves, {"end"}>>,
     <<{"begin"}, {"getscn"}, {"movscn", "delscn"}, {"update_write"}, {"end"}, {"begin"},
       {"getscn"}, Edits>>}
=============================================================================
