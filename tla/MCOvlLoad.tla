------------------------------ MODULE MCOvlLoad ------------------------------
(***************************************************************************)
(* Small overlays for TLC, and files that are almost one.  Halves are 5    *)
(* bits wide, as in MCNovlConv, so a size is an int below 512.             *)
(***************************************************************************)
EXTENDS OvlLoadProperties

File(ws) == [exists |-> TRUE, words |-> ws]
Missing  == [exists |-> FALSE, words |-> <<>>]

(* Contents that are told apart by their place. *)
Contents(bytes) == [q \in 1 .. (bytes \div 4) |-> 100 + q]

(* Sections of t, d and r bytes, .bss of b, a table, padding to 16 bytes. *)
Overlays(t, d, r, b, table) ==
    LET body == Contents(t + d + r) \o <<t, d, r, b, Len(table)>> \o table
        pad  == (4 - ((Len(body) + 1) % 4)) % 4
    IN  body \o [q \in 1 .. pad |-> 0] \o <<4 * (5 + Len(table) + pad + 1)>>

Reloc(s, o) == novl_reloc_mk(s + 1, o, 2)

Valid ==
    {Overlays(t, d, r, b, table) :
        t \in {8, 16}, d \in {0, 8}, r \in {0, 8}, b \in {0, 16},
        table \in {<<>>, <<Reloc(TEXT, 4)>>, <<Reloc(TEXT, 0), Reloc(TEXT, 4)>>}}
    \cup {Overlays(8, 8, 8, 8, <<Reloc(s, o), Reloc(q, 0)>>) :
             s, q \in {TEXT, DATA, RODATA}, o \in {0, 4}}
    \cup {Overlays(0, 0, 0, b, <<>>) : b \in {0, 8}}

ValidDisks ==
    {<<File(ws)>> : ws \in Valid} \cup {<<Missing>>}
    \cup {<<File(Overlays(8, 0, 8, 8, <<Reloc(RODATA, 0)>>)), f>> :
             f \in {Missing, File(Overlays(8, 8, 0, 0, <<Reloc(DATA, 4)>>))}}

(* An overlay with one word replaced, cut short, or with words after it. *)
Some == Overlays(8, 8, 0, 8, <<Reloc(DATA, 4)>>)

Damaged ==
    {[Some EXCEPT ![k] = w] : k \in 5 .. Len(Some),
                              w \in {0, 2, 8, 24, 32, 40, 512, 1020, Reloc(RODATA, 0)}}
    \cup {SubSeq(Some, 1, k) : k \in 0 .. Len(Some)}
    \cup {Some \o <<w>> : w \in {0, 28, 32, 36, 48}}

DamagedDisks ==
    {<<File(ws)>> : ws \in Damaged}
    \cup {<<File(Some), File(ws)>> : ws \in {Some, SubSeq(Some, 1, 5)}}

AllDisks == ValidDisks \cup DamagedDisks

=============================================================================
