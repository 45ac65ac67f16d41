---------------------------- MODULE MCElfDescriptors ----------------------------
(* Instances of ElfDescriptors: an ELF file, archives with everything an archive may
   have, one in another, and archives with an end that is not right. *)
EXTENDS ElfDescriptorsProperties

Hdr(name, size) == [name |-> name, num |-> TRUE, size |-> size]

Elf(cooks, loads) == [kind |-> "elf", cooks |-> cooks, loads |-> loads, syms |-> <<>>]
Ar(syms) == [kind |-> "ar", cooks |-> "all", loads |-> TRUE, syms |-> syms]

File(size, hdrs, at) == [size |-> size, hdrs |-> hdrs, at |-> at]
NoHdrs == [off \in {} |-> Hdr("plain", 0)]

(* One ELF file. *)
Plain == File(100, NoHdrs, 0 :> Elf("all", TRUE))

(* A symbol table, two members, the first with an odd size, the second with program headers
   that cannot be read. *)
Library == File(340, (8 :> Hdr("symbols", 10)) @@ (78 :> Hdr("plain", 61))
                     @@ (200 :> Hdr("plain", 80)),
                (0 :> Ar(<<78, 200>>)) @@ (138 :> Elf("all", TRUE)) @@ (260 :> Elf("sections", TRUE)))

(* A string table, and an archive in the archive: an ELF file, and empty members with a
   name that is not found and a number that is none. *)
Nested == File(390, (8 :> Hdr("strings", 4)) @@ (72 :> Hdr("long", 258))
                    @@ (140 :> Hdr("plain", 70)) @@ (270 :> Hdr("lost", 0))
                    @@ (330 :> [Hdr("plain", 0) EXCEPT !.num = FALSE]),
               (0 :> Ar(<<>>)) @@ (132 :> Ar(<<>>)) @@ (200 :> Elf("all", TRUE)))

(* Tables that cannot be read, a member cut off, and no padding at the end. *)
Damaged == File(260, (8 :> Hdr("symbols", 2)) @@ (70 :> Hdr("plain", 53))
                     @@ (184 :> Hdr("plain", 47)),
                (0 :> Ar(<<>>)) @@ (130 :> Elf("header", TRUE)))
Unpadded == File(121, (8 :> Hdr("plain", 53)), (0 :> Ar(<<>>)) @@ (68 :> Elf("all", FALSE)))

MCFiles == {Plain, Library, Nested, Damaged, Unpadded}
=============================================================================
