------------------------------ MODULE MCArchiveLoop ------------------------------
(* Instances of ArchiveLoop: archives of three members, among them the symbol table,
   members of an odd size and an empty one, a member twice the same. *)
EXTENDS ArchiveLoopProperties

Hdr(name, size) == [name |-> name, num |-> TRUE, size |-> size]

Ar(syms) == [kind |-> "ar", cooks |-> "all", loads |-> TRUE, syms |-> syms]
Obj == [kind |-> "elf", cooks |-> "all", loads |-> TRUE, syms |-> <<>>]

Library == [size |-> 340, hdrs |-> (8 :> Hdr("symbols", 10)) @@ (78 :> Hdr("plain", 61))
                                   @@ (200 :> Hdr("plain", 80)),
            at |-> (0 :> Ar(<<78, 200>>)) @@ (138 :> Obj) @@ (260 :> Obj)]

(* The last member has an odd size, and nothing pads it. *)
Unpadded == [size |-> 189, hdrs |-> (8 :> Hdr("plain", 0)) @@ (68 :> Hdr("plain", 61)),
             at |-> (0 :> Ar(<<>>)) @@ (128 :> Obj)]

MCFiles == {Library, Unpadded}
=============================================================================
