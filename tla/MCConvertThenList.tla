-------------------------- MODULE MCConvertThenList --------------------------
(***************************************************************************)
(* The files of MCNovlConv, converted and then listed.                     *)
(***************************************************************************)
EXTENDS MCNovlConv, ConvertThenList

(* All shapes, and all programs of two instructions with a pointer table. *)
ListedFiles ==
    ShapeFiles
    \cup {Program(code, <<Ptr(532), Ptr(570)>>, order) :
             code \in UpTo(AllKinds, 2), order \in {"ascending", "descending"}}

=============================================================================
