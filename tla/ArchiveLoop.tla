------------------------------ MODULE ArchiveLoop ------------------------------
(***************************************************************************)
(* The loop a program writes with elf_begin(), elf_next() and elf_end()    *)
(* (src/libelf) to go over the members of an archive:                      *)
(*                                                                         *)
(*   cmd = ELF_C_READ;                                                     *)
(*   while ((elf = elf_begin(fd, cmd, arf))) {                             *)
(*       ...  cmd = elf_next(elf);  elf_end(elf);                          *)
(*   }                                                                     *)
(*                                                                         *)
(* The body of the loop may use the archive and its members as it likes,   *)
(* open them and go to them by the symbol table, while the loop has its    *)
(* own references: e_off, which the loop goes by, is then moved under it.  *)
(***************************************************************************)
EXTENDS ElfDescriptors

VARIABLES
    pc,           \* where the loop is: "begin", "body", "end" or "done"
    cur,          \* the member it has
    cmd,          \* what elf_next() said
    visited       \* the places of the members it has had

loopVars == <<pc, cur, cmd, visited>>

Arf == 1          \* the archive, opened before the loop

LoopInit ==
    /\ file \in Files /\ file.at[0].kind = "ar"
    /\ elf = [id \in {Arf} |-> CheckType([InitElf EXCEPT
                  !.fd = FirstFd, !.size = file.size, !.readable = TRUE])]
    /\ heap = {<<Arf, "elf">>, <<Arf, "data">>} /\ faults = FALSE
    /\ refs = [id \in Ids |-> IF id = Arf THEN 1 ELSE 0]
    /\ pc = "begin" /\ cur = Null /\ cmd = "READ" /\ visited = <<>>

(* elf_begin(fd, cmd, arf): ELF_C_NULL gets nothing. *)
LoopBegin ==
    /\ pc = "begin" /\ cmd = "READ"
    /\ \/ BeginAgain(FirstFd, Arf) /\ cur' = Opened(Arf, elf[Arf].off + ArHdr)
       \/ BeginMember(FirstFd, Arf) /\ cur' = Fresh
    /\ pc' = "body" /\ visited' = Append(visited, elf[Arf].off) /\ UNCHANGED cmd

LoopExit ==
    /\ pc = "begin" /\ (cmd = "NULL" \/ BeginRefused(FirstFd, "READ", Arf))
    /\ pc' = "done" /\ Same /\ UNCHANGED <<cur, cmd, visited>>

LoopNext ==
    /\ pc = "body" /\ ElfNext(cur)
    /\ cmd' = NextCmd(elf[cur]) /\ pc' = "end" /\ UNCHANGED <<cur, visited>>

LoopEnd ==
    /\ pc = "end" /\ ElfEnd(cur)
    /\ pc' = "begin" /\ cur' = Null /\ UNCHANGED <<cmd, visited>>

Loop == LoopBegin \/ LoopExit \/ LoopNext \/ LoopEnd

(* The body calls what it likes; the loop's references are not its to end. *)
Body ==
    /\ pc = "body"
    /\ \E id \in Live :
           \/ BeginAgain(FirstFd, id) \/ BeginMember(FirstFd, id) \/ BeginSame(FirstFd, "READ", id)
           \/ \E offset \in Offsets : ElfRand(id, offset)
           \/ ElfNext(id)
           \/ ElfEnd(id) /\ refs[id] > IF id \in {Arf, cur} THEN 1 ELSE 0
           \/ ElfCntl(id, "FDREAD") \/ ElfGetarsym(id)
    /\ UNCHANGED loopVars

LoopSpec ==
    /\ LoopInit /\ [][Loop \/ Body]_<<vars, loopVars>>
    /\ WF_<<vars, loopVars>>(Loop)
=============================================================================
