------------------------------ MODULE ArchiveWalk ------------------------------
(* What a loop over an archive promises: it visits the members one after the other, in
   the order of the archive, each once, and ends after the last. *)
EXTENDS Naturals, Sequences

VARIABLES
    members,      \* what the archive has
    visited,      \* those visited so far
    done

Init == members \in Seq(Nat) /\ visited = <<>> /\ done = FALSE

Visit ==
    /\ ~done /\ Len(visited) < Len(members)
    /\ visited' = Append(visited, members[Len(visited) + 1])
    /\ UNCHANGED <<members, done>>

Finish == ~done /\ visited = members /\ done' = TRUE /\ UNCHANGED <<members, visited>>

Next == Visit \/ Finish

Spec == Init /\ [][Next]_<<members, visited, done>> /\ WF_<<members, visited, done>>(Next)
=============================================================================
