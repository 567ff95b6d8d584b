------------------------------ MODULE LRUCache ------------------------------
(***************************************************************************)
(* What a cache of files promises: it holds the files read last, as many as *)
(* there is room for, and gives up the one read longest ago.                *)
(***************************************************************************)
EXTENDS Naturals, Sequences, SequencesExt

CONSTANTS Files, Room

VARIABLES
    asked,     \* the files asked for last
    recent     \* the files it holds, the one read last at the end

Init == asked = <<>> /\ recent = <<>>

\* One intersection with the terrain reads several files in a row.
ReadAll(files) ==
    /\ asked' = files
    /\ recent' = FoldLeft(LAMBDA held, file :
                           LET used == Append(SelectSeq(held, LAMBDA f : f # file), file)
                           IN IF Len(used) > Room THEN Tail(used) ELSE used,
                       recent, files)

Next == \E files \in SeqOf(Files, Cardinality(Files)) : ReadAll(files)

Spec == Init /\ [][Next]_<<asked, recent>>
=============================================================================
