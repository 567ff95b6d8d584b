---------------------------- MODULE FeatureSequence ----------------------------
(***************************************************************************)
(* What a FeatureCursor promises (FeatureCursor, the header): the features  *)
(* it was made for one after the other, each once, from the start again     *)
(* after a reset(), and NULL once they have all been given.                 *)
(***************************************************************************)
EXTENDS Naturals, Sequences

CONSTANT Null
VARIABLES
    items,      \* the features, in order
    given,      \* how many of them were given since the last reset
    last        \* what next() returned

vars == <<items, given, last>>

\* A cursor is opened on some features, or closed.
Open == given' = 0 /\ last' = Null /\ items' # items

Give ==
    /\ given < Len(items)
    /\ given' = given + 1
    /\ last' = items[given + 1]
    /\ UNCHANGED items

GiveNothing ==
    /\ given = Len(items)
    /\ last' = Null
    /\ UNCHANGED <<items, given>>

Reset == given' = 0 /\ last' = Null /\ UNCHANGED items

Init == given = 0 /\ last = Null

Next == Open \/ Give \/ GiveNothing \/ Reset

Spec == Init /\ [][Next]_vars
================================================================================
