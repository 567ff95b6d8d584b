----------------------------- MODULE MCBuilder -----------------------------
(* Small projects for Builder: values that a .cfg cannot write. *)
EXTENDS Builder

CONSTANTS raw, mid, end

\* A source made of one that is made of a raw one; two made of the raw one; and
\* two that are each other's parent.
MCParents ==
  {[s \in Sources |-> CASE s = raw -> NoSource [] s = mid -> raw [] s = end -> mid],
   [s \in Sources |-> IF s = raw THEN NoSource ELSE raw],
   [s \in Sources |-> CASE s = raw -> NoSource [] s = mid -> end [] s = end -> mid]}

MCLayers == {<<end>>, <<end, mid>>, <<mid, end>>}

ChainParents == {p \in MCParents : p[mid] = raw /\ p[end] = mid}
EndLayer == {<<end>>}
=============================================================================
