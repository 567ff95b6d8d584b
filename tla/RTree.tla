--------------------------------- MODULE RTree ---------------------------------
(***************************************************************************)
(* The R-tree of the spatial index (RTree.cpp.inline): quadratic splits,   *)
(* nodes in a table by number, and the text form it is saved in.           *)
(*                                                                         *)
(* A tree is [nodes, root_id, node_id_gen], with the nodes in the order of *)
(* their numbers from 1 on; a node is [parent, is_leaf, entries]; an entry *)
(* is [extent, ref], where ref is the C++ union: the feature in a leaf, the *)
(* number of the child elsewhere.                                          *)
(***************************************************************************)
EXTENDS GeoExtent, Sequences, SequencesExt, FiniteSets

CONSTANTS CONST_M,      \* a node that reaches so many entries is split
          MARGIN,       \* what a zero-area extent is grown by on each side
          Printed(_)    \* a coordinate after setprecision(13)
ASSUME MAssumption == CONST_M \in Nat /\ CONST_M >= 2
ASSUME MarginAssumption == MARGIN \in Nat

EmptyTree == [nodes |-> <<[parent |-> 0, is_leaf |-> TRUE, entries |-> <<>>]>>,
              root_id |-> 1, node_id_gen |-> 1]

Entry(extent, ref) == [extent |-> extent, ref |-> ref]

ComputeExtent(entries) ==
    FoldLeft(LAMBDA e, entry : ExpandToInclude(e, entry.extent), Empty, entries)

Enlarged(e, f) == Area(ExpandToInclude(e, f))

\* The entry whose extent would become the smallest; the first of equals.
BestEntry(entries, extent) ==
    CHOOSE i \in DOMAIN entries :
        \A j \in DOMAIN entries :
            LET a == Enlarged(entries[i].extent, extent)
                b == Enlarged(entries[j].extent, extent)
            IN a < b \/ (a = b /\ i <= j)

ChooseLeaf(tree, extent) ==
    LET leaf[n \in DOMAIN tree.nodes] ==
            IF tree.nodes[n].is_leaf THEN n
            ELSE leaf[tree.nodes[n].entries[BestEntry(tree.nodes[n].entries, extent)].ref]
    IN leaf[tree.root_id]

(* The two entries that waste the most area together, the first such pair.  *)
(* A waste of -1.0 or less never beats the start value, which leaves 1, 2.  *)
PickSeeds(entries) ==
    LET Waste(p) == Enlarged(entries[p[1]].extent, entries[p[2]].extent)
                      - Area(entries[p[1]].extent) - Area(entries[p[2]].extent)
        Pairs == {p \in (DOMAIN entries) \X (DOMAIN entries) : p[1] < p[2]}
        Wasteful == {p \in Pairs : Waste(p) > -ONE * ONE}
        Before(p, q) == p[1] < q[1] \/ (p[1] = q[1] /\ p[2] <= q[2])
    IN IF Wasteful = {} THEN <<1, 2>>
       ELSE CHOOSE p \in Wasteful : \A q \in Wasteful :
                Waste(p) > Waste(q) \/ (Waste(p) = Waste(q) /\ Before(p, q))

Growth(group, e) == Enlarged(ComputeExtent(group), e.extent) - Area(ComputeExtent(group))

\* An entry goes where it enlarges the least, until one group has half of CONST_M.
Put(groups, e) ==
    LET full1 == Len(groups[1]) >= CONST_M \div 2
        full2 == Len(groups[2]) >= CONST_M \div 2
        first == ~full1 /\ (full2 \/ Growth(groups[1], e) < Growth(groups[2], e))
    IN IF first THEN <<Append(groups[1], e), groups[2]>>
       ELSE <<groups[1], Append(groups[2], e)>>

\* The entries in two groups around two of them.
Distribute(entries, seeds) ==
    FoldLeft(LAMBDA groups, i : IF i \in {seeds[1], seeds[2]} THEN groups ELSE Put(groups, entries[i]),
             <<<<entries[seeds[1]]>>, <<entries[seeds[2]]>>>>, [i \in DOMAIN entries |-> i])

SplitGroups(entries) == Distribute(entries, PickSeeds(entries))

\* Splits node n; the new node gets the next number and takes the second group,
\* and the children that move with it learn of their new parent.
SplitInto(tree, n, groups) ==
    LET L == tree.nodes[n]
        id == tree.node_id_gen + 1
        Adopt(nodes, e) == IF L.is_leaf THEN nodes ELSE [nodes EXCEPT ![e.ref].parent = id]
    IN [tree EXCEPT !.node_id_gen = id,
                    !.nodes = FoldLeft(Adopt, Append([@ EXCEPT ![n].entries = groups[1]],
                                                     [L EXCEPT !.entries = groups[2]]), groups[2])]

SplitNode(tree, n) == SplitInto(tree, n, SplitGroups(tree.nodes[n].entries))

NodeExtent(tree, n) == ComputeExtent(tree.nodes[n].entries)

\* One level of adjustTree(): a split root gets a new root above it; any other
\* node has its extent brought up to date in its parent, which takes in the new
\* sibling and may be split in turn.  n = 0 when there is nothing left to do.
AdjustRoot(tree, n, nn) ==
    LET id == tree.node_id_gen + 1
        root == [parent |-> 0, is_leaf |-> FALSE,
                 entries |-> <<Entry(NodeExtent(tree, n), n), Entry(NodeExtent(tree, nn), nn)>>]
    IN [tree EXCEPT !.root_id = id, !.node_id_gen = id,
                    !.nodes = Append([@ EXCEPT ![n].parent = id, ![nn].parent = id], root)]

AdjustParent(tree, n, nn) ==
    LET p == tree.nodes[n].parent
        updated == [i \in 1..Len(tree.nodes[p].entries) |->
                      LET e == tree.nodes[p].entries[i]
                      IN IF e.ref = n THEN Entry(NodeExtent(tree, n), n) ELSE e]
    IN IF nn = 0 THEN [tree EXCEPT !.nodes[p].entries = updated]
       ELSE [tree EXCEPT !.nodes[nn].parent = p,
                         !.nodes[p].entries = Append(updated, Entry(NodeExtent(tree, nn), nn))]

AdjustLevel(s) ==
    LET p == s.tree.nodes[s.n].parent
        tree == AdjustParent(s.tree, s.n, s.nn)
        full == s.nn # 0 /\ Len(tree.nodes[p].entries) >= CONST_M
    IN CASE s.n = 0             -> s
         [] s.n # 0 /\ p # 0    -> [tree |-> IF full THEN SplitNode(tree, p) ELSE tree, n |-> p,
                                    nn |-> IF full THEN tree.node_id_gen + 1 ELSE 0]
         [] s.n # 0 /\ p = 0    -> [tree |-> IF s.nn # 0 THEN AdjustRoot(s.tree, s.n, s.nn) ELSE s.tree,
                                    n |-> 0, nn |-> 0]

AdjustTree(tree, n, nn) ==
    FoldLeft(LAMBDA s, level : AdjustLevel(s), [tree |-> tree, n |-> n, nn |-> nn],
             [level \in 1..tree.node_id_gen |-> level]).tree

\* Leaf L has grown by an entry.
SplitIfFull(tree, L) ==
    LET full == Len(tree.nodes[L].entries) >= CONST_M
    IN AdjustTree(IF full THEN SplitNode(tree, L) ELSE tree, L,
                  IF full THEN tree.node_id_gen + 1 ELSE 0)

InsertEntry(tree, extent, data) ==
    LET L == ChooseLeaf(tree, extent)
    IN SplitIfFull([tree EXCEPT !.nodes[L].entries = Append(@, Entry(extent, data))], L)

Insert(tree, extent, data) ==
    InsertEntry(tree, IF Area(extent) = 0 THEN Expand(extent, MARGIN) ELSE extent, data)

\* Those elements of s that are in T, in their order.
Selected(s, T) ==
    LET chosen[i \in 0..Len(s)] ==
            IF i = 0 THEN <<>>
            ELSE IF s[i] \in T THEN Append(chosen[i - 1], s[i]) ELSE chosen[i - 1]
    IN chosen[Len(s)]

\* The features of the entries that intersect the extent, depth first.
Find(tree, extent) ==
    LET Meeting(n) == LET entries == tree.nodes[n].entries
                      IN Selected(entries, {e \in ToSet(entries) : Intersects(e.extent, extent)})
        found[n \in DOMAIN tree.nodes] ==
            IF tree.nodes[n].is_leaf
            THEN [i \in DOMAIN Meeting(n) |-> Meeting(n)[i].ref]
            ELSE FlattenSeq([i \in DOMAIN Meeting(n) |-> found[Meeting(n)[i].ref]])
    IN found[tree.root_id]

\* What an extent is after it was written as four numbers and read back: an
\* invalid one comes back as the valid point (-1, -1).
Reread(e) == Corners(At(Printed(XMin(e)), Printed(YMin(e))), At(Printed(XMax(e)), Printed(YMax(e))))

\* The saved form: a header, then a line per node in the order of the numbers.
WriteTo(tree, extent) ==
    [root_id |-> tree.root_id, node_id_gen |-> tree.node_id_gen, extent |-> extent,
     lines |-> tree.nodes]

\* Reading stops at the first line that is missing; the node the constructor
\* made stays where no line replaces it.
ReadFrom(text) ==
    LET Line(n) == [text.lines[n] EXCEPT !.entries =
                      [i \in DOMAIN @ |-> Entry(Reread(@[i].extent), @[i].ref)]]
    IN [nodes |-> IF text.lines = <<>> THEN EmptyTree.nodes ELSE [n \in DOMAIN text.lines |-> Line(n)],
        root_id |-> text.root_id, node_id_gen |-> text.node_id_gen]

\* A tree whose nodes are not all there is walked into a null pointer.
IsWhole(tree) ==
    /\ tree.root_id \in DOMAIN tree.nodes
    /\ \A n \in DOMAIN tree.nodes : ~tree.nodes[n].is_leaf =>
          \A e \in ToSet(tree.nodes[n].entries) : e.ref \in DOMAIN tree.nodes
================================================================================
