---------------------------- MODULE MCFeatureLayer ----------------------------
(***************************************************************************)
(* A small instance: nodes of at most three entries, so that six features   *)
(* make a tree of two levels and ten one of three; coordinates in a unit of *)
(* which three make the margin of a point, printed to an even number.       *)
(***************************************************************************)
EXTENDS FeatureLayer

CONSTANTS t1, t2, sA, sB

MCText(n) == ToString(n)
MCPrinted(x) == 2 * (x \div 2)
MCReported(type) ==
    CASE type = "polygon" -> "Polygon" [] type = "line" -> "LineString" [] type = "point" -> "MultiPoint"

Feature(type, shapes, k) ==
    [type |-> type, shapes |-> shapes,
     attrs |-> IF k % 2 = 1 THEN [height |-> IntAttr(k), name |-> StringAttr("n")] ELSE <<>>]

Box(x, y, w, h) == <<At(x, y), At(x + w, y), At(x + w, y + h), At(x, y + h)>>
Triangle(x, y, w) == <<At(x, y), At(x + w, y), At(x, y + w)>>

\* Polygons in a scattered order, some in two shapes or with a hole.
Town(n, step) ==
    [k \in 1..n |->
        LET x == 31 * ((step * k) % 7)
            y == 27 * ((step * k * k) % 5)
        IN Feature("polygon",
                   CASE k % 3 = 0 -> <<<<Box(x, y, 21, 9)>>, <<Triangle(x + 40, y, 15)>>>>
                     [] k % 3 = 1 -> <<<<Triangle(x, y, 33), Box(x + 3, y + 3, 5, 5)>>>>
                     [] OTHER     -> <<<<Box(x + 1, y + 1, 12, 30)>>, <<>>>>, k)]

\* Points within, just beside and beyond what is asked for; one feature has no shape,
\* and one has a point more than is kept.
Posts == << Feature("point", <<<<<<At(98, 75)>>>>>>, 1),
            Feature("point", <<>>, 2),
            Feature("point", <<<<<<At(120, 75), At(150, 75)>>>>>>, 3) >>
Roads == << Feature("line", <<<<<<At(0, 0), At(50, 41)>>>>>>, 1),
            Feature("line", <<<<<<At(10, 0), At(10, 90)>>>>, <<<<At(70, 1), At(80, 3)>>>>>>, 2) >>

\* Besides the machine, many trees: up to fourteen features in three levels, asked
\* for every square of a grid, as they were built and as they are read back.
Grid == {Corners(At(10 * i, 10 * j), At(10 * i + 10, 10 * j + 10)) : i, j \in 0..12}
TreeOf(features) ==
    FoldLeft(LAMBDA tree, k : Insert(tree, Extent(features[k]), k), EmptyTree,
             [k \in DOMAIN features |-> k])
FindsAll(tree, features, d) ==
    \A q \in Grid : LET found == Find(tree, q) IN
        /\ Cardinality(ToSet(found)) = Len(found)
        /\ ToSet(found) \subseteq {k \in DOMAIN features : Intersects(Expand(Extent(features[k]), MARGIN + d), q)}
        /\ {k \in DOMAIN features : Intersects(Expand(Extent(features[k]), -d), q)} \subseteq ToSet(found)

\* Coordinates are printed as the proofs about the saved index have it.
ASSUME PrintedAsProved ==
    \A x, y \in -100..400 : /\ x <= y => Printed(x) <= Printed(y)
                            /\ x - GRAIN <= Printed(x) /\ Printed(x) <= x + GRAIN

ASSUME TreesFindAll ==
    \A features \in {Town(n, step) : n \in {3, 4, 9, 14}, step \in 1..6} \cup {Roads} :
        LET tree == TreeOf(features)
        IN /\ FindsAll(tree, features, 0)
           /\ FindsAll(ReadFrom(WriteTo(tree, Infinite)), features, GRAIN)

Rectangle(x, y, w, h) == Corners(At(x, y), At(x + w, y + h))

MCContents == (sA :> {Town(8, 3), Posts}) @@ (sB :> {Posts})
MCQueries == {Rectangle(100, 70, 40, 13), Rectangle(97, 60, 0, 0)}
================================================================================
