-------------------------------- MODULE GeoShape --------------------------------
(***************************************************************************)
(* Parts of shapes, which are sequences of points, and what the program     *)
(* asks about them (GeoShape.cpp, GeoPoint.cpp, GeomUtils in Utils.cpp).    *)
(***************************************************************************)
EXTENDS GeoExtent, Sequences, SequencesExt

PartExtent(part) == FoldLeft(ExpandToPoint, Corners(part[1], part[1]), Tail(part))

\* The extent of a shape, a sequence of parts.
ShapeExtent(shape) ==
    LET points == FlattenSeq(shape)
    IN IF \E p \in ToSet(points) : p.ok THEN FoldLeft(ExpandToPoint, Empty, points) ELSE Invalid

\* The extent of a feature's shapes; nothing makes that of the first one valid.
ShapesExtent(shapes) ==
    IF shapes = <<>> THEN Invalid
    ELSE FoldLeft(LAMBDA e, shape : ExpandToInclude(e, ShapeExtent(shape)),
                  ShapeExtent(shapes[1]), Tail(shapes))

\* The crossings of a ray from p to the right with the edges of the part: an odd
\* number is inside.  The division of the code is multiplied out.
Encloses(part, p) ==
    LET Edge(i) == <<part[i], part[IF i = 1 THEN Len(part) ELSE i - 1]>>
        Crosses(a, b) ==
            /\ \/ a.y <= p.y /\ p.y < b.y
               \/ b.y <= p.y /\ p.y < a.y
            /\ IF b.y > a.y
               THEN (p.x - a.x) * (b.y - a.y) < (b.x - a.x) * (p.y - a.y)
               ELSE (p.x - a.x) * (b.y - a.y) > (b.x - a.x) * (p.y - a.y)
        crossed == SelectSeq([i \in DOMAIN part |-> Edge(i)], LAMBDA e : Crosses(e[1], e[2]))
    IN Len(crossed) % 2 = 1

PartMeets(part, e) ==
    IF IsPoint(e) THEN Encloses(part, e.sw)
    ELSE part # <<>> /\ Intersects(PartExtent(part), e)

ContainsPart(e, part) == \A p \in ToSet(part) : ContainsPoint(e, p)

\* Without its last points, as long as more than keep are left and they repeat the
\* first one.
Unclosed(part, keep) ==
    LET n == CHOOSE k \in 0..Len(part) :
                /\ k <= keep \/ part[k] # Head(part)
                /\ \A i \in (k + 1)..Len(part) : i > keep /\ part[i] = Head(part)
    IN SubSeq(part, 1, n)

openPolygon(part) == Unclosed(part, 3)

closePolygon(part) ==
    IF part # <<>> /\ Head(part) # Last(part) THEN Append(part, Head(part)) ELSE part

\* Twice the area, positive for a ring that runs counter-clockwise.
TwiceArea(part) ==
    LET ring == openPolygon(part)
        Next(i) == ring[(i % Len(ring)) + 1]
    IN FoldLeft(LAMBDA sum, i : sum + ring[i].x * Next(i).y - Next(i).x * ring[i].y,
                0, [i \in DOMAIN ring |-> i])

isPolygonCCW(part) == TwiceArea(part) >= 0
================================================================================
