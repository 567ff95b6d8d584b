------------------------------ MODULE ShapeFilters ------------------------------
(***************************************************************************)
(* The filters that work on the shapes of features (CropFilter.cpp,         *)
(* DecimateFilter.cpp, DensifyFilter.cpp, ChangeShapeTypeFilter.cpp,        *)
(* RemoveHolesFilter.cpp, ConvexHullFilter.cpp, CombineLinesFilter.cpp,     *)
(* BufferFilter.cpp, SelectFilter.cpp, RecalculateExtentFilter.cpp), put    *)
(* one after the other in any order.                                       *)
(*                                                                         *)
(* A feature is a sequence of shapes, a shape is [type, parts].  A filter   *)
(* is taken only on a batch whose results have whole coordinates; the       *)
(* instance sees to it that each meets batches enough.                      *)
(***************************************************************************)
EXTENDS CropFilter, Bags

CONSTANTS
    Batches,        \* [features, budget]: what is read, and how many filters follow
    Window,         \* the extent of the cell
    Threshold,      \* of the decimation and of the densification
    Distance,       \* of the buffer
    Samples,        \* points that are on no edge
    Marks           \* points that may be on edges
ASSUME LengthsAssumption == Threshold > 0 /\ Distance > 0

VARIABLES
    batch,          \* the features
    extent,         \* FilterEnv.extent
    budget,         \* how many more filters there are
    within          \* nothing was put outside of the extent since it bounded the features

vars == <<batch, extent, budget, within>>

Types == {"polygon", "line", "point"}

FeatureExtent(f) == ShapesExtent([i \in DOMAIN f |-> f[i].parts])

Run(Process(_)) == FlattenSeq([i \in DOMAIN batch |-> Process(batch[i])])

\* One operator for the parts of every shape of a feature.
EachPart(f, New(_, _)) ==
    [i \in DOMAIN f |-> [f[i] EXCEPT !.parts = FlattenSeq([j \in DOMAIN f[i].parts |-> New(f[i].type, f[i].parts[j])])]]

\* A filter's output as the next one's state takes it in.
Filters(newBatch) ==
    /\ budget > 0
    /\ budget' = budget - 1
    /\ batch' = SelectSeq(newBatch, LAMBDA f : FeatureExtent(f).is_valid)

Parts(b) == UNION {UNION {{[type |-> s.type, points |-> p] : p \in ToSet(s.parts)} : s \in ToSet(f)} : f \in ToSet(b)}
Edges(part) == {<<part[i], part[i + 1]>> : i \in 1..(Len(part) - 1)}
Sign(n) == IF n > 0 THEN 1 ELSE IF n < 0 THEN -1 ELSE 0
LeftTurn(p0, p1, p2) == (p1.x - p0.x) * (p2.y - p0.y) - (p1.y - p0.y) * (p2.x - p0.x) > 0
Upright(a, b) == a.x = b.x \/ a.y = b.y

-------------------------------------------------------------------------------
(* Cropping.                                                               *)

\* Two edges of a ring that are not neighbours have no point in common, and the ring
\* runs counter-clockwise.
Apart(a, b, c, d) ==
    LET Side(p, q, r) == Sign((q.x - p.x) * (r.y - p.y) - (q.y - p.y) * (r.x - p.x))
        Disjoint(u, v) == Intersects(PartExtent(u), PartExtent(v)) = FALSE
    IN Disjoint(<<a, b>>, <<c, d>>) \/ Side(a, b, c) * Side(a, b, d) = 1 \/ Side(c, d, a) * Side(c, d, b) = 1
ProperRing(part) ==
    LET n == Len(part)
        At2(i) == part[((i - 1) % n) + 1]
    IN /\ n >= 3 /\ isPolygonCCW(part) /\ IsInjective(part)
       /\ \A i, j \in 1..n : j > i + 1 /\ ~(i = 1 /\ j = n) => Apart(part[i], At2(i + 1), part[j], At2(j + 1))
       /\ \A i \in 1..n : LeftTurn(At2(i), At2(i + 1), At2(i + 2)) \/ LeftTurn(At2(i + 2), At2(i + 1), At2(i))

\* What the filter is right for: features in reach of the extent, of one shape, whose
\* polygons are proper rings, open or closed.
Croppable(b) ==
    \A f \in ToSet(b) :
        /\ Len(f) = 1 /\ Intersects(extent, FeatureExtent(f))
        /\ f[1].type = "polygon" => Len(f[1].parts) = 1 /\ ProperRing(openPolygon(f[1].parts[1]))

CropShape(e, shape) ==
    LET own == ShapeExtent(shape.parts)
        parts == FlattenSeq([j \in DOMAIN shape.parts |-> cropPart(e, shape.type, shape.parts[j])])
    IN IF ContainsExtent(e, own) THEN <<shape>>
       ELSE IF Intersects(e, own) THEN <<[shape EXCEPT !.parts = parts]>>
       ELSE <<>>

CropFeature(e, f) ==
    LET own == FeatureExtent(f)
        new == IF ~e.is_infinite /\ ~ContainsExtent(e, own) /\ Intersects(e, own)
               THEN FlattenSeq([i \in DOMAIN f |-> CropShape(e, f[i])]) ELSE f
    IN IF FeatureExtent(new).is_valid THEN <<new>> ELSE <<>>

Crop ==
    /\ \A p \in Parts(batch) : p.points # <<>> /\ Cuttable(p.points, extent)
    /\ Filters(Run(LAMBDA f : CropFeature(extent, f)))
    /\ within' = (~extent.is_infinite /\ Croppable(batch))
    /\ UNCHANGED extent

-------------------------------------------------------------------------------
(* Filters that add or take away points.                                   *)

MinPoints(type) == CASE type = "polygon" -> 3 [] type = "line" -> 2 [] type = "point" -> 1

Distance2(a, b) == (a.x - b.x) * (a.x - b.x) + (a.y - b.y) * (a.y - b.y)

decimatePart(type, part) ==
    LET Visit(kept, p) ==
            IF kept = <<>> \/ Distance2(p, Last(kept)) > Threshold * Threshold THEN Append(kept, p) ELSE kept
        new == FoldLeft(Visit, <<>>, part)
    IN IF Len(part) >= MinPoints(type) /\ Len(new) >= MinPoints(type) THEN <<new>> ELSE <<>>

\* A shape is looked at again after its new parts were put in: what is tested is
\* whether it had parts before.
DecimateFeature(f) ==
    LET new == SelectSeq([i \in DOMAIN f |-> [old |-> f[i], new |-> EachPart(f, decimatePart)[i]]],
                         LAMBDA s : s.old.parts # <<>>)
    IN IF new = <<>> THEN <<>> ELSE <<[i \in DOMAIN new |-> new[i].new]>>

Decimate == Filters(Run(DecimateFeature)) /\ UNCHANGED <<extent, within>>

\* The points at every Threshold between a and b, of an upright edge.
Between(a, b) ==
    LET length == IF a.x = b.x THEN (b.y - a.y) * Sign(b.y - a.y) ELSE (b.x - a.x) * Sign(b.x - a.x)
        n == IF length = 0 THEN 0 ELSE (length - 1) \div Threshold
    IN [k \in 1..n |-> At(a.x + k * Threshold * Sign(b.x - a.x), a.y + k * Threshold * Sign(b.y - a.y))]

DensifyPart(type, part) ==
    IF type = "point" THEN <<part>>
    ELSE <<FlattenSeq([i \in DOMAIN part |->
               <<part[i]>> \o (IF i = Len(part) THEN <<>> ELSE Between(part[i], part[i + 1]))])>>

\* Undefined for a line without points, which the code runs past the end of.
Densify ==
    /\ \A p \in Parts(batch) : p.type = "point" \/ (p.points # <<>> /\ \A e \in Edges(p.points) : Upright(e[1], e[2]))
    /\ Filters(Run(LAMBDA f : <<EachPart(f, DensifyPart)>>))
    /\ UNCHANGED <<extent, within>>

-------------------------------------------------------------------------------
(* Filters that look at whole parts.                                       *)

ChangedShape(type, shape) ==
    [type |-> type,
     parts |-> IF shape.type = "polygon" /\ type = "line"
               THEN [j \in DOMAIN shape.parts |-> closePolygon(shape.parts[j])] ELSE shape.parts]

ChangeShapeType(type) ==
    /\ Filters(Run(LAMBDA f : <<[i \in DOMAIN f |-> ChangedShape(type, f[i])]>>))
    /\ UNCHANGED <<extent, within>>

RemoveHolesPart(type, part) ==
    IF type # "polygon" \/ (Len(part) > 2 /\ isPolygonCCW(part)) THEN <<part>> ELSE <<>>

RemoveHoles == Filters(Run(LAMBDA f : <<EachPart(f, RemoveHolesPart)>>)) /\ UNCHANGED <<extent, within>>

\* Any predicate a script may be.
Select(Chosen) ==
    /\ Filters([i \in 1..Cardinality(Chosen) |-> batch[SetToSortSeq(Chosen, <)[i]]])
    /\ UNCHANGED <<extent, within>>

\* A mutant that takes the extent of the first feature.
RecalculateFirst ==
    /\ batch # <<>>
    /\ Filters(batch)
    /\ extent' = FeatureExtent(batch[1])
    /\ within' = TRUE

\* A collection filter: the extent becomes that of the features it hands on.
Recalculate ==
    /\ batch # <<>>
    /\ Filters(batch)
    /\ extent' = FoldLeft(LAMBDA e, f : ExpandToInclude(e, FeatureExtent(f)), FeatureExtent(batch[1]), Tail(batch))
    /\ within' = TRUE

-------------------------------------------------------------------------------
(* Convex hull: a Graham scan.                                             *)

collectPoints == FlattenSeq([i \in DOMAIN batch |->
                     FlattenSeq([j \in DOMAIN batch[i] |->
                         FlattenSeq(SelectSeq(batch[i][j].parts, LAMBDA p : Len(p) > 2))])])

Lower(p, q) == p.y < q.y \/ (p.y = q.y /\ p.x < q.x)
Lowest(points) == CHOOSE p \in ToSet(points) : \A q \in ToSet(points) : ~Lower(q, p)
Without(points, p) == RemoveAt(points, CHOOSE i \in DOMAIN points : points[i] = p /\ p \notin ToSet(SubSeq(points, 1, i - 1)))

\* The comparison of slopes, multiplied out.
LesserAngleWithP(P, v0, v1) ==
    LET k0 == At(v0.x - P.x, v0.y - P.y)
        k1 == At(v1.x - P.x, v1.y - P.y)
    IN CASE k0.x > 0 /\ k1.x < 0 -> TRUE
         [] k0.x > 0 /\ k1.x > 0 -> k0.y * k1.x < k1.y * k0.x
         [] k0.x < 0 /\ k1.x < 0 -> k0.y * k1.x < k1.y * k0.x
         [] OTHER -> FALSE

\* P, the others by their angle, and P again.
sortPoints(points) ==
    LET P == Lowest(points)
        InFront(p, list) == {k \in DOMAIN list : ~LesserAngleWithP(P, p, list[k])}
        Insert(list, p) == InsertAt(list, Cardinality(InFront(p, list)) + 1, p)
    IN <<P>> \o FoldLeft(Insert, <<>>, Without(points, P)) \o <<P>>

\* The sorted points, less each that is no turn to the left; the third and later
\* points are what the scan stops at.
RECURSIVE Scan(_, _)
Scan(hull, points) ==
    IF points = <<>> THEN hull
    ELSE IF Len(hull) >= 2 /\ ~LeftTurn(hull[Len(hull) - 1], Last(hull), Head(points))
    THEN Scan(Front(hull), points)
    ELSE Scan(Append(hull, Head(points)), Tail(points))

buildHull(points, close_loop) ==
    IF Len(points) < 3 THEN points
    ELSE LET hull == Scan(<<>>, points) IN IF close_loop THEN hull ELSE Front(hull)

deriveType == IF batch # <<>> /\ batch[1] # <<>> THEN batch[1][1].type ELSE "polygon"

\* The order of points at one angle is up to the sort, and a point straight above P
\* compares as equal to all: only batches without such points.
Sortable(points) ==
    points # <<>> =>
        LET P == Lowest(points)
            others == ToSet(points) \ {P}
        IN /\ Cardinality({i \in DOMAIN points : points[i] = P}) = 1
           /\ \A p \in others : p.x # P.x
           /\ \A p, q \in others : p # q => LesserAngleWithP(P, p, q) \/ LesserAngleWithP(P, q, p)

ConvexHull ==
    LET points == collectPoints
        hull == IF points = <<>> THEN <<>> ELSE buildHull(sortPoints(points), deriveType = "line")
    IN /\ Sortable(points)
       /\ Filters(<<<<[type |-> deriveType, parts |-> <<hull>>]>>>>)
       /\ UNCHANGED <<extent, within>>

-------------------------------------------------------------------------------
(* Combining lines.                                                        *)

Segments == LET parts == FlattenSeq([i \in DOMAIN batch |-> FlattenSeq([j \in DOMAIN batch[i] |-> batch[i][j].parts])])
            IN SelectSeq(parts, LAMBDA p : p # <<>>)

\* A segment that meets an end of another; the point they share is in both.
JoinedAtFront(seg, other) ==
    IF seg[1] = other[1] THEN Reverse(Tail(seg)) \o other ELSE other \o Tail(seg)
JoinedAtBack(seg, other) ==
    IF Last(seg) = other[1] THEN Front(seg) \o other ELSE other \o Reverse(Front(seg))

\* segs: every segment there was, in the order of the list, by its id; ends: the
\* endpoint map.  The one that is looked at is k.
RECURSIVE Combine(_, _, _, _)
Combine(k, segs, active, ends) ==
    IF k > Len(segs) THEN SelectSeq([i \in DOMAIN segs |-> [on |-> i \in active, points |-> segs[i]]], LAMBDA s : s.on)
    ELSE LET seg == segs[k]
             new == Len(segs) + 1
             Meets(p) == p \in DOMAIN ends /\ ends[p] \in active \ {k}
             Known(points, id, map) == [p \in DOMAIN map \cup {points[1], Last(points)} |->
                                           IF p \in {points[1], Last(points)} THEN id ELSE map[p]]
             Join(p, points) ==
                 Combine(k + 1, Append(segs, points), (active \ {k, ends[p]}) \cup {new},
                         Known(points, new, [q \in DOMAIN ends \ {p} |-> ends[q]]))
         IN IF k \notin active THEN Combine(k + 1, segs, active, ends)
            ELSE IF Meets(seg[1]) THEN Join(seg[1], JoinedAtFront(seg, segs[ends[seg[1]]]))
            ELSE IF Len(seg) > 1 /\ Meets(Last(seg)) THEN Join(Last(seg), JoinedAtBack(seg, segs[ends[Last(seg)]]))
            ELSE Combine(k + 1, segs, active, Known(seg, k, ends))

CombineLines ==
    LET lines == Combine(1, Segments, DOMAIN Segments, <<>>)
    IN /\ Filters([i \in DOMAIN lines |-> <<[type |-> "line", parts |-> <<lines[i].points>>]>>])
       /\ UNCHANGED <<extent, within>>

-------------------------------------------------------------------------------
(* Buffering, in a projected reference system.                             *)

\* An upright edge, moved by the distance to its right; one without length stays.
Shifted(p0, p1) ==
    LET dx == Sign(p1.x - p0.x)
        dy == Sign(p1.y - p0.y)
    IN [p0 |-> At(p0.x + Distance * dy, p0.y - Distance * dx),
        p1 |-> At(p1.x + Distance * dy, p1.y - Distance * dx)]

\* Around the end of a line, from one side of it to the other.
EndCap(p0, p1) == [p0 |-> Shifted(p0, p1).p1, p1 |-> Shifted(p1, p0).p0]

\* Where the lines through two upright segments meet: nowhere if they are parallel.
LineIntersection(a, b) ==
    LET denom == (b.p1.y - b.p0.y) * (a.p1.x - a.p0.x) - (b.p1.x - b.p0.x) * (a.p1.y - a.p0.y)
    IN IF denom = 0 THEN <<>>
       ELSE IF a.p0.x = a.p1.x THEN <<At(a.p0.x, b.p0.y)>> ELSE <<At(b.p0.x, a.p0.y)>>

\* A mutant that does not come back to the first segment.
CornersOpen(segments) ==
    FlattenSeq([k \in 1..(Len(segments) - 1) |-> LineIntersection(segments[k], segments[k + 1])])

CornersAround(segments) ==
    FlattenSeq([k \in DOMAIN segments |-> LineIntersection(segments[k], segments[Around(k, Len(segments))])])

bufferPolygon(part) ==
    LET new == CornersAround([j \in DOMAIN part |-> Shifted(part[j], part[Around(j, Len(part))])])
    IN IF Len(part) >= 3 /\ Len(new) > 2 THEN <<new>> ELSE <<>>

OneSide(part) == [j \in 1..(Len(part) - 1) |-> Shifted(part[j], part[j + 1])]

bufferLineToPolygon(part) ==
    LET n == Len(part)
        back == Reverse(part)
        new == CornersAround(OneSide(part) \o <<EndCap(part[n - 1], part[n])>>
                             \o OneSide(back) \o <<EndCap(part[2], part[1])>>)
    IN IF n >= 2 /\ Len(new) > 2 THEN <<new>> ELSE <<>>

\* A line of one segment has no corner, and nothing is left of it.
bufferLineToLine(part) ==
    LET side == OneSide(part)
        n == Len(side)
        inner == FlattenSeq([k \in 1..(n - 1) |-> LineIntersection(side[k], side[k + 1])])
    IN IF n < 2 THEN <<>> ELSE <<<<side[1].p0>> \o inner \o <<side[n].p1>>>>

BufferShape(shape, to_polygon) ==
    CASE shape.type = "polygon" ->
            <<[shape EXCEPT !.parts = FlattenSeq([j \in DOMAIN @ |-> bufferPolygon(@[j])])]>>
      [] shape.type = "line" /\ to_polygon ->
            <<[type |-> "polygon", parts |-> FlattenSeq([j \in DOMAIN shape.parts |-> bufferLineToPolygon(shape.parts[j])])]>>
      [] shape.type = "line" /\ ~to_polygon ->
            <<[shape EXCEPT !.parts = FlattenSeq([j \in DOMAIN @ |-> bufferLineToLine(@[j])])]>>
      [] OTHER -> <<>>

BufferFeature(f, to_polygon) ==
    LET new == FlattenSeq([i \in DOMAIN f |-> BufferShape(f[i], to_polygon)])
    IN <<IF new = <<>> THEN f ELSE new>>

Buffer(to_polygon) ==
    /\ \A p \in Parts(batch) : \A e \in Edges(closePolygon(p.points)) : Upright(e[1], e[2])
    /\ Filters(Run(LAMBDA f : BufferFeature(f, to_polygon)))
    /\ within' = FALSE
    /\ UNCHANGED extent

-------------------------------------------------------------------------------
Init ==
    /\ \E b \in Batches : batch = b.features /\ budget = b.budget
    /\ extent = Window
    /\ within = FALSE

Next ==
    \/ Crop \/ Decimate \/ Densify \/ RemoveHoles \/ Recalculate
    \/ ConvexHull \/ CombineLines
    \/ \E type \in Types : ChangeShapeType(type)
    \/ \E Chosen \in SUBSET DOMAIN batch : Select(Chosen)
    \/ \E to_polygon \in BOOLEAN : Buffer(to_polygon)

Spec == Init /\ [][Next]_vars

-------------------------------------------------------------------------------
(* Properties.                                                             *)

\* Whether a polygon of the batch covers a point: holes are parts within parts.
Covered(b, q) ==
    \E f \in ToSet(b) : \E s \in ToSet(f) :
        /\ s.type = "polygon"
        /\ Len(SelectSeq(s.parts, LAMBDA p : p # <<>> /\ Encloses(p, q))) % 2 = 1

OnEdge(p, a, b) ==
    /\ (b.x - a.x) * (p.y - a.y) = (b.y - a.y) * (p.x - a.x)
    /\ ContainsPoint(PartExtent(<<a, b>>), p)
OnLine(b, q) ==
    \E p \in Parts(b) : p.type = "line" /\ \E e \in Edges(p.points) : OnEdge(q, e[1], e[2])

\* Cropping takes away what is outside of the extent and nothing else: not a piece of
\* an area, of a line or a point (the walk around the ring in cropPolygonPart() takes
\* up pieces in the order of the side, which may be another than that of the ring).
CropExact ==
    [][Crop /\ Croppable(batch) =>
          /\ \A q \in Samples : Covered(batch', q) <=> Covered(batch, q) /\ ContainsPoint(extent, q)
          /\ \A q \in Marks : OnLine(batch, q) /\ ContainsPoint(extent, q) => OnLine(batch', q)
          /\ \A q \in Marks : OnLine(batch', q) => OnLine(batch, q)
      ]_vars

\* Once the features were cropped to the extent, or the extent taken from them, all
\* their points are within it, whatever filters that add nothing follow.
WithinExtent == within => \A p \in Parts(batch) : ContainsPart(extent, p.points)

\* The hull goes counter-clockwise around every point it was made from.
HullEncloses ==
    ConvexHull /\ collectPoints # <<>> =>
        LET hull == batch'[1][1].parts[1]
        IN \A i \in DOMAIN hull, p \in ToSet(collectPoints) : ~LeftTurn(hull[Around(i, Len(hull))], hull[i], p)

\* Every edge of every line is in exactly one of the combined ones.
EdgeCount(b, a, c) ==
    LET Count(p) == Cardinality({i \in 1..(Len(p) - 1) : {p[i], p[i + 1]} = {a, c}})
    IN FoldLeft(LAMBDA n, f : FoldLeft(LAMBDA k, s : FoldLeft(LAMBDA m, p : m + Count(p), k, s.parts), n, f), 0, b)
LinesKept ==
    CombineLines => \A e \in UNION {Edges(p.points) : p \in Parts(batch) \cup Parts(batch')} :
                        EdgeCount(batch', e[1], e[2]) = EdgeCount(batch, e[1], e[2])

\* All that is nearer than the distance to a convex polygon, or beside a line of one or
\* two segments, is covered.  A ring that is closed is not one of these: its last edge
\* has no length, and the corner where it closes is cut off.
Near == {-(Distance - 1), 0, Distance - 1}
Convex(part) == ProperRing(part) /\ \A i \in DOMAIN part :
                    LeftTurn(part[i], part[Around(i, Len(part))], part[Around(Around(i, Len(part)), Len(part))])
Middle(e) == At((e[1].x + e[2].x) \div 2, (e[1].y + e[2].y) \div 2)
BufferEncloses(to_polygon) ==
    Buffer(to_polygon) =>
        /\ (\A p \in Parts(batch) : p.type = "polygon" => Convex(p.points)) =>
            \A q \in Samples : Covered(batch, q) => \A dx, dy \in Near : Covered(batch', At(q.x + dx, q.y + dy))
        /\ to_polygon =>
            \A p \in Parts(batch) : p.type = "line" /\ Len(p.points) \in 2..3 /\ IsInjective(p.points) =>
                \A e \in Edges(p.points) :
                    \A d \in Near : Covered(batch', IF e[1].x = e[2].x THEN At(Middle(e).x + d, Middle(e).y + 1)
                                                   ELSE At(Middle(e).x + 1, Middle(e).y + d))

\* The filters that make new shapes of whole features lose nothing of the old ones.
NothingLost == [][HullEncloses /\ LinesKept /\ \A to_polygon \in BOOLEAN : BufferEncloses(to_polygon)]_vars
================================================================================
