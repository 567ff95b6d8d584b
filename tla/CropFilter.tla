------------------------------- MODULE CropFilter -------------------------------
(***************************************************************************)
(* How a part of a shape is cropped to a window (CropFilter.cpp): against   *)
(* one side of it after the other, south, east, north and west, with the    *)
(* window to the left of each.  Indices into a list start at 1 here.        *)
(*                                                                         *)
(* Coordinates are integers, and the crossings of edges and sides have to   *)
(* be: Cuttable says of a part that they are.                               *)
(***************************************************************************)
EXTENDS GeoShape, FiniteSets

Southeast(e) == At(e.ne.x, e.sw.y)
Northwest(e) == At(e.sw.x, e.ne.y)

\* The four sides, each with the order in which crossings lie along it: spatialInsert()
\* compares the coordinate that changes.
Sides(e) ==
    << [s1 |-> e.sw, s2 |-> Southeast(e), Key |-> [x |-> -1, y |-> 0]],
       [s1 |-> Southeast(e), s2 |-> e.ne, Key |-> [x |-> 0, y |-> -1]],
       [s1 |-> e.ne, s2 |-> Northwest(e), Key |-> [x |-> 1, y |-> 0]],
       [s1 |-> Northwest(e), s2 |-> e.sw, Key |-> [x |-> 0, y |-> 1]] >>

CrossZ(s1, s2, p) == (s2.x - s1.x) * (p.y - s1.y) - (s2.y - s1.y) * (p.x - s1.x)
pointInsideOrOnLine(p, s) == CrossZ(s.s1, s.s2, p) >= 0
pointInsideOrOnBack(p, s) == CrossZ(s.s2, s.s1, p) >= 0
extentInsideOrOnLine(e, s) == pointInsideOrOnLine(e.sw, s) /\ pointInsideOrOnLine(e.ne, s)
extentInsideOrOnBack(e, s) == pointInsideOrOnBack(e.sw, s) /\ pointInsideOrOnBack(e.ne, s)

\* Where the segment meets the line of a side; only asked for a segment with an end
\* on either side of it, so that there is such a point.
Ratio(p1, p2, s) == [num |-> CrossZ(s.s1, s.s2, p1), den |-> CrossZ(s.s1, s.s2, p1) - CrossZ(s.s1, s.s2, p2)]
Part(n, d) == IF d < 0 THEN (-n) \div (-d) ELSE n \div d
getIsectPoint(p1, p2, s) ==
    LET r == Ratio(p1, p2, s)
    IN At(p1.x + Part(r.num * (p2.x - p1.x), r.den), p1.y + Part(r.num * (p2.y - p1.y), r.den))

Divides(d, n) == n % (IF d < 0 THEN -d ELSE d) = 0
Cuttable(part, e) ==
    \A i \in DOMAIN part, s \in ToSet(Sides(e)) :
        LET p1 == part[i]
            p2 == part[(i % Len(part)) + 1]
            r == Ratio(p1, p2, s)
        IN r.den # 0 => Divides(r.den, r.num * (p2.x - p1.x)) /\ Divides(r.den, r.num * (p2.y - p1.y))

-------------------------------------------------------------------------------
(* Polygons.                                                               *)

\* The ring with its crossings put in, and their places in the order of the ring.
Traverse(ring, s) ==
    LET Visit(t, p) ==
            LET inside == pointInsideOrOnLine(p, s)
                crossed == IF t.points = <<>> \/ t.inside = inside THEN <<>>
                           ELSE <<getIsectPoint(Last(t.points), p, s)>>
            IN [points |-> t.points \o Append(crossed, p),
                inside |-> inside,
                order |-> IF crossed = <<>> THEN t.order ELSE Append(t.order, Len(t.points) + 1)]
    IN FoldLeft(Visit, [points |-> <<>>, inside |-> TRUE, order |-> <<>>], ring)

\* A mutant that leaves the crossings in the order of the ring.
SpatialOrderUnsorted(t, s) == t.order

\* The crossings in the order in which they lie on the side; of two at one place
\* the later one comes first.
SpatialOrder(t, s) ==
    LET Along(i) == s.Key.x * t.points[i].x + s.Key.y * t.points[i].y
        spatialInsert(list, i) ==
            InsertAt(list, Cardinality({k \in DOMAIN list : Along(list[k]) < Along(i)}) + 1, i)
    IN FoldLeft(spatialInsert, <<>>, t.order)

findIndexOf(list, value) == CHOOSE k \in DOMAIN list : list[k] = value

Around(i, n) == (i % n) + 1

\* From one place of the ring to another, both included.
RECURSIVE Path(_, _, _)
Path(points, from, to) ==
    IF from = to THEN <<points[to]>>
    ELSE <<points[from]>> \o Path(points, Around(from, Len(points)), to)

\* The walk around the ring.  w is [trav, n, stack, outputs]: the place in the order
\* of traversal, how many crossings were passed, the parts that were deferred and
\* the parts that are complete.  TRAV and ALONG are the two orders.
RECURSIVE NextPart(_, _, _, _), NextExit(_, _, _, _, _, _)

\* 4. From outside to the next entry: a deferred part goes on there or a new one starts.
NextPart(points, TRAV, ALONG, w) ==
    IF w.n >= Len(TRAV)
    THEN w.outputs \o [k \in DOMAIN w.stack |->
                          LET top == w.stack[Len(w.stack) - k + 1]
                          IN Append(top.part, points[top.waiting_on])]
    ELSE LET entry == TRAV[w.trav]
             resumes == w.stack # <<>> /\ Last(w.stack).waiting_on = entry
             next == [w EXCEPT !.trav = Around(@, Len(TRAV)), !.n = @ + 1]
         IN IF resumes
            THEN NextExit(points, TRAV, ALONG, [next EXCEPT !.stack = Front(@)], entry, Last(w.stack))
            ELSE NextExit(points, TRAV, ALONG, next, entry, [part |-> <<>>, start |-> entry])

\* 5. Along the ring to the next exit.  The part is complete if that is where the side
\* leads back to its start; 6. it goes on if the side leads on to the next entry;
\* 7. else it is deferred and another one starts.
NextExit(points, TRAV, ALONG, w, from, current) ==
    IF w.n >= Len(TRAV) THEN NextPart(points, TRAV, ALONG, w)
    ELSE LET exit == TRAV[w.trav]
             entry == TRAV[Around(w.trav, Len(TRAV))]
             Place(crossing) == findIndexOf(ALONG, crossing)
             part == current.part \o Path(points, from, exit)
             next == [w EXCEPT !.trav = Around(Around(@, Len(TRAV)), Len(TRAV)), !.n = @ + 2]
         IN IF Place(exit) - Place(current.start) = 1
            THEN NextPart(points, TRAV, ALONG,
                     [w EXCEPT !.trav = Around(@, Len(TRAV)), !.n = @ + 1, !.outputs = Append(@, part)])
            ELSE IF next.n >= Len(TRAV) THEN NextPart(points, TRAV, ALONG, next)
            ELSE IF Place(exit) - Place(entry) = 1
            THEN NextExit(points, TRAV, ALONG, next, entry, [current EXCEPT !.part = part])
            ELSE NextExit(points, TRAV, ALONG,
                     [next EXCEPT !.stack = Append(@, [part |-> part, start |-> current.start,
                                                       waiting_on |-> ALONG[Place(exit) - 1]])],
                     entry, [part |-> <<>>, start |-> entry])

\* A ring against one side.
CropToSide(e, s, part) ==
    LET ring == Unclosed(part, 0)
        extent == FoldLeft(ExpandToPoint, Empty, ring)
        t == Traverse(Append(ring, ring[1]), s)
        along == SpatialOrder(t, s)
    IN IF Len(ring) < 3 THEN <<>>
       ELSE IF extentInsideOrOnLine(extent, s) THEN <<ring>>
       ELSE IF ~Intersects(e, extent) \/ extentInsideOrOnBack(extent, s) THEN <<>>
       ELSE IF along = <<>> THEN <<Append(ring, ring[1])>>
       ELSE NextPart(t.points, t.order, along,
                     [trav |-> findIndexOf(t.order, along[1]), n |-> 0, stack |-> <<>>, outputs |-> <<>>])

\* Parts against the four sides in turn.
Against(e, CropPart(_, _), parts) ==
    FoldLeft(LAMBDA ps, s : FlattenSeq([i \in DOMAIN ps |-> CropPart(s, ps[i])]), parts, Sides(e))

cropPolygonPart(e, part) ==
    IF Len(part) < 3 THEN <<>>
    ELSE IF ContainsPart(e, part) THEN <<part>>
    ELSE Against(e, LAMBDA s, p : CropToSide(e, s, p), <<part>>)

-------------------------------------------------------------------------------
(* Lines and points.                                                       *)

\* A line against one side: the stretches of more than one point.
CropLineToSide(s, part) ==
    LET Finished(c) == IF Len(c.current) > 1 THEN Append(c.done, c.current) ELSE c.done
        Visit(c, p) ==
            LET inside == pointInsideOrOnLine(p, s)
                isect == getIsectPoint(c.prev, p, s)
            IN [done |-> IF c.inside /\ ~inside /\ c.prev.ok
                         THEN Finished([c EXCEPT !.current = Append(@, isect)]) ELSE c.done,
                current |-> CASE inside /\ c.inside -> Append(c.current, p)
                              [] inside /\ ~c.inside -> c.current \o <<isect, p>>
                              [] c.inside /\ ~inside -> <<>>
                              [] OTHER -> c.current,
                inside |-> inside, prev |-> p]
    IN Finished(FoldLeft(Visit, [done |-> <<>>, current |-> <<>>, inside |-> TRUE, prev |-> NoPoint], part))

cropLinePart(e, part) == Against(e, CropLineToSide, <<part>>)

\* One part, that may have no points left.
cropPointPart(e, part) == <<SelectSeq(part, LAMBDA p : ContainsPoint(e, p))>>

cropPart(e, type, part) ==
    CASE type = "polygon" -> cropPolygonPart(e, part)
      [] type = "line"    -> cropLinePart(e, part)
      [] type = "point"   -> cropPointPart(e, part)
================================================================================
