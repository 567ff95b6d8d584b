------------------------------- MODULE GeoExtent -------------------------------
(***************************************************************************)
(* Points and axis-aligned extents in one spatial reference (GeoPoint.cpp, *)
(* GeoExtent.cpp).  Coordinates are integers in a unit the instance picks; *)
(* the real program's doubles are kept apart from each other by more than  *)
(* EPSILON, so the comparisons with a tolerance are plain ones.            *)
(***************************************************************************)
EXTENDS Integers

CONSTANT ONE            \* the length 1.0 in the unit of the coordinates
ASSUME OneAssumption == ONE \in Int

NoPoint == [ok |-> FALSE, x |-> 0, y |-> 0]
At(x, y) == [ok |-> TRUE, x |-> x, y |-> y]
GeoPoints == [ok : BOOLEAN, x : Int, y : Int]

Invalid  == [is_valid |-> FALSE, is_infinite |-> FALSE, sw |-> NoPoint, ne |-> NoPoint]
Infinite == [Invalid EXCEPT !.is_valid = TRUE, !.is_infinite = TRUE]
Empty    == [Invalid EXCEPT !.is_valid = TRUE]       \* GeoExtent()
GeoExtents == [is_valid : BOOLEAN, is_infinite : BOOLEAN, sw : GeoPoints, ne : GeoPoints]

\* Any change of a corner ends with this: corners in the wrong order make the
\* extent invalid, nothing makes an invalid one valid.
Recalc(e) == [e EXCEPT !.is_valid = @ /\ e.sw.x <= e.ne.x /\ e.sw.y <= e.ne.y]

Corners(sw, ne) ==
    IF sw.ok /\ ne.ok THEN Recalc([Empty EXCEPT !.sw = sw, !.ne = ne]) ELSE Invalid

IsEmpty(e) == ~e.is_valid \/ (~e.is_infinite /\ (~e.sw.ok \/ ~e.ne.ok))
IsPoint(e) == e.is_valid /\ ~e.is_infinite /\ e.sw.ok /\ e.sw = e.ne

XMin(e) == IF e.is_valid THEN e.sw.x ELSE -ONE
YMin(e) == IF e.is_valid THEN e.sw.y ELSE -ONE
XMax(e) == IF e.is_valid THEN e.ne.x ELSE -ONE
YMax(e) == IF e.is_valid THEN e.ne.y ELSE -ONE

Area(e) ==
    IF ~e.is_valid \/ e.is_infinite THEN -ONE * ONE
    ELSE IF IsEmpty(e) THEN 0 ELSE (e.ne.x - e.sw.x) * (e.ne.y - e.sw.y)

Intersects(e, f) ==
    /\ ~IsEmpty(e) /\ ~IsEmpty(f)
    /\ \/ e.is_infinite \/ f.is_infinite
       \/ /\ f.sw.x <= e.ne.x /\ e.sw.x <= f.ne.x
          /\ f.sw.y <= e.ne.y /\ e.sw.y <= f.ne.y

ContainsPoint(e, p) ==
    \/ e.is_infinite /\ p.ok
    \/ /\ e.is_valid /\ p.ok
       /\ e.sw.x <= p.x /\ p.x <= e.ne.x
       /\ e.sw.y <= p.y /\ p.y <= e.ne.y

ContainsExtent(e, f) == f.is_valid /\ ContainsPoint(e, f.sw) /\ ContainsPoint(e, f.ne)

\* Grows the extent by d on every side; the validity is not looked at again.
Expand(e, d) ==
    [e EXCEPT !.sw.x = @ - d, !.sw.y = @ - d, !.ne.x = @ + d, !.ne.y = @ + d]

Least(a, b) == IF b < a THEN b ELSE a
Most(a, b) == IF b > a THEN b ELSE a

ExpandToPoint(e, p) ==
    IF ~e.is_valid \/ ~p.ok THEN e
    ELSE Recalc(CASE e.is_infinite -> e
                  [] IsEmpty(e)    -> [e EXCEPT !.sw = p, !.ne = p]
                  [] OTHER         -> [e EXCEPT !.sw = At(Least(@.x, p.x), Least(@.y, p.y)),
                                                !.ne = At(Most(@.x, p.x), Most(@.y, p.y))])

ExpandToInclude(e, f) ==
    IF IsEmpty(f) \/ e.is_infinite THEN e
    ELSE IF f.is_infinite THEN [e EXCEPT !.is_infinite = TRUE]
    ELSE ExpandToPoint(ExpandToPoint(e, f.sw), f.ne)
================================================================================
