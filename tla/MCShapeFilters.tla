---------------------------- MODULE MCShapeFilters ----------------------------
(***************************************************************************)
(* Batches for the shape filters.  For the cropping alone: every proper     *)
(* ring of four corners on a lattice that the sides of the window pass      *)
(* between, and meanders, which cross a side six times in every order a     *)
(* ring can, turned to each side.  For filters one after the other: a few   *)
(* batches on which all of them have something to do.  And, apart from      *)
(* these, the clamping of shapes to a terrain of tiles that do not all fit  *)
(* in the cache, one of which cannot be read.                               *)
(***************************************************************************)
EXTENDS ShapeFilters

Polygon(parts) == [type |-> "polygon", parts |-> parts]
Line(part) == [type |-> "line", parts |-> <<part>>]
One(shape) == <<<<shape>>>>

Side == 240
MCWindow == Corners(At(0, 0), At(Side, Side))
MCSamples == {At(20 * i + 7, 20 * j + 3) : i, j \in -7..18}
MCMarks == {At(20 * i, 20 * j) : i, j \in -7..18}

Lattice(i) == At(120 * (i % 4) - 60, 120 * (i \div 4) - 60)
Quads ==
    LET Fans == {r \in [1..4 -> 0..15] : IsInjective(r) /\ \A i \in 2..4 : r[1] < r[i]}
    IN {p \in {[i \in 1..4 |-> Lattice(r[i])] : r \in Fans} : ProperRing(p)}

\* A ring that crosses the x axis at the places of an order, in arcs above and below it.
Meander(order, above) ==
    LET to(i) == order[Around(i, Len(order))]
        height(i) == 20 * (to(i) - order[i]) * Sign(to(i) - order[i]) * above * (IF i % 2 = 0 THEN -1 ELSE 1)
    IN FlattenSeq([i \in DOMAIN order |-> <<At(20 * order[i], height(i)), At(20 * to(i), height(i))>>])
Orders == {o \in [1..6 -> 1..6] : IsInjective(o) /\ o[1] = 1}
Turned(ring) == [i \in DOMAIN ring |-> At(ring[i].y, Side - ring[i].x)]
Opposite(ring) == [i \in DOMAIN ring |-> At(Side - ring[i].x, Side - ring[i].y)]
Meanders == {r \in {Meander(o, above) : o \in Orders, above \in {1, -1}} : ProperRing(r)}

Cropped == Quads \cup UNION {{r, Turned(r), Opposite(r), Opposite(Turned(r))} : r \in Meanders}

Box(x, y, w) == <<At(x, y), At(x + w, y), At(x + w, y + w), At(x, y + w)>>
Town ==
    << <<Polygon(<<Append(Box(-60, 40, 120), At(-60, 40))>>)>>,
       <<Polygon(<<Box(60, 60, 120), Reverse(Box(100, 100, 40))>>), Polygon(<<Box(200, -20, 40)>>)>> >>
Yard == One(Polygon(<<Box(100, -40, 80)>>))
Roads ==
    << <<Line(<<At(-60, 20), At(60, 20), At(60, 100)>>), Line(<<At(120, 180), At(120, 300)>>)>>,
       <<Line(<<At(120, 180), At(60, 100)>>)>> >>
Track == One(Line(<<At(20, -100), At(140, -100), At(140, 60), At(20, 60), At(20, -20)>>))
Posts == One([type |-> "point", parts |-> <<<<At(20, 20), At(-20, 20)>>, <<At(260, 0)>>>>])
Points == One([type |-> "point", parts |-> <<<<At(0, -20), At(60, 10), At(120, 60), At(40, 80), At(-40, 60), At(20, 40)>>>>])

MCBatches ==
    {[features |-> One(Polygon(<<ring>>)), budget |-> 1] : ring \in Cropped}
    \cup {[features |-> b, budget |-> 3] : b \in {Town, Yard, Roads, Track, Posts, Points}}

--------------------------------------------------------------------------------
(* The clamping. *)

MCTiles == 1..4
MCReadable == {1, 2, 4}
MCHeight == [x \in 0..24 |-> ((x * 3) % 7) + 1]

Flat(x) == [x |-> x, z |-> 0]
Shape(type, simulate, parts) == [type |-> type, simulate |-> simulate, parts |-> parts]
MCShapes ==
    {Shape("point", FALSE, <<<<Flat(1), Flat(1)>>, <<Flat(7)>>>>),
     Shape("point", FALSE, <<<<[x |-> 9, z |-> 5], Flat(15)>>>>),
     Shape("point", TRUE, <<<<Flat(21), Flat(3)>>>>),
     Shape("polygon", FALSE, <<<<Flat(5), Flat(7), Flat(21)>>>>),
     Shape("line", FALSE, <<<<[x |-> 1, z |-> 2], Flat(5), Flat(5), Flat(9)>>>>),
     Shape("line", FALSE, <<<<Flat(15), Flat(16)>>>>),
     Shape("line", FALSE, <<<<Flat(19), Flat(23)>>, <<Flat(13), Flat(14)>>>>)}

CONSTANTS max_cache_size, ignore_z, MaxTicks
VARIABLES clamping, cache, shape, parts, new_parts, at, clamped_z, output

Clamp == INSTANCE SmartReadCallback WITH
    Tiles <- MCTiles, Readable <- MCReadable, Height <- MCHeight, Shapes <- MCShapes,
    Width <- 6, Slack <- 2

clamp_vars == <<cache, shape, parts, new_parts, at, clamped_z, output>>

MCInit ==
    /\ Clamp!Init
    /\ \/ clamping = FALSE /\ Init
       \/ clamping = TRUE /\ batch = <<>> /\ extent = Window /\ budget = 0 /\ within = FALSE

MCNext ==
    \/ ~clamping /\ Next /\ UNCHANGED <<clamping, clamp_vars>>
    \/ clamping /\ Clamp!Next /\ UNCHANGED <<clamping, vars>>

MCSpec == MCInit /\ [][MCNext]_<<vars, clamping, clamp_vars>>

\* Clamping by way of the cache and the node used last gives what the whole terrain gives.
ClampsLikeWholeTerrain == Clamp!ClampsLikeWholeTerrain

\* The cache of tiles holds the files that were read last.
CacheIsLRU == Clamp!CacheIsLRU
================================================================================
