-------------------------- MODULE SmartReadCallback --------------------------
(***************************************************************************)
(* The reading of terrain tiles while features are clamped to the terrain:  *)
(* the cache of SmartReadCallback, the node it remembers as the most        *)
(* recently used one, and ClampFilter, which tries that node before the     *)
(* whole terrain.                                                           *)
(*                                                                         *)
(* The terrain is cut along a line: a tile is a file that covers an         *)
(* interval of places, and its bounding sphere reaches beyond it.  The      *)
(* cache is a map by name and a std::set ordered by the time of the last    *)
(* read, in which two entries of one time are one entry.                    *)
(***************************************************************************)
EXTENDS Integers, Sequences, FiniteSets, FiniteSetsExt, SequencesExt, Functions

CONSTANTS
    Tiles,            \* the files of the terrain, 1..n from one end to the other
    Readable,         \* those that can be read
    Width,            \* the places a tile covers
    Slack,            \* how far its bounding sphere reaches beyond
    Height,           \* the height of the terrain at a place
    max_cache_size,   \* at least 2: with less a file is given up before it is used
    ignore_z,
    Shapes,           \* the shapes to clamp
    MaxTicks          \* bound: the time on the clock

VARIABLES
    cache,      \* now, node_map (time stamps by name), mru, mru_node, what was asked for
                \* last and what went wrong
    shape,      \* the shape being clamped, as it came in, or NoShape
    parts,      \* its parts
    new_parts,  \* the parts that replace them
    at,         \* the part and the point that come next
    clamped_z,  \* the lowest height met
    output      \* the last shape clamped, with what became of it

vars == <<cache, shape, parts, new_parts, at, clamped_z, output>>

NoNode == 0
NoShape == [type |-> "none"]
DBL_MAX == 1000000

-----------------------------------------------------------------------------
(* Slips a change to the code could make (mutants). *)

\* The time stamp of an entry is left alone when it is read again.
RestampForgotten(c, file, now) == c

\* Both ends are only tested against the bounding sphere.
BothOnUnchecked(node, p, q) == TRUE
-----------------------------------------------------------------------------
(* The cache. *)

\* mru.insert( n ): nothing happens if an entry has the same time.
Insert(c, file, now) ==
    LET stamps == [f \in DOMAIN c.node_map \cup {file} |->
                       IF f = file THEN now ELSE c.node_map[f]]
        same == \E f \in c.mru : c.node_map[f] = now
    IN [c EXCEPT !.node_map = stamps, !.mru = IF same THEN @ ELSE @ \cup {file}]

\* mru.erase( mru.find( n ) ), a new time and mru.insert( n ).  find() knows an entry
\* by its time; when no entry has it, the end of the set is erased.
Restamp(c, file, now) ==
    LET found == {f \in c.mru : c.node_map[f] = c.node_map[file]}
    IN IF found = {}
       THEN [c EXCEPT !.undefined = TRUE]
       ELSE Insert([c EXCEPT !.mru = @ \ found], file, now)

\* The oldest entry goes when the cache is full.
Evict(c) ==
    IF Cardinality(c.mru) < max_cache_size THEN c
    ELSE LET oldest == CHOOSE f \in c.mru : \A g \in c.mru : c.node_map[f] <= c.node_map[g]
         IN [c EXCEPT !.mru = @ \ {oldest},
                      !.node_map = Restrict(@, DOMAIN @ \ {oldest})]

\* readNodeFile() at a time the clock gives: later than at the call before, or the same.
readNodeFile(c, file, elapsed) ==
    LET now == c.now + elapsed
        tie == \E f \in DOMAIN c.node_map \ {file} : c.node_map[f] = now
        timed == [c EXCEPT !.now = now, !.tied = @ \/ tie]
    IN IF c.undefined THEN c
       ELSE Evict(CASE file \in DOMAIN c.node_map -> Restamp(timed, file, now)
                    [] file \notin DOMAIN c.node_map /\ file \in Readable -> Insert(timed, file, now)
                    [] OTHER -> timed)

\* setMruNode(): a node, or else the one of the newest entry.
setMruNode(c, node) ==
    [c EXCEPT !.mru_node =
        IF node # NoNode \/ c.mru = {} THEN node
        ELSE CHOOSE f \in c.mru : \A g \in c.mru : c.node_map[f] >= c.node_map[g]]

-----------------------------------------------------------------------------
(* Intersections with the terrain. *)

From(tile) == (tile - 1) * Width
To(tile) == tile * Width
Covers(tile, x) == From(tile) <= x /\ x <= To(tile)
BoundHolds(tile, x) == From(tile) - Slack <= x /\ x <= To(tile) + Slack
Hits(tile, x) == tile \in Readable /\ Covers(tile, x)

\* getMruNodeIfContains(): the node used last if its bounding sphere holds the points.
getMruNodeIfContains(c, points) ==
    IF c.mru_node # NoNode /\ \A x \in points : BoundHolds(c.mru_node, x) THEN c.mru_node ELSE NoNode

\* terrain->accept( iv ) reads every tile whose bounding sphere the line from p to q meets.
Met(p, q) ==
    SetToSortSeq({t \in Tiles : From(t) - Slack <= Max({p, q}) /\ Min({p, q}) <= To(t) + Slack}, <)
ReadTerrain(c, files, elapsed) ==
    FoldLeft(LAMBDA d, i : readNodeFile(d, files[i], elapsed[i]),
             [c EXCEPT !.asked = SelectSeq(files, LAMBDA f : f \in Readable)],
             [i \in DOMAIN files |-> i])

\* The cut of a tile with the vertical plane through a segment.
Polyline(tile, p, q, z) ==
    LET from == Max({Min({p, q}), From(tile)})
        to == Min({Max({p, q}), To(tile)})
    IN IF tile \in Readable /\ from <= to
       THEN [i \in 1..(to - from + 1) |-> [x |-> from + i - 1, z |-> Height[from + i - 1] + z]]
       ELSE <<>>

\* The new parts for a segment: the cuts of the tiles that have two points or more.
Cuts(tiles, p, q, z) ==
    SelectSeq([i \in DOMAIN tiles |-> Polyline(tiles[i], p, q, z)], LAMBDA l : Len(l) >= 2)

\* Both ends of a segment are on the tile itself.
BothOn(node, p, q) == Hits(node, p) /\ Hits(node, q)

-----------------------------------------------------------------------------
(* ClampFilter. *)

\* cleansePart(): points that coincide with the one before them go.
cleansePart(part) ==
    FoldLeft(LAMBDA kept, p : IF kept # <<>> /\ Last(kept) = p THEN kept ELSE Append(kept, p), <<>>, part)

\* reapply the original Z value; a height of the ends is not interpolated
OriginalZ(p) == IF ignore_z \/ p.z <= 0 THEN 0 ELSE p.z

AsPoints == shape.simulate \/ shape.type # "line"
Lowest(a, b) == Min({a, b})

Init ==
    /\ cache = [now |-> 0, node_map |-> <<>>, mru |-> {}, mru_node |-> NoNode, asked |-> <<>>,
                undefined |-> FALSE, tied |-> FALSE]
    /\ shape = NoShape
    /\ parts = <<>>
    /\ new_parts = <<>>
    /\ at = [part |-> 1, point |-> 1]
    /\ clamped_z = DBL_MAX
    /\ output = NoShape

Process(s) ==
    /\ shape = NoShape
    /\ shape' = s
    /\ parts' = s.parts
    /\ new_parts' = <<>>
    /\ at' = [part |-> 1, point |-> 1]
    /\ clamped_z' = DBL_MAX
    /\ UNCHANGED <<cache, output>>

\* The times that pass while files are read, within the bound.
Elapsed(files) ==
    {e \in [DOMAIN files -> {0, 1}] :
        cache.now + SumFunction(e) <= MaxTicks}

\* One point of clampPointPartToTerrain(): the node used last, then the whole terrain.
ClampPoint ==
    LET here == parts[at.part][at.point]
        target == getMruNodeIfContains(cache, {here.x})
        files == IF target # NoNode /\ Hits(target, here.x) THEN <<>> ELSE Met(here.x, here.x)
        hits == {t \in (IF files = <<>> THEN {target} ELSE ToSet(files)) : Hits(t, here.x)}
    IN /\ shape # NoShape /\ AsPoints /\ ~cache.undefined
       /\ at.part <= Len(parts) /\ at.point <= Len(parts[at.part])
       /\ \E elapsed \in Elapsed(files) :
            LET read == ReadTerrain(cache, files, elapsed)
            IN cache' = IF hits = {} THEN read ELSE setMruNode(read, Min(hits))
       /\ IF hits = {}
          THEN UNCHANGED <<parts, clamped_z>>
          ELSE /\ parts' = IF shape.simulate THEN parts
                           ELSE [parts EXCEPT ![at.part][at.point].z = Height[here.x]]
               /\ clamped_z' = Lowest(clamped_z, Height[here.x])
       /\ at' = [at EXCEPT !.point = @ + 1]
       /\ UNCHANGED <<shape, new_parts, output>>

\* One segment of clampLinePartToTerrain().
ClampSegment ==
    LET p == parts[at.part][at.point]
        q == parts[at.part][at.point + 1]
        node == getMruNodeIfContains(cache, {p.x, q.x})
        onNode == node # NoNode /\ BothOn(node, p.x, q.x)
        files == IF onNode THEN <<>> ELSE Met(p.x, q.x)
        cuts == Cuts(IF onNode THEN <<node>> ELSE files, p.x, q.x, OriginalZ(p))
    IN /\ shape # NoShape /\ ~AsPoints /\ ~cache.undefined
       /\ at.part <= Len(parts) /\ at.point < Len(parts[at.part])
       /\ IF p = q
          THEN UNCHANGED <<cache, new_parts>>
          ELSE /\ \E elapsed \in Elapsed(files) :
                    LET read == ReadTerrain(cache, files, elapsed)
                    IN cache' = IF cuts = <<>> THEN read ELSE setMruNode(read, NoNode)
               /\ new_parts' = new_parts \o cuts
       /\ at' = [at EXCEPT !.point = @ + 1]
       /\ UNCHANGED <<shape, parts, clamped_z, output>>

NextPart ==
    /\ shape # NoShape /\ at.part <= Len(parts) /\ ~cache.undefined
    /\ at.point > Len(parts[at.part]) - (IF AsPoints THEN 0 ELSE 1)
    /\ parts' = IF shape.simulate THEN parts ELSE [parts EXCEPT ![at.part] = cleansePart(@)]
    /\ at' = [part |-> at.part + 1, point |-> 1]
    /\ UNCHANGED <<cache, shape, new_parts, clamped_z, output>>

\* New parts, if there are any, take the place of all the old ones.
EndOfShape ==
    /\ shape # NoShape /\ at.part > Len(parts)
    /\ output' = [of |-> shape, parts |-> IF new_parts = <<>> THEN parts ELSE new_parts, z |-> clamped_z]
    /\ shape' = NoShape
    /\ UNCHANGED <<cache, parts, new_parts, at, clamped_z>>

Next == (\E s \in Shapes : Process(s)) \/ ClampPoint \/ ClampSegment \/ NextPart \/ EndOfShape

Spec == Init /\ [][Next]_vars

-----------------------------------------------------------------------------
(* What clamping against the whole terrain gives, with no cache. *)

Tile(x) == {t \in Tiles : Hits(t, x)}
OnTerrain(p) == IF Tile(p.x) = {} THEN p ELSE [p EXCEPT !.z = Height[p.x]]
AllTiles == SetToSortSeq(Tiles, <)

Clamped(s) ==
    LET points == UNION {ToSet(s.parts[i]) : i \in DOMAIN s.parts}
        heights == {Height[p.x] : p \in {r \in points : Tile(r.x) # {}}}
        segments(part) == [i \in 1..(Len(part) - 1) |->
            IF part[i] = part[i + 1] THEN <<>>
            ELSE Cuts(AllTiles, part[i].x, part[i + 1].x, OriginalZ(part[i]))]
        lines == FlattenSeq(FlattenSeq([i \in DOMAIN s.parts |-> segments(s.parts[i])]))
    IN CASE s.simulate -> [parts |-> s.parts, z |-> Min(heights \cup {DBL_MAX})]
         [] ~s.simulate /\ s.type = "line" ->
              [parts |-> IF lines # <<>> THEN lines ELSE [i \in DOMAIN s.parts |-> cleansePart(s.parts[i])],
               z |-> DBL_MAX]
         [] OTHER -> [parts |-> [i \in DOMAIN s.parts |->
                          cleansePart([j \in DOMAIN s.parts[i] |-> OnTerrain(s.parts[i][j])])],
                      z |-> Min(heights \cup {DBL_MAX})]

\* Clamping through the cache and the node used last gives what the whole terrain would:
\* the node is only a short cut, whatever was clamped before, evicted, or read at the
\* same time (ClampFilter.cpp:188-199, 364-387).
ClampsLikeWholeTerrain ==
    output # NoShape => [parts |-> output.parts, z |-> output.z] = Clamped(output.of)

\* As long as no two reads fall into one tick of the clock, the cache holds the files read
\* last and gives up the one read longest ago, and never looks for an entry in vain
\* (SmartReadCallback.cpp:35-72).
LRU == INSTANCE LRUCache WITH
    Files <- Readable, Room <- max_cache_size - 1,
    asked <- cache.asked,
    recent <- IF cache.tied THEN <<>>
              ELSE SetToSortSeq(cache.mru, LAMBDA f, g : cache.node_map[f] < cache.node_map[g])

CacheIsLRU ==
    LRU!Init /\ [][cache'.tied \/ (LRU!Next /\ ~cache'.undefined /\ cache'.mru = DOMAIN cache'.node_map)]_cache
=============================================================================
