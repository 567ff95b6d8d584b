---------------------- MODULE QuadTreeMapLayerCompiler ----------------------
(***************************************************************************)
(* The build of a layer as a quad tree: the keys for which tiles are        *)
(* compiled, and the index that leads the viewer from the root to them.     *)
(*                                                                         *)
(* The tasks run as those of a gridded layer do; here the compile loop is   *)
(* one step that leaves any of the tiles on disk.  The index is written     *)
(* file by file.  The program may stop and be run again on what it left.    *)
(***************************************************************************)
EXTENDS QuadKey, FiniteSets, TLC

CONSTANTS
  Jobs,          \* what may be built: slices, cell size, target, archive, and the bounds
                 \* max_runs (runs of the program) and max_missing (tiles a run leaves out)
  MaxUnwritten   \* bound on the index files that are not written in a run

VARIABLES
  job,
  pc,         \* "stopped", "queued", "indexing" or "done"
  runs,
  tasks,      \* the tasks, by key, with the definition that each compiles
  tiles,      \* keys whose tile "g"... is in the folder
  archived,   \* keys whose tile is in the archive
  todo,       \* the cells whose index is still to be built
  indexes,    \* the index files "i"..., by key
  scene,      \* keys that the root refers to
  unwritten   \* keys whose index file could not be written in this run

vars == <<job, pc, runs, tasks, tiles, archived, todo, indexes, scene, unwritten>>

-----------------------------------------------------------------------------
(* The layer and its profile. *)

map_layer == addSlicesToMapLayer(job.slices, EmptyLayer, 0, NoSource)
levels == map_layer.levels
aoi == getAreaOfInterest(map_layer)

\* createProfile(): the earth is taken as wide as it is from twice below the south pole;
\* other maps are the square that begins where the area of interest does.
bounds ==
  IF job.geocentric THEN job.earth
  ELSE LET max_span == Max({Width(aoi), Height(aoi)})
       IN  [xmin |-> aoi.xmin, ymin |-> aoi.ymin, xmax |-> aoi.xmin + max_span, ymax |-> aoi.ymin + max_span]

getTopLod ==
  LET bottom_lod == getBestLodForCellsOfSize(bounds, job.cell_width, job.cell_height)
  IN  Max({0, bottom_lod - getMaxDepth(map_layer)})

LodOf(level) == getTopLod + levels[level].depth

\* The first definition of the depth.
getDefinition(key) ==
  LET same == {l \in DOMAIN levels : levels[l].depth = getLOD(key) - getTopLod}
  IN  IF same = {} THEN 0 ELSE Min(same)

\* The cells of a level over the area of interest; each has four tiles.
CellsOf(level) ==
  LET cells == CellsInOrder(getCells(bounds, aoi, LodOf(level)))
  IN  [i \in DOMAIN cells |-> [level |-> level, key |-> Key(cells[i].x, cells[i].y, LodOf(level))]]
AllCells == FlattenSeq([l \in DOMAIN levels |-> CellsOf(l)])

collectGeometryKeys == FlattenSeq([i \in DOMAIN AllCells |-> SubKeys(AllCells[i].key)])

\* A task for one tile of a cell; without a definition of the cell's depth there is none.
createQuadKeyTask(key) == [key |-> key, def |-> getDefinition(createParentKey(key))]

-----------------------------------------------------------------------------
Init ==
  /\ job \in Jobs
  /\ pc = "stopped" /\ runs = 0
  /\ tasks = <<>> /\ todo = <<>> /\ scene = {} /\ unwritten = {}
  /\ tiles = {} /\ archived = {} /\ indexes = <<>>

\* queueTasks(); an archive is created anew.
QueueTasks ==
  /\ pc \in {"stopped", "done"} /\ runs < job.max_runs
  /\ runs' = runs + 1 /\ pc' = "queued"
  /\ tasks' = [i \in DOMAIN collectGeometryKeys |-> createQuadKeyTask(collectGeometryKeys[i])]
  /\ archived' = {} /\ scene' = {} /\ unwritten' = {} /\ todo' = <<>>
  /\ UNCHANGED <<job, tiles, indexes>>

\* The compile loop: a tile gets a file if it has geometry, is selected and is not cut off
\* by a failure.  What was in the folder stays.
CompileTiles ==
  /\ pc = "queued"
  /\ LET keys == {t.key : t \in {t \in ToSet(tasks) : t.def # 0}}
     IN  \E n \in 0..Min({job.max_missing, Cardinality(keys)}) : \E missing \in kSubset(n, keys) :
           IF job.archive THEN archived' = keys \ missing /\ UNCHANGED tiles
           ELSE tiles' = tiles \union (keys \ missing) /\ UNCHANGED archived
  /\ pc' = "indexing" /\ todo' = AllCells
  /\ UNCHANGED <<job, runs, tasks, indexes, scene, unwritten>>

-----------------------------------------------------------------------------
(***************************************************************************)
(* buildIndex().  The files are looked for in the folder, never in the      *)
(* archive.                                                                 *)
(***************************************************************************)
Present(key) == SelectSeq(SubKeys(key), LAMBDA k : k \in tiles)

\* Slip: the index below is referred to without its tile.
IntermediateWithoutTiles(key) == [tiles |-> {}, indexes |-> ToSet(Present(key))]

\* A sub-tile is shown from afar, and what its own index leads to from close up.
createIntermediateIndexNode(key) == [tiles |-> ToSet(Present(key)), indexes |-> ToSet(Present(key))]
createLeafIndexNode(key) == [tiles |-> ToSet(Present(key)), indexes |-> {}]

IndexNode(cell) ==
  IF cell.level < Len(levels) THEN createIntermediateIndexNode(cell.key) ELSE createLeafIndexNode(cell.key)

\* At the top level the root refers to the index, whether or not it was written.
BuildIndexNode ==
  /\ pc = "indexing" /\ todo # <<>>
  /\ LET cell == Head(todo)
         node == IndexNode(cell)
         written == indexes' = (cell.key :> node) @@ indexes /\ UNCHANGED unwritten
         failed == unwritten' = unwritten \union {cell.key} /\ UNCHANGED indexes
     IN  IF Present(cell.key) = <<>> THEN UNCHANGED <<indexes, scene, unwritten>>
         ELSE /\ written \/ (Cardinality(unwritten) < MaxUnwritten /\ failed)
              /\ scene' = IF cell.level = 1 THEN scene \union {cell.key} ELSE scene
  /\ todo' = Tail(todo)
  /\ UNCHANGED <<job, pc, runs, tasks, tiles, archived>>

FinishCompiling ==
  /\ pc = "indexing" /\ todo = <<>>
  /\ pc' = "done"
  /\ UNCHANGED <<job, runs, tasks, tiles, archived, todo, indexes, scene, unwritten>>

Crash ==
  /\ pc \in {"queued", "indexing"}
  /\ pc' = "stopped" /\ tasks' = <<>> /\ todo' = <<>>
  /\ UNCHANGED <<job, runs, tiles, archived, indexes, scene, unwritten>>

Next == QueueTasks \/ CompileTiles \/ BuildIndexNode \/ FinishCompiling \/ Crash

Spec == Init /\ [][Next]_vars

-----------------------------------------------------------------------------
(***************************************************************************)
(* Properties.                                                             *)
(***************************************************************************)

\* The middle of a unit of the area of interest, in the cells of a level of detail.
CellAt(x, y, lod) ==
  [x |-> ((2 * (x - bounds.xmin) + 1) * 2^lod) \div (2 * Width(bounds)),
   y |-> ((2 * (y - bounds.ymin) + 1) * 2^lod) \div (2 * Height(bounds))]

\* The tiles of each level cover the area of interest, each place once, none of them in a
\* cell that the area does not meet, and each has a definition of its depth to compile:
\* rounding in getCells(), the digits of a key, its extent and the depth taken back from its
\* length fit together, at the edges of the map too (QuadKey.cpp:100-122, 160-180, 215-240).
TilesCoverArea ==
  pc = "queued" =>
    /\ \A t \in ToSet(tasks) : t.def # 0 /\ LodOf(t.def) = getLOD(t.key) - 1
    /\ \A l \in DOMAIN levels :
         LET lod == LodOf(l) + 1
             covered == {CellAt(x, y, lod) : x \in aoi.xmin..(aoi.xmax - 1), y \in aoi.ymin..(aoi.ymax - 1)}
             parents == {[x |-> c.x \div 2, y |-> c.y \div 2] : c \in covered}
             keys == [i \in DOMAIN CellsOf(l) |-> SubKeys(CellsOf(l)[i].key)]
             extents == [i \in DOMAIN FlattenSeq(keys) |-> ExtentOf(FlattenSeq(keys)[i])]
         IN  /\ covered \subseteq ToSet(extents)
             /\ IsInjective(extents)
             /\ \A e \in ToSet(extents) : [x |-> e.x \div 2, y |-> e.y \div 2] \in parents

\* Levels that follow each other, one step deeper each.
IsChain == \A l \in DOMAIN levels : l > 1 => levels[l].depth = levels[l - 1].depth + 1

\* Whether the viewer comes to a tile: from the root by the index files that lead to it.
Reached ==
  LET reach[n \in 0..Len(levels)] ==
        IF n = 0 THEN [cells |-> scene, tiles |-> {}]
        ELSE LET open == {k \in reach[n - 1].cells : k \in DOMAIN indexes}
             IN  [cells |-> UNION {indexes[k].indexes : k \in open},
                  tiles |-> reach[n - 1].tiles \union UNION {indexes[k].tiles : k \in open}]
  IN  reach[Len(levels)].tiles

\* When the index is complete, the viewer comes to every tile above which there is one at
\* every level, whatever earlier, interrupted runs left; an index file that is referred to
\* and is not there has no tile to lead to (QuadTreeMapLayerCompiler.cpp:238-313, 384-476).
\* It is so for levels that follow each other and tiles in the folder.
EveryTileIsReached ==
  (pc = "done" /\ IsChain /\ unwritten = {} /\ ~job.archive) =>
    /\ \A k \in tiles :
         (\A n \in (LodOf(1) + 1)..getLOD(k) : SubSeq(k, 1, n) \in tiles) => k \in Reached
    /\ \A k \in DOMAIN indexes : \A i \in indexes[k].indexes :
         i \in DOMAIN indexes \/ ToSet(SubKeys(i)) \intersect tiles = {}
=============================================================================
