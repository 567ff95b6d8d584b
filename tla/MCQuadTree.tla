----------------------------- MODULE MCQuadTree -----------------------------
(***************************************************************************)
(* Layers for the quad tree: chains of one to three levels on a geocentric  *)
(* and on a plain map, areas that end inside a cell, at its edge and at the *)
(* edge of the map, a slice without a source, siblings of one depth, and an *)
(* archive.  Places are in units no larger than the smallest tile.          *)
(***************************************************************************)
EXTENDS QuadTreeMapLayerCompiler

Area(x, y, w, h) == [xmin |-> x, ymin |-> y, xmax |-> x + w, ymax |-> y + h]
Slice(extent, subs) == [source |-> [extent |-> extent], sub_slices |-> subs]
Around(subs) == [source |-> NoSource, sub_slices |-> subs]

JobOf(slices, width, height, geocentric, archive, max_runs, max_missing) ==
  [slices |-> slices, cell_width |-> width, cell_height |-> height, geocentric |-> geocentric,
   earth |-> Area(-64, -64, 128, 96), archive |-> archive,
   max_runs |-> max_runs, max_missing |-> max_missing]

MCJobs ==
  { \* chains: of three levels at the edge of the earth, of two on a plain map
    JobOf(<<Slice(Area(-62, 27, 4, 3), <<Slice(Area(-62, 28, 2, 2), <<Slice(Area(-60, 28, 1, 1), <<>>)>>)>>)>>,
          16, 12, TRUE, FALSE, 1, 6),
    JobOf(<<Slice(Area(3, 5, 8, 8), <<Slice(Area(3, 5, 8, 8), <<>>)>>)>>, 9, 9, FALSE, FALSE, 1, 2),
    JobOf(<<Around(<<Slice(Area(1, 1, 4, 2), <<>>)>>)>>, 5, 5, FALSE, FALSE, 2, 4),
    \* one level: parts of cells, a flat area, an area that ends at the edge of a cell
    JobOf(<<Slice(Area(3, 5, 8, 8), <<>>)>>, 5, 5, FALSE, FALSE, 1, 3),
    JobOf(<<Slice(Area(0, 0, 12, 6), <<>>)>>, 7, 7, FALSE, FALSE, 2, 4),
    JobOf(<<Slice(Area(0, -16, 16, 24), <<>>)>>, 40, 40, TRUE, FALSE, 1, 3),
    \* two siblings; two levels in an archive
    JobOf(<<Slice(Area(-20, -4, 3, 2), <<>>), Slice(Area(-16, -2, 2, 2), <<>>)>>, 50, 40, TRUE, FALSE, 2, 2),
    JobOf(<<Slice(Area(1, 1, 2, 2), <<Around(<<>>)>>)>>, 5, 5, FALSE, TRUE, 2, 1) }
=============================================================================
