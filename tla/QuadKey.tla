------------------------------- MODULE QuadKey -------------------------------
(***************************************************************************)
(* The square map that a quad tree divides (QuadMap), the keys of its cells *)
(* (QuadKey) and the layer whose levels are laid on it (MapLayer), with the *)
(* way Builder fills the layer from slices within slices.                   *)
(*                                                                         *)
(* Places are whole numbers; an extent is [xmin, ymin, xmax, ymax].  A key  *)
(* is the sequence of the quadrants that lead to its cell.                  *)
(***************************************************************************)
EXTENDS Integers, Sequences, FiniteSetsExt, SequencesExt

Width(e) == e.xmax - e.xmin
Height(e) == e.ymax - e.ymin

Joined(e, f) ==
  [xmin |-> Min({e.xmin, f.xmin}), ymin |-> Min({e.ymin, f.ymin}),
   xmax |-> Max({e.xmax, f.xmax}), ymax |-> Max({e.ymax, f.ymax})]

-----------------------------------------------------------------------------
(* MapLayer, and Builder::addSlicesToMapLayer(). *)

NoExtent == [xmin |-> 1, ymin |-> 1, xmax |-> 0, ymax |-> 0]
NoSource == [extent |-> NoExtent]
EmptyLayer == [levels |-> <<>>, aoi_manual |-> NoExtent, aoi_auto |-> NoExtent]

push(layer, source, depth) ==
  [layer EXCEPT !.aoi_auto = IF @ = NoExtent THEN source.extent ELSE Joined(@, source.extent),
                !.levels = Append(@, [source |-> source, depth |-> depth])]

getAreaOfInterest(layer) == IF layer.aoi_manual # NoExtent THEN layer.aoi_manual ELSE layer.aoi_auto

getMaxDepth(layer) == Max({l.depth : l \in ToSet(layer.levels)} \union {0})

\* A slice without a source has the one of the slice around it.  Its sub-slices follow it,
\* one level deeper, before its siblings.
RECURSIVE addSlicesToMapLayer(_, _, _, _)
addSlicesToMapLayer(slices, layer, depth, parent_source) ==
  FoldLeft(LAMBDA l, slice :
             LET source == IF slice.source # NoSource THEN slice.source ELSE parent_source
                 pushed == IF source # NoSource THEN push(l, source, depth) ELSE l
             IN  addSlicesToMapLayer(slice.sub_slices, pushed, depth + 1, source),
           layer, slices)

-----------------------------------------------------------------------------
(* QuadMap *)

\* The cells of a level of detail are the squares of which 2^lod lie side by side.  The
\* best one for a size is the first whose cells are smaller in either direction.
getBestLodForCellsOfSize(bounds, width, height) ==
  LET smaller(lod) == width * 2^lod > Width(bounds) \/ height * 2^lod > Height(bounds)
  IN  CHOOSE lod \in 0..20 : smaller(lod) /\ \A l \in 0..(lod - 1) : ~smaller(l)

\* Slip: a cell that only touches the area is taken, too.
LastCellTouching(numerator, span) == numerator \div span

\* xmax < ceil( xmax )? xmax : xmax - 1
LastCell(numerator, span) == IF numerator % span # 0 THEN numerator \div span ELSE numerator \div span - 1

getCells(bounds, aoi, lod) ==
  [xmin |-> ((aoi.xmin - bounds.xmin) * 2^lod) \div Width(bounds),
   xmax |-> LastCell((aoi.xmax - bounds.xmin) * 2^lod, Width(bounds)),
   ymin |-> ((aoi.ymin - bounds.ymin) * 2^lod) \div Height(bounds),
   ymax |-> LastCell((aoi.ymax - bounds.ymin) * 2^lod, Height(bounds))]

\* The order of the loops over the cells: by rows, then columns.
CellsInOrder(cells) ==
  LET columns == cells.xmax - cells.xmin + 1
      rows == cells.ymax - cells.ymin + 1
  IN  [i \in 1..(columns * rows) |->
         [x |-> cells.xmin + ((i - 1) % columns), y |-> cells.ymin + ((i - 1) \div columns)]]

-----------------------------------------------------------------------------
(* QuadKey *)

Bit(n, i) == (n \div 2^i) % 2

Key(x, y, lod) == [i \in 1..lod |-> Bit(x, lod - i) + 2 * Bit(y, lod - i)]

getLOD(key) == Len(key)
createSubKey(key, quadrant) == Append(key, quadrant)
createParentKey(key) == IF key = <<>> THEN key ELSE Front(key)

Quadrants == <<0, 1, 2, 3>>
SubKeys(key) == [i \in DOMAIN Quadrants |-> createSubKey(key, Quadrants[i])]

\* getExtent(), in units of which 2^lod make the bounds: every digit halves the cell and
\* takes one side of it.
ExtentOf(key) ==
  FoldLeft(LAMBDA at, digit : [x |-> 2 * at.x + (IF digit \in {1, 3} THEN 1 ELSE 0),
                               y |-> 2 * at.y + (IF digit \in {2, 3} THEN 1 ELSE 0)],
           [x |-> 0, y |-> 0], key)
=============================================================================
