------------------------- MODULE MCMapLayerCompiler -------------------------
(* Small layers for MapLayerCompiler: values that a .cfg cannot write. *)
EXTENDS MapLayerCompiler

MCTasks == 1..(NumCells * MaxLevels)

AllGeometry == [l \in 1..MaxLevels |-> [c \in Cells |-> "geometry"]]

\* Geometry at each level and in each cell, an empty cell and one that fails.
MixedContents ==
  {[AllGeometry EXCEPT ![1][1] = "nothing", ![MaxLevels][NumCells] = "error"]}

OnlyGeometry == {AllGeometry}

\* Two nested slices; a nested slice under one without a source.
ChainLayouts == {<<0, 1>>, <<1>>}

\* Two slices side by side.
SiblingLayouts == {<<0, 0>>}

AllCells == {Cells}
AnyCells == {Cells, {1}}
=============================================================================
