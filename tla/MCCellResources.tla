--------------------------- MODULE MCCellResources ---------------------------
(***************************************************************************)
(* Two cells, with the packagers of two levels, that share a skin, a model  *)
(* or a raster: pictures larger and smaller than the limits and in formats  *)
(* that cannot be resized or compressed, resources that are not there, and  *)
(* parts of rasters that do not connect.                                    *)
(***************************************************************************)
EXTENDS CellResources

Pic(base, ext, size, format) ==
  [path |-> [dir |-> "pictures", base |-> base, limit |-> 0, ext |-> ext], origin |-> Whole(base, size),
   size |-> size, pixel_format |-> format, compressed |-> FALSE]

MCPictures == [brick |-> Pic("brick", "JPG", 8, "RGB"), glass |-> Pic("glass", "png", 8, "RGBA"),
               wood |-> Pic("wood", "png", 4, "INTENSITY")]

MCModelFiles ==
  [tree |-> <<<<Pic("bark", "png", 4, "LUMINANCE")>>, <<Pic("leaf", "png", 8, "RGBA"), Pic("bump", "png", 8, "RGB")>>, <<>>>>,
   car  |-> <<<<[Pic("paint", "png", 2, "RGB") EXCEPT !.path = NoName]>>>>]

Skin(name, uri, limit, low, high, tags) ==
  [class |-> "SkinResource", name |-> name, uri |-> uri, limit |-> limit, min_height |-> low, max_height |-> high,
   repeats |-> FALSE, tags |-> tags]
Other(class, name, uri) == [class |-> class, name |-> name, uri |-> uri, tags |-> {}]

MCResources ==
  << Skin("house", "brick", 0, 0, 10, {"old"}), Skin("tower", "glass", 2, 5, 100, {"new"}),
     Skin("shed", "wood", 0, 0, 3, {}), Skin("house", "glass", 2, 0, 10, {}), Skin("lost", "nowhere", 0, 0, 1, {}),
     Other("ModelResource", "oak", "tree"), Other("ModelResource", "none", "nowhere"),
     Other("RasterResource", "ortho", ""), Other("RasterResource", "mixed", ""),
     Other("Resource", "thing", "") >>

MCParts ==
  [ortho |-> <<[connects |-> TRUE, area |-> {1}, pixel_format |-> "RGB"],
               [connects |-> FALSE, area |-> {1, 2}, pixel_format |-> "RGB"],
               [connects |-> TRUE, area |-> {2}, pixel_format |-> "RGB"]>>,
   mixed |-> <<[connects |-> TRUE, area |-> {1}, pixel_format |-> "RGB"],
               [connects |-> TRUE, area |-> {1}, pixel_format |-> "RGBA"]>>]

AnyHeight == [height |-> {}, min_height |-> {}, max_height |-> {}, repeats |-> {}, tags |-> {}]
Walls(name) == [kind |-> "walls", batch |-> FALSE, query |-> AnyHeight, name |-> name]
Batch(query) == [kind |-> "walls", batch |-> TRUE, query |-> query, name |-> "shed"]
Model(by, name, inline, bulk) ==
  [kind |-> "model", by |-> by, name |-> name, inline |-> inline, bulk |-> bulk, limit |-> 0]
Overlay(name, area, image) ==
  [kind |-> "raster", name |-> name, area |-> area, size |-> 4,
   image |-> [dir |-> "", base |-> image, limit |-> 0, ext |-> "jpg"]]

MCCells == 1..2
Packager(max, compress, inline) ==
  LayerPackager([localize_resources |-> TRUE, max_texture_size |-> max, compress_textures |-> compress,
                 inline_textures |-> inline])
LayerOf(one, two, p1, p2, archived, folder) ==
  [uses |-> <<one, two>>, packager |-> <<p1, p2>>, archived |-> archived, folder |-> folder, ive |-> TRUE]

Plain == LayerPackager([localize_resources |-> FALSE])
Streets == <<Walls("house"), Walls("house"), Batch([AnyHeight EXCEPT !.tags = {"new"}, !.height = {7}])>>
Woods == <<Model("name", "oak", TRUE, FALSE), Model("name", "oak", TRUE, FALSE), Walls("house")>>
Signs == <<Model("name", "oak", FALSE, FALSE), Model("path", "tree", FALSE, FALSE),
           Model("name", "none", FALSE, FALSE), Walls("nobody")>>
Parking == <<Model("path", "car", TRUE, FALSE), Model("name", "oak", TRUE, TRUE), Model("path", "tree", TRUE, TRUE)>>
Slums == <<Walls("lost"), Batch([AnyHeight EXCEPT !.height = {200}]), Model("name", "none", TRUE, FALSE),
           Model("path", "nowhere", TRUE, TRUE), Overlay("nothing", {1}, "r0")>>
Map1 == <<Overlay("ortho", {1, 2}, "r1"), Overlay("ortho", {3}, "r1b")>>
Map2 == <<Overlay("ortho", {2}, "r2"), Overlay("mixed", {1}, "r2b")>>

MCLayers ==
  { LayerOf(Streets, Woods, Packager(4, FALSE, FALSE), Packager(4, FALSE, FALSE), FALSE, TRUE),
    LayerOf(Woods, Parking, SlicePackager([max |-> 2], Packager(4, TRUE, FALSE)), Packager(4, TRUE, FALSE), FALSE, TRUE),
    LayerOf(Streets, Woods, Packager(2, TRUE, TRUE), Plain, FALSE, TRUE),
    LayerOf(Signs, Slums, Plain, Packager(1, FALSE, FALSE), FALSE, TRUE),
    LayerOf(Signs, Streets, Plain, Plain, TRUE, FALSE),
    LayerOf(Signs, Streets, Plain, Plain, FALSE, FALSE),
    LayerOf(Map1, Map2, Plain, Packager(2, FALSE, FALSE), FALSE, TRUE),
    LayerOf(<<>>, Map2, Plain, Plain, FALSE, TRUE) }

\* The theorem about the cells' files is about layers whose files are Apart: there are some
\* whose cells share a file.
ASSUME SharingAssumption ==
  \E l \in Layers : Apart(l) /\ \E f \in ToSet(FilesOf(l, 1)) : \E g \in ToSet(FilesOf(l, 2)) : f.name = g.name
=============================================================================
