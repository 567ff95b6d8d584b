-------------------------- MODULE ResourcePackager --------------------------
(***************************************************************************)
(* What the ResourcePackager makes of the textures of one cell: the names   *)
(* it writes into the scene graph (rewriteResourceReferences) and the       *)
(* images it writes beside it (packageResources).                           *)
(*                                                                         *)
(* A path is a record: its folder, the name without extension, the suffix   *)
(* for the size limit (0: none) and the extension.  An image is the file it *)
(* refers to, where its pixels come from, its size (images are square here, *)
(* with a power of two on each side), its pixel format and whether it is    *)
(* compressed.                                                              *)
(***************************************************************************)
EXTENDS Naturals, Sequences, FiniteSets, SequencesExt

NoName == [dir |-> "", base |-> "", limit |-> 0, ext |-> ""]

Simple(path) == [path EXCEPT !.dir = ""]

\* Builder: a layer has its resources limited, compressed and inlined only if it is localized.
LayerPackager(props) ==
    IF props.localize_resources
    THEN [max |-> props.max_texture_size, compress |-> props.compress_textures, inline |-> props.inline_textures]
    ELSE [max |-> 0, compress |-> FALSE, inline |-> FALSE]

\* A slice takes over the packager of the layer or slice around it where it says nothing.
SlicePackager(own, default) == own @@ default

-----------------------------------------------------------------------------
(* rewriteResourceReferences() *)

LowerCase(ext) == IF ext = "JPG" THEN "jpg" ELSE ext

Rewritten(packager, path) ==
    LET limited == IF packager.max = 0 THEN Simple(path)
                   ELSE [Simple(path) EXCEPT !.limit = packager.max, !.ext = LowerCase(@)]
    IN  IF packager.compress THEN [limited EXCEPT !.ext = "dds"] ELSE limited

-----------------------------------------------------------------------------
(* packageResources() *)

Resizable == {"RGBA", "RGB", "LUMINANCE", "LUMINANCE_ALPHA"}

\* The limit of the skin and that of the packager: the smaller one that is set.
SizeLimit(packager, limit) ==
    IF limit = 0 THEN packager.max
    ELSE IF packager.max = 0 \/ limit < packager.max THEN limit ELSE packager.max

resizeImage(image, size) ==
    IF image.pixel_format \in Resizable THEN [image EXCEPT !.size = size, !.path = NoName] ELSE image

Limited(packager, limit, image) ==
    LET new_size == SizeLimit(packager, limit)
    IN  IF 0 < new_size /\ new_size < image.size THEN resizeImage(image, new_size) ELSE image

Compressible == {"RGB", "RGBA"}

\* An image without a name gets one here, which the scene graph does not know.
FileName(image) ==
    IF Simple(image.path) = NoName THEN [NoName EXCEPT !.base = "tex", !.ext = "rgb"] ELSE Simple(image.path)

Output(packager, limit, image) ==
    LET limited == Limited(packager, limit, image)
        dds == [FileName(image) EXCEPT !.ext = "dds"]
    IN  IF packager.compress /\ limited.pixel_format \in Compressible
        THEN [name |-> dds, image |-> [limited EXCEPT !.compressed = TRUE, !.path = dds]]
        ELSE [name |-> FileName(image), image |-> limited]
=============================================================================
