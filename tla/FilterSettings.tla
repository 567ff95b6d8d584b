--------------------------- MODULE FilterSettings ---------------------------
(***************************************************************************)
(* The settings of filters and resources: what a new object has, what a    *)
(* copy of it takes over, which property of a project file sets which      *)
(* setting, and which settings getProperties() writes.  A class is data:   *)
(* a table of its settings.  A setting has its initial value, its values,  *)
(* the values for which a property is written, the text written for each   *)
(* value and the value each text is read as; a text that is not listed     *)
(* there leaves the setting as it was.                                     *)
(*                                                                         *)
(* A filter runs as a copy: Filter::newState() clones the filter of the    *)
(* project, once for every run of its graph.                               *)
(***************************************************************************)
EXTENDS Integers, TLC

Numbers == {"-5", "0", "1", "5"}
Positive == {"1", "5"}
Codes == {"", "'text'", "feature.height"}
Words == {"", "word"}
Yes == {"true", "yes", "on"}
ShapeTypes == {"unspecified", "point", "line", "polygon"}
TextureModes == {"modulate", "decal", "replace", "blend"}
Texts == Numbers \cup Codes \cup Words \cup Yes \cup {"false"} \cup ShapeTypes \cup TextureModes

\* A script that was never set.
NoScript == "no script"

Setting(init, values, text, read) ==
    [init |-> init, values |-> values, written |-> values, text |-> text, read |-> read]

Flag(init) ==
    Setting(init, BOOLEAN, [b \in BOOLEAN |-> IF b THEN "true" ELSE "false"], [t \in Texts |-> t \in Yes])
Number(init) ==
    Setting(init, Numbers, [n \in Numbers |-> n], [n \in Numbers |-> n])
Word(init) ==
    Setting(init, Words, [w \in Words |-> w], [t \in Texts |-> t])
Code(init) ==
    [Setting(init, Codes \cup {NoScript}, [c \in Codes |-> c], [t \in Texts |-> t])
        EXCEPT !.written = Codes]
\* A setting no property of a file sets.
Internal(init, values) ==
    [Setting(init, values, <<>>, <<>>) EXCEPT !.written = {}]

ChangedOnly(s) == [s EXCEPT !.written = s.values \ {s.init}]
PositiveOnly(s) == [s EXCEPT !.written = Positive]

\* A class with its own settings on top of its base class's, and those of its
\* own that its copy constructor takes over.
Derived(base, settings, copied) ==
    [settings |-> settings @@ base.settings, copied |-> copied \cup base.copied]

(***************************************************************************)
(* The filters.                                                            *)
(***************************************************************************)
Filter == [settings |-> [name |-> Internal("", Words)], copied |-> {"name"}]

AlignFilter ==
    Derived(Filter, [radius |-> ChangedOnly(Number("5")),
                     output_attribute |-> ChangedOnly(Word("")),
                     alignment_layer |-> ChangedOnly(Word(""))],
            {"radius", "output_attribute", "alignment_layer"})
BufferFilter ==
    Derived(Filter, [distance |-> PositiveOnly(Number("0")),
                     convert_to_polygon |-> ChangedOnly(Flag(TRUE))],
            {"distance", "convert_to_polygon"})

BuildGeomFilter ==
    Derived(Filter, [overall_color |-> Internal("white", {"white", "red"}),
                     color |-> Code(NoScript),
                     raster_overlay |-> Code(NoScript),
                     raster_overlay_max_size |-> ChangedOnly(Number("0")),
                     \* the script itself is written, as an object without a text
                     feature_name |-> [Code(NoScript) EXCEPT !.text = [c \in Codes |-> ""]]],
            {"overall_color", "color", "raster_overlay", "raster_overlay_max_size", "feature_name"})
BuildLabelsFilter ==
    Derived(BuildGeomFilter, [text |-> Code("'text'"),
                              disable_depth_test |-> ChangedOnly(Flag(TRUE)),
                              font_size |-> Code(NoScript),
                              font |-> ChangedOnly(Word(""))],
            {"text", "disable_depth_test", "font_size", "font"})
ExtrudeGeomFilter ==
    Derived(BuildGeomFilter, [height |-> Code(NoScript),
                              wall_skin |-> Code(NoScript),
                              uniform_height |-> ChangedOnly(Flag(TRUE))],
            {"height", "wall_skin", "uniform_height"})

\* Mutant: the copy constructor leaves out the two settings that came last.
BuildNodesFilterForgets ==
    Derived(Filter, [optimize |-> Flag(TRUE), embed_attributes |-> ChangedOnly(Flag(FALSE)),
                     alpha_blending |-> ChangedOnly(Flag(FALSE))], {"optimize"})
BuildNodesFilter ==
    Derived(Filter, [optimize |-> Flag(TRUE), cull_backfaces |-> Flag(TRUE),
                     apply_cluster_culling |-> Flag(FALSE), disable_lighting |-> Flag(FALSE),
                     line_width |-> Number("0"), point_size |-> Number("0"),
                     raster_overlay |-> Code(NoScript),
                     raster_overlay_max_size |-> ChangedOnly(Number("0")),
                     embed_attributes |-> ChangedOnly(Flag(FALSE)),
                     alpha_blending |-> ChangedOnly(Flag(FALSE))],
            {"optimize", "cull_backfaces", "apply_cluster_culling", "disable_lighting", "line_width",
             "point_size", "raster_overlay", "raster_overlay_max_size", "embed_attributes", "alpha_blending"})
SubstituteModelFilter ==
    Derived(Filter, [model |-> Code(NoScript), model_path |-> Code(NoScript),
                     cluster |-> ChangedOnly(Flag(FALSE)),
                     model_scale |-> Code(NoScript), model_heading |-> Code(NoScript),
                     model_max_texture_size |-> Code(NoScript), feature_name |-> Code(NoScript),
                     optimize_model |-> ChangedOnly(Flag(FALSE)),
                     inline_model |-> ChangedOnly(Flag(TRUE)),
                     auto_scale |-> ChangedOnly(Flag(FALSE))],
            {"model", "model_path", "cluster", "model_scale", "model_heading", "model_max_texture_size",
             "feature_name", "optimize_model", "inline_model", "auto_scale"})

TransformFilter ==
    Derived(Filter, [matrix |-> Internal("identity", {"identity", "scaled"}),
                     srs_object |-> Internal("none", {"none", "wgs84"}),
                     localize |-> ChangedOnly(Flag(FALSE)),
                     use_terrain_srs |-> ChangedOnly(Flag(FALSE)),
                     translate |-> Code(NoScript), srs |-> Code(NoScript)],
            {"matrix", "srs_object", "localize", "use_terrain_srs", "translate", "srs"})
ClampFilter ==
    Derived(Filter, [ignore_z |-> Flag(FALSE),
                     clamped_z_output_attribute |-> ChangedOnly(Word("")),
                     simulate |-> ChangedOnly(Flag(FALSE))],
            {"ignore_z", "clamped_z_output_attribute", "simulate"})

ChangeShapeTypeFilter ==
    Derived(Filter, [new_shape_type |->
                        Setting("line", ShapeTypes, [s \in ShapeTypes |-> s],
                                [t \in Texts |-> IF t \in ShapeTypes THEN t ELSE "unspecified"])],
            {"new_shape_type"})
DecimateFilter == Derived(Filter, [distance_threshold |-> Number("0")], {"distance_threshold"})
DensifyFilter == Derived(Filter, [threshold |-> Number("0")], {"threshold"})
SelectFilter == Derived(Filter, [select |-> Code(NoScript)], {"select"})
WriteFeaturesFilter == Derived(Filter, [output_uri |-> ChangedOnly(Word(""))], {"output_uri"})
WriteTextFilter ==
    Derived(Filter, [output |-> Code(NoScript), text |-> Code(NoScript), append |-> ChangedOnly(Flag(FALSE))],
            {"output", "text", "append"})
CombineLinesFilter == Filter
ConvexHullFilter == Filter
CropFilter == Filter
RemoveHolesFilter == Filter
LocalizeNodesFilter == Filter

CollectionFilter ==
    Derived(Filter, [metering |-> ChangedOnly(Number("0")), group_property |-> ChangedOnly(Word(""))],
            {"metering", "group_property"})
GroupFilter == Derived(CollectionFilter, [group |-> Code(NoScript)], {"group"})
\* The constructor meters one feature at a time; the property is written whenever it is not 0.
RecalculateExtentFilter ==
    [CollectionFilter EXCEPT !.settings.metering.init = "1"]
\* A number of groups below one is taken as one.
RandomGroupingFilter ==
    Derived(CollectionFilter,
            [num_groups |-> Setting("5", Positive, [n \in Positive |-> n],
                                    [n \in Numbers |-> IF n \in Positive THEN n ELSE "1"]),
             seed |-> Internal("0", Numbers)],
            {"num_groups", "seed"})

FilterClasses ==
    [AlignFilter |-> AlignFilter, BufferFilter |-> BufferFilter, BuildGeomFilter |-> BuildGeomFilter,
     BuildLabelsFilter |-> BuildLabelsFilter, BuildNodesFilter |-> BuildNodesFilter,
     ChangeShapeTypeFilter |-> ChangeShapeTypeFilter, ClampFilter |-> ClampFilter,
     CollectionFilter |-> CollectionFilter, CombineLinesFilter |-> CombineLinesFilter,
     ConvexHullFilter |-> ConvexHullFilter, CropFilter |-> CropFilter, DecimateFilter |-> DecimateFilter,
     DensifyFilter |-> DensifyFilter, ExtrudeGeomFilter |-> ExtrudeGeomFilter, GroupFilter |-> GroupFilter,
     LocalizeNodesFilter |-> LocalizeNodesFilter, RandomGroupingFilter |-> RandomGroupingFilter,
     RecalculateExtentFilter |-> RecalculateExtentFilter, RemoveHolesFilter |-> RemoveHolesFilter,
     SelectFilter |-> SelectFilter, SubstituteModelFilter |-> SubstituteModelFilter,
     TransformFilter |-> TransformFilter, WriteFeaturesFilter |-> WriteFeaturesFilter,
     WriteTextFilter |-> WriteTextFilter]
FilterTypes == DOMAIN FilterClasses

(***************************************************************************)
(* The resources.  The texture mode is written as a C string, for which    *)
(* Property has no constructor but the one that takes a flag.              *)
(***************************************************************************)
Resource == [settings |-> [single_use |-> Internal(FALSE, BOOLEAN)], copied |-> {}]
TextureMode ==
    ChangedOnly(Setting("modulate", TextureModes, [m \in TextureModes |-> "true"],
                        [t \in Texts |-> IF t \in TextureModes THEN t ELSE "modulate"]))
SkinResource ==
    Derived(Resource, [texture_width |-> Number("5"), texture_height |-> Number("5"),
                       min_texture_height |-> Number("0"), max_texture_height |-> Number("5"),
                       color |-> Word("word"), repeats_vertically |-> Flag(TRUE),
                       texture_mode |-> TextureMode, max_texture_size |-> ChangedOnly(Number("0"))], {})
RasterResource == Derived(Resource, [texture_mode |-> TextureMode], {})
SRSResource == Derived(Resource, [wkt |-> ChangedOnly(Word(""))], {})

ResourceClasses ==
    [SkinResource |-> SkinResource, RasterResource |-> RasterResource, SRSResource |-> SRSResource,
     ModelResource |-> Resource, PathResource |-> Resource, FeatureLayerResource |-> Resource]

(***************************************************************************)
(* Objects of a class and what is done with their settings.                *)
(***************************************************************************)
NewSettings(class) == [s \in DOMAIN class.settings |-> class.settings[s].init]

setProperty(class, settings, name, text) ==
    IF name \in DOMAIN class.settings /\ text \in DOMAIN class.settings[name].read
    THEN [settings EXCEPT ![name] = class.settings[name].read[text]]
    ELSE settings

\* The properties written for an object, by name.
getProperties(class, settings) ==
    LET written == {s \in DOMAIN class.settings : settings[s] \in class.settings[s].written} IN
    [s \in written |-> class.settings[s].text[settings[s]]]

\* The copy constructor: what it does not take over is as in a new object.
clone(class, settings) ==
    [s \in DOMAIN settings |-> IF s \in class.copied THEN settings[s] ELSE class.settings[s].init]
=============================================================================
