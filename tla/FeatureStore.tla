------------------------------ MODULE FeatureStore ------------------------------
(***************************************************************************)
(* How features become rows of an OGR layer and features again             *)
(* (OGR_FeatureStore.cpp, OGR_Feature.cpp, Attribute.cpp).                  *)
(*                                                                         *)
(* A feature is [type, shapes, attrs]: shapes is a sequence of shapes, a    *)
(* shape a sequence of parts, a part a sequence of points; attrs maps names *)
(* to attributes [type, value, text].  A row is [wkb, geometry, fields].    *)
(***************************************************************************)
EXTENDS GeoShape

CONSTANTS
    Reported(_),    \* external: the geometry type the driver reports for a layer
    Text(_),        \* a number as text
    NoValue         \* an attribute that is not there

\* The driver takes lines and points as they come, and reports a layer of polygons
\* as the shapefile driver does.
ASSUME ReportedAssumption ==
    /\ Reported("polygon") = "Polygon"
    /\ Reported("line") \in {"LineString", "MultiLineString"}
    /\ Reported("point") \in {"Point", "MultiPoint"}

-------------------------------------------------------------------------------
Extent(f) == ShapesExtent(f.shapes)

\* GeoShapeList::intersects()
Meets(f, e) ==
    \/ e.is_infinite
    \/ \E shape \in ToSet(f.shapes) : \E part \in ToSet(shape) : PartMeets(part, e)

-------------------------------------------------------------------------------
(* Attributes.                                                             *)

IntAttr(n)    == [type |-> "int", value |-> n, text |-> Text(n)]
DoubleAttr(n) == [type |-> "double", value |-> n, text |-> Text(n)]
BoolAttr(b)   == [type |-> "bool", value |-> IF b THEN 1 ELSE 0, text |-> ""]
StringAttr(s) == [type |-> "string", value |-> NoValue, text |-> s]

IsAttribute(a) ==
    \/ a.value # NoValue /\ a \in {IntAttr(a.value), DoubleAttr(a.value)}
    \/ a \in {BoolAttr(TRUE), BoolAttr(FALSE)}
    \/ a.text # NoValue /\ a = StringAttr(a.text)

IsFeature(f) ==
    /\ f = [type |-> f.type, shapes |-> f.shapes, attrs |-> f.attrs]
    /\ f.type \in {"point", "line", "polygon"}
    /\ f.shapes \in Seq(Seq(Seq({p \in GeoPoints : p.ok})))
    /\ f.attrs = [n \in DOMAIN f.attrs |-> f.attrs[n]]
    /\ \A n \in DOMAIN f.attrs : IsAttribute(f.attrs[n])

FieldType(type) ==
    IF type \in {"int", "double"} THEN type ELSE "string"

\* What a field holds of an attribute: only the conversion its own type asks
\* for, where a bool has no text.  An attribute that is missing leaves the
\* field as OGR made it.
FieldValue(field, attrs, name) ==
    IF name \notin DOMAIN attrs THEN NoValue
    ELSE IF field = "string" THEN attrs[name].text ELSE attrs[name].value

AttrOf(field, value) ==
    CASE field = "int"    -> IntAttr(IF value = NoValue THEN 0 ELSE value)
      [] field = "double" -> DoubleAttr(IF value = NoValue THEN 0 ELSE value)
      [] field = "string" -> StringAttr(IF value = NoValue THEN "" ELSE value)

-------------------------------------------------------------------------------
(* Rows.                                                                   *)

ShapeType(wkb) ==
    CASE wkb \in {"LineString", "MultiLineString"} -> "line"
      [] wkb \in {"Point", "MultiPoint"}           -> "point"
      [] wkb \in {"Polygon", "MultiPolygon"}       -> "polygon"

\* createFeatureStore(), for the first feature that is written.
CreateLayer(f) ==
    [reported |-> Reported(f.type), fields |-> [n \in DOMAIN f.attrs |-> FieldType(f.attrs[n].type)]]

\* The points of a part go in backwards; an OGR point keeps the last it is given,
\* and is at the origin if it is given none.
EncodeShape(layer, shape) ==
    [i \in DOMAIN shape |-> IF ShapeType(layer.reported) # "point" THEN Reverse(shape[i])
                            ELSE IF shape[i] = <<>> THEN <<At(0, 0)>> ELSE <<shape[i][1]>>]

\* insertFeature(): a polygon goes with all its shapes, anything else with the
\* first one.
InsertFeature(layer, f) ==
    [wkb |-> IF layer.reported = "Polygon" THEN "MultiPolygon" ELSE layer.reported,
     geometry |-> IF layer.reported = "Polygon" \/ f.shapes = <<>>
                  THEN [i \in DOMAIN f.shapes |-> EncodeShape(layer, f.shapes[i])]
                  ELSE <<EncodeShape(layer, f.shapes[1])>>,
     fields |-> [n \in DOMAIN layer.fields |-> FieldValue(layer.fields[n], f.attrs, n)]]

\* A mutant that leaves the points in the order of the file.
DecodeShapeInOrder(shape) == shape

\* A geometry without parts is read as a part of its own, which has no points.
DecodeShape(shape) ==
    IF shape = <<>> THEN <<<<>>>> ELSE [i \in DOMAIN shape |-> Reverse(shape[i])]

\* OGR_Feature::load(): so no shape is without parts, and none is left out.
LoadFeature(layer, row) ==
    [type |-> ShapeType(row.wkb),
     shapes |-> [i \in DOMAIN row.geometry |-> DecodeShape(row.geometry[i])],
     attrs |-> [n \in DOMAIN layer.fields |-> AttrOf(layer.fields[n], row.fields[n])]]
================================================================================
