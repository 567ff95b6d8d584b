----------------------------- MODULE ProjectFile -----------------------------
(***************************************************************************)
(* A project and the XML file it is kept in: XmlSerializer, XmlDocument    *)
(* and the objects of a Project.  A file is a tree of elements.  Loading   *)
(* one reads what it includes first, then scripts, resources, graphs,      *)
(* terrains, sources, layers, targets and maps, each list finding what it  *)
(* refers to by name among what was read before: a reference is the        *)
(* identity of the object that was found, NoObject if there was none.      *)
(* Saving writes names again.                                              *)
(*                                                                         *)
(* Texts and numbers are strings; a path is a sequence of names, its last  *)
(* one the file.                                                           *)
(***************************************************************************)
EXTENDS FilterSettings, Sequences, SequencesExt, FiniteSetsExt

CONSTANTS
    Uris,           \* the project files
    InitialFiles,   \* the files there can be at first: functions from Uris to documents
    MaxEdits,       \* bound on the changes made to projects
    MaxWrites       \* bound on the times a file is written

VARIABLES
    disk,       \* the files
    project,    \* the project in memory
    edits,      \* the changes made to projects
    writes      \* the times a file was written

vars == <<disk, project, edits, writes>>

NoProject == [loaded |-> FALSE]
NoObject == <<>>
FLT_MAX == "FLT_MAX"

(***************************************************************************)
(* Elements.                                                               *)
(***************************************************************************)
XmlElement(name, attrs, text, children) ==
    [name |-> name, attrs |-> attrs, text |-> text, children |-> children]
getAttr(e, key) == IF key \in DOMAIN e.attrs THEN e.attrs[key] ELSE ""
getSubElements(e, name) == SelectSeq(e.children, LAMBDA c : c.name = name)
getSubElementText(e, name) ==
    LET found == getSubElements(e, name) IN IF found = <<>> THEN "" ELSE found[1].text

\* Files: what a document was read to, or that there is nothing to read.
NoFile == [root |-> <<>>, whole |-> FALSE]
Empty == [root |-> <<>>, whole |-> FALSE]
Document(root) == [root |-> <<root>>, whole |-> TRUE]
\* A file whose end is missing, as far as it was written.
Truncated(doc, n) ==
    [root |-> <<[doc.root[1] EXCEPT !.children = SubSeq(@, 1, n)]>>, whole |-> FALSE]

(***************************************************************************)
(* Properties.                                                             *)
(***************************************************************************)
encodeProperty(name, value) == XmlElement("property", [name |-> name, value |-> value], "", <<>>)
encodeProperties(props) ==
    FoldSet(LAMBDA n, els : Append(els, encodeProperty(n, props[n])), <<>>, DOMAIN props)
decodeProperties(e, tag) ==
    LET els == getSubElements(e, tag) IN
    [i \in 1..Len(els) |-> [name |-> getAttr(els[i], "name"), value |-> getAttr(els[i], "value")]]
encodeList(tag, props) ==
    [i \in 1..Len(props) |-> XmlElement(tag, [name |-> props[i].name, value |-> props[i].value], "", <<>>)]
setProperties(class, settings, props) ==
    FoldLeft(LAMBDA s, p : setProperty(class, s, p.name, p.value), settings, props)

(***************************************************************************)
(* Looking things up: by name, the first that has it, and by identity.     *)
(***************************************************************************)
Named(list, name) ==
    LET found == SelectSeq(list, LAMBDA o : o.name = name) IN
    IF found = <<>> THEN NoObject ELSE found[1].id
Object(list, id) == SelectSeq(list, LAMBDA o : o.id = id)[1]
NameOf(list, id) == IF id = NoObject THEN "" ELSE Object(list, id).name
AbsoluteURI(base, uri) == Append(base, uri)

NewProject(uri) ==
    [loaded |-> TRUE, name |-> "", workdir |-> "", base |-> Front(uri),
     scripts |-> <<>>, resources |-> <<>>, graphs |-> <<>>, terrains |-> <<>>, sources |-> <<>>,
     layers |-> <<>>, targets |-> <<>>, maps |-> <<>>]

getWorkingDirectory(p) == IF p.workdir # "" THEN p.workdir ELSE "work_" \o p.name

\* Everything but the maps.
merge(p, src) ==
    [p EXCEPT !.scripts = @ \o src.scripts, !.graphs = @ \o src.graphs, !.sources = @ \o src.sources,
              !.terrains = @ \o src.terrains, !.layers = @ \o src.layers, !.targets = @ \o src.targets,
              !.resources = @ \o src.resources]

(***************************************************************************)
(* Reading.                                                                *)
(***************************************************************************)
decodeScript(e) == [name |-> getAttr(e, "name"), language |-> getAttr(e, "language"), code |-> e.text]

decodeFilter(e, id) ==
    LET type == getAttr(e, "type")
        class == FilterClasses[type] IN
    [id |-> id, type |-> type,
     settings |-> setProperties(class, NewSettings(class), decodeProperties(e, "property"))]

\* A graph that inherits is a copy of its parent, name and all, and has the
\* parent's filter objects; without a parent there is no graph.
decodeFilterGraph(e, p, id) ==
    IF getAttr(e, "inherits") # ""
    THEN LET parent == Named(p.graphs, getAttr(e, "inherits")) IN
         IF parent = NoObject THEN <<>> ELSE <<[Object(p.graphs, parent) EXCEPT !.id = id]>>
    ELSE LET els == SelectSeq(getSubElements(e, "filter"), LAMBDA f : getAttr(f, "type") \in FilterTypes) IN
         <<[id |-> id, name |-> getAttr(e, "name"),
            filters |-> [i \in 1..Len(els) |-> decodeFilter(els[i], Append(id, i))]]>>

\* Tags are sets of words: the attribute's words one by one, and all of it.
decodeTags(e) ==
    LET words == IF "tags" \in DOMAIN e.attrs THEN e.attrs["tags"] ELSE {} IN
    {{w} : w \in words} \cup {words}

LegacyPath(type) ==
    CASE type = "SkinResource" -> {"texture_path"}
      [] type = "ModelResource" -> {"model_path", "path"}
      [] OTHER -> {}

decodeResource(e, p) ==
    LET type == getAttr(e, "type")
        props == decodeProperties(e, "property")
        class == ResourceClasses[type]
        set == setProperties(class, NewSettings(class), props)
        paths == SelectSeq(props, LAMBDA q : q.name \in LegacyPath(type)) IN
    IF type \notin DOMAIN ResourceClasses THEN <<>>
    ELSE <<[type |-> type, name |-> getAttr(e, "name"), tags |-> decodeTags(e), base |-> p.base,
            uri |-> IF paths # <<>> THEN Last(paths).value ELSE getSubElementText(e, "uri"),
            settings |-> IF type = "SRSResource" /\ set.wkt = "" THEN [set EXCEPT !.wkt = e.text] ELSE set,
            parts |-> IF type # "RasterResource" THEN <<>>
                      ELSE LET uris == getSubElements(e, "uri") IN [i \in 1..Len(uris) |-> uris[i].text]]>>

findSRSResource(p, name) ==
    LET found == SelectSeq(p.resources, LAMBDA r : r.type = "SRSResource" /\ r.name = name) IN
    IF found = <<>> THEN "" ELSE found[1].settings.wkt

decodeTerrain(e, p, id) ==
    [id |-> id, name |-> getAttr(e, "name"), base |-> p.base, uri |-> getSubElementText(e, "uri"),
     srs |-> findSRSResource(p, getAttr(e, "srs"))]

decodeSource(e, p, id) ==
    [id |-> id, name |-> getAttr(e, "name"), base |-> p.base,
     type |-> IF getAttr(e, "type") = "raster" THEN "raster" ELSE "feature",
     uri |-> getSubElementText(e, "uri"), graph |-> Named(p.graphs, getAttr(e, "graph")), parent |-> NoObject]
\* Mutant: only the sources that come before it can be a source's parent.
setParentInOrder(p, e) ==
    LET k == CHOOSE i \in DOMAIN p.sources : p.sources[i].name = getAttr(e, "name") IN
    [p EXCEPT !.sources[k].parent = Named(SubSeq(p.sources, 1, k - 1), getAttr(e, "parent"))]
\* The second pass: sources find their parents.
setParent(p, e) ==
    LET source == Named(p.sources, getAttr(e, "name")) IN
    [p EXCEPT !.sources = [i \in DOMAIN @ |->
        IF @[i].id = source THEN [@[i] EXCEPT !.parent = Named(p.sources, getAttr(e, "parent"))] ELSE @[i]]]
\* A source is a resource as well.
sourceResource(s) ==
    [type |-> "FeatureLayerResource", name |-> s.name, tags |-> {}, base |-> s.base, uri |-> s.uri,
     settings |-> NewSettings(ResourceClasses.FeatureLayerResource), parts |-> <<>>]

RECURSIVE decodeSlice(_, _)
decodeSlice(e, p) ==
    LET subs == getSubElements(e, "slice")
        max == getAttr(e, "max_range") IN
    [min |-> IF getAttr(e, "min_range") = "" THEN "0" ELSE getAttr(e, "min_range"),
     max |-> IF max \in {"", "-5"} THEN FLT_MAX ELSE max,
     graph |-> Named(p.graphs, getAttr(e, "graph")), source |-> Named(p.sources, getAttr(e, "source")),
     props |-> decodeProperties(e, "property"),
     slices |-> [i \in 1..Len(subs) |-> decodeSlice(subs[i], p)]]

LayerType(type) ==
    CASE type \in {"correlated", "gridded"} -> type
      [] type \in {"quadtree", "new"} -> "quadtree"
      [] OTHER -> "simple"

decodeLayer(e, p, id) ==
    LET slices == getSubElements(e, "slice") IN
    [id |-> id, name |-> getAttr(e, "name"), base |-> p.base, type |-> LayerType(getAttr(e, "type")),
     source |-> Named(p.sources, getAttr(e, "source")), terrain |-> Named(p.terrains, getAttr(e, "terrain")),
     target |-> getAttr(e, "target"),
     slices |-> [i \in 1..Len(slices) |-> decodeSlice(slices[i], p)],
     props |-> decodeProperties(e, "property"), env |-> decodeProperties(e, "env_property")]

\* The target every layer has for itself.
layerTarget(layer) == [name |-> layer.name, terrain |-> NoObject, layers |-> <<layer.id>>]

decodeTarget(e, p) ==
    LET els == SelectSeq(getSubElements(e, "layer"), LAMBDA l : Named(p.layers, l.text) # NoObject) IN
    [name |-> getAttr(e, "name"), terrain |-> Named(p.terrains, getAttr(e, "terrain")),
     layers |-> [i \in 1..Len(els) |-> Named(p.layers, els[i].text)]]

decodeRuntimeMapLayer(e, p) ==
    [layer |-> Named(p.layers, getAttr(e, "layer")), search |-> Named(p.layers, getAttr(e, "searchlayer")),
     searchable |-> getAttr(e, "searchable") = "true", visible |-> getAttr(e, "visible") # "false"]
getSearchLayer(m) == IF m.search # NoObject THEN m.search ELSE m.layer
decodeRuntimeMap(e, p) ==
    LET els == getSubElements(e, "maplayer") IN
    [name |-> getAttr(e, "name"), terrain |-> Named(p.terrains, getAttr(e, "terrain")),
     layers |-> [i \in 1..Len(els) |-> decodeRuntimeMapLayer(els[i], p)]]

(***************************************************************************)
(* The whole file.  Includes that lead back to the file are not tried:     *)
(* reading them would not end.                                             *)
(***************************************************************************)
\* What Op makes of every child that has the tag, and of its number.
EachChild(e, tag, Op(_, _)) == [k \in 1..Len(getSubElements(e, tag)) |-> Op(getSubElements(e, tag)[k], k)]
Id(uri, tag, k) == Append(uri, tag) \o <<k>>

\* One pass over the file per kind of part, each on what is there before it.
readScripts(p, e) == [p EXCEPT !.scripts = @ \o EachChild(e, "script", LAMBDA x, k : decodeScript(x))]
readResources(p, e) ==
    [p EXCEPT !.resources = @ \o FlattenSeq(EachChild(e, "resource", LAMBDA x, k : decodeResource(x, p)))]
\* A graph may inherit from one of the same pass.
AddGraph(p, graph) == [p EXCEPT !.graphs = @ \o graph]
readGraphs(p, e, uri) ==
    FoldLeft(LAMBDA q, g : AddGraph(q, decodeFilterGraph(g.element, q, g.id)), p,
             EachChild(e, "graph", LAMBDA x, k : [element |-> x, id |-> Id(uri, "graph", k)]))
readTerrains(p, e, uri) ==
    [p EXCEPT !.terrains = @ \o EachChild(e, "terrain", LAMBDA x, k : decodeTerrain(x, p, Id(uri, "terrain", k)))]
AddSources(p, sources) ==
    [p EXCEPT !.sources = @ \o sources,
              !.resources = @ \o [k \in DOMAIN sources |-> sourceResource(sources[k])]]
readSources(p, e, uri) ==
    FoldLeft(setParent,
             AddSources(p, EachChild(e, "source", LAMBDA x, k : decodeSource(x, p, Id(uri, "source", k)))),
             getSubElements(e, "source"))
AddLayers(p, layers) ==
    [p EXCEPT !.layers = @ \o layers,
              !.targets = @ \o [k \in DOMAIN layers |-> layerTarget(layers[k])]]
readLayers(p, e, uri) ==
    AddLayers(p, EachChild(e, "layer", LAMBDA x, k : decodeLayer(x, p, Id(uri, "layer", k))))
readTargets(p, e) == [p EXCEPT !.targets = @ \o EachChild(e, "target", LAMBDA x, k : decodeTarget(x, p))]
readMaps(p, e) == [p EXCEPT !.maps = @ \o EachChild(e, "map", LAMBDA x, k : decodeRuntimeMap(x, p))]

RECURSIVE loadProject(_, _)
AddIncluded(p, src) == IF src.loaded THEN merge(p, src) ELSE p
readIncludes(p, e, files, uri) ==
    FoldLeft(LAMBDA q, x : AddIncluded(q, loadProject(files, Append(Front(uri), x.text))), p,
             getSubElements(e, "include"))

decodeParts(p, e, uri) == readTerrains(readGraphs(readResources(readScripts(p, e), e), e, uri), e, uri)
decodeProject(files, e, uri) ==
    LET new == [NewProject(uri) EXCEPT !.name = getAttr(e, "name"), !.workdir = getAttr(e, "workdir")]
        parts == decodeParts(readIncludes(new, e, files, uri), e, uri) IN
    readMaps(readTargets(readLayers(readSources(parts, e, uri), e, uri), e), e)

readProject(files, doc, uri) ==
    IF doc.root = <<>> THEN NoProject ELSE decodeProject(files, doc.root[1], uri)
loadProject(files, uri) ==
    IF uri \in DOMAIN files THEN readProject(files, files[uri], uri) ELSE NoProject

(***************************************************************************)
(* Writing.                                                                *)
(***************************************************************************)
Attr(condition, key, value) == IF condition THEN key :> value ELSE <<>>
encodeURI(uri) == XmlElement("uri", <<>>, uri, <<>>)

encodeScript(s) == XmlElement("script", [name |-> s.name, language |-> s.language], s.code, <<>>)

\* The loop over a resource's properties takes its bounds from two vectors
\* that are both gone when it runs: what it writes of them is not modelled.
encodeResource(r) ==
    XmlElement("resource",
               ("type" :> r.type) @@ ("name" :> r.name)
                   @@ Attr(r.tags # {}, "tags", UNION r.tags),
               IF r.type = "SRSResource" THEN r.settings.wkt ELSE "", <<encodeURI(r.uri)>>)

encodeFilter(f) ==
    XmlElement("filter", [type |-> f.type], "",
               encodeProperties(getProperties(FilterClasses[f.type], f.settings)))
encodeFilterGraph(g) ==
    XmlElement("graph", [name |-> g.name], "", [i \in DOMAIN g.filters |-> encodeFilter(g.filters[i])])

encodeSource(s, p) ==
    XmlElement("source",
               [name |-> s.name, type |-> s.type]
                   @@ Attr(s.graph # NoObject, "graph", NameOf(p.graphs, s.graph))
                   @@ Attr(s.parent # NoObject, "parent", NameOf(p.sources, s.parent)),
               "", <<encodeURI(s.uri)>>)

encodeTerrain(t) == XmlElement("terrain", [name |-> t.name], "", <<encodeURI(t.uri)>>)

RECURSIVE encodeSlice(_, _)
\* Mutant: the slices of a slice are not written.
encodeSliceFlat(s, p) ==
    XmlElement("slice",
               ("graph" :> NameOf(p.graphs, s.graph))
                   @@ Attr(s.min \in Positive, "min_range", s.min)
                   @@ Attr(s.max # FLT_MAX, "max_range", s.max)
                   @@ Attr(s.source # NoObject, "source", NameOf(p.sources, s.source)),
               "", encodeList("property", s.props))
encodeSlice(s, p) ==
    XmlElement("slice",
               ("graph" :> NameOf(p.graphs, s.graph))
                   @@ Attr(s.min \in Positive, "min_range", s.min)
                   @@ Attr(s.max # FLT_MAX, "max_range", s.max)
                   @@ Attr(s.source # NoObject, "source", NameOf(p.sources, s.source)),
               "",
               encodeList("property", s.props) \o [i \in DOMAIN s.slices |-> encodeSlice(s.slices[i], p)])

encodeLayer(l, p) ==
    XmlElement("layer",
               [name |-> l.name, source |-> NameOf(p.sources, l.source),
                terrain |-> NameOf(p.terrains, l.terrain), target |-> l.target]
                   @@ Attr(l.type # "simple", "type", l.type),
               "",
               [i \in DOMAIN l.slices |-> encodeSlice(l.slices[i], p)] \o encodeList("property", l.props))

\* Targets that have the name of a layer are left out.
encodeTarget(t, p) ==
    XmlElement("target",
               ("name" :> t.name) @@ Attr(t.terrain # NoObject, "terrain", NameOf(p.terrains, t.terrain)), "",
               [i \in DOMAIN t.layers |-> XmlElement("layer", <<>>, NameOf(p.layers, t.layers[i]), <<>>)])

encodeRuntimeMapLayer(m, p) ==
    XmlElement("maplayer",
               [layer |-> NameOf(p.layers, m.layer), searchlayer |-> NameOf(p.layers, getSearchLayer(m)),
                visible |-> IF m.visible THEN "true" ELSE "false",
                searchable |-> IF m.searchable THEN "true" ELSE "false"], "", <<>>)
encodeRuntimeMap(m, p) ==
    XmlElement("map",
               ("name" :> m.name) @@ Attr(m.terrain # NoObject, "terrain", NameOf(p.terrains, m.terrain)), "",
               [i \in DOMAIN m.layers |-> encodeRuntimeMapLayer(m.layers[i], p)])

encodeProject(p) ==
    LET All(list, Op(_)) == [i \in 1..Len(list) |-> Op(list[i])]
        own == SelectSeq(p.resources, LAMBDA r : r.type # "FeatureLayerResource")
        targets == SelectSeq(p.targets, LAMBDA t : Named(p.layers, t.name) = NoObject) IN
    XmlElement("project", [name |-> p.name, workdir |-> getWorkingDirectory(p)], "",
               All(p.scripts, encodeScript) \o All(own, encodeResource)
                   \o All(p.graphs, encodeFilterGraph) \o All(p.terrains, encodeTerrain)
                   \o All(p.sources, LAMBDA s : encodeSource(s, p))
                   \o All(p.layers, LAMBDA l : encodeLayer(l, p))
                   \o All(targets, LAMBDA t : encodeTarget(t, p))
                   \o All(p.maps, LAMBDA m : encodeRuntimeMap(m, p)))

RECURSIVE SlicesOf(_)
SlicesOf(slices) == ToSet(slices) \cup UNION {SlicesOf(s.slices) : s \in ToSet(slices)}

\* What writing follows without a test, and is not there.
ReadsNull(p) ==
    \/ \E l \in ToSet(p.layers) :
           \/ l.source = NoObject \/ l.terrain = NoObject
           \/ \E s \in SlicesOf(l.slices) : s.graph = NoObject
    \/ \E m \in ToSet(p.maps) : \E i \in DOMAIN m.layers : m.layers[i].layer = NoObject
    \/ \E r \in ToSet(p.resources) : r.type = "SRSResource" /\ r.settings.wkt = ""
\* A resource with properties to write: reading freed memory may end the program.
ReadsFreed(p) ==
    \E r \in ToSet(p.resources) : DOMAIN getProperties(ResourceClasses[r.type], r.settings) # {}

(***************************************************************************)
(* The program: load, change, save.  A file is opened for writing, and so  *)
(* emptied, before what goes into it is made; the program may end at any   *)
(* point of that.                                                          *)
(***************************************************************************)
Init ==
    /\ disk \in InitialFiles
    /\ project = NoProject /\ edits = 0 /\ writes = 0

\* The end of a file is noticed to be missing, unless what is there ends
\* where a buffer does.
Load(u) ==
    /\ \E seen \in BOOLEAN :
          project' = IF disk[u].whole \/ ~seen THEN readProject(disk, disk[u], u) ELSE NoProject
    /\ UNCHANGED <<disk, edits, writes>>

Write == project.loaded /\ writes < MaxWrites /\ writes' = writes + 1

Save(u) ==
    /\ Write /\ ~ReadsNull(project)
    /\ disk' = [disk EXCEPT ![u] = Document(encodeProject(project))]
    /\ UNCHANGED <<project, edits>>

SaveInterrupted(u) ==
    /\ Write
    /\ \/ (ReadsNull(project) \/ ReadsFreed(project)) /\ disk' = [disk EXCEPT ![u] = Empty]
       \/ /\ ~ReadsNull(project)
          /\ LET doc == Document(encodeProject(project)) IN
             \E n \in 0..Len(doc.root[1].children) : disk' = [disk EXCEPT ![u] = Truncated(doc, n)]
    /\ project' = NoProject /\ UNCHANGED edits

Edit == project.loaded /\ edits < MaxEdits /\ edits' = edits + 1 /\ UNCHANGED <<disk, writes>>

\* Filters are shared by the graphs that inherit them.
EditFilter ==
    /\ Edit
    /\ \E g \in DOMAIN project.graphs : \E i \in DOMAIN project.graphs[g].filters :
          LET f == project.graphs[g].filters[i] IN
          \E s \in DOMAIN f.settings : \E v \in FilterClasses[f.type].settings[s].values \ {f.settings[s]} :
             project' = [project EXCEPT !.graphs = [h \in DOMAIN @ |-> [@[h] EXCEPT !.filters =
                [j \in DOMAIN @ |-> IF @[j].id = f.id THEN [@[j] EXCEPT !.settings[s] = v] ELSE @[j]]]]]

RenameGraph ==
    /\ Edit
    /\ \E g \in DOMAIN project.graphs : project' = [project EXCEPT !.graphs[g].name = "renamed"]

EditSource ==
    /\ Edit
    /\ \E k \in DOMAIN project.sources :
          \/ \E h \in DOMAIN project.sources : project' = [project EXCEPT !.sources[k].parent = project.sources[h].id]
          \/ project' = [project EXCEPT !.sources[k].parent = NoObject]
          \/ \E g \in DOMAIN project.graphs : project' = [project EXCEPT !.sources[k].graph = project.graphs[g].id]

EditLayer ==
    /\ Edit
    /\ \E k \in DOMAIN project.layers : \E t \in {"simple", "gridded", "quadtree"} :
          project' = [project EXCEPT !.layers[k].type = t]

\* setMaxRange() takes a negative range for the default one, as decodeSlice() does.
EditSlice ==
    /\ Edit
    /\ \E k \in DOMAIN project.layers : \E i \in DOMAIN project.layers[k].slices :
          \/ \E n \in Positive \cup {"0"} : project' = [project EXCEPT !.layers[k].slices[i].min = n]
          \/ \E n \in Positive \cup {FLT_MAX} : project' = [project EXCEPT !.layers[k].slices[i].max = n]

\* The targets that layers have for themselves are not saved, nor changed here.
EditTarget ==
    /\ Edit
    /\ \E t \in DOMAIN project.targets : \E l \in DOMAIN project.layers :
          /\ Named(project.layers, project.targets[t].name) = NoObject
          /\ project' = [project EXCEPT !.targets[t].layers = Append(@, project.layers[l].id)]

EditMap ==
    /\ Edit
    /\ \E m \in DOMAIN project.maps : \E i \in DOMAIN project.maps[m].layers :
          \/ project' = [project EXCEPT !.maps[m].layers[i].visible = ~@]
          \/ \E l \in DOMAIN project.layers : project' = [project EXCEPT !.maps[m].layers[i].search = project.layers[l].id]

TagResource ==
    /\ Edit
    /\ \E r \in DOMAIN project.resources : project' = [project EXCEPT !.resources[r].tags = @ \cup {{"new"}}]

Next ==
    \/ \E u \in Uris : Load(u) \/ Save(u) \/ SaveInterrupted(u)
    \/ EditFilter \/ RenameGraph \/ EditSource \/ EditLayer \/ EditSlice \/ EditTarget \/ EditMap \/ TagResource

Spec == Init /\ [][Next]_vars

(***************************************************************************)
(* What a project says, in names: the part of it a file is to keep.        *)
(***************************************************************************)
\* Settings no property is written for: they are lost in a file.
Unsaved(type, s, value) ==
    \/ s \in {"name", "overall_color", "matrix", "srs_object", "seed"}
    \/ type = "BufferFilter" /\ s = "distance" /\ value = "-5"
    \/ type = "BuildLabelsFilter" /\ s = "text" /\ value = NoScript
    \/ type = "RecalculateExtentFilter" /\ s = "metering" /\ value = "0"
    \/ s = "feature_name" /\ type \in {"BuildGeomFilter", "BuildLabelsFilter", "ExtrudeGeomFilter"}
SavedSettings(f) ==
    LET saved == {s \in DOMAIN f.settings : ~Unsaved(f.type, s, f.settings[s])} IN
    [s \in saved |-> f.settings[s]]

RECURSIVE SaysSlice(_, _)
SaysSlice(p, s) ==
    [min |-> s.min, max |-> s.max, graph |-> NameOf(p.graphs, s.graph), source |-> NameOf(p.sources, s.source),
     props |-> s.props, slices |-> [i \in DOMAIN s.slices |-> SaysSlice(p, s.slices[i])]]

SaysTarget(p, t) ==
    [terrain |-> NameOf(p.terrains, t.terrain), layers |-> [i \in DOMAIN t.layers |-> NameOf(p.layers, t.layers[i])]]

Says(p) ==
    LET Each(list, Op(_)) == [i \in DOMAIN list |-> Op(list[i])]
        own == SelectSeq(p.resources, LAMBDA r : r.type # "FeatureLayerResource")
        features == SelectSeq(p.resources, LAMBDA r : r.type = "FeatureLayerResource") IN
    [name |-> p.name, workdir |-> getWorkingDirectory(p), scripts |-> p.scripts,
     resources |-> Each(own, LAMBDA r : <<r.type, r.name, r.uri, {t \in r.tags : Cardinality(t) = 1}>>),
     features |-> {<<r.name, AbsoluteURI(r.base, r.uri)>> : r \in ToSet(features)},
     graphs |-> Each(p.graphs, LAMBDA g : <<g.name, Each(g.filters, LAMBDA f : f.type)>>),
     terrains |-> Each(p.terrains, LAMBDA t : <<t.name, AbsoluteURI(t.base, t.uri)>>),
     sources |-> Each(p.sources, LAMBDA s : <<s.name, s.type, AbsoluteURI(s.base, s.uri),
                                              NameOf(p.graphs, s.graph), NameOf(p.sources, s.parent)>>),
     layers |-> Each(p.layers, LAMBDA l : <<l.name, l.type, NameOf(p.sources, l.source),
                                            NameOf(p.terrains, l.terrain), AbsoluteURI(l.base, l.target),
                                            l.props, Each(l.slices, LAMBDA s : SaysSlice(p, s))>>),
     targets |-> {<<t.name, SaysTarget(p, t)>> : t \in ToSet(p.targets)},
     maps |-> Each(p.maps, LAMBDA m : <<m.name, NameOf(p.terrains, m.terrain),
                                        Each(m.layers, LAMBDA r : <<NameOf(p.layers, r.layer),
                                             NameOf(p.layers, getSearchLayer(r)), r.searchable, r.visible>>)>>)]

DistinctNames(list) == \A i, j \in DOMAIN list : list[i].name = list[j].name => i = j
UniqueNames(p) ==
    /\ DistinctNames(p.graphs) /\ DistinctNames(p.sources) /\ DistinctNames(p.terrains)
    /\ DistinctNames(p.layers) /\ DistinctNames(p.targets)
OneFolder(p) == \A o \in ToSet(p.sources \o p.terrains \o p.layers \o p.resources) : o.base = p.base

\* A project that can be written is the same when it is read again, in the
\* folder it was in: every name finds what it found, every path leads where it
\* led, and what reading makes of itself, the targets of layers and the
\* resources of sources, is there once and not twice.  (encode*, decode*.)
SavedIsTheSame ==
    project.loaded /\ ~ReadsNull(project) /\ UniqueNames(project) /\ OneFolder(project) =>
        LET again == decodeProject(disk, encodeProject(project), Append(project.base, "again")) IN
        Says(again) = Says(project)

\* A filter that runs, a copy of the project's, has all the settings of the
\* project's, and one that was read again has those that a file keeps: the
\* constructors, copy constructors, setProperty() and getProperties() of the
\* filter classes agree about every setting.  (Filter::newState.)
FiltersKeepSettings ==
    project.loaded =>
        \A g \in ToSet(project.graphs) : \A f \in ToSet(g.filters) :
            LET class == FilterClasses[f.type]
                again == decodeFilter(encodeFilter(f), f.id) IN
            /\ clone(class, f.settings) = f.settings
            /\ again.type = f.type
            /\ \A s \in DOMAIN SavedSettings(f) : again.settings[s] = f.settings[s]

(***************************************************************************)
(* References as a file states them and as a project has them, as triples  *)
(* of the owner, what it refers to and the name.                           *)
(***************************************************************************)
Subs(u, tag) == IF disk[u].root = <<>> THEN {} ELSE ToSet(getSubElements(disk[u].root[1], tag))
IncludedBy(u) == {Append(Front(u), i.text) : i \in Subs(u, "include")} \cap Uris

RECURSIVE Defines(_, _)
Defines(u, tag) ==
    {getAttr(e, "name") : e \in {d \in Subs(u, tag) : getAttr(d, "inherits") = ""}}
        \cup UNION {Defines(v, tag) : v \in IncludedBy(u)}

RECURSIVE SliceElements(_)
SliceElements(e) ==
    LET subs == ToSet(getSubElements(e, "slice")) IN subs \cup UNION {SliceElements(s) : s \in subs}

Stated(u) ==
    LET N(e) == getAttr(e, "name") IN
    UNION {
      {<<"source", N(e), "graph", getAttr(e, "graph")>> : e \in Subs(u, "source")},
      {<<"source", N(e), "source", getAttr(e, "parent")>> : e \in Subs(u, "source")},
      {<<"layer", N(e), "source", getAttr(e, "source")>> : e \in Subs(u, "layer")},
      {<<"layer", N(e), "terrain", getAttr(e, "terrain")>> : e \in Subs(u, "layer")},
      UNION {{<<"slice", N(e), "graph", getAttr(s, "graph")>> : s \in SliceElements(e)} : e \in Subs(u, "layer")},
      UNION {{<<"slice", N(e), "source", getAttr(s, "source")>> : s \in SliceElements(e)} : e \in Subs(u, "layer")},
      UNION {{<<"target", N(e), "layer", l.text>> : l \in ToSet(getSubElements(e, "layer"))} : e \in Subs(u, "target")}}

RECURSIVE Resolvable(_)
Resolvable(u) ==
    {r \in Stated(u) : r[4] \in Defines(u, r[3])} \cup UNION {Resolvable(v) : v \in IncludedBy(u)}

Resolved(p) ==
    LET stated == UNION {
          {<<"source", s.name, "graph", NameOf(p.graphs, s.graph)>> : s \in ToSet(p.sources)},
          {<<"source", s.name, "source", NameOf(p.sources, s.parent)>> : s \in ToSet(p.sources)},
          {<<"layer", l.name, "source", NameOf(p.sources, l.source)>> : l \in ToSet(p.layers)},
          {<<"layer", l.name, "terrain", NameOf(p.terrains, l.terrain)>> : l \in ToSet(p.layers)},
          UNION {{<<"slice", l.name, "graph", NameOf(p.graphs, s.graph)>> : s \in SlicesOf(l.slices)} : l \in ToSet(p.layers)},
          UNION {{<<"slice", l.name, "source", NameOf(p.sources, s.source)>> : s \in SlicesOf(l.slices)} : l \in ToSet(p.layers)},
          UNION {{<<"target", t.name, "layer", NameOf(p.layers, l)>> : l \in ToSet(t.layers)} : t \in ToSet(p.targets)}} IN
    {r \in stated : r[4] # ""}

\* Whatever a file says of its sources, layers, slices and targets by name is
\* found when it is read, whichever comes first in the file, if it is defined
\* in the file or in one it includes; and nothing else is.  (decodeProject:
\* the order of the lists, the two passes over the sources, merge().)
ReferencesResolve ==
    \A u \in Uris :
        LET p == readProject(disk, disk[u], u) IN
        p.loaded /\ UniqueNames(p) =>
            Resolved(p) = Resolvable(u) \cup {<<"target", l.name, "layer", l.name>> : l \in ToSet(p.layers)}
=============================================================================
