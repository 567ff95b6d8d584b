--------------------------- MODULE MCProjectFile ---------------------------
(***************************************************************************)
(* Instances of ProjectFile.  Either a project of one graph with one       *)
(* filter, of any class, or a project that includes another, where sources *)
(* have graphs and parents, layers have slices with slices of their own,   *)
(* and some names are defined nowhere or twice.                            *)
(***************************************************************************)
EXTENDS ProjectFile

Main == <<"dir", "main.xml">>
Library == <<"dir", "library.xml">>
MCUris == {Main, Library}

Elem(tag, attrs, children) == XmlElement(tag, attrs, "", children)
Uri(u) == XmlElement("uri", <<>>, u, <<>>)
Project(children) == Document(XmlElement("project", [name |-> "p"], "", children))

Graph(name, types) ==
    Elem("graph", [name |-> name], [i \in DOMAIN types |-> Elem("filter", [type |-> types[i]], <<>>)])
Inheriting(name, parent) == Elem("graph", [name |-> name, inherits |-> parent], <<>>)
SourceNamed(name, graph, parent) ==
    Elem("source", [name |-> name, graph |-> graph, parent |-> parent], <<Uri(name)>>)
Terrain == Elem("terrain", [name |-> "t", srs |-> "s"], <<Uri("t.ive")>>)
Skin == Elem("resource", [type |-> "SkinResource", name |-> "brick", tags |-> {"wall", "red"}],
               <<Uri("brick.jpg"), encodeProperty("texture_mode", "decal")>>)
Model == Elem("resource", [type |-> "ModelResource", name |-> "tree", tags |-> {}],
                <<encodeProperty("model_path", "tree.osg")>>)
Slice(graph, source, subs) ==
    Elem("slice", [graph |-> graph, source |-> source, max_range |-> "5"], subs)
Layer(name, type, source, slices) ==
    Elem("layer", [name |-> name, type |-> type, source |-> source, terrain |-> "t", target |-> name], slices)
Target(name, layers) ==
    Elem("target", [name |-> name, terrain |-> "t"],
           [i \in DOMAIN layers |-> XmlElement("layer", <<>>, layers[i], <<>>)])
Map(layer) ==
    Elem("map", [name |-> "m", terrain |-> "t"], <<Elem("maplayer", [layer |-> layer, searchable |-> "true"], <<>>)>>)
Include(uri) == XmlElement("include", <<>>, uri, <<>>)

\* One graph of one filter.
FilterProject(type) == Project(<<Graph("g", <<type>>)>>)

\* Names a source may give as its graph or as its parent.
LibraryProject(graph, parent) ==
    Project(<<Graph("g", <<"CropFilter">>), SourceNamed("a", graph, parent), Terrain,
              Layer("roads", "gridded", "a", <<Slice("g", "", <<>>)>>)>>)
MainProject(includes, second, graph, parent, slicesource, last) ==
    Project(includes \o
            <<Layer("blocks", "simple", "b", <<Slice("h", slicesource, <<Slice("h", "b", <<>>)>>)>>),
              Target("all", <<"roads", "blocks">>), SourceNamed("b", graph, parent), SourceNamed("c", "", "b"),
              Graph("h", <<"BufferFilter">>), Map("blocks"), Model>>
            \o second \o last)

MCInitialFiles ==
    {[u \in MCUris |-> IF u = Main THEN FilterProject(type) ELSE NoFile] : type \in FilterTypes}
    \cup
    {[u \in MCUris |-> IF u = Main THEN MainProject(<<Include("library.xml")>>, s, own[1], own[2], "a", <<>>)
                       ELSE LibraryProject(lib[1], lib[2])] :
       s \in {<<>>, <<Inheriting("i", "g")>>, <<Skin>>, <<SourceNamed("a", "h", "c")>>},
       own \in {<<"", "">>, <<"g", "a">>, <<"h", "c">>, <<"x", "x">>},
       lib \in {<<"", "">>, <<"g", "b">>, <<"h", "a">>}}
    \cup
    {[u \in MCUris |-> IF u = Main THEN MainProject(<<>>, s, own[1], own[2], ss, <<Terrain>>) ELSE NoFile] :
       s \in {<<>>, <<Inheriting("i", "h")>>}, own \in {<<"", "">>, <<"h", "c">>}, ss \in {"", "c", "a"}}
=============================================================================
