---------------------------- MODULE CellResources ----------------------------
(***************************************************************************)
(* The textures and models of the cells of a layer: how the filters take    *)
(* them into the ResourceCache of their cell while several workers compile, *)
(* and how CellCompiler::runSynchronousPostProcess(), in the thread that    *)
(* manages the workers, has them written beside the cell's file.            *)
(*                                                                         *)
(* A filter's use of a resource is one step, except that of a raster: its   *)
(* parts are looked up on first use, without a lock.  Each file is written  *)
(* in two steps.  The program may stop anywhere and be run again.           *)
(***************************************************************************)
EXTENDS ResourceLibrary, ResourcePackager, FiniteSetsExt

CONSTANTS
  Cells,         \* the cells, 1..n
  Layers,        \* the layers: see LayerAssumption
  Resources,     \* the resources of the project, in their order
  Pictures,      \* the image files that can be read: uri -> image
  ModelFiles,    \* the model files that can be read: uri -> its state sets
  Parts,         \* the parts of each raster: whether a store connects, where it lies, its format
  NumThreads,    \* workers at a time
  MaxRuns,       \* bound on the runs of the program
  WritesMayFail  \* may a file not be written?

ASSUME LayerAssumption ==
  \A layer \in Layers :
    /\ DOMAIN layer.uses = Cells      \* the uses of resources in each cell
    /\ \A c \in Cells : layer.uses[c] \in Seq(Range(layer.uses[c]))
    /\ DOMAIN layer.packager = Cells  \* the packager of the cell's level
    /\ \A c \in Cells : layer.packager[c].max \in Nat /\ layer.packager[c].inline \in BOOLEAN
    /\ layer.archived \in BOOLEAN     \* the cells go to an archive
    /\ layer.folder \in BOOLEAN       \* the output location exists
    /\ layer.ive \in BOOLEAN          \* the cells' files are .ive

IsPath(path) ==
  path = [dir |-> path.dir, base |-> path.base, limit |-> path.limit, ext |-> path.ext]

\* What comes from a file is of its file's size and shows no part of a raster.
FromFile(image) ==
  /\ image = [path |-> image.path, origin |-> image.origin, size |-> image.size,
              pixel_format |-> image.pixel_format, compressed |-> image.compressed]
  /\ IsPath(image.path)
  /\ image.size \in Nat \ {0} /\ image.origin.size = image.size
  /\ image.origin.area = {} /\ image.origin.parts = {}

ASSUME FilesAssumption ==
  /\ \A uri \in DOMAIN Pictures : FromFile(Pictures[uri])
  /\ \A uri \in DOMAIN ModelFiles :
       /\ ModelFiles[uri] \in Seq(Range(ModelFiles[uri]))
       /\ \A images \in Range(ModelFiles[uri]) :
            images \in Seq(Range(images)) /\ \A image \in Range(images) : FromFile(image)

ASSUME PartsAssumption == \A r \in DOMAIN Parts : Parts[r] \in Seq(Range(Parts[r]))

VARIABLES
  layer,             \* what is built
  status,            \* "building", "finished" or "stopped"
  runs,              \* starts of the program
  phase,             \* of each cell: see Phases
  at,                \* the next use of each cell
  part,              \* the part of a raster that a cell initialises; 0: none
  parts_initialized, \* of each raster
  extents,           \* the parts of each raster whose extent is known
  pixel_format,      \* of each raster
  cache,             \* the ResourceCache and the result node of each cell
  session,
  pending,           \* what is yet to be written for the cell that is packaged
  files,             \* textures and models on disk, by place and name
  nodes,             \* the file of each cell
  warned             \* names of files that were reported, in any run

rasterVars == <<part, parts_initialized, extents, pixel_format>>
diskVars == <<files, nodes, warned>>
vars == <<layer, status, runs, phase, at, rasterVars, cache, session, pending, diskVars>>

Phases == {"waiting", "compiling", "compiled", "packaging", "done"}

\* images: every osg::Image of the cell.  states: the state sets, each the images of its
\* texture units.  skins, models, proxies: the lists of the ResourceCache.  result: the
\* state sets and proxy nodes under the node that the cell gives.
EmptyCache == [images |-> <<>>, states |-> <<>>, skins |-> <<>>, models |-> <<>>, proxies |-> <<>>,
               result |-> [states |-> {}, proxies |-> {}]]

NoFormat == "none"
NoNode == [exists |-> FALSE]
Torn == [exists |-> TRUE, whole |-> FALSE]

-----------------------------------------------------------------------------
(***************************************************************************)
(* The ResourceCache of a cell.                                            *)
(***************************************************************************)

\* New state sets, and what they are numbered.
AddState(c, images) ==
  [c EXCEPT !.images = @ \o images,
            !.states = Append(@, [i \in DOMAIN images |-> Len(c.images) + i])]
AddStates(c, sets) ==
  LET added[n \in 0..Len(sets)] == IF n = 0 THEN c ELSE AddState(added[n - 1], sets[n])
  IN  added[Len(sets)]
NewStates(c, sets) == (Len(c.states) + 1)..(Len(c.states) + Len(sets))

Show(c, states) == [c EXCEPT !.result.states = @ \union states]

\* addSkin(): a skin of its own for the state set.
OwnSkin(state, limit) == [resource |-> NoResource, limit |-> limit, state |-> state]
addSkin(c, state, limit) == [c EXCEPT !.skins = Append(@, OwnSkin(state, limit))]

\* Where the pixels of an image come from: a picture of its size, or parts of a raster.
Whole(uri, size) == [from |-> uri, size |-> size, area |-> {}, parts |-> {}]

\* SkinResource::createImage(); a picture that cannot be read is replaced by a red cross.
createImage(skin) ==
  IF skin.uri \in DOMAIN Pictures THEN Pictures[skin.uri]
  ELSE [path |-> [NoName EXCEPT !.base = skin.name, !.ext = "png"], origin |-> Whole(skin.name, 1),
        size |-> 1, pixel_format |-> "RGB", compressed |-> FALSE]

\* getStateSet() and the walls that wear it
ApplySkin(c, skin) ==
  LET known == {s \in ToSet(c.skins) : s.resource = skin}
      added == AddStates(c, <<<<createImage(skin)>>>>)
      state == Len(added.states)
  IN  IF known # {} THEN Show(c, {s.state : s \in known})
      ELSE Show([added EXCEPT !.skins = Append(@, [resource |-> skin, limit |-> skin.limit, state |-> state])],
                {state})

\* registerTextures(): a skin for every texture of every state set below the node
registerTextures(c, states, limit) ==
  LET textured == FlattenSeq([s \in DOMAIN c.states |->
                                IF s \in states THEN [u \in DOMAIN c.states[s] |-> s] ELSE <<>>])
  IN  [c EXCEPT !.skins = @ \o [i \in DOMAIN textured |-> OwnSkin(textured[i], limit)]]

\* The model read from its file once for each ModelResource.
Loaded(c, model) ==
  LET added == AddStates(c, ModelFiles[model.uri])
  IN  [added EXCEPT !.models = Append(@, [resource |-> model, states |-> NewStates(c, ModelFiles[model.uri])])]

getNode(c, model, fresh) ==
  IF ~fresh /\ (\E m \in ToSet(c.models) : m.resource = model) THEN c ELSE Loaded(c, model)
\* A later entry takes the place of an earlier one.
Latest(list, model) == CHOOSE p \in DOMAIN list :
  list[p].resource = model /\ \A q \in DOMAIN list : list[q].resource = model => q <= p
NodeOf(c, model) == c.models[Latest(c.models, model)].states

getExternalReferenceNode(c, model, fresh) ==
  IF ~fresh /\ (\E p \in ToSet(c.proxies) : p.resource = model) THEN c
  ELSE [c EXCEPT !.proxies = Append(@, [resource |-> model, name |-> [NoName EXCEPT !.dir = "models", !.base = model.uri]])]
ProxyOf(c, model) == Latest(c.proxies, model)

-----------------------------------------------------------------------------
(***************************************************************************)
(* The program.                                                            *)
(***************************************************************************)
ProjectSession ==
  [NewSession EXCEPT !.resources = FoldLeft(addResource, NewLibrary, Resources)]

Fresh ==
  /\ phase' = [c \in Cells |-> "waiting"] /\ at' = [c \in Cells |-> 1] /\ part' = [c \in Cells |-> 0]
  /\ parts_initialized' = [r \in DOMAIN Parts |-> FALSE]
  /\ extents' = [r \in DOMAIN Parts |-> {}] /\ pixel_format' = [r \in DOMAIN Parts |-> NoFormat]
  /\ cache' = [c \in Cells |-> EmptyCache]
  /\ session' = ProjectSession
  /\ pending' = <<>>

Init ==
  /\ layer \in Layers
  /\ status = "stopped" /\ runs = 0
  /\ phase = [c \in Cells |-> "waiting"] /\ at = [c \in Cells |-> 1] /\ part = [c \in Cells |-> 0]
  /\ parts_initialized = [r \in DOMAIN Parts |-> FALSE]
  /\ extents = [r \in DOMAIN Parts |-> {}] /\ pixel_format = [r \in DOMAIN Parts |-> NoFormat]
  /\ cache = [c \in Cells |-> EmptyCache]
  /\ session = ProjectSession
  /\ pending = <<>>
  /\ files = <<>> /\ nodes = [c \in Cells |-> NoNode] /\ warned = {}

\* An archive is created anew in every run.
Start ==
  /\ status # "building" /\ runs < MaxRuns
  /\ status' = "building" /\ runs' = runs + 1
  /\ Fresh
  /\ files' = IF layer.archived THEN Restrict(files, {f \in DOMAIN files : f[1] # "archive"}) ELSE files
  /\ nodes' = IF layer.archived THEN [c \in Cells |-> NoNode] ELSE nodes
  /\ UNCHANGED <<layer, warned>>

\* Builds stop at any point, and workers take the program with them.
Crash ==
  /\ status = "building"
  /\ status' = "stopped"
  /\ Fresh
  /\ UNCHANGED <<layer, runs, diskVars>>

-----------------------------------------------------------------------------
(***************************************************************************)
(* CellCompiler::run(), in a worker.                                       *)
(***************************************************************************)
Busy == {c \in Cells : phase[c] = "compiling"}

Uses(c) == layer.uses[c]
UseOf(c) == Uses(c)[at[c]]
Compiling(c, kind) == phase[c] = "compiling" /\ at[c] <= Len(Uses(c)) /\ UseOf(c).kind = kind

CompileFrame == UNCHANGED <<layer, status, runs, pending, diskVars>>

\* A cell whose file exists is not compiled again.
StartCell(c) ==
  /\ status = "building" /\ phase[c] = "waiting" /\ Cardinality(Busy) < NumThreads
  /\ phase' = [phase EXCEPT ![c] = IF ~layer.archived /\ nodes[c].exists THEN "done" ELSE "compiling"]
  /\ UNCHANGED <<at, rasterVars, cache, session>>
  /\ CompileFrame

Used(c, new) ==
  /\ cache' = [cache EXCEPT ![c] = new]
  /\ at' = [at EXCEPT ![c] = @ + 1]
  /\ UNCHANGED phase
  /\ CompileFrame

\* ExtrudeGeomFilter: the script picks a skin for a whole batch out of those it asks for, or
\* names one for each feature.
WallSkin(lib, u) ==
  LET picked == getSkins(lib, u.query)
  IN  IF u.batch /\ picked # <<>> THEN Head(picked) ELSE getSkin(lib, u.name)

WearSkin(lib, c, u) ==
  IF WallSkin(lib, u) = NoResource THEN c ELSE ApplySkin(c, WallSkin(lib, u))

ExtrudeWalls(c) ==
  /\ Compiling(c, "walls")
  /\ Used(c, WearSkin(session.resources, cache[c], UseOf(c)))
  /\ UNCHANGED <<rasterVars, session>>

\* SubstituteModelFilter::process(): a model by name out of the library, or by path as a
\* resource of its own every time.
ModelOf(lib, u) ==
  IF u.by = "name" THEN getModel(lib, u.name)
  ELSE [class |-> "ModelResource", name |-> u.name, uri |-> u.name, tags |-> {}]
Readable(lib, u) == ModelOf(lib, u).uri \in DOMAIN ModelFiles

InlineModel(lib, c, u) ==
  LET got == getNode(c, ModelOf(lib, u), u.by = "path")
      states == NodeOf(got, ModelOf(lib, u))
  IN  IF Readable(lib, u) THEN registerTextures(Show(got, states), states, u.limit) ELSE c

\* The proxy has no children, so it has no textures to register.
ReferToModel(lib, c, u) ==
  LET model == ModelOf(lib, u)
      got == getExternalReferenceNode(c, model, u.by = "path")
  IN  IF model = NoResource THEN c ELSE [got EXCEPT !.result.proxies = @ \union {ProxyOf(got, model)}]

SubstituteModel(c) ==
  LET u == UseOf(c)
      model == ModelOf(session.resources, u)
  IN  /\ Compiling(c, "model") /\ ~u.bulk
      /\ Used(c, IF u.inline THEN InlineModel(session.resources, cache[c], u)
                 ELSE ReferToModel(session.resources, cache[c], u))
      /\ session' = IF u.by = "name" /\ model # NoResource /\ (u.inline => Readable(session.resources, u))
                    THEN markResourceUsed(session, model) ELSE session
      /\ UNCHANGED rasterVars

\* In bulk: the node is copied with its state sets and images.  A named model is read into
\* the cache first, and if it cannot be read a NULL node is copied (see Crash).
CopyModel(lib, c, u) ==
  LET sets == ModelFiles[ModelOf(lib, u).uri]
      got == IF u.by = "name" THEN getNode(c, ModelOf(lib, u), FALSE) ELSE c
      states == NewStates(got, sets)
  IN  IF Readable(lib, u) THEN registerTextures(Show(AddStates(got, sets), states), states, u.limit) ELSE c

ClusterModels(c) ==
  LET u == UseOf(c)
  IN  /\ Compiling(c, "model") /\ u.bulk
      /\ u.by = "name" /\ ModelOf(session.resources, u) # NoResource => Readable(session.resources, u)
      /\ Used(c, CopyModel(session.resources, cache[c], u))
      /\ UNCHANGED <<rasterVars, session>>

-----------------------------------------------------------------------------
(***************************************************************************)
(* RasterResource::applyToStateSet().  The part that a cell is at is 0      *)
(* before it has looked, 1..n while it initialises, n + 1 before it says    *)
(* so, and n + 2 when it reads the parts.                                   *)
(***************************************************************************)
RasterOf(c) == UseOf(c).name
NumParts(r) == Len(Parts[r])
Named(c) == getRaster(session.resources, RasterOf(c)) # NoResource

\* Mutant: the parts are said to be initialised before they are.
LookAtPartsFlagFirst(c) ==
  /\ Compiling(c, "raster") /\ Named(c) /\ part[c] = 0 /\ UseOf(c).area # {}
  /\ part' = [part EXCEPT ![c] = IF parts_initialized[RasterOf(c)] THEN NumParts(RasterOf(c)) + 2 ELSE 1]
  /\ parts_initialized' = [parts_initialized EXCEPT ![RasterOf(c)] = TRUE]
  /\ UNCHANGED <<phase, at, extents, pixel_format, cache, session>>
  /\ CompileFrame

LookAtParts(c) ==
  /\ Compiling(c, "raster") /\ Named(c) /\ part[c] = 0 /\ UseOf(c).area # {}
  /\ part' = [part EXCEPT ![c] = IF parts_initialized[RasterOf(c)] THEN NumParts(RasterOf(c)) + 2 ELSE 1]
  /\ UNCHANGED <<phase, at, parts_initialized, extents, pixel_format, cache, session>>
  /\ CompileFrame

initPart(c) ==
  /\ Compiling(c, "raster") /\ part[c] # 0 /\ part[c] <= NumParts(RasterOf(c))
  /\ LET r == RasterOf(c)
     IN  IF Parts[r][part[c]].connects
         THEN /\ extents' = [extents EXCEPT ![r] = @ \union {part[c]}]
              /\ pixel_format' = [pixel_format EXCEPT ![r] = Parts[r][part[c]].pixel_format]
         ELSE UNCHANGED <<extents, pixel_format>>
  /\ part' = [part EXCEPT ![c] = @ + 1]
  /\ UNCHANGED <<phase, at, parts_initialized, cache, session>>
  /\ CompileFrame

PartsInitialized(c) ==
  /\ Compiling(c, "raster") /\ part[c] # 0 /\ part[c] = NumParts(RasterOf(c)) + 1
  /\ parts_initialized' = [parts_initialized EXCEPT ![RasterOf(c)] = TRUE]
  /\ part' = [part EXCEPT ![c] = @ + 1]
  /\ UNCHANGED <<phase, at, extents, pixel_format, cache, session>>
  /\ CompileFrame

\* Of the known parts of the raster
Met(known, u) == {p \in known : Parts[u.name][p].area \intersect u.area # {}}

\* The image takes the format that the raster has by now; a part in another is not copied.
Pasted(known, format, u) ==
  [path |-> u.image,
   origin |-> [from |-> u.name, size |-> u.size, area |-> u.area,
               parts |-> {p \in Met(known, u) : Parts[u.name][p].pixel_format = format}],
   size |-> u.size, pixel_format |-> format, compressed |-> FALSE]

\* BuildNodesFilter and BuildGeomFilter name the image after the cell or the feature and add
\* a skin for it.  Outside every part there is no image.
ApplyOverlay(lib, known, format, c, u) ==
  LET added == AddStates(c, <<<<Pasted(known, format, u)>>>>)
      state == Len(added.states)
  IN  IF getRaster(lib, u.name) = NoResource \/ u.area = {} \/ Met(known, u) = {} THEN c
      ELSE addSkin(Show(added, {state}), state, 0)

OverlayRaster(c) ==
  /\ Compiling(c, "raster")
  /\ Named(c) /\ UseOf(c).area # {} => part[c] = NumParts(RasterOf(c)) + 2
  /\ Used(c, ApplyOverlay(session.resources, extents[RasterOf(c)], pixel_format[RasterOf(c)], cache[c], UseOf(c)))
  /\ part' = [part EXCEPT ![c] = 0]
  /\ UNCHANGED <<parts_initialized, extents, pixel_format, session>>

\* Limits and sizes are numbers, and every raster of the project has a list of parts.
ASSUME UsesAssumption ==
  \A l \in Layers : \A c \in Cells : \A u \in Range(l.uses[c]) :
    /\ u.kind \in {"walls", "model", "raster"}
    /\ u.kind = "walls" /\ WallSkin(ProjectSession.resources, u) # NoResource =>
         WallSkin(ProjectSession.resources, u).limit \in Nat
    /\ u.kind = "model" => u.limit \in Nat
    /\ u.kind = "raster" => u.size \in Nat \ {0} /\ IsPath(u.image)
    /\ u.kind = "raster" /\ getRaster(ProjectSession.resources, u.name) # NoResource => u.name \in DOMAIN Parts

\* A cell that gives no drawables has no node to write.
EndOfCell(c) ==
  /\ phase[c] = "compiling" /\ at[c] > Len(Uses(c))
  /\ phase' = [phase EXCEPT ![c] = IF Uses(c) = <<>> THEN "done" ELSE "compiled"]
  /\ UNCHANGED <<at, rasterVars, cache, session>>
  /\ CompileFrame

-----------------------------------------------------------------------------
(***************************************************************************)
(* CellCompiler::runSynchronousPostProcess().                              *)
(***************************************************************************)
Shown(c) == UNION {ToSet(c.states[s]) : s \in c.result.states}

\* Every image and proxy under the node gets its new name.
rewriteResourceReferences(packager, c) ==
  LET images == [i \in DOMAIN c.images |->
                   IF i \in Shown(c) THEN [c.images[i] EXCEPT !.path = Rewritten(packager, @)]
                   ELSE c.images[i]]
      proxies == [p \in DOMAIN c.proxies |->
                    IF p \in c.result.proxies THEN [c.proxies[p] EXCEPT !.name = Simple(@)]
                    ELSE c.proxies[p]]
  IN  [c EXCEPT !.images = images, !.proxies = proxies]

\* What is written for a skin: the first image of its state set.
SkinOutput(packager, c, skin) == Output(packager, skin.limit, c.images[Head(c.states[skin.state])])

TextureFile(out) ==
  [kind |-> "texture", open |-> FALSE, name |-> out.name,
   file |-> [origin |-> out.image.origin, size |-> out.image.size, whole |-> TRUE]]

Textures(packager, c) ==
  FlattenSeq([i \in DOMAIN c.skins |->
                IF c.states[c.skins[i].state] = <<>> THEN <<>>
                ELSE <<TextureFile(SkinOutput(packager, c, c.skins[i]))>>])

\* Inlined: the image of the state set is replaced, one skin after the other.
InlineTexture(packager, c, skin) ==
  IF c.states[skin.state] = <<>> THEN c
  ELSE [c EXCEPT !.images = Append(@, SkinOutput(packager, c, skin).image),
                 !.states[skin.state][1] = Len(c.images) + 1]
InlineTextures(packager, c) ==
  LET inlined[n \in 0..Len(c.skins)] ==
        IF n = 0 THEN c ELSE InlineTexture(packager, inlined[n - 1], c.skins[n])
  IN  inlined[Len(c.skins)]

\* A model that cannot be read is left out, and nothing is said of it.
ModelFile(uri) ==
  [kind |-> "model", open |-> FALSE, name |-> [NoName EXCEPT !.base = uri],
   file |-> [origin |-> Whole(uri, 0), size |-> 0, whole |-> TRUE]]

Models(c) ==
  FlattenSeq([p \in DOMAIN c.proxies |->
                IF c.proxies[p].resource.uri \in DOMAIN ModelFiles
                THEN <<ModelFile(c.proxies[p].resource.uri)>> ELSE <<>>])

\* The node as its file has it: the images that state sets refer to or, inlined in an .ive
\* file, contain.
Texture(c, state, unit) ==
  LET image == c.images[c.states[state][unit]]
  IN  [name |-> image.path, image |-> image, first |-> unit = 1,
       limits |-> {skin.limit : skin \in {k \in ToSet(c.skins) : k.state = state}}]

NodeFile(packager, ive, c) ==
  [exists |-> TRUE, whole |-> TRUE,
   embedded |-> packager.inline /\ ive,
   textures |-> UNION {{Texture(c, state, unit) : unit \in DOMAIN c.states[state]} : state \in c.result.states},
   models |-> {c.proxies[p] : p \in c.result.proxies}]

\* Mutant: the node is written before what it refers to.
OutputsNodeFirst(resources, node) == <<node>> \o resources

\* packageResources() comes before packageNode().
Outputs(resources, node) == resources \o <<node>>

Packaged(packager, c) ==
  LET rewritten == rewriteResourceReferences(packager, c)
  IN  IF packager.inline THEN InlineTextures(packager, rewritten) ELSE rewritten

packageResources(packager, c) ==
  (IF packager.inline THEN <<>> ELSE Textures(packager, rewriteResourceReferences(packager, c)))
    \o Models(Packaged(packager, c))

Package(c) ==
  LET packager == layer.packager[c]
      packaged == Packaged(packager, cache[c])
  IN  /\ status = "building" /\ phase[c] = "compiled" /\ \A d \in Cells : phase[d] # "packaging"
      /\ phase' = [phase EXCEPT ![c] = "packaging"]
      /\ cache' = [cache EXCEPT ![c] = packaged]
      /\ pending' = Outputs(packageResources(packager, cache[c]),
                            [kind |-> "node", open |-> FALSE, file |-> NodeFile(packager, layer.ive, packaged)])
      /\ UNCHANGED <<layer, status, runs, at, rasterVars, session, diskVars>>

\* Textures go to the archive only if it has a file of the name.
PlaceOf(output) ==
  IF layer.archived /\ (output.kind = "model" \/ <<"archive", output.name>> \in DOMAIN files)
  THEN "archive" ELSE "folder"

HasPlace(output) == PlaceOf(output) = "archive" \/ layer.folder

Write(output, file) ==
  LET key == <<PlaceOf(output), output.name>>
  IN  files' = [k \in DOMAIN files \union {key} |-> IF k = key THEN file ELSE files[k]]

Packaging(c) == status = "building" /\ phase[c] = "packaging"
Writing(c) == Packaging(c) /\ pending # <<>>
PackageFrame == UNCHANGED <<layer, status, runs, at, rasterVars, session>>
\* The file is opened, which empties it.
OpenFile(c) ==
  /\ Writing(c) /\ ~Head(pending).open
  /\ Head(pending).kind # "node" => HasPlace(Head(pending))
  /\ pending' = [pending EXCEPT ![1].open = TRUE]
  /\ IF Head(pending).kind = "node"
     THEN nodes' = [nodes EXCEPT ![c] = Torn] /\ UNCHANGED files
     ELSE Write(Head(pending), [whole |-> FALSE]) /\ UNCHANGED nodes
  /\ UNCHANGED <<phase, cache, warned>>
  /\ PackageFrame

WriteFile(c) ==
  /\ Writing(c) /\ Head(pending).open /\ Head(pending).kind # "node"
  /\ Write(Head(pending), Head(pending).file)
  /\ pending' = Tail(pending)
  /\ UNCHANGED <<phase, cache, nodes, warned>>
  /\ PackageFrame

\* A file that cannot be written, or has no place, is reported.
FailToWrite(c) ==
  /\ Writing(c) /\ Head(pending).kind # "node"
  /\ IF Head(pending).open THEN WritesMayFail ELSE ~HasPlace(Head(pending))
  /\ warned' = warned \union {Head(pending).name}
  /\ pending' = Tail(pending)
  /\ UNCHANGED <<phase, cache, files, nodes>>
  /\ PackageFrame

\* packageNode()
WriteNode(c) ==
  /\ Writing(c) /\ Head(pending).open /\ Head(pending).kind = "node"
  /\ nodes' = [nodes EXCEPT ![c] = Head(pending).file]
  /\ pending' = Tail(pending)
  /\ UNCHANGED <<phase, cache, files, warned>>
  /\ PackageFrame

\* The cell's compiler is released with its cache.
EndOfPackaging(c) ==
  /\ Packaging(c) /\ pending = <<>>
  /\ phase' = [phase EXCEPT ![c] = "done"]
  /\ cache' = [cache EXCEPT ![c] = EmptyCache]
  /\ UNCHANGED <<pending, diskVars>>
  /\ PackageFrame

\* The failure is the result of the task; the file stays as it is.
FailToWriteNode(c) ==
  /\ Writing(c) /\ Head(pending).open /\ Head(pending).kind = "node" /\ WritesMayFail
  /\ pending' = Tail(pending)
  /\ UNCHANGED <<phase, cache, diskVars>>
  /\ PackageFrame

Finish ==
  /\ status = "building" /\ \A c \in Cells : phase[c] = "done"
  /\ status' = "finished"
  /\ UNCHANGED <<layer, runs, phase, at, rasterVars, cache, session, pending, diskVars>>

Next ==
  \/ Start \/ Crash \/ Finish
  \/ \E c \in Cells :
       \/ StartCell(c) \/ ExtrudeWalls(c) \/ SubstituteModel(c) \/ ClusterModels(c)
       \/ LookAtParts(c) \/ initPart(c) \/ PartsInitialized(c) \/ OverlayRaster(c)
       \/ EndOfCell(c) \/ Package(c) \/ OpenFile(c) \/ WriteFile(c) \/ FailToWrite(c)
       \/ WriteNode(c) \/ FailToWriteNode(c) \/ EndOfPackaging(c)

Spec == Init /\ [][Next]_vars

-----------------------------------------------------------------------------
(***************************************************************************)
(* Properties.                                                             *)
(***************************************************************************)

\* The size that a texture is to have: its own, or the smallest limit set for it.
WantedSize(packager, t) ==
  IF t.image.pixel_format \notin Resizable THEN t.image.origin.size
  ELSE Min(({packager.max, t.image.origin.size} \union t.limits) \ {0})

\* A file may be cut short only while a cell that comes later has yet to write it again.
OnDisk(c, name, origin, size) ==
  \E place \in {"folder", "archive"} :
    /\ <<place, name>> \in DOMAIN files
    /\ LET file == files[<<place, name>>]
       IN  \/ file.whole /\ file.origin = origin /\ file.size = size
           \/ ~file.whole /\ status # "finished" /\ \E d \in Cells \ {c} : ~nodes[d].exists

\* The file of a cell finds every texture and model that it refers to: the file of that name
\* has the pixels that the filters gave the state set, in the size that was asked for, or it
\* was reported.  It is so after any interruption, though cells share files and a cell whose
\* file exists is not compiled again (CellCompiler::runSynchronousPostProcess()).  What the
\* packager does not attempt is left out: textures behind the first of a state set, images
\* without a name, models that cannot be read.
NodesHaveTheirResources ==
  \A c \in Cells : nodes[c].exists /\ nodes[c] # Torn =>
    /\ \A t \in nodes[c].textures : t.first /\ t.name.base # "" =>
         LET size == WantedSize(layer.packager[c], t)
         IN  IF layer.packager[c].inline
             THEN nodes[c].embedded => t.image.size = size
             ELSE t.name \in warned \/ OnDisk(c, t.name, t.image.origin, size)
    /\ \A m \in nodes[c].models : m.resource.uri \in DOMAIN ModelFiles =>
         m.name \in warned \/ OnDisk(c, m.name, Whole(m.resource.uri, 0), 0)

Good(r) == {p \in DOMAIN Parts[r] : Parts[r][p].connects}
OneFormat(r) == \A p, q \in Good(r) : Parts[r][p].pixel_format = Parts[r][q].pixel_format

\* What a cell's cache is after each of its uses, if all parts of a raster have one format.
AfterUse(c, u) ==
  LET lib == ProjectSession.resources
      format == Parts[u.name][CHOOSE p \in Good(u.name) : TRUE].pixel_format
  IN  CASE u.kind = "walls" -> WearSkin(lib, c, u)
        [] u.kind = "model" /\ u.bulk -> CopyModel(lib, c, u)
        [] u.kind = "model" /\ ~u.bulk /\ u.inline -> InlineModel(lib, c, u)
        [] u.kind = "model" /\ ~u.bulk /\ ~u.inline -> ReferToModel(lib, c, u)
        [] u.kind = "raster" -> ApplyOverlay(lib, Good(u.name), format, c, u)
CachesOf(l, c) ==
  LET after[n \in 0..Len(l.uses[c])] ==
        IF n = 0 THEN EmptyCache ELSE AfterUse(after[n - 1], l.uses[c][n])
  IN  after
FilesOf(l, c) == packageResources(l.packager[c], CachesOf(l, c)[Len(l.uses[c])])

\* Files of one name are the same, whichever cell writes them and however often.
Apart(l) ==
  /\ \A c \in Cells : \A u \in Range(l.uses[c]) : u.kind = "raster" /\ u.name \in DOMAIN Parts => OneFormat(u.name)
  /\ \A c, d \in Cells : \A f \in ToSet(FilesOf(l, c)) : \A g \in ToSet(FilesOf(l, d)) :
       f.name = g.name => f.file = g.file

\* It has the parts of its raster that it should.
IsComplete(image) ==
  LET r == image.origin.from
  IN  r \in DOMAIN Parts /\ OneFormat(r) =>
        image.origin.parts = {p \in Good(r) : Parts[r][p].area \intersect image.origin.area # {}}

\* An overlay shows every part of its raster that can be connected to and that its area
\* meets, whichever worker looked the parts up and however the others were ahead
\* (RasterResource::applyToStateSet()).  Only the parts of the format of the last one fit.
RastersAreComplete ==
  \A c \in Cells : \A image \in ToSet(cache[c].images) : IsComplete(image)
=============================================================================
